------------------------------ MODULE Annotate ------------------------------
(***************************************************************************)
(* The source annotation of opannotate (pp/opannotate.cpp: annotate_source,*)
(* output_source, output_one_file).  With --source-dir or --output-dir    *)
(* each source file that has samples is annotated into a file of the      *)
(* output directory, named by the file's path with the source directory   *)
(* removed; without them every annotation goes to cout.                   *)
(*                                                                         *)
(* A path is the sequence of its components: "/s/a.c" is <<"s", "a.c">>,  *)
(* the root directory "/" is << >>.  For absolute paths without empty     *)
(* components this is exact for what the code does to strings: a         *)
(* directory string begins and ends with '/', so string::find meets it    *)
(* only at component boundaries; erasing it from the front of a file name *)
(* leaves the remaining components; appending a name to a directory       *)
(* string concatenates the sequences ("//" names the same directory as    *)
(* "/").  The options are absolute paths, for which relative_to_absolute_ *)
(* path returns its argument; NoDir is the empty option string.  A file's *)
(* content is the original source of a path or an annotation (of a file,  *)
(* with the content read from it); the wording of an annotation is left   *)
(* out.  The --assembly branch (objdump listings on cout) is AnnotateAsm. *)
(***************************************************************************)
EXTENDS Sequences, SequencesExt, Functions, TLC

CONSTANTS
    Dirs,         \* directories the options may name
    SourceFiles,  \* source files that exist when opannotate starts
    Names,        \* file names select_filename may return: paths and NoName
    NoName,       \* the empty file name (code without debug information)
    NoDir,        \* an option given as the empty string, or not at all
    Cwd,          \* the current directory
    MaxNames      \* the most file names select_filename returns

ASSUME /\ Cwd \in Dirs
       /\ NoDir \notin Dirs
       /\ NoName \in Names
       /\ SourceFiles \subseteq Names \ {NoName}

\* The file contents: original source, annotation of a file, or none
Orig(p) == [kind |-> "orig", file |-> p]
Annot(f, c) == [kind |-> "annot", file |-> f, body |-> c]
Absent == [kind |-> "absent"]

VARIABLES
    sourceDir,    \* options::source_dir
    outputDir,    \* options::output_dir
    separate,     \* output_separate_file
    filenames,    \* samples->select_filename(threshold)
    matched,      \* the names file_filter matches
    i,            \* the index of output_source's loop (1-based)
    pc,           \* "start", "files", "done" or "failed"
    fs,           \* the file system: path -> content
    cout          \* the annotations printed on standard output

vars == <<sourceDir, outputDir, separate, filenames, matched, i, pc, fs, cout>>

\* libutil/file_manip.cpp, on the absolute paths of the model
relative_to_absolute_path(p) == IF p = NoDir THEN Cwd ELSE p

\* ifstream in(filename): the content, or Absent when the open fails
Read(f) == IF f # NoName /\ f \in DOMAIN fs THEN fs[f] ELSE Absent

\* out_filename.find(source_dir): "0", a later position "mid", or "npos".
\* The empty string is found at 0; a directory only ahead of the last
\* component, since the directory string ends with '/'.
FindSourceDir(f) ==
    IF sourceDir = NoDir \/ IsPrefix(sourceDir, Front(f)) THEN "0"
    ELSE IF sourceDir \in SubSeqs(Front(f)) THEN "mid"
    ELSE "npos"

\* Lines 528-533 and 540: the output file name of f found in the source
\* directory, or (a later position) not erased
OutFilename(f) ==
    IF FindSourceDir(f) = "0" /\ sourceDir # NoDir
         THEN outputDir \o SubSeq(f, Len(sourceDir) + 1, Len(f))
    ELSE outputDir \o f

\* Lines 520-566.  createOk is the result of create_path, openOk that of
\* the ofstream; is_files_identical holds when both names are one file.
output_one_file(in, f, createOk, openOk) ==
    LET out == OutFilename(f) IN
    IF ~separate THEN /\ cout' = Append(cout, Annot(f, in))      \* lines 523-526
                      /\ fs' = fs
    ELSE /\ cout' = cout
         /\ IF \/ FindSourceDir(f) = "npos"                          \* lines 533-538
               \/ ~createOk                                        \* lines 542-546
               \/ out = f /\ f \in DOMAIN fs                        \* lines 548-556
               \/ ~openOk                                           \* lines 558-561
            THEN fs' = fs
            ELSE fs' = (out :> Annot(f, in)) @@ fs                  \* lines 562-564

-----------------------------------------------------------------------------

Init ==
    /\ sourceDir \in Dirs \cup {NoDir}
    /\ outputDir \in Dirs \cup {NoDir}
    /\ separate = FALSE
    /\ filenames \in {s \in BoundedSeq(Names, MaxNames) : IsInjective(s)}
    /\ matched \in SUBSET Range(filenames)
    /\ i = 1
    /\ pc = "start"
    /\ fs \in {[p \in E |-> Orig(p)] : E \in SUBSET SourceFiles}
    /\ cout = << >>

\* Lines 601-636 and 645 with the first lines of output_source (571-572):
\* the two options are made absolute (a trailing '/' is implicit in a
\* path of the model), output_dir is created, and the same directory for
\* both is refused.
AnnotateSource ==
    /\ pc = "start"
    /\ LET sep1 == sourceDir # NoDir
           sd   == IF sep1 THEN relative_to_absolute_path(sourceDir) ELSE sourceDir
           sep  == outputDir # NoDir \/ sep1
           od   == IF sep THEN relative_to_absolute_path(outputDir) ELSE outputDir
       IN  \E createOk \in BOOLEAN :
             /\ sourceDir' = sd /\ outputDir' = od /\ separate' = sep
             /\ IF sep /\ (~createOk \/ od = sd)
                  THEN pc' = "failed" /\ cout' = cout
                  ELSE /\ pc' = "files"
                       /\ cout' = IF sep THEN cout ELSE Append(cout, "info")
    /\ UNCHANGED <<filenames, matched, i, fs>>

\* One turn of the loop of output_source (lines 575-597)
OutputSource ==
    /\ pc = "files" /\ i <= Len(filenames)
    /\ LET f == filenames[i] IN
       IF f \in matched /\ f # NoName
         THEN \E createOk, openOk \in BOOLEAN :
                 output_one_file(Read(f), f, createOk, openOk)
         ELSE UNCHANGED <<fs, cout>>
    /\ i' = i + 1
    /\ UNCHANGED <<sourceDir, outputDir, separate, filenames, matched, pc>>

Finish ==
    /\ pc = "files" /\ i > Len(filenames)
    /\ pc' = "done"
    /\ UNCHANGED <<sourceDir, outputDir, separate, filenames, matched, i, fs, cout>>

Next == AnnotateSource \/ OutputSource \/ Finish

Spec == Init /\ [][Next]_vars

-----------------------------------------------------------------------------
(* Properties                                                              *)

\* The comments of lines 534 and 548: a file outside the source directory
\* is ignored, and an annotation never replaces the file it is read from.
\* Taken together: no step of opannotate replaces a source file the
\* profile names, and every file it writes is the annotation of a file
\* under --source-dir.
OutputConfined ==
    [][ /\ \A f \in Range(filenames) \cap DOMAIN fs : fs'[f] = fs[f]
        /\ \A p \in DOMAIN fs' :
              (p \notin DOMAIN fs \/ fs'[p] # fs[p]) /\ sourceDir \in Dirs
                  => IsPrefix(sourceDir, Front(fs'[p].file)) ]_vars

====
