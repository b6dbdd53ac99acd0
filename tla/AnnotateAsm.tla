----------------------------- MODULE AnnotateAsm -----------------------------
(***************************************************************************)
(* The assembly listing of opannotate --assembly (pp/opannotate.cpp,      *)
(* output_asm, output_objdump_asm, do_one_output_objdump and              *)
(* output_objdump_asm_line) for one image.  The selected symbols are      *)
(* disassembled by objdump, once per symbol over its address range when   *)
(* there are at most max_objdump_exec of them, else once over the whole   *)
(* image, and each line objdump prints is classified by its characters:   *)
(* a symbol line switches the output on or off, an instruction line is    *)
(* annotated with its samples, any other line is copied.                  *)
(*                                                                         *)
(* A line is the sequence of its characters, each a one-character string, *)
(* and the classifier reads it character by character as the code does.   *)
(* objdump is outside the program: its output is every listing it can     *)
(* print for the range, the functions of the range in address order, each*)
(* a blank line, its symbol line and one line per instruction, and with   *)
(* --source (-S) any of SourceLines before an instruction.  A listing     *)
(* line also records the instruction it stands for (addr 0: none), which  *)
(* the code never looks at and the properties do.  profile_container is   *)
(* not in the sources either: find_symbol returns the function containing *)
(* the address and find_sample the samples at it.  The text of the        *)
(* annotations is abstracted to the sample count it shows.                *)
(***************************************************************************)
EXTENDS Naturals, Sequences, SequencesExt, Functions, FiniteSetsExt, TLC

CONSTANTS
    Funcs,          \* the image's functions in address order: [vma, size]
    Count,          \* the samples at each address
    Preamble,       \* the lines objdump prints before the first function
    SourceLines,    \* the source lines objdump may interleave with -S
    Source,         \* options::source
    MaxObjdumpExec, \* max_objdump_exec (line 399)
    NoStop          \* the address past every function (--stop-address=~0)

Space == {" ", "\t"}
HexChar == [v \in 0..15 |-> <<"0","1","2","3","4","5","6","7",
                              "8","9","a","b","c","d","e","f">>[v + 1]]
HexDigit == Range(HexChar) \cup {"A", "B", "C", "D", "E", "F"}
HexVal(c) == IF c \in {"A", "B", "C", "D", "E", "F"}
             THEN CHOOSE v \in 10..15 : HexChar[v] = c
             ELSE CHOOSE v \in 0..15 : HexChar[v] = c

Syms == DOMAIN Funcs
NoSymbol == 0
Addrs(k) == Funcs[k].vma .. (Funcs[k].vma + Funcs[k].size - 1)

ASSUME /\ Funcs \in Seq([vma : 1..15, size : 1..15])
       /\ \A k \in Syms : Funcs[k].vma + Funcs[k].size <= NoStop
       /\ \A k \in Syms \ {Len(Funcs)} : Funcs[k].vma + Funcs[k].size <= Funcs[k + 1].vma
       /\ Count \in [1..NoStop -> Nat]

VARIABLES
    symbols,     \* select_symbols(choice), sorted by samples
    ranges,      \* the objdump runs still to make: <<start, end>>
    listing,     \* the lines of the running objdump not read yet
    doOutput,    \* do_output
    lastSymbol,  \* last_symbol
    out,         \* the lines printed on cout
    errors,      \* the objdump errors reported on cerr
    pc           \* "start", "objdump", "read" or "done"

vars == <<symbols, ranges, listing, doOutput, lastSymbol, out, errors, pc>>

-----------------------------------------------------------------------------
(* The classifier (lines 115-126, 202-322)                                 *)

\* str[j], with the terminating NUL at Len(str) + 1
Char(str, j) == IF j <= Len(str) THEN str[j] ELSE "NUL"

RECURSIVE SkipSpace(_, _), SkipHex(_, _), ParseHex(_, _, _)
SkipSpace(str, j) == IF j <= Len(str) /\ str[j] \in Space THEN SkipSpace(str, j + 1) ELSE j
SkipHex(str, j) == IF j <= Len(str) /\ str[j] \in HexDigit THEN SkipHex(str, j + 1) ELSE j
ParseHex(str, j, acc) ==
    IF j <= Len(str) /\ str[j] \in HexDigit
    THEN ParseHex(str, j + 1, 16 * acc + HexVal(str[j])) ELSE acc

\* strtoull(str, NULL, 16): leading white space, then hex digits
strtoull(str) == ParseHex(str, SkipSpace(str, 1), 0)

\* samples->find_symbol(image, vma) and samples->find_sample(sym, vma)
find_symbol(vma) ==
    IF \E k \in Syms : vma \in Addrs(k) THEN CHOOSE k \in Syms : vma \in Addrs(k) ELSE NoSymbol
find_sample(sym, vma) == IF sym # NoSymbol /\ vma \in Addrs(sym) THEN Count[vma] ELSE 0
\* symbol->sample.count: the samples of its addresses
SymbolCount(sym) == FoldFunctionOnSet(LAMBDA x, y : x + y, 0, Count, Addrs(sym))

\* is_symbol_line without the test of the last character
IsSymbolLineNoColon(str, pos) == Char(str, pos) = " " /\ Char(str, pos + 1) = "<"

\* Lines 251-257
is_symbol_line(str, pos) ==
    IF Char(str, pos) # " " \/ Char(str, pos + 1) # "<" THEN FALSE
    ELSE str[Len(str)] = ":"

\* A printed line: its kind, the listing line, and the count it shows
Printed(kind, ln, n) == <<[kind |-> kind, line |-> ln, count |-> n]>>

\* Lines 262-322: the printed lines, last_symbol and do_output after ln
output_objdump_asm_line(last, ln, do) ==
    LET str  == ln.chars
        p1   == SkipSpace(str, 1)
        p2   == SkipHex(str, p1)
        text == [last |-> last, do |-> do, print |-> Printed("text", ln, 0)]
    IN  IF (p1 > Len(str) \/ str[p1] \notin HexDigit) /\ do THEN text    \* lines 280-285
        ELSE IF (p2 > Len(str) \/ (str[p2] \notin Space /\ str[p2] # ":")) /\ do
             THEN text                                                  \* lines 290-295
        ELSE IF is_symbol_line(str, p2)                                 \* lines 297-313
             THEN LET s == find_symbol(strtoull(str))
                      d == s \in Range(symbols)
                  IN  [last |-> s, do |-> d,
                       print |-> IF d THEN Printed("symbol", ln, SymbolCount(s)) ELSE << >>]
        ELSE [last |-> last, do |-> do,                                 \* lines 314-319
              print |-> IF do THEN Printed("asm", ln, find_sample(last, strtoull(str))) ELSE << >>]

-----------------------------------------------------------------------------
(* What objdump prints                                                     *)

SymLine(k) == [chars |-> <<HexChar[Funcs[k].vma], " ", "<", "n", ">", ":">>, addr |-> 0]
AsmLine(a) == [chars |-> <<" ", HexChar[a], ":", " ", "x">>, addr |-> a]

SourceChoices ==
    IF Source THEN {<< >>} \cup {<<[chars |-> c, addr |-> 0]>> : c \in SourceLines}
    ELSE {<< >>}

\* The instruction lines of the addresses as, each after an optional source line
RECURSIVE Instructions(_)
Instructions(as) ==
    IF as = << >> THEN {<< >>}
    ELSE {s \o <<AsmLine(Head(as))>> \o r : s \in SourceChoices, r \in Instructions(Tail(as))}

\* The listings of the functions ks, cut at the stop address e
RECURSIVE FunctionListings(_, _)
FunctionListings(ks, e) ==
    IF ks = << >> THEN {<< >>}
    ELSE LET k  == Head(ks)
             as == SelectSeq([j \in 1..Funcs[k].size |-> Funcs[k].vma + j - 1], LAMBDA a : a < e)
         IN  {<<[chars |-> << >>, addr |-> 0], SymLine(k)>> \o l \o r :
                 l \in Instructions(as), r \in FunctionListings(Tail(ks), e)}

\* objdump -d --start-address=s --stop-address=e
Objdump(s, e) ==
    LET ks == SelectSeq([j \in Syms |-> j], LAMBDA k : s <= Funcs[k].vma /\ Funcs[k].vma < e)
    IN  {Preamble \o l : l \in FunctionListings(ks, e)}

-----------------------------------------------------------------------------

\* ObjdumpRanges with a stop address one past each symbol
RangesPastEnd(syms) ==
    IF Len(syms) <= MaxObjdumpExec
    THEN [j \in 1..Len(syms) |-> <<Funcs[syms[j]].vma, Funcs[syms[j]].vma + Funcs[syms[j]].size + 1>>]
    ELSE <<<<0, NoStop>>>>

\* Lines 399-410: one run per symbol over [vma, vma + size), or one run
\* over the whole image
ObjdumpRanges(syms) ==
    IF Len(syms) <= MaxObjdumpExec
    THEN [j \in 1..Len(syms) |-> <<Funcs[syms[j]].vma, Funcs[syms[j]].vma + Funcs[syms[j]].size>>]
    ELSE <<<<0, NoStop>>>>

\* select_symbols(choice) keeps the symbols whose share of the samples
\* reaches the threshold: with one, every symbol with as many samples.  The
\* sort by samples orders the objdump runs; any order is allowed here.
Selections ==
    {s \in BoundedSeq(Syms, Len(Funcs)) :
        /\ IsInjective(s)
        /\ \A k \in Range(s), k2 \in Syms : SymbolCount(k2) >= SymbolCount(k) => k2 \in Range(s)}

Init ==
    /\ symbols \in Selections
    /\ ranges = << >>
    /\ listing = << >>
    /\ doOutput = TRUE
    /\ lastSymbol = NoSymbol
    /\ out = << >>
    /\ errors = 0
    /\ pc = "start"

\* output_asm (lines 414-428) calling output_objdump_asm (390-411); the
\* header output_info prints is left out
OutputAsm ==
    /\ pc = "start"
    /\ ranges' = ObjdumpRanges(symbols)
    /\ pc' = "objdump"
    /\ UNCHANGED <<symbols, listing, doOutput, lastSymbol, out, errors>>

\* Lines 325-359: objdump is started for the next range, or fails to start
StartObjdump ==
    /\ pc = "objdump" /\ ranges # << >>
    /\ ranges' = Tail(ranges)
    /\ \/ /\ errors' = errors + 1                                       \* lines 350-354
          /\ UNCHANGED <<listing, doOutput, lastSymbol, pc>>
       \/ /\ errors' = errors
          /\ \E l \in Objdump(Head(ranges)[1], Head(ranges)[2]) : listing' = l
          /\ doOutput' = TRUE /\ lastSymbol' = NoSymbol
          /\ pc' = "read"
    /\ UNCHANGED <<symbols, out>>

\* Lines 361-364: one line read from objdump and classified
ReadLine ==
    /\ pc = "read" /\ listing # << >>
    /\ LET r == output_objdump_asm_line(lastSymbol, Head(listing), doOutput) IN
       /\ out' = out \o r.print
       /\ lastSymbol' = r.last
       /\ doOutput' = r.do
    /\ listing' = Tail(listing)
    /\ UNCHANGED <<symbols, ranges, errors, pc>>

\* Lines 366-386: end of objdump's output; output on its stderr, or its
\* death by a signal, is only reported
EndObjdump ==
    /\ pc = "read" /\ listing = << >>
    /\ pc' = "objdump"
    /\ errors' \in {errors, errors + 1}
    /\ UNCHANGED <<symbols, ranges, listing, doOutput, lastSymbol, out>>

Finish ==
    /\ pc = "objdump" /\ ranges = << >>
    /\ pc' = "done"
    /\ UNCHANGED <<symbols, ranges, listing, doOutput, lastSymbol, out, errors>>

Next == OutputAsm \/ StartObjdump \/ ReadLine \/ EndObjdump \/ Finish

Spec == Init /\ [][Next]_vars

-----------------------------------------------------------------------------
(* Properties                                                              *)

\* The line forms of the comments of lines 248-250 and 271-274: white
\* space, hex digits, then " <" and a last ':' for a symbol line, or then
\* white space or ':' for an instruction line.
SpacesThenHex(str, k, m) ==
    /\ k < m /\ m <= Len(str)
    /\ \A j \in 1..k : str[j] \in Space
    /\ \A j \in (k + 1)..m : str[j] \in HexDigit
    /\ m < Len(str) => str[m + 1] \notin HexDigit

SymbolForm(str) ==
    \E k, m \in 0..Len(str) : SpacesThenHex(str, k, m) /\ m + 2 <= Len(str)
        /\ str[m + 1] = " " /\ str[m + 2] = "<" /\ str[Len(str)] = ":"

InstructionForm(str) ==
    /\ ~SymbolForm(str)
    /\ \E k, m \in 0..Len(str) : SpacesThenHex(str, k, m) /\ m < Len(str)
            /\ str[m + 1] \in Space \cup {":"}

\* The number its hex digits spell
LeadingValue(str) ==
    LET km == CHOOSE km \in (0..Len(str)) \X (0..Len(str)) : SpacesThenHex(str, km[1], km[2])
    IN  FoldLeft(LAMBDA acc, c : 16 * acc + HexVal(c), 0, SubSeq(str, km[1] + 1, km[2]))

\* Every line objdump prints is handled by its form, whether the output is
\* on or off: a symbol line turns the output on exactly when its symbol is
\* selected and is printed then with the symbol's samples; an instruction
\* line is printed, while the output is on, with the samples at its
\* address in the last symbol; any other line is copied while the output
\* is on.  This is what the scans and early returns of
\* output_objdump_asm_line and is_symbol_line implement.
ListingFollowsGrammar ==
    [][ pc = "read" /\ listing # << >> =>
        LET ln  == Head(listing)
            str == ln.chars
        IN  IF SymbolForm(str)
            THEN /\ lastSymbol' = find_symbol(LeadingValue(str))
                 /\ doOutput' = (lastSymbol' \in Range(symbols))
                 /\ out' = out \o IF doOutput' THEN Printed("symbol", ln, SymbolCount(lastSymbol'))
                                  ELSE << >>
            ELSE /\ UNCHANGED <<lastSymbol, doOutput>>
                 /\ out' = out \o
                      IF ~doOutput THEN << >>
                      ELSE IF InstructionForm(str)
                      THEN Printed("asm", ln, find_sample(lastSymbol, LeadingValue(str)))
                      ELSE Printed("text", ln, 0) ]_vars

Occurrences(ln) == {j \in DOMAIN out : out[j].line = ln}

\* The comment of lines 393-395: one objdump run per symbol is only an
\* optimisation of filtering one run of the whole image.  Either way no
\* symbol or instruction is ever listed twice, nothing of a symbol that is
\* not selected is listed, an instruction shows the samples at its address,
\* and when no objdump run failed the listing shows every selected symbol
\* and each of its instructions.
InstructionsOnce ==
    \A k \in Syms :
        LET n     == IF k \in Range(symbols) THEN 1 ELSE 0
            Shown == {Occurrences(SymLine(k))} \cup {Occurrences(AsmLine(a)) : a \in Addrs(k)}
        IN  /\ \A o \in Shown : Cardinality(o) <= n
            /\ pc = "done" /\ errors = 0 => \A o \in Shown : Cardinality(o) = n
            /\ \A a \in Addrs(k) : \A j \in Occurrences(AsmLine(a)) : out[j].count = Count[a]
====
