--------------------------- MODULE ProfileHeaders ---------------------------
(***************************************************************************)
(* The read side of the sample files of one image (pp/profile.cpp), with  *)
(* the daemon that writes their headers (daemon/opd_mangling.c).          *)
(*                                                                         *)
(* A post-profile tool builds a profile_t for the counters of counter_mask:*)
(* it opens the file of each counter (open_samples_file), takes the first *)
(* open file, reads the number of counters from that file's cpu type,     *)
(* compares the other headers with it (check_headers), compares the       *)
(* binary's mtime with the first header (check_mtime), and accumulates    *)
(* the samples of the counters below nr_counters (accumulate_samples).    *)
(* For a kernel image it also sets the start offset of those files         *)
(* (set_start_offset), which the callers do before accumulating.          *)
(* The headers are read in place in the mapped files, so every read sees   *)
(* the file as it is at that moment.                                       *)
(*                                                                         *)
(* The daemon, when it opens a sample file (first sample, or again after  *)
(* an eviction), clears the header and stores its fields one by one       *)
(* (opd_mangling.c lines 156-167).  DaemonStopped says whether the tool  *)
(* runs only after the daemon has stopped (opcontrol --shutdown), or      *)
(* while it profiles.                                                      *)
(*                                                                         *)
(* A header keeps the fields the reader uses: magic and version (one      *)
(* flag), is_kernel, cpu type and the binary's mtime.  counter_profile_t and         *)
(* check_headers are not in the sources: opening validates magic and     *)
(* version and skips a bad file, and check_headers warns when cpu type or *)
(* mtime differ, as the design's header validator says.                   *)
(***************************************************************************)
EXTENDS Naturals, FiniteSets, Sequences

CONSTANTS
    MaxCounters,    \* OP_MAX_COUNTERS
    CpuTypes,       \* the op_cpu values of the model
    NrCounters,     \* [CpuTypes -> 1..MaxCounters]: op_get_nr_counters
    ZeroCpu,        \* the op_cpu whose value is 0 (CPU_PPRO): a cleared cpu_type
    DaemonCpu,      \* the cpu the daemon runs on
    Mtimes,         \* mtimes of builds of the binary, none of them 0
    BinaryMtime,    \* op_get_mtime of the binary now
    MaxRewrites,    \* bound: header writes by the daemon
    DaemonStopped   \* the tool runs after the daemon has stopped

Ctrs == 0..(MaxCounters - 1)
NoCtr == MaxCounters

ASSUME /\ NrCounters \in [CpuTypes -> 1..MaxCounters]
       /\ {ZeroCpu, DaemonCpu} \subseteq CpuTypes
       /\ BinaryMtime \in Mtimes /\ 0 \notin Mtimes
       /\ DaemonStopped \in BOOLEAN

Header == [valid : BOOLEAN, kernel : BOOLEAN, cpu : CpuTypes, mtime : Mtimes \cup {0}]

\* The header after memset(header, '\0', ...)
ZeroHeader == [valid |-> FALSE, kernel |-> FALSE, cpu |-> ZeroCpu, mtime |-> 0]

\* The header stores of lines 157-167 that the model keeps, in their order
HeaderStores == <<"magic", "is_kernel", "cpu_type", "mtime">>

VARIABLES
    exists,    \* the sample file of each counter exists
    hdr,       \* the header of each counter's file
    dctr,      \* the counter whose header the daemon is writing, or NoCtr
    dpos,      \* the next store of HeaderStores the daemon makes
    rewrites,  \* history: header writes the daemon has begun
    kernelImage, \* the image of the sample files is a kernel image
    mask,      \* the counter_mask argument of the profile_t constructor
    rpc,       \* "idle", "open", "header", "check", "mtime", "offset", "accumulate", "done", "exit"
    ri,        \* loop index of the constructor's loops
    opened,    \* the counters with samples[i] set
    first,     \* first_file
    nr,        \* nr_counters
    warned,    \* a header mismatch or an mtime warning was printed
    counted,   \* the counters whose samples accumulate_samples adds
    offset     \* the counters whose file got the start offset

daemon == <<exists, hdr, dctr, dpos, rewrites, kernelImage>>
reader == <<mask, rpc, ri, opened, first, nr, warned, counted, offset>>
vars == <<daemon, reader>>

-----------------------------------------------------------------------------
(* The daemon: opd_open_sample_file writes the header of a file it opens.  *)

\* Lines 131 and 156: odb_open creates or maps the file, and the header is
\* cleared.  The daemon only opens files of the counters of its cpu, one at
\* a time (it handles one sample at a time).
DaemonOpen(c) ==
    /\ c < NrCounters[DaemonCpu]
    /\ dctr = NoCtr
    /\ rewrites < MaxRewrites
    /\ DaemonStopped => rpc = "idle"
    /\ exists' = [exists EXCEPT ![c] = TRUE]
    /\ hdr' = [hdr EXCEPT ![c] = ZeroHeader]
    /\ dctr' = c /\ dpos' = 1
    /\ rewrites' = rewrites + 1
    /\ UNCHANGED <<kernelImage, reader>>

\* Lines 157-167: one store into the header, in program order
DaemonStore ==
    LET field == HeaderStores[dpos]
        h == hdr[dctr]
    IN  /\ dctr # NoCtr
        /\ hdr' = [hdr EXCEPT ![dctr] =
                     CASE field = "magic"    -> [h EXCEPT !.valid = TRUE]
                       [] field = "is_kernel" -> [h EXCEPT !.kernel = kernelImage]
                       [] field = "cpu_type" -> [h EXCEPT !.cpu = DaemonCpu]
                       [] field = "mtime"    -> [h EXCEPT !.mtime = BinaryMtime]]
        /\ IF dpos = Len(HeaderStores) THEN dctr' = NoCtr /\ dpos' = 0
                                       ELSE dpos' = dpos + 1 /\ UNCHANGED dctr
        /\ UNCHANGED <<exists, rewrites, kernelImage, reader>>

-----------------------------------------------------------------------------
(* The tool: the profile_t constructor (lines 31-75), check_mtime (81-90)  *)
(* set_start_offset (139-148) and accumulate_samples (108-137).            *)

\* The tool starts; after opcontrol --shutdown no header is half written.
Start ==
    /\ rpc = "idle"
    /\ DaemonStopped => dctr = NoCtr
    /\ rpc' = "open" /\ ri' = 0
    /\ UNCHANGED <<daemon, mask, opened, first, nr, warned, counted, offset>>

\* counter_profile_t validates magic and version when it maps the file
HeaderValid(c) == hdr[c].valid

\* Lines 93-106: open_samples_file.  A file that access() finds is opened,
\* and skipped if its header is bad; a missing one is skipped when the
\* call may fail, and is fatal otherwise.
open_samples_file(i, can_fail) ==
    IF exists[i] THEN IF HeaderValid(i) THEN "open" ELSE "skip"
    ELSE IF can_fail THEN "skip" ELSE "exit"

\* The state change of one iteration of the open loop
OpenStep(r) ==
    /\ opened' = IF r = "open" THEN opened \cup {ri} ELSE opened
    /\ rpc' = IF r = "exit" THEN "exit" ELSE "open"
    /\ ri' = ri + 1
    /\ UNCHANGED <<daemon, mask, first, nr, warned, counted, offset>>

\* Mutant: every counter's file is opened, whatever counter_mask says
OpenSamplesFileAnyCounter ==
    /\ rpc = "open" /\ ri < MaxCounters
    /\ OpenStep(open_samples_file(ri, mask \ {ri} # {}))

\* Lines 41-48: the file of counter ri, if its bit of counter_mask is set;
\* it may fail only when other bits are set (can_fail).
OpenSamplesFile ==
    /\ rpc = "open" /\ ri < MaxCounters
    /\ OpenStep(IF ri \in mask THEN open_samples_file(ri, mask \ {ri} # {})
                               ELSE "skip")

\* Lines 51-60: the first open file; none open is fatal
FindFirstFile ==
    /\ rpc = "open" /\ ri = MaxCounters
    /\ IF opened = {}
         THEN rpc' = "exit" /\ UNCHANGED first
         ELSE /\ first' = CHOOSE i \in opened : \A j \in opened : i <= j
              /\ rpc' = "header"
    /\ UNCHANGED <<daemon, mask, ri, opened, nr, warned, counted, offset>>

\* Mutant: nr_counters keeps the value 2 of the initializer list
ReadHeaderKeepDefault ==
    /\ rpc = "header"
    /\ rpc' = "check" /\ ri' = first + 1
    /\ UNCHANGED <<daemon, mask, opened, first, nr, warned, counted, offset>>

\* Mutant: the check loop starts one counter too far
ReadHeaderSkipNext ==
    /\ rpc = "header"
    /\ nr' = NrCounters[hdr[first].cpu]
    /\ rpc' = "check" /\ ri' = first + 2
    /\ UNCHANGED <<daemon, mask, opened, first, warned, counted, offset>>

\* Lines 62-67: nr_counters from the cpu type of the first header, read
\* from the mapped file now
ReadHeader ==
    /\ rpc = "header"
    /\ nr' = NrCounters[hdr[first].cpu]
    /\ rpc' = "check" /\ ri' = first + 1
    /\ UNCHANGED <<daemon, mask, opened, first, warned, counted, offset>>

\* check_headers: the design's check_compatible on cpu type and mtime
HeadersDiffer(a, b) == a.cpu # b.cpu \/ a.mtime # b.mtime

\* Lines 70-74: the header of counter ri against the first one
CheckHeaders ==
    /\ rpc = "check"
    /\ IF ri < MaxCounters
         THEN /\ warned' = (warned \/ (ri \in opened /\ HeadersDiffer(hdr[first], hdr[ri])))
              /\ ri' = ri + 1 /\ UNCHANGED rpc
         ELSE rpc' = "mtime" /\ UNCHANGED <<warned, ri>>
    /\ UNCHANGED <<daemon, mask, opened, first, nr, counted, offset>>

\* Lines 81-90
CheckMtime ==
    /\ rpc = "mtime"
    /\ warned' = (warned \/ BinaryMtime # hdr[first].mtime)
    /\ rpc' = "offset"
    /\ UNCHANGED <<daemon, mask, ri, opened, first, nr, counted, offset>>

\* Mutant: the start offset is set whatever the first header says
SetStartOffsetAnyImage ==
    /\ rpc = "offset"
    /\ offset' = {k \in opened : k < nr}
    /\ rpc' = "accumulate"
    /\ UNCHANGED <<daemon, mask, ri, opened, first, nr, warned, counted>>

\* Lines 139-148: only for a kernel image, as the first header says now,
\* the open files below nr_counters
SetStartOffset ==
    /\ rpc = "offset"
    /\ offset' = IF hdr[first].kernel THEN {k \in opened : k < nr} ELSE {}
    /\ rpc' = "accumulate"
    /\ UNCHANGED <<daemon, mask, ri, opened, first, nr, warned, counted>>

\* Lines 108-137: both accumulate_samples loop over k < nr_counters and
\* add the samples of the open files
AccumulateSamples ==
    /\ rpc = "accumulate"
    /\ counted' = {k \in opened : k < nr}
    /\ rpc' = "done"
    /\ UNCHANGED <<daemon, mask, ri, opened, first, nr, warned, offset>>

-----------------------------------------------------------------------------

\* The files the daemon left from earlier sessions: each written in full by
\* a daemon on a cpu that has that counter, for some build of the binary.
OldHeaders(c) == {h \in Header : /\ h.valid /\ h.kernel = kernelImage
                                 /\ c < NrCounters[h.cpu] /\ h.mtime # 0}

Init ==
    /\ kernelImage \in BOOLEAN
    /\ exists \in [Ctrs -> BOOLEAN]
    /\ hdr \in {h \in [Ctrs -> Header \cup {ZeroHeader}] :
                  \A c \in Ctrs : IF exists[c] THEN h[c] \in OldHeaders(c) ELSE h[c] = ZeroHeader}
    /\ dctr = NoCtr /\ dpos = 0 /\ rewrites = 0
    /\ mask \in SUBSET Ctrs \ {{}}
    /\ rpc = "idle" /\ ri = 0
    /\ opened = {} /\ first = NoCtr /\ nr = 2
    /\ warned = FALSE /\ counted = {} /\ offset = {}

Next ==
    \/ \E c \in Ctrs : DaemonOpen(c)
    \/ DaemonStore
    \/ Start
    \/ OpenSamplesFile
    \/ FindFirstFile
    \/ ReadHeader
    \/ CheckHeaders
    \/ CheckMtime
    \/ SetStartOffset
    \/ AccumulateSamples

Spec == Init /\ [][Next]_vars

-----------------------------------------------------------------------------
(* Properties                                                              *)

\* The tool opens only counters of counter_mask and adds samples only of
\* files it opened.
TypeOK ==
    /\ exists \in [Ctrs -> BOOLEAN]
    /\ hdr \in [Ctrs -> Header]
    /\ dctr \in Ctrs \cup {NoCtr} /\ dpos \in 0..Len(HeaderStores)
    /\ rpc \in {"idle", "open", "header", "check", "mtime", "offset", "accumulate", "done", "exit"}
    /\ kernelImage \in BOOLEAN
    /\ opened \subseteq mask /\ counted \subseteq opened /\ offset \subseteq opened
    /\ first \in Ctrs \cup {NoCtr} /\ nr \in 1..MaxCounters

\* accumulate_samples adds the samples of every file the constructor
\* opened, and set_start_offset relocates exactly those files of a kernel
\* image, unless the tool warned that the headers do not match: no counter
\* file is dropped or left unrelocated silently because nr_counters or
\* is_kernel, read from the first header, is wrong for it.
NoSilentDrop ==
    rpc = "done" /\ ~warned =>
        /\ opened \subseteq counted
        /\ offset = IF kernelImage THEN opened ELSE {}

\* A sample file opened for a build of the binary other than the current
\* one is reported, by check_headers against the first file or by
\* check_mtime for the first file itself.
StaleWarned ==
    rpc = "done" =>
        ((\E k \in opened : hdr[k].mtime # BinaryMtime) => warned)

====
