----------------------------- MODULE SampleFiles -----------------------------
(***************************************************************************)
(* The daemon's table of open sample files: for each sample, find the     *)
(* sfile of its context, open the sample file of the sample's counter on  *)
(* first use with opd_open_sample_file() (daemon/opd_mangling.c), and     *)
(* record the sample.  Each open file costs a descriptor; when odb_open() *)
(* fails with EMFILE the daemon closes the files of the least recently    *)
(* used sfiles (sfile_lru_clear) and retries.  An sfile being opened is   *)
(* pinned: sfile_get() takes it off the LRU list, sfile_put() puts it back *)
(* at the most recently used end.                                          *)
(*                                                                         *)
(* A sample file's data is abstracted to the oldest version of the        *)
(* profiled binary whose samples it holds, and its header to the mtime    *)
(* field, which is what the post-profile staleness check reads.           *)
(***************************************************************************)
EXTENDS Naturals, FiniteSets, Sequences, SequencesExt, FiniteSetsExt

CONSTANTS
    Sfiles,          \* sampling contexts (struct sfile), one binary image each
    Resolvable,      \* the sfiles whose image name find_cookie() resolves
    Counters,        \* hardware counters with a configured event
    MaxFds,          \* descriptors the process may hold for sample files
    MaxMtime,        \* bound: times a profiled binary may be rebuilt
    RetryCountCap    \* bound: retries of one open the model counts before it saturates

ASSUME /\ Resolvable \subseteq Sfiles /\ Resolvable # {}
       /\ MaxFds \in Nat \ {0}
       /\ MaxMtime \in Nat
       /\ RetryCountCap \in Nat \ {0, 1}

Mtimes == 0..MaxMtime
NoFile == -1                       \* no sample file on disk yet

VARIABLES
    opened,      \* opened[s]: counters c with sf->files[c] mapped
    lru,         \* lru_list: unpinned sfiles, least recently used first
    header,      \* header[s, c]: mtime field of the file's header, or NoFile
    oldest,      \* oldest[s, c]: oldest binary mtime whose samples the file holds
    binMtime,    \* current mtime of each sfile's binary image
    pc,          \* daemon: "idle", "opening" (inside the retry loop) or "aborted"
    cur,         \* <<sf, counter>> of the open in progress
    retries      \* history: EMFILE retries of the open in progress (saturating)

vars == <<opened, lru, header, oldest, binMtime, pc, cur, retries>>

Files == Sfiles \X Counters

\* Descriptors held for sample files
OpenFds == Cardinality({f \in Files : f[2] \in opened[f[1]]})

-----------------------------------------------------------------------------
(* The sfile list management of daemon/opd_sfile.c is not in the sources  *)
(* at hand; it is taken from the design: the LRU list holds exactly the   *)
(* unpinned sfiles, and clearing evicts the least recently used one.      *)

\* lru with s moved to the most recently used end (sfile_find)
Touch(s) == Append(SelectSeq(lru, LAMBDA x : x # s), s)

\* sfile_get(sf): pin, i.e. take off the LRU list
sfile_get(s) == lru' = SelectSeq(lru, LAMBDA x : x # s)

\* sfile_put(sf): unpin, back at the most recently used end
sfile_put(s) == lru' = Append(lru, s)

\* sfile_lru_clear() returns non-zero when there is nothing to evict
LruClearFails == lru = <<>>

\* sfile_lru_clear(): close the files of the least recently used sfile
sfile_lru_clear ==
    /\ opened' = [opened EXCEPT ![Head(lru)] = {}]
    /\ lru' = Tail(lru)

\* odb_insert of the sample into an open file: the file now holds samples
\* of the binary as it is now.
RecordSample(s, c) ==
    oldest' = [oldest EXCEPT ![<<s, c>>] = IF @ = NoFile THEN binMtime[s] ELSE @]

-----------------------------------------------------------------------------
(* daemon/opd_mangling.c                                                   *)

\* Mutant: the NULL test on the mangled name (lines 122-123) left out
SampleNoNameCheck(s, c) ==
    /\ pc = "idle"
    /\ \/ /\ c \in opened[s]
          /\ lru' = Touch(s)
          /\ RecordSample(s, c)
          /\ UNCHANGED <<pc, cur, retries>>
       \/ /\ c \notin opened[s]
          /\ sfile_get(s)
          /\ pc' = "opening"
          /\ cur' = <<s, c>>
          /\ retries' = 0
          /\ UNCHANGED oldest
    /\ UNCHANGED <<opened, header, binMtime>>

\* A sample of counter c in context s (sfile_find, sfile_log_sample): the
\* file is open, or opd_open_sample_file is entered.  Lines 120-123: an
\* unresolvable image name makes the open fail with EINVAL before sfile_get.
Sample(s, c) ==
    /\ pc = "idle"
    /\ \/ /\ c \in opened[s]
          /\ lru' = Touch(s)
          /\ RecordSample(s, c)
          /\ UNCHANGED <<pc, cur, retries>>
       \/ /\ c \notin opened[s]
          /\ s \notin Resolvable
          /\ lru' = Touch(s)
          /\ UNCHANGED <<oldest, pc, cur, retries>>
       \/ /\ c \notin opened[s]
          /\ s \in Resolvable
          /\ sfile_get(s)                             \* line 129
          /\ pc' = "opening"
          /\ cur' = <<s, c>>
          /\ retries' = 0
          /\ UNCHANGED oldest
    /\ UNCHANGED <<opened, header, binMtime>>

\* Mutant: a return path that skips sfile_put
ReleaseSfileDropped(s) == lru' = lru

\* Lines 171-172: the out label, reached on success and on a plain error
ReleaseSfile(s) == sfile_put(s)

\* Mutant: a second EMFILE is fatal whatever the LRU still holds
OnEmfileRetryOnce ==
    IF LruClearFails \/ retries >= 1
      THEN /\ pc' = "aborted"
           /\ UNCHANGED <<opened, lru, retries>>
      ELSE /\ sfile_lru_clear
           /\ retries' = IF retries < RetryCountCap THEN retries + 1 ELSE retries
           /\ UNCHANGED pc

\* Mutant: goto retry without calling sfile_lru_clear
OnEmfileNoClear ==
    IF LruClearFails
      THEN /\ pc' = "aborted"
           /\ UNCHANGED <<opened, lru, retries>>
      ELSE /\ UNCHANGED <<opened, lru>>
           /\ retries' = IF retries < RetryCountCap THEN retries + 1 ELSE retries
           /\ UNCHANGED pc

\* Lines 136-141: on EMFILE, clear the LRU and retry; abort if it was empty.
OnEmfile ==
    IF LruClearFails
      THEN /\ pc' = "aborted"
           /\ UNCHANGED <<opened, lru, retries>>
      ELSE /\ sfile_lru_clear
           /\ retries' = IF retries < RetryCountCap THEN retries + 1 ELSE retries
           /\ UNCHANGED pc

\* Lines 149-168: the header is cleared and rewritten on every successful
\* open, of a new file or of one that already holds samples.
WriteHeader(s, c) == header' = [header EXCEPT ![<<s, c>>] = binMtime[s]]

\* One execution of odb_open at the retry label (lines 131-147) and what
\* follows it: the header write and sfile_put, then back in
\* sfile_log_sample the insert of the sample.
OdbOpen ==
    /\ pc = "opening"
    /\ LET s == cur[1]
           c == cur[2]
       IN \/ /\ OpenFds >= MaxFds                       \* err == EMFILE
             /\ OnEmfile
             /\ UNCHANGED <<header, oldest, cur>>
          \/ /\ OpenFds < MaxFds                        \* success
             /\ opened' = [opened EXCEPT ![s] = @ \cup {c}]
             /\ WriteHeader(s, c)
             /\ ReleaseSfile(s)
             /\ RecordSample(s, c)
             /\ pc' = "idle"
             /\ UNCHANGED <<cur, retries>>
          \/ /\ OpenFds < MaxFds                        \* other error, lines 144-146
             /\ ReleaseSfile(s)
             /\ pc' = "idle"
             /\ UNCHANGED <<opened, header, oldest, cur, retries>>
    /\ UNCHANGED binMtime

\* The profiled binary is rebuilt while the daemon runs.
BinaryRebuilt(s) ==
    /\ binMtime[s] < MaxMtime
    /\ binMtime' = [binMtime EXCEPT ![s] = @ + 1]
    /\ UNCHANGED <<opened, lru, header, oldest, pc, cur, retries>>

-----------------------------------------------------------------------------
Init ==
    /\ opened = [s \in Sfiles |-> {}]
    /\ lru = <<>>
    /\ header = [f \in Files |-> NoFile]
    /\ oldest = [f \in Files |-> NoFile]
    /\ binMtime = [s \in Sfiles |-> 0]
    /\ pc = "idle"
    /\ cur = <<CHOOSE s \in Resolvable : TRUE, CHOOSE c \in Counters : TRUE>>
    /\ retries = 0

Next ==
    \/ \E s \in Sfiles, c \in Counters : Sample(s, c)
    \/ OdbOpen
    \/ \E s \in Sfiles : BinaryRebuilt(s)

\* The daemon processes a sample to the end once it has started on it.
Spec == Init /\ [][Next]_vars /\ WF_vars(OdbOpen)

-----------------------------------------------------------------------------
(* Properties                                                              *)

TypeOK ==
    /\ opened \in [Sfiles -> SUBSET Counters]
    /\ lru \in Seq(Sfiles)
    /\ header \in [Files -> Mtimes \cup {NoFile}]
    /\ oldest \in [Files -> Mtimes \cup {NoFile}]
    /\ binMtime \in [Sfiles -> Mtimes]
    /\ pc \in {"idle", "opening", "aborted"}
    /\ cur \in Resolvable \X Counters               \* only named files are opened
    /\ retries \in 0..RetryCountCap

\* The sfile whose open is in progress (or was, when abort() stopped it)
Pinned == IF pc \in {"opening", "aborted"} THEN {cur[1]} ELSE {}

\* Every descriptor the daemon holds can be given back on EMFILE: each
\* unpinned sfile with open files is on the LRU list, exactly once.
OpenFilesEvictable ==
    /\ IsInjective(lru)
    /\ \A s \in Sfiles \ Pinned : opened[s] # {} => s \in ToSet(lru)

\* The daemon aborts on EMFILE only when no other sfile holds a descriptor:
\* the files of the sfile being opened alone exhaust the budget.
AbortOnlyWhenSelfExhausted ==
    pc = "aborted" => \A s \in Sfiles \ {cur[1]} : opened[s] = {}

\* The EMFILE retry loop of opd_open_sample_file always ends: the open
\* succeeds, fails for another reason, or the daemon aborts.
OpenRetryTerminates == (pc = "opening") ~> (pc # "opening")

\* The design: after one eviction the open is retried exactly once, and a
\* second EMFILE is fatal.
RetryAtMostOnce == retries <= 1

\* The design: a file holding samples taken before its binary was last
\* rebuilt must make the post-profile mtime check (profile_t::check_mtime)
\* warn, so its header mtime must differ from the binary's current mtime.
StaleSamplesFlagged ==
    \A f \in Files :
        (oldest[f] # NoFile /\ oldest[f] < binMtime[f[1]]) => header[f] # binMtime[f[1]]

=============================================================================
