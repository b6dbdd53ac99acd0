------------------------------ MODULE Mangling ------------------------------
(***************************************************************************)
(* Sample file naming (daemon/opd_mangling.c): the context of a sample    *)
(* (struct sfile) and its counter are turned into the values of struct    *)
(* mangle_values by get_dep_name() and mangle_filename(), and those into a *)
(* path by op_mangle_filename().  Which fields enter the path depends on   *)
(* the four separation switches, fixed for a daemon run.                   *)
(*                                                                         *)
(* The daemon is modelled as processing samples one after another; the    *)
(* state keeps the last two samples written and the files they went to,   *)
(* which is all a property about two samples sharing a file needs.        *)
(***************************************************************************)
EXTENDS Naturals, FiniteSets

CONSTANTS
    Cookies,     \* image identities (dcookies); 0 is NO_COOKIE
    Named,       \* cookies find_cookie() resolves to a path
    Kernels,     \* kernel images (struct kernel_image)
    Tids,        \* thread and thread group ids
    Cpus,        \* cpu numbers
    Counters,    \* counters with an event in opd_events[]
    NULL         \* a missing name, a missing kernel image

ASSUME /\ 0 \in Cookies /\ Named \subseteq Cookies \ {0}
       /\ NULL \notin Cookies \cup Kernels \cup Tids \cup Cpus

\* The separation switches of the run
Switches == [kernel : BOOLEAN, lib : BOOLEAN, thread : BOOLEAN, cpu : BOOLEAN]

\* The contexts sfile_find can build: a kernel sample carries NO_COOKIE as
\* its image cookie and may carry the owning application's cookie.
Sfile ==
    {sf \in [cookie : Cookies, app_cookie : Cookies, kernel : Kernels \cup {NULL},
             tid : Tids, tgid : Tids, cpu : Cpus] :
        sf.kernel # NULL => sf.cookie = 0}

VARIABLES
    sep,       \* separate_kernel, separate_lib, separate_thread, separate_cpu
    last,      \* [sf, ctr, path] of the last sample written
    prev       \* the same for the sample written before it

vars == <<sep, last, prev>>

-----------------------------------------------------------------------------
\* find_cookie(): the image path of a cookie, NULL when it cannot be resolved
find_cookie(c) == IF c \in Named THEN c ELSE NULL

\* The event of a counter in opd_events[] (name, count and unit mask stand
\* for the whole event descriptor; distinct counters have distinct events)
find_event(ctr) == ctr

\* Mutant: the switch test of lines 39-40 dropped
GetDepNameNoSwitch(sf) ==
    IF sf.cookie = sf.app_cookie THEN NULL
    ELSE IF sf.app_cookie = 0 THEN NULL
    ELSE find_cookie(sf.app_cookie)

\* Lines 34-48
get_dep_name(sf) ==
    IF sf.cookie = sf.app_cookie THEN NULL
    ELSE IF ~sep.kernel /\ ~(sep.lib /\ sf.kernel = NULL) THEN NULL
    ELSE IF sf.app_cookie = 0 THEN NULL
    ELSE find_cookie(sf.app_cookie)

\* Mutant: separate_thread sets MANGLE_TID only
TidFlagOnly == {"TID"}

\* Line 89: the flags separate_thread sets
ThreadFlags == {"TGID", "TID"}

\* Mutant: the !values.image_name test of line 81 left out
MangleNoImageCheck(sf, ctr) ==
    LET image == IF sf.kernel # NULL THEN sf.kernel ELSE find_cookie(sf.cookie)
        dep   == get_dep_name(sf)
    IN  [flags      |-> (IF sf.kernel # NULL THEN {"KERNEL"} ELSE {})
                        \cup (IF dep # NULL THEN {"DEP_NAME"} ELSE {})
                        \cup (IF sep.thread THEN ThreadFlags ELSE {})
                        \cup (IF sep.cpu THEN {"CPU"} ELSE {}),
         image_name |-> image,
         dep_name   |-> dep,
         tid        |-> sf.tid,
         tgid       |-> sf.tgid,
         cpu        |-> sf.cpu,
         event      |-> find_event(ctr)]

\* Lines 66-106: the mangle_values, or NULL when the image has no name
mangle_filename(sf, ctr) ==
    LET image == IF sf.kernel # NULL THEN sf.kernel ELSE find_cookie(sf.cookie)
        dep   == get_dep_name(sf)
    IN  IF image = NULL THEN NULL
        ELSE [flags      |-> (IF sf.kernel # NULL THEN {"KERNEL"} ELSE {})
                             \cup (IF dep # NULL THEN {"DEP_NAME"} ELSE {})
                             \cup (IF sep.thread THEN ThreadFlags ELSE {})
                             \cup (IF sep.cpu THEN {"CPU"} ELSE {}),
              image_name |-> image,
              dep_name   |-> dep,
              tid        |-> sf.tid,
              tgid       |-> sf.tgid,
              cpu        |-> sf.cpu,
              event      |-> find_event(ctr)]

\* op_mangle_filename() (libop/op_mangle.c, not in the sources at hand):
\* one path component per flag set, escaped so that components never run
\* into each other; the path is the tuple of the components it contains.
op_mangle_filename(v) ==
    << IF "KERNEL" \in v.flags THEN "kern" ELSE "root",
       v.image_name,
       IF "DEP_NAME" \in v.flags THEN v.dep_name ELSE NULL,
       IF "TID" \in v.flags THEN v.tid ELSE NULL,
       IF "TGID" \in v.flags THEN v.tgid ELSE NULL,
       IF "CPU" \in v.flags THEN v.cpu ELSE NULL,
       v.event >>

-----------------------------------------------------------------------------
Init ==
    /\ sep \in Switches
    /\ last = NULL
    /\ prev = NULL

\* One sample of counter ctr in context sf: opd_open_sample_file names the
\* file (lines 120-123: a NULL name drops the sample) and the sample is
\* written to it.
Sample(sf, ctr) ==
    LET v == mangle_filename(sf, ctr) IN
    /\ v # NULL
    /\ last' = [sf |-> sf, ctr |-> ctr, path |-> op_mangle_filename(v)]
    /\ prev' = last
    /\ UNCHANGED sep

\* A sample whose image name cannot be resolved is dropped.
DropSample(sf, ctr) ==
    /\ mangle_filename(sf, ctr) = NULL
    /\ UNCHANGED vars

Next == \E sf \in Sfile, ctr \in Counters : Sample(sf, ctr) \/ DropSample(sf, ctr)

Spec == Init /\ [][Next]_vars

-----------------------------------------------------------------------------
(* Properties                                                              *)

TypeOK ==
    /\ sep \in Switches
    /\ \A s \in {last, prev} \ {NULL} :
          /\ s.sf \in Sfile /\ s.ctr \in Counters
          /\ s.path[2] \in Kernels \cup Named            \* a resolved image
          /\ s.path[3] \in Named \cup {NULL}

\* The design's StoreKey (section 4.2): the fields that tell two samples'
\* stores apart.  Image and event always; the owning application when the
\* sampled image is not the application itself, its name resolves, and
\* separate_kernel or separate_lib is on, for a kernel image as for a
\* library; thread ids and cpu with their switches.  get_dep_name (line 40)
\* is narrower: for a kernel sample it asks for separate_kernel.
AppSeparated(sf) ==
    /\ sf.cookie # sf.app_cookie
    /\ sf.app_cookie \in Named
    /\ sep.kernel \/ sep.lib

StoreKey(sf, ctr) ==
    [image |-> IF sf.kernel # NULL THEN sf.kernel ELSE sf.cookie,
     app   |-> IF AppSeparated(sf) THEN sf.app_cookie ELSE 0,
     tid   |-> IF sep.thread THEN sf.tid ELSE NULL,
     tgid  |-> IF sep.thread THEN sf.tgid ELSE NULL,
     cpu   |-> IF sep.cpu THEN sf.cpu ELSE NULL,
     event |-> ctr]

BothWritten == last # NULL /\ prev # NULL

\* Two samples with the same StoreKey of the design are written to the same
\* file: a field the run does not separate never splits a store, whatever
\* the switches, the kernel or library image, or an unresolved application.
SameStoreKeySameFile ==
    BothWritten /\ StoreKey(last.sf, last.ctr) = StoreKey(prev.sf, prev.ctr) =>
        last.path = prev.path

=============================================================================
