----------------------------- MODULE OprofStart -----------------------------
(***************************************************************************)
(* The configuration dialog oprof_start (gui/oprof_start.cpp).  The       *)
(* dialog keeps, per hardware counter, the selected event (current_event), *)
(* whether the counter is used (ctr_enabled) and the settings of every     *)
(* event on it (event_cfgs); the widgets show the settings of the event of *)
(* the counter being edited (current_ctr).  Qt callbacks run one at a time *)
(* on the GUI thread, and one callback calls others (counter_selected     *)
(* calls record_selected_event_config and display_event, a setChecked()   *)
(* emits toggled()).  The dialog and its widgets are therefore one record, *)
(* gui, and each method an operator from record to record, so that a      *)
(* callback is the composition of the methods it calls, in their order.   *)
(*                                                                         *)
(* The opcontrol script is outside the sources: the model keeps the       *)
(* arguments of the last --setup that succeeded, and whether the profiler *)
(* runs.  Texts, labels, help strings and layout are left out.            *)
(***************************************************************************)
EXTENDS Naturals, Sequences, FiniteSets, Bitwise, SequencesExt

CONSTANTS
    Ctrs,           \* counter numbers 0 .. op_nr_counters - 1
    Events,         \* the event catalog of the cpu (op_events), by name
    NoEvent,        \* a null op_event_descr pointer
    CounterMask,    \* [Events -> SUBSET Ctrs]: descr.counter_mask
    MinCount,       \* [Events -> Nat]: descr.min_count
    UnitType,       \* [Events -> {"none", "mandatory", "exclusive", "bitmask"}]
    UnitValues,     \* [Events -> Seq(Nat)]: um[i].value for i < unit->num
    DefaultMask,    \* [Events -> Nat]: unit->default_mask
    DefaultCount,   \* the initial count of line 119 (cpu_speed * 500)
    MaxPerfCount,   \* max_perf_count() of a performance-counter cpu
    MaxCount,       \* bound: largest count typed into event_count_edit
    MaskBits,       \* width of a unit mask in the model
    MaxEdits,       \* bound: changes the user makes to widgets
    PageFields      \* the configuration page widgets the user changes

Counts == 0..MaxCount
Masks  == 0..(2^MaskBits - 1)
UnitTypes == {"none", "mandatory", "exclusive", "bitmask"}

ASSUME /\ NoEvent \notin Events
       /\ CounterMask \in [Events -> SUBSET Ctrs]
       /\ UnitType \in [Events -> UnitTypes]
       /\ UnitValues \in [Events -> Seq(Masks)]
       /\ DefaultMask \in [Events -> Masks]
       /\ DefaultCount \in Counts
       /\ PageFields \subseteq {"sepLib", "sepKernel", "bufferOk"}

FirstCtr == CHOOSE c \in Ctrs : \A d \in Ctrs : c <= d

\* Only as many check boxes as the largest unit (check0 .. check15)
CheckIdx == 0..(Max({Len(UnitValues[e]) : e \in Events}) - 1)

NUnits(e) == Len(UnitValues[e])

\* The events the list offers for counter c (line 439)
EventsOf(c) == {e \in Events : c \in CounterMask[e]}

\* struct event_setting
Setting == [count : Counts, os : BOOLEAN, user : BOOLEAN, umask : Masks]

\* The arguments of one counter in an opcontrol --setup
CtrArg == [event : Events, count : Counts, os : BOOLEAN, user : BOOLEAN, umask : Masks]

\* The arguments of an opcontrol --setup: whether --ctrN options are
\* given at all, those of each counter (NoEvent: --ctrN-event=none), and
\* --separate.  NoSetup stands for no --setup having succeeded.
SetupArgs == [done : BOOLEAN, counters : BOOLEAN, ctrs : [Ctrs -> CtrArg \cup {NoEvent}],
              separate : {"library", "kernel", "none"}]

NoSetup == [done |-> FALSE, counters |-> FALSE, ctrs |-> [c \in Ctrs |-> NoEvent],
            separate |-> "none"]

VARIABLES
    gui,       \* the oprof_start object and its widgets
    running,   \* the profiler daemon runs
    setup,     \* the arguments of the last opcontrol --setup that succeeded
    open,      \* the dialog has not been accepted yet
    edited,    \* history: a settings widget was changed since the last display_event
    edits      \* history: changes the user made to widgets so far

vars == <<gui, running, setup, open, edited, edits>>

-----------------------------------------------------------------------------
(* Methods of oprof_start, each an operator on the dialog record.          *)

\* Lines 647-665: the check boxes are hidden, and keep their checked state
hide_masks(g) == [g EXCEPT !.shown = 0]

\* Mutant: every bitmask box is checked when it shares a bit with the mask
SetupUnitMasksNoLast(g, e) ==
    LET h    == hide_masks(g)
        m    == g.cfgs[g.ctr][e].umask
        v(i) == UnitValues[e][i + 1]
        on(i) == IF UnitType[e] = "exclusive" THEN m = v(i) ELSE (m & v(i)) # 0
    IN  IF UnitType[e] \in {"none", "mandatory"} THEN h
        ELSE [h EXCEPT !.exclusive = (UnitType[e] = "exclusive"),
                       !.checks = [i \in CheckIdx |-> IF i < NUnits(e) THEN on(i) ELSE h.checks[i]],
                       !.shown = NUnits(e)]

\* Lines 667-717.  The last value of a bitmask unit enables every bit, so
\* its box is checked only when the mask equals it.
setup_unit_masks(g, e) ==
    LET h    == hide_masks(g)
        m    == g.cfgs[g.ctr][e].umask
        last == NUnits(e) - 1
        v(i) == UnitValues[e][i + 1]
        on(i) == IF UnitType[e] = "exclusive" \/ i = last THEN m = v(i) ELSE (m & v(i)) # 0
    IN  IF UnitType[e] \in {"none", "mandatory"} THEN h
        ELSE [h EXCEPT !.exclusive = (UnitType[e] = "exclusive"),
                       !.checks = [i \in CheckIdx |-> IF i <= last THEN on(i) ELSE h.checks[i]],
                       !.shown = NUnits(e)]

\* Mutant: the values of a bitmask unit are added instead of or-ed
GetUnitMaskPartAdd(e, num, selected, mask) ==
    IF ~selected \/ num >= NUnits(e) THEN mask
    ELSE IF UnitType[e] = "bitmask" THEN mask + UnitValues[e][num + 1]
    ELSE UnitValues[e][num + 1]

\* Lines 601-612
get_unit_mask_part(e, num, selected, mask) ==
    IF ~selected \/ num >= NUnits(e) THEN mask
    ELSE IF UnitType[e] = "bitmask" THEN mask | UnitValues[e][num + 1]
    ELSE UnitValues[e][num + 1]

\* Lines 615-645: the boxes are read in order, check0 first
get_unit_mask(g, e) ==
    CASE UnitType[e] = "none"      -> 0
      [] UnitType[e] = "mandatory" -> DefaultMask[e]
      [] OTHER -> FoldLeft(LAMBDA mask, i : get_unit_mask_part(e, i, g.checks[i], mask),
                           0, [j \in 1..Cardinality(CheckIdx) |-> j - 1])

\* Lines 457-488: updates are switched off first, and back on only at the
\* end of the non-null branch.
display_event(g, e) ==
    LET h == [g EXCEPT !.updates = FALSE] IN
    IF e = NoEvent
      THEN hide_masks([h EXCEPT !.os = FALSE, !.user = FALSE, !.count = 0,
                                !.ringsEnabled = FALSE])
      ELSE LET s == g.cfgs[g.ctr][e] IN
           [setup_unit_masks(h, e) EXCEPT !.ringsEnabled = TRUE, !.os = s.os,
                                           !.user = s.user, !.count = s.count,
                                           !.updates = TRUE]

\* What the settings widgets show for event e
Shown(g, e) ==
    [count |-> g.count, os |-> g.os, user |-> g.user, umask |-> get_unit_mask(g, e)]

\* Mutant: the unit mask boxes are not read back when a setting is recorded
RecordNoUnitMask(g) ==
    LET c == g.ctr
        e == g.event[c]
    IN  IF e = NoEvent THEN g
        ELSE [g EXCEPT !.cfgs[c][e] = [Shown(g, e) EXCEPT !.umask = g.cfgs[c][e].umask]]

\* Lines 538-552
record_selected_event_config(g) ==
    LET c == g.ctr
        e == g.event[c]
    IN  IF e = NoEvent THEN g
        ELSE [g EXCEPT !.cfgs[c][e] = Shown(g, e)]

\* Lines 511-522
enabled_toggled(g, en) ==
    LET c == g.ctr
        h == [g EXCEPT !.enabled[c] = en,
                       !.event[c] = IF en THEN @ ELSE NoEvent,
                       !.listEnabled = en]
    IN  display_event(h, h.event[c])

\* enabled->setChecked(v): Qt emits toggled(v) only when the state changes
set_enabled_box(g, v) ==
    IF g.enabledBox = v THEN g ELSE enabled_toggled([g EXCEPT !.enabledBox = v], v)

\* Lines 424-455
counter_selected(g, c) ==
    LET h1 == record_selected_event_config([g EXCEPT !.updates = FALSE])
        h2 == display_event([h1 EXCEPT !.ctr = c], h1.event[c])
        h3 == set_enabled_box(h2, h2.enabled[c])
    IN  [h3 EXCEPT !.updates = TRUE]

\* Lines 491-501
event_selected(g, e) ==
    LET h == display_event(record_selected_event_config(g), e)
    IN  [h EXCEPT !.event[h.ctr] = e]

\* Lines 557-599: the buffer and note table sizes are checked before the
\* separation flags are copied into config.
record_config(g) ==
    IF g.bufferOk THEN [g EXCEPT !.config = [lib |-> g.sepLib, kernel |-> g.sepKernel]]
    ELSE g

\* Lines 719-722 and the checks of lines 761-792 on one counter's settings
ValidSetting(e, s) ==
    /\ s.os \/ s.user
    /\ MinCount[e] <= s.count /\ s.count <= MaxPerfCount
    /\ ~(UnitType[e] = "bitmask" /\ s.umask = 0)

\* Lines 886-892
separate_arg(cfg) ==
    IF cfg.lib THEN "library" ELSE IF cfg.kernel THEN "kernel" ELSE "none"

\* Lines 840-870: the arguments save_config hands to opcontrol --setup
save_config_args(g) ==
    LET used == {c \in Ctrs : g.event[c] # NoEvent /\ g.enabled[c]}
        arg(c) == [event |-> g.event[c]] @@ g.cfgs[c][g.event[c]]
    IN  [done     |-> TRUE,
         counters |-> used # {},
         ctrs     |-> [c \in Ctrs |-> IF c \in used THEN arg(c) ELSE NoEvent],
         separate |-> separate_arg(g.config)]

\* save_config (lines 827-897): record_config, then opcontrol --setup,
\* whose success is execOk.  The result is <<ok, dialog, setup>>.
save_config(g, execOk) ==
    LET h == record_config(g) IN
    IF ~g.bufferOk THEN <<FALSE, h, setup>>
    ELSE <<execOk, h, IF execOk THEN save_config_args(h) ELSE setup>>

-----------------------------------------------------------------------------
(* The constructor (lines 53-215).  The daemonrc read by load_config_file  *)
(* and read_set_events names an event, or none, for each counter, and the *)
(* two separation flags; the per-event settings start at the defaults of  *)
(* lines 106-130 (the values of the oprof_start_event files are ones the  *)
(* widgets can produce, and are reached by edits).  The separation flags  *)
(* start off: config is only read after record_config has overwritten it  *)
(* from the boxes, which the user can check.  The "enabled" box starts in *)
(* the state the dialog's form gives it, either one.                      *)

DefaultSetting(e) ==
    [count |-> DefaultCount, os |-> TRUE, user |-> TRUE,
     umask |-> IF UnitType[e] = "none" THEN 0 ELSE DefaultMask[e]]

DaemonrcEvents == {f \in [Ctrs -> Events \cup {NoEvent}] : \A c \in Ctrs : f[c] \in EventsOf(c) \cup {NoEvent}}

\* Lines 53-215 with read_set_events (lines 218-277)
oprof_start(f, sep, box) ==
    LET g0 == [ctr |-> FirstCtr, event |-> f, enabled |-> [c \in Ctrs |-> f[c] # NoEvent],
               cfgs |-> [c \in Ctrs |-> [e \in Events |-> DefaultSetting(e)]],
               count |-> 0, os |-> FALSE, user |-> FALSE, ringsEnabled |-> TRUE,
               checks |-> [i \in CheckIdx |-> FALSE], shown |-> 0, exclusive |-> FALSE,
               updates |-> TRUE, enabledBox |-> box, listEnabled |-> TRUE,
               sepLib |-> sep.lib, sepKernel |-> sep.kernel, bufferOk |-> TRUE,
               config |-> sep]
        g1 == enabled_toggled(g0, g0.enabled[FirstCtr])       \* line 197
        g2 == display_event(g1, g1.event[FirstCtr])           \* line 198
    IN  counter_selected(g2, FirstCtr)                        \* line 205

Init ==
    /\ gui \in {oprof_start(f, [lib |-> FALSE, kernel |-> FALSE], box) :
                   f \in DaemonrcEvents, box \in BOOLEAN}
    /\ running = FALSE
    /\ setup = NoSetup
    /\ open = TRUE
    /\ edited = FALSE
    /\ edits = 0

-----------------------------------------------------------------------------
(* The callbacks Qt runs for the user, one at a time.                      *)

\* A counter picked in counter_combo
CounterSelected(c) ==
    /\ open
    /\ gui' = counter_selected(gui, c)
    /\ edited' = FALSE
    /\ UNCHANGED <<running, setup, open, edits>>

\* An event picked in events_list, which is enabled only for a used counter
EventSelected(e) ==
    /\ open /\ gui.listEnabled
    /\ e \in EventsOf(gui.ctr)
    /\ gui' = event_selected(gui, e)
    /\ edited' = FALSE
    /\ UNCHANGED <<running, setup, open, edits>>

\* A click on the "enabled" box
EnabledClicked ==
    /\ open
    /\ gui' = enabled_toggled([gui EXCEPT !.enabledBox = ~@], ~gui.enabledBox)
    /\ edited' = FALSE
    /\ UNCHANGED <<running, setup, open, edits>>

\* The user changes a settings widget; they are disabled while no event is shown.
EditCount(n) ==
    /\ open /\ gui.ringsEnabled
    /\ edits < MaxEdits
    /\ edits' = edits + 1
    /\ gui' = [gui EXCEPT !.count = n]
    /\ edited' = TRUE
    /\ UNCHANGED <<running, setup, open>>

ToggleRing(r) ==
    /\ open /\ gui.ringsEnabled
    /\ edits < MaxEdits
    /\ edits' = edits + 1
    /\ gui' = [gui EXCEPT ![r] = ~@]
    /\ edited' = TRUE
    /\ UNCHANGED <<running, setup, open>>

\* A click on a shown unit mask box; in an exclusive group it becomes the
\* only checked box.
ToggleCheck(i) ==
    /\ open /\ i < gui.shown
    /\ edits < MaxEdits
    /\ edits' = edits + 1
    /\ gui' = [gui EXCEPT !.checks = IF gui.exclusive THEN [j \in CheckIdx |-> j = i]
                                      ELSE [@ EXCEPT ![i] = ~@]]
    /\ edited' = TRUE
    /\ UNCHANGED <<running, setup, open>>

\* The configuration page: the separation boxes, and buffer and note table
\* sizes typed in or out of their ranges.
EditConfigPage ==
    /\ open
    /\ edits < MaxEdits
    /\ edits' = edits + 1
    /\ \E f \in PageFields : gui' = [gui EXCEPT ![f] = ~@]
    /\ UNCHANGED <<running, setup, open, edited>>

\* Lines 736-824.  userRestart is the answer to "stop and restart it?",
\* setupOk and startOk the results of the two opcontrol runs.
OnStartProfiler ==
    LET g      == record_selected_event_config(gui)
        active == {c \in Ctrs : g.enabled[c] /\ g.event[c] # NoEvent}
    IN  /\ open
        /\ \/ /\ \/ active = {}                                         \* lines 746-749
                \/ \E c \in active : ~ValidSetting(g.event[c], g.cfgs[c][g.event[c]])
              /\ gui' = g
              /\ UNCHANGED <<running, setup>>
           \/ /\ active # {}
              /\ \A c \in active : ValidSetting(g.event[c], g.cfgs[c][g.event[c]])
              /\ \E userRestart, setupOk, startOk \in BOOLEAN :
                    IF running /\ ~userRestart
                      THEN gui' = g /\ UNCHANGED <<running, setup>>   \* lines 802-803
                      ELSE LET r == save_config(g, setupOk) IN         \* on_stop_profiler first
                           /\ gui' = r[2]
                           /\ setup' = r[3]
                           /\ running' = (r[1] /\ startOk)
        /\ UNCHANGED <<open, edited, edits>>

\* Lines 901-912
OnStopProfiler ==
    /\ open /\ running
    /\ running' = FALSE
    /\ UNCHANGED <<gui, setup, open, edited, edits>>

\* Lines 358-369: record, save, and close the dialog whatever save_config says
Accept ==
    /\ open
    /\ \E setupOk \in BOOLEAN :
         LET r == save_config(record_selected_event_config(gui), setupOk) IN
         /\ gui' = r[2]
         /\ setup' = r[3]
    /\ open' = FALSE
    /\ UNCHANGED <<running, edited, edits>>

Next ==
    \/ \E c \in Ctrs : CounterSelected(c)
    \/ \E e \in Events : EventSelected(e)
    \/ EnabledClicked
    \/ \E n \in Counts : EditCount(n)
    \/ \E r \in {"os", "user"} : ToggleRing(r)
    \/ \E i \in CheckIdx : ToggleCheck(i)
    \/ EditConfigPage
    \/ OnStartProfiler
    \/ OnStopProfiler
    \/ Accept

Spec == Init /\ [][Next]_vars

-----------------------------------------------------------------------------
(* Properties                                                              *)

TypeOK ==
    /\ gui.ctr \in Ctrs
    /\ gui.event \in [Ctrs -> Events \cup {NoEvent}]
    /\ \A c \in Ctrs : gui.event[c] \in EventsOf(c) \cup {NoEvent}
    /\ gui.cfgs \in [Ctrs -> [Events -> Setting]]
    /\ gui.count \in Counts /\ gui.checks \in [CheckIdx -> BOOLEAN]
    /\ setup \in SetupArgs
    /\ running \in BOOLEAN /\ open \in BOOLEAN /\ edited \in BOOLEAN

\* No callback changes a recorded event setting unless the user changed a
\* widget since the settings were last displayed: showing a setting in the
\* widgets (display_event, setup_unit_masks) and reading it back
\* (record_selected_event_config, get_unit_mask) is the identity, whatever
\* counters and events the user switches between.
SettingsRoundTrip == [][~edited => gui'.cfgs = gui.cfgs]_vars

\* A profiler started or set up from the dialog gets, for the counter being
\* edited, exactly the settings its widgets show when the button is pressed.
SetupMatchesWidgets ==
    [][ (setup' # setup /\ gui.enabled[gui.ctr] /\ gui.event[gui.ctr] # NoEvent)
          => setup'.ctrs[gui.ctr] = [event |-> gui.event[gui.ctr]] @@ Shown(gui, gui.event[gui.ctr]) ]_vars

====
