---------------------------- MODULE MCOprofStart ----------------------------
(* Model-checking instance of OprofStart: two counters and two events.    *)
(* evBits has a bitmask unit of two values, one bit and its last value    *)
(* that enables every bit, and runs on both counters; evExcl has an       *)
(* exclusive unit and runs on counter 1 only, so the event lists of the   *)
(* counters differ.  Counts 0..2 around a minimum and a maximum of 1 reach *)
(* both range checks of on_start_profiler.                                 *)
EXTENDS OprofStart

CONSTANTS evBits, evExcl

MCEvents == {evBits, evExcl}
MCCounterMask == (evBits :> {0, 1}) @@ (evExcl :> {1})
MCMinCount == [e \in MCEvents |-> 1]
MCUnitType == (evBits :> "bitmask") @@ (evExcl :> "exclusive")
MCUnitValues == (evBits :> <<1, 3>>) @@ (evExcl :> <<1, 2>>)
MCDefaultMask == (evBits :> 3) @@ (evExcl :> 1)
=============================================================================
