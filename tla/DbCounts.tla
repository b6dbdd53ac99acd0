------------------------------ MODULE DbCounts ------------------------------
(***************************************************************************)
(* What a sample file promises its users: a total map from sample address *)
(* (db_key_t) to a saturating counter (db_value_t).  Inserting (k, d) adds *)
(* d to the counter of k, clamping at the largest representable value     *)
(* instead of wrapping.  Nothing else ever changes a counter.             *)
(***************************************************************************)
EXTENDS Naturals

CONSTANTS
    Keys,       \* sample addresses (offsets inside the image)
    Deltas,     \* amounts a single insert may add
    MaxValue    \* ~(db_value_t)0, the saturation point

ASSUME Deltas \subseteq 1..MaxValue

VARIABLE counts     \* counts[k]: accumulated samples at address k

TypeOK == counts \in [Keys -> 0..MaxValue]

Init == counts = [k \in Keys |-> 0]

\* The saturating sum min(c + d, MaxValue)
SaturatingSum(c, d) == IF c + d > MaxValue THEN MaxValue ELSE c + d

Insert(k, d) == counts' = [counts EXCEPT ![k] = SaturatingSum(@, d)]

Next == \E k \in Keys, d \in Deltas : Insert(k, d)

Spec == Init /\ [][Next]_counts

=============================================================================
