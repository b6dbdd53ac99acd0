------------------------------ MODULE MCDbHash ------------------------------
(* Model-checking instance of DbHash: four addresses including the sentinel *)
(* value 0, a two-bit counter so saturation is reached in two inserts, and   *)
(* a file that starts with two node slots so that two growths happen.  The  *)
(* addresses 1, 5 and 9 share a bucket with four buckets and 1 and 9 still   *)
(* share one with eight, so chains of two and three nodes are walked and    *)
(* rehashed.                                                                 *)
EXTENDS DbHash

MCKeys == {0, 1, 5, 9}
MCDeltas == {1, 2}
=============================================================================
