----------------------------- MODULE MCMangling -----------------------------
(* Two images besides NO_COOKIE, one of which find_cookie() cannot resolve,  *)
(* one kernel image, two thread ids, two cpus and two counters: every field  *)
(* of struct sfile takes two values, so every switch can separate or merge.  *)
(* Thread ids, cpus and counters are model values: the daemon only compares *)
(* them and copies them into the path, so renaming them is a symmetry.      *)
EXTENDS Mangling, TLC

CONSTANTS k1, t1, t2, c1, c2, e1, e2

MCCookies == {0, 1, 2}
MCNamed == {1}
MCKernels == {k1}
MCTids == {t1, t2}
MCCpus == {c1, c2}
MCCounters == {e1, e2}

MCSymmetry == Permutations(MCTids) \cup Permutations(MCCpus) \cup Permutations(MCCounters)
=============================================================================
