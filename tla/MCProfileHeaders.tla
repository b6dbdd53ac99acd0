-------------------------- MODULE MCProfileHeaders --------------------------
(* Model-checking instance of ProfileHeaders: four counters; cpuPPro      *)
(* (CPU_PPRO, value 0, two counters) and cpuAthlon (CPU_ATHLON, four      *)
(* counters, the cpu of the daemon); two builds of the binary, 2 the      *)
(* current one.                                                            *)
EXTENDS ProfileHeaders, TLC

CONSTANTS cpuPPro, cpuAthlon

MCCpuTypes == {cpuPPro, cpuAthlon}
MCNrCounters == (cpuPPro :> 2) @@ (cpuAthlon :> 4)
=============================================================================
