\* The tool runs while the daemon profiles and rewrites one header.
CONSTANTS
    cpuPPro = cpuPPro
    cpuAthlon = cpuAthlon
    CpuTypes <- MCCpuTypes
    NrCounters <- MCNrCounters
    MaxCounters = 4
    ZeroCpu = cpuPPro
    DaemonCpu = cpuAthlon
    Mtimes = {1, 2}
    BinaryMtime = 2
    MaxRewrites = 1
    DaemonStopped = FALSE
SPECIFICATION Spec
\* The tool exits after its report, and the daemon's writes are bounded.
CHECK_DEADLOCK FALSE
INVARIANT
    NoSilentDrop
