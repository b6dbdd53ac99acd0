\* The tool runs after opcontrol --shutdown: the daemon may have rewritten
\* one header before, none while the tool reads.
CONSTANTS
    cpuPPro = cpuPPro
    cpuAthlon = cpuAthlon
    CpuTypes <- MCCpuTypes
    NrCounters <- MCNrCounters
    MaxCounters = 4
    ZeroCpu = cpuPPro
    DaemonCpu = cpuAthlon
    Mtimes = {1, 2}
    BinaryMtime = 2
    MaxRewrites = 1
    DaemonStopped = TRUE
SPECIFICATION Spec
\* The tool exits after its report, and the daemon's writes are bounded.
CHECK_DEADLOCK FALSE
INVARIANTS
    TypeOK
    NoSilentDrop
    StaleWarned
