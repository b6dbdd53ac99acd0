CONSTANTS
    s1 = s1
    s2 = s2
    s3 = s3
    Sfiles <- MCSfiles
    Resolvable <- MCResolvable
    Counters <- MCCounters
    MaxFds = 1
    MaxMtime = 1
    RetryCountCap = 2

SPECIFICATION Spec

\* abort() in opd_open_sample_file really stops the daemon
CHECK_DEADLOCK FALSE

INVARIANT StaleSamplesFlagged
