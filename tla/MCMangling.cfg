CONSTANTS
    k1 = k1
    t1 = t1
    t2 = t2
    c1 = c1
    c2 = c2
    e1 = e1
    e2 = e2
    NULL = NULL
    Cookies <- MCCookies
    Named <- MCNamed
    Kernels <- MCKernels
    Tids <- MCTids
    Cpus <- MCCpus
    Counters <- MCCounters

SPECIFICATION Spec
SYMMETRY MCSymmetry

INVARIANT TypeOK
INVARIANT SameStoreKeySameFile
