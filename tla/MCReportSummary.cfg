CONSTANTS
    appA = appA
    appB = appB
    libL = libL
    NrGroups = 2
    Images <- MCImages
    Libs = {libL}
    ImageOrder <- MCImageOrder
    SampleCounts = {1, 2}
    Threshold = 50
    ReverseSort = FALSE
SPECIFICATION Spec
\* opreport returns once output_summaries has printed every application
CHECK_DEADLOCK FALSE
INVARIANT TypeOK
INVARIANT SummaryTotalsConsistent
INVARIANT SummaryMatchesFiles
INVARIANT DepsListed
