CONSTANTS
    Funcs <- MCFuncs
    Count <- MCCount
    Preamble <- MCPreamble
    SourceLines <- MCSourceLines
    Source = TRUE
    MaxObjdumpExec = 2
    NoStop = 8
SPECIFICATION Spec
\* opannotate exits after the last objdump run
CHECK_DEADLOCK FALSE
PROPERTY ListingFollowsGrammar
INVARIANT InstructionsOnce
