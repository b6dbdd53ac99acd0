CONSTANTS
    NoName = NoName
    NoDir = NoDir
    Dirs <- MCDirs
    SourceFiles <- MCSourceFiles
    Names <- MCNames
    Cwd <- MCCwd
    MaxNames = 2
SPECIFICATION Spec
\* opannotate exits after the last file
CHECK_DEADLOCK FALSE
PROPERTY OutputConfined
