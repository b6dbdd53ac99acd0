CONSTANTS
    evBits = evBits
    evExcl = evExcl
    NoEvent = NoEvent
    Ctrs = {0, 1}
    Events <- MCEvents
    CounterMask <- MCCounterMask
    MinCount <- MCMinCount
    UnitType <- MCUnitType
    UnitValues <- MCUnitValues
    DefaultMask <- MCDefaultMask
    DefaultCount = 1
    MaxPerfCount = 1
    MaxCount = 2
    MaskBits = 2
    MaxEdits = 2
    PageFields = {"bufferOk"}
SPECIFICATION Spec
\* QDialog::accept() closes the dialog and ends the program
CHECK_DEADLOCK FALSE
INVARIANT TypeOK
PROPERTY SettingsRoundTrip
PROPERTY SetupMatchesWidgets
