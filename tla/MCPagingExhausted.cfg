\* The c17 kernel, with fewer frames than one program needs.
SPECIFICATION Spec
CONSTANTS
    Entries = 11
    PageMapLen = 12
    InUse <- MCInUse
    BootFrames = 4
    Programs = 1
    ImageSizes = {1, 10}
    StackPages = 1
    ReloadsCr3 = TRUE
PROPERTIES
    ExhaustionHalts
CHECK_DEADLOCK FALSE
