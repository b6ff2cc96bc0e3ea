\* The c16 kernel: one program, long enough to cover the linear address of
\* the boot sector's frame.
SPECIFICATION Spec
CONSTANTS
    Entries = 11
    PageMapLen = 30
    InUse <- MCInUse
    BootFrames = 4
    Programs = 1
    ImageSizes = {1, 10}
    StackPages = 1
    ReloadsCr3 = FALSE
INVARIANTS
    ProgramsKeepTheirPages
CHECK_DEADLOCK FALSE
