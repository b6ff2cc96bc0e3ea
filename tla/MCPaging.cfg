\* The c17 kernel: three loads, the frames run out during the third (or the
\* second, if the first two programs are large).
SPECIFICATION Spec
CONSTANTS
    Entries = 11
    PageMapLen = 30
    InUse <- MCInUse
    BootFrames = 4
    Programs = 3
    ImageSizes = {1, 10}
    StackPages = 1
    ReloadsCr3 = TRUE
INVARIANTS
    TypeOK
    ProgramsKeepTheirPages
    TssVisibleEverywhere
    ProgramsAreDisjoint
    OneFrameReached
PROPERTIES
    LoadingDisturbsNobody
