SPECIFICATION RealSpec
CONSTANTS
    Word = 256
    Para = 16
    SectorParas = 2
    PhyBase = 272
    Headers <- MCHeaders
    Hours = 2
    Minutes = 2
    Seconds = 11
    Elements = 2
    Words = 2
    MaxEvents = 4
INVARIANTS
    RealTypeOK
    ProgramIsLoaded
    ShowsATimeThatWas
    KeysComeAsTyped
PROPERTIES
    ShowsForEver
    ShownInOrder
    Arrives
\* The loaders end with a jump to the program, the typist ends his typing.
CHECK_DEADLOCK FALSE
