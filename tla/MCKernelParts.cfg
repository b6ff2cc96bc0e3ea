SPECIFICATION Spec
CONSTANTS
    Base = 3
    HeadBase = 2
    Capacity = 60
    Cylinders = 9
    Heads = 2
    Spt = 2
    Requests <- MCRequests
    BadSets = {{}, {3}, {25}, {53}}
    MaxRequests = 2
    Applications = {"a", "b", "c"}
    Headers <- MCHeaders
    CSalt <- MCCSalt
    CoreSizes = {3, 8, 9, 24, 25}
    SectorBytes = 8
    Unit = 16
    Fields = 64
    TcbBytes = 6
    LdtBytes = 64
    TssBytes = 12
    Start = 16
    \* Two programs of two segments and a gate fill tables of eight
    \* descriptors; addresses have bits in each of their bytes.
    Program = {"p", "q"}
    Gates = {{0, 12, 31}}
    Bases = {{}, {0, 9, 17, 23, 24, 31}}
    Segments = 2
    TableBytes = 64
    Core = "core"
    User = {"a", "b", "c"}
    Nil = "nil"
    TcbChain = "tcb_chain"
INVARIANTS
    TypeOK
    RequestsAreServed
    ProgramsAreWhole
    SelectorsDecode
PROPERTIES
    KernelReadsOnlyGoodSectors
    PointersImplementRoundRobin
\* Requests and programs come to an end.
CHECK_DEADLOCK FALSE
