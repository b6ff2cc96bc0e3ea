\* Three user programs, one more than the boot code loads.
SPECIFICATION FairSpec
CONSTANTS
    Core = Core
    Nil = Nil
    TcbChain = TcbChain
    User = {a, b, c}
    a = a
    b = b
    c = c
INVARIANTS
    TypeOK
    EveryTaskLinkedOnce
    CurrentAgrees
    SwitchCannotFault
    WalkFindsItself
PROPERTIES
    ImplementsRoundRobin
    NoStarvation
