\* Two user programs, one of which raises an exception.
SPECIFICATION FaultSpec
CONSTANTS
    Core = Core
    Nil = Nil
    TcbChain = TcbChain
    User = {a, b}
    a = a
    b = b
    Faulty = {a}
INVARIANTS
    CurrentIsFound
CHECK_DEADLOCK FALSE
