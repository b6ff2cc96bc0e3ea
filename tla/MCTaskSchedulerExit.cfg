SPECIFICATION FairSpec
CONSTANTS
    Core = Core
    Nil = Nil
    TcbChain = TcbChain
    User = {a, b}
    a = a
    b = b
PROPERTIES
    ExitReturnsToCore
