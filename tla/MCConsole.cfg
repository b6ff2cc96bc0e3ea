\* The kernel prints numbers only before it lets the clock interrupt.
SPECIFICATION Spec
CONSTANTS
    Rows = 3
    Columns = 3
    Byte = 4
    Task = {"kernel", "user"}
    Messages <- MCMessages
    Numbers <- MCNumbers
    HexTasks = {}
INVARIANTS
    TypeOK
    ScreenAsTyped
    MessagesAreWhole
PROPERTIES
    PrintedTextStays
