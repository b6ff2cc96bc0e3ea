\* Programs call @PrintDwordAsHexString, which the kernel exports.
SPECIFICATION Spec
CONSTANTS
    Rows = 3
    Columns = 3
    Byte = 4
    Task = {"kernel", "user"}
    Messages <- MCMessages
    Numbers <- MCNumbers
    HexTasks = {"user"}
INVARIANTS
    ScreenAsTyped
