\* The manager halts after the last program.
SPECIFICATION FairSpec
CONSTANT Programs = 4
INVARIANTS
    TypeOK
    SwitchIsLegal
    BusyIsChain
    EndsAsStarted
PROPERTY ImplementsCoroutines
CHECK_DEADLOCK FALSE
