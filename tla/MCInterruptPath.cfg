SPECIFICATION FairSpec
INVARIANTS
    TypeOK
    InServiceOnlyInHandlers
    FlagIsSignalled
    TickHasCause
PROPERTIES
    ClockInterruptsForever
