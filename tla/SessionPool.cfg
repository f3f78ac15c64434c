SPECIFICATION LiveSpec
CONSTANTS
    NumTasks = 3
    Cap = 2
    Ceilings <- MCCeilings
    MaxAttempts = 2
    OneShotAttempts = 2
INVARIANTS
    TypeOK
    PermitsConserved
    SessionExclusive
    SessionsWithinCap
    AnswerDeliveredOnce
    NothingLeftOpen
    NobodyStuck
PROPERTIES
    CrossedOnlyAfterTimeout
    DeliversInOrder
    EveryStepAdvances
    FanoutReturns
