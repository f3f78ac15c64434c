SPECIFICATION Spec
CONSTANTS
    NumTasks = 2
    Cap = 2
    Ceilings <- MCCeilings
    MaxAttempts = 2
    OneShotAttempts = 1
INVARIANTS
    DeadSessionDropped
