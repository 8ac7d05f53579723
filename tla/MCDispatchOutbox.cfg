\* Two operations, two workers, two attempts, batches of up to a day.
CONSTANTS
    w1 = w1
    w2 = w2
    NumOperations = 2
    Workers <- MCWorkers
    MaxAttempts = 2
    BatchDays = 1
SPECIFICATION LiveSpec
INVARIANTS OutboxTypeOK DeliveredIsAppended LeaseExclusive
PROPERTIES OperationsResolve
