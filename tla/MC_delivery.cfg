CONSTANTS
    w1 = w1
    w2 = w2
    Workers = {w1, w2}
    NoWorker = NoWorker
    Events = {"e1", "e2"}
    Endpoints = {"shop"}
    MaxRetries = 2
    MaxVersion = 2
    FaultBudget = 1
    ChangeBudget = 1
SPECIFICATION MCSpec
INVARIANTS OneClaimPerEndpoint AttemptsDistinct RetriesBounded DrainedIsQuiet SentAsCommitted
PROPERTIES ClaimsRespected DeliveriesSettle ImplementsContract
