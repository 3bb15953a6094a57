SPECIFICATION Spec
CONSTANTS
    Deliveries = {d1}
    Recoveries = {r1, r2}
    NoDelivery = none
    KindsUsed = {"strict", "best_effort", "tracked"}
    Payloads = 2
    MaxRetries = 2
    Backoff <- ShortBackoff
    Budget = 4
    SendTimes = {0}
    MaxFaults = 2
INVARIANTS NothingLost RetriesCounted NoGratuitousResend
PROPERTY ImplementsOutbox
