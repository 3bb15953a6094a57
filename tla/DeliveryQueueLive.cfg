SPECIFICATION FairSpec
CONSTANTS
    Deliveries = {d1}
    Recoveries = {r1}
    NoDelivery = none
    KindsUsed = {"strict"}
    Payloads = 1
    MaxRetries = 5
    Backoff <- SourceBackoff
    Budget = 12
    SendTimes = {0}
    MaxFaults = 0
PROPERTIES EntrySettles
