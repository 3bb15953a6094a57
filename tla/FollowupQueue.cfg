SPECIFICATION Spec
CONSTANTS
    m1 = m1
    m2 = m2
    m3 = m3
    Messages = {m1, m2, m3}
    RouteOf <- MCRouteOf
    Configs <- MCConfigs
    MaxQueues = 2
    MaxArrivals = 4
    MaxFailures = 1
CHECK_DEADLOCK FALSE
INVARIANT Accounted
PROPERTY QueueDrains
