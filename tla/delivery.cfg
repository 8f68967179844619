SPECIFICATION Spec
CONSTANTS
    w1 = w1
    w2 = w2
    c1 = c1
    c2 = c2
    c3 = c3
    Calls = {c1, c2, c3}
    Hosts = {w1, w2}
    HostOf <- MCHostOf
    Outages <- MCOutages
    MAX_QUEUE_DEPTH = 2
    MaxQueueFaults = 1
    Nodes = {w1, w2}
    Home = w1
    MAX_RETRIES = 1
    MaxOutboxFaults = 1
CHECK_DEADLOCK FALSE
INVARIANT SerialUnlessTimedOut
PROPERTY QueuePlacesReturn
PROPERTY EventuallyServed
