SPECIFICATION Spec
CONSTANTS
    n1 = n1
    n2 = n2
    q1 = q1
    p1 = p1
    p2 = p2
    h1 = h1
    h2 = h2
    s1 = s1
    s2 = s2
    r1 = r1
    r2 = r2
    w1 = w1
    w2 = w2
    Nil = Nil
    Notifications = {n1}
    Scheduled = {}
    KeyOf <- Keys
    MaxAttempts = 2
    Queues = {q1}
    QueueOf <- OneQueueOf
    MaxResends = 0
    Handlers = {h1}
    MaxBatch = 1
    ScheduledTickers = {s1}
    RetryTickers = {r1}
    FetchLimit = 1
    Workers = {w1}
    Serves <- OneServes
    Processes = {p1}
    ProcessOf <- OneProcess
    Faults = {"shutdown"}
INVARIANT StopDrains
CHECK_DEADLOCK FALSE
