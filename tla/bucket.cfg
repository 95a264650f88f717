SPECIFICATION Spec
CONSTANTS
    c1 = c1
    c2 = c2
    i1 = i1
    i2 = i2
    Rate = 400
    Burst = 2
    Callers = {c1, c2}
    Instances = {i1, i2}
    InstanceOf <- TwoInstances
    MaxTime = 6
INVARIANTS TypeOK RateBound RetryAfterWithinOneMs
CHECK_DEADLOCK FALSE
