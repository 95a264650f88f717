SPECIFICATION Spec
CONSTANTS
    c1 = c1
    c2 = c2
    c3 = c3
    Callers <- TwoCallers
    FailureThreshold = 2
    SuccessThreshold = 2
INVARIANT OneProbe
