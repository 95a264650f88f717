SPECIFICATION Spec
CONSTANTS
    r1 = r1
    r2 = r2
    r3 = r3
    r4 = r4
    Rows = {r1, r2, r3, r4}
    CreatedAt <- TwoAtOnce
    GroupOf <- LastApart
    Statuses = {1, 2}
    NewStatus = 2
    RawSorts = {"unknown"}
    RawOffsets <- Nowhere
    RawLimits <- Raw
    Absent = Absent
    DefaultLimit = 1
    MaxLimit = 2
    MaxLeft = 1
INVARIANTS TypeOK ShortPageMissesOnlyLeavers TotalMissesOnlyLatecomers
CHECK_DEADLOCK FALSE
