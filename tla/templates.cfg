SPECIFICATION Spec
CONSTANTS
    plain = plain
    greeting = greeting
    IDs = {t1, t2}
    NoID = NoID
    Texts <- TwoTexts
    VariablesOf <- OneVariable
    Editors = {e1, e2}
    Senders = {s1}
    MaxBatch = 2
    Empty = Empty
    Keep = Keep
INVARIANTS TypeOK StoredIsValid DeletedStaysDeleted NoDanglingReference
CHECK_DEADLOCK FALSE
