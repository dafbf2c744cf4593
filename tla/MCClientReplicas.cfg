SPECIFICATION MCSpec
CONSTANTS
    a = a
    b = b
    c = c
    m1 = m1
    m2 = m2
    Worker = {a, b, c}
    Manager = {m1, m2}
    History <- Move
    Key = {1}
    Value = {Empty}
    Empty = Empty
    None = None
    MaxTime = 3
    Attempts = 2
    MaxOps = 4
    MaxEvents = 5
INVARIANTS
    TypeOK
    AcknowledgedSurvives
    ReadSeesAcknowledged
    ReadsDoNotGoBack
    AgreeWhenQuiet
PROPERTY
    StoresAreVersioned
CHECK_DEADLOCK FALSE
