\* One path and reports of any kind; 60 s and 120 s become 0 and 1, files
\* change in seconds 1 and 2, and the clock goes on to 4.
CONSTANTS
    Path = {a}
    WaitDelta = 0
    ForgetDelta = 1
    Calm = 2
    MaxTime = 4
SPECIFICATION Spec
INVARIANTS
    TypeOK
    NetEffect
    PresentIsCurrent
    CreatedIsNew
    InOrder
    Debounced
PROPERTY Drains
