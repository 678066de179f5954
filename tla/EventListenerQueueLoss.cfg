\* The collision in run(): one path is enough, with the deltas apart.
CONSTANTS
    Path = {a}
    WaitDelta = 1
    ForgetDelta = 2
    Calm = 3
    MaxTime = 5
SPECIFICATION Spec
INVARIANT NoReportLost
