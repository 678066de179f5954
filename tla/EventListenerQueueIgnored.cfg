\* A merge that keeps an old time, against an entry that is not older.
CONSTANTS
    Path = {a}
    WaitDelta = 1
    ForgetDelta = 2
    Calm = 3
    MaxTime = 5
SPECIFICATION Spec
INVARIANT UpdateIsRead
