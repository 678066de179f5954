SPECIFICATION Spec
CONSTANTS
    Procs = {d1, d2}
    Dirs = {1, 2, 3}
    Filters = {10, 11, 12, 13}
    Illegible = {3, 13}
    ReadBack <- MCReadBack
    Defaults <- MCDefaults
    Requests <- MCRequests
    Nobody = Nobody
    Empty = Empty
    MaxCrashes = 2
INVARIANTS OneUser SettingsKept
PROPERTIES OneComesUp
