\* One thread, as in the daemon; two searches of one session.
CONSTANTS
    Session = {x1}
    Search = {s1, s2}
    Msg = {m1, m2}
    Job = {j1, j2}
    Thread = {t1}
    MaxHits = 1
SPECIFICATION FairSpec
INVARIANTS
    RefsExact
    CountIsComing
    OneReply
    HitsTile
PROPERTIES
    EveryCallAnswered
CHECK_DEADLOCK FALSE
