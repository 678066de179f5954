-------------------------------- MODULE JobPool --------------------------------
(***************************************************************************)
(* What a job queue promises its clients, without its list, its mutexes    *)
(* and its condition variable: a job that was accepted is waiting until    *)
(* one thread takes it, is with that thread until it ends, and is never    *)
(* with two; a job that is still waiting is dropped only when the queue is *)
(* being stopped, and a queue that is gone has no job left.                *)
(***************************************************************************)
CONSTANTS Job, Thread

VARIABLES
    place,   \* place[j]: "free", "queued", or the thread that has job j
    life     \* "open", "stopping" or "gone"

poolVars == <<place, life>>

PoolInit ==
    /\ place = [j \in Job |-> "free"]
    /\ life = "open"

Submit(j) ==
    /\ life = "open"
    /\ place[j] = "free"
    /\ place' = [place EXCEPT ![j] = "queued"]
    /\ UNCHANGED life

Take(j, t) ==
    /\ life # "gone"
    /\ place[j] = "queued"
    /\ \A k \in Job : place[k] # t
    /\ place' = [place EXCEPT ![j] = t]
    /\ UNCHANGED life

Finish(j, t) ==
    /\ life # "gone"
    /\ place[j] = t
    /\ place' = [place EXCEPT ![j] = "free"]
    /\ UNCHANGED life

Stop ==
    /\ life = "open"
    /\ life' = "stopping"
    /\ UNCHANGED place

DropQueued ==
    /\ life = "stopping"
    /\ place' = [j \in Job |-> IF place[j] = "queued" THEN "free" ELSE place[j]]
    /\ UNCHANGED life

Vanish ==
    /\ life = "stopping"
    /\ \A j \in Job : place[j] = "free"
    /\ life' = "gone"
    /\ UNCHANGED place

PoolNext ==
    \/ \E j \in Job : Submit(j)
    \/ \E j \in Job, t \in Thread : Take(j, t) \/ Finish(j, t)
    \/ Stop
    \/ DropQueued
    \/ Vanish

PoolSpec == PoolInit /\ [][PoolNext]_poolVars
=============================================================================
