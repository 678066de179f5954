--------------------------- MODULE CombinedIndex ---------------------------
(* CombinedIndexManager and TSSPtr (src/bin/combinedindex): one index that   *)
(* is written, any number that are only read and that are added and removed  *)
(* while threads ask them.  A thread that asks takes a copy of the map under *)
(* the manager's lock and works on the copy without it; the pointers in the  *)
(* map and in the copies count their references, each in a step of its own   *)
(* under the pointer's lock, and the last to go deletes the index.           *)
EXTENDS Naturals, FiniteSets

CONSTANTS Thread,   \* callers of the manager
          Dir,      \* directories of indexes
          Object,   \* addresses of IndexManagers
          Map,      \* CombinedIndexManager::Private::readmanagers
          None

ASSUME Distinct == Map \notin Thread /\ None \notin Object \cup Thread \cup Dir
ASSUME Finite   == IsFiniteSet(Thread) /\ IsFiniteSet(Dir)

Holder == Thread \cup {Map}
Slot   == Holder \X Dir

\* What a call of the reader does with the map: adds up (countHits,
\* countDocuments, countWords, indexSize), keeps the last (query), throws away
\* (getHits), stops at the first that has any (getChildren), or is fieldNames.
Op == {"sum", "last", "none", "first", "names"}

VARIABLES
    lock,    \* Private::lock: the thread that has it
    ptr,     \* TSSPtr: the object in each place of the map and of the threads' copies
    count,   \* P::count
    alive,   \* the objects that were made and not deleted
    at, op, dir, todo,  \* a thread: where it is, its call, the directory and those left to do
    seen,    \* set(): t.p, before its count is raised
    dying,   \* deref(): p, when its count has become 0
    answer,  \* the objects whose results are in the result
    always, ever  \* for the properties: those in the map during all, and any, of a call

data == <<lock, ptr, count, alive, seen, dying>>
vars == <<data, at, op, dir, todo, answer, always, ever>>

Refs(o) == {s \in Slot : ptr[s] = o}

--------------------------------------------------------------------------
(* TSSPtr *)

\* deref() of what is in s: the thread that takes the last reference deletes.
Deref(t, s) ==
    /\ ptr' = [ptr EXCEPT ![s] = None]
    /\ count' = [count EXCEPT ![ptr[s]] = @ - 1]
    /\ dying' = IF count[ptr[s]] = 1 THEN [dying EXCEPT ![t] = ptr[s]] ELSE dying

Delete(t) ==
    /\ dying[t] # None
    /\ alive' = alive \ {dying[t]} /\ dying' = [dying EXCEPT ![t] = None]
    /\ UNCHANGED <<lock, ptr, count, seen, at, op, dir, todo, answer, always, ever>>

\* set() in the copy of an entry: it looks at the pointer ...
See(t) ==
    /\ at[t] = "copy" /\ seen[t] = None
    /\ \E d \in todo[t] :
         /\ dir' = [dir EXCEPT ![t] = d]
         /\ seen' = [seen EXCEPT ![t] = ptr[<<Map, d>>]]
         /\ todo' = [todo EXCEPT ![t] = @ \ {d}]
    /\ UNCHANGED <<lock, ptr, count, alive, dying, at, op, answer, always, ever>>

\* ... and then takes its lock and counts.
Count(t) ==
    /\ at[t] = "copy" /\ seen[t] # None
    /\ count' = [count EXCEPT ![seen[t]] = @ + 1]
    /\ ptr' = [ptr EXCEPT ![<<t, dir[t]>>] = seen[t]]
    /\ seen' = [seen EXCEPT ![t] = None]
    /\ UNCHANGED <<lock, alive, dying, at, op, dir, todo, answer, always, ever>>

--------------------------------------------------------------------------
(* CombinedIndexReader *)

InMap == {ptr[<<Map, d>>] : d \in Dir} \ {None}

\* The index that is written has answered, before the lock is asked for.
Read(t, o) ==
    /\ at[t] = "idle" /\ at' = [at EXCEPT ![t] = "read"] /\ op' = [op EXCEPT ![t] = o]
    /\ answer' = [answer EXCEPT ![t] = {}]
    /\ always' = [always EXCEPT ![t] = InMap] /\ ever' = [ever EXCEPT ![t] = InMap]
    /\ UNCHANGED <<data, dir, todo>>

\* A slip: the map is copied without the lock.
LockMapNot(t) ==
    /\ at[t] = "read" /\ at' = [at EXCEPT ![t] = "copy"] /\ todo' = [todo EXCEPT ![t] = Dir]
    /\ UNCHANGED <<data, op, dir, answer, always, ever>>
LockMap(t) ==
    /\ at[t] = "read" /\ lock = None
    /\ lock' = t /\ at' = [at EXCEPT ![t] = "copy"] /\ todo' = [todo EXCEPT ![t] = Dir]
    /\ UNCHANGED <<ptr, count, alive, seen, dying, op, dir, answer, always, ever>>

UnlockMap(t) ==
    /\ at[t] = "copy" /\ todo[t] = {} /\ seen[t] = None
    /\ lock' = None /\ at' = [at EXCEPT ![t] = "ask"]
    /\ todo' = [todo EXCEPT ![t] = {d \in Dir : ptr[<<t, d>>] # None}]
    /\ UNCHANGED <<ptr, count, alive, seen, dying, op, dir, answer, always, ever>>

\* A slip: each index replaces what the ones before gave.
CombinedLast(t, d) == {ptr[<<t, d>>]}

\* The indexes the result is made of, with that in d.
Combined(t, d) ==
    CASE op[t] = "sum"  -> answer[t] \cup {ptr[<<t, d>>]}
      [] op[t] = "last" -> {ptr[<<t, d>>]}
      [] OTHER          -> answer[t]

Ask(t) ==
    /\ at[t] = "ask"
    /\ \E d \in todo[t] :
         \/ /\ answer' = [answer EXCEPT ![t] = Combined(t, d)]
            /\ todo' = [todo EXCEPT ![t] = @ \ {d}]
         \/ /\ op[t] = "first"
            /\ answer' = [answer EXCEPT ![t] = {ptr[<<t, d>>]}]
            /\ todo' = [todo EXCEPT ![t] = {}]
    /\ UNCHANGED <<data, at, op, dir, always, ever>>

\* fieldNames() copies into a vector it has cleared, when there was an entry at
\* all; getChildren() asks none when the index that is written had some.
Answered(t) ==
    /\ at[t] = "ask" /\ (todo[t] = {} \/ (op[t] = "first" /\ answer[t] = {}))
    /\ \/ at' = [at EXCEPT ![t] = "release"]
       \/ /\ op[t] = "names" /\ \E d \in Dir : ptr[<<t, d>>] # None
          /\ at' = [at EXCEPT ![t] = "crashed"]
    /\ todo' = [todo EXCEPT ![t] = {}]
    /\ UNCHANGED <<data, op, dir, answer, always, ever>>

\* The copy goes, entry by entry, and the call returns.
Release(t) ==
    /\ at[t] = "release" /\ dying[t] = None
    /\ \E d \in Dir : ptr[<<t, d>>] # None /\ Deref(t, <<t, d>>)
    /\ UNCHANGED <<lock, alive, seen, at, op, dir, todo, answer, always, ever>>

Return(t) ==
    /\ at[t] = "release" /\ dying[t] = None /\ \A d \in Dir : ptr[<<t, d>>] = None
    /\ at' = [at EXCEPT ![t] = "idle"] /\ answer' = [answer EXCEPT ![t] = {}]
    /\ op' = [op EXCEPT ![t] = None] /\ dir' = [dir EXCEPT ![t] = None]
    /\ always' = [always EXCEPT ![t] = {}] /\ ever' = [ever EXCEPT ![t] = {}]
    /\ UNCHANGED <<data, todo>>

--------------------------------------------------------------------------
(* CombinedIndexManager *)

\* removeReadonlyIndex(), alone and at the beginning of addReadonlyIndex().
Change(t, d, goal) ==
    /\ at[t] = "idle" /\ at' = [at EXCEPT ![t] = goal] /\ dir' = [dir EXCEPT ![t] = d]
    /\ UNCHANGED <<data, op, todo, answer, always, ever>>

LockErase(t) ==
    /\ at[t] \in {"remove", "add", "assign"} /\ lock = None /\ lock' = t
    /\ UNCHANGED <<ptr, count, alive, seen, dying, at, op, dir, todo, answer, always, ever>>

\* Under the lock the old pointer of the directory goes: erase(), or deref() in operator=.
Erase(t) ==
    /\ at[t] \in {"remove", "add", "assign"} /\ lock = t /\ dying[t] = None
    /\ ptr[<<Map, dir[t]>>] # None /\ Deref(t, <<Map, dir[t]>>)
    /\ always' = [u \in Thread |-> always[u] \ {ptr[<<Map, dir[t]>>]}]
    /\ UNCHANGED <<lock, alive, seen, at, op, dir, todo, answer, ever>>

Erased(t) == lock = t /\ dying[t] = None /\ ptr[<<Map, dir[t]>>] = None

UnlockErase(t) ==
    /\ at[t] \in {"remove", "add"} /\ Erased(t) /\ lock' = None
    /\ at' = [at EXCEPT ![t] = IF @ = "add" THEN "create" ELSE "idle"]
    /\ dir' = [dir EXCEPT ![t] = IF at[t] = "add" THEN @ ELSE None]
    /\ UNCHANGED <<ptr, count, alive, seen, dying, op, todo, answer, always, ever>>

\* createIndexManager(), which may fail, and the temporary made of its result.
Create(t) ==
    /\ at[t] = "create"
    /\ \/ at' = [at EXCEPT ![t] = "idle"] /\ dir' = [dir EXCEPT ![t] = None] /\ UNCHANGED <<ptr, count, alive>>
       \/ \E o \in Object \ alive :
            /\ ptr' = [ptr EXCEPT ![<<t, dir[t]>>] = o]
            /\ count' = [count EXCEPT ![o] = 1] /\ alive' = alive \cup {o}
            /\ at' = [at EXCEPT ![t] = "assign"] /\ UNCHANGED dir
    /\ UNCHANGED <<lock, seen, dying, op, todo, answer, always, ever>>

\* operator= sets the map's pointer and the temporary goes, all under the lock.
Assign(t) ==
    /\ at[t] = "assign" /\ Erased(t) /\ lock' = None
    /\ ptr' = [ptr EXCEPT ![<<Map, dir[t]>>] = ptr[<<t, dir[t]>>], ![<<t, dir[t]>>] = None]
    /\ ever' = [u \in Thread |-> IF at[u] \in {"read", "copy", "ask"}
                                 THEN ever[u] \cup {ptr[<<t, dir[t]>>]} ELSE ever[u]]
    /\ at' = [at EXCEPT ![t] = "idle"] /\ dir' = [dir EXCEPT ![t] = None]
    /\ UNCHANGED <<count, alive, seen, dying, op, todo, answer, always>>

--------------------------------------------------------------------------
Init ==
    /\ lock = None /\ ptr = [s \in Slot |-> None] /\ count = [o \in Object |-> 0] /\ alive = {}
    /\ seen = [t \in Thread |-> None] /\ dying = [t \in Thread |-> None]
    /\ at = [t \in Thread |-> "idle"] /\ op = [t \in Thread |-> None] /\ dir = [t \in Thread |-> None]
    /\ todo = [t \in Thread |-> {}] /\ answer = [t \in Thread |-> {}]
    /\ always = [t \in Thread |-> {}] /\ ever = [t \in Thread |-> {}]

Step(t) ==
    \/ Delete(t) \/ See(t) \/ Count(t) \/ LockMap(t) \/ UnlockMap(t) \/ Ask(t) \/ Answered(t)
    \/ Release(t) \/ Return(t) \/ LockErase(t) \/ Erase(t) \/ UnlockErase(t) \/ Create(t) \/ Assign(t)
    \/ \E o \in Op : Read(t, o)
    \/ \E d \in Dir, goal \in {"remove", "add"} : Change(t, d, goal)

Ended == \E t \in Thread : at[t] = "crashed"
Next  == \/ ~Ended /\ \E t \in Thread : Step(t)
         \/ Ended /\ UNCHANGED vars

Spec == Init /\ [][Next]_vars

--------------------------------------------------------------------------
(* Properties *)

\* The count of an index is the number of pointers to it, in the map and in all
\* copies; an index is open as long as there is one, and gone, once the thread
\* that took the last has deleted it.  So no thread asks an index that is deleted
\* (tssptr.h:58), whatever is removed while it works on its copy.
RefsExact ==
    /\ \A o \in Object : count[o] = Cardinality(Refs(o))
    /\ \A o \in Object : Refs(o) # {} => o \in alive
    /\ \A o \in alive : Refs(o) # {} \/ \E t \in Thread : dying[t] = o

\* A number that is added up over the indexes counts each index that was there
\* during the whole call, and none that was not there at all (countHits(),
\* combinedindexmanager.cpp:178: the map is copied, and read without the lock).
AnswerCovers ==
    \A t \in Thread : at[t] = "release" /\ op[t] = "sum" =>
        always[t] \subseteq answer[t] /\ answer[t] \subseteq ever[t]
===========================================================================
