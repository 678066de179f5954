--------------------------- MODULE EventListenerQueue ---------------------------
(***************************************************************************)
(* The queue between the file system listeners and the index scheduler     *)
(* (bin/daemon/eventlistener/eventlistenerqueue.cpp), with the scheduler   *)
(* that empties it.  It keeps at most one Event per path in each of three  *)
(* maps:                                                                   *)
(*                                                                         *)
(*   toProcess   what the next getEvents() hands to the scheduler          *)
(*   processed   what was handed over lately                               *)
(*   waiting     what was reported about a path that is in processed       *)
(*                                                                         *)
(* One mutex guards the maps.  addEvents() keeps it over a whole vector of *)
(* events (BeginAdd, AddEvent*, EndAdd); run() and getEvents() only try to *)
(* take it, and do nothing when they fail.                                 *)
(*                                                                         *)
(* Times are seconds of one clock, as time() and st_mtime give them.  The  *)
(* scheduler compares the time of an UPDATED event with the mtime of the   *)
(* entry, and an event that others were merged into keeps its own time.    *)
(***************************************************************************)
EXTENDS Integers

CONSTANTS
    Path,         \* the paths events are about
    WaitDelta,    \* `delta' of run(): an event waits longer than this
    ForgetDelta,  \* `delta' of purgeProcessedEvents()
    Calm,         \* bound: files change and are reported up to this second
    MaxTime       \* bound: the last second of the clock

ASSUME DeltaAssumption ==
    /\ WaitDelta \in Nat
    /\ ForgetDelta \in Nat

ASSUME ClockAssumption ==
    /\ Calm \in Nat \ {0}
    /\ MaxTime \in Nat
    /\ Calm + WaitDelta < MaxTime

VARIABLES
    toProcess,    \* m_toProcess
    processed,    \* m_processed
    waiting,      \* m_waiting
    adding,       \* TRUE while addEvents() holds m_mutex
    now,          \* time()
    stamp,        \* time of the Event the listener created last
    toindex,      \* paths the scheduler has yet to read: what is left of toindex
    mtime,        \* mtime[p]: mtime of the index entry of p, 0 when there is none
    outdated,     \* paths whose file changed since it was read
    file,         \* file[p]: the last change of p: is it there, and since when
    present,      \* present[p]: p exists, as the listener reported it last
    unreported,   \* unreported[p]: the changes of p since the last up-to-date report
    leaked,       \* paths an Event of which no map points to any more
    ignored,      \* paths whose event, not newer than the entry, left a wrong entry
    missed        \* paths a report about which did not fit the one before

queues == <<toProcess, processed, waiting>>
index == <<toindex, mtime, outdated>>
files == <<file, present, unreported>>
history == <<leaked, ignored, missed>>
vars == <<queues, adding, now, stamp, index, files, history>>

-----------------------------------------------------------------------------

Type == {"CREATED", "UPDATED", "DELETED"}
Time == 1..MaxTime
Event == [type : Type, time : Time]

\* A write or a removal of a file.
Change == [there : BOOLEAN, time : Time]

\* No entry for a path: map::find() == map::end().
NoEvent == [type |-> "none", time |-> 0]
Slot == Event \cup {NoEvent}

Holds(queue, p) == queue[p].type # "none"

\* checkElapsedTime(): a strict comparison.
ElapsedTime(event, delta) == now - event.time > delta

-----------------------------------------------------------------------------
(***************************************************************************)
(* Merging two events about one path.                                      *)
(***************************************************************************)

\* Slips in the table: a CREATED that loses against a DELETED, and one that
\* stays as it is.
MergedTypeOldWins(old, new) ==
    CASE new = "DELETED" /\ old = "CREATED" -> "none"
      [] old = "DELETED" -> "DELETED"
      [] new = "UPDATED" /\ old = "CREATED" -> "CREATED"
      [] OTHER -> new
MergedTypeCreates(old, new) ==
    CASE new = "DELETED" /\ old = "CREATED" -> "none"
      [] new = "UPDATED" /\ old = "CREATED" -> "CREATED"
      [] OTHER -> new

\* The simplification table, as the nested switch computes it.
MergedType(old, new) ==
    CASE new = "DELETED" /\ old = "CREATED" -> "none"
      [] new = "DELETED" /\ old # "CREATED" -> "DELETED"
      [] new = "UPDATED" /\ old = "CREATED" -> "CREATED"
      [] OTHER -> "UPDATED"

\* A slip: an event that should leave its map stays there.
UpdateEventTypeKeeps(old, new) == [old EXCEPT !.type = MergedType(old.type, new)]

\* updateEventType(): the old event keeps its time, or leaves its map.
UpdateEventType(old, new) ==
    LET type == MergedType(old.type, new)
    IN  IF type = "none" THEN NoEvent ELSE [old EXCEPT !.type = type]

PutInWaiting(p, event) ==
    waiting' = [waiting EXCEPT ![p] = IF Holds(waiting, p)
                                      THEN UpdateEventType(@, event.type)
                                      ELSE event]

PutInToProcess(p, event) ==
    toProcess' = [toProcess EXCEPT ![p] = IF Holds(toProcess, p)
                                          THEN UpdateEventType(@, event.type)
                                          ELSE event]

-----------------------------------------------------------------------------

\* The files are there or not, and the index has what is there.
Init ==
    /\ toProcess = [p \in Path |-> NoEvent]
    /\ processed = [p \in Path |-> NoEvent]
    /\ waiting = [p \in Path |-> NoEvent]
    /\ adding = FALSE
    /\ now = 1
    /\ stamp = 1
    /\ present \in [Path -> BOOLEAN]
    /\ file = [p \in Path |-> [there |-> present[p], time |-> 1]]
    /\ mtime = [p \in Path |-> IF present[p] THEN 1 ELSE 0]
    /\ toindex = {}
    /\ outdated = {}
    /\ unreported = [p \in Path |-> {}]
    /\ leaked = {}
    /\ ignored = {}
    /\ missed = {}

\* A file is written, or removed.
ChangeFile(p) ==
    /\ now <= Calm
    /\ \E there \in BOOLEAN :
           LET change == [there |-> there, time |-> now] IN
           /\ there \/ file[p].there
           /\ file' = [file EXCEPT ![p] = change]
           /\ unreported' = [unreported EXCEPT ![p] = @ \cup {change}]
    /\ outdated' = outdated \cup {p}
    /\ UNCHANGED <<queues, adding, now, stamp, toindex, mtime, present, history>>

\* addEvents() takes the mutex for a vector of events.
BeginAdd ==
    /\ ~ adding
    /\ adding' = TRUE
    /\ UNCHANGED <<queues, now, stamp, index, files, history>>

\* An event may tell of a change: it was made after it, and says what it did.
Tells(type, time, change) == change.there = (type # "DELETED") /\ change.time <= time

\* What a listener that misses nothing reports: a path is created when it was
\* not there, updated and deleted when it was, and such a change has happened.
Consistent(p, type, time) ==
    /\ (type = "CREATED") = ~ present[p]
    /\ \E change \in unreported[p] : Tells(type, time, change)

\* One iteration of addEvents(), with the outcome of its first two searches.
\* The listener created the event some time ago, but not before the one it
\* created last.
AddEventWhere(p, type, time, held) ==
    LET event == [type |-> type, time |-> time] IN
    /\ adding
    /\ now <= Calm
    /\ stamp' = time
    /\ IF held
       THEN PutInWaiting(p, event) /\ UNCHANGED toProcess
       ELSE PutInToProcess(p, event) /\ UNCHANGED waiting
    /\ present' = [present EXCEPT ![p] = type # "DELETED"]
    /\ unreported' = [unreported EXCEPT ![p] = IF Tells(type, time, file[p]) THEN {}
                                               ELSE IF Consistent(p, type, time) THEN @
                                               ELSE {file[p]}]
    /\ ignored' = ignored \ {p}
    /\ missed' = IF Consistent(p, type, time) THEN missed ELSE missed \cup {p}
    /\ UNCHANGED <<processed, adding, now, index, file, leaked>>

\* A slip: one of the two searches is left out.
AddEventNotInProcessed(p, type, time) == AddEventWhere(p, type, time, Holds(waiting, p))

AddEvent(p, type, time) ==
    AddEventWhere(p, type, time, Holds(processed, p) \/ Holds(waiting, p))

EndAdd ==
    /\ adding
    /\ adding' = FALSE
    /\ UNCHANGED <<queues, now, stamp, index, files, history>>

-----------------------------------------------------------------------------
(***************************************************************************)
(* One pass of run(), every five seconds, when the mutex is free.          *)
(***************************************************************************)

Promotable == {p \in Path : Holds(waiting, p) /\ ElapsedTime(waiting[p], WaitDelta)}

\* A slip: a promoted event is not erased from its map.
PromoteKeeping ==
    /\ toProcess' = [p \in Path |-> IF p \in Promotable /\ ~ Holds(toProcess, p)
                                    THEN waiting[p]
                                    ELSE toProcess[p]]
    /\ UNCHANGED <<waiting, leaked>>

\* map::insert() leaves an entry that is already there; the waiting event
\* is erased from its map either way.
Promote ==
    /\ toProcess' = [p \in Path |-> IF p \in Promotable /\ ~ Holds(toProcess, p)
                                    THEN waiting[p]
                                    ELSE toProcess[p]]
    /\ waiting' = [p \in Path |-> IF p \in Promotable THEN NoEvent ELSE waiting[p]]
    /\ leaked' = leaked \cup {p \in Promotable : Holds(toProcess, p)}

PurgeProcessedEvents ==
    processed' = [p \in Path |-> IF ElapsedTime(processed[p], ForgetDelta)
                                 THEN NoEvent
                                 ELSE processed[p]]

RunPass ==
    /\ ~ adding
    /\ Promote
    /\ PurgeProcessedEvents
    /\ UNCHANGED <<adding, now, stamp, index, files, ignored, missed>>

-----------------------------------------------------------------------------
(***************************************************************************)
(* The scheduler: getEvents() and processListenerEvents().                 *)
(***************************************************************************)

\* A slip: what is handed over is remembered from now on.
PutInProcessedNow ==
    processed' = [p \in Path |-> IF Holds(toProcess, p)
                                 THEN [toProcess[p] EXCEPT !.time = now]
                                 ELSE processed[p]]

\* putInProcessed() for every event that getEvents() hands over: it replaces
\* the type and the time of an entry that is there.
PutInProcessed ==
    processed' = [p \in Path |-> IF Holds(toProcess, p)
                                 THEN toProcess[p]
                                 ELSE processed[p]]

\* The entry tells what the file is like.
Right(p) == IF file[p].there THEN mtime[p] # 0 /\ p \notin outdated ELSE mtime[p] = 0

\* Paths whose UPDATED event is not newer than the entry.
NotNewer == {p \in Path : toProcess[p].type = "UPDATED" /\ toProcess[p].time <= mtime[p]}

\* A slip: the test is off by one second.
IgnoresEarly(p) == mtime[p] + 1 >= toProcess[p].time

\* "ignoring last event": ! (indexTime < event->getTime())
Ignores(p) == ~ (mtime[p] < toProcess[p].time)

\* The scheduler takes what is to be processed, sorts it by type and deletes
\* the entries of what is gone or will be read again.
GetEvents ==
    LET handed == {p \in Path : Holds(toProcess, p)}
        update == {p \in handed : toProcess[p].type = "UPDATED" /\ ~ Ignores(p)}
        created == {p \in handed : toProcess[p].type = "CREATED"}
        toDelete == update \cup {p \in handed : toProcess[p].type = "DELETED"}
    IN  /\ ~ adding
        /\ toindex = {}
        /\ handed # {}
        /\ PutInProcessed
        /\ toProcess' = [p \in Path |-> NoEvent]
        /\ toindex' = created \cup update
        /\ mtime' = [p \in Path |-> IF p \in toDelete THEN 0 ELSE mtime[p]]
        /\ ignored' = (ignored \ handed) \cup {p \in NotNewer : ~ Right(p)}
        /\ UNCHANGED <<waiting, adding, now, stamp, outdated, files, leaked, missed>>

\* It reads one of the files after the other, as they are by then.  A file
\* that is gone adds nothing; a second entry beside an old one leaves open
\* which of the two mTime() finds.
IndexFile(p) ==
    /\ p \in toindex
    /\ \E time \in (IF file[p].there THEN {file[p].time, mtime[p]} \ {0} ELSE {mtime[p]}) :
           mtime' = [mtime EXCEPT ![p] = time]
    /\ toindex' = toindex \ {p}
    /\ outdated' = outdated \ {p}
    /\ UNCHANGED <<queues, adding, now, stamp, files, history>>

\* A second passes.
Tick ==
    /\ now < MaxTime
    /\ now' = now + 1
    /\ UNCHANGED <<queues, adding, stamp, index, files, history>>

-----------------------------------------------------------------------------

Report == \E p \in Path, type \in Type, time \in stamp..now : AddEvent(p, type, time)

Scheduler == GetEvents \/ \E p \in Path : IndexFile(p)
Queue == BeginAdd \/ Report \/ EndAdd \/ RunPass
Next == Queue \/ Scheduler \/ Tick \/ \E p \in Path : ChangeFile(p)

\* The queue's thread and the scheduler call again and again, a few seconds
\* or less apart, so a free mutex is found at last (SF); addEvents() ends,
\* and so does the reading of files.
Fairness ==
    /\ WF_vars(EndAdd)
    /\ WF_vars(Tick)
    /\ SF_vars(RunPass)
    /\ SF_vars(GetEvents)
    /\ WF_vars(\E p \in Path : IndexFile(p))

Spec == Init /\ [][Next]_vars /\ Fairness

-----------------------------------------------------------------------------

TypeOK ==
    /\ toProcess \in [Path -> Slot]
    /\ processed \in [Path -> Slot]
    /\ waiting \in [Path -> Slot]
    /\ adding \in BOOLEAN
    /\ now \in Time
    /\ stamp \in 1..now
    /\ file \in [Path -> [there : BOOLEAN, time : 1..now]]
    /\ mtime \in [Path -> 0..now]
    /\ present \in [Path -> BOOLEAN]
    /\ toindex \in SUBSET Path
    /\ outdated \in SUBSET Path
    /\ unreported \in [Path -> SUBSET Change]
    /\ leaked \in SUBSET Path
    /\ ignored \in SUBSET Path
    /\ missed \in SUBSET Path

\* What is queued last about p, after which nothing else touches its entry.
LastType(p) == IF Holds(waiting, p) THEN waiting[p].type ELSE toProcess[p].type

\* The entry of p tells what the file is like, or will once everything queued
\* about it is handed over and everything handed over is read.
WillBeRight(p) ==
    CASE LastType(p) = "DELETED" -> ~ file[p].there
      [] LastType(p) \in {"CREATED", "UPDATED"} -> TRUE
      [] OTHER -> p \in toindex \/ Right(p)

\* However the events about a path are merged, held back, promoted, handed
\* over and read, the entry of every path whose changes were all reported
\* ends up right - but for an event that run() lost, and for an UPDATED one
\* that carries a time not later than the entry (addEvents, updateEventType,
\* run, getEvents, processListenerEvents).
Reported(p) == unreported[p] = {}
NetEffect == \A p \in Path \ (leaked \cup ignored \cup missed) : Reported(p) => WillBeRight(p)

\* The same with reports missing or doubled, for a file that is there: every
\* merge that ends in one asks for it to be read again (updateEventType, "the
\* safer solution").
PresentIsCurrent ==
    \A p \in Path \ (leaked \cup ignored) : Reported(p) /\ file[p].there => WillBeRight(p)

\* Without the first exemption: run() loses nothing of what waited
\* ("search all wainting events that can be promoted to toProcess status").
NoReportLost == \A p \in Path \ (ignored \cup missed) : Reported(p) => WillBeRight(p)

\* Without the second: an update of a file that is newer than its entry, by a
\* second at least, is read ("with update event we make a delete and a create").
UpdateIsRead ==
    \A p \in Path \ (leaked \cup missed) :
        Reported(p) /\ mtime[p] < file[p].time => WillBeRight(p)

\* A CREATED event, which the scheduler answers by adding an entry and not by
\* replacing one, is for a path that has no entry when its turn comes
\* (updateEventType turns CREATED after an unprocessed DELETED into UPDATED).
NoEntry(p) == mtime[p] = 0 /\ p \notin toindex
CreatedIsNew ==
    \A p \in Path \ (leaked \cup missed) :
        /\ toProcess[p].type = "CREATED" => NoEntry(p)
        /\ waiting[p].type = "CREATED" =>
               IF Holds(toProcess, p) THEN toProcess[p].type = "DELETED" ELSE NoEntry(p)

\* Of one path, what waits is not older than what is to be processed, which
\* is not older than what was processed: promoting and handing over never
\* reorder two events (addEvents looks in processed, then in waiting, then
\* in toProcess; putInProcessed copies the time).
NotOlder(q, r) ==
    \A p \in Path : Holds(q, p) /\ Holds(r, p) => q[p].time >= r[p].time
InOrder ==
    /\ NotOlder(waiting, toProcess)
    /\ NotOlder(toProcess, processed)
    /\ NotOlder(waiting, processed)

\* What is to be processed about a path that was processed lately has waited
\* ("we have to wait a little before processing this new event").
Debounced ==
    \A p \in Path : Holds(processed, p) /\ Holds(toProcess, p)
                       => ElapsedTime(toProcess[p], WaitDelta)

\* Everything queued is handed over and read: nothing waits for ever, though
\* addEvents() may be called again and again (run, getEvents).
Drained == toindex = {} /\ \A p \in Path : ~ Holds(waiting, p) /\ ~ Holds(toProcess, p)
Drains == <>[]Drained

=============================================================================
