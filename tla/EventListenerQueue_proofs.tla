------------------------ MODULE EventListenerQueue_proofs ------------------------
(***************************************************************************)
(* What holds of the event queue and of the scheduler behind it for every  *)
(* set of paths, every pair of deltas and every length of time: the types, *)
(* the order of events, the waiting time, and what becomes of the entries. *)
(***************************************************************************)
EXTENDS EventListenerQueue, TLAPS

(* What updateEventType answers, row by row. *)
LEMMA MergedTypeTable ==
    ASSUME NEW old \in Type, NEW new \in Type
    PROVE  /\ MergedType(old, new) \in Type \cup {"none"}
           /\ MergedType(old, new) = "none" <=> old = "CREATED" /\ new = "DELETED"
           /\ MergedType(old, new) = "DELETED" <=> old # "CREATED" /\ new = "DELETED"
           /\ MergedType(old, new) = "CREATED" <=> old = "CREATED" /\ new = "UPDATED"
  BY DEF MergedType, Type

(* The simplification never leaves an event in its map with another time,  *)
(* and takes it out of the map exactly for CREATED then DELETED.           *)
LEMMA UpdateEventTypeSlot ==
    ASSUME NEW old \in Event, NEW new \in Type
    PROVE  LET event == UpdateEventType(old, new) IN
           /\ event \in Slot
           /\ event.type = MergedType(old.type, new)
           /\ event.type # "none" => event.time = old.time
  <1>1. old.type \in Type /\ old.time \in Time
    BY DEF Event
  <1>2. CASE MergedType(old.type, new) = "none"
    BY <1>2 DEF UpdateEventType, NoEvent, Slot
  <1>3. CASE MergedType(old.type, new) # "none"
    <2>1. MergedType(old.type, new) \in Type
      BY <1>1, <1>3, MergedTypeTable
    <2>2. UpdateEventType(old, new) = [old EXCEPT !.type = MergedType(old.type, new)]
      BY <1>3 DEF UpdateEventType
    <2> QED
      BY <2>1, <2>2, <1>1 DEF Event, Slot
  <1> QED
    BY <1>2, <1>3

(* A slot holds an Event exactly when its type says so. *)
LEMMA HoldsEvent ==
    ASSUME NEW queue \in [Path -> Slot], NEW p \in Path
    PROVE  /\ Holds(queue, p) <=> queue[p] \in Event
           /\ ~ Holds(queue, p) <=> queue[p] = NoEvent
  BY DEF Holds, Slot, Event, NoEvent, Type

LEMMA EventTime ==
    ASSUME NEW queue \in [Path -> Slot], NEW p \in Path, Holds(queue, p)
    PROVE  queue[p].type \in Type /\ queue[p].time \in Time /\ queue[p].time \in Nat
  BY HoldsEvent DEF Event, Time

(* The slot of p that addEvents() changes holds the new event, or the old  *)
(* one with its time, or nothing.                                          *)
LEMMA MergedSlot ==
    ASSUME NEW queue \in [Path -> Slot], NEW p \in Path,
           NEW type \in Type, NEW time \in Time
    PROVE  LET event == [type |-> type, time |-> time]
               slot == IF Holds(queue, p) THEN UpdateEventType(queue[p], event.type) ELSE event
           IN  /\ slot \in Slot
               /\ slot.type = IF Holds(queue, p) THEN MergedType(queue[p].type, type) ELSE type
               /\ slot.type # "none" =>
                    slot.time = IF Holds(queue, p) THEN queue[p].time ELSE time
  <1>1. [type |-> type, time |-> time] \in Event
    BY DEF Event
  <1> QED
    BY <1>1, HoldsEvent, UpdateEventTypeSlot DEF Slot

LEMMA FileChange == TypeOK => \A p \in Path : file[p] \in Change
  <1> SUFFICES ASSUME TypeOK, NEW p \in Path PROVE file[p] \in Change
    OBVIOUS
  <1>1. file[p].there \in BOOLEAN /\ file[p].time \in 1..now /\ now \in 1..MaxTime
    BY DEF TypeOK, Time
  <1>2. file[p] = [there |-> file[p].there, time |-> file[p].time]
    BY DEF TypeOK
  <1>3. file[p].time \in Time
    BY <1>1, ClockAssumption DEF Time
  <1> QED
    BY <1>1, <1>2, <1>3 DEF Change

-----------------------------------------------------------------------------
(***************************************************************************)
(* What each step does to the slots of one path.                           *)
(***************************************************************************)

(* The path addEvents() is given: where the new event ends up, and as what.*)
LEMMA AddEventHere ==
    ASSUME TypeOK, NEW p \in Path, NEW type \in Type, NEW time \in Time,
           AddEvent(p, type, time)
    PROVE  /\ toProcess'[p] \in Slot /\ waiting'[p] \in Slot
           /\ \/ /\ Holds(waiting, p)
                 /\ waiting'[p].type = MergedType(waiting[p].type, type)
                 /\ waiting'[p].type # "none" => waiting'[p].time = waiting[p].time
                 /\ toProcess'[p] = toProcess[p]
              \/ /\ ~ Holds(waiting, p) /\ Holds(processed, p)
                 /\ waiting'[p].type = type
                 /\ waiting'[p].time = time
                 /\ toProcess'[p] = toProcess[p]
              \/ /\ ~ Holds(waiting, p) /\ ~ Holds(processed, p) /\ waiting'[p] = waiting[p]
                 /\ Holds(toProcess, p)
                 /\ toProcess'[p].type = MergedType(toProcess[p].type, type)
                 /\ toProcess'[p].type # "none" => toProcess'[p].time = toProcess[p].time
              \/ /\ ~ Holds(waiting, p) /\ ~ Holds(processed, p) /\ waiting'[p] = waiting[p]
                 /\ ~ Holds(toProcess, p)
                 /\ toProcess'[p].type = type
                 /\ toProcess'[p].time = time
  <1> DEFINE event == [type |-> type, time |-> time]
  <1>1. toProcess \in [Path -> Slot] /\ waiting \in [Path -> Slot]
    BY DEF TypeOK
  <1>2. type # "none"
    BY DEF Type
  <1>3. CASE Holds(processed, p) \/ Holds(waiting, p)
    <2>1. toProcess' = toProcess /\ PutInWaiting(p, event)
      BY <1>3 DEF AddEvent, AddEventWhere
    <2>2. waiting'[p] = IF Holds(waiting, p) THEN UpdateEventType(waiting[p], event.type) ELSE event
      BY <1>1, <2>1 DEF PutInWaiting
    <2> QED
      BY <1>1, <1>2, <1>3, <2>1, <2>2, MergedSlot
  <1>4. CASE ~ (Holds(processed, p) \/ Holds(waiting, p))
    <2>1. waiting' = waiting /\ PutInToProcess(p, event)
      BY <1>4 DEF AddEvent, AddEventWhere
    <2>2. toProcess'[p] = IF Holds(toProcess, p) THEN UpdateEventType(toProcess[p], event.type) ELSE event
      BY <1>1, <2>1 DEF PutInToProcess
    <2> QED
      BY <1>1, <1>2, <1>4, <2>1, <2>2, MergedSlot
  <1> QED
    BY <1>3, <1>4

(* A path addEvents() is not given keeps its slots and all that is known of*)
(* it.                                                                     *)
LEMMA AddEventElsewhere ==
    ASSUME TypeOK, NEW p \in Path, NEW type, NEW time, AddEvent(p, type, time),
           NEW q \in Path, q # p
    PROVE  /\ toProcess'[q] = toProcess[q]
           /\ waiting'[q] = waiting[q]
           /\ present'[q] = present[q]
           /\ unreported'[q] = unreported[q]
           /\ q \in ignored' <=> q \in ignored
           /\ q \in missed' <=> q \in missed
  BY DEF AddEvent, AddEventWhere, PutInToProcess, PutInWaiting, TypeOK

(* What addEvents() leaves alone, and the domains of what it does not.     *)
LEMMA AddEventFrame ==
    ASSUME TypeOK, NEW p \in Path, NEW type \in Type, NEW time \in stamp..now,
           AddEvent(p, type, time)
    PROVE  /\ processed' = processed /\ adding' = adding /\ now' = now /\ stamp' = time
           /\ toindex' = toindex /\ mtime' = mtime /\ outdated' = outdated
           /\ file' = file /\ leaked' = leaked
           /\ toProcess' \in [Path -> Slot] /\ waiting' \in [Path -> Slot]
           /\ present' = [present EXCEPT ![p] = type # "DELETED"]
           /\ unreported' \in [Path -> SUBSET Change]
           /\ ignored' = ignored \ {p}
           /\ missed' = missed \/ missed' = missed \cup {p}
           /\ missed' = missed => Consistent(p, type, time) \/ p \in missed
           /\ unreported'[p] = {} => Tells(type, time, file[p])
           /\ time \in Time /\ time \in Nat /\ stamp <= time /\ time <= now
  <1>1. /\ toProcess \in [Path -> Slot] /\ waiting \in [Path -> Slot]
        /\ unreported \in [Path -> SUBSET Change]
        /\ now \in 1..MaxTime /\ stamp \in 1..now
    BY DEF TypeOK, Time
  <1>f. file[p] \in Change
    BY FileChange
  <1>2. time \in Time /\ time \in Nat /\ stamp <= time /\ time <= now
    BY <1>1, ClockAssumption DEF Time
  <1>3. /\ \E w : waiting' = [waiting EXCEPT ![p] = w]
        /\ \E w : toProcess' = [toProcess EXCEPT ![p] = w]
    <2>1. /\ waiting = [waiting EXCEPT ![p] = waiting[p]]
          /\ toProcess = [toProcess EXCEPT ![p] = toProcess[p]]
      BY <1>1
    <2> QED
      BY <2>1 DEF AddEvent, AddEventWhere, PutInWaiting, PutInToProcess
  <1>4. waiting'[p] \in Slot /\ toProcess'[p] \in Slot
    BY <1>2, AddEventHere
  <1>5. toProcess' \in [Path -> Slot] /\ waiting' \in [Path -> Slot]
    BY <1>1, <1>3, <1>4
  <1>6. /\ unreported' \in [Path -> SUBSET Change]
        /\ unreported'[p] = {} => Tells(type, time, file[p])
    BY <1>1, <1>f DEF AddEvent, AddEventWhere, Consistent
  <1> QED
    BY <1>2, <1>5, <1>6 DEF AddEvent, AddEventWhere, index

(* What queues one pass of run() leaves of a path.                         *)
LEMMA RunPassSlots ==
    ASSUME TypeOK, RunPass, NEW p \in Path
    PROVE  /\ processed'[p] = processed[p] \/ processed'[p] = NoEvent
           /\ \/ toProcess'[p] = toProcess[p] /\ waiting'[p] = waiting[p]
              \/ /\ Holds(waiting, p) /\ ElapsedTime(waiting[p], WaitDelta)
                 /\ ~ Holds(toProcess, p)
                 /\ toProcess'[p] = waiting[p] /\ waiting'[p] = NoEvent
              \/ /\ toProcess'[p] = toProcess[p] /\ waiting'[p] = NoEvent
                 /\ p \in leaked'
           /\ p \in leaked => p \in leaked'
  BY DEF TypeOK, RunPass, Promote, PurgeProcessedEvents, Promotable

LEMMA RunPassFrame ==
    ASSUME TypeOK, RunPass
    PROVE  /\ toProcess' \in [Path -> Slot] /\ waiting' \in [Path -> Slot]
           /\ processed' \in [Path -> Slot] /\ leaked' \in SUBSET Path
           /\ UNCHANGED <<adding, now, stamp, index, files, ignored, missed>>
  BY DEF TypeOK, RunPass, Promote, PurgeProcessedEvents, Promotable, Slot

(* What the scheduler takes of a path, and what it does with it.           *)
LEMMA GetEventsHere ==
    ASSUME TypeOK, GetEvents, NEW p \in Path
    PROVE  /\ toProcess'[p] = NoEvent /\ toindex = {}
           /\ ~ Holds(toProcess, p) =>
                /\ processed'[p] = processed[p]
                /\ mtime'[p] = mtime[p] /\ p \notin toindex'
                /\ p \in ignored' <=> p \in ignored
           /\ Holds(toProcess, p) => processed'[p] = toProcess[p]
           /\ toProcess[p].type = "CREATED" => p \in toindex' /\ p \notin ignored'
           /\ toProcess[p].type = "DELETED" =>
                mtime'[p] = 0 /\ p \notin toindex' /\ p \notin ignored'
           /\ toProcess[p].type = "UPDATED" =>
                \/ p \in toindex' /\ mtime'[p] = 0
                \/ p \notin toindex' /\ mtime'[p] = mtime[p] /\ (Right(p) \/ p \in ignored')
  <1>1. toProcess[p].type # "none" <=> Holds(toProcess, p)
    BY DEF Holds
  <1>2. toProcess[p].type = "UPDATED" => (Ignores(p) <=> p \in NotNewer)
    <2>1. toProcess[p].type = "UPDATED" => toProcess[p].time \in Nat
      BY <1>1, EventTime DEF TypeOK
    <2>2. mtime[p] \in Nat
      BY DEF TypeOK, Time
    <2> QED
      BY <2>1, <2>2 DEF Ignores, NotNewer
  <1>3. p \in NotNewer => toProcess[p].type = "UPDATED"
    BY DEF NotNewer
  <1> QED
    BY <1>1, <1>2, <1>3 DEF GetEvents, PutInProcessed

LEMMA GetEventsFrame ==
    ASSUME TypeOK, GetEvents
    PROVE  /\ toProcess' \in [Path -> Slot] /\ processed' \in [Path -> Slot]
           /\ mtime' \in [Path -> 0..now]
           /\ toindex' \in SUBSET Path /\ ignored' \in SUBSET Path
           /\ UNCHANGED <<waiting, adding, now, stamp, outdated, files, leaked, missed>>
  <1>1. 0 \in 0..now
    BY DEF TypeOK, Time
  <1> QED
    BY <1>1 DEF TypeOK, GetEvents, PutInProcessed, Slot, NotNewer

(* Reading a file.                                                         *)
LEMMA IndexFileHere ==
    ASSUME TypeOK, NEW p \in Path, IndexFile(p)
    PROVE  /\ mtime' \in [Path -> 0..now]
           /\ \A q \in Path \ {p} : mtime'[q] = mtime[q]
           /\ IF file[p].there THEN mtime'[p] # 0 ELSE mtime'[p] = mtime[p]
           /\ p \in toindex /\ toindex' = toindex \ {p} /\ outdated' = outdated \ {p}
           /\ UNCHANGED <<queues, adding, now, stamp, files, history>>
  <1>1. PICK time \in (IF file[p].there THEN {file[p].time, mtime[p]} \ {0} ELSE {mtime[p]}) :
            mtime' = [mtime EXCEPT ![p] = time]
    BY DEF IndexFile
  <1>2. file[p].time \in 0..now /\ mtime[p] \in 0..now
    BY DEF TypeOK, Time
  <1> QED
    BY <1>1, <1>2 DEF IndexFile, TypeOK

-----------------------------------------------------------------------------

LEMMA AddEventType ==
    ASSUME TypeOK, NEW p \in Path, NEW type \in Type, NEW time \in stamp..now,
           AddEvent(p, type, time)
    PROVE  TypeOK'
  <1>1. time \in 1..now
    BY DEF TypeOK, Time
  <1>2. present' \in [Path -> BOOLEAN] /\ missed' \in SUBSET Path /\ ignored' \in SUBSET Path
    <2>1. missed' = missed \/ missed' = missed \cup {p}
      BY AddEventFrame
    <2>2. present' = [present EXCEPT ![p] = type # "DELETED"] /\ ignored' = ignored \ {p}
      BY AddEventFrame
    <2> QED
      BY <2>1, <2>2 DEF TypeOK
  <1> QED
    BY <1>1, <1>2, AddEventFrame DEF TypeOK

LEMMA ChangeFileType ==
    ASSUME TypeOK, NEW p \in Path, ChangeFile(p)
    PROVE  TypeOK'
  <1>1. PICK there \in BOOLEAN :
          /\ file' = [file EXCEPT ![p] = [there |-> there, time |-> now]]
          /\ unreported' = [unreported EXCEPT ![p] = @ \cup {[there |-> there, time |-> now]}]
    BY DEF ChangeFile
  <1>2. now \in 1..now /\ [there |-> there, time |-> now] \in Change
    BY DEF TypeOK, Time, Change
  <1>3. file' \in [Path -> [there : BOOLEAN, time : 1..now]]
    BY <1>1, <1>2 DEF TypeOK
  <1>4. unreported' \in [Path -> SUBSET Change]
    BY <1>1, <1>2 DEF TypeOK
  <1> QED
    BY <1>3, <1>4 DEF ChangeFile, TypeOK, queues, history

LEMMA TickType == TypeOK /\ Tick => TypeOK'
  <1> SUFFICES ASSUME TypeOK, Tick PROVE TypeOK'
    OBVIOUS
  <1>1. now \in 1..MaxTime /\ now < MaxTime /\ now' = now + 1
    BY DEF TypeOK, Tick, Time
  <1>2. now' \in Time /\ 0..now \subseteq 0..now' /\ 1..now \subseteq 1..now'
    BY <1>1, ClockAssumption DEF Time
  <1>3. /\ stamp' \in 1..now' /\ mtime' \in [Path -> 0..now']
        /\ file' \in [Path -> [there : BOOLEAN, time : 1..now']]
    BY <1>2 DEF TypeOK, Tick, index, files
  <1> QED
    BY <1>2, <1>3 DEF TypeOK, Tick, queues, index, files, history

LEMMA TypeStep == TypeOK /\ [Next]_vars => TypeOK'
  <1> SUFFICES ASSUME TypeOK, [Next]_vars PROVE TypeOK'
    OBVIOUS
  <1>1. CASE BeginAdd \/ EndAdd
    BY <1>1 DEF BeginAdd, EndAdd, TypeOK, queues, index, files, history
  <1>2. CASE Report
    BY <1>2, AddEventType DEF Report
  <1>3. CASE RunPass
    BY <1>3, RunPassFrame DEF TypeOK, index, files
  <1>4. CASE GetEvents
    BY <1>4, GetEventsFrame DEF TypeOK, files
  <1>5. ASSUME NEW p \in Path, IndexFile(p)
        PROVE  TypeOK'
    BY <1>5, IndexFileHere DEF TypeOK, queues, files, history
  <1>6. CASE Tick
    BY <1>6, TickType
  <1>7. CASE UNCHANGED vars
    BY <1>7 DEF vars, TypeOK, queues, index, files, history
  <1> QED
    BY <1>1, <1>2, <1>3, <1>4, <1>5, <1>6, <1>7, ChangeFileType DEF Next, Queue, Scheduler

LEMMA TypeInit == Init => TypeOK
  <1> SUFFICES ASSUME Init PROVE TypeOK
    OBVIOUS
  <1>c. PICK limit \in Nat : limit = MaxTime /\ limit >= 1
    BY ClockAssumption, DeltaAssumption
  <1>1. now = 1 /\ stamp = 1 /\ now \in Time
    BY <1>c DEF Init, Time
  <1>2. /\ 1 \in 0..now /\ 0 \in 0..now /\ 1 \in 1..now
    BY <1>1
  <1>3. mtime \in [Path -> 0..now] /\ file \in [Path -> [there : BOOLEAN, time : 1..now]]
    BY <1>2 DEF Init
  <1> QED
    BY <1>1, <1>2, <1>3 DEF Init, TypeOK, Slot

(* The three maps hold at most one well-formed event per path, and no time *)
(* is later than the clock, whatever the listeners report.                 *)
THEOREM TypeCorrect == Spec => []TypeOK
  BY TypeInit, TypeStep, PTL DEF Spec

-----------------------------------------------------------------------------
(***************************************************************************)
(* The order of the events about one path.  What makes it inductive is     *)
(* that no queued event is newer than the one created last.                *)
(***************************************************************************)

NoneAfterStamp ==
    \A p \in Path : /\ Holds(toProcess, p) => stamp >= toProcess[p].time
                    /\ Holds(processed, p) => stamp >= processed[p].time
                    /\ Holds(waiting, p) => stamp >= waiting[p].time

OrderInv == TypeOK /\ InOrder /\ NoneAfterStamp

(* Order and stamp say the same of one path after another.                 *)
Ordered(p) ==
    /\ Holds(waiting, p) /\ Holds(toProcess, p) => waiting[p].time >= toProcess[p].time
    /\ Holds(toProcess, p) /\ Holds(processed, p) => toProcess[p].time >= processed[p].time
    /\ Holds(waiting, p) /\ Holds(processed, p) => waiting[p].time >= processed[p].time
    /\ Holds(toProcess, p) => stamp >= toProcess[p].time
    /\ Holds(processed, p) => stamp >= processed[p].time
    /\ Holds(waiting, p) => stamp >= waiting[p].time

LEMMA OrderedPaths == InOrder /\ NoneAfterStamp <=> \A p \in Path : Ordered(p)
  BY DEF InOrder, NotOlder, NoneAfterStamp, Ordered

LEMMA SlotTimes ==
    ASSUME TypeOK, NEW p \in Path
    PROVE  /\ Holds(toProcess, p) => toProcess[p].time \in Nat
           /\ Holds(processed, p) => processed[p].time \in Nat
           /\ Holds(waiting, p) => waiting[p].time \in Nat
           /\ stamp \in Nat /\ now \in Nat /\ stamp <= now
  <1>1. stamp \in Nat /\ now \in Nat /\ stamp <= now
    BY DEF TypeOK, Time
  <1> QED
    BY <1>1, EventTime DEF TypeOK

LEMMA AddEventOrder ==
    ASSUME OrderInv, NEW p \in Path, NEW type \in Type, NEW time \in stamp..now,
           AddEvent(p, type, time), NEW q \in Path
    PROVE  Ordered(q)'
  <1> USE DEF OrderInv
  <1>1. Ordered(q) /\ Ordered(p)
    BY OrderedPaths
  <1>2. processed' = processed /\ stamp' = time /\ time >= stamp /\ time \in Time /\ time \in Nat
    BY AddEventFrame
  <1>3. CASE q # p
    <2>1. toProcess'[q] = toProcess[q] /\ waiting'[q] = waiting[q]
      BY <1>3, AddEventElsewhere
    <2> QED
      BY <1>1, <1>2, <2>1, SlotTimes DEF Ordered, Holds
  <1>4. CASE q = p
    <2> USE <1>1, <1>2 DEF Ordered, Holds
    <2>1. CASE /\ Holds(waiting, p)
               /\ waiting'[p].type # "none" => waiting'[p].time = waiting[p].time
               /\ toProcess'[p] = toProcess[p]
      BY <2>1, <1>4, SlotTimes
    <2>2. CASE /\ ~ Holds(waiting, p) /\ Holds(processed, p)
               /\ waiting'[p].time = time
               /\ toProcess'[p] = toProcess[p]
      BY <2>2, <1>4, SlotTimes
    <2>3. CASE /\ ~ Holds(waiting, p) /\ ~ Holds(processed, p) /\ waiting'[p] = waiting[p]
               /\ Holds(toProcess, p)
               /\ toProcess'[p].type # "none" => toProcess'[p].time = toProcess[p].time
      BY <2>3, <1>4, SlotTimes
    <2>4. CASE /\ ~ Holds(waiting, p) /\ ~ Holds(processed, p) /\ waiting'[p] = waiting[p]
               /\ toProcess'[p].time = time
      BY <2>4, <1>4, SlotTimes
    <2> QED
      BY <1>2, <2>1, <2>2, <2>3, <2>4, AddEventHere
  <1> QED
    BY <1>3, <1>4

LEMMA OrderStep == OrderInv /\ [Next]_vars => OrderInv'
  <1> SUFFICES ASSUME OrderInv, [Next]_vars, NEW p \in Path PROVE Ordered(p)'
    BY TypeStep, OrderedPaths DEF OrderInv, InOrder, NotOlder, NoneAfterStamp, Ordered
  <1>1. Ordered(p) /\ TypeOK
    BY OrderedPaths DEF OrderInv
  <1>n. NoEvent.type = "none"
    BY DEF NoEvent
  <1>2. CASE Report
    BY <1>2, AddEventOrder DEF Report
  <1>3. CASE RunPass
    <2>1. stamp' = stamp
      BY <1>1, <1>3, RunPassFrame
    <2> QED
      BY <1>1, <1>3, <1>n, <2>1, RunPassSlots, SlotTimes DEF Ordered, Holds
  <1>4. CASE GetEvents
    <2>1. stamp' = stamp /\ waiting' = waiting
      BY <1>1, <1>4, GetEventsFrame
    <2> QED
      BY <1>1, <1>4, <1>n, <2>1, GetEventsHere, SlotTimes DEF Ordered, Holds
  <1>5. CASE UNCHANGED <<queues, stamp>>
    BY <1>1, <1>5 DEF queues, Ordered, Holds
  <1> QED
    BY <1>2, <1>3, <1>4, <1>5
       DEF Next, Queue, Scheduler, BeginAdd, EndAdd, IndexFile, Tick, ChangeFile, vars

LEMMA OrderInit == Init => OrderInv
  BY TypeInit DEF OrderInv, Init, InOrder, NotOlder, NoneAfterStamp, Holds, NoEvent

(* Events about one path are never reordered, whatever is reported.        *)
THEOREM EventsInOrder == Spec => []InOrder
  <1>1. OrderInv => InOrder
    BY DEF OrderInv
  <1> QED
    BY <1>1, OrderInit, OrderStep, PTL DEF Spec

-----------------------------------------------------------------------------
(***************************************************************************)
(* A path that was processed lately is not processed again at once.        *)
(***************************************************************************)

DebounceInv == TypeOK /\ Debounced

LEMMA TickDebounced ==
    ASSUME DebounceInv, Tick
    PROVE  Debounced'
  <1>0. processed' = processed /\ toProcess' = toProcess /\ now' = now + 1
    BY DEF Tick, queues
  <1> SUFFICES ASSUME NEW p \in Path, Holds(processed, p), Holds(toProcess, p)
               PROVE  now' - toProcess[p].time > WaitDelta
    BY <1>0 DEF Debounced, ElapsedTime, Holds
  <1>1. now - toProcess[p].time > WaitDelta
    BY DEF DebounceInv, Debounced, ElapsedTime
  <1>2. now \in Nat /\ toProcess[p].time \in Nat
    BY SlotTimes DEF DebounceInv
  <1> QED
    BY <1>0, <1>1, <1>2, DeltaAssumption

LEMMA DebounceStep == DebounceInv /\ [Next]_vars => DebounceInv'
  <1> SUFFICES ASSUME DebounceInv, [Next]_vars PROVE Debounced'
    BY TypeStep DEF DebounceInv
  <1> USE DEF DebounceInv, Debounced
  <1>n. NoEvent.type = "none"
    BY DEF NoEvent
  <1>1. ASSUME NEW p \in Path, NEW type \in Type, NEW time \in stamp..now, AddEvent(p, type, time),
               NEW q \in Path, Holds(processed, q)', Holds(toProcess, q)'
        PROVE  ElapsedTime(toProcess[q], WaitDelta)'
    <2>1. processed' = processed /\ now' = now /\ time \in Time
      BY <1>1, AddEventFrame
    <2>2. toProcess'[q] = toProcess[q]
      <3>1. CASE q # p
        BY <1>1, <3>1, AddEventElsewhere
      <3>2. CASE q = p
        BY <1>1, <2>1, <3>2, AddEventHere DEF Holds
      <3> QED
        BY <3>1, <3>2
    <2> QED
      BY <1>1, <2>1, <2>2 DEF Holds, ElapsedTime
  <1>2. ASSUME RunPass, NEW q \in Path, Holds(processed, q)', Holds(toProcess, q)'
        PROVE  ElapsedTime(toProcess[q], WaitDelta)'
    <2>1. now' = now
      BY <1>2, RunPassFrame
    <2> QED
      BY <1>2, <1>n, <2>1, RunPassSlots DEF Holds, ElapsedTime
  <1>3. ASSUME GetEvents, NEW q \in Path
        PROVE  ~ Holds(toProcess, q)'
    BY <1>3, <1>n, GetEventsHere DEF Holds
  <1>4. ASSUME UNCHANGED <<queues, now>>, NEW q \in Path, Holds(processed, q)', Holds(toProcess, q)'
        PROVE  ElapsedTime(toProcess[q], WaitDelta)'
    BY <1>4 DEF queues, Holds, ElapsedTime
  <1>5. CASE Tick
    BY <1>5, TickDebounced
  <1>6. CASE Report
    BY <1>1, <1>6 DEF Report
  <1>7. CASE RunPass \/ GetEvents
    BY <1>2, <1>3, <1>7
  <1> QED
    BY <1>4, <1>5, <1>6, <1>7
       DEF Next, Queue, Scheduler, BeginAdd, EndAdd, IndexFile, ChangeFile, vars

(* Whatever is reported, an event about a path that is still remembered as *)
(* processed has waited longer than WaitDelta before it can be handed over.*)
THEOREM EventsDebounced == Spec => []Debounced
  <1>1. Init => DebounceInv
    BY TypeInit DEF DebounceInv, Debounced, Init, Holds, NoEvent
  <1>2. DebounceInv => Debounced
    BY DEF DebounceInv
  <1> QED
    BY <1>1, <1>2, DebounceStep, PTL DEF Spec
-----------------------------------------------------------------------------
(***************************************************************************)
(* What becomes of the entries.  LastType(p) is the type of what is queued *)
(* last; what follows tells how a step changes it.                         *)
(***************************************************************************)

(* An event that is there can cancel, and only with the CREATED before it. *)
LEMMA AddEventLast ==
    ASSUME TypeOK, NEW p \in Path, NEW type \in Type, NEW time \in stamp..now,
           AddEvent(p, type, time)
    PROVE  /\ type # "DELETED" => LastType(p)' \in {"CREATED", "UPDATED"}
           /\ type = "DELETED" =>
                \/ LastType(p)' = "DELETED"
                \/ /\ LastType(p)' = toProcess'[p].type /\ toProcess'[p] = toProcess[p]
                   /\ waiting[p].type = "CREATED"
                \/ /\ LastType(p)' = "none"
                   /\ toProcess[p].type = "CREATED"
  <1>1. time \in Time
    BY AddEventFrame
  <1>2. /\ Holds(waiting, p) => waiting[p].type \in Type
        /\ Holds(toProcess, p) => toProcess[p].type \in Type
    BY EventTime DEF TypeOK
  <1>3. type \in {"CREATED", "UPDATED", "DELETED"}
    BY DEF Type
  <1>4. CASE /\ Holds(waiting, p)
             /\ waiting'[p].type = MergedType(waiting[p].type, type)
             /\ toProcess'[p] = toProcess[p]
    <2>1. type # "DELETED" => waiting'[p].type \in {"CREATED", "UPDATED"}
      BY <1>2, <1>3, <1>4, MergedTypeTable DEF Type
    <2>2. type = "DELETED" => \/ waiting'[p].type = "DELETED"
                              \/ waiting'[p].type = "none" /\ waiting[p].type = "CREATED"
      BY <1>2, <1>3, <1>4, MergedTypeTable
    <2> QED
      BY <1>4, <2>1, <2>2 DEF LastType, Holds
  <1>5. CASE ~ Holds(waiting, p) /\ waiting'[p].type = type
    BY <1>3, <1>5 DEF LastType, Holds
  <1>6. CASE /\ ~ Holds(waiting, p) /\ waiting'[p] = waiting[p]
             /\ Holds(toProcess, p)
             /\ toProcess'[p].type = MergedType(toProcess[p].type, type)
    <2>1. type # "DELETED" => toProcess'[p].type \in {"CREATED", "UPDATED"}
      BY <1>2, <1>3, <1>6, MergedTypeTable DEF Type
    <2>2. type = "DELETED" => \/ toProcess'[p].type = "DELETED"
                              \/ toProcess'[p].type = "none" /\ toProcess[p].type = "CREATED"
      BY <1>2, <1>3, <1>6, MergedTypeTable
    <2> QED
      BY <1>6, <2>1, <2>2 DEF LastType, Holds
  <1>7. CASE ~ Holds(waiting, p) /\ waiting'[p] = waiting[p] /\ toProcess'[p].type = type
    BY <1>3, <1>7 DEF LastType, Holds
  <1> QED
    BY <1>1, <1>4, <1>5, <1>6, <1>7, AddEventHere

(* run() does not change what is queued last, unless it loses it.          *)
LEMMA RunPassLast ==
    ASSUME TypeOK, RunPass, NEW p \in Path, p \notin leaked'
    PROVE  LastType(p)' = LastType(p)
  <1>1. NoEvent.type = "none"
    BY DEF NoEvent
  <1> QED
    BY <1>1, RunPassSlots DEF LastType, Holds

(* Handing over leaves what waits, and else nothing.                       *)
LEMMA GetEventsLast ==
    ASSUME TypeOK, GetEvents, NEW p \in Path
    PROVE  LastType(p)' = IF Holds(waiting, p) THEN LastType(p) ELSE "none"
  <1>1. NoEvent.type = "none" /\ waiting' = waiting
    BY GetEventsFrame DEF NoEvent
  <1> QED
    BY <1>1, GetEventsHere DEF LastType, Holds

(* With nothing queued the entry is right, will be read again, or an event *)
(* about it was ignored.                                                   *)
Settled(p) ==
    Reported(p) /\ LastType(p) = "none" => p \in toindex \/ Right(p) \/ p \in ignored

(* A file that is there is not to be taken off the index last.             *)
WillRead(p) == Reported(p) /\ file[p].there => LastType(p) # "DELETED" /\ Settled(p)

PresentInv == TypeOK /\ \A p \in Path \ leaked : WillRead(p)

(* What the invariants of one path depend on.                              *)
Of(p) == <<toProcess[p], waiting[p], mtime[p], present[p], unreported[p], file[p],
           p \in toindex, p \in outdated, p \in ignored, p \in missed>>

(* A step about another path.                                              *)
LEMMA OtherPath ==
    ASSUME TypeOK, NEW p \in Path, NEW q \in Path, q # p,
           \/ \E type \in Type, time \in stamp..now : AddEvent(p, type, time)
           \/ ChangeFile(p)
           \/ IndexFile(p)
    PROVE  Of(q)' = Of(q) /\ leaked' = leaked
  <1>1. ASSUME NEW type \in Type, NEW time \in stamp..now, AddEvent(p, type, time)
        PROVE  Of(q)' = Of(q) /\ leaked' = leaked
    BY <1>1, AddEventElsewhere, AddEventFrame DEF Of
  <1>2. CASE ChangeFile(p)
    BY <1>2 DEF ChangeFile, Of, queues, history, TypeOK
  <1>3. CASE IndexFile(p)
    BY <1>3, IndexFileHere DEF Of, queues, files, history
  <1> QED
    BY <1>1, <1>2, <1>3

LEMMA SameRight ==
    ASSUME NEW p \in Path, Of(p)' = Of(p)
    PROVE  /\ WillRead(p) => WillRead(p)'
           /\ Settled(p) => Settled(p)'
  BY DEF Of, WillRead, Settled, Reported, LastType, Holds, Right

(* A step about no path in particular but handing over and promoting.      *)
LEMMA SamePath ==
    ASSUME NEW q \in Path, BeginAdd \/ EndAdd \/ Tick \/ UNCHANGED vars
    PROVE  Of(q)' = Of(q) /\ leaked' = leaked
  BY DEF BeginAdd, EndAdd, Tick, vars, queues, index, files, history, Of

(* What the scheduler makes of a path.                                     *)
LEMMA GetEventsSettled ==
    ASSUME TypeOK, GetEvents, NEW p \in Path, Reported(p)', ~ Holds(waiting, p),
           Settled(p), LastType(p) = "DELETED" => ~ file[p].there
    PROVE  Settled(p)'
  <1>1. /\ file' = file /\ outdated' = outdated /\ unreported' = unreported
        /\ toProcess[p] \in Slot
    BY GetEventsFrame DEF files, TypeOK
  <1>2. LastType(p) = toProcess[p].type /\ Reported(p)
    BY <1>1 DEF LastType, Reported
  <1>3. CASE ~ Holds(toProcess, p)
    <2>1. LastType(p) = "none" /\ toindex = {}
      BY <1>2, <1>3, GetEventsHere DEF Holds
    <2>2. Right(p) \/ p \in ignored
      BY <1>2, <2>1 DEF Settled
    <2>3. mtime'[p] = mtime[p] /\ (p \in ignored' <=> p \in ignored)
      BY <1>3, GetEventsHere
    <2> QED
      BY <1>1, <2>2, <2>3 DEF Settled, Right
  <1>4. CASE toProcess[p].type = "CREATED"
    BY <1>4, GetEventsHere DEF Settled
  <1>5. CASE toProcess[p].type = "DELETED"
    <2>1. ~ file[p].there /\ mtime'[p] = 0
      BY <1>2, <1>5, GetEventsHere
    <2> QED
      BY <1>1, <2>1 DEF Settled, Right
  <1>6. CASE toProcess[p].type = "UPDATED"
    <2>1. p \in toindex' \/ (mtime'[p] = mtime[p] /\ (Right(p) \/ p \in ignored'))
      BY <1>6, GetEventsHere
    <2> QED
      BY <1>1, <2>1 DEF Settled, Right
  <1> QED
    BY <1>1, <1>3, <1>4, <1>5, <1>6 DEF Slot, Event, Type, Holds, NoEvent

(* The same where something about it still waits.                          *)
LEMMA GetEventsWaiting ==
    ASSUME TypeOK, GetEvents, NEW p \in Path, Holds(waiting, p)
    PROVE  LastType(p)' = LastType(p) /\ LastType(p) # "none" /\ Settled(p)'
  <1>1. LastType(p)' = LastType(p)
    BY GetEventsLast
  <1>2. LastType(p) # "none"
    BY DEF LastType, Holds
  <1> QED
    BY <1>1, <1>2 DEF Settled

LEMMA PresentStep == PresentInv /\ [Next]_vars => PresentInv'
  <1> SUFFICES ASSUME PresentInv, [Next]_vars, NEW q \in Path, q \notin leaked'
               PROVE  WillRead(q)'
    BY TypeStep DEF PresentInv
  <1> USE DEF PresentInv
  <1>1. q \notin leaked => WillRead(q)
    OBVIOUS
  <1>2. ASSUME NEW p \in Path, NEW type \in Type, NEW time \in stamp..now, AddEvent(p, type, time)
        PROVE  WillRead(q)'
    <2>1. CASE q # p
      BY <1>1, <1>2, <2>1, OtherPath, SameRight
    <2>2. CASE q = p
      <3> SUFFICES ASSUME Reported(p)', file'[p].there PROVE LastType(p)' \notin {"DELETED", "none"}
        BY <2>2 DEF WillRead, Settled
      <3>1. Tells(type, time, file[p]) /\ file' = file
        BY <1>2, AddEventFrame DEF Reported
      <3> QED
        BY <1>2, <3>1, AddEventLast DEF Tells
    <2> QED
      BY <2>1, <2>2
  <1>3. CASE RunPass
    <2>1. /\ q \notin leaked /\ LastType(q)' = LastType(q)
          /\ UNCHANGED <<index, files, ignored>>
      BY <1>3, RunPassLast, RunPassSlots, RunPassFrame
    <2> QED
      BY <1>1, <2>1 DEF WillRead, Settled, Reported, Right, index, files
  <1>4. CASE GetEvents
    <2>1. leaked' = leaked /\ file' = file /\ unreported' = unreported
      BY <1>4, GetEventsFrame DEF files
    <2>2. WillRead(q)
      BY <1>1, <2>1
    <2> SUFFICES ASSUME Reported(q)', file'[q].there PROVE LastType(q)' # "DELETED" /\ Settled(q)'
      BY DEF WillRead
    <2>3. LastType(q) # "DELETED" /\ Settled(q)
      BY <2>1, <2>2 DEF WillRead, Reported
    <2>4. CASE Holds(waiting, q)
      BY <1>4, <2>3, <2>4, GetEventsWaiting
    <2>5. CASE ~ Holds(waiting, q)
      BY <1>4, <2>3, <2>5, GetEventsSettled, GetEventsLast
    <2> QED
      BY <2>4, <2>5
  <1>5. ASSUME NEW p \in Path, ChangeFile(p)
        PROVE  WillRead(q)'
    <2>1. CASE q # p
      BY <1>1, <1>5, <2>1, OtherPath, SameRight
    <2>2. CASE q = p
      <3>1. unreported'[p] # {}
        BY <1>5 DEF ChangeFile, TypeOK
      <3> QED
        BY <2>2, <3>1 DEF WillRead, Reported
    <2> QED
      BY <2>1, <2>2
  <1>6. ASSUME NEW p \in Path, IndexFile(p)
        PROVE  WillRead(q)'
    <2>1. CASE q # p
      BY <1>1, <1>6, <2>1, OtherPath, SameRight
    <2>2. CASE q = p
      <3>1. /\ UNCHANGED <<queues, files, history>> /\ outdated' = outdated \ {p}
            /\ file[p].there => mtime'[p] # 0
        BY <1>6, IndexFileHere
      <3>2. WillRead(p)
        BY <1>1, <2>2, <3>1 DEF history
      <3> QED
        BY <2>2, <3>1, <3>2 DEF WillRead, Settled, Reported, LastType, Holds, Right, queues, files
    <2> QED
      BY <2>1, <2>2
  <1>7. CASE BeginAdd \/ EndAdd \/ Tick \/ UNCHANGED vars
    BY <1>1, <1>7, SamePath, SameRight
  <1> QED
    BY <1>2, <1>3, <1>4, <1>5, <1>6, <1>7 DEF Next, Queue, Scheduler, Report

LEMMA PresentInit == Init => PresentInv
  BY TypeInit DEF PresentInv, Init, WillRead, Settled, Reported, LastType, Holds, Right, NoEvent

(* However reports are doubled, lost and merged, the entry of a file that  *)
(* is there, and about which the last report was true, is or will be right *)
(* unless run() lost an event or the scheduler ignored one.                *)
THEOREM PresentStaysCurrent == Spec => []PresentIsCurrent
  <1>1. PresentInv => PresentIsCurrent
    <2>1. ASSUME TypeOK, NEW p \in Path PROVE LastType(p) \in {"CREATED", "UPDATED", "DELETED", "none"}
      BY <2>1 DEF TypeOK, LastType, Slot, Event, Type, NoEvent
    <2> QED
      BY <2>1 DEF PresentInv, PresentIsCurrent, WillRead, Settled, WillBeRight
  <1> QED
    BY <1>1, PresentInit, PresentStep, PTL DEF Spec

-----------------------------------------------------------------------------
(***************************************************************************)
(* With every change reported, and in a way that fits: what the listener   *)
(* believes of a path agrees with what is queued last about it, and a      *)
(* CREATED event finds no entry.                                           *)
(***************************************************************************)

Told(p) ==
    /\ Reported(p) => (present[p] = file[p].there)
    /\ present[p] => LastType(p) # "DELETED"
    /\ ~ present[p] => LastType(p) = "DELETED" \/ (LastType(p) = "none" /\ NoEntry(p))

New(p) ==
    /\ toProcess[p].type = "CREATED" => NoEntry(p)
    /\ waiting[p].type = "CREATED" =>
           IF Holds(toProcess, p) THEN toProcess[p].type = "DELETED" ELSE NoEntry(p)

NetPath(p) == Told(p) /\ New(p) /\ Settled(p)

NetInv == TypeOK /\ \A p \in Path \ (leaked \cup missed) : NetPath(p)

LEMMA SameNet ==
    ASSUME NEW p \in Path, Of(p)' = Of(p), NetPath(p)
    PROVE  NetPath(p)'
  BY DEF Of, NetPath, Told, New, Settled, Reported, NoEntry, LastType, Holds, Right

(* A report that fits the one before.                                      *)
LEMMA AddEventNet ==
    ASSUME TypeOK, NEW p \in Path, NEW type \in Type, NEW time \in stamp..now,
           AddEvent(p, type, time), Consistent(p, type, time), NetPath(p)
    PROVE  NetPath(p)'
  <1>1. /\ mtime' = mtime /\ toindex' = toindex /\ file' = file /\ outdated' = outdated
        /\ (present[p])' = (type # "DELETED")
        /\ Reported(p)' => Tells(type, time, file[p])
        /\ time \in Time
    BY AddEventFrame DEF Reported, TypeOK
  <1>2. (type = "CREATED") = ~ present[p]
    BY DEF Consistent
  <1>3. Told(p) /\ New(p)
    BY DEF NetPath
  <1>4. /\ Holds(waiting, p) => waiting[p].type \in Type
        /\ Holds(toProcess, p) => toProcess[p].type \in Type
    BY EventTime DEF TypeOK
  <1>5. NoEntry(p)' <=> NoEntry(p)
    BY <1>1 DEF NoEntry
  <1>6. Reported(p)' => (present[p] = file[p].there)'
    BY <1>1 DEF Tells
  <1>7. CASE type # "DELETED"
    <2>1. LastType(p)' \in {"CREATED", "UPDATED"}
      BY <1>7, AddEventLast
    <2>2. Told(p)' /\ Settled(p)'
      BY <1>1, <1>6, <1>7, <2>1 DEF Told, Settled
    <2> SUFFICES New(p)'
      BY <2>2 DEF NetPath
    <2>3. CASE /\ Holds(waiting, p)
               /\ waiting'[p].type = MergedType(waiting[p].type, type)
               /\ toProcess'[p] = toProcess[p]
      <3>1. waiting'[p].type = "CREATED" => waiting[p].type = "CREATED"
        BY <1>4, <2>3, MergedTypeTable
      <3> QED
        BY <1>3, <1>5, <2>3, <3>1 DEF New, Holds
    <2>4. CASE ~ Holds(waiting, p) /\ waiting'[p].type = type /\ toProcess'[p] = toProcess[p]
      <3>1. type = "CREATED" => toProcess[p].type = "DELETED" \/ (~ Holds(toProcess, p) /\ NoEntry(p))
        BY <1>2, <1>3, <2>4 DEF Told, LastType, Holds
      <3> QED
        BY <1>3, <1>5, <2>4, <3>1 DEF New, Holds
    <2>5. CASE /\ ~ Holds(waiting, p) /\ waiting'[p] = waiting[p]
               /\ Holds(toProcess, p)
               /\ toProcess'[p].type = MergedType(toProcess[p].type, type)
      <3>1. toProcess'[p].type = "CREATED" => toProcess[p].type = "CREATED"
        BY <1>4, <2>5, MergedTypeTable
      <3> QED
        BY <1>3, <1>5, <2>5, <3>1 DEF New, Holds
    <2>6. CASE /\ ~ Holds(waiting, p) /\ waiting'[p] = waiting[p]
               /\ ~ Holds(toProcess, p) /\ toProcess'[p].type = type
      <3>1. type = "CREATED" => NoEntry(p)
        BY <1>2, <1>3, <2>6 DEF Told, LastType, Holds
      <3> QED
        BY <1>3, <1>5, <2>6, <3>1 DEF New, Holds
    <2> QED
      BY <1>1, <2>3, <2>4, <2>5, <2>6, AddEventHere
  <1>8. CASE type = "DELETED"
    <2>0. type # "CREATED" /\ type # "none" /\ type # "UPDATED"
      BY <1>8
    <2>1. \/ LastType(p)' = "DELETED"
          \/ LastType(p)' = "none" /\ NoEntry(p)
      <3>1. CASE /\ LastType(p)' = toProcess'[p].type /\ toProcess'[p] = toProcess[p]
                 /\ waiting[p].type = "CREATED"
        BY <1>3, <3>1 DEF New, Holds
      <3>2. CASE LastType(p)' = "none" /\ toProcess[p].type = "CREATED"
        BY <1>3, <3>2 DEF New
      <3> QED
        BY <1>8, <3>1, <3>2, AddEventLast
    <2>2. Told(p)'
      BY <1>1, <1>5, <1>6, <1>8, <2>1 DEF Told
    <2>3. Settled(p)'
      <3> SUFFICES ASSUME Reported(p)', LastType(p)' = "none" PROVE Right(p)'
        BY DEF Settled
      <3>1. mtime[p] = 0 /\ ~ file[p].there
        BY <1>1, <1>8, <2>1 DEF NoEntry, Tells
      <3> QED
        BY <1>1, <3>1 DEF Right
    <2> SUFFICES New(p)'
      BY <2>2, <2>3 DEF NetPath
    <2>4. CASE /\ Holds(waiting, p)
               /\ waiting'[p].type = MergedType(waiting[p].type, type)
               /\ toProcess'[p] = toProcess[p]
      <3>1. waiting'[p].type # "CREATED"
        BY <1>4, <2>0, <2>4, MergedTypeTable
      <3> QED
        BY <1>3, <1>5, <2>4, <3>1 DEF New
    <2>5. CASE ~ Holds(waiting, p) /\ waiting'[p].type = type /\ toProcess'[p] = toProcess[p]
      BY <1>3, <1>5, <2>0, <2>5 DEF New
    <2>6. CASE /\ ~ Holds(waiting, p) /\ waiting'[p] = waiting[p]
               /\ Holds(toProcess, p)
               /\ toProcess'[p].type = MergedType(toProcess[p].type, type)
      <3>1. toProcess'[p].type # "CREATED"
        BY <1>4, <2>0, <2>6, MergedTypeTable
      <3>2. waiting'[p].type # "CREATED"
        BY <2>6 DEF Holds
      <3> QED
        BY <3>1, <3>2 DEF New
    <2>7. CASE /\ ~ Holds(waiting, p) /\ waiting'[p] = waiting[p]
               /\ ~ Holds(toProcess, p) /\ toProcess'[p].type = type
      BY <2>0, <2>7 DEF New, Holds
    <2> QED
      BY <1>1, <2>4, <2>5, <2>6, <2>7, AddEventHere
  <1> QED
    BY <1>7, <1>8

LEMMA RunPassNet ==
    ASSUME TypeOK, RunPass, NEW p \in Path, p \notin leaked', NetPath(p)
    PROVE  NetPath(p)'
  <1>1. /\ LastType(p)' = LastType(p) /\ UNCHANGED <<index, files, ignored>>
        /\ NoEvent.type = "none"
    BY RunPassLast, RunPassFrame DEF NoEvent
  <1>2. Told(p)' /\ Settled(p)'
    BY <1>1 DEF NetPath, Told, Settled, Reported, NoEntry, Right, index, files
  <1>3. NoEntry(p)' <=> NoEntry(p)
    BY <1>1 DEF NoEntry, index
  <1>4. CASE toProcess'[p] = toProcess[p] /\ waiting'[p] = waiting[p]
    BY <1>2, <1>3, <1>4 DEF NetPath, New, Holds
  <1>5. CASE ~ Holds(toProcess, p) /\ toProcess'[p] = waiting[p] /\ waiting'[p] = NoEvent
    BY <1>1, <1>2, <1>3, <1>5 DEF NetPath, New, Holds
  <1> QED
    BY <1>4, <1>5, RunPassSlots

LEMMA GetEventsNet ==
    ASSUME TypeOK, GetEvents, NEW p \in Path, NetPath(p)
    PROVE  NetPath(p)'
  <1>1. /\ file' = file /\ unreported' = unreported /\ present' = present /\ waiting' = waiting
        /\ NoEvent.type = "none" /\ toProcess'[p] = NoEvent
    BY GetEventsFrame, GetEventsHere DEF files, NoEvent
  <1>2. Reported(p)' <=> Reported(p)
    BY <1>1 DEF Reported
  <1>3. Told(p) /\ New(p) /\ Settled(p)
    BY DEF NetPath
  <1>4. /\ toProcess[p].type = "DELETED" => NoEntry(p)'
        /\ ~ Holds(toProcess, p) /\ NoEntry(p) => NoEntry(p)'
    BY GetEventsHere DEF NoEntry
  <1>5. New(p)'
    BY <1>1, <1>3, <1>4 DEF New, Holds
  <1>6. CASE Holds(waiting, p)
    <2>1. LastType(p)' = LastType(p) /\ LastType(p) # "none" /\ Settled(p)'
      BY <1>6, GetEventsWaiting
    <2>2. Told(p)'
      BY <1>1, <1>2, <1>3, <2>1 DEF Told
    <2> QED
      BY <1>5, <2>1, <2>2 DEF NetPath
  <1>7. CASE ~ Holds(waiting, p)
    <2>1. LastType(p)' = "none" /\ LastType(p) = toProcess[p].type
      BY <1>7, GetEventsLast DEF LastType
    <2>2. ~ present[p] => NoEntry(p)'
      BY <1>3, <1>4, <2>1 DEF Told, Holds
    <2>3. Told(p)'
      BY <1>1, <1>2, <1>3, <2>1, <2>2 DEF Told
    <2>4. Settled(p)'
      <3> SUFFICES ASSUME Reported(p)' PROVE Settled(p)'
        BY DEF Settled
      <3>1. LastType(p) = "DELETED" => ~ file[p].there
        BY <1>2, <1>3 DEF Told
      <3> QED
        BY <1>3, <1>7, <3>1, GetEventsSettled
    <2> QED
      BY <1>5, <2>3, <2>4 DEF NetPath
  <1> QED
    BY <1>6, <1>7

LEMMA IndexFileNet ==
    ASSUME TypeOK, NEW p \in Path, IndexFile(p), NetPath(p)
    PROVE  NetPath(p)'
  <1>1. /\ UNCHANGED <<queues, files, history>> /\ outdated' = outdated \ {p} /\ p \in toindex
        /\ IF file[p].there THEN mtime'[p] # 0 ELSE mtime'[p] = mtime[p]
    BY IndexFileHere
  <1>2. ~ NoEntry(p)
    BY <1>1 DEF NoEntry
  <1>3. Told(p)' /\ New(p)'
    BY <1>1, <1>2 DEF NetPath, Told, New, Reported, LastType, Holds, queues, files
  <1>4. Settled(p)'
    <2> SUFFICES ASSUME Reported(p)', (LastType(p) = "none")' PROVE Right(p)'
      BY DEF Settled
    <2>1. file[p].there
      BY <1>1, <1>2 DEF NetPath, Told, Reported, LastType, Holds, queues, files
    <2> QED
      BY <1>1, <2>1 DEF Right, files
  <1> QED
    BY <1>3, <1>4 DEF NetPath

LEMMA NetStep == NetInv /\ [Next]_vars => NetInv'
  <1> SUFFICES ASSUME NetInv, [Next]_vars, NEW q \in Path, q \notin leaked', q \notin missed'
               PROVE  NetPath(q)'
    BY TypeStep DEF NetInv
  <1> USE DEF NetInv
  <1>1. q \notin leaked /\ q \notin missed => NetPath(q)
    OBVIOUS
  <1>2. ASSUME NEW p \in Path, NEW type \in Type, NEW time \in stamp..now, AddEvent(p, type, time)
        PROVE  NetPath(q)'
    <2>1. /\ leaked' = leaked
          /\ missed' = missed \/ missed' = missed \cup {p}
          /\ missed' = missed => Consistent(p, type, time) \/ p \in missed
      BY <1>2, AddEventFrame
    <2>2. NetPath(q)
      BY <1>1, <2>1
    <2>3. CASE q # p
      BY <1>2, <2>2, <2>3, OtherPath, SameNet
    <2>4. CASE q = p
      <3>1. Consistent(p, type, time)
        BY <2>1, <2>4
      <3> QED
        BY <1>2, <2>2, <2>4, <3>1, AddEventNet
    <2> QED
      BY <2>3, <2>4
  <1>3. CASE RunPass
    <2>1. q \notin leaked /\ q \notin missed
      BY <1>3, RunPassSlots, RunPassFrame
    <2> QED
      BY <1>1, <1>3, <2>1, RunPassNet
  <1>4. CASE GetEvents
    <2>1. leaked' = leaked /\ missed' = missed
      BY <1>4, GetEventsFrame
    <2> QED
      BY <1>1, <1>4, <2>1, GetEventsNet
  <1>5. ASSUME NEW p \in Path, ChangeFile(p)
        PROVE  NetPath(q)'
    <2>1. UNCHANGED history /\ UNCHANGED <<queues, toindex, mtime, present>>
      BY <1>5 DEF ChangeFile
    <2>2. NetPath(q)
      BY <1>1, <2>1 DEF history
    <2>3. CASE q # p
      BY <1>5, <2>2, <2>3, OtherPath, SameNet
    <2>4. CASE q = p
      <3>1. unreported'[p] # {}
        BY <1>5 DEF ChangeFile, TypeOK
      <3> QED
        BY <2>1, <2>2, <2>4, <3>1
           DEF NetPath, Told, New, Settled, Reported, NoEntry, LastType, Holds, queues
    <2> QED
      BY <2>3, <2>4
  <1>6. ASSUME NEW p \in Path, IndexFile(p)
        PROVE  NetPath(q)'
    <2>1. UNCHANGED history
      BY <1>6, IndexFileHere
    <2>2. NetPath(q)
      BY <1>1, <2>1 DEF history
    <2>3. CASE q # p
      BY <1>6, <2>2, <2>3, OtherPath, SameNet
    <2>4. CASE q = p
      BY <1>6, <2>2, <2>4, IndexFileNet
    <2> QED
      BY <2>3, <2>4
  <1>7. CASE BeginAdd \/ EndAdd \/ Tick \/ UNCHANGED vars
    <2>1. Of(q)' = Of(q) /\ leaked' = leaked
      BY <1>7, SamePath
    <2>2. q \notin missed
      BY <1>7 DEF BeginAdd, EndAdd, Tick, vars, history
    <2> QED
      BY <1>1, <2>1, <2>2, SameNet
  <1> QED
    BY <1>2, <1>3, <1>4, <1>5, <1>6, <1>7 DEF Next, Queue, Scheduler, Report

LEMMA NetInit == Init => NetInv
  BY TypeInit DEF NetInv, NetPath, Init, Told, New, Settled, NoEntry, Reported, LastType, Holds,
                  Right, NoEvent

(* When every change is reported, once and in order, the entry of every    *)
(* path is right or will be, unless run() lost an event or the scheduler   *)
(* ignored one.                                                            *)
THEOREM NetEffectKept == Spec => []NetEffect
  <1>1. NetInv => NetEffect
    <2>1. ASSUME TypeOK, NEW p \in Path PROVE LastType(p) \in {"CREATED", "UPDATED", "DELETED", "none"}
      BY <2>1 DEF TypeOK, LastType, Slot, Event, Type, NoEvent
    <2> QED
      BY <2>1 DEF NetInv, NetPath, Told, Settled, NetEffect, WillBeRight
  <1> QED
    BY <1>1, NetInit, NetStep, PTL DEF Spec

(* And no CREATED event is handed over for a path that has an entry.       *)
THEOREM CreatedOnlyWhenNew == Spec => []CreatedIsNew
  <1>1. NetInv => CreatedIsNew
    BY DEF NetInv, NetPath, New, CreatedIsNew
  <1> QED
    BY <1>1, NetInit, NetStep, PTL DEF Spec

=============================================================================
