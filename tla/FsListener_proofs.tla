--------------------------- MODULE FsListener_proofs ---------------------------
(***************************************************************************)
(* For any tree of directories, any directories that look alike, any       *)
(* requests, shortage of watches and run of the file system: the listener  *)
(* has watches only where it has to look, reports nothing from elsewhere,  *)
(* what it saw of a file is its last word on it, and every variable keeps  *)
(* its type.                                                               *)
(***************************************************************************)
EXTENDS FsListener, FiniteSetTheorems, SequenceTheorems, WellFoundedInduction, TLAPS

--------------------------------------------------------------------------
(* Directories and what is in them                                         *)

(* A path is in itself, and in what the directory it is in is in.           *)
LEMMA UnderReflexive == ASSUME NEW p \in Path PROVE Under(p, p)
  BY DEF Under, Up

LEMMA UnderTransitive ==
  ASSUME NEW p \in Path, NEW d \in Path, NEW e, Under(p, d), Under(d, e)
  PROVE  Under(p, e)
  BY DEF Under, Up

LEMMA UnderParent ==
  ASSUME NEW p \in Path, Par[p] # Top
  PROVE  Par[p] \in Dir /\ Under(p, Par[p])
<1>1. Par[p] \in Dir /\ Par[p] \in Path
  BY FsAssumption DEF Path
<1>2. QED
  BY <1>1 DEF Under, Up, Closed

(* What a file is in, its directory is in, unless it is the file itself.    *)
LEMMA FileThenParent ==
  ASSUME NEW f \in File, NEW d \in Dir, Under(f, d)
  PROVE  Under(Par[f], d)
<1>1. Par[f] \in Path /\ f \in Path /\ d \in Path /\ d # f
  BY FsAssumption DEF Path
<1>2. SUFFICES ASSUME NEW S \in SUBSET Path, Par[f] \in S, Closed(S)
               PROVE  d \in S
  BY <1>1 DEF Under, Up
<1>3. Closed(S \cup {f})
  BY <1>2 DEF Closed
<1>4. d \in S \cup {f}
  BY <1>1, <1>3 DEF Under, Up
<1>5. QED
  BY <1>1, <1>4

LEMMA UnderIsPrefix ==
  ASSUME NEW p, NEW d, Under(p, d)
  PROVE  StartsWith(p, d)
  BY DEF Under, StartsWith

(* The same for all that is below a set of directories.                     *)
LEMMA BelowAnyMember ==
  ASSUME NEW p, NEW D
  PROVE  p \in BelowAny(D) <=> p \in Path /\ \E d \in D : Under(p, d)
  BY DEF BelowAny, Below

LEMMA BelowAnyReflexive == ASSUME NEW D \in SUBSET Path PROVE D \subseteq BelowAny(D)
  BY UnderReflexive, BelowAnyMember

LEMMA BelowAnyMonotone ==
  ASSUME NEW D, NEW E, D \subseteq E
  PROVE  BelowAny(D) \subseteq BelowAny(E)
  BY BelowAnyMember

LEMMA BelowAnyTransitive ==
  ASSUME NEW D \in SUBSET Path, NEW p \in Path, NEW d \in BelowAny(D), Under(p, d)
  PROVE  p \in BelowAny(D)
<1>1. PICK e \in D : d \in Path /\ Under(d, e)
  BY BelowAnyMember
<1>2. QED
  BY <1>1, UnderTransitive, BelowAnyMember

LEMMA BelowAnyTwice ==
  ASSUME NEW D \in SUBSET Path, NEW E, E \subseteq BelowAny(D)
  PROVE  BelowAny(E) \subseteq BelowAny(D)
<1>1. ASSUME NEW p \in BelowAny(E) PROVE p \in BelowAny(D)
  <2>1. PICK e \in E : p \in Path /\ Under(p, e)
    BY BelowAnyMember
  <2>2. QED
    BY <2>1, BelowAnyTransitive
<1>2. QED
  BY <1>1

(* What a lister finds is below the directory that it was given.            *)
LEMMA ListedIsBelow ==
  ASSUME NEW d
  PROVE  /\ FilesIn(d) \subseteq Below(d) \cap File
         /\ dirs \subseteq Dir => SubdirsIn(d) \subseteq Below(d) \cap Dir
  BY DEF FilesIn, SubdirsIn, Below, Path

--------------------------------------------------------------------------
(* Sequences of events                                                     *)

Ev  == [type : {"CREATED", "UPDATED", "DELETED"}, path : Path, time : Nat]
KEv == {e \in KEvents : e.w # NoWatch => Under(e.path, e.w)}

(* What may be reported while the directories of D are to be looked after.  *)
Reported(D) == {e \in Ev : e.type = "DELETED" \/ e.path \in BelowAny(D)}

LEMMA ReportedMonotone ==
  ASSUME NEW D, NEW E, D \subseteq E
  PROVE  /\ Reported(D) \subseteq Reported(E)
         /\ Seq(Reported(D)) \subseteq Seq(Reported(E))
<1>1. Reported(D) \subseteq Reported(E)
  BY BelowAnyMonotone DEF Reported
<1>2. QED
  BY <1>1, SeqMonotonic

LEMMA ReportedIsEv == ASSUME NEW D PROVE Seq(Reported(D)) \subseteq Seq(Ev)
<1>1. Reported(D) \subseteq Ev
  BY DEF Reported
<1>2. QED
  BY <1>1, SeqMonotonic

LEMMA SetToSeqType ==
  ASSUME NEW S, IsFiniteSet(S)
  PROVE  Q!SetToSeq(S) \in Seq(S)
<1>1. Cardinality(S) \in Nat /\ ExistsBijection(1..Cardinality(S), S)
  BY FS_CardinalityType
<1>2. PICK f \in [1..Cardinality(S) -> S] : \A a, b \in 1..Cardinality(S) : f[a] = f[b] => a = b
  BY <1>1 DEF ExistsBijection, Bijection, Injection, IsInjective
<1>3. \E g \in [1..Cardinality(S) -> S] : Q!IsInjective(g)
  BY <1>2 DEF Q!IsInjective
<1>4. Q!Cardinality(S) = Cardinality(S)
  BY DEF Q!Cardinality, Cardinality
<1>5. Q!SetToSeq(S) \in [1..Cardinality(S) -> S]
  BY <1>3, <1>4 DEF Q!SetToSeq
<1>6. QED
  BY <1>1, <1>5 DEF Seq

(* The events about the paths of a set.                                     *)
LEMMA EventsOfType ==
  ASSUME NEW type \in {"CREATED", "UPDATED", "DELETED"}, NEW S \in SUBSET Path, time \in Nat, NEW D,
         type = "DELETED" \/ S \subseteq BelowAny(D)
  PROVE  EventsOf(type, S) \in Seq(Reported(D))
<1> DEFINE T == {Event(type, p) : p \in S}
<1>1. IsFiniteSet(S)
  BY FsAssumption, FS_Subset
<1>2. [p \in S |-> Event(type, p)] \in Surjection(S, T)
  BY DEF Surjection
<1>3. IsFiniteSet(T)
  BY <1>1, <1>2, FS_Surjection DEF ExistsSurjection
<1>4. T \subseteq Reported(D)
  BY DEF Reported, Ev, Event
<1>5. EventsOf(type, S) \in Seq(T)
  BY <1>3, SetToSeqType DEF EventsOf
<1>6. QED
  BY <1>4, <1>5, SeqMonotonic

--------------------------------------------------------------------------
(* The inductive invariant                                                 *)

Sets ==
    /\ dirs \in SUBSET Dir /\ indexedDirs \in SUBSET Dir /\ reindexDirs \in SUBSET Dir
    /\ dirsNow \in SUBSET Dir /\ todo \in SUBSET Dir /\ monitored \in SUBSET Dir
    /\ toWatch \in SUBSET Path /\ watches \in SUBSET Path /\ kwatch \in SUBSET Path
    /\ pollingDirs \in SUBSET Path
Times == disk \in [File -> Nat] /\ seen \in [File -> Nat] /\ time \in Nat
Queues ==
    /\ kqueue \in Seq(KEv) /\ mEvents \in Seq(KEv)
    /\ events \in Seq(Ev) /\ queue \in Seq(Ev)

(* What goes with the place where the thread is: events are collected in    *)
(* reindex() and in watch() only, and nothing is watched before the first   *)
(* listing is over, of which there is one.                                  *)
Places ==
    /\ pc \in {"run", "boot", "reindex", "reindexWatch", "watch", "process", "watchDir", "end", "crashed"}
    /\ ~bootstrapped => pc \in {"run", "boot", "end"} /\ watches = {}
    /\ pc \notin {"reindex", "reindexWatch"} => monitored = {}
    /\ pc \in {"run", "boot", "end", "crashed"} => events = <<>>
    /\ pc = "process" => mEvents # <<>>
    /\ pc = "boot" => ~bootstrapped

(* The first listing finds what is in the directories it was started with.  *)
Booting ==
    pc = "boot" => /\ todo \subseteq dirsNow /\ toWatch \subseteq BelowAny(dirsNow)
                   /\ \A f \in File : seen[f] > 0 => f \in BelowAny(dirsNow)

(* reindex() finds what is in the directories that are asked for.           *)
Reindexing ==
    /\ pc \in {"reindex", "reindexWatch"} =>
          /\ todo \subseteq dirsNow /\ monitored \subseteq BelowAny(dirsNow)
          /\ events \in Seq(Reported(dirsNow))
    /\ pc = "reindexWatch" => toWatch \subseteq monitored

(* watch() keeps to what has to be looked after.                            *)
Watching ==
    /\ pc \in {"watch", "process", "watchDir"} => events \in Seq(Reported(Known))
    /\ pc = "watchDir" => toWatch \subseteq BelowAny(Known)

(* Every watch has a reason: a directory that is indexed, one that is polled *)
(* and so never let go of, or the reindex() that is under way.              *)
Reasons == watches \subseteq BelowAny(Known \cup monitored)

FInv == Sets /\ Times /\ Queues /\ Places /\ Booting /\ Reindexing /\ Watching /\ Reasons

--------------------------------------------------------------------------
(* What the parts of the actions do                                        *)

LEMMA OrphanType ==
  ASSUME NEW evs \in Seq(KEv), NEW gone
  PROVE  Orphan(evs, gone) \in Seq(KEv)
<1>1. Len(evs) \in Nat
  OBVIOUS
<1>2. ASSUME NEW i \in 1..Len(evs)
      PROVE  (IF evs[i].w \in gone THEN [evs[i] EXCEPT !.w = NoWatch] ELSE evs[i]) \in KEv
  <2>1. evs[i] \in KEv
    OBVIOUS
  <2>2. QED
    BY <2>1 DEF KEv, KEvents
<1>3. Orphan(evs, gone) \in [1..Len(evs) -> KEv]
  BY <1>2 DEF Orphan
<1>4. QED
  BY <1>1, <1>3 DEF Seq

LEMMA GarbledType ==
  ASSUME NEW evs \in Seq(KEv), NEW old \in Garbled(evs)
  PROVE  old \in Seq(KEv) /\ Len(old) = Len(evs)
<1>1. Len(evs) \in Nat /\ DOMAIN evs = 1..Len(evs)
  OBVIOUS
<1>2. ASSUME NEW i \in 1..Len(evs) PROVE old[i] \in KEv
  <2>1. PICK e \in Q!ToSet(evs) : old[i] \in {e, [e EXCEPT !.dir = ~e.dir], [e EXCEPT !.w = NoWatch]}
    BY DEF Garbled
  <2>2. e \in KEv
    BY <1>1 DEF Q!ToSet, Q!Range
  <2>3. CASE old[i] = e
    BY <2>2, <2>3
  <2>4. CASE old[i] = [e EXCEPT !.dir = ~e.dir]
    BY <2>2, <2>4 DEF KEv, KEvents
  <2>5. CASE old[i] = [e EXCEPT !.w = NoWatch]
    BY <2>2, <2>5 DEF KEv, KEvents
  <2>6. QED
    BY <2>1, <2>3, <2>4, <2>5
<1>3. old \in [1..Len(evs) -> KEv]
  BY <1>2 DEF Garbled
<1>4. QED
  BY <1>1, <1>3 DEF Seq

LEMMA FamEventsType ==
  ASSUME NEW e \in KEv, NEW event \in FamEvents(e)
  PROVE  event \in KEv
<1>1. CASE e.path \in There
  <2>1. CASE e.path \in Dir
    <3>1. event = [e EXCEPT !.dir = TRUE]
      BY <1>1, <2>1, Zenon DEF FamEvents
    <3>2. QED
      BY <3>1 DEF KEv, KEvents
  <2>2. CASE e.path \notin Dir
    <3>1. (e.path \in Dir) = FALSE
      BY <2>2
    <3>2. event = [e EXCEPT !.dir = FALSE]
      BY <1>1, <3>1, Zenon DEF FamEvents
    <3>3. QED
      BY <3>2 DEF KEv, KEvents
  <2>3. QED
    BY <2>1, <2>2
<1>2. CASE e.path \notin There
  <2>1. PICK b \in BOOLEAN : event = [e EXCEPT !.dir = b]
    BY <1>2 DEF FamEvents
  <2>2. QED
    BY <2>1 DEF KEv, KEvents
<1>3. QED
  BY <1>1, <1>2

(* An event comes with the watch of a directory that its path is in.        *)
LEMMA IfWatchedType ==
  ASSUME NEW type \in {"CREATE", "UPDATE", "DELETE"}, NEW p \in Path, NEW w \in {p, Par[p]},
         NEW dir \in BOOLEAN, kwatch \in SUBSET Path
  PROVE  IfWatched(KernelEvent(type, p, w, dir)) \in Seq(KEv)
<1>1. CASE w \in kwatch
  <2>1. w \in Path /\ Under(p, w)
    BY <1>1, FsAssumption, UnderReflexive, UnderParent
  <2>2. KernelEvent(type, p, w, dir) \in KEv
    BY <2>1 DEF KEv, KEvents, KernelEvent
  <2>3. QED
    BY <1>1, <2>2 DEF IfWatched, KernelEvent
<1>2. CASE w \notin kwatch
  BY <1>2 DEF IfWatched, KernelEvent
<1>3. QED
  BY <1>1, <1>2

LEMMA EmitType ==
  ASSUME NEW evs \in Seq(KEv), NEW more \in Seq(KEv), kqueue \in Seq(KEv), Emit(evs \o more)
  PROVE  kqueue' \in Seq(KEv)
  BY ConcatProperties DEF Emit

(* addWatches(): what is not watched then is polled.                        *)
LEMMA AddWatchesAdds ==
  ASSUME NEW S \in SUBSET Path, AddWatches(S)
  PROVE  /\ watches \subseteq watches' /\ watches' \subseteq watches \cup S
         /\ kwatch' \subseteq kwatch \cup S
         /\ pollingDirs \subseteq pollingDirs' /\ pollingDirs' \subseteq pollingDirs \cup S
<1>1. PICK new \in Granted(S) :
        watches' = watches \cup new /\ kwatch' = kwatch \cup new
        /\ pollingDirs' = pollingDirs \cup (S \ watches')
  BY DEF AddWatches
<1>2. new \subseteq S
  BY DEF Granted
<1>3. QED
  BY <1>1, <1>2

LEMMA DropWatchesDrops ==
  ASSUME NEW S, NEW evs \in Seq(KEv), kqueue \in Seq(KEv), DropWatches(S, evs)
  PROVE  /\ watches' \subseteq watches /\ kwatch' \subseteq kwatch
         /\ kqueue' \in Seq(KEv) /\ mEvents' \in Seq(KEv)
         /\ \A p \in watches' : \A d \in S : ~Under(p, d)
<1>1. watches' = watches \ Gone(S) /\ kwatch' = kwatch \ Gone(S)
      /\ kqueue' = Orphan(kqueue, Gone(S)) /\ mEvents' = Orphan(evs, Gone(S))
  BY DEF DropWatches
<1>2. kqueue' \in Seq(KEv) /\ mEvents' \in Seq(KEv)
  BY <1>1, OrphanType
<1>3. QED
  BY <1>1, <1>2, UnderIsPrefix DEF Gone

(* What a directory that was removed is reported with.                      *)
LEMMA EmptiedType ==
  ASSUME NEW S, NEW index, NEW D, time \in Nat
  PROVE  Emptied(S, index) \in Seq(Reported(D))
<1>1. UNION {Children(d, index) : d \in S} \in SUBSET Path
  BY DEF Children, Path
<1>2. QED
  BY <1>1, EventsOfType DEF Emptied

LEMMA FoundType ==
  ASSUME NEW d, NEW D \in SUBSET Path, d \in BelowAny(D), time \in Nat
  PROVE  /\ FilesIn(d) \subseteq BelowAny(D)
         /\ EventsOf("CREATED", FilesIn(d)) \in Seq(Reported(D))
         /\ dirs \subseteq Dir => SubdirsIn(d) \subseteq BelowAny(D)
<1>1. Below(d) \subseteq BelowAny(D)
  BY BelowAnyTransitive, BelowAnyMember DEF Below
<1>2. FilesIn(d) \subseteq BelowAny(D) /\ FilesIn(d) \in SUBSET Path
  BY <1>1, ListedIsBelow DEF Path
<1>3. QED
  BY <1>1, <1>2, ListedIsBelow, EventsOfType

(* The events of the first listing are about what was listed, or about the  *)
(* directory that a listed file is in.                                      *)
LEMMA BootEventsType ==
  ASSUME Sets, Times, \A f \in File : seen[f] > 0 => f \in BelowAny(dirsNow), NEW index \in Indexes
  PROVE  BootEvents(index) \in Seq(Reported(dirsNow))
<1> DEFINE listed  == {Par[f] : f \in {g \in File : seen[g] > 0}}
           indexed == UNION {Children(d, index) : d \in listed}
           lost    == {f \in indexed : seen[f] = 0}
           newer   == {f \in indexed : seen[f] > index[f]}
           same    == {f \in indexed : 0 < seen[f] /\ seen[f] <= index[f]}
<1>1. indexed \in SUBSET File
  BY DEF Children
<1>2. EventsOf("DELETED", {Par[f] : f \in lost}) \in Seq(Reported(dirsNow))
  <2>1. {Par[f] : f \in lost} \in SUBSET Path
    BY <1>1, FsAssumption DEF Path
  <2>2. QED
    BY <2>1, EventsOfType DEF Times
<1>3. EventsOf("UPDATED", {Par[f] : f \in newer}) \in Seq(Reported(dirsNow))
  <2>1. ASSUME NEW f \in newer PROVE Par[f] \in Dir /\ Par[f] \in BelowAny(dirsNow)
    <3>1. f \in File /\ seen[f] > 0 /\ Par[f] \in Dir
      <4>1. f \in File /\ seen[f] > index[f] /\ seen[f] \in Nat
        BY <1>1 DEF Times
      <4>2. Par[f] \in Dir /\ index \in [File -> Nat]
        BY <4>1, FsAssumption
      <4>3. index[f] \in Nat
        BY <4>1, <4>2
      <4>4. QED
        BY <4>1, <4>2, <4>3
    <3>2. PICK d \in dirsNow : Under(f, d)
      BY <3>1, BelowAnyMember
    <3>3. Under(Par[f], d)
      BY <3>1, <3>2, FileThenParent DEF Sets
    <3>4. QED
      BY <3>1, <3>2, <3>3, BelowAnyMember DEF Path
  <2>2. {Par[f] : f \in newer} \in SUBSET Path /\ {Par[f] : f \in newer} \subseteq BelowAny(dirsNow)
    BY <2>1 DEF Path
  <2>3. QED
    BY <2>2, EventsOfType DEF Times
<1>4. EventsOf("CREATED", {f \in File : seen[f] > 0} \ same) \in Seq(Reported(dirsNow))
  <2>1. {f \in File : seen[f] > 0} \ same \in SUBSET Path
    BY DEF Path
  <2>2. {f \in File : seen[f] > 0} \ same \subseteq BelowAny(dirsNow)
    OBVIOUS
  <2>3. QED
    BY <2>1, <2>2, EventsOfType DEF Times
<1> HIDE DEF listed, indexed, lost, newer, same
<1>5. BootEvents(index) = EventsOf("DELETED", {Par[f] : f \in lost}) \o EventsOf("UPDATED", {Par[f] : f \in newer})
                   \o EventsOf("CREATED", {f \in File : seen[f] > 0} \ same)
  BY DEF BootEvents, listed, indexed, lost, newer, same
<1>6. QED
  BY <1>2, <1>3, <1>4, <1>5, ConcatProperties

(* Every step leaves the queue alone, or hands over what may be reported    *)
(* with the directories that have to be looked after then.                  *)
HandsOver ==
    \/ queue' = queue
    \/ \E evs \in Seq(Reported(Known')) : queue' = queue \o evs

LEMMA ReportedMore ==
  ASSUME NEW D, D \subseteq Known', NEW evs \in Seq(Reported(D)), AddEvents(evs)
  PROVE  HandsOver
<1>1. evs \in Seq(Reported(Known'))
  BY ReportedMonotone
<1>2. QED
  BY <1>1 DEF HandsOver, AddEvents

LEMMA BootEndHandsOver == ASSUME FInv, BootEnd PROVE HandsOver
<1>1. CASE reindexReq
  BY <1>1 DEF BootEnd, HandsOver
<1>2. CASE ~reindexReq
  <2>1. PICK index \in Indexes : AddEvents(BootEvents(index)) /\ indexedDirs' = dirsNow /\ pc = "boot"
    BY <1>2 DEF BootEnd
  <2>2. BootEvents(index) \in Seq(Reported(dirsNow))
    BY <2>1, BootEventsType DEF FInv, Booting
  <2>3. QED
    BY <2>1, <2>2, ReportedMore DEF Known
<1>3. QED
  BY <1>1, <1>2

LEMMA ReindexDoneHandsOver == ASSUME FInv, ReindexDone PROVE HandsOver
<1> DEFINE deleted == Diff(indexedDirs, dirsNow)
<1>1. PICK index \in Indexes :
        AddEvents(events \o Emptied(deleted \ pollingDirs, index)) /\ indexedDirs' = dirsNow /\ pc = "reindex"
  BY DEF ReindexDone, ReindexEnd
<1>2. PICK gone : gone = Emptied(deleted \ pollingDirs, index)
  OBVIOUS
<1>3. gone \in Seq(Reported(dirsNow)) /\ events \in Seq(Reported(dirsNow))
  BY <1>1, <1>2, EmptiedType DEF FInv, Times, Reindexing
<1>4. events \o gone \in Seq(Reported(dirsNow))
  BY <1>3, ConcatProperties
<1>5. QED
  BY <1>1, <1>2, <1>4, ReportedMore DEF Known

LEMMA WatchHandsOver ==
  ASSUME FInv, PendingRead \/ PendingTimeout
  PROVE  HandsOver
<1>1. indexedDirs' = indexedDirs /\ pollingDirs' = pollingDirs
  BY DEF PendingRead, PendingTimeout, polls
<1>2. UNCHANGED queue \/ (AddEvents(events) /\ pc \in {"run", "watch"})
  BY DEF PendingRead, PendingTimeout, TimeoutWithEvents, TimeoutWithNone, ReadInotify, ReadFam
<1>3. pc \in {"run", "watch"} => events \in Seq(Reported(Known))
  BY EmptySeq DEF FInv, Places, Watching
<1>4. QED
  BY <1>1, <1>2, <1>3, ReportedMore DEF Known, HandsOver

LEMMA StepHandsOver == ASSUME FInv, [Next]_vars PROVE HandsOver
<1>1. CASE BootEnd
  BY <1>1, BootEndHandsOver
<1>2. CASE ReindexDone
  BY <1>2, ReindexDoneHandsOver
<1>3. CASE ReindexUndo
  <2>1. AddEvents(<<>>)
    BY <1>3 DEF ReindexUndo, ReindexEnd
  <2>2. queue' = queue
    BY <2>1, ConcatEmptySeq DEF AddEvents, FInv, Queues
  <2>3. QED
    BY <2>2 DEF HandsOver
<1>4. CASE PendingRead \/ PendingTimeout
  BY <1>4, WatchHandsOver
<1>5. CASE Environment
  <2>1. UNCHANGED queue
    BY <1>5 DEF Environment, ChangeFile, Arrive, Leave, SetIndexedDirectories, Stop, EnvUnchanged
  <2>2. QED
    BY <2>1 DEF HandsOver
<1>6. CASE \/ RunEnd \/ BootBegin \/ BootList \/ ReindexBegin \/ ReindexList \/ ReindexWatch
           \/ Discard \/ ProcessPlain \/ ProcessDirDeleted \/ ProcessDirCreated \/ WatchNewDir
  BY <1>6 DEF HandsOver, RunEnd, BootBegin, BootList, ReindexBegin, ReindexList, ReindexWatch,
              Discard, ProcessPlain, ProcessDirDeleted, ProcessDirCreated, WatchNewDir
<1>7. CASE UNCHANGED vars
  BY <1>7 DEF HandsOver, vars
<1>8. QED
  BY <1>1, <1>2, <1>3, <1>4, <1>5, <1>6, <1>7 DEF Next, Listener

(* The end of reindex() drops a watch unless there is a reason that stays.   *)
LEMMA ReindexEndKeeps ==
  ASSUME FInv, NEW gone \in SUBSET Dir, NEW evs, NEW newDirs \in SUBSET Dir, pc = "reindex",
         ReindexEnd(gone, evs, newDirs), queue' \in Seq(Ev),
         \A d \in Known \cup monitored : d \in gone \ pollingDirs \/ d \in BelowAny(newDirs \cup pollingDirs)
  PROVE  FInv'
<1>0. Sets /\ Times /\ Queues /\ Places /\ Reasons /\ bootstrapped
  BY DEF FInv, Places
<1>1. DropWatches(gone \ pollingDirs, mEvents) /\ pollingDirs' = pollingDirs /\ indexedDirs' = newDirs
  BY DEF ReindexEnd, DirsRemoved
<1>2. /\ watches' \subseteq watches /\ kwatch' \subseteq kwatch
      /\ kqueue' \in Seq(KEv) /\ mEvents' \in Seq(KEv)
      /\ \A p \in watches' : \A d \in gone \ pollingDirs : ~Under(p, d)
  BY <1>0, <1>1, DropWatchesDrops DEF Queues
<1>3. events' = <<>> /\ todo' = {} /\ monitored' = {} /\ dirsNow' = {} /\ pc' \in {"crashed", "run"}
      /\ UNCHANGED <<fs, req, bootstrapped, toWatch, seen>>
  BY DEF ReindexEnd
<1>4. Sets'
  BY <1>0, <1>1, <1>2, <1>3 DEF Sets, fs, req
<1>5. Times'
  BY <1>0, <1>3 DEF Times, fs
<1>6. Queues'
  BY <1>2, <1>3, EmptySeq DEF Queues
<1>7. Places' /\ Booting' /\ Reindexing' /\ Watching'
  BY <1>0, <1>3 DEF Places, Booting, Reindexing, Watching
<1>8. Reasons'
  <2>1. ASSUME NEW p \in watches' PROVE p \in BelowAny(newDirs \cup pollingDirs)
    <3>1. PICK d \in Known \cup monitored : Under(p, d) /\ p \in Path
      BY <1>0, <1>2, BelowAnyMember DEF Reasons
    <3>2. d \in BelowAny(newDirs \cup pollingDirs)
      BY <1>2, <3>1
    <3>3. QED
      BY <1>0, <3>1, <3>2, BelowAnyTransitive DEF Sets, Path
  <2>2. QED
    BY <1>1, <1>3, <2>1 DEF Reasons, Known
<1>9. QED
  BY <1>4, <1>5, <1>6, <1>7, <1>8 DEF FInv

(* What an event with a watch is about has to be looked after.               *)
LEMMA FirstIsKnown ==
  ASSUME Sets, Reasons, monitored = {}, NEW e \in KEv, e.w \in watches
  PROVE  e.path \in Path /\ e.path \in BelowAny(Known) /\ Known \in SUBSET Path
<1>1. e.w \in Path /\ e.w # NoWatch
  BY FsAssumption DEF Sets
<1>2. e.path \in Path /\ Under(e.path, e.w)
  BY <1>1 DEF KEv, KEvents
<1>3. Known \in SUBSET Path /\ e.w \in BelowAny(Known)
  BY DEF Sets, Reasons, Known, Path
<1>4. QED
  BY <1>2, <1>3, BelowAnyTransitive

LEMMA QueueType == ASSUME FInv, [Next]_vars PROVE queue' \in Seq(Ev)
<1>1. CASE queue' \in {queue, <<>>}
  BY <1>1, EmptySeq DEF FInv, Queues
<1>2. CASE \E evs \in Seq(Reported(Known')) : queue' = queue \o evs
  BY <1>2, ReportedIsEv, ConcatProperties DEF FInv, Queues
<1>3. QED
  BY <1>1, <1>2, StepHandsOver DEF HandsOver

LEMMA StepKeeps == ASSUME FInv, [Next]_vars PROVE FInv'
<1>1. ASSUME NEW f \in File, ChangeFile(f) PROVE FInv'
  <2>0. Sets /\ Times /\ Queues /\ Places /\ Booting /\ Reindexing /\ Watching /\ Reasons
    BY DEF FInv
  <2>1. Sets' /\ Times'
    BY <2>0, <1>1 DEF Sets, Times, ChangeFile, fs, kernel, req, polls, locals, EnvUnchanged, GetReindexDirs, Known, vars
  <2>2. Places' /\ Booting' /\ Reindexing' /\ Watching' /\ Reasons'
    BY <2>0, <1>1 DEF Places, Booting, Reindexing, Watching, Reasons, ChangeFile, fs, kernel, req, polls, locals, EnvUnchanged, GetReindexDirs, Known, vars
  <2>3. Queues'
    <3>1. kqueue' \in Seq(KEv)
      <4>1. f \in Path /\ kwatch \in SUBSET Path
        BY <2>0 DEF Sets, Path
      <4>2. PICK type \in {"CREATE", "UPDATE", "DELETE"}, self \in {"UPDATE", "DELETE"} :
              Emit(IfWatched(KernelEvent(type, f, Par[f], FALSE)) \o IfWatched(KernelEvent(self, f, f, FALSE)))
        BY <1>1 DEF ChangeFile
      <4>3. QED
        BY <2>0, <4>1, <4>2, IfWatchedType, EmitType DEF Queues
    <3>2. QED
      BY <2>0, <3>1, <1>1 DEF Queues, ChangeFile, EnvUnchanged
  <2>4. QED
    BY <2>1, <2>2, <2>3 DEF FInv
<1>2. ASSUME NEW d \in Dir, Arrive(d) PROVE FInv'
  <2>0. Sets /\ Times /\ Queues /\ Places /\ Booting /\ Reindexing /\ Watching /\ Reasons
    BY DEF FInv
  <2>1. Sets' /\ Times'
    BY <2>0, <1>2 DEF Sets, Times, Arrive, fs, kernel, req, polls, locals, EnvUnchanged, GetReindexDirs, Known, vars
  <2>2. Places' /\ Booting' /\ Reindexing' /\ Watching' /\ Reasons'
    BY <2>0, <1>2 DEF Places, Booting, Reindexing, Watching, Reasons, Arrive, fs, kernel, req, polls, locals, EnvUnchanged, GetReindexDirs, Known, vars
  <2>3. Queues'
    <3>1. kqueue' \in Seq(KEv)
      <4>1. d \in Path /\ kwatch \in SUBSET Path
        BY <2>0 DEF Sets, Path
      <4>2. IfWatched(KernelEvent("CREATE", d, Par[d], TRUE)) \in Seq(KEv)
        BY <4>1, IfWatchedType
      <4>3. QED
        BY <2>0, <1>2, <4>2, ConcatProperties DEF Queues, Arrive, Emit
    <3>2. QED
      BY <2>0, <3>1, <1>2 DEF Queues, Arrive, EnvUnchanged
  <2>4. QED
    BY <2>1, <2>2, <2>3 DEF FInv
<1>3. ASSUME NEW d \in Dir, Leave(d) PROVE FInv'
  <2>0. Sets /\ Times /\ Queues /\ Places /\ Booting /\ Reindexing /\ Watching /\ Reasons
    BY DEF FInv
  <2>1. Sets' /\ Times'
    BY <2>0, <1>3 DEF Sets, Times, Leave, fs, kernel, req, polls, locals, EnvUnchanged, GetReindexDirs, Known, vars
  <2>2. Places' /\ Booting' /\ Reindexing' /\ Watching' /\ Reasons'
    BY <2>0, <1>3 DEF Places, Booting, Reindexing, Watching, Reasons, Leave, fs, kernel, req, polls, locals, EnvUnchanged, GetReindexDirs, Known, vars
  <2>3. Queues'
    <3>1. kqueue' \in Seq(KEv)
      <4>1. d \in Path /\ kwatch \in SUBSET Path
        BY <2>0 DEF Sets, Path
      <4>2. PICK self \in {<<>>, IfWatched(KernelEvent("DELETE", d, d, FALSE))} :
              Emit(IfWatched(KernelEvent("DELETE", d, Par[d], TRUE)) \o self)
        BY <1>3 DEF Leave
      <4>3. self \in Seq(KEv) /\ IfWatched(KernelEvent("DELETE", d, Par[d], TRUE)) \in Seq(KEv)
        BY <4>1, <4>2, IfWatchedType, EmptySeq
      <4>4. QED
        BY <2>0, <4>2, <4>3, EmitType DEF Queues
    <3>2. QED
      BY <2>0, <3>1, <1>3 DEF Queues, Leave, EnvUnchanged
  <2>4. QED
    BY <2>1, <2>2, <2>3 DEF FInv
<1>4. ASSUME NEW S \in Requests, SetIndexedDirectories(S) PROVE FInv'
  <2>0. Sets /\ Times /\ Queues /\ Places /\ Booting /\ Reindexing /\ Watching /\ Reasons
    BY DEF FInv
  <2>1. Queues' /\ Places' /\ Booting' /\ Reindexing' /\ Watching' /\ Reasons'
    BY <2>0, <1>4 DEF Queues, Places, Booting, Reindexing, Watching, Reasons, SetIndexedDirectories, fs, kernel, req, polls, locals, EnvUnchanged, GetReindexDirs, Known, vars
  <2>2. Sets'
    <3>1. S \in SUBSET Dir
      BY FsAssumption
    <3>2. QED
      BY <2>0, <1>4, <3>1 DEF Sets, SetIndexedDirectories, fs, kernel, locals, polls
  <2>3. Times'
    BY <2>0, <1>4 DEF Times, SetIndexedDirectories, fs, locals
  <2>4. QED
    BY <2>1, <2>2, <2>3 DEF FInv
<1>5. CASE Stop
  BY <1>5 DEF FInv, Sets, Times, Queues, Places, Booting, Reindexing, Watching, Reasons, Stop, fs, kernel, req, polls, locals, EnvUnchanged, GetReindexDirs, Known, vars
<1>6. CASE RunEnd
  BY <1>6 DEF FInv, Sets, Times, Queues, Places, Booting, Reindexing, Watching, Reasons, RunEnd, fs, kernel, req, polls, locals, EnvUnchanged, GetReindexDirs, Known, vars
<1>7. CASE BootBegin
  <2>0. Sets /\ Times /\ Queues /\ Places /\ Booting /\ Reindexing /\ Watching /\ Reasons
    BY DEF FInv
  <2>1. Times' /\ Queues' /\ Places' /\ Reindexing' /\ Watching' /\ Reasons'
    BY <2>0, <1>7 DEF Times, Queues, Places, Reindexing, Watching, Reasons, BootBegin, fs, kernel, req, polls, locals, EnvUnchanged, GetReindexDirs, Known, vars
  <2>2. Sets'
    <3>1. dirsNow' \in SUBSET Dir /\ todo' = dirsNow' /\ toWatch' = dirsNow' /\ reindexDirs' \in SUBSET Dir
      BY <2>0, <1>7 DEF Sets, BootBegin, GetReindexDirs, req
    <3>2. QED
      BY <2>0, <3>1, <1>7 DEF Sets, BootBegin, fs, kernel, polls, Path
  <2>3. Booting'
    <3>1. dirsNow' \in SUBSET Path /\ todo' = dirsNow' /\ toWatch' = dirsNow'
      BY <2>0, <1>7 DEF Sets, BootBegin, Path
    <3>2. dirsNow' \subseteq BelowAny(dirsNow')
      BY <3>1, BelowAnyReflexive
    <3>3. seen' = [f \in File |-> 0]
      BY <1>7 DEF BootBegin
    <3>4. QED
      BY <3>1, <3>2, <3>3 DEF Booting
  <2>4. QED
    BY <2>1, <2>2, <2>3 DEF FInv
<1>8. CASE BootList
  <2>0. Sets /\ Times /\ Queues /\ Places /\ Booting /\ Reindexing /\ Watching /\ Reasons
    BY DEF FInv
  <2>1. Times' /\ Queues' /\ Places' /\ Reindexing' /\ Watching' /\ Reasons'
    BY <2>0, <1>8 DEF Times, Queues, Places, Reindexing, Watching, Reasons, BootList, fs, kernel, req, polls, locals, EnvUnchanged, GetReindexDirs, Known, vars
  <2>2. Sets'
    <3>1. PICK d \in todo : /\ todo' = todo \ {d}
                           /\ toWatch' = toWatch \cup SubdirsIn(d)
                           /\ seen' = [f \in File |-> IF f \in FilesIn(d) THEN disk[f] ELSE seen[f]]
      BY <1>8 DEF BootList
    <3>2. SubdirsIn(d) \subseteq Path
      BY <2>0, ListedIsBelow DEF Sets, Path
    <3>3. QED
      BY <2>0, <3>1, <3>2, <1>8 DEF Sets, BootList, fs, kernel, req, polls
  <2>3. Booting'
    <3>1. PICK d \in todo : /\ todo' = todo \ {d}
                           /\ toWatch' = toWatch \cup SubdirsIn(d)
                           /\ seen' = [f \in File |-> IF f \in FilesIn(d) THEN disk[f] ELSE seen[f]]
      BY <1>8 DEF BootList
    <3>2. pc = "boot" /\ dirsNow' = dirsNow
      BY <1>8 DEF BootList
    <3>3. dirsNow \in SUBSET Path /\ d \in dirsNow /\ d \in BelowAny(dirsNow) /\ dirs \subseteq Dir
      BY <2>0, <3>2, BelowAnyReflexive DEF Sets, Booting, Path
    <3>4. FilesIn(d) \subseteq BelowAny(dirsNow) /\ SubdirsIn(d) \subseteq BelowAny(dirsNow)
      BY <2>0, <3>3, FoundType DEF Times
    <3>5. QED
      BY <2>0, <3>1, <3>2, <3>4 DEF Booting
  <2>4. QED
    BY <2>1, <2>2, <2>3 DEF FInv
<1>9. CASE BootEnd
  <2>0. Sets /\ Times /\ Queues /\ Places /\ Booting /\ Reindexing /\ Watching /\ Reasons
    BY DEF FInv
  <2>q. queue' \in Seq(Ev)
    BY QueueType
  <2>1. Times' /\ Places' /\ Booting' /\ Reindexing' /\ Watching'
    BY <2>0, <1>9 DEF Times, Places, Booting, Reindexing, Watching, BootEnd, fs, kernel, req, polls, locals, EnvUnchanged, GetReindexDirs, Known, vars
  <2>2. Sets'
    <3>1. CASE reindexReq
      BY <2>0, <3>1, <1>9 DEF Sets, BootEnd, fs, polls, req
    <3>2. CASE ~reindexReq
      <4>1. AddWatches(toWatch) /\ indexedDirs' = dirsNow /\ dirsNow' = {} /\ toWatch' = {}
        BY <3>2, <1>9 DEF BootEnd
      <4>2. /\ watches' \in SUBSET Path /\ kwatch' \in SUBSET Path /\ pollingDirs' \in SUBSET Path
        BY <2>0, <4>1, AddWatchesAdds DEF Sets
      <4>3. QED
        BY <2>0, <4>1, <4>2, <1>9 DEF Sets, BootEnd, fs, req
    <3>3. QED
      BY <3>1, <3>2
  <2>3. Queues'
    BY <2>0, <2>q, <1>9 DEF Queues, BootEnd, kernel
  <2>4. Reasons'
    <3>1. CASE reindexReq
      BY <2>0, <3>1, <1>9 DEF Reasons, Known, BootEnd, polls
    <3>2. CASE ~reindexReq
      <4>1. AddWatches(toWatch) /\ indexedDirs' = dirsNow /\ pc = "boot" /\ ~bootstrapped
        BY <2>0, <3>2, <1>9 DEF BootEnd, Places
      <4>2. watches' \subseteq BelowAny(dirsNow)
        BY <2>0, <4>1, AddWatchesAdds DEF Sets, Places, Booting
      <4>3. QED
        BY <4>1, <4>2, BelowAnyMonotone DEF Reasons, Known
    <3>3. QED
      BY <3>1, <3>2
  <2>5. QED
    BY <2>1, <2>2, <2>3, <2>4 DEF FInv
<1>10. CASE ReindexBegin
  <2>0. Sets /\ Times /\ Queues /\ Places /\ Booting /\ Reindexing /\ Watching /\ Reasons
    BY DEF FInv
  <2>1. Times' /\ Queues' /\ Places' /\ Booting' /\ Watching' /\ Reasons'
    BY <2>0, <1>10 DEF Times, Queues, Places, Booting, Watching, Reasons, ReindexBegin, fs, kernel, req, polls, locals, EnvUnchanged, GetReindexDirs, Known, vars
  <2>2. Sets'
    BY <2>0, <1>10 DEF Sets, ReindexBegin, GetReindexDirs, Diff, fs, kernel, polls
  <2>3. Reindexing'
    <3>1. monitored' = {} /\ events' = <<>> /\ pc' = "reindex" /\ todo' \subseteq dirsNow'
      BY <2>0, <1>10 DEF Places, ReindexBegin, Diff
    <3>2. QED
      BY <3>1, EmptySeq DEF Reindexing
  <2>4. QED
    BY <2>1, <2>2, <2>3 DEF FInv
<1>11. CASE ReindexList
  <2>0. Sets /\ Times /\ Queues /\ Places /\ Booting /\ Reindexing /\ Watching /\ Reasons
    BY DEF FInv
  <2>1. Times' /\ Places' /\ Booting' /\ Watching'
    BY <2>0, <1>11 DEF Times, Places, Booting, Watching, ReindexList, fs, kernel, req, polls, locals, EnvUnchanged, GetReindexDirs, Known, vars
  <2>2. Sets' /\ Queues' /\ Reindexing' /\ Reasons'
    <3>1. PICK d \in todo : /\ todo' = todo \ {d} /\ events' = events \o EventsOf("CREATED", FilesIn(d))
                           /\ toWatch' = SubdirsIn(d) /\ monitored' = monitored \cup SubdirsIn(d)
      BY <1>11 DEF ReindexList
    <3>2. pc = "reindex" /\ dirsNow' = dirsNow
      BY <1>11 DEF ReindexList
    <3>3. dirsNow \in SUBSET Path /\ d \in dirsNow /\ d \in BelowAny(dirsNow) /\ dirs \subseteq Dir /\ time \in Nat
      BY <2>0, <3>2, BelowAnyReflexive DEF Sets, Times, Reindexing, Path
    <3>4. /\ EventsOf("CREATED", FilesIn(d)) \in Seq(Reported(dirsNow)) /\ SubdirsIn(d) \subseteq BelowAny(dirsNow)
      BY <3>3, FoundType
    <3>5. events' \in Seq(Reported(dirsNow))
      BY <2>0, <3>1, <3>2, <3>4, ConcatProperties DEF Reindexing
    <3>6. SubdirsIn(d) \in SUBSET Dir
      BY <3>3, ListedIsBelow
    <3>7. Sets'
      BY <2>0, <3>1, <3>6, <1>11 DEF Sets, ReindexList, fs, kernel, req, polls, Path
    <3>8. Queues'
      BY <2>0, <3>5, ReportedIsEv, <1>11 DEF Queues, ReindexList, kernel
    <3>9. Reindexing'
      BY <2>0, <3>1, <3>2, <3>4, <3>5 DEF Reindexing
    <3>10. Reasons'
      <4>1. Known \cup monitored \subseteq Known' \cup monitored' /\ watches' = watches
        BY <3>1, <1>11 DEF ReindexList, Known, polls
      <4>2. QED
        BY <2>0, <4>1, BelowAnyMonotone DEF Reasons
    <3>11. QED
      BY <3>7, <3>8, <3>9, <3>10
  <2>3. QED
    BY <2>1, <2>2 DEF FInv
<1>12. CASE ReindexWatch
  <2>0. Sets /\ Times /\ Queues /\ Places /\ Booting /\ Reindexing /\ Watching /\ Reasons
    BY DEF FInv
  <2>1. Times' /\ Queues' /\ Places' /\ Booting' /\ Reindexing' /\ Watching'
    BY <2>0, <1>12 DEF Times, Queues, Places, Booting, Reindexing, Watching, ReindexWatch, fs, kernel, req, polls, locals, EnvUnchanged, GetReindexDirs, Known, vars
  <2>2. Sets' /\ Reasons'
    <3>1. AddWatches(toWatch) /\ toWatch' = {} /\ toWatch \subseteq monitored /\ monitored \subseteq Path
          /\ monitored' = monitored /\ indexedDirs' = indexedDirs
      BY <2>0, <1>12 DEF ReindexWatch, Reindexing, Sets, Path
    <3>2. /\ watches' \subseteq watches \cup toWatch /\ kwatch' \subseteq kwatch \cup toWatch
          /\ pollingDirs \subseteq pollingDirs' /\ pollingDirs' \subseteq pollingDirs \cup toWatch
      BY <2>0, <3>1, AddWatchesAdds DEF Sets
    <3>3. Sets'
      BY <2>0, <3>1, <3>2, <1>12 DEF Sets, ReindexWatch, fs, req
    <3>4. Known \cup monitored \subseteq Known' \cup monitored' /\ monitored \subseteq BelowAny(monitored)
      BY <3>1, <3>2, BelowAnyReflexive DEF Known
    <3>5. Reasons'
      BY <2>0, <3>1, <3>2, <3>4, BelowAnyMonotone DEF Reasons
    <3>6. QED
      BY <3>3, <3>5
  <2>3. QED
    BY <2>1, <2>2 DEF FInv
<1>13. CASE ReindexUndo
  <2>0. Sets /\ Times /\ Queues /\ Places /\ Booting /\ Reindexing /\ Watching /\ Reasons
    BY DEF FInv
  <2>q. queue' \in Seq(Ev)
    BY QueueType
  <2>1. /\ ReindexEnd(monitored, <<>>, indexedDirs) /\ pc = "reindex"
    BY <1>13 DEF ReindexUndo
  <2>2. \A d \in Known \cup monitored : d \in monitored \ pollingDirs \/ d \in BelowAny(indexedDirs \cup pollingDirs)
    BY <2>0, BelowAnyReflexive DEF Known, Sets, Path
  <2>3. QED
    BY <2>0, <2>1, <2>2, <2>q, ReindexEndKeeps DEF Sets
<1>14. CASE ReindexDone
  <2>0. Sets /\ Times /\ Queues /\ Places /\ Booting /\ Reindexing /\ Watching /\ Reasons
    BY DEF FInv
  <2>q. queue' \in Seq(Ev)
    BY QueueType
  <2> DEFINE deleted == Diff(indexedDirs, dirsNow)
  <2>1. PICK evs : ReindexEnd(deleted, evs, dirsNow) /\ pc = "reindex"
    BY <1>14 DEF ReindexDone
  <2>2. \A d \in Known \cup monitored : d \in deleted \ pollingDirs \/ d \in BelowAny(dirsNow \cup pollingDirs)
    <3>1. dirsNow \cup pollingDirs \subseteq BelowAny(dirsNow \cup pollingDirs)
      BY <2>0, BelowAnyReflexive DEF Sets, Path
    <3>2. monitored \subseteq BelowAny(dirsNow \cup pollingDirs)
      BY <2>0, <2>1, BelowAnyMonotone DEF Reindexing
    <3>3. QED
      BY <3>1, <3>2 DEF Known, Diff
  <2>3. deleted \in SUBSET Dir
    BY <2>0 DEF Sets, Diff
  <2>4. QED
    BY <2>0, <2>1, <2>2, <2>3, <2>q, ReindexEndKeeps DEF Sets
<1>15. CASE PendingRead
  <2>0. Sets /\ Times /\ Queues /\ Places /\ Booting /\ Reindexing /\ Watching /\ Reasons
    BY DEF FInv
  <2>q. queue' \in Seq(Ev)
    BY QueueType
  <2>1. Sets' /\ Times' /\ Reasons'
    BY <2>0, <1>15 DEF Sets, Times, Reasons, PendingRead, fs, kernel, req, polls, locals, EnvUnchanged, GetReindexDirs, Known, vars
  <2>2. Queues' /\ Places' /\ Booting' /\ Reindexing' /\ Watching'
    <3>1. kqueue \in Seq(KEv) /\ kqueue # <<>> /\ Head(kqueue) \in KEv /\ Tail(kqueue) \in Seq(KEv)
          /\ bootstrapped /\ pc \in {"run", "watch"}
      BY <2>0, <1>15, HeadTailProperties DEF Queues, Places, PendingRead
    <3>2. /\ mEvents' \in Seq(KEv) /\ kqueue' \in Seq(KEv)
          /\ \/ pc' = "process" /\ mEvents' # <<>> /\ events' = events
             \/ pc' = "run" /\ events' = <<>>
      <4>1. CASE ReadInotify
        <5>1. PICK old \in Garbled(mEvents) : mEvents' = old \o kqueue
          BY <4>1 DEF ReadInotify
        <5>2. old \in Seq(KEv)
          BY <2>0, GarbledType DEF Queues
        <5>3. mEvents' \in Seq(KEv) /\ mEvents' # <<>>
          BY <3>1, <5>1, <5>2, ConcatProperties, ConcatEqualIffEmpty
        <5>4. QED
          BY <4>1, <5>3, EmptySeq DEF ReadInotify
      <4>2. CASE ReadFam
        <5>1. CASE Head(kqueue).w \notin watches
          BY <2>0, <3>1, <4>2, <5>1 DEF ReadFam, Queues
        <5>2. CASE Head(kqueue).w \in watches
          <6>1. PICK event \in FamEvents(Head(kqueue)) : mEvents' = <<event>>
            BY <4>2, <5>2 DEF ReadFam
          <6>2. event \in KEv
            BY <3>1, FamEventsType
          <6>3. mEvents' \in Seq(KEv) /\ mEvents' # <<>>
            BY <6>1, <6>2
          <6>4. QED
            BY <3>1, <4>2, <5>2, <6>3 DEF ReadFam
        <5>3. QED
          BY <5>1, <5>2
      <4>3. QED
        BY <4>1, <4>2, <1>15 DEF PendingRead
    <3>3. Queues'
      BY <2>0, <2>q, <3>2, EmptySeq DEF Queues
    <3>4. UNCHANGED <<bootstrapped, watches, indexedDirs, pollingDirs, monitored>>
      BY <1>15 DEF PendingRead, polls, locals
    <3>5. Places'
      BY <2>0, <3>1, <3>2, <3>4 DEF Places
    <3>6. Booting' /\ Reindexing'
      BY <3>2 DEF Booting, Reindexing
    <3>7. events \in Seq(Reported(Known))
      BY <2>0, <3>1, EmptySeq DEF Places, Watching
    <3>8. Watching'
      BY <3>2, <3>4, <3>7 DEF Watching, Known
    <3>9. QED
      BY <3>3, <3>5, <3>6, <3>8
  <2>3. QED
    BY <2>1, <2>2 DEF FInv
<1>16. CASE PendingTimeout
  <2>0. Sets /\ Times /\ Queues /\ Places /\ Booting /\ Reindexing /\ Watching /\ Reasons
    BY DEF FInv
  <2>q. queue' \in Seq(Ev)
    BY QueueType
  <2>1. Sets' /\ Times' /\ Reasons' /\ UNCHANGED <<kqueue, indexedDirs, pollingDirs, watches, monitored>>
    BY <2>0, <1>16 DEF Sets, Times, Reasons, PendingTimeout, fs, kernel, req, polls, locals, Known
  <2>2. /\ mEvents' \in Seq(KEv)
        /\ \/ pc' = "process" /\ mEvents' # <<>> /\ events' = events
           \/ pc' = "run" /\ events' = <<>>
    <3>1. CASE TimeoutWithEvents
      <4>1. PICK old \in Garbled(mEvents) \cup {mEvents} : mEvents' = old
        BY <3>1 DEF TimeoutWithEvents
      <4>2. mEvents \in Seq(KEv) /\ mEvents # <<>>
        BY <2>0, <3>1 DEF Queues, TimeoutWithEvents
      <4>3. old \in Seq(KEv) /\ Len(old) = Len(mEvents)
        BY <4>1, <4>2, GarbledType
      <4>4. old # <<>>
        BY <4>2, <4>3
      <4>5. QED
        BY <3>1, <4>1, <4>3, <4>4 DEF TimeoutWithEvents
    <3>2. CASE TimeoutWithNone
      BY <2>0, <3>2 DEF TimeoutWithNone, Queues
    <3>3. QED
      BY <1>16, <3>1, <3>2 DEF PendingTimeout
  <2>3. Queues'
    BY <2>0, <2>q, <2>1, <2>2, EmptySeq DEF Queues
  <2>4. Places' /\ Booting' /\ Reindexing' /\ Watching'
    <3>1. bootstrapped' = bootstrapped /\ bootstrapped /\ pc = "watch"
      BY <2>0, <1>16 DEF Places, PendingTimeout
    <3>2. QED
      BY <2>0, <2>1, <2>2, <3>1 DEF Places, Booting, Reindexing, Watching, Known
  <2>5. QED
    BY <2>1, <2>3, <2>4 DEF FInv
<1>17. CASE Discard
  <2>0. Sets /\ Times /\ Queues /\ Places /\ Booting /\ Reindexing /\ Watching /\ Reasons
    BY DEF FInv
  <2>1. Sets' /\ Times' /\ Places' /\ Booting' /\ Reindexing' /\ Watching' /\ Reasons'
    BY <2>0, <1>17 DEF Sets, Times, Places, Booting, Reindexing, Watching, Reasons, Discard, fs, kernel, req, polls, locals, EnvUnchanged, GetReindexDirs, Known, vars
  <2>2. Queues'
    BY <2>0, <1>17, HeadTailProperties DEF Queues, Places, Discard, kernel
  <2>3. QED
    BY <2>1, <2>2 DEF FInv
<1>18. CASE ProcessPlain
  <2>0. Sets /\ Times /\ Queues /\ Places /\ Booting /\ Reindexing /\ Watching /\ Reasons
    BY DEF FInv
  <2>1. Sets' /\ Times' /\ Places' /\ Booting' /\ Reindexing' /\ Reasons'
    BY <2>0, <1>18 DEF Sets, Times, Places, Booting, Reindexing, Reasons, ProcessPlain, fs, kernel, req, polls, locals, EnvUnchanged, GetReindexDirs, Known, vars
  <2>2. Queues' /\ Watching'
    <3>1. First \in KEv /\ Tail(mEvents) \in Seq(KEv) /\ pc = "process" /\ First.w \in watches /\ monitored = {}
      BY <2>0, <1>18, HeadTailProperties DEF Queues, Places, ProcessPlain, First, IsEventValid
    <3>2. First.path \in Path /\ First.path \in BelowAny(Known) /\ Known \in SUBSET Path
      BY <2>0, <3>1, FirstIsKnown DEF Sets, Reasons
    <3>3. PICK type \in {"CREATED", "UPDATED", "DELETED"} : events' = Append(events, Event(type, First.path))
      BY <3>1, <1>18 DEF ProcessPlain, KEv, KEvents
    <3>4. Event(type, First.path) \in Reported(Known)
      BY <2>0, <3>2 DEF Reported, Ev, Event, Times
    <3>5. events' \in Seq(Reported(Known))
      BY <2>0, <3>1, <3>3, <3>4 DEF Watching
    <3>6. Queues'
      BY <2>0, <3>1, <3>5, ReportedIsEv, <1>18 DEF Queues, ProcessPlain, kernel
    <3>7. QED
      BY <3>5, <3>6, <1>18 DEF Watching, Known, ProcessPlain, polls
  <2>3. QED
    BY <2>1, <2>2 DEF FInv
<1>19. CASE ProcessDirDeleted
  <2>0. Sets /\ Times /\ Queues /\ Places /\ Booting /\ Reindexing /\ Watching /\ Reasons
    BY DEF FInv
  <2>1. Times' /\ Places' /\ Booting' /\ Reindexing'
    BY <2>0, <1>19 DEF Times, Places, Booting, Reindexing, ProcessDirDeleted, fs, kernel, req, polls, locals, EnvUnchanged, GetReindexDirs, Known, vars
  <2>2. Sets' /\ Queues' /\ Watching' /\ Reasons'
    <3>1. Tail(mEvents) \in Seq(KEv) /\ pc = "process" /\ UNCHANGED <<indexedDirs, pollingDirs, monitored>>
      BY <2>0, <1>19, HeadTailProperties DEF Queues, Places, ProcessDirDeleted, polls, locals
    <3>2. /\ watches' \subseteq watches /\ kwatch' \subseteq kwatch
          /\ kqueue' \in Seq(KEv) /\ mEvents' \in Seq(KEv)
      BY <2>0, <3>1, <1>19, DropWatchesDrops DEF Queues, ProcessDirDeleted, DirRemoved
    <3>3. events' \in Seq(Reported(Known))
      <4>1. PICK index \in Indexes : events' = events \o Emptied({First.path}, index)
        BY <1>19 DEF ProcessDirDeleted, DirRemoved
      <4>2. PICK new : new = Emptied({First.path}, index)
        OBVIOUS
      <4>3. new \in Seq(Reported(Known)) /\ events \in Seq(Reported(Known))
        BY <2>0, <3>1, <4>2, EmptiedType DEF Times, Watching
      <4>4. QED
        BY <4>1, <4>2, <4>3, ConcatProperties
    <3>4. Sets'
      BY <2>0, <3>2, <1>19 DEF Sets, ProcessDirDeleted, fs, req, polls, locals
    <3>5. Queues'
      BY <2>0, <3>2, <3>3, ReportedIsEv, <1>19 DEF Queues, ProcessDirDeleted
    <3>6. Watching' /\ Reasons'
      BY <2>0, <3>1, <3>2, <3>3, <1>19 DEF Watching, Reasons, Known, ProcessDirDeleted
    <3>7. QED
      BY <3>4, <3>5, <3>6
  <2>3. QED
    BY <2>1, <2>2 DEF FInv
<1>20. CASE ProcessDirCreated
  <2>0. Sets /\ Times /\ Queues /\ Places /\ Booting /\ Reindexing /\ Watching /\ Reasons
    BY DEF FInv
  <2>1. Times' /\ Places' /\ Booting' /\ Reindexing' /\ Reasons'
    BY <2>0, <1>20 DEF Times, Places, Booting, Reindexing, Reasons, ProcessDirCreated, fs, kernel, req, polls, locals, EnvUnchanged, GetReindexDirs, Known, vars
  <2>2. Sets' /\ Queues' /\ Watching'
    <3>1. First \in KEv /\ Tail(mEvents) \in Seq(KEv) /\ pc = "process" /\ First.w \in watches /\ monitored = {}
      BY <2>0, <1>20, HeadTailProperties DEF Queues, Places, ProcessDirCreated, First, IsEventValid
    <3>2. First.path \in Path /\ First.path \in BelowAny(Known) /\ Known \in SUBSET Path
      BY <2>0, <3>1, FirstIsKnown DEF Sets, Reasons
    <3>3. /\ EventsOf("CREATED", FilesIn(First.path)) \in Seq(Reported(Known))
          /\ SubdirsIn(First.path) \subseteq BelowAny(Known) /\ SubdirsIn(First.path) \subseteq Path
      BY <2>0, <3>2, FoundType, ListedIsBelow DEF Times, Sets, Path
    <3>4. events' = events \o EventsOf("CREATED", FilesIn(First.path)) /\ toWatch' = {First.path} \cup SubdirsIn(First.path)
          /\ mEvents' = Tail(mEvents) /\ UNCHANGED <<indexedDirs, pollingDirs>>
      BY <1>20 DEF ProcessDirCreated, polls
    <3>5. events' \in Seq(Reported(Known))
      BY <2>0, <3>1, <3>3, <3>4, ConcatProperties DEF Watching
    <3>6. Sets'
      BY <2>0, <3>2, <3>3, <3>4, <1>20 DEF Sets, ProcessDirCreated, fs, kernel, req, polls
    <3>7. Queues'
      BY <2>0, <3>1, <3>4, <3>5, ReportedIsEv, <1>20 DEF Queues, ProcessDirCreated, kernel
    <3>8. Watching'
      BY <3>2, <3>3, <3>4, <3>5 DEF Watching, Known
    <3>9. QED
      BY <3>6, <3>7, <3>8
  <2>3. QED
    BY <2>1, <2>2 DEF FInv
<1>21. CASE WatchNewDir
  <2>0. Sets /\ Times /\ Queues /\ Places /\ Booting /\ Reindexing /\ Watching /\ Reasons
    BY DEF FInv
  <2>1. Times' /\ Queues' /\ Places' /\ Booting' /\ Reindexing'
    BY <2>0, <1>21 DEF Times, Queues, Places, Booting, Reindexing, WatchNewDir, fs, kernel, req, polls, locals, EnvUnchanged, GetReindexDirs, Known, vars
  <2>2. Sets' /\ Watching' /\ Reasons'
    <3>1. AddWatches(toWatch) /\ toWatch' = {} /\ toWatch \subseteq BelowAny(Known) /\ pc = "watchDir"
          /\ pc' = "watch" /\ UNCHANGED <<events, monitored, indexedDirs>>
      BY <2>0, <1>21 DEF WatchNewDir, Watching
    <3>2. /\ watches' \subseteq watches \cup toWatch /\ kwatch' \subseteq kwatch \cup toWatch
          /\ pollingDirs \subseteq pollingDirs' /\ pollingDirs' \subseteq pollingDirs \cup toWatch
      BY <2>0, <3>1, AddWatchesAdds DEF Sets
    <3>3. Sets'
      BY <2>0, <3>1, <3>2, <1>21 DEF Sets, WatchNewDir, fs, req
    <3>4. Known \subseteq Known' /\ Known \cup monitored \subseteq Known' \cup monitored'
      BY <3>1, <3>2 DEF Known
    <3>5. Watching'
      BY <2>0, <3>1, <3>4, ReportedMonotone DEF Watching
    <3>6. Reasons'
      BY <2>0, <3>1, <3>2, <3>4, BelowAnyMonotone DEF Reasons
    <3>7. QED
      BY <3>3, <3>5, <3>6
  <2>3. QED
    BY <2>1, <2>2 DEF FInv
<1>22. CASE UNCHANGED vars
  BY <1>22 DEF FInv, Sets, Times, Queues, Places, Booting, Reindexing, Watching, Reasons, fs, kernel, req, polls, locals, EnvUnchanged, GetReindexDirs, Known, vars, Reported, BelowAny, Below
<1>23. QED
  BY <1>1, <1>2, <1>3, <1>4, <1>5, <1>6, <1>7, <1>8, <1>9, <1>10, <1>11, <1>12, <1>13, <1>14, <1>15, <1>16, <1>17, <1>18, <1>19, <1>20, <1>21, <1>22 DEF Next, Environment, Listener

LEMMA InitKeeps == ASSUME Init PROVE FInv
<1>1. PICK s \in Starts : dirs = s.dirs /\ disk = s.disk /\ indexedDirs = s.config
  BY DEF Init
<1>2. s.dirs \subseteq Dir /\ s.disk \in [File -> {0, 2}] /\ s.config \subseteq Dir
  BY FsAssumption
<1>3. Sets
  BY <1>1, <1>2 DEF Init, Sets
<1>4. Times
  <2>1. disk \in [File -> Nat]
    BY <1>1, <1>2
  <2>2. seen = [f \in File |-> 0] /\ time = 2
    BY DEF Init
  <2>3. QED
    BY <2>1, <2>2 DEF Times
<1>5. Queues
  BY EmptySeq DEF Init, Queues
<1>6. Places /\ Booting /\ Reindexing /\ Watching /\ Reasons
  BY DEF Init, Places, Booting, Reindexing, Watching, Reasons
<1>7. QED
  BY <1>3, <1>4, <1>5, <1>6 DEF FInv

THEOREM ListenerInvariant == Spec => []FInv
<1>1. Init => FInv
  BY InitKeeps
<1>2. FInv /\ [Next]_vars => FInv'
  BY StepKeeps
<1>3. QED
  BY <1>1, <1>2, PTL DEF Spec

--------------------------------------------------------------------------
(* The theorems                                                            *)

(* Between two rounds of the thread every watch is in a directory that is   *)
(* indexed or polled: whatever reindex() watched before another request     *)
(* undid it, whatever came and went, nothing is left behind.                *)
THEOREM OnlyKnownWatched == Spec => []OnlyKnownIsWatched
<1>1. FInv => OnlyKnownIsWatched
  BY DEF FInv, Places, Reasons, OnlyKnownIsWatched
<1>2. QED
  BY <1>1, ListenerInvariant, PTL

(* What the listener hands over is a deletion, or lies in a directory that  *)
(* has to be looked after when it is handed over, though it was read or     *)
(* listed earlier.                                                          *)
THEOREM OnlyKnownReported == Spec => OnlyKnownIsReported
<1> DEFINE Reports == \A i \in Len(queue) + 1..Len(queue') :
                          queue'[i].type = "DELETED" \/ queue'[i].path \in BelowAny(Known')
<1>1. ASSUME FInv, [Next]_vars PROVE Reports
  <2>1. CASE queue' = queue
    <3>1. Len(queue) \in Nat /\ Len(queue') \in Nat /\ Len(queue') <= Len(queue)
      BY <1>1, <2>1, EmptySeq DEF FInv, Queues
    <3>2. QED
      BY <3>1
  <2>2. CASE \E evs \in Seq(Reported(Known')) : queue' = queue \o evs
    <3>1. PICK evs \in Seq(Reported(Known')) : queue' = queue \o evs
      BY <2>2
    <3>2. evs \in Seq(Ev) /\ queue \in Seq(Ev)
      BY <1>1, ReportedIsEv DEF FInv, Queues
    <3>3. /\ Len(queue) \in Nat /\ Len(evs) \in Nat /\ Len(queue') = Len(queue) + Len(evs)
          /\ \A i \in 1..Len(queue) + Len(evs) :
                queue'[i] = IF i <= Len(queue) THEN queue[i] ELSE evs[i - Len(queue)]
      BY <3>1, <3>2, ConcatProperties
    <3>4. \A i \in 1..Len(evs) : evs[i] \in Reported(Known')
      OBVIOUS
    <3>5. ASSUME NEW i \in Len(queue) + 1..Len(queue')
          PROVE  queue'[i] \in Reported(Known')
      BY <3>3, <3>4
    <3>6. QED
      BY <3>5 DEF Reported
  <2>3. QED
    BY <1>1, <2>1, <2>2, StepHandsOver DEF HandsOver
<1>2. FInv /\ [Next]_vars => [Reports]_vars
  BY <1>1
<1>3. QED
  BY <1>2, ListenerInvariant, PTL DEF Spec, OnlyKnownIsReported

--------------------------------------------------------------------------
(* The way of an event: read by nobody yet, read, collected, handed over.   *)
(* Of a file that is followed what it is now is on its way, or was handed   *)
(* over, behind all that says otherwise.                                    *)

(* An event on its way says that a file is what it is, or that it is not:   *)
(* with d as the time of the file.                                          *)
Says(e, f, d) ==
    e.path = f /\ IF d = 0 THEN e.type = "DELETED" \/ (e.type = "DELETE" /\ e.w = Par[f] /\ ~e.dir)
                  ELSE \/ e.type \in {"CREATED", "UPDATED"} /\ e.time >= d
                       \/ e.type = "CREATE" /\ e.w = Par[f] /\ ~e.dir
                       \/ e.type = "UPDATE" /\ e.w = Par[f]
Denies(e, f, d) ==
    IF d = 0 THEN e.path = f /\ e.type \in {"CREATED", "UPDATED", "CREATE", "UPDATE"}
    ELSE e.type \in {"DELETED", "DELETE"} /\ Under(f, e.path)

LastSays(s, f, d) == \E i \in 1..Len(s) : Says(s[i], f, d) /\ \A k \in i + 1..Len(s) : ~Denies(s[k], f, d)
Harmless(s, f, d) == \A e \in Q!ToSet(s) : ~Denies(e, f, d)

(* Something says it of a file: in what was handed over, in what is         *)
(* collected, in what was read or in what was not read, with nothing behind *)
(* it that denies it.                                                       *)
Way(q, e, m, k, f, d) ==
    \/ LastSays(k, f, d)
    \/ /\ Harmless(k, f, d)
       /\ \/ LastSays(m, f, d)
          \/ Harmless(m, f, d) /\ (LastSays(e, f, d) \/ (Harmless(e, f, d) /\ LastSays(q, f, d)))

(* What reindex() collects is forgotten when another request comes.         *)
Collecting == {"reindex", "reindexWatch"}
Good(q, e, m, k, at, f, d) ==
    /\ Way(q, e, m, k, f, d)
    /\ at \in Collecting => Way(q, <<>>, m, k, f, d)

(* The files that are followed are watched, through their directories.      *)
Watched ==
    /\ covered \in SUBSET File /\ kwatch \subseteq watches
    /\ \A f \in covered : Par[f] \in kwatch
(* No file is newer than now.                                               *)
NoNewer == \A f \in File : disk[f] <= time
(* FAM's events are read one by one.                                        *)
OneByOne == backend = "fam" => /\ Len(mEvents) <= 1
                               /\ pc # "process" => mEvents = <<>>
Following == \A f \in covered : Good(queue, events, mEvents, kqueue, pc, f, disk[f])

PInv == Watched /\ NoNewer /\ OneByOne /\ Following

(* Of two sequences the second serves a file as well as the first.          *)
NoWorse(s, t, f, d) ==
    /\ LastSays(s, f, d) => LastSays(t, f, d)
    /\ Harmless(s, f, d) => Harmless(t, f, d)

LEMMA SetOfConcat ==
  ASSUME NEW S, NEW s \in Seq(S), NEW t \in Seq(S)
  PROVE  Q!ToSet(s \o t) = Q!ToSet(s) \cup Q!ToSet(t)
<1>1. /\ Len(s) \in Nat /\ Len(t) \in Nat /\ Len(s \o t) = Len(s) + Len(t)
      /\ s \o t \in Seq(S)
      /\ \A i \in 1..Len(s) + Len(t) : (s \o t)[i] = IF i <= Len(s) THEN s[i] ELSE t[i - Len(s)]
  BY ConcatProperties
<1>2. /\ Q!ToSet(s) = {s[i] : i \in 1..Len(s)} /\ Q!ToSet(t) = {t[i] : i \in 1..Len(t)}
      /\ Q!ToSet(s \o t) = {(s \o t)[i] : i \in 1..Len(s) + Len(t)}
  BY <1>1 DEF Q!ToSet, Q!Range
<1>3. ASSUME NEW e \in Q!ToSet(s) \cup Q!ToSet(t) PROVE e \in Q!ToSet(s \o t)
  <2>1. CASE e \in Q!ToSet(s)
    BY <1>1, <1>2, <2>1
  <2>2. CASE e \in Q!ToSet(t)
    <3>1. PICK i \in 1..Len(t) : e = t[i]
      BY <1>2, <2>2
    <3>2. Len(s) + i \in 1..Len(s) + Len(t) /\ (s \o t)[Len(s) + i] = t[i]
      BY <1>1
    <3>3. QED
      BY <1>2, <3>1, <3>2
  <2>3. QED
    BY <1>3, <2>1, <2>2
<1>4. ASSUME NEW e \in Q!ToSet(s \o t) PROVE e \in Q!ToSet(s) \cup Q!ToSet(t)
  <2>1. PICK i \in 1..Len(s) + Len(t) : e = IF i <= Len(s) THEN s[i] ELSE t[i - Len(s)]
    BY <1>1, <1>2
  <2>2. i <= Len(s) => i \in 1..Len(s)
    BY <1>1
  <2>3. ~(i <= Len(s)) => i - Len(s) \in 1..Len(t)
    BY <1>1
  <2>4. QED
    BY <1>2, <2>1, <2>2, <2>3
<1>5. QED
  BY <1>3, <1>4

LEMMA HarmlessConcat ==
  ASSUME NEW S, NEW s \in Seq(S), NEW t \in Seq(S), NEW f, NEW d
  PROVE  Harmless(s \o t, f, d) <=> Harmless(s, f, d) /\ Harmless(t, f, d)
<1>1. Q!ToSet(s \o t) = Q!ToSet(s) \cup Q!ToSet(t)
  BY SetOfConcat
<1>2. QED
  BY <1>1 DEF Harmless

LEMMA LastSaysConcat ==
  ASSUME NEW S, NEW s \in Seq(S), NEW t \in Seq(S), NEW f, NEW d
  PROVE  LastSays(s \o t, f, d) <=> LastSays(t, f, d) \/ (LastSays(s, f, d) /\ Harmless(t, f, d))
<1>1. /\ Len(s) \in Nat /\ Len(t) \in Nat /\ Len(s \o t) = Len(s) + Len(t)
      /\ \A i \in 1..Len(s) + Len(t) : (s \o t)[i] = IF i <= Len(s) THEN s[i] ELSE t[i - Len(s)]
  BY ConcatProperties
<1>2. /\ \A i \in 1..Len(s) : (s \o t)[i] = s[i]
      /\ \A i \in 1..Len(t) : Len(s) + i \in 1..Len(s) + Len(t) /\ (s \o t)[Len(s) + i] = t[i]
  BY <1>1
<1>3. Harmless(t, f, d) <=> \A k \in 1..Len(t) : ~Denies(t[k], f, d)
  <2>1. Q!ToSet(t) = {t[i] : i \in 1..Len(t)}
    BY DEF Q!ToSet, Q!Range
  <2>2. QED
    BY <2>1 DEF Harmless
<1>4. ASSUME LastSays(t, f, d) PROVE LastSays(s \o t, f, d)
  <2>1. PICK i \in 1..Len(t) : Says(t[i], f, d) /\ \A k \in i + 1..Len(t) : ~Denies(t[k], f, d)
    BY <1>4 DEF LastSays
  <2>2. ASSUME NEW k \in Len(s) + i + 1..Len(s) + Len(t) PROVE ~Denies((s \o t)[k], f, d)
    <3>1. k - Len(s) \in i + 1..Len(t) /\ (s \o t)[k] = t[k - Len(s)]
      BY <1>1
    <3>2. QED
      BY <2>1, <3>1
  <2>3. QED
    BY <1>1, <1>2, <2>1, <2>2 DEF LastSays
<1>5. ASSUME LastSays(s, f, d), Harmless(t, f, d) PROVE LastSays(s \o t, f, d)
  <2>1. PICK i \in 1..Len(s) : Says(s[i], f, d) /\ \A k \in i + 1..Len(s) : ~Denies(s[k], f, d)
    BY <1>5 DEF LastSays
  <2>2. ASSUME NEW k \in i + 1..Len(s) + Len(t) PROVE ~Denies((s \o t)[k], f, d)
    <3>1. CASE k <= Len(s)
      BY <1>1, <2>1, <3>1
    <3>2. CASE ~(k <= Len(s))
      <4>1. k - Len(s) \in 1..Len(t) /\ (s \o t)[k] = t[k - Len(s)]
        BY <1>1, <3>2
      <4>2. QED
        BY <1>3, <1>5, <4>1
    <3>3. QED
      BY <3>1, <3>2
  <2>3. QED
    BY <1>1, <1>2, <2>1, <2>2 DEF LastSays
<1>6. ASSUME LastSays(s \o t, f, d) PROVE LastSays(t, f, d) \/ (LastSays(s, f, d) /\ Harmless(t, f, d))
  <2>1. PICK i \in 1..Len(s) + Len(t) : Says((s \o t)[i], f, d)
                                       /\ \A k \in i + 1..Len(s) + Len(t) : ~Denies((s \o t)[k], f, d)
    BY <1>1, <1>6 DEF LastSays
  <2>2. CASE i <= Len(s)
    <3>1. ASSUME NEW k \in 1..Len(t) PROVE ~Denies(t[k], f, d)
      <4>1. Len(s) + k \in i + 1..Len(s) + Len(t)
        BY <1>1, <2>2
      <4>2. QED
        BY <1>2, <2>1, <4>1
    <3>2. ASSUME NEW k \in i + 1..Len(s) PROVE ~Denies(s[k], f, d)
      BY <1>1, <1>2, <2>1, <2>2
    <3>3. i \in 1..Len(s) /\ Says(s[i], f, d)
      BY <1>1, <1>2, <2>1, <2>2
    <3>4. QED
      BY <1>3, <3>1, <3>2, <3>3 DEF LastSays
  <2>3. CASE ~(i <= Len(s))
    <3>1. i - Len(s) \in 1..Len(t) /\ Says(t[i - Len(s)], f, d)
      BY <1>1, <2>1, <2>3
    <3>2. ASSUME NEW k \in i - Len(s) + 1..Len(t) PROVE ~Denies(t[k], f, d)
      <4>1. Len(s) + k \in i + 1..Len(s) + Len(t) /\ k \in 1..Len(t)
        BY <1>1, <2>3
      <4>2. QED
        BY <1>2, <2>1, <4>1
    <3>3. QED
      BY <3>1, <3>2 DEF LastSays
  <2>4. QED
    BY <2>2, <2>3
<1>7. QED
  BY <1>4, <1>5, <1>6

(* The same for one event in the place of another.                          *)
EachNoWorse(e, g, f, d) ==
    /\ Says(e, f, d) => Says(g, f, d)
    /\ Denies(g, f, d) => Denies(e, f, d)

LEMMA NoWorseEach ==
  ASSUME NEW S, NEW s \in Seq(S), NEW t \in Seq(S), NEW f, NEW d, Len(s) = Len(t),
         \A i \in 1..Len(s) : EachNoWorse(s[i], t[i], f, d)
  PROVE  NoWorse(s, t, f, d)
<1>1. Len(s) \in Nat /\ Q!ToSet(s) = {s[i] : i \in 1..Len(s)} /\ Q!ToSet(t) = {t[i] : i \in 1..Len(s)}
  BY DEF Q!ToSet, Q!Range
<1>2. LastSays(s, f, d) => LastSays(t, f, d)
  <2>1. SUFFICES ASSUME NEW i \in 1..Len(s), Says(s[i], f, d), \A k \in i + 1..Len(s) : ~Denies(s[k], f, d)
                 PROVE  LastSays(t, f, d)
    BY DEF LastSays
  <2>2. \A k \in i + 1..Len(s) : k \in 1..Len(s)
    BY <1>1
  <2>3. Says(t[i], f, d) /\ \A k \in i + 1..Len(s) : ~Denies(t[k], f, d)
    BY <2>1, <2>2 DEF EachNoWorse
  <2>4. QED
    BY <2>3 DEF LastSays
<1>3. Harmless(s, f, d) => Harmless(t, f, d)
  BY <1>1 DEF Harmless, EachNoWorse
<1>4. QED
  BY <1>2, <1>3 DEF NoWorse

LEMMA OfOne ==
  ASSUME NEW e, NEW f, NEW d
  PROVE  /\ LastSays(<<e>>, f, d) <=> Says(e, f, d)
         /\ Harmless(<<e>>, f, d) <=> ~Denies(e, f, d)
<1>1. Len(<<e>>) = 1 /\ <<e>>[1] = e /\ DOMAIN <<e>> = {1}
  OBVIOUS
<1>2. Q!ToSet(<<e>>) = {e}
  BY <1>1 DEF Q!ToSet, Q!Range
<1>3. LastSays(<<e>>, f, d) <=> Says(e, f, d)
  BY <1>1 DEF LastSays
<1>4. QED
  BY <1>2, <1>3 DEF Harmless

LEMMA OfNone == ASSUME NEW f, NEW d PROVE ~LastSays(<<>>, f, d) /\ Harmless(<<>>, f, d)
<1>1. Q!ToSet(<<>>) = {} /\ Len(<<>>) = 0
  BY DEF Q!ToSet, Q!Range
<1>2. QED
  BY <1>1 DEF LastSays, Harmless

LEMMA NoWorseItself == ASSUME NEW s, NEW f, NEW d PROVE NoWorse(s, s, f, d)
  BY DEF NoWorse

LEMMA FileUnderItself == ASSUME NEW f \in File, NEW g \in File, Under(f, g) PROVE f = g
<1>1. f \in Path /\ Closed({f} \cup Dir)
  BY FsAssumption DEF Path, Closed
<1>2. {f} \cup Dir \in SUBSET Path
  BY DEF Path
<1>3. g \in {f} \cup Dir
  BY <1>1, <1>2 DEF Under, Up
<1>4. QED
  BY <1>3, FsAssumption

--------------------------------------------------------------------------
(* What the parts of the actions do to the way of an event                  *)

LEMMA OrphanNoWorse ==
  ASSUME NEW evs \in Seq(KEv), NEW gone, NEW f, NEW d, Par[f] \notin gone
  PROVE  NoWorse(evs, Orphan(evs, gone), f, d)
<1>1. Orphan(evs, gone) \in Seq(KEv) /\ Len(evs) \in Nat
  BY OrphanType
<1>2. Len(Orphan(evs, gone)) = Len(evs)
      /\ \A i \in 1..Len(evs) :
            Orphan(evs, gone)[i] = IF evs[i].w \in gone THEN [evs[i] EXCEPT !.w = NoWatch] ELSE evs[i]
  BY <1>1 DEF Orphan
<1>3. ASSUME NEW i \in 1..Len(evs) PROVE EachNoWorse(evs[i], Orphan(evs, gone)[i], f, d)
  <2>1. evs[i] \in KEv
    OBVIOUS
  <2>2. CASE evs[i].w \in gone
    <3> DEFINE g == [evs[i] EXCEPT !.w = NoWatch]
    <3>1. Orphan(evs, gone)[i] = g /\ g.path = evs[i].path /\ g.type = evs[i].type /\ evs[i].w # Par[f]
          /\ evs[i].type \in {"CREATE", "UPDATE", "DELETE"}
      BY <1>2, <2>1, <2>2 DEF KEv, KEvents
    <3> HIDE DEF g
    <3>2. QED
      BY <3>1 DEF EachNoWorse, Says, Denies
  <2>3. CASE evs[i].w \notin gone
    BY <1>2, <2>3 DEF EachNoWorse
  <2>4. QED
    BY <2>2, <2>3
<1>4. QED
  BY <1>1, <1>2, <1>3, NoWorseEach

LEMMA GarbledNoWorse ==
  ASSUME NEW evs \in Seq(KEv), NEW old \in Garbled(evs), NEW f, NEW d,
         \A i \in 1..Len(evs) : old[i] # evs[i] => evs[i].path # f
  PROVE  NoWorse(evs, old, f, d)
<1>1. old \in Seq(KEv) /\ Len(old) = Len(evs)
  BY GarbledType
<1>2. ASSUME NEW i \in 1..Len(evs) PROVE EachNoWorse(evs[i], old[i], f, d)
  <2>1. old[i].path = evs[i].path /\ old[i].type = evs[i].type
    BY DEF Garbled
  <2>2. CASE old[i] = evs[i]
    BY <2>2 DEF EachNoWorse
  <2>3. CASE evs[i].path # f
    BY <2>1, <2>3 DEF EachNoWorse, Says, Denies
  <2>4. QED
    BY <2>2, <2>3
<1>3. QED
  BY <1>1, <1>2, NoWorseEach

LEMMA FamNoWorse ==
  ASSUME NEW e \in KEv, NEW event \in FamEvents(e), NEW f \in File, NEW d,
         event.dir = (e.path \in Dir) \/ f # e.path
  PROVE  EachNoWorse(e, event, f, d)
<1>1. PICK b : event = [e EXCEPT !.dir = b]
  BY DEF FamEvents
<1>2. /\ event.path = e.path /\ event.type = e.type /\ event.w = e.w
      /\ e.type \in {"CREATE", "UPDATE", "DELETE"}
  BY <1>1 DEF KEv, KEvents
<1>3. CASE f # e.path
  BY <1>2, <1>3 DEF EachNoWorse, Says, Denies
<1>4. CASE f = e.path
  <2>1. e.path \notin Dir
    BY <1>4, FsAssumption
  <2>2. ~event.dir
    BY <1>4, <2>1, Zenon
  <2>3. QED
    BY <1>2, <2>2 DEF EachNoWorse, Says, Denies
<1>5. QED
  BY <1>3, <1>4

LEMMA EventsOfSet ==
  ASSUME NEW type, NEW S \in SUBSET Path
  PROVE  \A e \in Q!ToSet(EventsOf(type, S)) : \E p \in S : e = Event(type, p)
<1> DEFINE T == {Event(type, p) : p \in S}
<1>1. IsFiniteSet(S)
  BY FsAssumption, FS_Subset
<1>2. [p \in S |-> Event(type, p)] \in Surjection(S, T)
  BY DEF Surjection
<1>3. IsFiniteSet(T)
  BY <1>1, <1>2, FS_Surjection DEF ExistsSurjection
<1>4. EventsOf(type, S) \in Seq(T)
  BY <1>3, SetToSeqType DEF EventsOf
<1>5. PICK s : s = EventsOf(type, S)
  OBVIOUS
<1>6. \A i \in 1..Len(s) : s[i] \in T
  BY <1>4, <1>5
<1>7. Q!ToSet(s) = {s[i] : i \in 1..Len(s)}
  BY <1>4, <1>5 DEF Q!ToSet, Q!Range
<1>8. QED
  BY <1>5, <1>6, <1>7

LEMMA CreatedHarmless ==
  ASSUME NEW S \in SUBSET File, NEW f \in File, NEW d \in Nat, d = 0 => f \notin S
  PROVE  Harmless(EventsOf("CREATED", S), f, d)
<1>1. S \in SUBSET Path
  BY DEF Path
<1>2. ASSUME NEW e \in Q!ToSet(EventsOf("CREATED", S)) PROVE ~Denies(e, f, d)
  <2>1. PICK p \in S : e = Event("CREATED", p)
    BY <1>1, EventsOfSet
  <2>2. e.path = p /\ e.type = "CREATED"
    BY <2>1 DEF Event
  <2>3. QED
    BY <2>1, <2>2 DEF Denies
<1>3. QED
  BY <1>2 DEF Harmless

LEMMA FoundHarmless ==
  ASSUME Times, NEW p, NEW f \in File
  PROVE  Harmless(EventsOf("CREATED", FilesIn(p)), f, disk[f])
<1>1. FilesIn(p) \in SUBSET File /\ disk[f] \in Nat /\ (disk[f] = 0 => f \notin FilesIn(p))
  BY DEF FilesIn, Times
<1>2. QED
  BY <1>1, CreatedHarmless

LEMMA EmptiedHarmless ==
  ASSUME NEW S, NEW index, NEW f \in File, Par[f] \notin S, NEW d
  PROVE  Harmless(Emptied(S, index), f, d)
<1> DEFINE T == UNION {Children(c, index) : c \in S}
<1>1. T \in SUBSET File /\ f \notin T
  BY DEF Children
<1>2. T \in SUBSET Path
  BY <1>1 DEF Path
<1>3. ASSUME NEW e \in Q!ToSet(EventsOf("DELETED", T)) PROVE ~Denies(e, f, d)
  <2>1. PICK p \in T : e = Event("DELETED", p)
    BY <1>2, EventsOfSet
  <2>2. e.path = p /\ e.type = "DELETED"
    BY <2>1 DEF Event
  <2>3. QED
    BY <1>1, <2>1, <2>2, FileUnderItself DEF Denies
<1>4. QED
  BY <1>3 DEF Harmless, Emptied

LEMMA DropWatchesFollows ==
  ASSUME NEW S, NEW evs \in Seq(KEv), kqueue \in Seq(KEv), watches \in SUBSET Path, Watched,
         DropWatches(S, evs)
  PROVE  /\ Watched' /\ covered' \subseteq covered
         /\ \A f \in covered' : Par[f] \notin S
         /\ \A f \in covered', d \in Nat : NoWorse(evs, mEvents', f, d) /\ NoWorse(kqueue, kqueue', f, d)
<1>1. /\ watches' = watches \ Gone(S) /\ kwatch' = kwatch \ Gone(S)
      /\ kqueue' = Orphan(kqueue, Gone(S)) /\ mEvents' = Orphan(evs, Gone(S))
      /\ covered' = {f \in covered : Par[f] \notin Gone(S)}
  BY DEF DropWatches
<1>2. Watched' /\ covered' \subseteq covered
  BY <1>1 DEF Watched
<1>3. ASSUME NEW f \in covered' PROVE Par[f] \notin S
  <2>1. Par[f] \in watches /\ Par[f] \in Path /\ Par[f] \notin Gone(S)
    BY <1>1, <1>3 DEF Watched
  <2>2. StartsWith(Par[f], Par[f])
    BY <2>1, UnderReflexive, UnderIsPrefix
  <2>3. QED
    BY <2>1, <2>2 DEF Gone
<1>4. \A f \in covered', d \in Nat : NoWorse(evs, mEvents', f, d) /\ NoWorse(kqueue, kqueue', f, d)
  BY <1>1, OrphanNoWorse
<1>5. QED
  BY <1>2, <1>3, <1>4

LEMMA AddWatchesFollows ==
  ASSUME NEW S, Watched, AddWatches(S), covered' = covered
  PROVE  Watched'
  BY DEF AddWatches, Watched

(* What a sequence says of a file, in the terms of its parts.               *)
Parts(s, t, u, f, d) ==
    /\ LastSays(s, f, d) <=> LastSays(u, f, d) \/ (LastSays(t, f, d) /\ Harmless(u, f, d))
    /\ Harmless(s, f, d) <=> Harmless(t, f, d) /\ Harmless(u, f, d)
LEMMA PartsOfConcat ==
  ASSUME NEW S, NEW t \in Seq(S), NEW u \in Seq(S), NEW f, NEW d
  PROVE  Parts(t \o u, t, u, f, d) /\ t \o u \in Seq(S)
<1>1. t \o u \in Seq(S)
  BY ConcatProperties
<1>2. QED
  BY <1>1, LastSaysConcat, HarmlessConcat DEF Parts

LEMMA HeadAndTail ==
  ASSUME NEW S, NEW s \in Seq(S), s # <<>>, NEW f, NEW d
  PROVE  Parts(s, <<Head(s)>>, Tail(s), f, d) /\ Head(s) \in S /\ Tail(s) \in Seq(S)
<1>1. PICK h \in S : h = Head(s)
  BY HeadTailProperties
<1>2. PICK t \in Seq(S) : t = Tail(s)
  BY HeadTailProperties
<1>3. PICK o \in Seq(S) : o = <<h>>
  <2>1. <<h>> \in Seq(S)
    BY <1>1
  <2>2. QED
    BY <2>1
<1>4. s = o \o t
  BY <1>1, <1>2, <1>3
<1>5. Parts(o \o t, o, t, f, d)
  BY PartsOfConcat
<1>6. QED
  BY <1>1, <1>2, <1>3, <1>4, <1>5

(* An event without a live watch says nothing of a file that is followed.   *)
LEMMA StraySaysNothing ==
  ASSUME NEW e \in KEv, NEW f, NEW d, e.w # Par[f]
  PROVE  ~LastSays(<<e>>, f, d)
<1>1. e.type \in {"CREATE", "UPDATE", "DELETE"}
  BY DEF KEv, KEvents
<1>2. ~Says(e, f, d)
  BY <1>1 DEF Says
<1>3. QED
  BY <1>2, OfOne

(* Neither does one about a directory.                                      *)
LEMMA DirectorySaysNothing ==
  ASSUME NEW e \in KEv, e.dir, e.type # "UPDATE", NEW f, NEW d
  PROVE  ~LastSays(<<e>>, f, d)
<1>1. e.type \in {"CREATE", "DELETE"}
  BY DEF KEv, KEvents
<1>2. ~Says(e, f, d)
  BY <1>1 DEF Says
<1>3. QED
  BY <1>2, OfOne

LEMMA GoodKept ==
  ASSUME NEW q, NEW e, NEW m, NEW k, NEW at, NEW f, NEW d, Good(q, e, m, k, at, f, d),
         NEW p, NEW g, NEW n, NEW l, NEW to, to \in Collecting => at \in Collecting,
         NoWorse(q, p, f, d), NoWorse(e, g, f, d), NoWorse(m, n, f, d), NoWorse(k, l, f, d)
  PROVE  Good(p, g, n, l, to, f, d)
<1>1. Way(p, g, n, l, f, d)
  BY DEF Good, Way, NoWorse
<1>2. to \in Collecting => Way(p, <<>>, n, l, f, d)
  BY DEF Good, Way, NoWorse
<1>3. QED
  BY <1>1, <1>2 DEF Good

--------------------------------------------------------------------------
(* Every step keeps the way of the events                                   *)

LEMMA StepWatched == ASSUME FInv, Watched, [Next]_vars PROVE Watched'
<1>0. kqueue \in Seq(KEv) /\ mEvents \in Seq(KEv) /\ watches \in SUBSET Path
  BY DEF FInv, Queues, Sets
<1>1. ASSUME NEW f \in File, ChangeFile(f) PROVE Watched'
  <2>1. /\ watches' = watches /\ kwatch' \in {kwatch, kwatch \ {f}}
        /\ covered' = IF Par[f] \in kwatch THEN covered \cup {f} ELSE covered \ {f}
    BY <1>1 DEF ChangeFile, EnvUnchanged
  <2>2. \A g \in File : Par[g] # f
    BY FsAssumption
  <2>3. QED
    BY <2>1, <2>2 DEF Watched
<1>2. ASSUME NEW d \in Dir, Arrive(d) PROVE Watched'
  BY <1>2 DEF Watched, Arrive, EnvUnchanged
<1>3. ASSUME NEW d \in Dir, Leave(d) PROVE Watched'
  <2>1. /\ watches' = watches /\ kwatch' = kwatch \ Below(d) /\ covered' = covered \ Below(d)
    BY <1>3 DEF Leave, EnvUnchanged
  <2>2. ASSUME NEW f \in covered' PROVE Par[f] \in kwatch'
    <3>1. f \in File /\ f \in Path /\ ~Under(f, d) /\ Par[f] \in kwatch /\ Par[f] \in Path
      BY <2>1 DEF Watched, Below, Path, FInv, Sets
    <3>2. Par[f] # Top
      BY <3>1, FsAssumption
    <3>3. Under(f, Par[f])
      BY <3>1, <3>2, UnderParent
    <3>4. ~Under(Par[f], d)
      BY <3>1, <3>3, UnderTransitive
    <3>5. QED
      BY <2>1, <3>1, <3>4 DEF Below
  <2>3. QED
    BY <2>1, <2>2 DEF Watched
<1>4. ASSUME NEW S \in Requests, SetIndexedDirectories(S) PROVE Watched'
  BY <1>4 DEF Watched, SetIndexedDirectories, kernel
<1>5. CASE BootEnd
  <2>1. CASE reindexReq
    BY <1>5, <2>1 DEF BootEnd, Watched
  <2>2. CASE ~reindexReq
    BY <1>5, <2>2, AddWatchesFollows DEF BootEnd
  <2>3. QED
    BY <2>1, <2>2
<1>6. CASE ReindexWatch
  BY <1>6, AddWatchesFollows DEF ReindexWatch
<1>7. CASE WatchNewDir
  BY <1>7, AddWatchesFollows DEF WatchNewDir
<1>8. CASE ReindexUndo
  BY <1>0, <1>8, DropWatchesFollows DEF ReindexUndo, ReindexEnd, DirsRemoved
<1>9. CASE ReindexDone
  BY <1>0, <1>9, DropWatchesFollows DEF ReindexDone, ReindexEnd, DirsRemoved
<1>10. CASE ProcessDirDeleted
  <2>1. Tail(mEvents) \in Seq(KEv)
    BY <1>0, <1>10, HeadTailProperties DEF ProcessDirDeleted, FInv, Places
  <2>2. QED
    BY <1>0, <1>10, <2>1, DropWatchesFollows DEF ProcessDirDeleted, DirRemoved
<1>11. CASE PendingRead
  <2>1. UNCHANGED <<kwatch, watches>> /\ covered' \subseteq covered
    BY <1>11 DEF PendingRead, ReadInotify, ReadFam, LeftAs
  <2>2. QED
    BY <2>1 DEF Watched
<1>12. CASE PendingTimeout
  <2>1. UNCHANGED <<kwatch, watches>> /\ covered' \subseteq covered
    BY <1>12 DEF PendingTimeout, TimeoutWithEvents, TimeoutWithNone, LeftAs, kernel
  <2>2. QED
    BY <2>1 DEF Watched
<1>13. CASE \/ Stop \/ RunEnd \/ BootBegin \/ BootList \/ ReindexBegin \/ ReindexList
            \/ Discard \/ ProcessPlain \/ ProcessDirCreated \/ UNCHANGED vars
  BY <1>13 DEF Watched, Stop, RunEnd, BootBegin, BootList, ReindexBegin, ReindexList,
               Discard, ProcessPlain, ProcessDirCreated, vars, kernel
<1>14. QED
  BY <1>1, <1>2, <1>3, <1>4, <1>5, <1>6, <1>7, <1>8, <1>9, <1>10, <1>11, <1>12, <1>13
     DEF Next, Environment, Listener

LEMMA StepNoNewer == ASSUME FInv, NoNewer, [Next]_vars PROVE NoNewer'
<1>0. disk \in [File -> Nat] /\ time \in Nat /\ \A g \in File : disk[g] \in Nat /\ disk[g] <= time
  BY DEF FInv, Times, NoNewer
<1>1. ASSUME NEW f \in File, ChangeFile(f) PROVE NoNewer'
  <2>1. PICK v \in {0, time + 1} : disk' = [disk EXCEPT ![f] = v]
    BY <1>1 DEF ChangeFile
  <2>2. time' = time + 1
    BY <1>1 DEF ChangeFile
  <2>3. \A g \in File : disk'[g] = IF g = f THEN v ELSE disk[g]
    BY <1>0, <2>1
  <2>4. QED
    BY <1>0, <2>2, <2>3 DEF NoNewer
<1>2. ASSUME NEW d \in Dir, Arrive(d) PROVE NoNewer'
  <2>1. PICK full \in BOOLEAN : disk' = [f \in File |-> IF full /\ Par[f] = d THEN time + 1 ELSE disk[f]]
    BY <1>2 DEF Arrive
  <2>2. time' = time + 1
    BY <1>2 DEF Arrive
  <2>3. \A g \in File : disk'[g] \in {time + 1, disk[g]}
    BY <2>1
  <2>4. QED
    BY <1>0, <2>2, <2>3 DEF NoNewer
<1>3. ASSUME NEW d \in Dir, Leave(d) PROVE NoNewer'
  <2>1. disk' = [f \in File |-> IF Under(f, d) THEN 0 ELSE disk[f]] /\ time' = time + 1
    BY <1>3 DEF Leave
  <2>2. \A g \in File : disk'[g] \in {0, disk[g]}
    BY <2>1
  <2>3. QED
    BY <1>0, <2>1, <2>2 DEF NoNewer
<1>4. CASE \/ Stop \/ Listener \/ UNCHANGED vars \/ \E S \in Requests : SetIndexedDirectories(S)
  <2>1. UNCHANGED <<disk, time>>
    BY <1>4 DEF Stop, SetIndexedDirectories, Listener, RunEnd, BootBegin, BootList, BootEnd, ReindexBegin,
                ReindexList, ReindexWatch, ReindexUndo, ReindexDone, ReindexEnd, PendingRead,
                PendingTimeout, Discard, ProcessPlain, ProcessDirDeleted, ProcessDirCreated,
                WatchNewDir, vars, fs
  <2>2. QED
    BY <2>1 DEF NoNewer
<1>5. QED
  BY <1>1, <1>2, <1>3, <1>4 DEF Next, Environment

LEMMA StepOneByOne == ASSUME FInv, OneByOne, [Next]_vars PROVE OneByOne'
<1>0. mEvents \in Seq(KEv) /\ (pc = "process" => mEvents # <<>>)
  BY DEF FInv, Queues, Places
<1>1. CASE PendingRead
  <2>1. backend' = backend /\ pc # "process"
    BY <1>1 DEF PendingRead
  <2>2. CASE ReadInotify
    BY <2>1, <2>2 DEF ReadInotify, OneByOne
  <2>3. CASE ReadFam
    <3>1. PICK e : (mEvents' = <<e>> /\ pc' = "process") \/ (mEvents' = mEvents /\ backend = "fam")
      BY <2>3 DEF ReadFam
    <3>2. CASE mEvents' = <<e>> /\ pc' = "process"
      BY <3>2 DEF OneByOne
    <3>3. CASE mEvents' = mEvents /\ backend = "fam"
      BY <2>1, <3>3 DEF OneByOne
    <3>4. QED
      BY <3>1, <3>2, <3>3
  <2>4. QED
    BY <1>1, <2>2, <2>3 DEF PendingRead
<1>2. CASE Discard \/ ProcessPlain \/ ProcessDirCreated
  <2>1. backend' = backend /\ mEvents' = Tail(mEvents) /\ pc = "process"
    BY <1>2 DEF Discard, ProcessPlain, ProcessDirCreated
  <2>2. Len(mEvents) <= 1 => Tail(mEvents) = <<>>
    BY <1>0, <2>1, HeadTailProperties, EmptySeq
  <2>3. QED
    BY <2>1, <2>2 DEF OneByOne
<1>3. CASE ProcessDirDeleted
  <2>1. backend' = backend /\ mEvents' = Orphan(Tail(mEvents), Gone({First.path})) /\ pc = "process"
    BY <1>3 DEF ProcessDirDeleted, DirRemoved, DropWatches
  <2>2. Len(mEvents) <= 1 => Tail(mEvents) = <<>>
    BY <1>0, <2>1, HeadTailProperties, EmptySeq
  <2>3. Orphan(<<>>, Gone({First.path})) = <<>> /\ Len(<<>>) <= 1
    BY DEF Orphan
  <2>4. Len(mEvents) <= 1 => mEvents' = <<>> /\ Len(mEvents') <= 1
    BY <2>1, <2>2, <2>3
  <2>5. backend' = "fam" => Len(mEvents) <= 1
    BY <2>1 DEF OneByOne
  <2>6. QED
    BY <2>4, <2>5 DEF OneByOne
<1>4. CASE ReindexUndo \/ ReindexDone
  <2>1. PICK gone : mEvents' = Orphan(mEvents, gone) /\ backend' = backend /\ pc = "reindex"
    BY <1>4 DEF ReindexUndo, ReindexDone, ReindexEnd, DirsRemoved, DropWatches
  <2>2. Orphan(<<>>, gone) = <<>> /\ Len(<<>>) <= 1
    BY DEF Orphan
  <2>3. backend' = "fam" => mEvents = <<>>
    BY <2>1 DEF OneByOne
  <2>4. backend' = "fam" => mEvents' = <<>> /\ Len(mEvents') <= 1
    BY <2>1, <2>2, <2>3
  <2>5. QED
    BY <2>4 DEF OneByOne
<1>5. CASE PendingTimeout
  <2>1. backend' = backend /\ pc = "watch"
    BY <1>5 DEF PendingTimeout
  <2>2. backend = "fam" => mEvents' = mEvents
    BY <1>5 DEF PendingTimeout, TimeoutWithEvents, TimeoutWithNone
  <2>3. QED
    BY <2>1, <2>2 DEF OneByOne
<1>6. CASE Stop \/ UNCHANGED vars
  BY <1>6 DEF OneByOne, Stop, vars
<1>7. CASE \/ RunEnd \/ BootBegin \/ BootList \/ BootEnd \/ ReindexBegin \/ ReindexList
           \/ ReindexWatch \/ WatchNewDir
  <2>1. UNCHANGED <<backend, mEvents>> /\ pc # "process"
    BY <1>7 DEF RunEnd, BootBegin, BootList, BootEnd, ReindexBegin, ReindexList, ReindexWatch, WatchNewDir
  <2>2. QED
    BY <2>1 DEF OneByOne
<1>8. CASE \/ \E f \in File : ChangeFile(f)
           \/ \E d \in Dir : Arrive(d) \/ Leave(d)
           \/ \E S \in Requests : SetIndexedDirectories(S)
  BY <1>8 DEF OneByOne, ChangeFile, Arrive, Leave, SetIndexedDirectories, EnvUnchanged
<1>9. QED
  BY <1>1, <1>2, <1>3, <1>4, <1>5, <1>6, <1>7, <1>8 DEF Next, Environment, Listener

LEMMA EventsOfEv ==
  ASSUME NEW type \in {"CREATED", "UPDATED", "DELETED"}, NEW S \in SUBSET Path, time \in Nat
  PROVE  EventsOf(type, S) \in Seq(Ev)
<1>1. S \subseteq BelowAny(S)
  BY BelowAnyReflexive
<1>2. EventsOf(type, S) \in Seq(Reported(S))
  BY <1>1, EventsOfType
<1>3. QED
  BY <1>2, ReportedIsEv

(* A step that moves no event, and collects nothing where it did not.       *)
LEMMA SameWay ==
  ASSUME Following, UNCHANGED <<queue, events, mEvents, kqueue, disk>>, covered' \subseteq covered,
         pc' \in Collecting => pc \in Collecting
  PROVE  Following'
<1>1. ASSUME NEW f \in covered' PROVE Good(queue, events, mEvents, kqueue, pc', f, disk[f])
  <2>1. Good(queue, events, mEvents, kqueue, pc, f, disk[f])
    BY DEF Following
  <2>2. \A s : NoWorse(s, s, f, disk[f])
    BY NoWorseItself
  <2>3. QED
    BY <2>1, <2>2, GoodKept
<1>2. QED
  BY <1>1 DEF Following

LEMMA StillFollows ==
  ASSUME FInv, PInv,
         \/ Stop \/ RunEnd \/ BootBegin \/ BootList \/ BootEnd
         \/ ReindexWatch \/ WatchNewDir \/ UNCHANGED vars
         \/ \E S \in Requests : SetIndexedDirectories(S)
  PROVE  Following'
<1>0. Following /\ Watched /\ Places
  BY DEF PInv, FInv
<1>1. CASE BootEnd
  <2>1. covered' = covered /\ pc = "boot"
    BY <1>1 DEF BootEnd
  <2>2. covered = {}
    BY <1>0, <2>1 DEF Places, Watched
  <2>3. QED
    BY <2>1, <2>2 DEF Following
<1>2. CASE \/ Stop \/ RunEnd \/ BootBegin \/ BootList \/ ReindexWatch \/ WatchNewDir \/ UNCHANGED vars
           \/ \E S \in Requests : SetIndexedDirectories(S)
  <2>1. UNCHANGED <<queue, events, mEvents, kqueue, disk, covered>>
    BY <1>2 DEF Stop, RunEnd, BootBegin, BootList, ReindexWatch, WatchNewDir, SetIndexedDirectories,
                vars, fs, kernel
  <2>2. pc' \in Collecting => pc \in Collecting
    BY <1>2 DEF Stop, RunEnd, BootBegin, BootList, ReindexWatch, WatchNewDir, SetIndexedDirectories,
                vars, Collecting
  <2>3. QED
    BY <1>0, <2>1, <2>2, SameWay
<1>3. QED
  BY <1>1, <1>2

LEMMA ReindexBeginFollows == ASSUME FInv, PInv, ReindexBegin PROVE Following'
<1>1. UNCHANGED <<queue, events, mEvents, kqueue, disk, covered>> /\ pc = "run" /\ Following
  BY DEF ReindexBegin, fs, kernel, PInv
<1>2. events = <<>>
  BY <1>1 DEF FInv, Places
<1>3. ASSUME NEW f \in covered PROVE Good(queue, events, mEvents, kqueue, pc', f, disk[f])
  BY <1>1, <1>2 DEF Following, Good
<1>4. QED
  BY <1>1, <1>3 DEF Following

LEMMA ReindexListFollows == ASSUME FInv, PInv, ReindexList PROVE Following'
<1>0. Times /\ events \in Seq(Ev) /\ todo \in SUBSET Dir /\ Following /\ covered \in SUBSET File
  BY DEF FInv, Queues, Sets, PInv, Watched
<1>1. PICK d \in todo : events' = events \o EventsOf("CREATED", FilesIn(d))
  BY DEF ReindexList
<1>2. UNCHANGED <<queue, mEvents, kqueue, disk, covered>> /\ pc = "reindex"
  BY DEF ReindexList, fs, kernel
<1>3. PICK evs \in Seq(Ev) : evs = EventsOf("CREATED", FilesIn(d))
  BY <1>0, EventsOfEv DEF FilesIn, Path, Times
<1>4. PICK more \in Seq(Ev) : more = events \o evs
  BY <1>0, ConcatProperties
<1>5. ASSUME NEW f \in covered PROVE Good(queue, more, mEvents, kqueue, pc', f, disk[f])
  <2>1. Harmless(evs, f, disk[f])
    BY <1>0, <1>3, FoundHarmless
  <2>2. Parts(more, events, evs, f, disk[f])
    BY <1>0, <1>4, PartsOfConcat
  <2>3. NoWorse(events, more, f, disk[f])
    BY <2>1, <2>2 DEF NoWorse, Parts
  <2>4. Good(queue, events, mEvents, kqueue, pc, f, disk[f]) /\ pc \in Collecting
    BY <1>0, <1>2 DEF Following, Collecting
  <2>5. NoWorse(queue, queue, f, disk[f]) /\ NoWorse(mEvents, mEvents, f, disk[f])
        /\ NoWorse(kqueue, kqueue, f, disk[f])
    BY NoWorseItself
  <2>6. QED
    BY <2>3, <2>4, <2>5, GoodKept
<1>6. events' = more
  BY <1>1, <1>3, <1>4
<1>7. QED
  BY <1>2, <1>5, <1>6 DEF Following

(* More events of the kernel.                                               *)
LEMMA EmitKeeps ==
  ASSUME FInv, PInv, NEW evs \in Seq(KEv), Emit(evs), UNCHANGED <<queue, events, mEvents, pc>>,
         NEW f \in covered, disk'[f] = disk[f], Harmless(evs, f, disk[f])
  PROVE  Good(queue, events, mEvents, kqueue', pc, f, disk'[f])
<1>1. Good(queue, events, mEvents, kqueue, pc, f, disk[f]) /\ kqueue \in Seq(KEv)
  BY DEF PInv, Following, FInv, Queues
<1>2. Parts(kqueue', kqueue, evs, f, disk[f])
  BY <1>1, PartsOfConcat DEF Emit
<1>3. NoWorse(kqueue, kqueue', f, disk[f])
  BY <1>2 DEF Parts, NoWorse
<1>4. \A s : NoWorse(s, s, f, disk[f])
  BY NoWorseItself
<1>5. Good(queue, events, mEvents, kqueue', pc, f, disk[f])
  BY <1>1, <1>3, <1>4, GoodKept
<1>6. QED
  BY <1>5

LEMMA HarmlessIfWatched ==
  ASSUME NEW type \in {"CREATE", "UPDATE", "DELETE"}, NEW p, NEW w, NEW dir, NEW f, NEW d \in Nat,
         d = 0 => p # f \/ type = "DELETE",
         d > 0 => ~Under(f, p) \/ type # "DELETE"
  PROVE  Harmless(IfWatched(KernelEvent(type, p, w, dir)), f, d)
<1>1. PICK e : e = KernelEvent(type, p, w, dir)
  OBVIOUS
<1>2. ~Denies(e, f, d)
  BY <1>1 DEF Denies, KernelEvent
<1>3. Harmless(<<e>>, f, d) /\ Harmless(<<>>, f, d)
  BY <1>2, OfOne, OfNone
<1>4. QED
  BY <1>1, <1>3 DEF IfWatched

LEMMA ArriveFollows == ASSUME FInv, PInv, NEW d \in Dir, Arrive(d) PROVE Following'
<1> DEFINE evs == IfWatched(KernelEvent("CREATE", d, Par[d], TRUE))
<1>1. UNCHANGED <<queue, events, mEvents, pc>> /\ Emit(evs)
  BY DEF Arrive, EnvUnchanged
<1>2. evs \in Seq(KEv)
  <2>1. d \in Path /\ kwatch \in SUBSET Path
    BY DEF FInv, Sets, Path
  <2>2. QED
    BY <2>1, IfWatchedType
<1>3. ASSUME NEW f \in covered' PROVE f \in covered /\ Harmless(evs, f, disk[f]) /\ disk'[f] = disk[f]
  <2>1. covered' = covered \ Below(d) /\ f \in File /\ f \in Path /\ disk[f] \in Nat
    BY DEF Arrive, PInv, Watched, Path, FInv, Times
  <2>2. Par[f] # d
    <3>1. Par[f] # Top
      BY <2>1, FsAssumption DEF Path
    <3>2. Under(f, Par[f])
      BY <2>1, <3>1, UnderParent
    <3>3. QED
      BY <1>3, <2>1, <3>2 DEF Below
  <2>3. disk'[f] = disk[f]
    BY <2>1, <2>2 DEF Arrive
  <2>4. d # f
    BY <2>1, FsAssumption
  <2>5. Harmless(evs, f, disk[f])
    BY <2>1, <2>4, HarmlessIfWatched
  <2>6. QED
    BY <1>3, <2>1, <2>3, <2>5
<1> HIDE DEF evs
<1>4. ASSUME NEW f \in covered' PROVE Good(queue, events, mEvents, kqueue', pc, f, disk'[f])
  BY <1>1, <1>2, <1>3, EmitKeeps
<1>5. QED
  BY <1>1, <1>4 DEF Following

LEMMA LeaveFollows == ASSUME FInv, PInv, NEW d \in Dir, Leave(d) PROVE Following'
<1> DEFINE told == IfWatched(KernelEvent("DELETE", d, Par[d], TRUE))
<1>1. PICK self \in {<<>>, IfWatched(KernelEvent("DELETE", d, d, FALSE))} : Emit(told \o self)
  BY DEF Leave
<1>2. UNCHANGED <<queue, events, mEvents, pc>>
  BY DEF Leave, EnvUnchanged
<1>3. told \in Seq(KEv) /\ self \in Seq(KEv)
  <2>1. d \in Path /\ kwatch \in SUBSET Path
    BY DEF FInv, Sets, Path
  <2>2. QED
    BY <1>1, <2>1, IfWatchedType, EmptySeq
<1>4. ASSUME NEW f \in covered'
      PROVE  /\ f \in covered /\ disk'[f] = disk[f]
             /\ Harmless(told, f, disk[f]) /\ Harmless(self, f, disk[f])
  <2>1. covered' = covered \ Below(d) /\ f \in File /\ f \in Path /\ disk[f] \in Nat
    BY DEF Leave, PInv, Watched, Path, FInv, Times
  <2>2. ~Under(f, d)
    BY <1>4, <2>1 DEF Below
  <2>3. disk'[f] = disk[f]
    BY <2>1, <2>2 DEF Leave
  <2>4. Harmless(told, f, disk[f]) /\ Harmless(<<>>, f, disk[f])
        /\ Harmless(IfWatched(KernelEvent("DELETE", d, d, FALSE)), f, disk[f])
    BY <2>1, <2>2, HarmlessIfWatched, OfNone
  <2>5. QED
    BY <1>1, <1>4, <2>1, <2>3, <2>4
<1> HIDE DEF told
<1>5. PICK evs \in Seq(KEv) : evs = told \o self
  BY <1>3, ConcatProperties
<1>6. ASSUME NEW f \in covered' PROVE Good(queue, events, mEvents, kqueue', pc, f, disk'[f])
  <2>1. f \in covered /\ disk'[f] = disk[f]
    BY <1>4
  <2>2. Harmless(evs, f, disk[f])
    BY <1>3, <1>4, <1>5, HarmlessConcat
  <2>3. Emit(evs)
    BY <1>1, <1>5
  <2>4. QED
    BY <1>2, <2>1, <2>2, <2>3, EmitKeeps
<1>7. QED
  BY <1>2, <1>6 DEF Following

(* The file that changes: what it becomes is told behind all that was told  *)
(* of it before.                                                            *)
LEMMA ChangedFollows ==
  ASSUME FInv, PInv, NEW f \in File, ChangeFile(f), f \in covered'
  PROVE  Good(queue, events, mEvents, kqueue', pc, f, disk'[f])
<1>0. Times /\ kqueue \in Seq(KEv) /\ kwatch \in SUBSET Path
  BY DEF FInv, Queues, Sets
<1>1. PICK v \in {0, time + 1} \ {disk[f]} :
        /\ disk' = [disk EXCEPT ![f] = v]
        /\ LET type == IF v = 0 THEN "DELETE" ELSE IF disk[f] = 0 THEN "CREATE" ELSE "UPDATE"
               self == IF v = 0 THEN "DELETE" ELSE "UPDATE"
           IN  Emit(IfWatched(KernelEvent(type, f, Par[f], FALSE)) \o IfWatched(KernelEvent(self, f, f, FALSE)))
  BY DEF ChangeFile
<1>2. Par[f] \in kwatch
  BY DEF ChangeFile
<1>3. disk'[f] = v /\ v \in Nat
  BY <1>0, <1>1 DEF Times
<1>4. PICK type, self : /\ type = IF v = 0 THEN "DELETE" ELSE IF disk[f] = 0 THEN "CREATE" ELSE "UPDATE"
                        /\ self = IF v = 0 THEN "DELETE" ELSE "UPDATE"
  OBVIOUS
<1>5. Emit(IfWatched(KernelEvent(type, f, Par[f], FALSE)) \o IfWatched(KernelEvent(self, f, f, FALSE)))
  BY <1>1, <1>4
<1>6. PICK e : e = KernelEvent(type, f, Par[f], FALSE) /\ IfWatched(e) = <<e>>
  <2>1. PICK e : e = KernelEvent(type, f, Par[f], FALSE)
    OBVIOUS
  <2>2. e.w = Par[f]
    BY <2>1 DEF KernelEvent
  <2>3. IfWatched(e) = <<e>>
    BY <1>2, <2>2 DEF IfWatched
  <2>4. QED
    BY <2>1, <2>3
<1>7. PICK two : two = IfWatched(KernelEvent(self, f, f, FALSE))
  OBVIOUS
<1>8. <<e>> \in Seq(KEv) /\ two \in Seq(KEv)
  <2>1. f \in Path
    BY DEF Path
  <2>2. type \in {"CREATE", "UPDATE", "DELETE"} /\ self \in {"CREATE", "UPDATE", "DELETE"}
    BY <1>4
  <2>3. QED
    BY <1>0, <1>6, <1>7, <2>1, <2>2, IfWatchedType
<1>9. PICK one \in Seq(KEv) : one = <<e>>
  BY <1>8
<1>10. PICK evs \in Seq(KEv) : evs = one \o two
  BY <1>8, <1>9, ConcatProperties
<1>11. kqueue' = kqueue \o evs
  BY <1>5, <1>6, <1>7, <1>9, <1>10 DEF Emit
<1>12. e.type = type /\ e.path = f /\ e.w = Par[f] /\ e.dir = FALSE
  BY <1>6 DEF KernelEvent
<1>13. Says(e, f, v)
  BY <1>4, <1>12 DEF Says
<1>14. LastSays(one, f, v)
  BY <1>9, <1>13, OfOne
<1>15. Harmless(two, f, v)
  <2>1. /\ self \in {"CREATE", "UPDATE", "DELETE"}
        /\ v = 0 => self = "DELETE"
        /\ v > 0 => self # "DELETE"
    BY <1>3, <1>4
  <2>2. Harmless(IfWatched(KernelEvent(self, f, f, FALSE)), f, v)
    BY <1>3, <2>1, HarmlessIfWatched
  <2>3. QED
    BY <1>7, <2>2
<1>16. Parts(evs, one, two, f, v) /\ Parts(kqueue', kqueue, evs, f, v)
  BY <1>0, <1>8, <1>10, <1>11, PartsOfConcat
<1>17. LastSays(kqueue', f, v)
  BY <1>14, <1>15, <1>16 DEF Parts
<1>18. QED
  BY <1>3, <1>17 DEF Good, Way

LEMMA ChangeFileFollows == ASSUME FInv, PInv, NEW f \in File, ChangeFile(f) PROVE Following'
<1>1. PICK type, self, v :
        /\ disk' = [disk EXCEPT ![f] = v]
        /\ Emit(IfWatched(KernelEvent(type, f, Par[f], FALSE)) \o IfWatched(KernelEvent(self, f, f, FALSE)))
        /\ type \in {"CREATE", "UPDATE", "DELETE"} /\ self \in {"CREATE", "UPDATE", "DELETE"}
        /\ covered' \subseteq covered \cup {f}
  BY DEF ChangeFile
<1>2. UNCHANGED <<queue, events, mEvents, pc>>
  BY DEF ChangeFile, EnvUnchanged
<1>3. PICK one, two : /\ one = IfWatched(KernelEvent(type, f, Par[f], FALSE))
                      /\ two = IfWatched(KernelEvent(self, f, f, FALSE))
  OBVIOUS
<1>4. one \in Seq(KEv) /\ two \in Seq(KEv)
  <2>1. f \in Path /\ kwatch \in SUBSET Path
    BY DEF FInv, Sets, Path
  <2>2. QED
    BY <1>1, <1>3, <2>1, IfWatchedType
<1>5. PICK evs \in Seq(KEv) : evs = one \o two
  BY <1>4, ConcatProperties
<1>6. Emit(evs)
  BY <1>1, <1>3, <1>5
<1>7. ASSUME NEW g \in covered', g # f PROVE Good(queue, events, mEvents, kqueue', pc, g, disk'[g])
  <2>1. g \in covered /\ g \in File
    BY <1>1, <1>7 DEF PInv, Watched
  <2>2. disk'[g] = disk[g] /\ disk[g] \in Nat
    BY <1>1, <1>7, <2>1 DEF FInv, Times
  <2>3. ~Under(g, f)
    BY <1>7, <2>1, FileUnderItself
  <2>4. Harmless(one, g, disk[g]) /\ Harmless(two, g, disk[g])
    BY <1>1, <1>3, <1>7, <2>2, <2>3, HarmlessIfWatched
  <2>5. Harmless(evs, g, disk[g])
    BY <1>4, <1>5, <2>4, HarmlessConcat
  <2>6. QED
    BY <1>2, <1>6, <2>1, <2>2, <2>5, EmitKeeps
<1>8. \A g \in covered' : Good(queue, events, mEvents, kqueue', pc, g, disk'[g])
  BY <1>7, ChangedFollows
<1>9. QED
  BY <1>2, <1>8 DEF Following

(* The end of reindex(): what was collected is forgotten or handed over.    *)
LEMMA ReindexFollows == ASSUME FInv, PInv, ReindexUndo \/ ReindexDone PROVE Following'
<1>0. /\ queue \in Seq(Ev) /\ events \in Seq(Ev) /\ kqueue \in Seq(KEv) /\ mEvents \in Seq(KEv)
      /\ watches \in SUBSET Path /\ Watched /\ time \in Nat /\ disk \in [File -> Nat] /\ Following
  BY DEF FInv, Queues, Times, Sets, PInv
<1>1. PICK gone, evs, newDirs, index :
        /\ ReindexEnd(gone, evs, newDirs) /\ pc = "reindex"
        /\ evs = <<>> \/ evs = events \o Emptied(gone \ pollingDirs, index)
  BY DEF ReindexUndo, ReindexDone
<1>2. /\ DropWatches(gone \ pollingDirs, mEvents) /\ pc' \in {"run", "crashed"} /\ events' = <<>>
      /\ UNCHANGED disk /\ queue' = queue \o evs
  BY <1>1 DEF ReindexEnd, DirsRemoved, AddEvents, fs
<1>3. /\ covered' \subseteq covered
      /\ \A f \in covered' : Par[f] \notin gone \ pollingDirs
      /\ \A f \in covered', d \in Nat : NoWorse(mEvents, mEvents', f, d) /\ NoWorse(kqueue, kqueue', f, d)
  BY <1>0, <1>2, DropWatchesFollows
<1>4. ASSUME NEW f \in covered' PROVE Way(queue', <<>>, mEvents', kqueue', f, disk[f])
  <2>1. f \in File /\ disk[f] \in Nat /\ f \in covered
    BY <1>0, <1>3 DEF Watched
  <2>2. NoWorse(mEvents, mEvents', f, disk[f]) /\ NoWorse(kqueue, kqueue', f, disk[f])
    BY <1>3, <2>1
  <2>3. Way(queue, events, mEvents, kqueue, f, disk[f]) /\ Way(queue, <<>>, mEvents, kqueue, f, disk[f])
    BY <1>0, <1>1, <2>1 DEF Following, Good, Collecting
  <2>4. CASE evs = <<>>
    <3>1. queue' = queue
      BY <1>0, <1>2, <2>4, ConcatEmptySeq
    <3>2. QED
      BY <2>2, <2>3, <3>1 DEF Way, NoWorse
  <2>5. CASE evs = events \o Emptied(gone \ pollingDirs, index)
    <3>1. PICK emptied \in Seq(Ev) : emptied = Emptied(gone \ pollingDirs, index)
      BY <1>0, EmptiedType, ReportedIsEv
    <3>2. Harmless(emptied, f, disk[f])
      BY <1>3, <2>1, <3>1, EmptiedHarmless
    <3>3. PICK more \in Seq(Ev) : more = events \o emptied /\ Parts(more, events, emptied, f, disk[f])
      BY <1>0, PartsOfConcat
    <3>4. Parts(queue', queue, more, f, disk[f])
      BY <1>0, <1>2, <2>5, <3>1, <3>3, PartsOfConcat
    <3>5. LastSays(queue', f, disk[f]) <=> \/ LastSays(events, f, disk[f])
                                           \/ Harmless(events, f, disk[f]) /\ LastSays(queue, f, disk[f])
                                           \/ LastSays(emptied, f, disk[f])
      BY <3>2, <3>3, <3>4 DEF Parts
    <3>6. QED
      BY <2>2, <2>3, <3>5, OfNone DEF Way, NoWorse
  <2>6. QED
    BY <1>1, <2>4, <2>5
<1>5. pc' \notin Collecting
  BY <1>2 DEF Collecting
<1>6. QED
  BY <1>2, <1>4, <1>5 DEF Following, Good

(* What was collected is handed over.                                       *)
LEMMA HandedOver ==
  ASSUME FInv, AddEvents(events), events' = <<>>, NEW f, NEW d, NEW m, NEW k,
         Way(queue, events, m, k, f, d)
  PROVE  Way(queue', events', m, k, f, d)
<1>1. Parts(queue', queue, events, f, d)
  BY PartsOfConcat DEF AddEvents, FInv, Queues
<1>2. LastSays(queue', f, d) <=> LastSays(events, f, d) \/ (LastSays(queue, f, d) /\ Harmless(events, f, d))
  BY <1>1 DEF Parts
<1>3. QED
  BY <1>2, OfNone DEF Way

LEMMA PendingTimeoutFollows == ASSUME FInv, PInv, PendingTimeout PROVE Following'
<1>0. Following /\ Queues
  BY DEF FInv, PInv
<1>1. UNCHANGED <<kqueue, disk>> /\ pc = "watch"
  BY DEF PendingTimeout, kernel, fs
<1>2. CASE TimeoutWithEvents
  <2>1. UNCHANGED <<events, queue>> /\ pc' = "process"
    BY <1>2 DEF TimeoutWithEvents
  <2>2. PICK old : mEvents' = old /\ LeftAs(old) /\ (old \in Garbled(mEvents) \/ old = mEvents)
    BY <1>2 DEF TimeoutWithEvents
  <2>3. covered' = covered \ {mEvents[i].path : i \in {j \in 1..Len(mEvents) : old[j] # mEvents[j]}}
    BY <2>2 DEF LeftAs
  <2>4. ASSUME NEW f \in covered' PROVE Good(queue, events, mEvents', kqueue, pc', f, disk[f])
    <3>1. \A i \in 1..Len(mEvents) : old[i] # mEvents[i] => mEvents[i].path # f
      BY <2>3, <2>4
    <3>2. NoWorse(mEvents, mEvents', f, disk[f])
      <4>1. CASE old \in Garbled(mEvents)
        BY <1>0, <2>2, <3>1, <4>1, GarbledNoWorse DEF Queues
      <4>2. CASE old = mEvents
        BY <2>2, <4>2, NoWorseItself
      <4>3. QED
        BY <2>2, <4>1, <4>2
    <3>3. Good(queue, events, mEvents, kqueue, pc, f, disk[f]) /\ pc' \notin Collecting
      BY <1>0, <2>1, <2>3, <2>4 DEF Following, Collecting
    <3>4. NoWorse(queue, queue, f, disk[f]) /\ NoWorse(events, events, f, disk[f])
          /\ NoWorse(kqueue, kqueue, f, disk[f])
      BY NoWorseItself
    <3>5. QED
      BY <3>2, <3>3, <3>4, GoodKept
  <2>5. QED
    BY <1>1, <2>1, <2>4 DEF Following
<1>3. CASE TimeoutWithNone
  <2>1. AddEvents(events) /\ events' = <<>> /\ pc' \notin Collecting /\ UNCHANGED <<mEvents, covered>>
    BY <1>3 DEF TimeoutWithNone, Collecting
  <2>2. ASSUME NEW f \in covered PROVE Good(queue', events', mEvents, kqueue, pc', f, disk[f])
    <3>1. Way(queue, events, mEvents, kqueue, f, disk[f])
      BY <1>0 DEF Following, Good
    <3>2. Way(queue', events', mEvents, kqueue, f, disk[f])
      BY <2>1, <3>1, HandedOver
    <3>3. QED
      BY <2>1, <3>2 DEF Good
  <2>3. QED
    BY <1>1, <2>1, <2>2 DEF Following
<1>4. QED
  BY <1>2, <1>3 DEF PendingTimeout

LEMMA ReadInotifyFollows == ASSUME FInv, PInv, PendingRead, ReadInotify PROVE Following'
<1>0. Following /\ Queues
  BY DEF FInv, PInv
<1>1. PICK old \in Garbled(mEvents) : mEvents' = old \o kqueue /\ LeftAs(old)
  BY DEF ReadInotify
<1>2. covered' = covered \ {mEvents[i].path : i \in {j \in 1..Len(mEvents) : old[j] # mEvents[j]}}
  BY <1>1 DEF LeftAs
<1>3. UNCHANGED <<disk, queue, events>> /\ pc' \notin Collecting /\ kqueue' = <<>>
  BY DEF PendingRead, ReadInotify, fs, Collecting
<1>4. old \in Seq(KEv) /\ kqueue \in Seq(KEv)
  BY <1>0, GarbledType DEF Queues
<1>5. ASSUME NEW f \in covered' PROVE Way(queue, events, mEvents', kqueue', f, disk[f])
  <2>1. \A i \in 1..Len(mEvents) : old[i] # mEvents[i] => mEvents[i].path # f
    BY <1>2, <1>5
  <2>2. NoWorse(mEvents, old, f, disk[f])
    BY <1>0, <2>1, GarbledNoWorse DEF Queues
  <2>3. Way(queue, events, mEvents, kqueue, f, disk[f])
    BY <1>0, <1>2, <1>5 DEF Following, Good
  <2>4. Parts(mEvents', old, kqueue, f, disk[f])
    BY <1>1, <1>4, PartsOfConcat
  <2>5. Way(queue, events, mEvents', <<>>, f, disk[f])
    BY <2>2, <2>3, <2>4, OfNone DEF Way, NoWorse, Parts
  <2>6. QED
    BY <1>3, <2>5
<1>6. QED
  BY <1>3, <1>5 DEF Following, Good

LEMMA ReadFamFollows == ASSUME FInv, PInv, PendingRead, ReadFam PROVE Following'
<1>0. /\ Following /\ Queues /\ Watched /\ kqueue \in Seq(KEv) /\ kqueue # <<>>
  BY DEF FInv, PInv, Queues, PendingRead
<1>1. mEvents = <<>>
  BY DEF PendingRead, ReadFam, PInv, OneByOne
<1>2. PICK e \in KEv : e = Head(kqueue)
  BY <1>0, HeadTailProperties
<1>3. UNCHANGED disk /\ kqueue' = Tail(kqueue) /\ pc' \notin Collecting
  BY DEF PendingRead, ReadFam, fs, Collecting
<1>4. \A f, d : Parts(kqueue, <<e>>, kqueue', f, d)
  BY <1>0, <1>2, <1>3, HeadAndTail
<1>5. CASE e.w \notin watches
  <2>1. AddEvents(events) /\ events' = <<>> /\ mEvents' = mEvents /\ covered' = covered
    BY <1>2, <1>5 DEF ReadFam
  <2>2. ASSUME NEW f \in covered PROVE Good(queue', events', mEvents, kqueue', pc', f, disk[f])
    <3>1. e.w # Par[f]
      BY <1>0, <1>5 DEF Watched
    <3>2. ~LastSays(<<e>>, f, disk[f])
      BY <3>1, StraySaysNothing
    <3>3. Parts(kqueue, <<e>>, kqueue', f, disk[f])
      BY <1>4
    <3>4. Way(queue, events, mEvents, kqueue, f, disk[f])
      BY <1>0 DEF Following, Good
    <3>5. Way(queue, events, mEvents, kqueue', f, disk[f])
      BY <3>2, <3>3, <3>4 DEF Way, Parts
    <3>6. Way(queue', events', mEvents, kqueue', f, disk[f])
      BY <2>1, <3>5, HandedOver
    <3>7. QED
      BY <1>3, <3>6 DEF Good
  <2>3. QED
    BY <1>3, <2>1, <2>2 DEF Following
<1>6. CASE e.w \in watches
  <2>1. PICK event \in FamEvents(e) :
          /\ mEvents' = <<event>> /\ UNCHANGED <<events, queue>>
          /\ covered' = IF event.dir = (e.path \in Dir) THEN covered ELSE covered \ {e.path}
    BY <1>2, <1>6 DEF ReadFam
  <2>2. covered' \subseteq covered /\ covered \in SUBSET File
    BY <1>0, <2>1 DEF Watched
  <2>3. ASSUME NEW f \in covered' PROVE Good(queue, events, mEvents', kqueue', pc', f, disk[f])
    <3>1. EachNoWorse(e, event, f, disk[f])
      BY <2>1, <2>2, <2>3, FamNoWorse
    <3>2. NoWorse(<<e>>, <<event>>, f, disk[f])
      BY <3>1, OfOne DEF NoWorse, EachNoWorse
    <3>3. NoWorse(<<e>>, mEvents', f, disk[f])
      BY <2>1, <3>2
    <3>4. Parts(kqueue, <<e>>, kqueue', f, disk[f])
      BY <1>4
    <3>5. Way(queue, events, <<>>, kqueue, f, disk[f])
      BY <1>0, <1>1, <2>2 DEF Following, Good
    <3>6. Way(queue, events, mEvents', kqueue', f, disk[f])
      BY <3>3, <3>4, <3>5, OfNone DEF Way, Parts, NoWorse
    <3>7. QED
      BY <1>3, <3>6 DEF Good
  <2>4. QED
    BY <1>3, <2>1, <2>3 DEF Following
<1>7. QED
  BY <1>5, <1>6

(* The first event is taken, and what it leads to is collected.             *)
LEMMA ProcessFollows ==
  ASSUME FInv, PInv, pc = "process", pc' \in {"watch", "watchDir"}, NEW new \in Seq(Ev),
         events' = events \o new, UNCHANGED <<queue, disk>>, covered' \subseteq covered,
         \A f \in covered' : /\ NoWorse(<<First>>, new, f, disk[f])
                             /\ NoWorse(Tail(mEvents), mEvents', f, disk[f])
                             /\ NoWorse(kqueue, kqueue', f, disk[f])
  PROVE  Following'
<1>0. Following /\ events \in Seq(Ev) /\ mEvents \in Seq(KEv) /\ mEvents # <<>>
  BY DEF FInv, PInv, Queues, Places
<1>1. PICK t : t = Tail(mEvents)
  OBVIOUS
<1>2. PICK o : o = <<First>>
  OBVIOUS
<1>3. ASSUME NEW f \in covered' PROVE Way(queue, events', mEvents', kqueue', f, disk[f])
  <2>1. Parts(mEvents, o, t, f, disk[f])
    BY <1>0, <1>1, <1>2, HeadAndTail DEF First
  <2>2. Parts(events', events, new, f, disk[f])
    BY <1>0, PartsOfConcat
  <2>3. NoWorse(o, new, f, disk[f]) /\ NoWorse(t, mEvents', f, disk[f]) /\ NoWorse(kqueue, kqueue', f, disk[f])
    BY <1>1, <1>2
  <2>4. Way(queue, events, mEvents, kqueue, f, disk[f])
    BY <1>0 DEF Following, Good
  <2>5. QED
    BY <2>1, <2>2, <2>3, <2>4 DEF Way, Parts, NoWorse
<1>4. pc' \notin Collecting
  BY DEF Collecting
<1>5. QED
  BY <1>3, <1>4 DEF Following, Good

LEMMA FirstType ==
  ASSUME FInv, pc = "process"
  PROVE  First \in KEv /\ First.type \in {"CREATE", "UPDATE", "DELETE"} /\ First.path \in Path
         /\ Tail(mEvents) \in Seq(KEv) /\ mEvents # <<>>
<1>1. mEvents \in Seq(KEv) /\ mEvents # <<>>
  BY DEF FInv, Queues, Places
<1>2. First \in KEv /\ Tail(mEvents) \in Seq(KEv)
  BY <1>1, HeadTailProperties DEF First
<1>3. QED
  BY <1>1, <1>2 DEF KEv, KEvents

LEMMA DiscardFollows == ASSUME FInv, PInv, Discard PROVE Following'
<1>1. /\ pc = "process" /\ pc' = "watch" /\ First.w \notin watches /\ mEvents' = Tail(mEvents)
      /\ UNCHANGED <<events, queue, disk, covered, kqueue>>
  BY DEF Discard, IsEventValid, fs, kernel
<1>2. PICK new \in Seq(Ev) : new = <<>>
  BY EmptySeq
<1>3. events' = events \o new
  BY <1>1, <1>2, ConcatEmptySeq DEF FInv, Queues
<1>4. ASSUME NEW f \in covered'
      PROVE  /\ NoWorse(<<First>>, new, f, disk[f])
             /\ NoWorse(Tail(mEvents), mEvents', f, disk[f]) /\ NoWorse(kqueue, kqueue', f, disk[f])
  <2>1. First \in KEv /\ First.w # Par[f]
    BY <1>1, FirstType DEF PInv, Watched
  <2>2. ~LastSays(<<First>>, f, disk[f])
    BY <2>1, StraySaysNothing
  <2>3. NoWorse(<<First>>, new, f, disk[f])
    BY <1>2, <2>2, OfNone DEF NoWorse
  <2>4. QED
    BY <1>1, <2>3, NoWorseItself
<1>5. QED
  BY <1>1, <1>3, <1>4, ProcessFollows

LEMMA ProcessPlainFollows == ASSUME FInv, PInv, ProcessPlain PROVE Following'
<1>1. /\ pc = "process" /\ pc' = "watch" /\ mEvents' = Tail(mEvents)
      /\ UNCHANGED <<queue, disk, covered, kqueue>>
      /\ First.type = "UPDATE" \/ ~First.dir
  BY DEF ProcessPlain, fs, kernel
<1>2. First \in KEv /\ First.type \in {"CREATE", "UPDATE", "DELETE"} /\ First.path \in Path
  BY <1>1, FirstType
<1>3. PICK type : /\ type = CASE First.type = "UPDATE" -> "UPDATED" [] First.type = "CREATE" -> "CREATED"
                              [] First.type = "DELETE" -> "DELETED"
                  /\ events' = Append(events, Event(type, First.path))
  BY DEF ProcessPlain
<1>4. /\ First.type = "UPDATE" => type = "UPDATED"
      /\ First.type = "CREATE" => type = "CREATED"
      /\ First.type = "DELETE" => type = "DELETED"
      /\ type \in {"CREATED", "UPDATED", "DELETED"}
  BY <1>2, <1>3
<1>5. PICK e \in Ev : e = Event(type, First.path) /\ e.type = type /\ e.path = First.path /\ e.time = time
  <2>1. PICK e : e = Event(type, First.path)
    OBVIOUS
  <2>2. e.type = type /\ e.path = First.path /\ e.time = time /\ e \in Ev
    BY <1>2, <1>4, <2>1 DEF Event, Ev, FInv, Times
  <2>3. QED
    BY <2>1, <2>2
<1>6. PICK new \in Seq(Ev) : new = <<e>>
  <2>1. <<e>> \in Seq(Ev)
    OBVIOUS
  <2>2. QED
    BY <2>1
<1>7. events' = events \o new
  <2>1. events \in Seq(Ev) /\ events' = Append(events, e)
    BY <1>3, <1>5 DEF FInv, Queues
  <2>2. QED
    BY <1>6, <2>1, AppendIsConcat
<1>8. ASSUME NEW f \in covered'
      PROVE  /\ NoWorse(<<First>>, new, f, disk[f])
             /\ NoWorse(Tail(mEvents), mEvents', f, disk[f]) /\ NoWorse(kqueue, kqueue', f, disk[f])
  <2>1. disk[f] <= time
    BY <1>1 DEF PInv, Watched, NoNewer
  <2>2. EachNoWorse(First, e, f, disk[f])
    <3>1. Says(First, f, disk[f]) => Says(e, f, disk[f])
      BY <1>2, <1>4, <1>5, <2>1 DEF Says
    <3>2. Denies(e, f, disk[f]) => Denies(First, f, disk[f])
      BY <1>2, <1>4, <1>5 DEF Denies
    <3>3. QED
      BY <3>1, <3>2 DEF EachNoWorse
  <2>3. NoWorse(<<First>>, <<e>>, f, disk[f])
    BY <2>2, OfOne DEF NoWorse, EachNoWorse
  <2>4. QED
    BY <1>1, <1>6, <2>3, NoWorseItself
<1>9. QED
  BY <1>1, <1>7, <1>8, ProcessFollows

LEMMA ProcessDirDeletedFollows == ASSUME FInv, PInv, ProcessDirDeleted PROVE Following'
<1>0. PICK index : events' = events \o Emptied({First.path}, index)
  BY DEF ProcessDirDeleted, DirRemoved
<1>1. /\ pc = "process" /\ pc' = "watch" /\ First.type = "DELETE" /\ First.dir
      /\ DropWatches({First.path}, Tail(mEvents)) /\ UNCHANGED <<queue, disk>>
  BY DEF ProcessDirDeleted, DirRemoved, fs
<1>2. First \in KEv /\ Tail(mEvents) \in Seq(KEv)
  BY <1>1, FirstType
<1>3. kqueue \in Seq(KEv) /\ watches \in SUBSET Path /\ Watched /\ time \in Nat /\ disk \in [File -> Nat]
  BY DEF FInv, Queues, Sets, Times, PInv
<1>4. /\ covered' \subseteq covered
      /\ \A f \in covered' : Par[f] \notin {First.path}
      /\ \A f \in covered', d \in Nat : NoWorse(Tail(mEvents), mEvents', f, d) /\ NoWorse(kqueue, kqueue', f, d)
  BY <1>1, <1>2, <1>3, DropWatchesFollows
<1>5. PICK new \in Seq(Ev) : new = Emptied({First.path}, index)
  BY <1>3, EmptiedType, ReportedIsEv
<1>6. ASSUME NEW f \in covered'
      PROVE  /\ NoWorse(<<First>>, new, f, disk[f])
             /\ NoWorse(Tail(mEvents), mEvents', f, disk[f]) /\ NoWorse(kqueue, kqueue', f, disk[f])
  <2>1. f \in File /\ disk[f] \in Nat
    BY <1>3, <1>4 DEF Watched
  <2>2. Harmless(new, f, disk[f])
    BY <1>4, <1>5, <2>1, EmptiedHarmless
  <2>3. ~LastSays(<<First>>, f, disk[f])
    BY <1>1, <1>2, DirectorySaysNothing
  <2>4. NoWorse(<<First>>, new, f, disk[f])
    BY <2>2, <2>3 DEF NoWorse
  <2>5. QED
    BY <1>4, <2>1, <2>4
<1>7. events' = events \o new
  BY <1>0, <1>5
<1>8. QED
  BY <1>1, <1>4, <1>6, <1>7, ProcessFollows

LEMMA ProcessDirCreatedFollows == ASSUME FInv, PInv, ProcessDirCreated PROVE Following'
<1>1. /\ pc = "process" /\ pc' = "watchDir" /\ First.type = "CREATE" /\ First.dir
      /\ events' = events \o EventsOf("CREATED", FilesIn(First.path)) /\ mEvents' = Tail(mEvents)
      /\ UNCHANGED <<queue, disk, covered, kqueue>>
  BY DEF ProcessDirCreated, fs, kernel
<1>2. First \in KEv /\ covered \in SUBSET File /\ Times
  BY <1>1, FirstType DEF PInv, Watched, FInv
<1>3. FilesIn(First.path) \in SUBSET Path /\ time \in Nat
  BY <1>2 DEF FilesIn, Path, Times
<1>4. PICK new \in Seq(Ev) : new = EventsOf("CREATED", FilesIn(First.path))
  BY <1>3, EventsOfEv
<1>5. ASSUME NEW f \in covered'
      PROVE  /\ NoWorse(<<First>>, new, f, disk[f])
             /\ NoWorse(Tail(mEvents), mEvents', f, disk[f]) /\ NoWorse(kqueue, kqueue', f, disk[f])
  <2>1. Harmless(new, f, disk[f])
    BY <1>1, <1>2, <1>4, FoundHarmless
  <2>2. ~LastSays(<<First>>, f, disk[f])
    BY <1>1, <1>2, DirectorySaysNothing
  <2>3. NoWorse(<<First>>, new, f, disk[f])
    BY <2>1, <2>2 DEF NoWorse
  <2>4. QED
    BY <1>1, <2>3, NoWorseItself
<1>6. QED
  BY <1>1, <1>4, <1>5, ProcessFollows

LEMMA StepFollowing == ASSUME FInv, PInv, [Next]_vars PROVE Following'
  BY StillFollows, ChangeFileFollows, ArriveFollows, LeaveFollows, ReindexBeginFollows,
     ReindexListFollows, ReindexFollows, ReadInotifyFollows, ReadFamFollows, PendingTimeoutFollows,
     DiscardFollows, ProcessPlainFollows, ProcessDirDeletedFollows, ProcessDirCreatedFollows
  DEF Next, Environment, Listener, PendingRead

LEMMA InitFollows == ASSUME Init PROVE PInv
<1>1. covered = {} /\ kwatch = {} /\ mEvents = <<>> /\ pc = "run" /\ time = 2
  BY DEF Init
<1>2. Watched /\ Following
  BY <1>1 DEF Watched, Following
<1>3. OneByOne
  BY <1>1 DEF OneByOne
<1>4. NoNewer
  <2>1. disk \in [File -> {0, 2}]
    BY FsAssumption DEF Init
  <2>2. QED
    BY <1>1, <2>1 DEF NoNewer
<1>5. QED
  BY <1>2, <1>3, <1>4 DEF PInv

LEMMA StepBoth == ASSUME FInv, PInv, [Next]_vars PROVE FInv' /\ PInv'
<1>1. FInv'
  BY StepKeeps
<1>2. Watched' /\ NoNewer' /\ OneByOne'
  BY StepWatched, StepNoNewer, StepOneByOne DEF PInv
<1>3. Following'
  BY StepFollowing
<1>4. QED
  BY <1>1, <1>2, <1>3 DEF PInv

(* What happens to a file while its directory is watched is the last word on *)
(* it that is handed over: whatever the backend, however the file system and *)
(* the requests interleave with the thread, what reindex() lists, undoes or  *)
(* reports as deleted, and which of the events that wait are spoiled.        *)
THEOREM SeenAlwaysReported == Spec => []SeenIsReported
<1>1. Init => FInv /\ PInv
  BY InitKeeps, InitFollows
<1>2. FInv /\ PInv /\ [Next]_vars => (FInv /\ PInv)'
  BY StepBoth
<1>3. FInv /\ PInv => SeenIsReported
  <2>1. SUFFICES ASSUME FInv, PInv, kqueue = <<>>, mEvents = <<>>, events = <<>>, NEW f \in covered
                 PROVE  \E i \in 1..Len(queue) :
                           Right(queue[i], f) /\ \A k \in i + 1..Len(queue) : ~Wrong(queue[k], f)
    BY DEF SeenIsReported
  <2>2. Way(queue, <<>>, <<>>, <<>>, f, disk[f]) /\ f \in File /\ disk[f] \in Nat /\ queue \in Seq(Ev)
    BY <2>1 DEF PInv, Following, Good, Watched, FInv, Times, Queues
  <2>3. LastSays(queue, f, disk[f])
    BY <2>2, OfNone DEF Way
  <2>4. ASSUME NEW i \in 1..Len(queue)
        PROVE  /\ Says(queue[i], f, disk[f]) => Right(queue[i], f)
               /\ Wrong(queue[i], f) => Denies(queue[i], f, disk[f])
    <3>1. PICK e \in Ev : e = queue[i]
      BY <2>2
    <3>2. e.type \in {"CREATED", "UPDATED", "DELETED"} /\ e.time \in Nat
      BY <3>1 DEF Ev
    <3>3. (Says(e, f, disk[f]) => Right(e, f)) /\ (Wrong(e, f) => Denies(e, f, disk[f]))
      BY <3>2 DEF Says, Right, Wrong, Denies
    <3>4. QED
      BY <3>1, <3>3
  <2>5. PICK i \in 1..Len(queue) :
           Says(queue[i], f, disk[f]) /\ \A k \in i + 1..Len(queue) : ~Denies(queue[k], f, disk[f])
    BY <2>3 DEF LastSays
  <2>6. \A k \in i + 1..Len(queue) : k \in 1..Len(queue)
    BY <2>2
  <2>7. QED
    BY <2>4, <2>5, <2>6
<1>4. QED
  BY <1>1, <1>2, <1>3, PTL DEF Spec

--------------------------------------------------------------------------
(* The list of polled directories, which is changed entry by entry: in what *)
(* was a list of some paths no other comes up                               *)

LEMMA LeastNat ==
  ASSUME NEW T \in SUBSET Nat, T # {}
  PROVE  \E n \in T : \A m \in T : n <= m
<1> DEFINE R == OpToRel(<, Nat)
<1>1. IsWellFoundedOn(R, Nat)
  BY NatLessThanWellFounded
<1> HIDE DEF R
<1>2. PICK n \in T : \A m \in T : ~(<<m, n>> \in R)
  BY <1>1, WFMin
<1>3. \A m \in T : ~ m < n
  BY <1>2 DEF R, OpToRel
<1>4. \A m \in T : n <= m
  BY <1>3
<1>5. QED
  BY <1>4

LEMMA InductUp ==
  ASSUME NEW N \in Nat, NEW T, 0 \in T,
         \A n \in 0..N : n \in T /\ n < N => n + 1 \in T
  PROVE  \A n \in 0..N : n \in T
<1>1. SUFFICES ASSUME {n \in 0..N : n \notin T} # {}  PROVE FALSE
  OBVIOUS
<1>2. PICK n \in {k \in 0..N : k \notin T} : \A m \in {k \in 0..N : k \notin T} : n <= m
  <2>1. {n \in 0..N : n \notin T} \in SUBSET Nat
    OBVIOUS
  <2>2. QED
    BY <1>1, <2>1, LeastNat
<1>3. n # 0 /\ n - 1 \in 0..N
  BY <1>2
<1>4. n - 1 \in T
  BY <1>2, <1>3
<1>5. QED
  BY <1>2, <1>3, <1>4

Follows(f, N, v, step) == f[0] = v /\ \A i \in 1..N : f[i] = step[i][f[i - 1]]
LEMMA Recursion ==
  ASSUME NEW N \in Nat, NEW V, NEW v \in V, NEW step \in [1..N -> [V -> V]]
  PROVE  \E f \in [0..N -> V] : Follows(f, N, v, step)
<1> DEFINE Upto(n) == \E f \in [0..n -> V] : f[0] = v /\ \A i \in 1..n : f[i] = step[i][f[i - 1]]
           T == {n \in 0..N : Upto(n)}
<1>1. 0 \in T
  <2>1. PICK g : g = [i \in 0..0 |-> v]
    OBVIOUS
  <2>2. g \in [0..0 -> V] /\ g[0] = v /\ 1..0 = {}
    BY <2>1
  <2>3. Upto(0)
    BY <2>2, Zenon
  <2>4. QED
    BY <2>3
<1>2. ASSUME NEW n \in 0..N, n \in T, n < N  PROVE n + 1 \in T
  <2>1. PICK f \in [0..n -> V] : f[0] = v /\ \A i \in 1..n : f[i] = step[i][f[i - 1]]
    BY <1>2
  <2>2. PICK w : w = step[n + 1][f[n]]
    OBVIOUS
  <2>3. w \in V
    BY <1>2, <2>1, <2>2
  <2>4. PICK g : g = [i \in 0..n + 1 |-> IF i = n + 1 THEN w ELSE f[i]]
    OBVIOUS
  <2>5. g \in [0..n + 1 -> V] /\ g[0] = v
    BY <2>1, <2>3, <2>4
  <2>6. ASSUME NEW i \in 1..n + 1  PROVE g[i] = step[i][g[i - 1]]
    <3>1. CASE i = n + 1
      <4>1. g[i] = w /\ g[i - 1] = f[n]
        BY <2>4, <3>1
      <4>2. QED
        BY <2>2, <3>1, <4>1
    <3>2. CASE i # n + 1
      <4>1. i \in 1..n /\ g[i] = f[i] /\ g[i - 1] = f[i - 1]
        BY <2>4, <3>2
      <4>2. QED
        BY <2>1, <4>1
    <3>3. QED
      BY <3>1, <3>2
  <2>7. Upto(n + 1)
    BY <2>5, <2>6, Zenon
  <2>8. n + 1 \in 0..N
    BY <1>2
  <2>9. QED
    BY <2>7, <2>8
<1>3. \A n \in 0..N : n \in T
  <2> HIDE DEF T
  <2>1. QED
    BY <1>1, <1>2, InductUp
<1>4. Upto(N)
  BY <1>3
<1>5. QED
  BY <1>4 DEF Follows


LEMMA AddReducedIs ==
  ASSUME NEW W, NEW w \in Seq(W), NEW p \in W
  PROVE  P!AddReduced(w, p) \in Seq(W)
<1> DEFINE fits  == {i \in 1..Len(w) : StartsWith(p, w[i]) \/ Under(w[i], p)}
           first == CHOOSE i \in fits : \A j \in fits : i <= j
<1>1. \A l \in Seq(W) : P!AddWatch(l, p) \in Seq(W)
  BY DEF P!AddWatch
<1>2. CASE fits = {}
  <2>1. P!AddReduced(w, p) = P!AddWatch(w, p)
    BY <1>2, Zenon DEF P!AddReduced
  <2>2. QED
    BY <1>1, <2>1
<1>3. CASE fits # {}
  <2>1. fits \in SUBSET Nat
    OBVIOUS
  <2>2. PICK k \in fits : \A j \in fits : k <= j
    BY <1>3, <2>1, LeastNat
  <2>3. first \in fits
    BY <2>2
  <2>4. PICK f \in 1..Len(w) : f = first
    BY <2>3
  <2>5. P!S!RemoveAt(w, f) \in Seq(W)
    <3>1. SubSeq(w, 1, f - 1) \in Seq(W) /\ SubSeq(w, f + 1, Len(w)) \in Seq(W)
      OBVIOUS
    <3>2. QED
      BY <3>1, ConcatProperties DEF P!S!RemoveAt
  <2>6. P!AddReduced(w, p) = w \/ P!AddReduced(w, p) = P!AddWatch(P!S!RemoveAt(w, f), p)
    BY <1>3, <2>4, Zenon DEF P!AddReduced
  <2>7. QED
    BY <1>1, <2>5, <2>6
<1>4. QED
  BY <1>2, <1>3

LEMMA AddWatchesIs ==
  ASSUME NEW W, NEW w \in Seq(W), NEW D \in SUBSET W
  PROVE  P!AddWatches(w, D) \in Seq(W)
<1>1. PICK n \in Nat : n = Len(Sorted)
  BY FsAssumption
<1> DEFINE Body(l) == [i \in 0..Len(Sorted) |->
              IF i = 0 THEN w
              ELSE IF Sorted[i] \in D THEN P!AddReduced(l[i - 1], Sorted[i])
              ELSE l[i - 1]]
<1>2. PICK step : step = [i \in 1..n |-> [l \in Seq(W) |->
              IF Sorted[i] \in D THEN P!AddReduced(l, Sorted[i]) ELSE l]]
  OBVIOUS
<1>3. step \in [1..n -> [Seq(W) -> Seq(W)]]
  BY <1>2, AddReducedIs
<1>4. PICK f \in [0..n -> Seq(W)] : Follows(f, n, w, step)
  BY <1>3, Recursion
<1>5. f = Body(f)
  <2>1. f = [i \in 0..n |-> f[i]]
    OBVIOUS
  <2>2. ASSUME NEW i \in 0..n
        PROVE  f[i] = IF i = 0 THEN w
                      ELSE IF Sorted[i] \in D THEN P!AddReduced(f[i - 1], Sorted[i]) ELSE f[i - 1]
    <3>1. CASE i = 0
      BY <1>4, <3>1 DEF Follows
    <3>2. CASE i # 0
      <4>1. i \in 1..n /\ i - 1 \in 0..n
        BY <3>2
      <4>2. f[i] = step[i][f[i - 1]] /\ f[i - 1] \in Seq(W)
        BY <1>4, <4>1 DEF Follows
      <4>3. QED
        BY <1>2, <3>2, <4>1, <4>2
    <3>3. QED
      BY <3>1, <3>2
  <2>3. QED
    BY <1>1, <2>1, <2>2
<1>6. PICK l : l = CHOOSE g : g = Body(g)
  OBVIOUS
<1>7. l = Body(l)
  <2> HIDE DEF Body
  <2>1. QED
    BY <1>5, <1>6, Zenon
<1>8. \A i \in 0..n : l[i] \in Seq(W)
  <2> DEFINE T == {i \in 0..n : l[i] \in Seq(W)}
  <2>1. 0 \in T
    BY <1>1, <1>7
  <2>2. ASSUME NEW i \in 0..n, i \in T, i < n  PROVE i + 1 \in T
    <3>1. i + 1 \in 0..n /\ i + 1 # 0 /\ (i + 1) - 1 = i
      BY <2>2
    <3>2. l[i + 1] = IF Sorted[i + 1] \in D THEN P!AddReduced(l[i], Sorted[i + 1]) ELSE l[i]
      BY <1>1, <1>7, <3>1
    <3>3. QED
      BY <2>2, <3>1, <3>2, AddReducedIs
  <2>3. \A i \in 0..n : i \in T
    <3> HIDE DEF T
    <3>1. QED
      BY <2>1, <2>2, InductUp
  <2>4. QED
    BY <2>3
<1>9. P!AddWatches(w, D) = l[n]
  BY <1>1, <1>6, Zenon DEF P!AddWatches
<1>10. QED
  BY <1>8, <1>9

LEMMA RmWatchIs ==
  ASSUME NEW W, NEW w \in Seq(W), NEW p
  PROVE  P!RmWatch(w, p) \in Seq(W)
<1>1. PICK n \in Nat : n = Len(w)
  OBVIOUS
<1>e. PICK erased : erased = P!Erased(w, p)
  OBVIOUS
<1> DEFINE Body(l) == [i \in 0..Len(w) |->
              IF i = 0 THEN <<>>
              ELSE IF i \in erased THEN l[i - 1]
              ELSE Append(l[i - 1], w[i])]
<1>2. PICK step : step = [i \in 1..n |-> [l \in Seq(W) |->
              IF i \in erased THEN l ELSE Append(l, w[i])]]
  OBVIOUS
<1>3. step \in [1..n -> [Seq(W) -> Seq(W)]]
  BY <1>1, <1>2
<1>n. <<>> \in Seq(W)
  BY EmptySeq
<1>4. PICK f \in [0..n -> Seq(W)] : Follows(f, n, <<>>, step)
  BY <1>3, <1>n, Recursion
<1>5. f = Body(f)
  <2>1. f = [i \in 0..n |-> f[i]]
    OBVIOUS
  <2>2. ASSUME NEW i \in 0..n
        PROVE  f[i] = IF i = 0 THEN <<>>
                      ELSE IF i \in erased THEN f[i - 1] ELSE Append(f[i - 1], w[i])
    <3>1. CASE i = 0
      BY <1>4, <3>1 DEF Follows
    <3>2. CASE i # 0
      <4>1. i \in 1..n /\ i - 1 \in 0..n
        BY <3>2
      <4>2. f[i] = step[i][f[i - 1]] /\ f[i - 1] \in Seq(W)
        BY <1>4, <4>1 DEF Follows
      <4>3. QED
        BY <1>2, <3>2, <4>1, <4>2
    <3>3. QED
      BY <3>1, <3>2
  <2>3. QED
    BY <1>1, <2>1, <2>2
<1>6. PICK l : l = CHOOSE g : g = Body(g)
  OBVIOUS
<1>7. l = Body(l)
  <2> HIDE DEF Body
  <2>1. QED
    BY <1>5, <1>6, Zenon
<1>8. \A i \in 0..n : l[i] \in Seq(W)
  <2> DEFINE T == {i \in 0..n : l[i] \in Seq(W)}
  <2>1. 0 \in T
    BY <1>1, <1>7, <1>n
  <2>2. ASSUME NEW i \in 0..n, i \in T, i < n  PROVE i + 1 \in T
    <3>1. i + 1 \in 1..n /\ i + 1 # 0 /\ (i + 1) - 1 = i
      BY <2>2
    <3>2. l[i + 1] = IF i + 1 \in erased THEN l[i] ELSE Append(l[i], w[i + 1])
      <4>1. PICK j : j = i + 1
        OBVIOUS
      <4>2. j \in 0..Len(w) /\ j # 0 /\ j - 1 = i
        BY <1>1, <3>1, <4>1
      <4>3. l[j] = IF j \in erased THEN l[i] ELSE Append(l[i], w[j])
        BY <1>7, <4>2, Zenon
      <4>4. QED
        BY <4>1, <4>3
    <3>3. w[i + 1] \in W
      BY <1>1, <3>1
    <3>4. l[i] \in Seq(W) /\ Append(l[i], w[i + 1]) \in Seq(W)
      BY <2>2, <3>3
    <3>5. l[i + 1] \in {l[i], Append(l[i], w[i + 1])} /\ i + 1 \in 0..n
      BY <3>1, <3>2
    <3>6. QED
      BY <3>4, <3>5
  <2>3. \A i \in 0..n : i \in T
    <3> HIDE DEF T
    <3>1. QED
      BY <2>1, <2>2, InductUp
  <2>4. QED
    BY <2>3
<1>9. P!RmWatch(w, p) = l[n]
  BY <1>1, <1>e, <1>6, Zenon DEF P!RmWatch
<1>10. QED
  BY <1>8, <1>9

LEMMA AfterRmIs ==
  ASSUME NEW W, polled \in Seq(W), NEW D
  PROVE  AfterRm(D) \in Seq(W)
<1>1. PICK n \in Nat : n = Len(Sorted)
  BY FsAssumption
<1>w. PICK w \in Seq(W) : w = polled
  OBVIOUS
<1> DEFINE Body(l) == [i \in 0..Len(Sorted) |->
              IF i = 0 THEN polled
              ELSE IF Sorted[i] \in D \cap pollingDirs THEN P!RmWatch(l[i - 1], Sorted[i])
              ELSE l[i - 1]]
<1>2. PICK step : step = [i \in 1..n |-> [l \in Seq(W) |->
              IF Sorted[i] \in D \cap pollingDirs THEN P!RmWatch(l, Sorted[i]) ELSE l]]
  OBVIOUS
<1>3. step \in [1..n -> [Seq(W) -> Seq(W)]]
  BY <1>2, RmWatchIs
<1>4. PICK f \in [0..n -> Seq(W)] : Follows(f, n, w, step)
  BY <1>3, Recursion
<1>5. f = Body(f)
  <2>1. f = [i \in 0..n |-> f[i]]
    OBVIOUS
  <2>2. ASSUME NEW i \in 0..n
        PROVE  f[i] = IF i = 0 THEN polled
                      ELSE IF Sorted[i] \in D \cap pollingDirs THEN P!RmWatch(f[i - 1], Sorted[i])
                      ELSE f[i - 1]
    <3>1. CASE i = 0
      BY <1>4, <1>w, <3>1 DEF Follows
    <3>2. CASE i # 0
      <4>1. i \in 1..n /\ i - 1 \in 0..n
        BY <3>2
      <4>2. f[i] = step[i][f[i - 1]] /\ f[i - 1] \in Seq(W)
        BY <1>4, <4>1 DEF Follows
      <4>3. QED
        BY <1>2, <3>2, <4>1, <4>2
    <3>3. QED
      BY <3>1, <3>2
  <2>3. QED
    BY <1>1, <2>1, <2>2
<1>6. PICK l : l = CHOOSE g : g = Body(g)
  OBVIOUS
<1>7. l = Body(l)
  <2> HIDE DEF Body
  <2>1. QED
    BY <1>5, <1>6, Zenon
<1>8. \A i \in 0..n : l[i] \in Seq(W)
  <2> DEFINE T == {i \in 0..n : l[i] \in Seq(W)}
  <2>1. 0 \in T
    BY <1>1, <1>7
  <2>2. ASSUME NEW i \in 0..n, i \in T, i < n  PROVE i + 1 \in T
    <3>1. i + 1 \in 0..n /\ i + 1 # 0 /\ (i + 1) - 1 = i
      BY <2>2
    <3>2. l[i + 1] = IF Sorted[i + 1] \in D \cap pollingDirs THEN P!RmWatch(l[i], Sorted[i + 1]) ELSE l[i]
      BY <1>1, <1>7, <3>1
    <3>3. QED
      BY <2>2, <3>1, <3>2, RmWatchIs
  <2>3. \A i \in 0..n : i \in T
    <3> HIDE DEF T
    <3>1. QED
      BY <2>1, <2>2, InductUp
  <2>4. QED
    BY <2>3
<1>9. AfterRm(D) = l[n]
  BY <1>1, <1>6, Zenon DEF AfterRm, Leaving
<1>10. QED
  BY <1>8, <1>9

--------------------------------------------------------------------------
(* The types the proofs above do without: times within the bound, and a     *)
(* polled list of directories that are polled.                              *)
Polls == polled \in Seq(pollingDirs)
Dated == /\ time \in 2..MaxTime
         /\ events \in Seq(Events) /\ queue \in Seq(Events)

LEMMA EventIs ==
  ASSUME NEW type \in {"CREATED", "UPDATED", "DELETED"}, NEW p \in Path, time \in 2..MaxTime
  PROVE  Event(type, p) \in Events
<1>1. time \in 0..MaxTime
  BY FsAssumption
<1>2. QED
  BY <1>1 DEF Event, Events

LEMMA EventsOfIs ==
  ASSUME NEW type \in {"CREATED", "UPDATED", "DELETED"}, NEW S \in SUBSET Path, time \in 2..MaxTime
  PROVE  EventsOf(type, S) \in Seq(Events)
<1>0. time \in Nat
  BY FsAssumption
<1>1. PICK s \in Seq(Ev) : s = EventsOf(type, S)
  BY <1>0, EventsOfEv
<1>2. \A i \in 1..Len(s) : s[i] \in Events
  <2>1. Q!ToSet(s) = {s[i] : i \in 1..Len(s)}
    BY DEF Q!ToSet, Q!Range
  <2>2. \A e \in Q!ToSet(s) : e \in Events
    BY <1>1, EventsOfSet, EventIs
  <2>3. QED
    BY <2>1, <2>2
<1>3. s \in Seq(Events)
  BY <1>2
<1>4. QED
  BY <1>1, <1>3

LEMMA StepPolls == ASSUME FInv, Polls, [Next]_vars PROVE Polls'
<1>0. pollingDirs \in SUBSET Path
  BY DEF FInv, Sets
<1>1. ASSUME NEW S, AddWatches(S) PROVE Polls'
  <2>1. PICK D : D = S \ watches'
    OBVIOUS
  <2>2. pollingDirs' = pollingDirs \cup D /\ polled' = P!AddWatches(polled, D)
    BY <1>1, <2>1 DEF AddWatches
  <2>3. PICK W : W = pollingDirs \cup D
    OBVIOUS
  <2>4. polled \in Seq(W)
    <3>1. pollingDirs \subseteq W
      BY <2>3
    <3>2. QED
      BY <3>1, SeqMonotonic DEF Polls
  <2>5. P!AddWatches(polled, D) \in Seq(W)
    BY <2>3, <2>4, AddWatchesIs
  <2>6. QED
    BY <1>1, <2>2, <2>3, <2>5 DEF Polls
<1>2. CASE BootEnd
  <2>1. CASE reindexReq
    BY <1>2, <2>1 DEF BootEnd, polls, Polls
  <2>2. CASE ~reindexReq
    BY <1>1, <1>2, <2>2 DEF BootEnd
  <2>3. QED
    BY <2>1, <2>2
<1>3. CASE ReindexWatch \/ WatchNewDir
  BY <1>1, <1>3 DEF ReindexWatch, WatchNewDir
<1>4. ASSUME NEW gone, DirsRemoved(gone) PROVE Polls'
  BY <1>4, AfterRmIs DEF DirsRemoved, Polls
<1>5. CASE ReindexUndo \/ ReindexDone
  BY <1>4, <1>5 DEF ReindexUndo, ReindexDone, ReindexEnd
<1>6. CASE \/ Environment \/ RunEnd \/ BootBegin \/ BootList \/ ReindexBegin \/ ReindexList
           \/ PendingRead \/ PendingTimeout \/ Discard \/ ProcessPlain \/ ProcessDirDeleted
           \/ ProcessDirCreated \/ UNCHANGED vars
  <2>1. UNCHANGED polls
    BY <1>6 DEF Environment, ChangeFile, Arrive, Leave, SetIndexedDirectories, Stop, EnvUnchanged,
                RunEnd, BootBegin, BootList, ReindexBegin, ReindexList, PendingRead, PendingTimeout,
                Discard, ProcessPlain, ProcessDirDeleted, ProcessDirCreated, vars
  <2>2. QED
    BY <2>1 DEF polls, Polls
<1>7. QED
  BY <1>2, <1>3, <1>5, <1>6 DEF Next, Listener

LEMMA StepTime == ASSUME Dated, [Next]_vars PROVE time' \in 2..MaxTime
<1>0. time \in 2..MaxTime /\ MaxTime \in Nat
  BY FsAssumption DEF Dated
<1>1. CASE \E f \in File : ChangeFile(f)
  BY <1>0, <1>1 DEF ChangeFile
<1>2. CASE \E d \in Dir : Arrive(d) \/ Leave(d)
  <2>1. time' = time + 1 /\ time < MaxTime
    BY <1>2 DEF Arrive, Leave
  <2>2. QED
    BY <1>0, <2>1
<1>3. CASE (\E S \in Requests : SetIndexedDirectories(S)) \/ Stop \/ Listener \/ UNCHANGED vars
  <2>1. time' = time
    BY <1>3 DEF SetIndexedDirectories, Stop, Listener,
                RunEnd, BootBegin, BootList, BootEnd, ReindexBegin, ReindexList, ReindexWatch,
                ReindexUndo, ReindexDone, ReindexEnd, PendingRead, PendingTimeout, Discard,
                ProcessPlain, ProcessDirDeleted, ProcessDirCreated, WatchNewDir, vars, fs
  <2>2. QED
    BY <1>0, <2>1
<1>4. QED
  BY <1>1, <1>2, <1>3 DEF Next, Environment

LEMMA EmptiedIs == ASSUME NEW S, NEW index, time \in 2..MaxTime PROVE Emptied(S, index) \in Seq(Events)
<1>1. UNION {Children(d, index) : d \in S} \in SUBSET Path
  BY DEF Children, Path
<1>2. QED
  BY <1>1, EventsOfIs DEF Emptied

LEMMA FilesInPath == ASSUME NEW d PROVE FilesIn(d) \in SUBSET Path
  BY DEF FilesIn, Path

LEMMA BootEventsIs == ASSUME NEW index, time \in 2..MaxTime PROVE BootEvents(index) \in Seq(Events)
<1> DEFINE listed  == {Par[f] : f \in {g \in File : seen[g] > 0}}
           indexed == UNION {Children(d, index) : d \in listed}
           lost    == {f \in indexed : seen[f] = 0}
           newer   == {f \in indexed : seen[f] > index[f]}
           same    == {f \in indexed : 0 < seen[f] /\ seen[f] <= index[f]}
<1>1. indexed \subseteq File
  BY DEF Children
<1>2. \A f \in File : Par[f] \in Path /\ f \in Path
  BY FsAssumption DEF Path
<1>3. /\ {Par[f] : f \in lost} \in SUBSET Path /\ {Par[f] : f \in newer} \in SUBSET Path
      /\ {f \in File : seen[f] > 0} \ same \in SUBSET Path
  BY <1>1, <1>2
<1>4. PICK a, b, c : /\ a = EventsOf("DELETED", {Par[f] : f \in lost})
                     /\ b = EventsOf("UPDATED", {Par[f] : f \in newer})
                     /\ c = EventsOf("CREATED", {f \in File : seen[f] > 0} \ same)
  OBVIOUS
<1>5. a \in Seq(Events) /\ b \in Seq(Events) /\ c \in Seq(Events)
  BY <1>3, <1>4, EventsOfIs
<1>6. BootEvents(index) = a \o b \o c
  BY <1>4, Zenon DEF BootEvents
<1>7. QED
  BY <1>5, <1>6

LEMMA StepDated == ASSUME FInv, Dated, [Next]_vars PROVE Dated'
<1>0. /\ time \in 2..MaxTime /\ events \in Seq(Events) /\ queue \in Seq(Events)
      /\ todo \in SUBSET Dir /\ mEvents \in Seq(KEv) /\ Places
  BY DEF Dated, FInv, Sets, Queues
<1>e. <<>> \in Seq(Events)
  BY EmptySeq
<1>q. \A evs \in Seq(Events) : queue \o evs \in Seq(Events) /\ events \o evs \in Seq(Events)
  BY <1>0
<1> SUFFICES events' \in Seq(Events) /\ queue' \in Seq(Events)
  BY StepTime DEF Dated
<1>1. CASE BootEnd
  <2>1. events' = events /\ (queue' = queue \/ \E index : queue' = queue \o BootEvents(index))
    BY <1>1 DEF BootEnd, AddEvents
  <2>2. QED
    BY <1>0, <1>q, <2>1, BootEventsIs
<1>2. CASE ReindexList
  <2>1. PICK d \in todo : events' = events \o EventsOf("CREATED", FilesIn(d))
    BY <1>2 DEF ReindexList
  <2>2. QED
    BY <1>0, <1>2, <1>q, <2>1, FilesInPath, EventsOfIs DEF ReindexList
<1>3. CASE ReindexUndo
  BY <1>0, <1>3, <1>e, <1>q DEF ReindexUndo, ReindexEnd, AddEvents
<1>4. CASE ReindexDone
  <2>1. PICK S, index : events' = <<>> /\ queue' = queue \o (events \o Emptied(S, index))
    BY <1>4 DEF ReindexDone, ReindexEnd, AddEvents
  <2>2. QED
    BY <1>0, <1>e, <1>q, <2>1, EmptiedIs
<1>5. CASE PendingRead
  BY <1>0, <1>5, <1>e, <1>q DEF PendingRead, ReadInotify, ReadFam, AddEvents
<1>6. CASE PendingTimeout
  BY <1>0, <1>6, <1>e, <1>q DEF PendingTimeout, TimeoutWithEvents, TimeoutWithNone, AddEvents
<1>7. CASE ProcessPlain
  <2>1. mEvents # <<>>
    BY <1>0, <1>7 DEF ProcessPlain, Places
  <2>2. First \in KEvents
    BY <1>0, <2>1 DEF First, KEv
  <2>3. First.path \in Path /\ First.type \in {"CREATE", "UPDATE", "DELETE"}
    BY <2>2 DEF KEvents
  <2>4. PICK type \in {"CREATED", "UPDATED", "DELETED"} : events' = Append(events, Event(type, First.path))
    BY <1>7, <2>3 DEF ProcessPlain
  <2>5. Event(type, First.path) \in Events
    BY <1>0, <2>3, <2>4, EventIs
  <2>6. PICK e \in Events : e = Event(type, First.path)
    BY <2>5
  <2>7. Append(events, e) \in Seq(Events)
    BY <1>0
  <2>8. queue' = queue
    BY <1>7 DEF ProcessPlain
  <2>9. QED
    BY <1>0, <2>4, <2>6, <2>7, <2>8
<1>8. CASE ProcessDirDeleted
  <2>1. PICK index : events' = events \o Emptied({First.path}, index) /\ queue' = queue
    BY <1>8 DEF ProcessDirDeleted, DirRemoved
  <2>2. QED
    BY <1>0, <1>q, <2>1, EmptiedIs
<1>9. CASE ProcessDirCreated
  BY <1>0, <1>9, <1>q, FilesInPath, EventsOfIs DEF ProcessDirCreated
<1>10. CASE \/ Environment \/ RunEnd \/ BootBegin \/ BootList \/ ReindexBegin \/ ReindexWatch
            \/ Discard \/ WatchNewDir \/ UNCHANGED vars
  <2>1. UNCHANGED <<events, queue>>
    BY <1>10 DEF Environment, ChangeFile, Arrive, Leave, SetIndexedDirectories, Stop, EnvUnchanged,
                 RunEnd, BootBegin, BootList, ReindexBegin, ReindexWatch, Discard, WatchNewDir, vars
  <2>2. QED
    BY <1>0, <2>1
<1>11. QED
  BY <1>1, <1>2, <1>3, <1>4, <1>5, <1>6, <1>7, <1>8, <1>9, <1>10 DEF Next, Listener

LEMMA InitTypes == ASSUME Init PROVE Polls /\ Dated
<1>1. 2 \in 2..MaxTime
  BY FsAssumption
<1>2. QED
  BY <1>1, EmptySeq DEF Init, Polls, Dated

LEMMA SetOfSeq == ASSUME NEW S, NEW s \in Seq(S) PROVE Q!ToSet(s) \subseteq S
<1>1. Q!ToSet(s) = {s[i] : i \in 1..Len(s)}
  BY DEF Q!ToSet, Q!Range
<1>2. \A i \in 1..Len(s) : s[i] \in S
  OBVIOUS
<1>3. QED
  BY <1>1, <1>2

LEMMA TypesHold == ASSUME FInv, PInv, Polls, Dated PROVE TypeOK
<1>1. disk \in [File -> 0..MaxTime]
  <2>1. disk \in [File -> Nat] /\ time \in 2..MaxTime /\ MaxTime \in Nat
        /\ \A f \in File : disk[f] <= time
    BY FsAssumption DEF FInv, Times, PInv, NoNewer, Dated
  <2>2. \A f \in File : disk[f] \in 0..MaxTime
    BY <2>1
  <2>3. QED
    BY <2>1, <2>2
<1>2. dirs \subseteq Dir /\ kwatch \subseteq watches /\ watches \subseteq Path /\ covered \subseteq File
  BY DEF FInv, Sets, PInv, Watched
<1>3. Q!ToSet(kqueue) \cup Q!ToSet(mEvents) \subseteq KEvents
  BY SetOfSeq DEF FInv, Queues, KEv
<1>4. Q!ToSet(queue) \cup Q!ToSet(events) \subseteq Events
  BY SetOfSeq DEF Dated
<1>5. UNION {indexedDirs, reindexDirs, todo, dirsNow, monitored} \subseteq Dir
  BY DEF FInv, Sets
<1>6. pollingDirs \subseteq Path /\ Q!ToSet(polled) \subseteq pollingDirs
  BY SetOfSeq DEF Polls, FInv, Sets
<1>7. QED
  BY <1>1, <1>2, <1>3, <1>4, <1>5, <1>6 DEF TypeOK

(* Every variable has its type in every reachable state: times stay within   *)
(* the bound, the kernel has no watch that inotify's m_watches lacks, events *)
(* are well formed on their whole way, and the PollingListener polls no     *)
(* directory that the listener has not given it, however addWatches() and   *)
(* rmWatch() rearrange its list.                                            *)
THEOREM TypeCorrect == Spec => []TypeOK
<1>1. Init => FInv /\ PInv /\ Polls /\ Dated
  BY InitKeeps, InitFollows, InitTypes
<1>2. FInv /\ PInv /\ Polls /\ Dated /\ [Next]_vars => (FInv /\ PInv /\ Polls /\ Dated)'
  BY StepBoth, StepPolls, StepDated
<1>3. FInv /\ PInv /\ Polls /\ Dated => TypeOK
  BY TypesHold
<1>4. QED
  BY <1>1, <1>2, <1>3, PTL DEF Spec
===========================================================================
