---------------------------- MODULE FsListener ----------------------------
(* The file system listener of the daemon: FsListener with its inotify and  *)
(* FAM backends and the list of the PollingListener it falls back on        *)
(* (src/bin/daemon/eventlistener), between the file system that changes     *)
(* under it and the queue of events it reports to.                          *)
(*                                                                          *)
(* A path is a name; Par gives the directory a path lies in, and LooksLike  *)
(* the pairs of unrelated directories of which one's string begins with the *)
(* other's ("/a" and "/ab").  Time counts the changes of the file system,   *)
(* so two changes never have the same second.  What becomes of the reports   *)
(* is modelled in EventListenerQueue; here the queue is all that has been    *)
(* reported, in its order, and what the index holds when the listener reads  *)
(* it is any of the values given.                                            *)
EXTENDS Integers, Sequences, FiniteSets

CONSTANTS Dir, File, Par, Top,   \* directories, files, where they lie; Par[d] = Top: in no directory that matters
          LooksLike,             \* pairs <<d, e>>: the string e begins with d, and e is not in d
          Sorted,                \* the paths in the order of their strings
          Starts,                \* what is there and in the configuration when the daemon starts
          Indexes,               \* what the index may hold of the files: the time of each entry, 0: there is none
          Requests,              \* the sets of directories users ask for
          Scarce,                \* directories that can get no watch, others of the user having them all
          NoWatch,
          MaxTime, MaxRequests, MaxInputs   \* bounds: time, requests, and changes, requests and stop together

Path == Dir \cup File

ASSUME FsAssumption ==
    /\ IsFiniteSet(Path) /\ Dir \cap File = {}
    /\ Par \in [Path -> Dir \cup {Top}]
    /\ \A f \in File : Par[f] \in Dir
    /\ LooksLike \subseteq Dir \X Dir
    /\ \A s \in Starts : s.dirs \subseteq Dir /\ s.disk \in [File -> {0, 2}] /\ s.config \subseteq Dir
    /\ Indexes \subseteq [File -> Nat]
    /\ Requests \subseteq SUBSET Dir
    /\ Top \notin Path /\ NoWatch \notin Path
    /\ Sorted \in Seq(Path)
    /\ MaxTime \in Nat \ {0, 1} /\ MaxRequests \in Nat

VARIABLES
    disk, dirs, time,            \* the file system: last change of each file (0: there is none), directories
    kwatch, kqueue,              \* inotify or FAM: live watches, events that were not read
    backend,                     \* which of the two it is
    reindexReq, reindexDirs,     \* m_bReindexReq, m_reindexDirs
    indexedDirs, bootstrapped,   \* m_indexedDirs, m_bBootstrapped
    watches, mEvents,            \* the paths in m_watches; m_events
    pollingDirs, polled,         \* m_pollingDirs; the PollingListener's m_watches
    pc, todo, dirsNow, toWatch, seen, monitored, events,   \* where the thread is, and its locals
    stopping,                    \* the state Stopping
    queue,                       \* all that was handed to the EventListenerQueue
    asked, requests, covered     \* for the properties: last request, their number, the files that are followed

fs     == <<disk, dirs, time>>
kernel == <<kwatch, kqueue>>
req    == <<reindexReq, reindexDirs, asked, requests>>
polls  == <<pollingDirs, polled>>
locals == <<todo, dirsNow, toWatch, seen, monitored>>
vars   == <<fs, kernel, backend, req, indexedDirs, bootstrapped, watches, mEvents, polls, pc, locals,
            events, stopping, queue, covered>>

--------------------------------------------------------------------------
(* Paths and strings *)

\* A path and the directories above it: what lies in every set that has the
\* path and the parent of each of its members.
Closed(S) == \A q \in S : Par[q] \in S \cup {Top}
Up == [p \in Path |-> {d \in Path : \A S \in SUBSET Path : p \in S /\ Closed(S) => d \in S}]
Under(p, d)    == d \in Up[p]
Below(d)       == {p \in Path : Under(p, d)}
BelowAny(D)    == UNION {Below(d) : d \in D}
StartsWith(p, d) == \E e \in Up[p] : e = d \/ <<d, e>> \in LooksLike

P == INSTANCE PollingListener
Q == INSTANCE SequencesExt

\* The order in which std::set walks its paths.
Before(p, q) == \E i, k \in 1..Len(Sorted) : i <= k /\ Sorted[i] = p /\ Sorted[k] = q

There == dirs \cup {f \in File : disk[f] > 0}

\* What a DirLister (of the analyser library) finds under d.
FilesIn(d)   == IF d \in dirs THEN {f \in File : Under(f, d) /\ disk[f] > 0} ELSE {}
SubdirsIn(d) == IF d \in dirs THEN {e \in dirs : Under(e, d) /\ e # d} ELSE {}

\* IndexReader::getChildren(): the entries directly in a directory.
Children(d, index) == {f \in File : Par[f] = d /\ index[f] > 0}

Event(type, p)   == [type |-> type, path |-> p, time |-> time]
EventsOf(type, S) == Q!SetToSeq({Event(type, p) : p \in S})

--------------------------------------------------------------------------
(* Watches *)

\* addWatch() for each of a set of paths: one that is in m_watches counts as
\* watched; the others are handed to the kernel, which refuses what is not there
\* (any more) and may have no watch left.
Granted(S) ==
    LET fresh == (S \cap There) \ watches
    IN  {new \in SUBSET fresh : fresh \ new \subseteq Scarce}

\* addWatches(): the rest is polled.
AddWatches(S) ==
    \E new \in Granted(S) :
        /\ watches' = watches \cup new
        /\ kwatch' = kwatch \cup new
        /\ LET toPool == S \ watches'
           IN  /\ pollingDirs' = pollingDirs \cup toPool
               /\ polled' = P!AddWatches(polled, toPool)

\* An event whose watch descriptor was removed is never found in m_watches
\* again, whatever is watched later: descriptors are not used twice.
Orphan(evs, gone) ==
    [i \in 1..Len(evs) |-> IF evs[i].w \in gone THEN [evs[i] EXCEPT !.w = NoWatch] ELSE evs[i]]

\* Every watch goes whose string begins with the path of a removed directory.
Gone(S) == {p \in watches : \E d \in S : StartsWith(p, d)}

\* A slip: the kernel's watches stay.
DropWatchesInList(S, mEvs) ==
    LET gone == Gone(S)
    IN  /\ watches' = watches \ gone /\ mEvents' = Orphan(mEvs, gone)
        /\ covered' = {f \in covered : Par[f] \notin gone} /\ UNCHANGED kernel

\* Private::dirRemoved() for each of a set of paths, with m_events as mEvs.
DropWatches(S, mEvs) ==
    LET gone == Gone(S)
    IN  /\ watches' = watches \ gone
        /\ kwatch' = kwatch \ gone
        /\ kqueue' = Orphan(kqueue, gone)
        /\ mEvents' = Orphan(mEvs, gone)
        /\ covered' = {f \in covered : Par[f] \notin gone}

\* The entries directly in a removed directory are reported as deleted.
Emptied(S, index) == EventsOf("DELETED", UNION {Children(d, index) : d \in S})

\* The PollingListener's list while the polled ones of a set of removed
\* directories leave it, one after the other.
Leaving(S) ==
    LET list[i \in 0..Len(Sorted)] ==
            IF i = 0 THEN polled
            ELSE IF Sorted[i] \in S \cap pollingDirs THEN P!RmWatch(list[i - 1], Sorted[i])
            ELSE list[i - 1]
    IN  list
AfterRm(S)   == Leaving(S)[Len(Sorted)]
RmCrashes(S) == \E i \in 1..Len(Sorted) :
                    Sorted[i] \in S \cap pollingDirs /\ P!RunsPastEnd(Leaving(S)[i - 1], Sorted[i])

\* dirsRemoved(): polled directories leave the PollingListener, the others m_watches.
DirsRemoved(S) ==
    /\ DropWatches(S \ pollingDirs, mEvents)
    /\ polled' = AfterRm(S)
    /\ UNCHANGED pollingDirs

--------------------------------------------------------------------------
(* The file system and the kernel *)

Inputs == (time - 2) + requests + (IF stopping THEN 1 ELSE 0)
MayAct == Inputs < MaxInputs /\ pc # "crashed"

KernelEvent(type, p, w, dir) == [type |-> type, path |-> p, w |-> w, dir |-> dir]

IfWatched(e) == IF e.w \in kwatch THEN <<e>> ELSE <<>>
Emit(evs) == kqueue' = kqueue \o evs

EnvUnchanged == UNCHANGED <<backend, req, indexedDirs, bootstrapped, watches, mEvents, polls, pc,
                            locals, events, stopping, queue>>

\* A file is written, or created, or deleted.  For the properties it is followed
\* from a change that a watch saw on.
ChangeFile(f) ==
    /\ MayAct /\ time < MaxTime /\ Par[f] \in dirs
    /\ time' = time + 1
    /\ \E v \in {0, time + 1} \ {disk[f]} :
        /\ disk' = [disk EXCEPT ![f] = v]
        /\ LET type == IF v = 0 THEN "DELETE" ELSE IF disk[f] = 0 THEN "CREATE" ELSE "UPDATE"
               self == IF v = 0 THEN "DELETE" ELSE "UPDATE"
           IN  Emit(IfWatched(KernelEvent(type, f, Par[f], FALSE)) \o IfWatched(KernelEvent(self, f, f, FALSE)))
        /\ kwatch' = IF v = 0 THEN kwatch \ {f} ELSE kwatch
        /\ covered' = IF Par[f] \in kwatch THEN covered \cup {f} ELSE covered \ {f}
    /\ UNCHANGED dirs /\ EnvUnchanged

\* A directory is made, or moved here with its files.
Arrive(d) ==
    /\ MayAct /\ time < MaxTime /\ d \notin dirs /\ Par[d] \in dirs \cup {Top}
    /\ time' = time + 1
    /\ dirs' = dirs \cup {d}
    /\ \E full \in BOOLEAN :
        disk' = [f \in File |-> IF full /\ Par[f] = d THEN time + 1 ELSE disk[f]]
    /\ Emit(IfWatched(KernelEvent("CREATE", d, Par[d], TRUE)))
    /\ covered' = covered \ Below(d)
    /\ UNCHANGED kwatch /\ EnvUnchanged

\* A directory is removed, or moved away with all that is in it: its parent's
\* watch tells of a directory, its own (inotify) of a path of unnamed kind.  An
\* event of that sort has no name, and the constructor reads one from the bytes
\* behind it: the path is the directory's, or one that is not there.
Leave(d) ==
    /\ MayAct /\ time < MaxTime /\ d \in dirs
    /\ time' = time + 1
    /\ dirs' = dirs \ Below(d)
    /\ disk' = [f \in File |-> IF Under(f, d) THEN 0 ELSE disk[f]]
    /\ \E self \in {<<>>, IfWatched(KernelEvent("DELETE", d, d, FALSE))} :
        /\ backend = "fam" => self = <<>>
        /\ Emit(IfWatched(KernelEvent("DELETE", d, Par[d], TRUE)) \o self)
    /\ kwatch' = kwatch \ Below(d)
    /\ covered' = covered \ Below(d)
    /\ EnvUnchanged

--------------------------------------------------------------------------
(* The interface                                                            *)

\* A slip: the requests that were not served yet are added to.
SetIndexedDirectoriesAdding(S) ==
    /\ MayAct /\ requests < MaxRequests
    /\ requests' = requests + 1
    /\ reindexReq' = TRUE /\ reindexDirs' = reindexDirs \cup S /\ asked' = S
    /\ UNCHANGED <<fs, kernel, backend, indexedDirs, bootstrapped, watches, mEvents, polls,
                   pc, locals, events, stopping, queue, covered>>
SetIndexedDirectories(S) ==
    /\ MayAct /\ requests < MaxRequests
    /\ requests' = requests + 1
    /\ reindexReq' = TRUE /\ reindexDirs' = S /\ asked' = S
    /\ UNCHANGED <<fs, kernel, backend, indexedDirs, bootstrapped, watches, mEvents, polls,
                   pc, locals, events, stopping, queue, covered>>

Stop == /\ MayAct /\ ~stopping /\ stopping' = TRUE
        /\ UNCHANGED <<fs, kernel, backend, req, indexedDirs, bootstrapped, watches, mEvents, polls,
                       pc, locals, events, queue, covered>>

--------------------------------------------------------------------------
(* The listener's thread *)

\* calculateDiff(): the directories that are in one set only.
Diff(from, other) == from \ other

GetReindexDirs == reindexReq' = FALSE /\ reindexDirs' = {} /\ UNCHANGED <<asked, requests>>

AddEvents(evs) == queue' = queue \o evs

RunEnd ==
    /\ pc = "run" /\ stopping /\ pc' = "end"
    /\ UNCHANGED <<fs, kernel, backend, req, indexedDirs, bootstrapped, watches, mEvents, polls,
                   locals, events, stopping, queue, covered>>

BootBegin ==
    /\ pc = "run" /\ ~stopping /\ ~bootstrapped
    /\ dirsNow' = IF reindexReq THEN reindexDirs ELSE indexedDirs
    /\ IF reindexReq THEN GetReindexDirs ELSE UNCHANGED req
    /\ todo' = dirsNow' /\ toWatch' = dirsNow' /\ seen' = [f \in File |-> 0]
    /\ pc' = "boot"
    /\ UNCHANGED <<fs, kernel, backend, indexedDirs, bootstrapped, watches, mEvents, polls,
                   monitored, events, stopping, queue, covered>>

\* A request cuts the listing short; what it then lists is thrown away, so it is listed here.
BootList ==
    /\ pc = "boot"
    /\ \E d \in todo :
        /\ \A e \in todo : Before(d, e)
        /\ todo' = todo \ {d}
        /\ toWatch' = toWatch \cup SubdirsIn(d)
        /\ seen' = [f \in File |-> IF f \in FilesIn(d) THEN disk[f] ELSE seen[f]]
    /\ UNCHANGED <<fs, kernel, backend, req, indexedDirs, bootstrapped, watches, mEvents, polls,
                   pc, dirsNow, monitored, events, stopping, queue, covered>>

\* The comparison of what was seen with the index, for the directories in which
\* some file was seen.  The events for files that are gone or newer name the
\* DIRECTORY; what is newer than the index is reported as created too.
BootEvents(index) ==
    LET listed  == {Par[f] : f \in {g \in File : seen[g] > 0}}
        indexed == UNION {Children(d, index) : d \in listed}
        lost    == {f \in indexed : seen[f] = 0}
        newer   == {f \in indexed : seen[f] > index[f]}
        same    == {f \in indexed : 0 < seen[f] /\ seen[f] <= index[f]}
    IN  EventsOf("DELETED", {Par[f] : f \in lost}) \o EventsOf("UPDATED", {Par[f] : f \in newer})
        \o EventsOf("CREATED", {f \in File : seen[f] > 0} \ same)

BootEnd ==
    /\ pc = "boot" /\ todo = {} /\ pc' = "run"
    /\ IF reindexReq THEN UNCHANGED <<kwatch, watches, polls, bootstrapped, indexedDirs, queue>>
       ELSE /\ \E index \in Indexes : AddEvents(BootEvents(index))
            /\ AddWatches(toWatch)
            /\ bootstrapped' = TRUE
            /\ indexedDirs' = dirsNow
    /\ toWatch' = {} /\ seen' = [f \in File |-> 0] /\ dirsNow' = {}
    /\ UNCHANGED <<fs, kqueue, backend, req, mEvents, todo, monitored, events, stopping, covered>>

ReindexBegin ==
    /\ pc = "run" /\ ~stopping /\ bootstrapped /\ reindexReq
    /\ GetReindexDirs
    /\ dirsNow' = reindexDirs /\ todo' = Diff(reindexDirs, indexedDirs)
    /\ pc' = "reindex"
    /\ UNCHANGED <<fs, kernel, backend, indexedDirs, bootstrapped, watches, mEvents, polls,
                   toWatch, seen, monitored, events, stopping, queue, covered>>

\* One new directory is listed: its files are reported, its subdirectories watched.
ReindexList ==
    /\ pc = "reindex" /\ ~reindexReq
    /\ \E d \in todo :
        /\ \A e \in todo : Before(d, e)
        /\ todo' = todo \ {d}
        /\ events' = events \o EventsOf("CREATED", FilesIn(d))
        /\ toWatch' = SubdirsIn(d)
        /\ monitored' = monitored \cup SubdirsIn(d)
    /\ pc' = "reindexWatch"
    /\ UNCHANGED <<fs, kernel, backend, req, indexedDirs, bootstrapped, watches, mEvents, polls,
                   dirsNow, seen, stopping, queue, covered>>

ReindexWatch ==
    /\ pc = "reindexWatch" /\ pc' = "reindex"
    /\ AddWatches(toWatch) /\ toWatch' = {}
    /\ UNCHANGED <<fs, kqueue, backend, req, indexedDirs, bootstrapped, mEvents,
                   todo, dirsNow, seen, monitored, events, stopping, queue, covered>>

\* The end of reindex(), with the directories whose watches go: another request
\* undoes what was watched and forgets all events, or the work is handed over.
ReindexEnd(gone, evs, newDirs) ==
    /\ DirsRemoved(gone)
    /\ pc' = IF RmCrashes(gone) THEN "crashed" ELSE "run"
    /\ AddEvents(evs)
    /\ indexedDirs' = newDirs
    /\ events' = <<>> /\ todo' = {} /\ monitored' = {} /\ dirsNow' = {}
    /\ UNCHANGED <<fs, backend, req, bootstrapped, toWatch, seen, stopping>>

ReindexUndo == pc = "reindex" /\ reindexReq /\ ReindexEnd(monitored, <<>>, indexedDirs)

\* A slip: the directories are forgotten and stay watched.
ReindexDoneWatching ==
    /\ pc = "reindex" /\ ~reindexReq /\ todo = {}
    /\ LET deleted == Diff(indexedDirs, dirsNow)
       IN  \E index \in Indexes : ReindexEnd({}, events \o Emptied(deleted \ pollingDirs, index), dirsNow)
ReindexDone ==
    /\ pc = "reindex" /\ ~reindexReq /\ todo = {}
    /\ LET deleted == Diff(indexedDirs, dirsNow)
       IN  \E index \in Indexes :
               ReindexEnd(deleted, events \o Emptied(deleted \ pollingDirs, index), dirsNow)

\* What events that were read before can look like after another call of
\* pendingEvent(): the path, the type and the watch were copied, but the mask, the
\* name and whether the event is to be ignored are read in the buffer of the call
\* that read the event.  It is on the stack: every call clears its head, whether it
\* reads or not, and what it reads is put over it.
Garbled(evs) ==
    {g \in [1..Len(evs) -> UNION {{e, [e EXCEPT !.dir = ~e.dir], [e EXCEPT !.w = NoWatch]} : e \in Q!ToSet(evs)}] :
        \A i \in 1..Len(evs) : g[i].path = evs[i].path /\ g[i].type = evs[i].type}

\* The events left from the last read as another call leaves them.
LeftAs(old) ==
    covered' = covered \ {mEvents[i].path : i \in {j \in 1..Len(mEvents) : old[j] # mEvents[j]}}

\* A slip: what was read last is put before what was left.
ReadInotifyBefore ==
    /\ backend = "inotify"
    /\ kqueue' = <<>>
    /\ \E old \in Garbled(mEvents) : mEvents' = kqueue \o old /\ LeftAs(old)
    /\ pc' = "process" /\ UNCHANGED <<events, queue>>

\* inotify: all that waits is read behind the events left from the last read.
ReadInotify ==
    /\ backend = "inotify"
    /\ kqueue' = <<>>
    /\ \E old \in Garbled(mEvents) : mEvents' = old \o kqueue /\ LeftAs(old)
    /\ pc' = "process" /\ UNCHANGED <<events, queue>>

\* Whether a FAM event is about a directory is asked of the file system, and of
\* nobody when the path is gone.
FamEvents(e) == {[e EXCEPT !.dir = b] : b \in IF e.path \in There THEN {e.path \in Dir} ELSE BOOLEAN}

\* FAM: one event.
ReadFam ==
    /\ backend = "fam"
    /\ kqueue' = Tail(kqueue)
    /\ LET e == Head(kqueue)
       IN  IF e.w \notin watches
           THEN /\ pc' = "run" /\ AddEvents(events) /\ events' = <<>>
                /\ UNCHANGED <<mEvents, covered>>
           ELSE /\ pc' = "process" /\ UNCHANGED <<events, queue>>
                /\ \E event \in FamEvents(e) :
                    /\ mEvents' = <<event>>
                    /\ covered' = IF event.dir = (e.path \in Dir) THEN covered ELSE covered \ {e.path}

\* pendingEvent() with something to read.  "run" is also the wait for a first
\* event in watch(), which a request or stop() does not cut short ...
PendingRead ==
    /\ pc = "watch" \/ (pc = "run" /\ bootstrapped)
    /\ kqueue # <<>>
    /\ ReadInotify \/ ReadFam
    /\ UNCHANGED <<fs, kwatch, backend, req, indexedDirs, bootstrapped, watches, polls, locals,
                   stopping>>

\* ... and when the time is over.  The events that are left go on; with none watch()
\* ends and hands over.
TimeoutWithEvents ==
    /\ mEvents # <<>> /\ pc' = "process"
    /\ \E old \in IF backend = "inotify" THEN Garbled(mEvents) ELSE {mEvents} :
        mEvents' = old /\ LeftAs(old)
    /\ UNCHANGED <<events, queue>>
TimeoutWithNone ==
    /\ mEvents = <<>> /\ pc' = "run"
    /\ AddEvents(events) /\ events' = <<>>
    /\ UNCHANGED <<mEvents, covered>>

\* A slip: watch() waits on while nothing comes.
PendingTimeoutWaits ==
    /\ pc = "watch" /\ kqueue = <<>>
    /\ TimeoutWithEvents
    /\ UNCHANGED <<fs, kernel, backend, req, indexedDirs, bootstrapped, watches, polls, locals, stopping>>
PendingTimeout ==
    /\ pc = "watch" /\ kqueue = <<>>
    /\ TimeoutWithEvents \/ TimeoutWithNone
    /\ UNCHANGED <<fs, kernel, backend, req, indexedDirs, bootstrapped, watches, polls, locals, stopping>>

\* A slip: the watch is not looked up.
IsEventValidAlways(e) == TRUE
IsEventValid(e) == e.w \in watches

\* The event that retrieveEvent() takes out of m_events.
First == Head(mEvents)

Discard ==
    /\ pc = "process" /\ ~IsEventValid(First)
    /\ mEvents' = Tail(mEvents) /\ pc' = "watch"
    /\ UNCHANGED <<fs, kernel, backend, req, indexedDirs, bootstrapped, watches, polls, locals,
                   events, stopping, queue, covered>>

\* UPDATE of anything, CREATE and DELETE of what is no directory.
ProcessPlain ==
    /\ pc = "process" /\ IsEventValid(First) /\ (First.type = "UPDATE" \/ ~First.dir)
    /\ LET type == CASE First.type = "UPDATE" -> "UPDATED" [] First.type = "CREATE" -> "CREATED"
                     [] First.type = "DELETE" -> "DELETED"
       IN  events' = Append(events, Event(type, First.path))
    /\ mEvents' = Tail(mEvents) /\ pc' = "watch"
    /\ UNCHANGED <<fs, kernel, backend, req, indexedDirs, bootstrapped, watches, polls, locals,
                   stopping, queue, covered>>

DirRemoved(d, mEvs) ==
    /\ \E index \in Indexes : events' = events \o Emptied({d}, index)
    /\ DropWatches({d}, mEvs)

ProcessDirDeleted ==
    /\ pc = "process" /\ IsEventValid(First) /\ First.type = "DELETE" /\ First.dir
    /\ DirRemoved(First.path, Tail(mEvents))
    /\ pc' = "watch"
    /\ UNCHANGED <<fs, backend, req, indexedDirs, bootstrapped, polls, locals, stopping, queue>>

\* recursivelyMonitor() lists the new directory ...
ProcessDirCreated ==
    /\ pc = "process" /\ IsEventValid(First) /\ First.type = "CREATE" /\ First.dir
    /\ events' = events \o EventsOf("CREATED", FilesIn(First.path))
    /\ toWatch' = {First.path} \cup SubdirsIn(First.path)
    /\ mEvents' = Tail(mEvents) /\ pc' = "watchDir"
    /\ UNCHANGED <<fs, kernel, backend, req, indexedDirs, bootstrapped, watches, polls,
                   todo, dirsNow, seen, monitored, stopping, queue, covered>>

\* ... and then it is watched.
WatchNewDir ==
    /\ pc = "watchDir" /\ pc' = "watch"
    /\ AddWatches(toWatch) /\ toWatch' = {}
    /\ UNCHANGED <<fs, kqueue, backend, req, indexedDirs, bootstrapped, mEvents,
                   todo, dirsNow, seen, monitored, events, stopping, queue, covered>>

Listener ==
    \/ RunEnd \/ BootBegin \/ BootList \/ BootEnd
    \/ ReindexBegin \/ ReindexList \/ ReindexWatch \/ ReindexUndo \/ ReindexDone
    \/ PendingRead \/ PendingTimeout
    \/ Discard \/ ProcessPlain \/ ProcessDirDeleted
    \/ ProcessDirCreated \/ WatchNewDir

--------------------------------------------------------------------------
Init ==
    /\ time = 2
    /\ \E s \in Starts : /\ dirs = s.dirs /\ disk = s.disk
                         /\ indexedDirs = s.config /\ asked = s.config
    /\ kwatch = {} /\ kqueue = <<>>
    /\ backend \in {"inotify", "fam"}
    /\ reindexReq = FALSE /\ reindexDirs = {} /\ requests = 0
    /\ bootstrapped = FALSE
    /\ watches = {} /\ mEvents = <<>>
    /\ pollingDirs = {} /\ polled = <<>>
    /\ pc = "run" /\ todo = {} /\ dirsNow = {} /\ toWatch = {} /\ monitored = {}
    /\ seen = [f \in File |-> 0] /\ events = <<>>
    /\ stopping = FALSE /\ queue = <<>> /\ covered = {}

Environment ==
    \/ \E f \in File : ChangeFile(f)
    \/ \E d \in Dir : Arrive(d) \/ Leave(d)
    \/ \E S \in Requests : SetIndexedDirectories(S)
    \/ Stop

Next == Environment \/ Listener

\* The listener's thread runs; nobody has to ask for anything or to change a file.
Spec == Init /\ [][Next]_vars /\ WF_vars(Listener)

--------------------------------------------------------------------------
(* Properties *)

KEvents == [type : {"CREATE", "UPDATE", "DELETE"}, path : Path, w : Path \cup {NoWatch}, dir : BOOLEAN]
Events  == [type : {"CREATED", "UPDATED", "DELETED"}, path : Path, time : 0..MaxTime]

\* Types.  What m_watches knows and the kernel does not is a directory that went away.
TypeOK ==
    /\ disk \in [File -> 0..MaxTime] /\ dirs \subseteq Dir
    /\ kwatch \subseteq watches /\ watches \subseteq Path /\ covered \subseteq File
    /\ Q!ToSet(kqueue) \cup Q!ToSet(mEvents) \subseteq KEvents
    /\ Q!ToSet(queue) \cup Q!ToSet(events) \subseteq Events
    /\ UNION {indexedDirs, reindexDirs, todo, dirsNow, monitored} \subseteq Dir
    /\ pollingDirs \subseteq Path /\ Q!ToSet(polled) \subseteq pollingDirs

\* What a report says of a file is so, or is not so.
Right(e, f) ==
    e.path = f /\ IF disk[f] = 0 THEN e.type = "DELETED" ELSE e.type # "DELETED" /\ e.time >= disk[f]
Wrong(e, f) ==
    IF disk[f] = 0 THEN e.path = f /\ e.type # "DELETED" ELSE e.type = "DELETED" /\ Under(f, e.path)

\* Once all events have been read, processed and handed over, the last word on a
\* file that changed while its directory was watched is what the file is: that it
\* was made or written, no earlier than it was, with no deletion of it or of what
\* it is in behind that, or that it is gone.  So it is whatever else was listed,
\* removed, undone, reported or asked for in between, if the watch stands and no
\* event of the file was garbled.
SeenIsReported ==
    kqueue = <<>> /\ mEvents = <<>> /\ events = <<>> =>
        \A f \in covered : \E i \in 1..Len(queue) :
            Right(queue[i], f) /\ \A k \in i + 1..Len(queue) : ~Wrong(queue[k], f)

\* A watch is given up when its directory is gone or is not indexed any more.
OnlyForgottenIsUnwatched ==
    [][\A d \in (watches \ watches') \cap dirs : d \notin BelowAny(indexedDirs')]_vars

\* Between two rounds of the thread there is no watch outside the indexed
\* directories ("Removes also all watches related to removed dir").
NothingElseIsWatched == pc = "run" => watches \subseteq BelowAny(indexedDirs)

\* What dirsRemoved() makes of that.  A directory that could not be watched once
\* stays in m_pollingDirs, and neither it nor what is below it is let go of as
\* other directories are.  Everything else is: reindex() drops the watches of
\* directories that are no more indexed, an interrupted one those it had made.
Known == indexedDirs \cup pollingDirs
OnlyKnownIsWatched == pc = "run" => watches \subseteq BelowAny(Known)

\* The listener reports nothing but deletions of a directory that it does not
\* have to look after when it reports it, whatever it read, listed or was asked
\* for before.
OnlyKnownIsReported ==
    [][\A i \in Len(queue) + 1..Len(queue') :
        queue'[i].type = "DELETED" \/ queue'[i].path \in BelowAny(Known')]_vars

\* The last of the requests becomes what is indexed, whatever the thread was at.
LastRequestWins == reindexReq ~> (indexedDirs = asked \/ stopping \/ pc = "crashed")

\* stop() ends the thread, once the file system is calm for a second.
StopEnds == stopping ~> (pc \in {"end", "crashed"})
===========================================================================
