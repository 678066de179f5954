# Strigidaemon in TLA+

A verification project for the Strigi desktop search daemon: TLA+ modules
translated from the C++ code, TLC configurations that check them on small
instances, and TLAPS proofs of what matters most for every instance. Paths
below are relative to the root of the repository; `daemon/` stands for
`bin/daemon/`.

## The system

The daemon indexes files and answers queries about them. These are its parts,
the state each keeps and how they talk to each other.

| Part | Code | State | Operations | Hard because |
|---|---|---|---|---|
| File system listener | `daemon/eventlistener/{fs,inotify,fam,polling}listener.cpp` | indexed directories, watches, a pending request | `bootstrap`, `reindex`, `watch`, `setIndexedDirectories` | requests arrive while it works; directories change while they are listed; nested directories |
| Event queue | `daemon/eventlistener/eventlistenerqueue.cpp` | three maps path -> event, one mutex | `addEvents` (listener), `run` (own thread), `getEvents` (scheduler) | events of one path are merged, delayed and promoted by age |
| Index scheduler | `daemon/indexscheduler.cpp` | `state`, directories to index | `run`, `startIndexing`, `stopIndexing` | its state is also written by clients and by `stop()` |
| Threads and signals | `daemon/strigithread.cpp`, `daemon/daemon.cpp` | `threads`, `state` and handle of each, `interruptcount` | `start`, `stop`, `stopThreads`, `quit_daemon` | the handler stops and joins threads on top of a main thread that does the same |
| Socket server | `daemon/socketserver.cpp` | listening socket, request, response | the accept loop | runs on the main thread, where the handler runs |
| D-Bus server | `daemon/dbus/dbuscpp/dbushandler.cpp`, `daemon/dbus/dbusserver.cpp` | connection, quit pipe | the select loop | dispatches on its own thread, also while the daemon stops |
| Interface | `daemon/interface.cpp` | none of its own | forwards requests to scheduler, listener and index | called from two threads |
| Job queue | `daemon/queue/jobqueue.cpp`, `job.h` | list of jobs, `keeprunning`, a condition variable | `addJob`, `getNextJob`, `stop` | lost wake-ups, double deletes, stop against sleepers |
| Xesam searches | `daemon/xesam/*.cpp` | sessions, searches, reference counts, held messages | eleven D-Bus calls, three kinds of jobs | calls and jobs run in different threads; delayed replies |
| Combined index | `bin/combinedindex` | one writer, readers per directory | queries, `addReadonlyIndex` | readers are shared by threads |
| Client library | `lib/*.cpp` | socket status, request and response positions | `sendRequest`, `statusChanged`, `poll` | partial reads and writes |
| Configuration, lock and data directory | `daemon/daemon.cpp`, `daemonconfigurator.cpp`, `xsd/` | daemon.conf, lock, socket and index of a user | start: load, save, lock, open, listen; end: save, close, unlock | several daemons, killed at any point; a save is truncate and write |
| strigicmd, logging, generated D-Bus code | `bin/strigicmd`, `strigilogging.h`, `daemon/dbus/` | none | | |

Files change -> listener `addEvents` -> event queue `getEvents` -> scheduler
-> index. Clients -> socket server or D-Bus -> interface -> scheduler,
listener, index. Xesam clients -> D-Bus -> search -> job queue -> index ->
reply. A signal, or `stopDaemon()`, -> `quit_daemon` -> `stopThreads` -> every
thread.

What makes each part correct:

- event queue and scheduler: whatever is merged, delayed, promoted, handed over and
  read, the entry of a file ends up telling what the file is; nothing waits for ever;
  the order of events is kept;
- job queue: every accepted job runs once or is dropped by `stop()`; no wake-up
  is lost; `stop()` returns;
- life cycle: every thread has ended before what it uses is deleted; a signal
  brings the daemon down; the status tells the truth;
- Xesam: objects live exactly as long as somebody holds them; every call is
  answered once; the hits a client gets are a gapless sequence;
- listener: the last request for directories wins; what is watched and reported lies
  in the directories it looks after; of a file whose watch saw its changes, the last
  word that is handed over is what the file is;
- client library and server: a response is whole and belongs to the request that
  was sent last; the daemon acts on whole requests; nobody closes what is not his;
- combined index: an index lives exactly as long as somebody points to it, and an
  answer covers the indexes that were there;
- daemons of one user: the index has one user, settings survive, a dead daemon
  keeps nobody from starting.

## The modules

### EventListenerQueue

The queue with the scheduler behind it. One state for the three maps, each a
function from paths to a slot (an event or none). `addEvents()` keeps the mutex over a
whole vector of events, so it is `BeginAdd`, any number of `AddEvent`, `EndAdd`;
`RunPass` and `GetEvents`, which only try the mutex, are whole steps that need it
free. `MergedType` is the nested switch of `updateEventType()`, which changes the type of
an event and leaves its time, `Promotable` and `Promote` the first half of `run()`,
`PurgeProcessedEvents` the second. `GetEvents` is the hand-over together with the first half of
`processListenerEvents()`: the sorting into what to delete and what to read, with the
comparison of an UPDATED event's time and the mtime of the entry (`Ignores`), and the
deletion; `IndexFile` then reads one file after the other, as it is by then.

There is one clock in seconds, `now`, for `time()`, the times of events and the mtimes
of files and entries. Files change (`ChangeFile`) and are reported up to the second `Calm`; the
clock goes on to `MaxTime`, past both deltas. The deltas, 60 and 120 in the
code, are 0 and 1, or 1 and 2: only whether a difference exceeds them matters, and the
values keep "not old enough", "waited but not forgotten" and "forgotten" apart. A
listener creates an event some time before it adds it, but not before the one it created
last: one thread makes them. Reports are of any kind in any order, missing and doubled ones
included, which is what the code's "Maybe we have lost some filesystem event" is about;
`missed` remembers the paths of which a report did not fit the one before
(`Consistent`), and `unreported` the changes that no report has told of.

| Run | Checks |
|---|---|
| `queue` | `NetEffect`, `PresentIsCurrent`, `CreatedIsNew`, `InOrder`, `Debounced`; liveness `Drains` |
| `queue_loss` | *violated*: `NoReportLost` |
| `queue_ignored` | *violated*: `UpdateIsRead` |

`NetEffect` says that the entry of a path is right, or will be once what is queued
about it is handed over and read. It lets three kinds of paths out, each for a reason it
names:

- `leaked`: `run()` lost an event of it. `map::insert()` leaves an entry that is there
  (`eventlistenerqueue.cpp:96`), and the waiting event is erased anyway. `NoReportLost`,
  without this exemption, is violated.
- `ignored`: an UPDATED event of it was handed over whose time is not later than the mtime of
  the entry, and the entry is wrong. That is so for two changes within one second, which seconds cannot
  tell apart, but also for an event that others were merged into: it carries the time of the first.
  `UpdateIsRead`, which speaks of files that are newer than their entry by a second at least,
  is violated.
- `missed`, in `NetEffect` only: `PresentIsCurrent` says that a file that is there needs no
  consistent reports.

A path stays let out until it is reported again (`ignored`), or for good (`leaked`, `missed`).
The run has one path: each path has its own key in the maps and its own entry, and
the scheduler may take as long as it likes with others' files, since `IndexFile` and `GetEvents` need
not happen. Two paths or more are for the proofs.

Fairness, for `Drains` only: the queue's thread and the scheduler call every few
seconds, so each finds the mutex free at last if it is free again and again
(strong fairness on `RunPass` and `GetEvents`), `addEvents()` ends, files are read, time passes.
`Drains` is about the time after the last report; `addEvents()` goes on taking the mutex even then.

### JobPool and JobQueue

`JobPool` is what clients may rely on: a job is free, queued, or with one thread;
it is dropped only while the queue stops; a queue that is gone has no jobs.
`JobQueue` is the code; `PlaceOf` and `LifeOf` are its place and life as the pool
sees them. There is one action per critical section, with the gaps between them visible - a job that has left the list and is not yet `JobThread::job`, a
thread between `keeprunning` and the wait. A job is the *address* of its object,
because `addJob()` orders the list by comparing pointers; an address is free
again when its job was deleted. `pthread_cond_wait` may return without a
signal (`SpuriousWakeup`). `stop()` is split where other threads can run:
`StopBegin`, `StopThread(t)` for each thread, `DropJobs` (broadcast and delete,
one section), `Join`.

| Run | Checks |
|---|---|
| `jobqueue` | `OneOwner`, `NoLostWakeup`, `NobodySleepsAtJoin`, the refinement `ImplementsPool`, liveness `Stops` and `Served` |

Two threads and three addresses: one thread can steal the job another was woken
for, a list of three exercises insertion in the middle, and a second thread can
sleep while the first one runs. The daemon itself has one thread. The loop that
tells the threads and the joins are modelled in any order, which covers the
order of the list. Fairness: the operating system runs every thread, jobs end,
and a `stop()` that began goes on. Nobody has to add a job or to stop.

### Daemon

From the moment `main()` listens on its socket to its end. `pc` is where the
scheduler, the D-Bus thread and the other threads are; the scheduler's steps are
the pieces of `run()` from one `getState()` or `setState()` to the next, which is
where its state can change under it. `server` is where the main thread is.
`stopThreads()` is a *frame* (which thread, which line of `stop()`); `inner` is
the one of the signal handler and `outer` the one of `main()`, so that a handler
that interrupts `main()` in the middle of a join is two frames on top of each
other. Interface calls come from the socket (main thread) and from D-Bus (its
thread). The main thread can be interrupted by a signal while it has a lock, so three critical
sections of it are places of its own (`LockPlace`): the scheduler's lock, between `TakeLock` and
`Serve`, the listener's `m_reindexLock`, which `setIndexedDirectories()` takes and the
listener's thread asks for in every round (`fslistener.cpp:214` and 608), and the index manager's,
which every query takes. `Takers` are the threads that need the lock the main thread has, and
stand still as long as it does. The other critical sections are
single steps. `owed` remembers that `startIndexing()` was called and that no
pass over the directories has answered it.

Assumptions: the kernel delivers process signals to the main thread (it is the
default choice when the signal is not blocked there); SIGINT, SIGQUIT and SIGTERM
interrupt each other's handlers, and after the third the process exits, which is
the bound of `interrupts`; the bus is connected; no PollingListener is started
(it would be pushed to `threads` by the listener's thread).

| Run | Checks |
|---|---|
| `daemon` | `NoThreadAbandoned`, `UsersGoneFirst`, `StatusIsTrue`; liveness `StopReturns`, `MainReturns`; all four threads |
| `daemon_hang` | *violated*: `SignalStopsAllThreads`, without D-Bus |

The number of threads is the real one, so there is no bound but that of the
signals. `StopReturns` says that `stopThreads()` in the handler ends unless one of
two things happened: the scheduler's `Stopping` was overwritten (`Overwritten`, by its own
`setState()` or for a client), or the handler interrupted the main thread while it had a lock
that the thread it joins takes (`LockedOut`). Nothing in the code prevents either. `daemon_hang` shows that the first needs no client at all.
Fairness: threads run; a client or a user never has to do anything. The system
may really stop, so deadlock is not checked.

### Xesam

Sessions, searches and jobs as counted objects. `sessionRefs` and `searchRefs` are
`XesamClass::n` at the end of each call or job; the handles that come and go
inside one call cancel out. The job queue appears as `INSTANCE JobPool`, that is,
as the specification that `JobQueue` was shown to implement; `stop()` may come at any time. Calls that are answered
later (`GetHitCount`, `GetHits`, `GetHitData`) are `Msg`; `window` remembers which
hits a call asked for. A count is unknown or counted, since only `hitcount == -1`
matters; names are new (they come from `random()`).

| Run | Checks |
|---|---|
| `xesam` | `RefsExact`, `CountIsComing`, `OneReply`, `HitsTile`; liveness `EveryCallAnswered` |

One session with two searches, two calls and two jobs in one pool thread, as in
the daemon: enough for a close between the start of a job and its end, for two
calls waiting for one count, and for jobs that are dropped by `stop()`. Sessions
meet only in the job queue. Fairness: pool threads work on and queries return.

### PollingListener and FsListener

`FsListener` is the thread that `FsListener::run()` is, over both backends
(`backend` is inotify or FAM), between a file system that changes under it and the
event queue: `queue` is everything it handed over, in order, and what becomes of that is
the matter of `EventListenerQueue`. Where the code asks the index what it has, it gets one of
`Indexes`, whatever was handed over. `bootstrap()` is cut into listing, comparing
and watching (`BootBegin`, `BootList`, `BootEvents`, `BootEnd`), `reindex()` into
listing, watching and its two ends (`ReindexUndo` when another request came,
`ReindexDone`), and `watch()` into reading the kernel's events (`ReadInotify`,
`ReadFam`), giving one up or processing it, so that a change, a request or a stop can
come between any two. `watches` is `m_watches`, `kwatch` what the kernel still
watches, `mEvents` the events that were read and wait. The buffer that inotify events are read
into is on the stack of `pendingEvent()`, which clears its head at every call, whether it then reads or
times out (`inotifylistener.cpp:199`). So an event that waits while another call is made may be
overwritten: `Garbled` is a choice, made in `ReadInotify` and in `TimeoutWithEvents`. The constructor of a FAM event leaves its kind uninitialised when the
path is gone: `FamEvents` is a choice as well. Directories that can get no watch
(`Scarce`) are polled; `PollingListener` has the list of the polled directories as operators, with the
prefix tests and the erasing loops of the code; running past the end of the
list ends in `crashed`. Its thread, which lets the analyser library update the index,
is not modelled. A path is a name, `Par` is the tree, and `LooksLike` says which paths
begin with the string of an unrelated one ("/a" and "/ab").

| Run | Checks |
|---|---|
| `fslistener` | `SeenIsReported`, `OnlyKnownIsWatched`, `OnlyKnownIsReported`; liveness `LastRequestWins`, `StopEnds` |
| `fslistener_unwatch` | *violated*: `OnlyForgottenIsUnwatched` |

Three directories - one in another, and one whose name begins with another's - are the
least that have both a nested request and a prefix; of the three files two share a
directory, so that the one can change while the other is listed. The outer directory
cannot be watched and is polled; `fslistener_unwatch` has two that cannot. Two
requests, so that one can interrupt the other; three inputs in all (changes,
requests, a stop), which is two changes of the file system around a request; two states to start from, one with a
directory and a file that vanished while no daemon ran; two answers of the index, one that lacks a file and
has an older one, and one that has a file too many. `SeenIsReported` speaks of the files in `covered`: their
directory was watched when they last changed, the watch has stood since, and no event of theirs was
overwritten in the buffer. For them the last word handed over is what the file is:
whatever was listed, undone or garbled in between comes before it or does not contradict it. Others
are seen by nobody until the next start (a file made between listing and watching; the files
of a directory that `reindex()` adds, which watches the directories below it). Fairness: the
listener's thread runs. `LastRequestWins` and `StopEnds` hold because the inputs
are bounded, that is, for a file system that is calm in the end: `watch()` goes on
as long as events are pending and looks at neither the request nor the stop.

`Known` is what the listener has to look after: the indexed directories and those that
could not be watched once. `m_pollingDirs` is only ever added to, and
`dirsRemoved()` lets go of a directory in it by asking the polling listener alone
(`fslistener.cpp:595`), so the watches of what is below such a directory
stay. `OnlyKnownIsWatched` and `OnlyKnownIsReported` say that nothing else
stays. Both were stated with the indexed directories alone until the induction for their
proof did not close; larger instances then had a counterexample
(`NothingElseIsWatched`, see the findings).

Left out: the polling thread, the filters of `isEventInteresting()`, the overflow of the kernel's queue,
and links between directories.

### Socket

The server's loop (`accept`, `readRequest`, `handleRequest`, `sendResponse`), the
synchronous `SocketClient` and the `AsyncSocketClient`s of one process. A connection is two
queues of lines with both ends open or closed; a request is sent line by line, and the end of
a client before the empty line ends the request all the same. Descriptors are
numbers in a table of the process that has the asynchronous clients: `close()` leaves the number in
`AsyncSocket::socket`, and a socket that was never opened has any number
(`Garbage`). A hit is six lines and its properties, recognised as the code does by counting
lines and by a ':' before a '/' (`ParseHits`).

| Run | Checks |
|---|---|
| `socket` | `AnswerArrives`, `ActsOnWhole`, `DescriptorsOwned`; liveness `EveryCallReturns` |

One client that waits and two that share two descriptors, and two connections in all, so
that a number is used again after it was closed; a query with two hits and a request that
sets two directories. `stray` remembers that a client closed another's
descriptor: what is checked holds until the first such `close()`. `cut` marks a request whose client left, or gave
it up, before it had sent all of it, and only that one is let out of `ActsOnWhole`: the end of a
connection ends a request, and the protocol has no way to tell. A client that a signal in `recv()`
leaves without an answer is let out of `EveryCallReturns`, and a hit whose lines cannot be told from the
next one's (no property in the last one, an URI with an early ':') out of `AnswerArrives`. Fairness: the server goes on while it can, and each
client goes on with the call it began; nobody has to call. Left out: the calls that
`SocketClient` does not implement, and signals inside `send()`.

### CombinedIndex

Threads that ask the combined index, and threads that add and remove indexes. A reader
copies the map of counted pointers under the manager's lock and asks without it.
`TSSPtr` is at its own grain: finding the object and raising its count are two
steps (`See`, `Count`), and so are lowering the count and deleting (`Deref`,
`Delete`). An address is used again once its index was deleted.

| Run | Checks |
|---|---|
| `combinedindex` | `RefsExact`, `AnswerCovers` |

Two threads, two directories and three addresses: one thread removes and replaces an index in
every step of the other's copy. All three sets are interchangeable (symmetry; no liveness is
checked). Left out: the loading of backends and the one index that is written, which lives
as long as the manager. In the daemon as it is, indexes are only added before
threads start (`daemon.cpp:278`); the run checks the class for callers that do more.

### Instances

The daemons of one user from the first line of `main()` to the last, and the
files they share: the data directory, daemon.conf, the lock, the socket and
the index. `main()` reads the configuration *and writes it back* before it asks for
the lock, so a daemon that will be refused has written the file already. A save is
two steps, `Truncate` and `WriteBack` or `Save` (`ofstream` truncates in
`open()`; settings fit its buffer and are written in `close()`). `Read`
is what the parser makes of a file: an empty one gives the defaults. Paths and filtering rules are
written between quotes as they are and read back by libxml2: one with a quote, a `<` or a bare `&`
(`Illegible`) ends what is read, and with a path all rules are lost, for they come
behind; one with an entity reference comes back as something else (`ReadBack`). `Distorted`
are the settings that do not survive this. Clients change `live`, the settings of the scheduler; they reach the file when
the daemon ends. `Killed` is a third signal, or any other death, at every
step: the kernel releases the lock and closes the socket, the files stay.

`kept`, `lost` and `stale` are history: what the last daemon to end saved, whether the
file no longer says so (a save that is half done, or made by a daemon that had read older
settings, or of `Distorted` ones), and which daemons have read something else. `SettingsKept` says
that they are the only ways to lose settings; so a daemon started while another
serves, refused or not, does not harm them, and a crash harms only the changes
since the start unless it comes between the two steps of a save.

| Run | Checks |
|---|---|
| `instances` | `OneUser`, `SettingsKept`; liveness `OneComesUp` |

Two daemons, each of which starts any number of times, and two crashes; a default directory and
rule, one of each to add, one of each that breaks the XML, and a rule that comes back as another. Any number of daemons
is for the proof. Fairness: the main thread of a daemon goes on by itself;
nobody has to start, ask, stop or kill one. One directory stands for the three that
`initializeDir()` makes. Left out: the polling interval, read-only repositories,
and files longer than a stream's buffer.

## What is proved

`EventListenerQueue_proofs` proves, for every set of paths, all deltas, any reports and any
length of time (`DeltaAssumption`, `ClockAssumption`: the clock goes on until what was reported
last has waited):

| Theorem | Says |
|---|---|
| `TypeCorrect` | `[]TypeOK` |
| `EventsInOrder` | `[]InOrder` |
| `EventsDebounced` | `[]Debounced` |
| `PresentStaysCurrent` | `[]PresentIsCurrent` |
| `NetEffectKept` | `[]NetEffect` |
| `CreatedOnlyWhenNew` | `[]CreatedIsNew` |

`InOrder` needs that no event in a map was created after the last one the listener
made (`OrderInv`), or the next report could be older than what is queued.
`Debounced` needs that a path that is in processed
or in waiting is never added to toProcess by a report. `PresentIsCurrent` needs what the mtime
test may rely on (`WillRead`): an event that ends with the file there is never a DELETED one, and an
entry that is not queued and not being read is right (`Settled`). `NetEffect` and
`CreatedIsNew` need each other (`NetInv`): that a CREATED event only stands before a path
without an entry is what makes "CREATED, DELETED: remove" right (`New`), and that the
outcome of what is queued is what was reported (`Told`) is what makes the next CREATED
new.

`JobQueue_proofs` proves, for any finite set of threads, any set of addresses and
any priorities (`QueueAssumption`; an address is not 0, and the names of threads
are not those of places):

| Theorem | Says |
|---|---|
| `TypeCorrect` | `[]TypeOK` |
| `EveryJobHasOneOwner` | `[]OneOwner` |
| `NoWakeupIsLost` | `[]NoLostWakeup` |
| `NobodySleeps` | `[]NobodySleepsAtJoin` |
| `QueueImplementsPool` | `Spec => Pool!PoolSpec` |

`OneOwner` needs `Carrying`, that a thread has a job exactly between
`getNextJob()` and the end of its loop; otherwise taking a job could drop another.
`NoLostWakeup` is inductive with the types: whoever takes a signalled thread's
job also makes the list shorter. `NobodySleepsAtJoin` needs that `keeprunning`
ends when `stop()` begins. The refinement is `OneOwner` again (it makes the place
of a job a function, `Located`) with `EndInv`: after the broadcast the list
is empty, and after the joins every thread has ended. The lemmas on the list
(`InsertPositionExists`, `WithJobList`, `TailList`) say that `addJob()` finds a
place for a job, adds it once and keeps the others, and what taking the first one
leaves.

`Daemon_proofs` proves, for every vector of threads that has a scheduler
(`ThreadsAssumption`):

| Theorem | Says |
|---|---|
| `TypeCorrect` | `[]TypeOK` |
| `NobodyAbandoned` | `[]NoThreadAbandoned` |
| `UsersGoBeforeParts` | `[]UsersGoneFirst` |
| `StatusTrue` | `[]StatusIsTrue` |

The first two safety theorems are one induction (`StopInv`): `main()` passes
a thread whose handle is gone, which is right because a handle that the handler
took away belongs to a thread that has ended or that `main()` itself is joining;
hence `OuterInv`, all threads that `main()` has passed have ended.

`CombinedIndex_proofs` proves, for any finite sets of threads and directories and
any set of addresses (`Distinct`, `Finite`):

| Theorem | Says |
|---|---|
| `PointersExact` | `[]RefsExact` |
| `AnswersCover` | `[]AnswerCovers` |

The induction needs that a copy is made under the manager's lock (`Copying`): the
object a thread has looked at stays in the map until it is counted, so a count
never rises from zero; and that a count that became zero has one thread that deletes
(`Living`). `Counted` is carried over every step by lemmas on the cardinality of
`Refs` when one slot is filled or cleared.

An answer covers what was there all the time and nothing that never was, because
of three facts about the call that asks (`AInv`, on top of the first induction): before the copy the
map has what the answer must cover (`BeforeCopy`); during the copy, which has the lock, what is copied is
what the map has (`CopiedExact`); and after it, what was asked together with what is left to
ask covers it (`Summing`).

`Instances_proofs` proves, for any set of daemons, directories, requests and any
number of crashes (`SettingsAssumption`):

| Theorem | Says |
|---|---|
| `OneUserAlways` | `[]OneUser` |
| `SettingsKeptAlways` | `[]SettingsKept` |

Lock, index and socket each determine, and are determined by, where their daemon is
(`LockInv`, `UsersInv`, `SocketInv`). The settings need these too: a daemon
between the lock and its index has what was kept because no other can save in
the meantime (`KeptInv`), and what is saved at the end is what the scheduler had
because `Settle` takes over both directories and filters (`WithBoth`).

`Xesam_proofs` proves, for any sessions, calls and threads, finite sets of searches and
jobs, and any number of hits (`XesamAssumption`: `None`, and the places of jobs that are not threads,
are not among their names):

| Theorem | Says |
|---|---|
| `TypeCorrect` | `[]TypeOK`, so that no count falls below zero |
| `RefsAlwaysExact` | `[]RefsExact` |
| `CountsAreComing` | `[]CountIsComing` |
| `OneReplyAlways` | `[]OneReply` |
| `HitsAlwaysTile` | `[]HitsTile` |

`RInv` is about objects. A count falls in steps that know nothing of the other holders, so
it says whose each reference is: a search has two while it is listed and one for each job about it
(`SearchCounted`), a session has one while it is in the map and one for each search that lives
(`SessionCounted`), and jobs have bodies exactly while they are in the queue or with a thread
(`Bodies`). The counts are types only after that is known, which is why `Typed` has integers.
The other theorems are about calls. A call that waits for a count is held by its
search, one that waits for its hits by a job, none by two (`MInv`); a search that
was started and has no count has the job that counts in the queue (`CInv`). The
windows of hits tile because a window is cut when the count is known, at the end of the
one before, in one step (`WInv`).

`FsListener_proofs` proves, for any tree of directories, any names that look alike, any
shortage of watches, any requests and any run of the file system (`FsAssumption`: the tree is finite, a
file is in a directory, and the daemon starts at time 2 with no file newer than that):

| Theorem | Says |
|---|---|
| `OnlyKnownWatched` | `[]OnlyKnownIsWatched` |
| `OnlyKnownReported` | `OnlyKnownIsReported`, an action property |
| `SeenAlwaysReported` | `[]SeenIsReported` |
| `TypeCorrect` | `[]TypeOK` |

The first two follow from `FInv`, where every watch has a reason (`Reasons`): a known directory or the
`reindex()` that is under way, and what that collects is below what was asked for
(`Reindexing`), so that its end makes it known and its undoing drops it. Events of the
first listing (`Booting`) and of `watch()` (`Watching`) are below what is known when they are
collected and still when they are sent. An event that waits may have been
overwritten (`Garbled`), and its path is then none of the watch's; the lemmas on
`Under`, `BelowAny` and `IfWatched` say why what it leads to is below a watch all the same.

The third needs an invariant over the whole way of an event (`PInv`): the kernel's queue, `m_events`, what
is collected, what was handed over. Of a file that is followed an event on this way tells what it is, and
none behind it denies that (`Says`, `Denies`, for one event; `LastSays` and `Harmless` for a sequence; `Way`
for the four of them in order). What `reindex()` collects may be forgotten, for another request makes
it start over, so the way must do without it as well (`Good`). `NoWorse` compares two
sequences in these terms: what the thread does to them - dropping an event without a live watch
(`StraySaysNothing`), overwriting others' (`GarbledNoWorse`), orphaning them with a removed watch
(`OrphanNoWorse`), asking the file system what an event is about (`FamNoWorse`), putting what an event
leads to in its place (`ProcessFollows`) - leaves them no worse, and handing over moves the seam only
(`HandedOver`). FAM's events come one at a time (`OneByOne`):
`ReadFam` replaces `m_events`, so one that waited there would be lost.

`TypeOK` takes both invariants and two facts they do without: no event is dated after the last change
(`Dated`), and the polled list is a list of directories that are polled (`Polls`). The second is about
loops: `addWatches()` and `dirsRemoved()` walk a set and change the list at every path
(`AddWatchesIs`, `AfterRmIs`), and `rmWatch()` walks the list (`RmWatchIs`).

`Socket_proofs` proves, for any clients, calls, lists of hits, connections, descriptors and sizes of
the buffer (`SocketAssumption`: a directory has a name, or the empty line would end the request,
and so has a hit, for the server writes " " where there is none):

| Theorem | Says |
|---|---|
| `DescriptorsAlwaysOwned` | `[]DescriptorsOwned` |
| `AlwaysActsOnWhole` | `[]ActsOnWhole` |
| `AnswersAlwaysArrive` | `[]AnswerArrives` |
| `HitsRoundTrip` | `ParseHits(QueryLines(hs)) = hs`, for lists of hits of any length with any number of properties, when `Plain(hs)` |

All but the last are about runs in which no client closed another's descriptor, and so is the invariant (`SInv`):
after the first stray `close()` nothing is known. Until then a descriptor belongs to one client that knows its
number (`AsyncEnds`, `Descriptors`), or to a connection the daemon has left, and the server
has its end of the connections that wait (`ServerEnds`). That the daemon acts on
whole requests is about what a connection has when the server turns to it: nothing, or all of what its
client sent, unless the client went away in between (`Requesting`); hence what the server
handles is the call, up to its first empty line (`Handling`).

That answers arrive needs `Delivery` on top of it, which says what is on its way to a client that
waits: nothing, until the server responds (`Nothing`); while it sends, what the client has read, what is there to
read and what is yet to be sent make the answer and its end (`Coming`); and all of it when the
server is done (`There`). `Rest` and `All` say this of sequences, and
the lemmas under them what sending a part (`PartComes`), the last part (`RestComes`) and reading
(`MoreIsRead`, `AllRead`, `AllSplit`) do to it; the one empty line in it is its last
(`RestLacks`), which is why neither client stops before the end. What a client gets is then
turned into hits by `getHits()` and `handleQueryResponse()`, and `HitsRoundTrip` says which.

`HitsRoundTrip` and the lemmas on `Before`, `After` and `Split` are inductions over the length of a sequence,
and so are those on the loops of the `PollingListener`.
The library's theorem on induction takes an operator, which no prover here can
instantiate; the modules use its least-number form, on sets (`LeastNat`, from which `InductUp`,
`InductDown`): the set of counterexamples has a least element, and there is none. Likewise a recursive
function is what its definition says because approximations of every length exist
(`Recursion`, `RecursionDown`).

Nothing is assumed but these conditions on the constants, which TLC evaluates in
every run.

What stays with TLC: liveness (`Drains`, `Stops`, `Served`, `StopReturns`,
`MainReturns`, `EveryCallAnswered`, `LastRequestWins`, `StopEnds`,
`EveryCallReturns`, `OneComesUp`), which needs ENABLED. Every invariant and action property
of the passing runs is a theorem.

## Findings

| Run | Code | Against |
|---|---|---|
| `queue_ignored` | `indexscheduler.cpp:139` ignores an UPDATED event that carries the old time of the one it was merged into | the comment at `eventlistenerqueue.cpp:371` |
| `queue_loss` | `eventlistenerqueue.cpp:96` loses a waiting event | the comment at line 83 |
| `daemon_hang` | `indexscheduler.cpp:88` overwrites Stopping | `interface.cpp:96` |
| `fslistener_unwatch` | `inotifylistener.cpp:447` drops the watches of directories that stay indexed | the comment at line 443 |

Four more disagreements are stated in the modules and have no run of
their own; put the name in the cfg of the module's run (the last: of
`fslistener_unwatch`) to see each fail:

| Definition | Code | Against |
|---|---|---|
| `JobQueue.ByPriority` | `jobqueue.cpp:174` compares addresses | `job.h:44` |
| `Daemon.IdleMeansIndexed` | `indexscheduler.cpp:88` and 77 overwrite a request | `tests/daemon/dbus/daemondbustest.cpp:119-124` |
| `Xesam.ClosedWithSession` | `xesamlivesearch.cpp:85` keeps the searches | `xesamlivesearch.h:66` and 116 |
| `FsListener.NothingElseIsWatched` | `fslistener.cpp:595` keeps the watches below a directory that could not be watched | `fslistener.h:100` |

Seen while modelling, and not a property of a run: `reindex()` never watches the
directories it adds, only those below them (`fslistener.cpp:391`); `bootstrap()`
reports vanished and changed files under the name of their directory
(`fslistener.cpp:324`); `query()` of the combined index keeps the hits of the last
index only (`combinedindexmanager.cpp:199`) and `fieldNames()` copies into an empty vector
(line 298); the job that fetches hits reads `hitFields` without a lock
(`xesamsearch.cpp:88`) and lets exceptions end the process (line 91); a change
in the second of the entry's mtime is ignored (`indexscheduler.cpp:139`); a poll writes the index behind the
queue's back (`pollinglistener.cpp:118`); `stopIndexing()` sets a flag that nothing resets
(`indexscheduler.h:84`).

## Not modelled, and what is left

- **Pipeline**: listener, event queue, scheduler and index in one module, with
  contents and mtimes, and an abstract "index follows the disk" that it should
  implement. `EventListenerQueue` has the queue with the scheduler and the entries,
  `FsListener` all that is handed over to it; together they exceed what TLC
  can enumerate at bounds where something happens.
- The full run of `IndexScheduler::index()` over the file system, and the analyser
  and index plugins, which are not in the repository.
- D-Bus marshalling and the generated interfaces, strigicmd and logging:
  sequential conversions or output, with no state to interleave.
  `configupdater.cpp` is not built.

## Running

`tlc -config <run>.cfg <MC module>.tla` with the pairs listed in `PROJECT.json`;
each takes from seconds to about three minutes. `tlapm <module>_proofs.tla` for the proofs.
Operators named as slips in the modules are mutated forms of a definition, with
which each property is seen to fail.
