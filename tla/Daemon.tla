--------------------------------- MODULE Daemon ---------------------------------
(***************************************************************************)
(* The life of the daemon from the moment main() listens on its socket:    *)
(* requests, indexing, signals, and the way down                           *)
(* (bin/daemon/strigithread.cpp, indexscheduler.cpp, daemon.cpp,           *)
(* socketserver.cpp, dbus/dbuscpp/dbushandler.cpp).                        *)
(*                                                                         *)
(* The signal handler quit_daemon() runs on the main thread, on top of     *)
(* whatever that thread was doing: the kernel hands a signal of the        *)
(* process to the main thread unless it is blocked there.  A signal stops  *)
(* no system call for good but accept() (no SA_RESTART).                   *)
(***************************************************************************)
EXTENDS Naturals, Sequences

CONSTANT threads   \* the vector `threads', in the order they were started

ASSUME ThreadsAssumption ==
    /\ threads \in Seq({"queue", "scheduler", "listener", "dbus"})
    /\ threads # <<>>
    /\ \A i, k \in DOMAIN threads : threads[i] = threads[k] => i = k
    /\ \E i \in DOMAIN threads : threads[i] = "scheduler"

VARIABLES
    state,        \* StrigiThread::state
    pc,           \* where each thread is
    handle,       \* StrigiThread::thread # 0
    server,       \* where the main thread is
    inner,        \* where stopThreads() is in the signal handler
    outer,        \* where stopThreads() is in main()
    interrupts,   \* interruptcount
    quit,         \* the dbus thread's quitpipe is closed
    owed          \* startIndexing() was called and nothing has answered it

mainVars == <<server, inner, outer, interrupts>>
vars == <<state, pc, handle, mainVars, quit, owed>>

-----------------------------------------------------------------------------

Thread == {threads[i] : i \in DOMAIN threads}
State == {"Idling", "Working", "Stopping"}
Request == {"startIndexing", "stopIndexing", "getStatus"}

SchedulerPlace == {"test", "look", "index", "indexed", "finish",
                   "lookIdle", "events", "begin", "process", "end"}
DBusPlace == {"select", "dispatch", "last"}
Place(t) == {"exited"} \cup (CASE t = "scheduler" -> SchedulerPlace
                               [] t = "dbus" -> DBusPlace
                               [] OTHER -> {"loop"})

\* Where the main thread has a lock that other threads take: the scheduler's
\* (its state), the listener's m_reindexLock, the index manager's.
LockPlace == {"locked", "reindexLocked", "indexLocked"}
ServerPlace == LockPlace \cup {"accept", "request", "reply", "stopThreads",
                               "draining", "saving", "closing", "exited", "killed"}

\* How far a call of stopThreads() is: at the start of stop() of the i-th
\* thread, before `if (thread)', or in the join.
Frame == [i : DOMAIN threads, phase : {"tell", "check", "join"}]
NoFrame == [i |-> 0, phase |-> "none"]
FirstFrame == [i |-> 1, phase |-> "tell"]
\* A slip: the iterator runs one too far.
NextFrameTooFar(frame) == [i |-> frame.i + 1, phase |-> "tell"]

NextFrame(frame) ==
    IF frame.i < Len(threads) THEN [i |-> frame.i + 1, phase |-> "tell"] ELSE NoFrame

Alive == server \notin {"exited", "killed"}
Exited(t) == pc[t] = "exited"
Goto(t, place) == pc' = [pc EXCEPT ![t] = place]
SetState(t, s) == state' = [state EXCEPT ![t] = s]

Init ==
    /\ state = [t \in Thread |-> "Idling"]
    /\ pc = [t \in Thread |-> CASE t = "scheduler" -> "test"
                                [] t = "dbus" -> "select"
                                [] OTHER -> "loop"]
    /\ handle = [t \in Thread |-> TRUE]
    /\ server = "accept"
    /\ inner = NoFrame
    /\ outer = NoFrame
    /\ interrupts = 0
    /\ quit = FALSE
    /\ owed = FALSE

-----------------------------------------------------------------------------
(***************************************************************************)
(* What a client can ask of the scheduler, under the scheduler's lock.     *)
(***************************************************************************)

Answer(request) ==
    CASE request = "startIndexing" -> SetState("scheduler", "Working") /\ owed' = TRUE
      [] request = "stopIndexing" -> SetState("scheduler", "Idling") /\ owed' = FALSE
      [] OTHER -> UNCHANGED <<state, owed>>

\* The main thread has the scheduler's lock.  No one else holds a lock
\* between two of its steps.
Locked == server = "locked"

\* The threads that take the lock the main thread has.
Takers == CASE server = "locked"        -> {"scheduler", "dbus"}
            [] server = "reindexLocked" -> {"listener", "dbus"}
            [] server = "indexLocked"   -> {"scheduler", "listener", "dbus"}
            [] OTHER                    -> {}

-----------------------------------------------------------------------------
(***************************************************************************)
(* Signals: SIGINT, SIGQUIT and SIGTERM, each from the keyboard, the       *)
(* session or Interface::stopDaemon().                                     *)
(***************************************************************************)

\* Where the main thread will be after the handler: accept() fails.
AfterSignal == IF server = "accept" THEN "stopThreads" ELSE server

Signal ==
    /\ Alive
    /\ interrupts < 3
    /\ interrupts' = interrupts + 1
    /\ server' = IF interrupts = 2 THEN "killed" ELSE AfterSignal
    /\ outer' = IF server = "accept" THEN FirstFrame ELSE outer
    /\ inner' = IF interrupts = 0 THEN FirstFrame ELSE inner

Interrupt == Signal /\ UNCHANGED <<state, pc, handle, quit, owed>>

-----------------------------------------------------------------------------
(***************************************************************************)
(* stopThreads(), in the handler or, when that is not running, in main().  *)
(***************************************************************************)

Running == IF inner # NoFrame THEN inner ELSE outer

Continue(frame) ==
    IF inner # NoFrame
    THEN inner' = frame /\ UNCHANGED <<outer, server, interrupts>>
    ELSE /\ outer' = frame
         /\ server' = IF frame = NoFrame THEN "draining" ELSE server
         /\ UNCHANGED <<inner, interrupts>>

InPhase(t, phase) ==
    /\ Alive
    /\ Running # NoFrame
    /\ threads[Running.i] = t
    /\ Running.phase = phase

\* Slips: the pipe stays open, and only the scheduler is told.
TellWith(t, told, closed) ==
    /\ InPhase(t, "tell")
    /\ IF told THEN SetState(t, "Stopping") ELSE UNCHANGED state
    /\ quit' = closed
    /\ owed' = (owed /\ t # "scheduler")
    /\ Continue([Running EXCEPT !.phase = "check"])
    /\ UNCHANGED <<pc, handle>>
TellWithoutPipe(t) == TellWith(t, TRUE, quit)
TellScheduler(t) == TellWith(t, t = "scheduler", quit \/ t = "dbus")

\* `state = Stopping', without the lock, and stopThread().
Tell(t) ==
    /\ InPhase(t, "tell")
    /\ SetState(t, "Stopping")
    /\ quit' = (quit \/ t = "dbus")
    /\ owed' = (owed /\ t # "scheduler")
    /\ Continue([Running EXCEPT !.phase = "check"])
    /\ UNCHANGED <<pc, handle>>

Check(t) ==
    /\ InPhase(t, "check")
    /\ Continue(IF handle[t] THEN [Running EXCEPT !.phase = "join"] ELSE NextFrame(Running))
    /\ UNCHANGED <<state, pc, handle, quit, owed>>

\* A slip: a join in the handler never waits.
JoinedAnyway(t) == inner # NoFrame

\* The handler has interrupted main() in the join of the same thread:
\* pthread_join() refuses a second join and returns at once.
JoinedBelow(t) ==
    /\ inner # NoFrame
    /\ outer.phase = "join"
    /\ threads[outer.i] = t

Join(t) ==
    /\ InPhase(t, "join")
    /\ Exited(t) \/ JoinedBelow(t)
    /\ handle' = [handle EXCEPT ![t] = FALSE]
    /\ Continue(NextFrame(Running))
    /\ UNCHANGED <<state, pc, quit, owed>>

-----------------------------------------------------------------------------
(***************************************************************************)
(* The main thread: SocketServer::run(), then the end of main().           *)
(***************************************************************************)

MainAt(place) == server = place /\ inner = NoFrame

Move(place) ==
    /\ server' = place
    /\ UNCHANGED <<state, pc, handle, inner, outer, interrupts, quit, owed>>

Accept == MainAt("accept") /\ Move("request")

\* A slip: main() goes on without stopping the threads.
BadRequestUnstopped ==
    /\ MainAt("accept")
    /\ server' = "draining"
    /\ UNCHANGED <<state, pc, handle, inner, outer, interrupts, quit, owed>>

\* readRequest() fails: the listening socket is closed, so accept() fails.
BadRequest ==
    /\ MainAt("accept")
    /\ server' = "stopThreads"
    /\ outer' = FirstFrame
    /\ UNCHANGED <<state, pc, handle, inner, interrupts, quit, owed>>

\* A request that takes no lock.
ServeOther == MainAt("request") /\ Move("reply")

ServeStopDaemon ==
    /\ MainAt("request")
    /\ interrupts < 3
    /\ interrupts' = interrupts + 1
    /\ server' = IF interrupts = 2 THEN "killed" ELSE "reply"
    /\ inner' = IF interrupts = 0 THEN FirstFrame ELSE inner
    /\ UNCHANGED <<state, pc, handle, outer, quit, owed>>

\* One lock stands for those a request takes one after the other: setting the
\* directories takes the listener's, and everything asked of the index its own.
TakeLock == MainAt("request") /\ \E place \in LockPlace : Move(place)

Unlock == (MainAt("reindexLocked") \/ MainAt("indexLocked")) /\ Move("reply")

Serve(request) ==
    /\ MainAt("locked")
    /\ Answer(request)
    /\ server' = "reply"
    /\ UNCHANGED <<pc, handle, inner, outer, interrupts, quit>>

SendResponse == MainAt("reply") /\ Move("accept")

QueueStop == MainAt("draining") /\ Move("saving")
SaveConfiguration == MainAt("saving") /\ Move("closing")
DeleteIndex == MainAt("closing") /\ Move("exited")

-----------------------------------------------------------------------------
(***************************************************************************)
(* IndexScheduler::run(), from one getState() or setState() to the next.   *)
(***************************************************************************)

SchedulerAt(place) == Alive /\ pc["scheduler"] = place

\* getState() and where the scheduler goes.
Branch(from, s, yes, no) ==
    /\ SchedulerAt(from)
    /\ ~ Locked
    /\ Goto("scheduler", IF state["scheduler"] = s THEN yes ELSE no)

UnchangedButPc == UNCHANGED <<state, handle, mainVars, quit, owed>>

Test == Branch("test", "Stopping", "exited", "look") /\ UnchangedButPc

\* index() copies the directories as it begins.
LookWorking ==
    /\ Branch("look", "Working", "index", "lookIdle")
    /\ owed' = (owed /\ state["scheduler"] # "Working")
    /\ UNCHANGED <<state, handle, mainVars, quit>>

\* It asks the index for what it has, and continueAnalysis() for the state.
Index ==
    /\ SchedulerAt("index")
    /\ "scheduler" \notin Takers
    /\ Goto("scheduler", "indexed")
    /\ UnchangedButPc

LookAgain == Branch("indexed", "Working", "finish", "test") /\ UnchangedButPc

LookIdle == Branch("lookIdle", "Idling", "events", "test") /\ UnchangedButPc

GetEvents ==
    /\ SchedulerAt("events")
    /\ Goto("scheduler", "test") \/ Goto("scheduler", "begin")
    /\ UnchangedButPc

ProcessListenerEvents ==
    SchedulerAt("process") /\ Goto("scheduler", "end") /\ UnchangedButPc

\* setState(), from its place to the next one.
Put(from, s, to) ==
    /\ SchedulerAt(from)
    /\ ~ Locked
    /\ SetState("scheduler", s)
    /\ Goto("scheduler", to)
    /\ UNCHANGED <<handle, mainVars, quit, owed>>

FinishIndex == Put("finish", "Idling", "test")
BeginProcessing == Put("begin", "Working", "process")
\* A slip: the scheduler stays "Working" after the events.
EndProcessingWorking == Put("end", "Working", "test")

EndProcessing == Put("end", "Idling", "test")

Scheduler ==
    \/ Test \/ LookWorking \/ Index \/ LookAgain \/ FinishIndex
    \/ LookIdle \/ GetEvents
    \/ BeginProcessing \/ ProcessListenerEvents \/ EndProcessing

-----------------------------------------------------------------------------
(***************************************************************************)
(* The other threads.  The event queue and the listener end a pass of      *)
(* run() and look at their own state.  Where the listener is in its pass,  *)
(* and what a D-Bus message asks for, is left open: either may have to     *)
(* wait for a lock the main thread has, and then nothing says that it      *)
(* moves on (Fairness).                                                    *)
(***************************************************************************)

Worker(t) ==
    /\ Alive
    /\ pc[t] = "loop"
    /\ state[t] = "Stopping"
    /\ Goto(t, "exited")
    /\ UnchangedButPc

DBusAt(place) == Alive /\ "dbus" \in Thread /\ pc["dbus"] = place

\* select() returns because of a message.
Receive == DBusAt("select") /\ ~ quit /\ Goto("dbus", "dispatch") /\ UnchangedButPc

\* select() returns because of the pipe or of SIGALRM; messages that came
\* in the meantime may still be dispatched.
Leave == DBusAt("select") /\ quit /\ Goto("dbus", "last") /\ UnchangedButPc

AfterDispatch == IF pc["dbus"] = "last" THEN "exited" ELSE "select"

Dispatch(request) ==
    /\ DBusAt("dispatch") \/ DBusAt("last")
    /\ ~ Locked
    /\ Answer(request)
    /\ Goto("dbus", AfterDispatch)
    /\ UNCHANGED <<handle, mainVars, quit>>

DispatchStopDaemon ==
    /\ DBusAt("dispatch") \/ DBusAt("last")
    /\ Signal
    /\ Goto("dbus", AfterDispatch)
    /\ UNCHANGED <<state, handle, quit, owed>>

DispatchOther ==
    /\ DBusAt("dispatch") \/ DBusAt("last")
    /\ Goto("dbus", AfterDispatch)
    /\ UnchangedButPc

-----------------------------------------------------------------------------

StopThreads == \E t \in Thread : Tell(t) \/ Check(t) \/ Join(t)

Finishing == QueueStop \/ SaveConfiguration \/ DeleteIndex

Serving ==
    \/ ServeOther
    \/ ServeStopDaemon
    \/ TakeLock
    \/ \E request \in Request : Serve(request)
    \/ Unlock
    \/ SendResponse

Dispatching ==
    \/ \E request \in Request : Dispatch(request)
    \/ DispatchStopDaemon
    \/ DispatchOther

Next ==
    \/ Interrupt
    \/ StopThreads
    \/ Accept
    \/ BadRequest
    \/ Serving
    \/ Finishing
    \/ Scheduler
    \/ \E t \in Thread \ {"scheduler", "dbus"} : Worker(t)
    \/ Receive
    \/ Leave
    \/ Dispatching

\* The operating system runs every thread that does not wait for a lock; nobody
\* has to send a request or a signal.
Fairness ==
    /\ WF_vars(StopThreads)
    /\ WF_vars(Serving)
    /\ WF_vars(Finishing)
    /\ WF_vars(Scheduler)
    /\ \A t \in Thread \ {"scheduler", "dbus"} : WF_vars(Worker(t) /\ t \notin Takers)
    /\ WF_vars(Leave)
    /\ WF_vars(Dispatching /\ "dbus" \notin Takers)

Spec == Init /\ [][Next]_vars
FairSpec == Spec /\ Fairness

-----------------------------------------------------------------------------

TypeOK ==
    /\ state \in [Thread -> State]
    /\ DOMAIN pc = Thread /\ \A t \in Thread : pc[t] \in Place(t)
    /\ handle \in [Thread -> BOOLEAN]
    /\ server \in ServerPlace
    /\ inner \in Frame \cup {NoFrame}
    /\ outer \in Frame \cup {NoFrame}
    /\ interrupts \in 0..3
    /\ quit \in BOOLEAN
    /\ owed \in BOOLEAN

\* A thread that is no longer joinable has ended, or main() is in its join,
\* whatever signals came while main() was stopping threads on its own
\* (stop, stopThreads, quit_daemon).
Joining(frame, t) == frame.phase = "join" /\ threads[frame.i] = t
NoThreadAbandoned ==
    \A t \in Thread : handle[t] \/ Exited(t) \/ Joining(outer, t)

\* The job queue, the index, the listener and the event queue are taken down
\* only when no thread is left that uses them (main, daemon.cpp:336-363).
UsersGoneFirst ==
    server \in {"draining", "saving", "closing", "exited"}
        => \A t \in Thread : Exited(t)

\* The status a client reads: "indexing" means that the scheduler is at work
\* or has been asked to (setState in run, startIndexing and stopIndexing).
\* In particular no pass over the directories starts unasked.
StatusIsTrue ==
    state["scheduler"] = "Working" =>
        \/ owed
        \/ pc["scheduler"] \in {"index", "indexed", "finish", "process", "end"}

\* What keeps stop() in its join for ever: Stopping was overwritten, by the
\* scheduler or for a client, or the handler interrupted the main thread
\* while it had a lock that the thread it joins takes: of the scheduler's
\* state, of the request to reindex, of the index manager.
Overwritten ==
    /\ Joining(inner, "scheduler") \/ Joining(outer, "scheduler")
    /\ state["scheduler"] # "Stopping"
LockedOut == \E t \in Takers : Joining(inner, t)

\* stopThreads() returns unless one of these two happens, and then main()
\* goes on to its end (stop, stopThreads, the run() of every thread).
StopReturns ==
    inner # NoFrame ~> \/ inner = NoFrame \/ server = "killed"
                       \/ Overwritten \/ LockedOut
MainReturns ==
    server = "stopThreads" ~> \/ ~ Alive \/ Overwritten

\* Without the exemptions: "send a signal that will stop all threads".
SignalStopsAllThreads ==
    interrupts > 0 ~> (server = "killed" \/ \A t \in Thread : Exited(t))

\* A client that called startIndexing() and then waits until the status is
\* "idling" finds its directories indexed (DaemonDBusTest::testIndexing).
IdleMeansIndexed == state["scheduler"] = "Idling" => ~ owed

=============================================================================
