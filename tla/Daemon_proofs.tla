------------------------------ MODULE Daemon_proofs ------------------------------
(***************************************************************************)
(* What holds of the daemon's life for any vector of threads: its types,   *)
(* that no thread is abandoned, that what the threads use outlives them,   *)
(* and that the status a client reads is true.                             *)
(***************************************************************************)
EXTENDS Daemon, SequenceTheorems, TLAPS

-----------------------------------------------------------------------------
(***************************************************************************)
(* Frames of stopThreads().                                                *)
(***************************************************************************)

LEMMA ThreadVector ==
    /\ Len(threads) \in Nat \ {0}
    /\ DOMAIN threads = 1..Len(threads)
    /\ "scheduler" \in Thread
    /\ \A i \in DOMAIN threads : threads[i] \in Thread
  <1>1. threads \in Seq({"queue", "scheduler", "listener", "dbus"}) /\ threads # <<>>
    BY ThreadsAssumption DEF ThreadsAssumption
  <1>2. Len(threads) \in Nat /\ DOMAIN threads = 1..Len(threads) /\ Len(threads) # 0
    BY <1>1, EmptySeq
  <1>3. "scheduler" \in Thread
    BY ThreadsAssumption DEF ThreadsAssumption, Thread
  <1> QED
    BY <1>2, <1>3 DEF Thread

LEMMA FrameFacts ==
    /\ FirstFrame \in Frame
    /\ NoFrame \notin Frame
    /\ \A frame \in Frame :
          /\ frame.i \in 1..Len(threads)
          /\ frame # NoFrame
          /\ NextFrame(frame) \in Frame \cup {NoFrame}
          /\ \A phase \in {"tell", "check", "join"} :
                /\ [frame EXCEPT !.phase = phase] \in Frame
                /\ [frame EXCEPT !.phase = phase].i = frame.i
                /\ [frame EXCEPT !.phase = phase].phase = phase
  BY ThreadVector DEF Frame, FirstFrame, NoFrame, NextFrame

LEMMA RunningType ==
    ASSUME TypeOK, Running # NoFrame
    PROVE  Running \in Frame
  BY DEF TypeOK, Running

(* A thread goes to one of its places.                                      *)
LEMMA GotoTypes ==
    ASSUME TypeOK, NEW t \in Thread, NEW place \in Place(t), Goto(t, place)
    PROVE  /\ DOMAIN pc' = Thread
           /\ \A u \in Thread : pc'[u] = IF u = t THEN place ELSE pc[u]
           /\ \A u \in Thread : pc'[u] \in Place(u)
  <1>1. DOMAIN pc = Thread
    BY DEF TypeOK
  <1>2. DOMAIN pc' = Thread /\ \A u \in Thread : pc'[u] = IF u = t THEN place ELSE pc[u]
    BY <1>1 DEF Goto
  <1> QED
    BY <1>2 DEF TypeOK

LEMMA Places ==
    /\ SchedulerPlace \subseteq Place("scheduler")
    /\ DBusPlace \subseteq Place("dbus")
    /\ \A t \in Thread : "exited" \in Place(t)
  BY DEF Place

(* What the steps of stopThreads() have in common.                          *)
LEMMA ContinueTypes ==
    ASSUME TypeOK, NEW frame \in Frame \cup {NoFrame}, Continue(frame)
    PROVE  /\ inner' \in Frame \cup {NoFrame}
           /\ outer' \in Frame \cup {NoFrame}
           /\ server' \in ServerPlace
           /\ interrupts' \in 0..3
  BY DEF TypeOK, Continue, ServerPlace

LEMMA StopThreadsFrame ==
    ASSUME TypeOK, NEW t \in Thread, Tell(t) \/ Check(t) \/ Join(t)
    PROVE  \E frame \in Frame \cup {NoFrame} : Continue(frame)
  <1>1. Running # NoFrame
    BY DEF Tell, Check, Join, InPhase
  <1>2. Running \in Frame
    BY <1>1, RunningType
  <1> QED
    BY <1>2, FrameFacts DEF Tell, Check, Join

LEMMA SignalTypes ==
    ASSUME TypeOK, Signal
    PROVE  /\ inner' \in Frame \cup {NoFrame}
           /\ outer' \in Frame \cup {NoFrame}
           /\ server' \in ServerPlace
           /\ interrupts' \in 0..3
  BY FrameFacts DEF TypeOK, Signal, AfterSignal, ServerPlace

-----------------------------------------------------------------------------
(***************************************************************************)
(* Types.                                                                  *)
(***************************************************************************)

PcType == DOMAIN pc = Thread /\ \A t \in Thread : pc[t] \in Place(t)

LEMMA StateTypes ==
    ASSUME TypeOK, NEW t \in Thread, NEW s \in State, SetState(t, s)
    PROVE  state' \in [Thread -> State]
  BY DEF TypeOK, SetState

LEMMA AnswerTypes ==
    ASSUME TypeOK, NEW request \in Request, Answer(request)
    PROVE  state' \in [Thread -> State] /\ owed' \in BOOLEAN
  BY ThreadVector, StateTypes DEF TypeOK, Answer, State, Request

(* Where the scheduler goes in one step.                                    *)
LEMMA SchedulerGoes ==
    ASSUME Scheduler
    PROVE  \E place \in SchedulerPlace \cup {"exited"} : Goto("scheduler", place)
  <1>1. ASSUME NEW from \in SchedulerPlace, NEW s \in State, NEW yes, NEW no,
               yes \in SchedulerPlace \cup {"exited"}, no \in SchedulerPlace,
               Branch(from, s, yes, no)
        PROVE  \E place \in SchedulerPlace \cup {"exited"} : Goto("scheduler", place)
    BY <1>1 DEF Branch
  <1> QED
    BY <1>1
       DEF Scheduler, Test, LookWorking, Index, LookAgain, FinishIndex, LookIdle, GetEvents,
           BeginProcessing, ProcessListenerEvents, EndProcessing, Put, SchedulerPlace, State

LEMMA SchedulerTypes ==
    ASSUME TypeOK, Scheduler
    PROVE  /\ PcType'
           /\ state' \in [Thread -> State] /\ owed' \in BOOLEAN
           /\ UNCHANGED <<handle, mainVars, quit>>
  <1>1. PcType'
    BY SchedulerGoes, GotoTypes, ThreadVector, Places DEF PcType
  <1>2. CASE FinishIndex \/ BeginProcessing \/ EndProcessing
    <2>1. \E s \in State : SetState("scheduler", s)
      BY <1>2 DEF FinishIndex, BeginProcessing, EndProcessing, Put, State
    <2> QED
      BY <1>1, <1>2, <2>1, StateTypes, ThreadVector
         DEF FinishIndex, BeginProcessing, EndProcessing, Put, TypeOK
  <1>3. CASE ~ (FinishIndex \/ BeginProcessing \/ EndProcessing)
    BY <1>1, <1>3
       DEF Scheduler, Test, LookWorking, Index, LookAgain, LookIdle, GetEvents,
           ProcessListenerEvents, UnchangedButPc, TypeOK
  <1> QED
    BY <1>2, <1>3

(* What the steps of the main thread in accept() and in requests change.    *)
LEMMA MoveTypes ==
    ASSUME TypeOK, NEW place \in ServerPlace, Move(place)
    PROVE  TypeOK'
  BY DEF TypeOK, Move

LEMMA TypeOKStep ==
    ASSUME TypeOK, [Next]_vars
    PROVE  TypeOK'
  <1>1. CASE Interrupt
    BY <1>1, SignalTypes DEF Interrupt, TypeOK
  <1>2. ASSUME NEW t \in Thread, Tell(t) \/ Check(t) \/ Join(t)
        PROVE  TypeOK'
    <2>1. /\ inner' \in Frame \cup {NoFrame}
          /\ outer' \in Frame \cup {NoFrame}
          /\ server' \in ServerPlace
          /\ interrupts' \in 0..3
      BY <1>2, StopThreadsFrame, ContinueTypes
    <2>2. CASE Tell(t)
      <3>1. state' \in [Thread -> State]
        BY <2>2, StateTypes DEF Tell, State
      <3> QED
        BY <2>1, <2>2, <3>1 DEF Tell, TypeOK
    <2>3. CASE Check(t)
      BY <2>1, <2>3 DEF Check, TypeOK
    <2>4. CASE Join(t)
      BY <2>1, <2>4 DEF Join, TypeOK
    <2> QED
      BY <1>2, <2>2, <2>3, <2>4
  <1>3. CASE Accept \/ Finishing
    BY <1>3, MoveTypes
       DEF Accept, Finishing, QueueStop, SaveConfiguration, DeleteIndex, ServerPlace
  <1>4. CASE BadRequest
    BY <1>4, FrameFacts DEF BadRequest, TypeOK, ServerPlace
  <1>5. CASE Serving
    <2>1. CASE ServeOther \/ TakeLock \/ Unlock \/ SendResponse
      BY <2>1, MoveTypes DEF ServeOther, TakeLock, Unlock, SendResponse, ServerPlace
    <2>2. CASE ServeStopDaemon
      BY <2>2, FrameFacts DEF ServeStopDaemon, TypeOK, ServerPlace
    <2>3. ASSUME NEW request \in Request, Serve(request)
          PROVE  TypeOK'
      BY <2>3, AnswerTypes DEF Serve, TypeOK, ServerPlace
    <2> QED
      BY <1>5, <2>1, <2>2, <2>3 DEF Serving
  <1>6. CASE Scheduler
    BY <1>6, SchedulerTypes DEF PcType, TypeOK, mainVars
  <1>7. ASSUME NEW t \in Thread \ {"scheduler", "dbus"}, Worker(t)
        PROVE  TypeOK'
    BY <1>7, GotoTypes, Places DEF Worker, UnchangedButPc, mainVars, TypeOK
  <1>8. CASE Receive \/ Leave \/ DispatchOther
    <2>1. "dbus" \in Thread /\ \E place \in DBusPlace \cup {"exited"} : Goto("dbus", place)
      BY <1>8 DEF Receive, Leave, DispatchOther, DBusAt, DBusPlace, AfterDispatch
    <2>2. PcType'
      BY <2>1, GotoTypes, Places DEF PcType
    <2> QED
      BY <1>8, <2>2
         DEF Receive, Leave, DispatchOther, UnchangedButPc, mainVars, PcType, TypeOK
  <1>9. CASE DispatchStopDaemon
    <2>1. "dbus" \in Thread /\ \E place \in DBusPlace \cup {"exited"} : Goto("dbus", place)
      BY <1>9 DEF DispatchStopDaemon, DBusAt, DBusPlace, AfterDispatch
    <2>2. PcType'
      BY <2>1, GotoTypes, Places DEF PcType
    <2> QED
      BY <1>9, <2>2, SignalTypes DEF DispatchStopDaemon, PcType, TypeOK
  <1>10. ASSUME NEW request \in Request, Dispatch(request)
         PROVE  TypeOK'
    <2>1. "dbus" \in Thread /\ \E place \in DBusPlace \cup {"exited"} : Goto("dbus", place)
      BY <1>10 DEF Dispatch, DBusAt, DBusPlace, AfterDispatch
    <2>2. PcType'
      BY <2>1, GotoTypes, Places DEF PcType
    <2> QED
      BY <1>10, <2>2, AnswerTypes DEF Dispatch, mainVars, PcType, TypeOK
  <1>11. CASE UNCHANGED vars
    BY <1>11 DEF vars, mainVars, TypeOK
  <1> QED
    BY <1>1, <1>2, <1>3, <1>4, <1>5, <1>6, <1>7, <1>8, <1>9, <1>10, <1>11
       DEF Next, StopThreads, Dispatching

LEMMA TypeOKInit == Init => TypeOK
  <1> SUFFICES ASSUME Init
               PROVE  TypeOK
    OBVIOUS
  <1>1. \A t \in Thread : pc[t] \in Place(t)
    BY DEF Init, Place, SchedulerPlace, DBusPlace
  <1>2. DOMAIN pc = Thread
    BY DEF Init
  <1>3. state \in [Thread -> State] /\ handle \in [Thread -> BOOLEAN]
    BY DEF Init, State
  <1>4. server \in ServerPlace /\ interrupts \in 0..3
    BY DEF Init, ServerPlace
  <1>5. quit \in BOOLEAN /\ owed \in BOOLEAN
    BY Zenon DEF Init
  <1>6. inner = NoFrame /\ outer = NoFrame
    BY DEF Init
  <1> QED
    BY <1>1, <1>2, <1>3, <1>4, <1>5, <1>6 DEF TypeOK

(* Every variable has its type, whatever threads the daemon was started with *)
(* (StrigiThread, SocketServer::run and main).                               *)
THEOREM TypeCorrect == Spec => []TypeOK
  BY TypeOKInit, TypeOKStep, PTL DEF Spec

-----------------------------------------------------------------------------
(***************************************************************************)
(* No thread is abandoned, and the users of the parts go first.            *)
(***************************************************************************)

(* main() is in stopThreads() after its loop, and what it has passed there   *)
(* has ended.                                                                *)
OuterInv ==
    /\ outer # NoFrame => server \in {"stopThreads", "killed"}
    /\ outer # NoFrame => \A k \in DOMAIN threads : k < outer.i => Exited(threads[k])

StopInv == TypeOK /\ NoThreadAbandoned /\ OuterInv /\ UsersGoneFirst

(* A thread that has ended stays that way.                                   *)
LEMMA ExitedStays ==
    ASSUME TypeOK, [Next]_vars
    PROVE  \A t \in Thread : Exited(t) => Exited(t)'
  <1>1. CASE UNCHANGED pc
    BY <1>1 DEF Exited
  <1>2. ASSUME NEW u \in Thread, ~ Exited(u), NEW place, Goto(u, place)
        PROVE  \A t \in Thread : Exited(t) => Exited(t)'
    BY <1>2 DEF Exited, Goto, TypeOK
  <1>3. CASE Scheduler
    <2>1. ~ Exited("scheduler")
      BY <1>3
         DEF Scheduler, Test, LookWorking, Index, LookAgain, FinishIndex, LookIdle, GetEvents,
             BeginProcessing, ProcessListenerEvents, EndProcessing, Branch, Put, SchedulerAt,
             Exited
    <2> QED
      BY <1>2, <1>3, <2>1, SchedulerGoes, ThreadVector
  <1>4. ASSUME NEW t \in Thread, Worker(t)
        PROVE  \A u \in Thread : Exited(u) => Exited(u)'
    BY <1>2, <1>4 DEF Worker, Exited
  <1>5. CASE Receive \/ Leave \/ Dispatching
    <2>1. "dbus" \in Thread /\ ~ Exited("dbus") /\ \E place : Goto("dbus", place)
      BY <1>5 DEF Receive, Leave, Dispatching, Dispatch, DispatchStopDaemon, DispatchOther,
                  DBusAt, Exited
    <2> QED
      BY <1>2, <2>1
  <1> QED
    BY <1>1, <1>3, <1>4, <1>5
       DEF Next, Interrupt, StopThreads, Tell, Check, Join, Accept, BadRequest, Serving,
           ServeOther, ServeStopDaemon, TakeLock, Unlock, Serve, SendResponse, Finishing, QueueStop,
           SaveConfiguration, DeleteIndex, Move, vars

(* Steps that leave stopThreads() and the handles alone.                     *)
LEMMA QuietStep ==
    ASSUME StopInv, [Next]_vars, UNCHANGED <<handle, outer>>,
           server' \in {"draining", "saving", "closing", "exited"}
               => server \in {"draining", "saving", "closing", "exited"},
           server \in {"stopThreads", "killed"} => server' \in {"stopThreads", "killed"}
    PROVE  NoThreadAbandoned' /\ OuterInv' /\ UsersGoneFirst'
  <1>1. \A t \in Thread : Exited(t) => Exited(t)'
    BY ExitedStays DEF StopInv
  <1>2. NoThreadAbandoned'
    BY <1>1 DEF StopInv, NoThreadAbandoned, Joining
  <1>3. OuterInv'
    BY <1>1, ThreadVector DEF StopInv, OuterInv
  <1>4. UsersGoneFirst'
    BY <1>1 DEF StopInv, UsersGoneFirst
  <1> QED
    BY <1>2, <1>3, <1>4

(* stopThreads() begins in main(), when it was not running there.            *)
LEMMA OuterBegins ==
    ASSUME StopInv, [Next]_vars, UNCHANGED handle, server = "accept", outer' = FirstFrame,
           server' \in {"stopThreads", "killed"}
    PROVE  NoThreadAbandoned' /\ OuterInv' /\ UsersGoneFirst'
  <1>1. \A t \in Thread : Exited(t) => Exited(t)'
    BY ExitedStays DEF StopInv
  <1>2. outer = NoFrame
    BY DEF StopInv, OuterInv
  <1>3. NoThreadAbandoned'
    BY <1>1, <1>2 DEF StopInv, NoThreadAbandoned, Joining, NoFrame
  <1>4. OuterInv'
    BY ThreadVector DEF OuterInv, FirstFrame
  <1> QED
    BY <1>3, <1>4 DEF UsersGoneFirst

(* main() goes on to the next thread, or out of stopThreads().               *)
LEMMA Advance ==
    ASSUME StopInv, outer \in Frame, server = "stopThreads", Exited(threads[outer.i]),
           pc' = pc, outer' = NextFrame(outer),
           server' = IF outer' = NoFrame THEN "draining" ELSE server
    PROVE  OuterInv' /\ UsersGoneFirst'
  <1>1. outer.i \in 1..Len(threads) /\ outer # NoFrame
    BY FrameFacts
  <1>2. \A k \in DOMAIN threads : k <= outer.i => Exited(threads[k])
    BY <1>1, ThreadVector DEF StopInv, OuterInv
  <1>3. \A t \in Thread : Exited(t)' <=> Exited(t)
    BY DEF Exited
  <1>4. CASE outer.i < Len(threads)
    <2>1. outer' = [i |-> outer.i + 1, phase |-> "tell"]
      BY <1>4 DEF NextFrame
    <2>2. outer' # NoFrame /\ outer'.i = outer.i + 1
      BY <1>1, <2>1 DEF NoFrame
    <2>3. \A k \in DOMAIN threads : k < outer'.i => Exited(threads[k])'
      BY <1>1, <1>2, <1>3, <2>2, ThreadVector
    <2> QED
      BY <2>2, <2>3 DEF OuterInv, UsersGoneFirst
  <1>5. CASE ~ outer.i < Len(threads)
    <2>1. outer' = NoFrame /\ outer.i = Len(threads)
      BY <1>1, <1>5, ThreadVector DEF NextFrame
    <2>2. \A t \in Thread : Exited(t)'
      BY <1>2, <1>3, <2>1, ThreadVector DEF Thread
    <2> QED
      BY <2>1, <2>2 DEF OuterInv, UsersGoneFirst
  <1> QED
    BY <1>4, <1>5

LEMMA StopThreadsStep ==
    ASSUME StopInv, [Next]_vars, NEW t \in Thread, Tell(t) \/ Check(t) \/ Join(t)
    PROVE  NoThreadAbandoned' /\ OuterInv' /\ UsersGoneFirst'
  <1>1. Running # NoFrame /\ threads[Running.i] = t /\ pc' = pc /\ Alive
    BY DEF Tell, Check, Join, InPhase
  <1>2. \A u \in Thread : Exited(u)' <=> Exited(u)
    BY <1>1 DEF Exited
  <1>3. CASE inner # NoFrame
    <2>1. outer' = outer /\ server' = server
      BY <1>3 DEF Tell, Check, Join, Continue
    <2>2. CASE Tell(t) \/ Check(t)
      <3>1. handle' = handle
        BY <2>2 DEF Tell, Check
      <3> QED
        BY <2>1, <3>1, QuietStep
    <2>3. CASE Join(t)
      <3>1. Exited(t) \/ Joining(outer, t)
        BY <2>3 DEF Join, JoinedBelow, Joining
      <3>2. \A u \in Thread : u # t => handle'[u] = handle[u]
        BY <2>3 DEF Join, StopInv, TypeOK
      <3>3. NoThreadAbandoned'
        BY <1>2, <2>1, <3>1, <3>2 DEF StopInv, NoThreadAbandoned, Joining
      <3>4. OuterInv' /\ UsersGoneFirst'
        BY <1>2, <2>1, ThreadVector DEF StopInv, OuterInv, UsersGoneFirst
      <3> QED
        BY <3>3, <3>4
    <2> QED
      BY <2>2, <2>3
  <1>4. CASE inner = NoFrame
    <2>1. /\ Running = outer /\ outer \in Frame /\ outer # NoFrame
          /\ threads[outer.i] = t /\ server = "stopThreads"
      BY <1>1, <1>4, RunningType DEF Running, StopInv, OuterInv, Alive
    <2>2. ASSUME NEW frame, Continue(frame)
          PROVE  /\ outer' = frame
                 /\ server' = IF outer' = NoFrame THEN "draining" ELSE server
      BY <1>4, <2>2 DEF Continue
    <2>3. \A phase \in {"tell", "check", "join"} :
             /\ [outer EXCEPT !.phase = phase] \in Frame
             /\ [outer EXCEPT !.phase = phase] # NoFrame
             /\ [outer EXCEPT !.phase = phase].i = outer.i
             /\ [outer EXCEPT !.phase = phase].phase = phase
      BY <2>1, FrameFacts
    <2>4. ASSUME NEW phase \in {"tell", "check", "join"}, outer.phase # "join",
                 Continue([outer EXCEPT !.phase = phase]), handle' = handle
          PROVE  NoThreadAbandoned' /\ OuterInv' /\ UsersGoneFirst'
      <3>1. outer' # NoFrame /\ outer'.i = outer.i /\ server' = "stopThreads"
        BY <2>1, <2>2, <2>3, <2>4
      <3>2. NoThreadAbandoned'
        BY <1>2, <2>4 DEF StopInv, NoThreadAbandoned, Joining
      <3>3. OuterInv'
        BY <1>2, <2>1, <3>1, ThreadVector DEF StopInv, OuterInv
      <3> QED
        BY <3>1, <3>2, <3>3 DEF UsersGoneFirst
    <2>5. ASSUME Exited(t), Continue(NextFrame(outer)),
                 \A u \in Thread : handle[u] => handle'[u] \/ u = t
          PROVE  NoThreadAbandoned' /\ OuterInv' /\ UsersGoneFirst'
      <3>1. OuterInv' /\ UsersGoneFirst'
        BY <1>1, <2>1, <2>2, <2>5, Advance
      <3>2. \A u \in Thread : Joining(outer, u) => u = t
        BY <2>1 DEF Joining
      <3>3. NoThreadAbandoned'
        BY <1>2, <2>5, <3>2 DEF StopInv, NoThreadAbandoned
      <3> QED
        BY <3>1, <3>3
    <2>6. CASE Tell(t)
      <3>1. outer.phase = "tell" /\ Continue([outer EXCEPT !.phase = "check"]) /\ handle' = handle
        BY <2>1, <2>6 DEF Tell, InPhase
      <3> QED
        BY <2>4, <3>1
    <2>7. CASE Check(t) /\ handle[t]
      <3>1. outer.phase = "check" /\ Continue([outer EXCEPT !.phase = "join"]) /\ handle' = handle
        BY <2>1, <2>7 DEF Check, InPhase
      <3> QED
        BY <2>4, <3>1
    <2>8. CASE Check(t) /\ ~ handle[t]
      <3>1. outer.phase = "check" /\ Continue(NextFrame(outer)) /\ handle' = handle
        BY <2>1, <2>8 DEF Check, InPhase
      <3>2. Exited(t)
        BY <2>8, <3>1 DEF StopInv, NoThreadAbandoned, Joining
      <3> QED
        BY <2>5, <3>1, <3>2
    <2>9. CASE Join(t)
      <3>1. Exited(t) /\ Continue(NextFrame(outer))
        BY <1>4, <2>1, <2>9 DEF Join, JoinedBelow
      <3>2. \A u \in Thread : handle[u] => handle'[u] \/ u = t
        BY <2>9 DEF Join, StopInv, TypeOK
      <3> QED
        BY <2>5, <3>1, <3>2
    <2> QED
      BY <2>6, <2>7, <2>8, <2>9
  <1> QED
    BY <1>3, <1>4

LEMMA StopInvStep ==
    ASSUME StopInv, [Next]_vars
    PROVE  StopInv'
  <1>1. TypeOK'
    BY TypeOKStep DEF StopInv
  <1> DEFINE Goal == NoThreadAbandoned' /\ OuterInv' /\ UsersGoneFirst'
  <1> SUFFICES Goal
    BY <1>1 DEF StopInv
  <1>2. ASSUME Signal, handle' = handle
        PROVE  Goal
    <2>1. CASE server = "accept"
      <3>1. outer' = FirstFrame /\ server' \in {"stopThreads", "killed"}
        BY <1>2, <2>1 DEF Signal, AfterSignal
      <3> QED
        BY <1>2, <2>1, <3>1, OuterBegins
    <2>2. CASE server # "accept"
      <3>1. outer' = outer /\ server' \in {server, "killed"}
        BY <1>2, <2>2 DEF Signal, AfterSignal
      <3> QED
        BY <1>2, <3>1, QuietStep
    <2> QED
      BY <2>1, <2>2
  <1>3. CASE Interrupt \/ DispatchStopDaemon
    BY <1>2, <1>3 DEF Interrupt, DispatchStopDaemon
  <1>4. CASE StopThreads
    BY <1>4, StopThreadsStep DEF StopThreads
  <1>5. CASE BadRequest
    <2>1. /\ server = "accept" /\ server' = "stopThreads"
          /\ outer' = FirstFrame /\ UNCHANGED handle
      BY <1>5 DEF BadRequest, MainAt
    <2> QED
      BY <2>1, OuterBegins
  <1>6. CASE Accept \/ Serving
    <2>1. /\ UNCHANGED <<handle, outer>>
          /\ server \notin {"stopThreads", "killed"}
          /\ server' \notin {"draining", "saving", "closing", "exited"}
      BY <1>6 DEF Accept, Serving, ServeOther, ServeStopDaemon, TakeLock, Unlock, Serve, SendResponse,
                  MainAt, Move, LockPlace
    <2> QED
      BY <2>1, QuietStep
  <1>7. CASE Finishing
    BY <1>7, QuietStep
       DEF Finishing, QueueStop, SaveConfiguration, DeleteIndex, MainAt, Move
  <1>8. CASE UNCHANGED <<handle, mainVars>>
    BY <1>8, QuietStep DEF mainVars
  <1>9. CASE Scheduler
    <2>1. UNCHANGED <<handle, mainVars>>
      BY <1>9, SchedulerTypes DEF StopInv
    <2> QED
      BY <1>8, <2>1
  <1>10. CASE Receive \/ Leave \/ DispatchOther
    BY <1>8, <1>10 DEF Receive, Leave, DispatchOther, UnchangedButPc
  <1>11. ASSUME NEW request \in Request, Dispatch(request)
         PROVE  Goal
    BY <1>8, <1>11 DEF Dispatch
  <1>12. ASSUME NEW t \in Thread, Worker(t)
         PROVE  Goal
    BY <1>8, <1>12 DEF Worker, UnchangedButPc
  <1>13. CASE UNCHANGED vars
    BY <1>8, <1>13 DEF vars
  <1> QED
    BY <1>3, <1>4, <1>5, <1>6, <1>7, <1>9, <1>10, <1>11, <1>12, <1>13 DEF Next, Dispatching

LEMMA StopInvHolds == Spec => []StopInv
  <1>1. Init => StopInv
    BY TypeOKInit DEF Init, StopInv, NoThreadAbandoned, OuterInv, UsersGoneFirst
  <1> QED
    BY <1>1, StopInvStep, PTL DEF Spec

(* A thread that is no longer joinable has ended, or main() is in its join,   *)
(* whatever threads there are and whenever signals come (stop, stopThreads    *)
(* and quit_daemon).                                                          *)
THEOREM NobodyAbandoned == Spec => []NoThreadAbandoned
  <1>1. StopInv => NoThreadAbandoned
    BY DEF StopInv
  <1> QED
    BY <1>1, StopInvHolds, PTL

(* main() takes the parts down only when no thread is left that uses them     *)
(* (daemon.cpp:336-363).                                                      *)
THEOREM UsersGoBeforeParts == Spec => []UsersGoneFirst
  <1>1. StopInv => UsersGoneFirst
    BY DEF StopInv
  <1> QED
    BY <1>1, StopInvHolds, PTL

-----------------------------------------------------------------------------
(***************************************************************************)
(* The status.                                                             *)
(***************************************************************************)

LEMMA StatusStep ==
    ASSUME TypeOK, StatusIsTrue, [Next]_vars
    PROVE  StatusIsTrue'
  <1> USE ThreadVector DEF StatusIsTrue
  <1>1. CASE UNCHANGED <<state, owed>> /\ pc'["scheduler"] = pc["scheduler"]
    BY <1>1
  <1>2. ASSUME NEW request \in Request, Answer(request), pc'["scheduler"] = pc["scheduler"]
        PROVE  StatusIsTrue'
    BY <1>2 DEF Answer, SetState, TypeOK
  <1>3. ASSUME NEW t \in Thread, Tell(t)
        PROVE  StatusIsTrue'
    BY <1>3 DEF Tell, SetState, TypeOK
  <1>4. CASE Scheduler
    <2> USE DEF Goto, SetState, TypeOK, Branch, Put, SchedulerAt, UnchangedButPc
    <2>1. CASE Test
      BY <2>1 DEF Test
    <2>2. CASE LookWorking
      BY <2>2 DEF LookWorking
    <2>3. CASE LookAgain
      BY <2>3 DEF LookAgain
    <2>4. CASE LookIdle
      BY <2>4 DEF LookIdle
    <2>5. CASE Index \/ GetEvents \/ ProcessListenerEvents
      BY <2>5 DEF Index, GetEvents, ProcessListenerEvents
    <2>6. CASE FinishIndex \/ BeginProcessing \/ EndProcessing
      BY <2>6 DEF FinishIndex, BeginProcessing, EndProcessing
    <2> QED
      BY <1>4, <2>1, <2>2, <2>3, <2>4, <2>5, <2>6 DEF Scheduler
  <1>5. ASSUME NEW t \in Thread \ {"scheduler"}, NEW place, Goto(t, place)
        PROVE  pc'["scheduler"] = pc["scheduler"]
    BY <1>5 DEF Goto, TypeOK
  <1>6. ASSUME NEW t \in Thread \ {"scheduler", "dbus"}, Worker(t)
        PROVE  StatusIsTrue'
    BY <1>1, <1>5, <1>6 DEF Worker, UnchangedButPc
  <1>7. CASE Receive \/ Leave \/ DispatchOther \/ DispatchStopDaemon
    <2>1. UNCHANGED <<state, owed>>
      BY <1>7 DEF Receive, Leave, DispatchOther, DispatchStopDaemon, UnchangedButPc
    <2>2. "dbus" \in Thread \ {"scheduler"} /\ \E place : Goto("dbus", place)
      BY <1>7 DEF Receive, Leave, DispatchOther, DispatchStopDaemon, DBusAt
    <2> QED
      BY <1>1, <1>5, <2>1, <2>2
  <1>8. ASSUME NEW request \in Request, Dispatch(request)
        PROVE  StatusIsTrue'
    <2>1. "dbus" \in Thread \ {"scheduler"} /\ \E place : Goto("dbus", place)
      BY <1>8 DEF Dispatch, DBusAt
    <2> QED
      BY <1>2, <1>5, <1>8, <2>1 DEF Dispatch
  <1>9. ASSUME NEW request \in Request, Serve(request)
        PROVE  StatusIsTrue'
    BY <1>2, <1>9 DEF Serve
  <1>10. CASE UNCHANGED <<state, owed, pc>>
    BY <1>1, <1>10
  <1> QED
    BY <1>3, <1>4, <1>6, <1>7, <1>8, <1>9, <1>10
       DEF Next, Interrupt, StopThreads, Check, Join, Accept, BadRequest, Serving,
           ServeOther, ServeStopDaemon, TakeLock, Unlock, SendResponse, Finishing, QueueStop,
           SaveConfiguration, DeleteIndex, Move, Dispatching, vars

(* "indexing" in the status means that the scheduler is at work or has been   *)
(* asked to: no pass over the directories starts unasked (setState in run,    *)
(* startIndexing and stopIndexing).                                           *)
THEOREM StatusTrue == Spec => []StatusIsTrue
  <1>1. Init => StatusIsTrue
    BY ThreadVector DEF Init, StatusIsTrue
  <1> QED
    BY <1>1, StatusStep, TypeCorrect, PTL DEF Spec
=============================================================================
