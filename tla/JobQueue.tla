-------------------------------- MODULE JobQueue --------------------------------
(***************************************************************************)
(* The thread pool that runs search jobs (bin/daemon/queue/jobqueue.cpp).  *)
(* A job is the address of its object: addJob() compares pointers, and an  *)
(* address is free for a new job once the old one is deleted.              *)
(*                                                                         *)
(* One action is one critical section.  JobQueue::Private::mutex guards    *)
(* jobs and keeprunning, JobThread::mutex guards job and keeprunning of    *)
(* one thread, and the steps between two sections are where the threads    *)
(* interleave.  stop() - the destructor ~Private() - is run by the thread  *)
(* that owns the queue, after its last addJob() (daemon.cpp:336-339).      *)
(***************************************************************************)
EXTENDS Naturals, Sequences, FiniteSets

CONSTANTS
    Thread,     \* the JobThreads
    Job,        \* addresses a job can have
    Priority,   \* priorities jobs are created with
    MaxClock    \* bound on the seconds that creation times tell apart

ASSUME QueueAssumption ==
    /\ Job \subseteq Nat \ {0}
    /\ Priority \subseteq Nat
    /\ MaxClock \in Nat
    /\ IsFiniteSet(Thread)
    /\ Thread \cap {"free", "queued"} = {}

NoJob == 0

VARIABLES
    jobs,          \* Private::jobs
    keeprunning,   \* Private::keeprunning
    owner,         \* how far stop() has come
    pc,            \* where each thread is
    job,           \* the job a thread took, JobThread::job when it runs
    threadRuns,    \* JobThread::keeprunning
    allocated,     \* the addresses with a job object
    rank,          \* priority and ctime of the jobs
    clock          \* time(0)

vars == <<jobs, keeprunning, owner, pc, job, threadRuns, allocated, rank, clock>>

-----------------------------------------------------------------------------

Place == {"start", "loop", "waiting", "woken", "got", "running", "exited"}

\* pthread_cond_wait: threads that sleep, and threads that were woken and
\* have yet to get the mutex back.
At(place) == {t \in Thread : pc[t] = place}

\* Job::operator<: a lower priority or a later creation time.
Less(j, k) ==
    \/ rank[j].priority < rank[k].priority
    \/ rank[j].priority = rank[k].priority /\ rank[j].ctime > rank[k].ctime

\* The list with a job in front of the first one at a lower address.
InsertPosition(j) ==
    CHOOSE i \in 1..(Len(jobs) + 1) :
        /\ \A k \in 1..(i - 1) : ~ j > jobs[k]
        /\ i <= Len(jobs) => j > jobs[i]

WithJob(j) ==
    LET i == InsertPosition(j)
    IN  [k \in 1..(Len(jobs) + 1) |-> IF k < i THEN jobs[k]
                                      ELSE IF k = i THEN j ELSE jobs[k - 1]]

\* pthread_cond_signal: some sleeper, if there is one.
Signal ==
    IF At("waiting") = {}
    THEN UNCHANGED pc
    ELSE \E t \in At("waiting") : pc' = [pc EXCEPT ![t] = "woken"]

-----------------------------------------------------------------------------

Init ==
    /\ jobs = <<>>
    /\ keeprunning = TRUE
    /\ owner = "open"
    /\ pc = [t \in Thread |-> "start"]
    /\ job = [t \in Thread |-> NoJob]
    /\ threadRuns = [t \in Thread |-> TRUE]
    /\ allocated = {}
    /\ rank = [j \in Job |-> [priority |-> 0, ctime |-> 0]]
    /\ clock = 0

\* Slips: a creation time in the future, a wake-up only for the first job of
\* the list, and none at all.
AddJobWith(j, priority, ctime, wakeup) ==
    /\ owner = "open"
    /\ j \notin allocated
    /\ allocated' = allocated \cup {j}
    /\ rank' = [rank EXCEPT ![j] = [priority |-> priority, ctime |-> ctime]]
    /\ jobs' = WithJob(j)
    /\ IF wakeup THEN Signal ELSE UNCHANGED pc
    /\ UNCHANGED <<keeprunning, owner, job, threadRuns, clock>>
AddJobLater(j, priority) == AddJobWith(j, priority, clock + 1, TRUE)
AddJobSignalsFirst(j, priority) == AddJobWith(j, priority, clock, jobs = <<>>)
AddJobSilently(j, priority) == AddJobWith(j, priority, clock, FALSE)

\* A client makes a job and adds it.  No job class overrides Job::merge(),
\* which answers false.
AddJob(j, priority) ==
    /\ owner = "open"
    /\ j \notin allocated
    /\ allocated' = allocated \cup {j}
    /\ rank' = [rank EXCEPT ![j] = [priority |-> priority, ctime |-> clock]]
    /\ jobs' = WithJob(j)
    /\ Signal
    /\ UNCHANGED <<keeprunning, owner, job, threadRuns, clock>>

Nudge ==
    /\ owner = "open"
    /\ At("waiting") # {}
    /\ Signal
    /\ UNCHANGED <<jobs, keeprunning, owner, job, threadRuns, allocated, rank, clock>>

Tick ==
    /\ clock < MaxClock
    /\ clock' = clock + 1
    /\ UNCHANGED <<jobs, keeprunning, owner, pc, job, threadRuns, allocated, rank>>

-----------------------------------------------------------------------------
(***************************************************************************)
(* A thread: workloop() and getNextJob().                                  *)
(***************************************************************************)

\* The end of getNextJob(), with or without a job.
TakeFirst(t) ==
    /\ pc' = [pc EXCEPT ![t] = "got"]
    /\ IF jobs = <<>>
       THEN UNCHANGED <<job, jobs>>
       ELSE job' = [job EXCEPT ![t] = Head(jobs)] /\ jobs' = Tail(jobs)

Unchanged(t) == UNCHANGED <<keeprunning, owner, threadRuns, allocated, rank, clock>>

\* A slip: the thread does not look at its flag.
LoopOn(t) == pc' = [pc EXCEPT ![t] = "loop"]

\* `run = keeprunning', before the first iteration and at the end of each.
LoopOrExit(t) == pc' = [pc EXCEPT ![t] = IF threadRuns[t] THEN "loop" ELSE "exited"]

Enter(t) ==
    /\ pc[t] = "start"
    /\ LoopOrExit(t)
    /\ UNCHANGED <<jobs, job>>
    /\ Unchanged(t)

GetNextJob(t) ==
    /\ pc[t] = "loop"
    /\ IF keeprunning /\ jobs = <<>>
       THEN pc' = [pc EXCEPT ![t] = "waiting"] /\ UNCHANGED <<job, jobs>>
       ELSE TakeFirst(t)
    /\ Unchanged(t)

\* pthread_cond_wait() may return without a signal.
SpuriousWakeup(t) ==
    /\ pc[t] = "waiting"
    /\ pc' = [pc EXCEPT ![t] = "woken"]
    /\ UNCHANGED <<jobs, job>>
    /\ Unchanged(t)

ReturnFromWait(t) ==
    /\ pc[t] = "woken"
    /\ TakeFirst(t)
    /\ Unchanged(t)

\* `job = j' under the thread's mutex; the job runs after that.
StartJob(t) ==
    /\ pc[t] = "got"
    /\ job[t] # NoJob
    /\ pc' = [pc EXCEPT ![t] = "running"]
    /\ UNCHANGED <<jobs, job>>
    /\ Unchanged(t)

NothingToRun(t) ==
    /\ pc[t] = "got"
    /\ job[t] = NoJob
    /\ LoopOrExit(t)
    /\ UNCHANGED <<jobs, job>>
    /\ Unchanged(t)

\* A slip: JobThread::job still points to the deleted job.
FinishJobDangling(t) ==
    /\ pc[t] = "running"
    /\ allocated' = allocated \ {job[t]}
    /\ LoopOrExit(t)
    /\ UNCHANGED <<jobs, keeprunning, owner, job, threadRuns, rank, clock>>

FinishJob(t) ==
    /\ pc[t] = "running"
    /\ allocated' = allocated \ {job[t]}
    /\ job' = [job EXCEPT ![t] = NoJob]
    /\ LoopOrExit(t)
    /\ UNCHANGED <<jobs, keeprunning, owner, threadRuns, rank, clock>>

-----------------------------------------------------------------------------
(***************************************************************************)
(* stop(), step by step.                                                   *)
(***************************************************************************)

StopBegin ==
    /\ owner = "open"
    /\ owner' = "telling"
    /\ keeprunning' = FALSE
    /\ UNCHANGED <<jobs, pc, job, threadRuns, allocated, rank, clock>>

\* JobThread::stop(); Job::stop() of the running job has no effect here.
StopThread(t) ==
    /\ owner = "telling"
    /\ threadRuns[t]
    /\ threadRuns' = [threadRuns EXCEPT ![t] = FALSE]
    /\ UNCHANGED <<jobs, keeprunning, owner, pc, job, allocated, rank, clock>>

\* A slip: the sleeping threads are not woken.
DropJobsSilently ==
    /\ owner = "telling"
    /\ \A t \in Thread : ~ threadRuns[t]
    /\ owner' = "joining"
    /\ allocated' = allocated \ {jobs[i] : i \in DOMAIN jobs}
    /\ jobs' = <<>>
    /\ UNCHANGED <<keeprunning, pc, job, threadRuns, rank, clock>>

\* pthread_cond_broadcast(), and the jobs that nobody took are deleted.
DropJobs ==
    /\ owner = "telling"
    /\ \A t \in Thread : ~ threadRuns[t]
    /\ owner' = "joining"
    /\ pc' = [t \in Thread |-> IF pc[t] = "waiting" THEN "woken" ELSE pc[t]]
    /\ allocated' = allocated \ {jobs[i] : i \in DOMAIN jobs}
    /\ jobs' = <<>>
    /\ UNCHANGED <<keeprunning, job, threadRuns, rank, clock>>

\* A slip: the threads are not waited for.
Detach ==
    /\ owner = "joining"
    /\ owner' = "gone"
    /\ UNCHANGED <<jobs, keeprunning, pc, job, threadRuns, allocated, rank, clock>>

\* waitTillFinished() for every thread; the queue is gone.
Join ==
    /\ owner = "joining"
    /\ \A t \in Thread : pc[t] = "exited"
    /\ owner' = "gone"
    /\ UNCHANGED <<jobs, keeprunning, pc, job, threadRuns, allocated, rank, clock>>

-----------------------------------------------------------------------------

Client == Nudge \/ Tick \/ \E j \in Job, priority \in Priority : AddJob(j, priority)

ThreadStep(t) ==
    \/ Enter(t)
    \/ GetNextJob(t)
    \/ ReturnFromWait(t)
    \/ StartJob(t)
    \/ NothingToRun(t)
    \/ FinishJob(t)

StopStep == DropJobs \/ Join \/ \E t \in Thread : StopThread(t)

Next ==
    \/ Client
    \/ StopBegin
    \/ StopStep
    \/ \E t \in Thread : ThreadStep(t) \/ SpuriousWakeup(t)

\* The operating system runs every thread, jobs end, and stop() goes on once
\* it was called.  Nobody has to add a job or to call stop().
Fairness ==
    /\ \A t \in Thread : WF_vars(ThreadStep(t))
    /\ WF_vars(StopStep)

Spec == Init /\ [][Next]_vars
FairSpec == Spec /\ Fairness

-----------------------------------------------------------------------------

TypeOK ==
    /\ jobs \in Seq(Job)
    /\ keeprunning \in BOOLEAN
    /\ owner \in {"open", "telling", "joining", "gone"}
    /\ pc \in [Thread -> Place]
    /\ job \in [Thread -> Job \cup {NoJob}]
    /\ threadRuns \in [Thread -> BOOLEAN]
    /\ allocated \in SUBSET Job
    /\ rank \in [Job -> [priority : Priority \cup {0}, ctime : 0..MaxClock]]
    /\ clock \in 0..MaxClock

\* Every job object is in the list once or with one thread, never in two
\* places and never in none: no job is run or deleted twice, none is leaked
\* (addJob, getNextJob, workloop, ~Private).
Queued == {jobs[i] : i \in DOMAIN jobs}
Held == {job[t] : t \in Thread} \ {NoJob}
OneOwner ==
    /\ allocated = Queued \cup Held
    /\ Queued \cap Held = {}
    /\ \A i, k \in DOMAIN jobs : jobs[i] = jobs[k] => i = k
    /\ \A t, u \in Thread : job[t] = job[u] /\ job[t] # NoJob => t = u

\* No wake-up is lost: while a thread sleeps, every job in the list has a
\* woken thread on its way to it (addJob signals for each job, getNextJob
\* sleeps only on an empty list, stop broadcasts).
NoLostWakeup ==
    At("waiting") # {} => Len(jobs) <= Cardinality(At("woken"))

\* Once the owner joins, no thread sleeps: nobody is left to wake it up.
NobodySleepsAtJoin == owner = "joining" => At("waiting") = {}

\* The queue runs jobs by priority, then by age: no job is behind one that
\* Job::operator< puts below it (job.h:43-49, "Return true if this job has
\* a lower priority or a later creation time").
ByPriority ==
    \A i, k \in DOMAIN jobs : i < k => ~ Less(jobs[i], jobs[k])

\* stop() comes to its end, whatever the threads were doing.
Stops == owner = "telling" ~> owner = "gone"

\* When no more jobs come, the ones that were accepted are all done.
Served == <>[][allocated' \subseteq allocated]_vars => <>[](allocated = {})

\* Where each job is, and how far the queue has come, as clients see it.
PlaceOf ==
    [j \in Job |-> IF j \in Queued THEN "queued"
                   ELSE IF j \in Held THEN CHOOSE t \in Thread : job[t] = j
                   ELSE "free"]

LifeOf == IF owner \in {"telling", "joining"} THEN "stopping" ELSE owner

Pool == INSTANCE JobPool WITH place <- PlaceOf, life <- LifeOf

\* The queue is a job pool as clients see it.
ImplementsPool == Pool!PoolSpec

=============================================================================
