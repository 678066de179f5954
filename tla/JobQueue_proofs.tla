----------------------------- MODULE JobQueue_proofs -----------------------------
(***************************************************************************)
(* What holds of the job queue for any number of threads and addresses:    *)
(* its types, that no job is lost, leaked or run twice, that no wake-up is *)
(* lost, that nobody sleeps when stop() joins, and that it is a job pool.  *)
(***************************************************************************)
EXTENDS JobQueue, FiniteSetTheorems, WellFoundedInduction, SequenceTheorems, TLAPS

-----------------------------------------------------------------------------
(***************************************************************************)
(* The list.                                                               *)
(***************************************************************************)

LEMMA SmallestOf ==
    ASSUME NEW S \in SUBSET Nat, S # {}
    PROVE  \E i \in S : \A k \in S : i <= k
  <1> DEFINE R == OpToRel(<, Nat)
  <1>1. IsWellFoundedOn(R, Nat)
    BY NatLessThanWellFounded
  <1> HIDE DEF R
  <1>2. PICK i \in S : \A k \in S : ~ (<<k, i>> \in R)
    BY <1>1, WFMin
  <1>3. \A k \in S : ~ k < i
    BY <1>2 DEF R, OpToRel
  <1> QED
    BY <1>3

(* addJob() finds a place: in front of the first job at a lower address, or *)
(* at the end.                                                              *)
LEMMA InsertPositionExists ==
    ASSUME jobs \in Seq(Job), NEW j \in Job
    PROVE  /\ InsertPosition(j) \in 1..(Len(jobs) + 1)
           /\ Len(jobs) \in Nat
  <1> DEFINE Lower == {i \in 1..Len(jobs) : j > jobs[i]}
             Found(i) == /\ \A k \in 1..(i - 1) : ~ j > jobs[k]
                         /\ i <= Len(jobs) => j > jobs[i]
  <1>1. Len(jobs) \in Nat
    OBVIOUS
  <1>2. \E i \in 1..(Len(jobs) + 1) : Found(i)
    <2>1. CASE Lower = {}
      <3>1. \A k \in 1..Len(jobs) : ~ j > jobs[k]
        BY <2>1
      <3>2. Len(jobs) + 1 \in 1..(Len(jobs) + 1) /\ (Len(jobs) + 1) - 1 = Len(jobs)
        BY <1>1
      <3>3. Found(Len(jobs) + 1)
        BY <1>1, <3>1, <3>2
      <3> QED
        BY <3>2, <3>3
    <2>2. CASE Lower # {}
      <3>0. Lower \in SUBSET Nat
        BY <1>1
      <3>1. PICK i \in Lower : \A k \in Lower : i <= k
        <4> HIDE DEF Lower
        <4> QED
          BY <2>2, <3>0, SmallestOf
      <3>2. \A k \in 1..(i - 1) : k \in 1..Len(jobs) /\ k < i
        BY <1>1, <3>1
      <3>3. Found(i)
        BY <3>1, <3>2
      <3> QED
        BY <1>1, <3>3
    <2> QED
      BY <2>1, <2>2
  <1> QED
    BY <1>1, <1>2 DEF InsertPosition

(* addJob() puts the job in one place and moves the others apart.          *)
LEMMA WithJobList ==
    ASSUME jobs \in Seq(Job), NEW j \in Job
    PROVE  /\ WithJob(j) \in Seq(Job)
           /\ Len(WithJob(j)) = Len(jobs) + 1
           /\ {WithJob(j)[k] : k \in DOMAIN WithJob(j)} = Queued \cup {j}
           /\ j \notin Queued /\ (\A i, k \in DOMAIN jobs : jobs[i] = jobs[k] => i = k)
                => \A i, k \in DOMAIN WithJob(j) : WithJob(j)[i] = WithJob(j)[k] => i = k
  <1> DEFINE n == Len(jobs)
             p == InsertPosition(j)
             list == WithJob(j)
             at(k) == IF k < p THEN jobs[k] ELSE IF k = p THEN j ELSE jobs[k - 1]
  <1>1. n \in Nat /\ p \in 1..(n + 1)
    BY InsertPositionExists
  <1>2. \A k \in 1..n : jobs[k] \in Job
    OBVIOUS
  <1>3. DOMAIN jobs = 1..n
    OBVIOUS
  <1>4. list = [k \in 1..(n + 1) |-> at(k)]
    BY DEF WithJob
  <1> HIDE DEF p, list, n
  <1>5. \A k \in 1..(n + 1) : at(k) \in Job
    <2> TAKE k \in 1..(n + 1)
    <2>1. CASE k < p
      BY <1>1, <1>2, <2>1
    <2>2. CASE k = p
      BY <2>2
    <2>3. CASE k > p
      <3>1. k - 1 \in 1..n
        BY <1>1, <2>3
      <3> QED
        BY <1>1, <1>2, <2>3, <3>1
    <2> QED
      BY <1>1, <2>1, <2>2, <2>3
  <1>6. list \in [1..(n + 1) -> Job]
    BY <1>4, <1>5
  <1>7. list \in Seq(Job) /\ Len(list) = n + 1 /\ DOMAIN list = 1..(n + 1)
    BY <1>1, <1>6
  <1>8. {list[k] : k \in 1..(n + 1)} = Queued \cup {j}
    <2>1. \A k \in 1..(n + 1) : list[k] \in Queued \cup {j}
      <3> TAKE k \in 1..(n + 1)
      <3>1. CASE k < p
        <4>1. k \in 1..n /\ list[k] = jobs[k]
          BY <1>1, <1>4, <3>1
        <4> QED
          BY <1>3, <4>1 DEF Queued
      <3>2. CASE k = p
        BY <1>1, <1>4, <3>2
      <3>3. CASE k > p
        <4>1. k - 1 \in 1..n /\ list[k] = jobs[k - 1]
          BY <1>1, <1>4, <3>3
        <4> QED
          BY <1>3, <4>1 DEF Queued
      <3> QED
        BY <1>1, <3>1, <3>2, <3>3
    <2>2. j \in {list[k] : k \in 1..(n + 1)}
      <3>1. p \in 1..(n + 1) /\ list[p] = j
        BY <1>1, <1>4
      <3> QED
        BY <3>1
    <2>3. \A i \in 1..n : jobs[i] \in {list[k] : k \in 1..(n + 1)}
      <3> TAKE i \in 1..n
      <3>1. CASE i < p
        <4>1. i \in 1..(n + 1) /\ list[i] = jobs[i]
          BY <1>1, <1>4, <3>1
        <4> QED
          BY <4>1
      <3>2. CASE i >= p
        <4>1. i + 1 \in 1..(n + 1) /\ list[i + 1] = jobs[i]
          BY <1>1, <1>4, <3>2
        <4> QED
          BY <4>1
      <3> QED
        BY <1>1, <3>1, <3>2
    <2> QED
      BY <1>3, <2>1, <2>2, <2>3 DEF Queued
  <1>9. ASSUME j \notin Queued, \A i, k \in DOMAIN jobs : jobs[i] = jobs[k] => i = k
        PROVE  \A i, k \in 1..(n + 1) : list[i] = list[k] => i = k
    <2> SUFFICES ASSUME NEW i \in 1..(n + 1), NEW k \in 1..(n + 1), at(i) = at(k)
                 PROVE  i = k
      BY <1>4
    <2>1. \A m \in 1..n : jobs[m] # j
      BY <1>3, <1>9 DEF Queued
    <2>2. \A m \in 1..(n + 1) : m < p => m \in 1..n
      BY <1>1
    <2>3. \A m \in 1..(n + 1) : m > p => m - 1 \in 1..n
      BY <1>1
    <2>4. i = p <=> k = p
      <3>1. CASE i = p
        BY <1>1, <2>1, <2>2, <2>3, <3>1
      <3>2. CASE k = p
        BY <1>1, <2>1, <2>2, <2>3, <3>2
      <3> QED
        BY <3>1, <3>2
    <2>5. CASE i # p
      <3> DEFINE a == IF i < p THEN i ELSE i - 1
                 b == IF k < p THEN k ELSE k - 1
      <3>1. a \in 1..n /\ b \in 1..n /\ at(i) = jobs[a] /\ at(k) = jobs[b]
        BY <1>1, <2>2, <2>3, <2>4, <2>5
      <3>2. a = b
        BY <1>3, <1>9, <3>1
      <3> QED
        BY <1>1, <2>4, <2>5, <3>2
    <2> QED
      BY <2>4, <2>5
  <1> QED
    BY <1>7, <1>8, <1>9 DEF n, list

-----------------------------------------------------------------------------
(***************************************************************************)
(* Types.                                                                  *)
(***************************************************************************)

(* A thread leaves getNextJob() with the first job, or with none.           *)
LEMMA TakeFirstTypes ==
    ASSUME TypeOK, NEW t \in Thread, TakeFirst(t)
    PROVE  /\ pc' \in [Thread -> Place]
           /\ jobs' \in Seq(Job)
           /\ job' \in [Thread -> Job \cup {NoJob}]
  <1>1. pc' \in [Thread -> Place]
    BY DEF TakeFirst, TypeOK, Place
  <1>2. CASE jobs = <<>>
    BY <1>1, <1>2 DEF TakeFirst, TypeOK
  <1>3. CASE jobs # <<>>
    <2>1. Head(jobs) \in Job /\ Tail(jobs) \in Seq(Job)
      BY <1>3, HeadTailProperties DEF TypeOK
    <2> QED
      BY <1>1, <1>3, <2>1 DEF TakeFirst, TypeOK
  <1> QED
    BY <1>2, <1>3

LEMMA SignalTypes ==
    ASSUME TypeOK, Signal
    PROVE  pc' \in [Thread -> Place]
  BY DEF TypeOK, Signal, At, Place

LEMMA TypeOKStep ==
    ASSUME TypeOK, [Next]_vars
    PROVE  TypeOK'
  <1> USE DEF TypeOK, Place
  <1>1. ASSUME NEW j \in Job, NEW priority \in Priority, AddJob(j, priority)
        PROVE  TypeOK'
    <2>1. pc' \in [Thread -> Place]
      BY <1>1, SignalTypes DEF AddJob
    <2>2. jobs' \in Seq(Job)
      BY <1>1, WithJobList DEF AddJob
    <2>3. rank' \in [Job -> [priority : Priority \cup {0}, ctime : 0..MaxClock]]
      BY <1>1 DEF AddJob
    <2> QED
      BY <1>1, <2>1, <2>2, <2>3 DEF AddJob
  <1>2. CASE Nudge
    BY <1>2, SignalTypes DEF Nudge
  <1>3. CASE Tick
    BY <1>3, QueueAssumption DEF Tick, QueueAssumption
  <1>4. CASE StopBegin
    BY <1>4 DEF StopBegin
  <1>5. ASSUME NEW t \in Thread, StopThread(t)
        PROVE  TypeOK'
    BY <1>5 DEF StopThread
  <1>6. CASE DropJobs
    <2>1. <<>> \in Seq(Job)
      OBVIOUS
    <2> QED
      BY <1>6, <2>1 DEF DropJobs
  <1>7. CASE Join
    BY <1>7 DEF Join
  <1>8. ASSUME NEW t \in Thread, Enter(t)
        PROVE  TypeOK'
    BY <1>8 DEF Enter, LoopOrExit, Unchanged
  <1>9. ASSUME NEW t \in Thread, GetNextJob(t)
        PROVE  TypeOK'
    <2>1. CASE keeprunning /\ jobs = <<>>
      BY <1>9, <2>1 DEF GetNextJob, Unchanged
    <2>2. CASE ~ (keeprunning /\ jobs = <<>>)
      BY <1>9, <2>2, TakeFirstTypes DEF GetNextJob, Unchanged
    <2> QED
      BY <2>1, <2>2
  <1>10. ASSUME NEW t \in Thread, ReturnFromWait(t)
         PROVE  TypeOK'
    BY <1>10, TakeFirstTypes DEF ReturnFromWait, Unchanged
  <1>11. ASSUME NEW t \in Thread, StartJob(t)
         PROVE  TypeOK'
    BY <1>11 DEF StartJob, Unchanged
  <1>12. ASSUME NEW t \in Thread, NothingToRun(t)
         PROVE  TypeOK'
    BY <1>12 DEF NothingToRun, LoopOrExit, Unchanged
  <1>13. ASSUME NEW t \in Thread, FinishJob(t)
         PROVE  TypeOK'
    BY <1>13 DEF FinishJob, LoopOrExit
  <1>14. ASSUME NEW t \in Thread, SpuriousWakeup(t)
         PROVE  TypeOK'
    BY <1>14 DEF SpuriousWakeup, Unchanged
  <1>15. CASE UNCHANGED vars
    BY <1>15 DEF vars
  <1> QED
    BY <1>1, <1>2, <1>3, <1>4, <1>5, <1>6, <1>7, <1>8, <1>9, <1>10, <1>11, <1>12,
       <1>13, <1>14, <1>15
       DEF Next, Client, StopStep, ThreadStep

LEMMA TypeOKInit == Init => TypeOK
  <1> SUFFICES ASSUME Init
               PROVE  TypeOK
    OBVIOUS
  <1>1. <<>> \in Seq(Job)
    OBVIOUS
  <1>2. 0 \in 0..MaxClock
    BY QueueAssumption DEF QueueAssumption
  <1> QED
    BY <1>1, <1>2 DEF Init, TypeOK, Place

(* Every variable has its type in every reachable state, for any number of  *)
(* threads and addresses (jobqueue.cpp, the members of Private, JobThread). *)
THEOREM TypeCorrect == Spec => []TypeOK
  BY TypeOKInit, TypeOKStep, PTL DEF Spec

-----------------------------------------------------------------------------
(***************************************************************************)
(* Every job has one owner.                                                *)
(***************************************************************************)

(* A thread has a job exactly while it carries it from getNextJob() to the  *)
(* end of the loop.                                                         *)
Carrying ==
    \A t \in Thread :
        /\ job[t] # NoJob => pc[t] \in {"got", "running"}
        /\ pc[t] = "running" => job[t] # NoJob

OwnerInv == TypeOK /\ Carrying /\ OneOwner

LEMMA TailList ==
    ASSUME jobs \in Seq(Job), jobs # <<>>,
           \A i, k \in DOMAIN jobs : jobs[i] = jobs[k] => i = k
    PROVE  /\ Head(jobs) \in Queued
           /\ {Tail(jobs)[i] : i \in DOMAIN Tail(jobs)} = Queued \ {Head(jobs)}
           /\ \A i, k \in DOMAIN Tail(jobs) : Tail(jobs)[i] = Tail(jobs)[k] => i = k
  <1> DEFINE n == Len(jobs)
  <1>1. n \in Nat /\ n >= 1 /\ DOMAIN jobs = 1..n
    BY EmptySeq
  <1>2. Head(jobs) = jobs[1]
    OBVIOUS
  <1>3. /\ Tail(jobs) \in Seq(Job)
        /\ Len(Tail(jobs)) = n - 1
        /\ DOMAIN Tail(jobs) = 1..(n - 1)
        /\ \A i \in 1..(n - 1) : Tail(jobs)[i] = jobs[i + 1]
    BY <1>1
  <1>4. \A i \in 1..(n - 1) : i + 1 \in 1..n /\ i + 1 # 1
    BY <1>1
  <1>5. \A i \in 1..n : i # 1 => i - 1 \in 1..(n - 1) /\ (i - 1) + 1 = i
    BY <1>1
  <1> HIDE DEF n
  <1>6. 1 \in 1..n
    BY <1>1
  <1>7. Head(jobs) \in Queued
    BY <1>1, <1>2, <1>6 DEF Queued
  <1>8. \A i \in 1..(n - 1) : Tail(jobs)[i] \in Queued \ {Head(jobs)}
    BY <1>1, <1>2, <1>3, <1>4, <1>6 DEF Queued
  <1>9. \A i \in 1..n : jobs[i] # Head(jobs) => jobs[i] = Tail(jobs)[i - 1]
    BY <1>2, <1>3, <1>5
  <1>10. \A j \in Queued \ {Head(jobs)} : \E i \in 1..(n - 1) : j = Tail(jobs)[i]
    <2> TAKE j \in Queued \ {Head(jobs)}
    <2>1. PICK i \in 1..n : j = jobs[i]
      BY <1>1 DEF Queued
    <2>2. i # 1
      BY <1>2, <2>1
    <2> QED
      BY <1>5, <1>9, <2>1, <2>2
  <1>11. {Tail(jobs)[i] : i \in DOMAIN Tail(jobs)} = Queued \ {Head(jobs)}
    <2>1. {Tail(jobs)[i] : i \in 1..(n - 1)} \subseteq Queued \ {Head(jobs)}
      BY <1>8
    <2>2. Queued \ {Head(jobs)} \subseteq {Tail(jobs)[i] : i \in 1..(n - 1)}
      BY <1>10
    <2> QED
      BY <1>3, <2>1, <2>2
  <1>12. ASSUME NEW i \in 1..(n - 1), NEW k \in 1..(n - 1), Tail(jobs)[i] = Tail(jobs)[k]
         PROVE  i = k
    <2>1. i + 1 = k + 1
      BY <1>1, <1>3, <1>4, <1>12
    <2> QED
      BY <2>1
  <1> QED
    BY <1>3, <1>7, <1>11, <1>12

LEMMA CarryingStep ==
    ASSUME TypeOK, Carrying, [Next]_vars
    PROVE  Carrying'
  <1> USE DEF TypeOK, Carrying
  <1>1. ASSUME NEW j \in Job, NEW priority \in Priority, AddJob(j, priority)
        PROVE  Carrying'
    BY <1>1 DEF AddJob, Signal, At
  <1>2. CASE Nudge
    BY <1>2 DEF Nudge, Signal, At
  <1>3. CASE Tick
    BY <1>3 DEF Tick
  <1>4. CASE StopBegin
    BY <1>4 DEF StopBegin
  <1>5. ASSUME NEW t \in Thread, StopThread(t)
        PROVE  Carrying'
    BY <1>5 DEF StopThread
  <1>6. CASE DropJobs
    BY <1>6 DEF DropJobs
  <1>7. CASE Join
    BY <1>7 DEF Join
  <1>8. ASSUME NEW t \in Thread, Enter(t)
        PROVE  Carrying'
    BY <1>8 DEF Enter, LoopOrExit, Unchanged
  <1>9. ASSUME NEW t \in Thread, GetNextJob(t)
        PROVE  Carrying'
    BY <1>9 DEF GetNextJob, TakeFirst, Unchanged
  <1>10. ASSUME NEW t \in Thread, ReturnFromWait(t)
         PROVE  Carrying'
    BY <1>10 DEF ReturnFromWait, TakeFirst, Unchanged
  <1>11. ASSUME NEW t \in Thread, StartJob(t)
         PROVE  Carrying'
    BY <1>11 DEF StartJob, Unchanged
  <1>12. ASSUME NEW t \in Thread, NothingToRun(t)
         PROVE  Carrying'
    BY <1>12 DEF NothingToRun, LoopOrExit, Unchanged
  <1>13. ASSUME NEW t \in Thread, FinishJob(t)
         PROVE  Carrying'
    BY <1>13 DEF FinishJob, LoopOrExit
  <1>14. ASSUME NEW t \in Thread, SpuriousWakeup(t)
         PROVE  Carrying'
    BY <1>14 DEF SpuriousWakeup, Unchanged
  <1>15. CASE UNCHANGED vars
    BY <1>15 DEF vars
  <1> QED
    BY <1>1, <1>2, <1>3, <1>4, <1>5, <1>6, <1>7, <1>8, <1>9, <1>10, <1>11, <1>12,
       <1>13, <1>14, <1>15
       DEF Next, Client, StopStep, ThreadStep

(* Taking the first job moves it from the list to the thread.               *)
LEMMA TakeFirstOwner ==
    ASSUME OwnerInv, NEW t \in Thread, pc[t] \notin {"got", "running"},
           TakeFirst(t), allocated' = allocated
    PROVE  OneOwner'
  <1>1. job[t] = NoJob
    BY DEF OwnerInv, Carrying
  <1>2. CASE jobs = <<>>
    BY <1>2 DEF OwnerInv, OneOwner, TakeFirst, Queued, Held
  <1>3. CASE jobs # <<>>
    <2> DEFINE h == Head(jobs)
    <2>1. /\ h \in Queued
          /\ {Tail(jobs)[i] : i \in DOMAIN Tail(jobs)} = Queued \ {h}
          /\ \A i, k \in DOMAIN Tail(jobs) : Tail(jobs)[i] = Tail(jobs)[k] => i = k
      BY <1>3, TailList DEF OwnerInv, OneOwner, TypeOK
    <2>2. h \in Job /\ h # NoJob
      BY <1>3, HeadTailProperties, QueueAssumption
         DEF OwnerInv, TypeOK, QueueAssumption, NoJob
    <2>3. jobs' = Tail(jobs) /\ job' = [job EXCEPT ![t] = h]
      BY <1>3 DEF TakeFirst
    <2>4. Queued' = Queued \ {h}
      BY <2>1, <2>3 DEF Queued
    <2> HIDE DEF h
    <2>5. \A u \in Thread : job'[u] = IF u = t THEN h ELSE job[u]
      BY <2>3 DEF OwnerInv, TypeOK
    <2>6. Held' = Held \cup {h}
      BY <1>1, <2>2, <2>5 DEF Held
    <2>7. h \notin Held
      BY <2>1 DEF OwnerInv, OneOwner
    <2>8. allocated' = Queued' \cup Held' /\ Queued' \cap Held' = {}
      BY <2>1, <2>4, <2>6, <2>7 DEF OwnerInv, OneOwner
    <2>9. \A u \in Thread : job[u] # h
      BY <2>2, <2>7 DEF Held
    <2>10. \A u, w \in Thread : job'[u] = job'[w] /\ job'[u] # NoJob => u = w
      BY <2>5, <2>9 DEF OwnerInv, OneOwner
    <2> QED
      BY <2>1, <2>3, <2>8, <2>10 DEF OneOwner
  <1> QED
    BY <1>2, <1>3

LEMMA OneOwnerStep ==
    ASSUME OwnerInv, [Next]_vars
    PROVE  OneOwner'
  <1>1. ASSUME NEW j \in Job, NEW priority \in Priority, AddJob(j, priority)
        PROVE  OneOwner'
    <2>1. jobs' = WithJob(j) /\ job' = job /\ allocated' = allocated \cup {j}
      BY <1>1 DEF AddJob
    <2>2. j \notin Queued /\ j \notin Held
      BY <1>1 DEF AddJob, OwnerInv, OneOwner
    <2>3. Queued' = Queued \cup {j} /\ Held' = Held
      <3>1. Queued' = {WithJob(j)[k] : k \in DOMAIN WithJob(j)} /\ Held' = Held
        BY <2>1 DEF Queued, Held
      <3> QED
        BY <3>1, WithJobList DEF OwnerInv, TypeOK
    <2>4. \A i, k \in DOMAIN jobs' : jobs'[i] = jobs'[k] => i = k
      BY <2>1, <2>2, WithJobList DEF OwnerInv, OneOwner, TypeOK
    <2>5. allocated' = Queued' \cup Held' /\ Queued' \cap Held' = {}
      BY <2>1, <2>2, <2>3 DEF OwnerInv, OneOwner
    <2> QED
      BY <2>1, <2>4, <2>5 DEF OwnerInv, OneOwner
  <1>2. CASE UNCHANGED <<jobs, job, allocated>>
    BY <1>2 DEF OwnerInv, OneOwner, Queued, Held
  <1>3. CASE DropJobs
    <2>1. jobs' = <<>> /\ job' = job /\ allocated' = allocated \ Queued
      BY <1>3 DEF DropJobs, Queued
    <2>2. Queued' = {} /\ Held' = Held
      BY <2>1 DEF Queued, Held
    <2>3. allocated' = Held
      BY <2>1 DEF OwnerInv, OneOwner
    <2>4. \A i, k \in DOMAIN jobs' : jobs'[i] = jobs'[k] => i = k
      BY <2>1
    <2> QED
      BY <2>1, <2>2, <2>3, <2>4 DEF OwnerInv, OneOwner
  <1>4. ASSUME NEW t \in Thread, GetNextJob(t)
        PROVE  OneOwner'
    <2>1. CASE UNCHANGED <<job, jobs>>
      BY <1>2, <1>4, <2>1 DEF GetNextJob, Unchanged
    <2>2. CASE TakeFirst(t)
      BY <1>4, <2>2, TakeFirstOwner DEF GetNextJob, Unchanged
    <2> QED
      BY <1>4, <2>1, <2>2 DEF GetNextJob
  <1>5. ASSUME NEW t \in Thread, ReturnFromWait(t)
        PROVE  OneOwner'
    BY <1>5, TakeFirstOwner DEF ReturnFromWait, Unchanged
  <1>6. ASSUME NEW t \in Thread, FinishJob(t)
        PROVE  OneOwner'
    <2>1. jobs' = jobs /\ job' = [job EXCEPT ![t] = NoJob] /\ allocated' = allocated \ {job[t]}
      BY <1>6 DEF FinishJob
    <2>2. job[t] \in Held
      BY <1>6 DEF FinishJob, OwnerInv, Carrying, Held
    <2>3. \A u \in Thread : job'[u] = IF u = t THEN NoJob ELSE job[u]
      BY <2>1 DEF OwnerInv, TypeOK
    <2>4. Held' = Held \ {job[t]}
      BY <2>3 DEF Held, OwnerInv, OneOwner
    <2>5. Queued' = Queued
      BY <2>1 DEF Queued
    <2>6. allocated' = Queued' \cup Held' /\ Queued' \cap Held' = {}
      BY <2>1, <2>2, <2>4, <2>5 DEF OwnerInv, OneOwner
    <2> QED
      BY <2>1, <2>3, <2>6 DEF OwnerInv, OneOwner
  <1> QED
    BY <1>1, <1>2, <1>3, <1>4, <1>5, <1>6
       DEF Next, Client, StopStep, ThreadStep, Nudge, Tick, StopBegin, StopThread, Join,
           Enter, StartJob, NothingToRun, SpuriousWakeup, Unchanged, vars

LEMMA OwnerInvInit == Init => OwnerInv
  <1>1. Init => Carrying
    BY DEF Init, Carrying
  <1>2. Init => OneOwner
    BY DEF Init, OneOwner, Queued, Held
  <1> QED
    BY <1>1, <1>2, TypeOKInit DEF OwnerInv

LEMMA OwnerInvHolds == Spec => []OwnerInv
  <1>1. OwnerInv /\ [Next]_vars => OwnerInv'
    BY TypeOKStep, CarryingStep, OneOwnerStep DEF OwnerInv
  <1> QED
    BY <1>1, OwnerInvInit, PTL DEF Spec

(* No job is lost, leaked, run twice or deleted twice: each is in the list   *)
(* once or with one thread (addJob, getNextJob, workloop and ~Private).      *)
THEOREM EveryJobHasOneOwner == Spec => []OneOwner
  <1>1. OwnerInv => OneOwner
    BY DEF OwnerInv
  <1> QED
    BY <1>1, OwnerInvHolds, PTL

-----------------------------------------------------------------------------
(***************************************************************************)
(* No wake-up is lost.                                                     *)
(***************************************************************************)

LEMMA WokenIsFinite ==
    /\ IsFiniteSet(At("woken"))
    /\ Cardinality(At("woken")) \in Nat
    /\ Cardinality(At("woken")') \in Nat
  <1>1. At("woken") \subseteq Thread /\ At("woken")' \subseteq Thread
    BY DEF At
  <1> QED
    BY <1>1, FS_Subset, FS_CardinalityType, QueueAssumption DEF QueueAssumption

(* A thread that is woken goes from the sleepers to the woken ones.          *)
LEMMA WakeOne ==
    ASSUME TypeOK, NEW t \in At("waiting"), pc' = [pc EXCEPT ![t] = "woken"]
    PROVE  Cardinality(At("woken")') = Cardinality(At("woken")) + 1
  <1>1. t \in Thread /\ t \notin At("woken")
    BY DEF At
  <1>2. At("woken")' = At("woken") \cup {t}
    BY <1>1 DEF At, TypeOK
  <1> QED
    BY <1>1, <1>2, WokenIsFinite, FS_AddElement

LEMMA NobodyMoves ==
    ASSUME TypeOK, NEW t \in Thread, NEW place \in Place \ {"waiting", "woken"},
           pc[t] \notin {"waiting", "woken"}, pc' = [pc EXCEPT ![t] = place]
    PROVE  At("woken")' = At("woken") /\ At("waiting")' = At("waiting")
  BY DEF TypeOK, At

LEMMA NoLostWakeupStep ==
    ASSUME TypeOK, NoLostWakeup, [Next]_vars
    PROVE  NoLostWakeup'
  <1>1. ASSUME NEW j \in Job, NEW priority \in Priority, AddJob(j, priority)
        PROVE  NoLostWakeup'
    <2>1. Len(jobs') = Len(jobs) + 1 /\ Len(jobs) \in Nat
      BY <1>1, WithJobList DEF AddJob, TypeOK
    <2>2. CASE At("waiting") = {}
      BY <1>1, <2>2 DEF AddJob, Signal, NoLostWakeup, At
    <2>3. CASE At("waiting") # {}
      <3>1. PICK t \in At("waiting") : pc' = [pc EXCEPT ![t] = "woken"]
        BY <1>1, <2>3 DEF AddJob, Signal
      <3>2. Cardinality(At("woken")') = Cardinality(At("woken")) + 1
        BY <3>1, WakeOne
      <3>3. Cardinality(At("woken")) \in Nat
        BY WokenIsFinite
      <3>4. Len(jobs) <= Cardinality(At("woken"))
        BY <2>3 DEF NoLostWakeup
      <3> QED
        BY <2>1, <3>2, <3>3, <3>4 DEF NoLostWakeup
    <2> QED
      BY <2>2, <2>3
  <1>2. ASSUME NEW t \in At("waiting"), pc' = [pc EXCEPT ![t] = "woken"], jobs' = jobs
        PROVE  NoLostWakeup'
    <2>1. Len(jobs) <= Cardinality(At("woken"))
      BY <1>2 DEF NoLostWakeup
    <2>2. Len(jobs) \in Nat
      BY DEF TypeOK
    <2>3. Cardinality(At("woken")') = Cardinality(At("woken")) + 1
      BY <1>2, WakeOne
    <2>4. Cardinality(At("woken")) \in Nat
      BY WokenIsFinite
    <2> QED
      BY <1>2, <2>1, <2>2, <2>3, <2>4 DEF NoLostWakeup
  <1>3. CASE Nudge
    <2>1. PICK t \in At("waiting") : pc' = [pc EXCEPT ![t] = "woken"]
      BY <1>3 DEF Nudge, Signal
    <2> QED
      BY <1>2, <1>3, <2>1 DEF Nudge
  <1>4. ASSUME NEW t \in Thread, SpuriousWakeup(t)
        PROVE  NoLostWakeup'
    <2>1. t \in At("waiting")
      BY <1>4 DEF SpuriousWakeup, At
    <2> QED
      BY <1>2, <1>4, <2>1 DEF SpuriousWakeup
  <1>5. CASE UNCHANGED <<jobs, pc>>
    BY <1>5 DEF NoLostWakeup, At
  <1>6. ASSUME jobs' = <<>>
        PROVE  NoLostWakeup'
    <2>1. Len(jobs') = 0
      BY <1>6
    <2>2. Cardinality(At("woken")') \in Nat
      BY WokenIsFinite
    <2> QED
      BY <2>1, <2>2 DEF NoLostWakeup
  <1>7. CASE DropJobs
    BY <1>6, <1>7 DEF DropJobs
  <1>8. ASSUME NEW t \in Thread, pc[t] \notin {"waiting", "woken"}, jobs' = jobs,
               NEW place \in Place \ {"waiting", "woken"}, pc' = [pc EXCEPT ![t] = place]
        PROVE  NoLostWakeup'
    BY <1>8, NobodyMoves DEF NoLostWakeup
  <1>9. ASSUME NEW t \in Thread, Enter(t) \/ StartJob(t) \/ NothingToRun(t) \/ FinishJob(t)
        PROVE  NoLostWakeup'
    <2>1. jobs' = jobs /\ pc[t] \notin {"waiting", "woken"}
      BY <1>9 DEF Enter, StartJob, NothingToRun, FinishJob
    <2>2. \E place \in {"running", "loop", "exited"} : pc' = [pc EXCEPT ![t] = place]
      BY <1>9 DEF Enter, StartJob, NothingToRun, FinishJob, LoopOrExit
    <2> QED
      BY <1>8, <2>1, <2>2 DEF Place
  <1>10. ASSUME NEW t \in Thread, TakeFirst(t), jobs # <<>>
         PROVE  Len(jobs) \in Nat /\ Len(jobs') = Len(jobs) - 1
    <2>1. jobs' = Tail(jobs) /\ jobs \in Seq(Job)
      BY <1>10 DEF TakeFirst, TypeOK
    <2> QED
      BY <1>10, <2>1, HeadTailProperties
  <1>11. ASSUME NEW t \in Thread, GetNextJob(t)
         PROVE  NoLostWakeup'
    <2>1. CASE jobs = <<>>
      BY <1>6, <1>11, <2>1 DEF GetNextJob, TakeFirst
    <2>2. CASE jobs # <<>>
      <3>1. TakeFirst(t) /\ pc[t] = "loop"
        BY <1>11, <2>2 DEF GetNextJob
      <3>2. At("woken")' = At("woken") /\ At("waiting")' = At("waiting")
        BY <3>1, NobodyMoves DEF TakeFirst, Place
      <3> QED
        BY <1>10, <2>2, <3>1, <3>2, WokenIsFinite DEF NoLostWakeup
    <2> QED
      BY <2>1, <2>2
  <1>12. ASSUME NEW t \in Thread, ReturnFromWait(t)
         PROVE  NoLostWakeup'
    <2>1. CASE jobs = <<>>
      BY <1>6, <1>12, <2>1 DEF ReturnFromWait, TakeFirst
    <2>2. CASE jobs # <<>>
      <3>1. t \in At("woken") /\ pc' = [pc EXCEPT ![t] = "got"]
        BY <1>12 DEF ReturnFromWait, TakeFirst, At
      <3>2. At("woken")' = At("woken") \ {t} /\ At("waiting")' = At("waiting")
        BY <3>1 DEF At, TypeOK
      <3>3. Cardinality(At("woken")') = Cardinality(At("woken")) - 1
        BY <3>1, <3>2, WokenIsFinite, FS_RemoveElement
      <3> QED
        BY <1>10, <1>12, <2>2, <3>2, <3>3, WokenIsFinite DEF ReturnFromWait, NoLostWakeup
    <2> QED
      BY <2>1, <2>2
  <1> QED
    BY <1>1, <1>3, <1>4, <1>5, <1>7, <1>9, <1>11, <1>12
       DEF Next, Client, StopStep, ThreadStep, Tick, StopBegin, StopThread, Join, vars

(* No wake-up is lost: while a thread sleeps, every job in the list has a    *)
(* woken thread on its way to it (addJob, getNextJob and stop).              *)
THEOREM NoWakeupIsLost == Spec => []NoLostWakeup
  <1>1. Init => NoLostWakeup
    BY DEF Init, NoLostWakeup, At
  <1> QED
    BY <1>1, NoLostWakeupStep, TypeCorrect, PTL DEF Spec

-----------------------------------------------------------------------------
(***************************************************************************)
(* Nobody sleeps when the owner joins.                                     *)
(***************************************************************************)

(* getNextJob() sleeps only while the queue runs, and it runs only while it  *)
(* is open: nobody goes to sleep after the broadcast.                        *)
SleepInv ==
    /\ owner # "open" => ~ keeprunning
    /\ owner = "joining" => At("waiting") = {}

LEMMA SleepInvStep ==
    ASSUME TypeOK, SleepInv, [Next]_vars
    PROVE  SleepInv'
  <1>1. ASSUME owner' = owner, keeprunning' = keeprunning,
               owner = "joining" => At("waiting")' \subseteq At("waiting")
        PROVE  SleepInv'
    BY <1>1 DEF SleepInv
  <1>2. ASSUME NEW t \in Thread, ThreadStep(t) \/ SpuriousWakeup(t)
        PROVE  SleepInv'
    <2>1. owner' = owner /\ keeprunning' = keeprunning
      BY <1>2 DEF ThreadStep, SpuriousWakeup, Enter, GetNextJob, ReturnFromWait, StartJob,
                  NothingToRun, FinishJob, Unchanged
    <2>2. ASSUME owner = "joining"
          PROVE  \E place \in Place \ {"waiting"} : pc' = [pc EXCEPT ![t] = place]
      <3>1. ~ keeprunning
        BY <2>2 DEF SleepInv
      <3> QED
        BY <1>2, <3>1
           DEF ThreadStep, SpuriousWakeup, Enter, GetNextJob, ReturnFromWait, StartJob,
               NothingToRun, FinishJob, LoopOrExit, TakeFirst, Place
    <2>3. owner = "joining" => At("waiting")' \subseteq At("waiting")
      BY <2>2 DEF At, TypeOK
    <2> QED
      BY <1>1, <2>1, <2>3
  <1>3. CASE Client
    BY <1>3 DEF Client, Nudge, Tick, AddJob, SleepInv, At
  <1>4. CASE StopBegin
    BY <1>4 DEF StopBegin, SleepInv
  <1>5. CASE DropJobs
    BY <1>5 DEF DropJobs, SleepInv, At
  <1>6. CASE Join
    BY <1>6 DEF Join, SleepInv
  <1>7. ASSUME NEW t \in Thread, StopThread(t)
        PROVE  SleepInv'
    BY <1>7 DEF StopThread, SleepInv
  <1>8. CASE UNCHANGED vars
    BY <1>8 DEF vars, SleepInv, At
  <1> QED
    BY <1>2, <1>3, <1>4, <1>5, <1>6, <1>7, <1>8 DEF Next, StopStep

(* Once stop() joins its threads, no thread sleeps: nobody is left to wake   *)
(* it up (getNextJob and the broadcast of stop).                             *)
THEOREM NobodySleeps == Spec => []NobodySleepsAtJoin
  <1>1. Init => SleepInv
    BY DEF Init, SleepInv
  <1>2. SleepInv => NobodySleepsAtJoin
    BY DEF SleepInv, NobodySleepsAtJoin
  <1> QED
    BY <1>1, <1>2, SleepInvStep, TypeCorrect, PTL DEF Spec

-----------------------------------------------------------------------------
(***************************************************************************)
(* The queue is a job pool.                                                *)
(***************************************************************************)

(* What one owner per job makes of the place of a job.                       *)
Located ==
    /\ PlaceOf \in [Job -> Thread \cup {"queued", "free"}]
    /\ \A j \in Job : PlaceOf[j] = "queued" <=> j \in Queued
    /\ \A j \in Job, t \in Thread : PlaceOf[j] = t <=> job[t] = j
    /\ \A j \in Job : PlaceOf[j] = "free" <=> j \notin allocated

LEMMA LocatedFromOwner == OwnerInv => Located
  <1> SUFFICES ASSUME OwnerInv
               PROVE  Located
    OBVIOUS
  <1>1. ASSUME NEW j \in Job
        PROVE  /\ PlaceOf[j] \in Thread \cup {"queued", "free"}
               /\ PlaceOf[j] = "queued" <=> j \in Queued
               /\ \A t \in Thread : PlaceOf[j] = t <=> job[t] = j
               /\ PlaceOf[j] = "free" <=> j \notin allocated
    <2>1. j # NoJob
      BY QueueAssumption DEF QueueAssumption, NoJob
    <2>2. \A t \in Thread : t # "queued" /\ t # "free"
      BY QueueAssumption DEF QueueAssumption
    <2>3. CASE j \in Queued
      <3>1. PlaceOf[j] = "queued" /\ j \notin Held /\ j \in allocated
        BY <2>3 DEF PlaceOf, OwnerInv, OneOwner
      <3>2. \A t \in Thread : job[t] # j
        BY <2>1, <3>1 DEF Held
      <3> QED
        BY <2>2, <2>3, <3>1, <3>2
    <2>4. CASE j \in Held
      <3>1. PICK u \in Thread : job[u] = j
        BY <2>4 DEF Held
      <3>2. \A t \in Thread : job[t] = j => t = u
        BY <2>1, <3>1 DEF OwnerInv, OneOwner
      <3>3. j \notin Queued /\ j \in allocated
        BY <2>4 DEF OwnerInv, OneOwner
      <3>4. PlaceOf[j] = u
        BY <2>4, <3>1, <3>2, <3>3 DEF PlaceOf
      <3> QED
        BY <2>2, <3>1, <3>2, <3>3, <3>4
    <2>5. CASE j \notin Queued /\ j \notin Held
      <3>1. PlaceOf[j] = "free" /\ j \notin allocated
        BY <2>5 DEF PlaceOf, OwnerInv, OneOwner
      <3>2. \A t \in Thread : job[t] # j
        BY <2>1, <2>5 DEF Held
      <3> QED
        BY <2>2, <2>5, <3>1, <3>2
    <2> QED
      BY <2>3, <2>4, <2>5
  <1>2. PlaceOf \in [Job -> Thread \cup {"queued", "free"}]
    <2>1. PlaceOf = [j \in Job |-> PlaceOf[j]]
      BY DEF PlaceOf
    <2> QED
      BY <1>1, <2>1
  <1> QED
    BY <1>1, <1>2 DEF Located

(* stop() leaves no job in the list, and joins every thread.                 *)
EndInv ==
    /\ owner \in {"joining", "gone"} => jobs = <<>>
    /\ owner = "gone" => \A t \in Thread : pc[t] = "exited"

LEMMA EndInvStep ==
    ASSUME TypeOK, EndInv, [Next]_vars
    PROVE  EndInv'
  <1> USE DEF TypeOK, EndInv
  <1>1. CASE Client
    BY <1>1 DEF Client, Nudge, Tick, AddJob
  <1>2. CASE StopBegin \/ DropJobs \/ Join \/ UNCHANGED vars
    BY <1>2 DEF StopBegin, DropJobs, Join, vars
  <1>3. ASSUME NEW t \in Thread, StopThread(t)
        PROVE  EndInv'
    BY <1>3 DEF StopThread
  <1>4. ASSUME NEW t \in Thread, ThreadStep(t) \/ SpuriousWakeup(t)
        PROVE  EndInv'
    <2>1. owner' = owner /\ pc[t] # "exited"
      BY <1>4 DEF ThreadStep, SpuriousWakeup, Enter, GetNextJob, ReturnFromWait, StartJob,
                  NothingToRun, FinishJob, Unchanged
    <2>2. jobs = <<>> => jobs' = <<>>
      BY <1>4 DEF ThreadStep, SpuriousWakeup, Enter, GetNextJob, ReturnFromWait, StartJob,
                  NothingToRun, FinishJob, TakeFirst
    <2> QED
      BY <2>1, <2>2
  <1> QED
    BY <1>1, <1>2, <1>3, <1>4 DEF Next, StopStep

PoolInv == OwnerInv /\ EndInv /\ Located

LEMMA PoolInvHolds == Spec => []PoolInv
  <1>1. Init => EndInv
    BY DEF Init, EndInv
  <1>2. OwnerInv => TypeOK
    BY DEF OwnerInv
  <1>3. OwnerInv /\ EndInv => PoolInv
    BY LocatedFromOwner DEF PoolInv
  <1> QED
    BY <1>1, <1>2, <1>3, EndInvStep, OwnerInvHolds, PTL DEF Spec

(* Taking the first job of the list is Take, or nothing when there is none.  *)
LEMMA TakeFirstIsTake ==
    ASSUME PoolInv, Located', NEW t \in Thread, pc[t] \in {"loop", "woken"},
           TakeFirst(t), Unchanged(t)
    PROVE  [Pool!PoolNext]_Pool!poolVars
  <1>1. job[t] = NoJob /\ owner # "gone" /\ owner' = owner /\ allocated' = allocated
    BY DEF PoolInv, OwnerInv, Carrying, EndInv, Unchanged
  <1>2. CASE jobs = <<>>
    BY <1>1, <1>2
       DEF TakeFirst, Pool!poolVars, PlaceOf, LifeOf, Queued, Held
  <1>3. CASE jobs # <<>>
    <2>1. PICK h \in Job : /\ h \in Queued /\ Queued' = Queued \ {h}
                           /\ job' = [job EXCEPT ![t] = h]
      <3>1. Head(jobs) \in Queued /\ Head(jobs) \in Job
        BY <1>3, TailList, HeadTailProperties DEF PoolInv, OwnerInv, OneOwner, TypeOK
      <3>2. Queued' = {Tail(jobs)[i] : i \in DOMAIN Tail(jobs)}
        BY <1>3 DEF TakeFirst, Queued
      <3>3. Queued' = Queued \ {Head(jobs)}
        BY <1>3, <3>2, TailList DEF PoolInv, OwnerInv, OneOwner, TypeOK
      <3> QED
        BY <1>3, <3>1, <3>3 DEF TakeFirst
    <2>2. \A u \in Thread : job'[u] = IF u = t THEN h ELSE job[u]
      BY <2>1 DEF PoolInv, OwnerInv, TypeOK
    <2>3. \A j \in Job : j # NoJob
      BY QueueAssumption DEF QueueAssumption, NoJob
    <2>4. PlaceOf[h] = "queued" /\ \A k \in Job : PlaceOf[k] # t
      BY <1>1, <2>1, <2>3 DEF PoolInv, Located
    <2>5. \A k \in Job : PlaceOf'[k] = IF k = h THEN t ELSE PlaceOf[k]
      <3> TAKE k \in Job
      <3>1. CASE k = h
        BY <2>2, <3>1 DEF Located
      <3>2. CASE k # h
        <4>1. PlaceOf[k] \in (Thread \ {t}) \cup {"queued", "free"}
          BY <2>4 DEF PoolInv, Located
        <4> QED
          BY <1>1, <2>1, <2>2, <3>2, <4>1 DEF PoolInv, Located
      <3> QED
        BY <3>1, <3>2
    <2>6. PlaceOf' = [PlaceOf EXCEPT ![h] = t]
      BY <2>5 DEF PoolInv, Located
    <2>7. Pool!Take(h, t)
      BY <1>1, <2>4, <2>6 DEF Pool!Take, LifeOf
    <2> QED
      BY <2>7 DEF Pool!PoolNext
  <1> QED
    BY <1>2, <1>3

LEMMA PoolStep ==
    ASSUME PoolInv, PoolInv', [Next]_vars
    PROVE  [Pool!PoolNext]_Pool!poolVars
  <1>0. Located /\ Located'
    BY DEF PoolInv
  <1>1. ASSUME NEW j \in Job, NEW priority \in Priority, AddJob(j, priority)
        PROVE  Pool!PoolNext
    <2>1. /\ owner = "open" /\ owner' = owner /\ job' = job
          /\ j \notin allocated /\ allocated' = allocated \cup {j}
      BY <1>1 DEF AddJob
    <2>2. Queued' = Queued \cup {j}
      <3>1. Queued' = {WithJob(j)[k] : k \in DOMAIN WithJob(j)}
        BY <1>1 DEF AddJob, Queued
      <3> QED
        BY <3>1, WithJobList DEF PoolInv, OwnerInv, TypeOK
    <2>3. PlaceOf[j] = "free"
      BY <1>0, <2>1 DEF Located
    <2>4. \A k \in Job : PlaceOf'[k] = IF k = j THEN "queued" ELSE PlaceOf[k]
      <3> TAKE k \in Job
      <3>1. CASE k = j
        BY <1>0, <2>2, <3>1 DEF Located
      <3>2. CASE k # j
        <4>1. PlaceOf[k] \in Thread \cup {"queued", "free"}
          BY <1>0 DEF Located
        <4> QED
          BY <1>0, <2>1, <2>2, <3>2, <4>1 DEF Located
      <3> QED
        BY <3>1, <3>2
    <2>5. PlaceOf' = [PlaceOf EXCEPT ![j] = "queued"]
      BY <1>0, <2>4 DEF Located
    <2>6. Pool!Submit(j)
      BY <2>1, <2>3, <2>5 DEF Pool!Submit, LifeOf
    <2> QED
      BY <2>6 DEF Pool!PoolNext
  <1>2. CASE UNCHANGED <<jobs, job, owner>>
    BY <1>2 DEF Pool!poolVars, PlaceOf, LifeOf, Queued, Held
  <1>3. ASSUME NEW t \in Thread, GetNextJob(t)
        PROVE  [Pool!PoolNext]_Pool!poolVars
    <2>1. CASE UNCHANGED <<job, jobs>>
      BY <1>2, <1>3, <2>1 DEF GetNextJob, Unchanged
    <2>2. CASE TakeFirst(t)
      BY <1>0, <1>3, <2>2, TakeFirstIsTake DEF GetNextJob
    <2> QED
      BY <1>3, <2>1, <2>2 DEF GetNextJob
  <1>4. ASSUME NEW t \in Thread, ReturnFromWait(t)
        PROVE  [Pool!PoolNext]_Pool!poolVars
    BY <1>0, <1>4, TakeFirstIsTake DEF ReturnFromWait
  <1>5. ASSUME NEW t \in Thread, FinishJob(t)
        PROVE  Pool!PoolNext
    <2> DEFINE h == job[t]
    <2>1. h \in Job /\ h # NoJob
      BY <1>5 DEF FinishJob, PoolInv, OwnerInv, TypeOK, Carrying
    <2>2. owner # "gone" /\ owner' = owner
      BY <1>5 DEF FinishJob, PoolInv, EndInv
    <2>3. \A u \in Thread : job'[u] = IF u = t THEN NoJob ELSE job[u]
      BY <1>5 DEF FinishJob, PoolInv, OwnerInv, TypeOK
    <2>4. Queued' = Queued /\ allocated' = allocated \ {h}
      BY <1>5 DEF FinishJob, Queued
    <2>5. PlaceOf[h] = t
      BY <1>0, <2>1 DEF Located
    <2>6. \A k \in Job : PlaceOf'[k] = IF k = h THEN "free" ELSE PlaceOf[k]
      <3> TAKE k \in Job
      <3>1. CASE k = h
        BY <1>0, <2>4, <3>1 DEF Located
      <3>2. CASE k # h
        <4>1. PlaceOf[k] \in (Thread \ {t}) \cup {"queued", "free"}
          BY <1>0, <3>2 DEF Located
        <4> QED
          BY <1>0, <2>3, <2>4, <3>2, <4>1 DEF Located
      <3> QED
        BY <3>1, <3>2
    <2>7. PlaceOf' = [PlaceOf EXCEPT ![h] = "free"]
      BY <1>0, <2>6 DEF Located
    <2>8. Pool!Finish(h, t)
      BY <2>2, <2>5, <2>7 DEF Pool!Finish, LifeOf
    <2> QED
      BY <2>1, <2>8 DEF Pool!PoolNext
  <1>6. CASE StopBegin
    <2>1. PlaceOf' = PlaceOf
      BY <1>6 DEF StopBegin, PlaceOf, Queued, Held
    <2> QED
      BY <1>6, <2>1 DEF StopBegin, LifeOf, Pool!Stop, Pool!PoolNext
  <1>7. CASE DropJobs
    <2>1. Queued' = {} /\ job' = job
      BY <1>7 DEF DropJobs, Queued
    <2>2. \A k \in Job : PlaceOf'[k] = IF PlaceOf[k] = "queued" THEN "free" ELSE PlaceOf[k]
      <3> TAKE k \in Job
      <3>1. PlaceOf[k] \in Thread \cup {"queued", "free"} /\ PlaceOf'[k] \in Thread \cup {"queued", "free"}
        BY <1>0 DEF Located
      <3>2. \A t \in Thread : PlaceOf'[k] = t <=> PlaceOf[k] = t
        BY <1>0, <2>1 DEF Located
      <3>3. PlaceOf'[k] # "queued"
        BY <1>0, <2>1 DEF Located
      <3> QED
        BY <3>1, <3>2, <3>3, QueueAssumption DEF QueueAssumption
    <2>3. PlaceOf' = [k \in Job |-> IF PlaceOf[k] = "queued" THEN "free" ELSE PlaceOf[k]]
      BY <1>0, <2>2 DEF Located
    <2>4. LifeOf = "stopping" /\ LifeOf' = "stopping"
      BY <1>7 DEF DropJobs, LifeOf
    <2> QED
      BY <2>3, <2>4 DEF Pool!DropQueued, Pool!PoolNext
  <1>8. CASE Join
    <2>1. PlaceOf' = PlaceOf
      BY <1>8 DEF Join, PlaceOf, Queued, Held
    <2>2. Queued = {}
      BY <1>8 DEF Join, PoolInv, EndInv, Queued
    <2>3. \A t \in Thread : job[t] = NoJob
      BY <1>8 DEF Join, PoolInv, OwnerInv, Carrying
    <2>4. allocated = {}
      BY <2>2, <2>3 DEF PoolInv, OwnerInv, OneOwner, Held
    <2>5. \A j \in Job : PlaceOf[j] = "free"
      BY <1>0, <2>4 DEF Located
    <2> QED
      BY <1>8, <2>1, <2>5 DEF Join, LifeOf, Pool!Vanish, Pool!PoolNext
  <1> QED
    BY <1>1, <1>2, <1>3, <1>4, <1>5, <1>6, <1>7, <1>8
       DEF Next, Client, StopStep, ThreadStep, Nudge, Tick, StopThread,
           Enter, StartJob, NothingToRun, SpuriousWakeup, Unchanged, vars

(* The queue is a job pool as clients see it: a job that was accepted waits   *)
(* until one thread takes it and is with that thread until it ends.           *)
THEOREM QueueImplementsPool == Spec => ImplementsPool
  <1>1. Init => Pool!PoolInit
    <2> SUFFICES ASSUME Init
                 PROVE  Pool!PoolInit
      OBVIOUS
    <2>1. Queued = {} /\ Held = {}
      BY DEF Init, Queued, Held
    <2> QED
      BY <2>1 DEF Init, Pool!PoolInit, PlaceOf, LifeOf
  <1> QED
    BY <1>1, PoolStep, PoolInvHolds, PTL DEF Spec, ImplementsPool, Pool!PoolSpec
=============================================================================
