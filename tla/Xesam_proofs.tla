------------------------------ MODULE Xesam_proofs ------------------------------
(***************************************************************************)
(* For any number of sessions, searches, calls, jobs and threads: objects  *)
(* live as long as somebody holds them, a call is answered once, the count *)
(* a call waits for is on its way, and the hits follow each other.         *)
(***************************************************************************)
EXTENDS Xesam, FiniteSetTheorems, TLAPS

(* Types, as long as it is not known that no count falls below zero.        *)
ObjectsTyped ==
    /\ sessions \in SUBSET Session
    /\ searches \in SUBSET Search
    /\ listed \in [Session -> SUBSET Search]
    /\ sessionOf \in [Search -> Session \cup {None}]
    /\ sessionRefs \in [Session -> Int]
    /\ searchRefs \in [Search -> Int]
JobsTyped ==
    /\ place \in [Job -> {"free", "queued"} \cup Thread]
    /\ life \in {"open", "stopping", "gone"}
    /\ body \in [Job -> Body \cup {NoBody}]
StateTyped ==
    /\ hasCreatedSearches \in [Session -> BOOLEAN]
    /\ hitFields \in [Session -> {None, "other fields"}]
    /\ started \in [Search -> BOOLEAN]
    /\ hitcount \in [Search -> {Unknown, Counted}]
    /\ hitsgotten \in [Search -> Nat]
    /\ countMessages \in [Search -> SUBSET Msg]
    /\ reply \in [Msg -> {"unsent", "held", "answered"}]
    /\ window \in [Msg -> [search : Search \cup {None}, from : Nat, to : Nat]]
Typed == ObjectsTyped /\ JobsTyped /\ StateTyped

(* A job has a body from addJob() to its deletion, and a call to answer      *)
(* unless it counts.                                                         *)
Bodies ==
    \A j \in Job :
        /\ place[j] = "free" <=> body[j] = NoBody
        /\ body[j] # NoBody => (body[j].kind = "count" <=> body[j].msg = None)

(* Jobs are about searches that were made; a search is in the map as long as *)
(* it is in the list of its session.                                         *)
Made ==
    /\ \A s \in searches : sessionOf[s] # None
    /\ \A j \in Job : body[j] # NoBody => sessionOf[body[j].search] # None
    /\ \A x \in Session : listed[x] = {s \in searches : sessionOf[s] = x}

(* The two counts, with the list and the map taken together.                 *)
SearchCounted ==
    \A s \in Search : searchRefs[s] = (IF s \in searches THEN 2 ELSE 0) + Cardinality(Jobs(s))
SessionCounted ==
    \A x \in Session : sessionRefs[x] = One(x \in sessions) + Cardinality(Living(x))

RInv == Typed /\ Bodies /\ Made /\ SearchCounted /\ SessionCounted

(* The job that finds out a count is on its way from the start of the search.*)
Coming(s) == \E j \in Jobs(s) : body[j].kind = "count" /\ ~ body[j].done
CInv ==
    \A s \in Search :
        /\ started[s] /\ hitcount[s] = Unknown /\ life = "open" => Coming(s)
        /\ countMessages[s] # {} => started[s] /\ hitcount[s] = Unknown

(* A call is held by at most one, by somebody while the queue is open, and   *)
(* by nobody before it comes and after its answer.                           *)
MInv ==
    \A m \in Msg :
        /\ \A g, h \in Holders(m) : g = h
        /\ Holders(m) # {} => reply[m] = "held"
        /\ reply[m] = "held" /\ life = "open" => Holders(m) # {}

(* The windows of a search lie side by side below hitsgotten.                *)
Covers(m, s, n) == window[m].search = s /\ window[m].from <= n /\ n < window[m].to
WInv ==
    /\ \A m \in Msg : reply[m] = "unsent" => window[m].search = None
    /\ \A m \in Msg, s \in Search : window[m].search = s => window[m].to <= hitsgotten[s]
    /\ \A s \in Search, n \in Nat : n < hitsgotten[s] => \E m \in Msg : Covers(m, s, n)
    /\ \A l, m \in Msg, s \in Search, n \in Nat : Covers(l, s, n) /\ Covers(m, s, n) => l = m
-----------------------------------------------------------------------------
(***************************************************************************)
(* Jobs and their bodies.                                                  *)
(***************************************************************************)

LEMMA BodyFacts ==
    /\ NoBody \notin Body
    /\ \A b \in Body : b.kind \in {"count", "hits", "data"} /\ b.search \in Search
                       /\ b.msg \in Msg \cup {None} /\ b.done \in BOOLEAN
  BY DEF NoBody, Body, None

(* A job that runs keeps all but that it was done.                          *)
LEMMA DoneBody ==
    ASSUME Typed, NEW j \in Job, body[j] # NoBody, Done(j)
    PROVE  /\ body' \in [Job -> Body \cup {NoBody}]
           /\ body'[j] # NoBody /\ body'[j].done
           /\ body'[j].kind = body[j].kind /\ body'[j].search = body[j].search /\ body'[j].msg = body[j].msg
           /\ \A k \in Job : k # j => body'[k] = body[k]
  <1>1. body[j] \in Body
    BY DEF Typed, ObjectsTyped, JobsTyped, StateTyped
  <1>2. body' = [body EXCEPT ![j] = [body[j] EXCEPT !.done = TRUE]]
    BY DEF Done
  <1>3. body'[j] = [body[j] EXCEPT !.done = TRUE] /\ \A k \in Job : k # j => body'[k] = body[k]
    BY <1>2 DEF Typed, ObjectsTyped, JobsTyped, StateTyped
  <1>4. /\ body'[j] \in Body /\ body'[j].done
        /\ body'[j].kind = body[j].kind /\ body'[j].search = body[j].search /\ body'[j].msg = body[j].msg
    BY <1>1, <1>3 DEF Body
  <1>5. body' \in [Job -> Body \cup {NoBody}]
    BY <1>2, <1>3, <1>4 DEF Typed, ObjectsTyped, JobsTyped, StateTyped
  <1> QED
    BY <1>3, <1>4, <1>5, BodyFacts

(* A kind is the kind of a body.                                            *)
LEMMA KindFacts ==
    ASSUME Typed, NEW j \in Job, body[j].kind \in {"count", "hits", "data"}
    PROVE  body[j] # NoBody /\ body[j] \in Body /\ body[j].search \in Search
  <1>1. body[j] # NoBody
    BY DEF NoBody, None
  <1>2. body[j] \in Body
    BY <1>1 DEF Typed, ObjectsTyped, JobsTyped, StateTyped
  <1> QED
    BY <1>1, <1>2, BodyFacts

LEMMA JobsFinite ==
    ASSUME NEW s PROVE IsFiniteSet(Jobs(s)) /\ Cardinality(Jobs(s)) \in Nat
  <1>1. Jobs(s) \in SUBSET Job
    BY DEF Jobs
  <1> QED
    BY <1>1, XesamAssumption, FS_Subset, FS_CardinalityType DEF XesamAssumption

LEMMA LivingFinite ==
    ASSUME NEW x PROVE IsFiniteSet(Living(x)) /\ Cardinality(Living(x)) \in Nat
  <1>1. Living(x) \in SUBSET Search
    BY DEF Living
  <1> QED
    BY <1>1, XesamAssumption, FS_Subset, FS_CardinalityType DEF XesamAssumption

(* Jobs that keep their search, with no object that changes hands.          *)
LEMMA CountsKept ==
    ASSUME Made, SearchCounted, SessionCounted, UNCHANGED objects,
           \A k \in Job : /\ body'[k] = NoBody <=> body[k] = NoBody
                          /\ body[k] # NoBody => body'[k].search = body[k].search
    PROVE  Made' /\ SearchCounted' /\ SessionCounted'
  <1>1. \A s \in Search : Jobs(s)' = Jobs(s)
    BY DEF Jobs
  <1>2. \A x \in Session : Living(x)' = Living(x)
    BY DEF Living, objects
  <1>3. Made'
    BY DEF Made, objects
  <1>4. SearchCounted'
    BY <1>1 DEF SearchCounted, objects, Jobs
  <1>5. SessionCounted'
    BY <1>2 DEF SessionCounted, objects, Living
  <1> QED
    BY <1>3, <1>4, <1>5

LEMMA RefsInit == Init => RInv
  <1> SUFFICES ASSUME Init PROVE RInv
    OBVIOUS
  <1> USE DEF Init
  <1>1. Typed
    BY DEF Typed, ObjectsTyped, JobsTyped, StateTyped, Pool!PoolInit, Unknown, NoWindow
  <1>2. Bodies /\ Made
    BY DEF Bodies, Made, Pool!PoolInit
  <1>3. SearchCounted
    <2>1. \A s \in Search : Jobs(s) = {}
      BY DEF Jobs
    <2>2. \A s \in Search : Cardinality(Jobs(s)) = 0 /\ searchRefs[s] = 0 /\ s \notin searches
      BY <2>1, FS_EmptySet
    <2> QED
      BY <2>2 DEF SearchCounted
  <1>4. SessionCounted
    <2>1. \A x \in Session : Living(x) = {}
      BY DEF Living
    <2>2. \A x \in Session : Cardinality(Living(x)) = 0 /\ sessionRefs[x] = 0 /\ x \notin sessions
      BY <2>1, FS_EmptySet
    <2> QED
      BY <2>2 DEF SessionCounted, One
  <1> QED
    BY <1>1, <1>2, <1>3, <1>4 DEF RInv

(***************************************************************************)
(* Steps that change no object's holders.                                  *)
(***************************************************************************)

LEMMA RefsPlainCalls ==
    ASSUME RInv, \/ \E x \in Session : SetProperty(x, "other fields") \/ NewSearchFails(x)
                 \/ \E s \in Search, m \in Msg : CallRefused(m, s) \/ GetHitCount(m, s) \/ GetNoHitData(m, s)
                 \/ StopQueue \/ QueueGone
    PROVE  RInv'
  <1> USE DEF RInv
  <1>1. CASE StopQueue \/ QueueGone
    <2>1. Typed' /\ Bodies'
      BY <1>1 DEF StopQueue, QueueGone, Pool!Stop, Pool!Vanish, objects, sessionVars, searchVars, Typed, ObjectsTyped, JobsTyped, StateTyped, Bodies
    <2>2. UNCHANGED objects /\ body' = body
      BY <1>1 DEF StopQueue, QueueGone
    <2> QED
      BY <2>1, <2>2, CountsKept
  <1>2. ASSUME NEW x \in Session, SetProperty(x, "other fields") \/ NewSearchFails(x) PROVE RInv'
    <2>1. UNCHANGED <<place, life, body, sessions, searches, listed, sessionOf, sessionRefs, searchRefs,
                      searchVars, reply, window>>
      BY <1>2 DEF SetProperty, NewSearchFails, pool, objects
    <2>2. hitFields' \in [Session -> {None, "other fields"}] /\ hasCreatedSearches' \in [Session -> BOOLEAN]
      BY <1>2 DEF SetProperty, NewSearchFails, Typed, ObjectsTyped, JobsTyped, StateTyped
    <2>3. Typed' /\ Bodies'
      BY <2>1, <2>2 DEF Typed, ObjectsTyped, JobsTyped, StateTyped, Bodies, searchVars
    <2> QED
      BY <2>1, <2>3, CountsKept DEF objects
  <1>3. ASSUME NEW s \in Search, NEW m \in Msg, CallRefused(m, s) \/ GetHitCount(m, s) \/ GetNoHitData(m, s)
        PROVE RInv'
    <2>1. /\ UNCHANGED <<place, life, body, sessions, searches, listed, sessionOf, sessionRefs, searchRefs,
                         sessionVars, started, hitcount, hitsgotten, window>>
          /\ reply' = [reply EXCEPT ![m] = "answered"] \/ reply' = [reply EXCEPT ![m] = "held"]
          /\ countMessages' = countMessages \/ countMessages' = [countMessages EXCEPT ![s] = @ \cup {m}]
      BY <1>3 DEF CallRefused, GetHitCount, GetNoHitData, Answer, pool, objects, searchVars
    <2>a. reply \in [Msg -> {"unsent", "held", "answered"}] /\ countMessages \in [Search -> SUBSET Msg]
      BY DEF Typed, ObjectsTyped, JobsTyped, StateTyped
    <2>b. reply' \in [Msg -> {"unsent", "held", "answered"}]
      BY <2>1, <2>a
    <2>c. countMessages' \in [Search -> SUBSET Msg]
      <3>1. countMessages[s] \cup {m} \in SUBSET Msg
        BY <2>a
      <3> QED
        BY <2>1, <2>a, <3>1
    <2>2. reply' \in [Msg -> {"unsent", "held", "answered"}] /\ countMessages' \in [Search -> SUBSET Msg]
      BY <2>b, <2>c
    <2>3. Typed' /\ Bodies'
      BY <2>1, <2>2 DEF Typed, ObjectsTyped, JobsTyped, StateTyped, Bodies, sessionVars
    <2> QED
      BY <2>1, <2>3, CountsKept DEF objects
  <1> QED
    BY <1>1, <1>2, <1>3

LEMMA RefsPlainJobs ==
    ASSUME RInv, NEW t \in Thread, NEW j \in Job, TakeJob(j, t) \/ RunCount(j, t) \/ RunQuery(j, t)
    PROVE  RInv'
  <1> USE DEF RInv
  <1>1. CASE TakeJob(j, t)
    <2>1. Typed' /\ Bodies'
      BY <1>1, XesamAssumption DEF TakeJob, Pool!Take, objects, sessionVars, searchVars, Typed, ObjectsTyped, JobsTyped, StateTyped, Bodies, XesamAssumption
    <2>2. UNCHANGED objects /\ body' = body
      BY <1>1 DEF TakeJob
    <2> QED
      BY <2>1, <2>2, CountsKept
  <1>2. CASE RunCount(j, t)
    <2>1. Done(j) /\ body[j] # NoBody /\ body[j].search \in Search
      BY <1>2, KindFacts DEF RunCount
    <2>2. UNCHANGED <<place, life, sessions, searches, listed, sessionOf, sessionRefs, searchRefs,
                      hasCreatedSearches, hitFields, started, hitsgotten, window>>
      BY <1>2 DEF RunCount, pool, objects, sessionVars
    <2>3. /\ hitcount' \in [Search -> {Unknown, Counted}]
          /\ reply' \in [Msg -> {"unsent", "held", "answered"}]
          /\ countMessages' \in [Search -> SUBSET Msg]
      BY <1>2, <2>1 DEF RunCount, Typed, ObjectsTyped, JobsTyped, StateTyped
    <2>a. body' \in [Job -> Body \cup {NoBody}]
      BY <2>1, DoneBody
    <2>b. Typed'
      BY <2>2, <2>3, <2>a DEF Typed, ObjectsTyped, JobsTyped, StateTyped
    <2>c. Bodies'
      BY <2>1, <2>2, DoneBody DEF Bodies
    <2>4. Typed' /\ Bodies'
      BY <2>b, <2>c
    <2>5. \A k \in Job : /\ body'[k] = NoBody <=> body[k] = NoBody
                         /\ body[k] # NoBody => body'[k].search = body[k].search
      BY <2>1, DoneBody
    <2> QED
      BY <2>2, <2>4, <2>5, CountsKept DEF objects
  <1>3. CASE RunQuery(j, t)
    <2>1. Done(j) /\ body[j] # NoBody /\ body[j].search \in Search
      BY <1>3, KindFacts DEF RunQuery
    <2>2. UNCHANGED <<place, life, sessions, searches, listed, sessionOf, sessionRefs, searchRefs,
                      hasCreatedSearches, hitFields, started, hitcount, hitsgotten, countMessages, window>>
      BY <1>3 DEF RunQuery, pool, objects, sessionVars, searchVars
    <2>3. reply' \in [Msg -> {"unsent", "held", "answered"}]
      BY <1>3, <2>1 DEF RunQuery, Typed, ObjectsTyped, JobsTyped, StateTyped
    <2>a. body' \in [Job -> Body \cup {NoBody}]
      BY <2>1, DoneBody
    <2>b. Typed'
      BY <2>2, <2>3, <2>a DEF Typed, ObjectsTyped, JobsTyped, StateTyped
    <2>c. Bodies'
      BY <2>1, <2>2, DoneBody DEF Bodies
    <2>4. Typed' /\ Bodies'
      BY <2>b, <2>c
    <2>5. \A k \in Job : /\ body'[k] = NoBody <=> body[k] = NoBody
                         /\ body[k] # NoBody => body'[k].search = body[k].search
      BY <2>1, DoneBody
    <2> QED
      BY <2>2, <2>4, <2>5, CountsKept DEF objects
  <1> QED
    BY <1>1, <1>2, <1>3

(***************************************************************************)
(* Steps that give or take a reference.                                    *)
(***************************************************************************)

LEMMA RefsSessions ==
    ASSUME RInv, NEW x \in Session, NewSession(x) \/ CloseSession(x)
    PROVE  RInv'
  <1>0. ObjectsTyped /\ JobsTyped /\ StateTyped /\ Bodies /\ Made /\ SearchCounted /\ SessionCounted
    BY DEF RInv, Typed
  <1>1. UNCHANGED <<place, life, body, searches, listed, sessionOf, searchRefs, hitFields, searchVars, reply, window>>
    BY DEF NewSession, CloseSession, pool, sessionVars
  <1>2. \A y \in Session : Living(y)' = Living(y)
    BY <1>1 DEF Living
  <1>3. \A s \in Search : Jobs(s)' = Jobs(s)
    BY <1>1 DEF Jobs
  <1>4. Bodies' /\ Made' /\ SearchCounted'
    BY <1>0, <1>1, <1>3 DEF Bodies, Made, SearchCounted, Jobs
  <1>5. /\ sessions' \in SUBSET Session
        /\ sessionRefs' = [sessionRefs EXCEPT ![x] = @ + One(x \in sessions') - One(x \in sessions)]
        /\ \A y \in Session : y # x => (y \in sessions' <=> y \in sessions)
        /\ hasCreatedSearches' \in [Session -> BOOLEAN]
    <2>1. CASE NewSession(x)
      <3>1. Living(x) = {}
        BY <2>1 DEF NewSession, Living
      <3>2. Cardinality(Living(x)) = 0
        BY <3>1, FS_EmptySet
      <3>3. x \notin sessions
        BY <1>0, <2>1, <3>2 DEF NewSession, SessionCounted, One
      <3>4. x \in sessions' /\ sessionRefs[x] + One(x \in sessions') - One(x \in sessions) = 1
        BY <2>1, <3>3 DEF NewSession, One
      <3> QED
        BY <1>0, <2>1, <3>4 DEF NewSession, ObjectsTyped, StateTyped
    <2>2. CASE CloseSession(x)
      <3>1. sessionRefs[x] + One(x \in sessions') - One(x \in sessions) = sessionRefs[x] - 1
        BY <1>0, <2>2 DEF CloseSession, One, ObjectsTyped
      <3> QED
        BY <1>0, <2>2, <3>1 DEF CloseSession, ObjectsTyped, StateTyped, sessionVars
    <2> QED
      BY <2>1, <2>2
  <1>6. sessionRefs' \in [Session -> Int]
    <2>1. sessionRefs[x] + One(x \in sessions') - One(x \in sessions) \in Int
      BY <1>0 DEF ObjectsTyped, One
    <2> QED
      BY <1>0, <1>5, <2>1 DEF ObjectsTyped
  <1>7. Typed'
    BY <1>0, <1>1, <1>5, <1>6 DEF Typed, ObjectsTyped, JobsTyped, StateTyped, searchVars
  <1>8. SessionCounted'
    <2>1. \A y \in Session : sessionRefs'[y] = One(y \in sessions') + Cardinality(Living(y))
      BY <1>0, <1>5, LivingFinite DEF SessionCounted, ObjectsTyped, One
    <2> QED
      BY <1>0, <1>2, <2>1 DEF SessionCounted, Living
  <1> QED
    BY <1>4, <1>7, <1>8 DEF RInv

LEMMA RefsNewSearch ==
    ASSUME RInv, NEW x \in Session, NEW s \in Search, NewSearch(x, s)
    PROVE  RInv'
  <1>0. ObjectsTyped /\ JobsTyped /\ StateTyped /\ Bodies /\ Made /\ SearchCounted /\ SessionCounted
    BY DEF RInv, Typed
  <1>1. /\ x \in sessions /\ sessionOf[s] = None
        /\ sessionOf' = [sessionOf EXCEPT ![s] = x]
        /\ listed' = [listed EXCEPT ![x] = @ \cup {s}]
        /\ searches' = searches \cup {s}
        /\ searchRefs' = [searchRefs EXCEPT ![s] = 2]
        /\ sessionRefs' = [sessionRefs EXCEPT ![x] = @ + 1]
        /\ hasCreatedSearches' = [hasCreatedSearches EXCEPT ![x] = TRUE]
        /\ UNCHANGED <<place, life, body, sessions, hitFields, searchVars, reply, window>>
    BY DEF NewSearch, pool
  <1>2. x # None
    BY XesamAssumption DEF XesamAssumption
  <1>3. s \notin searches /\ Jobs(s) = {}
    BY <1>0, <1>1 DEF Made, Jobs
  <1>4. Typed'
    <2>1. JobsTyped' /\ StateTyped'
      BY <1>0, <1>1 DEF JobsTyped, StateTyped, searchVars
    <2>2. listed[x] \cup {s} \in SUBSET Search
      BY <1>0 DEF ObjectsTyped
    <2>3. listed' \in [Session -> SUBSET Search]
      BY <1>0, <1>1, <2>2 DEF ObjectsTyped
    <2>4. ObjectsTyped'
      BY <1>0, <1>1, <2>3 DEF ObjectsTyped
    <2> QED
      BY <2>1, <2>4 DEF Typed
  <1>5. Bodies'
    BY <1>0, <1>1 DEF Bodies
  <1>6. Made'
    <2>1. \A r \in Search : sessionOf'[r] = IF r = s THEN x ELSE sessionOf[r]
      BY <1>0, <1>1 DEF ObjectsTyped
    <2>2. \A r \in searches' : sessionOf'[r] # None
      BY <1>0, <1>1, <1>2, <2>1 DEF Made, ObjectsTyped
    <2>3. \A j \in Job : body'[j] # NoBody => sessionOf'[body'[j].search] # None
      <3> SUFFICES ASSUME NEW j \in Job, body[j] # NoBody PROVE sessionOf'[body[j].search] # None
        BY <1>1
      <3>1. body[j].search \in Search
        BY <1>0, BodyFacts DEF JobsTyped
      <3> QED
        BY <1>0, <1>2, <2>1, <3>1 DEF Made
    <2>4. ASSUME NEW y \in Session PROVE listed'[y] = {r \in searches' : sessionOf'[r] = y}
      <3>1. listed[y] = {r \in searches : sessionOf[r] = y}
        BY <1>0 DEF Made
      <3>2. \A r \in searches : sessionOf'[r] = sessionOf[r]
        BY <1>0, <1>3, <2>1 DEF ObjectsTyped
      <3>3. CASE y = x
        <4>1. listed'[x] = listed[x] \cup {s}
          BY <1>0, <1>1 DEF ObjectsTyped
        <4>2. sessionOf'[s] = x
          BY <2>1
        <4> QED
          BY <1>1, <3>1, <3>2, <3>3, <4>1, <4>2
      <3>4. CASE y # x
        <4>1. listed'[y] = listed[y]
          BY <1>0, <1>1, <3>4 DEF ObjectsTyped
        <4>2. sessionOf'[s] # y
          BY <2>1, <3>4
        <4> QED
          BY <1>1, <3>1, <3>2, <4>1, <4>2
      <3> QED
        BY <3>3, <3>4
    <2> QED
      BY <1>0, <2>2, <2>3, <2>4 DEF Made
  <1>7. SearchCounted'
    <2>1. \A r \in Search : Jobs(r)' = Jobs(r)
      BY <1>1 DEF Jobs
    <2>2. Cardinality(Jobs(s)) = 0
      BY <1>3, FS_EmptySet
    <2>3. \A r \in Search : searchRefs'[r] = (IF r \in searches' THEN 2 ELSE 0) + Cardinality(Jobs(r))
      BY <1>0, <1>1, <2>2 DEF SearchCounted, ObjectsTyped
    <2> QED
      BY <1>0, <2>1, <2>3 DEF SearchCounted, Jobs
  <1>8. SessionCounted'
    <2>1. \A r \in Search : /\ sessionOf'[r] = IF r = s THEN x ELSE sessionOf[r]
                            /\ searchRefs'[r] = IF r = s THEN 2 ELSE searchRefs[r]
      BY <1>0, <1>1 DEF ObjectsTyped
    <2>2. s \notin Living(x) /\ Living(x)' = Living(x) \cup {s}
      BY <1>1, <1>2, <2>1 DEF Living
    <2>3. \A y \in Session : y # x => Living(y)' = Living(y)
      <3> SUFFICES ASSUME NEW y \in Session, y # x PROVE Living(y)' = Living(y)
        OBVIOUS
      <3>1. y # None
        BY XesamAssumption DEF XesamAssumption
      <3> QED
        BY <1>1, <2>1, <3>1 DEF Living
    <2>4. Cardinality(Living(x)') = Cardinality(Living(x)) + 1
      BY <2>2, LivingFinite, FS_AddElement
    <2>5. \A y \in Session : sessionRefs'[y] = One(y \in sessions) + Cardinality(Living(y)')
      <3> TAKE y \in Session
      <3>1. CASE y = x
        BY <1>0, <1>1, <2>4, <3>1, LivingFinite DEF SessionCounted, ObjectsTyped, One
      <3>2. CASE y # x
        BY <1>0, <1>1, <2>3, <3>2 DEF SessionCounted, ObjectsTyped
      <3> QED
        BY <3>1, <3>2
    <2> QED
      BY <1>0, <1>1, <2>5 DEF SessionCounted, Living
  <1> QED
    BY <1>4, <1>5, <1>6, <1>7, <1>8 DEF RInv

(* A job takes a reference to a search that is in the map.                  *)
LEMMA AddJobRefs ==
    ASSUME RInv, NEW j \in Job, NEW kind \in {"count", "hits", "data"}, NEW s \in searches,
           NEW m \in Msg \cup {None}, kind = "count" <=> m = None, AddJob(j, kind, s, m)
    PROVE  /\ place' \in [Job -> {"free", "queued"} \cup Thread] /\ life' = life
           /\ body' \in [Job -> Body \cup {NoBody}]
           /\ searchRefs' \in [Search -> Int]
           /\ Bodies' /\ Made' /\ SearchCounted' /\ SessionCounted'
           /\ body[j] = NoBody
           /\ body'[j] = [kind |-> kind, search |-> s, msg |-> m, done |-> FALSE]
           /\ body'[j] # NoBody
           /\ \A k \in Job : k # j => body'[k] = body[k]
  <1>0. ObjectsTyped /\ JobsTyped /\ StateTyped /\ Bodies /\ Made /\ SearchCounted /\ SessionCounted
    BY DEF RInv, Typed
  <1> DEFINE b == [kind |-> kind, search |-> s, msg |-> m, done |-> FALSE]
  <1>1. /\ place[j] = "free" /\ place' = [place EXCEPT ![j] = "queued"] /\ UNCHANGED life
        /\ body' = [body EXCEPT ![j] = b]
        /\ searchRefs' = [searchRefs EXCEPT ![s] = @ + 1]
        /\ UNCHANGED <<sessions, searches, listed, sessionOf, sessionRefs>>
    BY DEF AddJob, Pool!Submit
  <1>2. s \in Search
    BY <1>0 DEF ObjectsTyped
  <1>3. b \in Body /\ b # NoBody
    <2>1. b \in Body
      BY <1>2 DEF Body
    <2> QED
      BY <2>1, BodyFacts
  <1>4. /\ body' \in [Job -> Body \cup {NoBody}] /\ body'[j] = b
        /\ \A k \in Job : k # j => body'[k] = body[k]
    BY <1>0, <1>1, <1>3 DEF JobsTyped
  <1>5. body[j] = NoBody
    BY <1>0, <1>1 DEF Bodies
  <1>6. place' \in [Job -> {"free", "queued"} \cup Thread] /\ searchRefs' \in [Search -> Int]
    BY <1>0, <1>1, <1>2 DEF ObjectsTyped, JobsTyped
  <1>7. Bodies'
    <2>1. \A k \in Job : place'[k] = IF k = j THEN "queued" ELSE place[k]
      BY <1>0, <1>1 DEF JobsTyped
    <2> QED
      BY <1>0, <1>3, <1>4, <2>1 DEF Bodies
  <1>8. Made'
    BY <1>0, <1>1, <1>4 DEF Made
  <1>9. Jobs(s)' = Jobs(s) \cup {j} /\ j \notin Jobs(s)
    BY <1>3, <1>4, <1>5 DEF Jobs
  <1>10. \A r \in Search : r # s => Jobs(r)' = Jobs(r)
    BY <1>3, <1>4, <1>5 DEF Jobs
  <1>11. SearchCounted'
    <2>1. Cardinality(Jobs(s)') = Cardinality(Jobs(s)) + 1
      BY <1>9, JobsFinite, FS_AddElement
    <2>2. \A r \in Search : searchRefs'[r] = IF r = s THEN searchRefs[r] + 1 ELSE searchRefs[r]
      BY <1>0, <1>1 DEF ObjectsTyped
    <2>3. \A r \in Search : searchRefs'[r] = (IF r \in searches THEN 2 ELSE 0) + Cardinality(Jobs(r)')
      <3> TAKE r \in Search
      <3>1. CASE r = s
        BY <1>0, <2>1, <2>2, <3>1, JobsFinite DEF SearchCounted
      <3>2. CASE r # s
        BY <1>0, <1>10, <2>2, <3>2 DEF SearchCounted
      <3> QED
        BY <3>1, <3>2
    <2> QED
      BY <1>0, <1>1, <2>3 DEF SearchCounted, Jobs
  <1>12. SessionCounted'
    <2>1. searchRefs[s] > 0
      BY <1>0, <1>2, JobsFinite DEF SearchCounted
    <2>2. \A r \in Search : searchRefs'[r] > 0 <=> searchRefs[r] > 0
      BY <1>0, <1>1, <2>1 DEF ObjectsTyped
    <2>3. \A x \in Session : Living(x)' = Living(x)
      BY <1>1, <2>2 DEF Living
    <2> QED
      BY <1>0, <1>1, <2>3 DEF SessionCounted, Living
  <1> QED
    BY <1>1, <1>3, <1>4, <1>5, <1>6, <1>7, <1>8, <1>11, <1>12

LEMMA RefsJobCalls ==
    ASSUME RInv, NEW s \in Search, NEW j \in Job,
           \/ StartSearch(s, j)
           \/ \E m \in Msg : \/ \E num \in 1..MaxHits : GetHits(m, s, num, j)
                             \/ GetHitData(m, s, j)
    PROVE  RInv'
  <1>0. ObjectsTyped /\ JobsTyped /\ StateTyped
    BY DEF RInv, Typed
  <1>1. ASSUME NEW kind \in {"count", "hits", "data"}, NEW m \in Msg \cup {None}, kind = "count" <=> m = None,
               s \in searches, AddJob(j, kind, s, m), StateTyped'
        PROVE  RInv'
    <2>1. UNCHANGED <<sessions, searches, listed, sessionOf, sessionRefs, life>>
      BY <1>1, AddJobRefs DEF AddJob
    <2>2. /\ place' \in [Job -> {"free", "queued"} \cup Thread] /\ body' \in [Job -> Body \cup {NoBody}]
          /\ searchRefs' \in [Search -> Int]
          /\ Bodies' /\ Made' /\ SearchCounted' /\ SessionCounted'
      BY <1>1, AddJobRefs
    <2>3. ObjectsTyped' /\ JobsTyped'
      BY <1>0, <2>1, <2>2 DEF ObjectsTyped, JobsTyped
    <2> QED
      BY <1>1, <2>2, <2>3 DEF RInv, Typed
  <1>2. CASE StartSearch(s, j)
    <2>1. StateTyped'
      BY <1>0, <1>2 DEF StartSearch, StateTyped, sessionVars
    <2> QED
      BY <1>1, <1>2, <2>1 DEF StartSearch
  <1>3. ASSUME NEW m \in Msg, NEW num \in 1..MaxHits, GetHits(m, s, num, j) PROVE RInv'
    <2>1. /\ window' = [window EXCEPT ![m] = [search |-> s, from |-> hitsgotten[s], to |-> hitsgotten[s] + num]]
          /\ hitsgotten' = [hitsgotten EXCEPT ![s] = @ + num]
          /\ reply' = [reply EXCEPT ![m] = "held"]
          /\ UNCHANGED <<sessionVars, started, hitcount, countMessages>>
          /\ s \in searches /\ AddJob(j, "hits", s, m)
      BY <1>3 DEF GetHits, Refused
    <2>a. num \in Nat
      BY XesamAssumption DEF XesamAssumption
    <2>b. hitsgotten[s] \in Nat
      BY <1>0 DEF StateTyped
    <2>2. hitsgotten[s] \in Nat /\ hitsgotten[s] + num \in Nat
      BY <2>a, <2>b
    <2>3. [search |-> s, from |-> hitsgotten[s], to |-> hitsgotten[s] + num]
             \in [search : Search \cup {None}, from : Nat, to : Nat]
      BY <2>2
    <2>4. window' \in [Msg -> [search : Search \cup {None}, from : Nat, to : Nat]]
      BY <1>0, <2>1, <2>3 DEF StateTyped
    <2>5. hitsgotten' \in [Search -> Nat] /\ reply' \in [Msg -> {"unsent", "held", "answered"}]
      BY <1>0, <2>1, <2>2 DEF StateTyped
    <2>6. StateTyped'
      BY <1>0, <2>1, <2>4, <2>5 DEF StateTyped, sessionVars
    <2>7. m # None
      BY XesamAssumption DEF XesamAssumption
    <2> QED
      BY <1>1, <2>1, <2>6, <2>7
  <1>4. ASSUME NEW m \in Msg, GetHitData(m, s, j) PROVE RInv'
    <2>1. s \in searches /\ AddJob(j, "data", s, m)
      BY <1>4 DEF GetHitData, Refused
    <2>2. StateTyped'
      BY <1>0, <1>4 DEF GetHitData, StateTyped, sessionVars, searchVars
    <2>3. m # None
      BY XesamAssumption DEF XesamAssumption
    <2> QED
      BY <1>1, <2>1, <2>2, <2>3
  <1> QED
    BY <1>2, <1>3, <1>4

(* References are given back, and the searches that nobody holds any more    *)
(* give theirs back to their sessions.                                       *)
LEMMA UnrefCounts ==
    ASSUME ObjectsTyped, SessionCounted, NEW given \in [Search -> Nat], Unref(given),
           \A s \in Search : given[s] <= searchRefs[s],
           UNCHANGED <<sessions, sessionOf>>
    PROVE  /\ \A s \in Search : searchRefs'[s] = searchRefs[s] - given[s]
           /\ searchRefs' \in [Search -> Int] /\ sessionRefs' \in [Session -> Int]
           /\ SessionCounted'
  <1> DEFINE left == [s \in Search |-> searchRefs[s] - given[s]]
             deleted == {s \in Search : given[s] > 0 /\ left[s] = 0}
             theirs(x) == {s \in deleted : sessionOf[s] = x}
  <1>1. searchRefs' = left /\ sessionRefs' = [x \in Session |-> sessionRefs[x] - Cardinality(theirs(x))]
    BY DEF Unref
  <1>2. left \in [Search -> Int] /\ \A s \in Search : left[s] = searchRefs[s] - given[s]
    BY DEF ObjectsTyped
  <1>3. \A x \in Session : theirs(x) \in SUBSET Living(x) /\ Living(x)' = Living(x) \ theirs(x)
    <2> TAKE x \in Session
    <2>1. \A s \in Search : searchRefs[s] \in Int /\ given[s] \in Nat
      BY DEF ObjectsTyped
    <2>2. \A s \in Search : s \in theirs(x) <=> sessionOf[s] = x /\ given[s] > 0 /\ searchRefs[s] = given[s]
      BY <1>2, <2>1
    <2>3. \A s \in Search : s \in Living(x) <=> sessionOf[s] = x /\ searchRefs[s] > 0
      BY DEF Living
    <2>4. \A s \in Search : s \in Living(x)' <=> sessionOf[s] = x /\ searchRefs[s] - given[s] > 0
      BY <1>1, <1>2 DEF Living
    <2>5. theirs(x) \in SUBSET Search /\ Living(x) \in SUBSET Search /\ Living(x)' \in SUBSET Search
      BY DEF Living
    <2>6. theirs(x) \in SUBSET Living(x)
      BY <2>1, <2>2, <2>3, <2>5
    <2>7. \A s \in Search : s \in Living(x)' <=> s \in Living(x) /\ s \notin theirs(x)
      BY <2>1, <2>2, <2>3, <2>4
    <2> QED
      BY <2>5, <2>6, <2>7
  <1>4. \A x \in Session : /\ Cardinality(theirs(x)) \in Nat
                           /\ Cardinality(Living(x)') = Cardinality(Living(x)) - Cardinality(theirs(x))
    <2> TAKE x \in Session
    <2>1. IsFiniteSet(theirs(x)) /\ Cardinality(theirs(x)) \in Nat
      BY <1>3, LivingFinite, FS_Subset, FS_CardinalityType
    <2>2. Living(x) \cap theirs(x) = theirs(x)
      BY <1>3
    <2>3. Cardinality(Living(x) \ theirs(x)) = Cardinality(Living(x)) - Cardinality(Living(x) \cap theirs(x))
      BY LivingFinite, FS_Difference
    <2> QED
      BY <1>3, <2>1, <2>2, <2>3
  <1>5. sessionRefs' \in [Session -> Int]
    <2>1. \A x \in Session : sessionRefs[x] - Cardinality(theirs(x)) \in Int
      <3> TAKE x \in Session
      <3>1. sessionRefs[x] \in Int /\ Cardinality(theirs(x)) \in Nat
        BY <1>4 DEF ObjectsTyped
      <3> HIDE DEF theirs
      <3> QED
        BY <3>1
    <2> HIDE DEF theirs
    <2> QED
      BY <1>1, <2>1
  <1>6. \A x \in Session : sessionRefs'[x] = One(x \in sessions) + Cardinality(Living(x)')
    <2> TAKE x \in Session
    <2>1. sessionRefs'[x] = sessionRefs[x] - Cardinality(theirs(x))
      BY <1>1
    <2>2. One(x \in sessions) \in Int
      BY DEF One
    <2>3. sessionRefs[x] = One(x \in sessions) + Cardinality(Living(x)) /\ Cardinality(Living(x)) \in Nat
      BY LivingFinite DEF SessionCounted
    <2>4. /\ Cardinality(theirs(x)) \in Nat
          /\ Cardinality(Living(x)') = Cardinality(Living(x)) - Cardinality(theirs(x))
      BY <1>4
    <2> HIDE DEF theirs
    <2> QED
      BY <2>1, <2>2, <2>3, <2>4
  <1>7. SessionCounted'
    BY <1>6 DEF SessionCounted, Living
  <1> QED
    BY <1>1, <1>2, <1>5, <1>7

LEMMA OnceFacts ==
    ASSUME NEW s \in Search, NEW n \in Nat
    PROVE  /\ Once(s, n) \in [Search -> Nat]
           /\ \A r \in Search : Once(s, n)[r] = IF r = s THEN n ELSE 0
  BY DEF Once

LEMMA RefsCloseSearch ==
    ASSUME RInv, NEW s \in Search, CloseSearch(s)
    PROVE  RInv'
  <1>0. ObjectsTyped /\ JobsTyped /\ StateTyped /\ Bodies /\ Made /\ SearchCounted /\ SessionCounted
    BY DEF RInv, Typed
  <1>1. /\ s \in searches /\ searches' = searches \ {s}
        /\ listed' = [listed EXCEPT ![sessionOf[s]] = @ \ {s}]
        /\ Unref(Once(s, 2))
        /\ UNCHANGED <<place, life, body, sessions, sessionOf, sessionVars, searchVars, reply, window>>
    BY DEF CloseSearch, pool
  <1>2. \A r \in Search : searchRefs[r] \in Int /\ Cardinality(Jobs(r)) \in Nat
                          /\ searchRefs[r] = (IF r \in searches THEN 2 ELSE 0) + Cardinality(Jobs(r))
    BY <1>0, JobsFinite DEF ObjectsTyped, SearchCounted
  <1>3. \A r \in Search : Once(s, 2)[r] <= searchRefs[r]
    <2> TAKE r \in Search
    <2>1. CASE r = s
      BY <1>1, <1>2, <2>1, OnceFacts
    <2>2. CASE r # s
      <3>1. Once(s, 2)[r] = 0
        BY <2>2, OnceFacts
      <3>2. searchRefs[r] \in Int /\ searchRefs[r] >= 0
        BY <1>2
      <3> QED
        BY <3>1, <3>2
    <2> QED
      BY <2>1, <2>2
  <1>4. /\ \A r \in Search : searchRefs'[r] = searchRefs[r] - Once(s, 2)[r]
        /\ searchRefs' \in [Search -> Int] /\ sessionRefs' \in [Session -> Int]
        /\ SessionCounted'
    BY <1>0, <1>1, <1>3, OnceFacts, UnrefCounts
  <1>5. PICK x \in Session : x = sessionOf[s]
    BY <1>0, <1>1 DEF Made, ObjectsTyped
  <1>6. \A y \in Session : listed'[y] = IF y = x THEN listed[y] \ {s} ELSE listed[y]
    BY <1>0, <1>1, <1>5 DEF ObjectsTyped
  <1>7. Typed'
    <2>1. JobsTyped' /\ StateTyped'
      BY <1>0, <1>1 DEF JobsTyped, StateTyped, sessionVars, searchVars
    <2>2. listed[x] \ {s} \in SUBSET Search
      BY <1>0 DEF ObjectsTyped
    <2>3. listed' \in [Session -> SUBSET Search]
      BY <1>0, <1>1, <1>5, <2>2 DEF ObjectsTyped
    <2>4. ObjectsTyped'
      BY <1>0, <1>1, <1>4, <2>3 DEF ObjectsTyped
    <2> QED
      BY <2>1, <2>4 DEF Typed
  <1>8. Bodies'
    BY <1>0, <1>1 DEF Bodies
  <1>9. Made'
    BY <1>0, <1>1, <1>5, <1>6 DEF Made
  <1>10. SearchCounted'
    <2>1. \A r \in Search : Jobs(r)' = Jobs(r)
      BY <1>1 DEF Jobs
    <2>2. \A r \in Search : searchRefs'[r] = (IF r \in searches' THEN 2 ELSE 0) + Cardinality(Jobs(r))
      BY <1>1, <1>2, <1>4, OnceFacts
    <2> QED
      BY <2>1, <2>2 DEF SearchCounted, Jobs
  <1> QED
    BY <1>4, <1>7, <1>8, <1>9, <1>10 DEF RInv

(* Jobs are deleted, and each gives back its handle on its search.          *)
LEMMA JobsLeave ==
    ASSUME RInv, NEW gone \in SUBSET Job, NEW given \in [Search -> Nat],
           \A s \in Search : given[s] = Cardinality(Jobs(s) \cap gone),
           Unref(given), life' = life,
           place' = [k \in Job |-> IF k \in gone THEN "free" ELSE place[k]],
           body' = [k \in Job |-> IF k \in gone THEN NoBody ELSE body[k]],
           UNCHANGED <<sessions, searches, listed, sessionOf, sessionVars, searchVars, reply, window>>
    PROVE  RInv'
  <1>0. ObjectsTyped /\ JobsTyped /\ StateTyped /\ Bodies /\ Made /\ SearchCounted /\ SessionCounted
    BY DEF RInv, Typed
  <1>1. \A s \in Search : Jobs(s)' = Jobs(s) \ gone
    BY DEF Jobs
  <1>2. \A s \in Search : /\ Cardinality(Jobs(s)) \in Nat /\ Cardinality(Jobs(s)') \in Nat
                          /\ Cardinality(Jobs(s)') = Cardinality(Jobs(s)) - given[s]
    <2> TAKE s \in Search
    <2>1. IsFiniteSet(Jobs(s) \ gone)
      BY JobsFinite, FS_Subset
    <2>2. Cardinality(Jobs(s) \ gone) = Cardinality(Jobs(s)) - Cardinality(Jobs(s) \cap gone)
      BY JobsFinite, FS_Difference
    <2> QED
      BY <1>1, <2>1, <2>2, JobsFinite, FS_CardinalityType
  <1>3. \A s \in Search : given[s] <= searchRefs[s]
    <2> TAKE s \in Search
    <2>1. /\ given[s] \in Nat /\ Cardinality(Jobs(s)) \in Nat /\ Cardinality(Jobs(s)') \in Nat
          /\ Cardinality(Jobs(s)') = Cardinality(Jobs(s)) - given[s]
      BY <1>2
    <2>2. searchRefs[s] = (IF s \in searches THEN 2 ELSE 0) + Cardinality(Jobs(s))
      BY <1>0 DEF SearchCounted
    <2> QED
      BY <2>1, <2>2
  <1>4. /\ \A s \in Search : searchRefs'[s] = searchRefs[s] - given[s]
        /\ searchRefs' \in [Search -> Int] /\ sessionRefs' \in [Session -> Int]
        /\ SessionCounted'
    BY <1>0, <1>3, UnrefCounts
  <1>5. Typed'
    <2>1. StateTyped' /\ ObjectsTyped'
      BY <1>0, <1>4 DEF StateTyped, ObjectsTyped, sessionVars, searchVars
    <2>2. JobsTyped'
      BY <1>0 DEF JobsTyped
    <2> QED
      BY <2>1, <2>2 DEF Typed
  <1>6. Bodies' /\ Made'
    BY <1>0 DEF Bodies, Made
  <1>7. SearchCounted'
    <2>1. \A s \in Search : searchRefs'[s] = (IF s \in searches THEN 2 ELSE 0) + Cardinality(Jobs(s)')
      <3> TAKE s \in Search
      <3>1. /\ given[s] \in Nat /\ Cardinality(Jobs(s)) \in Nat
            /\ Cardinality(Jobs(s)') = Cardinality(Jobs(s)) - given[s]
        BY <1>2
      <3>2. searchRefs[s] = (IF s \in searches THEN 2 ELSE 0) + Cardinality(Jobs(s))
        BY <1>0 DEF SearchCounted
      <3>3. searchRefs'[s] = searchRefs[s] - given[s]
        BY <1>4
      <3> QED
        BY <3>1, <3>2, <3>3
    <2> QED
      BY <2>1 DEF SearchCounted, Jobs
  <1> QED
    BY <1>4, <1>5, <1>6, <1>7 DEF RInv

LEMMA RefsDeleteJob ==
    ASSUME RInv, NEW t \in Thread, NEW j \in Job, DeleteJob(j, t)
    PROVE  RInv'
  <1>0. ObjectsTyped /\ JobsTyped /\ Bodies
    BY DEF RInv, Typed
  <1>1. /\ place[j] = t /\ life' = life /\ place' = [place EXCEPT ![j] = "free"]
        /\ body' = [body EXCEPT ![j] = NoBody]
        /\ Unref(Once(body[j].search, 1))
        /\ UNCHANGED <<sessions, searches, listed, sessionOf, sessionVars, searchVars, reply, window>>
    BY DEF DeleteJob, Pool!Finish
  <1>2. body[j] # NoBody
    BY <1>0, <1>1, XesamAssumption DEF Bodies, XesamAssumption
  <1>3. body[j].search \in Search
    BY <1>0, <1>2, BodyFacts DEF JobsTyped
  <1> DEFINE given == Once(body[j].search, 1)
  <1>4. given \in [Search -> Nat] /\ \A s \in Search : given[s] = IF s = body[j].search THEN 1 ELSE 0
    BY <1>3, OnceFacts
  <1> HIDE DEF given
  <1>5. \A s \in Search : given[s] = Cardinality(Jobs(s) \cap {j})
    <2> TAKE s \in Search
    <2>1. CASE s = body[j].search
      <3>1. Jobs(s) \cap {j} = {j}
        BY <1>2, <2>1 DEF Jobs
      <3> QED
        BY <1>4, <2>1, <3>1, FS_Singleton
    <2>2. CASE s # body[j].search
      <3>1. Jobs(s) \cap {j} = {}
        BY <2>2 DEF Jobs
      <3> QED
        BY <1>4, <2>2, <3>1, FS_EmptySet
    <2> QED
      BY <2>1, <2>2
  <1>6. /\ place' = [k \in Job |-> IF k \in {j} THEN "free" ELSE place[k]]
        /\ body' = [k \in Job |-> IF k \in {j} THEN NoBody ELSE body[k]]
    BY <1>0, <1>1 DEF JobsTyped
  <1>7. Unref(given)
    BY <1>1 DEF given
  <1> QED
    BY <1>1, <1>4, <1>5, <1>6, <1>7, JobsLeave

LEMMA RefsDropJobs ==
    ASSUME RInv, DropJobs
    PROVE  RInv'
  <1>0. JobsTyped
    BY DEF RInv, Typed
  <1> DEFINE given == [s \in Search |-> Cardinality(Jobs(s) \cap Queued)]
  <1>1. /\ life' = life
        /\ place' = [k \in Job |-> IF k \in Queued THEN "free" ELSE place[k]]
        /\ body' = [k \in Job |-> IF k \in Queued THEN NoBody ELSE body[k]]
        /\ UNCHANGED <<sessions, searches, listed, sessionOf, sessionVars, searchVars, reply, window>>
    BY DEF DropJobs, Pool!DropQueued, Queued
  <1>2. \A s \in Search : Cardinality(Jobs(s) \cap Queued) \in Nat
    <2> TAKE s \in Search
    <2>1. Jobs(s) \cap Queued \in SUBSET Jobs(s)
      OBVIOUS
    <2> QED
      BY <2>1, JobsFinite, FS_Subset, FS_CardinalityType
  <1>3. given \in [Search -> Nat] /\ \A s \in Search : given[s] = Cardinality(Jobs(s) \cap Queued)
    BY <1>2
  <1>4. Unref(given)
    BY DEF DropJobs
  <1>5. Queued \in SUBSET Job
    BY DEF Queued
  <1> HIDE DEF given
  <1> QED
    BY <1>1, <1>3, <1>4, <1>5, JobsLeave

(* The invariant of the counts is inductive.                                *)
LEMMA RefsStep == RInv /\ [Next]_vars => RInv'
  <1> SUFFICES ASSUME RInv, [Next]_vars PROVE RInv'
    OBVIOUS
  <1>1. ASSUME NEW x \in Session, SessionCall(x) PROVE RInv'
    BY <1>1, RefsPlainCalls, RefsSessions, RefsNewSearch DEF SessionCall
  <1>2. ASSUME NEW s \in Search, SearchCall(s) PROVE RInv'
    <2>1. CASE \E j \in Job : StartSearch(s, j)
      BY <2>1, RefsJobCalls
    <2>2. CASE CloseSearch(s)
      BY <2>2, RefsCloseSearch
    <2>3. ASSUME NEW m \in Msg, CallRefused(m, s) \/ GetHitCount(m, s) \/ GetNoHitData(m, s) PROVE RInv'
      BY <2>3, RefsPlainCalls
    <2>4. ASSUME NEW m \in Msg, NEW j \in Job,
                 (\E num \in 1..MaxHits : GetHits(m, s, num, j)) \/ GetHitData(m, s, j)
          PROVE RInv'
      BY <2>4, RefsJobCalls
    <2> QED
      BY <1>2, <2>1, <2>2, <2>3, <2>4 DEF SearchCall
  <1>3. ASSUME NEW t \in Thread, JobStep(t) PROVE RInv'
    BY <1>3, RefsPlainJobs, RefsDeleteJob DEF JobStep
  <1>4. CASE StopQueue \/ QueueGone
    BY <1>4, RefsPlainCalls
  <1>5. CASE DropJobs
    BY <1>5, RefsDropJobs
  <1>6. CASE UNCHANGED vars
    <2>1. UNCHANGED <<place, life, body, objects, sessionVars, searchVars, reply, window>>
      BY <1>6 DEF vars, pool
    <2>2. Typed' /\ Bodies'
      BY <2>1 DEF RInv, Typed, ObjectsTyped, JobsTyped, StateTyped, Bodies, objects, sessionVars, searchVars
    <2> QED
      BY <2>1, <2>2, CountsKept DEF RInv
  <1> QED
    BY <1>1, <1>2, <1>3, <1>4, <1>5, <1>6 DEF Next

LEMMA RefsInvariant == Spec => []RInv
  BY RefsInit, RefsStep, PTL DEF Spec

(* A search is in the list of one session as long as it is in the map.      *)
LEMMA ListedOnce ==
    ASSUME RInv, NEW s \in Search
    PROVE  Cardinality({x \in Session : s \in listed[x]}) = One(s \in searches)
  <1>1. /\ \A r \in searches : sessionOf[r] \in Session
        /\ \A x \in Session : s \in listed[x] <=> s \in searches /\ sessionOf[s] = x
    BY DEF RInv, Typed, ObjectsTyped, Made
  <1>2. CASE s \in searches
    <2>1. {x \in Session : s \in listed[x]} = {sessionOf[s]}
      BY <1>1, <1>2
    <2> QED
      BY <1>2, <2>1, FS_Singleton DEF One
  <1>3. CASE s \notin searches
    <2>1. {x \in Session : s \in listed[x]} = {}
      BY <1>1, <1>3
    <2> QED
      BY <1>3, <2>1, FS_EmptySet DEF One
  <1> QED
    BY <1>2, <1>3

(* RefsExact holds for any number of sessions, searches, jobs and threads:   *)
(* an object is deleted when its last handle goes (XesamClass::unref) and    *)
(* not before.                                                               *)
THEOREM RefsAlwaysExact == Spec => []RefsExact
  <1>1. RInv => RefsExact
    <2> SUFFICES ASSUME RInv PROVE RefsExact
      OBVIOUS
    <2>1. \A s \in Search : searchRefs[s] = One(s \in searches)
              + Cardinality({x \in Session : s \in listed[x]}) + Cardinality(Jobs(s))
      <3> TAKE s \in Search
      <3>1. searchRefs[s] = (IF s \in searches THEN 2 ELSE 0) + Cardinality(Jobs(s))
        BY DEF RInv, SearchCounted
      <3>2. One(s \in searches) + One(s \in searches) = IF s \in searches THEN 2 ELSE 0
        BY DEF One
      <3> QED
        BY <3>1, <3>2, ListedOnce
    <2>2. \A x \in Session : sessionRefs[x] = One(x \in sessions) + Cardinality(Living(x))
      BY DEF RInv, SessionCounted
    <2> QED
      BY <2>1, <2>2 DEF RefsExact
  <1> QED
    BY <1>1, RefsInvariant, PTL

(* No count ever falls below zero, and every variable keeps its type.       *)
THEOREM TypeCorrect == Spec => []TypeOK
  <1>1. RInv => TypeOK
    <2> SUFFICES ASSUME RInv PROVE TypeOK
      OBVIOUS
    <2>1. \A s \in Search : searchRefs[s] \in Nat
      BY JobsFinite DEF RInv, SearchCounted
    <2>2. \A x \in Session : sessionRefs[x] \in Nat
      BY LivingFinite DEF RInv, SessionCounted, One
    <2>3. searchRefs \in [Search -> Nat] /\ sessionRefs \in [Session -> Nat]
      BY <2>1, <2>2 DEF RInv, Typed, ObjectsTyped
    <2> QED
      BY <2>3 DEF RInv, Typed, ObjectsTyped, JobsTyped, StateTyped, TypeOK
  <1> QED
    BY <1>1, RefsInvariant, PTL
-----------------------------------------------------------------------------
(***************************************************************************)
(* The count is on its way.                                                *)
(***************************************************************************)

(* A count is on its way as long as its job is neither run nor dropped.     *)
LEMMA ComingKept ==
    ASSUME CInv, UNCHANGED <<started, hitcount>>, life' = "open" => life = "open",
           \A j \in Job : body[j] # NoBody /\ body[j].kind = "count" /\ ~ body[j].done /\ life' = "open"
                             => body'[j] = body[j],
           \A s \in Search : countMessages'[s] # {}
                                => countMessages[s] # {} \/ (started[s] /\ hitcount[s] = Unknown)
    PROVE  CInv'
  <1>1. \A s \in Search : Coming(s) /\ life' = "open" => Coming(s)'
    BY DEF Coming, Jobs
  <1> QED
    BY <1>1 DEF CInv

LEMMA ComingPlain ==
    ASSUME RInv, CInv,
           \/ \E x \in Session : SessionCall(x)
           \/ \E s \in Search, m \in Msg : CallRefused(m, s) \/ GetHitCount(m, s) \/ GetNoHitData(m, s)
           \/ \E s \in Search : CloseSearch(s)
           \/ \E t \in Thread, j \in Job : TakeJob(j, t) \/ RunQuery(j, t) \/ DeleteJob(j, t)
           \/ StopQueue \/ DropJobs \/ QueueGone \/ UNCHANGED vars
    PROVE  CInv'
  <1>0. ObjectsTyped /\ JobsTyped /\ StateTyped /\ Typed
    BY DEF RInv, Typed
  <1>1. ASSUME NEW x \in Session, SessionCall(x) PROVE CInv'
    <2>1. UNCHANGED <<started, hitcount, life, body, countMessages>>
      BY <1>1 DEF SessionCall, NewSession, SetProperty, CloseSession, NewSearch, NewSearchFails, searchVars, pool
    <2> QED
      BY <2>1, ComingKept
  <1>2. ASSUME NEW s \in Search, NEW m \in Msg, CallRefused(m, s) \/ GetHitCount(m, s) \/ GetNoHitData(m, s)
        PROVE CInv'
    <2>1. UNCHANGED <<started, hitcount, life, body>>
      BY <1>2 DEF CallRefused, GetHitCount, GetNoHitData, Answer, searchVars, pool
    <2>2. \A r \in Search : countMessages'[r] = countMessages[r]
                            \/ (started[r] /\ hitcount[r] = Unknown)
      <3>1. CASE UNCHANGED countMessages
        BY <3>1
      <3>2. CASE /\ ~ Refused(s) /\ hitcount[s] = Unknown
                 /\ countMessages' = [countMessages EXCEPT ![s] = @ \cup {m}]
        BY <1>0, <3>2 DEF Refused, StateTyped
      <3> QED
        BY <1>2, <3>1, <3>2 DEF CallRefused, GetHitCount, GetNoHitData, Answer, searchVars
    <2> QED
      BY <2>1, <2>2, ComingKept
  <1>3. ASSUME NEW s \in Search, CloseSearch(s) PROVE CInv'
    <2>1. UNCHANGED <<started, hitcount, life, body, countMessages>>
      BY <1>3 DEF CloseSearch, searchVars, pool
    <2> QED
      BY <2>1, ComingKept
  <1>4. ASSUME NEW t \in Thread, NEW j \in Job, TakeJob(j, t) \/ RunQuery(j, t) \/ DeleteJob(j, t) PROVE CInv'
    <2>1. UNCHANGED <<started, hitcount, life, countMessages>>
      BY <1>4 DEF TakeJob, RunQuery, DeleteJob, Pool!Take, Pool!Finish, searchVars, pool
    <2>2. \A k \in Job : body[k] # NoBody /\ body[k].kind = "count" /\ ~ body[k].done => body'[k] = body[k]
      <3>1. CASE TakeJob(j, t)
        BY <3>1 DEF TakeJob
      <3>2. CASE RunQuery(j, t)
        <4>1. Done(j) /\ body[j] # NoBody /\ body[j].kind # "count"
          BY <1>0, <3>2, KindFacts DEF RunQuery
        <4> QED
          BY <1>0, <4>1, DoneBody
      <3>3. CASE DeleteJob(j, t)
        BY <1>0, <3>3 DEF DeleteJob, JobsTyped
      <3> QED
        BY <1>4, <3>1, <3>2, <3>3
    <2> QED
      BY <2>1, <2>2, ComingKept
  <1>5. CASE DropJobs
    <2>1. UNCHANGED <<started, hitcount, countMessages>> /\ life' # "open"
      BY <1>5 DEF DropJobs, Pool!DropQueued, searchVars
    <2> QED
      BY <2>1, ComingKept
  <1>6. CASE StopQueue \/ QueueGone \/ UNCHANGED vars
    <2>1. UNCHANGED <<started, hitcount, countMessages, body>> /\ (life' = "open" => life = "open")
      BY <1>6 DEF StopQueue, QueueGone, Pool!Stop, Pool!Vanish, searchVars, vars, pool
    <2> QED
      BY <2>1, ComingKept
  <1> QED
    BY <1>1, <1>2, <1>3, <1>4, <1>5, <1>6

LEMMA ComingNewJob ==
    ASSUME RInv, CInv, NEW s \in Search, NEW j \in Job,
           \/ StartSearch(s, j)
           \/ \E m \in Msg : \/ \E num \in 1..MaxHits : GetHits(m, s, num, j)
                             \/ GetHitData(m, s, j)
    PROVE  CInv'
  <1>0. ObjectsTyped /\ JobsTyped /\ StateTyped
    BY DEF RInv, Typed
  <1>1. CASE StartSearch(s, j)
    <2>1. /\ s \in searches /\ ~ started[s] /\ started' = [started EXCEPT ![s] = TRUE]
          /\ AddJob(j, "count", s, None)
          /\ UNCHANGED <<hitcount, countMessages>>
      BY <1>1 DEF StartSearch
    <2>2. /\ life' = life /\ body[j] = NoBody /\ body'[j] # NoBody
          /\ body'[j] = [kind |-> "count", search |-> s, msg |-> None, done |-> FALSE]
          /\ \A k \in Job : k # j => body'[k] = body[k]
      BY <2>1, AddJobRefs
    <2>3. Coming(s)'
      BY <2>2 DEF Coming, Jobs
    <2>4. \A r \in Search : Coming(r) => Coming(r)'
      BY <2>2 DEF Coming, Jobs
    <2>5. \A r \in Search : r # s => started'[r] = started[r]
      BY <1>0, <2>1 DEF StateTyped
    <2>6. countMessages[s] = {} /\ started'[s]
      BY <1>0, <2>1 DEF CInv, StateTyped
    <2> QED
      BY <2>1, <2>2, <2>3, <2>4, <2>5, <2>6 DEF CInv
  <1>2. ASSUME NEW m \in Msg, (\E num \in 1..MaxHits : GetHits(m, s, num, j)) \/ GetHitData(m, s, j)
        PROVE  CInv'
    <2>0. m # None
      BY XesamAssumption DEF XesamAssumption
    <2>1. UNCHANGED <<started, hitcount, countMessages>> /\ s \in searches
          /\ (AddJob(j, "hits", s, m) \/ AddJob(j, "data", s, m))
      BY <1>2 DEF GetHits, GetHitData, Refused, searchVars
    <2>2. life' = life /\ body[j] = NoBody /\ \A k \in Job : k # j => body'[k] = body[k]
      BY <2>0, <2>1, AddJobRefs
    <2> QED
      BY <2>1, <2>2, ComingKept
  <1> QED
    BY <1>1, <1>2

(* The count arrives: from then on nobody waits for it.                     *)
LEMMA ComingCount ==
    ASSUME RInv, CInv, NEW t \in Thread, NEW j \in Job, RunCount(j, t)
    PROVE  CInv'
  <1>0. Typed /\ StateTyped
    BY DEF RInv, Typed
  <1> DEFINE s == body[j].search
  <1>1. Done(j) /\ body[j] # NoBody /\ s \in Search
    BY <1>0, KindFacts DEF RunCount
  <1>2. UNCHANGED <<started, life>>
    BY DEF RunCount, pool
  <1>3. \A k \in Job : k # j => body'[k] = body[k]
    BY <1>0, <1>1, DoneBody
  <1> HIDE DEF s
  <1>4. \A r \in Search : r # s /\ Coming(r) => Coming(r)'
    BY <1>3 DEF Coming, Jobs, s
  <1>5. hitcount'[s] # Unknown
    <2>1. CASE hitcount[s] = Unknown
      <3>1. hitcount' = [hitcount EXCEPT ![s] = Counted]
        BY <2>1 DEF RunCount, s
      <3>2. hitcount'[s] = Counted
        BY <1>0, <1>1, <3>1 DEF StateTyped
      <3> QED
        BY <3>2 DEF Unknown, Counted
    <2>2. CASE hitcount[s] # Unknown
      BY <2>2 DEF RunCount, s
    <2> QED
      BY <2>1, <2>2
  <1>6. countMessages'[s] = {}
    <2>1. CASE hitcount[s] = Unknown
      BY <1>0, <1>1, <2>1 DEF RunCount, StateTyped, s
    <2>2. CASE hitcount[s] # Unknown
      <3>1. countMessages[s] = {}
        BY <1>1, <2>2 DEF CInv
      <3> QED
        BY <2>2, <3>1 DEF RunCount, s
    <2> QED
      BY <2>1, <2>2
  <1>7. \A r \in Search : r # s => hitcount'[r] = hitcount[r] /\ countMessages'[r] = countMessages[r]
    BY <1>0, <1>1 DEF RunCount, StateTyped, s
  <1> QED
    BY <1>2, <1>4, <1>5, <1>6, <1>7 DEF CInv

LEMMA ComingInvariant == Spec => []CInv
  <1>1. Init => CInv
    BY DEF Init, CInv
  <1>2. RInv /\ CInv /\ [Next]_vars => CInv'
    <2> SUFFICES ASSUME RInv, CInv, [Next]_vars PROVE CInv'
      OBVIOUS
    <2>1. ASSUME NEW s \in Search, SearchCall(s) PROVE CInv'
      BY <2>1, ComingPlain, ComingNewJob DEF SearchCall
    <2>2. ASSUME NEW t \in Thread, JobStep(t) PROVE CInv'
      BY <2>2, ComingPlain, ComingCount DEF JobStep
    <2> QED
      BY <2>1, <2>2, ComingPlain DEF Next
  <1> QED
    BY <1>1, <1>2, RefsInvariant, PTL DEF Spec

(* CountIsComing holds for any number of searches, calls and threads: the    *)
(* test and the append of getHitCount() and the assignment and the replies   *)
(* of setCount() leave no call behind.                                       *)
THEOREM CountsAreComing == Spec => []CountIsComing
  <1>1. CInv => CountIsComing
    BY DEF CInv, CountIsComing, Coming
  <1> QED
    BY <1>1, ComingInvariant, PTL
-----------------------------------------------------------------------------
(***************************************************************************)
(* One reply for each call.                                                *)
(***************************************************************************)

(* What a step may do to a call: nothing, answer it and leave it with nobody,*)
(* or give it to one holder; a queue that is closed may drop it.             *)
LEMMA RepliesKept ==
    ASSUME MInv, life' = "open" => life = "open",
           \A m \in Msg : \/ Holders(m)' = Holders(m) /\ reply'[m] = reply[m]
                          \/ Holders(m)' = {} /\ reply'[m] = "answered"
                          \/ (\E h : Holders(m)' = {h}) /\ reply'[m] = "held"
                          \/ Holders(m)' \in SUBSET Holders(m) /\ reply'[m] = reply[m] /\ life' # "open"
    PROVE  MInv'
  <1> SUFFICES ASSUME NEW m \in Msg
               PROVE  /\ \A g, h \in Holders(m)' : g = h
                      /\ Holders(m)' # {} => reply'[m] = "held"
                      /\ reply'[m] = "held" /\ life' = "open" => Holders(m)' # {}
    BY DEF MInv
  <1>1. /\ \A g, h \in Holders(m) : g = h
        /\ Holders(m) # {} => reply[m] = "held"
        /\ reply[m] = "held" /\ life = "open" => Holders(m) # {}
    BY DEF MInv
  <1>2. \/ Holders(m)' = Holders(m) /\ reply'[m] = reply[m]
        \/ Holders(m)' = {} /\ reply'[m] = "answered"
        \/ (\E h : Holders(m)' = {h}) /\ reply'[m] = "held"
        \/ Holders(m)' \in SUBSET Holders(m) /\ reply'[m] = reply[m] /\ life' # "open"
    OBVIOUS
  <1> QED
    BY <1>1, <1>2

(* Who holds a call.                                                        *)
LEMMA HolderFacts ==
    ASSUME NEW m \in Msg
    PROVE  /\ \A j \in Job : j \in Holders(m) <=> body[j] # NoBody /\ body[j].msg = m /\ ~ body[j].done
           /\ \A s \in Search : s \in Holders(m) <=> m \in countMessages[s]
           /\ Holders(m) \in SUBSET (Job \cup Search)
  BY XesamAssumption DEF Holders, XesamAssumption
LEMMA HolderNextFacts ==
    ASSUME NEW m \in Msg
    PROVE  /\ \A j \in Job : j \in Holders(m)' <=> body'[j] # NoBody /\ body'[j].msg = m /\ ~ body'[j].done
           /\ \A s \in Search : s \in Holders(m)' <=> m \in countMessages'[s]
           /\ Holders(m)' \in SUBSET (Job \cup Search)
  BY XesamAssumption DEF Holders, XesamAssumption

LEMMA RepliesPlain ==
    ASSUME RInv, MInv,
           \/ \E x \in Session : SessionCall(x)
           \/ \E s \in Search : CloseSearch(s) \/ \E j \in Job : StartSearch(s, j)
           \/ \E t \in Thread, j \in Job : TakeJob(j, t) \/ DeleteJob(j, t)
           \/ StopQueue \/ DropJobs \/ QueueGone \/ UNCHANGED vars
    PROVE  MInv'
  <1>0. Typed /\ ObjectsTyped /\ JobsTyped /\ StateTyped
    BY DEF RInv, Typed
  <1>1. CASE \/ \E x \in Session : SessionCall(x)
             \/ \E s \in Search : CloseSearch(s)
             \/ \E t \in Thread, j \in Job : TakeJob(j, t)
             \/ StopQueue \/ QueueGone \/ UNCHANGED vars
    <2>1. UNCHANGED <<body, countMessages, reply>> /\ (life' = "open" => life = "open")
      BY <1>1 DEF SessionCall, NewSession, SetProperty, CloseSession, NewSearch, NewSearchFails, CloseSearch,
                  TakeJob, StopQueue, QueueGone, Pool!Take, Pool!Stop, Pool!Vanish, searchVars, pool, vars
    <2>2. \A m \in Msg : Holders(m)' = Holders(m)
      BY <2>1 DEF Holders
    <2> QED
      BY <2>1, <2>2, RepliesKept
  <1>2. ASSUME NEW s \in Search, NEW j \in Job, StartSearch(s, j) PROVE MInv'
    <2>1. s \in searches /\ AddJob(j, "count", s, None) /\ UNCHANGED <<countMessages, reply>>
      BY <1>2 DEF StartSearch
    <2>2. /\ life' = life /\ body[j] = NoBody
          /\ body'[j] = [kind |-> "count", search |-> s, msg |-> None, done |-> FALSE]
          /\ \A k \in Job : k # j => body'[k] = body[k]
      BY <2>1, AddJobRefs
    <2>3. \A m \in Msg : m # None
      BY XesamAssumption DEF XesamAssumption
    <2>4. \A m \in Msg : Holders(m)' = Holders(m)
      BY <2>1, <2>2, <2>3 DEF Holders
    <2> QED
      BY <2>1, <2>2, <2>4, RepliesKept
  <1>3. ASSUME NEW t \in Thread, NEW j \in Job, DeleteJob(j, t) PROVE MInv'
    <2>1. /\ UNCHANGED <<countMessages, reply, life>> /\ body[j].done
          /\ body' = [body EXCEPT ![j] = NoBody]
      BY <1>3 DEF DeleteJob, Pool!Finish, searchVars
    <2>2. \A m \in Msg : Holders(m)' = Holders(m)
      BY <1>0, <2>1 DEF Holders, JobsTyped
    <2> QED
      BY <2>1, <2>2, RepliesKept
  <1>4. CASE DropJobs
    <2>1. /\ UNCHANGED <<countMessages, reply>> /\ life' # "open" /\ life # "open"
          /\ body' = [k \in Job |-> IF k \in Queued THEN NoBody ELSE body[k]]
      BY <1>4 DEF DropJobs, Pool!DropQueued, searchVars
    <2>2. \A m \in Msg : Holders(m)' \in SUBSET Holders(m)
      BY <2>1 DEF Holders
    <2> QED
      BY <2>1, <2>2, RepliesKept
  <1> QED
    BY <1>1, <1>2, <1>3, <1>4

(* A call that arrives has no holder; it is answered, or given to the list   *)
(* of calls that wait or to a new job.                                       *)
LEMMA RepliesCalls ==
    ASSUME RInv, MInv, NEW m \in Msg, NEW s \in Search,
           \/ CallRefused(m, s) \/ GetHitCount(m, s) \/ GetNoHitData(m, s)
           \/ \E j \in Job : GetHitData(m, s, j) \/ \E num \in 1..MaxHits : GetHits(m, s, num, j)
    PROVE  MInv'
  <1>0. Typed /\ ObjectsTyped /\ JobsTyped /\ StateTyped
    BY DEF RInv, Typed
  <1>1. Holders(m) = {}
    BY DEF CallRefused, GetHitCount, GetNoHitData, GetHitData, GetHits, Call, MInv
  <1>2. CASE Answer(m)
    <2>1. UNCHANGED <<body, countMessages, life>> /\ reply' = [reply EXCEPT ![m] = "answered"]
      BY <1>2 DEF Answer, pool, searchVars
    <2>2. \A l \in Msg : Holders(l)' = Holders(l)
      BY <2>1 DEF Holders
    <2>3. \A l \in Msg : reply'[l] = IF l = m THEN "answered" ELSE reply[l]
      BY <1>0, <2>1 DEF StateTyped
    <2> QED
      BY <1>1, <2>1, <2>2, <2>3, RepliesKept
  <1>3. CASE GetHitCount(m, s) /\ hitcount[s] = Unknown
    <2>1. /\ UNCHANGED <<body, life>> /\ reply' = [reply EXCEPT ![m] = "held"]
          /\ countMessages' = [countMessages EXCEPT ![s] = @ \cup {m}]
      BY <1>3 DEF GetHitCount, pool
    <2>2. \A r \in Search : countMessages'[r] = IF r = s THEN countMessages[r] \cup {m} ELSE countMessages[r]
      BY <1>0, <2>1 DEF StateTyped
    <2>3. \A l \in Msg : l # m => Holders(l)' = Holders(l)
      BY <2>1, <2>2 DEF Holders
    <2>4. Holders(m)' = Holders(m) \cup {s}
      BY <2>1, <2>2 DEF Holders
    <2>5. \A l \in Msg : reply'[l] = IF l = m THEN "held" ELSE reply[l]
      BY <1>0, <2>1 DEF StateTyped
    <2>6. Holders(m)' = {s}
      BY <1>1, <2>4
    <2> QED
      BY <2>1, <2>3, <2>5, <2>6, RepliesKept
  <1>4. ASSUME NEW j \in Job, (\E num \in 1..MaxHits : GetHits(m, s, num, j)) \/ GetHitData(m, s, j)
        PROVE  MInv'
    <2>0. m # None
      BY XesamAssumption DEF XesamAssumption
    <2>1. /\ UNCHANGED countMessages /\ s \in searches /\ reply' = [reply EXCEPT ![m] = "held"]
          /\ \E kind \in {"hits", "data"} : AddJob(j, kind, s, m)
      BY <1>4 DEF GetHits, GetHitData, Refused, searchVars
    <2>k. PICK kind \in {"hits", "data"} : AddJob(j, kind, s, m)
      BY <2>1
    <2>b. /\ life' = life /\ body[j] = NoBody /\ body'[j] # NoBody
          /\ body'[j] = [kind |-> kind, search |-> s, msg |-> m, done |-> FALSE]
          /\ \A k \in Job : k # j => body'[k] = body[k]
      BY <2>0, <2>1, <2>k, AddJobRefs
    <2>2. /\ life' = life /\ body[j] = NoBody /\ body'[j] # NoBody /\ body'[j].msg = m /\ ~ body'[j].done
          /\ \A k \in Job : k # j => body'[k] = body[k]
      BY <2>b
    <2>3. \A l \in Msg : l # m => Holders(l)' = Holders(l)
      BY <2>1, <2>2 DEF Holders
    <2>4. Holders(m)' = Holders(m) \cup {j}
      BY <2>1, <2>2 DEF Holders
    <2>5. \A l \in Msg : reply'[l] = IF l = m THEN "held" ELSE reply[l]
      BY <1>0, <2>1 DEF StateTyped
    <2>6. Holders(m)' = {j}
      BY <1>1, <2>4
    <2> QED
      BY <2>2, <2>3, <2>5, <2>6, RepliesKept
  <1> QED
    BY <1>2, <1>3, <1>4 DEF CallRefused, GetHitCount, GetNoHitData

(* setCount() answers every call of its list, and forgets them.             *)
LEMMA RepliesCount ==
    ASSUME RInv, MInv, NEW t \in Thread, NEW j \in Job, RunCount(j, t)
    PROVE  MInv'
  <1>0. Typed /\ StateTyped /\ Bodies
    BY DEF RInv, Typed
  <1> DEFINE s == body[j].search
  <1>1. Done(j) /\ body[j] # NoBody /\ s \in Search
    BY <1>0, KindFacts DEF RunCount
  <1>2. /\ body' \in [Job -> Body \cup {NoBody}]
        /\ body'[j] # NoBody /\ body'[j].msg = body[j].msg
        /\ \A k \in Job : k # j => body'[k] = body[k]
    BY <1>0, <1>1, DoneBody
  <1>3. \A m \in Msg : body[j].msg # m
    BY <1>0, <1>1, XesamAssumption DEF RunCount, Bodies, XesamAssumption
  <1>4. life' = life
    BY DEF RunCount, pool
  <1> HIDE DEF s
  <1>5. CASE hitcount[s] = Unknown
    <2>1. /\ reply' = [m \in Msg |-> IF m \in countMessages[s] THEN "answered" ELSE reply[m]]
          /\ countMessages' = [countMessages EXCEPT ![s] = {}]
      BY <1>5 DEF RunCount, s
    <2>2. \A r \in Search : countMessages'[r] = IF r = s THEN {} ELSE countMessages[r]
      BY <1>0, <2>1 DEF StateTyped
    <2>3. \A m \in Msg : Holders(m)' = Holders(m) \ {s}
      <3> TAKE m \in Msg
      <3>1. s \notin Job
        BY <1>1, XesamAssumption DEF XesamAssumption
      <3>2. \A k \in Job : k \in Holders(m)' <=> k \in Holders(m)
        BY <1>2, <1>3, HolderFacts, HolderNextFacts
      <3>3. \A r \in Search : r \in Holders(m)' <=> r \in Holders(m) /\ r # s
        BY <2>2, HolderFacts, HolderNextFacts
      <3> QED
        BY <3>1, <3>2, <3>3, HolderFacts, HolderNextFacts
    <2>4. ASSUME NEW m \in Msg
          PROVE  \/ Holders(m)' = Holders(m) /\ reply'[m] = reply[m]
                 \/ Holders(m)' = {} /\ reply'[m] = "answered"
      <3>1. CASE m \in countMessages[s]
        <4>1. s \in Holders(m)
          BY <1>1, <3>1, HolderFacts
        <4>2. Holders(m) = {s}
          BY <4>1 DEF MInv
        <4> QED
          BY <2>1, <2>3, <3>1, <4>2
      <3>2. CASE m \notin countMessages[s]
        <4>1. s \notin Holders(m)
          BY <1>1, <3>2, HolderFacts
        <4> QED
          BY <2>1, <2>3, <3>2, <4>1
      <3> QED
        BY <3>1, <3>2
    <2> QED
      BY <1>4, <2>4, RepliesKept
  <1>6. CASE hitcount[s] # Unknown
    <2>1. UNCHANGED <<reply, countMessages>>
      BY <1>6 DEF RunCount, s
    <2>2. \A m \in Msg : Holders(m)' = Holders(m)
      <3> TAKE m \in Msg
      <3>1. \A k \in Job : k \in Holders(m)' <=> k \in Holders(m)
        BY <1>2, <1>3, HolderFacts, HolderNextFacts
      <3>2. \A r \in Search : r \in Holders(m)' <=> r \in Holders(m)
        BY <2>1, HolderFacts, HolderNextFacts
      <3> QED
        BY <3>1, <3>2, HolderFacts, HolderNextFacts
    <2> QED
      BY <1>4, <2>1, <2>2, RepliesKept
  <1> QED
    BY <1>5, <1>6

(* A query answers the call its job was made for.                           *)
LEMMA RepliesQuery ==
    ASSUME RInv, MInv, NEW t \in Thread, NEW j \in Job, RunQuery(j, t)
    PROVE  MInv'
  <1>0. Typed /\ JobsTyped /\ StateTyped /\ Bodies
    BY DEF RInv, Typed
  <1> DEFINE q == body[j].msg
  <1>1. /\ Done(j) /\ body[j].kind # "count" /\ ~ body[j].done
        /\ reply' = [reply EXCEPT ![q] = "answered"]
        /\ UNCHANGED <<life, countMessages>>
    BY DEF RunQuery, pool, searchVars
  <1>2. body[j] # NoBody /\ body[j] \in Body
    BY <1>0, KindFacts DEF RunQuery
  <1>3. q \in Msg
    BY <1>0, <1>1, <1>2, BodyFacts DEF Bodies
  <1>4. /\ body'[j].done /\ \A k \in Job : k # j => body'[k] = body[k]
    BY <1>0, <1>1, <1>2, DoneBody
  <1>5. \A m \in Msg : Holders(m)' = Holders(m) \ {j}
    <2> TAKE m \in Msg
    <2>1. j \notin Search
      BY XesamAssumption DEF XesamAssumption
    <2>2. \A k \in Job : k \in Holders(m)' <=> k \in Holders(m) /\ k # j
      BY <1>4, HolderFacts, HolderNextFacts
    <2>3. \A r \in Search : r \in Holders(m)' <=> r \in Holders(m)
      BY <1>1, HolderFacts, HolderNextFacts
    <2> QED
      BY <2>1, <2>2, <2>3, HolderFacts, HolderNextFacts
  <1>6. j \in Holders(q)
    BY <1>1, <1>2, <1>3, HolderFacts
  <1>7. \A m \in Msg : m # q => j \notin Holders(m)
    BY HolderFacts
  <1> HIDE DEF q
  <1>8. Holders(q) = {j}
    BY <1>3, <1>6 DEF MInv
  <1>9. \A m \in Msg : reply'[m] = IF m = q THEN "answered" ELSE reply[m]
    BY <1>0, <1>1 DEF StateTyped
  <1>10. \A m \in Msg : \/ Holders(m)' = Holders(m) /\ reply'[m] = reply[m]
                        \/ Holders(m)' = {} /\ reply'[m] = "answered"
    BY <1>5, <1>7, <1>8, <1>9
  <1> QED
    BY <1>1, <1>10, RepliesKept

LEMMA RepliesInvariant == Spec => []MInv
  <1>1. Init => MInv
    BY DEF Init, MInv, Holders
  <1>2. RInv /\ MInv /\ [Next]_vars => MInv'
    <2> SUFFICES ASSUME RInv, MInv, [Next]_vars PROVE MInv'
      OBVIOUS
    <2>1. ASSUME NEW s \in Search, SearchCall(s) PROVE MInv'
      BY <2>1, RepliesPlain, RepliesCalls DEF SearchCall
    <2>2. ASSUME NEW t \in Thread, JobStep(t) PROVE MInv'
      BY <2>2, RepliesPlain, RepliesCount, RepliesQuery DEF JobStep
    <2> QED
      BY <2>1, <2>2, RepliesPlain DEF Next
  <1> QED
    BY <1>1, <1>2, RefsInvariant, PTL DEF Spec

(* OneReply holds for any number of calls, searches, jobs and threads: a     *)
(* message that was answered is with no job and in no list.                  *)
THEOREM OneReplyAlways == Spec => []OneReply
  <1>1. MInv => OneReply
    <2> SUFFICES ASSUME MInv, NEW m \in Msg PROVE Cardinality(Holders(m)) <= 1
      BY DEF MInv, OneReply
    <2>1. CASE Holders(m) = {}
      BY <2>1, FS_EmptySet
    <2>2. CASE Holders(m) # {}
      <3>1. PICK h \in Holders(m) : Holders(m) = {h}
        BY <2>2 DEF MInv
      <3>2. Cardinality({h}) = 1
        BY FS_Singleton
      <3> QED
        BY <3>1, <3>2
    <2> QED
      BY <2>1, <2>2
  <1> QED
    BY <1>1, RepliesInvariant, PTL
-----------------------------------------------------------------------------
(***************************************************************************)
(* The hits of a search follow each other.                                 *)
(***************************************************************************)

(* GetHits() begins where the hits that were asked for end.                 *)
LEMMA WindowsNext ==
    ASSUME RInv, WInv, NEW m \in Msg, NEW s \in Search, NEW num \in 1..MaxHits, NEW j \in Job,
           GetHits(m, s, num, j)
    PROVE  WInv'
  <1>0. StateTyped
    BY DEF RInv, Typed
  <1> DEFINE h == hitsgotten[s]
             fresh == [search |-> s, from |-> h, to |-> h + num]
  <1>1. /\ reply[m] = "unsent" /\ reply' = [reply EXCEPT ![m] = "held"]
        /\ window' = [window EXCEPT ![m] = fresh]
        /\ hitsgotten' = [hitsgotten EXCEPT ![s] = @ + num]
    BY DEF GetHits, Call
  <1>2. num \in Nat /\ num > 0 /\ h \in Nat
    <2>1. num \in Nat /\ num > 0
      BY XesamAssumption DEF XesamAssumption
    <2>2. h \in Nat
      BY <1>0 DEF StateTyped
    <2> QED
      BY <2>1, <2>2
  <1>3. /\ \A l \in Msg : window'[l] = IF l = m THEN fresh ELSE window[l]
        /\ \A l \in Msg : reply'[l] = IF l = m THEN "held" ELSE reply[l]
        /\ \A r \in Search : hitsgotten'[r] = IF r = s THEN h + num ELSE hitsgotten[r]
    BY <1>0, <1>1 DEF StateTyped
  <1>4. window[m].search = None /\ \A r \in Search : r # None
    BY <1>1, XesamAssumption DEF WInv, XesamAssumption
  <1>t. \A r \in Search : hitsgotten[r] \in Nat
    BY <1>0 DEF StateTyped
  <1>w. \A l \in Msg : window[l].to \in Nat /\ window[l].from \in Nat
    BY <1>0 DEF StateTyped
  <1> DEFINE Covers1(l, r, n) == window'[l].search = r /\ window'[l].from <= n /\ n < window'[l].to
  <1>5. \A r \in Search, n \in Nat : Covers1(m, r, n) <=> r = s /\ h <= n /\ n < h + num
    BY <1>3
  <1>6. \A l \in Msg, r \in Search, n \in Nat : l # m => (Covers1(l, r, n) <=> Covers(l, r, n))
    BY <1>3 DEF Covers
  <1>a. \A l \in Msg, r \in Search, n \in Nat : Covers(l, r, n) => n < hitsgotten[r] /\ l # m
    <2> SUFFICES ASSUME NEW l \in Msg, NEW r \in Search, NEW n \in Nat, Covers(l, r, n)
                 PROVE  n < hitsgotten[r] /\ l # m
      OBVIOUS
    <2>1. window[l].search = r /\ n < window[l].to
      BY DEF Covers
    <2>2. window[l].to <= hitsgotten[r]
      BY <2>1 DEF WInv
    <2>3. window[l].to \in Nat /\ hitsgotten[r] \in Nat
      BY <1>t, <1>w
    <2>4. l # m
      BY <1>4, <2>1
    <2> QED
      BY <2>1, <2>2, <2>3, <2>4
  <1>7. \A l \in Msg : reply'[l] = "unsent" => window'[l].search = None
    BY <1>3 DEF WInv
  <1>8. ASSUME NEW l \in Msg, NEW r \in Search, window'[l].search = r PROVE window'[l].to <= hitsgotten'[r]
    <2>1. CASE l = m
      BY <1>2, <1>3, <1>8, <2>1
    <2>2. CASE l # m
      <3>1. window'[l].to = window[l].to /\ window[l].to <= hitsgotten[r]
        BY <1>3, <1>8, <2>2 DEF WInv
      <3>2. hitsgotten[r] <= hitsgotten'[r] /\ hitsgotten'[r] \in Nat
        BY <1>2, <1>3, <1>t
      <3> QED
        BY <1>t, <1>w, <3>1, <3>2
    <2> QED
      BY <2>1, <2>2
  <1> HIDE DEF Covers1
  <1>9. ASSUME NEW r \in Search, NEW n \in Nat, n < hitsgotten'[r] PROVE \E l \in Msg : Covers1(l, r, n)
    <2>1. CASE n < hitsgotten[r]
      <3>1. PICK l \in Msg : Covers(l, r, n)
        BY <2>1 DEF WInv
      <3> QED
        BY <1>6, <1>a, <3>1
    <2>2. CASE ~ (n < hitsgotten[r])
      <3>1. r = s
        BY <1>3, <1>9, <2>2
      <3>2. h <= n /\ n < h + num
        BY <1>2, <1>3, <1>9, <2>2, <3>1
      <3> QED
        BY <1>5, <3>1, <3>2
    <2> QED
      BY <2>1, <2>2
  <1>10. ASSUME NEW k \in Msg, NEW l \in Msg, NEW r \in Search, NEW n \in Nat, Covers1(k, r, n), Covers1(l, r, n)
         PROVE  k = l
    <2>1. ASSUME NEW o \in Msg, o # m, Covers1(o, r, n) PROVE ~ Covers1(m, r, n)
      <3>1. n < hitsgotten[r] /\ hitsgotten[r] \in Nat
        BY <1>6, <1>a, <1>t, <2>1
      <3>2. r = s => ~ (h <= n)
        BY <3>1
      <3> QED
        BY <1>5, <3>2
    <2>2. k # m /\ l # m => k = l
      BY <1>6, <1>10 DEF WInv
    <2> QED
      BY <1>10, <2>1, <2>2
  <1> QED
    BY <1>7, <1>8, <1>9, <1>10 DEF WInv, Covers, Covers1

(* All other steps leave the windows alone.                                 *)
LEMMA WindowsKept ==
    ASSUME WInv, UNCHANGED <<window, hitsgotten>>,
           \A m \in Msg : reply'[m] = "unsent" => reply[m] = "unsent"
    PROVE  WInv'
  BY DEF WInv, Covers

LEMMA WindowsInvariant == Spec => []WInv
  <1>1. Init => WInv
    <2> SUFFICES ASSUME Init PROVE WInv
      OBVIOUS
    <2>1. \A m \in Msg : window[m].search = None
      BY DEF Init, NoWindow
    <2>2. \A s \in Search : s # None /\ hitsgotten[s] = 0
      BY XesamAssumption DEF Init, XesamAssumption
    <2> QED
      BY <2>1, <2>2 DEF WInv, Covers
  <1>2. RInv /\ WInv /\ [Next]_vars => WInv'
    <2> SUFFICES ASSUME RInv, WInv, [Next]_vars PROVE WInv'
      OBVIOUS
    <2>0. StateTyped
      BY DEF RInv, Typed
    <2>1. ASSUME NEW x \in Session, SessionCall(x) PROVE WInv'
      <3>1. UNCHANGED <<window, hitsgotten, reply>>
        BY <2>1 DEF SessionCall, NewSession, SetProperty, CloseSession, NewSearch, NewSearchFails, searchVars
      <3> QED
        BY <3>1, WindowsKept
    <2>2. ASSUME NEW s \in Search, SearchCall(s) PROVE WInv'
      <3>1. CASE (\E j \in Job : StartSearch(s, j)) \/ CloseSearch(s)
        <4>1. UNCHANGED <<window, hitsgotten, reply>>
          BY <3>1 DEF StartSearch, CloseSearch, searchVars
        <4> QED
          BY <4>1, WindowsKept
      <3>2. ASSUME NEW m \in Msg, \/ CallRefused(m, s) \/ GetHitCount(m, s) \/ GetNoHitData(m, s)
                                  \/ \E j \in Job : GetHitData(m, s, j)
            PROVE  WInv'
        <4>1. /\ UNCHANGED <<window, hitsgotten>>
              /\ reply' = [reply EXCEPT ![m] = "answered"] \/ reply' = [reply EXCEPT ![m] = "held"]
          BY <3>2 DEF CallRefused, GetHitCount, GetNoHitData, GetHitData, Answer, searchVars
        <4>2. \A l \in Msg : reply'[l] = "unsent" => reply[l] = "unsent"
          BY <2>0, <4>1 DEF StateTyped
        <4> QED
          BY <4>1, <4>2, WindowsKept
      <3>3. ASSUME NEW m \in Msg, NEW j \in Job, NEW num \in 1..MaxHits, GetHits(m, s, num, j) PROVE WInv'
        BY <3>3, WindowsNext
      <3> QED
        BY <2>2, <3>1, <3>2, <3>3 DEF SearchCall
    <2>3. ASSUME NEW t \in Thread, JobStep(t) PROVE WInv'
      <3>1. UNCHANGED <<window, hitsgotten>>
        BY <2>3 DEF JobStep, TakeJob, RunCount, RunQuery, DeleteJob, searchVars
      <3>2. \A m \in Msg : reply'[m] = "unsent" => reply[m] = "unsent"
        <4> TAKE m \in Msg
        <4>1. ASSUME NEW j \in Job, TakeJob(j, t) \/ DeleteJob(j, t) PROVE reply'[m] = reply[m]
          BY <4>1 DEF TakeJob, DeleteJob
        <4>2. ASSUME NEW j \in Job, RunCount(j, t) PROVE reply'[m] \in {reply[m], "answered"}
          BY <4>2 DEF RunCount
        <4>3. ASSUME NEW j \in Job, RunQuery(j, t) PROVE reply'[m] \in {reply[m], "answered"}
          <5>1. reply' = [reply EXCEPT ![body[j].msg] = "answered"]
            BY <4>3 DEF RunQuery
          <5> QED
            BY <2>0, <5>1 DEF StateTyped
        <4> QED
          BY <2>3, <4>1, <4>2, <4>3 DEF JobStep
      <3> QED
        BY <3>1, <3>2, WindowsKept
    <2>4. CASE StopQueue \/ DropJobs \/ QueueGone \/ UNCHANGED vars
      <3>1. UNCHANGED <<window, hitsgotten, reply>>
        BY <2>4 DEF StopQueue, DropJobs, QueueGone, vars, searchVars
      <3> QED
        BY <3>1, WindowsKept
    <2> QED
      BY <2>1, <2>2, <2>3, <2>4 DEF Next
  <1> QED
    BY <1>1, <1>2, RefsInvariant, PTL DEF Spec

(* HitsTile holds for any number of calls of any size: every hit below       *)
(* hitsgotten belongs to exactly one call of GetHits(), the others to none.  *)
THEOREM HitsAlwaysTile == Spec => []HitsTile
  <1>1. RInv /\ WInv => HitsTile
    <2> SUFFICES ASSUME RInv, WInv, NEW s \in Search, NEW n \in 0..(MaxHits * Cardinality(Msg))
                 PROVE  Cardinality({m \in Msg : Covers(m, s, n)}) = One(n < hitsgotten[s])
      BY DEF HitsTile, Covers
    <2>0. n \in Nat /\ hitsgotten[s] \in Nat /\ \A m \in Msg : window[m].to \in Nat
      <3>1. n \in Nat
        OBVIOUS
      <3> QED
        BY <3>1 DEF RInv, Typed, StateTyped
    <2>1. CASE n < hitsgotten[s]
      <3>1. PICK m \in Msg : Covers(m, s, n)
        BY <2>0, <2>1 DEF WInv
      <3>2. {l \in Msg : Covers(l, s, n)} = {m}
        BY <2>0, <3>1 DEF WInv
      <3>3. Cardinality({m}) = 1
        BY FS_Singleton
      <3> QED
        BY <2>1, <3>2, <3>3 DEF One
    <2>2. CASE ~ (n < hitsgotten[s])
      <3>1. \A m \in Msg : ~ Covers(m, s, n)
        <4> SUFFICES ASSUME NEW m \in Msg, Covers(m, s, n) PROVE FALSE
          OBVIOUS
        <4>1. n < window[m].to /\ window[m].to <= hitsgotten[s]
          BY DEF Covers, WInv
        <4> QED
          BY <2>0, <2>2, <4>1
      <3>2. {l \in Msg : Covers(l, s, n)} = {}
        BY <3>1
      <3> QED
        BY <2>2, <3>2, FS_EmptySet DEF One
    <2> QED
      BY <2>1, <2>2
  <1> QED
    BY <1>1, RefsInvariant, WindowsInvariant, PTL
=================================================================================
