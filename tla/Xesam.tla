--------------------------------- MODULE Xesam ---------------------------------
(***************************************************************************)
(* Xesam sessions and searches (bin/daemon/xesam/xesamlivesearch.cpp,      *)
(* xesamsession.cpp, xesamsearch.cpp, xesamclass.h) over the job queue,    *)
(* which is seen through its abstract specification JobPool.               *)
(*                                                                         *)
(* Calls come one at a time from the D-Bus thread; jobs run in the threads *)
(* of the pool.  XesamSession and XesamSearch are handles on counted       *)
(* objects: a session object is held by the map `sessions' and by each of  *)
(* its search objects; a search object by its session's list, by the map   *)
(* `searches' and by each job about it.  Names come from random() and are  *)
(* taken to be new.                                                        *)
(***************************************************************************)
EXTENDS Integers, FiniteSets

CONSTANTS
    Session, Search,    \* objects, one for each name that is handed out
    Msg,                \* calls that are answered later
    Job, Thread,        \* of the pool
    MaxHits             \* largest `num' a client asks for

VARIABLES
    place, life,        \* the job pool
    body,               \* what a job is about, and whether run() is over
    sessions,           \* XesamLiveSearch::Private::sessions
    searches,           \* XesamLiveSearch::Private::searches
    listed,             \* XesamSession::Private::searches
    sessionOf,          \* XesamSearch::Private::session
    sessionRefs,        \* XesamClass::n of the sessions
    searchRefs,         \* XesamClass::n of the searches
    hasCreatedSearches, hitFields,                  \* of the sessions
    started, hitcount, hitsgotten, countMessages,   \* of the searches
    reply,              \* what became of a call
    window              \* the hits a call of GetHits() asked for

pool == <<place, life>>
objects == <<sessions, searches, listed, sessionOf, sessionRefs, searchRefs>>
sessionVars == <<hasCreatedSearches, hitFields>>
searchVars == <<started, hitcount, hitsgotten, countMessages>>
vars == <<pool, body, objects, sessionVars, searchVars, reply, window>>

Pool == INSTANCE JobPool

-----------------------------------------------------------------------------

None == "none"

\* Memory is finite, and the names of different things differ.
ASSUME XesamAssumption ==
    /\ IsFiniteSet(Job) /\ IsFiniteSet(Search)
    /\ None \notin Session \cup Search \cup Msg
    /\ Job \cap Search = {}
    /\ Thread \cap {"free", "queued"} = {}
    /\ MaxHits \in Nat

\* hitcount: -1, or what the index answered (0 when the query threw).
Unknown == -1
Counted == 0

Body == [kind : {"count", "hits", "data"}, search : Search, msg : Msg \cup {None},
         done : BOOLEAN]
NoBody == [kind |-> None]
NoWindow == [search |-> None, from |-> 0, to |-> 0]

Jobs(s) == {j \in Job : body[j] # NoBody /\ body[j].search = s}

Init ==
    /\ Pool!PoolInit
    /\ body = [j \in Job |-> NoBody]
    /\ sessions = {}
    /\ searches = {}
    /\ listed = [x \in Session |-> {}]
    /\ sessionOf = [s \in Search |-> None]
    /\ sessionRefs = [x \in Session |-> 0]
    /\ searchRefs = [s \in Search |-> 0]
    /\ hasCreatedSearches = [x \in Session |-> FALSE]
    /\ hitFields = [x \in Session |-> None]
    /\ started = [s \in Search |-> FALSE]
    /\ hitcount = [s \in Search |-> Unknown]
    /\ hitsgotten = [s \in Search |-> 0]
    /\ countMessages = [s \in Search |-> {}]
    /\ reply = [m \in Msg |-> "unsent"]
    /\ window = [m \in Msg |-> NoWindow]

-----------------------------------------------------------------------------
(***************************************************************************)
(* XesamClass::unref(): a search object that nobody holds any more takes   *)
(* its handle on the session with it.                                      *)
(***************************************************************************)

\* Drop `count[s]' references to every search s.
Unref(count) ==
    LET left == [s \in Search |-> searchRefs[s] - count[s]]
        deleted == {s \in Search : count[s] > 0 /\ left[s] = 0}
    IN  /\ searchRefs' = left
        /\ sessionRefs' = [x \in Session |->
               sessionRefs[x] - Cardinality({s \in deleted : sessionOf[s] = x})]

Once(s, n) == [r \in Search |-> IF r = s THEN n ELSE 0]

-----------------------------------------------------------------------------
(***************************************************************************)
(* Sessions.                                                               *)
(***************************************************************************)

NewSession(x) ==
    /\ life = "open"
    /\ sessionRefs[x] = 0
    /\ \A s \in Search : sessionOf[s] # x
    /\ sessions' = sessions \cup {x}
    /\ sessionRefs' = [sessionRefs EXCEPT ![x] = 1]
    /\ hasCreatedSearches' = [hasCreatedSearches EXCEPT ![x] = FALSE]
    /\ UNCHANGED <<pool, body, searches, listed, sessionOf, searchRefs, hitFields,
                   searchVars, reply, window>>

\* setProperty() of "hit.fields".
SetProperty(x, value) ==
    /\ life = "open"
    /\ x \in sessions
    /\ ~ hasCreatedSearches[x]
    /\ hitFields' = [hitFields EXCEPT ![x] = value]
    /\ UNCHANGED <<pool, body, objects, hasCreatedSearches, searchVars, reply, window>>

\* The session leaves the map; its searches keep the object.
CloseSession(x) ==
    /\ life = "open"
    /\ x \in sessions
    /\ sessions' = sessions \ {x}
    /\ sessionRefs' = [sessionRefs EXCEPT ![x] = @ - 1]
    /\ UNCHANGED <<pool, body, searches, listed, sessionOf, searchRefs, sessionVars,
                   searchVars, reply, window>>

NewSearch(x, s) ==
    /\ life = "open"
    /\ x \in sessions
    /\ sessionOf[s] = None
    /\ hasCreatedSearches' = [hasCreatedSearches EXCEPT ![x] = TRUE]
    /\ sessionOf' = [sessionOf EXCEPT ![s] = x]
    /\ listed' = [listed EXCEPT ![x] = @ \cup {s}]
    /\ searches' = searches \cup {s}
    /\ searchRefs' = [searchRefs EXCEPT ![s] = 2]
    /\ sessionRefs' = [sessionRefs EXCEPT ![x] = @ + 1]
    /\ UNCHANGED <<pool, body, sessions, hitFields, searchVars, reply, window>>

\* The query does not parse: the constructor throws.
NewSearchFails(x) ==
    /\ life = "open"
    /\ x \in sessions
    /\ hasCreatedSearches' = [hasCreatedSearches EXCEPT ![x] = TRUE]
    /\ UNCHANGED <<pool, body, objects, hitFields, searchVars, reply, window>>

-----------------------------------------------------------------------------
(***************************************************************************)
(* Searches.                                                               *)
(***************************************************************************)

AddJob(j, kind, s, m) ==
    /\ Pool!Submit(j)
    /\ body' = [body EXCEPT ![j] =
                   [kind |-> kind, search |-> s, msg |-> m, done |-> FALSE]]
    /\ searchRefs' = [searchRefs EXCEPT ![s] = @ + 1]
    /\ UNCHANGED <<sessions, searches, listed, sessionOf, sessionRefs>>

\* A slip: the search counts as started although its job was refused.
StartSearchWithoutJob(s, j) ==
    /\ life = "open"
    /\ s \in searches
    /\ ~ started[s]
    /\ started' = [started EXCEPT ![s] = TRUE]
    /\ UNCHANGED <<pool, body, objects, sessionVars, hitcount, hitsgotten, countMessages,
                   reply, window>>

StartSearch(s, j) ==
    /\ s \in searches
    /\ ~ started[s]
    /\ started' = [started EXCEPT ![s] = TRUE]
    /\ AddJob(j, "count", s, None)
    /\ UNCHANGED <<sessionVars, hitcount, hitsgotten, countMessages, reply, window>>

CloseSearch(s) ==
    /\ life = "open"
    /\ s \in searches
    /\ listed' = [listed EXCEPT ![sessionOf[s]] = @ \ {s}]
    /\ searches' = searches \ {s}
    /\ Unref(Once(s, 2))
    /\ UNCHANGED <<pool, body, sessions, sessionOf, sessionVars, searchVars, reply, window>>

\* A call that is answered before it returns, with a result or an error.
Answer(m) ==
    /\ reply' = [reply EXCEPT ![m] = "answered"]
    /\ UNCHANGED <<pool, body, objects, sessionVars, searchVars, window>>

Call(m) == life = "open" /\ reply[m] = "unsent"
Refused(s) == s \notin searches \/ ~ started[s]

CallRefused(m, s) == Call(m) /\ Refused(s) /\ Answer(m)

\* The test and the append are under the search's mutex.
GetHitCount(m, s) ==
    /\ Call(m)
    /\ ~ Refused(s)
    /\ IF hitcount[s] = Unknown
       THEN /\ countMessages' = [countMessages EXCEPT ![s] = @ \cup {m}]
            /\ reply' = [reply EXCEPT ![m] = "held"]
            /\ UNCHANGED <<pool, body, objects, sessionVars, started, hitcount,
                           hitsgotten, window>>
       ELSE Answer(m)

\* A slip: the next call starts at the same hit.
GetHitsAgain(m, s, num, j) ==
    /\ Call(m)
    /\ ~ Refused(s)
    /\ window' = [window EXCEPT ![m] =
                     [search |-> s, from |-> hitsgotten[s], to |-> hitsgotten[s] + num]]
    /\ AddJob(j, "hits", s, m)
    /\ reply' = [reply EXCEPT ![m] = "held"]
    /\ UNCHANGED <<sessionVars, searchVars>>

GetHits(m, s, num, j) ==
    /\ Call(m)
    /\ ~ Refused(s)
    /\ window' = [window EXCEPT ![m] =
                     [search |-> s, from |-> hitsgotten[s], to |-> hitsgotten[s] + num]]
    /\ hitsgotten' = [hitsgotten EXCEPT ![s] = @ + num]
    /\ AddJob(j, "hits", s, m)
    /\ reply' = [reply EXCEPT ![m] = "held"]
    /\ UNCHANGED <<sessionVars, started, hitcount, countMessages>>

\* No hit was asked for: an empty answer.
GetNoHitData(m, s) == Call(m) /\ ~ Refused(s) /\ Answer(m)

GetHitData(m, s, j) ==
    /\ Call(m)
    /\ ~ Refused(s)
    /\ AddJob(j, "data", s, m)
    /\ reply' = [reply EXCEPT ![m] = "held"]
    /\ UNCHANGED <<sessionVars, searchVars, window>>

-----------------------------------------------------------------------------
(***************************************************************************)
(* Jobs.                                                                   *)
(***************************************************************************)

Has(t, j) == place[j] = t

TakeJob(j, t) ==
    /\ Pool!Take(j, t)
    /\ UNCHANGED <<body, objects, sessionVars, searchVars, reply, window>>

Done(j) == body' = [body EXCEPT ![j].done = TRUE]

\* Slips: the calls that wait are not forgotten, or forgotten without a reply.
RunCountWith(j, t, replies, waiting) ==
    LET s == body[j].search IN
    /\ Has(t, j)
    /\ body[j].kind = "count"
    /\ ~ body[j].done
    /\ Done(j)
    /\ hitcount' = [hitcount EXCEPT ![s] = Counted]
    /\ reply' = [m \in Msg |-> IF m \in replies THEN "answered" ELSE reply[m]]
    /\ countMessages' = [countMessages EXCEPT ![s] = waiting]
    /\ UNCHANGED <<pool, objects, sessionVars, started, hitsgotten, window>>
RunCountRemembering(j, t) ==
    LET waiting == countMessages[body[j].search] IN RunCountWith(j, t, waiting, waiting)
RunCountSilently(j, t) == RunCountWith(j, t, {}, {})

\* setCount(), under the search's mutex.
RunCount(j, t) ==
    LET s == body[j].search IN
    /\ Has(t, j)
    /\ body[j].kind = "count"
    /\ ~ body[j].done
    /\ Done(j)
    /\ IF hitcount[s] = Unknown
       THEN /\ hitcount' = [hitcount EXCEPT ![s] = Counted]
            /\ reply' = [m \in Msg |-> IF m \in countMessages[s] THEN "answered" ELSE reply[m]]
            /\ countMessages' = [countMessages EXCEPT ![s] = {}]
       ELSE UNCHANGED <<hitcount, reply, countMessages>>
    /\ UNCHANGED <<pool, objects, sessionVars, started, hitsgotten, window>>

RunQuery(j, t) ==
    /\ Has(t, j)
    /\ body[j].kind \in {"hits", "data"}
    /\ ~ body[j].done
    /\ Done(j)
    /\ reply' = [reply EXCEPT ![body[j].msg] = "answered"]
    /\ UNCHANGED <<pool, objects, sessionVars, searchVars, window>>

\* A slip: the job's handle on the search is not given back.
DeleteJobOnly(j, t) ==
    /\ Has(t, j)
    /\ body[j].done
    /\ Pool!Finish(j, t)
    /\ body' = [body EXCEPT ![j] = NoBody]
    /\ UNCHANGED <<objects, sessionVars, searchVars, reply, window>>

\* The pool deletes the job, and the job its handle on the search.
DeleteJob(j, t) ==
    /\ Has(t, j)
    /\ body[j].done
    /\ Pool!Finish(j, t)
    /\ body' = [body EXCEPT ![j] = NoBody]
    /\ Unref(Once(body[j].search, 1))
    /\ UNCHANGED <<sessions, searches, listed, sessionOf, sessionVars, searchVars, reply, window>>

\* main() stops the pool when the D-Bus thread is gone.
StopQueue ==
    /\ Pool!Stop
    /\ UNCHANGED <<body, objects, sessionVars, searchVars, reply, window>>

Queued == {j \in Job : place[j] = "queued"}

DropJobs ==
    /\ Queued # {}
    /\ Pool!DropQueued
    /\ body' = [j \in Job |-> IF j \in Queued THEN NoBody ELSE body[j]]
    /\ Unref([s \in Search |-> Cardinality(Jobs(s) \cap Queued)])
    /\ UNCHANGED <<sessions, searches, listed, sessionOf, sessionVars, searchVars, reply, window>>

QueueGone ==
    /\ Pool!Vanish
    /\ UNCHANGED <<body, objects, sessionVars, searchVars, reply, window>>

-----------------------------------------------------------------------------

SessionCall(x) ==
    \/ NewSession(x)
    \/ SetProperty(x, "other fields")
    \/ CloseSession(x)
    \/ \E s \in Search : NewSearch(x, s)
    \/ NewSearchFails(x)

SearchCall(s) ==
    \/ \E j \in Job : StartSearch(s, j)
    \/ CloseSearch(s)
    \/ \E m \in Msg :
        \/ CallRefused(m, s)
        \/ GetHitCount(m, s)
        \/ \E j \in Job, num \in 1..MaxHits : GetHits(m, s, num, j)
        \/ GetNoHitData(m, s)
        \/ \E j \in Job : GetHitData(m, s, j)

JobStep(t) ==
    \E j \in Job :
        \/ TakeJob(j, t)
        \/ RunCount(j, t)
        \/ RunQuery(j, t)
        \/ DeleteJob(j, t)

Next ==
    \/ \E x \in Session : SessionCall(x)
    \/ \E s \in Search : SearchCall(s)
    \/ \E t \in Thread : JobStep(t)
    \/ StopQueue
    \/ DropJobs
    \/ QueueGone

\* The threads of the pool work on; queries return.
Fairness == \A t \in Thread : WF_vars(JobStep(t))

Spec == Init /\ [][Next]_vars
FairSpec == Spec /\ Fairness

-----------------------------------------------------------------------------

TypeOK ==
    /\ place \in [Job -> {"free", "queued"} \cup Thread]
    /\ life \in {"open", "stopping", "gone"}
    /\ body \in [Job -> Body \cup {NoBody}]
    /\ sessions \subseteq Session
    /\ searches \subseteq Search
    /\ listed \in [Session -> SUBSET Search]
    /\ sessionOf \in [Search -> Session \cup {None}]
    /\ sessionRefs \in [Session -> Nat]
    /\ searchRefs \in [Search -> Nat]
    /\ hasCreatedSearches \in [Session -> BOOLEAN]
    /\ hitFields \in [Session -> {None, "other fields"}]
    /\ started \in [Search -> BOOLEAN]
    /\ hitcount \in [Search -> {Unknown, Counted}]
    /\ hitsgotten \in [Search -> Nat]
    /\ countMessages \in [Search -> SUBSET Msg]
    /\ reply \in [Msg -> {"unsent", "held", "answered"}]
    /\ window \in [Msg -> [search : Search \cup {None}, from : Nat, to : Nat]]

\* Every reference count is the number of handles there are, so no handle is
\* left on an object that was deleted and none that nobody holds lives on: by
\* hand this means counting copies over three classes and two threads
\* (XesamClass::ref and unref, newSearch, closeSearch, CloseSession, the jobs).
One(condition) == IF condition THEN 1 ELSE 0
Living(x) == {s \in Search : sessionOf[s] = x /\ searchRefs[s] > 0}
RefsExact ==
    /\ \A s \in Search : searchRefs[s] =
           One(s \in searches) + Cardinality({x \in Session : s \in listed[x]})
                               + Cardinality(Jobs(s))
    /\ \A x \in Session : sessionRefs[x] = One(x \in sessions) + Cardinality(Living(x))

\* A call that waits for the count of a search can still get it: the count is
\* unknown and the job that finds it out is on its way (getHitCount against
\* setCount, which answers everybody once and never again).
CountIsComing ==
    \A s \in Search : countMessages[s] # {} =>
        /\ hitcount[s] = Unknown
        /\ \/ \E j \in Jobs(s) : body[j].kind = "count" /\ ~ body[j].done
           \/ life # "open"

\* A call that was answered is never answered again, and one that is held is
\* with one job or in one list: no reply is sent on a message that was given
\* back to D-Bus (dbus_message_unref in the ...Response functions).
Holders(m) ==
    {j \in Job : body[j] # NoBody /\ body[j].msg = m /\ ~ body[j].done}
        \cup {s \in Search : m \in countMessages[s]}
OneReply ==
    \A m \in Msg :
        /\ Cardinality(Holders(m)) <= 1
        /\ Holders(m) # {} => reply[m] = "held"
        /\ reply[m] = "held" /\ life = "open" => Holders(m) # {}

\* The hits a client gets from a search follow each other without a gap and
\* without a repetition, however the jobs that fetch them are ordered
\* ("the client should keep track of each hit's serial number").
HitsTile ==
    \A s \in Search, n \in 0..(MaxHits * Cardinality(Msg)) :
        LET calls == {m \in Msg : /\ window[m].search = s
                                  /\ window[m].from <= n
                                  /\ n < window[m].to}
        IN  Cardinality(calls) = One(n < hitsgotten[s])

\* Every call is answered, unless the daemon stops first.
EveryCallAnswered ==
    \A m \in Msg : reply[m] = "held" ~> (reply[m] = "answered" \/ life # "open")

\* "Close a session and all associated searches."
ClosedWithSession == \A s \in searches : sessionOf[s] \in sessions

=============================================================================
