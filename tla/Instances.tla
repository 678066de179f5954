------------------------------ MODULE Instances ------------------------------
(***************************************************************************)
(* Strigi daemons of one user, seen from outside: what a daemon process    *)
(* does to the files of its data directory from main()'s first lines to    *)
(* its last (bin/daemon/daemon.cpp), with other daemons starting, serving, *)
(* stopping and being killed at any moment.                                *)
(*                                                                         *)
(* The files are the configuration (daemon.conf), the lock, the index and  *)
(* the socket.  Note the order in main(): the configuration is read and    *)
(* written back by the constructor of DaemonConfigurator, and only then is *)
(* the lock taken; the last settings are saved before the lock is released.*)
(*                                                                         *)
(* A save is two steps, because ofstream::open() truncates the file and    *)
(* the text reaches it when the stream is closed (settings shorter than a  *)
(* stream buffer, so one write(2)).  Two daemons that have both truncated  *)
(* write at offset 0: what the last one wrote is what is read, for the     *)
(* parser stops at the end of the root element.                            *)
(*                                                                         *)
(* A directory or a filtering rule is a number, which tells where the file *)
(* lists it: directories as a set<string> holds them, rules as the user    *)
(* gave them.  Their text is written between quotes as it is and read back *)
(* by an XML parser, so some do not come back, or come back as others.     *)
(***************************************************************************)
EXTENDS Naturals, FiniteSets

CONSTANTS
    Procs,       \* the daemon processes
    Dirs,        \* the directories a user can ask for
    Filters,     \* the filtering rules a user can ask for
    Illegible,   \* the ones of both with a quote, a < or a bare & in them
    ReadBack,    \* what the parser makes of the others: "&lt;" comes back as "<"
    Defaults,    \* the settings of a daemon that finds none
    Requests,    \* the settings a user asks a running daemon for
    Nobody,      \* not a daemon
    Empty,       \* a file that does not exist, or has no byte
    MaxCrashes   \* bound: how many daemons are killed

Settings == [dirs : SUBSET Dirs, filters : SUBSET Filters]

ASSUME SettingsAssumption ==
    /\ Dirs \subseteq Nat
    /\ Filters \subseteq Nat
    /\ \A d \in Dirs \ Illegible : ReadBack[d] \in Dirs
    /\ \A f \in Filters \ Illegible : ReadBack[f] \in Filters
    /\ Defaults \in Settings
    /\ Requests \subseteq Settings
    /\ Nobody \notin Procs
    /\ Empty \notin Settings
    /\ MaxCrashes \in Nat

\* SimpleNodeParser::parse() hands over the elements one after the other, up
\* to the first one it cannot read.
ReadUpTo(names) ==
    {ReadBack[n] : n \in {m \in names : \A e \in names \cap Illegible : m < e}}

\* What operator>>(XMLStream&, StrigiDaemonConfiguration&) makes of a file:
\* the rules follow the directories, and are lost with one of those.
Legible(s) ==
    [dirs    |-> ReadUpTo(s.dirs),
     filters |-> IF s.dirs \cap Illegible # {} THEN {} ELSE ReadUpTo(s.filters)]

\* These settings do not survive being written and read.
Distorted(s) == Legible(s) # s

\* DaemonConfigurator::DaemonConfigurator(): a file with no repository called
\* "localhost" gives the default settings.
Read(file) == IF file = Empty THEN Defaults ELSE Legible(file)

\* DaemonConfigurator::setIndexedDirectories() without `merge', and
\* saveFilteringRules(): both clear what was there.
WithDirectories(s, dirs) == [s EXCEPT !.dirs = dirs]

WithFilters(s, filters) == [s EXCEPT !.filters = filters]

VARIABLES
    at,      \* where the main thread of each daemon is
    made,    \* the data directory exists
    conf,    \* daemon.conf
    mem,     \* the DaemonConfigurator of each daemon
    live,    \* the directories and filters its scheduler works with
    holder,  \* the daemon that has the write lock on the lock file
    users,   \* the daemons that have the index open
    socket,  \* the daemon that listens behind the socket's path
    crashes, \* how many daemons were killed
    kept,    \* history: the settings a daemon saved last when it ended
    lost,    \* history: daemon.conf no longer says so
    stale    \* history: the daemons whose settings are not the ones kept

files == <<made, conf, holder, users, socket>>
vars  == <<at, made, conf, mem, live, holder, users, socket, crashes,
           kept, lost, stale>>

Loading  == {"open", "write"}            \* the configuration is read
Starting == {"stat", "mkdir", "load", "lock", "index", "bind"} \cup Loading
Closing  == {"settle", "reopen", "rewrite", "close", "unlock"}
Holding  == {"index", "bind", "serve"} \cup Closing
Using    == {"bind", "serve"} \cup (Closing \ {"unlock"})
Places   == {"off", "serve"} \cup Starting \cup Closing

Init ==
    /\ at = [p \in Procs |-> "off"]
    /\ made = FALSE
    /\ conf = Empty
    /\ mem = [p \in Procs |-> Defaults]
    /\ live = [p \in Procs |-> Defaults]
    /\ holder = Nobody
    /\ users = {}
    /\ socket = Nobody
    /\ crashes = 0
    /\ kept = Defaults
    /\ lost = FALSE
    /\ stale = {}

Move(p, from, to) == at[p] = from /\ at' = [at EXCEPT ![p] = to]

(***************************************************************************)
(* The start of a daemon.                                                  *)
(***************************************************************************)
Start(p) ==
    /\ Move(p, "off", "stat")
    /\ UNCHANGED <<mem, live, crashes, kept, lost, stale, files>>

\* What is left of a process that has ended: nothing of its memory.
Forgotten(p) ==
    /\ mem' = [mem EXCEPT ![p] = Defaults]
    /\ live' = [live EXCEPT ![p] = Defaults]
    /\ stale' = stale \ {p}

\* initializeDir(): stat(), and mkdir() when there is nothing; a daemon whose
\* mkdir() fails because another one was faster exits.
StatDir(p) ==
    /\ Move(p, "stat", IF made THEN "load" ELSE "mkdir")
    /\ UNCHANGED <<mem, live, crashes, kept, lost, stale, files>>

MakeDir(p) ==
    /\ Move(p, "mkdir", IF made THEN "off" ELSE "load")
    /\ made' = TRUE
    /\ UNCHANGED <<conf, mem, live, holder, users, socket, crashes, kept,
                   lost, stale>>

\* The first half of DaemonConfigurator::DaemonConfigurator(), and
\* loadFilteringRules().
LoadConf(p) ==
    /\ Move(p, "load", "open")
    /\ mem' = [mem EXCEPT ![p] = Read(conf)]
    /\ stale' = IF lost THEN stale \cup {p} ELSE stale \ {p}
    /\ UNCHANGED <<live, crashes, kept, lost, files>>

\* DaemonConfigurator::save(): the file is empty from open() ...
Truncate(p) ==
    /\ Move(p, "open", "write") \/ Move(p, "reopen", "rewrite")
    /\ conf' = Empty
    /\ lost' = TRUE
    /\ UNCHANGED <<made, mem, live, holder, users, socket, crashes, kept,
                   stale>>

\* ... to close().  This is the save in the constructor,
WriteBack(p) ==
    /\ Move(p, "write", "lock")
    /\ conf' = mem[p]
    /\ lost' = (p \in stale \/ Distorted(mem[p]))
    /\ UNCHANGED <<made, mem, live, holder, users, socket, crashes, kept,
                   stale>>

\* aquireLock(): the kernel's lock, which no file outlives; a daemon that is
\* refused exits.
Locked == holder # Nobody

TakeLock(p) ==
    /\ ~Locked
    /\ Move(p, "lock", "index")
    /\ holder' = p
    /\ UNCHANGED <<made, conf, mem, live, users, socket, crashes, kept,
                   lost, stale>>

Refused(p) ==
    /\ Locked
    /\ Move(p, "lock", "off")
    /\ Forgotten(p)
    /\ UNCHANGED <<crashes, kept, lost, files>>

\* The index is opened and the scheduler gets what was read before the lock.
OpenIndex(p) ==
    /\ Move(p, "index", "bind")
    /\ users' = users \cup {p}
    /\ live' = [live EXCEPT ![p] = mem[p]]
    /\ UNCHANGED <<made, conf, mem, holder, socket, crashes, kept, lost,
                   stale>>

\* SocketServer::run(): unlink(), whatever is there, then bind() and listen().
Bind(p) ==
    /\ Move(p, "bind", "serve")
    /\ socket' = p
    /\ UNCHANGED <<made, conf, mem, live, holder, users, crashes, kept, lost,
                   stale>>

(***************************************************************************)
(* A daemon that serves.                                                   *)
(***************************************************************************)
\* Interface::setIndexedDirectories() and setFilters() change what the
\* scheduler works with, and neither the configurator nor the file.
SetDirectories(p) ==
    /\ at[p] = "serve"
    /\ \E s \in Requests : live' = [live EXCEPT ![p] = WithDirectories(live[p], s.dirs)]
    /\ UNCHANGED <<at, mem, crashes, kept, lost, stale, files>>

SetFilters(p) ==
    /\ at[p] = "serve"
    /\ \E s \in Requests : live' = [live EXCEPT ![p] = WithFilters(live[p], s.filters)]
    /\ UNCHANGED <<at, mem, crashes, kept, lost, stale, files>>

(***************************************************************************)
(* The end of a daemon.                                                    *)
(***************************************************************************)
\* A signal ends SocketServer::run(), which closes its socket and leaves the
\* path; stopThreads() stops the others.
Stop(p) ==
    /\ Move(p, "serve", "settle")
    /\ socket' = IF socket = p THEN Nobody ELSE socket
    /\ UNCHANGED <<made, conf, mem, live, holder, users, crashes, kept, lost,
                   stale>>

\* A slip: saveFilteringRules() is forgotten.
SettleDirsOnly(p) ==
    /\ Move(p, "settle", "reopen")
    /\ mem' = [mem EXCEPT ![p] = WithDirectories(mem[p], live[p].dirs)]
    /\ UNCHANGED <<live, crashes, kept, lost, stale, files>>

\* setIndexedDirectories() and saveFilteringRules() of the configurator: both
\* take what the scheduler works with.
Settle(p) ==
    /\ Move(p, "settle", "reopen")
    /\ mem' = [mem EXCEPT
                 ![p] = WithFilters(WithDirectories(mem[p], live[p].dirs), live[p].filters)]
    /\ UNCHANGED <<live, crashes, kept, lost, stale, files>>

\* A slip: the lock is released before the index is closed.
SaveUnlocking(p) ==
    /\ Move(p, "rewrite", "close")
    /\ conf' = mem[p]
    /\ kept' = live[p]
    /\ lost' = Distorted(live[p])
    /\ stale' = {q \in Procs \ {p} : at[q] \in Loading \cup {"lock"}}
    /\ holder' = Nobody
    /\ UNCHANGED <<made, mem, live, users, socket, crashes>>

\* The second save.  From here on these are the settings a user expects, and
\* a daemon that has read the file before has older ones.
Save(p) ==
    /\ Move(p, "rewrite", "close")
    /\ conf' = mem[p]
    /\ kept' = live[p]
    /\ lost' = Distorted(live[p])
    /\ stale' = {q \in Procs \ {p} : at[q] \in Loading \cup {"lock"}}
    /\ UNCHANGED <<made, mem, live, holder, users, socket, crashes>>

CloseIndex(p) ==
    /\ Move(p, "close", "unlock")
    /\ users' = users \ {p}
    /\ UNCHANGED <<made, conf, mem, live, holder, socket, crashes, kept,
                   lost, stale>>

ReleaseLock(p) ==
    /\ Move(p, "unlock", "off")
    /\ holder' = Nobody
    /\ Forgotten(p)
    /\ UNCHANGED <<made, conf, users, socket, crashes, kept, lost>>

\* A slip: the lock is that a file exists, which a killed daemon leaves.
KilledLeavingLock(p) ==
    /\ at[p] # "off"
    /\ crashes < MaxCrashes
    /\ crashes' = crashes + 1
    /\ at' = [at EXCEPT ![p] = "off"]
    /\ users' = users \ {p}
    /\ socket' = IF socket = p THEN Nobody ELSE socket
    /\ Forgotten(p)
    /\ UNCHANGED <<made, conf, holder, kept, lost>>

\* The third signal calls exit(1) (quit_daemon), and a process can be killed:
\* the kernel releases the lock and closes the socket; the files stay.
Killed(p) ==
    /\ at[p] # "off"
    /\ crashes < MaxCrashes
    /\ crashes' = crashes + 1
    /\ at' = [at EXCEPT ![p] = "off"]
    /\ holder' = IF holder = p THEN Nobody ELSE holder
    /\ users' = users \ {p}
    /\ socket' = IF socket = p THEN Nobody ELSE socket
    /\ Forgotten(p)
    /\ UNCHANGED <<made, conf, kept, lost>>

\* What main() does by itself, without a signal or a request.
Main(p) ==
    \/ StatDir(p)
    \/ MakeDir(p)
    \/ LoadConf(p)
    \/ Truncate(p)
    \/ WriteBack(p)
    \/ TakeLock(p)
    \/ Refused(p)
    \/ OpenIndex(p)
    \/ Bind(p)
    \/ Settle(p)
    \/ Save(p)
    \/ CloseIndex(p)
    \/ ReleaseLock(p)

Next ==
    \E p \in Procs :
        \/ Start(p)
        \/ Main(p)
        \/ SetDirectories(p)
        \/ SetFilters(p)
        \/ Stop(p)
        \/ Killed(p)

Fairness == \A p \in Procs : WF_vars(Main(p))

Spec == Init /\ [][Next]_vars /\ Fairness

-----------------------------------------------------------------------------
(***************************************************************************)
(* Properties.                                                             *)
(***************************************************************************)
\* What the variables range over (checked with the proof of the others).
TypeOK ==
    /\ at \in [Procs -> Places]
    /\ made \in BOOLEAN
    /\ conf \in Settings \cup {Empty}
    /\ mem \in [Procs -> Settings]
    /\ live \in [Procs -> Settings]
    /\ holder \in Procs \cup {Nobody}
    /\ users \in SUBSET Procs
    /\ socket \in Procs \cup {Nobody}
    /\ crashes \in 0..MaxCrashes
    /\ kept \in Settings
    /\ lost \in BOOLEAN
    /\ stale \in SUBSET Procs

\* Whoever crashes and whenever, no two daemons have the index open, a daemon
\* that is served from keeps its socket (the unlink() of another daemon never
\* takes it away), and nobody else listens in its name.
OneUser ==
    /\ \A p, q \in users : p = q
    /\ \A p \in Procs : at[p] = "serve" <=> socket = p
    /\ socket = Nobody \/ socket \in users

\* Settings are lost in no other way than the ones `lost' and `stale' record:
\* a daemon that dies between truncating the file and closing it, one that
\* reads the file in between, one that has read it before another daemon's
\* last save, and a directory or a rule that XML reads as something else or
\* not at all.  In particular starting a daemon while another one serves does
\* not lose them, and neither does a crash anywhere else.
SettingsKept ==
    /\ ~lost => Read(conf) = kept
    /\ \A p \in Procs \ stale : at[p] = "index" => mem[p] = kept

\* When daemons are started and none is shutting down, one of them serves,
\* whatever the killed ones left behind: none is refused by the leavings of a
\* dead one, and two that start together do not both give way.
OneComesUp ==
    ( /\ crashes = MaxCrashes
      /\ \A p \in Procs : at[p] \notin Closing
      /\ \E p \in Procs : at[p] \in Starting \ {"mkdir"} )
        ~> (\E p \in Procs : at[p] = "serve")

=============================================================================
