-------------------------- MODULE Instances_proofs --------------------------
(***************************************************************************)
(* For any number of daemons, crashes, directories and requests: one user  *)
(* of the index at a time, a socket that stays its owner's, and settings   *)
(* that are lost in the recorded ways only.                                *)
(***************************************************************************)
EXTENDS Instances, TLAPS

(* The lock says where its holder is, and the other way round; so do the   *)
(* index and the socket.                                                   *)
LockInv   == \A p \in Procs : at[p] \in Holding <=> holder = p
UsersInv  == \A p \in Procs : at[p] \in Using <=> p \in users
SocketInv == \A p \in Procs : at[p] = "serve" <=> socket = p

Owned == TypeOK /\ LockInv /\ UsersInv /\ SocketInv

(* What a daemon read is what was kept, until another one saves; what it   *)
(* saves at the end is what its scheduler worked with.                     *)
KeptInv ==
    /\ ~lost => Read(conf) = kept
    /\ \A p \in Procs \ stale : at[p] \in Loading \cup {"lock", "index"} => mem[p] = kept
    /\ \A p \in Procs : at[p] \in {"reopen", "rewrite"} => mem[p] = live[p]

IInv == Owned /\ KeptInv

USE DEF Places, Starting, Closing, Loading, Holding, Using
-----------------------------------------------------------------------------
LEMMA LegibleType == ASSUME NEW s \in Settings PROVE Legible(s) \in Settings
  <1>1. s.dirs \in SUBSET Dirs /\ s.filters \in SUBSET Filters
    BY DEF Settings
  <1>2. ReadUpTo(s.dirs) \in SUBSET Dirs
    <2>1. ASSUME NEW n \in s.dirs, \A e \in s.dirs \cap Illegible : n < e
          PROVE  n \in Dirs \ Illegible
      <3>1. n \in Dirs /\ n \in Nat
        BY <1>1, SettingsAssumption DEF SettingsAssumption
      <3>2. n \in Illegible => n < n
        BY <2>1
      <3> QED
        BY <3>1, <3>2
    <2> QED
      BY <2>1, SettingsAssumption DEF ReadUpTo, SettingsAssumption
  <1>3. ReadUpTo(s.filters) \in SUBSET Filters
    <2>1. ASSUME NEW n \in s.filters, \A e \in s.filters \cap Illegible : n < e
          PROVE  n \in Filters \ Illegible
      <3>1. n \in Filters /\ n \in Nat
        BY <1>1, SettingsAssumption DEF SettingsAssumption
      <3>2. n \in Illegible => n < n
        BY <2>1
      <3> QED
        BY <3>1, <3>2
    <2> QED
      BY <2>1, SettingsAssumption DEF ReadUpTo, SettingsAssumption
  <1> QED
    BY <1>2, <1>3 DEF Legible, Settings

LEMMA ReadType == ASSUME NEW f \in Settings \cup {Empty} PROVE Read(f) \in Settings
  BY LegibleType, SettingsAssumption DEF Read, SettingsAssumption

(* Settings that are not distorted are read as they were written.          *)
LEMMA ReadWhole ==
    ASSUME NEW s \in Settings, ~Distorted(s) PROVE Read(s) = s
  BY SettingsAssumption DEF Read, Distorted, SettingsAssumption

(* Taking over directories and filters leaves nothing of the old settings.  *)
LEMMA WithBoth ==
    ASSUME NEW s \in Settings, NEW t \in Settings
    PROVE  WithFilters(WithDirectories(s, t.dirs), t.filters) = t
  BY DEF Settings, WithFilters, WithDirectories

LEMMA InitIInv == Init => IInv
  <1> SUFFICES ASSUME Init PROVE IInv
    OBVIOUS
  <1>1. TypeOK
    <2>1. at \in [Procs -> Places] /\ crashes \in 0..MaxCrashes
      BY SettingsAssumption DEF SettingsAssumption, Init
    <2>2. mem \in [Procs -> Settings] /\ live \in [Procs -> Settings] /\ kept \in Settings
      BY SettingsAssumption DEF SettingsAssumption, Init
    <2>3. stale \in SUBSET Procs /\ users \in SUBSET Procs
      BY DEF Init
    <2> QED
      BY <2>1, <2>2, <2>3 DEF Init, TypeOK
  <1>2. LockInv /\ UsersInv /\ SocketInv
    BY SettingsAssumption DEF SettingsAssumption, Init, LockInv, UsersInv, SocketInv
  <1>3. KeptInv
    BY DEF Init, KeptInv, Read
  <1> QED
    BY <1>1, <1>2, <1>3 DEF IInv, Owned
-----------------------------------------------------------------------------
(***************************************************************************)
(* Types.                                                                  *)
(***************************************************************************)
LEMMA TypeStart ==
    ASSUME TypeOK, NEW p \in Procs,
           Start(p) \/ StatDir(p) \/ MakeDir(p) \/ LoadConf(p) \/ Truncate(p) \/ WriteBack(p)
    PROVE  TypeOK'
  <1>1. CASE Start(p)
    BY <1>1 DEF TypeOK, Start, Move, files
  <1>2. CASE StatDir(p)
    BY <1>2 DEF TypeOK, StatDir, Move, files
  <1>3. CASE MakeDir(p)
    BY <1>3 DEF TypeOK, MakeDir, Move, files
  <1>4. CASE LoadConf(p)
    BY <1>4, ReadType DEF TypeOK, LoadConf, Move, files
  <1>5. CASE Truncate(p)
    BY <1>5 DEF TypeOK, Truncate, Move, files
  <1>6. CASE WriteBack(p)
    <2>1. lost' \in BOOLEAN
      BY <1>6 DEF WriteBack
    <2> QED
      BY <1>6, <2>1 DEF TypeOK, WriteBack, Move, files
  <1> QED
    BY <1>1, <1>2, <1>3, <1>4, <1>5, <1>6

LEMMA TypeRun ==
    ASSUME TypeOK, NEW p \in Procs,
           TakeLock(p) \/ Refused(p) \/ OpenIndex(p) \/ Bind(p) \/ SetDirectories(p) \/ SetFilters(p)
    PROVE  TypeOK'
  <1>1. CASE TakeLock(p)
    BY <1>1 DEF TypeOK, TakeLock, Move, files
  <1>2. CASE Refused(p)
    BY <1>2, SettingsAssumption DEF TypeOK, Refused, Move, files, Forgotten, SettingsAssumption
  <1>3. CASE OpenIndex(p)
    BY <1>3 DEF TypeOK, OpenIndex, Move, files
  <1>4. CASE Bind(p)
    BY <1>4 DEF TypeOK, Bind, Move, files
  <1>5. CASE SetDirectories(p)
    <2>1. PICK s \in Requests : live' = [live EXCEPT ![p] = WithDirectories(live[p], s.dirs)]
      BY <1>5 DEF SetDirectories
    <2>2. WithDirectories(live[p], s.dirs) \in Settings
      BY <2>1, SettingsAssumption DEF TypeOK, Settings, SettingsAssumption, WithDirectories
    <2> QED
      BY <1>5, <2>1, <2>2 DEF TypeOK, SetDirectories, files
  <1>6. CASE SetFilters(p)
    <2>1. PICK s \in Requests : live' = [live EXCEPT ![p] = WithFilters(live[p], s.filters)]
      BY <1>6 DEF SetFilters
    <2>2. WithFilters(live[p], s.filters) \in Settings
      BY <2>1, SettingsAssumption DEF TypeOK, Settings, SettingsAssumption, WithFilters
    <2> QED
      BY <1>6, <2>1, <2>2 DEF TypeOK, SetFilters, files
  <1> QED
    BY <1>1, <1>2, <1>3, <1>4, <1>5, <1>6

LEMMA TypeEnd ==
    ASSUME TypeOK, NEW p \in Procs,
           Stop(p) \/ Settle(p) \/ Save(p) \/ CloseIndex(p) \/ ReleaseLock(p) \/ Killed(p)
    PROVE  TypeOK'
  <1>1. CASE Stop(p)
    BY <1>1 DEF TypeOK, Stop, Move, files
  <1>2. CASE Settle(p)
    BY <1>2, WithBoth DEF TypeOK, Settle, Move, files
  <1>3. CASE Save(p)
    <2>1. lost' \in BOOLEAN
      BY <1>3 DEF Save, Distorted
    <2> QED
      BY <1>3, <2>1 DEF TypeOK, Save, Move, files
  <1>4. CASE CloseIndex(p)
    BY <1>4 DEF TypeOK, CloseIndex, Move, files
  <1>5. CASE ReleaseLock(p)
    BY <1>5, SettingsAssumption DEF TypeOK, ReleaseLock, Move, files, Forgotten, SettingsAssumption
  <1>6. CASE Killed(p)
    BY <1>6, SettingsAssumption DEF TypeOK, Killed, Forgotten, SettingsAssumption
  <1> QED
    BY <1>1, <1>2, <1>3, <1>4, <1>5, <1>6

LEMMA TypeStep == TypeOK /\ [Next]_vars => TypeOK'
  <1> SUFFICES ASSUME TypeOK, [Next]_vars PROVE TypeOK'
    OBVIOUS
  <1>1. CASE UNCHANGED vars
    BY <1>1 DEF TypeOK, vars
  <1>2. CASE Next
    BY <1>2, TypeStart, TypeRun, TypeEnd DEF Next, Main
  <1> QED
    BY <1>1, <1>2
-----------------------------------------------------------------------------
(***************************************************************************)
(* The lock, the index and the socket.                                     *)
(***************************************************************************)
(* Who keeps the lock, the index and the socket keeps his place in them.    *)
LEMMA OwnedStep == Owned /\ [Next]_vars => Owned'
  <1> SUFFICES ASSUME Owned, [Next]_vars PROVE (LockInv /\ UsersInv /\ SocketInv)'
    BY TypeStep DEF Owned
  <1> USE SettingsAssumption DEF SettingsAssumption, Owned, TypeOK, LockInv, UsersInv, SocketInv
  <1>0. CASE UNCHANGED vars
    BY <1>0 DEF vars
  <1>1. ASSUME NEW p \in Procs, Start(p) PROVE (LockInv /\ UsersInv /\ SocketInv)'
    BY <1>1 DEF Start, Move, files
  <1>2. ASSUME NEW p \in Procs, StatDir(p) PROVE (LockInv /\ UsersInv /\ SocketInv)'
    BY <1>2 DEF StatDir, Move, files
  <1>3. ASSUME NEW p \in Procs, MakeDir(p) PROVE (LockInv /\ UsersInv /\ SocketInv)'
    BY <1>3 DEF MakeDir, Move
  <1>4. ASSUME NEW p \in Procs, LoadConf(p) PROVE (LockInv /\ UsersInv /\ SocketInv)'
    BY <1>4 DEF LoadConf, Move, files
  <1>5. ASSUME NEW p \in Procs, Truncate(p) PROVE (LockInv /\ UsersInv /\ SocketInv)'
    BY <1>5 DEF Truncate, Move
  <1>6. ASSUME NEW p \in Procs, WriteBack(p) PROVE (LockInv /\ UsersInv /\ SocketInv)'
    BY <1>6 DEF WriteBack, Move
  <1>7. ASSUME NEW p \in Procs, TakeLock(p) PROVE (LockInv /\ UsersInv /\ SocketInv)'
    BY <1>7 DEF TakeLock, Move, Locked
  <1>8. ASSUME NEW p \in Procs, Refused(p) PROVE (LockInv /\ UsersInv /\ SocketInv)'
    BY <1>8 DEF Refused, Move, files, Locked
  <1>9. ASSUME NEW p \in Procs, OpenIndex(p) PROVE (LockInv /\ UsersInv /\ SocketInv)'
    BY <1>9 DEF OpenIndex, Move
  <1>10. ASSUME NEW p \in Procs, Bind(p) PROVE (LockInv /\ UsersInv /\ SocketInv)'
    BY <1>10 DEF Bind, Move
  <1>11. ASSUME NEW p \in Procs, SetDirectories(p) PROVE (LockInv /\ UsersInv /\ SocketInv)'
    BY <1>11 DEF SetDirectories, files
  <1>12. ASSUME NEW p \in Procs, SetFilters(p) PROVE (LockInv /\ UsersInv /\ SocketInv)'
    BY <1>12 DEF SetFilters, files
  <1>13. ASSUME NEW p \in Procs, Stop(p) PROVE (LockInv /\ UsersInv /\ SocketInv)'
    BY <1>13 DEF Stop, Move
  <1>14. ASSUME NEW p \in Procs, Settle(p) PROVE (LockInv /\ UsersInv /\ SocketInv)'
    BY <1>14 DEF Settle, Move, files
  <1>15. ASSUME NEW p \in Procs, Save(p) PROVE (LockInv /\ UsersInv /\ SocketInv)'
    BY <1>15 DEF Save, Move
  <1>16. ASSUME NEW p \in Procs, CloseIndex(p) PROVE (LockInv /\ UsersInv /\ SocketInv)'
    BY <1>16 DEF CloseIndex, Move
  <1>17. ASSUME NEW p \in Procs, ReleaseLock(p) PROVE (LockInv /\ UsersInv /\ SocketInv)'
    BY <1>17 DEF ReleaseLock, Move
  <1>18. ASSUME NEW p \in Procs, Killed(p) PROVE (LockInv /\ UsersInv /\ SocketInv)'
    BY <1>18 DEF Killed
  <1> QED
    BY <1>0, <1>1, <1>2, <1>3, <1>4, <1>5, <1>6, <1>7, <1>8, <1>9, <1>10, <1>11, <1>12, <1>13, <1>14, <1>15, <1>16, <1>17, <1>18 DEF Next, Main
-----------------------------------------------------------------------------
(***************************************************************************)
(* The settings.                                                           *)
(***************************************************************************)
(* The file says what was kept or is known to be lost, and so does what a   *)
(* daemon read before it got the lock.                                      *)
LEMMA KeptStep == IInv /\ [Next]_vars => KeptInv'
  <1> SUFFICES ASSUME IInv, [Next]_vars PROVE KeptInv'
    OBVIOUS
  <1> USE SettingsAssumption DEF SettingsAssumption, IInv, Owned, TypeOK, KeptInv
  <1>0. CASE UNCHANGED vars
    BY <1>0 DEF vars, Read
  <1>1. ASSUME NEW p \in Procs, Start(p) PROVE KeptInv'
    BY <1>1 DEF Start, Move, files
  <1>2. ASSUME NEW p \in Procs, StatDir(p) PROVE KeptInv'
    BY <1>2 DEF StatDir, Move, files
  <1>3. ASSUME NEW p \in Procs, MakeDir(p) PROVE KeptInv'
    BY <1>3 DEF MakeDir, Move
  <1>4. ASSUME NEW p \in Procs, LoadConf(p) PROVE KeptInv'
    BY <1>4 DEF LoadConf, Move, files
  <1>5. ASSUME NEW p \in Procs, Truncate(p) PROVE KeptInv'
    BY <1>5 DEF Truncate, Move
  <1>6. ASSUME NEW p \in Procs, WriteBack(p) PROVE KeptInv'
    BY <1>6, ReadWhole DEF WriteBack, Move
  <1>7. ASSUME NEW p \in Procs, TakeLock(p) PROVE KeptInv'
    BY <1>7 DEF TakeLock, Move
  <1>8. ASSUME NEW p \in Procs, Refused(p) PROVE KeptInv'
    BY <1>8 DEF Refused, Move, files, Forgotten
  <1>9. ASSUME NEW p \in Procs, OpenIndex(p) PROVE KeptInv'
    BY <1>9 DEF OpenIndex, Move
  <1>10. ASSUME NEW p \in Procs, Bind(p) PROVE KeptInv'
    BY <1>10 DEF Bind, Move
  <1>11. ASSUME NEW p \in Procs, SetDirectories(p) PROVE KeptInv'
    BY <1>11 DEF SetDirectories, files
  <1>12. ASSUME NEW p \in Procs, SetFilters(p) PROVE KeptInv'
    BY <1>12 DEF SetFilters, files
  <1>13. ASSUME NEW p \in Procs, Stop(p) PROVE KeptInv'
    BY <1>13 DEF Stop, Move
  <1>14. ASSUME NEW p \in Procs, Settle(p) PROVE KeptInv'
    BY <1>14, WithBoth DEF Settle, Move, files
  <1>15. ASSUME NEW p \in Procs, Save(p) PROVE KeptInv'
    BY <1>15, ReadWhole DEF Save, Move, LockInv
  <1>16. ASSUME NEW p \in Procs, CloseIndex(p) PROVE KeptInv'
    BY <1>16 DEF CloseIndex, Move
  <1>17. ASSUME NEW p \in Procs, ReleaseLock(p) PROVE KeptInv'
    BY <1>17 DEF ReleaseLock, Move, Forgotten
  <1>18. ASSUME NEW p \in Procs, Killed(p) PROVE KeptInv'
    BY <1>18 DEF Killed, Forgotten
  <1> QED
    BY <1>0, <1>1, <1>2, <1>3, <1>4, <1>5, <1>6, <1>7, <1>8, <1>9, <1>10, <1>11, <1>12, <1>13, <1>14, <1>15, <1>16, <1>17, <1>18 DEF Next, Main

LEMMA StepIInv == IInv /\ [Next]_vars => IInv'
  BY OwnedStep, KeptStep DEF IInv

LEMMA AlwaysIInv == Spec => []IInv
  BY InitIInv, StepIInv, PTL DEF Spec
-----------------------------------------------------------------------------
(* The index has one user whoever is killed, and the path of the socket     *)
(* leads to the daemon that serves.                                         *)
THEOREM OneUserAlways == Spec => []OneUser
  <1>1. IInv => OneUser
    BY SettingsAssumption DEF SettingsAssumption, IInv, Owned, TypeOK, LockInv, UsersInv, SocketInv, OneUser
  <1> QED
    BY <1>1, AlwaysIInv, PTL

(* Settings are lost in the ways that `lost' and `stale' record and in no   *)
(* other, for any settings and any number of daemons.                       *)
THEOREM SettingsKeptAlways == Spec => []SettingsKept
  <1>1. IInv => SettingsKept
    BY DEF IInv, KeptInv, SettingsKept
  <1> QED
    BY <1>1, AlwaysIInv, PTL
=============================================================================
