----------------------- MODULE CombinedIndex_proofs -----------------------
(***************************************************************************)
(* For any number of threads, directories and addresses: the counts of the *)
(* pointers are exact and no index is used after it was deleted.           *)
(***************************************************************************)
EXTENDS CombinedIndex, FiniteSetTheorems, TLAPS

Place == {"idle", "read", "copy", "ask", "release", "crashed", "remove", "add", "create", "assign"}

Typed ==
    /\ lock \in Thread \cup {None}
    /\ ptr \in [Slot -> Object \cup {None}]
    /\ count \in [Object -> Nat]
    /\ alive \in SUBSET Object
    /\ seen \in [Thread -> Object \cup {None}]
    /\ dying \in [Thread -> Object \cup {None}]
    /\ at \in [Thread -> Place]
    /\ dir \in [Thread -> Dir \cup {None}]
    /\ todo \in [Thread -> SUBSET Dir]

(* A thread copies the map under the lock; what it has looked at stays in   *)
(* the map until it has counted it, and is in no place of its copy.         *)
Copying ==
    \A t \in Thread : at[t] = "copy" =>
        /\ lock = t
        /\ \A d \in todo[t] : ptr[<<t, d>>] = None
        /\ seen[t] # None =>
             dir[t] \in Dir /\ dir[t] \notin todo[t] /\ ptr[<<Map, dir[t]>>] = seen[t] /\ ptr[<<t, dir[t]>>] = None
SeenInCopy == \A t \in Thread : seen[t] # None => at[t] = "copy"

(* A thread that has not begun to copy or to create holds nothing; one that *)
(* changes the map knows the directory.                                     *)
Holding ==
    \A t \in Thread :
        /\ at[t] \in {"idle", "read", "remove", "add", "create"} => \A d \in Dir : ptr[<<t, d>>] = None
        /\ at[t] \in {"remove", "add", "create", "assign"} => dir[t] \in Dir
        /\ at[t] = "assign" => \A d \in Dir : d # dir[t] => ptr[<<t, d>>] = None

Counted == \A o \in Object : count[o] = Cardinality(Refs(o))

Living ==
    /\ \A s \in Slot : ptr[s] # None => ptr[s] \in alive
    /\ \A o \in alive : Refs(o) # {} \/ \E t \in Thread : dying[t] = o
    /\ \A t \in Thread : dying[t] # None => dying[t] \in alive /\ Refs(dying[t]) = {}
    /\ \A t, u \in Thread : dying[t] = dying[u] /\ dying[t] # None => t = u

IInv == Typed /\ Copying /\ SeenInCopy /\ Holding /\ Counted /\ Living
---------------------------------------------------------------------------
(***************************************************************************)
(* Places and references.                                                  *)
(***************************************************************************)

LEMMA SlotFacts ==
    /\ IsFiniteSet(Slot)
    /\ \A t \in Thread, d \in Dir : <<t, d>> \in Slot /\ <<Map, d>> \in Slot /\ t # Map
  <1>1. IsFiniteSet(Holder)
    BY Finite, FS_AddElement DEF Finite, Holder
  <1>2. IsFiniteSet(Slot)
    BY <1>1, Finite, FS_Product DEF Finite, Slot
  <1> QED
    BY <1>2, Distinct DEF Distinct, Slot, Holder

LEMMA RefsFinite ==
    ASSUME NEW o PROVE IsFiniteSet(Refs(o)) /\ Cardinality(Refs(o)) \in Nat
  <1>1. Refs(o) \in SUBSET Slot
    BY DEF Refs
  <1> QED
    BY <1>1, SlotFacts, FS_Subset, FS_CardinalityType

LEMMA RefsFinitePrimed ==
    ASSUME NEW o PROVE IsFiniteSet(Refs(o)') /\ Cardinality(Refs(o)') \in Nat
  <1>1. Refs(o)' \in SUBSET Slot
    BY DEF Refs
  <1> QED
    BY <1>1, SlotFacts, FS_Subset, FS_CardinalityType

(* A pointer is cleared: its object has one reference less.                 *)
LEMMA ClearRefs ==
    ASSUME Typed, Counted, NEW t \in Thread, NEW s \in Slot, NEW o \in Object, ptr[s] = o, Deref(t, s)
    PROVE  /\ Refs(o)' = Refs(o) \ {s}
           /\ Cardinality(Refs(o)') = count[o] - 1
           /\ count[o] \in Nat \ {0}
           /\ \A x \in Object \ {o} : Refs(x)' = Refs(x)
           /\ count' \in [Object -> Nat]
           /\ ptr' \in [Slot -> Object \cup {None}]
           /\ Counted'
  <1>1. o \in Object /\ s \in Refs(o)
    BY DEF Typed, Refs
  <1>2. ptr' = [ptr EXCEPT ![s] = None] /\ count' = [count EXCEPT ![o] = @ - 1]
    BY DEF Deref
  <1>3. Refs(o)' = Refs(o) \ {s}
    BY <1>1, <1>2, Distinct DEF Typed, Refs, Distinct
  <1>4. \A x \in Object \ {o} : Refs(x)' = Refs(x)
    BY <1>1, <1>2, Distinct DEF Typed, Refs, Distinct
  <1>5. count[o] = Cardinality(Refs(o)) /\ Cardinality(Refs(o)) # 0
    BY <1>1, RefsFinite, FS_EmptySet DEF Counted
  <1>6. Cardinality(Refs(o)') = count[o] - 1 /\ count[o] \in Nat \ {0}
    <2>1. Cardinality(Refs(o) \ {s}) = Cardinality(Refs(o)) - 1
      BY <1>1, RefsFinite, FS_RemoveElement
    <2>2. Cardinality(Refs(o)') = Cardinality(Refs(o) \ {s})
      BY <1>3
    <2> QED
      BY <1>5, <2>1, <2>2, RefsFinite
  <1>7. count' \in [Object -> Nat] /\ ptr' \in [Slot -> Object \cup {None}]
    BY <1>1, <1>2, <1>6 DEF Typed
  <1>8. \A x \in Object : count'[x] = Cardinality(Refs(x)')
    <2> TAKE x \in Object
    <2>1. CASE x = o
      BY <2>1, <1>1, <1>2, <1>6 DEF Typed
    <2>2. CASE x # o
      <3>1. count'[x] = count[x]
        BY <2>2, <1>2 DEF Typed
      <3> QED
        BY <3>1, <2>2, <1>4 DEF Counted
    <2> QED
      BY <2>1, <2>2
  <1>9. Counted'
    BY <1>8 DEF Counted, Refs
  <1> QED
    BY <1>1, <1>3, <1>4, <1>6, <1>7, <1>9

(* A pointer that was null is set and its object counted.                   *)
LEMMA SetRefs ==
    ASSUME Typed, Counted, NEW s \in Slot, NEW o \in Object, ptr[s] = None,
           ptr' = [ptr EXCEPT ![s] = o], count' = [count EXCEPT ![o] = @ + 1]
    PROVE  /\ Refs(o)' = Refs(o) \cup {s}
           /\ \A x \in Object \ {o} : Refs(x)' = Refs(x)
           /\ count' \in [Object -> Nat]
           /\ ptr' \in [Slot -> Object \cup {None}]
           /\ Counted'
  <1>1. s \notin Refs(o)
    BY Distinct DEF Refs, Distinct
  <1>2. Refs(o)' = Refs(o) \cup {s}
    BY <1>1 DEF Typed, Refs
  <1>3. \A x \in Object \ {o} : Refs(x)' = Refs(x)
    BY Distinct DEF Typed, Refs, Distinct
  <1>4. Cardinality(Refs(o)') = count[o] + 1
    BY <1>1, <1>2, RefsFinite, FS_AddElement DEF Counted
  <1>5. count' \in [Object -> Nat] /\ ptr' \in [Slot -> Object \cup {None}]
    BY DEF Typed
  <1>6. \A x \in Object : count'[x] = Cardinality(Refs(x)')
    <2> TAKE x \in Object
    <2>1. CASE x = o
      BY <2>1, <1>4 DEF Typed
    <2>2. CASE x # o
      <3>1. count'[x] = count[x]
        BY <2>2 DEF Typed
      <3> QED
        BY <3>1, <2>2, <1>3 DEF Counted
    <2> QED
      BY <2>1, <2>2
  <1>7. Counted'
    BY <1>6 DEF Counted, Refs
  <1> QED
    BY <1>2, <1>3, <1>5, <1>7

(* A pointer moves from one place to another that was null.                 *)
LEMMA MoveRefs ==
    ASSUME Typed, Counted, NEW r \in Slot, NEW s \in Slot, NEW o \in Object, r # s, ptr[s] = None, ptr[r] = o,
           ptr' = [ptr EXCEPT ![s] = o, ![r] = None], count' = count
    PROVE  /\ Refs(o)' = (Refs(o) \ {r}) \cup {s}
           /\ \A x \in Object \ {o} : Refs(x)' = Refs(x)
           /\ ptr' \in [Slot -> Object \cup {None}]
           /\ Counted'
  <1>1. o \in Object /\ r \in Refs(o) /\ s \notin Refs(o)
    BY Distinct DEF Typed, Refs, Distinct
  <1>2. Refs(o)' = (Refs(o) \ {r}) \cup {s}
    BY <1>1, Distinct DEF Typed, Refs, Distinct
  <1>3. \A x \in Object \ {o} : Refs(x)' = Refs(x)
    BY <1>1, Distinct DEF Typed, Refs, Distinct
  <1>4. IsFiniteSet(Refs(o) \ {r}) /\ Cardinality(Refs(o) \ {r}) = Cardinality(Refs(o)) - 1
    BY <1>1, RefsFinite, FS_RemoveElement
  <1>5. Cardinality(Refs(o)') = Cardinality(Refs(o))
    <2>1. Cardinality((Refs(o) \ {r}) \cup {s}) = Cardinality(Refs(o) \ {r}) + 1
      BY <1>1, <1>4, FS_AddElement
    <2>2. Cardinality(Refs(o)') = Cardinality((Refs(o) \ {r}) \cup {s})
      BY <1>2
    <2> QED
      BY <1>4, <2>1, <2>2, RefsFinite
  <1>6. ptr' \in [Slot -> Object \cup {None}]
    BY <1>1 DEF Typed
  <1>7. Counted'
    <2>1. \A x \in Object : count'[x] = Cardinality(Refs(x)')
      BY <1>3, <1>5 DEF Counted
    <2> QED
      BY <2>1 DEF Counted, Refs
  <1> QED
    BY <1>1, <1>2, <1>3, <1>6, <1>7
---------------------------------------------------------------------------
(***************************************************************************)
(* The invariant is inductive: a step for each action.                     *)
(***************************************************************************)

LEMMA CountedLivingKept ==
    ASSUME Counted, Living, UNCHANGED <<ptr, count, alive, dying>>
    PROVE  Counted' /\ Living'
  <1>1. \A o : Refs(o)' = Refs(o)
    BY DEF Refs
  <1> QED
    BY <1>1 DEF Counted, Living, Refs

LEMMA InitInvariant == Init => IInv
  <1> SUFFICES ASSUME Init PROVE IInv
    OBVIOUS
  <1>1. Typed /\ Copying /\ SeenInCopy
    BY DEF Init, Typed, Copying, SeenInCopy, Place
  <1>2. Holding
    BY SlotFacts DEF Init, Holding
  <1>3. \A o \in Object : Refs(o) = {}
    BY Distinct DEF Init, Refs, Distinct
  <1>4. Counted
    BY <1>3, FS_EmptySet DEF Init, Counted
  <1>5. Living
    BY DEF Init, Living
  <1> QED
    BY <1>1, <1>2, <1>4, <1>5 DEF IInv

(* Steps that touch neither pointers nor objects.                           *)
LEMMA PlainSteps ==
    ASSUME IInv, NEW t \in Thread,
           \/ LockMap(t) \/ UnlockMap(t) \/ Ask(t) \/ Answered(t) \/ Return(t) \/ LockErase(t) \/ UnlockErase(t)
           \/ See(t) \/ \E o \in Op : Read(t, o)
           \/ \E d \in Dir, goal \in {"remove", "add"} : Change(t, d, goal)
    PROVE  IInv'
  <1> USE DEF IInv
  <1>0. Counted' /\ Living'
    BY CountedLivingKept DEF LockMap, UnlockMap, Ask, Answered, Return, LockErase, UnlockErase, See, Read, Change, data
  <1>1. CASE LockMap(t)
    <2>1. Typed' /\ SeenInCopy'
      BY <1>1 DEF LockMap, Typed, Place, SeenInCopy
    <2>2. Copying'
      BY <1>1, Distinct DEF LockMap, Typed, Copying, SeenInCopy, Holding, Distinct
    <2>3. Holding'
      BY <1>1 DEF LockMap, Typed, Holding
    <2> QED
      BY <1>0, <2>1, <2>2, <2>3
  <1>2. CASE UnlockMap(t)
    <2>1. Typed' /\ SeenInCopy'
      BY <1>2 DEF UnlockMap, Typed, Place, SeenInCopy
    <2>2. Copying'
      BY <1>2 DEF UnlockMap, Typed, Copying
    <2>3. Holding'
      BY <1>2 DEF UnlockMap, Typed, Holding
    <2> QED
      BY <1>0, <2>1, <2>2, <2>3
  <1>3. CASE Ask(t)
    <2>1. Typed' /\ SeenInCopy'
      BY <1>3 DEF Ask, data, Typed, SeenInCopy
    <2>2. Copying'
      BY <1>3 DEF Ask, data, Typed, Copying
    <2>3. Holding'
      BY <1>3 DEF Ask, data, Typed, Holding
    <2> QED
      BY <1>0, <2>1, <2>2, <2>3
  <1>4. CASE Answered(t)
    <2>1. Typed' /\ SeenInCopy'
      BY <1>4 DEF Answered, data, Typed, Place, SeenInCopy
    <2>2. Copying'
      BY <1>4 DEF Answered, data, Typed, Copying
    <2>3. Holding'
      BY <1>4 DEF Answered, data, Typed, Holding
    <2> QED
      BY <1>0, <2>1, <2>2, <2>3
  <1>5. CASE Return(t)
    <2>1. Typed' /\ SeenInCopy'
      BY <1>5 DEF Return, data, Typed, Place, SeenInCopy
    <2>2. Copying'
      BY <1>5 DEF Return, data, Typed, Copying
    <2>3. Holding'
      BY <1>5 DEF Return, data, Typed, Holding
    <2> QED
      BY <1>0, <2>1, <2>2, <2>3
  <1>6. CASE LockErase(t)
    <2>1. Typed' /\ SeenInCopy'
      BY <1>6 DEF LockErase, Typed, SeenInCopy
    <2>2. Copying'
      BY <1>6, Distinct DEF LockErase, Typed, Copying, Distinct
    <2>3. Holding'
      BY <1>6 DEF LockErase, Holding
    <2> QED
      BY <1>0, <2>1, <2>2, <2>3
  <1>7. CASE UnlockErase(t)
    <2>1. Typed' /\ SeenInCopy'
      BY <1>7 DEF UnlockErase, Typed, Place, SeenInCopy
    <2>2. Copying'
      BY <1>7 DEF UnlockErase, Erased, Typed, Copying
    <2>3. Holding'
      BY <1>7 DEF UnlockErase, Typed, Holding
    <2> QED
      BY <1>0, <2>1, <2>2, <2>3
  <1>8. CASE See(t)
    <2>0. PICK d \in todo[t] : /\ dir' = [dir EXCEPT ![t] = d] /\ seen' = [seen EXCEPT ![t] = ptr[<<Map, d>>]]
                              /\ todo' = [todo EXCEPT ![t] = @ \ {d}]
      BY <1>8 DEF See
    <2>a. d \in Dir /\ <<Map, d>> \in Slot
      BY SlotFacts DEF Typed
    <2>1. Typed' /\ SeenInCopy'
      BY <1>8, <2>0, <2>a DEF See, Typed, SeenInCopy
    <2>2. Copying'
      <3> SUFFICES ASSUME NEW u \in Thread, at'[u] = "copy"
                   PROVE  /\ lock' = u
                          /\ \A e \in todo'[u] : ptr'[<<u, e>>] = None
                          /\ seen'[u] # None => /\ dir'[u] \in Dir /\ dir'[u] \notin todo'[u]
                                                /\ ptr'[<<Map, dir'[u]>>] = seen'[u] /\ ptr'[<<u, dir'[u]>>] = None
        BY DEF Copying
      <3>1. at[u] = "copy" /\ lock' = lock /\ ptr' = ptr
        BY <1>8 DEF See
      <3>2. CASE u = t
        BY <2>0, <2>a, <3>1, <3>2 DEF Typed, Copying
      <3>3. CASE u # t
        BY <2>0, <3>1, <3>3 DEF Typed, Copying
      <3> QED
        BY <3>2, <3>3
    <2>3. Holding'
      BY <1>8 DEF See, Typed, Holding
    <2> QED
      BY <1>0, <2>1, <2>2, <2>3
  <1>9. ASSUME NEW o \in Op, Read(t, o) PROVE IInv'
    <2>1. Typed' /\ SeenInCopy'
      BY <1>9 DEF Read, data, Typed, Place, SeenInCopy
    <2>2. Copying'
      BY <1>9 DEF Read, data, Typed, Copying
    <2>3. Holding'
      BY <1>9 DEF Read, data, Typed, Holding
    <2> QED
      BY <1>0, <2>1, <2>2, <2>3
  <1>10. ASSUME NEW d \in Dir, NEW goal \in {"remove", "add"}, Change(t, d, goal) PROVE IInv'
    <2>1. Typed' /\ SeenInCopy'
      BY <1>10 DEF Change, data, Typed, Place, SeenInCopy
    <2>2. Copying'
      BY <1>10 DEF Change, data, Typed, Copying
    <2>3. Holding'
      BY <1>10 DEF Change, data, Typed, Holding
    <2> QED
      BY <1>0, <2>1, <2>2, <2>3
  <1> QED
    BY <1>1, <1>2, <1>3, <1>4, <1>5, <1>6, <1>7, <1>8, <1>9, <1>10
LEMMA DeleteStep ==
    ASSUME IInv, NEW t \in Thread, Delete(t)
    PROVE  IInv'
  <1> USE DEF IInv
  <1> DEFINE o == dying[t]
  <1>1. o \in Object /\ o \in alive /\ Refs(o) = {}
    BY DEF Delete, Typed, Living
  <1>2. \A x : Refs(x)' = Refs(x)
    BY DEF Delete, Refs
  <1>3. Typed' /\ Copying' /\ SeenInCopy' /\ Holding'
    BY DEF Delete, Typed, Copying, SeenInCopy, Holding
  <1>4. Counted'
    BY <1>2 DEF Delete, Counted, Refs
  <1>5. \A s \in Slot : ptr'[s] # None => ptr'[s] \in alive'
    BY <1>1 DEF Delete, Living, Refs
  <1>6. \A x \in alive' : Refs(x)' # {} \/ \E u \in Thread : dying'[u] = x
    BY <1>2 DEF Delete, Living, Typed
  <1>7. \A u \in Thread : dying'[u] # None => u # t /\ dying'[u] = dying[u] /\ dying[u] # o
    BY DEF Delete, Living, Typed
  <1>8. \A u \in Thread : dying'[u] # None => dying'[u] \in alive' /\ {s \in Slot : ptr'[s] = dying'[u]} = {}
    BY <1>7 DEF Delete, Living, Refs
  <1>9. \A u, v \in Thread : dying'[u] = dying'[v] /\ dying'[u] # None => u = v
    BY <1>7 DEF Living
  <1>10. Living'
    BY <1>5, <1>6, <1>8, <1>9 DEF Living, Refs
  <1> QED
    BY <1>3, <1>4, <1>10

LEMMA CountStep ==
    ASSUME IInv, NEW t \in Thread, Count(t)
    PROVE  IInv'
  <1> USE DEF IInv
  <1>1. PICK o \in Object : o = seen[t]
    BY DEF Count, Typed
  <1>2. PICK d \in Dir : d = dir[t]
    BY DEF Count, Copying
  <1>3. /\ at[t] = "copy" /\ lock = t /\ d \notin todo[t]
        /\ ptr[<<Map, d>>] = o /\ ptr[<<t, d>>] = None
        /\ <<t, d>> \in Slot /\ <<Map, d>> \in Slot
    BY <1>1, <1>2, SlotFacts DEF Count, Copying
  <1>4. /\ ptr' = [ptr EXCEPT ![<<t, d>>] = o] /\ count' = [count EXCEPT ![o] = @ + 1]
        /\ UNCHANGED <<lock, alive, dying, at, dir, todo>> /\ seen' = [seen EXCEPT ![t] = None]
    BY <1>1, <1>2 DEF Count
  <1>5. /\ Refs(o)' = Refs(o) \cup {<<t, d>>}
        /\ \A x \in Object \ {o} : Refs(x)' = Refs(x)
        /\ count' \in [Object -> Nat] /\ ptr' \in [Slot -> Object \cup {None}] /\ Counted'
    BY <1>1, <1>3, <1>4, SetRefs
  <1>6. Typed' /\ SeenInCopy'
    BY <1>4, <1>5 DEF Typed, SeenInCopy
  <1>7. \A s \in Slot : ptr'[s] = IF s = <<t, d>> THEN o ELSE ptr[s]
    BY <1>4 DEF Typed
  <1>8. Copying'
    <2> SUFFICES ASSUME NEW u \in Thread, at'[u] = "copy"
                 PROVE  /\ lock' = u
                        /\ \A e \in todo'[u] : ptr'[<<u, e>>] = None
                        /\ seen'[u] # None => /\ dir'[u] \in Dir /\ dir'[u] \notin todo'[u]
                                              /\ ptr'[<<Map, dir'[u]>>] = seen'[u] /\ ptr'[<<u, dir'[u]>>] = None
      BY DEF Copying
    <2>1. u = t
      BY <1>3, <1>4 DEF Copying
    <2>2. \A e \in todo[t] : <<t, e>> \in Slot /\ <<t, e>> # <<t, d>>
      BY <1>3, SlotFacts DEF Typed
    <2> QED
      BY <1>3, <1>4, <1>7, <2>1, <2>2 DEF Copying, Typed
  <1>9. Holding'
    <2>1. \A u \in Thread, e \in Dir : u # t => ptr'[<<u, e>>] = ptr[<<u, e>>]
      BY <1>7, SlotFacts
    <2> QED
      BY <1>3, <1>4, <2>1 DEF Holding
  <1>10. Living'
    <2>1. o \in alive /\ \A u \in Thread : dying[u] # o
      BY <1>1, <1>3, Distinct DEF Living, Refs, Distinct
    <2>2. \A s \in Slot : ptr'[s] # None => ptr'[s] \in alive
      BY <1>7, <2>1 DEF Living
    <2>3. \A x \in alive : Refs(x)' # {} \/ \E u \in Thread : dying[u] = x
      BY <1>5 DEF Living, Typed
    <2>4. \A u \in Thread : dying[u] # None => {s \in Slot : ptr'[s] = dying[u]} = {}
      BY <1>7, <2>1 DEF Living, Refs
    <2> QED
      BY <1>4, <2>2, <2>3, <2>4 DEF Living, Refs
  <1> QED
    BY <1>5, <1>6, <1>8, <1>9, <1>10

(* A thread gives up a reference, in its copy or in the map.                *)
LEMMA DerefLiving ==
    ASSUME Typed, Counted, Living, NEW t \in Thread, NEW s \in Slot, NEW o \in Object, ptr[s] = o,
           dying[t] = None, Deref(t, s), alive' = alive
    PROVE  Living' /\ dying' \in [Thread -> Object \cup {None}]
  <1>1. /\ Refs(o)' = Refs(o) \ {s}
        /\ Cardinality(Refs(o)') = count[o] - 1
        /\ count[o] \in Nat \ {0}
        /\ \A x \in Object \ {o} : Refs(x)' = Refs(x)
    BY ClearRefs
  <1>2. dying' = IF count[o] = 1 THEN [dying EXCEPT ![t] = o] ELSE dying
    BY DEF Deref
  <1>3. dying' \in [Thread -> Object \cup {None}]
    BY <1>2 DEF Typed
  <1>4. \A r \in Slot : ptr'[r] = IF r = s THEN None ELSE ptr[r]
    BY DEF Deref, Typed
  <1>5. o \in alive /\ o # None /\ \A u \in Thread : dying[u] # o
    BY Distinct DEF Living, Refs, Distinct
  <1>6. Refs(o)' = {} <=> count[o] = 1
    <2>1. IsFiniteSet(Refs(o)')
      BY RefsFinitePrimed
    <2>2. Refs(o)' = {} <=> Cardinality(Refs(o)') = 0
      BY <2>1, FS_EmptySet
    <2> QED
      BY <1>1, <2>2
  <1>7. \A r \in Slot : ptr'[r] # None => ptr'[r] \in alive'
    BY <1>4 DEF Living
  <1>8. \A x \in alive' : Refs(x)' # {} \/ \E u \in Thread : dying'[u] = x
    <2> TAKE x \in alive'
    <2>1. x \in alive /\ x \in Object
      BY DEF Typed
    <2>2. CASE x = o /\ count[o] = 1
      BY <1>2, <2>2 DEF Typed
    <2>3. CASE x = o /\ count[o] # 1
      BY <1>6, <2>3
    <2>4. CASE x # o /\ Refs(x) # {}
      BY <1>1, <2>1, <2>4
    <2>5. CASE x # o /\ Refs(x) = {}
      <3>1. PICK u \in Thread : dying[u] = x
        BY <2>1, <2>5 DEF Living
      <3>2. u # t
        BY <3>1, <2>1, Distinct DEF Distinct
      <3> QED
        BY <1>2, <3>1, <3>2 DEF Typed
    <2> QED
      BY <2>2, <2>3, <2>4, <2>5
  <1>9. \A u \in Thread : dying'[u] # None =>
           \/ u = t /\ dying'[u] = o /\ count[o] = 1
           \/ u # t /\ dying'[u] = dying[u] /\ dying[u] # o
    BY <1>2, <1>5 DEF Typed
  <1>10. \A u \in Thread : dying'[u] # None => dying'[u] \in alive' /\ {r \in Slot : ptr'[r] = dying'[u]} = {}
    <2> SUFFICES ASSUME NEW u \in Thread, dying'[u] # None
                 PROVE  dying'[u] \in alive' /\ {r \in Slot : ptr'[r] = dying'[u]} = {}
      OBVIOUS
    <2>1. CASE u = t /\ dying'[u] = o /\ count[o] = 1
      BY <1>5, <1>6, <2>1 DEF Refs
    <2>2. CASE u # t /\ dying'[u] = dying[u] /\ dying[u] # o
      BY <1>4, <2>2 DEF Living, Refs
    <2> QED
      BY <1>9, <2>1, <2>2
  <1>11. \A u, v \in Thread : dying'[u] = dying'[v] /\ dying'[u] # None => u = v
    BY <1>9 DEF Living
  <1> QED
    BY <1>3, <1>7, <1>8, <1>10, <1>11 DEF Living, Refs
LEMMA ReleaseStep ==
    ASSUME IInv, NEW t \in Thread, Release(t)
    PROVE  IInv'
  <1> USE DEF IInv
  <1>1. PICK d \in Dir : ptr[<<t, d>>] # None /\ Deref(t, <<t, d>>)
    BY DEF Release
  <1> DEFINE s == <<t, d>>
  <1>2. s \in Slot /\ s \notin {<<Map, e>> : e \in Dir} /\ \A u \in Thread, e \in Dir : <<u, e>> \in Slot
    BY SlotFacts
  <1>3. PICK o \in Object : ptr[s] = o
    BY <1>1, <1>2 DEF Typed
  <1>4. /\ dying[t] = None /\ at[t] = "release" /\ alive' = alive
        /\ UNCHANGED <<lock, seen, at, dir, todo>>
    BY DEF Release
  <1>5. Living' /\ dying' \in [Thread -> Object \cup {None}]
    BY <1>1, <1>2, <1>3, <1>4, DerefLiving
  <1>6. Counted' /\ count' \in [Object -> Nat] /\ ptr' \in [Slot -> Object \cup {None}]
    BY <1>1, <1>2, <1>3, ClearRefs
  <1>7. \A r \in Slot : ptr'[r] = IF r = s THEN None ELSE ptr[r]
    BY <1>1, <1>2 DEF Deref, Typed
  <1>8. Typed' /\ SeenInCopy'
    BY <1>4, <1>5, <1>6 DEF Typed, SeenInCopy
  <1>9. Holding'
    BY <1>2, <1>4, <1>7 DEF Holding
  <1>10. Copying'
    <2>1. \A u \in Thread, e \in Dir : /\ ptr[<<u, e>>] = None => ptr'[<<u, e>>] = None
                                       /\ ptr'[<<Map, e>>] = ptr[<<Map, e>>]
      BY <1>2, <1>7, SlotFacts
    <2> QED
      BY <1>4, <2>1 DEF Copying, Typed
  <1> QED
    BY <1>5, <1>6, <1>8, <1>9, <1>10

LEMMA EraseStep ==
    ASSUME IInv, NEW t \in Thread, Erase(t)
    PROVE  IInv'
  <1> USE DEF IInv
  <1>1. PICK d \in Dir : d = dir[t]
    BY DEF Erase, Holding
  <1> DEFINE s == <<Map, d>>
  <1>2. s \in Slot /\ \A u \in Thread, e \in Dir : <<u, e>> \in Slot /\ <<u, e>> # s
    BY SlotFacts
  <1>3. PICK o \in Object : ptr[s] = o
    BY <1>1, <1>2 DEF Erase, Typed
  <1>4. /\ dying[t] = None /\ at[t] # "copy" /\ lock = t /\ alive' = alive /\ Deref(t, s)
        /\ UNCHANGED <<lock, seen, at, dir, todo>>
    BY <1>1 DEF Erase
  <1>5. Living' /\ dying' \in [Thread -> Object \cup {None}]
    BY <1>2, <1>3, <1>4, DerefLiving
  <1>6. Counted' /\ count' \in [Object -> Nat] /\ ptr' \in [Slot -> Object \cup {None}]
    BY <1>2, <1>3, <1>4, ClearRefs
  <1>7. \A r \in Slot : ptr'[r] = IF r = s THEN None ELSE ptr[r]
    BY <1>2, <1>4 DEF Deref, Typed
  <1>8. Typed' /\ SeenInCopy'
    BY <1>4, <1>5, <1>6 DEF Typed, SeenInCopy
  <1>9. Holding'
    BY <1>2, <1>4, <1>7 DEF Holding
  <1>10. Copying'
    <2>1. \A u \in Thread : at[u] # "copy"
      BY <1>4 DEF Copying
    <2> QED
      BY <1>4, <2>1 DEF Copying
  <1> QED
    BY <1>5, <1>6, <1>8, <1>9, <1>10

LEMMA CreateStep ==
    ASSUME IInv, NEW t \in Thread, Create(t)
    PROVE  IInv'
  <1> USE DEF IInv
  <1>1. PICK d \in Dir : d = dir[t]
    BY DEF Create, Holding
  <1>2. at[t] = "create" /\ UNCHANGED <<lock, seen, dying, todo>>
    BY DEF Create
  <1>3. CASE at' = [at EXCEPT ![t] = "idle"] /\ dir' = [dir EXCEPT ![t] = None] /\ UNCHANGED <<ptr, count, alive>>
    <2>1. Counted' /\ Living'
      BY <1>2, <1>3, CountedLivingKept
    <2>2. Typed' /\ SeenInCopy'
      BY <1>2, <1>3 DEF Typed, Place, SeenInCopy
    <2>3. Copying'
      BY <1>2, <1>3 DEF Typed, Copying
    <2>4. Holding'
      BY <1>2, <1>3 DEF Typed, Holding
    <2> QED
      BY <2>1, <2>2, <2>3, <2>4
  <1>4. ASSUME NEW o \in Object \ alive,
               ptr' = [ptr EXCEPT ![<<t, d>>] = o], count' = [count EXCEPT ![o] = 1], alive' = alive \cup {o},
               at' = [at EXCEPT ![t] = "assign"], dir' = dir
        PROVE  IInv'
    <2>1. <<t, d>> \in Slot /\ ptr[<<t, d>>] = None
      BY <1>1, <1>2, SlotFacts DEF Holding
    <2>2. Refs(o) = {} /\ \A u \in Thread : dying[u] # o
      BY <1>4, Distinct DEF Living, Refs, Distinct
    <2>3. count[o] = 0
      BY <2>2, FS_EmptySet DEF Counted
    <2>4. count' = [count EXCEPT ![o] = @ + 1]
      BY <1>4, <2>3
    <2>5. /\ Refs(o)' = Refs(o) \cup {<<t, d>>}
          /\ \A x \in Object \ {o} : Refs(x)' = Refs(x)
          /\ count' \in [Object -> Nat] /\ ptr' \in [Slot -> Object \cup {None}] /\ Counted'
      BY <1>4, <2>1, <2>4, SetRefs
    <2>6. Typed' /\ SeenInCopy'
      BY <1>2, <1>4, <2>5 DEF Typed, Place, SeenInCopy
    <2>7. \A s \in Slot : ptr'[s] = IF s = <<t, d>> THEN o ELSE ptr[s]
      BY <1>4 DEF Typed
    <2>8. \A u \in Thread, e \in Dir :
            /\ <<u, e>> # <<t, d>> => ptr'[<<u, e>>] = ptr[<<u, e>>]
            /\ ptr'[<<Map, e>>] = ptr[<<Map, e>>]
      BY <2>7, SlotFacts
    <2>9. Copying'
      <3>1. \A u \in Thread : at'[u] = "copy" => at[u] = "copy" /\ u # t
        BY <1>4 DEF Typed
      <3>2. \A u \in Thread \ {t} : \A e \in Dir : ptr'[<<u, e>>] = ptr[<<u, e>>]
        BY <2>8
      <3> QED
        BY <1>2, <1>4, <2>8, <3>1, <3>2 DEF Copying, Typed
    <2>10. Holding'
      <3> SUFFICES ASSUME NEW u \in Thread
                   PROVE  /\ at'[u] \in {"idle", "read", "remove", "add", "create"}
                               => \A e \in Dir : ptr'[<<u, e>>] = None
                          /\ at'[u] \in {"remove", "add", "create", "assign"} => dir'[u] \in Dir
                          /\ at'[u] = "assign" => \A e \in Dir : e # dir'[u] => ptr'[<<u, e>>] = None
        BY DEF Holding
      <3>1. CASE u = t
        BY <1>1, <1>2, <1>4, <2>8, <3>1 DEF Holding, Typed
      <3>2. CASE u # t
        BY <1>4, <2>8, <3>2 DEF Holding, Typed
      <3> QED
        BY <3>1, <3>2
    <2>11. Living'
      <3>1. \A s \in Slot : ptr'[s] # None => ptr'[s] \in alive'
        BY <1>4, <2>7 DEF Living
      <3>2. \A x \in alive' : Refs(x)' # {} \/ \E u \in Thread : dying[u] = x
        BY <1>4, <2>5 DEF Living, Typed
      <3>3. \A u \in Thread : dying[u] # None => {s \in Slot : ptr'[s] = dying[u]} = {}
        BY <2>2, <2>7 DEF Living, Refs
      <3> QED
        BY <1>2, <1>4, <3>1, <3>2, <3>3 DEF Living, Refs
    <2> QED
      BY <2>5, <2>6, <2>9, <2>10, <2>11
  <1> QED
    BY <1>1, <1>3, <1>4 DEF Create

LEMMA AssignStep ==
    ASSUME IInv, NEW t \in Thread, Assign(t)
    PROVE  IInv'
  <1> USE DEF IInv
  <1>1. PICK d \in Dir : d = dir[t]
    BY DEF Assign, Holding
  <1>2. /\ at[t] = "assign" /\ lock = t /\ lock' = None /\ ptr[<<Map, d>>] = None
        /\ ptr' = [ptr EXCEPT ![<<Map, d>>] = ptr[<<t, d>>], ![<<t, d>>] = None]
        /\ at' = [at EXCEPT ![t] = "idle"] /\ dir' = [dir EXCEPT ![t] = None]
        /\ UNCHANGED <<count, alive, seen, dying, todo>>
    BY <1>1 DEF Assign, Erased
  <1>3. <<t, d>> \in Slot /\ <<Map, d>> \in Slot /\ <<t, d>> # <<Map, d>>
    BY SlotFacts
  <1>4. \A s \in Slot : ptr'[s] = IF s = <<t, d>> THEN None ELSE IF s = <<Map, d>> THEN ptr[<<t, d>>] ELSE ptr[s]
    BY <1>2, <1>3 DEF Typed
  <1>5. Counted' /\ Living' /\ ptr' \in [Slot -> Object \cup {None}]
    <2>1. CASE ptr[<<t, d>>] = None
      <3>1. ptr' = ptr
        BY <1>2, <1>3, <1>4, <2>1 DEF Typed
      <3> QED
        BY <1>2, <3>1, CountedLivingKept DEF Typed
    <2>2. CASE ptr[<<t, d>>] # None
      <3>1. PICK o \in Object : ptr[<<t, d>>] = o
        BY <1>3, <2>2 DEF Typed
      <3>2. /\ Refs(o)' = (Refs(o) \ {<<t, d>>}) \cup {<<Map, d>>}
            /\ \A x \in Object \ {o} : Refs(x)' = Refs(x)
            /\ ptr' \in [Slot -> Object \cup {None}]
            /\ Counted'
        BY <1>2, <1>3, <3>1, MoveRefs
      <3>3. o \in alive /\ \A u \in Thread : dying[u] # o
        BY <1>3, <3>1, Distinct DEF Living, Refs, Distinct
      <3>4. \A s \in Slot : ptr'[s] # None => ptr'[s] \in alive
        BY <1>4, <3>1, <3>3 DEF Living
      <3>5. \A x \in alive : Refs(x)' # {} \/ \E u \in Thread : dying[u] = x
        BY <3>2 DEF Living, Typed
      <3>6. \A u \in Thread : dying[u] # None => {s \in Slot : ptr'[s] = dying[u]} = {}
        BY <1>4, <3>1, <3>3 DEF Living, Refs
      <3> QED
        BY <1>2, <3>2, <3>4, <3>5, <3>6 DEF Living, Refs
    <2> QED
      BY <2>1, <2>2
  <1>6. Typed' /\ SeenInCopy'
    BY <1>2, <1>5 DEF Typed, Place, SeenInCopy
  <1>7. Copying'
    <2>1. \A u \in Thread : at'[u] # "copy"
      BY <1>2 DEF Copying, Typed
    <2> QED
      BY <2>1 DEF Copying
  <1>8. \A u \in Thread, e \in Dir : ptr'[<<u, e>>] = IF <<u, e>> = <<t, d>> THEN None ELSE ptr[<<u, e>>]
    BY <1>4, SlotFacts
  <1>9. Holding'
    <2> SUFFICES ASSUME NEW u \in Thread
                 PROVE  /\ at'[u] \in {"idle", "read", "remove", "add", "create"}
                             => \A e \in Dir : ptr'[<<u, e>>] = None
                        /\ at'[u] \in {"remove", "add", "create", "assign"} => dir'[u] \in Dir
                        /\ at'[u] = "assign" => \A e \in Dir : e # dir'[u] => ptr'[<<u, e>>] = None
      BY DEF Holding
    <2>1. CASE u = t
      <3>1. \A e \in Dir : e # d => ptr[<<t, e>>] = None
        BY <1>1, <1>2 DEF Holding
      <3>2. \A e \in Dir : ptr'[<<t, e>>] = None
        BY <1>8, <3>1
      <3>3. at'[t] = "idle"
        BY <1>2 DEF Typed
      <3> QED
        BY <2>1, <3>2, <3>3
    <2>2. CASE u # t
      <3>1. \A e \in Dir : ptr'[<<u, e>>] = ptr[<<u, e>>]
        BY <1>8, <2>2
      <3>2. at'[u] = at[u] /\ dir'[u] = dir[u]
        BY <1>2, <2>2 DEF Typed
      <3> QED
        BY <3>1, <3>2 DEF Holding
    <2> QED
      BY <2>1, <2>2
  <1> QED
    BY <1>5, <1>6, <1>7, <1>9

LEMMA InvariantKept == IInv /\ [Next]_vars => IInv'
  <1>1. ASSUME IInv, UNCHANGED vars PROVE IInv'
    BY <1>1, CountedLivingKept DEF IInv, vars, data, Typed, Copying, SeenInCopy, Holding
  <1>2. ASSUME IInv, NEW t \in Thread, Step(t) PROVE IInv'
    <2>1. CASE Delete(t)
      BY <1>2, <2>1, DeleteStep
    <2>2. CASE Count(t)
      BY <1>2, <2>2, CountStep
    <2>3. CASE Release(t)
      BY <1>2, <2>3, ReleaseStep
    <2>4. CASE Erase(t)
      BY <1>2, <2>4, EraseStep
    <2>5. CASE Create(t)
      BY <1>2, <2>5, CreateStep
    <2>6. CASE Assign(t)
      BY <1>2, <2>6, AssignStep
    <2> QED
      BY <1>2, <2>1, <2>2, <2>3, <2>4, <2>5, <2>6, PlainSteps DEF Step
  <1> QED
    BY <1>1, <1>2 DEF Next

(* The counts of the pointers are exact, an index is open as long as a       *)
(* pointer to it is left, and nothing that is open is forgotten: for any     *)
(* number of threads that read, add and remove indexes.                      *)
THEOREM PointersExact == Spec => []RefsExact
  <1>1. IInv => RefsExact
    <2> SUFFICES ASSUME IInv PROVE RefsExact
      OBVIOUS
    <2>1. \A o \in Object : Refs(o) # {} => o \in alive
      BY Distinct DEF IInv, Living, Refs, Distinct
    <2> QED
      BY <2>1 DEF IInv, Counted, Living, RefsExact
  <1> QED
    BY <1>1, InitInvariant, InvariantKept, PTL DEF Spec
---------------------------------------------------------------------------
(***************************************************************************)
(* What an answer covers.  The copy of the map is complete because it is   *)
(* made under the lock, and what is left to ask, with what was asked,      *)
(* covers the indexes that are there during the whole call.                *)
(***************************************************************************)

Left(t) == {ptr[<<t, d>>] : d \in todo[t]}

HistoryTyped ==
    /\ op \in [Thread -> Op \cup {None}]
    /\ answer \in [Thread -> SUBSET (Object \cup {None})]
    /\ always \in [Thread -> SUBSET (Object \cup {None})]
    /\ ever \in [Thread -> SUBSET (Object \cup {None})]

(* Until the copy is made, nothing is in the answer; the map has what the   *)
(* answer must cover and no more than it may.                               *)
BeforeCopy ==
    \A t \in Thread : at[t] \in {"read", "copy"} =>
        answer[t] = {} /\ always[t] \subseteq InMap /\ InMap \subseteq ever[t]

(* What was copied is what the map has.                                     *)
CopiedExact ==
    \A t \in Thread, d \in Dir : at[t] = "copy" =>
        \/ d \in todo[t]
        \/ seen[t] # None /\ d = dir[t]
        \/ ptr[<<t, d>>] = ptr[<<Map, d>>]

Summing ==
    \A t \in Thread : at[t] = "ask" /\ op[t] = "sum" =>
        always[t] \subseteq answer[t] \cup Left(t) /\ answer[t] \cup Left(t) \subseteq ever[t]

AInv == HistoryTyped /\ BeforeCopy /\ CopiedExact /\ Summing /\ AnswerCovers

(* The threads that are past the copy and do not move.                      *)
LEMMA AskersKept ==
    ASSUME Summing, AnswerCovers, NEW U \in SUBSET Thread,
           \A u \in U : at'[u] \in {"ask", "release"} =>
               /\ at'[u] = at[u] /\ op'[u] = op[u] /\ answer'[u] = answer[u]
               /\ always'[u] \subseteq always[u] /\ ever[u] \subseteq ever'[u]
               /\ at[u] = "ask" => Left(u)' = Left(u)
    PROVE  /\ \A u \in U : at'[u] = "ask" /\ op'[u] = "sum" =>
                always'[u] \subseteq answer'[u] \cup Left(u)' /\ answer'[u] \cup Left(u)' \subseteq ever'[u]
           /\ \A u \in U : at'[u] = "release" /\ op'[u] = "sum" =>
                always'[u] \subseteq answer'[u] /\ answer'[u] \subseteq ever'[u]
  BY DEF Summing, AnswerCovers

(* Steps that change no pointer.                                            *)
LEMMA AnswerPlainSteps ==
    ASSUME IInv, AInv, NEW t \in Thread,
           \/ Delete(t) \/ LockMap(t) \/ UnlockMap(t) \/ Ask(t) \/ Answered(t) \/ Return(t) \/ LockErase(t)
           \/ UnlockErase(t) \/ See(t) \/ \E o \in Op : Read(t, o)
           \/ \E d \in Dir, goal \in {"remove", "add"} : Change(t, d, goal)
    PROVE  AInv'
  <1> USE DEF AInv
  <1>0. ptr' = ptr /\ InMap' = InMap
    BY DEF Delete, LockMap, UnlockMap, Ask, Answered, Return, LockErase, UnlockErase, See, Read, Change, data, InMap
  <1>1. CASE Delete(t) \/ LockErase(t) \/ UnlockErase(t) \/ \E d \in Dir, goal \in {"remove", "add"} : Change(t, d, goal)
    <2>1. /\ UNCHANGED <<ptr, seen, op, todo, answer, always, ever>>
          /\ \A u \in Thread : at'[u] \in {"read", "copy", "ask", "release"} =>
                at'[u] = at[u] /\ (at[u] = "copy" => dir'[u] = dir[u])
      BY <1>1 DEF Delete, LockErase, UnlockErase, Change, data, IInv, Typed
    <2>2. HistoryTyped' /\ BeforeCopy'
      BY <1>0, <2>1 DEF HistoryTyped, BeforeCopy
    <2>3. CopiedExact'
      BY <2>1 DEF CopiedExact
    <2>4. Summing' /\ AnswerCovers'
      BY <2>1 DEF Summing, AnswerCovers, Left
    <2> QED
      BY <2>2, <2>3, <2>4
  <1>2. ASSUME NEW o \in Op, Read(t, o) PROVE AInv'
    <2>1. InMap \in SUBSET (Object \cup {None})
      BY SlotFacts DEF InMap, IInv, Typed
    <2>2. HistoryTyped'
      BY <1>2, <2>1 DEF Read, HistoryTyped
    <2>3. BeforeCopy'
      BY <1>0, <1>2 DEF Read, BeforeCopy, HistoryTyped, IInv, Typed
    <2>4. CopiedExact'
      BY <1>2 DEF Read, data, CopiedExact, IInv, Typed
    <2>5. \A u \in Thread : at'[u] \in {"ask", "release"} =>
               /\ at'[u] = at[u] /\ op'[u] = op[u] /\ answer'[u] = answer[u]
               /\ always'[u] = always[u] /\ ever'[u] = ever[u] /\ Left(u)' = Left(u)
      BY <1>2 DEF Read, data, Left, HistoryTyped, IInv, Typed
    <2>6. Summing' /\ AnswerCovers'
      BY <2>5, AskersKept DEF Summing, AnswerCovers, Left
    <2> QED
      BY <2>2, <2>3, <2>4, <2>6
  <1>3. CASE LockMap(t)
    <2>1. HistoryTyped' /\ BeforeCopy'
      BY <1>0, <1>3 DEF LockMap, HistoryTyped, BeforeCopy, IInv, Typed
    <2>2. CopiedExact'
      BY <1>3 DEF LockMap, CopiedExact, IInv, Typed
    <2>a. \A u \in Thread : at'[u] \in {"ask", "release"} =>
               /\ at'[u] = at[u] /\ op'[u] = op[u] /\ answer'[u] = answer[u]
               /\ always'[u] = always[u] /\ ever'[u] = ever[u] /\ Left(u)' = Left(u)
      BY <1>3 DEF LockMap, Left, IInv, Typed
    <2>3. Summing' /\ AnswerCovers'
      BY <2>a, AskersKept DEF Summing, AnswerCovers, Left
    <2> QED
      BY <2>1, <2>2, <2>3
  <1>4. CASE See(t)
    <2>1. PICK d \in todo[t] : /\ dir' = [dir EXCEPT ![t] = d] /\ seen' = [seen EXCEPT ![t] = ptr[<<Map, d>>]]
                               /\ todo' = [todo EXCEPT ![t] = @ \ {d}]
      BY <1>4 DEF See
    <2>2. /\ at[t] = "copy" /\ seen[t] = None /\ UNCHANGED <<at, op, answer, always, ever>>
          /\ d \in Dir /\ <<t, d>> \in Slot /\ ptr[<<t, d>>] = None
      BY <1>4, SlotFacts DEF See, IInv, Typed, Copying
    <2>3. HistoryTyped' /\ BeforeCopy'
      BY <1>0, <2>2 DEF HistoryTyped, BeforeCopy
    <2>4. CopiedExact'
      <3> SUFFICES ASSUME NEW u \in Thread, NEW e \in Dir, at[u] = "copy"
                   PROVE  \/ e \in todo'[u]
                          \/ seen'[u] # None /\ e = dir'[u]
                          \/ ptr[<<u, e>>] = ptr[<<Map, e>>]
        BY <1>0, <2>2 DEF CopiedExact
      <3>1. CASE u = t
        BY <2>1, <2>2, <3>1 DEF CopiedExact, IInv, Typed
      <3>2. CASE u # t
        BY <2>1, <3>2 DEF CopiedExact, IInv, Typed
      <3> QED
        BY <3>1, <3>2
    <2>a. \A u \in Thread : at'[u] \in {"ask", "release"} =>
               /\ at'[u] = at[u] /\ op'[u] = op[u] /\ answer'[u] = answer[u]
               /\ always'[u] = always[u] /\ ever'[u] = ever[u] /\ Left(u)' = Left(u)
      BY <1>0, <2>1, <2>2 DEF Left, IInv, Typed
    <2>5. Summing' /\ AnswerCovers'
      BY <2>a, AskersKept DEF Summing, AnswerCovers, Left
    <2> QED
      BY <2>3, <2>4, <2>5
  <1>5. CASE UnlockMap(t)
    <2>1. /\ at[t] = "copy" /\ todo[t] = {} /\ seen[t] = None /\ at' = [at EXCEPT ![t] = "ask"]
          /\ todo' = [todo EXCEPT ![t] = {d \in Dir : ptr[<<t, d>>] # None}]
          /\ UNCHANGED <<ptr, seen, dir, op, answer, always, ever>>
      BY <1>5 DEF UnlockMap
    <2>2. HistoryTyped' /\ BeforeCopy'
      BY <1>0, <2>1 DEF HistoryTyped, BeforeCopy, IInv, Typed
    <2>3. CopiedExact' /\ AnswerCovers'
      BY <2>1 DEF CopiedExact, AnswerCovers, IInv, Typed
    <2>a. \A d \in Dir : ptr[<<t, d>>] = ptr[<<Map, d>>]
      BY <2>1 DEF CopiedExact
    <2>b. todo'[t] = {d \in Dir : ptr[<<t, d>>] # None}
      BY <2>1 DEF IInv, Typed
    <2>4. Left(t)' = InMap
      BY <2>1, <2>a, <2>b DEF Left, InMap
    <2>5. Summing'
      <3> SUFFICES ASSUME NEW u \in Thread, at'[u] = "ask", op[u] = "sum"
                   PROVE  always[u] \subseteq answer[u] \cup Left(u)' /\ answer[u] \cup Left(u)' \subseteq ever[u]
        BY <2>1 DEF Summing, Left
      <3>1. CASE u = t
        BY <2>1, <2>4, <3>1 DEF BeforeCopy
      <3>2. CASE u # t
        BY <2>1, <3>2 DEF Summing, Left, IInv, Typed
      <3> QED
        BY <3>1, <3>2
    <2> QED
      BY <2>2, <2>3, <2>5
  <1>6. CASE Ask(t)
    <2>1. at[t] = "ask" /\ UNCHANGED <<ptr, seen, dir, at, op, always, ever>>
      BY <1>6 DEF Ask, data
    <2>2. PICK d \in todo[t] :
             \/ answer' = [answer EXCEPT ![t] = Combined(t, d)] /\ todo' = [todo EXCEPT ![t] = @ \ {d}]
             \/ op[t] = "first" /\ answer' = [answer EXCEPT ![t] = {ptr[<<t, d>>]}]
                /\ todo' = [todo EXCEPT ![t] = {}]
      BY <1>6 DEF Ask
    <2>3. ptr[<<t, d>>] \in Object \cup {None}
      BY SlotFacts DEF IInv, Typed
    <2>4. HistoryTyped'
      <3>1. Combined(t, d) \in SUBSET (Object \cup {None})
        BY <2>3 DEF Combined, HistoryTyped
      <3> QED
        BY <2>1, <2>2, <2>3, <3>1 DEF HistoryTyped
    <2>5. \A u \in Thread : u # t => answer'[u] = answer[u] /\ todo'[u] = todo[u]
      BY <2>2 DEF HistoryTyped, IInv, Typed
    <2>6. BeforeCopy' /\ CopiedExact' /\ AnswerCovers'
      BY <1>0, <2>1, <2>5 DEF BeforeCopy, CopiedExact, AnswerCovers
    <2>7. op[t] = "sum" => answer'[t] = answer[t] \cup {ptr[<<t, d>>]} /\ Left(t)' \cup {ptr[<<t, d>>]} = Left(t)
      <3> SUFFICES ASSUME op[t] = "sum"
                   PROVE  answer'[t] = answer[t] \cup {ptr[<<t, d>>]} /\ Left(t)' \cup {ptr[<<t, d>>]} = Left(t)
        OBVIOUS
      <3>1. answer' = [answer EXCEPT ![t] = Combined(t, d)] /\ todo' = [todo EXCEPT ![t] = @ \ {d}]
        BY <2>2
      <3>2. answer'[t] = answer[t] \cup {ptr[<<t, d>>]}
        BY <3>1 DEF Combined, HistoryTyped
      <3>3. todo'[t] = todo[t] \ {d}
        BY <3>1 DEF IInv, Typed
      <3>4. Left(t)' = {ptr[<<t, e>>] : e \in todo[t] \ {d}}
        BY <2>1, <3>3 DEF Left
      <3> QED
        BY <3>2, <3>4 DEF Left
    <2>8. Summing'
      <3> SUFFICES ASSUME NEW u \in Thread, at[u] = "ask", op[u] = "sum"
                   PROVE  always[u] \subseteq answer'[u] \cup Left(u)' /\ answer'[u] \cup Left(u)' \subseteq ever[u]
        BY <2>1 DEF Summing, Left
      <3>1. CASE u = t
        BY <2>7, <3>1 DEF Summing
      <3>2. CASE u # t
        BY <2>1, <2>5, <3>2 DEF Summing, Left
      <3> QED
        BY <3>1, <3>2
    <2> QED
      BY <2>4, <2>6, <2>8
  <1>7. CASE Answered(t)
    <2>1. /\ at[t] = "ask" /\ UNCHANGED <<ptr, seen, dir, op, answer, always, ever>>
          /\ \A u \in Thread : u # t => at'[u] = at[u] /\ todo'[u] = todo[u]
          /\ at'[t] \in {"release", "crashed"} /\ (op[t] = "sum" => todo[t] = {})
      BY <1>7 DEF Answered, data, IInv, Typed
    <2>2. HistoryTyped' /\ BeforeCopy' /\ CopiedExact'
      BY <1>0, <2>1 DEF HistoryTyped, BeforeCopy, CopiedExact
    <2>3. Summing'
      BY <2>1 DEF Summing, Left
    <2>4. op[t] = "sum" => Left(t) = {}
      BY <2>1 DEF Left
    <2>5. AnswerCovers'
      <3> SUFFICES ASSUME NEW u \in Thread, at'[u] = "release", op[u] = "sum"
                   PROVE  always[u] \subseteq answer[u] /\ answer[u] \subseteq ever[u]
        BY <2>1 DEF AnswerCovers
      <3>1. CASE u = t
        BY <2>1, <2>4, <3>1 DEF Summing
      <3>2. CASE u # t
        BY <2>1, <3>2 DEF AnswerCovers
      <3> QED
        BY <3>1, <3>2
    <2> QED
      BY <2>2, <2>3, <2>5
  <1>8. CASE Return(t)
    <2>1. /\ at'[t] = "idle" /\ UNCHANGED <<ptr, seen, todo>>
          /\ \A u \in Thread : u # t => /\ at'[u] = at[u] /\ dir'[u] = dir[u] /\ op'[u] = op[u]
                                       /\ answer'[u] = answer[u] /\ always'[u] = always[u] /\ ever'[u] = ever[u]
      BY <1>8 DEF Return, data, HistoryTyped, IInv, Typed
    <2>2. HistoryTyped'
      BY <1>8 DEF Return, HistoryTyped
    <2>3. BeforeCopy'
      BY <1>0, <2>1 DEF BeforeCopy
    <2>4. CopiedExact'
      BY <1>0, <2>1 DEF CopiedExact
    <2>5. Summing'
      BY <2>1 DEF Summing, Left
    <2>6. AnswerCovers'
      BY <2>1 DEF AnswerCovers
    <2> QED
      BY <2>2, <2>3, <2>4, <2>5, <2>6
  <1> QED
    BY <1>1, <1>2, <1>3, <1>4, <1>5, <1>6, <1>7, <1>8

(* An index leaves the map: no answer must cover it any more.               *)
LEMMA AnswerErase ==
    ASSUME IInv, AInv, NEW t \in Thread, Erase(t)
    PROVE  AInv'
  <1> USE DEF AInv
  <1>1. PICK d \in Dir : d = dir[t]
    BY DEF Erase, IInv, Holding
  <1> DEFINE o == ptr[<<Map, d>>]
  <1>2. /\ lock = t /\ at[t] # "copy" /\ ptr' = [ptr EXCEPT ![<<Map, d>>] = None]
        /\ always' = [u \in Thread |-> always[u] \ {o}]
        /\ UNCHANGED <<lock, seen, at, op, dir, todo, answer, ever>>
    BY <1>1 DEF Erase, Deref
  <1>3. \A u \in Thread, e \in Dir : ptr'[<<u, e>>] = ptr[<<u, e>>]
    BY <1>2, SlotFacts DEF IInv, Typed
  <1>4. \A e \in Dir : ptr'[<<Map, e>>] = IF e = d THEN None ELSE ptr[<<Map, e>>]
    BY <1>2, SlotFacts DEF IInv, Typed
  <1>5. InMap \ {o} \subseteq InMap' /\ InMap' \subseteq InMap
    BY <1>4 DEF InMap
  <1>6. HistoryTyped'
    BY <1>2 DEF HistoryTyped
  <1>7. BeforeCopy'
    BY <1>2, <1>5 DEF BeforeCopy
  <1>8. CopiedExact'
    <2>1. \A u \in Thread : at'[u] # "copy"
      BY <1>2 DEF IInv, Copying
    <2> QED
      BY <2>1 DEF CopiedExact
  <1>9. \A u \in Thread : always'[u] \subseteq always[u] /\ Left(u)' = Left(u)
    <2> TAKE u \in Thread
    <2>1. \A e \in todo[u] : ptr'[<<u, e>>] = ptr[<<u, e>>]
      BY <1>3 DEF IInv, Typed
    <2>2. Left(u)' = Left(u)
      BY <1>2, <2>1 DEF Left
    <2> QED
      BY <1>2, <2>2
  <1>10. Summing' /\ AnswerCovers'
    BY <1>2, <1>9, AskersKept DEF Summing, AnswerCovers, Left
  <1> QED
    BY <1>6, <1>7, <1>8, <1>10

(* A new index is in the map: an answer that is not complete may cover it.  *)
LEMMA AnswerAssign ==
    ASSUME IInv, AInv, NEW t \in Thread, Assign(t)
    PROVE  AInv'
  <1> USE DEF AInv
  <1>1. PICK d \in Dir : d = dir[t]
    BY DEF Assign, IInv, Holding
  <1> DEFINE o == ptr[<<t, d>>]
  <1>2. /\ lock = t /\ at[t] = "assign" /\ ptr[<<Map, d>>] = None
        /\ ptr' = [ptr EXCEPT ![<<Map, d>>] = o, ![<<t, d>>] = None]
        /\ ever' = [u \in Thread |-> IF at[u] \in {"read", "copy", "ask"} THEN ever[u] \cup {o} ELSE ever[u]]
        /\ at' = [at EXCEPT ![t] = "idle"]
        /\ UNCHANGED <<seen, op, todo, answer, always>>
    BY <1>1 DEF Assign, Erased
  <1>3. o \in Object \cup {None}
    BY SlotFacts DEF IInv, Typed
  <1>4. \A u \in Thread, e \in Dir : u # t => ptr'[<<u, e>>] = ptr[<<u, e>>]
    BY <1>2, SlotFacts DEF IInv, Typed
  <1>5. \A e \in Dir : ptr'[<<Map, e>>] = IF e = d THEN o ELSE ptr[<<Map, e>>]
    BY <1>2, SlotFacts DEF IInv, Typed
  <1>6. InMap \subseteq InMap' /\ InMap' \subseteq InMap \cup {o}
    BY <1>2, <1>5 DEF InMap
  <1>7. HistoryTyped'
    BY <1>2, <1>3 DEF HistoryTyped
  <1>8. \A u \in Thread : at'[u] = IF u = t THEN "idle" ELSE at[u]
    BY <1>2 DEF IInv, Typed
  <1>9. BeforeCopy'
    BY <1>2, <1>6, <1>8 DEF BeforeCopy
  <1>10. CopiedExact'
    <2>a. \A u \in Thread : at[u] = "copy" => lock = u
      BY DEF IInv, Copying
    <2>1. \A u \in Thread : at'[u] # "copy"
      BY <1>2, <1>8, <2>a
    <2> QED
      BY <2>1 DEF CopiedExact
  <1>11. \A u \in Thread : u # t => Left(u)' = Left(u)
    <2> TAKE u \in Thread
    <2>1. u # t => \A e \in todo[u] : ptr'[<<u, e>>] = ptr[<<u, e>>]
      BY <1>4 DEF IInv, Typed
    <2> QED
      BY <1>2, <2>1 DEF Left
  <1>12. Summing' /\ AnswerCovers'
    <2>1. \A u \in Thread : at'[u] \in {"ask", "release"} =>
             /\ at'[u] = at[u] /\ op'[u] = op[u] /\ answer'[u] = answer[u]
             /\ always'[u] = always[u] /\ ever[u] \subseteq ever'[u] /\ Left(u)' = Left(u)
      BY <1>2, <1>8, <1>11
    <2> QED
      BY <2>1, AskersKept DEF Summing, AnswerCovers, Left
  <1> QED
    BY <1>7, <1>9, <1>10, <1>12

(* The other steps that set or clear a pointer of the thread's own.         *)
LEMMA AnswerOwnSteps ==
    ASSUME IInv, AInv, NEW t \in Thread, Count(t) \/ Release(t) \/ Create(t)
    PROVE  AInv'
  <1> USE DEF AInv
  <1>1. CASE Count(t)
    <2>1. PICK d \in Dir : d = dir[t]
      BY <1>1 DEF Count, IInv, Copying
    <2>2. /\ at[t] = "copy" /\ seen[t] # None /\ seen[t] = ptr[<<Map, d>>]
          /\ ptr' = [ptr EXCEPT ![<<t, d>>] = seen[t]] /\ seen' = [seen EXCEPT ![t] = None]
          /\ UNCHANGED <<at, op, dir, todo, answer, always, ever>>
      BY <1>1, <2>1 DEF Count, IInv, Copying
    <2>3. /\ \A e \in Dir : ptr'[<<Map, e>>] = ptr[<<Map, e>>]
          /\ \A e \in Dir : ptr'[<<t, e>>] = IF e = d THEN seen[t] ELSE ptr[<<t, e>>]
          /\ \A e \in Dir, u \in Thread : u # t => ptr'[<<u, e>>] = ptr[<<u, e>>]
      <3>1. \A r \in Slot : ptr'[r] = IF r = <<t, d>> THEN seen[t] ELSE ptr[r]
        BY <2>2 DEF IInv, Typed
      <3>2. \A e \in Dir, u \in Thread : /\ <<Map, e>> \in Slot /\ <<Map, e>> # <<t, d>>
                                      /\ <<u, e>> \in Slot /\ (u # t => <<u, e>> # <<t, d>>)
                                      /\ (<<t, e>> = <<t, d>> <=> e = d)
        BY SlotFacts
      <3>3. \A e \in Dir : ptr'[<<Map, e>>] = ptr[<<Map, e>>]
        BY <3>1, <3>2
      <3>4. \A e \in Dir : <<t, e>> \in Slot
        BY <3>2
      <3>5. \A e \in Dir : ptr'[<<t, e>>] = IF e = d THEN seen[t] ELSE ptr[<<t, e>>]
        BY <3>1, <3>4
      <3>6. \A e \in Dir, u \in Thread : u # t => ptr'[<<u, e>>] = ptr[<<u, e>>]
        BY <3>1, <3>2
      <3> QED
        BY <3>3, <3>5, <3>6
    <2>4. InMap' = InMap
      <3>1. \A e \in Dir : ptr'[<<Map, e>>] = ptr[<<Map, e>>]
        BY <2>3
      <3> QED
        BY <3>1 DEF InMap
    <2>5. HistoryTyped' /\ BeforeCopy'
      BY <2>2, <2>4 DEF HistoryTyped, BeforeCopy
    <2>6. CopiedExact'
      <3> SUFFICES ASSUME NEW u \in Thread, NEW e \in Dir, at[u] = "copy"
                   PROVE  e \in todo[u] \/ (seen'[u] # None /\ e = dir[u]) \/ ptr'[<<u, e>>] = ptr'[<<Map, e>>]
        BY <2>2 DEF CopiedExact
      <3>1. CASE u = t
        BY <2>1, <2>2, <2>3, <3>1 DEF CopiedExact
      <3>2. CASE u # t
        BY <2>2, <2>3, <3>2 DEF CopiedExact, IInv, Typed
      <3> QED
        BY <3>1, <3>2
    <2>7. \A u \in Thread : at[u] \in {"ask", "release"} => Left(u)' = Left(u)
      BY <2>2, <2>3 DEF Left, IInv, Typed
    <2>8. Summing' /\ AnswerCovers'
      BY <2>2, <2>7, AskersKept DEF Summing, AnswerCovers, Left
    <2> QED
      BY <2>5, <2>6, <2>8
  <1>2. CASE Release(t)
    <2>1. PICK d \in Dir : Deref(t, <<t, d>>)
      BY <1>2 DEF Release
    <2>2. at[t] = "release" /\ UNCHANGED <<seen, at, op, dir, todo, answer, always, ever>>
      BY <1>2 DEF Release
    <2>3. \A e \in Dir : /\ ptr'[<<Map, e>>] = ptr[<<Map, e>>]
                        /\ \A u \in Thread : u # t => ptr'[<<u, e>>] = ptr[<<u, e>>]
      <3>1. ptr' = [ptr EXCEPT ![<<t, d>>] = None]
        BY <2>1 DEF Deref
      <3>2. \A r \in Slot : r # <<t, d>> => ptr'[r] = ptr[r]
        BY <3>1 DEF IInv, Typed
      <3>3. \A e \in Dir, u \in Thread : /\ <<Map, e>> \in Slot /\ <<Map, e>> # <<t, d>>
                                      /\ <<u, e>> \in Slot /\ (u # t => <<u, e>> # <<t, d>>)
        BY SlotFacts
      <3> QED
        BY <3>2, <3>3
    <2>4. InMap' = InMap
      BY <2>3 DEF InMap
    <2>5. HistoryTyped' /\ BeforeCopy'
      BY <2>2, <2>4 DEF HistoryTyped, BeforeCopy
    <2>6. CopiedExact'
      BY <2>2, <2>3 DEF CopiedExact
    <2>7. \A u \in Thread : at[u] = "ask" => Left(u)' = Left(u)
      BY <2>2, <2>3 DEF Left, IInv, Typed
    <2>8. Summing' /\ AnswerCovers'
      BY <2>2, <2>7, AskersKept DEF Summing, AnswerCovers, Left
    <2> QED
      BY <2>5, <2>6, <2>8
  <1>3. CASE Create(t)
    <2>1. dir[t] \in Dir
      BY <1>3 DEF Create, IInv, Holding
    <2>2. /\ at[t] = "create" /\ at'[t] \in {"idle", "assign"} /\ UNCHANGED <<seen, op, todo, answer, always, ever>>
          /\ \A u \in Thread : u # t => at'[u] = at[u] /\ dir'[u] = dir[u]
      BY <1>3 DEF Create, IInv, Typed
    <2>3. \A e \in Dir : /\ ptr'[<<Map, e>>] = ptr[<<Map, e>>]
                        /\ \A u \in Thread : u # t => ptr'[<<u, e>>] = ptr[<<u, e>>]
      BY <1>3, <2>1, SlotFacts DEF Create, IInv, Typed
    <2>4. InMap' = InMap
      BY <2>3 DEF InMap
    <2>5. HistoryTyped' /\ BeforeCopy'
      BY <2>2, <2>4 DEF HistoryTyped, BeforeCopy
    <2>6. CopiedExact'
      BY <2>2, <2>3 DEF CopiedExact
    <2>7. \A u \in Thread : u # t => Left(u)' = Left(u)
      <3> TAKE u \in Thread
      <3>1. u # t => \A e \in todo[u] : ptr'[<<u, e>>] = ptr[<<u, e>>]
        BY <2>3 DEF IInv, Typed
      <3> QED
        BY <2>2, <3>1 DEF Left
    <2>8. Summing' /\ AnswerCovers'
      <3>1. \A u \in Thread : at'[u] \in {"ask", "release"} => at'[u] = at[u] /\ Left(u)' = Left(u)
        BY <2>2, <2>7
      <3> QED
        BY <2>2, <3>1, AskersKept DEF Summing, AnswerCovers, Left
    <2> QED
      BY <2>5, <2>6, <2>8
  <1> QED
    BY <1>1, <1>2, <1>3

(* A number that is added up over the indexes counts each that was there     *)
(* during the whole call, and none that was not there at all, for any number *)
(* of threads that add and remove indexes meanwhile.                         *)
THEOREM AnswersCover == Spec => []AnswerCovers
  <1>1. Init => AInv
    BY DEF Init, AInv, HistoryTyped, BeforeCopy, CopiedExact, Summing, AnswerCovers
  <1>2. IInv /\ AInv /\ [Next]_vars => AInv'
    <2>1. ASSUME AInv, UNCHANGED vars PROVE AInv'
      BY <2>1 DEF AInv, vars, data, HistoryTyped, BeforeCopy, CopiedExact, Summing, AnswerCovers, InMap, Left
    <2>2. ASSUME IInv, AInv, NEW t \in Thread, Step(t) PROVE AInv'
      BY <2>2, AnswerPlainSteps, AnswerErase, AnswerAssign, AnswerOwnSteps DEF Step
    <2> QED
      BY <2>1, <2>2 DEF Next
  <1>3. AInv => AnswerCovers
    BY DEF AInv
  <1> QED
    BY <1>1, <1>2, <1>3, InitInvariant, InvariantKept, PTL DEF Spec
=============================================================================
