----------------------------- MODULE Socket_proofs -----------------------------
(***************************************************************************)
(* For any clients, calls, hits, connections, descriptors and buffer: as   *)
(* long as no client closed the descriptor of another, every open          *)
(* descriptor has an owner or belongs to a connection the daemon has left, *)
(* the daemon acts on whole requests, and a call gives what was answered.  *)
(***************************************************************************)
EXTENDS Socket, SequenceTheorems, FiniteSetTheorems, WellFoundedInduction, TLAPS

(* Numbers and sequences                                                    *)

LEMMA LeastNat ==
  ASSUME NEW T \in SUBSET Nat, T # {}
  PROVE  \E n \in T : \A m \in T : n <= m
<1> DEFINE R == OpToRel(<, Nat)
<1>1. IsWellFoundedOn(R, Nat)
  BY NatLessThanWellFounded
<1> HIDE DEF R
<1>2. PICK n \in T : \A m \in T : ~(<<m, n>> \in R)
  BY <1>1, WFMin
<1>3. \A m \in T : ~ m < n
  BY <1>2 DEF R, OpToRel
<1>4. \A m \in T : n <= m
  BY <1>3
<1>5. QED
  BY <1>4

LEMMA InductUp ==
  ASSUME NEW N \in Nat, NEW T, 0 \in T,
         \A n \in 0..N : n \in T /\ n < N => n + 1 \in T
  PROVE  \A n \in 0..N : n \in T
<1>1. SUFFICES ASSUME {n \in 0..N : n \notin T} # {}  PROVE FALSE
  OBVIOUS
<1>2. PICK n \in {k \in 0..N : k \notin T} : \A m \in {k \in 0..N : k \notin T} : n <= m
  <2>1. {n \in 0..N : n \notin T} \in SUBSET Nat
    OBVIOUS
  <2>2. QED
    BY <1>1, <2>1, LeastNat
<1>3. n # 0 /\ n - 1 \in 0..N
  BY <1>2
<1>4. n - 1 \in T
  BY <1>2, <1>3
<1>5. QED
  BY <1>2, <1>3, <1>4

LEMMA InductDown ==
  ASSUME NEW N \in Nat, NEW T,
         \A n \in 0..N : (\A m \in n + 1..N : m \in T) => n \in T
  PROVE  \A n \in 0..N : n \in T
<1>1. SUFFICES ASSUME {n \in 0..N : N - n \notin T} # {}  PROVE FALSE
  <2>1. ASSUME NEW n \in 0..N  PROVE N - n \in 0..N /\ N - (N - n) = n
    OBVIOUS
  <2>2. QED
    BY <2>1
<1>2. PICK n \in {k \in 0..N : N - k \notin T} : \A m \in {k \in 0..N : N - k \notin T} : n <= m
  <2>1. {n \in 0..N : N - n \notin T} \in SUBSET Nat
    OBVIOUS
  <2>2. QED
    BY <1>1, <2>1, LeastNat
<1>3. ASSUME NEW m \in (N - n) + 1..N  PROVE m \in T
  <2>1. N - m \in 0..N /\ N - m < n /\ N - (N - m) = m
    BY <1>2
  <2>2. QED
    BY <1>2, <2>1
<1>4. QED
  BY <1>2, <1>3

Follows(f, N, v, step) == f[0] = v /\ \A i \in 1..N : f[i] = step[i][f[i - 1]]
LEMMA Recursion ==
  ASSUME NEW N \in Nat, NEW V, NEW v \in V, NEW step \in [1..N -> [V -> V]]
  PROVE  \E f \in [0..N -> V] : Follows(f, N, v, step)
<1> DEFINE Upto(n) == \E f \in [0..n -> V] : f[0] = v /\ \A i \in 1..n : f[i] = step[i][f[i - 1]]
           T == {n \in 0..N : Upto(n)}
<1>1. 0 \in T
  <2>1. PICK g : g = [i \in 0..0 |-> v]
    OBVIOUS
  <2>2. g \in [0..0 -> V] /\ g[0] = v /\ 1..0 = {}
    BY <2>1
  <2>3. Upto(0)
    BY <2>2, Zenon
  <2>4. QED
    BY <2>3
<1>2. ASSUME NEW n \in 0..N, n \in T, n < N  PROVE n + 1 \in T
  <2>1. PICK f \in [0..n -> V] : f[0] = v /\ \A i \in 1..n : f[i] = step[i][f[i - 1]]
    BY <1>2
  <2>2. PICK w : w = step[n + 1][f[n]]
    OBVIOUS
  <2>3. w \in V
    BY <1>2, <2>1, <2>2
  <2>4. PICK g : g = [i \in 0..n + 1 |-> IF i = n + 1 THEN w ELSE f[i]]
    OBVIOUS
  <2>5. g \in [0..n + 1 -> V] /\ g[0] = v
    BY <2>1, <2>3, <2>4
  <2>6. ASSUME NEW i \in 1..n + 1  PROVE g[i] = step[i][g[i - 1]]
    <3>1. CASE i = n + 1
      <4>1. g[i] = w /\ g[i - 1] = f[n]
        BY <2>4, <3>1
      <4>2. QED
        BY <2>2, <3>1, <4>1
    <3>2. CASE i # n + 1
      <4>1. i \in 1..n /\ g[i] = f[i] /\ g[i - 1] = f[i - 1]
        BY <2>4, <3>2
      <4>2. QED
        BY <2>1, <4>1
    <3>3. QED
      BY <3>1, <3>2
  <2>7. Upto(n + 1)
    BY <2>5, <2>6, Zenon
  <2>8. n + 1 \in 0..N
    BY <1>2
  <2>9. QED
    BY <2>7, <2>8
<1>3. \A n \in 0..N : n \in T
  <2> HIDE DEF T
  <2>1. QED
    BY <1>1, <1>2, InductUp
<1>4. Upto(N)
  BY <1>3
<1>5. QED
  BY <1>4 DEF Follows

LEMMA FlatParts ==
  ASSUME NEW V, NEW ss \in Seq(Seq(V))
  PROVE  \E f \in [0..Len(ss) -> Seq(V)] :
            /\ f[0] = <<>> /\ S!FlattenSeq(ss) = f[Len(ss)]
            /\ \A i \in 1..Len(ss) : f[i] = f[i - 1] \o ss[i]
<1>1. PICK n \in Nat : n = Len(ss)
  OBVIOUS
<1>2. PICK step : step = [i \in 1..n |-> [w \in Seq(V) |-> w \o ss[i]]]
  OBVIOUS
<1>3. step \in [1..n -> [Seq(V) -> Seq(V)]]
  BY <1>1, <1>2
<1>4. <<>> \in Seq(V)
  OBVIOUS
<1>5. \E f \in [0..n -> Seq(V)] : f[0] = <<>> /\ \A i \in 1..n : f[i] = step[i][f[i - 1]]
  <2>1. PICK W : W = Seq(V)
    OBVIOUS
  <2>2. PICK e : e = <<>>
    OBVIOUS
  <2>3. e \in W /\ step \in [1..n -> [W -> W]] /\ n \in Nat
    BY <1>1, <1>3, <1>4, <2>1, <2>2
  <2>4. \E f \in [0..n -> W] : Follows(f, n, e, step)
    BY <2>3, Recursion
  <2>5. QED
    BY <2>1, <2>2, <2>4 DEF Follows
<1>50. PICK f \in [0..n -> Seq(V)] : f[0] = <<>> /\ \A i \in 1..n : f[i] = step[i][f[i - 1]]
  BY <1>5
<1>6. ASSUME NEW i \in 1..n  PROVE f[i] = f[i - 1] \o ss[i]
  <2>1. f[i - 1] \in Seq(V)
    BY <1>50
  <2>2. step[i][f[i - 1]] = f[i - 1] \o ss[i]
    BY <1>2, <2>1
  <2>3. QED
    BY <1>50, <2>2
<1>60. n # 0 => f[1] = ss[1]
  <2>1. SUFFICES ASSUME n # 0  PROVE f[1] = ss[1]
    OBVIOUS
  <2>2. 1 \in 1..n /\ 1 - 1 = 0 /\ ss[1] \in Seq(V)
    BY <1>1, <2>1
  <2>3. f[1] = <<>> \o ss[1]
    BY <1>50, <1>6, <2>2
  <2>4. QED
    BY <2>2, <2>3
<1>7. CASE n = 0
  <2>1. Len(ss) = 0
    BY <1>1, <1>7
  <2>10. ss = <<>>
    BY <2>1, EmptySeq
  <2>2. S!FlattenSeq(ss) = <<>>
    BY <2>1, <2>10 DEF S!FlattenSeq
  <2>3. QED
    BY <1>1, <1>50, <1>6, <1>7, <2>2
<1>8. CASE n # 0
  <2> DEFINE Fits(g) == g = [i \in 1..n |-> IF i = 1 THEN ss[i] ELSE g[i - 1] \o ss[i]]
  <2>1. Fits([i \in 1..n |-> f[i]])
    <3>1. [i \in 1..n |-> f[i]] = [i \in 1..n |-> IF i = 1 THEN ss[i] ELSE f[i - 1] \o ss[i]]
      BY <1>6, <1>60, <1>8
    <3>2. ASSUME NEW i \in 1..n  PROVE i # 1 => [k \in 1..n |-> f[k]][i - 1] = f[i - 1]
      OBVIOUS
    <3>3. QED
      BY <3>1, <3>2
  <2>2. PICK g : g = CHOOSE h : Fits(h)
    OBVIOUS
  <2>3. Fits(g)
    BY <2>1, <2>2
  <2>4. S!FlattenSeq(ss) = g[n]
    BY <1>1, <1>8, <2>2 DEF S!FlattenSeq
  <2> DEFINE T == {i \in 0..n : i > 0 => g[i] = f[i]}
  <2>5. 0 \in T
    OBVIOUS
  <2>6. ASSUME NEW i \in 0..n, i \in T, i < n  PROVE i + 1 \in T
    <3>1. CASE i = 0
      <4>1. 1 \in 1..n
        BY <1>1, <1>8
      <4>2. g[1] = ss[1]
        BY <2>3, <4>1
      <4>3. QED
        BY <1>1, <1>60, <1>8, <3>1, <4>2, <4>1
    <3>2. CASE i # 0
      <4>1. g[i + 1] = g[i] \o ss[i + 1]
        <5>1. i + 1 \in 1..n /\ i + 1 # 1 /\ (i + 1) - 1 = i
          BY <2>6, <3>2, <1>1
        <5>2. QED
          BY <2>3, <5>1
      <4>2. f[i + 1] = f[i] \o ss[i + 1]
        <5>1. i + 1 \in 1..n /\ (i + 1) - 1 = i
          BY <2>6, <1>1
        <5>2. QED
          BY <1>6, <5>1
      <4>3. g[i] = f[i]
        BY <2>6, <3>2
      <4>30. g[i + 1] = f[i + 1]
        BY <4>1, <4>2, <4>3, Zenon
      <4>4. QED
        BY <4>30, <2>6, <1>1
    <3>3. QED
      BY <3>1, <3>2
  <2> HIDE DEF T, Fits
  <2>7. \A i \in 0..n : i \in T
    BY <2>5, <2>6, InductUp
  <2>8. g[n] = f[n]
    BY <2>7, <1>8 DEF T
  <2>9. QED
    BY <1>1, <1>50, <1>6, <2>4, <2>8
<1>9. QED
  BY <1>7, <1>8

Lacks(s, e) == e \notin S!ToSet(s)

LEMMA LacksIs ==
  ASSUME NEW V, NEW s \in Seq(V), NEW e
  PROVE  Lacks(s, e) <=> \A i \in 1..Len(s) : s[i] # e
<1>1. DOMAIN s = 1..Len(s)
  OBVIOUS
<1>2. QED
  BY <1>1 DEF Lacks, S!ToSet

LEMMA NothingLacking == ASSUME NEW e PROVE Lacks(<<>>, e)
  BY DEF Lacks, S!ToSet

(* splitResponse() takes a response apart into the lines it was made of.    *)
LEMMA SplitOf ==
  ASSUME NEW V, NEW a \in Seq(V), NEW e \in V, Lacks(a, e), NEW l, l = Append(a, e)
  PROVE  S!FlattenSeq([i \in 1..Len(l) |-> IF l[i] = e THEN <<>> ELSE <<l[i]>>]) = a
<1>2. PICK n \in Nat : n = Len(a)
  OBVIOUS
<1>3. /\ l \in Seq(V) /\ Len(l) = n + 1 /\ l[n + 1] = e
      /\ \A i \in 1..n : l[i] = a[i] /\ l[i] # e /\ l[i] \in V
  BY <1>2, LacksIs
<1>4. PICK parts : parts = [i \in 1..Len(l) |-> IF l[i] = e THEN <<>> ELSE <<l[i]>>]
  OBVIOUS
<1>6. parts \in Seq(Seq(V)) /\ Len(parts) = n + 1 /\ parts[n + 1] = <<>>
      /\ \A i \in 1..n : parts[i] = <<a[i]>>
  <2>1. \A i \in 1..n + 1 : (IF l[i] = e THEN <<>> ELSE <<l[i]>>) \in Seq(V)
    BY <1>3
  <2>2. QED
    BY <1>3, <1>4, <2>1
<1>7. PICK f \in [0..Len(parts) -> Seq(V)] :
         /\ f[0] = <<>> /\ S!FlattenSeq(parts) = f[Len(parts)]
         /\ \A i \in 1..Len(parts) : f[i] = f[i - 1] \o parts[i]
  BY <1>6, FlatParts
<1> DEFINE T == {i \in 0..n : f[i] = SubSeq(a, 1, i)}
<1>8. 0 \in T
  BY <1>7
<1>9. ASSUME NEW i \in 0..n, i \in T, i < n  PROVE i + 1 \in T
  <2>1. f[i + 1] = f[i] \o <<a[i + 1]>>
    <3>1. i + 1 \in 1..Len(parts) /\ (i + 1) - 1 = i /\ i + 1 \in 1..n
      BY <1>9, <1>6
    <3>2. QED
      BY <1>6, <1>7, <3>1
  <2>2. SubSeq(a, 1, i + 1) = SubSeq(a, 1, i) \o <<a[i + 1]>>
    <3>1. 1 \in 1..Len(a) /\ i + 1 \in 1..Len(a) /\ (i + 1) - 1 = i
      BY <1>9, <1>2
    <3>2. SubSeq(a, 1, i + 1) = SubSeq(a, 1, (i + 1) - 1) \o <<a[i + 1]>>
      BY <3>1, SubSeqRecursiveSecond
    <3>3. QED
      BY <3>1, <3>2
  <2>3. f[i] = SubSeq(a, 1, i)
    BY <1>9
  <2>4. f[i + 1] = SubSeq(a, 1, i + 1)
    BY <2>1, <2>2, <2>3, Zenon
  <2>5. QED
    BY <1>9, <2>4
<1> HIDE DEF T
<1>10. n \in T
  <2>1. \A i \in 0..n : i \in T
    BY <1>8, <1>9, InductUp
  <2>2. QED
    BY <2>1
<1>11. f[n] = a
  BY <1>2, <1>10, SubSeqFull DEF T
<1>12. f[n + 1] = a
  <2>1. n + 1 \in 1..Len(parts) /\ (n + 1) - 1 = n
    BY <1>6
  <2>2. f[n + 1] = f[n] \o <<>>
    BY <1>6, <1>7, <2>1
  <2>3. QED
    BY <1>11, <2>2, ConcatEmptySeq
<1>13. QED
  BY <1>4, <1>6, <1>7, <1>12

(* w is g and then s; w is a and then e.                                     *)
Joins(w, g, s) ==
    /\ Len(w) = Len(g) + Len(s)
    /\ \A i \in 1..Len(g) : w[i] = g[i]
    /\ \A i \in 1..Len(s) : w[Len(g) + i] = s[i]
EndsWith(w, a, e) == Len(w) = Len(a) + 1 /\ w[Len(a) + 1] = e /\ \A i \in 1..Len(a) : w[i] = a[i]

LEMMA JoinsIs ==
  ASSUME NEW V, NEW g \in Seq(V), NEW s \in Seq(V), NEW w \in Seq(V)
  PROVE  w = g \o s <=> Joins(w, g, s)
<1>1. PICK c : c = g \o s
  OBVIOUS
<1>2. /\ c \in Seq(V) /\ Len(c) = Len(g) + Len(s) /\ \A i \in 1..Len(g) : c[i] = g[i]
      /\ \A i \in 1..Len(s) : c[Len(g) + i] = s[i]
  BY <1>1
<1>3. Joins(w, g, s) => w = c
  <2>1. SUFFICES ASSUME Joins(w, g, s) PROVE w = c
    OBVIOUS
  <2>2. ASSUME NEW i \in 1..Len(w)  PROVE w[i] = c[i]
    <3>1. CASE i \in 1..Len(g)
      BY <1>2, <2>1, <3>1 DEF Joins
    <3>2. CASE i > Len(g)
      <4>1. i - Len(g) \in 1..Len(s) /\ Len(g) + (i - Len(g)) = i
        BY <2>1, <3>2 DEF Joins
      <4>2. QED
        BY <1>2, <2>1, <4>1 DEF Joins
    <3>3. QED
      BY <3>1, <3>2
  <2>3. QED
    BY <1>2, <2>1, <2>2, SeqEqual DEF Joins
<1>4. QED
  BY <1>1, <1>2, <1>3 DEF Joins

LEMMA EndsWithIs ==
  ASSUME NEW V, NEW a \in Seq(V), NEW e \in V, NEW w \in Seq(V)
  PROVE  w = Append(a, e) <=> EndsWith(w, a, e)
<1>1. PICK c : c = Append(a, e)
  OBVIOUS
<1>2. c \in Seq(V) /\ Len(c) = Len(a) + 1 /\ c[Len(a) + 1] = e /\ \A i \in 1..Len(a) : c[i] = a[i]
  BY <1>1
<1>3. EndsWith(w, a, e) => w = c
  <2>1. SUFFICES ASSUME EndsWith(w, a, e) PROVE w = c
    OBVIOUS
  <2>2. ASSUME NEW i \in 1..Len(w)  PROVE w[i] = c[i]
    BY <1>2, <2>1 DEF EndsWith
  <2>3. QED
    BY <1>2, <2>1, <2>2, SeqEqual DEF EndsWith
<1>4. QED
  BY <1>1, <1>2, <1>3 DEF EndsWith

(* As long as something of a response is to come, its end is not there.     *)
LEMMA EndIsLast ==
  ASSUME NEW V, NEW e \in V, NEW t \in Seq(V), NEW g \in Seq(V), NEW s \in Seq(V), NEW r \in Seq(V),
         NEW a \in Seq(V), NEW w \in Seq(V), Joins(w, t, r), Joins(t, g, s), Len(r) > 0, EndsWith(w, a, e), Lacks(a, e)
  PROVE  Lacks(s, e)
<1>1. \A i \in 1..Len(a) : a[i] # e
  BY LacksIs
<1>2. ASSUME NEW i \in 1..Len(s)  PROVE s[i] # e
  <2>1. Len(t) = Len(g) + Len(s) /\ Len(w) = Len(t) + Len(r) /\ Len(w) = Len(a) + 1
    BY DEF Joins, EndsWith
  <2>2. Len(g) + i \in 1..Len(t) /\ Len(g) + i \in 1..Len(a)
    BY <2>1
  <2>3. t[Len(g) + i] = s[i] /\ w[Len(g) + i] = t[Len(g) + i] /\ w[Len(g) + i] = a[Len(g) + i]
    BY <2>2 DEF Joins, EndsWith
  <2>4. QED
    BY <1>1, <2>2, <2>3
<1>3. QED
  BY <1>2, LacksIs

(* When all of it is, what was read before and the lines up to the end are  *)
(* the response.                                                            *)
LEMMA WholeIsThere ==
  ASSUME NEW V, NEW e \in V, NEW g \in Seq(V), NEW s \in Seq(V), NEW a \in Seq(V), NEW w \in Seq(V),
         Joins(w, g, s), EndsWith(w, a, e), Lacks(a, e), Lacks(g, e)
  PROVE  \E b \in Seq(V) : EndsWith(s, b, e) /\ Lacks(b, e) /\ Joins(a, g, b)
<1>1. \A i \in 1..Len(a) : a[i] # e
  BY LacksIs
<1>2. \A i \in 1..Len(g) : g[i] # e
  BY LacksIs
<1>0. Len(g) \in Nat /\ Len(a) \in Nat /\ Len(s) \in Nat
  OBVIOUS
<1>3. Len(w) = Len(g) + Len(s) /\ Len(w) = Len(a) + 1
  BY DEF Joins, EndsWith
<1>4. Len(g) # Len(a) + 1
  <2>1. Len(g) = Len(a) + 1 => Len(g) \in 1..Len(g) /\ w[Len(g)] = e /\ w[Len(g)] = g[Len(g)]
    BY <1>0, <1>3 DEF Joins, EndsWith
  <2>2. QED
    BY <1>2, <2>1
<1>p. PICK n : n = Len(a) - Len(g)
  OBVIOUS
<1>5. n \in Nat /\ Len(s) = n + 1 /\ Len(a) = Len(g) + n
  BY <1>0, <1>3, <1>4, <1>p
<1>6. PICK b : b = SubSeq(s, 1, n)
  OBVIOUS
<1>7. b \in Seq(V) /\ Len(b) = n /\ \A i \in 1..n : b[i] = s[i]
  BY <1>5, <1>6
<1>8. EndsWith(s, b, e)
  <2>1. n + 1 \in 1..Len(s) /\ Len(g) + (n + 1) = Len(a) + 1
    BY <1>5
  <2>2. s[n + 1] = e
    BY <2>1 DEF Joins, EndsWith
  <2>3. QED
    BY <1>5, <1>7, <2>2 DEF EndsWith
<1>9. ASSUME NEW i \in 1..n  PROVE b[i] = a[Len(g) + i] /\ Len(g) + i \in 1..Len(a)
  <2>1. Len(g) + i \in 1..Len(a) /\ i \in 1..Len(s)
    BY <1>0, <1>3, <1>5
  <2>2. w[Len(g) + i] = s[i] /\ w[Len(g) + i] = a[Len(g) + i]
    BY <2>1 DEF Joins, EndsWith
  <2>3. QED
    BY <1>7, <2>1, <2>2
<1>10. Lacks(b, e)
  BY <1>1, <1>7, <1>9, LacksIs
<1>11. Joins(a, g, b)
  <2>1. \A i \in 1..Len(g) : i \in 1..Len(a)
    BY <1>0, <1>3, <1>5
  <2>2. \A i \in 1..Len(g) : w[i] = a[i] /\ w[i] = g[i]
    BY <2>1 DEF Joins, EndsWith
  <2>3. QED
    BY <1>5, <1>7, <1>9, <2>2 DEF Joins
<1>12. QED
  BY <1>7, <1>8, <1>10, <1>11

(* What is before the first e of a sequence.                                *)
CutAt(s, e) == LET I == {i \in 1..Len(s) : s[i] = e}
                   n == IF I # {} THEN S!Min(I) ELSE 0
               IN  IF n = 0 THEN s ELSE SubSeq(s, 1, n - 1)

LEMMA CutAtIs ==
  ASSUME NEW V, NEW s \in Seq(V), NEW e, NEW c, c = CutAt(s, e)
  PROVE  /\ c \in Seq(V) /\ Lacks(c, e) /\ Len(c) <= Len(s)
         /\ \A i \in 1..Len(c) : c[i] = s[i]
         /\ Len(c) < Len(s) => s[Len(c) + 1] = e
<1> DEFINE I == {i \in 1..Len(s) : s[i] = e}
<1>1. CASE I = {}
  <2>1. c = s
    BY <1>1 DEF CutAt
  <2>2. \A i \in 1..Len(s) : s[i] # e
    BY <1>1
  <2>3. QED
    BY <2>1, <2>2, LacksIs
<1>2. CASE I # {}
  <2>1. PICK n \in I : \A m \in I : n <= m
    <3>1. I \in SUBSET Nat
      OBVIOUS
    <3> HIDE DEF I
    <3>2. QED
      BY <1>2, <3>1, LeastNat
  <2>2. n = S!Min(I)
    <3>1. \A m \in I : (\A i \in I : m <= i) => m = n
      <4>1. \A m \in I : m \in Nat
        OBVIOUS
      <4> HIDE DEF I
      <4>2. QED
        BY <2>1, <4>1
    <3> HIDE DEF I
    <3>2. QED
      BY <2>1, <3>1 DEF S!Min
  <2>3. c = SubSeq(s, 1, n - 1)
    <3>1. n # 0
      BY <2>1
    <3>2. CutAt(s, e) = IF S!Min(I) = 0 THEN s ELSE SubSeq(s, 1, S!Min(I) - 1)
      BY <1>2 DEF CutAt
    <3>3. QED
      BY <2>2, <3>1, <3>2, Zenon
  <2>4. n \in 1..Len(s) /\ s[n] = e /\ \A i \in 1..n - 1 : s[i] # e
    <3>1. \A i \in 1..n - 1 : i \notin I
      <4>1. n \in Nat /\ \A i \in I : i \in Nat
        BY <2>1
      <4> HIDE DEF I
      <4>2. QED
        BY <2>1, <4>1
    <3>2. QED
      BY <2>1, <3>1
  <2>5. c \in Seq(V) /\ Len(c) = n - 1 /\ \A i \in 1..n - 1 : c[i] = s[i]
    BY <2>3, <2>4
  <2>6. Lacks(c, e)
    BY <2>4, <2>5, LacksIs
  <2>7. QED
    BY <2>4, <2>5, <2>6
<1>3. QED
  BY <1>1, <1>2

LEMMA CutNowhere ==
  ASSUME NEW V, NEW s \in Seq(V), NEW e, Lacks(s, e)
  PROVE  CutAt(s, e) = s
<1>1. PICK c : c = CutAt(s, e)
  OBVIOUS
<1>2. /\ c \in Seq(V) /\ Len(c) <= Len(s) /\ \A i \in 1..Len(c) : c[i] = s[i]
      /\ Len(c) < Len(s) => s[Len(c) + 1] = e
  BY <1>1, CutAtIs
<1>3. Len(c) = Len(s)
  <2>1. Len(c) \in Nat /\ Len(s) \in Nat
    BY <1>2
  <2>2. \A i \in 1..Len(s) : s[i] # e
    BY LacksIs
  <2>3. Len(c) < Len(s) => Len(c) + 1 \in 1..Len(s)
    BY <2>1
  <2>4. QED
    BY <1>2, <2>1, <2>2, <2>3
<1>4. QED
  BY <1>1, <1>2, <1>3, SeqEqual

LEMMA CutAtEnd ==
  ASSUME NEW V, NEW b \in Seq(V), NEW e \in V, Lacks(b, e)
  PROVE  CutAt(Append(b, e), e) = b
<1>1. PICK c : c = CutAt(Append(b, e), e)
  OBVIOUS
<1>2. PICK s : s = Append(b, e)
  OBVIOUS
<1>3. s \in Seq(V) /\ Len(s) = Len(b) + 1 /\ s[Len(b) + 1] = e /\ \A i \in 1..Len(b) : s[i] = b[i]
  BY <1>2
<1>4. /\ c \in Seq(V) /\ Lacks(c, e) /\ Len(c) <= Len(s) /\ \A i \in 1..Len(c) : c[i] = s[i]
      /\ Len(c) < Len(s) => s[Len(c) + 1] = e
  <2>1. s \in Seq(V) /\ c = CutAt(s, e)
    BY <1>1, <1>2, <1>3
  <2>2. QED
    BY <2>1, CutAtIs
<1>5. \A i \in 1..Len(b) : b[i] # e
  BY LacksIs
<1>6. \A i \in 1..Len(c) : c[i] # e
  BY <1>4, LacksIs
<1>7. Len(c) \in Nat /\ Len(b) \in Nat
  BY <1>4
<1>8. Len(c) # Len(b) + 1
  <2>1. Len(c) = Len(b) + 1 => Len(b) + 1 \in 1..Len(c)
    BY <1>7
  <2>2. QED
    BY <1>3, <1>4, <1>6, <2>1
<1>9. ~(Len(c) < Len(b))
  <2>1. Len(c) < Len(b) => Len(c) + 1 \in 1..Len(b) /\ Len(c) < Len(s)
    BY <1>3, <1>7
  <2>2. QED
    BY <1>3, <1>4, <1>5, <2>1
<1>10. Len(c) = Len(b)
  BY <1>3, <1>4, <1>7, <1>8, <1>9
<1>11. \A i \in 1..Len(c) : c[i] = b[i]
  BY <1>3, <1>4, <1>10
<1>12. QED
  BY <1>1, <1>4, <1>10, <1>11, SeqEqual

(* A line, the one that ends a request or a response, and lines.  A prover   *)
(* does not know that a word is a string: those the server writes are named. *)
End   == ""
Words == {"fragment", "mimetype", "score", "size", "mtime", "name:value", "error", "no valid request"}
Line  == STRING \cup Words \cup {End}
Texts == Seq(Line)

LEMMA EndIsLine == End \in Line
  BY Zenon DEF Line

LEMMA BeforeIsCut == ASSUME NEW s PROVE Before(s) = CutAt(s, End)
  BY Zenon DEF Before, CutAt, End, S!SelectInSeq

LEMMA BeforeIs ==
  ASSUME NEW s \in Texts
  PROVE  Before(s) \in Texts /\ Lacks(Before(s), End) /\ After(s) \in Texts
<1>1. PICK c : c = Before(s)
  OBVIOUS
<1>2. c \in Texts /\ Lacks(c, End) /\ Len(c) <= Len(s)
  <2>1. c = CutAt(s, End)
    BY <1>1, BeforeIsCut
  <2>2. PICK V, e : V = Line /\ e = End
    OBVIOUS
  <2>3. s \in Seq(V) /\ c = CutAt(s, e)
    BY <2>1, <2>2 DEF Texts
  <2>4. c \in Seq(V) /\ Lacks(c, e) /\ Len(c) <= Len(s)
    BY <2>3, CutAtIs
  <2>5. QED
    BY <2>2, <2>4 DEF Texts
<1>3. After(s) = SubSeq(s, Len(c) + 2, Len(s))
  BY <1>1 DEF After
<1>4. SubSeq(s, Len(c) + 2, Len(s)) \in Texts
  BY <1>2 DEF Texts
<1>5. QED
  BY <1>1, <1>2, <1>3, <1>4
LEMMA LacksBoth ==
  ASSUME NEW V, NEW g \in Seq(V), NEW s \in Seq(V), NEW e, Lacks(g, e), Lacks(s, e)
  PROVE  g \o s \in Seq(V) /\ Lacks(g \o s, e)
<1>1. PICK w : w = g \o s
  OBVIOUS
<1>2. w \in Seq(V)
  BY <1>1
<1>3. Joins(w, g, s)
  BY <1>1, <1>2, JoinsIs
<1>4. (\A i \in 1..Len(g) : g[i] # e) /\ \A i \in 1..Len(s) : s[i] # e
  BY LacksIs
<1>5. ASSUME NEW i \in 1..Len(w)  PROVE w[i] # e
  <2>1. CASE i \in 1..Len(g)
    BY <1>3, <1>4, <2>1 DEF Joins
  <2>2. CASE i > Len(g)
    <3>1. i - Len(g) \in 1..Len(s) /\ Len(g) + (i - Len(g)) = i
      BY <1>3, <2>2 DEF Joins
    <3>2. QED
      BY <1>3, <1>4, <3>1 DEF Joins
  <2>3. QED
    BY <2>1, <2>2
<1>6. QED
  BY <1>1, <1>2, <1>5, LacksIs

(* The lines of one hit.                                                    *)
Hit == [uri : STRING \ {End}, props : Nat]

LEMMA HitListsAre == ASSUME NEW hs \in HitLists PROVE hs \in Seq(Hit)
  BY SocketAssumption, Zenon DEF Hit, End

LEMMA WordsAreLines == \A w \in Words : w \in Line /\ w # End
  BY Zenon DEF Words, Line, End

LEMMA HitLinesAre ==
  ASSUME NEW h \in Hit, NEW l, l = HitLines(h)
  PROVE  /\ l \in Texts /\ Lacks(l, End) /\ Len(l) = 6 + h.props
         /\ l[1] = h.uri /\ \A i \in 7..Len(l) : HasColon(l[i])
<1>1. h.uri \in Line /\ h.uri # End /\ h.props \in Nat
  BY DEF Hit, Line
<1>w. PICK w2, w3, w4, w5, w6, w7 :
         /\ w2 = "fragment" /\ w3 = "mimetype" /\ w4 = "score" /\ w5 = "size" /\ w6 = "mtime"
         /\ w7 = "name:value"
  OBVIOUS
<1>x. {w2, w3, w4, w5, w6, w7} \subseteq Line /\ \A w \in {w2, w3, w4, w5, w6, w7} : w # End
  <2>1. {w2, w3, w4, w5, w6, w7} \subseteq Words
    BY <1>w DEF Words
  <2>2. QED
    BY <2>1, WordsAreLines
<1>2. PICK a : a = <<h.uri, w2, w3, w4, w5, w6>>
  OBVIOUS
<1>3. PICK b : b = [i \in 1..h.props |-> w7]
  OBVIOUS
<1>4. a \in Seq(Line) /\ Len(a) = 6 /\ a[1] = h.uri /\ \A i \in 1..6 : a[i] # End
  BY <1>1, <1>x, <1>2
<1>5. b \in Seq(Line) /\ Len(b) = h.props /\ \A i \in 1..h.props : b[i] = w7 /\ b[i] # End
  BY <1>1, <1>x, <1>3
<1>6. Lacks(a, End) /\ Lacks(b, End)
  BY <1>4, <1>5, LacksIs
<1>7. l = a \o b
  BY <1>2, <1>3, <1>w DEF HitLines
<1>8. l \in Texts /\ Lacks(l, End)
  BY <1>4, <1>5, <1>6, <1>7, LacksBoth DEF Texts
<1>9. Joins(l, a, b)
  BY <1>4, <1>5, <1>7, <1>8, JoinsIs DEF Texts
<1>10. ASSUME NEW i \in 7..Len(l)  PROVE HasColon(l[i])
  <2>1. i - 6 \in 1..h.props /\ 6 + (i - 6) = i
    BY <1>1, <1>4, <1>5, <1>9 DEF Joins
  <2>2. l[i] = "name:value"
    <3>1. l[6 + (i - 6)] = b[i - 6]
      BY <1>4, <1>5, <1>9, <2>1 DEF Joins
    <3>2. QED
      BY <1>5, <1>w, <2>1, <3>1
  <2>3. QED
    BY <2>2 DEF HasColon
<1>11. Len(l) = 6 + h.props /\ l[1] = h.uri
  BY <1>4, <1>5, <1>9 DEF Joins
<1>12. QED
  BY <1>8, <1>10, <1>11

(* The lines of a response to a query: those of the first hits, then of the *)
(* next.                                                                    *)
Lists(f, hs) ==
    /\ f \in [0..Len(hs) -> Texts] /\ f[0] = <<>> /\ f[Len(hs)] = QueryLines(hs)
    /\ \A j \in 1..Len(hs) : Joins(f[j], f[j - 1], HitLines(hs[j])) /\ f[j] = f[j - 1] \o HitLines(hs[j])

LEMMA HitsAreListed == ASSUME NEW hs \in Seq(Hit) PROVE \E f : Lists(f, hs)
<1>1. PICK parts : parts = [i \in 1..Len(hs) |-> HitLines(hs[i])]
  OBVIOUS
<1>2. \A i \in 1..Len(hs) : HitLines(hs[i]) \in Texts
  <2>1. \A i \in 1..Len(hs) : hs[i] \in Hit
    OBVIOUS
  <2>2. QED
    BY <2>1, HitLinesAre
<1>3. parts \in Seq(Seq(Line)) /\ Len(parts) = Len(hs) /\ \A i \in 1..Len(hs) : parts[i] = HitLines(hs[i])
  BY <1>1, <1>2 DEF Texts
<1>4. PICK f \in [0..Len(parts) -> Seq(Line)] :
         /\ f[0] = <<>> /\ S!FlattenSeq(parts) = f[Len(parts)]
         /\ \A i \in 1..Len(parts) : f[i] = f[i - 1] \o parts[i]
  BY <1>3, FlatParts
<1>5. QueryLines(hs) = S!FlattenSeq(parts)
  BY <1>1 DEF QueryLines
<1>6. ASSUME NEW j \in 1..Len(hs)
      PROVE  f[j] = f[j - 1] \o HitLines(hs[j]) /\ Joins(f[j], f[j - 1], HitLines(hs[j]))
  <2>1. f[j] = f[j - 1] \o HitLines(hs[j])
    BY <1>3, <1>4
  <2>2. f[j] \in Texts /\ f[j - 1] \in Texts /\ HitLines(hs[j]) \in Texts
    <3>1. j \in 0..Len(hs) /\ j - 1 \in 0..Len(hs)
      OBVIOUS
    <3>2. QED
      BY <1>2, <1>3, <1>4, <3>1 DEF Texts
  <2>3. Joins(f[j], f[j - 1], HitLines(hs[j]))
    BY <2>1, <2>2, JoinsIs DEF Texts
  <2>4. QED
    BY <2>1, <2>3
<1>7. QED
  BY <1>3, <1>4, <1>5, <1>6 DEF Lists, Texts

LEMMA QueryLinesAre == ASSUME NEW hs \in Seq(Hit) PROVE QueryLines(hs) \in Texts /\ Lacks(QueryLines(hs), End)
<1>1. PICK f : Lists(f, hs)
  BY HitsAreListed
<1>2. PICK n \in Nat : n = Len(hs)
  OBVIOUS
<1> DEFINE T == {j \in 0..n : Lacks(f[j], End)}
<1>3. 0 \in T
  BY <1>1, NothingLacking DEF Lists
<1>4. ASSUME NEW j \in 0..n, j \in T, j < n  PROVE j + 1 \in T
  <2>1. j + 1 \in 1..Len(hs) /\ (j + 1) - 1 = j /\ j + 1 \in 0..n
    BY <1>2, <1>4
  <2>2. f[j + 1] = f[j] \o HitLines(hs[j + 1]) /\ f[j] \in Texts
    BY <1>1, <1>2, <2>1 DEF Lists
  <2>3. hs[j + 1] \in Hit
    BY <2>1
  <2>4. HitLines(hs[j + 1]) \in Texts /\ Lacks(HitLines(hs[j + 1]), End)
    BY <2>3, HitLinesAre
  <2>5. Lacks(f[j], End)
    BY <1>4
  <2>6. Lacks(f[j + 1], End)
    BY <2>2, <2>4, <2>5, LacksBoth DEF Texts
  <2>7. QED
    BY <2>1, <2>6
<1> HIDE DEF T
<1>5. n \in T
  <2>1. \A j \in 0..n : j \in T
    BY <1>3, <1>4, InductUp
  <2>2. QED
    BY <2>1
<1>6. QED
  BY <1>1, <1>2, <1>5 DEF T, Lists
(* A function that a step defines from its value at a later place exists.    *)
Falls(h, i, N, G, next, put, v) == h[i] = IF i \in G THEN put[i][h[next[i]]] ELSE v
Backwards(h, m, N, V, G, next, put, v) ==
    h \in [m..N -> V] /\ \A i \in m..N : Falls(h, i, N, G, next, put, v)

LEMMA RecursionDown ==
  ASSUME NEW N \in Nat, NEW V, NEW v \in V, NEW G, NEW next, NEW put \in [0..N -> [V -> V]],
         \A i \in 0..N : i \in G => next[i] \in i + 1..N
  PROVE  \E h : Backwards(h, 0, N, V, G, next, put, v)
<1> DEFINE T == {m \in 0..N : \E h : Backwards(h, N - m, N, V, G, next, put, v)}
<1>1. 0 \in T
  <2>1. PICK h : h = [i \in N..N |-> v]
    OBVIOUS
  <2>2. N \notin G
    <3>1. N + 1..N = {}
      OBVIOUS
    <3>2. QED
      BY <3>1
  <2>3. \A i \in N..N : Falls(h, i, N, G, next, put, v)
    BY <2>1, <2>2 DEF Falls
  <2>4. Backwards(h, N, N, V, G, next, put, v)
    BY <2>1, <2>3 DEF Backwards
  <2>5. N - 0 = N
    OBVIOUS
  <2>6. QED
    BY <2>4, <2>5
<1>2. ASSUME NEW m \in 0..N, m \in T, m < N  PROVE m + 1 \in T
  <2>1. PICK f : Backwards(f, N - m, N, V, G, next, put, v)
    BY <1>2
  <2>2. PICK n \in 0..N : n = N - (m + 1) /\ n + 1 = N - m
    <3>1. N - (m + 1) \in 0..N /\ (N - (m + 1)) + 1 = N - m
      BY <1>2
    <3>2. QED
      BY <3>1
  <2>3. PICK w : w = IF n \in G THEN put[n][f[next[n]]] ELSE v
    OBVIOUS
  <2>4. f \in [n + 1..N -> V] /\ \A i \in n + 1..N : Falls(f, i, N, G, next, put, v)
    BY <2>1, <2>2 DEF Backwards
  <2>5. w \in V
    <3>1. n \in G => f[next[n]] \in V
      BY <2>2, <2>4
    <3>2. QED
      BY <2>2, <2>3, <3>1
  <2>6. PICK h : h = [i \in n..N |-> IF i = n THEN w ELSE f[i]]
    OBVIOUS
  <2>7. h \in [n..N -> V] /\ h[n] = w /\ \A i \in n + 1..N : h[i] = f[i]
    <3>1. \A i \in n + 1..N : i \in n..N /\ i # n
      BY <2>2
    <3>2. n \in n..N /\ \A i \in n..N : i # n => i \in n + 1..N
      BY <2>2
    <3>3. QED
      BY <2>4, <2>5, <2>6, <3>1, <3>2
  <2>8. ASSUME NEW i \in n..N  PROVE Falls(h, i, N, G, next, put, v)
    <3>1. i \in 0..N /\ (i \in G => next[i] \in i + 1..N /\ next[i] \in n + 1..N /\ h[next[i]] = f[next[i]])
      <4>1. i \in 0..N /\ \A j \in i + 1..N : j \in n + 1..N
        BY <2>2
      <4>2. QED
        BY <2>7, <4>1
    <3>2. CASE i = n
      BY <2>3, <2>7, <3>1, <3>2 DEF Falls
    <3>3. CASE i # n
      <4>1. i \in n + 1..N
        BY <2>2, <3>3
      <4>2. f[i] = IF i \in G THEN put[i][f[next[i]]] ELSE v
        BY <2>4, <4>1 DEF Falls
      <4>3. QED
        BY <2>7, <3>1, <4>1, <4>2 DEF Falls
    <3>4. QED
      BY <3>2, <3>3
  <2>9. Backwards(h, n, N, V, G, next, put, v)
    BY <2>7, <2>8 DEF Backwards
  <2>10. m + 1 \in 0..N
    BY <1>2
  <2>11. QED
    BY <2>2, <2>9, <2>10
<1> HIDE DEF T
<1>3. \A m \in 0..N : m \in T
  BY <1>1, <1>2, InductUp
<1>4. N \in T
  BY <1>3
<1>5. QED
  <2>1. N - N = 0
    OBVIOUS
  <2>2. QED
    BY <1>4, <2>1 DEF T

(* The properties of a hit are the lines with a colon from place i on.       *)
PropsEnd(lines, i, k) ==
    /\ \A j \in i + 1..i + k : j <= Len(lines) /\ HasColon(lines[j])
    /\ i + k + 1 > Len(lines) \/ ~HasColon(lines[i + k + 1])
Props(lines, i) == CHOOSE k \in 0..Len(lines) : PropsEnd(lines, i, k)

LEMMA PropsAre ==
  ASSUME NEW lines, NEW n \in Nat, Len(lines) = n, NEW i \in 0..n
  PROVE  Props(lines, i) \in 0..n /\ PropsEnd(lines, i, Props(lines, i)) /\ i + Props(lines, i) <= n
<1> DEFINE T == {k \in 0..n : i + k + 1 > n \/ ~HasColon(lines[i + k + 1])}
<1>1. n - i \in T
  OBVIOUS
<1>2. PICK k \in T : \A m \in T : k <= m
  <2>1. T \in SUBSET Nat
    OBVIOUS
  <2> HIDE DEF T
  <2>2. QED
    BY <1>1, <2>1, LeastNat
<1>3. k \in 0..n /\ k <= n - i
  <2>1. k <= n - i
    BY <1>1, <1>2
  <2>2. QED
    BY <1>2, <2>1
<1>4. ASSUME NEW j \in i + 1..i + k  PROVE j <= n /\ HasColon(lines[j])
  <2>1. PICK m : m = j - i - 1
    OBVIOUS
  <2>2. m \in 0..n /\ m < k /\ i + m + 1 = j /\ j <= n
    BY <1>3, <2>1
  <2>3. m \notin T
    <3>1. m \in T => k <= m
      BY <1>2
    <3>2. k \in Nat /\ m \in Nat
      BY <1>3, <2>2
    <3>3. QED
      BY <2>2, <3>1, <3>2
  <2>4. QED
    BY <2>2, <2>3
<1>5. PropsEnd(lines, i, k)
  BY <1>2, <1>4 DEF PropsEnd
<1>6. PICK p : p = Props(lines, i)
  OBVIOUS
<1>7. p \in 0..n /\ PropsEnd(lines, i, p)
  BY <1>3, <1>5, <1>6 DEF Props
<1>8. i + p <= n
  <2>1. p > 0 => i + p \in i + 1..i + p
    BY <1>7
  <2>2. QED
    BY <1>7, <2>1 DEF PropsEnd
<1>9. QED
  BY <1>6, <1>7, <1>8

LEMMA PropsOnly ==
  ASSUME NEW lines, NEW n \in Nat, Len(lines) = n, NEW i \in 0..n, NEW k \in Nat, PropsEnd(lines, i, k), i + k <= n
  PROVE  Props(lines, i) = k
<1>1. PICK p : p = Props(lines, i)
  OBVIOUS
<1>2. p \in 0..n /\ PropsEnd(lines, i, p) /\ i + p <= n
  BY <1>1, PropsAre
<1>3. ~ p < k
  <2>1. p < k => i + p + 1 \in i + 1..i + k
    BY <1>2
  <2>2. p < k => HasColon(lines[i + p + 1]) /\ i + p + 1 <= n
    BY <2>1 DEF PropsEnd
  <2>3. QED
    BY <1>2, <2>2 DEF PropsEnd
<1>4. ~ k < p
  <2>1. k < p => i + k + 1 \in i + 1..i + p
    BY <1>2
  <2>2. k < p => HasColon(lines[i + k + 1]) /\ i + k + 1 <= n
    BY <1>2, <2>1 DEF PropsEnd
  <2>3. QED
    BY <1>2, <2>2 DEF PropsEnd
<1>5. QED
  BY <1>1, <1>2, <1>3, <1>4
(* getHits() is a function of the place it has come to, as its loop says.    *)
Found(lines, i) == [uri |-> lines[i + 1], props |-> Props(lines, i + 6)]
Loop(h, lines, n) ==
    h = [i \in 0..n |-> IF AnotherHit(i, n) THEN <<Found(lines, i)>> \o h[i + 6 + Props(lines, i + 6)] ELSE <<>>]

LEMMA LoopEnds ==
  ASSUME NEW lines \in Texts, NEW n, n = Len(lines)
  PROVE  \E h : Loop(h, lines, n)
<1> DEFINE Rec == [uri : Line, props : Nat]
<1>0. n \in Nat
  BY DEF Texts
<1>1. PICK G : G = {i \in 0..n : AnotherHit(i, n)}
  OBVIOUS
<1>2. PICK next : next = [i \in 0..n |-> i + 6 + Props(lines, i + 6)]
  OBVIOUS
<1>3. ASSUME NEW i \in G  PROVE next[i] \in i + 1..n /\ Found(lines, i) \in Rec
  <2>1. i \in 0..n /\ i + 6 < n /\ i + 6 \in 0..n /\ i + 1 \in 1..n
    BY <1>0, <1>1 DEF AnotherHit
  <2>2. Props(lines, i + 6) \in 0..n /\ i + 6 + Props(lines, i + 6) <= n
    BY <1>0, <2>1, PropsAre
  <2>3. lines[i + 1] \in Line
    BY <2>1 DEF Texts
  <2>4. next[i] \in i + 1..n
    BY <1>2, <2>1, <2>2
  <2>5. QED
    BY <2>2, <2>3, <2>4 DEF Found
<1>4. PICK V, v : V = Seq(Rec) /\ v = <<>>
  OBVIOUS
<1>5. v \in V /\ \A i \in G, w \in V : <<Found(lines, i)>> \o w \in V
  <2>1. \A i \in G : <<Found(lines, i)>> \in Seq(Rec)
    BY <1>3
  <2>2. QED
    BY <1>4, <2>1, ConcatProperties
<1>6. PICK put : put = [i \in 0..n |-> [w \in V |-> IF i \in G THEN <<Found(lines, i)>> \o w ELSE w]]
  OBVIOUS
<1>7. put \in [0..n -> [V -> V]]
  BY <1>5, <1>6
<1>8. \A i \in 0..n : i \in G => next[i] \in i + 1..n
  BY <1>3
<1>9. PICK h : Backwards(h, 0, n, V, G, next, put, v)
  BY <1>0, <1>5, <1>7, <1>8, RecursionDown
<1>10. ASSUME NEW i \in 0..n
       PROVE  h[i] = IF AnotherHit(i, n) THEN <<Found(lines, i)>> \o h[i + 6 + Props(lines, i + 6)] ELSE <<>>
  <2>1. h[i] = IF i \in G THEN put[i][h[next[i]]] ELSE v
    BY <1>9 DEF Backwards, Falls
  <2>2. CASE i \in G
    <3>1. next[i] \in 0..n
      BY <1>0, <1>3, <2>2
    <3>2. h[next[i]] \in V
      BY <1>9, <3>1 DEF Backwards
    <3>3. put[i][h[next[i]]] = <<Found(lines, i)>> \o h[next[i]]
      BY <1>6, <2>2, <3>2
    <3>4. AnotherHit(i, n) /\ next[i] = i + 6 + Props(lines, i + 6)
      BY <1>1, <1>2, <2>2
    <3>5. QED
      BY <2>1, <2>2, <3>3, <3>4, Zenon
  <2>3. CASE i \notin G
    BY <1>1, <1>4, <2>1, <2>3
  <2>4. QED
    BY <2>2, <2>3
<1>11. h = [i \in 0..n |-> h[i]]
  BY <1>9 DEF Backwards
<1>12. QED
  BY <1>10, <1>11, Zenon DEF Loop

LEMMA ParseIsLoop ==
  ASSUME NEW lines
  PROVE  ParseHits(lines) = (CHOOSE h : Loop(h, lines, Len(lines)))[0]
  BY Zenon DEF ParseHits, Loop, Found, Props, PropsEnd

LEMMA HitsParsed ==
  ASSUME NEW lines \in Texts, NEW n, n = Len(lines)
  PROVE  \E h : /\ ParseHits(lines) = h[0]
                /\ \A i \in 0..n : h[i] = IF AnotherHit(i, n)
                                          THEN <<Found(lines, i)>> \o h[i + 6 + Props(lines, i + 6)] ELSE <<>>
<1>1. PICK h : h = CHOOSE f : Loop(f, lines, n)
  OBVIOUS
<1>2. Loop(h, lines, n)
  BY <1>1, LoopEnds
<1>3. ParseHits(lines) = h[0]
  BY <1>1, ParseIsLoop
<1>4. QED
  BY <1>2, <1>3 DEF Loop
(* A response that is too short for a hit has none.                         *)
LEMMA NoHits ==
  ASSUME NEW lines \in Texts, Len(lines) <= 6
  PROVE  ParseHits(lines) = <<>>
<1>1. PICK n \in Nat : n = Len(lines)
  BY DEF Texts
<1>2. PICK h : /\ ParseHits(lines) = h[0]
               /\ \A i \in 0..n : h[i] = IF AnotherHit(i, n)
                                         THEN <<Found(lines, i)>> \o h[i + 6 + Props(lines, i + 6)] ELSE <<>>
  BY <1>1, HitsParsed
<1>3. ~AnotherHit(0, n) /\ 0 \in 0..n
  BY <1>1 DEF AnotherHit
<1>4. QED
  BY <1>2, <1>3

(* What is listed up to a hit stays there as more is listed.                *)
LEMMA ListedStays ==
  ASSUME NEW hs \in Seq(Hit), NEW f, Lists(f, hs), NEW j \in 0..Len(hs)
  PROVE  \A m \in j..Len(hs) : /\ f[m] \in Texts /\ Len(f[j]) <= Len(f[m])
                               /\ \A i \in 1..Len(f[j]) : f[m][i] = f[j][i]
<1>1. PICK n \in Nat : n = Len(hs)
  OBVIOUS
<1>2. \A m \in 0..n : f[m] \in Texts /\ Len(f[m]) \in Nat
  BY <1>1 DEF Lists, Texts
<1> DEFINE T == {m \in 0..n : m >= j => Len(f[j]) <= Len(f[m]) /\ \A i \in 1..Len(f[j]) : f[m][i] = f[j][i]}
<1>3. 0 \in T
  <2>1. 0 >= j => j = 0
    BY <1>1
  <2>2. QED
    BY <1>1, <1>2, <2>1
<1>4. ASSUME NEW m \in 0..n, m \in T, m < n  PROVE m + 1 \in T
  <2>1. m + 1 \in 1..Len(hs) /\ (m + 1) - 1 = m /\ m + 1 \in 0..n
    BY <1>1, <1>4
  <2>2. Joins(f[m + 1], f[m], HitLines(hs[m + 1]))
    BY <2>1 DEF Lists
  <2>3. Len(HitLines(hs[m + 1])) \in Nat
    <3>1. hs[m + 1] \in Hit
      BY <2>1
    <3>2. HitLines(hs[m + 1]) \in Texts
      BY <3>1, HitLinesAre
    <3>3. QED
      BY <3>2 DEF Texts
  <2>4. Len(f[m]) <= Len(f[m + 1]) /\ \A i \in 1..Len(f[m]) : f[m + 1][i] = f[m][i]
    <3>1. Len(f[m]) \in Nat /\ Len(f[m + 1]) = Len(f[m]) + Len(HitLines(hs[m + 1]))
      BY <1>2, <1>4, <2>2 DEF Joins
    <3>2. \A i \in 1..Len(f[m]) : f[m + 1][i] = f[m][i]
      BY <2>2 DEF Joins
    <3>3. PICK a, b : a = Len(f[m]) /\ b = Len(HitLines(hs[m + 1]))
      OBVIOUS
    <3>4. a \in Nat /\ b \in Nat /\ Len(f[m + 1]) = a + b
      BY <2>3, <3>1, <3>3
    <3>5. a <= Len(f[m + 1])
      BY <3>4
    <3>6. QED
      BY <3>2, <3>3, <3>5
  <2>5. CASE m >= j
    <3>1. Len(f[j]) <= Len(f[m]) /\ \A i \in 1..Len(f[j]) : f[m][i] = f[j][i]
      BY <1>4, <2>5
    <3>2. Len(f[j]) \in Nat /\ Len(f[m]) \in Nat /\ Len(f[m + 1]) \in Nat
      BY <1>1, <1>2, <2>1
    <3>3. Len(f[j]) <= Len(f[m + 1]) /\ \A i \in 1..Len(f[j]) : i \in 1..Len(f[m])
      BY <2>4, <3>1, <3>2
    <3>4. \A i \in 1..Len(f[j]) : f[m + 1][i] = f[j][i]
      BY <2>4, <3>1, <3>3
    <3>5. QED
      BY <2>1, <3>3, <3>4
  <2>6. CASE ~(m >= j)
    <3>1. m + 1 >= j => m + 1 = j
      BY <1>4, <2>6
    <3>2. Len(f[j]) <= Len(f[j])
      BY <1>1, <1>2
    <3>3. QED
      BY <2>1, <3>1, <3>2
  <2>7. QED
    BY <2>5, <2>6
<1> HIDE DEF T
<1>5. \A m \in 0..n : m \in T
  BY <1>3, <1>4, InductUp
<1>6. QED
  <2>1. \A m \in j..Len(hs) : m \in 0..n /\ m >= j
    BY <1>1
  <2>2. QED
    BY <1>2, <1>5, <2>1 DEF T

SixAndMore(p, k, n, q) ==
    /\ n \in Nat /\ q = p + 6 + k /\ 1 \in 1..n /\ p + 1 \in 1..q
    /\ \A i \in p + 7..q : i \in 1..q /\ i - p \in 1..n /\ i - p \in 7..n /\ p + (i - p) = i
LEMMA SixAndMoreIs == \A p \in Nat : \A k \in Nat : SixAndMore(p, k, 6 + k, p + (6 + k))
  BY DEF SixAndMore

(* Where the lines of a hit are in the response.                            *)
LEMMA HitIsAt ==
  ASSUME NEW hs \in Seq(Hit), NEW f, Lists(f, hs), NEW j \in 1..Len(hs), NEW p, p = Len(f[j - 1])
  PROVE  /\ p \in Nat /\ Len(f[j]) = p + 6 + hs[j].props /\ hs[j].props \in Nat
         /\ Len(f[j]) <= Len(QueryLines(hs)) /\ QueryLines(hs)[p + 1] = hs[j].uri
         /\ \A i \in p + 7..Len(f[j]) : HasColon(QueryLines(hs)[i])
<1>1. PICK l : l = HitLines(hs[j])
  OBVIOUS
<1>2. hs[j] \in Hit
  OBVIOUS
<1>3. /\ l \in Texts /\ Len(l) = 6 + hs[j].props
      /\ l[1] = hs[j].uri /\ \A i \in 7..Len(l) : HasColon(l[i])
  BY <1>1, <1>2, HitLinesAre
<1>4. hs[j].props \in Nat
  BY <1>2 DEF Hit
<1>5. j - 1 \in 0..Len(hs) /\ j \in 0..Len(hs) /\ Len(hs) \in j..Len(hs)
  OBVIOUS
<1>6. p \in Nat
  <2>1. f[j - 1] \in Texts
    BY <1>5 DEF Lists
  <2>2. QED
    BY <2>1 DEF Texts
<1>s. PICK q, k, n : q = Len(f[j]) /\ k = hs[j].props /\ n = Len(l)
  OBVIOUS
<1>7. Len(f[j]) = p + Len(l) /\ \A i \in 1..Len(l) : f[j][p + i] = l[i]
  BY <1>1 DEF Lists, Joins
<1>t. p \in Nat /\ k \in Nat /\ n = 6 + k /\ q = p + n
  BY <1>3, <1>4, <1>6, <1>7, <1>s, Zenon
<1>u. /\ n \in Nat /\ q = p + 6 + k /\ 1 \in 1..n /\ p + 1 \in 1..q
      /\ \A i \in p + 7..q : i \in 1..q /\ i - p \in 1..n /\ i - p \in 7..n /\ p + (i - p) = i
  <2>1. SixAndMore(p, k, 6 + k, p + (6 + k))
    BY <1>t, SixAndMoreIs
  <2>2. SixAndMore(p, k, n, q)
    BY <1>t, <2>1, Zenon
  <2>3. QED
    BY <2>2, Zenon DEF SixAndMore
<1>8. QueryLines(hs) = f[Len(hs)]
  BY DEF Lists
<1>9. Len(f[j]) <= Len(QueryLines(hs)) /\ \A i \in 1..Len(f[j]) : QueryLines(hs)[i] = f[j][i]
  BY <1>5, <1>8, ListedStays
<1>10. ASSUME NEW i \in p + 7..Len(f[j])  PROVE HasColon(QueryLines(hs)[i])
  <2>0. i \in p + 7..q
    BY <1>s
  <2>1. i \in 1..q /\ i - p \in 1..n /\ i - p \in 7..n /\ p + (i - p) = i
    BY <1>u, <2>0, Zenon
  <2>2. f[j][i] = l[i - p]
    BY <1>7, <1>s, <2>1
  <2>3. QED
    BY <1>3, <1>9, <1>s, <2>1, <2>2
<1>11. QueryLines(hs)[p + 1] = hs[j].uri
  <2>1. 1 \in 1..n /\ p + 1 \in 1..q
    BY <1>u
  <2>2. QED
    BY <1>3, <1>7, <1>9, <1>s, <2>1
<1>12. Len(f[j]) = p + 6 + hs[j].props
  BY <1>s, <1>u
<1>13. QED
  BY <1>4, <1>6, <1>9, <1>10, <1>11, <1>12

(* What getHits() makes of the lines of a response are the hits in it, when  *)
(* no URI looks like a property and the last hit has one.                   *)
THEOREM HitsRoundTrip ==
  ASSUME NEW hs \in Seq(Hit), Plain(hs)
  PROVE  ParseHits(QueryLines(hs)) = hs
<1>1. PICK N \in Nat : N = Len(hs)
  OBVIOUS
<1>2. PICK lines : lines = QueryLines(hs)
  OBVIOUS
<1>3. lines \in Texts
  BY <1>2, QueryLinesAre
<1>4. PICK n \in Nat : n = Len(lines)
  BY <1>3 DEF Texts
<1>5. PICK f : Lists(f, hs)
  BY HitsAreListed
<1>6. PICK h : /\ ParseHits(lines) = h[0]
               /\ \A i \in 0..n : h[i] = IF AnotherHit(i, n)
                                         THEN <<Found(lines, i)>> \o h[i + 6 + Props(lines, i + 6)] ELSE <<>>
  BY <1>3, <1>4, HitsParsed
<1>7. f[N] = lines /\ f[0] = <<>>
  BY <1>1, <1>2, <1>5 DEF Lists
<1> DEFINE T == {j \in 0..N : h[Len(f[j])] = SubSeq(hs, j + 1, N)}
<1>8. N \in T
  <2>1. ~AnotherHit(n, n) /\ n \in 0..n
    BY DEF AnotherHit
  <2>2. h[n] = <<>>
    BY <1>6, <2>1
  <2>3. SubSeq(hs, N + 1, N) = <<>>
    OBVIOUS
  <2>4. h[Len(f[N])] = SubSeq(hs, N + 1, N)
    BY <1>4, <1>7, <2>2, <2>3, Zenon
  <2>5. QED
    BY <2>4
<1>9. ASSUME NEW j \in 0..N, j < N, j + 1 \in T  PROVE j \in T
  <2>1. PICK p : p = Len(f[j])
    OBVIOUS
  <2>2. PICK q : q = Len(f[j + 1])
    OBVIOUS
  <2>3. PICK k : k = hs[j + 1].props
    OBVIOUS
  <2>4. j + 1 \in 1..Len(hs) /\ (j + 1) - 1 = j
    BY <1>1, <1>9
  <2>5. /\ p \in Nat /\ q = p + 6 + k /\ k \in Nat /\ q <= n /\ lines[p + 1] = hs[j + 1].uri
        /\ \A i \in p + 7..q : HasColon(lines[i])
    BY <1>2, <1>4, <1>5, <2>1, <2>2, <2>3, <2>4, HitIsAt
  <2>6. \/ j + 1 = N /\ q = n /\ k > 0
        \/ q + 6 <= n /\ ~HasColon(lines[q + 1])
    <3>1. CASE j + 1 = N
      <4>1. hs # <<>> /\ hs[Len(hs)].props > 0
        <5>1. hs # <<>>
          BY <2>4
        <5>2. QED
          BY <5>1 DEF Plain
      <4>2. QED
        BY <1>1, <1>4, <1>7, <2>2, <2>3, <3>1, <4>1
    <3>2. CASE j + 1 # N
      <4>1. j + 2 \in 1..Len(hs) /\ (j + 2) - 1 = j + 1
        BY <1>1, <1>9, <3>2
      <4>2. /\ q \in Nat /\ Len(f[j + 2]) = q + 6 + hs[j + 2].props /\ hs[j + 2].props \in Nat
            /\ Len(f[j + 2]) <= n /\ lines[q + 1] = hs[j + 2].uri
        BY <1>2, <1>4, <1>5, <2>2, <4>1, HitIsAt
      <4>3. ~HasColon(hs[j + 2].uri)
        <5>1. DOMAIN hs = 1..Len(hs)
          OBVIOUS
        <5>2. QED
          BY <4>1, <5>1 DEF Plain
      <4>4. q + 6 <= n
        BY <4>2
      <4>5. QED
        BY <4>2, <4>3, <4>4
    <3>3. QED
      BY <3>1, <3>2
  <2>7. AnotherHit(p, n) /\ p \in 0..n /\ p + 6 \in 0..n /\ (p + 6) + k <= n
    BY <2>5, <2>6 DEF AnotherHit
  <2>8. Props(lines, p + 6) = k
    <3>1. \A i \in (p + 6) + 1..(p + 6) + k : i \in p + 7..q /\ i <= n
      BY <2>5
    <3>2. (p + 6) + k + 1 > n \/ ~HasColon(lines[(p + 6) + k + 1])
      <4>1. (p + 6) + k + 1 = q + 1
        BY <2>5
      <4>2. q = n => q + 1 > n
        OBVIOUS
      <4>3. QED
        BY <2>6, <4>1, <4>2
    <3>3. PropsEnd(lines, p + 6, k)
      BY <1>4, <2>5, <3>1, <3>2 DEF PropsEnd
    <3>4. QED
      BY <1>4, <2>5, <2>7, <3>3, PropsOnly
  <2>9. Found(lines, p) = hs[j + 1]
    <3>1. hs[j + 1] \in Hit
      BY <2>4
    <3>2. hs[j + 1] = [uri |-> hs[j + 1].uri, props |-> hs[j + 1].props]
      BY <3>1 DEF Hit
    <3>3. QED
      BY <2>3, <2>5, <2>8, <3>2 DEF Found
  <2>10. h[p] = <<hs[j + 1]>> \o h[q]
    <3>1. p + 6 + Props(lines, p + 6) = q
      BY <2>5, <2>8
    <3>2. h[p] = <<Found(lines, p)>> \o h[p + 6 + Props(lines, p + 6)]
      BY <1>6, <2>7
    <3>3. QED
      BY <2>9, <3>1, <3>2, Zenon
  <2>11. h[q] = SubSeq(hs, (j + 1) + 1, N)
    BY <1>9, <2>2
  <2>12. SubSeq(hs, j + 1, N) = <<hs[j + 1]>> \o SubSeq(hs, (j + 1) + 1, N)
    <3>1. j + 1 \in 1..Len(hs) /\ N \in j + 1..Len(hs)
      BY <1>1, <1>9
    <3>2. QED
      BY <3>1, SubSeqRecursiveFirst
  <2>13. h[p] = SubSeq(hs, j + 1, N)
    BY <2>10, <2>11, <2>12, Zenon
  <2>14. QED
    BY <2>1, <2>13
<1>10. \A j \in 0..N : (\A m \in j + 1..N : m \in T) => j \in T
  <2> HIDE DEF T
  <2>1. QED
    BY <1>8, <1>9
<1>11. 0 \in T
  <2> HIDE DEF T
  <2>1. \A j \in 0..N : j \in T
    BY <1>10, InductDown
  <2>2. QED
    BY <2>1
<1>12. SubSeq(hs, 1, N) = hs
  BY <1>1, SubSeqFull
<1>13. h[0] = hs
  <2>1. Len(f[0]) = 0
    BY <1>7
  <2>2. QED
    BY <1>11, <1>12, <2>1
<1>14. QED
  BY <1>2, <1>6, <1>13
(* The directories a request names, and their list.                         *)
Dirs(D) == IsFiniteSet(D) /\ D \subseteq Line /\ End \notin D

LEMMA ListOfDirs ==
  ASSUME NEW D, Dirs(D), NEW l, l = S!SetToSeq(D)
  PROVE  l \in Texts /\ Lacks(l, End)
<1>1. Cardinality(D) \in Nat /\ ExistsBijection(1..Cardinality(D), D)
  BY FS_CardinalityType DEF Dirs
<1>2. PICK f \in [1..Cardinality(D) -> D] : \A i, j \in 1..Cardinality(D) : f[i] = f[j] => i = j
  BY <1>1 DEF ExistsBijection, Bijection, Injection, IsInjective
<1>3. \E g \in [1..Cardinality(D) -> D] : S!IsInjective(g)
  BY <1>2 DEF S!IsInjective
<1>4. S!Cardinality(D) = Cardinality(D)
  BY DEF S!Cardinality, Cardinality
<1>5. l \in [1..Cardinality(D) -> D]
  <2>1. S!SetToSeq(D) \in [1..Cardinality(D) -> D]
    BY <1>3, <1>4 DEF S!SetToSeq
  <2>2. QED
    BY <2>1
<1>6. l \in Seq(Line) /\ Len(l) = Cardinality(D) /\ \A i \in 1..Cardinality(D) : l[i] \in D
  BY <1>1, <1>5 DEF Dirs
<1>7. \A i \in 1..Len(l) : l[i] # End
  BY <1>6 DEF Dirs
<1>8. QED
  BY <1>6, <1>7, LacksIs DEF Texts

LEMMA DirectoriesAre == ASSUME request \in Texts, Lacks(request, End) PROVE Dirs(Directories)
<1>1. PICK n \in Nat : n = Len(request)
  BY DEF Texts
<1>2. \A i \in 1..n : request[i] \in Line /\ request[i] # End
  BY <1>1, LacksIs DEF Texts
<1>3. PICK f : f = [i \in 2..n |-> request[i]]
  OBVIOUS
<1>4. f \in Surjection(2..n, Directories)
  BY <1>1, <1>3 DEF Surjection, Directories
<1>5. IsFiniteSet(2..n)
  BY FS_Interval
<1>6. IsFiniteSet(Directories)
  BY <1>4, <1>5, FS_Surjection
<1>7. QED
  BY <1>1, <1>2, <1>6 DEF Dirs, Directories

LEMMA OtherResponseIs ==
  ASSUME Dirs(indexed), NEW l, l = OtherResponse
  PROVE  /\ l \in Texts /\ Lacks(l, End)
         /\ request = <<>> \/ request[1] = "query" => Len(l) <= 6
<1>1. PICK w1, w2, w3 : w1 = "name:value" /\ w2 = "error" /\ w3 = "no valid request"
  OBVIOUS
<1>2. {w1, w2, w3} \subseteq Line /\ w1 # End /\ w2 # End /\ w3 # End
  <2>1. {w1, w2, w3} \subseteq Words
    BY <1>1 DEF Words
  <2>2. QED
    BY <2>1, WordsAreLines
<1>3. CASE Is("getIndexedDirectories", 1)
  <2>1. l = S!SetToSeq(indexed)
    BY <1>3 DEF OtherResponse
  <2>2. l \in Texts /\ Lacks(l, End)
    BY <2>1, ListOfDirs
  <2>3. ~(request = <<>> \/ request[1] = "query")
    BY <1>3 DEF Is
  <2>4. QED
    BY <2>2, <2>3
<1>4. CASE ~Is("getIndexedDirectories", 1)
  <2>1. l = <<w1>> \/ l = <<>> \/ l = <<w2, w3>>
    BY <1>1, <1>4 DEF OtherResponse
  <2>2. l \in Seq(Line) /\ Len(l) <= 2 /\ \A i \in 1..Len(l) : l[i] # End
    <3>1. CASE l = <<w1>>
      BY <1>2, <3>1
    <3>2. CASE l = <<>>
      BY <3>2
    <3>3. CASE l = <<w2, w3>>
      BY <1>2, <3>3
    <3>4. QED
      BY <2>1, <3>1, <3>2, <3>3
  <2>3. Len(l) <= 6
    BY <2>2
  <2>4. QED
    BY <2>2, <2>3, LacksIs DEF Texts
<1>5. QED
  BY <1>3, <1>4

(* A request is read from its beginning.                                    *)
LEMMA CallsAreLines == ASSUME NEW r \in Calls PROVE r \in Texts /\ Append(r, End) \in Texts
<1>1. r \in Seq(STRING)
  BY SocketAssumption
<1>2. STRING \subseteq Line
  BY DEF Line
<1>3. r \in Seq(Line)
  BY <1>1, <1>2, SeqMonotonic, Zenon
<1>4. QED
  BY <1>3, EndIsLine DEF Texts

LEMMA RequestBegins ==
  ASSUME NEW r \in Calls, NEW b, b = Before(Append(r, End))
  PROVE  /\ b # <<>> => r # <<>> /\ b[1] = r[1]
         /\ Lacks(r, End) => b = r
<1>1. r \in Texts /\ Append(r, End) \in Texts
  BY CallsAreLines
<1>2. PICK V, e : V = Line /\ e = End
  OBVIOUS
<1>3. PICK s : s = Append(r, e)
  OBVIOUS
<1>4. r \in Seq(V) /\ e \in V /\ s \in Seq(V) /\ b = CutAt(s, e)
  BY <1>1, <1>2, <1>3, EndIsLine, BeforeIsCut DEF Texts
<1>5. b \in Seq(V) /\ Lacks(b, e) /\ Len(b) <= Len(s) /\ \A i \in 1..Len(b) : b[i] = s[i]
  BY <1>4, CutAtIs
<1>6. ASSUME b # <<>>  PROVE r # <<>> /\ b[1] = r[1]
  <2>1. 1 \in 1..Len(b)
    BY <1>5, <1>6, EmptySeq
  <2>2. b[1] # e
    BY <1>5, <2>1, LacksIs
  <2>3. r # <<>>
    BY <1>3, <1>5, <2>1, <2>2
  <2>4. s[1] = r[1]
    BY <1>3, <1>4, <2>3
  <2>5. QED
    BY <1>5, <2>1, <2>3, <2>4
<1>7. ASSUME Lacks(r, e)  PROVE b = r
  BY <1>3, <1>4, <1>7, CutAtEnd
<1>8. QED
  BY <1>2, <1>6, <1>7

--------------------------------------------------------------------------
(* A connection that is in use has all its fields and an end at least.      *)
Fields == {"c2s", "s2c", "client", "server", "reset", "call", "cut", "hits", "answer", "done"}
InUse(k) ==
    /\ k = [x \in Fields |-> k[x]]
    /\ k.client \in BOOLEAN /\ k.server \in BOOLEAN /\ (k.client \/ k.server)
    /\ k.call \in Calls /\ k.cut \in BOOLEAN
Made(cs) == /\ cs = [c \in Conn |-> cs[c]]
            /\ \A c \in Conn : cs[c] = Free \/ InUse(cs[c])

Ends ==
    /\ state = [c \in Client |-> state[c]]
    /\ \A c \in Sync : state[c] \in {"idle", "send", "read", "gone"}
    /\ \A a \in Async : state[a] \in {"Idle", "Writing", "Reading", "Error", "gone"}
    /\ conn \in [Client -> Conn \cup {None}]
    /\ calling = [c \in Client |-> calling[c]]
    /\ fd \in [Async -> Fd \cup {None}] /\ fds \in [Fd -> Conn \cup {None}]
    /\ server \in {"accept", "read", "handle", "send", "left", "dead"}
    /\ serving \in Conn \cup {None} /\ backlog \in Seq(Conn)

(* The server has its end of the connection it serves and of those that     *)
(* wait, each of which waits once.                                          *)
Waiting(c) == c \in S!ToSet(backlog) \/ (c = serving /\ server = "read")
ServerEnds ==
    /\ \A i, j \in 1..Len(backlog) : backlog[i] = backlog[j] => i = j
    /\ \A c \in S!ToSet(backlog) : conns[c].server /\ c # serving
    /\ server \in {"read", "handle", "send"} => serving # None /\ conns[serving].server
    /\ server = "accept" => serving = None

(* A connection is that of one client, which has its end of it; the program  *)
(* with the descriptors has it where it thinks it has, and keeps no other.   *)
ClientEnds ==
    /\ \A c \in Client : conn[c] # None => conns[conn[c]].client
    /\ \A c, d \in Client : conn[c] # None /\ conn[c] = conn[d] => c = d
    /\ \A c \in Sync : conn[c] # None <=> state[c] \in {"send", "read"}
    /\ \A c \in Sync, n \in Fd : conn[c] # None => fds[n] # conn[c]
AsyncEnds ==
    /\ \A a \in Async : conn[a] # None =>
          /\ fd[a] \in Fd /\ fds[fd[a]] = conn[a]
          /\ state[a] \in {"Writing", "Reading", "Error"}
          /\ state[a] = "Error" => ~conns[conn[a]].server
    /\ \A a \in Async : state[a] \in {"Writing", "Reading"} => conn[a] # None
Descriptors ==
    /\ \A m, n \in Fd : fds[m] # None /\ fds[m] = fds[n] => m = n
    /\ \A n \in Fd : fds[n] # None =>
          /\ conns[fds[n]].client
          /\ (\E a \in Async : fd[a] = n /\ conn[a] = fds[n]) \/ ~conns[fds[n]].server

(* Nothing is answered before it is read; a client that is there has sent    *)
(* nothing or all of its request, and one that left before it had sent all   *)
(* of it has cut it.                                                         *)
WholeIn(cs, c) == cs[c].c2s = Append(cs[c].call, "")
Whole(c) == WholeIn(conns, c)
Requesting ==
    /\ \A c \in Conn : conns[c] # Free => (conns[c].cut => ~conns[c].client)
    /\ \A c \in Conn : Waiting(c) =>
          /\ conns[c].s2c = <<>>
          /\ ~conns[c].cut => Whole(c) \/ (conns[c].client /\ conns[c].c2s = <<>>)
    /\ \A c \in Client : state[c] \in {"send", "Writing"} =>
          /\ calling[c] = conns[conn[c]].call
          /\ Waiting(conn[c]) => conns[conn[c]].c2s = <<>>
    /\ \A c \in Client : state[c] \in {"read", "Reading"} /\ Waiting(conn[c]) => Whole(conn[c])

(* What the server handles is what was sent, up to the first empty line.     *)
Handling ==
    /\ server = "handle" /\ ~conns[serving].cut => request = Before(Append(conns[serving].call, ""))
    /\ setBy # None => /\ setBy[1] = "setIndexedDirectories"
                       /\ indexed = S!ToSet(Tail(setBy))

Inv == /\ Made(conns) /\ Ends /\ ServerEnds /\ ClientEnds
       /\ AsyncEnds /\ Descriptors /\ Requesting /\ Handling
SInv == ~stray => Inv

--------------------------------------------------------------------------
(* What is done to a connection                                            *)

LEMMA EmptyIsFree == Free.client = FALSE /\ Free.server = FALSE /\ Free.c2s = <<>> /\ Free.s2c = <<>>
  BY DEF Free

LEMMA MadeIsUsed ==
  ASSUME NEW cs, Made(cs), NEW c \in Conn
  PROVE  cs[c] # Free <=> cs[c].client \/ cs[c].server
  BY EmptyIsFree DEF Made, InUse

LEMMA ClientClosesDoes ==
  ASSUME NEW cs, Made(cs), NEW c \in Conn, cs[c] # Free
  PROVE  /\ Made(ClientCloses(cs, c))
         /\ \A d \in Conn \ {c} : ClientCloses(cs, c)[d] = cs[d]
         /\ ~ClientCloses(cs, c)[c].client /\ ClientCloses(cs, c)[c].server = cs[c].server
         /\ cs[c].server => /\ ClientCloses(cs, c)[c].s2c = <<>>
                            /\ ClientCloses(cs, c)[c].call = cs[c].call
                            /\ ClientCloses(cs, c)[c].cut = cs[c].cut
                            /\ ClientCloses(cs, c)[c].c2s = cs[c].c2s
         /\ ClientCloses(cs, c)[c].c2s \in {<<>>, cs[c].c2s} /\ ClientCloses(cs, c)[c].s2c = <<>>
<1>1. InUse(cs[c])
  BY DEF Made
<1>2. CASE cs[c].server
  <2> DEFINE k == [cs[c] EXCEPT !.client = FALSE, !.s2c = <<>>]
  <2>1. ClientCloses(cs, c) = [cs EXCEPT ![c] = k]
    BY <1>2 DEF ClientCloses, Made
  <2>2. /\ InUse(k) /\ ~k.client /\ k.server /\ k.s2c = <<>>
        /\ k.call = cs[c].call /\ k.cut = cs[c].cut /\ k.c2s = cs[c].c2s
    BY <1>1, <1>2 DEF InUse, Fields
  <2> HIDE DEF k
  <2>3. QED
    BY <1>2, <2>1, <2>2 DEF Made
<1>3. CASE ~cs[c].server
  <2>1. ClientCloses(cs, c) = [cs EXCEPT ![c] = Free]
    BY <1>3 DEF ClientCloses, Made
  <2>2. QED
    BY <1>1, <1>3, <2>1, EmptyIsFree DEF Made, InUse
<1>4. QED
  BY <1>2, <1>3

LEMMA ServerClosesDoes ==
  ASSUME NEW cs, Made(cs), NEW c \in Conn, cs[c] # Free
  PROVE  /\ Made(ServerCloses(cs, c))
         /\ \A d \in Conn \ {c} : ServerCloses(cs, c)[d] = cs[d]
         /\ ~ServerCloses(cs, c)[c].server /\ ServerCloses(cs, c)[c].client = cs[c].client
         /\ cs[c].client => \A x \in Fields \ {"server", "c2s", "reset"} : ServerCloses(cs, c)[c][x] = cs[c][x]
         /\ cs[c].client => ServerCloses(cs, c)[c].call = cs[c].call /\ ServerCloses(cs, c)[c].cut = cs[c].cut
         /\ ServerCloses(cs, c)[c].c2s = <<>> /\ ServerCloses(cs, c)[c].s2c \in {<<>>, cs[c].s2c}
<1>1. InUse(cs[c])
  BY DEF Made
<1>2. CASE cs[c].client
  <2> DEFINE k == [cs[c] EXCEPT !.server = FALSE, !.c2s = <<>>, !.reset = cs[c].reset \/ cs[c].c2s # <<>>]
  <2>1. ServerCloses(cs, c) = [cs EXCEPT ![c] = k]
    BY <1>2 DEF ServerCloses
  <2>2. InUse(k) /\ ~k.server /\ k.client /\ k.call = cs[c].call /\ k.cut = cs[c].cut /\ k.c2s = <<>>
        /\ k.s2c = cs[c].s2c /\ \A x \in Fields \ {"server", "c2s", "reset"} : k[x] = cs[c][x]
    BY <1>1, <1>2 DEF InUse, Fields
  <2> HIDE DEF k
  <2>3. QED
    BY <1>2, <2>1, <2>2 DEF Made
<1>3. CASE ~cs[c].client
  <2>1. ServerCloses(cs, c) = [cs EXCEPT ![c] = Free]
    BY <1>3 DEF ServerCloses, Made
  <2>2. QED
    BY <1>1, <1>3, <2>1, EmptyIsFree DEF Made, InUse
<1>4. QED
  BY <1>2, <1>3

Put(cs, c, f, v) == [cs EXCEPT ![c] = [cs[c] EXCEPT ![f] = v]]

(* Lines that go one way or the other, and a request that is given up.      *)
LEMMA SentIs ==
  ASSUME NEW cs, Made(cs), NEW c \in Conn, NEW lines
  PROVE  Sent(cs, c, lines) = Put(cs, c, "c2s", cs[c].c2s \o lines)
  BY DEF Sent, Made, Put

LEMMA GivesUpDoes ==
  ASSUME NEW cs, Made(cs), NEW c \in Conn, cs[c] # Free
  PROVE  /\ Made(GivesUp(cs, c))
         /\ \A d \in Conn \ {c} : GivesUp(cs, c)[d] = cs[d]
         /\ GivesUp(cs, c)[c].cut
         /\ \A x \in Fields \ {"cut"} : GivesUp(cs, c)[c][x] = cs[c][x]
<1> DEFINE k == [cs[c] EXCEPT !.cut = TRUE]
<1>1. InUse(cs[c])
  BY DEF Made
<1>2. GivesUp(cs, c) = [cs EXCEPT ![c] = k]
  BY DEF GivesUp, Made
<1>3. InUse(k) /\ k.cut /\ \A x \in Fields \ {"cut"} : k[x] = cs[c][x]
  BY <1>1 DEF InUse, Fields
<1> HIDE DEF k
<1>4. QED
  BY <1>2, <1>3 DEF Made

LEMMA NewConnIs ==
  ASSUME NEW r \in Calls
  PROVE  /\ InUse(NewConn(r)) /\ NewConn(r).client /\ NewConn(r).server /\ ~NewConn(r).cut
         /\ NewConn(r).call = r /\ NewConn(r).c2s = <<>> /\ NewConn(r).s2c = <<>> /\ ~NewConn(r).done
  BY DEF NewConn, InUse, Fields

(* The lowest number that is free.                                          *)
LEMMA LowestOf ==
  ASSUME NEW T \in SUBSET Nat, T # {}
  PROVE  Lowest(T) \in T
  BY LeastNat DEF Lowest

LEMMA PutDoes ==
  ASSUME NEW cs, Made(cs), NEW c \in Conn, cs[c] # Free, NEW v,
         NEW f \in {"c2s", "s2c", "answer", "hits", "done"}
  PROVE  /\ Made(Put(cs, c, f, v))
         /\ \A d \in Conn \ {c} : Put(cs, c, f, v)[d] = cs[d]
         /\ Put(cs, c, f, v)[c][f] = v
         /\ \A x \in Fields \ {f} : Put(cs, c, f, v)[c][x] = cs[c][x]
<1> DEFINE k == [cs[c] EXCEPT ![f] = v]
<1>1. InUse(cs[c])
  BY DEF Made
<1>2. InUse(k) /\ k[f] = v /\ \A x \in Fields \ {f} : k[x] = cs[c][x]
  BY <1>1 DEF InUse, Fields
<1>3. Put(cs, c, f, v) = [cs EXCEPT ![c] = k]
  BY DEF Put
<1> HIDE DEF k
<1>4. QED
  BY <1>2, <1>3 DEF Made

--------------------------------------------------------------------------
(* The server's steps: its ends of connections go, the clients' stay, and   *)
(* what still waits was waiting.                                            *)

ServerStep ==
    /\ \A c \in Conn :
          /\ conns'[c].client = conns[c].client
          /\ conns'[c].server => conns[c].server
          /\ conns[c].client => conns'[c].call = conns[c].call /\ conns'[c].cut = conns[c].cut
          /\ Waiting(c)' => Waiting(c) /\ conns'[c] = conns[c]
    /\ UNCHANGED <<clientVars, fdVars>>

LEMMA BusyHasConn ==
  ASSUME Ends, ClientEnds, AsyncEnds, NEW c \in Client,
         state[c] \in {"send", "read", "Writing", "Reading"}
  PROVE  conn[c] # None /\ conn[c] \in Conn
<1>1. conn[c] \in Conn \cup {None}
  BY DEF Ends
<1>2. CASE c \in Sync /\ state[c] \in {"send", "read"}
  BY <1>1, <1>2 DEF ClientEnds
<1>3. CASE c \in Async /\ state[c] \in {"Writing", "Reading"}
  BY <1>1, <1>3 DEF AsyncEnds
<1>4. QED
  BY <1>1, <1>2, <1>3 DEF Client, Ends

LEMMA ServerStepKeeps ==
  ASSUME Inv, Made(conns'), ServerStep
  PROVE  ClientEnds' /\ AsyncEnds' /\ Descriptors' /\ Requesting'
<1>0. Made(conns) /\ Ends /\ ServerEnds /\ ClientEnds /\ AsyncEnds /\ Descriptors /\ Requesting
  BY DEF Inv
<1>1. UNCHANGED <<calling, state, conn, fd, fds>>
  BY DEF ServerStep, clientVars, fdVars
<1>2. ClientEnds'
  BY <1>0, <1>1 DEF ClientEnds, ServerStep, Ends, Client
<1>3. AsyncEnds'
  BY <1>0, <1>1 DEF AsyncEnds, ServerStep, Ends, Client
<1>4. Descriptors'
  BY <1>0, <1>1 DEF Descriptors, ServerStep, Ends
<1>5. Requesting'
  <2>1. ASSUME NEW c \in Conn, conns'[c] # Free, conns'[c].cut PROVE ~conns'[c].client
    <3>1. CASE conns[c].client
      <4>1. conns[c] # Free /\ conns[c].cut
        BY <2>1, <3>1, EmptyIsFree DEF ServerStep
      <4>2. QED
        BY <1>0, <3>1, <4>1 DEF Requesting
    <3>2. CASE ~conns[c].client
      BY <3>2 DEF ServerStep
    <3>3. QED
      BY <3>1, <3>2
  <2>2. ASSUME NEW c \in Conn, Waiting(c)'
        PROVE  /\ conns'[c].s2c = <<>>
               /\ ~conns'[c].cut => Whole(c)' \/ (conns'[c].client /\ conns'[c].c2s = <<>>)
    <3>1. Waiting(c) /\ conns'[c] = conns[c]
      BY <2>2 DEF ServerStep
    <3>2. Whole(c) => Whole(c)'
      BY <3>1 DEF Whole, WholeIn
    <3>3. QED
      BY <1>0, <3>1, <3>2 DEF Requesting
  <2>3. ASSUME NEW c \in Client, state[c] \in {"send", "Writing"}
        PROVE  /\ calling[c] = conns'[conn[c]].call
               /\ Waiting(conn[c])' => conns'[conn[c]].c2s = <<>>
    <3>1. conn[c] # None /\ conn[c] \in Conn
      BY <1>0, <2>3, BusyHasConn
    <3>2. calling[c] = conns[conn[c]].call /\ (Waiting(conn[c]) => conns[conn[c]].c2s = <<>>)
      BY <1>0, <2>3 DEF Requesting
    <3>3. conns[conn[c]].client
      BY <1>0, <3>1 DEF ClientEnds
    <3>4. QED
      BY <1>1, <3>1, <3>2, <3>3 DEF ServerStep
  <2>4. ASSUME NEW c \in Client, state[c] \in {"read", "Reading"}, Waiting(conn[c])'
        PROVE  Whole(conn[c])'
    <3>1. conn[c] # None /\ conn[c] \in Conn
      BY <1>0, <2>4, BusyHasConn
    <3>2. Waiting(conn[c]) /\ conns'[conn[c]] = conns[conn[c]]
      BY <1>1, <2>4, <3>1 DEF ServerStep, Waiting
    <3>3. Whole(conn[c])
      BY <1>0, <2>4, <3>2 DEF Requesting
    <3>4. QED
      BY <1>1, <3>2, <3>3 DEF Whole, WholeIn
  <2>5. QED
    BY <1>1, <2>1, <2>2, <2>3, <2>4 DEF Requesting
<1>6. QED
  BY <1>2, <1>3, <1>4, <1>5

LEMMA AcceptKeeps == ASSUME Inv, Accept PROVE Inv'
<1>0. Made(conns) /\ Ends /\ ServerEnds /\ Handling
  BY DEF Inv
<1>1. /\ serving = None /\ serving' = Head(backlog) /\ backlog' = Tail(backlog) /\ backlog # <<>>
      /\ conns' = conns /\ server' = "read" /\ server = "accept"
      /\ UNCHANGED <<clientVars, fdVars, indexed, setBy>>
  BY <1>0 DEF Accept, ServerEnds
<1>2. /\ serving' \in S!ToSet(backlog) /\ serving' \in Conn /\ backlog' \in Seq(Conn)
      /\ S!ToSet(backlog') \subseteq S!ToSet(backlog) \ {serving'}
      /\ \A i, j \in 1..Len(backlog') : backlog'[i] = backlog'[j] => i = j
  <2>1. /\ Len(backlog) \in Nat \ {0} /\ Len(backlog') = Len(backlog) - 1 /\ backlog[1] = serving'
        /\ DOMAIN backlog = 1..Len(backlog) /\ DOMAIN backlog' = 1..Len(backlog')
        /\ \A i \in 1..Len(backlog') : backlog'[i] = backlog[i + 1]
        /\ backlog' \in Seq(Conn) /\ backlog[1] \in Conn
    BY <1>0, <1>1, HeadTailProperties, EmptySeq DEF Ends
  <2>2. \A i, j \in 1..Len(backlog) : backlog[i] = backlog[j] => i = j
    BY <1>0 DEF ServerEnds
  <2>3. QED
    BY <2>1, <2>2 DEF S!ToSet
<1>3. ServerStep
  BY <1>1, <1>2 DEF ServerStep, Waiting
<1>4. ServerEnds'
  BY <1>0, <1>1, <1>2 DEF ServerEnds
<1>5. Ends' /\ Handling'
  BY <1>0, <1>1, <1>2 DEF Ends, Handling, clientVars, fdVars
<1>6. QED
  BY <1>0, <1>1, <1>3, <1>4, <1>5, ServerStepKeeps DEF Inv

(* The connection that is served is written to, or read from.               *)
LEMMA ServedKeeps ==
  ASSUME Inv, serving \in Conn, Made(conns'),
         \A d \in Conn \ {serving} : conns'[d] = conns[d],
         conns'[serving].client = conns[serving].client,
         conns'[serving].server => conns[serving].server,
         conns[serving].client => conns'[serving].call = conns[serving].call
                                  /\ conns'[serving].cut = conns[serving].cut,
         server' # "read", UNCHANGED <<backlog, clientVars, fdVars>>
  PROVE  ServerStep
<1>0. ServerEnds
  BY DEF Inv
<1>1. ASSUME NEW c \in Conn, Waiting(c)' PROVE Waiting(c) /\ conns'[c] = conns[c]
  <2>1. c \in S!ToSet(backlog)
    BY <1>1 DEF Waiting
  <2>2. QED
    BY <1>0, <2>1 DEF ServerEnds, Waiting
<1>2. QED
  BY <1>1 DEF ServerStep

LEMMA ReadRequestKeeps == ASSUME Inv, ReadRequest PROVE Inv'
<1>0. Made(conns) /\ Ends /\ ServerEnds /\ Requesting /\ Handling
  BY DEF Inv
<1> DEFINE left == After(conns[serving].c2s)
<1>1. /\ server = "read" /\ serving \in Conn /\ conns[serving].server /\ conns[serving] # Free
      /\ server' = "handle" /\ request' = Before(conns[serving].c2s)
      /\ "" \in S!ToSet(conns[serving].c2s) \/ ~conns[serving].client
      /\ UNCHANGED <<backlog, serving, response, indexed, setBy, clientVars, fdVars>>
  BY <1>0, EmptyIsFree DEF ReadRequest, ServerEnds, Ends
<1>2. conns' = Put(conns, serving, "c2s", left)
  BY <1>0, <1>1 DEF ReadRequest, Made, Put
<1> HIDE DEF left
<1>3. /\ Made(conns') /\ \A d \in Conn \ {serving} : conns'[d] = conns[d]
      /\ \A x \in Fields \ {"c2s"} : conns'[serving][x] = conns[serving][x]
  <2>1. /\ Made(Put(conns, serving, "c2s", left))
        /\ \A d \in Conn \ {serving} : Put(conns, serving, "c2s", left)[d] = conns[d]
        /\ \A x \in Fields \ {"c2s"} : Put(conns, serving, "c2s", left)[serving][x] = conns[serving][x]
    <3>1. Made(conns) /\ serving \in Conn /\ conns[serving] # Free
      BY <1>0, <1>1
    <3>2. QED
      BY <3>1, PutDoes
  <2>2. QED
    BY <1>2, <2>1
<1>4. /\ conns'[serving].client = conns[serving].client /\ conns'[serving].server = conns[serving].server
      /\ conns'[serving].call = conns[serving].call /\ conns'[serving].cut = conns[serving].cut
  BY <1>3 DEF Fields
<1>5. ServerStep
  BY <1>1, <1>3, <1>4, ServedKeeps
<1>6. ServerEnds'
  <2>1. \A c \in S!ToSet(backlog) : c \in Conn
    BY <1>0 DEF Ends, S!ToSet
  <2>2. QED
    BY <1>0, <1>1, <1>3, <1>4, <2>1 DEF ServerEnds
<1>7. Ends'
  BY <1>0, <1>1 DEF Ends, clientVars, fdVars
<1>8. Handling'
  <2>1. ASSUME ~conns[serving].cut
        PROVE  conns[serving].c2s = Append(conns[serving].call, "")
    <3>1. Whole(serving) \/ (conns[serving].client /\ conns[serving].c2s = <<>>)
      BY <1>0, <1>1, <2>1 DEF Requesting, Waiting
    <3>2. "" \notin S!ToSet(<<>>)
      BY DEF S!ToSet
    <3>3. Whole(serving)
      BY <1>1, <3>1, <3>2
    <3>4. QED
      BY <3>3 DEF Whole, WholeIn
  <2>2. ~conns'[serving].cut => request' = Before(Append(conns'[serving].call, ""))
    BY <1>1, <1>4, <2>1
  <2>3. QED
    BY <1>0, <1>1, <2>2 DEF Handling
<1>9. QED
  BY <1>3, <1>5, <1>6, <1>7, <1>8, ServerStepKeeps DEF Inv

LEMMA SendResponseKeeps == ASSUME Inv, SendResponse PROVE Inv'
<1>0. Made(conns) /\ Ends /\ ServerEnds /\ Handling
  BY DEF Inv
<1>1. /\ server = "send" /\ serving \in Conn /\ conns[serving].server /\ conns[serving] # Free
      /\ server' \in {"send", "accept"} /\ serving' = (IF server' = "send" THEN serving ELSE None)
      /\ UNCHANGED <<backlog, indexed, setBy, clientVars, fdVars>>
  BY <1>0, EmptyIsFree DEF SendResponse, ServerEnds, Ends
<1>2. /\ Made(conns') /\ \A d \in Conn \ {serving} : conns'[d] = conns[d]
      /\ conns'[serving].client = conns[serving].client
      /\ server' = "send" => conns'[serving].server
      /\ conns[serving].client => conns'[serving].call = conns[serving].call
                                  /\ conns'[serving].cut = conns[serving].cut
  <2>1. PICK lines : \/ server' = "send" /\ conns' = Put(conns, serving, "s2c", lines)
                     \/ /\ server' = "accept"
                        /\ conns' = ServerCloses(Put(Put(conns, serving, "s2c", lines), serving, "done", TRUE), serving)
    <3>1. CASE server' = "send"
      BY <1>0, <1>1, <3>1 DEF SendResponse, Made, Put
    <3>2. CASE server' = "accept"
      <4> DEFINE whole == Append(response, "")
      <4>1. [conns EXCEPT ![serving].s2c = @ \o whole, ![serving].done = TRUE]
            = Put(Put(conns, serving, "s2c", conns[serving].s2c \o whole), serving, "done", TRUE)
        BY <1>0, <1>1 DEF Made, Put
      <4>2. QED
        BY <1>1, <3>2, <4>1 DEF SendResponse
    <3>3. QED
      BY <1>1, <3>1, <3>2
  <2>2. PICK sent : sent = Put(conns, serving, "s2c", lines)
    OBVIOUS
  <2>3. /\ Made(sent) /\ \A d \in Conn \ {serving} : sent[d] = conns[d]
        /\ \A x \in Fields \ {"s2c"} : sent[serving][x] = conns[serving][x]
    <3>1. Made(conns) /\ serving \in Conn /\ conns[serving] # Free
      BY <1>0, <1>1
    <3>2. QED
      BY <2>2, <3>1, PutDoes
  <2>4. /\ sent[serving].client = conns[serving].client /\ sent[serving].server
        /\ sent[serving].call = conns[serving].call /\ sent[serving].cut = conns[serving].cut
    BY <1>1, <2>3 DEF Fields
  <2>t. PICK yes : yes = TRUE
    OBVIOUS
  <2>5. PICK done : done = Put(sent, serving, "done", yes)
    OBVIOUS
  <2>6. /\ Made(done) /\ \A d \in Conn \ {serving} : done[d] = sent[d]
        /\ \A x \in Fields \ {"done"} : done[serving][x] = sent[serving][x]
    <3>1. Made(sent) /\ serving \in Conn /\ sent[serving] # Free
      BY <1>1, <2>3, <2>4, EmptyIsFree
    <3>2. QED
      BY <2>5, <3>1, PutDoes
  <2>7. /\ done[serving].client = conns[serving].client /\ done[serving].server
        /\ done[serving].call = conns[serving].call /\ done[serving].cut = conns[serving].cut
    BY <2>4, <2>6 DEF Fields
  <2>8. CASE server' = "send" /\ conns' = sent
    BY <2>3, <2>4, <2>8
  <2>9. CASE server' = "accept" /\ conns' = ServerCloses(done, serving)
    <3>1. Made(done) /\ serving \in Conn /\ done[serving] # Free
      BY <1>1, <2>6, <2>7, EmptyIsFree
    <3>2. QED
      BY <2>3, <2>6, <2>7, <2>9, <3>1, ServerClosesDoes
  <2>10. QED
    BY <2>1, <2>2, <2>t, <2>5, <2>8, <2>9
<1>3. ServerStep
  BY <1>1, <1>2, ServedKeeps
<1>4. ServerEnds'
  <2>1. \A c \in S!ToSet(backlog) : c \in Conn
    BY <1>0 DEF Ends, S!ToSet
  <2>2. QED
    BY <1>0, <1>1, <1>2, <2>1, SocketAssumption DEF ServerEnds
<1>5. Ends'
  BY <1>0, <1>1 DEF Ends, clientVars, fdVars
<1>6. Handling'
  BY <1>0, <1>1 DEF Handling
<1>7. QED
  BY <1>2, <1>3, <1>4, <1>5, <1>6, ServerStepKeeps DEF Inv

(* A request that was sent whole is read whole unless a line of it is empty, *)
(* and begins as it was sent.                                               *)
LEMMA LinesBefore ==
  ASSUME NEW r \in Calls
  PROVE  /\ Before(Append(r, "")) # <<>> => r # <<>> /\ Before(Append(r, ""))[1] = r[1]
         /\ "" \notin S!ToSet(r) => Before(Append(r, "")) = r
<1>1. PICK b : b = Before(Append(r, End))
  OBVIOUS
<1>2. /\ b # <<>> => r # <<>> /\ b[1] = r[1]
      /\ Lacks(r, End) => b = r
  BY <1>1, RequestBegins
<1>3. QED
  BY <1>1, <1>2, Zenon DEF End, Lacks

LEMMA TailSet ==
  ASSUME NEW T, NEW r \in Seq(T), r # <<>>
  PROVE  S!ToSet(Tail(r)) = {r[i] : i \in 2..Len(r)}
<1>1. /\ Len(r) \in Nat \ {0} /\ Len(Tail(r)) = Len(r) - 1 /\ DOMAIN Tail(r) = 1..Len(Tail(r))
      /\ \A i \in 1..Len(r) - 1 : Tail(r)[i] = r[i + 1]
  BY HeadTailProperties, EmptySeq
<1>2. \A i \in 2..Len(r) : i - 1 \in 1..Len(r) - 1 /\ r[i] = Tail(r)[i - 1]
  BY <1>1
<1>3. \A i \in 1..Len(r) - 1 : i + 1 \in 2..Len(r)
  BY <1>1
<1>4. QED
  BY <1>1, <1>2, <1>3 DEF S!ToSet

LEMMA HandleRequestKeeps == ASSUME Inv, HandleRequest PROVE Inv'
<1>0. Made(conns) /\ Ends /\ ServerEnds /\ Handling
  BY DEF Inv
<1>1. /\ server = "handle" /\ serving \in Conn /\ conns[serving].server /\ conns[serving] # Free
      /\ server' \in {"send", "left"}
      /\ UNCHANGED <<backlog, serving, request, clientVars, fdVars>>
  BY <1>0, EmptyIsFree DEF HandleRequest, ServerEnds, Ends, Respond
<1>2. /\ Made(conns') /\ \A d \in Conn \ {serving} : conns'[d] = conns[d]
      /\ conns'[serving].client = conns[serving].client /\ conns'[serving].server = conns[serving].server
      /\ conns'[serving].call = conns[serving].call /\ conns'[serving].cut = conns[serving].cut
  <2>1. CASE UNCHANGED conns
    BY <1>0, <2>1
  <2>2. CASE \E lines, hits : Respond(lines, hits)
    <3>1. PICK lines, hits : Respond(lines, hits)
      BY <2>2
    <3>2. PICK one : one = Put(conns, serving, "answer", lines)
      OBVIOUS
    <3>3. conns' = Put(one, serving, "hits", hits)
      BY <1>0, <1>1, <3>1, <3>2 DEF Respond, Put, Made
    <3>4. /\ Made(one) /\ \A d \in Conn \ {serving} : one[d] = conns[d]
          /\ \A x \in Fields \ {"answer"} : one[serving][x] = conns[serving][x]
      <4>1. Made(conns) /\ serving \in Conn /\ conns[serving] # Free
        BY <1>0, <1>1
      <4>2. QED
        BY <3>2, <4>1, PutDoes
    <3>5. /\ one[serving].client = conns[serving].client /\ one[serving].server = conns[serving].server
          /\ one[serving].call = conns[serving].call /\ one[serving].cut = conns[serving].cut
      BY <3>4 DEF Fields
    <3>6. /\ Made(conns') /\ \A d \in Conn \ {serving} : conns'[d] = one[d]
          /\ \A x \in Fields \ {"hits"} : conns'[serving][x] = one[serving][x]
      <4>1. Made(one) /\ serving \in Conn /\ one[serving] # Free
        BY <1>1, <3>4, <3>5, EmptyIsFree
      <4>2. QED
        BY <3>3, <4>1, PutDoes
    <3>7. /\ conns'[serving].client = one[serving].client /\ conns'[serving].server = one[serving].server
          /\ conns'[serving].call = one[serving].call /\ conns'[serving].cut = one[serving].cut
      BY <3>6 DEF Fields
    <3>8. QED
      BY <3>4, <3>5, <3>6, <3>7
  <2>3. QED
    BY <2>1, <2>2 DEF HandleRequest
<1>3. ServerStep
  BY <1>1, <1>2, ServedKeeps
<1>4. ServerEnds'
  <2>1. \A c \in S!ToSet(backlog) : c \in Conn
    BY <1>0 DEF Ends, S!ToSet
  <2>2. QED
    BY <1>0, <1>1, <1>2, <2>1 DEF ServerEnds
<1>5. Ends'
  BY <1>0, <1>1 DEF Ends, clientVars, fdVars
<1>6. Handling'
  <2>1. CASE UNCHANGED <<indexed, setBy>>
    BY <1>0, <1>1, <2>1 DEF Handling
  <2>2. CASE /\ IsSet /\ indexed' = Directories
             /\ setBy' = IF conns[serving].cut THEN None ELSE conns[serving].call
    <3>1. CASE conns[serving].cut
      BY <1>1, <2>2, <3>1 DEF Handling
    <3>2. CASE ~conns[serving].cut
      <4>1. PICK r : r = conns[serving].call
        OBVIOUS
      <4>2. r \in Calls /\ r \in Seq(STRING)
        BY <1>0, <1>1, <4>1, SocketAssumption DEF Made, InUse
      <4>3. request = Before(Append(r, "")) /\ request # <<>> /\ request[1] = "setIndexedDirectories"
        BY <1>0, <1>1, <2>2, <3>2, <4>1 DEF Handling, IsSet
      <4>4. r # <<>> /\ r[1] = "setIndexedDirectories"
        BY <4>2, <4>3, LinesBefore, Zenon
      <4>5. request = r
        BY <4>2, <4>3, <4>4, LinesBefore, SocketAssumption, Zenon
      <4>6. indexed' = S!ToSet(Tail(r))
        BY <2>2, <4>2, <4>4, <4>5, TailSet DEF Directories
      <4>7. QED
        BY <1>1, <2>2, <3>2, <4>1, <4>4, <4>6 DEF Handling
    <3>3. QED
      BY <3>1, <3>2
  <2>3. QED
    BY <2>1, <2>2 DEF HandleRequest
<1>7. QED
  BY <1>2, <1>3, <1>4, <1>5, <1>6, ServerStepKeeps DEF Inv

(* The end of run(), and of the process, takes away the server's ends.      *)
LEMMA LeavesKeeps ==
  ASSUME Inv, NEW D \in SUBSET Conn, \A d \in D : conns[d] # Free,
         conns' = [c \in Conn |-> IF c \in D THEN ServerCloses(conns, c)[c] ELSE conns[c]],
         backlog' = <<>>, server' \in {"left", "dead"}, serving' \in {serving, None},
         UNCHANGED <<indexed, setBy, clientVars, fdVars>>
  PROVE  Inv'
<1>0. Made(conns) /\ Ends /\ ServerEnds /\ Handling
  BY DEF Inv
<1>1. ASSUME NEW c \in Conn
      PROVE  /\ conns'[c] = Free \/ InUse(conns'[c])
             /\ conns'[c].client = conns[c].client
             /\ conns'[c].server => conns[c].server
             /\ conns[c].client => conns'[c].call = conns[c].call /\ conns'[c].cut = conns[c].cut
  <2>1. CASE c \in D
    <3>1. conns'[c] = ServerCloses(conns, c)[c] /\ conns[c] # Free
      BY <2>1
    <3>2. PICK cs : cs = ServerCloses(conns, c)
      OBVIOUS
    <3>3. Made(cs) /\ ~cs[c].server /\ cs[c].client = conns[c].client
          /\ (conns[c].client => cs[c].call = conns[c].call /\ cs[c].cut = conns[c].cut)
      BY <1>0, <3>1, <3>2, ServerClosesDoes
    <3>4. QED
      BY <3>1, <3>2, <3>3 DEF Made
  <2>2. CASE c \notin D
    BY <1>0, <2>2 DEF Made
  <2>3. QED
    BY <2>1, <2>2
<1>2. Made(conns')
  BY <1>1 DEF Made
<1>3. ServerStep
  BY <1>1 DEF ServerStep, Waiting, S!ToSet
<1>4. ServerEnds'
  BY DEF ServerEnds, S!ToSet
<1>5. Ends' /\ Handling'
  BY <1>0, EmptySeq DEF Ends, Handling, clientVars, fdVars
<1>6. QED
  BY <1>2, <1>3, <1>4, <1>5, ServerStepKeeps DEF Inv

LEMMA InterruptedKeeps == ASSUME Inv, Interrupted PROVE Inv'
<1>1. Ends /\ ServerEnds
  BY DEF Inv
<1>2. S!ToSet(backlog) \in SUBSET Conn
  BY <1>1 DEF Ends, S!ToSet
<1>3. \A d \in S!ToSet(backlog) : conns[d] # Free
  BY <1>1, EmptyIsFree DEF ServerEnds
<1>4. QED
  BY <1>2, <1>3, LeavesKeeps DEF Interrupted

LEMMA DieKeeps == ASSUME Inv, Die PROVE Inv'
<1>1. PICK D : D = {c \in Conn : conns[c] # Free}
  OBVIOUS
<1>2. conns' = [c \in Conn |-> IF c \in D THEN ServerCloses(conns, c)[c] ELSE conns[c]]
  BY <1>1 DEF Die
<1>3. QED
  BY <1>1, <1>2, LeavesKeeps DEF Die

--------------------------------------------------------------------------
(* The clients' steps: what the server has stays as it is.                  *)

ClientStep(D) ==
    /\ \A c \in D : /\ conns'[c].server = conns[c].server
                    /\ conns[c].server => conns'[c].call = conns[c].call /\ (conns[c].cut => conns'[c].cut)
    /\ UNCHANGED serverVars

LEMMA ClientStepKeeps ==
  ASSUME Inv, ClientStep(Conn), UNCHANGED backlog
  PROVE  ServerEnds' /\ Handling' /\ \A c : Waiting(c)' <=> Waiting(c)
<1>0. Ends /\ ServerEnds /\ Handling
  BY DEF Inv
<1>1. UNCHANGED <<serving, request, server, indexed, setBy, backlog>>
  BY DEF ClientStep, serverVars
<1>2. \A c \in S!ToSet(backlog) : c \in Conn
  BY <1>0 DEF Ends, S!ToSet
<1>3. server \in {"read", "handle", "send"} => serving \in Conn /\ conns[serving].server
  BY <1>0 DEF ServerEnds, Ends
<1>4. ServerEnds'
  BY <1>0, <1>1, <1>2, <1>3 DEF ServerEnds, ClientStep
<1>5. Handling'
  BY <1>0, <1>1, <1>3 DEF Handling, ClientStep
<1>6. QED
  BY <1>1, <1>4, <1>5 DEF Waiting

(* A connection that is free is nobody's.                                   *)
LEMMA FreeIsNobodys ==
  ASSUME Inv, NEW k \in FreeConns
  PROVE  /\ k \in Conn /\ ~conns[k].client /\ ~conns[k].server /\ k \notin S!ToSet(backlog)
         /\ \A c \in Client : conn[c] # k
         /\ \A n \in Fd : fds[n] # k
         /\ Listening => k # serving
<1>1. k \in Conn /\ ~conns[k].client /\ ~conns[k].server /\ k # None
  BY EmptyIsFree, SocketAssumption DEF FreeConns
<1>2. k \notin S!ToSet(backlog) /\ (Listening => k # serving)
  BY <1>1 DEF Inv, ServerEnds, Listening, Ends
<1>3. \A c \in Client : conn[c] # k
  BY <1>1 DEF Inv, ClientEnds
<1>4. \A n \in Fd : fds[n] # k
  BY <1>1 DEF Inv, Descriptors
<1>5. QED
  BY <1>1, <1>2, <1>3, <1>4

LEMMA NewConnKeeps ==
  ASSUME Inv, Listening, NEW k \in FreeConns, NEW r \in Calls, ClientStep(Conn \ {k}),
         conns'[k] = NewConn(r), backlog' = Append(backlog, k)
  PROVE  /\ ServerEnds' /\ Handling' /\ backlog' \in Seq(Conn)
         /\ \A c : Waiting(c)' <=> Waiting(c) \/ c = k
<1>0. Ends /\ ServerEnds /\ Handling
  BY DEF Inv
<1>1. k \in Conn /\ k \notin S!ToSet(backlog) /\ k # serving
  BY FreeIsNobodys
<1>2. UNCHANGED <<serving, request, server, indexed, setBy>>
  BY DEF ClientStep, serverVars
<1>3. /\ backlog' \in Seq(Conn) /\ S!ToSet(backlog') = S!ToSet(backlog) \cup {k}
      /\ \A i, j \in 1..Len(backlog') : backlog'[i] = backlog'[j] => i = j
  <2>1. /\ Len(backlog) \in Nat /\ DOMAIN backlog = 1..Len(backlog)
        /\ backlog' \in Seq(Conn) /\ Len(backlog') = Len(backlog) + 1 /\ DOMAIN backlog' = 1..Len(backlog) + 1
        /\ backlog'[Len(backlog) + 1] = k /\ \A i \in 1..Len(backlog) : backlog'[i] = backlog[i]
    BY <1>0, <1>1 DEF Ends
  <2>2. \A i \in 1..Len(backlog) : backlog[i] # k
    BY <1>1, <2>1 DEF S!ToSet
  <2>3. \A i, j \in 1..Len(backlog) : backlog[i] = backlog[j] => i = j
    BY <1>0 DEF ServerEnds
  <2>4. S!ToSet(backlog') = S!ToSet(backlog) \cup {k}
    BY <2>1 DEF S!ToSet
  <2>5. ASSUME NEW i \in 1..Len(backlog'), NEW j \in 1..Len(backlog'), backlog'[i] = backlog'[j]
        PROVE  i = j
    <3>1. i \in 1..Len(backlog) \/ i = Len(backlog) + 1
      BY <2>1
    <3>2. j \in 1..Len(backlog) \/ j = Len(backlog) + 1
      BY <2>1
    <3>3. QED
      BY <2>1, <2>2, <2>3, <2>5, <3>1, <3>2
  <2>6. QED
    BY <2>1, <2>4, <2>5
<1>4. \A c \in S!ToSet(backlog) : c \in Conn /\ c # k
  BY <1>0, <1>1 DEF Ends, S!ToSet
<1>5. server \in {"read", "handle", "send"} => serving \in Conn \ {k} /\ conns[serving].server
  BY <1>0, <1>1 DEF ServerEnds, Ends
<1>6. ServerEnds'
  BY <1>0, <1>1, <1>2, <1>3, <1>4, <1>5, NewConnIs DEF ServerEnds, ClientStep
<1>7. Handling'
  BY <1>0, <1>2, <1>5 DEF Handling, ClientStep
<1>8. QED
  BY <1>2, <1>3, <1>6, <1>7 DEF Waiting

(* One client's step leaves the others what they have.  It closes, writes to *)
(* or reads from its own connection, or takes a free one.                   *)
Sound(x) ==
    /\ conns[x] # Free => (conns[x].cut => ~conns[x].client)
    /\ Waiting(x) => /\ conns[x].s2c = <<>>
                     /\ ~conns[x].cut => Whole(x) \/ (conns[x].client /\ conns[x].c2s = <<>>)
Mine(c) ==
    /\ conn[c] # None => conns[conn[c]].client
    /\ c \in Sync => (conn[c] # None <=> state[c] \in {"send", "read"})
    /\ c \in Async /\ conn[c] # None =>
          /\ fd[c] \in Fd /\ fds[fd[c]] = conn[c]
          /\ state[c] \in {"Writing", "Reading", "Error"}
          /\ state[c] = "Error" => ~conns[conn[c]].server
    /\ c \in Async /\ state[c] \in {"Writing", "Reading"} => conn[c] # None
    /\ state[c] \in {"send", "Writing"} =>
          /\ calling[c] = conns[conn[c]].call
          /\ Waiting(conn[c]) => conns[conn[c]].c2s = <<>>
    /\ state[c] \in {"read", "Reading"} /\ Waiting(conn[c]) => Whole(conn[c])

OneClient(c) ==
    /\ \A x \in Conn : conns'[x] = conns[x] \/ x = conn[c] \/ x \in FreeConns
    /\ \A x \in Conn : Waiting(x)' => Waiting(x) \/ x \in FreeConns
    /\ \A d \in Client \ {c} : conn'[d] = conn[d] /\ state'[d] = state[d] /\ calling'[d] = calling[d]
    /\ \A a \in Async \ {c} : fd'[a] = fd[a]
    /\ conn'[c] \in {None, conn[c]} \cup FreeConns
    /\ \A n \in Fd : \/ fds'[n] = fds[n]
                     \/ c \in Async /\ fds[n] \in {None, conn[c]} /\ fds'[n] = None
                     \/ c \in Async /\ n = fd'[c] /\ fds'[n] = conn'[c] /\ conn'[c] \in FreeConns
                        /\ fds[n] \in {None, conn[c]}
    /\ \A n \in Fd : conn[c] # None /\ fds'[n] = conn[c] =>
          /\ conns'[conn[c]].client
          /\ (fd'[c] = n /\ conn'[c] = conn[c]) \/ ~conns'[conn[c]].server

LEMMA AllMine ==
  ASSUME Inv
  PROVE  /\ \A c \in Client : Mine(c)
         /\ \A x \in Conn : Sound(x)
<1>0. Ends /\ ClientEnds /\ AsyncEnds /\ Requesting
  BY DEF Inv
<1>1. QED
  BY <1>0 DEF ClientEnds, AsyncEnds, Requesting, Mine, Sound

LEMMA OthersKeep ==
  ASSUME Inv, NEW c \in Client, OneClient(c), Ends', NEW d \in Client \ {c}
  PROVE  Mine(d)'
<1>0. Ends /\ ClientEnds /\ AsyncEnds /\ Requesting /\ Mine(d)
  BY AllMine DEF Inv
<1>1. conn'[d] = conn[d] /\ state'[d] = state[d] /\ calling'[d] = calling[d]
      /\ (d \in Async => fd'[d] = fd[d])
  BY DEF OneClient
<1>2. ASSUME conn[d] # None
      PROVE  /\ conn[d] \in Conn /\ conns'[conn[d]] = conns[conn[d]]
             /\ conns'[conn[d]].client /\ conn[d] # conn[c] /\ conn[d] \notin FreeConns
  <2>1. conn[d] \in Conn /\ conn[d] # conn[c]
    BY <1>0, <1>2 DEF ClientEnds, Ends
  <2>2. conn[d] \notin FreeConns
    BY FreeIsNobodys
  <2>3. QED
    BY <1>0, <1>2, <2>1, <2>2 DEF OneClient, Mine
<1>3. ASSUME d \in Async, conn[d] # None
      PROVE  fd'[d] \in Fd /\ fds'[fd'[d]] = conn[d]
  <2>1. fd[d] \in Fd /\ fds[fd[d]] = conn[d] /\ fd'[d] = fd[d]
    BY <1>0, <1>1, <1>3 DEF Mine
  <2>2. QED
    BY <1>2, <1>3, <2>1 DEF OneClient
<1>4. ASSUME state[d] \in {"send", "Writing"}
      PROVE  /\ calling[d] = conns'[conn[d]].call
             /\ Waiting(conn[d])' => conns'[conn[d]].c2s = <<>>
  <2>1. conn[d] # None
    BY <1>0, <1>4, BusyHasConn
  <2>2. Waiting(conn[d])' => Waiting(conn[d])
    BY <1>2, <2>1 DEF OneClient
  <2>3. QED
    BY <1>0, <1>1, <1>2, <1>4, <2>1, <2>2 DEF Mine, Waiting
<1>5. ASSUME state[d] \in {"read", "Reading"}, Waiting(conn[d])'
      PROVE  Whole(conn[d])'
  <2>1. conn[d] # None
    BY <1>0, <1>5, BusyHasConn
  <2>2. Waiting(conn[d])
    BY <1>1, <1>2, <1>5, <2>1 DEF OneClient, Waiting
  <2>3. Whole(conn[d])
    BY <1>0, <1>5, <2>2 DEF Mine
  <2>4. QED
    BY <1>1, <1>2, <2>1, <2>3 DEF Whole, WholeIn
<1>6. QED
  BY <1>0, <1>1, <1>2, <1>3, <1>4, <1>5 DEF Mine

LEMMA ClientKeeps ==
  ASSUME Inv, NEW c \in Client, OneClient(c), Made(conns'), Ends', ServerEnds', Handling', Mine(c)',
         \A x \in Conn : Sound(x)' \/ (conns'[x] = conns[x] /\ (Waiting(x)' => Waiting(x)))
  PROVE  Inv'
<1>0. Ends /\ ClientEnds /\ AsyncEnds /\ Descriptors /\ Requesting /\ \A d \in Client : Mine(d)
  BY AllMine DEF Inv
<1>1. \A d \in Client : Mine(d)'
  BY OthersKeep
<1>n. conn \in [Client -> Conn \cup {None}] /\ fds \in [Fd -> Conn \cup {None}]
  BY <1>0 DEF Ends
<1>f. \A k \in FreeConns : /\ k \in Conn /\ k # None /\ \A d \in Client : conn[d] # k
                           /\ \A n \in Fd : fds[n] # k
  BY FreeIsNobodys, SocketAssumption
<1>2. ClientEnds'
  <2>1. \A d \in Client : conn'[d] # None => conns'[conn'[d]].client
    BY <1>1 DEF Mine
  <2>2. \A d \in Sync : conn'[d] # None <=> state'[d] \in {"send", "read"}
    BY <1>1 DEF Mine, Client
  <2>3. ASSUME NEW d \in Client, NEW e \in Client, conn'[d] # None, conn'[d] = conn'[e]
        PROVE  d = e
    <3>1. \A x \in Client : x # c => conn'[x] = conn[x]
      BY DEF OneClient
    <3>2. conn'[c] \in {None, conn[c]} \cup FreeConns
      BY DEF OneClient
    <3>3. \A x, y \in Client : conn[x] # None /\ conn[x] = conn[y] => x = y
      BY <1>0 DEF ClientEnds
    <3>4. QED
      BY <1>f, <2>3, <3>1, <3>2, <3>3
  <2>4. ASSUME NEW d \in Sync, NEW n \in Fd, conn'[d] # None
        PROVE  fds'[n] # conn'[d]
    <3>1. \A x \in Sync : conn[x] # None => fds[n] # conn[x]
      BY <1>0 DEF ClientEnds
    <3>2. d \in Client
      BY DEF Client
    <3>3. CASE d = c
      <4>1. fds'[n] = fds[n]
        BY <3>3, SocketAssumption DEF OneClient
      <4>2. conn'[c] = conn[c] \/ conn'[c] \in FreeConns
        BY <2>4, <3>3 DEF OneClient
      <4>3. QED
        BY <1>f, <2>4, <3>1, <3>3, <4>1, <4>2
    <3>4. CASE d # c
      <4>1. conn'[d] = conn[d]
        BY <3>2, <3>4 DEF OneClient
      <4>2. fds'[n] = fds[n] \/ fds'[n] = None \/ fds'[n] \in FreeConns
        BY DEF OneClient
      <4>3. QED
        BY <1>f, <2>4, <3>1, <3>2, <4>1, <4>2
    <3>5. QED
      BY <3>3, <3>4
  <2>5. QED
    BY <2>1, <2>2, <2>3, <2>4 DEF ClientEnds
<1>3. AsyncEnds'
  BY <1>1 DEF AsyncEnds, Mine, Client
<1>4. Descriptors'
  <2>1. ASSUME NEW m \in Fd, NEW n \in Fd, fds'[m] # None, fds'[m] = fds'[n]
        PROVE  m = n
    <3>1. \A x \in {m, n} : \/ fds'[x] = fds[x]
                            \/ x = fd'[c] /\ fds'[x] \in FreeConns
      BY <2>1 DEF OneClient
    <3>2. fds[m] # None /\ fds[m] = fds[n] => m = n
      BY <1>0 DEF Descriptors
    <3>3. QED
      BY <1>f, <2>1, <3>1, <3>2
  <2>2. ASSUME NEW n \in Fd, fds'[n] # None
        PROVE  /\ conns'[fds'[n]].client
               /\ (\E a \in Async : fd'[a] = n /\ conn'[a] = fds'[n]) \/ ~conns'[fds'[n]].server
    <3>1. CASE fds'[n] = conn[c] /\ conn[c] # None
      <4>1. conns'[conn[c]].client /\ ((fd'[c] = n /\ conn'[c] = conn[c]) \/ ~conns'[conn[c]].server)
        BY <3>1 DEF OneClient
      <4>2. c \in Sync => fds'[n] = fds[n] /\ fds[n] # conn[c]
        BY <1>0, <3>1, SocketAssumption DEF OneClient, ClientEnds
      <4>3. c \in Async
        BY <3>1, <4>2 DEF Client
      <4>4. QED
        BY <3>1, <4>1, <4>3
    <3>2. CASE fds'[n] = fds[n] /\ fds[n] # conn[c]
      <4>1. /\ conns[fds[n]].client
            /\ (\E a \in Async : fd[a] = n /\ conn[a] = fds[n]) \/ ~conns[fds[n]].server
        BY <1>0, <2>2, <3>2 DEF Descriptors
      <4>2. fds[n] \in Conn /\ fds[n] \notin FreeConns
        BY <1>n, <1>f, <2>2, <3>2
      <4>3. conns'[fds[n]] = conns[fds[n]]
        BY <3>2, <4>2 DEF OneClient
      <4>4. \A a \in Async : conn[a] = fds[n] => a # c /\ fd'[a] = fd[a] /\ conn'[a] = conn[a]
        BY <3>2 DEF OneClient, Client
      <4>5. QED
        BY <3>2, <4>1, <4>3, <4>4
    <3>3. CASE c \in Async /\ n = fd'[c] /\ fds'[n] = conn'[c]
      BY <1>1, <2>2, <3>3 DEF Mine
    <3>4. QED
      BY <2>2, <3>1, <3>2, <3>3 DEF OneClient
  <2>3. QED
    BY <2>1, <2>2 DEF Descriptors
<1>5. Requesting'
  <2>1. \A x \in Conn : Sound(x)
    BY AllMine
  <2>2. ASSUME NEW x \in Conn PROVE Sound(x)'
    <3>1. CASE conns'[x] = conns[x] /\ (Waiting(x)' => Waiting(x))
      BY <2>1, <3>1 DEF Sound, Waiting, Whole, WholeIn
    <3>2. QED
      BY <3>1
  <2>3. QED
    BY <1>1, <2>2 DEF Requesting, Sound, Mine
<1>6. QED
  BY <1>2, <1>3, <1>4, <1>5 DEF Inv

LEMMA UnchangedKeeps ==
  ASSUME Inv, UNCHANGED <<conns, backlog, serving, request, server, indexed, setBy,
                          calling, state, conn, fd, fds>>
  PROVE  Inv'
<1>0. Made(conns) /\ Ends /\ ServerEnds /\ ClientEnds /\ AsyncEnds /\ Descriptors /\ Requesting /\ Handling
  BY DEF Inv
<1>1. Made(conns') /\ Ends' /\ ServerEnds' /\ Handling'
  BY <1>0 DEF Made, Ends, ServerEnds, Handling
<1>2. ClientEnds' /\ AsyncEnds' /\ Descriptors'
  BY <1>0 DEF ClientEnds, AsyncEnds, Descriptors
<1>3. Requesting'
  BY <1>0 DEF Requesting, Waiting, Whole, WholeIn
<1>4. QED
  BY <1>1, <1>2, <1>3 DEF Inv

LEMMA LowestFree == FreeConns # {} => Lowest(FreeConns) \in FreeConns
<1>0. MaxConn \in Nat
  BY SocketAssumption
<1>1. Conn \in SUBSET Nat
  BY <1>0 DEF Conn
<1>2. FreeConns \in SUBSET Nat
  BY <1>1 DEF FreeConns
<1>3. QED
  BY <1>2, LowestOf

LEMMA TakenDoes ==
  ASSUME NEW cs, Made(cs), NEW k \in Conn, NEW r \in Calls
  PROVE  /\ Made([cs EXCEPT ![k] = NewConn(r)])
         /\ [cs EXCEPT ![k] = NewConn(r)][k] = NewConn(r)
         /\ \A x \in Conn \ {k} : [cs EXCEPT ![k] = NewConn(r)][x] = cs[x]
<1>1. PICK one : one = NewConn(r)
  OBVIOUS
<1>2. InUse(one)
  BY <1>1, NewConnIs
<1>3. QED
  BY <1>1, <1>2 DEF Made

(* What a client has under way is in use, and what it can read at the end of *)
(* is not waiting for the server any more.                                  *)
LEMMA BusyIsUsed ==
  ASSUME Inv, NEW c \in Client, conn[c] # None
  PROVE  /\ conn[c] \in Conn /\ conns[conn[c]].client /\ conns[conn[c]] # Free /\ conn[c] \notin FreeConns
         /\ ~conns[conn[c]].cut /\ conns[conn[c]].call \in Calls
         /\ Waiting(conn[c]) => conns[conn[c]].server /\ conns[conn[c]].s2c = <<>>
<1>0. Made(conns) /\ Ends /\ ServerEnds /\ ClientEnds /\ Requesting
  BY DEF Inv
<1>1. conn[c] \in Conn /\ conns[conn[c]].client
  BY <1>0 DEF Ends, ClientEnds
<1>2. conns[conn[c]] # Free /\ conn[c] \notin FreeConns
  BY <1>1, EmptyIsFree DEF FreeConns
<1>3. ~conns[conn[c]].cut /\ conns[conn[c]].call \in Calls
  BY <1>0, <1>1, <1>2 DEF Requesting, Made, InUse
<1>4. Waiting(conn[c]) => conns[conn[c]].server /\ conns[conn[c]].s2c = <<>>
  BY <1>0, <1>1 DEF Requesting, ServerEnds, Waiting
<1>5. QED
  BY <1>1, <1>2, <1>3, <1>4

LEMMA CallKeeps == ASSUME Inv, NEW c \in Sync, NEW r \in Calls, Call(c, r) PROVE Inv'
<1>0. Made(conns) /\ Ends /\ ServerEnds /\ ClientEnds /\ AsyncEnds /\ Descriptors /\ Requesting /\ Handling
  BY DEF Inv
<1>1. /\ state[c] = "idle" /\ conn[c] = None /\ c \in Client
      /\ UNCHANGED <<serving, request, server, indexed, setBy, fd, fds>> /\ UNCHANGED serverVars
  BY <1>0 DEF Call, SyncUnchanged, ClientEnds, Client, serverVars, fdVars
<1>2. CASE ~Listening
  <2>1. UNCHANGED <<conns, backlog, conn, state, calling>>
    BY <1>2 DEF Call
  <2>2. QED
    BY <1>1, <2>1, UnchangedKeeps
<1>3. CASE Listening
  <2>1. PICK k : k = Lowest(FreeConns)
    OBVIOUS
  <2>2. /\ k \in FreeConns /\ conns' = [conns EXCEPT ![k] = NewConn(r)] /\ backlog' = Append(backlog, k)
        /\ conn' = [conn EXCEPT ![c] = k] /\ state' = [state EXCEPT ![c] = "send"]
        /\ calling' = [calling EXCEPT ![c] = r]
    BY <1>3, <2>1, LowestFree DEF Call
  <2>3. k \in Conn /\ k # None
    BY <2>2, SocketAssumption DEF FreeConns
  <2>4. Made(conns') /\ conns'[k] = NewConn(r) /\ \A x \in Conn \ {k} : conns'[x] = conns[x]
    <3>1. Made(conns) /\ k \in Conn /\ r \in Calls
      BY <1>0, <2>3
    <3>2. /\ Made([conns EXCEPT ![k] = NewConn(r)])
          /\ [conns EXCEPT ![k] = NewConn(r)][k] = NewConn(r)
          /\ \A x \in Conn \ {k} : [conns EXCEPT ![k] = NewConn(r)][x] = conns[x]
      BY <3>1, TakenDoes
    <3>3. QED
      BY <2>2, <3>2
  <2>5. ClientStep(Conn \ {k})
    BY <1>1, <2>4 DEF ClientStep
  <2>6. /\ ServerEnds' /\ Handling' /\ backlog' \in Seq(Conn)
        /\ \A x : Waiting(x)' <=> Waiting(x) \/ x = k
    BY <1>3, <2>2, <2>4, <2>5, NewConnKeeps
  <2>7. /\ conn'[c] = k /\ state'[c] = "send" /\ calling'[c] = r
        /\ \A d \in Client \ {c} : conn'[d] = conn[d] /\ state'[d] = state[d] /\ calling'[d] = calling[d]
    BY <1>0, <1>1, <2>2 DEF Ends
  <2>8. Ends'
    <3>1. conn' \in [Client -> Conn \cup {None}]
      BY <1>0, <2>2, <2>3 DEF Ends
    <3>2. /\ \A d \in Sync : state'[d] \in {"idle", "send", "read", "gone"}
          /\ \A a \in Async : state'[a] \in {"Idle", "Writing", "Reading", "Error", "gone"}
      BY <1>0, <2>7, SocketAssumption DEF Ends, Client
    <3>3. QED
      BY <1>0, <1>1, <2>2, <2>6, <3>1, <3>2 DEF Ends
  <2>9. Sound(k)' /\ Mine(c)'
    <3>1. c \notin Async
      BY SocketAssumption
    <3>2. conns'[k].client /\ ~conns'[k].cut /\ conns'[k].s2c = <<>> /\ conns'[k].c2s = <<>> /\ conns'[k].call = r
      BY <2>4, NewConnIs
    <3>3. QED
      BY <2>3, <2>7, <3>1, <3>2 DEF Sound, Mine
  <2>10. OneClient(c)
    BY <1>1, <2>2, <2>4, <2>6, <2>7, SocketAssumption DEF OneClient
  <2>11. \A x \in Conn : Sound(x)' \/ (conns'[x] = conns[x] /\ (Waiting(x)' => Waiting(x)))
    <3>1. ASSUME NEW x \in Conn PROVE Sound(x)' \/ (conns'[x] = conns[x] /\ (Waiting(x)' => Waiting(x)))
      <4>1. CASE x = k
        BY <2>9, <4>1 DEF Sound, Waiting
      <4>2. CASE x # k
        BY <2>4, <2>6, <4>2
      <4>3. QED
        BY <4>1, <4>2
    <3>2. QED
      BY <3>1
  <2>12. QED
    BY <1>1, <2>4, <2>6, <2>8, <2>9, <2>10, <2>11, ClientKeeps
<1>4. QED
  BY <1>2, <1>3

(* A client's step on the connection it has.                                *)
LEMMA OwnStepKeeps ==
  ASSUME Inv, NEW c \in Client, NEW k, conn[c] = k, k # None, Made(conns'), Ends', Mine(c)', Sound(k)',
         \A x \in Conn \ {k} : conns'[x] = conns[x],
         conns'[k].server = conns[k].server,
         conns[k].server => conns'[k].call = conns[k].call,
         UNCHANGED backlog, UNCHANGED serverVars,
         \A d \in Client \ {c} : conn'[d] = conn[d] /\ state'[d] = state[d] /\ calling'[d] = calling[d],
         \A a \in Async \ {c} : fd'[a] = fd[a],
         conn'[c] \in {None, k},
         \A n \in Fd : fds'[n] = fds[n] \/ (c \in Async /\ fds[n] \in {None, k} /\ fds'[n] = None),
         \A n \in Fd : fds'[n] = k =>
            /\ conns'[k].client
            /\ (fd'[c] = n /\ conn'[c] = k) \/ ~conns'[k].server
  PROVE  Inv'
<1>1. k \in Conn /\ ~conns[k].cut
  BY BusyIsUsed
<1>2. ClientStep(Conn)
  BY <1>1 DEF ClientStep
<1>3. ServerEnds' /\ Handling' /\ \A x : Waiting(x)' <=> Waiting(x)
  BY <1>2, ClientStepKeeps
<1>4. OneClient(c)
  BY <1>1, <1>3 DEF OneClient
<1>5. \A x \in Conn : Sound(x)' \/ (conns'[x] = conns[x] /\ (Waiting(x)' => Waiting(x)))
  <2>1. ASSUME NEW x \in Conn PROVE Sound(x)' \/ (conns'[x] = conns[x] /\ (Waiting(x)' => Waiting(x)))
    <3>1. CASE x = k
      BY <3>1 DEF Sound, Waiting
    <3>2. CASE x # k
      BY <1>3, <3>2
    <3>3. QED
      BY <3>1, <3>2
  <2>2. QED
    BY <2>1
<1>6. QED
  BY <1>3, <1>4, <1>5, ClientKeeps

(* A request, sent on a connection nothing was sent on.                     *)
LEMMA FirstRequest == ASSUME NEW r \in Calls PROVE <<>> \o Append(r, "") = Append(r, "")
<1>1. PICK s : s = Append(r, End)
  OBVIOUS
<1>2. s \in Texts
  BY <1>1, CallsAreLines
<1>3. <<>> \o s = s
  BY <1>2, ConcatEmptySeq DEF Texts
<1>4. QED
  BY <1>1, <1>3, Zenon DEF End

LEMMA SendKeeps == ASSUME Inv, NEW c \in Sync, Send(c) PROVE Inv'
<1>0. Made(conns) /\ Ends /\ ClientEnds /\ AsyncEnds /\ Descriptors /\ Requesting
  BY DEF Inv
<1>1. /\ state[c] = "send" /\ c \in Client /\ c \notin Async /\ conn[c] # None
      /\ UNCHANGED <<backlog, calling, conn, fd, fds>> /\ UNCHANGED serverVars
      /\ state' = [state EXCEPT ![c] = "read"]
  BY <1>0, SocketAssumption DEF Send, SyncUnchanged, ClientEnds, Client, fdVars
<1>2. /\ conn[c] \in Conn /\ conns[conn[c]].client /\ conns[conn[c]] # Free /\ ~conns[conn[c]].cut
      /\ conns[conn[c]].call \in Calls
      /\ Waiting(conn[c]) => conns[conn[c]].server /\ conns[conn[c]].s2c = <<>>
  BY <1>1, BusyIsUsed
<1>3. /\ calling[c] = conns[conn[c]].call
      /\ Waiting(conn[c]) => conns[conn[c]].c2s = <<>>
  BY <1>0, <1>1 DEF Requesting
<1>k. PICK k : k = conn[c]
  OBVIOUS
<1>4. /\ Made(conns') /\ \A x \in Conn \ {k} : conns'[x] = conns[x]
      /\ \A x \in Fields \ {"c2s"} : conns'[k][x] = conns[k][x]
      /\ conns[k].server => conns'[k].c2s = conns[k].c2s \o Append(calling[c], "")
  <2>1. CASE conns[k].server
    <3>1. PICK lines : lines = conns[k].c2s \o Append(calling[c], "")
      OBVIOUS
    <3>2. conns' = Put(conns, k, "c2s", lines)
      BY <1>0, <1>2, <1>k, <2>1, <3>1, SentIs DEF Send
    <3>3. /\ Made(Put(conns, k, "c2s", lines))
          /\ \A x \in Conn \ {k} : Put(conns, k, "c2s", lines)[x] = conns[x]
          /\ Put(conns, k, "c2s", lines)[k]["c2s"] = lines
          /\ \A x \in Fields \ {"c2s"} : Put(conns, k, "c2s", lines)[k][x] = conns[k][x]
      <4>1. Made(conns) /\ k \in Conn /\ conns[k] # Free
        BY <1>0, <1>2, <1>k
      <4>2. QED
        BY <4>1, PutDoes
    <3>4. QED
      BY <3>1, <3>2, <3>3
  <2>2. CASE ~conns[k].server
    BY <1>0, <1>k, <2>2 DEF Send
  <2>3. QED
    BY <2>1, <2>2
<1>5. /\ conns'[k].client = conns[k].client /\ conns'[k].server = conns[k].server
      /\ conns'[k].call = conns[k].call /\ conns'[k].cut = conns[k].cut /\ conns'[k].s2c = conns[k].s2c
  BY <1>4 DEF Fields
<1>6. state'[c] = "read" /\ \A d \in Client \ {c} : state'[d] = state[d]
  BY <1>0, <1>1 DEF Ends
<1>7. Ends'
  <2>1. /\ \A d \in Sync : state'[d] \in {"idle", "send", "read", "gone"}
        /\ \A a \in Async : state'[a] \in {"Idle", "Writing", "Reading", "Error", "gone"}
    BY <1>0, <1>1, <1>6 DEF Ends, Client
  <2>2. UNCHANGED <<server, serving>>
    BY <1>1 DEF serverVars
  <2>3. QED
    BY <1>0, <1>1, <2>1, <2>2 DEF Ends
<1>w. Waiting(k) => Whole(k)'
  <2>1. ASSUME Waiting(k)
        PROVE  conns'[k].c2s = Append(conns'[k].call, "")
    <3>1. conns'[k].c2s = <<>> \o Append(calling[c], "")
      BY <1>2, <1>3, <1>4, <1>k, <2>1
    <3>2. QED
      BY <1>2, <1>3, <1>5, <1>k, <3>1, FirstRequest
  <2>2. QED
    BY <2>1 DEF Whole, WholeIn
<1>8. Sound(k)'
  <2>1. UNCHANGED <<backlog, serving, server, conn>>
    BY <1>1 DEF serverVars
  <2>2. QED
    BY <1>2, <1>5, <1>k, <1>w, <2>1 DEF Sound, Waiting
<1>9. Mine(c)'
  <2>1. UNCHANGED <<backlog, serving, server, conn>>
    BY <1>1 DEF serverVars
  <2>2. Waiting(conn[c])' => Waiting(k) /\ conn'[c] = k
    BY <1>k, <2>1 DEF Waiting
  <2>3. QED
    BY <1>1, <1>2, <1>5, <1>6, <1>k, <1>w, <2>2 DEF Mine
<1>10. \A n \in Fd : fds'[n] # k
  BY <1>0, <1>1, <1>k DEF ClientEnds
<1>11. QED
  BY <1>1, <1>4, <1>5, <1>6, <1>7, <1>8, <1>9, <1>10, <1>k, OwnStepKeeps

LEMMA ReadKeeps == ASSUME Inv, NEW c \in Sync, Read(c) PROVE Inv'
<1>0. Made(conns) /\ Ends /\ ClientEnds
  BY DEF Inv
<1>1. /\ state[c] = "read" /\ c \in Client /\ c \notin Async /\ conn[c] # None
      /\ UNCHANGED <<backlog, fd, fds>> /\ UNCHANGED serverVars
  BY <1>0, SocketAssumption DEF Read, SyncUnchanged, ClientEnds, Client, fdVars
<1>k. PICK k : k = conn[c]
  OBVIOUS
<1>2. /\ k \in Conn /\ k # None /\ conns[k].client /\ conns[k] # Free /\ ~conns[k].cut
      /\ Waiting(k) => conns[k].server /\ conns[k].s2c = <<>>
  BY <1>1, <1>k, BusyIsUsed
<1>3. \/ /\ conns' = ClientCloses(conns, k) /\ ~Waiting(k)
         /\ state' = [state EXCEPT ![c] = "idle"] /\ conn' = [conn EXCEPT ![c] = None]
         /\ calling' = [calling EXCEPT ![c] = <<>>]
      \/ /\ conns' = Put(conns, k, "s2c", <<>>) /\ ~Waiting(k)
         /\ UNCHANGED <<state, conn, calling>>
  <2>1. CASE "" \in S!ToSet(conns[k].s2c) \/ ~conns[k].server
    <3>1. "" \notin S!ToSet(<<>>)
      BY DEF S!ToSet
    <3>2. ~Waiting(k)
      BY <1>2, <2>1, <3>1
    <3>3. QED
      BY <1>k, <2>1, <3>2 DEF Read
  <2>2. CASE ~("" \in S!ToSet(conns[k].s2c) \/ ~conns[k].server)
    BY <1>0, <1>2, <1>k, <2>2 DEF Read, Put, Made
  <2>3. QED
    BY <2>1, <2>2
<1>4. /\ Made(conns') /\ \A x \in Conn \ {k} : conns'[x] = conns[x]
      /\ conns'[k].server = conns[k].server
      /\ conns[k].server => conns'[k].call = conns[k].call
      /\ conn'[c] = k => conns'[k].client /\ conns'[k].cut = conns[k].cut
      /\ conn'[c] # k => ~conns'[k].client
  <2>0. Made(conns) /\ k \in Conn /\ conns[k] # Free
    BY <1>0, <1>2
  <2>1. CASE conns' = ClientCloses(conns, k) /\ conn' = [conn EXCEPT ![c] = None]
    <3>1. PICK cs : cs = ClientCloses(conns, k)
      OBVIOUS
    <3>2. /\ Made(cs) /\ \A x \in Conn \ {k} : cs[x] = conns[x]
          /\ ~cs[k].client /\ cs[k].server = conns[k].server
          /\ conns[k].server => cs[k].call = conns[k].call
      BY <2>0, <3>1, ClientClosesDoes
    <3>3. conn'[c] = None
      BY <1>0, <1>1, <2>1 DEF Ends
    <3>4. QED
      BY <1>2, <2>1, <3>1, <3>2, <3>3
  <2>2. CASE conns' = Put(conns, k, "s2c", <<>>) /\ UNCHANGED conn
    <3>1. PICK cs : cs = Put(conns, k, "s2c", <<>>)
      OBVIOUS
    <3>2. /\ Made(cs) /\ \A x \in Conn \ {k} : cs[x] = conns[x]
          /\ \A x \in Fields \ {"s2c"} : cs[k][x] = conns[k][x]
      BY <2>0, <3>1, PutDoes
    <3>3. /\ cs[k].server = conns[k].server /\ cs[k].client = conns[k].client
          /\ cs[k].call = conns[k].call /\ cs[k].cut = conns[k].cut
      BY <3>2 DEF Fields
    <3>4. QED
      BY <1>2, <1>k, <2>2, <3>1, <3>2, <3>3
  <2>3. QED
    BY <1>3, <2>1, <2>2
<1>5. /\ \A d \in Client \ {c} : conn'[d] = conn[d] /\ state'[d] = state[d] /\ calling'[d] = calling[d]
      /\ (conn'[c] = None /\ state'[c] = "idle") \/ (conn'[c] = k /\ state'[c] = "read")
  BY <1>0, <1>1, <1>3, <1>k DEF Ends
<1>7. Ends'
  <2>1. /\ \A d \in Sync : state'[d] \in {"idle", "send", "read", "gone"}
        /\ \A a \in Async : state'[a] \in {"Idle", "Writing", "Reading", "Error", "gone"}
    BY <1>0, <1>1, <1>5 DEF Ends, Client
  <2>2. UNCHANGED <<server, serving>>
    BY <1>1 DEF serverVars
  <2>3. conn' \in [Client -> Conn \cup {None}] /\ calling' = [d \in Client |-> calling'[d]]
        /\ state' = [d \in Client |-> state'[d]]
    BY <1>0, <1>1, <1>3 DEF Ends
  <2>4. QED
    BY <1>0, <1>1, <2>1, <2>2, <2>3 DEF Ends
<1>8. Sound(k)'
  <2>1. UNCHANGED <<backlog, serving, server>>
    BY <1>1 DEF serverVars
  <2>2. QED
    BY <1>2, <1>3, <1>4, <2>1 DEF Sound, Waiting
<1>9. Mine(c)'
  <2>1. UNCHANGED <<backlog, serving, server>> /\ ~Waiting(k)
    BY <1>1, <1>3 DEF serverVars
  <2>2. ~Waiting(k)'
    BY <2>1 DEF Waiting
  <2>3. QED
    BY <1>1, <1>2, <1>4, <1>5, <2>2 DEF Mine
<1>10. \A n \in Fd : fds'[n] # k
  BY <1>0, <1>1, <1>k DEF ClientEnds
<1>11. QED
  BY <1>1, <1>2, <1>4, <1>5, <1>7, <1>8, <1>9, <1>10, <1>k, OwnStepKeeps

(* A request is given up, and its connection closed.                        *)
LEMMA GivenUpDoes ==
  ASSUME NEW cs, Made(cs), NEW c \in Conn, cs[c] # Free, cs[c].client, NEW new, new = ClientCloses(GivesUp(cs, c), c)
  PROVE  /\ Made(new) /\ \A d \in Conn \ {c} : new[d] = cs[d]
         /\ ~new[c].client /\ new[c].server = cs[c].server
         /\ cs[c].server => new[c].s2c = <<>> /\ new[c].call = cs[c].call /\ new[c].cut
         /\ new[c].c2s \in {<<>>, cs[c].c2s} /\ new[c].s2c = <<>>
<1>1. PICK up : up = GivesUp(cs, c)
  OBVIOUS
<1>2. /\ Made(up) /\ \A d \in Conn \ {c} : up[d] = cs[d]
      /\ up[c].cut
      /\ \A x \in Fields \ {"cut"} : up[c][x] = cs[c][x]
  BY <1>1, GivesUpDoes
<1>3. up[c].client = cs[c].client /\ up[c].server = cs[c].server /\ up[c].call = cs[c].call /\ up[c].c2s = cs[c].c2s
  BY <1>2 DEF Fields
<1>4. up[c] # Free
  BY <1>3, EmptyIsFree
<1>5. new = ClientCloses(up, c) /\ Made(up) /\ c \in Conn
  BY <1>1, <1>2
<1>6. /\ Made(new) /\ \A d \in Conn \ {c} : new[d] = up[d]
      /\ ~new[c].client /\ new[c].server = up[c].server
      /\ up[c].server => new[c].s2c = <<>> /\ new[c].call = up[c].call /\ new[c].cut = up[c].cut
      /\ new[c].c2s \in {<<>>, up[c].c2s} /\ new[c].s2c = <<>>
  BY <1>4, <1>5, ClientClosesDoes
<1>7. QED
  BY <1>2, <1>3, <1>6

LEMMA KillKeeps == ASSUME Inv, NEW c \in Sync, Kill(c) PROVE Inv'
<1>0. Made(conns) /\ Ends /\ ClientEnds
  BY DEF Inv
<1>1. /\ state[c] \in {"send", "read"} /\ c \in Client /\ c \notin Async /\ conn[c] # None
      /\ UNCHANGED <<backlog, fd, fds>> /\ UNCHANGED serverVars
      /\ state' = [state EXCEPT ![c] = "gone"] /\ conn' = [conn EXCEPT ![c] = None]
      /\ calling' = [calling EXCEPT ![c] = <<>>]
  BY <1>0, SocketAssumption DEF Kill, SyncUnchanged, ClientEnds, Client, fdVars
<1>k. PICK k : k = conn[c]
  OBVIOUS
<1>2. /\ k \in Conn /\ k # None /\ conns[k].client /\ conns[k] # Free /\ ~conns[k].cut
      /\ Waiting(k) => conns[k].server
  BY <1>1, <1>k, BusyIsUsed
<1>3. /\ Made(conns') /\ \A x \in Conn \ {k} : conns'[x] = conns[x]
      /\ conns'[k].server = conns[k].server /\ ~conns'[k].client
      /\ conns[k].server => /\ conns'[k].call = conns[k].call /\ conns'[k].s2c = <<>>
                            /\ conns'[k].cut \/ (state[c] = "read" /\ conns'[k].c2s = conns[k].c2s)
  <2>1. CASE state[c] = "send"
    <3>1. PICK n : conns' = ClientCloses(GivesUp(Sent(conns, k, SubSeq(calling[c], 1, n)), k), k)
      BY <2>1, <1>k DEF Kill
    <3>2. PICK sent : sent = SubSeq(calling[c], 1, n)
      OBVIOUS
    <3>3. Sent(conns, k, sent) = Put(conns, k, "c2s", conns[k].c2s \o sent)
      BY <1>0, <1>2, SentIs
    <3>4. PICK lines : conns' = ClientCloses(GivesUp(Put(conns, k, "c2s", lines), k), k)
      BY <3>1, <3>2, <3>3
    <3>5. PICK cs : cs = Put(conns, k, "c2s", lines)
      OBVIOUS
    <3>6. /\ Made(cs) /\ \A x \in Conn \ {k} : cs[x] = conns[x]
          /\ \A x \in Fields \ {"c2s"} : cs[k][x] = conns[k][x]
      <4>1. Made(conns) /\ k \in Conn /\ conns[k] # Free
        BY <1>0, <1>2
      <4>2. QED
        BY <3>5, <4>1, PutDoes
    <3>7. cs[k].client = conns[k].client /\ cs[k].server = conns[k].server /\ cs[k].call = conns[k].call
      BY <3>6 DEF Fields
    <3>8. Made(cs) /\ k \in Conn /\ cs[k] # Free /\ cs[k].client
      BY <1>2, <3>6, <3>7, EmptyIsFree
    <3>9. PICK new : new = ClientCloses(GivesUp(cs, k), k)
      OBVIOUS
    <3>10. /\ Made(new) /\ \A d \in Conn \ {k} : new[d] = cs[d]
           /\ ~new[k].client /\ new[k].server = cs[k].server
           /\ cs[k].server => new[k].s2c = <<>> /\ new[k].call = cs[k].call /\ new[k].cut
      BY <3>8, <3>9, GivenUpDoes
    <3>11. conns' = new
      BY <3>4, <3>5, <3>9
    <3>12. QED
      BY <3>6, <3>7, <3>10, <3>11
  <2>2. CASE state[c] = "read"
    <3>1. conns' = ClientCloses(conns, k)
      BY <1>k, <2>2 DEF Kill
    <3>2. Made(conns) /\ k \in Conn /\ conns[k] # Free
      BY <1>0, <1>2
    <3>3. PICK new : new = ClientCloses(conns, k)
      OBVIOUS
    <3>4. /\ Made(new) /\ \A d \in Conn \ {k} : new[d] = conns[d]
          /\ ~new[k].client /\ new[k].server = conns[k].server
          /\ conns[k].server => new[k].s2c = <<>> /\ new[k].call = conns[k].call /\ new[k].c2s = conns[k].c2s
      BY <3>2, <3>3, ClientClosesDoes
    <3>5. QED
      BY <2>2, <3>1, <3>3, <3>4
  <2>3. QED
    BY <1>1, <2>1, <2>2
<1>4. Waiting(k) => conns'[k].cut \/ Whole(k)'
  <2>1. Mine(c)
    BY <1>1, AllMine
  <2>2. state[c] = "read" /\ Waiting(k) => Whole(k)
    BY <1>k, <2>1 DEF Mine
  <2>3. QED
    BY <1>2, <1>3, <2>2 DEF Whole, WholeIn
<1>5. /\ \A d \in Client \ {c} : conn'[d] = conn[d] /\ state'[d] = state[d] /\ calling'[d] = calling[d]
      /\ conn'[c] = None /\ state'[c] = "gone"
  BY <1>0, <1>1, <1>k DEF Ends
<1>7. Ends'
  <2>1. /\ \A d \in Sync : state'[d] \in {"idle", "send", "read", "gone"}
        /\ \A a \in Async : state'[a] \in {"Idle", "Writing", "Reading", "Error", "gone"}
    BY <1>0, <1>1, <1>5 DEF Ends, Client
  <2>2. UNCHANGED <<server, serving>>
    BY <1>1 DEF serverVars
  <2>3. conn' \in [Client -> Conn \cup {None}] /\ calling' = [d \in Client |-> calling'[d]]
        /\ state' = [d \in Client |-> state'[d]]
    BY <1>0, <1>1 DEF Ends
  <2>4. QED
    BY <1>0, <1>1, <2>1, <2>2, <2>3 DEF Ends
<1>8. Sound(k)'
  <2>1. UNCHANGED <<backlog, serving, server>>
    BY <1>1 DEF serverVars
  <2>2. QED
    BY <1>2, <1>3, <1>4, <2>1 DEF Sound, Waiting
<1>9. Mine(c)'
  BY <1>1, <1>5 DEF Mine
<1>10. \A n \in Fd : fds'[n] # k
  BY <1>0, <1>1, <1>k DEF ClientEnds
<1>11. QED
  BY <1>1, <1>2, <1>3, <1>5, <1>7, <1>8, <1>9, <1>10, <1>k, OwnStepKeeps

(* What an AsyncSocket closes, when it is its own, and what it gives up.    *)
LEMMA AsyncCloses ==
  ASSUME Inv, NEW a \in Async, NEW n \in Fd \cup {None}, n \in {None, fd[a]},
         state[a] \in {"Writing", "Reading"} => n = fd[a], ~Strays(a, n),
         NEW cs, cs = ConnsClosed(n, Abandoned(a, conns)), NEW open, open = Closed(n),
         NEW k, k = conn[a]
  PROVE  /\ Made(cs) /\ \A x \in Conn : cs[x] = conns[x] \/ x = k
         /\ open \in [Fd -> Conn \cup {None}]
         /\ \A m \in Fd : open[m] = fds[m] \/ (fds[m] = k /\ open[m] = None)
         /\ k # None =>
              /\ cs[k].server = conns[k].server /\ (conns[k].server => cs[k].call = conns[k].call)
              /\ cs[k] # Free => (cs[k].cut => ~cs[k].client)
              /\ Waiting(k) => cs[k].s2c = <<>> /\ (~cs[k].cut => WholeIn(cs, k))
              /\ \A m \in Fd : open[m] = k => cs[k].client /\ ~cs[k].server
              /\ cs[k].c2s \in {<<>>, conns[k].c2s} /\ cs[k].s2c \in {<<>>, conns[k].s2c}
<1>0. Made(conns) /\ Ends /\ AsyncEnds /\ Descriptors /\ a \in Client
  BY DEF Inv, Client
<1>1. fds \in [Fd -> Conn \cup {None}] /\ None \notin Fd /\ conn[a] \in Conn \cup {None}
  BY <1>0, SocketAssumption DEF Ends
<1>2. CASE k = None
  <2>1. state[a] \notin {"Writing", "Reading"} /\ (n # None => fds[n] = None)
    BY <1>0, <1>2 DEF AsyncEnds, Strays
  <2>2. cs = conns
    BY <2>1 DEF ConnsClosed, Abandoned
  <2>3. open = fds
    BY <1>1, <2>1 DEF Closed
  <2>4. QED
    BY <1>0, <1>1, <1>2, <2>2, <2>3
<1>3. CASE k # None
  <2>1. /\ k \in Conn /\ conns[k].client /\ conns[k] # Free /\ ~conns[k].cut
        /\ Waiting(k) => conns[k].server
    BY <1>0, <1>3, BusyIsUsed
  <2>2. /\ fd[a] \in Fd /\ fds[fd[a]] = k /\ state[a] \in {"Writing", "Reading", "Error"}
        /\ state[a] = "Error" => ~conns[k].server
        /\ \A m \in Fd : fds[m] = k => m = fd[a]
    BY <1>0, <1>3 DEF AsyncEnds, Descriptors
  <2>3. n # None => open = [fds EXCEPT ![n] = None]
    BY DEF Closed
  <2>4. n = None => open = fds
    BY DEF Closed
  <2>5. CASE state[a] \in {"Writing", "Reading"}
    <3>1. n = fd[a] /\ n # None /\ fds[n] = k
      BY <1>1, <2>2, <2>5
    <3>2. cs = ClientCloses(IF state[a] = "Writing" THEN GivesUp(conns, k) ELSE conns, k)
      BY <1>3, <2>1, <2>5, <3>1 DEF ConnsClosed, Abandoned
    <3>3. /\ Made(cs) /\ \A d \in Conn \ {k} : cs[d] = conns[d]
          /\ ~cs[k].client /\ cs[k].server = conns[k].server
          /\ conns[k].server => /\ cs[k].s2c = <<>> /\ cs[k].call = conns[k].call
                                /\ cs[k].cut \/ (state[a] = "Reading" /\ cs[k].c2s = conns[k].c2s)
          /\ cs[k].c2s \in {<<>>, conns[k].c2s} /\ cs[k].s2c = <<>>
      <4>1. Made(conns) /\ k \in Conn /\ conns[k] # Free /\ conns[k].client
        BY <1>0, <2>1
      <4>2. CASE state[a] = "Writing"
        <5>1. cs = ClientCloses(GivesUp(conns, k), k)
          BY <3>2, <4>2
        <5>2. QED
          BY <4>1, <5>1, GivenUpDoes
      <4>3. CASE state[a] = "Reading"
        <5>1. cs = ClientCloses(conns, k)
          BY <3>2, <4>3
        <5>2. QED
          BY <4>1, <4>3, <5>1, ClientClosesDoes
      <4>4. QED
        BY <2>5, <4>2, <4>3
    <3>w. Waiting(k) => cs[k].cut \/ WholeIn(cs, k)
      <4>1. CASE state[a] = "Reading"
        <5>1. Mine(a)
          BY <1>0, AllMine
        <5>2. Waiting(k) => Whole(k)
          BY <4>1, <5>1 DEF Mine
        <5>3. QED
          BY <2>1, <3>3, <5>2 DEF Whole, WholeIn
      <4>2. CASE state[a] # "Reading"
        BY <2>1, <3>3, <4>2
      <4>3. QED
        BY <4>1, <4>2
    <3>4. open = [fds EXCEPT ![n] = None] /\ n \in Fd
      BY <2>2, <2>3, <3>1
    <3>5. /\ open \in [Fd -> Conn \cup {None}]
          /\ \A m \in Fd : open[m] = fds[m] \/ (fds[m] = k /\ open[m] = None)
          /\ \A m \in Fd : open[m] # k
      BY <1>1, <1>3, <2>2, <3>1, <3>4
    <3>6. QED
      BY <2>1, <3>3, <3>5, <3>w
  <2>6. CASE state[a] = "Error" /\ n = None
    <3>1. cs = conns /\ open = fds
      BY <2>4, <2>6 DEF ConnsClosed, Abandoned
    <3>2. QED
      BY <1>0, <1>1, <2>1, <2>2, <2>6, <3>1
  <2>7. CASE state[a] = "Error" /\ n = fd[a]
    <3>1. n # None /\ n \in Fd /\ fds[n] = k /\ ~conns[k].server /\ ~Waiting(k)
      BY <1>1, <2>1, <2>2, <2>7
    <3>2. cs = ClientCloses(conns, k)
      BY <1>3, <2>7, <3>1 DEF ConnsClosed, Abandoned
    <3>3. /\ Made(cs) /\ \A d \in Conn \ {k} : cs[d] = conns[d]
          /\ ~cs[k].client /\ cs[k].server = conns[k].server
          /\ cs[k].c2s \in {<<>>, conns[k].c2s} /\ cs[k].s2c = <<>>
      <4>1. Made(conns) /\ k \in Conn /\ conns[k] # Free
        BY <1>0, <2>1
      <4>2. QED
        BY <3>2, <4>1, ClientClosesDoes
    <3>4. /\ open \in [Fd -> Conn \cup {None}]
          /\ \A m \in Fd : open[m] = fds[m] \/ (fds[m] = k /\ open[m] = None)
          /\ \A m \in Fd : open[m] # k
      BY <1>1, <1>3, <2>2, <2>3, <3>1, <2>7
    <3>5. QED
      BY <3>1, <3>3, <3>4
  <2>8. QED
    BY <2>2, <2>5, <2>6, <2>7
<1>4. QED
  BY <1>2, <1>3

LEMMA AsyncDrops ==
  ASSUME Inv, NEW a \in Async, NEW n \in Fd \cup {None}, n \in {None, fd[a]},
         state[a] \in {"Writing", "Reading"} => n = fd[a], ~Strays(a, n),
         conns' = ConnsClosed(n, Abandoned(a, conns)), fds' = Closed(n),
         fd' = [fd EXCEPT ![a] = None], conn' = [conn EXCEPT ![a] = None],
         NEW s \in {"Error", "gone"}, state' = [state EXCEPT ![a] = s],
         calling' = [calling EXCEPT ![a] = <<>>], UNCHANGED backlog, UNCHANGED serverVars
  PROVE  Inv'
<1>0. Made(conns) /\ Ends /\ AsyncEnds /\ Descriptors /\ a \in Client /\ a \notin Sync
  BY SocketAssumption DEF Inv, Client
<1>k. PICK k : k = conn[a]
  OBVIOUS
<1>1. PICK cs, open : cs = ConnsClosed(n, Abandoned(a, conns)) /\ open = Closed(n)
  OBVIOUS
<1>2. /\ Made(cs) /\ \A x \in Conn : cs[x] = conns[x] \/ x = k
      /\ open \in [Fd -> Conn \cup {None}]
      /\ \A m \in Fd : open[m] = fds[m] \/ (fds[m] = k /\ open[m] = None)
      /\ k # None =>
           /\ cs[k].server = conns[k].server /\ (conns[k].server => cs[k].call = conns[k].call)
           /\ cs[k] # Free => (cs[k].cut => ~cs[k].client)
           /\ Waiting(k) => cs[k].s2c = <<>> /\ (~cs[k].cut => WholeIn(cs, k))
           /\ \A m \in Fd : open[m] = k => cs[k].client /\ ~cs[k].server
  BY <1>k, <1>1, AsyncCloses
<1>3. conns' = cs /\ fds' = open
  BY <1>1
<1>4. k # None => k \in Conn /\ ~conns[k].cut
  BY <1>0, <1>k, BusyIsUsed
<1>n. None \notin Conn
  BY SocketAssumption
<1>5. ClientStep(Conn)
  BY <1>n, <1>2, <1>3, <1>4 DEF ClientStep
<1>6. ServerEnds' /\ Handling' /\ \A x : Waiting(x)' <=> Waiting(x)
  BY <1>5, ClientStepKeeps
<1>7. /\ \A d \in Client \ {a} : conn'[d] = conn[d] /\ state'[d] = state[d] /\ calling'[d] = calling[d]
      /\ \A d \in Async \ {a} : fd'[d] = fd[d]
      /\ conn'[a] = None /\ state'[a] = s
  BY <1>0 DEF Ends
<1>8. Ends'
  <2>1. /\ \A d \in Sync : state'[d] \in {"idle", "send", "read", "gone"}
        /\ \A d \in Async : state'[d] \in {"Idle", "Writing", "Reading", "Error", "gone"}
    BY <1>0, <1>7 DEF Ends, Client
  <2>2. UNCHANGED <<server, serving>>
    BY DEF serverVars
  <2>3. conn' \in [Client -> Conn \cup {None}] /\ calling' = [d \in Client |-> calling'[d]]
        /\ state' = [d \in Client |-> state'[d]] /\ fd' \in [Async -> Fd \cup {None}]
    BY <1>0 DEF Ends
  <2>4. QED
    BY <1>0, <1>2, <1>3, <2>1, <2>2, <2>3 DEF Ends
<1>9. Mine(a)'
  BY <1>0, <1>7 DEF Mine
<1>10. OneClient(a)
  BY <1>k, <1>2, <1>3, <1>6, <1>7 DEF OneClient
<1>11. ASSUME NEW x \in Conn PROVE Sound(x)' \/ (conns'[x] = conns[x] /\ (Waiting(x)' => Waiting(x)))
  <2>1. CASE x = k
    <3>1. Waiting(x)' => Waiting(x)
      BY <1>6
    <3>2. Sound(x)'
      BY <1>n, <1>2, <1>3, <2>1, <3>1 DEF Sound, Whole, WholeIn
    <3>3. QED
      BY <3>2
  <2>2. CASE x # k
    BY <1>2, <1>3, <1>6, <2>2
  <2>3. QED
    BY <2>1, <2>2
<1>12. QED
  BY <1>0, <1>2, <1>3, <1>6, <1>8, <1>9, <1>10, <1>11, ClientKeeps

LEMMA DestroyKeeps == ASSUME Inv, ~stray, NEW a \in Async, Destroy(a), ~stray' PROVE Inv'
<1>1. fd[a] \in Fd \cup {None}
  BY DEF Inv, Ends
<1>2. ~Strays(a, fd[a])
  BY DEF Destroy
<1>3. PICK n : n = fd[a]
  OBVIOUS
<1>4. /\ conns' = ConnsClosed(n, Abandoned(a, conns)) /\ fds' = Closed(n)
      /\ fd' = [fd EXCEPT ![a] = None] /\ conn' = [conn EXCEPT ![a] = None]
      /\ state' = [state EXCEPT ![a] = "gone"] /\ calling' = [calling EXCEPT ![a] = <<>>]
      /\ UNCHANGED backlog /\ UNCHANGED serverVars
  BY <1>3 DEF Destroy
<1>5. n \in Fd \cup {None} /\ n \in {None, fd[a]} /\ ~Strays(a, n)
  BY <1>1, <1>2, <1>3
<1>6. QED
  BY <1>3, <1>4, <1>5, AsyncDrops

LEMMA AsyncHas ==
  ASSUME Inv, NEW a \in Async, state[a] \in {"Writing", "Reading"}
  PROVE  /\ a \in Client /\ a \notin Sync /\ conn[a] # None /\ fd[a] \in Fd /\ fds[fd[a]] = conn[a]
         /\ \A m \in Fd : fds[m] = conn[a] => m = fd[a]
         /\ ~Strays(a, fd[a])
<1>1. AsyncEnds /\ Descriptors /\ a \in Client /\ a \notin Sync
  BY SocketAssumption DEF Inv, Client
<1>2. conn[a] # None /\ fd[a] \in Fd /\ fds[fd[a]] = conn[a]
  BY <1>1 DEF AsyncEnds
<1>3. QED
  BY <1>1, <1>2 DEF Descriptors, Strays

LEMMA WriteKeeps == ASSUME Inv, NEW a \in Async, Write(a) PROVE Inv'
<1>0. Made(conns) /\ Ends /\ Requesting
  BY DEF Inv
<1>k. PICK k : k = conn[a]
  OBVIOUS
<1>1. /\ state[a] = "Writing" /\ a \in Client /\ a \notin Sync /\ k # None
      /\ fd[a] \in Fd /\ fds[fd[a]] = k /\ \A m \in Fd : fds[m] = k => m = fd[a]
      /\ UNCHANGED <<backlog, conn, fd, fds>> /\ UNCHANGED serverVars
      /\ calling' = [calling EXCEPT ![a] = <<>>]
  BY <1>k, AsyncHas DEF Write, fdVars
<1>2. /\ k \in Conn /\ conns[k].client /\ conns[k] # Free /\ ~conns[k].cut /\ conns[k].call \in Calls
      /\ Waiting(k) => conns[k].server /\ conns[k].s2c = <<>>
  BY <1>1, <1>k, BusyIsUsed
<1>3. calling[a] = conns[k].call /\ (Waiting(k) => conns[k].c2s = <<>>)
  <2>1. calling[a] = conns[conn[a]].call /\ (Waiting(conn[a]) => conns[conn[a]].c2s = <<>>)
    BY <1>0, <1>1 DEF Requesting
  <2>2. QED
    BY <1>k, <2>1
<1>4. /\ Made(conns') /\ \A x \in Conn \ {k} : conns'[x] = conns[x]
      /\ \A x \in Fields \ {"c2s"} : conns'[k][x] = conns[k][x]
      /\ conns[k].server => /\ conns'[k].c2s = conns[k].c2s \o Append(calling[a], "")
                            /\ state' = [state EXCEPT ![a] = "Reading"]
      /\ ~conns[k].server => state' = [state EXCEPT ![a] = "Error"]
  <2>1. CASE conns[k].server
    <3>1. PICK lines : lines = conns[k].c2s \o Append(calling[a], "")
      OBVIOUS
    <3>2. conns' = Sent(conns, k, Append(calling[a], "")) /\ state' = [state EXCEPT ![a] = "Reading"]
      BY <1>1, <2>1 DEF Write
    <3>3. conns' = Put(conns, k, "c2s", lines)
      BY <1>0, <1>2, <3>1, <3>2, SentIs
    <3>4. /\ Made(Put(conns, k, "c2s", lines))
          /\ \A x \in Conn \ {k} : Put(conns, k, "c2s", lines)[x] = conns[x]
          /\ Put(conns, k, "c2s", lines)[k]["c2s"] = lines
          /\ \A x \in Fields \ {"c2s"} : Put(conns, k, "c2s", lines)[k][x] = conns[k][x]
      <4>1. Made(conns) /\ k \in Conn /\ conns[k] # Free
        BY <1>0, <1>2
      <4>2. QED
        BY <4>1, PutDoes
    <3>5. QED
      BY <2>1, <3>1, <3>2, <3>3, <3>4
  <2>2. CASE ~conns[k].server
    BY <1>0, <1>1, <2>2 DEF Write
  <2>3. QED
    BY <2>1, <2>2
<1>5. /\ conns'[k].client = conns[k].client /\ conns'[k].server = conns[k].server
      /\ conns'[k].call = conns[k].call /\ conns'[k].cut = conns[k].cut /\ conns'[k].s2c = conns[k].s2c
  BY <1>4 DEF Fields
<1>6. /\ \A d \in Client \ {a} : state'[d] = state[d] /\ calling'[d] = calling[d]
      /\ state'[a] = (IF conns[k].server THEN "Reading" ELSE "Error")
  BY <1>0, <1>1, <1>4 DEF Ends
<1>7. Ends'
  <2>1. /\ \A d \in Sync : state'[d] \in {"idle", "send", "read", "gone"}
        /\ \A d \in Async : state'[d] \in {"Idle", "Writing", "Reading", "Error", "gone"}
    BY <1>0, <1>1, <1>6 DEF Ends, Client
  <2>2. UNCHANGED <<server, serving>>
    BY <1>1 DEF serverVars
  <2>3. state' = [d \in Client |-> state'[d]] /\ calling' = [d \in Client |-> calling'[d]]
    BY <1>0, <1>1, <1>4 DEF Ends
  <2>4. QED
    BY <1>0, <1>1, <2>1, <2>2, <2>3 DEF Ends
<1>w. Waiting(k) => Whole(k)'
  <2>1. ASSUME Waiting(k)
        PROVE  conns'[k].c2s = Append(conns'[k].call, "")
    <3>1. conns'[k].c2s = <<>> \o Append(calling[a], "")
      BY <1>2, <1>3, <1>4, <2>1
    <3>2. QED
      BY <1>2, <1>3, <1>5, <3>1, FirstRequest
  <2>2. QED
    BY <2>1 DEF Whole, WholeIn
<1>8. Sound(k)'
  <2>1. UNCHANGED <<backlog, serving, server>>
    BY <1>1 DEF serverVars
  <2>2. QED
    BY <1>2, <1>5, <1>w, <2>1 DEF Sound, Waiting
<1>9. Mine(a)'
  <2>1. UNCHANGED <<backlog, serving, server, conn>>
    BY <1>1 DEF serverVars
  <2>2. Waiting(conn[a])' => Waiting(k) /\ conn'[a] = k
    BY <1>k, <2>1 DEF Waiting
  <2>3. QED
    BY <1>1, <1>2, <1>5, <1>6, <1>k, <1>w, <2>2 DEF Mine
<1>10. QED
  BY <1>1, <1>2, <1>4, <1>5, <1>6, <1>7, <1>8, <1>9, <1>k, OwnStepKeeps

LEMMA ReadSomeKeeps == ASSUME Inv, NEW a \in Async, ReadSome(a) PROVE Inv'
<1>0. Made(conns) /\ Ends
  BY DEF Inv
<1>k. PICK k : k = conn[a]
  OBVIOUS
<1>1. /\ state[a] = "Reading" /\ a \in Client /\ a \notin Sync /\ k # None
      /\ fd[a] \in Fd /\ fd[a] # None /\ fds[fd[a]] = k /\ \A m \in Fd : fds[m] = k => m = fd[a]
      /\ UNCHANGED <<backlog, calling, fd>> /\ UNCHANGED serverVars
  BY <1>k, AsyncHas, SocketAssumption DEF ReadSome
<1>2. /\ k \in Conn /\ conns[k].client /\ conns[k] # Free /\ ~conns[k].cut
      /\ Waiting(k) => conns[k].server /\ conns[k].s2c = <<>>
  BY <1>1, <1>k, BusyIsUsed
<1>3. PICK cs : cs = Put(conns, k, "s2c", <<>>)
  OBVIOUS
<1>4. /\ Made(cs) /\ \A x \in Conn \ {k} : cs[x] = conns[x]
      /\ \A x \in Fields \ {"s2c"} : cs[k][x] = conns[k][x]
  <2>1. Made(conns) /\ k \in Conn /\ conns[k] # Free
    BY <1>0, <1>2
  <2>2. QED
    BY <1>3, <2>1, PutDoes
<1>5. /\ cs[k].server = conns[k].server /\ cs[k].client = conns[k].client
      /\ cs[k].call = conns[k].call /\ cs[k].cut = conns[k].cut
  BY <1>4 DEF Fields
<1>6. /\ ~Waiting(k)
      /\ \/ /\ ~conns[k].server /\ conns' = ClientCloses(cs, k) /\ fds' = [fds EXCEPT ![fd[a]] = None]
            /\ conn' = [conn EXCEPT ![a] = None]
            /\ \E s \in {"Error", "Idle"} : state' = [state EXCEPT ![a] = s]
         \/ conns' = cs /\ UNCHANGED <<fds, state, conn>>
  <2>1. [conns EXCEPT ![k].s2c = <<>>] = cs
    BY <1>0, <1>2, <1>3 DEF Put, Made
  <2>2. CASE ~conns[k].server
    BY <1>1, <1>2, <2>1, <2>2 DEF ReadSome, Closed
  <2>3. CASE conns[k].server
    BY <1>1, <1>2, <2>1, <2>3 DEF ReadSome
  <2>4. QED
    BY <2>2, <2>3
<1>7. CASE conns' = cs /\ UNCHANGED <<fds, state, conn>>
  <2>1. Ends'
    BY <1>0, <1>1, <1>7 DEF Ends, serverVars
  <2>2. UNCHANGED <<backlog, serving, server>>
    BY <1>1 DEF serverVars
  <2>3. Sound(k)'
    BY <1>2, <1>5, <1>6, <1>7, <2>2 DEF Sound, Waiting
  <2>4. Mine(a)'
    <3>1. ~Waiting(k)'
      BY <1>6, <2>2 DEF Waiting
    <3>2. QED
      BY <1>1, <1>2, <1>5, <1>7, <1>k, <3>1 DEF Mine
  <2>5. QED
    BY <1>1, <1>2, <1>4, <1>5, <1>7, <1>k, <2>1, <2>3, <2>4, OwnStepKeeps
<1>8. CASE /\ ~conns[k].server /\ conns' = ClientCloses(cs, k) /\ fds' = [fds EXCEPT ![fd[a]] = None]
           /\ conn' = [conn EXCEPT ![a] = None]
           /\ \E s \in {"Error", "Idle"} : state' = [state EXCEPT ![a] = s]
  <2>1. PICK s \in {"Error", "Idle"} : state' = [state EXCEPT ![a] = s]
    BY <1>8
  <2>2. /\ Made(conns') /\ \A x \in Conn \ {k} : conns'[x] = cs[x]
        /\ ~conns'[k].client /\ conns'[k].server = cs[k].server
    <3>1. PICK new : new = ClientCloses(cs, k)
      OBVIOUS
    <3>2. Made(cs) /\ k \in Conn /\ cs[k] # Free
      BY <1>2, <1>4, <1>5, EmptyIsFree
    <3>3. /\ Made(new) /\ \A x \in Conn \ {k} : new[x] = cs[x]
          /\ ~new[k].client /\ new[k].server = cs[k].server
      BY <3>1, <3>2, ClientClosesDoes
    <3>4. QED
      BY <1>8, <3>1, <3>3
  <2>3. /\ \A d \in Client \ {a} : conn'[d] = conn[d] /\ state'[d] = state[d]
        /\ conn'[a] = None /\ state'[a] = s
    BY <1>0, <1>1, <1>8, <2>1 DEF Ends
  <2>4. /\ fds' \in [Fd -> Conn \cup {None}]
        /\ \A m \in Fd : fds'[m] = fds[m] \/ (fds[m] = k /\ fds'[m] = None)
        /\ \A m \in Fd : fds'[m] # k
    BY <1>0, <1>1, <1>8 DEF Ends
  <2>5. Ends'
    <3>1. /\ \A d \in Sync : state'[d] \in {"idle", "send", "read", "gone"}
          /\ \A d \in Async : state'[d] \in {"Idle", "Writing", "Reading", "Error", "gone"}
      BY <1>0, <1>1, <2>3 DEF Ends, Client
    <3>2. UNCHANGED <<server, serving>>
      BY <1>1 DEF serverVars
    <3>3. conn' \in [Client -> Conn \cup {None}] /\ state' = [d \in Client |-> state'[d]]
      BY <1>0, <1>8, <2>1 DEF Ends
    <3>4. QED
      BY <1>0, <1>1, <2>4, <3>1, <3>2, <3>3 DEF Ends
  <2>6. UNCHANGED <<backlog, serving, server>>
    BY <1>1 DEF serverVars
  <2>7. Sound(k)'
    BY <1>6, <2>2, <2>6 DEF Sound, Waiting
  <2>8. Mine(a)'
    BY <1>1, <2>3 DEF Mine
  <2>9. /\ \A x \in Conn \ {k} : conns'[x] = conns[x]
        /\ conns'[k].server = conns[k].server
    BY <1>4, <1>5, <2>2
  <2>10. QED
    BY <1>1, <1>2, <1>8, <1>k, <2>2, <2>3, <2>4, <2>5, <2>7, <2>8, <2>9, OwnStepKeeps
<1>9. QED
  BY <1>6, <1>7, <1>8

LEMMA SendRequestKeeps ==
  ASSUME Inv, ~stray, NEW a \in Async, NEW r \in Calls, SendRequest(a, r), ~stray'
  PROVE  Inv'
<1>0. Made(conns) /\ Ends /\ a \in Client /\ a \notin Sync
  BY SocketAssumption DEF Inv, Client
<1>f. None \notin Conn /\ None \notin Fd
  BY SocketAssumption
<1>n. PICK n : n = ToClose(a)
  OBVIOUS
<1>k. PICK k : k = conn[a]
  OBVIOUS
<1>1. /\ n \in Fd \cup {None} /\ n \in {None, fd[a]} /\ ~Strays(a, n)
      /\ state[a] \in {"Writing", "Reading"} => n = fd[a]
  BY <1>0, <1>n DEF SendRequest, ToClose, Ends
<1>2. UNCHANGED serverVars
  BY DEF SendRequest
<1>3. CASE ~Listening
  <2>1. /\ conns' = ConnsClosed(n, Abandoned(a, conns)) /\ fds' = Closed(n)
        /\ fd' = [fd EXCEPT ![a] = None] /\ conn' = [conn EXCEPT ![a] = None]
        /\ state' = [state EXCEPT ![a] = "Error"] /\ calling' = [calling EXCEPT ![a] = <<>>]
        /\ UNCHANGED backlog
    BY <1>3, <1>n DEF SendRequest
  <2>2. QED
    BY <1>1, <1>2, <2>1, AsyncDrops
<1>4. CASE Listening
  <2>1. PICK cs, open : cs = ConnsClosed(n, Abandoned(a, conns)) /\ open = Closed(n)
    OBVIOUS
  <2>2. /\ Made(cs) /\ \A x \in Conn : cs[x] = conns[x] \/ x = k
        /\ open \in [Fd -> Conn \cup {None}]
        /\ \A m \in Fd : open[m] = fds[m] \/ (fds[m] = k /\ open[m] = None)
        /\ k # None =>
             /\ cs[k].server = conns[k].server /\ (conns[k].server => cs[k].call = conns[k].call)
             /\ cs[k] # Free => (cs[k].cut => ~cs[k].client)
             /\ Waiting(k) => cs[k].s2c = <<>> /\ (~cs[k].cut => WholeIn(cs, k))
             /\ \A m \in Fd : open[m] = k => cs[k].client /\ ~cs[k].server
    BY <1>1, <1>k, <2>1, AsyncCloses
  <2>3. PICK new, number : new = Lowest(FreeConns) /\ number = Lowest({m \in Fd : open[m] = None})
    OBVIOUS
  <2>4. /\ {m \in Fd : open[m] = None} # {} /\ new \in FreeConns
        /\ conns' = [cs EXCEPT ![new] = NewConn(r)] /\ backlog' = Append(backlog, new)
        /\ conn' = [conn EXCEPT ![a] = new] /\ fd' = [fd EXCEPT ![a] = number]
        /\ fds' = [open EXCEPT ![number] = new]
        /\ state' = [state EXCEPT ![a] = "Writing"] /\ calling' = [calling EXCEPT ![a] = r]
    BY <1>4, <1>n, <2>1, <2>3, LowestFree DEF SendRequest
  <2>5. number \in Fd /\ open[number] = None
    <3>1. MaxFd \in Nat
      BY SocketAssumption
    <3>2. PICK T : T = {m \in Fd : open[m] = None}
      OBVIOUS
    <3>3. T \in SUBSET Nat
      BY <3>1, <3>2 DEF Fd
    <3>4. number \in T
      BY <2>3, <2>4, <3>2, <3>3, LowestOf
    <3>5. QED
      BY <3>2, <3>4
  <2>6. /\ new \in Conn /\ new # None /\ new # k /\ \A m \in Fd : fds[m] # new
    BY <1>0, <1>f, <1>k, <2>4, FreeIsNobodys
  <2>7. k # None => k \in Conn /\ k \notin FreeConns /\ ~conns[k].cut
    BY <1>0, <1>k, BusyIsUsed
  <2>8. Made(conns') /\ conns'[new] = NewConn(r) /\ \A x \in Conn \ {new} : conns'[x] = cs[x]
    <3>1. Made(cs) /\ new \in Conn /\ r \in Calls
      BY <2>2, <2>6
    <3>2. /\ Made([cs EXCEPT ![new] = NewConn(r)])
          /\ [cs EXCEPT ![new] = NewConn(r)][new] = NewConn(r)
          /\ \A x \in Conn \ {new} : [cs EXCEPT ![new] = NewConn(r)][x] = cs[x]
      BY <3>1, TakenDoes
    <3>3. QED
      BY <2>4, <3>2
  <2>9. ClientStep(Conn \ {new})
    <3>1. ASSUME NEW x \in Conn \ {new}
          PROVE  /\ conns'[x].server = conns[x].server
                 /\ conns[x].server => conns'[x].call = conns[x].call /\ (conns[x].cut => conns'[x].cut)
      <4>1. CASE x = k
        BY <1>f, <2>2, <2>7, <2>8, <4>1
      <4>2. CASE x # k
        BY <2>2, <2>8, <4>2
      <4>3. QED
        BY <4>1, <4>2
    <3>2. QED
      BY <1>2, <3>1 DEF ClientStep
  <2>10. /\ ServerEnds' /\ Handling' /\ backlog' \in Seq(Conn)
         /\ \A x : Waiting(x)' <=> Waiting(x) \/ x = new
    BY <1>4, <2>4, <2>8, <2>9, NewConnKeeps
  <2>11. /\ conn'[a] = new /\ state'[a] = "Writing" /\ calling'[a] = r /\ fd'[a] = number
         /\ \A d \in Client \ {a} : conn'[d] = conn[d] /\ state'[d] = state[d] /\ calling'[d] = calling[d]
         /\ \A d \in Async \ {a} : fd'[d] = fd[d]
    BY <1>0, <2>4 DEF Ends
  <2>12. /\ fds' \in [Fd -> Conn \cup {None}] /\ fds'[number] = new
         /\ \A m \in Fd \ {number} : fds'[m] = open[m]
    BY <2>2, <2>4, <2>5, <2>6
  <2>13. Ends'
    <3>1. conn' \in [Client -> Conn \cup {None}] /\ fd' \in [Async -> Fd \cup {None}]
      BY <1>0, <2>4, <2>5, <2>6 DEF Ends
    <3>2. /\ \A d \in Sync : state'[d] \in {"idle", "send", "read", "gone"}
          /\ \A d \in Async : state'[d] \in {"Idle", "Writing", "Reading", "Error", "gone"}
      BY <1>0, <2>11 DEF Ends, Client
    <3>3. state' = [d \in Client |-> state'[d]] /\ calling' = [d \in Client |-> calling'[d]]
      BY <1>0, <2>4 DEF Ends
    <3>4. QED
      BY <1>0, <1>2, <2>10, <2>12, <3>1, <3>2, <3>3 DEF Ends, serverVars
  <2>14. /\ conns'[new].client /\ ~conns'[new].cut /\ conns'[new].s2c = <<>>
         /\ conns'[new].c2s = <<>> /\ conns'[new].call = r
    BY <2>8, NewConnIs
  <2>15. Mine(a)'
    <3>1. fds'[fd'[a]] = conn'[a] /\ fd'[a] \in Fd /\ conn'[a] = new
      BY <2>5, <2>11, <2>12
    <3>2. state'[a] = "Writing" /\ calling'[a] = r /\ a \notin Sync
      BY <1>0, <2>11
    <3>3. conns'[conn'[a]].client /\ conns'[conn'[a]].c2s = <<>> /\ conns'[conn'[a]].call = r
      BY <2>14, <3>1
    <3>4. conn'[a] # None
      BY <2>6, <3>1
    <3>5. QED
      BY <3>1, <3>2, <3>3, <3>4 DEF Mine
  <2>16. OneClient(a)
    <3>1. \A x \in Conn : conns'[x] = conns[x] \/ x = k \/ x \in FreeConns
      BY <2>2, <2>4, <2>8
    <3>2. \A x \in Conn : Waiting(x)' => Waiting(x) \/ x \in FreeConns
      BY <2>4, <2>10
    <3>3. ASSUME NEW m \in Fd
          PROVE  \/ fds'[m] = fds[m]
                 \/ fds[m] \in {None, k} /\ fds'[m] = None
                 \/ m = fd'[a] /\ fds'[m] = conn'[a] /\ conn'[a] \in FreeConns /\ fds[m] \in {None, k}
      BY <2>2, <2>4, <2>5, <2>11, <2>12
    <3>4. ASSUME NEW m \in Fd, k # None, fds'[m] = k
          PROVE  conns'[k].client /\ ~conns'[k].server
      BY <2>2, <2>6, <2>7, <2>8, <2>12, <3>4
    <3>5. QED
      BY <1>k, <2>4, <2>11, <3>1, <3>2, <3>3, <3>4 DEF OneClient
  <2>17. ASSUME NEW x \in Conn PROVE Sound(x)' \/ (conns'[x] = conns[x] /\ (Waiting(x)' => Waiting(x)))
    <3>1. CASE x = new
      BY <2>14, <3>1 DEF Sound
    <3>2. CASE x = k
      <4>1. Waiting(x)' => Waiting(x)
        BY <2>6, <2>10, <3>2
      <4>2. conns'[x] = cs[k] /\ k # None
        BY <1>f, <2>6, <2>8, <3>2
      <4>3. Sound(x)'
        BY <2>2, <3>2, <4>1, <4>2 DEF Sound, Whole, WholeIn
      <4>4. QED
        BY <4>3
    <3>3. CASE x # new /\ x # k
      BY <2>2, <2>8, <2>10, <3>3
    <3>4. QED
      BY <3>1, <3>2, <3>3
  <2>18. QED
    BY <1>0, <2>8, <2>10, <2>13, <2>15, <2>16, <2>17, ClientKeeps
<1>5. QED
  BY <1>3, <1>4

--------------------------------------------------------------------------
(* The invariant, and what it says                                          *)

LEMMA InitHolds == Init => SInv
<1> SUFFICES ASSUME Init PROVE Inv
  BY DEF SInv
<1>1. Made(conns)
  BY DEF Init, Made
<1>2. Ends
  <2>1. fd \in [Async -> Fd \cup {None}]
    BY SocketAssumption DEF Init
  <2>2. /\ \A c \in Sync : state[c] \in {"idle", "send", "read", "gone"}
        /\ \A a \in Async : state[a] \in {"Idle", "Writing", "Reading", "Error", "gone"}
    BY SocketAssumption DEF Init, Client
  <2>3. QED
    BY <2>1, <2>2, EmptySeq DEF Init, Ends
<1>3. S!ToSet(backlog) = {} /\ Len(backlog) = 0
  BY DEF Init, S!ToSet
<1>4. ServerEnds /\ Handling
  BY <1>3 DEF Init, ServerEnds, Handling
<1>5. \A c \in Client : conn[c] = None /\ state[c] \in {"idle", "Idle"}
  BY DEF Init, Client
<1>6. ClientEnds /\ AsyncEnds
  BY <1>5 DEF ClientEnds, AsyncEnds, Client
<1>7. Descriptors
  BY DEF Init, Descriptors
<1>8. Requesting
  <2>1. \A c \in Conn : conns[c] = Free
    BY DEF Init
  <2>2. \A c \in Conn : ~Waiting(c)
    BY <1>3 DEF Init, Waiting
  <2>3. QED
    BY <1>5, <2>1, <2>2 DEF Requesting
<1>9. QED
  BY <1>1, <1>2, <1>4, <1>6, <1>7, <1>8 DEF Inv

(* Once a client closed the descriptor of another, it did.                  *)
LEMMA StrayStays == ASSUME [Next]_vars, ~stray' PROVE ~stray
<1>1. CASE UNCHANGED vars
  BY <1>1 DEF vars, fdVars
<1>2. CASE Server \/ Interrupted \/ Die
  BY <1>2 DEF Server, Accept, ReadRequest, HandleRequest, SendResponse, Interrupted, Die, fdVars
<1>3. CASE \E c \in Sync : Send(c) \/ Read(c) \/ Kill(c) \/ \E r \in Calls : Call(c, r)
  BY <1>3 DEF Call, Send, Read, Kill, SyncUnchanged, fdVars
<1>4. CASE \E a \in Async, r \in Calls : SendRequest(a, r)
  BY <1>4 DEF SendRequest
<1>5. CASE \E a \in Async : Write(a) \/ Destroy(a)
  BY <1>5 DEF Write, Destroy, fdVars
<1>6. CASE \E a \in Async : ReadSome(a)
  BY <1>6 DEF ReadSome
<1>7. QED
  BY <1>1, <1>2, <1>3, <1>4, <1>5, <1>6 DEF Next

LEMMA NextKeeps == SInv /\ [Next]_vars => SInv'
<1> SUFFICES ASSUME SInv, [Next]_vars, ~stray' PROVE Inv'
  BY DEF SInv
<1>1. ~stray /\ Inv
  BY StrayStays DEF SInv
<1>2. CASE UNCHANGED vars
  BY <1>1, <1>2, UnchangedKeeps DEF vars, serverVars, clientVars, fdVars
<1>3. CASE Accept
  BY <1>1, <1>3, AcceptKeeps
<1>4. CASE ReadRequest
  BY <1>1, <1>4, ReadRequestKeeps
<1>5. CASE HandleRequest
  BY <1>1, <1>5, HandleRequestKeeps
<1>6. CASE SendResponse
  BY <1>1, <1>6, SendResponseKeeps
<1>7. CASE Interrupted
  BY <1>1, <1>7, InterruptedKeeps
<1>8. CASE Die
  BY <1>1, <1>8, DieKeeps
<1>9. CASE \E c \in Sync, r \in Calls : Call(c, r)
  BY <1>1, <1>9, CallKeeps
<1>10. CASE \E c \in Sync : Send(c)
  BY <1>1, <1>10, SendKeeps
<1>11. CASE \E c \in Sync : Read(c)
  BY <1>1, <1>11, ReadKeeps
<1>12. CASE \E c \in Sync : Kill(c)
  BY <1>1, <1>12, KillKeeps
<1>13. CASE \E a \in Async, r \in Calls : SendRequest(a, r)
  BY <1>1, <1>13, SendRequestKeeps
<1>14. CASE \E a \in Async : Write(a)
  BY <1>1, <1>14, WriteKeeps
<1>15. CASE \E a \in Async : ReadSome(a)
  BY <1>1, <1>15, ReadSomeKeeps
<1>16. CASE \E a \in Async : Destroy(a)
  BY <1>1, <1>16, DestroyKeeps
<1>17. QED
  BY <1>2, <1>3, <1>4, <1>5, <1>6, <1>7, <1>8, <1>9, <1>10, <1>11, <1>12, <1>13, <1>14, <1>15, <1>16
     DEF Next, Server

(* Every end of a connection is where the daemon and its clients think it is *)
(* (socketserver.cpp, socketclient.cpp, asyncsocket.cpp).                   *)
THEOREM SocketInvariant == Spec => []SInv
<1>1. Init => SInv
  BY InitHolds
<1>2. SInv /\ [Next]_vars => SInv'
  BY NextKeeps
<1>3. QED
  BY <1>1, <1>2, PTL DEF Spec

(* A descriptor that stays open with nobody to close it belongs to a         *)
(* connection the daemon has left (asyncsocket.cpp:117).                    *)
THEOREM DescriptorsAlwaysOwned == Spec => []DescriptorsOwned
<1>1. SInv => DescriptorsOwned
  <2> SUFFICES ASSUME SInv, ~stray, NEW n \in Fd, fds[n] # None
               PROVE  \/ \E a \in Async : fd[a] = n /\ conn[a] = fds[n]
                                          /\ state[a] \in {"Writing", "Reading", "Error"}
                      \/ ~conns[fds[n]].server
    BY DEF DescriptorsOwned
  <2>1. Descriptors /\ AsyncEnds
    BY DEF SInv, Inv
  <2>2. QED
    BY <2>1 DEF Descriptors, AsyncEnds
<1>2. QED
  BY <1>1, SocketInvariant, PTL

(* The daemon indexes the directories some client asked for, all of them and *)
(* no others, unless that client went away before it had sent its request   *)
(* (socketserver.cpp, readRequest() and handleRequest()).                   *)
THEOREM AlwaysActsOnWhole == Spec => []ActsOnWhole
<1>1. SInv => ActsOnWhole
  BY DEF SInv, Inv, Handling, ActsOnWhole
<1>2. QED
  BY <1>1, SocketInvariant, PTL

--------------------------------------------------------------------------
(* A response on its way                                                    *)

(* Of the answer a, g was read and s is there to be read; r and the end of  *)
(* it are yet to come, or nothing is.                                       *)
Ended(r) == Append(r, End)
Rest(a, g, s, r) == (g \o s) \o Ended(r) = Ended(a)
All(a, g, s)     == g \o s = Ended(a)

Regroups(x, y, z, u) == (x \o (y \o z)) \o u = (x \o y) \o (z \o u)
LEMMA RegroupsAll ==
  ASSUME NEW V, NEW x \in Seq(V), NEW y \in Seq(V), NEW z \in Seq(V), NEW u \in Seq(V)
  PROVE  Regroups(x, y, z, u)
<1>1. x \o (y \o z) = (x \o y) \o z
  BY ConcatAssociative
<1>2. x \o y \in Seq(V)
  OBVIOUS
<1>3. PICK h : h = x \o y
  OBVIOUS
<1>4. (h \o z) \o u = h \o (z \o u)
  BY <1>2, <1>3, ConcatAssociative
<1>5. QED
  BY <1>1, <1>3, <1>4, Zenon DEF Regroups

LEMMA AnswerStarts == ASSUME NEW a \in Texts PROVE Rest(a, <<>>, <<>>, a)
<1>1. PICK w : w = Ended(a)
  OBVIOUS
<1>2. w \in Texts
  BY <1>1, EndIsLine DEF Texts, Ended
<1>3. <<>> \o <<>> = <<>> /\ <<>> \o w = w
  BY <1>2, ConcatEmptySeq, EmptySeq DEF Texts
<1>4. QED
  BY <1>1, <1>3, Zenon DEF Rest, Ended

Within(n, r) == n \in 1..Len(r)

LEMMA PartComes ==
  ASSUME NEW a \in Texts, NEW g \in Texts, NEW s \in Texts, NEW r \in Texts, Rest(a, g, s, r),
         NEW n, Within(n, r), NEW w, w = Ended(r)
  PROVE  /\ s \o SubSeq(w, 1, n) \in Texts /\ SubSeq(r, n + 1, Len(r)) \in Texts
         /\ Rest(a, g, s \o SubSeq(w, 1, n), SubSeq(r, n + 1, Len(r)))
<1>1. PICK V, e : V = Line /\ e = End
  OBVIOUS
<1>2. r \in Seq(V) /\ s \in Seq(V) /\ g \in Seq(V) /\ e \in V
  BY <1>1, EndIsLine DEF Texts
<1>n. n \in 1..Len(r)
  BY DEF Within
<1>3. PICK p, q : p = SubSeq(w, 1, n) /\ q = SubSeq(r, n + 1, Len(r))
  OBVIOUS
<1>4. PICK t : t = Append(q, e)
  OBVIOUS
<1>w. PICK v : v = Append(r, e)
  OBVIOUS
<1>v. w = v
  BY <1>1, <1>w DEF Ended
<1>5. v \in Seq(V) /\ Len(v) = Len(r) + 1 /\ v[Len(r) + 1] = e /\ \A i \in 1..Len(r) : v[i] = r[i]
  BY <1>2, <1>w
<1>6. p \in Seq(V) /\ Len(p) = n /\ \A i \in 1..n : p[i] = v[i]
  BY <1>n, <1>3, <1>5, <1>v
<1>7. q \in Seq(V) /\ Len(q) = Len(r) - n /\ \A i \in 1..Len(q) : q[i] = r[n + i]
  BY <1>n, <1>2, <1>3
<1>8. t \in Seq(V) /\ Len(t) = Len(q) + 1 /\ t[Len(q) + 1] = e /\ \A i \in 1..Len(q) : t[i] = q[i]
  BY <1>2, <1>4, <1>7, AppendProperties
<1>9. Joins(v, p, t)
  <2>1. Len(v) = Len(p) + Len(t)
    BY <1>n, <1>2, <1>5, <1>6, <1>7, <1>8
  <2>2. \A i \in 1..Len(p) : v[i] = p[i]
    BY <1>6
  <2>3. ASSUME NEW i \in 1..Len(t)  PROVE v[Len(p) + i] = t[i]
    <3>1. CASE i = Len(q) + 1
      <4>1. Len(p) + i = Len(r) + 1
        BY <1>n, <1>2, <1>6, <1>7, <3>1
      <4>2. QED
        BY <1>5, <1>8, <3>1, <4>1
    <3>2. CASE i # Len(q) + 1
      <4>1. i \in 1..Len(q) /\ n + i \in 1..Len(r)
        <5>1. PICK m, l, j : m = Len(q) /\ l = Len(r) /\ j = Len(t)
          OBVIOUS
        <5>2. m \in Nat /\ l \in Nat /\ m = l - n /\ j = m + 1 /\ n \in 1..l /\ i \in 1..j /\ i # m + 1
          BY <1>n, <1>2, <1>7, <1>8, <3>2, <5>1
        <5>3. i \in 1..m /\ n + i \in 1..l
          BY <5>2
        <5>4. QED
          BY <5>1, <5>3
      <4>2. QED
        BY <1>5, <1>6, <1>7, <1>8, <4>1
    <3>3. QED
      BY <3>1, <3>2
  <2>4. QED
    BY <2>1, <2>2, <2>3 DEF Joins
<1>10. v = p \o t
  BY <1>5, <1>6, <1>8, <1>9, JoinsIs
<1>11. (g \o (s \o p)) \o t = (g \o s) \o v
  <2>1. g \in Seq(V) /\ s \in Seq(V) /\ p \in Seq(V) /\ t \in Seq(V)
    BY <1>2, <1>6, <1>8
  <2>2. Regroups(g, s, p, t)
    BY <2>1, RegroupsAll
  <2>3. (g \o (s \o p)) \o t = (g \o s) \o (p \o t)
    BY <2>2, Zenon DEF Regroups
  <2>4. QED
    BY <1>10, <2>3, Zenon
<1>12. s \o p \in Texts /\ q \in Texts
  BY <1>1, <1>2, <1>6, <1>7 DEF Texts
<1>13. Rest(a, g, s \o p, q)
  BY <1>1, <1>4, <1>11, <1>v, Zenon DEF Rest, Ended
<1>14. QED
  BY <1>3, <1>12, <1>13

LEMMA RestComes ==
  ASSUME NEW a \in Texts, NEW g \in Texts, NEW s \in Texts, NEW r \in Texts, Rest(a, g, s, r),
         NEW w, w = Ended(r)
  PROVE  s \o w \in Texts /\ All(a, g, s \o w)
<1>1. w \in Texts
  BY EndIsLine DEF Texts, Ended
<1>2. g \o (s \o w) = (g \o s) \o w
  BY <1>1, ConcatAssociative DEF Texts
<1>3. s \o w \in Texts
  BY <1>1 DEF Texts
<1>4. QED
  BY <1>2, <1>3, Zenon DEF Rest, All

LEMMA MoreIsRead ==
  ASSUME NEW a \in Texts, NEW g \in Texts, NEW s \in Texts, NEW r \in Texts, Rest(a, g, s, r)
  PROVE  g \o s \in Texts /\ Rest(a, g \o s, <<>>, r)
<1>1. PICK t : t = g \o s
  OBVIOUS
<1>2. t \in Texts
  BY <1>1 DEF Texts
<1>3. t \o <<>> = t
  BY <1>2, ConcatEmptySeq DEF Texts
<1>4. QED
  BY <1>1, <1>2, <1>3, Zenon DEF Rest, Ended

LEMMA RestLacks ==
  ASSUME NEW a \in Texts, NEW g \in Texts, NEW s \in Texts, NEW r \in Texts, Rest(a, g, s, r), Lacks(a, End)
  PROVE  Lacks(s, End)
<1>1. PICK V, e : V = Line /\ e = End
  OBVIOUS
<1>2. r \in Seq(V) /\ s \in Seq(V) /\ g \in Seq(V) /\ a \in Seq(V) /\ e \in V /\ Lacks(a, e)
  BY <1>1, EndIsLine DEF Texts
<1>3. PICK t, v, w : t = g \o s /\ v = Append(r, e) /\ w = Append(a, e)
  OBVIOUS
<1>4. w = t \o v
  BY <1>1, <1>3, Zenon DEF Rest, Ended
<1>5. t \in Seq(V) /\ v \in Seq(V) /\ w \in Seq(V) /\ Len(v) > 0
  BY <1>2, <1>3
<1>6. EndsWith(w, a, e)
  BY <1>2, <1>3, <1>5, EndsWithIs
<1>7. Joins(w, t, v) /\ Joins(t, g, s)
  BY <1>2, <1>3, <1>4, <1>5, JoinsIs
<1>8. Lacks(s, e)
  BY <1>2, <1>5, <1>6, <1>7, EndIsLast
<1>9. QED
  BY <1>1, <1>8

LEMMA AllRead ==
  ASSUME NEW a \in Texts, NEW g \in Texts, NEW s \in Texts, All(a, g, s), Lacks(a, End), Lacks(g, End)
  PROVE  ~Lacks(s, End) /\ g \o Before(s) = a
<1>1. PICK V, e : V = Line /\ e = End
  OBVIOUS
<1>2. s \in Seq(V) /\ g \in Seq(V) /\ a \in Seq(V) /\ e \in V /\ Lacks(a, e) /\ Lacks(g, e)
  BY <1>1, EndIsLine DEF Texts
<1>3. PICK w : w = Append(a, e)
  OBVIOUS
<1>4. w \in Seq(V) /\ w = g \o s
  <2>1. w = g \o s
    BY <1>1, <1>3, Zenon DEF All, Ended
  <2>2. QED
    BY <1>2, <1>3, <2>1
<1>5. EndsWith(w, a, e) /\ Joins(w, g, s)
  BY <1>2, <1>3, <1>4, EndsWithIs, JoinsIs
<1>6. PICK b \in Seq(V) : EndsWith(s, b, e) /\ Lacks(b, e) /\ Joins(a, g, b)
  BY <1>2, <1>4, <1>5, WholeIsThere
<1>7. s = Append(b, e)
  BY <1>2, <1>6, EndsWithIs
<1>8. CutAt(s, e) = b
  BY <1>2, <1>6, <1>7, CutAtEnd
<1>9. a = g \o b
  BY <1>2, <1>6, JoinsIs
<1>10. ~Lacks(s, e)
  BY <1>2, <1>6, LacksIs DEF EndsWith
<1>11. Before(s) = b
  BY <1>1, <1>8, BeforeIsCut
<1>12. QED
  BY <1>1, <1>9, <1>10, <1>11

LEMMA AllSplit ==
  ASSUME NEW a \in Texts, NEW g \in Texts, NEW s \in Texts, All(a, g, s), Lacks(a, End)
  PROVE  Split(g \o s) = a
<1>1. PICK V, e : V = Line /\ e = End
  OBVIOUS
<1>2. a \in Seq(V) /\ e \in V /\ Lacks(a, e)
  BY <1>1, EndIsLine DEF Texts
<1>3. PICK l : l = Append(a, e)
  OBVIOUS
<1>4. S!FlattenSeq([i \in 1..Len(l) |-> IF l[i] = e THEN <<>> ELSE <<l[i]>>]) = a
  BY <1>2, <1>3, SplitOf
<1>5. Split(l) = a
  BY <1>1, <1>4, Zenon DEF Split, End
<1>6. l = g \o s
  BY <1>1, <1>3, Zenon DEF All, Ended
<1>7. QED
  BY <1>5, <1>6

(* What the server answered to a call.                                      *)
Answers(k) ==
    /\ k.answer \in Texts /\ Lacks(k.answer, End)
    /\ k.call[1] = "query" => \/ k.hits \in HitLists /\ k.answer = QueryLines(k.hits)
                              \/ k.hits = <<>> /\ Len(k.answer) <= 6

LEMMA HitsArrive ==
  ASSUME NEW k, Answers(k), k.call[1] = "query", Plain(k.hits)
  PROVE  ParseHits(k.answer) = k.hits
<1>1. CASE k.hits \in HitLists /\ k.answer = QueryLines(k.hits)
  <2>1. PICK hs : hs = k.hits
    OBVIOUS
  <2>2. hs \in Seq(Hit)
    BY <1>1, <2>1, HitListsAre
  <2>3. ParseHits(QueryLines(hs)) = hs
    BY <2>1, <2>2, HitsRoundTrip
  <2>4. QED
    BY <1>1, <2>1, <2>3
<1>2. CASE k.hits = <<>> /\ Len(k.answer) <= 6
  BY <1>2, NoHits DEF Answers
<1>3. QED
  BY <1>1, <1>2 DEF Answers

--------------------------------------------------------------------------
(* What is on its way to a client: nothing before the server responds, then *)
(* the part it sent, and in the end all of it, when the server has closed.  *)
Sending(c)      == server = "send" /\ serving = c
Nothing(k, g)   == g = <<>> /\ k.s2c = <<>> /\ ~k.done
Coming(k, g, r) == ~k.done /\ Answers(k) /\ Rest(k.answer, g, k.s2c, r)
There(k, g)     == k.done /\ ~k.server /\ Answers(k) /\ All(k.answer, g, k.s2c)
Carries(x) == IF Sending(conn[x]) THEN Coming(conns[conn[x]], got[x], response)
              ELSE Nothing(conns[conn[x]], got[x]) \/ There(conns[conn[x]], got[x])

Delivery ==
    /\ got \in [Client -> Texts]
    /\ \A c \in Sync : Lacks(got[c], End) /\ (state[c] = "idle" => got[c] = <<>>)
    /\ \A x \in Client : Busy(x) => Carries(x)
    /\ server = "send" => response \in Texts
    /\ server = "handle" => request \in Texts /\ Lacks(request, End)
    /\ \A c \in Conn : conns[c].c2s \in Texts /\ conns[c].s2c \in Texts
    /\ Dirs(indexed)

Same(k, l) == \A x \in {"s2c", "call", "hits", "answer", "done"} : l[x] = k[x]

LEMMA StaysThere ==
  ASSUME NEW k, NEW l, NEW g, Same(k, l), l.server => k.server
  PROVE  /\ Nothing(k, g) => Nothing(l, g)
         /\ There(k, g) => There(l, g)
         /\ \A r : Coming(k, g, r) => Coming(l, g, r)
<1>1. l.s2c = k.s2c /\ l.call = k.call /\ l.hits = k.hits /\ l.answer = k.answer /\ l.done = k.done
  BY DEF Same
<1>2. Answers(k) => Answers(l)
  BY <1>1 DEF Answers
<1>3. QED
  BY <1>1, <1>2, Zenon DEF Nothing, There, Coming

LEMMA NoneIsText == <<>> \in Texts
  BY EmptySeq DEF Texts

LEMMA ServerDelivers ==
  ASSUME Delivery, UNCHANGED clientVars,
         \A c \in Conn : conns'[c].c2s \in Texts /\ conns'[c].s2c \in Texts,
         server' = "send" => response' \in Texts,
         server' = "handle" => request' \in Texts /\ Lacks(request', End),
         Dirs(indexed'), \A x \in Client : Busy(x) => Carries(x)'
  PROVE  Delivery'
<1>1. state' = state /\ got' = got
  BY DEF clientVars
<1>2. QED
  BY <1>1 DEF Delivery, Busy

LEMMA BusyHas ==
  ASSUME Inv, NEW x \in Client, Busy(x)
  PROVE  /\ conn[x] \in Conn /\ conns[conn[x]].client /\ conns[conn[x]] # Free /\ conn[x] \notin FreeConns
         /\ ~conns[conn[x]].cut /\ conns[conn[x]].call \in Calls /\ conn[x] # None
<1>1. conn[x] # None
  BY BusyHasConn DEF Inv, Busy
<1>2. QED
  BY <1>1, BusyIsUsed

LEMMA QuietServer ==
  ASSUME Inv, Delivery, UNCHANGED clientVars, server # "send", server' # "send",
         \A c \in Conn : conns[c].client => Same(conns[c], conns'[c]) /\ (conns'[c].server => conns[c].server)
  PROVE  \A x \in Client : Busy(x) => Carries(x)'
<1> SUFFICES ASSUME NEW x \in Client, Busy(x) PROVE Carries(x)'
  OBVIOUS
<1>1. PICK c, g : c = conn[x] /\ g = got[x]
  OBVIOUS
<1>2. conn'[x] = c /\ got'[x] = g
  BY <1>1 DEF clientVars
<1>3. Nothing(conns[c], g) \/ There(conns[c], g)
  BY <1>1 DEF Delivery, Carries, Sending
<1>4. c \in Conn /\ conns[c].client
  BY <1>1, BusyHas
<1>5. PICK k, l : k = conns[c] /\ l = conns'[c]
  OBVIOUS
<1>6. Nothing(l, g) \/ There(l, g)
  BY <1>3, <1>4, <1>5, StaysThere
<1>7. QED
  BY <1>2, <1>5, <1>6 DEF Carries, Sending

LEMMA AcceptDelivers == ASSUME Inv, Delivery, Accept PROVE Delivery'
<1>1. server = "accept" /\ server' = "read" /\ UNCHANGED <<conns, indexed, clientVars>>
  BY DEF Accept
<1>2. \A c \in Conn : Same(conns[c], conns'[c]) /\ (conns'[c].server => conns[c].server)
  BY <1>1 DEF Same
<1>3. \A x \in Client : Busy(x) => Carries(x)'
  BY <1>1, <1>2, QuietServer
<1>4. QED
  BY <1>1, <1>3, ServerDelivers DEF Delivery

LEMMA ReadRequestDelivers == ASSUME Inv, Delivery, ReadRequest PROVE Delivery'
<1>0. Made(conns) /\ Ends /\ ServerEnds
  BY DEF Inv
<1>1. PICK left : left = After(conns[serving].c2s)
  OBVIOUS
<1>2. /\ server = "read" /\ serving \in Conn /\ conns[serving] # Free
      /\ server' = "handle" /\ request' = Before(conns[serving].c2s)
      /\ UNCHANGED <<indexed, clientVars>>
  BY <1>0, EmptyIsFree DEF ReadRequest, ServerEnds, Ends
<1>3. conns' = Put(conns, serving, "c2s", left)
  BY <1>0, <1>1, <1>2 DEF ReadRequest, Made, Put
<1>4. /\ \A d \in Conn \ {serving} : conns'[d] = conns[d]
      /\ conns'[serving]["c2s"] = left
      /\ \A x \in Fields \ {"c2s"} : conns'[serving][x] = conns[serving][x]
  <2>1. PICK cs : cs = Put(conns, serving, "c2s", left)
    OBVIOUS
  <2>2. Made(conns) /\ serving \in Conn /\ conns[serving] # Free
    BY <1>0, <1>2
  <2>3. /\ \A d \in Conn \ {serving} : cs[d] = conns[d]
        /\ cs[serving]["c2s"] = left
        /\ \A x \in Fields \ {"c2s"} : cs[serving][x] = conns[serving][x]
    BY <2>1, <2>2, PutDoes
  <2>4. QED
    BY <1>3, <2>1, <2>3
<1>5. left \in Texts /\ request' \in Texts /\ Lacks(request', End)
  <2>1. PICK s \in Texts : s = conns[serving].c2s
    BY <1>2 DEF Delivery
  <2>2. QED
    BY <1>1, <1>2, <2>1, BeforeIs
<1>6. Same(conns[serving], conns'[serving]) /\ conns'[serving].server = conns[serving].server
  BY <1>4 DEF Same, Fields
<1>7. \A c \in Conn : Same(conns[c], conns'[c]) /\ (conns'[c].server => conns[c].server)
  <2>1. \A k : Same(k, k)
    BY DEF Same
  <2>2. QED
    BY <1>4, <1>6, <2>1
<1>8. \A x \in Client : Busy(x) => Carries(x)'
  BY <1>2, <1>7, QuietServer
<1>9. ASSUME NEW c \in Conn  PROVE conns'[c].c2s \in Texts /\ conns'[c].s2c \in Texts
  <2>1. CASE c = serving
    BY <1>4, <1>5, <2>1 DEF Fields, Delivery
  <2>2. CASE c # serving
    BY <1>4, <2>2 DEF Delivery
  <2>3. QED
    BY <2>1, <2>2
<1>10. Dirs(indexed')
  BY <1>2 DEF Delivery
<1>11. QED
  BY <1>2, <1>5, <1>8, <1>9, <1>10, ServerDelivers

LEMMA LeavesDelivers ==
  ASSUME Inv, Delivery, NEW D \in SUBSET Conn, \A d \in D : conns[d] # Free,
         conns' = [c \in Conn |-> IF c \in D THEN ServerCloses(conns, c)[c] ELSE conns[c]],
         server # "send", server' \in {"left", "dead"}, UNCHANGED <<indexed, clientVars>>
  PROVE  Delivery'
<1>0. Made(conns)
  BY DEF Inv
<1>1. ASSUME NEW c \in Conn
      PROVE  /\ conns[c].client => Same(conns[c], conns'[c]) /\ (conns'[c].server => conns[c].server)
             /\ conns'[c].c2s \in Texts /\ conns'[c].s2c \in Texts
  <2>0. conns[c].c2s \in Texts /\ conns[c].s2c \in Texts
    BY DEF Delivery
  <2>1. CASE c \in D
    <3>1. PICK l : l = ServerCloses(conns, c)[c]
      OBVIOUS
    <3>2. conns'[c] = l /\ conns[c] # Free
      BY <2>1, <3>1
    <3>3. /\ ~l.server /\ l.c2s = <<>> /\ l.s2c \in {<<>>, conns[c].s2c}
          /\ conns[c].client => \A x \in Fields \ {"server", "c2s", "reset"} : l[x] = conns[c][x]
      BY <1>0, <3>1, <3>2, ServerClosesDoes
    <3>4. conns[c].client => Same(conns[c], l)
      BY <3>3 DEF Same, Fields
    <3>5. QED
      BY <2>0, <3>2, <3>3, <3>4, NoneIsText
  <2>2. CASE c \notin D
    BY <2>0, <2>2 DEF Same
  <2>3. QED
    BY <2>1, <2>2
<1>2. \A x \in Client : Busy(x) => Carries(x)'
  BY <1>1, QuietServer
<1>3. Dirs(indexed')
  BY DEF Delivery
<1>4. QED
  BY <1>1, <1>2, <1>3, ServerDelivers

LEMMA InterruptedDelivers == ASSUME Inv, Delivery, Interrupted PROVE Delivery'
<1>1. Ends /\ ServerEnds
  BY DEF Inv
<1>2. S!ToSet(backlog) \in SUBSET Conn
  BY <1>1 DEF Ends, S!ToSet
<1>3. \A d \in S!ToSet(backlog) : conns[d] # Free
  BY <1>1, EmptyIsFree DEF ServerEnds
<1>4. QED
  BY <1>2, <1>3, LeavesDelivers DEF Interrupted

LEMMA DieDelivers == ASSUME Inv, Delivery, Die PROVE Delivery'
<1>1. PICK D : D = {c \in Conn : conns[c] # Free}
  OBVIOUS
<1>2. conns' = [c \in Conn |-> IF c \in D THEN ServerCloses(conns, c)[c] ELSE conns[c]]
  BY <1>1 DEF Die
<1>3. QED
  BY <1>1, <1>2, LeavesDelivers DEF Die

(* A response begins to be sent, with nothing of it there yet.              *)
LEMMA RespondDelivers ==
  ASSUME Inv, Delivery, HandleRequest, server' = "send", NEW lines, NEW hits, Respond(lines, hits),
         Dirs(indexed'), lines \in Texts, Lacks(lines, End),
         \/ hits \in HitLists /\ lines = QueryLines(hits)
         \/ hits = <<>> /\ (request = <<>> \/ request[1] = "query" => Len(lines) <= 6)
  PROVE  Delivery'
<1>0. Made(conns) /\ Ends /\ ServerEnds /\ Handling
  BY DEF Inv
<1>1. /\ server = "handle" /\ serving \in Conn /\ conns[serving].server /\ conns[serving] # Free
      /\ server' = "send" /\ serving' = serving /\ response' = lines /\ UNCHANGED clientVars
  BY <1>0, EmptyIsFree DEF HandleRequest, ServerEnds, Ends, Respond
<1>2. PICK one, two : one = Put(conns, serving, "answer", lines) /\ two = Put(one, serving, "hits", hits)
  OBVIOUS
<1>3. conns' = two
  BY <1>0, <1>1, <1>2 DEF Respond, Put, Made
<1>4. /\ Made(one) /\ \A d \in Conn \ {serving} : one[d] = conns[d]
      /\ one[serving]["answer"] = lines
      /\ \A x \in Fields \ {"answer"} : one[serving][x] = conns[serving][x]
  <2>1. Made(conns) /\ serving \in Conn /\ conns[serving] # Free
    BY <1>0, <1>1
  <2>2. QED
    BY <1>2, <2>1, PutDoes
<1>5. one[serving] # Free
  <2>1. one[serving].server = conns[serving].server
    BY <1>4 DEF Fields
  <2>2. QED
    BY <1>1, <2>1, EmptyIsFree
<1>6. /\ \A d \in Conn \ {serving} : two[d] = one[d]
      /\ two[serving]["hits"] = hits
      /\ \A x \in Fields \ {"hits"} : two[serving][x] = one[serving][x]
  <2>1. Made(one) /\ serving \in Conn /\ one[serving] # Free
    BY <1>1, <1>4, <1>5
  <2>2. QED
    BY <1>2, <2>1, PutDoes
<1>7. PICK k, l : k = conns[serving] /\ l = two[serving]
  OBVIOUS
<1>8. /\ l.answer = lines /\ l.hits = hits /\ l.s2c = k.s2c /\ l.done = k.done /\ l.call = k.call /\ l.c2s = k.c2s
  BY <1>4, <1>6, <1>7 DEF Fields
<1>9. ASSUME NEW x \in Client, Busy(x)  PROVE Carries(x)'
  <2>1. PICK c, g : c = conn[x] /\ g = got[x]
    OBVIOUS
  <2>2. conn'[x] = c /\ got'[x] = g
    BY <1>1, <2>1 DEF clientVars
  <2>3. Nothing(conns[c], g) \/ There(conns[c], g)
    BY <1>1, <1>9, <2>1 DEF Delivery, Carries, Sending
  <2>4. c \in Conn /\ ~conns[c].cut /\ conns[c].call \in Calls
    BY <1>9, <2>1, BusyHas
  <2>5. CASE c # serving
    <3>1. conns'[c] = conns[c]
      BY <1>3, <1>4, <1>6, <2>4, <2>5
    <3>2. QED
      BY <1>1, <2>2, <2>3, <2>5, <3>1 DEF Carries, Sending
  <2>6. CASE c = serving
    <3>1. Nothing(k, g)
      BY <1>1, <1>7, <2>3, <2>6 DEF There
    <3>2. g = <<>> /\ l.s2c = <<>> /\ ~l.done
      BY <1>8, <3>1 DEF Nothing
    <3>3. request = <<>> \/ request[1] = k.call[1]
      <4>1. PICK r \in Calls : r = k.call
        BY <1>7, <2>4, <2>6
      <4>2. PICK b : b = Before(Append(r, ""))
        OBVIOUS
      <4>3. request = b
        BY <1>0, <1>1, <1>7, <2>4, <2>6, <4>1, <4>2 DEF Handling
      <4>4. b # <<>> => b[1] = r[1]
        BY <4>2, LinesBefore, Zenon
      <4>5. QED
        BY <4>1, <4>3, <4>4
    <3>4. Answers(l)
      <4>1. l.call[1] = "query" => request = <<>> \/ request[1] = "query"
        BY <1>8, <3>3
      <4>2. QED
        BY <1>8, <4>1 DEF Answers
    <3>5. Rest(lines, <<>>, <<>>, lines)
      BY AnswerStarts
    <3>6. Coming(l, g, lines)
      BY <1>8, <3>2, <3>4, <3>5, Zenon DEF Coming
    <3>7. conns'[c] = l /\ response' = lines /\ serving' = c /\ server' = "send"
      BY <1>1, <1>3, <1>7, <2>6
    <3>8. QED
      BY <2>2, <3>6, <3>7 DEF Carries, Sending
  <2>7. QED
    BY <2>5, <2>6
<1>10. ASSUME NEW c \in Conn  PROVE conns'[c].c2s \in Texts /\ conns'[c].s2c \in Texts
  <2>0. conns[c].c2s \in Texts /\ conns[c].s2c \in Texts
    BY DEF Delivery
  <2>1. CASE c = serving
    BY <1>3, <1>7, <1>8, <2>0, <2>1
  <2>2. CASE c # serving
    BY <1>3, <1>4, <1>6, <2>0, <2>2
  <2>3. QED
    BY <2>1, <2>2
<1>11. response' \in Texts /\ server' # "handle"
  BY <1>1
<1>12. QED
  BY <1>1, <1>9, <1>10, <1>11, ServerDelivers

LEMMA HandleRequestDelivers == ASSUME Inv, Delivery, HandleRequest PROVE Delivery'
<1>0. Delivery /\ server = "handle" /\ request \in Texts /\ Lacks(request, End) /\ Dirs(indexed)
      /\ UNCHANGED clientVars
  BY DEF Delivery, HandleRequest
<1>1. CASE Is("query", 4) /\ (\E hs \in HitLists : Respond(QueryLines(hs), hs)) /\ UNCHANGED <<indexed, setBy>>
  <2>1. PICK hs \in HitLists : Respond(QueryLines(hs), hs)
    BY <1>1
  <2>2. PICK lines : lines = QueryLines(hs)
    OBVIOUS
  <2>3. Respond(lines, hs) /\ server' = "send"
    BY <2>1, <2>2 DEF Respond
  <2>4. lines \in Texts /\ Lacks(lines, End)
    BY <2>2, HitListsAre, QueryLinesAre
  <2>5. Dirs(indexed')
    BY <1>0, <1>1
  <2>6. QED
    BY <2>2, <2>3, <2>4, <2>5, RespondDelivers
<1>2. CASE ~Is("query", 4) /\ ~IsSet /\ Respond(OtherResponse, <<>>) /\ UNCHANGED <<indexed, setBy>>
  <2>1. PICK lines, none : lines = OtherResponse /\ none = <<>>
    OBVIOUS
  <2>2. Respond(lines, none) /\ server' = "send"
    BY <1>2, <2>1 DEF Respond
  <2>3. /\ lines \in Texts /\ Lacks(lines, End)
        /\ request = <<>> \/ request[1] = "query" => Len(lines) <= 6
    BY <1>0, <2>1, OtherResponseIs
  <2>4. Dirs(indexed')
    BY <1>0, <1>2
  <2>5. QED
    BY <2>1, <2>2, <2>3, <2>4, RespondDelivers
<1>3. CASE IsSet /\ Respond(<<>>, <<>>) /\ indexed' = Directories
  <2>1. PICK none : none = <<>>
    OBVIOUS
  <2>2. Respond(none, none) /\ server' = "send"
    BY <1>3, <2>1 DEF Respond
  <2>3. none \in Texts /\ Lacks(none, End) /\ Len(none) <= 6
    BY <2>1, NoneIsText, NothingLacking
  <2>4. Dirs(indexed')
    BY <1>0, <1>3, DirectoriesAre
  <2>5. QED
    BY <2>1, <2>2, <2>3, <2>4, RespondDelivers
<1>4. CASE server' = "left" /\ UNCHANGED <<response, conns, indexed, setBy>>
  <2>1. \A c \in Conn : Same(conns[c], conns'[c]) /\ (conns'[c].server => conns[c].server)
    BY <1>4 DEF Same
  <2>2. \A x \in Client : Busy(x) => Carries(x)'
    BY <1>0, <1>4, <2>1, QuietServer
  <2>3. QED
    BY <1>0, <1>4, <2>2, ServerDelivers DEF Delivery
<1>5. QED
  BY <1>1, <1>2, <1>3, <1>4 DEF HandleRequest

LEMMA SendResponseDelivers == ASSUME Inv, Delivery, SendResponse PROVE Delivery'
<1>0. Made(conns) /\ Ends /\ ServerEnds
  BY DEF Inv
<1>1. /\ server = "send" /\ serving \in Conn /\ conns[serving].server /\ conns[serving] # Free
      /\ UNCHANGED <<indexed, clientVars>>
  BY <1>0, EmptyIsFree DEF SendResponse, ServerEnds, Ends
<1>2. PICK r \in Texts : r = response
  BY <1>1 DEF Delivery
<1>3. PICK w : w = Append(r, "")
  OBVIOUS
<1>4. w = Ended(r)
  BY <1>3, Zenon DEF Ended, End
<1>5. PICK k : k = conns[serving]
  OBVIOUS
<1>6. k.s2c \in Texts /\ k.c2s \in Texts
  BY <1>1, <1>5 DEF Delivery
<1>7. PICK n : n = IF Buffer - Len(k.s2c) < Len(w) THEN Buffer - Len(k.s2c) ELSE Len(w)
  OBVIOUS
<1>8. /\ n > 0 \/ ~k.client
      /\ IF k.client /\ n < Len(w)
         THEN /\ conns' = [conns EXCEPT ![serving].s2c = @ \o SubSeq(w, 1, n)]
              /\ response' = SubSeq(r, n + 1, Len(r)) /\ server' = server /\ serving' = serving
         ELSE /\ conns' = ServerCloses([conns EXCEPT ![serving].s2c = @ \o w, ![serving].done = TRUE], serving)
              /\ server' = "accept"
  BY <1>2, <1>3, <1>5, <1>7 DEF SendResponse
<1>9. ASSUME NEW x \in Client, Busy(x)
      PROVE  /\ conn[x] \in Conn /\ conns[conn[x]].client
             /\ conn'[x] = conn[x] /\ got'[x] = got[x] /\ got[x] \in Texts
             /\ conn[x] = serving => Coming(k, got[x], r)
             /\ conn[x] # serving => Nothing(conns[conn[x]], got[x]) \/ There(conns[conn[x]], got[x])
  BY <1>1, <1>2, <1>5, <1>9, BusyHas DEF Delivery, Carries, Sending, clientVars
<1>10. CASE k.client /\ n < Len(w)
  <2>1. Within(n, r)
    <3>1. PICK m \in Nat : m = Len(r)
      BY DEF Texts
    <3>2. Len(w) = m + 1
      BY <1>4, <3>1, EndIsLine DEF Ended, Texts
    <3>3. PICK j \in Nat : j = Len(k.s2c)
      BY <1>6 DEF Texts
    <3>4. n = IF Buffer - j < m + 1 THEN Buffer - j ELSE m + 1
      BY <1>7, <3>2, <3>3, Zenon
    <3>5. n < m + 1 /\ n > 0
      BY <1>8, <1>10, <3>2
    <3>b. PICK b \in Nat : b = Buffer
      BY SocketAssumption
    <3>c. b - j \in Int
      BY <3>3, <3>b
    <3>6. n \in 1..m
      <4>1. n = IF b - j < m + 1 THEN b - j ELSE m + 1
        BY <3>4, <3>b
      <4>2. n \in Int
        BY <3>c, <4>1
      <4>3. QED
        BY <3>5, <4>2
    <3>7. QED
      BY <3>1, <3>6 DEF Within
  <2>2. PICK p, q : p = k.s2c \o SubSeq(w, 1, n) /\ q = SubSeq(r, n + 1, Len(r))
    OBVIOUS
  <2>3. conns' = Put(conns, serving, "s2c", p) /\ response' = q /\ server' = "send" /\ serving' = serving
    BY <1>0, <1>1, <1>5, <1>8, <1>10, <2>2 DEF Put, Made
  <2>4. PICK cs : cs = Put(conns, serving, "s2c", p)
    OBVIOUS
  <2>5. /\ \A d \in Conn \ {serving} : cs[d] = conns[d]
        /\ cs[serving]["s2c"] = p
        /\ \A x \in Fields \ {"s2c"} : cs[serving][x] = k[x]
    <3>1. Made(conns) /\ serving \in Conn /\ conns[serving] # Free
      BY <1>0, <1>1
    <3>2. QED
      BY <1>5, <2>4, <3>1, PutDoes
  <2>6. PICK l : l = cs[serving]
    OBVIOUS
  <2>7. /\ l.s2c = p /\ l.answer = k.answer /\ l.hits = k.hits /\ l.done = k.done /\ l.call = k.call /\ l.c2s = k.c2s
    BY <2>5, <2>6 DEF Fields
  <2>8. p \in Texts /\ q \in Texts
    <3>1. PICK V, e : V = Line /\ e = End
      OBVIOUS
    <3>2. PICK m \in Nat : m = Len(r)
      BY DEF Texts
    <3>3. w \in Seq(V) /\ Len(w) = m + 1
      BY <1>4, <3>1, <3>2, EndIsLine DEF Ended, Texts
    <3>4. n \in 1..m
      BY <2>1, <3>2 DEF Within
    <3>5. SubSeq(w, 1, n) \in Seq(V)
      BY <3>3, <3>4
    <3>6. q \in Seq(V)
      BY <2>2, <3>1, <3>2, <3>4 DEF Texts
    <3>7. PICK u : u = SubSeq(w, 1, n)
      OBVIOUS
    <3>8. p = k.s2c \o u
      BY <2>2, <3>7
    <3>9. p \in Seq(V)
      BY <1>6, <3>1, <3>5, <3>7, <3>8 DEF Texts
    <3>10. QED
      BY <3>1, <3>6, <3>9 DEF Texts
  <2>9. ASSUME NEW x \in Client, Busy(x)  PROVE Carries(x)'
    <3>1. CASE conn[x] # serving
      <4>1. conns'[conn[x]] = conns[conn[x]]
        BY <1>9, <2>3, <2>4, <2>5, <2>9, <3>1
      <4>2. QED
        BY <1>9, <2>3, <2>9, <3>1, <4>1 DEF Carries, Sending
    <3>2. CASE conn[x] = serving
      <4>1. PICK g : g = got[x]
        OBVIOUS
      <4>2. PICK a, s : a = k.answer /\ s = k.s2c
        OBVIOUS
      <4>3. Coming(k, g, r) /\ g \in Texts /\ s \in Texts
        BY <1>6, <1>9, <2>9, <3>2, <4>1, <4>2
      <4>4. Rest(a, g, s, r) /\ ~k.done /\ Answers(k) /\ a \in Texts
        BY <4>2, <4>3 DEF Coming, Answers
      <4>5. Rest(a, g, p, q)
        BY <1>4, <2>1, <2>2, <4>2, <4>3, <4>4, PartComes
      <4>6. Answers(l) /\ ~l.done
        BY <2>7, <4>4 DEF Answers
      <4>7. Coming(l, g, q)
        BY <2>7, <4>2, <4>5, <4>6, Zenon DEF Coming
      <4>8. conns'[conn'[x]] = l /\ got'[x] = g /\ conn'[x] = serving
        BY <1>9, <2>3, <2>4, <2>6, <2>9, <3>2, <4>1
      <4>9. QED
        BY <2>3, <4>7, <4>8 DEF Carries, Sending
    <3>3. QED
      BY <3>1, <3>2
  <2>10. ASSUME NEW c \in Conn  PROVE conns'[c].c2s \in Texts /\ conns'[c].s2c \in Texts
    <3>1. CASE c = serving
      BY <1>6, <2>3, <2>4, <2>6, <2>7, <2>8, <3>1
    <3>2. CASE c # serving
      BY <2>3, <2>4, <2>5, <3>2 DEF Delivery
    <3>3. QED
      BY <3>1, <3>2
  <2>11. response' \in Texts /\ server' # "handle" /\ Dirs(indexed')
    BY <1>1, <2>3, <2>8 DEF Delivery
  <2>12. QED
    BY <1>1, <2>9, <2>10, <2>11, ServerDelivers
<1>11. CASE ~(k.client /\ n < Len(w))
  <2>1. PICK p, yes : p = k.s2c \o w /\ yes = TRUE
    OBVIOUS
  <2>2. PICK sent, done : sent = Put(conns, serving, "s2c", p) /\ done = Put(sent, serving, "done", yes)
    OBVIOUS
  <2>3. conns' = ServerCloses(done, serving) /\ server' = "accept"
    <3>1. [conns EXCEPT ![serving].s2c = @ \o w, ![serving].done = TRUE] = done
      BY <1>0, <1>1, <1>5, <2>1, <2>2 DEF Made, Put
    <3>2. QED
      BY <1>8, <1>11, <3>1
  <2>4. /\ Made(sent) /\ \A d \in Conn \ {serving} : sent[d] = conns[d]
        /\ sent[serving]["s2c"] = p
        /\ \A x \in Fields \ {"s2c"} : sent[serving][x] = k[x]
    <3>1. Made(conns) /\ serving \in Conn /\ conns[serving] # Free
      BY <1>0, <1>1
    <3>2. QED
      BY <1>5, <2>2, <3>1, PutDoes
  <2>5. sent[serving] # Free
    <3>1. sent[serving].server = k.server
      BY <2>4 DEF Fields
    <3>2. QED
      BY <1>1, <1>5, <3>1, EmptyIsFree
  <2>6. /\ Made(done) /\ \A d \in Conn \ {serving} : done[d] = sent[d]
        /\ done[serving]["done"] = yes
        /\ \A x \in Fields \ {"done"} : done[serving][x] = sent[serving][x]
    <3>1. Made(sent) /\ serving \in Conn /\ sent[serving] # Free
      BY <1>1, <2>4, <2>5
    <3>2. QED
      BY <2>2, <3>1, PutDoes
  <2>7. PICK d : d = done[serving]
    OBVIOUS
  <2>8. /\ d.s2c = p /\ d.answer = k.answer /\ d.hits = k.hits /\ d.call = k.call
        /\ d.client = k.client /\ d.server = k.server /\ d.done = yes
    BY <2>4, <2>6, <2>7 DEF Fields
  <2>9. PICK l : l = ServerCloses(done, serving)[serving]
    OBVIOUS
  <2>10. /\ ~l.server /\ l.c2s = <<>> /\ l.s2c \in {<<>>, p}
         /\ k.client => \A x \in Fields \ {"server", "c2s", "reset"} : l[x] = d[x]
         /\ \A c \in Conn \ {serving} : conns'[c] = conns[c]
    <3>1. Made(done) /\ serving \in Conn /\ done[serving] # Free
      BY <1>1, <1>5, <2>6, <2>7, <2>8, EmptyIsFree
    <3>2. PICK cs : cs = ServerCloses(done, serving)
      OBVIOUS
    <3>3. /\ ~cs[serving].server /\ cs[serving].c2s = <<>> /\ cs[serving].s2c \in {<<>>, done[serving].s2c}
          /\ done[serving].client => \A x \in Fields \ {"server", "c2s", "reset"} : cs[serving][x] = done[serving][x]
          /\ \A c \in Conn \ {serving} : cs[c] = done[c]
      BY <3>1, <3>2, ServerClosesDoes
    <3>4. QED
      BY <2>3, <2>4, <2>6, <2>7, <2>8, <2>9, <3>2, <3>3
  <2>11. k.client => l.s2c = p /\ l.answer = k.answer /\ l.hits = k.hits /\ l.call = k.call /\ l.done = yes
    BY <2>8, <2>10 DEF Fields
  <2>12. p \in Texts
    <3>1. w \in Texts
      BY <1>4, EndIsLine DEF Ended, Texts
    <3>2. QED
      BY <1>6, <2>1, <3>1 DEF Texts
  <2>13. ASSUME NEW x \in Client, Busy(x)  PROVE Carries(x)'
    <3>1. CASE conn[x] # serving
      <4>1. conns'[conn[x]] = conns[conn[x]]
        BY <1>9, <2>10, <2>13, <3>1
      <4>2. QED
        BY <1>9, <2>3, <2>13, <3>1, <4>1 DEF Carries, Sending
    <3>2. CASE conn[x] = serving
      <4>1. PICK g : g = got[x]
        OBVIOUS
      <4>2. PICK a, s : a = k.answer /\ s = k.s2c
        OBVIOUS
      <4>3. Coming(k, g, r) /\ g \in Texts /\ s \in Texts /\ k.client
        BY <1>5, <1>6, <1>9, <2>13, <3>2, <4>1, <4>2
      <4>4. Rest(a, g, s, r) /\ Answers(k) /\ a \in Texts
        BY <4>2, <4>3 DEF Coming, Answers
      <4>5. All(a, g, p)
        BY <1>4, <2>1, <4>2, <4>3, <4>4, RestComes
      <4>6. Answers(l)
        BY <2>11, <4>3, <4>4 DEF Answers
      <4>7. l.done
        BY <2>1, <2>11, <4>3, Zenon
      <4>8. There(l, g)
        BY <2>10, <2>11, <4>2, <4>3, <4>5, <4>6, <4>7, Zenon DEF There
      <4>9. conns'[conn'[x]] = l /\ got'[x] = g
        BY <1>9, <2>3, <2>9, <2>13, <3>2, <4>1
      <4>10. QED
        BY <2>3, <4>8, <4>9 DEF Carries, Sending
    <3>3. QED
      BY <3>1, <3>2
  <2>14. ASSUME NEW c \in Conn  PROVE conns'[c].c2s \in Texts /\ conns'[c].s2c \in Texts
    <3>1. CASE c = serving
      BY <2>3, <2>9, <2>10, <2>12, <3>1, NoneIsText
    <3>2. CASE c # serving
      BY <2>10, <3>2 DEF Delivery
    <3>3. QED
      BY <3>1, <3>2
  <2>15. Dirs(indexed') /\ server' \notin {"send", "handle"}
    BY <1>1, <2>3 DEF Delivery
  <2>16. QED
    BY <1>1, <2>13, <2>14, <2>15, ServerDelivers
<1>12. QED
  BY <1>10, <1>11

(* One client's step leaves the others what is on its way to them.          *)
LEMMA ClientDelivers ==
  ASSUME Inv, Delivery, NEW c \in Client, UNCHANGED serverVars, got' \in [Client -> Texts],
         \A d \in Client \ {c} : conn'[d] = conn[d] /\ state'[d] = state[d] /\ got'[d] = got[d],
         \A x \in Conn : conns'[x] = conns[x] \/ x = conn[c] \/ x \in FreeConns,
         \A x \in Conn : conns'[x].c2s \in Texts /\ conns'[x].s2c \in Texts,
         c \in Sync => Lacks(got'[c], End) /\ (state'[c] = "idle" => got'[c] = <<>>),
         Busy(c)' => Carries(c)'
  PROVE  Delivery'
<1>0. ClientEnds
  BY DEF Inv
<1>1. UNCHANGED <<serving, request, response, server, indexed>>
  BY DEF serverVars
<1>2. ASSUME NEW x \in Client, Busy(x)'  PROVE Carries(x)'
  <2>1. CASE x = c
    BY <1>2, <2>1
  <2>2. CASE x # c
    <3>1. Busy(x) /\ conn'[x] = conn[x] /\ got'[x] = got[x]
      BY <1>2, <2>2 DEF Busy
    <3>2. conn[x] \in Conn /\ conn[x] # None /\ conn[x] \notin FreeConns
      BY <3>1, BusyHas
    <3>3. conn[x] # conn[c]
      BY <1>0, <2>2, <3>2 DEF ClientEnds
    <3>4. conns'[conn[x]] = conns[conn[x]]
      BY <3>2, <3>3
    <3>5. Carries(x)
      BY <3>1 DEF Delivery
    <3>6. QED
      BY <1>1, <3>1, <3>4, <3>5 DEF Carries, Sending
  <2>3. QED
    BY <2>1, <2>2
<1>3. \A d \in Sync : Lacks(got'[d], End) /\ (state'[d] = "idle" => got'[d] = <<>>)
  BY DEF Delivery, Client
<1>4. QED
  BY <1>1, <1>2, <1>3 DEF Delivery

(* Nothing is on its way on a new connection; what is stays when a request  *)
(* is sent, and when part of it is read.                                    *)
LEMMA NewCarries ==
  ASSUME Inv, Listening, NEW c \in Client, NEW k \in FreeConns, NEW r \in Calls, UNCHANGED serverVars,
         conn'[c] = k, conns'[k] = NewConn(r), got'[c] = <<>>
  PROVE  Carries(c)'
<1>1. k # serving
  BY FreeIsNobodys
<1>2. UNCHANGED <<server, serving>>
  BY DEF serverVars
<1>3. conns'[k].s2c = <<>> /\ ~conns'[k].done
  BY NewConnIs
<1>4. Nothing(conns'[k], <<>>)
  BY <1>3 DEF Nothing
<1>5. QED
  BY <1>1, <1>2, <1>4 DEF Carries, Sending

LEMMA SentCarries ==
  ASSUME Inv, Delivery, NEW c \in Client, Busy(c), UNCHANGED serverVars, conn'[c] = conn[c], got'[c] = got[c],
         Same(conns[conn[c]], conns'[conn[c]]), conns'[conn[c]].server = conns[conn[c]].server
  PROVE  Carries(c)'
<1>1. UNCHANGED <<server, serving, response>>
  BY DEF serverVars
<1>2. PICK k, l, g : k = conns[conn[c]] /\ l = conns'[conn[c]] /\ g = got[c]
  OBVIOUS
<1>3. Same(k, l) /\ l.server = k.server
  BY <1>2
<1>4. /\ Nothing(k, g) => Nothing(l, g)
      /\ There(k, g) => There(l, g)
      /\ \A r : Coming(k, g, r) => Coming(l, g, r)
  BY <1>3, StaysThere
<1>5. Carries(c)
  BY DEF Delivery
<1>6. QED
  BY <1>1, <1>2, <1>4, <1>5 DEF Carries, Sending

Both(g, s) == g \o s

Emptied(k, l) == /\ l.s2c = <<>> /\ l.answer = k.answer /\ l.hits = k.hits
                 /\ l.call = k.call /\ l.done = k.done

LEMMA ReadCarries ==
  ASSUME Inv, Delivery, NEW c \in Client, Busy(c), UNCHANGED serverVars,
         NEW b, b = conn[c], conn'[c] = b, got'[c] = Both(got[c], conns[b].s2c),
         conns[b].server, conns[b].s2c # <<>>, Emptied(conns[b], conns'[b])
  PROVE  Carries(c)' /\ Lacks(conns[b].s2c, End) /\ got'[c] \in Texts
<1>k. PICK k, l : k = conns[b] /\ l = conns'[b]
  OBVIOUS
<1>l. l.s2c = <<>> /\ l.answer = k.answer /\ l.hits = k.hits /\ l.call = k.call /\ l.done = k.done
  BY <1>k DEF Emptied
<1>1. UNCHANGED <<server, serving, response>>
  BY DEF serverVars
<1>2. PICK g, s, a, r : g = got[c] /\ s = k.s2c /\ a = k.answer /\ r = response
  OBVIOUS
<1>3. Sending(conn[c]) /\ Coming(k, g, r)
  BY <1>k, <1>2 DEF Delivery, Carries, Nothing, There
<1>4. g \in Texts /\ s \in Texts /\ r \in Texts
  <2>1. conn[c] \in Conn
    BY BusyHas
  <2>2. QED
    BY <1>k, <1>2, <1>3, <2>1 DEF Delivery, Sending
<1>5. Rest(a, g, s, r) /\ Answers(k) /\ ~k.done /\ a \in Texts /\ Lacks(a, End)
  BY <1>2, <1>3 DEF Coming, Answers
<1>6. g \o s \in Texts /\ Rest(a, g \o s, <<>>, r)
  BY <1>4, <1>5, MoreIsRead
<1>7. Lacks(s, End)
  BY <1>4, <1>5, RestLacks
<1>8. Answers(l)
  BY <1>l, <1>5 DEF Answers
<1>9. PICK t, none : t = g \o s /\ none = <<>>
  OBVIOUS
<1>10. Rest(a, t, none, r)
  BY <1>6, <1>9, Zenon
<1>11. Coming(l, t, r)
  BY <1>l, <1>2, <1>5, <1>8, <1>9, <1>10, Zenon DEF Coming
<1>12. got'[c] = t
  BY <1>k, <1>2, <1>9 DEF Both
<1>13. Carries(c)'
  <2>1. conns'[conn'[c]] = l /\ server' = "send" /\ serving' = conn'[c]
    BY <1>k, <1>1, <1>3 DEF Sending
  <2>2. QED
    BY <1>1, <1>2, <1>11, <1>12, <2>1 DEF Carries, Sending
<1>14. QED
  BY <1>k, <1>2, <1>6, <1>7, <1>9, <1>12, <1>13

(* When the server's end is gone, or an end is there, all of the response is *)
(* - or nothing ever was.                                                   *)
LEMMA EndOfAnswer ==
  ASSUME Inv, Delivery, NEW c \in Client, Busy(c), NEW k, k = conns[conn[c]]
  PROVE  /\ ~k.server => ~k.done \/ There(k, got[c])
         /\ ~Lacks(k.s2c, End) => There(k, got[c])
         /\ got[c] \in Texts /\ k.s2c \in Texts
<1>0. ServerEnds
  BY DEF Inv
<1>1. PICK g, s, a, r : g = got[c] /\ s = k.s2c /\ a = k.answer /\ r = response
  OBVIOUS
<1>2. g \in Texts /\ s \in Texts
  <2>1. conn[c] \in Conn
    BY BusyHas
  <2>2. QED
    BY <1>1, <2>1 DEF Delivery
<1>3. CASE Sending(conn[c])
  <2>1. k.server /\ r \in Texts
    BY <1>0, <1>1, <1>3 DEF ServerEnds, Sending, Delivery
  <2>2. Coming(k, g, r)
    BY <1>1, <1>3 DEF Delivery, Carries
  <2>3. Rest(a, g, s, r) /\ a \in Texts /\ Lacks(a, End)
    BY <1>1, <2>2 DEF Coming, Answers
  <2>4. Lacks(s, End)
    BY <1>2, <2>1, <2>3, RestLacks
  <2>5. QED
    BY <1>1, <1>2, <2>1, <2>4
<1>4. CASE ~Sending(conn[c])
  <2>1. Nothing(k, g) \/ There(k, g)
    BY <1>1, <1>4 DEF Delivery, Carries
  <2>2. Nothing(k, g) => ~k.done /\ Lacks(k.s2c, End)
    BY NothingLacking DEF Nothing
  <2>3. QED
    BY <1>1, <1>2, <2>1, <2>2
<1>5. QED
  BY <1>3, <1>4

(* What a call gives is the answer to it.                                   *)
LEMMA AnswersCall ==
  ASSUME NEW k, NEW outcome, NEW lines, returned' = Outcome(outcome, lines, k),
         outcome = "answered" => k.done,
         k.done => Answers(k) /\ lines = k.answer
  PROVE  AnswerArrives'
<1>1. /\ returned'.outcome = outcome /\ returned'.lines = lines /\ returned'.call = k.call
      /\ returned'.hits = k.hits /\ returned'.answer = k.answer /\ returned'.done = k.done
  BY DEF Outcome
<1>2. ASSUME k.done, k.call[1] = "query", Plain(k.hits)  PROVE ParseHits(lines) = k.hits
  BY <1>2, HitsArrive
<1>3. QED
  BY <1>1, <1>2 DEF AnswerArrives

LEMMA SyncIs ==
  ASSUME Inv, Delivery, NEW c \in Sync
  PROVE  /\ c \in Client /\ c \notin Async /\ got[c] \in Texts /\ Lacks(got[c], End)
         /\ got \in [Client -> Texts] /\ state = [x \in Client |-> state[x]]
         /\ conn \in [Client -> Conn \cup {None}]
<1>1. Ends /\ c \in Client /\ c \notin Async
  BY SocketAssumption DEF Inv, Client
<1>2. QED
  BY <1>1 DEF Delivery, Ends

LEMMA CallDelivers == ASSUME Inv, Delivery, NEW c \in Sync, NEW r \in Calls, Call(c, r) PROVE Delivery'
<1>0. Made(conns) /\ c \in Client /\ state = [x \in Client |-> state[x]] /\ conn \in [Client -> Conn \cup {None}]
  BY SyncIs DEF Inv
<1>1. /\ state[c] = "idle" /\ got[c] = <<>> /\ got' = got /\ UNCHANGED serverVars
      /\ got \in [Client -> Texts] /\ Lacks(got[c], End)
  BY <1>0 DEF Call, SyncUnchanged, Delivery
<1>2. CASE ~Listening
  <2>1. UNCHANGED <<conns, conn, state>>
    BY <1>2 DEF Call
  <2>2. ~Busy(c)'
    BY <1>1, <2>1 DEF Busy
  <2>3. \A x \in Conn : conns'[x].c2s \in Texts /\ conns'[x].s2c \in Texts
    BY <2>1 DEF Delivery
  <2>4. QED
    BY <1>0, <1>1, <2>1, <2>2, <2>3, ClientDelivers
<1>3. CASE Listening
  <2>1. PICK k : k = Lowest(FreeConns)
    OBVIOUS
  <2>2. /\ k \in FreeConns /\ conns' = [conns EXCEPT ![k] = NewConn(r)]
        /\ conn' = [conn EXCEPT ![c] = k] /\ state' = [state EXCEPT ![c] = "send"]
    BY <1>3, <2>1, LowestFree DEF Call
  <2>3. k \in Conn /\ k # None
    BY <2>2, SocketAssumption DEF FreeConns
  <2>4. conns'[k] = NewConn(r) /\ \A x \in Conn \ {k} : conns'[x] = conns[x]
    <3>1. PICK cs : cs = [conns EXCEPT ![k] = NewConn(r)]
      OBVIOUS
    <3>2. cs[k] = NewConn(r) /\ \A x \in Conn \ {k} : cs[x] = conns[x]
      BY <1>0, <2>3, <3>1, TakenDoes
    <3>3. QED
      BY <2>2, <3>1, <3>2
  <2>5. conn'[c] = k /\ \A d \in Client \ {c} : conn'[d] = conn[d] /\ state'[d] = state[d]
    BY <1>0, <2>2
  <2>6. Carries(c)'
    BY <1>0, <1>1, <1>3, <2>2, <2>4, <2>5, NewCarries
  <2>7. \A x \in Conn : conns'[x].c2s \in Texts /\ conns'[x].s2c \in Texts
    <3>1. conns'[k].c2s \in Texts /\ conns'[k].s2c \in Texts
      BY <2>4, NewConnIs, NoneIsText
    <3>2. QED
      BY <2>4, <3>1 DEF Delivery
  <2>8. \A x \in Conn : conns'[x] = conns[x] \/ x = conn[c] \/ x \in FreeConns
    BY <2>2, <2>4
  <2>9. QED
    BY <1>0, <1>1, <2>5, <2>6, <2>7, <2>8, ClientDelivers
<1>4. QED
  BY <1>2, <1>3

(* A request is sent on a connection that takes it.                         *)
LEMMA SentDelivers ==
  ASSUME Inv, Delivery, NEW c \in Client, Busy(c), NEW k, k = conn[c],
         NEW w \in Texts, conns' = Sent(conns, k, w),
         UNCHANGED serverVars, UNCHANGED <<conn, got>>, NEW s \in {"read", "Reading"}, state' = [state EXCEPT ![c] = s]
  PROVE  Delivery'
<1>0. Made(conns) /\ state = [x \in Client |-> state[x]] /\ got \in [Client -> Texts]
  BY DEF Inv, Ends, Delivery
<1>1. k \in Conn /\ conns[k] # Free
  BY BusyHas
<1>l. PICK lines : lines = conns[k].c2s \o w
  OBVIOUS
<1>4. PICK cs : cs = Put(conns, k, "c2s", lines)
  OBVIOUS
<1>5. conns' = cs
  BY <1>0, <1>1, <1>l, <1>4, SentIs
<1>6. /\ \A x \in Conn \ {k} : cs[x] = conns[x]
      /\ cs[k]["c2s"] = lines
      /\ \A x \in Fields \ {"c2s"} : cs[k][x] = conns[k][x]
  <2>1. Made(conns) /\ k \in Conn /\ conns[k] # Free
    BY <1>0, <1>1
  <2>2. QED
    BY <1>4, <2>1, PutDoes
<1>7. Same(conns[k], cs[k]) /\ cs[k].server = conns[k].server /\ cs[k].c2s = lines /\ cs[k].s2c = conns[k].s2c
  BY <1>6 DEF Same, Fields
<1>8. lines \in Texts
  <2>1. conns[k].c2s \in Texts
    BY <1>1 DEF Delivery
  <2>2. QED
    BY <1>l, <2>1 DEF Texts
<1>9. Carries(c)'
  BY <1>5, <1>7, SentCarries
<1>10. \A d \in Client \ {c} : state'[d] = state[d]
  BY <1>0
<1>11. ASSUME NEW x \in Conn  PROVE conns'[x].c2s \in Texts /\ conns'[x].s2c \in Texts
  <2>1. conns[x].c2s \in Texts /\ conns[x].s2c \in Texts
    BY DEF Delivery
  <2>2. CASE x = k
    BY <1>5, <1>7, <1>8, <2>1, <2>2
  <2>3. CASE x # k
    BY <1>5, <1>6, <2>1, <2>3
  <2>4. QED
    BY <2>2, <2>3
<1>12. c \in Sync => Lacks(got'[c], End) /\ (state'[c] = "idle" => got'[c] = <<>>)
  BY <1>0 DEF Delivery
<1>13. \A x \in Conn : conns'[x] = conns[x] \/ x = conn[c] \/ x \in FreeConns
  BY <1>5, <1>6
<1>14. QED
  BY <1>0, <1>9, <1>10, <1>11, <1>12, <1>13, ClientDelivers

LEMMA RequestIsText == ASSUME NEW r \in Calls PROVE Append(r, "") \in Texts
<1>1. PICK w : w = Append(r, End)
  OBVIOUS
<1>2. w \in Texts
  BY <1>1, CallsAreLines
<1>3. QED
  BY <1>1, <1>2, Zenon DEF End

LEMMA SendDelivers == ASSUME Inv, Delivery, NEW c \in Sync, Send(c) PROVE Delivery'
<1>0. c \in Client /\ state = [x \in Client |-> state[x]] /\ got \in [Client -> Texts]
  BY SyncIs
<1>1. /\ state[c] = "send" /\ state' = [state EXCEPT ![c] = "read"] /\ Busy(c)
      /\ UNCHANGED <<conn, got>> /\ UNCHANGED serverVars
  BY DEF Send, SyncUnchanged, Busy
<1>2. PICK k : k = conn[c]
  OBVIOUS
<1>3. CASE conns[k].server
  <2>1. conns' = Sent(conns, k, Append(calling[c], ""))
    BY <1>2, <1>3 DEF Send
  <2>2. calling[c] = conns[k].call /\ conns[k].call \in Calls
    <3>1. calling[c] = conns[conn[c]].call
      BY <1>0, <1>1 DEF Inv, Requesting
    <3>2. conns[conn[c]].call \in Calls
      BY <1>0, <1>1, BusyHas
    <3>3. QED
      BY <1>2, <3>1, <3>2
  <2>3. PICK w : w = Append(calling[c], "")
    OBVIOUS
  <2>4. w \in Texts
    BY <2>2, <2>3, RequestIsText
  <2>5. QED
    BY <1>0, <1>1, <1>2, <2>1, <2>3, <2>4, SentDelivers
<1>4. CASE ~conns[k].server
  <2>1. conns' = conns
    BY <1>2, <1>4 DEF Send
  <2>2. Same(conns[conn[c]], conns'[conn[c]]) /\ conns'[conn[c]].server = conns[conn[c]].server
    BY <2>1 DEF Same
  <2>3. Carries(c)'
    BY <1>0, <1>1, <2>2, SentCarries
  <2>4. \A d \in Client \ {c} : state'[d] = state[d]
    BY <1>0, <1>1
  <2>5. \A x \in Conn : conns'[x].c2s \in Texts /\ conns'[x].s2c \in Texts
    BY <2>1 DEF Delivery
  <2>6. Lacks(got'[c], End) /\ state'[c] # "idle"
    BY <1>0, <1>1 DEF Delivery
  <2>7. QED
    BY <1>0, <1>1, <2>1, <2>3, <2>4, <2>5, <2>6, ClientDelivers
<1>5. QED
  BY <1>3, <1>4

LEMMA WriteDelivers == ASSUME Inv, Delivery, NEW a \in Async, Write(a) PROVE Delivery'
<1>k. PICK k : k = conn[a]
  OBVIOUS
<1>0. state = [x \in Client |-> state[x]] /\ got \in [Client -> Texts]
  BY DEF Inv, Ends, Delivery
<1>1. /\ state[a] = "Writing" /\ a \in Client /\ a \notin Sync /\ k # None /\ fds[fd[a]] = k /\ Busy(a)
      /\ UNCHANGED <<conn, got>> /\ UNCHANGED serverVars
  BY <1>k, AsyncHas DEF Write, Busy
<1>2. calling[a] = conns[k].call /\ conns[k].call \in Calls
  <2>1. calling[a] = conns[conn[a]].call
    BY <1>1 DEF Inv, Requesting
  <2>2. conns[conn[a]].call \in Calls
    BY <1>1, BusyHas
  <2>3. QED
    BY <1>k, <2>1, <2>2
<1>3. CASE conns[k].server
  <2>1. conns' = Sent(conns, k, Append(calling[a], "")) /\ state' = [state EXCEPT ![a] = "Reading"]
    BY <1>1, <1>3 DEF Write
  <2>2. PICK w : w = Append(calling[a], "")
    OBVIOUS
  <2>3. w \in Texts
    BY <1>2, <2>2, RequestIsText
  <2>4. QED
    BY <1>k, <1>1, <2>1, <2>2, <2>3, SentDelivers
<1>4. CASE ~conns[k].server
  <2>1. conns' = conns /\ state' = [state EXCEPT ![a] = "Error"]
    BY <1>1, <1>4 DEF Write
  <2>2. ~Busy(a)' /\ \A d \in Client \ {a} : state'[d] = state[d]
    BY <1>0, <1>1, <2>1 DEF Busy
  <2>3. \A x \in Conn : conns'[x].c2s \in Texts /\ conns'[x].s2c \in Texts
    BY <2>1 DEF Delivery
  <2>4. QED
    BY <1>0, <1>1, <2>1, <2>2, <2>3, ClientDelivers
<1>5. QED
  BY <1>3, <1>4

LEMMA KillDelivers == ASSUME Inv, Delivery, NEW c \in Sync, Kill(c) PROVE Delivery'
<1>0. /\ Made(conns) /\ c \in Client /\ state = [x \in Client |-> state[x]] /\ conn \in [Client -> Conn \cup {None}]
      /\ got \in [Client -> Texts]
  BY SyncIs DEF Inv
<1>1. /\ state[c] \in {"send", "read"} /\ UNCHANGED serverVars
      /\ state' = [state EXCEPT ![c] = "gone"] /\ conn' = [conn EXCEPT ![c] = None]
      /\ got' = [got EXCEPT ![c] = <<>>] /\ Busy(c)
  BY DEF Kill, SyncUnchanged, Busy
<1>k. PICK k : k = conn[c]
  OBVIOUS
<1>2. k \in Conn /\ conns[k] # Free /\ conns[k].client /\ conns[k].call \in Calls
  BY <1>0, <1>1, <1>k, BusyHas
<1>3. /\ \A d \in Conn \ {k} : conns'[d] = conns[d]
      /\ conns'[k].c2s \in Texts /\ conns'[k].s2c = <<>>
  <2>0. Made(conns) /\ k \in Conn /\ conns[k] # Free /\ conns[k].c2s \in Texts
    BY <1>0, <1>2 DEF Delivery
  <2>1. CASE state[c] = "send"
    <3>1. PICK n : /\ conns' = ClientCloses(GivesUp(Sent(conns, k, SubSeq(calling[c], 1, n)), k), k)
                   /\ n \in 0..(IF conns[k].server THEN Len(calling[c]) ELSE 0)
      BY <1>k, <2>1 DEF Kill
    <3>2. PICK sent : sent = SubSeq(calling[c], 1, n)
      OBVIOUS
    <3>3. sent \in Texts
      <4>1. PICK r \in Calls : r = calling[c]
        <5>1. calling[c] = conns[conn[c]].call
          BY <1>0, <2>1 DEF Inv, Requesting
        <5>2. QED
          BY <1>2, <1>k, <5>1
      <4>2. r \in Texts
        BY CallsAreLines
      <4>3. PICK m \in Nat : m = Len(r)
        BY <4>2 DEF Texts
      <4>4. n \in 0..m
        BY <3>1, <4>1, <4>3
      <4>5. QED
        BY <3>2, <4>1, <4>2, <4>3, <4>4 DEF Texts
    <3>4. PICK lines : lines = conns[k].c2s \o sent
      OBVIOUS
    <3>5. lines \in Texts
      BY <2>0, <3>3, <3>4 DEF Texts
    <3>6. PICK cs : cs = Put(conns, k, "c2s", lines)
      OBVIOUS
    <3>7. conns' = ClientCloses(GivesUp(cs, k), k)
      <4>1. Sent(conns, k, sent) = cs
        BY <2>0, <3>4, <3>6, SentIs
      <4>2. QED
        BY <3>1, <3>2, <4>1
    <3>8. /\ Made(cs) /\ \A x \in Conn \ {k} : cs[x] = conns[x]
          /\ cs[k]["c2s"] = lines /\ \A x \in Fields \ {"c2s"} : cs[k][x] = conns[k][x]
      <4>1. Made(conns) /\ k \in Conn /\ conns[k] # Free
        BY <2>0
      <4>2. QED
        BY <3>6, <4>1, PutDoes
    <3>9. cs[k].client = conns[k].client /\ cs[k].c2s = lines /\ cs[k] # Free
      <4>1. cs[k].client = conns[k].client /\ cs[k].c2s = lines
        BY <3>8 DEF Fields
      <4>2. QED
        BY <1>2, <4>1, EmptyIsFree
    <3>10. PICK new : new = ClientCloses(GivesUp(cs, k), k)
      OBVIOUS
    <3>11. (\A d \in Conn \ {k} : new[d] = cs[d]) /\ new[k].c2s \in {<<>>, cs[k].c2s} /\ new[k].s2c = <<>>
      <4>1. Made(cs) /\ k \in Conn /\ cs[k] # Free /\ cs[k].client
        BY <1>2, <3>8, <3>9
      <4>2. QED
        BY <3>10, <4>1, GivenUpDoes
    <3>12. QED
      BY <3>5, <3>7, <3>8, <3>9, <3>10, <3>11, NoneIsText
  <2>2. CASE state[c] = "read"
    <3>1. conns' = ClientCloses(conns, k)
      BY <1>k, <2>2 DEF Kill
    <3>2. PICK new : new = ClientCloses(conns, k)
      OBVIOUS
    <3>3. (\A d \in Conn \ {k} : new[d] = conns[d]) /\ new[k].c2s \in {<<>>, conns[k].c2s} /\ new[k].s2c = <<>>
      <4>1. Made(conns) /\ k \in Conn /\ conns[k] # Free
        BY <2>0
      <4>2. QED
        BY <3>2, <4>1, ClientClosesDoes
    <3>4. QED
      BY <2>0, <3>1, <3>2, <3>3, NoneIsText
  <2>3. QED
    BY <1>1, <2>1, <2>2
<1>14. ASSUME NEW x \in Conn  PROVE conns'[x].c2s \in Texts /\ conns'[x].s2c \in Texts
  <2>1. conns[x].c2s \in Texts /\ conns[x].s2c \in Texts
    BY DEF Delivery
  <2>2. CASE x = k
    BY <1>3, <2>2, NoneIsText
  <2>3. CASE x # k
    BY <1>3, <2>1, <2>3
  <2>4. QED
    BY <2>2, <2>3
<1>15. \A x \in Conn : conns'[x] = conns[x] \/ x = conn[c] \/ x \in FreeConns
  BY <1>k, <1>3
<1>16. /\ got'[c] = <<>> /\ got' \in [Client -> Texts] /\ state'[c] = "gone"
       /\ \A d \in Client \ {c} : conn'[d] = conn[d] /\ state'[d] = state[d] /\ got'[d] = got[d]
  BY <1>0, <1>1, NoneIsText
<1>17. ~Busy(c)' /\ Lacks(got'[c], End)
  BY <1>16, NothingLacking DEF Busy
<1>18. QED
  BY <1>0, <1>1, <1>14, <1>15, <1>16, <1>17, ClientDelivers

(* A call that is given up, or fails, leaves nothing.                       *)
LEMMA DropsDelivers ==
  ASSUME Inv, Delivery, NEW a \in Async, NEW n \in Fd \cup {None}, n \in {None, fd[a]},
         state[a] \in {"Writing", "Reading"} => n = fd[a], ~Strays(a, n),
         conns' = ConnsClosed(n, Abandoned(a, conns)), conn' = [conn EXCEPT ![a] = None],
         NEW s \in {"Error", "gone"}, state' = [state EXCEPT ![a] = s],
         got' = [got EXCEPT ![a] = <<>>], UNCHANGED serverVars
  PROVE  Delivery'
<1>0. /\ state = [x \in Client |-> state[x]] /\ got \in [Client -> Texts] /\ conn \in [Client -> Conn \cup {None}]
      /\ a \in Client /\ a \notin Sync /\ None \notin Conn
  BY SocketAssumption DEF Inv, Ends, Delivery, Client
<1>k. PICK k : k = conn[a]
  OBVIOUS
<1>1. PICK cs, open : cs = ConnsClosed(n, Abandoned(a, conns)) /\ open = Closed(n)
  OBVIOUS
<1>2. /\ \A x \in Conn : cs[x] = conns[x] \/ x = k
      /\ k # None => cs[k].c2s \in {<<>>, conns[k].c2s} /\ cs[k].s2c \in {<<>>, conns[k].s2c}
  BY <1>k, <1>1, AsyncCloses
<1>3. ASSUME NEW x \in Conn  PROVE conns'[x].c2s \in Texts /\ conns'[x].s2c \in Texts
  <2>1. conns[x].c2s \in Texts /\ conns[x].s2c \in Texts
    BY DEF Delivery
  <2>2. CASE x = k
    BY <1>0, <1>1, <1>2, <2>1, <2>2, NoneIsText
  <2>3. CASE x # k
    BY <1>1, <1>2, <2>1, <2>3
  <2>4. QED
    BY <2>2, <2>3
<1>4. /\ got' \in [Client -> Texts] /\ state'[a] = s
      /\ \A d \in Client \ {a} : conn'[d] = conn[d] /\ state'[d] = state[d] /\ got'[d] = got[d]
  BY <1>0, NoneIsText
<1>5. ~Busy(a)'
  BY <1>4 DEF Busy
<1>6. \A x \in Conn : conns'[x] = conns[x] \/ x = conn[a] \/ x \in FreeConns
  BY <1>k, <1>1, <1>2
<1>7. QED
  BY <1>0, <1>3, <1>4, <1>5, <1>6, ClientDelivers

LEMMA DestroyDelivers == ASSUME Inv, Delivery, NEW a \in Async, Destroy(a), ~stray' PROVE Delivery'
<1>1. fd[a] \in Fd \cup {None}
  BY DEF Inv, Ends
<1>2. PICK n : n = fd[a]
  OBVIOUS
<1>3. /\ ~Strays(a, n) /\ conns' = ConnsClosed(n, Abandoned(a, conns)) /\ conn' = [conn EXCEPT ![a] = None]
      /\ state' = [state EXCEPT ![a] = "gone"] /\ got' = [got EXCEPT ![a] = <<>>] /\ UNCHANGED serverVars
  BY <1>2 DEF Destroy
<1>4. n \in Fd \cup {None} /\ n \in {None, fd[a]}
  BY <1>1, <1>2
<1>5. QED
  BY <1>2, <1>3, <1>4, DropsDelivers

LEMMA SendRequestDelivers ==
  ASSUME Inv, Delivery, NEW a \in Async, NEW r \in Calls, SendRequest(a, r), ~stray'
  PROVE  Delivery'
<1>0. /\ state = [x \in Client |-> state[x]] /\ got \in [Client -> Texts] /\ conn \in [Client -> Conn \cup {None}]
      /\ a \in Client /\ a \notin Sync /\ None \notin Conn
  BY SocketAssumption DEF Inv, Ends, Delivery, Client
<1>n. PICK n : n = ToClose(a)
  OBVIOUS
<1>1. /\ n \in Fd \cup {None} /\ n \in {None, fd[a]} /\ ~Strays(a, n)
      /\ state[a] \in {"Writing", "Reading"} => n = fd[a]
  BY <1>0, <1>n DEF SendRequest, ToClose, Inv, Ends
<1>2. UNCHANGED serverVars /\ got' = [got EXCEPT ![a] = <<>>]
  BY DEF SendRequest
<1>3. CASE ~Listening
  <2>1. /\ conns' = ConnsClosed(n, Abandoned(a, conns)) /\ conn' = [conn EXCEPT ![a] = None]
        /\ state' = [state EXCEPT ![a] = "Error"]
    BY <1>3, <1>n DEF SendRequest
  <2>2. QED
    BY <1>1, <1>2, <2>1, DropsDelivers
<1>4. CASE Listening
  <2>k. PICK k : k = conn[a]
    OBVIOUS
  <2>1. PICK cs, open : cs = ConnsClosed(n, Abandoned(a, conns)) /\ open = Closed(n)
    OBVIOUS
  <2>2. /\ Made(cs) /\ \A x \in Conn : cs[x] = conns[x] \/ x = k
        /\ k # None => cs[k].c2s \in {<<>>, conns[k].c2s} /\ cs[k].s2c \in {<<>>, conns[k].s2c}
    BY <1>1, <2>k, <2>1, AsyncCloses
  <2>3. PICK new : new = Lowest(FreeConns)
    OBVIOUS
  <2>4. /\ new \in FreeConns /\ conns' = [cs EXCEPT ![new] = NewConn(r)]
        /\ conn' = [conn EXCEPT ![a] = new] /\ state' = [state EXCEPT ![a] = "Writing"]
    BY <1>4, <1>n, <2>1, <2>3, LowestFree DEF SendRequest
  <2>5. new \in Conn /\ new # None /\ new # k
    BY <1>0, <2>k, <2>4, FreeIsNobodys
  <2>6. conns'[new] = NewConn(r) /\ \A x \in Conn \ {new} : conns'[x] = cs[x]
    <3>1. PICK ds : ds = [cs EXCEPT ![new] = NewConn(r)]
      OBVIOUS
    <3>2. ds[new] = NewConn(r) /\ \A x \in Conn \ {new} : ds[x] = cs[x]
      BY <2>2, <2>5, <3>1, TakenDoes
    <3>3. QED
      BY <2>4, <3>1, <3>2
  <2>7. /\ conn'[a] = new /\ got'[a] = <<>> /\ got' \in [Client -> Texts]
        /\ \A d \in Client \ {a} : conn'[d] = conn[d] /\ state'[d] = state[d] /\ got'[d] = got[d]
    BY <1>0, <1>2, <2>4, <2>5, NoneIsText
  <2>8. Carries(a)'
    BY <1>0, <1>2, <1>4, <2>4, <2>6, <2>7, NewCarries
  <2>9. ASSUME NEW x \in Conn  PROVE conns'[x].c2s \in Texts /\ conns'[x].s2c \in Texts
    <3>1. conns[x].c2s \in Texts /\ conns[x].s2c \in Texts
      BY DEF Delivery
    <3>2. CASE x = new
      BY <2>6, <3>2, NewConnIs, NoneIsText
    <3>3. CASE x # new /\ x = k
      BY <1>0, <2>2, <2>6, <3>1, <3>3, NoneIsText
    <3>4. CASE x # new /\ x # k
      BY <2>2, <2>6, <3>1, <3>4
    <3>5. QED
      BY <3>2, <3>3, <3>4
  <2>10. \A x \in Conn : conns'[x] = conns[x] \/ x = conn[a] \/ x \in FreeConns
    BY <2>k, <2>2, <2>4, <2>6
  <2>11. QED
    BY <1>0, <1>2, <2>7, <2>8, <2>9, <2>10, ClientDelivers
<1>5. QED
  BY <1>3, <1>4

(* The client's end of a connection is closed, with what was there to read. *)
LEMMA ClosesDelivers ==
  ASSUME Inv, Delivery, NEW c \in Client, Busy(c), NEW k, k = conn[c],
         NEW cs, Made(cs), \A x \in Conn \ {k} : cs[x] = conns[x], cs[k] # Free, cs[k].c2s = conns[k].c2s,
         conns' = ClientCloses(cs, k), UNCHANGED serverVars,
         conn' = [conn EXCEPT ![c] = None], got' = [got EXCEPT ![c] = <<>>],
         NEW s \in {"idle", "Idle", "Error"}, state' = [state EXCEPT ![c] = s]
  PROVE  Delivery'
<1>0. /\ state = [x \in Client |-> state[x]] /\ got \in [Client -> Texts] /\ conn \in [Client -> Conn \cup {None}]
  BY DEF Inv, Ends, Delivery
<1>1. k \in Conn
  BY BusyHas
<1>2. PICK new : new = ClientCloses(cs, k)
  OBVIOUS
<1>3. /\ \A x \in Conn \ {k} : new[x] = cs[x]
      /\ new[k].c2s \in {<<>>, cs[k].c2s} /\ new[k].s2c = <<>>
  BY <1>1, <1>2, ClientClosesDoes
<1>4. ASSUME NEW x \in Conn  PROVE conns'[x].c2s \in Texts /\ conns'[x].s2c \in Texts
  <2>1. conns[x].c2s \in Texts /\ conns[x].s2c \in Texts
    BY DEF Delivery
  <2>2. CASE x = k
    BY <1>2, <1>3, <2>1, <2>2, NoneIsText
  <2>3. CASE x # k
    BY <1>2, <1>3, <2>1, <2>3
  <2>4. QED
    BY <2>2, <2>3
<1>5. /\ got' \in [Client -> Texts] /\ got'[c] = <<>> /\ state'[c] = s
      /\ \A d \in Client \ {c} : conn'[d] = conn[d] /\ state'[d] = state[d] /\ got'[d] = got[d]
  BY <1>0, NoneIsText
<1>6. ~Busy(c)' /\ Lacks(got'[c], End)
  BY <1>5, NothingLacking DEF Busy
<1>7. \A x \in Conn : conns'[x] = conns[x] \/ x = conn[c] \/ x \in FreeConns
  BY <1>2, <1>3
<1>8. QED
  BY <1>0, <1>4, <1>5, <1>6, <1>7, ClientDelivers

(* Lines are read of a response that is not all there.                      *)
LEMMA ReadsDelivers ==
  ASSUME Inv, Delivery, NEW c \in Client, Busy(c), NEW k, k = conn[c],
         conns[k].server, conns[k].s2c # <<>>, conns' = [conns EXCEPT ![k].s2c = <<>>],
         NEW all, all = Both(got[c], conns[k].s2c), got' = [got EXCEPT ![c] = all],
         UNCHANGED <<state, conn>>, UNCHANGED serverVars
  PROVE  Delivery'
<1>0. Made(conns) /\ got \in [Client -> Texts]
  BY DEF Inv, Delivery
<1>1. k \in Conn /\ conns[k] # Free
  BY BusyHas
<1>2. PICK none, cs : none = <<>> /\ cs = Put(conns, k, "s2c", none)
  OBVIOUS
<1>3. conns' = cs
  BY <1>0, <1>1, <1>2 DEF Put, Made
<1>4. /\ \A x \in Conn \ {k} : cs[x] = conns[x]
      /\ cs[k]["s2c"] = none /\ \A x \in Fields \ {"s2c"} : cs[k][x] = conns[k][x]
  <2>1. Made(conns) /\ k \in Conn /\ conns[k] # Free
    BY <1>0, <1>1
  <2>2. QED
    BY <1>2, <2>1, PutDoes
<1>5. PICK p, l : p = conns[k] /\ l = cs[k]
  OBVIOUS
<1>6. l.s2c = <<>> /\ l.answer = p.answer /\ l.hits = p.hits /\ l.call = p.call /\ l.done = p.done /\ l.c2s = p.c2s
  BY <1>2, <1>4, <1>5 DEF Fields
<1>7. /\ got'[c] = Both(got[c], p.s2c) /\ conn'[c] = conn[c]
      /\ \A d \in Client \ {c} : got'[d] = got[d]
  BY <1>0, <1>5
<1>8. Emptied(conns[k], conns'[k]) /\ got'[c] = Both(got[c], conns[k].s2c)
  BY <1>3, <1>5, <1>6, <1>7 DEF Emptied
<1>9. Carries(c)' /\ Lacks(p.s2c, End) /\ got'[c] \in Texts
  <2>1. Carries(c)' /\ Lacks(conns[k].s2c, End) /\ got'[c] \in Texts
    BY <1>7, <1>8, ReadCarries
  <2>2. QED
    BY <1>5, <2>1
<1>10. got' \in [Client -> Texts]
  BY <1>0, <1>9
<1>11. c \in Sync => Lacks(got'[c], End) /\ state'[c] # "idle"
  <2>1. ASSUME c \in Sync  PROVE Lacks(got'[c], End)
    <3>1. PICK g, s, V : g = got[c] /\ s = p.s2c /\ V = Line
      OBVIOUS
    <3>2. g \in Seq(V) /\ s \in Seq(V) /\ Lacks(g, End) /\ Lacks(s, End)
      BY <1>0, <1>1, <1>5, <1>9, <2>1, <3>1 DEF Delivery, Texts
    <3>3. Lacks(g \o s, End)
      BY <3>2, LacksBoth
    <3>4. QED
      BY <1>7, <3>1, <3>3 DEF Both
  <2>2. QED
    BY <2>1 DEF Busy
<1>12. ASSUME NEW x \in Conn  PROVE conns'[x].c2s \in Texts /\ conns'[x].s2c \in Texts
  <2>1. conns[x].c2s \in Texts /\ conns[x].s2c \in Texts
    BY DEF Delivery
  <2>2. CASE x = k
    BY <1>3, <1>5, <1>6, <2>1, <2>2, NoneIsText
  <2>3. CASE x # k
    BY <1>3, <1>4, <2>1, <2>3
  <2>4. QED
    BY <2>2, <2>3
<1>13. \A x \in Conn : conns'[x] = conns[x] \/ x = conn[c] \/ x \in FreeConns
  BY <1>3, <1>4
<1>14. QED
  BY <1>7, <1>9, <1>10, <1>11, <1>12, <1>13, ClientDelivers

LEMMA BeforeNone == ASSUME NEW s \in Texts, Lacks(s, End) PROVE Before(s) = s
  BY BeforeIsCut, CutNowhere DEF Texts

(* What the call gives that reads an end, or that the server left.          *)
LEMMA ReadDelivers == ASSUME Inv, Delivery, NEW c \in Sync, Read(c) PROVE Delivery' /\ AnswerArrives'
<1>0. /\ Made(conns) /\ c \in Client /\ got \in [Client -> Texts] /\ got[c] \in Texts /\ Lacks(got[c], End)
      /\ conn \in [Client -> Conn \cup {None}]
  BY SyncIs DEF Inv
<1>k. PICK b : b = conn[c]
  OBVIOUS
<1>1. /\ state[c] = "read" /\ UNCHANGED serverVars /\ Busy(c)
  BY DEF Read, SyncUnchanged, Busy
<1>2. b \in Conn /\ conns[b] # Free /\ conns[b].client
  BY <1>0, <1>1, <1>k, BusyHas
<1>3. PICK k, s : k = conns[b] /\ s = k.s2c
  OBVIOUS
<1>4. s \in Texts
  BY <1>2, <1>3 DEF Delivery
<1>5. PICK lines : lines = got[c] \o Before(s)
  OBVIOUS
<1>6. PICK ended \in BOOLEAN : ended = ~Lacks(s, End)
  OBVIOUS
<1>7. ("" \in S!ToSet(s)) <=> ended
  BY <1>6, Zenon DEF Lacks, End
<1>8. PICK outcome : outcome = IF ended THEN "answered" ELSE IF k.reset THEN "failed" ELSE "eof"
  OBVIOUS
<1>9. CASE ended \/ ~k.server
  <2>1. /\ state' = [state EXCEPT ![c] = "idle"] /\ got' = [got EXCEPT ![c] = <<>>]
        /\ returned' = (IF outcome = "failed" THEN Failed ELSE Outcome(outcome, lines, k))
        /\ conns' = ClientCloses(conns, b) /\ conn' = [conn EXCEPT ![c] = None]
    BY <1>k, <1>3, <1>5, <1>7, <1>8, <1>9 DEF Read
  <2>2. Delivery'
    <3>1. PICK cs : cs = conns
      OBVIOUS
    <3>2. /\ Made(cs) /\ (\A x \in Conn \ {b} : cs[x] = conns[x]) /\ cs[b] # Free /\ cs[b].c2s = conns[b].c2s
          /\ conns' = ClientCloses(cs, b)
      BY <1>0, <1>2, <2>1, <3>1
    <3>3. QED
      BY <1>0, <1>1, <1>k, <2>1, <3>2, ClosesDelivers
  <2>3. CASE outcome = "failed"
    BY <2>1, <2>2, <2>3 DEF Failed, AnswerArrives
  <2>4. CASE outcome # "failed"
    <3>1. returned' = Outcome(outcome, lines, k)
      BY <2>1, <2>4
    <3>2. /\ ~k.server => ~k.done \/ There(k, got[c])
          /\ ~Lacks(k.s2c, End) => There(k, got[c])
      BY <1>0, <1>1, <1>k, <1>3, EndOfAnswer
    <3>3. PICK g, a : g = got[c] /\ a = k.answer
      OBVIOUS
    <3>4. ASSUME There(k, g)  PROVE Answers(k) /\ lines = k.answer
      <4>1. All(a, g, s) /\ Answers(k) /\ a \in Texts /\ Lacks(a, End)
        BY <1>3, <3>3, <3>4 DEF There, Answers
      <4>2. g \o Before(s) = a
        BY <1>0, <1>4, <3>3, <4>1, AllRead
      <4>3. QED
        BY <1>5, <3>3, <4>1, <4>2
    <3>5. ended => k.done
      BY <1>3, <1>6, <3>2 DEF There
    <3>6. k.done => There(k, g)
      BY <1>3, <1>6, <1>9, <3>2, <3>3
    <3>7. outcome = "answered" => k.done
      BY <1>8, <3>5
    <3>8. AnswerArrives'
      BY <3>1, <3>4, <3>6, <3>7, AnswersCall
    <3>9. QED
      BY <2>2, <3>8
  <2>5. QED
    BY <2>2, <2>3, <2>4
<1>10. CASE ~ended /\ k.server
  <2>1. Before(s) = s /\ Lacks(s, End)
    BY <1>4, <1>6, <1>10, BeforeNone
  <2>2. PICK all : all = Both(got[c], s)
    OBVIOUS
  <2>3. lines = all
    BY <1>5, <2>1, <2>2 DEF Both
  <2>4. /\ s # <<>> /\ got' = [got EXCEPT ![c] = lines] /\ conns' = [conns EXCEPT ![b].s2c = <<>>]
        /\ returned' = NoResult /\ UNCHANGED <<state, conn>>
    BY <1>k, <1>3, <1>5, <1>7, <1>10 DEF Read
  <2>5. Delivery'
    <3>1. got' = [got EXCEPT ![c] = all] /\ all = Both(got[c], conns[b].s2c) /\ conns[b].s2c # <<>> /\ conns[b].server
      BY <1>3, <1>10, <2>2, <2>3, <2>4
    <3>2. QED
      BY <1>0, <1>1, <1>k, <2>4, <3>1, ReadsDelivers
  <2>6. AnswerArrives'
    BY <2>4 DEF NoResult, AnswerArrives
  <2>7. QED
    BY <2>5, <2>6
<1>11. QED
  BY <1>6, <1>9, <1>10

LEMMA ReadSomeDelivers == ASSUME Inv, Delivery, NEW a \in Async, ReadSome(a) PROVE Delivery' /\ AnswerArrives'
<1>0. Made(conns) /\ got \in [Client -> Texts]
  BY DEF Inv, Delivery
<1>k. PICK b : b = conn[a]
  OBVIOUS
<1>1. /\ state[a] = "Reading" /\ a \in Client /\ b # None /\ fds[fd[a]] = b /\ Busy(a) /\ UNCHANGED serverVars
  BY <1>k, AsyncHas DEF ReadSome, Busy
<1>2. b \in Conn /\ conns[b] # Free /\ conns[b].client
  BY <1>1, <1>k, BusyHas
<1>3. PICK k, s, g : k = conns[b] /\ s = k.s2c /\ g = got[a]
  OBVIOUS
<1>4. s \in Texts /\ g \in Texts
  BY <1>0, <1>1, <1>2, <1>3 DEF Delivery
<1>5. PICK all : all = g \o s
  OBVIOUS
<1>6. PICK none, taken : none = <<>> /\ taken = Put(conns, b, "s2c", none)
  OBVIOUS
<1>7. taken = [conns EXCEPT ![b].s2c = <<>>]
  BY <1>0, <1>2, <1>6 DEF Put, Made
<1>8. CASE ~k.server
  <2>1. /\ conns' = ClientCloses(taken, b)
        /\ state' = [state EXCEPT ![a] = IF k.reset THEN "Error" ELSE "Idle"]
        /\ returned' = (IF k.reset THEN Failed
                        ELSE Outcome(IF all = <<>> THEN "undefined" ELSE "eof", Split(all), k))
        /\ got' = [got EXCEPT ![a] = <<>>] /\ conn' = [conn EXCEPT ![a] = None]
    BY <1>1, <1>3, <1>5, <1>7, <1>8 DEF ReadSome
  <2>2. Delivery'
    <3>1. /\ Made(taken) /\ \A x \in Conn \ {b} : taken[x] = conns[x]
          /\ \A x \in Fields \ {"s2c"} : taken[b][x] = conns[b][x]
      <4>1. Made(conns) /\ b \in Conn /\ conns[b] # Free
        BY <1>0, <1>2
      <4>2. QED
        BY <1>6, <4>1, PutDoes
    <3>2. taken[b].c2s = conns[b].c2s /\ taken[b].client = conns[b].client
      BY <3>1 DEF Fields
    <3>3. taken[b] # Free
      BY <1>2, <3>2, EmptyIsFree
    <3>4. PICK st \in {"idle", "Idle", "Error"} : st = IF k.reset THEN "Error" ELSE "Idle"
      OBVIOUS
    <3>5. state' = [state EXCEPT ![a] = st]
      BY <2>1, <3>4
    <3>6. QED
      BY <1>1, <1>k, <2>1, <3>1, <3>2, <3>3, <3>5, ClosesDelivers
  <2>3. CASE k.reset
    BY <2>1, <2>2, <2>3 DEF Failed, AnswerArrives
  <2>4. CASE ~k.reset
    <3>1. PICK outcome, lines : outcome = (IF all = <<>> THEN "undefined" ELSE "eof") /\ lines = Split(all)
      OBVIOUS
    <3>2. returned' = Outcome(outcome, lines, k) /\ outcome # "answered"
      BY <2>1, <2>4, <3>1
    <3>3. ~k.done \/ There(k, g)
      BY <1>1, <1>k, <1>3, <1>8, EndOfAnswer
    <3>4. ASSUME There(k, g)  PROVE Answers(k) /\ lines = k.answer
      <4>1. PICK w : w = k.answer
        OBVIOUS
      <4>2. All(w, g, s) /\ Answers(k) /\ w \in Texts /\ Lacks(w, End)
        BY <1>3, <3>4, <4>1 DEF There, Answers
      <4>3. Split(g \o s) = w
        BY <1>4, <4>2, AllSplit
      <4>4. QED
        BY <1>5, <3>1, <4>1, <4>2, <4>3
    <3>5. AnswerArrives'
      BY <3>2, <3>3, <3>4, AnswersCall
    <3>6. QED
      BY <2>2, <3>5
  <2>5. QED
    BY <2>3, <2>4
<1>9. CASE k.server
  <2>1. /\ s # <<>> /\ conns' = taken /\ got' = [got EXCEPT ![a] = all]
        /\ returned' = NoResult /\ UNCHANGED <<state, conn>>
    BY <1>1, <1>3, <1>5, <1>7, <1>9 DEF ReadSome
  <2>2. Delivery'
    <3>1. PICK p : p = Both(g, s)
      OBVIOUS
    <3>2. p = all
      BY <1>5, <3>1 DEF Both
    <3>3. /\ got' = [got EXCEPT ![a] = p] /\ p = Both(got[a], conns[b].s2c) /\ conns[b].s2c # <<>> /\ conns[b].server
          /\ conns' = [conns EXCEPT ![b].s2c = <<>>]
      BY <1>3, <1>7, <1>9, <2>1, <3>1, <3>2
    <3>4. a \in Client /\ Busy(a) /\ b = conn[a] /\ UNCHANGED <<state, conn>> /\ UNCHANGED serverVars
      BY <1>1, <1>k, <2>1
    <3>5. QED
      BY <3>3, <3>4, ReadsDelivers
  <2>3. AnswerArrives'
    BY <2>1 DEF NoResult, AnswerArrives
  <2>4. QED
    BY <2>2, <2>3
<1>10. QED
  BY <1>8, <1>9

Answering == ~stray => Inv /\ Delivery

LEMMA InitAnswers == Init => Answering /\ AnswerArrives
<1> SUFFICES ASSUME Init PROVE Inv /\ Delivery /\ AnswerArrives
  BY DEF Answering
<1>1. Inv
  BY InitHolds DEF SInv, Init
<1>2. \A c \in Client : got[c] = <<>> /\ ~Busy(c)
  BY DEF Init, Busy, Client
<1>3. got \in [Client -> Texts]
  BY NoneIsText DEF Init
<1>4. \A c \in Conn : conns[c].c2s = <<>> /\ conns[c].s2c = <<>>
  BY EmptyIsFree DEF Init
<1>5. Dirs(indexed)
  BY FS_EmptySet DEF Init, Dirs
<1>6. server = "accept"
  BY DEF Init
<1>7. Delivery
  BY <1>2, <1>3, <1>4, <1>5, <1>6, NoneIsText, NothingLacking DEF Delivery, Client
<1>8. AnswerArrives
  BY DEF Init, AnswerArrives, NoResult
<1>9. QED
  BY <1>1, <1>7, <1>8

(* A step that gives no answer.                                             *)
LEMMA NoAnswer ==
  ASSUME returned'.outcome \notin {"answered", "eof"}
  PROVE  AnswerArrives'
  BY DEF AnswerArrives

LEMMA NoAnswers ==
  /\ NoResult.outcome \notin {"answered", "eof"}
  /\ Failed.outcome \notin {"answered", "eof"}
  /\ \A a : GivenUp(a).outcome \notin {"answered", "eof"}
  BY DEF NoResult, Failed, GivenUp

LEMMA StepAnswers ==
  ASSUME Inv, Delivery, ~stray, Next, ~stray'
  PROVE  Delivery' /\ AnswerArrives'
<1>1. CASE Server
  <2>1. Delivery'
    BY <1>1, AcceptDelivers, ReadRequestDelivers, HandleRequestDelivers, SendResponseDelivers DEF Server
  <2>2. returned' = NoResult
    BY <1>1 DEF Server, Accept, ReadRequest, HandleRequest, SendResponse
  <2>3. QED
    BY <2>1, <2>2, NoAnswer, NoAnswers
<1>2. CASE Interrupted \/ Die
  <2>1. returned' = NoResult
    BY <1>2 DEF Interrupted, Die
  <2>2. QED
    BY <1>2, <2>1, InterruptedDelivers, DieDelivers, NoAnswer, NoAnswers
<1>3. CASE \E c \in Sync, r \in Calls : Call(c, r)
  <2>1. returned' \in {NoResult, Failed}
    BY <1>3 DEF Call
  <2>2. QED
    BY <1>3, <2>1, CallDelivers, NoAnswer, NoAnswers
<1>4. CASE \E c \in Sync : Send(c) \/ Kill(c)
  <2>1. returned' = NoResult
    BY <1>4 DEF Send, Kill
  <2>2. QED
    BY <1>4, <2>1, SendDelivers, KillDelivers, NoAnswer, NoAnswers
<1>5. CASE \E c \in Sync : Read(c)
  BY <1>5, ReadDelivers
<1>6. CASE \E a \in Async, r \in Calls : SendRequest(a, r)
  <2>1. PICK a \in Async, r \in Calls : SendRequest(a, r)
    BY <1>6
  <2>2. returned' = GivenUp(a) \/ returned' = NoResult
    BY <2>1 DEF SendRequest
  <2>3. QED
    BY <2>1, <2>2, SendRequestDelivers, NoAnswer, NoAnswers
<1>7. CASE \E a \in Async : Write(a) \/ Destroy(a)
  <2>1. returned' \in {NoResult, Failed}
    BY <1>7 DEF Write, Destroy
  <2>2. QED
    BY <1>7, <2>1, WriteDelivers, DestroyDelivers, NoAnswer, NoAnswers
<1>8. CASE \E a \in Async : ReadSome(a)
  BY <1>8, ReadSomeDelivers
<1>9. QED
  BY <1>1, <1>2, <1>3, <1>4, <1>5, <1>6, <1>7, <1>8 DEF Next

LEMMA NextAnswers == Answering /\ AnswerArrives /\ [Next]_vars => (Answering /\ AnswerArrives)'
<1> SUFFICES ASSUME Answering, AnswerArrives, [Next]_vars PROVE Answering' /\ AnswerArrives'
  OBVIOUS
<1>1. CASE stray'
  BY <1>1 DEF Answering, AnswerArrives
<1>2. CASE ~stray'
  <2>1. ~stray /\ Inv /\ Delivery
    BY <1>2, StrayStays DEF Answering
  <2>2. Inv'
    BY <1>2, <2>1, NextKeeps DEF SInv
  <2>3. CASE Next
    BY <1>2, <2>1, <2>2, <2>3, StepAnswers DEF Answering
  <2>4. CASE UNCHANGED vars
    <3>1. UNCHANGED <<conns, serverVars, clientVars, returned, stray>>
      BY <2>4 DEF vars, fdVars
    <3>2. Delivery'
      BY <2>1, <3>1 DEF Delivery, Carries, Sending, Busy, serverVars, clientVars
    <3>3. AnswerArrives'
      BY <3>1 DEF AnswerArrives
    <3>4. QED
      BY <2>2, <3>2, <3>3 DEF Answering
  <2>5. QED
    BY <2>3, <2>4
<1>3. QED
  BY <1>1, <1>2

(* A call that stops at an empty line has read the whole response; and once  *)
(* the server has sent a response whole, the call gives what the server     *)
(* answered to it, every line and in order, and for a query the hits it     *)
(* found, when getHits() can tell them apart (socketclient.cpp and          *)
(* asyncsocketclient.cpp against socketserver.cpp).                         *)
THEOREM AnswersAlwaysArrive == Spec => []AnswerArrives
<1>1. Init => Answering /\ AnswerArrives
  BY InitAnswers
<1>2. Answering /\ AnswerArrives /\ [Next]_vars => (Answering /\ AnswerArrives)'
  BY NextAnswers
<1>3. QED
  BY <1>1, <1>2, PTL DEF Spec
===========================================================================
