--------------------------- MODULE DataInduction ---------------------------
(***************************************************************************)
(* Induction over the natural numbers and definition by recursion, as      *)
(* facts about sets and functions: they take no operator as a parameter,   *)
(* so a first-order prover can use them.  Induction rests on the           *)
(* well-foundedness of < on Nat.                                           *)
(***************************************************************************)
EXTENDS Numerals, SequencesExt, WellFoundedInduction, TLAPS

\* A set with 0 in it and with the successor of every number in it holds every
\* natural number; the proofs about what loops and recursive functions of the
\* code compute are inductions in this form.
LEMMA NatInduct ==
    ASSUME NEW S, 0 \in S, \A n \in Nat : n \in S => n + 1 \in S
    PROVE  \A n \in Nat : n \in S
  <1> SUFFICES ASSUME \E n \in Nat : n \notin S PROVE FALSE
    OBVIOUS
  <1> DEFINE T == {n \in Nat : n \notin S}
             R == OpToRel(<, Nat)
  <1>1. T \subseteq Nat /\ T # {}
    OBVIOUS
  <1>2. IsWellFoundedOn(R, Nat)
    BY NatLessThanWellFounded, Zenon
  <1> HIDE DEF R
  <1>3. PICK x \in T : \A y \in T : ~(<<y, x>> \in R)
    <2> HIDE DEF T
    <2> QED BY <1>1, <1>2, WFMin
  <1>4. x # 0 /\ x \in Nat
    OBVIOUS
  <1>5. x - 1 \in T
    BY <1>4
  <1>6. <<x - 1, x>> \in R
    BY <1>4 DEF R, OpToRel
  <1> QED BY <1>3, <1>5, <1>6

\* f runs through the values of the recursion up to n.
Runs(f, n, a, step) ==
    f[0] = a /\ \A m \in 0..(n - 1) : f[m + 1] = step[m][f[m]]

\* Two runs of the same recursion agree as far as both go.
LEMMA RunsAgree ==
    ASSUME NEW a, NEW step, NEW n \in Nat, NEW k \in Nat,
           NEW f, NEW g, Runs(f, n, a, step), Runs(g, k, a, step)
    PROVE  \A m \in Nat : m <= n /\ m <= k => f[m] = g[m]
  <1> DEFINE S == {m \in Nat : m <= n /\ m <= k => f[m] = g[m]}
  <1>1. 0 \in S
    BY DEF Runs
  <1>2. ASSUME NEW m \in Nat, m \in S PROVE m + 1 \in S
    <2> SUFFICES ASSUME m + 1 <= n, m + 1 <= k PROVE f[m + 1] = g[m + 1]
      OBVIOUS
    <2>1. m \in 0..(n - 1) /\ m \in 0..(k - 1) /\ f[m] = g[m]
      BY <1>2
    <2> QED BY <2>1 DEF Runs
  <1>3. \A m \in Nat : m \in S
    <2> HIDE DEF S
    <2> QED BY <1>1, <1>2, NatInduct
  <1> QED BY <1>3

\* A recursion has a run of every length.
LEMMA RunsExist ==
    ASSUME NEW A, NEW a \in A, NEW step \in [Nat -> [A -> A]]
    PROVE  \A n \in Nat : \E f \in [0..n -> A] : Runs(f, n, a, step)
  <1> DEFINE S == {n \in Nat : \E f \in [0..n -> A] : Runs(f, n, a, step)}
  <1>1. 0 \in S
    <2> DEFINE f == [m \in 0..0 |-> a]
    <2>1. f \in [0..0 -> A] /\ Runs(f, 0, a, step)
      BY DEF Runs
    <2> QED BY <2>1
  <1>2. ASSUME NEW n \in Nat, n \in S PROVE n + 1 \in S
    <2>1. PICK f \in [0..n -> A] : Runs(f, n, a, step)
      BY <1>2
    <2> DEFINE g == [m \in 0..(n + 1) |-> IF m <= n THEN f[m] ELSE step[n][f[n]]]
    <2>2. g \in [0..(n + 1) -> A]
      <3>1. f[n] \in A /\ step[n] \in [A -> A]
        OBVIOUS
      <3>2. step[n][f[n]] \in A
        BY <3>1
      <3> QED BY <3>2
    <2>3. Runs(g, n + 1, a, step)
      <3>1. g[0] = a
        BY <2>1 DEF Runs
      <3>2. ASSUME NEW m \in 0..((n + 1) - 1) PROVE g[m + 1] = step[m][g[m]]
        <4>1. CASE m = n
          BY <4>1
        <4>2. CASE m \in 0..(n - 1)
          BY <2>1, <4>2 DEF Runs
        <4> QED BY <4>1, <4>2
      <3> HIDE DEF g
      <3> QED BY <3>1, <3>2 DEF Runs
    <2> QED BY <2>2, <2>3
  <1> HIDE DEF S
  <1>3. \A n \in Nat : n \in S
    BY <1>1, <1>2, NatInduct
  <1> QED BY <1>3 DEF S

\* f is defined by recursion: it starts with a and goes on by step.
IsRecursive(f, A, a, step) ==
    /\ f \in [Nat -> A] /\ f[0] = a
    /\ \A m \in Nat : f[m + 1] = step[m][f[m]]

\* Definition by recursion: from a first value and a step there is a function
\* that starts with the one and goes on by the other.
LEMMA RecursionExists ==
    ASSUME NEW A, NEW a \in A, NEW step \in [Nat -> [A -> A]]
    PROVE  \E f : IsRecursive(f, A, a, step)
  <1> DEFINE r(n) == CHOOSE f \in [0..n -> A] : Runs(f, n, a, step)
             h == [n \in Nat |-> r(n)[n]]
  <1>1. ASSUME NEW n \in Nat PROVE r(n) \in [0..n -> A] /\ Runs(r(n), n, a, step)
    BY RunsExist
  <1> HIDE DEF r
  <1>2. h \in [Nat -> A]
    BY <1>1
  <1>3. h[0] = a
    BY <1>1 DEF Runs
  <1>4. ASSUME NEW m \in Nat PROVE h[m + 1] = step[m][h[m]]
    <2>1. r(m + 1)[m] = r(m)[m]
      BY <1>1, RunsAgree
    <2>2. r(m + 1)[m + 1] = step[m][r(m + 1)[m]]
      <3>1. m \in 0..((m + 1) - 1) /\ m + 1 \in Nat
        OBVIOUS
      <3> QED BY <1>1, <3>1 DEF Runs
    <2> QED BY <2>1, <2>2
  <1> QED BY <1>2, <1>3, <1>4 DEF IsRecursive

-----------------------------------------------------------------------------
(***************************************************************************)
(* A sequence of sequences laid end to end: off[k] is where part k ends.   *)
(***************************************************************************)
IsOffsets(off, parts) ==
    /\ off \in [Nat -> Nat] /\ off[0] = 0
    /\ \A k \in 1..Len(parts) : off[k] = off[k - 1] + Len(parts[k])

\* A sequence of sequences, its parts and their offsets.
LEMMA PartsType ==
    ASSUME NEW A, NEW parts \in Seq(Seq(A))
    PROVE  /\ Len(parts) \in Nat
           /\ \A k \in 1..Len(parts) : parts[k] \in Seq(A) /\ Len(parts[k]) \in Nat
           /\ \A off : IsOffsets(off, parts) => \A k \in Nat : off[k] \in Nat
  <1>1. Len(parts) \in Nat /\ \A k \in 1..Len(parts) : parts[k] \in Seq(A)
    OBVIOUS
  <1>2. \A k \in 1..Len(parts) : Len(parts[k]) \in Nat
    BY <1>1
  <1>3. \A off : IsOffsets(off, parts) => \A k \in Nat : off[k] \in Nat
    BY DEF IsOffsets
  <1> QED BY <1>1, <1>2, <1>3

\* Every sequence of sequences has its offsets.
LEMMA OffsetsExist ==
    ASSUME NEW A, NEW parts \in Seq(Seq(A))
    PROVE  \E off : IsOffsets(off, parts)
  <1> DEFINE size(m) == IF m + 1 \in 1..Len(parts) THEN Len(parts[m + 1]) ELSE 0
             step == [m \in Nat |-> [v \in Nat |-> v + size(m)]]
  <1>1. Len(parts) \in Nat /\ \A k \in 1..Len(parts) : parts[k] \in Seq(A)
    OBVIOUS
  <1>2. \A m \in Nat : size(m) \in Nat
    BY <1>1
  <1>3. /\ step \in [Nat -> [Nat -> Nat]]
        /\ \A m, v \in Nat : step[m][v] = v + size(m)
    <2> HIDE DEF size
    <2> QED BY <1>2, SMTT(30)
  <1>4. PICK f : IsRecursive(f, Nat, 0, step)
    <2> HIDE DEF step
    <2> QED BY <1>3, RecursionExists
  <1>5. f \in [Nat -> Nat] /\ f[0] = 0 /\ \A m \in Nat : f[m + 1] = step[m][f[m]]
    BY <1>4 DEF IsRecursive
  <1> HIDE DEF step
  <1>6. ASSUME NEW k \in 1..Len(parts) PROVE f[k] = f[k - 1] + Len(parts[k])
    <2>1. k - 1 \in Nat /\ (k - 1) + 1 = k
      BY <1>1
    <2>2. f[k] = f[k - 1] + size(k - 1)
      BY <1>3, <1>5, <2>1, ZenonT(60)
    <2>3. size(k - 1) = Len(parts[k])
      BY <2>1
    <2> HIDE DEF size
    <2> QED BY <2>2, <2>3
  <1> QED BY <1>5, <1>6 DEF IsOffsets

\* Later parts end later.
LEMMA OffsetsMonotone ==
    ASSUME NEW A, NEW parts \in Seq(Seq(A)), NEW off, IsOffsets(off, parts)
    PROVE  \A l \in 0..Len(parts) : \A k \in 0..l : off[k] <= off[l]
  <1> DEFINE S == {l \in Nat : l <= Len(parts) => \A k \in 0..l : off[k] <= off[l]}
  <1>1. /\ Len(parts) \in Nat /\ off \in [Nat -> Nat] /\ off[0] = 0
        /\ \A k \in 1..Len(parts) : /\ off[k] = off[k - 1] + Len(parts[k])
                                    /\ Len(parts[k]) \in Nat
    <2>1. Len(parts) \in Nat /\ \A k \in 1..Len(parts) : parts[k] \in Seq(A)
      OBVIOUS
    <2>2. \A k \in 1..Len(parts) : Len(parts[k]) \in Nat
      BY <2>1
    <2> QED BY <2>1, <2>2 DEF IsOffsets
  <1>2. 0 \in S
    BY <1>1
  <1>3. ASSUME NEW l \in Nat, l \in S PROVE l + 1 \in S
    <2> SUFFICES ASSUME l + 1 <= Len(parts), NEW k \in 0..(l + 1)
                 PROVE  off[k] <= off[l + 1]
      OBVIOUS
    <2>1. l + 1 \in 1..Len(parts) /\ (l + 1) - 1 = l
      BY <1>1
    <2>2. /\ off[l + 1] = off[l] + Len(parts[l + 1]) /\ Len(parts[l + 1]) \in Nat
          /\ off[l] \in Nat /\ off[k] \in Nat
      <3>1. off[l + 1] = off[l] + Len(parts[l + 1]) /\ Len(parts[l + 1]) \in Nat
        BY <1>1, <2>1
      <3>2. k \in Nat
        OBVIOUS
      <3> QED BY <1>1, <3>1, <3>2
    <2>3. CASE k \in 0..l
      <3>1. off[k] <= off[l]
        <4>1. l <= Len(parts)
          BY <1>1
        <4> QED BY <1>3, <2>3, <4>1
      <3> QED BY <2>2, <3>1
    <2>4. CASE k = l + 1
      BY <2>2, <2>4
    <2> QED BY <2>3, <2>4
  <1>4. \A l \in Nat : l \in S
    <2> HIDE DEF S
    <2> QED BY <1>2, <1>3, NatInduct
  <1> QED BY <1>1, <1>4

\* Place p is place q of part j, one of the first k.
Located(p, k, parts, off) ==
    \E j \in 1..k : \E q \in 1..Len(parts[j]) : p = off[j - 1] + q

\* Every place before the end of part k is a place of one of the parts up to k.
LEMMA OffsetsLocate ==
    ASSUME NEW A, NEW parts \in Seq(Seq(A)), NEW off, IsOffsets(off, parts)
    PROVE  \A k \in 0..Len(parts) : \A p \in 1..off[k] : Located(p, k, parts, off)
  <1> DEFINE P(k) == \A p \in 1..off[k] :
                       \E j \in 1..k : \E q \in 1..Len(parts[j]) : p = off[j - 1] + q
             S == {k \in Nat : k <= Len(parts) => P(k)}
  <1>1. /\ Len(parts) \in Nat /\ off \in [Nat -> Nat] /\ off[0] = 0
        /\ \A k \in 1..Len(parts) : /\ off[k] = off[k - 1] + Len(parts[k])
                                    /\ Len(parts[k]) \in Nat
    <2>1. Len(parts) \in Nat /\ \A k \in 1..Len(parts) : parts[k] \in Seq(A)
      OBVIOUS
    <2>2. \A k \in 1..Len(parts) : Len(parts[k]) \in Nat
      BY <2>1
    <2> QED BY <2>1, <2>2 DEF IsOffsets
  <1>2. 0 \in S
    BY <1>1
  <1>3. ASSUME NEW k \in Nat, k \in S PROVE k + 1 \in S
    <2> SUFFICES ASSUME k + 1 <= Len(parts), NEW p \in 1..off[k + 1]
                 PROVE  \E j \in 1..(k + 1) : \E q \in 1..Len(parts[j]) : p = off[j - 1] + q
      OBVIOUS
    <2>1. k + 1 \in 1..Len(parts) /\ (k + 1) - 1 = k
      BY <1>1
    <2>2. /\ off[k + 1] = off[k] + Len(parts[k + 1]) /\ Len(parts[k + 1]) \in Nat
          /\ off[k] \in Nat
      BY <1>1, <2>1
    <2>3. CASE p <= off[k]
      <3>1. p \in 1..off[k] /\ k <= Len(parts)
        BY <1>1, <2>2, <2>3
      <3>2. PICK j \in 1..k : \E q \in 1..Len(parts[j]) : p = off[j - 1] + q
        BY <1>3, <3>1
      <3>3. j \in 1..(k + 1)
        OBVIOUS
      <3> QED BY <3>2, <3>3
    <2>4. CASE p > off[k]
      <3> DEFINE q == p - off[k]
      <3>1. q \in 1..Len(parts[k + 1]) /\ p = off[k] + q
        BY <2>2, <2>4
      <3> HIDE DEF q
      <3>2. k + 1 \in 1..(k + 1)
        OBVIOUS
      <3> QED BY <2>1, <3>1, <3>2
    <2> QED BY <2>2, <2>3, <2>4
  <1>4. \A k \in Nat : k \in S
    <2> HIDE DEF S
    <2> QED BY <1>2, <1>3, NatInduct
  <1> QED BY <1>1, <1>4 DEF Located

\* The parts of a concatenation stand where the offsets say.
LaidOut(s, parts, off, n) ==
    /\ Len(s) = off[n]
    /\ \A k \in 1..n : \A q \in 1..Len(parts[k]) : s[off[k - 1] + q] = parts[k][q]

\* Appending a part to a concatenation lays it out behind the others.
LEMMA LayNext ==
    ASSUME NEW A, NEW parts \in Seq(Seq(A)), NEW off, IsOffsets(off, parts),
           NEW n \in Nat, n + 1 \in 1..Len(parts),
           NEW s \in Seq(A), LaidOut(s, parts, off, n)
    PROVE  s \o parts[n + 1] \in Seq(A) /\ LaidOut(s \o parts[n + 1], parts, off, n + 1)
  <1> DEFINE N == Len(parts)
             t == parts[n + 1]
             u == s \o t
             L == Len(s)
             T == Len(t)
  <1>1. /\ N \in Nat /\ n + 1 \in 1..N /\ t \in Seq(A) /\ T \in Nat
        /\ \A k \in 1..N : Len(parts[k]) \in Nat
        /\ \A k \in Nat : off[k] \in Nat
    BY PartsType
  <1>2. L = off[n] /\ off[n + 1] = off[n] + T
    <2>1. (n + 1) - 1 = n
      OBVIOUS
    <2> QED BY <2>1 DEF LaidOut, IsOffsets
  <1> HIDE DEF t
  <1>4. /\ u \in Seq(A) /\ Len(u) = L + T
        /\ \A p \in 1..L : u[p] = s[p]
        /\ \A p \in 1..T : u[L + p] = t[p]
    BY <1>1
  <1>5. ASSUME NEW k \in 1..(n + 1), NEW q \in 1..Len(parts[k])
        PROVE  u[off[k - 1] + q] = parts[k][q]
    <2>1. CASE k = n + 1
      <3>1. k - 1 = n /\ q \in 1..T /\ parts[k] = t
        BY <2>1 DEF t
      <3> HIDE DEF u, L, T
      <3> QED BY <1>2, <1>4, <3>1
    <2>2. CASE k \in 1..n
      <3> HIDE DEF N, L, T, u
      <3>1. k \in 1..N /\ k \in 0..n /\ n \in 0..N /\ k - 1 \in Nat /\ k \in Nat
        BY <1>1, <2>2
      <3>2. off[k] <= off[n] /\ off[k] = off[k - 1] + Len(parts[k])
        BY <3>1, OffsetsMonotone DEF IsOffsets, N
      <3>3. off[k - 1] \in Nat /\ Len(parts[k]) \in Nat /\ off[n] \in Nat
        BY <1>1, <3>1
      <3>4. off[k - 1] + q \in 1..L
        BY <1>2, <3>2, <3>3, SMTT(30)
      <3>5. s[off[k - 1] + q] = parts[k][q]
        BY <2>2 DEF LaidOut
      <3> QED BY <1>4, <3>4, <3>5
    <2> HIDE DEF u
    <2> QED BY <2>1, <2>2
  <1>6. LaidOut(u, parts, off, n + 1)
    <2> HIDE DEF u
    <2> QED BY <1>2, <1>4, <1>5 DEF LaidOut
  <1> QED BY <1>4, <1>6 DEF t

\* FlattenSeq lays the parts end to end.
LEMMA FlattenLaidOut ==
    ASSUME NEW A, NEW parts \in Seq(Seq(A)), NEW off, IsOffsets(off, parts)
    PROVE  FlattenSeq(parts) \in Seq(A)
           /\ LaidOut(FlattenSeq(parts), parts, off, Len(parts))
  <1> DEFINE N == Len(parts)
  <1>1. N \in Nat /\ \A k \in 1..N : parts[k] \in Seq(A)
    BY PartsType
  <1>2. CASE N = 0
    <2>1. parts = <<>> /\ FlattenSeq(parts) = parts
      BY <1>2 DEF FlattenSeq
    <2>2. <<>> \in Seq(A) /\ Len(<<>>) = 0
      OBVIOUS
    <2>3. off[0] = 0
      BY DEF IsOffsets
    <2>4. LaidOut(<<>>, parts, off, 0)
      BY <2>2, <2>3 DEF LaidOut
    <2> QED BY <1>2, <2>1, <2>2, <2>4
  <1>3. CASE N # 0
    <2> DEFINE Def(f) == f = [k \in 1..N |-> IF k = 1 THEN parts[k] ELSE f[k - 1] \o parts[k]]
               flatten == CHOOSE f : Def(f)
               next(m) == IF m + 1 \in 1..N THEN parts[m + 1] ELSE <<>>
               step == [m \in Nat |-> [s \in Seq(A) |-> s \o next(m)]]
    <2>1. FlattenSeq(parts) = flatten[N]
      BY <1>3 DEF FlattenSeq
    <2>2. \A m \in Nat : next(m) \in Seq(A)
      BY <1>1
    <2>3. step \in [Nat -> [Seq(A) -> Seq(A)]]
          /\ \A m \in Nat : \A s \in Seq(A) : step[m][s] = s \o next(m)
      <3> HIDE DEF next
      <3>1. \A m \in Nat : \A s \in Seq(A) : s \o next(m) \in Seq(A)
        BY <2>2
      <3> QED BY <3>1
    <2>4. PICK h : IsRecursive(h, Seq(A), <<>>, step)
      <3>1. <<>> \in Seq(A)
        OBVIOUS
      <3> HIDE DEF step
      <3> QED BY <2>3, <3>1, RecursionExists
    <2> HIDE DEF step
    <2>5. h \in [Nat -> Seq(A)] /\ h[0] = <<>> /\ \A m \in Nat : h[m + 1] = step[m][h[m]]
      BY <2>4 DEF IsRecursive
    <2>6. ASSUME NEW k \in 1..N PROVE h[k] = h[k - 1] \o parts[k] /\ h[k - 1] \in Seq(A)
      <3>1. k - 1 \in Nat /\ (k - 1) + 1 = k /\ next(k - 1) = parts[k]
        BY <1>1
      <3> HIDE DEF next
      <3> QED BY <2>3, <2>5, <3>1
    <2> DEFINE f == [k \in 1..N |-> h[k]]
    <2>7. Def(f)
      <3>1. ASSUME NEW k \in 1..N
            PROVE  h[k] = IF k = 1 THEN parts[k] ELSE f[k - 1] \o parts[k]
        <4>1. CASE k = 1
          <5>1. k - 1 = 0
            BY <4>1
          <5>2. h[0] = <<>> /\ parts[1] \in Seq(A) /\ h[1] = h[0] \o parts[1]
            BY <1>1, <2>5, <2>6, <4>1, <5>1
          <5> QED BY <4>1, <5>2
        <4>2. CASE k # 1
          <5>1. k - 1 \in 1..N
            BY <1>1, <4>2
          <5> QED BY <2>6, <4>2, <5>1
        <4> QED BY <4>1, <4>2
      <3>2. f = [k \in 1..N |-> IF k = 1 THEN parts[k] ELSE f[k - 1] \o parts[k]]
        BY <3>1
      <3> QED BY <3>2
    <2>8. Def(flatten)
      <3> HIDE DEF Def
      <3> QED BY <2>7
    <2> HIDE DEF flatten
    <2> DEFINE S == {m \in Nat : m + 1 \in 1..N =>
                       flatten[m + 1] \in Seq(A) /\ LaidOut(flatten[m + 1], parts, off, m + 1)}
    <2>9. 0 \in S
      <3>1. flatten[1] = parts[1]
        BY <1>1, <1>3, <2>8
      <3>2. parts[1] \in Seq(A)
        BY <1>1, <1>3
      <3>3. LaidOut(<<>>, parts, off, 0) /\ <<>> \in Seq(A) /\ 0 + 1 \in 1..Len(parts)
        BY <1>1, <1>3 DEF LaidOut, IsOffsets
      <3>4. <<>> \o parts[0 + 1] \in Seq(A)
            /\ LaidOut(<<>> \o parts[0 + 1], parts, off, 0 + 1)
        BY <3>3, LayNext
      <3>5. <<>> \o parts[0 + 1] = parts[1]
        BY <3>2
      <3> QED BY <3>1, <3>4, <3>5
    <2>10. ASSUME NEW m \in Nat, m \in S PROVE m + 1 \in S
      <3> SUFFICES ASSUME (m + 1) + 1 \in 1..N
                   PROVE  /\ flatten[(m + 1) + 1] \in Seq(A)
                          /\ LaidOut(flatten[(m + 1) + 1], parts, off, (m + 1) + 1)
        OBVIOUS
      <3>1. m + 1 \in 1..N /\ m + 1 \in Nat /\ (m + 1) + 1 # 1
            /\ ((m + 1) + 1) - 1 = m + 1
        BY <1>1
      <3>2. flatten[(m + 1) + 1] = flatten[m + 1] \o parts[(m + 1) + 1]
        BY <2>8, <3>1
      <3>3. flatten[m + 1] \in Seq(A) /\ LaidOut(flatten[m + 1], parts, off, m + 1)
        BY <2>10, <3>1
      <3> QED BY <3>1, <3>2, <3>3, LayNext
    <2>11. \A m \in Nat : m \in S
      <3> HIDE DEF S
      <3> QED BY <2>9, <2>10, NatInduct
    <2>12. N - 1 \in Nat /\ (N - 1) + 1 = N /\ N \in 1..N
      <3> HIDE DEF N
      <3> QED BY <1>1, <1>3
    <2>13. N - 1 \in S
      BY <2>11, <2>12
    <2> QED BY <2>1, <2>12, <2>13
  <1> QED BY <1>2, <1>3

-----------------------------------------------------------------------------
(* Numbers and their digits *)

\* The powers of a radix.
LEMMA PowerNext ==
    ASSUME NEW radix \in Nat \ {0}
    PROVE  /\ Power(radix, 0) = 1
           /\ \A n \in Nat : /\ Power(radix, n) \in Nat \ {0}
                             /\ Power(radix, n + 1) = radix * Power(radix, n)
  <1> DEFINE step == [m \in Nat |-> [v \in Nat \ {0} |-> radix * v]]
  <1>1. /\ step \in [Nat -> [Nat \ {0} -> Nat \ {0}]]
        /\ \A m \in Nat : \A v \in Nat \ {0} : step[m][v] = radix * v
    <2>1. \A v \in Nat \ {0} : radix * v \in Nat \ {0}
      OBVIOUS
    <2> QED BY <2>1
  <1> HIDE DEF step
  <1>0. 1 \in Nat \ {0}
    OBVIOUS
  <1>2. PICK f : IsRecursive(f, Nat \ {0}, 1, step)
    BY <1>0, <1>1, RecursionExists
  <1>4. f[0] = 1 /\ \A n \in Nat : f[n] \in Nat \ {0} /\ f[n + 1] = radix * f[n]
    BY <1>1, <1>2 DEF IsRecursive
  <1>3. ASSUME NEW n \in Nat PROVE Power(radix, n) = f[n]
    <2> DEFINE Def(g) == g = [k \in 0..n |-> IF k = 0 THEN 1 ELSE radix * g[k - 1]]
               p == CHOOSE g : Def(g)
               g == [k \in 0..n |-> f[k]]
    <2>1. Power(radix, n) = p[n]
      BY DEF Power
    <2>2. ASSUME NEW k \in 0..n PROVE f[k] = IF k = 0 THEN 1 ELSE radix * g[k - 1]
      <3>1. CASE k = 0
        BY <1>4, <3>1
      <3>2. CASE k # 0
        <4>1. k - 1 \in Nat /\ k - 1 \in 0..n /\ (k - 1) + 1 = k
          BY <3>2
        <4> QED BY <1>4, <3>2, <4>1
      <3> QED BY <3>1, <3>2
    <2>3. g = [k \in 0..n |-> IF k = 0 THEN 1 ELSE radix * g[k - 1]]
      BY <2>2
    <2>4. Def(g)
      BY <2>3
    <2>5. Def(p)
      <3> HIDE DEF Def
      <3> QED BY <2>4
    <2> HIDE DEF p
    <2> DEFINE S == {k \in Nat : k <= n => p[k] = f[k]}
    <2>6. 0 \in S
      BY <1>4, <2>5
    <2>7. ASSUME NEW k \in Nat, k \in S PROVE k + 1 \in S
      <3> SUFFICES ASSUME k + 1 <= n PROVE p[k + 1] = f[k + 1]
        OBVIOUS
      <3>1. k + 1 \in 0..n /\ k + 1 # 0 /\ (k + 1) - 1 = k /\ p[k] = f[k]
        BY <2>7
      <3>2. p[k + 1] = radix * p[k]
        BY <2>5, <3>1
      <3> QED BY <1>4, <3>1, <3>2
    <2>8. \A k \in Nat : k \in S
      <3> HIDE DEF S
      <3> QED BY <2>6, <2>7, NatInduct
    <2>9. p[n] = f[n]
      BY <2>8
    <2> QED BY <2>1, <2>9
  <1> QED BY <1>3, <1>4

\* Division with remainder.
LEMMA DivMod ==
    ASSUME NEW n \in Nat, NEW d \in Nat \ {0}
    PROVE  /\ n \div d \in Nat /\ n % d \in 0..(d - 1)
           /\ n = d * (n \div d) + (n % d)
  OBVIOUS

\* The quotient and the remainder are determined by that.
LEMMA DivUnique ==
    ASSUME NEW n \in Nat, NEW d \in Nat \ {0}, NEW q \in Nat, NEW r \in 0..(d - 1), n = d * q + r
    PROVE  n \div d = q /\ n % d = r
  OBVIOUS

\* Less than once.
LEMMA DivSmall ==
    ASSUME NEW n \in Nat, NEW d \in Nat \ {0}, n < d
    PROVE  n \div d = 0 /\ n % d = n
  OBVIOUS

\* Products of numbers.
LEMMA Products ==
    ASSUME NEW a \in Nat, NEW b \in Nat
    PROVE  a * b \in Nat /\ a * b = b * a /\ (a # 0 /\ b # 0 => a * b # 0)
  OBVIOUS

\* u has the values of the first digits of s, of more and more of them.
PrefixValues(u, radix, s) ==
    u[0] = 0 /\ \A k \in 1..Len(s) : u[k] = u[k - 1] * radix + s[k]

\* The value of all of them is the last of these.
LEMMA ValueIsLast ==
    ASSUME NEW radix, NEW s, Len(s) \in Nat, NEW u, PrefixValues(u, radix, s)
    PROVE  Value(radix, s) = u[Len(s)]
  <1> DEFINE n == Len(s)
             Def(g) == g = [k \in 0..n |-> IF k = 0 THEN 0 ELSE g[k - 1] * radix + s[k]]
             p == CHOOSE g : Def(g)
             g == [k \in 0..n |-> u[k]]
  <1>1. Value(radix, s) = p[n]
    BY DEF Value
  <1> HIDE DEF n
  <1>0. n \in Nat
    BY DEF n
  <1>2. ASSUME NEW k \in 0..n PROVE u[k] = IF k = 0 THEN 0 ELSE g[k - 1] * radix + s[k]
    <2>1. CASE k = 0
      BY <2>1 DEF PrefixValues
    <2>2. CASE k # 0
      <3>1. k - 1 \in 0..n /\ k \in 1..Len(s)
        BY <1>0, <2>2 DEF n
      <3> QED BY <2>2, <3>1 DEF PrefixValues
    <2> QED BY <2>1, <2>2
  <1>3. g = [k \in 0..n |-> IF k = 0 THEN 0 ELSE g[k - 1] * radix + s[k]]
    BY <1>2
  <1>4. Def(g)
    BY <1>3
  <1>5. Def(p)
    <2> HIDE DEF Def
    <2> QED BY <1>4
  <1> HIDE DEF p
  <1> DEFINE S == {k \in Nat : k <= n => p[k] = u[k]}
  <1>6. 0 \in S
    BY <1>0, <1>5 DEF PrefixValues
  <1>7. ASSUME NEW k \in Nat, k \in S PROVE k + 1 \in S
    <2> SUFFICES ASSUME k + 1 <= n PROVE p[k + 1] = u[k + 1]
      OBVIOUS
    <2>1. k + 1 \in 0..n /\ k + 1 # 0 /\ (k + 1) - 1 = k /\ p[k] = u[k] /\ k + 1 \in 1..Len(s)
      BY <1>0, <1>7 DEF n
    <2>2. p[k + 1] = p[k] * radix + s[k + 1]
      BY <1>5, <2>1
    <2>3. u[k + 1] = u[k] * radix + s[k + 1]
      BY <2>1 DEF PrefixValues
    <2> QED BY <2>1, <2>2, <2>3
  <1>8. \A k \in Nat : k \in S
    <2> HIDE DEF S
    <2> QED BY <1>6, <1>7, NatInduct
  <1>9. p[n] = u[n]
    BY <1>0, <1>8
  <1> QED BY <1>1, <1>9 DEF n

\* There are such values, and they are numbers.
LEMMA PartialExists ==
    ASSUME NEW radix \in Nat, NEW s \in Seq(Nat)
    PROVE  \E u \in [Nat -> Nat] : PrefixValues(u, radix, s)
  <1> DEFINE digit(m) == IF m + 1 \in 1..Len(s) THEN s[m + 1] ELSE 0
             step == [m \in Nat |-> [v \in Nat |-> v * radix + digit(m)]]
  <1>1. Len(s) \in Nat /\ \A m \in Nat : digit(m) \in Nat
    OBVIOUS
  <1>2. /\ step \in [Nat -> [Nat -> Nat]]
        /\ \A m, v \in Nat : step[m][v] = v * radix + digit(m)
    <2> HIDE DEF digit
    <2>1. \A m, v \in Nat : v * radix + digit(m) \in Nat
      <3> SUFFICES ASSUME NEW m \in Nat, NEW v \in Nat PROVE v * radix + digit(m) \in Nat
        OBVIOUS
      <3>1. v * radix \in Nat /\ digit(m) \in Nat
        BY <1>1, Products
      <3> QED BY <3>1
    <2> QED BY <2>1
  <1>3. PICK u : IsRecursive(u, Nat, 0, step)
    <2>1. 0 \in Nat
      OBVIOUS
    <2> HIDE DEF step
    <2> QED BY <1>2, <2>1, RecursionExists
  <1> HIDE DEF step
  <1>4. u \in [Nat -> Nat] /\ u[0] = 0 /\ \A m \in Nat : u[m + 1] = step[m][u[m]]
    BY <1>3 DEF IsRecursive
  <1>5. ASSUME NEW k \in 1..Len(s) PROVE u[k] = u[k - 1] * radix + s[k]
    <2>1. k - 1 \in Nat /\ (k - 1) + 1 = k
      BY <1>1
    <2>2. digit(k - 1) = s[k]
      BY <2>1
    <2> HIDE DEF digit
    <2> QED BY <1>2, <1>4, <2>1, <2>2, ZenonT(60)
  <1> QED BY <1>4, <1>5 DEF PrefixValues

\* One more digit.
LEMMA ValueAppend ==
    ASSUME NEW radix \in Nat, NEW s \in Seq(Nat), NEW d \in Nat
    PROVE  Value(radix, s) \in Nat /\ Value(radix, Append(s, d)) = Value(radix, s) * radix + d
  <1> DEFINE n == Len(s)
             t == Append(s, d)
  <1>1. PICK u \in [Nat -> Nat] : PrefixValues(u, radix, s)
    BY PartialExists
  <1> DEFINE last == u[n] * radix + d
             w == [k \in 0..(n + 1) |-> IF k = n + 1 THEN last ELSE u[k]]
  <1>2. n \in Nat /\ Len(t) = n + 1 /\ t[n + 1] = d /\ \A k \in 1..n : t[k] = s[k]
    BY SMTT(30)
  <1>3. /\ w[0] = u[0] /\ \A k \in 1..n : w[k] = u[k]
        /\ w[n + 1] = last /\ w[n] = u[n]
    <2> HIDE DEF last, n
    <2>0. n \in Nat
      BY <1>2
    <2>1. /\ 0 \in 0..(n + 1) /\ n \in 0..(n + 1) /\ n + 1 \in 0..(n + 1) /\ 0 # n + 1 /\ n # n + 1
          /\ \A k \in 1..n : k \in 0..(n + 1) /\ k # n + 1
      BY <2>0
    <2> QED BY <2>1
  <1>4. Value(radix, s) = u[n]
    BY <1>1, <1>2, ValueIsLast
  <1> HIDE DEF w, t
  <1>5. ASSUME NEW k \in 1..Len(t) PROVE w[k] = w[k - 1] * radix + t[k]
    <2>1. CASE k = n + 1
      <3>1. k - 1 = n
        BY <1>2, <2>1
      <3> QED BY <1>2, <1>3, <2>1, <3>1
    <2>2. CASE k \in 1..n
      <3>1. w[k - 1] = u[k - 1]
        <4>1. k - 1 = 0 \/ k - 1 \in 1..n
          BY <1>2, <2>2
        <4> QED BY <1>3, <4>1
      <3>2. u[k] = u[k - 1] * radix + s[k]
        BY <1>1, <2>2 DEF PrefixValues
      <3> QED BY <1>2, <1>3, <2>2, <3>1, <3>2
    <2> HIDE DEF n
    <2> QED BY <1>2, <2>1, <2>2
  <1>6. PrefixValues(w, radix, t)
    BY <1>1, <1>3, <1>5 DEF PrefixValues
  <1>7. Value(radix, t) = w[n + 1]
    <2>1. Len(t) \in Nat
      BY <1>2
    <2>2. Value(radix, t) = w[Len(t)]
      BY <1>6, <2>1, ValueIsLast
    <2> QED BY <1>2, <2>2
  <1> QED BY <1>1, <1>2, <1>3, <1>4, <1>7 DEF t

\* Dividing by one number and then by another.
LEMMA DivDiv ==
    ASSUME NEW n \in Nat, NEW a \in Nat \ {0}, NEW b \in Nat \ {0}
    PROVE  a * b \in Nat \ {0} /\ (n \div a) \div b = n \div (a * b)
  <1> DEFINE q == n \div a
             r == n % a
             s == q \div b
             t == q % b
  <1>1. q \in Nat /\ r \in 0..(a - 1) /\ n = a * q + r
    OBVIOUS
  <1> HIDE DEF q, r
  <1>2. s \in Nat /\ t \in 0..(b - 1) /\ q = b * s + t
    BY <1>1
  <1> HIDE DEF s, t
  <1>3. a * b \in Nat \ {0} /\ a * t + r \in 0..(a * b - 1)
    <2>1. t + 1 <= b /\ t \in Nat
      BY <1>2
    <2>2. a * (t + 1) <= a * b
      BY <2>1
    <2> QED BY <1>1, <2>1, <2>2
  <1>4. n = (a * b) * s + (a * t + r)
    BY <1>1, <1>2
  <1>5. n \div (a * b) = s
    BY <1>2, <1>3, <1>4
  <1> QED BY <1>3, <1>5 DEF q, s

\* s is the number x written with Len(s) digits.
Spelled(s, radix, x) ==
    \A k \in 1..Len(s) : s[k] = (x \div Power(radix, Len(s) - k)) % radix

\* A number, written with as many digits as its size allows, is the value of them.
LEMMA ValueOfDigits ==
    ASSUME NEW radix \in Nat \ {0}, NEW n \in Nat, NEW x \in Nat, x < Power(radix, n),
           NEW s, Len(s) = n, Spelled(s, radix, x)
    PROVE  Value(radix, s) = x
  <1> DEFINE u == [k \in 0..n |-> x \div Power(radix, n - k)]
  <1>1. u[0] = 0
    <2>1. n - 0 = n /\ Power(radix, n) \in Nat \ {0}
      BY PowerNext
    <2>2. x \div Power(radix, n) = 0
      BY <2>1, DivSmall
    <2> QED BY <2>1, <2>2
  <1>2. u[n] = x
    <2>1. Power(radix, 0) = 1 /\ n - n = 0
      BY PowerNext
    <2>2. x \div 1 = x
      OBVIOUS
    <2> QED BY <2>1, <2>2
  <1>3. ASSUME NEW k \in 1..n PROVE u[k] = u[k - 1] * radix + s[k]
    <2> DEFINE a == Power(radix, n - k)
               q == x \div a
    <2>1. n - k \in Nat /\ n - (k - 1) = (n - k) + 1 /\ k - 1 \in 0..n /\ k \in 0..n
      OBVIOUS
    <2>2. a \in Nat \ {0} /\ Power(radix, n - (k - 1)) = radix * a
      BY <2>1, PowerNext
    <2>s. s[k] = q % radix
      BY DEF Spelled
    <2> HIDE DEF a
    <2>3. (x \div a) \div radix = x \div (a * radix) /\ a * radix = radix * a
      <3>1. (x \div a) \div radix = x \div (a * radix)
        BY <2>2, DivDiv
      <3> QED BY <2>2, <3>1, Products
    <2>4. q \in Nat
      BY <2>2, DivMod
    <2>5. u[k - 1] = q \div radix /\ u[k] = q
      BY <2>1, <2>2, <2>3 DEF a
    <2> HIDE DEF q
    <2>6. q = radix * (q \div radix) + (q % radix) /\ q \div radix \in Nat
      BY <2>4, DivMod
    <2> QED BY <2>s, <2>5, <2>6, Products
  <1> HIDE DEF u
  <1>4. PrefixValues(u, radix, s)
    BY <1>1, <1>3 DEF PrefixValues
  <1>5. Value(radix, s) = u[Len(s)]
    BY <1>4, ValueIsLast
  <1> QED BY <1>2, <1>5
=============================================================================
