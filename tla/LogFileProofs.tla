---------------------------- MODULE LogFileProofs ----------------------------
(***************************************************************************)
(* A profile file is read back as it was written, as far as it was         *)
(* written: for every radix, every log, whatever its data bytes look like, *)
(* and a cut after any character.                                          *)
(*                                                                         *)
(* The invariant names the places off[k] where the records end.  The file  *)
(* agrees with the records as far as it goes (Holds); the reader has the   *)
(* first n records and is behind place off[n], or in record n + 1 with its *)
(* first numbers right, or adrift in a file that was cut, where the        *)
(* character last got is a space, so that the assert on the newline stops  *)
(* it.  A number ends at its space: digits are no white space, so >> takes *)
(* the digits that serialize wrote, and their value is the number.         *)
(***************************************************************************)
EXTENDS LogFile, DataInduction

-----------------------------------------------------------------------------
(* A record in the file *)

\* The four numbers.
Numbers(w) == <<w.bi_flags, w.bi_rw, w.write_sector, w.size>>

\* How many digits the j-th has.
Width(w, j) == Len(digits[Numbers(w)[j]])

\* How many characters are before the j-th; before the data for j = 5.
Before(w, j) ==
    CASE j = 1 -> 0
      [] j = 2 -> Width(w, 1) + 1
      [] j = 3 -> Width(w, 1) + 1 + Width(w, 2) + 1
      [] j = 4 -> Width(w, 1) + 1 + Width(w, 2) + 1 + Width(w, 3) + 1
      [] j = 5 -> Width(w, 1) + 1 + Width(w, 2) + 1 + Width(w, 3) + 1 + Width(w, 4) + 1

\* t stands in s, after place a.
At(s, a, t) == a + Len(t) <= Len(s) /\ \A i \in 1..Len(t) : s[a + i] = t[i]

\* As much of t as f has after place a.
Within(f, a, t) == \A i \in 1..Len(t) : a + i <= Len(f) => f[a + i] = t[i]

\* The records of a log, as they are written.
Parts(log) == [k \in DOMAIN log |-> serialize(log[k])]

\* The log that the file is of.
Source == IF opened THEN log_data ELSE old

-----------------------------------------------------------------------------
(* The invariant; off[k] is where record k ends *)

\* The file holds a log, or the beginning of one.
Holds(f, S, off) ==
    /\ f \in Seq(Char) /\ S \in Seq(Records) /\ IsOffsets(off, Parts(S))
    /\ \A k \in 1..Len(S) : Within(f, off[k - 1], Parts(S)[k])

\* The file is what was saved, or as much of it as was written.
FileInv(off) ==
    /\ Holds(file, Source, off)
    /\ Len(file) <= off[Len(Source)]
    /\ saver = "open" => ~opened /\ ~lost /\ next = 1
    /\ ~opened => Len(file) = off[Len(Source)]
    /\ saver = "write" => opened /\ ~lost /\ LaidOut(file, Parts(Source), off, next - 1)
    /\ saver \in {"returned", "killed"} /\ ~lost => opened /\ Len(file) = off[Len(Source)]
    /\ saver \notin {"returned", "killed"} => reader = "idle"

\* The reader is in record w, which begins after place base, and has it so far.
InRecord(w, base) ==
    /\ good
    /\ \A i \in 1..Len(meta) : meta[i] = Numbers(w)[i]
    /\ reader = "number" =>
         /\ pos = base + Before(w, Len(meta) + 1) + (IF Len(meta) = 0 THEN 1 ELSE 0)
         /\ pos <= Len(file)
    /\ reader = "space" => pos = base + Before(w, 5) /\ pos <= Len(file)
    /\ reader = "data" => pos = base + Before(w, 5) + 1 /\ nl = SP
    /\ reader = "newline" => pos = base + Before(w, 5) + w.size + 1 /\ buffer = w.data /\ nl = SP

\* It has met the end of a file that was cut, and no newline will be got.
Adrift == ~good /\ lost /\ (reader \in {"data", "newline"} => nl = SP)

\* Where the reader is in a record.
Inside == {"number", "space", "data", "newline"}

\* What is loaded is the first records of the log; the reader is behind the last
\* of them, or in the next.
ReaderInv(off) ==
    LET n == Len(loaded)
    IN /\ n \in 0..Len(Source) /\ loaded = SubSeq(Source, 1, n)
       /\ reader = "idle" => pos = 1 /\ good /\ n = 0
       /\ reader = "peek" => ~eofbit /\ pos = off[n] + 1
       /\ reader = "number" => Len(meta) < 4
       /\ reader \in {"space", "data", "newline"} => Len(meta) = 4
       /\ reader \in Inside => Adrift \/ (n < Len(Source) /\ InRecord(Source[n + 1], off[n]))
       /\ reader = "success" => pos = off[n] + 1 /\ pos > Len(file)
       /\ reader = "aborted" => lost

\* The variables and the two logs have their types.
LogTypes == log_data \in Seq(Records) /\ old \in Seq(Records) /\ TypeOK

\* The inductive invariant.
LogInv == LogTypes /\ \E off : FileInv(off) /\ ReaderInv(off)
-----------------------------------------------------------------------------
(* Numbers and their digits *)

\* What the constants are.
LEMMA Constants ==
    /\ Radix \in Nat \ {0} /\ Radix >= 2 /\ SP \in Char /\ NL \in Char /\ SP # NL
    /\ Char \subseteq Nat /\ 0..(Radix - 1) \subseteq Char
    /\ \A c \in 0..(Radix - 1) : ~IsSpace(c)
    /\ IsSpace(SP) /\ Logs \cup OldLogs \subseteq Seq(Records)
  <1>1. Radix \in Nat /\ Radix >= 2 /\ Logs \cup OldLogs \subseteq Seq(Records)
    BY LogFileAssumption
  <1>2. SP = Radix /\ NL = Radix + 1 /\ Char = 0..(Radix + 1)
    BY DEF SP, NL, Char
  <1>3. SP \in Char /\ NL \in Char /\ SP # NL /\ Char \subseteq Nat /\ 0..(Radix - 1) \subseteq Char
    BY <1>1, <1>2
  <1>4. \A c \in 0..(Radix - 1) : ~IsSpace(c)
    BY <1>1, <1>2 DEF IsSpace
  <1>5. IsSpace(SP)
    BY DEF IsSpace
  <1> QED BY <1>1, <1>3, <1>4, <1>5

\* A quotient is less.
LEMMA Quotient ==
    ASSUME NEW n \in Nat
    PROVE  n \div Radix \in Nat /\ n % Radix \in 0..(Radix - 1)
           /\ n = Radix * (n \div Radix) + (n % Radix)
           /\ n \div Radix <= n /\ (n >= Radix => n \div Radix < n)
  <1> DEFINE q == n \div Radix
             r == n % Radix
  <1>1. Radix \in Nat \ {0} /\ Radix >= 2
    BY Constants
  <1>2. q \in Nat /\ r \in 0..(Radix - 1) /\ n = Radix * q + r
    BY <1>1, DivMod
  <1> HIDE DEF q, r
  <1>3. q + q <= Radix * q
    BY <1>1, <1>2
  <1> DEFINE p == Radix * q
  <1>4. p \in Nat
    BY <1>1, <1>2, Products
  <1> HIDE DEF p
  <1>5. n = p + r /\ q + q <= p
    BY <1>2, <1>3 DEF p
  <1>6. q <= n
    BY <1>1, <1>2, <1>4, <1>5
  <1>7. ASSUME n >= Radix PROVE q < n
    <2>1. CASE q = 0
      BY <1>1, <1>7, <2>1
    <2>2. CASE q # 0
      BY <1>1, <1>2, <1>4, <1>5, <2>2
    <2> QED BY <2>1, <2>2
  <1> QED BY <1>2, <1>6, <1>7 DEF q, r

\* f gives n the digits that the recursion asks for.
DigitsAt(f, n) == f[n] = IF n < Radix THEN <<n>> ELSE Append(f[n \div Radix], n % Radix)

\* ... and all numbers up to N.
DigitsTo(f, N) == \A n \in 0..N : DigitsAt(f, n)

\* There is such a function, for every N.
LEMMA DigitsToExist == \A N \in Nat : \E f : DigitsTo(f, N)
  <1> DEFINE S == {N \in Nat : \E f : DigitsTo(f, N)}
  <1>0. Radix \in Nat \ {0} /\ Radix >= 2
    BY Constants
  <1>1. 0 \in S
    <2> DEFINE f == [n \in 0..0 |-> <<n>>]
    <2>1. DigitsAt(f, 0)
      BY <1>0 DEF DigitsAt
    <2> HIDE DEF f
    <2>2. DigitsTo(f, 0)
      <3>1. \A n \in 0..0 : n = 0
        OBVIOUS
      <3> QED BY <2>1, <3>1 DEF DigitsTo
    <2> QED BY <2>2
  <1>2. ASSUME NEW N \in Nat, N \in S PROVE N + 1 \in S
    <2>1. PICK f : DigitsTo(f, N)
      BY <1>2
    <2> DEFINE M == N + 1
               x == IF M < Radix THEN <<M>> ELSE Append(f[M \div Radix], M % Radix)
               g == [n \in 0..M |-> IF n = M THEN x ELSE f[n]]
    <2>2. M \in Nat /\ \A n \in 0..N : n \in 0..M /\ n # M
      OBVIOUS
    <2> HIDE DEF x
    <2>3. g[M] = x /\ \A n \in 0..N : g[n] = f[n]
      <3>1. M \in 0..M
        OBVIOUS
      <3> HIDE DEF M
      <3> QED BY <2>2, <3>1
    <2> HIDE DEF g
    <2>4. ASSUME NEW n \in 0..N PROVE DigitsAt(g, n)
      <3>1. n \in Nat /\ n <= N
        OBVIOUS
      <3>2. n \div Radix \in Nat /\ n \div Radix <= n
        BY <3>1, Quotient
      <3> DEFINE q == n \div Radix
      <3>3. q \in 0..N
        <4> HIDE DEF q
        <4> QED BY <3>1, <3>2 DEF q
      <3> HIDE DEF q
      <3>4. g[q] = f[q] /\ g[n] = f[n]
        BY <2>3, <3>3
      <3>5. DigitsAt(f, n)
        BY <2>1 DEF DigitsTo
      <3> QED BY <3>4, <3>5 DEF DigitsAt, q
    <2>5. DigitsAt(g, M)
      <3>1. CASE M < Radix
        BY <2>3, <3>1 DEF DigitsAt, x
      <3>2. CASE ~(M < Radix)
        <4> DEFINE q == M \div Radix
        <4>1. M >= Radix
          BY <1>0, <2>2, <3>2
        <4>2. q \in Nat /\ q < M
          BY <2>2, <4>1, Quotient
        <4> HIDE DEF q
        <4>3. q \in 0..N
          BY <4>2
        <4>4. g[q] = f[q]
          BY <2>3, <4>3
        <4> QED BY <2>3, <3>2, <4>4 DEF DigitsAt, x, q
      <3> QED BY <3>1, <3>2
    <2>6. DigitsTo(g, M)
      <3>1. \A n \in 0..M : n \in 0..N \/ n = M
        OBVIOUS
      <3> QED BY <2>4, <2>5, <3>1 DEF DigitsTo
    <2> QED BY <2>2, <2>6
  <1>3. \A N \in Nat : N \in S
    <2> HIDE DEF S
    <2> QED BY <1>1, <1>2, NatInduct
  <1> QED BY <1>3

\* Two of them give a number the same digits.
LEMMA DigitsToAgree ==
    ASSUME NEW f, NEW g, NEW N \in Nat, DigitsTo(f, N), NEW M \in Nat, DigitsTo(g, M)
    PROVE  \A n \in Nat : n <= N /\ n <= M => f[n] = g[n]
  <1> DEFINE S == {k \in Nat : \A n \in 0..k : n <= N /\ n <= M => f[n] = g[n]}
  <1>0. Radix \in Nat \ {0} /\ Radix >= 2
    BY Constants
  <1>1. 0 \in S
    <2>1. DigitsAt(f, 0) /\ DigitsAt(g, 0)
      BY DEF DigitsTo
    <2>2. f[0] = g[0]
      BY <1>0, <2>1 DEF DigitsAt
    <2> QED BY <2>2
  <1>2. ASSUME NEW k \in Nat, k \in S PROVE k + 1 \in S
    <2> DEFINE K == k + 1
    <2>1. ASSUME K <= N, K <= M PROVE f[K] = g[K]
      <3>1. K \in 0..N /\ K \in 0..M /\ K \in Nat
        BY <2>1
      <3>2. DigitsAt(f, K) /\ DigitsAt(g, K)
        BY <3>1 DEF DigitsTo
      <3>3. CASE K < Radix
        BY <3>2, <3>3 DEF DigitsAt
      <3>4. CASE ~(K < Radix)
        <4> DEFINE q == K \div Radix
        <4>1. q \in Nat /\ q < K
          <5>1. K >= Radix
            BY <1>0, <3>1, <3>4
          <5> QED BY <3>1, <5>1, Quotient
        <4> HIDE DEF q
        <4>2. q \in 0..k /\ q <= N /\ q <= M
          BY <2>1, <4>1
        <4>3. f[q] = g[q]
          BY <1>2, <4>2
        <4> QED BY <3>2, <3>4, <4>3 DEF DigitsAt, q
      <3> QED BY <3>3, <3>4
    <2>2. \A n \in 0..K : n \in 0..k \/ n = K
      OBVIOUS
    <2>3. \A n \in 0..K : n <= N /\ n <= M => f[n] = g[n]
      BY <1>2, <2>1, <2>2
    <2>4. K \in Nat
      OBVIOUS
    <2> HIDE DEF K
    <2> QED BY <2>3, <2>4 DEF K
  <1>3. \A k \in Nat : k \in S
    <2> HIDE DEF S
    <2> QED BY <1>1, <1>2, NatInduct
  <1>4. ASSUME NEW n \in Nat, n <= N, n <= M PROVE f[n] = g[n]
    <2>1. n \in S /\ n \in 0..n
      BY <1>3
    <2> QED BY <1>4, <2>1
  <1> QED BY <1>4

\* digits is what its definition says.
LEMMA DigitsRecursion == \A n \in Nat : DigitsAt(digits, n)
  <1> DEFINE c(n) == CHOOSE f : DigitsTo(f, n)
             F == [n \in Nat |-> c(n)[n]]
             Def(f) == f = [n \in Nat |-> IF n < Radix THEN <<n>> ELSE Append(f[n \div Radix], n % Radix)]
  <1>1. \A n \in Nat : DigitsTo(c(n), n)
    BY DigitsToExist
  <1> HIDE DEF c
  <1>2. ASSUME NEW n \in Nat
        PROVE  F[n] = IF n < Radix THEN <<n>> ELSE Append(F[n \div Radix], n % Radix)
    <2> DEFINE q == n \div Radix
    <2>1. q \in Nat /\ q <= n
      BY Quotient
    <2> HIDE DEF q
    <2>2. DigitsAt(c(n), n)
      BY <1>1 DEF DigitsTo
    <2>3. c(n)[q] = c(q)[q]
      <3>1. q <= q
        BY <2>1
      <3> QED BY <1>1, <2>1, <3>1, DigitsToAgree
    <2>4. F[n] = c(n)[n] /\ F[q] = c(q)[q]
      BY <2>1
    <2> HIDE DEF F
    <2> QED BY <2>2, <2>3, <2>4 DEF DigitsAt, q
  <1>3. Def(F)
    BY <1>2
  <1>4. digits = CHOOSE f : Def(f)
    BY DEF digits
  <1>5. Def(digits)
    <2> HIDE DEF Def, F
    <2> QED BY <1>3, <1>4
  <1> QED BY <1>5 DEF DigitsAt

\* A number is written with one digit or more, and they stand for the number.
LEMMA DigitsValue ==
    ASSUME NEW n \in Nat
    PROVE  /\ digits[n] \in Seq(0..(Radix - 1)) /\ Len(digits[n]) \in Nat \ {0}
           /\ Value(Radix, digits[n]) = n
  <1> DEFINE D == 0..(Radix - 1)
             Fine(k) == /\ digits[k] \in Seq(D) /\ Len(digits[k]) \in Nat \ {0}
                        /\ Value(Radix, digits[k]) = k
             S == {m \in Nat : \A k \in 0..m : Fine(k)}
  <1>0. Radix \in Nat \ {0} /\ Radix >= 2
    BY Constants
  <1>1. ASSUME NEW k \in Nat, k < Radix PROVE Fine(k)
    <2>1. digits[k] = <<k>>
      BY <1>1, DigitsRecursion DEF DigitsAt
    <2>2. k \in D
      BY <1>0, <1>1
    <2>3. <<k>> = Append(<<>>, k) /\ <<k>> \in Seq(D) /\ Len(<<k>>) = 1
      BY <2>2
    <2>4. Value(Radix, <<>>) = 0
      <3>1. PrefixValues([j \in {0} |-> 0], Radix, <<>>)
        BY DEF PrefixValues
      <3> QED BY <3>1, ValueIsLast
    <2>5. Value(Radix, Append(<<>>, k)) = Value(Radix, <<>>) * Radix + k
      <3>1. <<>> \in Seq(Nat) /\ Radix \in Nat
        BY <1>0
      <3> QED BY <3>1, ValueAppend
    <2>6. Value(Radix, <<k>>) = k
      BY <1>0, <2>3, <2>4, <2>5
    <2> QED BY <2>1, <2>3, <2>6
  <1>2. ASSUME NEW k \in Nat, k >= Radix, NEW q, q = k \div Radix, Fine(q) PROVE Fine(k)
    <2> DEFINE r == k % Radix
               d == digits[q]
    <2>1. q \in Nat /\ r \in D /\ k = Radix * q + r
      BY <1>2, Quotient
    <2>2. digits[k] = Append(d, r)
      <3>1. ~(k < Radix)
        BY <1>0, <1>2
      <3> QED BY <1>2, <3>1, DigitsRecursion DEF DigitsAt
    <2>3. d \in Seq(D) /\ Value(Radix, d) = q
      BY <1>2
    <2> HIDE DEF r, d
    <2>4. d \in Seq(Nat) /\ r \in Nat /\ Radix \in Nat
      <3>2. D \subseteq Nat
        BY <1>0
      <3> HIDE DEF D
      <3>1. Len(d) \in Nat /\ d \in [1..Len(d) -> D]
        BY <2>3
      <3>3. d \in [1..Len(d) -> Nat]
        BY <3>1, <3>2, Zenon
      <3> QED BY <1>0, <2>1, <3>1, <3>2, <3>3
    <2>5. Value(Radix, Append(d, r)) = q * Radix + r
      BY <2>3, <2>4, ValueAppend
    <2>6. q * Radix = Radix * q
      BY <1>0, <2>1, Products
    <2>7. Append(d, r) \in Seq(D) /\ Len(Append(d, r)) \in Nat \ {0}
      <3> HIDE DEF D
      <3> QED BY <2>1, <2>3
    <2> QED BY <2>1, <2>2, <2>5, <2>6, <2>7
  <1>3. 0 \in S
    <2>1. Fine(0)
      BY <1>0, <1>1
    <2> HIDE DEF Fine
    <2> QED BY <2>1
  <1>4. ASSUME NEW m \in Nat, m \in S PROVE m + 1 \in S
    <2> HIDE DEF Fine
    <2>1. Fine(m + 1)
      <3> DEFINE k == m + 1
      <3>0. k \in Nat
        OBVIOUS
      <3>1. CASE k < Radix
        BY <1>1, <3>0, <3>1
      <3>2. CASE ~(k < Radix)
        <4>1. k >= Radix
          BY <1>0, <3>0, <3>2
        <4>2. k \div Radix \in Nat /\ k \div Radix < k
          BY <3>0, <4>1, Quotient
        <4> DEFINE q == k \div Radix
        <4>3. q \in 0..m
          <5> HIDE DEF q
          <5> QED BY <4>2 DEF q
        <4>4. Fine(q)
          BY <1>4, <4>3
        <4>5. q = k \div Radix
          OBVIOUS
        <4> HIDE DEF k, q
        <4>6. Fine(k)
          BY <1>2, <3>0, <4>1, <4>4, <4>5
        <4> QED BY <4>6 DEF k
      <3> QED BY <3>1, <3>2
    <2>2. \A k \in 0..(m + 1) : k \in 0..m \/ k = m + 1
      OBVIOUS
    <2> QED BY <1>4, <2>1, <2>2
  <1>5. \A m \in Nat : m \in S
    <2> HIDE DEF S
    <2> QED BY <1>3, <1>4, NatInduct
  <1>6. Fine(n)
    <2>1. n \in S /\ n \in 0..n
      BY <1>5
    <2> HIDE DEF Fine
    <2> QED BY <2>1
  <1> QED BY <1>6
-----------------------------------------------------------------------------
(* What is where in a record *)

\* Two sequences with the same elements.
LEMMA SameSeq ==
    ASSUME NEW A, NEW s \in Seq(A), NEW t \in Seq(A), Len(s) = Len(t),
           \A k \in 1..Len(s) : s[k] = t[k]
    PROVE  s = t
  OBVIOUS

\* What is appended stands at the end.
LEMMA AtEndOf ==
    ASSUME NEW A, NEW u \in Seq(A), NEW v \in Seq(A)
    PROVE  u \o v \in Seq(A) /\ Len(u \o v) = Len(u) + Len(v) /\ At(u \o v, Len(u), v)
  <1> DEFINE z == u \o v
  <1>1. /\ z \in Seq(A) /\ Len(z) = Len(u) + Len(v) /\ Len(u) \in Nat /\ Len(v) \in Nat
        /\ \A i \in 1..Len(v) : z[Len(u) + i] = v[i]
    OBVIOUS
  <1> HIDE DEF z
  <1>2. Len(u) + Len(v) <= Len(z)
    BY <1>1
  <1> QED BY <1>1, <1>2 DEF At, z

\* What was there stays.
LEMMA AtStays ==
    ASSUME NEW A, NEW u \in Seq(A), NEW v \in Seq(A), NEW a \in Nat, NEW t, Len(t) \in Nat, At(u, a, t)
    PROVE  At(u \o v, a, t)
  <1> DEFINE z == u \o v
  <1>1. /\ Len(z) = Len(u) + Len(v) /\ Len(u) \in Nat /\ Len(v) \in Nat
        /\ \A i \in 1..Len(u) : z[i] = u[i]
    OBVIOUS
  <1> HIDE DEF z
  <1>2. a + Len(t) <= Len(u) /\ \A i \in 1..Len(t) : u[a + i] = t[i]
    BY DEF At
  <1>3. a + Len(t) <= Len(z) /\ \A i \in 1..Len(t) : a + i \in 1..Len(u)
    BY <1>1, <1>2
  <1> QED BY <1>1, <1>2, <1>3 DEF At, z

\* A number and the space behind it.
NumberAt(s, a, d) == At(s, a, d) /\ At(s, a + Len(d), <<SP>>)

\* A number stays where it is.
LEMMA NumberStays ==
    ASSUME NEW u \in Seq(Char), NEW v \in Seq(Char), NEW a \in Nat, NEW d \in Seq(Char), NumberAt(u, a, d)
    PROVE  NumberAt(u \o v, a, d)
  <1>1. Len(d) \in Nat /\ a + Len(d) \in Nat /\ Len(<<SP>>) \in Nat
    OBVIOUS
  <1>2. At(u, a, d) /\ At(u, a + Len(d), <<SP>>)
    BY DEF NumberAt
  <1>3. At(u \o v, a, d)
    BY <1>1, <1>2, AtStays
  <1>4. At(u \o v, a + Len(d), <<SP>>)
    BY <1>1, <1>2, AtStays
  <1> QED BY <1>3, <1>4 DEF NumberAt

\* is << number << ' '
LEMMA NumberAppended ==
    ASSUME NEW u \in Seq(Char), NEW d \in Seq(Char)
    PROVE  /\ u \o d \o <<SP>> \in Seq(Char) /\ Len(u \o d \o <<SP>>) = Len(u) + Len(d) + 1
           /\ NumberAt(u \o d \o <<SP>>, Len(u), d)
           /\ \A a \in Nat : \A e \in Seq(Char) : NumberAt(u, a, e) => NumberAt(u \o d \o <<SP>>, a, e)
  <1> DEFINE x == u \o d
             sp == <<SP>>
             y == x \o sp
  <1>0. SP \in Char /\ Len(u) \in Nat /\ Len(d) \in Nat
    BY Constants
  <1>1. sp \in Seq(Char) /\ Len(sp) = 1
    BY <1>0
  <1> HIDE DEF sp
  <1>2. x \in Seq(Char) /\ Len(x) = Len(u) + Len(d) /\ At(x, Len(u), d)
    BY AtEndOf
  <1>3. \A a \in Nat : \A e \in Seq(Char) : NumberAt(u, a, e) => NumberAt(x, a, e)
    BY NumberStays
  <1> HIDE DEF x
  <1>4. y \in Seq(Char) /\ Len(y) = Len(x) + Len(sp) /\ At(y, Len(x), sp)
    BY <1>1, <1>2, AtEndOf
  <1>5. At(y, Len(u), d)
    BY <1>0, <1>1, <1>2, AtStays
  <1>6. \A a \in Nat : \A e \in Seq(Char) : NumberAt(x, a, e) => NumberAt(y, a, e)
    BY <1>1, <1>2, NumberStays
  <1> HIDE DEF y
  <1>7. NumberAt(y, Len(u), d)
    BY <1>2, <1>4, <1>5 DEF NumberAt, sp
  <1>8. Len(y) = Len(u) + Len(d) + 1
    BY <1>0, <1>1, <1>2, <1>4
  <1> QED BY <1>3, <1>4, <1>6, <1>7, <1>8 DEF x, y, sp

\* The numbers of a record, and how they are written.
LEMMA RecordParts ==
    ASSUME NEW w \in Records
    PROVE  /\ w.data \in Seq(Char) /\ w.size \in Nat /\ Len(w.data) = w.size
           /\ \A j \in 1..4 : /\ Numbers(w)[j] \in Nat
                              /\ digits[Numbers(w)[j]] \in Seq(0..(Radix - 1))
                              /\ digits[Numbers(w)[j]] \in Seq(Char)
                              /\ Width(w, j) \in Nat \ {0}
                              /\ Value(Radix, digits[Numbers(w)[j]]) = Numbers(w)[j]
           /\ Numbers(w)[1] = w.bi_flags /\ Numbers(w)[2] = w.bi_rw
           /\ Numbers(w)[3] = w.write_sector /\ Numbers(w)[4] = w.size
           /\ w = [bi_flags |-> w.bi_flags, bi_rw |-> w.bi_rw, write_sector |-> w.write_sector,
                   size |-> w.size, data |-> w.data]
  <1>1. /\ w.data \in Seq(Char) /\ w.size \in Nat /\ Len(w.data) = w.size
        /\ w.bi_flags \in Nat /\ w.bi_rw \in Nat /\ w.write_sector \in Nat
    BY DEF Records
  <1>2. /\ Numbers(w)[1] = w.bi_flags /\ Numbers(w)[2] = w.bi_rw
        /\ Numbers(w)[3] = w.write_sector /\ Numbers(w)[4] = w.size
    BY DEF Numbers
  <1>3. ASSUME NEW j \in 1..4
        PROVE  /\ Numbers(w)[j] \in Nat
               /\ digits[Numbers(w)[j]] \in Seq(0..(Radix - 1))
               /\ digits[Numbers(w)[j]] \in Seq(Char)
               /\ Width(w, j) \in Nat \ {0}
               /\ Value(Radix, digits[Numbers(w)[j]]) = Numbers(w)[j]
    <2> DEFINE n == Numbers(w)[j]
               d == digits[n]
               D == 0..(Radix - 1)
    <2>1. n \in Nat
      <3>1. j = 1 \/ j = 2 \/ j = 3 \/ j = 4
        OBVIOUS
      <3> QED BY <1>1, <1>2, <3>1
    <2> HIDE DEF n
    <2>2. d \in Seq(D) /\ Len(d) \in Nat \ {0} /\ Value(Radix, d) = n
      BY <2>1, DigitsValue
    <2>3. D \subseteq Char
      BY Constants
    <2> HIDE DEF d, D
    <2>4. d \in Seq(Char)
      <3>1. d \in [1..Len(d) -> D]
        BY <2>2
      <3>2. d \in [1..Len(d) -> Char]
        BY <2>3, <3>1, Zenon
      <3> QED BY <2>2, <3>2
    <2> QED BY <2>1, <2>2, <2>4 DEF Width, n, d, D
  <1>4. w = [bi_flags |-> w.bi_flags, bi_rw |-> w.bi_rw, write_sector |-> w.write_sector,
             size |-> w.size, data |-> w.data]
    BY DEF Records
  <1> QED BY <1>1, <1>2, <1>3, <1>4

\* Where a record's numbers, its data and its newline are.
LEMMA SerializeLayout ==
    ASSUME NEW w \in Records
    PROVE  /\ serialize(w) \in Seq(Char)
           /\ Len(serialize(w)) = Before(w, 5) + w.size + 1
           /\ \A j \in 1..4 : NumberAt(serialize(w), Before(w, j), digits[Numbers(w)[j]])
           /\ At(serialize(w), Before(w, 5), w.data)
           /\ At(serialize(w), Before(w, 5) + w.size, <<NL>>)
  <1> DEFINE d1 == digits[w.bi_flags]
             d2 == digits[w.bi_rw]
             d3 == digits[w.write_sector]
             d4 == digits[w.size]
             sp == <<SP>>
             u1 == d1 \o sp
             u2 == u1 \o d2 \o sp
             u3 == u2 \o d3 \o sp
             u4 == u3 \o d4 \o sp
             u5 == u4 \o w.data
             s == u5 \o <<NL>>
             b2 == Before(w, 2)
             b3 == Before(w, 3)
             b4 == Before(w, 4)
             b5 == Before(w, 5)
  <1>1. /\ w.data \in Seq(Char) /\ w.size \in Nat /\ Len(w.data) = w.size
        /\ Numbers(w)[1] = w.bi_flags /\ Numbers(w)[2] = w.bi_rw
        /\ Numbers(w)[3] = w.write_sector /\ Numbers(w)[4] = w.size
    BY RecordParts
  <1>2. /\ d1 \in Seq(Char) /\ d2 \in Seq(Char) /\ d3 \in Seq(Char) /\ d4 \in Seq(Char)
        /\ Width(w, 1) = Len(d1) /\ Width(w, 2) = Len(d2) /\ Width(w, 3) = Len(d3) /\ Width(w, 4) = Len(d4)
    <2>1. 1 \in 1..4 /\ 2 \in 1..4 /\ 3 \in 1..4 /\ 4 \in 1..4
      OBVIOUS
    <2> QED BY <1>1, <2>1, RecordParts DEF Width
  <1>3. Len(d1) \in Nat /\ Len(d2) \in Nat /\ Len(d3) \in Nat /\ Len(d4) \in Nat
    <2> HIDE DEF d1, d2, d3, d4
    <2> QED BY <1>2
  <1>4. serialize(w) = s
    BY DEF serialize
  <1>5. /\ Before(w, 1) = 0 /\ b2 = Len(d1) + 1 /\ b3 = b2 + Len(d2) + 1 /\ b4 = b3 + Len(d3) + 1
        /\ b5 = b4 + Len(d4) + 1
    <2> HIDE DEF d1, d2, d3, d4
    <2>1. Before(w, 1) = 0
      BY DEF Before
    <2>2. Before(w, 2) = Width(w, 1) + 1
      BY DEF Before
    <2>3. Before(w, 3) = Before(w, 2) + Width(w, 2) + 1
      BY DEF Before
    <2>4. Before(w, 4) = Before(w, 3) + Width(w, 3) + 1
      BY DEF Before
    <2>5. Before(w, 5) = Before(w, 4) + Width(w, 4) + 1
      BY DEF Before
    <2> QED BY <1>2, <2>1, <2>2, <2>3, <2>4, <2>5
  <1>6. sp \in Seq(Char) /\ Len(sp) = 1 /\ SP \in Char /\ <<NL>> \in Seq(Char) /\ Len(<<NL>>) = 1
    BY Constants
  <1> HIDE DEF d1, d2, d3, d4, b2, b3, b4, b5
  <1>7. b2 \in Nat /\ b3 \in Nat /\ b4 \in Nat /\ b5 \in Nat
    BY <1>3, <1>5
  <1>8. u1 \in Seq(Char) /\ Len(u1) = b2 /\ NumberAt(u1, 0, d1)
    <2>1. u1 \in Seq(Char) /\ Len(u1) = Len(d1) + Len(sp) /\ At(u1, Len(d1), sp)
      <3> HIDE DEF sp
      <3> QED BY <1>2, <1>6, AtEndOf
    <2>2. At(u1, 0, d1)
      <3>1. At(d1, 0, d1)
        BY <1>2, <1>3 DEF At
      <3> HIDE DEF sp
      <3> QED BY <1>2, <1>3, <1>6, <3>1, AtStays
    <2>3. 0 + Len(d1) = Len(d1)
      BY <1>3
    <2> HIDE DEF u1
    <2> QED BY <1>3, <1>5, <1>6, <2>1, <2>2, <2>3 DEF NumberAt
  <1> HIDE DEF u1
  <1>9. /\ u2 \in Seq(Char) /\ Len(u2) = b3 /\ NumberAt(u2, b2, d2)
        /\ \A a \in Nat : \A e \in Seq(Char) : NumberAt(u1, a, e) => NumberAt(u2, a, e)
    <2>1. /\ u2 \in Seq(Char) /\ Len(u2) = Len(u1) + Len(d2) + 1 /\ NumberAt(u2, Len(u1), d2)
          /\ \A a \in Nat : \A e \in Seq(Char) : NumberAt(u1, a, e) => NumberAt(u2, a, e)
      BY ONLY <1>2, <1>8, NumberAppended
    <2> HIDE DEF u2
    <2> QED BY <1>5, <1>8, <2>1
  <1> HIDE DEF u2
  <1>10. /\ u3 \in Seq(Char) /\ Len(u3) = b4 /\ NumberAt(u3, b3, d3)
         /\ \A a \in Nat : \A e \in Seq(Char) : NumberAt(u2, a, e) => NumberAt(u3, a, e)
    <2>1. /\ u3 \in Seq(Char) /\ Len(u3) = Len(u2) + Len(d3) + 1 /\ NumberAt(u3, Len(u2), d3)
          /\ \A a \in Nat : \A e \in Seq(Char) : NumberAt(u2, a, e) => NumberAt(u3, a, e)
      BY ONLY <1>2, <1>9, NumberAppended
    <2> HIDE DEF u3
    <2> QED BY <1>5, <1>9, <2>1
  <1> HIDE DEF u3
  <1>11. /\ u4 \in Seq(Char) /\ Len(u4) = b5 /\ NumberAt(u4, b4, d4)
         /\ \A a \in Nat : \A e \in Seq(Char) : NumberAt(u3, a, e) => NumberAt(u4, a, e)
    <2>1. /\ u4 \in Seq(Char) /\ Len(u4) = Len(u3) + Len(d4) + 1 /\ NumberAt(u4, Len(u3), d4)
          /\ \A a \in Nat : \A e \in Seq(Char) : NumberAt(u3, a, e) => NumberAt(u4, a, e)
      BY ONLY <1>2, <1>10, NumberAppended
    <2> HIDE DEF u4
    <2> QED BY <1>5, <1>10, <2>1
  <1> HIDE DEF u4
  <1>12. NumberAt(u4, 0, d1) /\ NumberAt(u4, b2, d2) /\ NumberAt(u4, b3, d3) /\ NumberAt(u4, b4, d4)
    BY <1>2, <1>7, <1>8, <1>9, <1>10, <1>11
  <1>13. /\ u5 \in Seq(Char) /\ Len(u5) = b5 + w.size /\ At(u5, b5, w.data)
         /\ NumberAt(u5, 0, d1) /\ NumberAt(u5, b2, d2) /\ NumberAt(u5, b3, d3) /\ NumberAt(u5, b4, d4)
    <2>1. u5 \in Seq(Char) /\ Len(u5) = Len(u4) + Len(w.data) /\ At(u5, Len(u4), w.data)
      BY ONLY <1>1, <1>11, AtEndOf
    <2>2. NumberAt(u5, 0, d1) /\ NumberAt(u5, b2, d2) /\ NumberAt(u5, b3, d3) /\ NumberAt(u5, b4, d4)
      BY <1>1, <1>2, <1>7, <1>11, <1>12, NumberStays
    <2> HIDE DEF u5
    <2> QED BY <1>1, <1>11, <2>1, <2>2
  <1> HIDE DEF u5
  <1> DEFINE ne == <<NL>>
  <1>14. /\ s \in Seq(Char) /\ Len(s) = b5 + w.size + 1 /\ At(s, b5 + w.size, <<NL>>) /\ At(s, b5, w.data)
         /\ NumberAt(s, 0, d1) /\ NumberAt(s, b2, d2) /\ NumberAt(s, b3, d3) /\ NumberAt(s, b4, d4)
    <2>0. ne \in Seq(Char) /\ Len(ne) = 1 /\ s = u5 \o ne
      BY <1>6
    <2> HIDE DEF ne, s
    <2>1. s \in Seq(Char) /\ Len(s) = Len(u5) + Len(ne) /\ At(s, Len(u5), ne)
      BY <1>13, <2>0, AtEndOf
    <2>2. NumberAt(s, 0, d1) /\ NumberAt(s, b2, d2) /\ NumberAt(s, b3, d3) /\ NumberAt(s, b4, d4)
      BY <1>2, <1>7, <1>13, <2>0, NumberStays
    <2>3. At(s, b5, w.data)
      BY <1>1, <1>7, <1>13, <2>0, AtStays
    <2> QED BY <1>1, <1>7, <1>13, <2>0, <2>1, <2>2, <2>3 DEF ne
  <1> HIDE DEF s
  <1>15. ASSUME NEW j \in 1..4 PROVE NumberAt(s, Before(w, j), digits[Numbers(w)[j]])
    <2>1. j = 1 \/ j = 2 \/ j = 3 \/ j = 4
      OBVIOUS
    <2> QED BY <1>1, <1>5, <1>14, <2>1 DEF b2, b3, b4, d1, d2, d3, d4
  <1> QED BY <1>4, <1>14, <1>15 DEF b5
-----------------------------------------------------------------------------
(* Reading from the file *)

\* The least element of a set of numbers.
LEMMA MinIs ==
    ASSUME NEW S, S \subseteq Nat, NEW x \in S, \A y \in S : x <= y
    PROVE  Min(S) = x
  <1>1. \E z \in S : \A y \in S : z <= y
    OBVIOUS
  <1>2. Min(S) \in S /\ \A y \in S : Min(S) <= y
    BY <1>1 DEF Min
  <1>3. x <= Min(S) /\ Min(S) <= x
    BY <1>2
  <1>4. x \in Nat /\ Min(S) \in Nat
    BY <1>2
  <1> QED BY <1>3, <1>4

\* Where the numbers begin.
LEMMA BeforeNext ==
    ASSUME NEW w \in Records
    PROVE  /\ Before(w, 1) = 0 /\ Before(w, 5) \in Nat
           /\ \A j \in 1..4 : /\ Before(w, j) \in Nat /\ Before(w, j + 1) \in Nat
                              /\ Before(w, j + 1) = Before(w, j) + Width(w, j) + 1
                              /\ Before(w, j + 1) <= Before(w, 5)
  <1>1. Width(w, 1) \in Nat /\ Width(w, 2) \in Nat /\ Width(w, 3) \in Nat /\ Width(w, 4) \in Nat
    <2>1. 1 \in 1..4 /\ 2 \in 1..4 /\ 3 \in 1..4 /\ 4 \in 1..4
      OBVIOUS
    <2> QED BY <2>1, RecordParts
  <1>2. Before(w, 1) = 0
    BY DEF Before
  <1>3. Before(w, 2) = Before(w, 1) + Width(w, 1) + 1 /\ Before(w, 2) \in Nat
    <2>1. Before(w, 2) = Width(w, 1) + 1
      BY DEF Before
    <2> QED BY <1>1, <1>2, <2>1
  <1>4. Before(w, 3) = Before(w, 2) + Width(w, 2) + 1 /\ Before(w, 3) \in Nat
    <2>1. Before(w, 3) = Before(w, 2) + Width(w, 2) + 1
      BY DEF Before
    <2> QED BY <1>1, <1>3, <2>1
  <1>5. Before(w, 4) = Before(w, 3) + Width(w, 3) + 1 /\ Before(w, 4) \in Nat
    <2>1. Before(w, 4) = Before(w, 3) + Width(w, 3) + 1
      BY DEF Before
    <2> QED BY <1>1, <1>4, <2>1
  <1>6. Before(w, 5) = Before(w, 4) + Width(w, 4) + 1 /\ Before(w, 5) \in Nat
    <2>1. Before(w, 5) = Before(w, 4) + Width(w, 4) + 1
      BY DEF Before
    <2> QED BY <1>1, <1>5, <2>1
  <1>7. Before(w, 2) <= Before(w, 5) /\ Before(w, 3) <= Before(w, 5) /\ Before(w, 4) <= Before(w, 5)
    BY <1>1, <1>3, <1>4, <1>5, <1>6
  <1>8. ASSUME NEW j \in 1..4
        PROVE  /\ Before(w, j) \in Nat /\ Before(w, j + 1) \in Nat
               /\ Before(w, j + 1) = Before(w, j) + Width(w, j) + 1
               /\ Before(w, j + 1) <= Before(w, 5)
    <2>1. CASE j = 1
      BY <1>2, <1>3, <1>7, <2>1
    <2>2. CASE j = 2
      BY <1>3, <1>4, <1>7, <2>2
    <2>3. CASE j = 3
      BY <1>4, <1>5, <1>7, <2>3
    <2>4. CASE j = 4
      BY <1>5, <1>6, <2>4
    <2>5. j = 1 \/ j = 2 \/ j = 3 \/ j = 4
      OBVIOUS
    <2> QED BY <2>1, <2>2, <2>3, <2>4, <2>5
  <1> QED BY <1>2, <1>6, <1>8

\* What stands in a record stands in the file, as far as it goes.
LEMMA WithinAt ==
    ASSUME NEW f, Len(f) \in Nat, NEW a \in Nat, NEW b \in Nat, NEW s, Len(s) \in Nat, Within(f, a, s),
           NEW t, Len(t) \in Nat, At(s, b, t)
    PROVE  Within(f, a + b, t)
  <1>1. b + Len(t) <= Len(s) /\ \A i \in 1..Len(t) : s[b + i] = t[i]
    BY DEF At
  <1>2. ASSUME NEW i \in 1..Len(t), (a + b) + i <= Len(f) PROVE f[(a + b) + i] = t[i]
    <2>1. b + i \in 1..Len(s) /\ a + (b + i) = (a + b) + i
      BY <1>1
    <2>2. f[a + (b + i)] = s[b + i]
      BY <1>2, <2>1 DEF Within
    <2> QED BY <1>1, <2>1, <2>2
  <1> QED BY <1>2 DEF Within

\* A sequence is a function.
LEMMA SeqFun ==
    ASSUME NEW A, NEW s \in Seq(A)
    PROVE  s \in [1..Len(s) -> A] /\ Len(s) \in Nat /\ \A i \in 1..Len(s) : s[i] \in A
  OBVIOUS

\* What operator >> sees: the characters ahead that are no white space, and the
\* first place from p on that is, or the end.
Ahead(f, p) == {q \in p..Len(f) : ~IsSpace(f[q])}
Stop(f, p) == Min({q \in p..Len(f) : IsSpace(f[q])} \cup {Len(f) + 1})

\* It meets the digits of the number that is there, or the end of the file.
LEMMA ScanNumber ==
    ASSUME NEW f \in Seq(Char), NEW b \in Nat, NEW d \in Seq(0..(Radix - 1)), Len(d) \in Nat \ {0},
           Within(f, b, d), Within(f, b + Len(d), <<SP>>),
           NEW p \in 1..Len(f), p = b + 1 \/ (p = b /\ f[p] = SP)
    PROVE  /\ b + 1 > Len(f) => Ahead(f, p) = {}
           /\ b + 1 <= Len(f) => Ahead(f, p) # {} /\ Min(Ahead(f, p)) = b + 1
           /\ b + 1 <= Len(f) /\ b + Len(d) + 1 <= Len(f) =>
                Stop(f, b + 1) = b + Len(d) + 1 /\ SubSeq(f, b + 1, b + Len(d) + 1 - 1) = d
           /\ b + 1 <= Len(f) /\ b + Len(d) + 1 > Len(f) => Stop(f, b + 1) = Len(f) + 1
  <1> DEFINE L == Len(f)
             N == Len(d)
             D == 0..(Radix - 1)
  <1>0. L \in Nat /\ N \in Nat \ {0} /\ p \in Nat /\ p <= L
    OBVIOUS
  <1>d. d \in [1..N -> D] /\ \A i \in 1..N : d[i] \in D
    <2>1. d \in Seq(D)
      OBVIOUS
    <2> HIDE DEF D
    <2> QED BY <2>1, SeqFun
  <1>s. IsSpace(SP) /\ \A c \in D : ~IsSpace(c)
    BY Constants
  <1>w. \A i \in 1..N : b + i <= L => f[b + i] = d[i]
    BY DEF Within
  <1>x. b + N + 1 <= L => f[b + N + 1] = SP
    <2>1. Len(<<SP>>) = 1 /\ <<SP>>[1] = SP /\ 1 \in 1..1
      OBVIOUS
    <2> QED BY <2>1 DEF Within
  <1> HIDE DEF L, N, D
  <1>1. \A i \in 1..N : b + i <= L => ~IsSpace(f[b + i])
    BY <1>d, <1>s, <1>w
  <1>2. ASSUME b + 1 > L PROVE Ahead(f, p) = {}
    <2>1. p = b /\ p = L
      BY <1>0, <1>2
    <2>2. \A q \in p..L : q = p
      BY <1>0, <2>1
    <2>3. IsSpace(f[p])
      BY <1>0, <1>2, <1>s
    <2> QED BY <2>2, <2>3 DEF Ahead, L
  <1>3. ASSUME b + 1 <= L PROVE Ahead(f, p) # {} /\ Min(Ahead(f, p)) = b + 1
    <2> DEFINE S == Ahead(f, p)
    <2>1. S \subseteq Nat
      BY <1>0 DEF Ahead
    <2>2. b + 1 \in S
      <3>1. 1 \in 1..N /\ b + 1 \in p..L
        BY <1>0, <1>3
      <3>2. ~IsSpace(f[b + 1])
        BY <1>1, <1>3, <3>1
      <3> QED BY <3>1, <3>2 DEF Ahead, L
    <2>3. ASSUME NEW y \in S PROVE b + 1 <= y
      <3>1. y \in p..L /\ ~IsSpace(f[y])
        BY DEF Ahead, L
      <3>2. p = b => y # p
        BY <1>0, <1>s, <3>1
      <3> QED BY <1>0, <3>1, <3>2
    <2> HIDE DEF S
    <2>4. Min(S) = b + 1
      BY <2>1, <2>2, <2>3, MinIs
    <2> QED BY <2>2, <2>4 DEF S
  <1> DEFINE T == {q \in (b + 1)..L : IsSpace(f[q])} \cup {L + 1}
  <1>4. Stop(f, b + 1) = Min(T) /\ T \subseteq Nat
    BY <1>0 DEF Stop, L
  <1>5. ASSUME NEW y \in T PROVE b + N + 1 <= y \/ y = L + 1
    <2> SUFFICES ASSUME y \in (b + 1)..L, IsSpace(f[y]), y < b + N + 1 PROVE FALSE
      BY <1>0
    <2> HIDE DEF T
    <2>1. y - b \in 1..N /\ b + (y - b) = y /\ y <= L
      BY <1>0
    <2> DEFINE i == y - b
    <2>2. i \in 1..N /\ b + i = y /\ b + i <= L
      BY <2>1
    <2> HIDE DEF i
    <2>3. ~IsSpace(f[b + i])
      BY <1>1, <2>2
    <2> QED BY <2>2, <2>3
  <1>6. ASSUME b + 1 <= L, b + N + 1 <= L
        PROVE  Stop(f, b + 1) = b + N + 1 /\ SubSeq(f, b + 1, b + N + 1 - 1) = d
    <2>1. b + N + 1 \in T
      <3>1. b + N + 1 \in (b + 1)..L
        BY <1>0, <1>6
      <3>2. IsSpace(f[b + N + 1])
        BY <1>6, <1>s, <1>x
      <3> QED BY <3>1, <3>2
    <2>2. \A y \in T : b + N + 1 <= y
      <3>1. b + N + 1 <= L + 1
        BY <1>0, <1>6
      <3> HIDE DEF T
      <3> QED BY <1>5, <3>1
    <2> HIDE DEF T
    <2>3. Min(T) = b + N + 1
      BY <1>4, <2>1, <2>2, MinIs
    <2> DEFINE e == b + N
               x == SubSeq(f, b + 1, e)
    <2>4. b + N + 1 - 1 = e /\ e \in Nat /\ e <= L /\ e - (b + 1) + 1 = N
      BY <1>0, <1>6
    <2>5. x \in Seq(Char) /\ Len(x) = N /\ \A i \in 1..N : x[i] = f[b + i]
      <3> HIDE DEF e
      <3>0. b + 1 \in 1..(L + 1) /\ e \in 0..L /\ L = Len(f) /\ b + 1 <= e + 1
        BY <1>0, <1>6, <2>4 DEF L, e
      <3>1. x \in Seq(Char) /\ Len(x) = e - (b + 1) + 1
        BY <1>0, <2>4, <3>0
      <3>2. ASSUME NEW i \in 1..N PROVE x[i] = f[b + i]
        <4>1. i \in 1..(e - (b + 1) + 1) /\ (b + 1) + i - 1 = b + i
          BY <1>0, <2>4
        <4>2. x[i] = f[(b + 1) + i - 1]
          BY <1>0, <2>4, <3>0, <4>1
        <4> QED BY <4>1, <4>2
      <3> QED BY <2>4, <3>1, <3>2
    <2> HIDE DEF e, x
    <2>6. \A i \in 1..N : x[i] = d[i]
      <3>1. \A i \in 1..N : b + i <= L
        BY <1>0, <1>6
      <3> QED BY <1>w, <2>5, <3>1
    <2>7. d \in Seq(Char)
      <3>1. D \subseteq Char
        BY Constants DEF D
      <3>3. d \in [1..N -> Char]
        BY <1>d, <3>1, Zenon
      <3> QED BY <1>0, <3>3
    <2>8. x = d
      BY <2>5, <2>6, <2>7, SameSeq DEF N
    <2> QED BY <1>4, <2>3, <2>4, <2>8 DEF x
  <1>7. ASSUME b + 1 <= L, b + N + 1 > L PROVE Stop(f, b + 1) = L + 1
    <2>1. L + 1 \in T
      OBVIOUS
    <2>2. \A y \in T : L + 1 <= y
      <3>1. L + 1 <= b + N + 1 /\ L + 1 <= L + 1
        BY <1>0, <1>7
      <3> DEFINE z == b + N + 1
      <3>2. z \in Nat /\ L + 1 <= z
        BY <1>0, <3>1
      <3>3. \A y \in T : z <= y \/ y = L + 1
        BY <1>5
      <3> HIDE DEF T, z
      <3> QED BY <1>0, <1>4, <3>2, <3>3
    <2> HIDE DEF T
    <2>3. Min(T) = L + 1
      BY <1>4, <2>1, <2>2, MinIs
    <2> QED BY <1>4, <2>3
  <1> QED BY <1>2, <1>3, <1>6, <1>7 DEF L, N
-----------------------------------------------------------------------------
(* A log in the file *)

\* The records of a log, as they are written.
LEMMA LogParts ==
    ASSUME NEW S \in Seq(Records)
    PROVE  /\ Len(S) \in Nat /\ Parts(S) \in Seq(Seq(Char)) /\ Len(Parts(S)) = Len(S)
           /\ \A k \in 1..Len(S) : S[k] \in Records /\ Parts(S)[k] = serialize(S[k])
  <1> DEFINE N == Len(S)
             p == Parts(S)
  <1>1. N \in Nat /\ DOMAIN S = 1..N
    OBVIOUS
  <1>2. \A k \in 1..N : S[k] \in Records
    BY SeqFun
  <1>3. p = [k \in 1..N |-> serialize(S[k])]
    BY <1>1 DEF Parts
  <1>4. \A k \in 1..N : serialize(S[k]) \in Seq(Char)
    BY <1>2, SerializeLayout
  <1> HIDE DEF p, N
  <1>5. p \in [1..N -> Seq(Char)] /\ \A k \in 1..N : p[k] = serialize(S[k])
    BY <1>3, <1>4, Zenon
  <1> DEFINE C == Seq(Char)
  <1> HIDE DEF C
  <1>6. p \in Seq(C) /\ Len(p) = N
    <2>1. p \in [1..N -> C]
      BY <1>5 DEF C
    <2> QED BY <1>1, <2>1
  <1> QED BY <1>1, <1>2, <1>5, <1>6 DEF p, N, C

\* Where a record ends.
LEMMA Places ==
    ASSUME NEW S \in Seq(Records), NEW off, IsOffsets(off, Parts(S))
    PROVE  /\ off[0] = 0
           /\ \A k \in 0..Len(S) : off[k] \in Nat /\ off[k] <= off[Len(S)]
           /\ \A n \in Nat : n < Len(S) =>
                /\ off[n] < off[n + 1] /\ off[n + 1] <= off[Len(S)] /\ off[n + 1] \in Nat
                /\ off[n + 1] = off[n] + Before(S[n + 1], 5) + S[n + 1].size + 1
  <1> DEFINE N == Len(S)
             p == Parts(S)
  <1>1. /\ N \in Nat /\ p \in Seq(Seq(Char)) /\ Len(p) = N
        /\ \A k \in 1..N : S[k] \in Records /\ p[k] = serialize(S[k])
    BY LogParts
  <1>2. /\ off \in [Nat -> Nat] /\ off[0] = 0
        /\ \A k \in 1..N : off[k] = off[k - 1] + Len(p[k])
    BY <1>1 DEF IsOffsets
  <1>3. \A l \in 0..N : \A k \in 0..l : off[k] <= off[l]
    <2> HIDE DEF p, N
    <2>1. IsOffsets(off, p)
      BY DEF p
    <2>2. \A l \in 0..Len(p) : \A k \in 0..l : off[k] <= off[l]
      BY ONLY <1>1, <2>1, OffsetsMonotone
    <2> QED BY <1>1, <2>2
  <1> HIDE DEF p, N
  <1>4. \A k \in 0..N : off[k] \in Nat /\ off[k] <= off[N]
    BY <1>1, <1>2, <1>3
  <1>5. ASSUME NEW n \in Nat, n < N
        PROVE  /\ off[n] < off[n + 1] /\ off[n + 1] <= off[N] /\ off[n + 1] \in Nat
               /\ off[n + 1] = off[n] + Before(S[n + 1], 5) + S[n + 1].size + 1
    <2> DEFINE w == S[n + 1]
    <2>1. n + 1 \in 1..N /\ n + 1 \in 0..N /\ n \in 0..N /\ (n + 1) - 1 = n
      BY <1>1, <1>5
    <2>2. w \in Records /\ p[n + 1] = serialize(w)
      BY <1>1, <2>1
    <2>3. off[n + 1] = off[n] + Len(serialize(w))
      BY <1>2, <2>1, <2>2
    <2> HIDE DEF w
    <2>4. Len(serialize(w)) = Before(w, 5) + w.size + 1 /\ Before(w, 5) \in Nat /\ w.size \in Nat
      BY <2>2, SerializeLayout, BeforeNext, RecordParts
    <2>5. off[n] \in Nat /\ off[n + 1] \in Nat /\ off[n + 1] <= off[N]
      BY <1>4, <2>1
    <2>6. off[n + 1] = off[n] + Before(w, 5) + w.size + 1
      BY <2>3, <2>4, <2>5, SMTT(30)
    <2>7. off[n] < off[n + 1]
      BY <2>4, <2>5, <2>6
    <2> QED BY <2>5, <2>6, <2>7 DEF w
  <1> QED BY <1>2, <1>4, <1>5 DEF N

\* What of a record is in the file.
LEMMA RecordInFile ==
    ASSUME NEW f, NEW S, NEW off, Holds(f, S, off), NEW n \in Nat, n < Len(S), NEW w, w = S[n + 1]
    PROVE  /\ w \in Records /\ off[n] \in Nat /\ Len(f) \in Nat
           /\ \A j \in 1..4 : /\ Within(f, off[n] + Before(w, j), digits[Numbers(w)[j]])
                              /\ Within(f, off[n] + Before(w, j) + Width(w, j), <<SP>>)
           /\ Within(f, off[n] + Before(w, 5), w.data)
           /\ Within(f, off[n] + Before(w, 5) + w.size, <<NL>>)
  <1> DEFINE a == off[n]
             s == serialize(w)
  <1>1. f \in Seq(Char) /\ S \in Seq(Records) /\ IsOffsets(off, Parts(S)) /\ Len(f) \in Nat /\ Len(S) \in Nat
    BY DEF Holds
  <1>2. n + 1 \in 1..Len(S) /\ (n + 1) - 1 = n /\ n \in 0..Len(S)
    BY <1>1
  <1>3. w \in Records /\ Parts(S)[n + 1] = s
    BY <1>1, <1>2, LogParts
  <1>4. a \in Nat
    BY <1>1, <1>2, Places
  <1>5. Within(f, a, s)
    <2>1. Within(f, off[(n + 1) - 1], Parts(S)[n + 1])
      BY <1>2 DEF Holds
    <2> QED BY <1>2, <1>3, <2>1
  <1>6. /\ s \in Seq(Char) /\ Len(s) \in Nat
        /\ \A j \in 1..4 : NumberAt(s, Before(w, j), digits[Numbers(w)[j]])
        /\ At(s, Before(w, 5), w.data) /\ At(s, Before(w, 5) + w.size, <<NL>>)
    <2>1. s \in Seq(Char)
      BY <1>3, SerializeLayout
    <2> HIDE DEF s
    <2>2. Len(s) \in Nat
      BY <2>1
    <2> QED BY <1>3, <2>1, <2>2, SerializeLayout DEF s
  <1>7. /\ w.data \in Seq(Char) /\ w.size \in Nat /\ Len(w.data) \in Nat
        /\ Before(w, 5) \in Nat /\ Before(w, 5) + w.size \in Nat
    <2>1. w.data \in Seq(Char) /\ w.size \in Nat /\ Len(w.data) = w.size
      BY <1>3, RecordParts
    <2>2. Before(w, 5) \in Nat
      BY <1>3, BeforeNext
    <2> QED BY <2>1, <2>2
  <1> HIDE DEF a, s
  <1>8. Within(f, a + Before(w, 5), w.data)
    BY ONLY <1>1, <1>4, <1>5, <1>6, <1>7, WithinAt
  <1>9. Within(f, a + Before(w, 5) + w.size, <<NL>>)
    <2> DEFINE c == Before(w, 5) + w.size
               t == <<NL>>
    <2>1. c \in Nat /\ Len(t) \in Nat /\ At(s, c, t)
      BY <1>6, <1>7
    <2>2. a + Before(w, 5) + w.size = a + c
      BY <1>4, <1>7
    <2> HIDE DEF c, t
    <2>3. Within(f, a + c, t)
      BY ONLY <1>1, <1>4, <1>5, <1>6, <2>1, WithinAt
    <2> QED BY <2>2, <2>3 DEF t
  <1>10. ASSUME NEW j \in 1..4
         PROVE  /\ Within(f, a + Before(w, j), digits[Numbers(w)[j]])
                /\ Within(f, a + Before(w, j) + Width(w, j), <<SP>>)
    <2> DEFINE b == Before(w, j)
               d == digits[Numbers(w)[j]]
               c == b + Len(d)
               t == <<SP>>
    <2>1. b \in Nat /\ d \in Seq(Char) /\ Width(w, j) = Len(d) /\ Len(d) \in Nat
      BY <1>3, BeforeNext, RecordParts DEF Width
    <2>2. At(s, b, d) /\ At(s, b + Len(d), <<SP>>)
      BY <1>6 DEF NumberAt
    <2> HIDE DEF b, d
    <2>3. Within(f, a + b, d)
      BY ONLY <1>1, <1>4, <1>5, <1>6, <2>1, <2>2, WithinAt
    <2>4. c \in Nat /\ Len(t) \in Nat /\ At(s, c, t) /\ a + b + Width(w, j) = a + c
      BY <1>4, <2>1, <2>2
    <2> HIDE DEF c, t
    <2>5. Within(f, a + c, t)
      BY ONLY <1>1, <1>4, <1>5, <1>6, <2>4, WithinAt
    <2> QED BY <2>3, <2>4, <2>5 DEF t, b, d
  <1> QED BY <1>1, <1>3, <1>4, <1>8, <1>9, <1>10 DEF a

\* A character that stands in the file.
LEMMA WithinOne ==
    ASSUME NEW f, NEW a, NEW c, Within(f, a, <<c>>), a + 1 <= Len(f)
    PROVE  f[a + 1] = c
  <1>1. Len(<<c>>) = 1 /\ <<c>>[1] = c /\ 1 \in 1..1
    OBVIOUS
  <1> QED BY <1>1 DEF Within

-----------------------------------------------------------------------------
(* What is >> number reads *)

\* The place behind the number, and the number.
After(f, p) == Stop(f, Min(Ahead(f, p)))
Scanned(f, p) == Value(Radix, SubSeq(f, Min(Ahead(f, p)), After(f, p) - 1))

\* It reads the next number of the record, or the file is cut before its space.
LEMMA ReadsNumber ==
    ASSUME NEW f, NEW S, NEW off, Holds(f, S, off), NEW n \in Nat, n < Len(S), NEW w, w = S[n + 1],
           NEW j \in 1..4, NEW p \in 1..Len(f),
           p = off[n] + Before(w, j) + (IF j = 1 THEN 1 ELSE 0)
    PROVE  /\ Ahead(f, p) = {} => Len(f) < off[n + 1]
           /\ Ahead(f, p) # {} =>
                /\ After(f, p) \in 1..(Len(f) + 1) /\ Scanned(f, p) \in Nat
                /\ After(f, p) > Len(f) => Len(f) < off[n + 1]
                /\ After(f, p) <= Len(f) =>
                     /\ After(f, p) = off[n] + Before(w, j + 1)
                     /\ Scanned(f, p) = Numbers(w)[j]
  <1> DEFINE b == off[n] + Before(w, j)
             d == digits[Numbers(w)[j]]
             D == 0..(Radix - 1)
             L == Len(f)
             N == Len(d)
             x == off[n]
             y == off[n + 1]
             e == Before(w, j)
             g == Before(w, j + 1)
             h == Before(w, 5)
             z == w.size
  <1>1. /\ w \in Records /\ off[n] \in Nat /\ L \in Nat /\ f \in Seq(Char)
        /\ Within(f, b, d) /\ Within(f, b + Width(w, j), <<SP>>) /\ Width(w, j) = N
    BY RecordInFile DEF Holds, Width
  <1>2. /\ d \in Seq(D) /\ N \in Nat \ {0} /\ Value(Radix, d) = Numbers(w)[j] /\ Numbers(w)[j] \in Nat
        /\ Before(w, j) \in Nat /\ Before(w, j + 1) = Before(w, j) + N + 1
        /\ Before(w, j + 1) <= Before(w, 5) /\ Before(w, 5) \in Nat /\ w.size \in Nat
    BY <1>1, RecordParts, BeforeNext DEF Width
  <1>3. off[n + 1] = off[n] + Before(w, 5) + w.size + 1
    <2>1. S \in Seq(Records) /\ IsOffsets(off, Parts(S))
      BY DEF Holds
    <2> QED BY <2>1, Places
  <1> HIDE DEF d, L, N, D
  <1>4. b \in Nat /\ b + N + 1 = off[n] + Before(w, j + 1) /\ b + N + 1 < off[n + 1] /\ b + 1 < off[n + 1]
        /\ off[n + 1] \in Nat
    <2>1. /\ x \in Nat /\ e \in Nat /\ h \in Nat /\ z \in Nat /\ N \in Nat \ {0} /\ g = e + N + 1 /\ g <= h
          /\ y = x + h + z + 1 /\ b = x + e
      BY <1>1, <1>2, <1>3
    <2> HIDE DEF x, y, e, g, h, z, b
    <2>2. b \in Nat /\ b + N + 1 = x + g /\ b + N + 1 < y /\ b + 1 < y /\ y \in Nat
      BY <2>1
    <2> QED BY <2>2 DEF x, y, g
  <1>5. p = b + 1 \/ (p = b /\ f[p] = SP)
    <2>1. CASE j = 1
      BY <2>1
    <2>2. CASE j # 1
      <3> DEFINE i == j - 1
                 c == off[n] + Before(w, i) + Width(w, i)
      <3>1. i \in 1..4 /\ i + 1 = j
        BY <2>2
      <3>2. Within(f, c, <<SP>>)
        <4> HIDE DEF i
        <4> QED BY <3>1, RecordInFile
      <3>3. Before(w, j) = Before(w, i) + Width(w, i) + 1 /\ Before(w, i) \in Nat /\ Width(w, i) \in Nat
        <4> HIDE DEF i
        <4> QED BY <1>1, <3>1, BeforeNext, RecordParts
      <3>4. p = b /\ p \in 1..L
        BY <1>1, <1>4, <2>2 DEF L
      <3> HIDE DEF i
      <3>5. p = c + 1
        BY <1>1, <3>3, <3>4
      <3>6. c + 1 <= Len(f)
        BY <1>1, <3>4, <3>5 DEF L
      <3>7. f[c + 1] = SP
        BY <3>2, <3>6, WithinOne
      <3> QED BY <3>4, <3>5, <3>7
    <2> QED BY <2>1, <2>2
  <1> HIDE DEF b
  <1>6. /\ b + 1 > L => Ahead(f, p) = {}
        /\ b + 1 <= L => Ahead(f, p) # {} /\ Min(Ahead(f, p)) = b + 1
        /\ b + 1 <= L /\ b + N + 1 <= L =>
             Stop(f, b + 1) = b + N + 1 /\ SubSeq(f, b + 1, b + N + 1 - 1) = d
        /\ b + 1 <= L /\ b + N + 1 > L => Stop(f, b + 1) = L + 1
    <2>1. Len(d) \in Nat \ {0} /\ Within(f, b + Len(d), <<SP>>) /\ Within(f, b, d)
      BY <1>1, <1>2 DEF N
    <2>2. d \in Seq(0..(Radix - 1)) /\ f \in Seq(Char) /\ p \in 1..Len(f) /\ b \in Nat
      BY <1>1, <1>2, <1>4 DEF D
    <2>3. /\ b + 1 > Len(f) => Ahead(f, p) = {}
          /\ b + 1 <= Len(f) => Ahead(f, p) # {} /\ Min(Ahead(f, p)) = b + 1
          /\ b + 1 <= Len(f) /\ b + Len(d) + 1 <= Len(f) =>
               Stop(f, b + 1) = b + Len(d) + 1 /\ SubSeq(f, b + 1, b + Len(d) + 1 - 1) = d
          /\ b + 1 <= Len(f) /\ b + Len(d) + 1 > Len(f) => Stop(f, b + 1) = Len(f) + 1
      BY ONLY <1>5, <2>1, <2>2, ScanNumber
    <2> QED BY <2>3 DEF L, N
  <1> HIDE DEF x, y, e, g, h, z
  <1>n. N \in Nat \ {0} /\ L \in Nat /\ y \in Nat /\ b + N + 1 < y /\ b + 1 < y /\ y = off[n + 1] /\ b \in Nat
    BY <1>1, <1>2, <1>4 DEF y
  <1>7. Ahead(f, p) = {} => L < off[n + 1]
    <2>1. Ahead(f, p) = {} => ~(b + 1 <= L)
      BY <1>6
    <2> QED BY <1>n, <2>1
  <1>8. ASSUME Ahead(f, p) # {}
        PROVE  /\ After(f, p) \in 1..(L + 1) /\ Scanned(f, p) \in Nat
               /\ After(f, p) > L => L < off[n + 1]
               /\ After(f, p) <= L => After(f, p) = off[n] + Before(w, j + 1) /\ Scanned(f, p) = Numbers(w)[j]
    <2>1. b + 1 <= L /\ Min(Ahead(f, p)) = b + 1
      BY <1>1, <1>4, <1>6, <1>8
    <2>2. After(f, p) = Stop(f, b + 1) /\ Scanned(f, p) = Value(Radix, SubSeq(f, b + 1, After(f, p) - 1))
      BY <2>1 DEF After, Scanned
    <2>3. CASE b + N + 1 <= L
      <3>1. After(f, p) = b + N + 1 /\ SubSeq(f, b + 1, b + N + 1 - 1) = d
        BY <1>6, <2>1, <2>2, <2>3
      <3>2. Scanned(f, p) = Numbers(w)[j] /\ Numbers(w)[j] \in Nat
        <4> DEFINE k == b + N + 1
        <4>0. After(f, p) = k /\ SubSeq(f, b + 1, k - 1) = d
          BY <1>n, <3>1
        <4> HIDE DEF k
        <4>1. SubSeq(f, b + 1, After(f, p) - 1) = d
          BY <4>0, Zenon
        <4>2. Scanned(f, p) = Value(Radix, d)
          BY ONLY <2>2, <4>1
        <4> QED BY <1>2, <4>2
      <3>3. b + N + 1 \in 1..(L + 1) /\ ~(b + N + 1 > L) /\ b + N + 1 = off[n] + Before(w, j + 1)
        BY <1>n, <1>4, <2>3
      <3> QED BY <3>1, <3>2, <3>3
    <2>4. CASE b + N + 1 > L
      <3>1. After(f, p) = L + 1
        BY <1>6, <2>1, <2>2, <2>4
      <3> DEFINE v == SubSeq(f, b + 1, L)
      <3>2. Scanned(f, p) = Value(Radix, v)
        BY <1>1, <2>2, <3>1
      <3>3. v \in Seq(Nat)
        <4>1. v \in Seq(Char)
          BY <1>1, <1>4, <2>1 DEF L
        <4>2. v \in [1..Len(v) -> Char] /\ Len(v) \in Nat
          BY <4>1, SeqFun
        <4>3. Char \subseteq Nat
          BY Constants
        <4> HIDE DEF v
        <4>4. v \in [1..Len(v) -> Nat]
          BY <4>2, <4>3, Zenon
        <4> QED BY <4>2, <4>4
      <3> HIDE DEF v
      <3>4. Value(Radix, v) \in Nat
        <4>1. Radix \in Nat /\ 0 \in Nat
          BY Constants
        <4> QED BY <3>3, <4>1, ValueAppend
      <3>5. L + 1 \in 1..(L + 1) /\ ~(L + 1 <= L)
        BY <1>1
      <3>6. L < off[n + 1]
        BY <1>n, <2>4
      <3> QED BY <3>1, <3>2, <3>4, <3>5, <3>6
    <2> QED BY <1>n, <2>3, <2>4
  <1> QED BY <1>7, <1>8 DEF L
-----------------------------------------------------------------------------
(* What the reader leaves alone *)

\* The save is over.
Over == {"returned", "killed"}

\* The reader starts when the save is over.
LEMMA ReaderLater ==
    ASSUME NEW off, FileInv(off), reader # "idle"
    PROVE  saver \in Over
  BY DEF FileInv, Over

\* Its steps keep the file, and what is known of it.
LEMMA FileKept ==
    ASSUME NEW off, FileInv(off), saver \in Over, UNCHANGED <<saveVars, log_data, old, file>>
    PROVE  Source' = Source /\ FileInv(off)'
  <1>1. UNCHANGED <<saver, next, opened, lost, log_data, old, file>>
    BY DEF saveVars
  <1>2. Source' = Source
    BY <1>1 DEF Source
  <1> QED BY <1>1, <1>2 DEF FileInv, Over

\* A file that ends in a record was cut.
LEMMA CutIsLost ==
    ASSUME NEW off, FileInv(off), saver \in Over, NEW n \in Nat, n < Len(Source), Len(file) < off[n + 1]
    PROVE  lost
  <1>1. file \in Seq(Char) /\ Source \in Seq(Records) /\ IsOffsets(off, Parts(Source))
    BY DEF FileInv, Holds
  <1>2. Len(file) \in Nat /\ Len(Source) \in Nat
    BY <1>1
  <1>3. off[n + 1] <= off[Len(Source)] /\ off[n + 1] \in Nat
    BY <1>1, Places
  <1>4. off[Len(Source)] \in Nat
    <2>1. Len(Source) \in 0..Len(Source)
      BY <1>2
    <2> QED BY <1>1, <2>1, Places
  <1>5. ~lost => Len(file) = off[Len(Source)]
    BY DEF FileInv, Over
  <1> QED BY <1>2, <1>3, <1>4, <1>5

\* The reader stays in a record.
LEMMA InsideNext ==
    ASSUME NEW off, ReaderInv(off), loaded' = loaded, Source' = Source, reader' \in Inside,
           reader' = "number" => Len(meta') < 4,
           reader' # "number" => Len(meta') = 4,
           NEW w, w = Source[Len(loaded) + 1], NEW base, base = off[Len(loaded)],
           Adrift' \/ (Len(loaded) < Len(Source) /\ InRecord(w, base)')
    PROVE  ReaderInv(off)'
  <1> DEFINE n == Len(loaded)
  <1>1. n \in 0..Len(Source) /\ loaded = SubSeq(Source, 1, n)
    BY DEF ReaderInv
  <1>2. Adrift' \/ (n < Len(Source) /\ InRecord(Source[n + 1], off[n])')
    <2>1. w = (Source[n + 1])' /\ base = (off[n])'
      OBVIOUS
    <2>2. InRecord(w, base)' => InRecord(Source[n + 1], off[n])'
      BY <2>1 DEF InRecord
    <2> QED BY <2>2
  <1>3. reader' \notin {"idle", "peek", "success", "aborted"}
    BY DEF Inside
  <1> QED BY <1>1, <1>2, <1>3 DEF ReaderInv, Inside

\* What is known of the reader in a record.
LEMMA InsideNow ==
    ASSUME NEW off, LogTypes, FileInv(off), ReaderInv(off), reader \in Inside
    PROVE  /\ saver \in Over /\ Len(loaded) \in Nat /\ Len(file) \in Nat /\ file \in Seq(Char)
           /\ Holds(file, Source, off)
           /\ Adrift \/ (Len(loaded) < Len(Source) /\ InRecord(Source[Len(loaded) + 1], off[Len(loaded)]))
  <1>1. reader # "idle"
    BY DEF Inside
  <1>2. Holds(file, Source, off) /\ file \in Seq(Char) /\ Source \in Seq(Records) /\ Len(file) \in Nat
    BY DEF FileInv, Holds
  <1>3. Len(loaded) \in Nat
    <2>1. Len(loaded) \in 0..Len(Source)
      BY DEF ReaderInv
    <2> QED BY <2>1
  <1> QED BY <1>1, <1>2, <1>3, ReaderLater DEF ReaderInv
-----------------------------------------------------------------------------
(* The reader's steps in a record *)

\* What ReadNumber does, with the names above.
LEMMA ReadNumberEffect ==
    ASSUME ReadNumber
    PROVE  /\ reader = "number" /\ reader' = (IF Len(meta') = 4 THEN "space" ELSE "number")
           /\ UNCHANGED <<saveVars, log_data, old, file, buffer, nl, loaded>>
           /\ \/ /\ good /\ Ahead(file, pos) # {}
                 /\ meta' = Append(meta, Scanned(file, pos))
                 /\ pos' = After(file, pos) /\ eofbit' = (After(file, pos) > Len(file))
                 /\ failbit' = failbit
              \/ /\ ~(good /\ Ahead(file, pos) # {})
                 /\ \E v \in Nat : meta' = Append(meta, v)
                 /\ pos' = Len(file) + 1 /\ eofbit' = TRUE /\ failbit' = TRUE
  <1> DEFINE ahead == {p \in pos..Len(file) : ~IsSpace(file[p])}
             first == Min(ahead)
             after == Min({p \in first..Len(file) : IsSpace(file[p])} \cup {Len(file) + 1})
             value == Value(Radix, SubSeq(file, first, after - 1))
             Reads == /\ meta' = Append(meta, value) /\ pos' = after
                      /\ eofbit' = (after > Len(file)) /\ UNCHANGED failbit
             Fails == /\ \E garbage \in 0..1 : meta' = Append(meta, garbage)
                      /\ pos' = Len(file) + 1
                      /\ eofbit' = TRUE /\ failbit' = TRUE
  <1>1. /\ ahead = Ahead(file, pos) /\ after = After(file, pos) /\ value = Scanned(file, pos)
    BY DEF Ahead, Stop, After, Scanned
  <1>2. /\ reader = "number" /\ reader' = (IF Len(meta') = 4 THEN "space" ELSE "number")
        /\ UNCHANGED <<saveVars, log_data, old, file, buffer, nl, loaded>>
        /\ IF good /\ ahead # {} THEN Reads ELSE Fails
    BY DEF ReadNumber
  <1>3. Fails => \E v \in Nat : meta' = Append(meta, v)
    <2>1. 0..1 \subseteq Nat
      OBVIOUS
    <2> QED BY <2>1
  <1> HIDE DEF ahead, after, value
  <1>4. CASE good /\ ahead # {}
    BY <1>1, <1>2, <1>4, Zenon
  <1>5. CASE ~(good /\ ahead # {})
    BY <1>1, <1>2, <1>3, <1>5, Zenon
  <1> QED BY <1>4, <1>5

\* is >> number
LEMMA ReadNumberKeeps ==
    ASSUME NEW off, LogTypes, FileInv(off), ReaderInv(off), ReadNumber
    PROVE  LogTypes' /\ FileInv(off)' /\ ReaderInv(off)'
  <1> DEFINE n == Len(loaded)
             w == Source[n + 1]
             base == off[n]
             j == Len(meta) + 1
  <1>1. /\ reader = "number" /\ reader' = (IF Len(meta') = 4 THEN "space" ELSE "number")
        /\ UNCHANGED <<saveVars, log_data, old, file, buffer, nl, loaded>>
    BY ReadNumberEffect
  <1>2. reader \in Inside /\ reader # "idle"
    BY <1>1 DEF Inside
  <1>3. /\ saver \in Over /\ n \in Nat /\ Len(file) \in Nat /\ file \in Seq(Char)
        /\ Holds(file, Source, off)
        /\ Adrift \/ (n < Len(Source) /\ InRecord(w, base))
    BY <1>2, InsideNow
  <1>4. Source' = Source /\ FileInv(off)'
    BY <1>1, <1>3, FileKept
  <1>5. meta \in Seq(Nat) /\ Len(meta) < 4 /\ Len(meta) \in Nat /\ j \in 1..4 /\ pos \in 1..(Len(file) + 1)
    <2>1. meta \in Seq(Nat) /\ pos \in 1..(Len(file) + 1)
      BY DEF LogTypes, TypeOK
    <2>2. Len(meta) < 4
      BY <1>1 DEF ReaderInv
    <2> QED BY <2>1, <2>2
  \* In a record the number is read, or the end is met and the file was cut.
  <1>6. ASSUME n < Len(Source), InRecord(w, base)
        PROVE  /\ good /\ pos \in 1..Len(file)
               /\ Ahead(file, pos) = {} => lost
               /\ Ahead(file, pos) # {} =>
                    /\ After(file, pos) \in 1..(Len(file) + 1) /\ Scanned(file, pos) \in Nat
                    /\ After(file, pos) > Len(file) => lost
                    /\ After(file, pos) <= Len(file) =>
                         After(file, pos) = base + Before(w, j + 1) /\ Scanned(file, pos) = Numbers(w)[j]
    <2>1. good /\ pos = base + Before(w, j) + (IF j = 1 THEN 1 ELSE 0) /\ pos <= Len(file)
      <3>1. good /\ pos = base + Before(w, Len(meta) + 1) + (IF Len(meta) = 0 THEN 1 ELSE 0) /\ pos <= Len(file)
        BY <1>1, <1>6 DEF InRecord
      <3>2. (Len(meta) = 0) <=> (j = 1)
        BY <1>5
      <3> QED BY <3>1, <3>2
    <2>2. pos \in 1..Len(file)
      BY <1>3, <1>5, <2>1
    <2> HIDE DEF n, j
    <2>3. /\ Ahead(file, pos) = {} => Len(file) < off[n + 1]
          /\ Ahead(file, pos) # {} =>
                /\ After(file, pos) \in 1..(Len(file) + 1) /\ Scanned(file, pos) \in Nat
                /\ After(file, pos) > Len(file) => Len(file) < off[n + 1]
                /\ After(file, pos) <= Len(file) =>
                     /\ After(file, pos) = off[n] + Before(w, j + 1)
                     /\ Scanned(file, pos) = Numbers(w)[j]
      BY <1>3, <1>5, <1>6, <2>1, <2>2, ReadsNumber, SMTT(30)
    <2>4. Len(file) < off[n + 1] => lost
      BY <1>3, <1>6, CutIsLost
    <2> QED BY <2>1, <2>2, <2>3, <2>4
  <1>7. Adrift => ~good
    BY DEF Adrift
  <1>8. PICK v \in Nat : meta' = Append(meta, v) /\ (good /\ Ahead(file, pos) # {} => v = Scanned(file, pos))
    <2>1. CASE good /\ Ahead(file, pos) # {}
      BY <1>3, <1>6, <1>7, <2>1, ReadNumberEffect
    <2>2. CASE ~(good /\ Ahead(file, pos) # {})
      BY <2>2, ReadNumberEffect
    <2> QED BY <2>1, <2>2
  <1>9. /\ meta' \in Seq(Nat) /\ Len(meta') = j /\ meta'[j] = v
        /\ \A i \in 1..Len(meta) : meta'[i] = meta[i]
    BY <1>5, <1>8
  <1>10. pos' \in 1..(Len(file) + 1) /\ eofbit' \in BOOLEAN /\ failbit' \in BOOLEAN
    <2>1. failbit \in BOOLEAN
      BY DEF LogTypes, TypeOK
    <2>2. CASE good /\ Ahead(file, pos) # {}
      <3>1. pos' = After(file, pos) /\ eofbit' = (After(file, pos) > Len(file)) /\ failbit' = failbit
        BY <2>2, ReadNumberEffect
      <3>2. After(file, pos) \in 1..(Len(file) + 1)
        BY <1>3, <1>6, <1>7, <2>2
      <3> QED BY <2>1, <3>1, <3>2
    <2>3. CASE ~(good /\ Ahead(file, pos) # {})
      <3>1. pos' = Len(file) + 1 /\ eofbit' = TRUE /\ failbit' = TRUE
        BY <2>3, ReadNumberEffect
      <3> QED BY <1>3, <3>1
    <2> QED BY <2>2, <2>3
  <1>11. reader' \in {"number", "space"} /\ (reader' = "number" => Len(meta') < 4) /\ (reader' # "number" => Len(meta') = 4)
    BY <1>1, <1>5, <1>9
  <1>12. LogTypes'
    <2>1. Len(meta') <= 4
      BY <1>5, <1>9
    <2>2. /\ saver' = saver /\ next' = next /\ log_data' = log_data /\ old' = old /\ file' = file
          /\ buffer' = buffer /\ nl' = nl
      BY <1>1 DEF saveVars
    <2> QED BY <1>9, <1>10, <1>11, <2>1, <2>2 DEF LogTypes, TypeOK
  <1>13. Adrift' \/ (n < Len(Source) /\ InRecord(w, base)')
    <2> DEFINE p == pos
    <2>l. lost' = lost /\ file' = file
      BY <1>1 DEF saveVars
    <2>r. reader' \notin {"data", "newline"}
      BY <1>11
    <2>1. CASE Adrift
      <3>1. eofbit' = TRUE
        BY <1>7, <2>1, ReadNumberEffect
      <3>2. lost
        BY <2>1 DEF Adrift
      <3> QED BY <2>l, <2>r, <3>1, <3>2 DEF Adrift, good
    <2>2. CASE n < Len(Source) /\ InRecord(w, base)
      <3>1. CASE Ahead(file, pos) = {}
        <4>1. eofbit' = TRUE /\ lost
          BY <1>6, <2>2, <3>1, ReadNumberEffect
        <4> QED BY <2>l, <2>r, <4>1 DEF Adrift, good
      <3>2. CASE Ahead(file, pos) # {}
        <4>1. /\ good /\ pos' = After(file, pos) /\ eofbit' = (After(file, pos) > Len(file)) /\ failbit' = failbit
          BY <1>6, <2>2, <3>2, ReadNumberEffect
        <4>2. CASE After(file, pos) > Len(file)
          <5>1. lost /\ eofbit' = TRUE
            BY <1>6, <2>2, <3>2, <4>1, <4>2
          <5> QED BY <2>l, <2>r, <5>1 DEF Adrift, good
        <4>3. CASE ~(After(file, pos) > Len(file))
          <5>1. After(file, pos) <= Len(file)
            <6>1. After(file, pos) \in 1..(Len(file) + 1)
              BY <1>6, <2>2, <3>2
            <6> QED BY <1>3, <4>3, <6>1
          <5>2. pos' = base + Before(w, j + 1) /\ v = Numbers(w)[j] /\ pos' <= Len(file)
            BY <1>6, <1>8, <2>2, <3>2, <4>1, <5>1
          <5>3. good'
            BY <4>1, <4>3 DEF good
          <5>4. \A i \in 1..Len(meta') : meta'[i] = Numbers(w)[i]
            <6>1. \A i \in 1..Len(meta) : meta[i] = Numbers(w)[i]
              BY <2>2 DEF InRecord
            <6>2. \A i \in 1..Len(meta') : i \in 1..Len(meta) \/ i = j
              BY <1>5, <1>9
            <6> HIDE DEF j
            <6> QED BY <1>9, <5>2, <6>1, <6>2
          <5>5. reader' = "number" => pos' = base + Before(w, Len(meta') + 1) + (IF Len(meta') = 0 THEN 1 ELSE 0)
            <6>1. Len(meta') = j /\ j # 0
              BY <1>5, <1>9
            <6>2. base + Before(w, j + 1) \in Int
              BY <1>10, <5>2
            <6> HIDE DEF j
            <6> QED BY <5>2, <6>1, <6>2
          <5>6. reader' = "space" => pos' = base + Before(w, 5)
            <6>1. reader' = "space" => j + 1 = 5
              BY <1>1, <1>5, <1>9
            <6> QED BY <5>2, <6>1
          <5>7. InRecord(w, base)'
            <6> HIDE DEF w, base, j, n
            <6>1. w' = w /\ base' = base
              BY <1>1, <1>4 DEF w, base, n
            <6> QED BY <2>l, <2>r, <5>2, <5>3, <5>4, <5>5, <5>6, <6>1 DEF InRecord
          <5> QED BY <2>2, <5>7
        <4> QED BY <4>2, <4>3
      <3> QED BY <3>1, <3>2
    <2> QED BY <1>3, <2>1, <2>2
  <1>14. ReaderInv(off)'
    <2>1. reader' \in Inside /\ loaded' = loaded
      BY <1>1, <1>11 DEF Inside
    <2> QED BY <1>4, <1>11, <1>13, <2>1, InsideNext
  <1> QED BY <1>4, <1>12, <1>14

\* The space after size: it is there, or the get fails and what nl holds decides.
LEMMA EatSpaceKeeps ==
    ASSUME NEW off, LogTypes, FileInv(off), ReaderInv(off), EatSpace
    PROVE  LogTypes' /\ FileInv(off)' /\ ReaderInv(off)'
  <1> DEFINE n == Len(loaded)
             w == Source[n + 1]
             base == off[n]
  <1>1. /\ reader = "space" /\ Get /\ reader' = (IF nl' = SP THEN "data" ELSE "aborted")
        /\ UNCHANGED <<saveVars, log_data, old, file, meta, buffer, loaded>>
    BY DEF EatSpace
  <1>2. reader \in Inside
    BY <1>1 DEF Inside
  <1>3. /\ saver \in Over /\ n \in Nat /\ Len(file) \in Nat /\ file \in Seq(Char)
        /\ Holds(file, Source, off)
        /\ Adrift \/ (n < Len(Source) /\ InRecord(w, base))
    BY <1>2, InsideNow
  <1>4. Source' = Source /\ FileInv(off)'
    BY <1>1, <1>3, FileKept
  <1>5. /\ pos \in 1..(Len(file) + 1) /\ nl \in Char /\ Len(meta) = 4
        /\ eofbit \in BOOLEAN /\ failbit \in BOOLEAN
    BY <1>1 DEF LogTypes, TypeOK, ReaderInv
  <1>6. /\ saver' = saver /\ next' = next /\ log_data' = log_data /\ old' = old /\ file' = file
        /\ buffer' = buffer /\ meta' = meta /\ lost' = lost /\ loaded' = loaded
    BY <1>1 DEF saveVars
  <1>7. CASE Adrift
    <2>1. ~good /\ lost
      BY <1>7 DEF Adrift
    <2>2. eofbit' = TRUE /\ failbit' = TRUE /\ nl' = nl /\ pos' = pos
      BY <1>1, <2>1 DEF Get
    <2>3. LogTypes'
      BY <1>1, <1>6, <2>2 DEF LogTypes, TypeOK
    <2>4. reader' = "aborted" \/ (reader' = "data" /\ nl' = SP)
      BY <1>1
    <2>5. CASE reader' = "aborted"
      BY <1>4, <1>6, <2>1, <2>3, <2>5 DEF ReaderInv, Inside
    <2>6. CASE reader' = "data" /\ nl' = SP
      <3>1. Adrift'
        BY <1>6, <2>1, <2>2, <2>6 DEF Adrift, good
      <3>2. reader' \in Inside /\ reader' # "number" /\ Len(meta') = 4
        BY <1>5, <1>6, <2>6 DEF Inside
      <3>3. ReaderInv(off)'
        BY <1>4, <1>6, <3>1, <3>2, InsideNext
      <3> QED BY <1>4, <2>3, <3>3
    <2> QED BY <2>4, <2>5, <2>6
  <1>8. CASE n < Len(Source) /\ InRecord(w, base)
    <2>1. /\ good /\ pos = base + Before(w, 5) /\ pos <= Len(file)
          /\ \A i \in 1..Len(meta) : meta[i] = Numbers(w)[i]
      BY <1>1, <1>8 DEF InRecord
    <2>2. nl' = file[pos] /\ pos' = pos + 1 /\ eofbit' = eofbit /\ failbit' = failbit
      <3>1. ~AtEnd
        BY <1>3, <1>5, <2>1 DEF AtEnd
      <3> QED BY <1>1, <2>1, <3>1 DEF Get
    <2>3. file[pos] = SP
      <3> DEFINE a == base + Before(w, 4) + Width(w, 4)
      <3>1. 4 \in 1..4
        OBVIOUS
      <3>2. w \in Records /\ base \in Nat /\ Within(file, a, <<SP>>)
        BY <1>3, <1>8, <3>1, RecordInFile
      <3>3. Before(w, 4) \in Nat /\ Width(w, 4) \in Nat /\ Before(w, 4 + 1) = Before(w, 4) + Width(w, 4) + 1
        BY <3>1, <3>2, BeforeNext, RecordParts
      <3>4. 4 + 1 = 5
        OBVIOUS
      <3>5. pos = a + 1
        <4> HIDE DEF w, base
        <4> QED BY <2>1, <3>2, <3>3, <3>4
      <3>6. a + 1 <= Len(file)
        BY <2>1, <3>5
      <3>7. file[a + 1] = SP
        BY <3>2, <3>6, WithinOne
      <3> QED BY <3>5, <3>7
    <2>4. nl' = SP /\ reader' = "data" /\ pos' \in 1..(Len(file) + 1) /\ nl' \in Char
      <3>1. pos + 1 \in 1..(Len(file) + 1)
        BY <1>3, <1>5, <2>1
      <3> QED BY <1>1, <2>2, <2>3, <3>1, Constants
    <2>5. LogTypes'
      BY <1>6, <2>2, <2>4 DEF LogTypes, TypeOK
    <2>6. InRecord(w, base)'
      <3>1. w' = w /\ base' = base
        BY <1>4, <1>6
      <3>2. good'
        BY <2>1, <2>2 DEF good
      <3>3. pos' = base + Before(w, 5) + 1
        BY <2>1, <2>2
      <3> HIDE DEF w, base, n
      <3> QED BY <1>6, <2>1, <2>4, <3>1, <3>2, <3>3 DEF InRecord
    <2>7. reader' \in Inside /\ reader' # "number" /\ Len(meta') = 4
      BY <1>5, <1>6, <2>4 DEF Inside
    <2>8. ReaderInv(off)'
      BY <1>4, <1>6, <1>8, <2>6, <2>7, InsideNext
    <2> QED BY <1>4, <2>5, <2>8
  <1> QED BY <1>3, <1>7, <1>8

\* The lesser of two numbers.
LEMMA MinOfTwo ==
    ASSUME NEW a \in Nat, NEW b \in Nat
    PROVE  Min({a, b}) = IF a <= b THEN a ELSE b
  <1> DEFINE S == {a, b}
  <1>1. S \subseteq Nat
    OBVIOUS
  <1>2. CASE a <= b
    <2>1. a \in S /\ \A y \in S : a <= y
      BY <1>2
    <2> HIDE DEF S
    <2>2. Min(S) = a
      BY <1>1, <2>1, MinIs
    <2> QED BY <1>2, <2>2 DEF S
  <1>3. CASE ~(a <= b)
    <2>1. b \in S /\ \A y \in S : b <= y
      BY <1>3
    <2> HIDE DEF S
    <2>2. Min(S) = b
      BY <1>1, <2>1, MinIs
    <2> QED BY <1>3, <2>2 DEF S
  <1> QED BY <1>2, <1>3

\* A part of the file that is another sequence.
LEMMA SliceIs ==
    ASSUME NEW f \in Seq(Char), NEW a \in Nat, NEW t \in Seq(Char), Within(f, a, t), a + Len(t) <= Len(f)
    PROVE  SubSeq(f, a + 1, a + Len(t)) = t
  <1> DEFINE e == a + Len(t)
             x == SubSeq(f, a + 1, e)
             N == Len(t)
             L == Len(f)
  <1>1. N \in Nat /\ L \in Nat /\ e \in Nat /\ e <= L /\ e - (a + 1) + 1 = N
    OBVIOUS
  <1>2. x \in Seq(Char) /\ Len(x) = N /\ \A i \in 1..N : x[i] = f[a + i]
    <2> HIDE DEF e, N
    <2>0. a + 1 \in 1..(L + 1) /\ e \in 0..L /\ L = Len(f) /\ a + 1 <= e + 1
      BY <1>1 DEF e, N
    <2>1. x \in Seq(Char) /\ Len(x) = e - (a + 1) + 1
      BY <1>1, <2>0
    <2>2. ASSUME NEW i \in 1..N PROVE x[i] = f[a + i]
      <3>1. i \in 1..(e - (a + 1) + 1) /\ (a + 1) + i - 1 = a + i
        BY <1>1
      <3>2. x[i] = f[(a + 1) + i - 1]
        BY <1>1, <2>0, <3>1
      <3> QED BY <3>1, <3>2
    <2> QED BY <1>1, <2>1, <2>2
  <1>3. \A i \in 1..N : f[a + i] = t[i]
    <2>1. \A i \in 1..N : a + i <= Len(f)
      OBVIOUS
    <2> QED BY <2>1 DEF Within
  <1> HIDE DEF x, e, L
  <1>4. \A i \in 1..N : x[i] = t[i]
    BY <1>2, <1>3
  <1>5. x = t
    BY <1>2, <1>4, SameSeq
  <1> QED BY <1>5 DEF x, e

\* is.read: size bytes, or what there is of them.
LEMMA ReadDataKeeps ==
    ASSUME NEW off, LogTypes, FileInv(off), ReaderInv(off), ReadData
    PROVE  LogTypes' /\ FileInv(off)' /\ ReaderInv(off)'
  <1> DEFINE n == Len(loaded)
             w == Source[n + 1]
             base == off[n]
             m == IF good THEN Min({meta[4], Len(file) + 1 - pos}) ELSE 0
             L == Len(file)
  <1>1. /\ reader = "data" /\ reader' = "newline"
        /\ UNCHANGED <<saveVars, log_data, old, file, meta, nl, loaded>>
        /\ buffer' = SubSeq(file, pos, pos + m - 1) /\ pos' = pos + m
        /\ eofbit' = (eofbit \/ m < meta[4]) /\ failbit' = (failbit \/ m < meta[4])
    BY DEF ReadData
  <1>2. reader \in Inside
    BY <1>1 DEF Inside
  <1>3. /\ saver \in Over /\ n \in Nat /\ L \in Nat /\ file \in Seq(Char)
        /\ Holds(file, Source, off)
        /\ Adrift \/ (n < Len(Source) /\ InRecord(w, base))
    BY <1>2, InsideNow
  <1>4. Source' = Source /\ FileInv(off)'
    BY <1>1, <1>3, FileKept
  <1>5. /\ pos \in 1..(L + 1) /\ meta \in Seq(Nat) /\ Len(meta) = 4 /\ meta[4] \in Nat
        /\ eofbit \in BOOLEAN /\ failbit \in BOOLEAN
    <2>1. /\ pos \in 1..(L + 1) /\ meta \in Seq(Nat) /\ Len(meta) = 4
          /\ eofbit \in BOOLEAN /\ failbit \in BOOLEAN
      BY <1>1 DEF LogTypes, TypeOK, ReaderInv
    <2>2. 4 \in 1..Len(meta)
      BY <2>1
    <2>3. meta[4] \in Nat
      BY <2>1, <2>2, SeqFun
    <2> QED BY <2>1, <2>3
  <1>6. /\ saver' = saver /\ next' = next /\ log_data' = log_data /\ old' = old /\ file' = file
        /\ meta' = meta /\ lost' = lost /\ loaded' = loaded /\ nl' = nl
    BY <1>1 DEF saveVars
  <1> DEFINE rest == L + 1 - pos
  <1>7. rest \in Nat /\ rest = L + 1 - pos
    BY <1>3, <1>5
  <1>8. m = (IF good THEN (IF meta[4] <= rest THEN meta[4] ELSE rest) ELSE 0)
    <2> HIDE DEF rest
    <2>1. Min({meta[4], rest}) = IF meta[4] <= rest THEN meta[4] ELSE rest
      BY <1>5, <1>7, MinOfTwo
    <2> QED BY <2>1 DEF rest
  <1> HIDE DEF m, rest
  <1>9. m \in Nat /\ m <= rest
    <2>1. 0 <= rest /\ 0 \in Nat
      BY <1>7
    <2>2. CASE good
      BY <1>5, <1>7, <1>8, <2>2
    <2>3. CASE ~good
      BY <1>8, <2>1, <2>3
    <2> QED BY <2>2, <2>3
  <1>10. pos' \in 1..(L + 1) /\ pos + m - 1 \in 0..L
    BY <1>1, <1>3, <1>5, <1>7, <1>9
  <1>11. buffer' \in Seq(Char)
    <2> DEFINE e == pos + m - 1
    <2>1. e \in 0..L /\ buffer' = SubSeq(file, pos, e)
      BY <1>1, <1>10
    <2> HIDE DEF e
    <2> QED BY <1>3, <1>5, <2>1
  <1>12. LogTypes'
    <2>1. eofbit' \in BOOLEAN /\ failbit' \in BOOLEAN
      BY <1>1
    <2>2. reader' \in {"idle", "peek", "number", "space", "data", "newline", "success", "error", "aborted"}
      BY <1>1
    <2> HIDE DEF n
    <2> QED BY <1>6, <1>10, <1>11, <2>1, <2>2 DEF LogTypes, TypeOK
  <1>13. reader' \in Inside /\ reader' # "number" /\ Len(meta') = 4
    BY <1>1, <1>5, <1>6 DEF Inside
  <1>14. CASE Adrift
    <2>1. ~good /\ lost /\ nl = SP
      BY <1>1, <1>14 DEF Adrift
    <2>2. ~good'
      BY <1>1, <2>1 DEF good
    <2>3. Adrift'
      BY <1>6, <2>1, <2>2 DEF Adrift
    <2>4. ReaderInv(off)'
      BY <1>4, <1>6, <1>13, <2>3, InsideNext
    <2> QED BY <1>4, <1>12, <2>4
  <1>15. CASE n < Len(Source) /\ InRecord(w, base)
    <2>1. /\ good /\ pos = base + Before(w, 5) + 1 /\ nl = SP
          /\ \A i \in 1..Len(meta) : meta[i] = Numbers(w)[i]
      BY <1>1, <1>15 DEF InRecord
    <2>2. w \in Records /\ base \in Nat /\ Within(file, base + Before(w, 5), w.data)
      BY <1>3, <1>15, RecordInFile
    <2>3. meta[4] = w.size
      <3>1. 4 \in 1..Len(meta) /\ Numbers(w)[4] = w.size
        BY <1>5, <2>2, RecordParts
      <3> QED BY <2>1, <3>1
    <2>4. w.data \in Seq(Char) /\ w.size \in Nat /\ Len(w.data) = w.size /\ Before(w, 5) \in Nat
      BY <2>2, RecordParts, BeforeNext
    <2>5. off[n + 1] = off[n] + Before(w, 5) + w.size + 1
      <3>1. Source \in Seq(Records) /\ IsOffsets(off, Parts(Source))
        BY <1>3 DEF Holds
      <3> QED BY <1>3, <1>15, <3>1, Places
    <2>6. CASE w.size <= rest
      <3>1. m = w.size
        BY <1>8, <2>1, <2>3, <2>6
      <3>2. ~(m < meta[4])
        BY <2>3, <2>4, <3>1
      <3>3. eofbit' = eofbit /\ failbit' = failbit
        BY <1>1, <1>5, <3>2
      <3> DEFINE a == base + Before(w, 5)
                 t == w.data
      <3>4. buffer' = w.data
        <4>1. a \in Nat /\ Len(t) = w.size /\ t \in Seq(Char) /\ a + 1 = pos /\ a + Len(t) = pos + m - 1 /\ a + Len(t) <= Len(file)
          <5> DEFINE B == Before(w, 5)
                     z == w.size
          <5>1. /\ base \in Nat /\ B \in Nat /\ z \in Nat /\ m = z /\ pos = base + B + 1 /\ L \in Nat
                /\ rest = L + 1 - pos /\ z <= rest /\ a = base + B
            BY <1>3, <1>7, <2>1, <2>2, <2>4, <2>6, <3>1
          <5>2. t \in Seq(Char) /\ Len(t) = z
            BY <2>4
          <5> HIDE DEF w, base, B, z, t, L, a
          <5>3. a \in Nat /\ a + 1 = pos /\ a + z = pos + m - 1 /\ a + z <= L
            BY <5>1
          <5> QED BY <5>2, <5>3 DEF L, z
        <4>2. Within(file, a, t)
          BY <2>2
        <4> HIDE DEF a, t
        <4>3. SubSeq(file, a + 1, a + Len(t)) = t
          BY ONLY <1>3, <4>1, <4>2, SliceIs
        <4> QED BY <1>1, <4>1, <4>3 DEF t
      <3>5. good'
        BY <2>1, <3>3 DEF good
      <3>6. pos' = base + Before(w, 5) + w.size + 1
        <4> HIDE DEF w, base
        <4> QED BY <1>1, <2>1, <2>2, <2>4, <3>1
      <3>7. InRecord(w, base)'
        <4>1. w' = w /\ base' = base
          BY <1>4, <1>6
        <4> HIDE DEF w, base, n
        <4> QED BY <1>1, <1>6, <2>1, <3>4, <3>5, <3>6, <4>1 DEF InRecord
      <3>8. ReaderInv(off)'
        BY <1>4, <1>6, <1>13, <1>15, <3>7, InsideNext
      <3> QED BY <1>4, <1>12, <3>8
    <2>7. CASE ~(w.size <= rest)
      <3>1. m = rest
        BY <1>8, <2>1, <2>3, <2>7
      <3>2. m < meta[4]
        BY <1>7, <2>3, <2>4, <2>7, <3>1
      <3>3. eofbit' = TRUE
        BY <1>1, <3>2
      <3>4. L < off[n + 1]
        <4> DEFINE B == Before(w, 5)
                   z == w.size
                   y == off[n + 1]
        <4>1. /\ base \in Nat /\ B \in Nat /\ z \in Nat /\ pos = base + B + 1 /\ L \in Nat
              /\ rest = L + 1 - pos /\ ~(z <= rest) /\ y = base + B + z + 1
          BY <1>3, <1>7, <2>1, <2>2, <2>4, <2>5, <2>7
        <4> HIDE DEF w, base, B, z, L, y
        <4>2. L < y
          BY <4>1
        <4> QED BY <4>2 DEF y
      <3>5. lost
        BY <1>3, <1>15, <3>4, CutIsLost
      <3>6. Adrift'
        BY <1>6, <2>1, <3>3, <3>5 DEF Adrift, good
      <3>7. ReaderInv(off)'
        BY <1>4, <1>6, <1>13, <3>6, InsideNext
      <3> QED BY <1>4, <1>12, <3>7
    <2> QED BY <2>6, <2>7
  <1> QED BY <1>3, <1>14, <1>15

\* One more record of a log.
LEMMA OneMore ==
    ASSUME NEW S \in Seq(Records), NEW n \in Nat, n < Len(S), NEW s, s = SubSeq(S, 1, n), NEW w, w = S[n + 1]
    PROVE  Append(s, w) = SubSeq(S, 1, n + 1) /\ Len(Append(s, w)) = n + 1
  <1>1. Len(S) \in Nat /\ n + 1 \in 1..Len(S)
    OBVIOUS
  <1> DEFINE x == SubSeq(S, 1, n + 1)
             y == Append(s, w)
             A == Records
  <1> HIDE DEF A
  <1>0. S \in Seq(A)
    BY DEF A
  <1>2. w \in A
    BY <1>0, <1>1
  <1>3. s \in Seq(A) /\ Len(s) = n /\ \A i \in 1..n : s[i] = S[i]
    BY <1>0, <1>1
  <1>4. x \in Seq(A) /\ Len(x) = n + 1 /\ \A i \in 1..(n + 1) : x[i] = S[i]
    BY <1>0, <1>1
  <1>5. y \in Seq(A) /\ Len(y) = n + 1 /\ y[n + 1] = w /\ \A i \in 1..n : y[i] = s[i]
    BY <1>2, <1>3
  <1> HIDE DEF x, y
  <1>6. \A i \in 1..(n + 1) : x[i] = y[i]
    BY <1>3, <1>4, <1>5
  <1>7. x = y
    BY <1>4, <1>5, <1>6, SameSeq
  <1> QED BY <1>5, <1>7 DEF x, y

\* The newline: the record is the next one of the log.
LEMMA EatNewlineKeeps ==
    ASSUME NEW off, LogTypes, FileInv(off), ReaderInv(off), EatNewline
    PROVE  LogTypes' /\ FileInv(off)' /\ ReaderInv(off)'
  <1> DEFINE n == Len(loaded)
             w == Source[n + 1]
             base == off[n]
             L == Len(file)
             new == [bi_flags |-> meta[1], bi_rw |-> meta[2], write_sector |-> meta[3],
                     size |-> meta[4], data |-> buffer]
  <1>1. /\ reader = "newline" /\ Get
        /\ UNCHANGED <<saveVars, log_data, old, file, meta, buffer>>
        /\ IF nl' = NL THEN loaded' = Append(loaded, new) /\ reader' = "peek"
           ELSE reader' = "aborted" /\ loaded' = loaded
    BY DEF EatNewline
  <1>2. reader \in Inside
    BY <1>1 DEF Inside
  <1>3. /\ saver \in Over /\ n \in Nat /\ L \in Nat /\ file \in Seq(Char)
        /\ Holds(file, Source, off)
        /\ Adrift \/ (n < Len(Source) /\ InRecord(w, base))
    BY <1>2, InsideNow
  <1>4. Source' = Source /\ FileInv(off)'
    BY <1>1, <1>3, FileKept
  <1>5. /\ pos \in 1..(L + 1) /\ Len(meta) = 4 /\ nl \in Char
        /\ eofbit \in BOOLEAN /\ failbit \in BOOLEAN
    BY <1>1 DEF LogTypes, TypeOK, ReaderInv
  <1>6. /\ saver' = saver /\ next' = next /\ log_data' = log_data /\ old' = old /\ file' = file
        /\ meta' = meta /\ lost' = lost /\ buffer' = buffer
    BY <1>1 DEF saveVars
  <1>7. SP # NL
    BY Constants
  \* The get fails: the character is still the space, and the file was cut.
  <1>8. ASSUME lost, nl = SP, eofbit' = TRUE, failbit' = TRUE, nl' = nl, pos' = pos
        PROVE  LogTypes' /\ FileInv(off)' /\ ReaderInv(off)'
    <2>1. reader' = "aborted" /\ loaded' = loaded
      BY <1>1, <1>7, <1>8
    <2>2. LogTypes'
      BY <1>6, <1>8, <2>1 DEF LogTypes, TypeOK
    <2>3. ReaderInv(off)'
      BY <1>4, <1>6, <1>8, <2>1 DEF ReaderInv, Inside
    <2> QED BY <1>4, <2>2, <2>3
  <1>9. CASE Adrift
    <2>1. ~good /\ lost /\ nl = SP
      BY <1>1, <1>9 DEF Adrift
    <2>2. eofbit' = TRUE /\ failbit' = TRUE /\ nl' = nl /\ pos' = pos
      BY <1>1, <2>1 DEF Get
    <2> QED BY <1>8, <2>1, <2>2
  <1>10. CASE n < Len(Source) /\ InRecord(w, base)
    <2>1. /\ good /\ pos = base + Before(w, 5) + w.size + 1 /\ nl = SP /\ buffer = w.data
          /\ \A i \in 1..Len(meta) : meta[i] = Numbers(w)[i]
      BY <1>1, <1>10 DEF InRecord
    <2> DEFINE a == base + Before(w, 5) + w.size
    <2>2. w \in Records /\ base \in Nat /\ Within(file, a, <<NL>>)
      BY <1>3, <1>10, RecordInFile
    <2>3. w.size \in Nat /\ Before(w, 5) \in Nat
      BY <2>2, RecordParts, BeforeNext
    <2>4. Source \in Seq(Records) /\ IsOffsets(off, Parts(Source))
      BY <1>3 DEF Holds
    <2>5. off[n + 1] = off[n] + Before(w, 5) + w.size + 1
      BY <1>3, <1>10, <2>4, Places
    <2>6. pos = off[n + 1] /\ pos = a + 1
      BY <2>1, <2>5
    <2>7. CASE AtEnd
      <3>1. eofbit' = TRUE /\ failbit' = TRUE /\ nl' = nl /\ pos' = pos
        BY <1>1, <2>7 DEF Get
      <3>2. L < off[n + 1]
        BY <1>3, <1>5, <2>6, <2>7 DEF AtEnd
      <3>3. lost
        BY <1>3, <1>10, <3>2, CutIsLost
      <3> QED BY <1>8, <2>1, <3>1, <3>3
    <2>8. CASE ~AtEnd
      <3>1. nl' = file[pos] /\ pos' = pos + 1 /\ eofbit' = eofbit /\ failbit' = failbit
        BY <1>1, <2>1, <2>8 DEF Get
      <3>2. pos <= L
        BY <1>3, <1>5, <2>8 DEF AtEnd
      <3>3. nl' = NL
        <4>1. a + 1 <= Len(file)
          BY <2>6, <3>2
        <4>2. file[a + 1] = NL
          BY <2>2, <4>1, WithinOne
        <4> QED BY <2>6, <3>1, <4>2
      <3>4. new = w
        <4>1. /\ w = [bi_flags |-> w.bi_flags, bi_rw |-> w.bi_rw, write_sector |-> w.write_sector,
                      size |-> w.size, data |-> w.data]
              /\ Numbers(w)[1] = w.bi_flags /\ Numbers(w)[2] = w.bi_rw
              /\ Numbers(w)[3] = w.write_sector /\ Numbers(w)[4] = w.size
          BY <2>2, RecordParts
        <4>2. 1 \in 1..Len(meta) /\ 2 \in 1..Len(meta) /\ 3 \in 1..Len(meta) /\ 4 \in 1..Len(meta)
          BY <1>5
        <4>3. meta[1] = w.bi_flags /\ meta[2] = w.bi_rw /\ meta[3] = w.write_sector /\ meta[4] = w.size
          BY <2>1, <4>1, <4>2
        <4> HIDE DEF w
        <4> QED BY <2>1, <4>1, <4>3, Zenon
      <3>5. loaded' = Append(loaded, w) /\ reader' = "peek"
        BY <1>1, <3>3, <3>4, Zenon
      <3>6. loaded = SubSeq(Source, 1, n)
        BY DEF ReaderInv
      <3>7. loaded' = SubSeq(Source, 1, n + 1) /\ Len(loaded') = n + 1
        BY <1>3, <1>10, <2>4, <3>5, <3>6, OneMore
      <3>8. n + 1 \in 0..Len(Source)
        BY <1>3, <1>10, <2>4
      <3>9. ~eofbit' /\ pos' = off[n + 1] + 1
        BY <2>1, <2>6, <3>1 DEF good
      <3>10. ReaderInv(off)'
        <4> DEFINE k == n + 1
        <4>1. loaded' = SubSeq(Source, 1, k) /\ Len(loaded') = k /\ k \in 0..Len(Source) /\ pos' = off[k] + 1
          BY <3>7, <3>8, <3>9
        <4> HIDE DEF k
        <4> QED BY <1>4, <3>5, <3>9, <4>1 DEF ReaderInv, Inside
      <3>11. LogTypes'
        <4>1. pos' \in 1..(L + 1)
          BY <1>3, <1>5, <3>1, <3>2
        <4>2. nl' \in Char
          BY <3>3, Constants
        <4> QED BY <1>6, <3>1, <3>5, <4>1, <4>2 DEF LogTypes, TypeOK
      <3> QED BY <1>4, <3>10, <3>11
    <2> QED BY <2>7, <2>8
  <1> QED BY <1>3, <1>9, <1>10
-----------------------------------------------------------------------------
(* The reader's steps between records *)

\* There is a character at the place where the next record begins.
LEMMA DeserializeKeeps ==
    ASSUME NEW off, LogTypes, FileInv(off), ReaderInv(off), Deserialize
    PROVE  LogTypes' /\ FileInv(off)' /\ ReaderInv(off)'
  <1> DEFINE n == Len(loaded)
             w == Source[n + 1]
             base == off[n]
             L == Len(file)
             N == Len(Source)
  <1>1. /\ reader = "peek" /\ ~AtEnd /\ good /\ meta' = <<>> /\ nl' \in Char /\ reader' = "number"
        /\ UNCHANGED <<saveVars, log_data, old, file, stream, buffer, loaded>>
    BY DEF Deserialize
  <1>2. saver \in Over
    BY <1>1, ReaderLater
  <1>3. Source' = Source /\ FileInv(off)'
    BY <1>1, <1>2, FileKept
  <1>4. /\ saver' = saver /\ next' = next /\ log_data' = log_data /\ old' = old /\ file' = file
        /\ lost' = lost /\ buffer' = buffer /\ loaded' = loaded
        /\ pos' = pos /\ eofbit' = eofbit /\ failbit' = failbit
    BY <1>1 DEF saveVars, stream
  <1>5. file \in Seq(Char) /\ Source \in Seq(Records) /\ IsOffsets(off, Parts(Source)) /\ L <= off[N]
    BY DEF FileInv, Holds
  <1>6. n \in 0..N /\ pos = off[n] + 1 /\ pos \in 1..(L + 1)
    BY <1>1 DEF ReaderInv, LogTypes, TypeOK
  <1>7. L \in Nat /\ N \in Nat /\ n \in Nat
    BY <1>5, <1>6
  <1>8. off[n] \in Nat /\ off[N] \in Nat
    <2>1. N \in 0..N
      BY <1>7
    <2> QED BY <1>5, <1>6, <2>1, Places
  <1>9. pos <= L
    BY <1>1, <1>6, <1>7 DEF AtEnd
  <1>10. n < N
    <2> HIDE DEF n, N, L
    <2> SUFFICES ASSUME n = N PROVE FALSE
      BY <1>6, <1>7
    <2> QED BY <1>5, <1>6, <1>7, <1>8, <1>9
  <1>11. w \in Records
    <2>1. n + 1 \in 1..N
      BY <1>7, <1>10
    <2> QED BY <1>5, <2>1, LogParts
  <1>12. Before(w, 1) = 0
    BY <1>11, BeforeNext
  <1>13. Len(meta') = 0 /\ meta' \in Seq(Nat)
    BY <1>1
  <1>14. InRecord(w, base)'
    <2>1. w' = w /\ base' = base
      BY <1>3, <1>4
    <2>2. good'
      BY <1>1, <1>4 DEF good
    <2>3. pos' = base + Before(w, Len(meta') + 1) + (IF Len(meta') = 0 THEN 1 ELSE 0)
      <3>1. Len(meta') + 1 = 1
        BY <1>13
      <3>2. pos' = base + 0 + 1
        BY <1>4, <1>6, <1>8
      <3> QED BY <1>12, <1>13, <3>1, <3>2
    <2>4. pos' <= Len(file') /\ \A i \in 1..Len(meta') : meta'[i] = Numbers(w)[i]
      BY <1>4, <1>9, <1>13
    <2> HIDE DEF w, base, n
    <2> QED BY <1>1, <2>1, <2>2, <2>3, <2>4 DEF InRecord
  <1>15. LogTypes'
    BY <1>1, <1>4, <1>13 DEF LogTypes, TypeOK
  <1>16. ReaderInv(off)'
    <2>1. reader' \in Inside /\ Len(meta') < 4 /\ reader' = "number"
      BY <1>1, <1>13 DEF Inside
    <2> QED BY <1>3, <1>4, <1>10, <1>14, <2>1, InsideNext
  <1> QED BY <1>3, <1>15, <1>16

\* The end, between two records.
LEMMA PeekEOFKeeps ==
    ASSUME NEW off, LogTypes, FileInv(off), ReaderInv(off), PeekEOF
    PROVE  LogTypes' /\ FileInv(off)' /\ ReaderInv(off)'
  <1>1. /\ reader = "peek" /\ (AtEnd \/ ~good) /\ eofbit' = TRUE
        /\ reader' = (IF failbit THEN "error" ELSE "success")
        /\ UNCHANGED <<saveVars, log_data, old, file, pos, failbit, record, loaded>>
    BY DEF PeekEOF
  <1>2. saver \in Over
    BY <1>1, ReaderLater
  <1>3. Source' = Source /\ FileInv(off)'
    BY <1>1, <1>2, FileKept
  <1>4. /\ saver' = saver /\ next' = next /\ log_data' = log_data /\ old' = old /\ file' = file
        /\ lost' = lost /\ buffer' = buffer /\ loaded' = loaded /\ nl' = nl /\ meta' = meta
        /\ pos' = pos /\ failbit' = failbit
    BY <1>1 DEF saveVars, record
  <1>5. reader' \in {"error", "success"}
    BY <1>1
  <1>6. LogTypes'
    BY <1>1, <1>4, <1>5 DEF LogTypes, TypeOK
  <1>7. reader' = "success" => pos > Len(file)
    <2>1. ~eofbit
      BY <1>1 DEF ReaderInv
    <2>2. reader' = "success" => ~failbit
      BY <1>1
    <2> QED BY <1>1, <2>1, <2>2 DEF good, AtEnd
  <1>8. /\ Len(loaded) \in 0..Len(Source) /\ loaded = SubSeq(Source, 1, Len(loaded))
        /\ pos = off[Len(loaded)] + 1
    BY <1>1 DEF ReaderInv
  <1>9. ReaderInv(off)'
    BY <1>3, <1>4, <1>5, <1>7, <1>8 DEF ReaderInv, Inside
  <1> QED BY <1>3, <1>6, <1>9

\* The reader starts at the first record.
LEMMA OpenForLoadKeeps ==
    ASSUME NEW off, LogTypes, FileInv(off), ReaderInv(off), OpenForLoad
    PROVE  LogTypes' /\ FileInv(off)' /\ ReaderInv(off)'
  <1>1. /\ saver \in Over /\ reader = "idle" /\ failbit' \in BOOLEAN /\ reader' = "peek"
        /\ UNCHANGED <<saveVars, log_data, old, file, pos, eofbit, record, loaded>>
    BY DEF OpenForLoad, Over
  <1>3. Source' = Source /\ FileInv(off)'
    BY <1>1, FileKept
  <1>4. /\ saver' = saver /\ next' = next /\ log_data' = log_data /\ old' = old /\ file' = file
        /\ lost' = lost /\ buffer' = buffer /\ loaded' = loaded /\ nl' = nl /\ meta' = meta
        /\ pos' = pos /\ eofbit' = eofbit
    BY <1>1 DEF saveVars, record
  <1>6. LogTypes'
    BY <1>1, <1>4 DEF LogTypes, TypeOK
  <1>7. /\ Len(loaded) \in 0..Len(Source) /\ loaded = SubSeq(Source, 1, Len(loaded))
        /\ pos = 1 /\ good /\ Len(loaded) = 0
    BY <1>1 DEF ReaderInv
  <1>8. pos = off[Len(loaded)] + 1 /\ ~eofbit
    <2>1. off[0] = 0
      BY DEF FileInv, Holds, IsOffsets
    <2> QED BY <1>7, <2>1 DEF good
  <1>9. ReaderInv(off)'
    BY <1>1, <1>3, <1>4, <1>7, <1>8 DEF ReaderInv, Inside
  <1> QED BY <1>3, <1>6, <1>9

-----------------------------------------------------------------------------
(* The saver's steps *)

\* The reader has not started.
LEMMA IdleReader ==
    ASSUME NEW off, ReaderInv(off), reader = "idle", UNCHANGED <<reader, stream, record, loaded>>,
           Source \in Seq(Records), (Source \in Seq(Records))', NEW q
    PROVE  ReaderInv(q)'
  <1>1. UNCHANGED <<reader, pos, eofbit, failbit, loaded>>
    BY DEF stream
  <1>2. loaded = SubSeq(Source, 1, 0) /\ Len(loaded) = 0 /\ pos = 1 /\ good
    BY DEF ReaderInv
  <1>3. SubSeq(Source, 1, 0) = <<>> /\ (SubSeq(Source, 1, 0))' = <<>> /\ (0 \in 0..Len(Source))'
    OBVIOUS
  <1>4. good'
    BY <1>1, <1>2 DEF good
  <1>5. reader' = "idle"
    BY <1>1
  <1> QED BY <1>1, <1>2, <1>3, <1>4, <1>5 DEF ReaderInv, Inside

\* A file with the first records of a log.
LEMMA LaidOutHolds ==
    ASSUME NEW S \in Seq(Records), NEW off, IsOffsets(off, Parts(S)), NEW f \in Seq(Char),
           NEW m \in 0..Len(S), LaidOut(f, Parts(S), off, m)
    PROVE  Holds(f, S, off) /\ Len(f) = off[m] /\ off[m] <= off[Len(S)]
  <1> DEFINE N == Len(S)
             P == Parts(S)
  <1>1. N \in Nat /\ P \in Seq(Seq(Char)) /\ Len(P) = N
    BY LogParts
  <1>2. \A l \in 0..N : \A k \in 0..l : off[k] <= off[l]
    <2> HIDE DEF P, N
    <2>1. IsOffsets(off, P)
      BY DEF P
    <2>2. \A l \in 0..Len(P) : \A k \in 0..l : off[k] <= off[l]
      BY ONLY <1>1, <2>1, OffsetsMonotone
    <2> QED BY <1>1, <2>2
  <1>3. Len(f) = off[m] /\ off \in [Nat -> Nat]
    BY DEF LaidOut, IsOffsets
  <1>4. ASSUME NEW k \in 1..N PROVE Within(f, off[k - 1], P[k])
    <2>1. CASE k <= m
      <3>1. k \in 1..m
        BY <1>1, <2>1
      <3> QED BY <3>1 DEF Within, LaidOut
    <2>2. CASE ~(k <= m)
      <3>1. k - 1 \in 0..N /\ m \in 0..(k - 1) /\ k - 1 \in Nat /\ m \in Nat
        BY <1>1, <2>2
      <3>2. off[m] <= off[k - 1] /\ off[k - 1] \in Nat /\ off[m] \in Nat
        BY <1>2, <1>3, <3>1
      <3>3. P[k] \in Seq(Char) /\ Len(P[k]) \in Nat
        BY <1>1, PartsType
      <3> DEFINE x == off[k - 1]
                 y == off[m]
      <3>4. x \in Nat /\ y \in Nat /\ y <= x
        BY <3>2
      <3> HIDE DEF x, y
      <3>5. \A i \in 1..Len(P[k]) : ~(x + i <= y)
        BY <3>3, <3>4
      <3> QED BY <1>3, <3>5 DEF Within, x, y
    <2> QED BY <2>1, <2>2
  <1>5. off[m] <= off[N]
    <2>1. N \in 0..N
      BY <1>1
    <2> QED BY <1>2, <2>1
  <1> QED BY <1>3, <1>4, <1>5 DEF Holds

\* A file with the first records of a log and a part of the next.
LEMMA CutHolds ==
    ASSUME NEW S \in Seq(Records), NEW off, IsOffsets(off, Parts(S)), NEW f \in Seq(Char),
           NEW m \in Nat, m + 1 \in 1..Len(S), LaidOut(f, Parts(S), off, m),
           NEW c \in 0..(Len(Parts(S)[m + 1]) - 1), NEW g, g = f \o SubSeq(Parts(S)[m + 1], 1, c)
    PROVE  Holds(g, S, off) /\ Len(g) <= off[Len(S)]
  <1> DEFINE N == Len(S)
             P == Parts(S)
             t == P[m + 1]
             u == SubSeq(t, 1, c)
             L == Len(f)
  <1>1. N \in Nat /\ P \in Seq(Seq(Char)) /\ Len(P) = N
    BY LogParts
  <1>2. m + 1 \in 1..N /\ m \in 0..N /\ t \in Seq(Char) /\ L \in Nat /\ Len(t) \in Nat
    <2>1. m + 1 \in 1..N /\ m \in 0..N
      BY <1>1
    <2> HIDE DEF P
    <2>2. t \in Seq(Char)
      BY <1>1, <2>1, PartsType
    <2> HIDE DEF t
    <2> QED BY <2>1, <2>2
  <1>3. Holds(f, S, off) /\ L = off[m]
    BY <1>2, LaidOutHolds
  <1>4. /\ off \in [Nat -> Nat] /\ off[m + 1] = off[m] + Len(t)
    <2>1. (m + 1) - 1 = m
      OBVIOUS
    <2>2. off[m + 1] = off[(m + 1) - 1] + Len(P[m + 1])
      BY <1>1, <1>2 DEF IsOffsets
    <2> QED BY <2>1, <2>2 DEF IsOffsets
  <1>5. \A l \in 0..N : \A k \in 0..l : off[k] <= off[l]
    <2> HIDE DEF P, N
    <2>1. IsOffsets(off, P)
      BY DEF P
    <2>2. \A l \in 0..Len(P) : \A k \in 0..l : off[k] <= off[l]
      BY ONLY <1>1, <2>1, OffsetsMonotone
    <2> QED BY <1>1, <2>2
  <1>w. \A k \in 1..N : Within(f, off[k - 1], P[k])
    BY <1>3 DEF Holds
  <1>c. c \in 0..(Len(t) - 1) /\ g = f \o u
    OBVIOUS
  <1> HIDE DEF t, P, N
  <1>6. u \in Seq(Char) /\ Len(u) = c /\ \A i \in 1..c : u[i] = t[i]
    BY <1>2, <1>c
  <1> HIDE DEF u
  <1>7. /\ g \in Seq(Char) /\ Len(g) = L + c /\ \A i \in 1..L : g[i] = f[i]
        /\ \A i \in 1..c : g[L + i] = t[i]
    <2>1. /\ g \in Seq(Char) /\ Len(g) = Len(f) + Len(u) /\ (\A i \in 1..Len(f) : g[i] = f[i])
          /\ (\A i \in 1..Len(u) : g[Len(f) + i] = u[i])
      BY <1>6, <1>c, SMTT(30)
    <2> QED BY <1>6, <2>1
  <1> HIDE DEF L
  <1>8. Len(g) <= off[m + 1] /\ off[m + 1] <= off[N] /\ Len(g) <= off[N] /\ Len(g) \in Nat
    <2>1. N \in 0..N /\ m + 1 \in 0..N /\ m + 1 \in Nat /\ m \in Nat /\ N \in Nat
      BY <1>1, <1>2
    <2>2. off[m + 1] <= off[N] /\ off[m + 1] \in Nat /\ off[N] \in Nat /\ off[m] \in Nat
      BY <1>4, <1>5, <2>1
    <2>3. Len(g) = off[m] + c
      BY <1>3, <1>7
    <2>4. c \in Nat /\ c <= Len(t)
      BY <1>2, <1>c
    <2> DEFINE x == off[m]
               y == off[m + 1]
               z == off[N]
               T == Len(t)
    <2>5. x \in Nat /\ y \in Nat /\ z \in Nat /\ y <= z /\ y = x + T /\ T \in Nat /\ c <= T /\ Len(g) = x + c
      BY <1>2, <1>4, <2>2, <2>3, <2>4
    <2> HIDE DEF x, y, z, T
    <2>6. Len(g) <= y /\ Len(g) <= z /\ Len(g) \in Nat
      BY <2>4, <2>5
    <2> QED BY <2>2, <2>6 DEF y, z
  <1>9. ASSUME NEW k \in 1..N PROVE Within(g, off[k - 1], P[k])
    <2> DEFINE a == off[k - 1]
               s == P[k]
    <2>0. k - 1 \in Nat /\ a \in Nat /\ s \in Seq(Char) /\ Len(s) \in Nat /\ Within(f, a, s)
      <3>1. k - 1 \in Nat
        BY <1>1
      <3>2. s \in Seq(Char)
        BY <1>1, PartsType
      <3> HIDE DEF s
      <3>3. Len(s) \in Nat
        BY <3>2
      <3> QED BY <1>4, <1>w, <3>1, <3>2, <3>3 DEF s
    <2>1. CASE k = m + 1
      <3>1. a = L /\ s = t
        BY <1>3, <2>1 DEF t
      <3> HIDE DEF a, s
      <3>2. ASSUME NEW i \in 1..Len(s), a + i <= Len(g) PROVE g[a + i] = s[i]
        <4>1. i \in 1..c
          BY <1>2, <1>7, <1>c, <3>1, <3>2
        <4> QED BY <1>7, <3>1, <4>1
      <3> QED BY <3>2 DEF Within, a, s
    <2>2. CASE k < m + 1
      <3>1. k \in 0..m /\ m \in 0..N /\ k \in Nat /\ (k - 1) + 1 = k
        BY <1>1, <1>2, <2>2
      <3>2. off[k] <= L /\ off[k] = a + Len(s)
        <4>1. off[k] <= off[m]
          BY <1>5, <3>1
        <4>2. off[k] = off[k - 1] + Len(P[k])
          BY <1>1 DEF IsOffsets, P
        <4> QED BY <1>3, <4>1, <4>2
      <3> HIDE DEF a, s
      <3>3. ASSUME NEW i \in 1..Len(s), a + i <= Len(g) PROVE g[a + i] = s[i]
        <4>1. a + i \in 1..L /\ a + i <= Len(f)
          <5>1. L = Len(f) /\ L \in Nat
            BY <1>2 DEF L
          <5> QED BY <2>0, <3>2, <5>1
        <4>2. f[a + i] = s[i]
          BY <2>0, <4>1 DEF Within
        <4> QED BY <1>7, <4>1, <4>2
      <3> QED BY <3>3 DEF Within, a, s
    <2>3. CASE k > m + 1
      <3>1. m + 1 \in 0..(k - 1) /\ k - 1 \in 0..N
        BY <1>1, <2>3
      <3>2. off[m + 1] <= a /\ off[m + 1] \in Nat
        <4>1. m + 1 \in Nat
          OBVIOUS
        <4> QED BY <1>4, <1>5, <3>1, <4>1
      <3> DEFINE x == off[m + 1]
      <3>3. x <= a /\ x \in Nat /\ Len(g) <= x
        BY <1>8, <3>2
      <3> HIDE DEF a, s, x
      <3>4. \A i \in 1..Len(s) : ~(a + i <= Len(g))
        BY <1>8, <2>0, <3>3
      <3> QED BY <3>4 DEF Within, a, s
    <2> QED BY <1>1, <2>1, <2>2, <2>3
  <1> QED BY <1>7, <1>8, <1>9 DEF Holds, N, P

\* What is known while the save goes on.
LEMMA SavingNow ==
    ASSUME NEW off, LogTypes, FileInv(off), saver \notin Over
    PROVE  /\ reader = "idle" /\ Source \in Seq(Records) /\ log_data \in Seq(Records)
           /\ IsOffsets(off, Parts(Source)) /\ file \in Seq(Char)
  BY DEF FileInv, Holds, Over, LogTypes

\* The file is emptied: it holds the beginning of another log.
LEMMA OpenLogKeeps ==
    ASSUME NEW off, LogTypes, FileInv(off), ReaderInv(off), OpenLog
    PROVE  LogTypes' /\ \E q : FileInv(q)' /\ ReaderInv(q)'
  <1>1. /\ saver = "open" /\ opened' = TRUE /\ file' = <<>> /\ saver' = "write"
        /\ UNCHANGED <<next, lost, log_data, old, reader, stream, record, loaded>>
    BY DEF OpenLog
  <1>2. /\ reader = "idle" /\ Source \in Seq(Records) /\ log_data \in Seq(Records)
    BY <1>1, SavingNow DEF Over
  <1>3. ~lost /\ next = 1
    BY <1>1 DEF FileInv
  <1>4. Source' = log_data
    BY <1>1 DEF Source
  <1> DEFINE P == Parts(log_data)
             N == Len(log_data)
  <1>5. P \in Seq(Seq(Char)) /\ N \in Nat
    BY <1>2, LogParts
  <1>6. PICK q : IsOffsets(q, P)
    <2> HIDE DEF P
    <2> QED BY <1>5, OffsetsExist
  <1>7. file' \in Seq(Char) /\ Len(file') = 0
    BY <1>1
  <1>8. LaidOut(file', P, q, 0) /\ q[0] = 0
    <2>1. q[0] = 0 /\ 1..0 = {}
      BY <1>6 DEF IsOffsets
    <2> QED BY <1>7, <2>1 DEF LaidOut
  <1>9. Holds(file', log_data, q) /\ Len(file') <= q[N]
    <2>1. 0 \in 0..N
      BY <1>5
    <2> QED BY <1>2, <1>6, <1>7, <1>8, <2>1, LaidOutHolds
  <1>10. LogTypes'
    <2>1. pos = 1
      BY <1>2 DEF ReaderInv
    <2>2. /\ next' = next /\ log_data' = log_data /\ old' = old /\ reader' = reader /\ pos' = pos
          /\ eofbit' = eofbit /\ failbit' = failbit /\ meta' = meta /\ buffer' = buffer /\ nl' = nl
      BY <1>1 DEF stream, record
    <2>3. pos' \in 1..(Len(file') + 1)
      BY <1>7, <2>1, <2>2
    <2> QED BY <1>1, <1>7, <2>2, <2>3 DEF LogTypes, TypeOK
  <1>11. FileInv(q)'
    <2>1. next' - 1 = 0 /\ ~lost' /\ reader' = "idle"
      BY <1>1, <1>2, <1>3
    <2>2. Source' = log_data /\ Parts(Source)' = P /\ Len(Source)' = N
      BY <1>4 DEF Parts
    <2>3. Holds(file, Source, q)'
      BY <1>4, <1>9
    <2>4. LaidOut(file, Parts(Source), q, next - 1)'
      BY <1>8, <2>1, <2>2
    <2>5. (Len(file) <= q[Len(Source)])'
      BY <1>9, <2>2
    <2> QED BY <1>1, <2>1, <2>3, <2>4, <2>5 DEF FileInv
  <1>12. ReaderInv(q)'
    BY <1>1, <1>2, <1>4, IdleReader
  <1> QED BY <1>10, <1>11, <1>12

\* The file stays as it was.
LEMMA OpenLogFailsKeeps ==
    ASSUME NEW off, LogTypes, FileInv(off), ReaderInv(off), OpenLogFails
    PROVE  LogTypes' /\ FileInv(off)' /\ ReaderInv(off)'
  <1>1. /\ saver = "open" /\ lost' = TRUE /\ saver' = "returned"
        /\ UNCHANGED <<next, opened, log_data, old, file, reader, stream, record, loaded>>
    BY DEF OpenLogFails
  <1>2. reader = "idle" /\ Source \in Seq(Records)
    BY <1>1, SavingNow DEF Over
  <1>3. Source' = Source
    BY <1>1 DEF Source
  <1>4. LogTypes'
    BY <1>1 DEF LogTypes, TypeOK, stream, record
  <1>5. FileInv(off)'
    BY <1>1, <1>3 DEF FileInv
  <1>6. ReaderInv(off)'
    BY <1>1, <1>2, <1>3, IdleReader
  <1> QED BY <1>4, <1>5, <1>6

\* The next record to be written.
LEMMA WritingNow ==
    ASSUME NEW off, LogTypes, FileInv(off), saver = "write"
    PROVE  /\ opened /\ ~lost /\ Source = log_data /\ reader = "idle" /\ log_data \in Seq(Records)
           /\ file \in Seq(Char) /\ IsOffsets(off, Parts(log_data)) /\ Len(log_data) \in Nat
           /\ next \in Nat /\ next - 1 \in 0..Len(log_data) /\ next - 1 \in Nat
           /\ LaidOut(file, Parts(log_data), off, next - 1)
           /\ next <= Len(log_data) =>
                /\ (next - 1) + 1 \in 1..Len(log_data)
                /\ Parts(log_data)[(next - 1) + 1] = serialize(log_data[next])
  <1>1. opened /\ ~lost /\ LaidOut(file, Parts(Source), off, next - 1)
    BY DEF FileInv
  <1>2. Source = log_data
    BY <1>1 DEF Source
  <1>3. reader = "idle" /\ log_data \in Seq(Records) /\ file \in Seq(Char) /\ IsOffsets(off, Parts(Source))
    BY SavingNow DEF Over
  <1>4. Len(log_data) \in Nat /\ \A k \in 1..Len(log_data) : Parts(log_data)[k] = serialize(log_data[k])
    BY <1>3, LogParts
  <1>5. next \in 1..(Len(log_data) + 1)
    BY DEF LogTypes, TypeOK
  <1>6. next \in Nat /\ next - 1 \in 0..Len(log_data) /\ next - 1 \in Nat /\ (next - 1) + 1 = next
    BY <1>4, <1>5
  <1>7. ASSUME next <= Len(log_data)
        PROVE  (next - 1) + 1 \in 1..Len(log_data) /\ Parts(log_data)[(next - 1) + 1] = serialize(log_data[next])
    <2>1. next \in 1..Len(log_data)
      BY <1>4, <1>5, <1>7
    <2> QED BY <1>4, <1>6, <2>1
  <1> QED BY <1>1, <1>2, <1>3, <1>4, <1>6, <1>7

\* One more record.
LEMMA WriteRecordKeeps ==
    ASSUME NEW off, LogTypes, FileInv(off), ReaderInv(off), WriteRecord
    PROVE  LogTypes' /\ FileInv(off)' /\ ReaderInv(off)'
  <1> DEFINE S == log_data
             m == next - 1
  <1>1. /\ saver = "write" /\ next <= Len(S) /\ file' = file \o serialize(S[next]) /\ next' = next + 1
        /\ UNCHANGED <<saver, opened, lost, log_data, old, reader, stream, record, loaded>>
    BY DEF WriteRecord
  <1>2. /\ opened /\ ~lost /\ Source = S /\ reader = "idle" /\ S \in Seq(Records)
        /\ file \in Seq(Char) /\ IsOffsets(off, Parts(S)) /\ Len(S) \in Nat
        /\ next \in Nat /\ m \in 0..Len(S) /\ m \in Nat
        /\ LaidOut(file, Parts(S), off, m)
        /\ m + 1 \in 1..Len(S) /\ Parts(S)[m + 1] = serialize(S[next])
    BY <1>1, WritingNow
  <1>3. Source' = S /\ opened' = opened /\ lost' = lost
    BY <1>1, <1>2 DEF Source
  <1>4. Parts(S) \in Seq(Seq(Char)) /\ Len(Parts(S)) = Len(S)
    BY <1>2, LogParts
  <1>5. file' \in Seq(Char) /\ LaidOut(file', Parts(S), off, m + 1)
    <2> DEFINE P == Parts(S)
               A == Char
    <2>1. /\ P \in Seq(Seq(A)) /\ IsOffsets(off, P) /\ m \in Nat /\ m + 1 \in 1..Len(P)
          /\ file \in Seq(A) /\ LaidOut(file, P, off, m) /\ file' = file \o P[m + 1]
      BY <1>1, <1>2, <1>4
    <2> HIDE DEF P, A, m
    <2>2. file \o P[m + 1] \in Seq(A) /\ LaidOut(file \o P[m + 1], P, off, m + 1)
      BY ONLY <2>1, LayNext
    <2> QED BY <2>1, <2>2 DEF P, A
  <1>6. m + 1 \in 0..Len(S) /\ next' - 1 = m + 1 /\ next' \in 1..(Len(S) + 1)
    BY <1>1, <1>2
  <1>7. Holds(file', S, off) /\ Len(file') = off[m + 1] /\ off[m + 1] <= off[Len(S)]
    <2> DEFINE k == m + 1
    <2>1. k \in 0..Len(S) /\ LaidOut(file', Parts(S), off, k)
      BY <1>5, <1>6
    <2> HIDE DEF k
    <2>2. Holds(file', S, off) /\ Len(file') = off[k] /\ off[k] <= off[Len(S)]
      BY <1>2, <1>5, <2>1, LaidOutHolds
    <2> QED BY <2>2 DEF k
  <1>8. LogTypes'
    <2>1. pos = 1
      BY <1>2 DEF ReaderInv
    <2>2. /\ saver' = saver /\ log_data' = log_data /\ old' = old /\ reader' = reader /\ pos' = pos
          /\ eofbit' = eofbit /\ failbit' = failbit /\ meta' = meta /\ buffer' = buffer /\ nl' = nl
      BY <1>1 DEF stream, record
    <2>3. pos' \in 1..(Len(file') + 1)
      BY <1>5, <2>1, <2>2
    <2>4. next' \in 1..(Len(log_data') + 1)
      BY <1>6, <2>2
    <2> QED BY <1>1, <1>5, <2>2, <2>3, <2>4 DEF LogTypes, TypeOK
  <1>9. FileInv(off)'
    <2>1. ~lost' /\ opened' /\ saver' = "write" /\ reader' = "idle"
      BY <1>1, <1>2, <1>3
    <2>2. Holds(file, Source, off)' /\ (Len(file) <= off[Len(Source)])'
      BY <1>3, <1>7
    <2>3. LaidOut(file, Parts(Source), off, next - 1)'
      BY <1>3, <1>5, <1>6
    <2> QED BY <2>1, <2>2, <2>3 DEF FileInv
  <1>10. ReaderInv(off)'
    <2>1. Source \in Seq(Records) /\ (Source \in Seq(Records))'
      BY <1>2, <1>3
    <2> QED BY <1>1, <1>2, <2>1, IdleReader
  <1> QED BY <1>8, <1>9, <1>10

\* A part of the next record.
LEMMA WriteCutKeeps ==
    ASSUME NEW off, LogTypes, FileInv(off), ReaderInv(off), WriteCut
    PROVE  LogTypes' /\ FileInv(off)' /\ ReaderInv(off)'
  <1> DEFINE S == log_data
             m == next - 1
             s == serialize(S[next])
  <1>1. /\ saver = "write" /\ next <= Len(S) /\ lost' = TRUE /\ saver' \in Over
        /\ UNCHANGED <<next, opened, log_data, old, reader, stream, record, loaded>>
        /\ \E c \in 0..(Len(s) - 1) : file' = file \o SubSeq(s, 1, c)
    BY DEF WriteCut, Over
  <1>2. PICK c \in 0..(Len(s) - 1) : file' = file \o SubSeq(s, 1, c)
    BY <1>1
  <1>3. /\ opened /\ ~lost /\ Source = S /\ reader = "idle" /\ S \in Seq(Records)
        /\ file \in Seq(Char) /\ IsOffsets(off, Parts(S)) /\ Len(S) \in Nat
        /\ next \in Nat /\ m \in 0..Len(S) /\ m \in Nat
        /\ LaidOut(file, Parts(S), off, m)
        /\ m + 1 \in 1..Len(S) /\ Parts(S)[m + 1] = s
    BY <1>1, WritingNow
  <1>4. Source' = S /\ opened' = opened
    BY <1>1, <1>3 DEF Source
  <1>5. Holds(file', S, off) /\ Len(file') <= off[Len(S)]
    <2> HIDE DEF s, m
    <2>1. /\ c \in 0..(Len(Parts(S)[m + 1]) - 1)
          /\ file' = file \o SubSeq(Parts(S)[m + 1], 1, c)
      BY <1>2, <1>3
    <2> QED BY <1>3, <2>1, CutHolds
  <1>6. file' \in Seq(Char)
    BY <1>5 DEF Holds
  <1>7. LogTypes'
    <2>1. pos = 1
      BY <1>3 DEF ReaderInv
    <2>2. /\ next' = next /\ log_data' = log_data /\ old' = old /\ reader' = reader /\ pos' = pos
          /\ eofbit' = eofbit /\ failbit' = failbit /\ meta' = meta /\ buffer' = buffer /\ nl' = nl
      BY <1>1 DEF stream, record
    <2>3. pos' \in 1..(Len(file') + 1)
      BY <1>6, <2>1, <2>2
    <2> QED BY <1>1, <1>6, <2>2, <2>3 DEF LogTypes, TypeOK, Over
  <1>8. FileInv(off)'
    <2>1. lost' /\ opened' /\ saver' \in Over
      BY <1>1, <1>3, <1>4
    <2>2. Holds(file, Source, off)' /\ (Len(file) <= off[Len(Source)])'
      BY <1>4, <1>5
    <2> QED BY <2>1, <2>2 DEF FileInv, Over
  <1>9. ReaderInv(off)'
    <2>1. Source \in Seq(Records) /\ (Source \in Seq(Records))'
      BY <1>3, <1>4
    <2> QED BY <1>1, <1>3, <2>1, IdleReader
  <1> QED BY <1>7, <1>8, <1>9

\* All records.
LEMMA SavedKeeps ==
    ASSUME NEW off, LogTypes, FileInv(off), ReaderInv(off), Saved
    PROVE  LogTypes' /\ FileInv(off)' /\ ReaderInv(off)'
  <1> DEFINE S == log_data
  <1>1. /\ saver = "write" /\ next > Len(S) /\ saver' = "returned"
        /\ UNCHANGED <<next, opened, lost, log_data, old, file, reader, stream, record, loaded>>
    BY DEF Saved
  <1>2. /\ opened /\ ~lost /\ Source = S /\ reader = "idle" /\ S \in Seq(Records)
        /\ IsOffsets(off, Parts(S)) /\ Len(S) \in Nat
        /\ next \in Nat /\ next - 1 \in 0..Len(S)
        /\ LaidOut(file, Parts(S), off, next - 1)
    BY <1>1, WritingNow
  <1>3. Source' = Source
    BY <1>1 DEF Source
  <1>4. Len(file) = off[Len(Source)]
    <2>1. next - 1 = Len(S)
      BY <1>1, <1>2
    <2> QED BY <1>2, <2>1 DEF LaidOut
  <1>5. LogTypes'
    BY <1>1 DEF LogTypes, TypeOK, stream, record
  <1>6. FileInv(off)'
    BY <1>1, <1>2, <1>3, <1>4 DEF FileInv
  <1>7. ReaderInv(off)'
    BY <1>1, <1>2, <1>3, IdleReader
  <1> QED BY <1>5, <1>6, <1>7
-----------------------------------------------------------------------------
(* The invariant and what follows from it *)

\* The file that an earlier run left is of a whole log.
LEMMA LogInit == Init => LogInv
  <1> SUFFICES ASSUME Init PROVE LogInv
    OBVIOUS
  <1>1. /\ log_data \in Logs /\ old \in OldLogs /\ saver = "open" /\ next = 1 /\ file = Contents(old)
        /\ reader = "idle" /\ pos = 1 /\ eofbit = FALSE /\ failbit = FALSE
        /\ meta = <<>> /\ buffer = <<>> /\ nl = SP /\ loaded = <<>> /\ opened = FALSE /\ lost = FALSE
    BY DEF Init
  <1>2. log_data \in Seq(Records) /\ old \in Seq(Records)
    BY <1>1, Constants
  <1>3. Source = old
    BY <1>1 DEF Source
  <1> DEFINE P == Parts(old)
             N == Len(old)
  <1>4. P \in Seq(Seq(Char)) /\ N \in Nat /\ Len(P) = N
    BY <1>2, LogParts
  <1>5. file = FlattenSeq(P)
    BY <1>1 DEF Contents, Parts
  <1>6. PICK off : IsOffsets(off, P)
    <2> HIDE DEF P
    <2> QED BY <1>4, OffsetsExist
  <1>7. file \in Seq(Char) /\ LaidOut(file, P, off, N)
    <2> DEFINE A == Char
    <2>1. P \in Seq(Seq(A)) /\ IsOffsets(off, P)
      BY <1>4, <1>6
    <2> HIDE DEF P, A
    <2>2. FlattenSeq(P) \in Seq(A) /\ LaidOut(FlattenSeq(P), P, off, Len(P))
      BY ONLY <2>1, FlattenLaidOut
    <2> HIDE DEF N
    <2> QED BY <1>4, <1>5, <2>2 DEF A
  <1>8. N \in 0..N
    BY <1>4
  <1>9. Holds(file, Source, off) /\ Len(file) = off[Len(Source)]
    BY <1>2, <1>3, <1>6, <1>7, <1>8, LaidOutHolds
  <1>10. off[N] \in Nat
    BY <1>2, <1>6, <1>8, Places
  <1>11. FileInv(off)
    <2>1. Len(file) <= off[Len(Source)]
      BY <1>3, <1>9, <1>10
    <2> QED BY <1>1, <1>9, <2>1 DEF FileInv
  <1>12. ReaderInv(off)
    <2>1. Len(loaded) = 0 /\ SubSeq(Source, 1, 0) = <<>> /\ 0 \in 0..Len(Source)
      BY <1>1, <1>2, <1>3, <1>4
    <2> QED BY <1>1, <2>1 DEF ReaderInv, Inside, good
  <1>13. LogTypes
    <2>1. next \in 1..(Len(log_data) + 1)
      <3>1. Len(log_data) \in Nat
        BY <1>2
      <3> QED BY <1>1, <3>1
    <2>2. pos \in 1..(Len(file) + 1)
      <3>1. Len(file) \in Nat
        BY <1>7
      <3> QED BY <1>1, <3>1
    <2>3. meta \in Seq(Nat) /\ Len(meta) <= 4 /\ buffer \in Seq(Char)
      BY <1>1
    <2> QED BY <1>1, <1>2, <1>7, <2>1, <2>2, <2>3, Constants DEF LogTypes, TypeOK
  <1> QED BY <1>11, <1>12, <1>13 DEF LogInv

\* Every step keeps it; OpenLog, which makes the file one of another log, with
\* the places of that log's records.
LEMMA LogNext == LogInv /\ [Next]_vars => LogInv'
  <1> SUFFICES ASSUME LogInv, [Next]_vars PROVE LogInv'
    OBVIOUS
  <1>1. PICK off : FileInv(off) /\ ReaderInv(off)
    BY DEF LogInv
  <1>2. LogTypes
    BY DEF LogInv
  <1>3. ASSUME LogTypes' /\ FileInv(off)' /\ ReaderInv(off)' PROVE LogInv'
    BY <1>3 DEF LogInv
  <1>4. CASE OpenLog
    <2>1. LogTypes' /\ \E q : FileInv(q)' /\ ReaderInv(q)'
      BY <1>1, <1>2, <1>4, OpenLogKeeps
    <2> QED BY <2>1 DEF LogInv
  <1>5. CASE OpenLogFails
    BY <1>1, <1>2, <1>3, <1>5, OpenLogFailsKeeps
  <1>6. CASE WriteRecord
    BY <1>1, <1>2, <1>3, <1>6, WriteRecordKeeps
  <1>7. CASE WriteCut
    BY <1>1, <1>2, <1>3, <1>7, WriteCutKeeps
  <1>8. CASE Saved
    BY <1>1, <1>2, <1>3, <1>8, SavedKeeps
  <1>9. CASE OpenForLoad
    BY <1>1, <1>2, <1>3, <1>9, OpenForLoadKeeps
  <1>10. CASE PeekEOF
    BY <1>1, <1>2, <1>3, <1>10, PeekEOFKeeps
  <1>11. CASE Deserialize
    BY <1>1, <1>2, <1>3, <1>11, DeserializeKeeps
  <1>12. CASE ReadNumber
    BY <1>1, <1>2, <1>3, <1>12, ReadNumberKeeps
  <1>13. CASE EatSpace
    BY <1>1, <1>2, <1>3, <1>13, EatSpaceKeeps
  <1>14. CASE ReadData
    BY <1>1, <1>2, <1>3, <1>14, ReadDataKeeps
  <1>15. CASE EatNewline
    BY <1>1, <1>2, <1>3, <1>15, EatNewlineKeeps
  <1>16. CASE UNCHANGED vars
    <2>1. UNCHANGED <<saver, next, opened, lost, log_data, old, file, reader, pos, eofbit, failbit,
                      meta, buffer, nl, loaded>>
      BY <1>16 DEF vars, saveVars, stream, record
    <2>2. LogTypes'
      BY <1>2, <2>1 DEF LogTypes, TypeOK
    <2>3. Source' = Source
      BY <2>1 DEF Source
    <2>4. FileInv(off)'
      BY <1>1, <2>1, <2>3 DEF FileInv
    <2>5. ReaderInv(off)'
      BY <1>1, <2>1, <2>3 DEF ReaderInv, Inside, Adrift, InRecord, good
    <2> QED BY <1>3, <2>2, <2>4, <2>5
  <1> QED
    BY <1>4, <1>5, <1>6, <1>7, <1>8, <1>9, <1>10, <1>11, <1>12, <1>13, <1>14, <1>15, <1>16
       DEF Next, log_profile_save, log_profile_load, deserialize, Ended

\* A load that ends well ends behind a record of the log that the file is of.
LEMMA LoadSucceeds ==
    ASSUME LogInv, reader = "success"
    PROVE  /\ Source \in Seq(Records) /\ loaded = SubSeq(Source, 1, Len(loaded))
           /\ Len(loaded) \in 0..Len(Source)
           /\ (~opened \/ ~lost) => loaded = Source
           /\ ~lost => opened
  <1>1. PICK off : FileInv(off) /\ ReaderInv(off)
    BY DEF LogInv
  <1> DEFINE n == Len(loaded)
             N == Len(Source)
             L == Len(file)
  <1>2. Source \in Seq(Records) /\ file \in Seq(Char) /\ IsOffsets(off, Parts(Source))
    BY <1>1 DEF FileInv, Holds
  <1>3. /\ loaded = SubSeq(Source, 1, n) /\ n \in 0..N /\ pos = off[n] + 1 /\ pos > L
    BY <1>1 DEF ReaderInv
  <1>4. saver \in Over
    BY <1>1, ReaderLater
  <1>5. (~opened => L = off[N]) /\ (~lost => opened /\ L = off[N])
    BY <1>1, <1>4 DEF FileInv, Over
  <1>6. ASSUME L = off[N] PROVE loaded = Source
    <2>1. L \in Nat /\ N \in Nat /\ n \in Nat
      BY <1>2, <1>3
    <2>2. off[n] \in Nat
      BY <1>2, <1>3, Places
    <2>3. n = N
      <3> SUFFICES ASSUME n < N PROVE FALSE
        BY <1>3, <2>1
      <3>1. off[n] < off[n + 1] /\ off[n + 1] <= off[N] /\ off[n + 1] \in Nat
        BY <1>2, <2>1, Places
      <3> HIDE DEF n, N, L
      <3> QED BY <1>3, <1>6, <2>1, <2>2, <3>1
    <2>4. loaded = SubSeq(Source, 1, N)
      BY <1>3, <2>3
    <2>5. SubSeq(Source, 1, N) = Source
      BY <1>2
    <2> QED BY <2>4, <2>5
  <1> QED BY <1>2, <1>3, <1>5, <1>6

(***************************************************************************)
(* In every behaviour of log_profile_save and log_profile_load the file    *)
(* holds the beginning of a log, and the reader stands in it as described. *)
(***************************************************************************)
THEOREM LogInvariant == Spec => []LogInv
  BY LogInit, LogNext, PTL DEF Spec

(***************************************************************************)
(* The variables keep their types, and deserialize never reads past the    *)
(* end of the file, wherever it was cut.                                   *)
(***************************************************************************)
THEOREM LogFileTypeCorrect == Spec => []TypeOK
  <1>1. LogInv => TypeOK
    BY DEF LogInv, LogTypes
  <1> QED BY <1>1, LogInvariant, PTL

(***************************************************************************)
(* log_profile_load gives back every log that log_profile_save could write *)
(* whole, of any length, with data bytes of any kind, over any old file,   *)
(* and trips over none of the asserts of deserialize.                      *)
(***************************************************************************)
THEOREM LogRoundTrip == Spec => []RoundTrip
  <1>1. LogInv => RoundTrip
    <2> SUFFICES ASSUME LogInv, ~lost PROVE reader # "aborted" /\ (reader = "success" => loaded = log_data)
      BY DEF RoundTrip
    <2>1. reader # "aborted"
      BY DEF LogInv, ReaderInv
    <2>2. ASSUME reader = "success" PROVE loaded = log_data
      <3>1. loaded = Source /\ opened
        BY <2>2, LoadSucceeds
      <3> QED BY <3>1 DEF Source
    <2> QED BY <2>1, <2>2
  <1> QED BY <1>1, LogInvariant, PTL

(***************************************************************************)
(* Wherever the save was cut, a log_profile_load that succeeds returns     *)
(* records that were recorded, the first ones, each unchanged; and the old *)
(* log when the save could not open the file.                              *)
(***************************************************************************)
THEOREM LoadIsPrefix == Spec => []LoadedIsPrefix
  <1>1. LogInv => LoadedIsPrefix
    <2> SUFFICES ASSUME LogInv, reader = "success"
                 PROVE  IF opened THEN IsPrefix(loaded, log_data) ELSE loaded = old
      BY DEF LoadedIsPrefix
    <2>1. /\ Source \in Seq(Records) /\ loaded = SubSeq(Source, 1, Len(loaded))
          /\ Len(loaded) \in 0..Len(Source) /\ (~opened => loaded = Source)
      BY LoadSucceeds
    <2>2. CASE opened
      <3>1. Source = log_data
        BY <2>2 DEF Source
      <3> DEFINE n == Len(loaded)
      <3>2. n \in Nat /\ n <= Len(log_data)
        BY <2>1, <3>1
      <3>3. loaded \in Seq(Records)
        BY <2>1, <3>1, <3>2
      <3>4. SubSeq(loaded, 1, n) = loaded
        BY <3>3
      <3>5. IsPrefix(loaded, log_data)
        BY <2>1, <3>1, <3>2, <3>4 DEF IsPrefix
      <3> QED BY <2>2, <3>5
    <2>3. CASE ~opened
      BY <2>1, <2>3 DEF Source
    <2> QED BY <2>2, <2>3
  <1> QED BY <1>1, LogInvariant, PTL
=============================================================================
