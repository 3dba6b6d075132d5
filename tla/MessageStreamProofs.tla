------------------------- MODULE MessageStreamProofs -------------------------
(***************************************************************************)
(* The harness gets the message the client sent and the client the reply   *)
(* to it, for every size of a word, of a byte and of the kernel's buffer,  *)
(* and for all messages and strings whose size fits a word.                *)
(*                                                                         *)
(* The invariant says, for either direction, that what the reader has of   *)
(* the field it is at, what is in the pipe and what the writer has still   *)
(* to send make up the message from that field on, and that the fields     *)
(* before it were understood.  However send and recv cut the bytes, each   *)
(* step moves them along in that order; a complete field then holds the    *)
(* bytes of the number or string that was written, and module              *)
(* DataInduction has that the number of these bytes is that number.        *)
(***************************************************************************)
EXTENDS MessageStream, DataInduction

-----------------------------------------------------------------------------
(* A message on the wire: its type, its size, its data *)

\* The messages there are, of the client and of the harness.
Wires == [type : Uint32, bytes : {b \in Seq(Byte) : Len(b) \in Uint32}]

\* The bytes of all fields, and where the j-th ends.
Total(w) == Word + Word + Len(w.bytes)
Ends(w, j) == IF j = 0 THEN 0 ELSE IF j = 1 THEN Word ELSE IF j = 2 THEN Word + Word ELSE Total(w)
Fields(w) == IF w.bytes = <<>> THEN 2 ELSE 3

\* The p-th byte.
Nth(w, p) == IF p <= Word THEN HtonlBytes(w.type)[p]
             ELSE IF p <= Word + Word THEN HtonlBytes(Len(w.bytes))[p - Word]
             ELSE w.bytes[p - (Word + Word)]

\* s is the part of w from place a on.
Part(s, w, a) == a + Len(s) <= Total(w) /\ \A i \in 1..Len(s) : s[i] = Nth(w, a + i)

\* Where the k-th of the fields in hand begins, j fields and c bytes having been sent.
From(w, j, c, k) == IF k = 1 THEN c ELSE Ends(w, j + k - 1)

\* o holds the fields still to be sent, c bytes having been sent.
UnsentFrom(o, w, c, j) ==
    /\ Len(o) = Fields(w) - j
    /\ IF j = Fields(w) THEN c = Total(w) ELSE Ends(w, j) <= c
    /\ \A k \in 1..Len(o) :
         /\ From(w, j, c, k) < Ends(w, j + k)
         /\ Len(o[k]) = Ends(w, j + k) - From(w, j, c, k)
         /\ Part(o[k], w, From(w, j, c, k))
Unsent(o, w, c) == \E j \in 0..Fields(w) : UnsentFrom(o, w, c, j)

\* Bytes of the fields that a reader in this state has behind it.
Behind(w, state) == CASE state \in {"write", "type"} -> 0
                      [] state = "size" -> Word
                      [] state \in {"gobble", "string"} -> Word + Word
                      [] state = "read" -> Total(w)

\* What the reader has, what is in the pipe and what the writer has still to
\* send make up the message, from place a on.
Whole(w, a, f, p, o) ==
    /\ Part(f, w, a) /\ Part(p, w, a + Len(f))
    /\ Unsent(o, w, a + Len(f) + Len(p))

\* ... for a reader in this state, with msg read so far.
Stream(w, state, f, p, o, msg) ==
    /\ Whole(w, Behind(w, state), f, p, o)
    /\ state \in {"write", "read"} => f = <<>>
    /\ state \in {"size", "gobble", "string", "read"} => msg.type = w.type
    /\ state \in {"gobble", "string"} => msg.size = Len(w.bytes)
    /\ state = "gobble" => w.type \in Control
    /\ state = "string" => w.type = kCheckpoint /\ Len(w.bytes) % Word = 0

\* What string a reader may have got for s.
Got(s, value) == IsPrefix(s, value) /\ (Len(s) % Word # 0 => value = s)

\* The message of the client, as the history variable has it.
Sends(w, message) ==
    /\ w.type = message.type
    /\ message.string_value # <<>> =>
         /\ message.type = kCheckpoint /\ message.string_value \in Strings
         /\ w.bytes = SwapWords(Padded(message.string_value))

\* The message the harness answers.
Reply(message) ==
    [type |-> IF message.type = Expected THEN ExpectedDone ELSE kInvalidCommand,
     bytes |-> <<>>]

\* Where an end is reading, and where the harness has answered.
ReadStates == {"type", "size", "gobble", "string", "read"}
Answered == {"write", "closed", "killed"}

\* The harness in this state, reading message w of the client.
Command(w, state, f, p, o, msg, message) ==
    /\ Sends(w, message)
    /\ state \in ReadStates => Stream(w, state, f, p, o, msg)
    /\ state \in Answered => p = <<>> /\ o = <<>>
    /\ state = "read" /\ message.string_value # <<>> =>
         Got(message.string_value, msg.string_value)

\* The client in state cs waits for the reply of the harness in state ss.
Answer(cs, ss, f, p, o, msg, message) ==
    /\ cs \in {"write", "type", "size", "read", "bad", "returned", "quit", "killed"}
    /\ ss \notin {"returned", "quit"}
    /\ cs = "bad" => ss = "dead"
    /\ ss \in Answered =>
         (cs \in {"write", "type", "size", "read"} => Stream(Reply(message), cs, f, p, o, msg))
    /\ ss \notin Answered =>
         o = <<>> /\ p = <<>> /\ f = <<>> /\ cs \notin {"size", "read"}

\* There is such a message.
CommandInv ==
    \E w \in Wires :
        Command(w, pc["server"], field["server"], pipe["server"], out["client"], m["server"], sent)

\* The reply; a connection is reset only by a harness that gave up.
AnswerInv ==
    /\ Answer(pc["client"], pc["server"], field["client"], pipe["client"], out["server"],
              m["client"], sent)
    /\ "client" \in reset => pc["server"] = "dead"

-----------------------------------------------------------------------------
(* Words and strings *)

\* What the constants are.
LEMMA Constants ==
    /\ Word \in Nat \ {0} /\ Radix \in Nat \ {0} /\ Capacity \in Nat \ {0}
    /\ Power(Radix, Word) \in Nat \ {0} /\ Uint32 \subseteq Nat /\ 0..12 \subseteq Uint32
    /\ Byte \subseteq Nat /\ NUL \in Byte
    /\ Control \subseteq Uint32 /\ kCheckpoint \in Uint32 /\ kCheckpoint \notin Control
    /\ Expected \in Control /\ ExpectedDone \in Control /\ kInvalidCommand \in Control
    /\ ExpectedDone # Expected /\ ExpectedDone # kInvalidCommand
  <1>1. /\ Word \in Nat \ {0} /\ Radix \in Nat \ {0} /\ Capacity \in Nat \ {0} /\ 12 \in Uint32
        /\ Expected \in Control /\ ExpectedDone \in Control \ {Expected, kInvalidCommand}
    BY MessageStreamAssumption
  <1>2. Power(Radix, Word) \in Nat \ {0}
    BY <1>1, PowerNext
  <1>3. Uint32 \subseteq Nat /\ 0..12 \subseteq Uint32
    BY <1>1, <1>2 DEF Uint32
  <1>4. Byte \subseteq Nat /\ NUL \in Byte
    BY <1>1 DEF Byte, NUL
  <1>5. /\ Control \subseteq 0..12 /\ kCheckpoint \in 0..12 /\ kCheckpoint \notin Control
        /\ kInvalidCommand \in Control
    BY DEF Control, kCheckpoint, kInvalidCommand
  <1> QED BY <1>1, <1>2, <1>3, <1>4, <1>5

\* The bytes of an integer.
LEMMA WordBytes ==
    ASSUME NEW n \in Uint32
    PROVE  /\ HtonlBytes(n) \in Seq(Byte) /\ Len(HtonlBytes(n)) = Word
           /\ ntohl(HtonlBytes(n)) = n
  <1> DEFINE b == HtonlBytes(n)
  <1>1. Word \in Nat \ {0} /\ Radix \in Nat \ {0} /\ n \in Nat /\ n < Power(Radix, Word)
    <2>1. n \in Nat /\ Power(Radix, Word) \in Nat
      BY Constants
    <2>2. n < Power(Radix, Word)
      BY <2>1 DEF Uint32
    <2> QED BY <2>1, <2>2, Constants
  <1>2. ASSUME NEW k \in 1..Word PROVE (n \div Power(Radix, Word - k)) % Radix \in Byte
    <2>1. Word - k \in Nat
      BY <1>1
    <2>2. Power(Radix, Word - k) \in Nat \ {0}
      BY <1>1, <2>1, PowerNext
    <2>3. n \div Power(Radix, Word - k) \in Nat
      BY <1>1, <2>2, DivMod
    <2> QED BY <1>1, <2>3, DivMod DEF Byte
  <1>3. b \in [1..Word -> Byte] /\ \A k \in 1..Word : b[k] = (n \div Power(Radix, Word - k)) % Radix
    BY <1>2 DEF HtonlBytes
  <1> HIDE DEF b
  <1>4. b \in Seq(Byte) /\ Len(b) = Word
    BY <1>1, <1>3
  <1>5. Spelled(b, Radix, n)
    BY <1>3, <1>4 DEF Spelled
  <1>6. Value(Radix, b) = n
    BY <1>1, <1>4, <1>5, ValueOfDigits
  <1> QED BY <1>4, <1>6 DEF b, ntohl

\* Where SwapWords finds the byte for place k.
Mirror(k) == LET first == ((k - 1) \div Word) * Word + 1
             IN first + Word - 1 - (k - first)

\* It is a place of the same word, and the mirror of the mirror is k.
LEMMA MirrorMirror ==
    ASSUME NEW c \in Nat, NEW k \in 1..(c * Word)
    PROVE  Mirror(k) \in 1..(c * Word) /\ Mirror(Mirror(k)) = k
  <1> DEFINE q == (k - 1) \div Word
             r == (k - 1) % Word
  <1>0. Word \in Nat \ {0} /\ c * Word \in Nat
    BY Constants, Products
  <1>1. k - 1 \in Nat /\ k \in Nat /\ k <= c * Word
    BY <1>0
  <1>2. q \in Nat /\ r \in 0..(Word - 1) /\ k - 1 = Word * q + r
    BY <1>0, <1>1, DivMod
  <1> DEFINE x == Mirror(k)
  <1>3. x = (q * Word + 1) + Word - 1 - (k - (q * Word + 1))
    BY DEF Mirror
  <1> HIDE DEF q, r, x
  <1> DEFINE p == q * Word
  <1>4. p \in Nat /\ Word * q = p
    BY <1>0, <1>2, Products
  <1>5. x = p + (Word - r) /\ x - 1 = p + (Word - 1 - r)
    <2> HIDE DEF p
    <2> QED BY <1>0, <1>2, <1>3, <1>4 DEF p
  <1>6. (q + 1) * Word <= c * Word
    <2>1. q < c
      <3> SUFFICES ASSUME c <= q PROVE FALSE
        BY <1>2
      <3>1. c * Word <= q * Word
        BY <1>0, <1>2
      <3> QED BY <1>0, <1>1, <1>2, <1>4, <3>1
    <2> QED BY <1>0, <1>2, <2>1
  <1>7. (q + 1) * Word = p + Word
    BY <1>0, <1>2
  <1> HIDE DEF p
  <1>8. x \in 1..(c * Word) /\ x - 1 \in Nat
    BY <1>0, <1>2, <1>4, <1>5, <1>6, <1>7
  <1>9. (x - 1) \div Word = q
    <2>1. x - 1 = Word * q + (Word - 1 - r) /\ Word - 1 - r \in 0..(Word - 1)
      BY <1>0, <1>2, <1>4, <1>5
    <2> QED BY <1>0, <1>2, <1>8, <2>1, DivUnique
  <1>10. Mirror(x) = (p + 1) + Word - 1 - (x - (p + 1))
    BY <1>9 DEF Mirror, p
  <1>11. Mirror(x) = k
    BY <1>0, <1>1, <1>2, <1>4, <1>5, <1>10
  <1> QED BY <1>8, <1>11 DEF x

\* Swapping the bytes of every word twice changes nothing.
LEMMA SwapSwap ==
    ASSUME NEW c \in Nat, NEW b \in Seq(Byte), Len(b) = c * Word
    PROVE  /\ SwapWords(b) \in Seq(Byte) /\ Len(SwapWords(b)) = Len(b)
           /\ SwapWords(SwapWords(b)) = b
  <1> DEFINE n == Len(b)
             t == SwapWords(b)
             u == SwapWords(t)
  <1>1. n \in Nat /\ DOMAIN b = 1..n /\ b \in [1..n -> Byte]
    OBVIOUS
  <1>2. ASSUME NEW k \in 1..n PROVE Mirror(k) \in 1..n /\ Mirror(Mirror(k)) = k
    BY MirrorMirror
  <1>3. DOMAIN t = 1..n /\ \A k \in 1..n : t[k] = b[Mirror(k)]
    BY <1>1 DEF SwapWords, Mirror
  <1>4. t = [k \in 1..n |-> t[k]]
    BY <1>1 DEF SwapWords
  <1> HIDE DEF t, n
  <1>5. t \in [1..n -> Byte]
    BY <1>1, <1>2, <1>3, <1>4
  <1>6. t \in Seq(Byte) /\ Len(t) = n
    BY <1>1, <1>5
  <1>7. u = [k \in 1..n |-> u[k]] /\ \A k \in 1..n : u[k] = t[Mirror(k)]
    BY <1>3 DEF SwapWords, Mirror
  <1> HIDE DEF u
  <1>8. \A k \in 1..n : u[k] = b[k]
    BY <1>2, <1>3, <1>7
  <1>9. b = [k \in 1..n |-> b[k]]
    BY <1>1
  <1>10. u = b
    BY <1>7, <1>8, <1>9
  <1> QED BY <1>6, <1>10 DEF t, u, n

\* Two sequences with the same elements.
LEMMA SameSeq ==
    ASSUME NEW A, NEW s \in Seq(A), NEW t \in Seq(A), Len(s) = Len(t),
           \A k \in 1..Len(s) : s[k] = t[k]
    PROVE  s = t
  OBVIOUS

\* A set of numbers has a least one.
LEMMA LeastNumber ==
    ASSUME NEW S, S \subseteq Nat, S # {}
    PROVE  \E x \in S : \A y \in S : x <= y
  <1> SUFFICES ASSUME \A x \in S : \E y \in S : y < x PROVE FALSE
    OBVIOUS
  <1> DEFINE T == {n \in Nat : \A x \in S : n < x}
  <1>1. 0 \in T
    OBVIOUS
  <1>2. ASSUME NEW n \in Nat, n \in T PROVE n + 1 \in T
    <2>1. ASSUME NEW x \in S PROVE n + 1 < x
      <3>1. PICK y \in S : y < x
        OBVIOUS
      <3>2. n < y /\ y \in Nat /\ x \in Nat
        BY <1>2
      <3> HIDE DEF T
      <3> QED BY <3>1, <3>2
    <2> QED BY <2>1
  <1>3. \A n \in Nat : n \in T
    <2> HIDE DEF T
    <2> QED BY <1>1, <1>2, NatInduct
  <1>4. PICK x \in S : TRUE
    OBVIOUS
  <1>5. x \in Nat /\ x \in T
    BY <1>3
  <1>6. x < x
    BY <1>5
  <1> QED BY <1>5, <1>6

\* The length of a string in whole words.
LEMMA RoundedUp ==
    ASSUME NEW len \in Nat
    PROVE  /\ \E c \in Nat : RoundUp(len) = c * Word
           /\ RoundUp(len) \in Nat /\ len <= RoundUp(len)
           /\ len % Word = 0 => RoundUp(len) = len
           /\ len % Word # 0 => len < RoundUp(len)
  <1> DEFINE q == len \div Word
             r == len % Word
             c == (len + Word - 1) \div Word
             p == Word * q
  <1>0. Word \in Nat \ {0}
    BY Constants
  <1>1. q \in Nat /\ r \in 0..(Word - 1) /\ len = p + r
    BY <1>0, DivMod
  <1>2. p \in Nat
    BY <1>0, <1>1, Products
  <1>3. len + Word - 1 \in Nat
    BY <1>0
  <1>4. CASE r = 0
    <2>1. len + Word - 1 = Word * q + (Word - 1) /\ Word - 1 \in 0..(Word - 1)
      <3>1. Word * q = p
        OBVIOUS
      <3> HIDE DEF p, q, r
      <3>2. len + Word - 1 = p + (Word - 1) /\ Word - 1 \in 0..(Word - 1)
        BY <1>0, <1>1, <1>2, <1>4
      <3> QED BY <3>1, <3>2
    <2>2. c = q
      BY <1>0, <1>1, <1>3, <2>1, DivUnique
    <2>3. c * Word = p
      BY <1>0, <1>1, <2>2, Products
    <2> HIDE DEF c, p, q, r
    <2>4. RoundUp(len) = len
      BY <1>1, <1>2, <1>4, <2>3 DEF RoundUp, c
    <2>5. q * Word = p
      BY <2>2, <2>3
    <2> QED BY <1>1, <1>4, <2>2, <2>3, <2>4 DEF RoundUp, c, r
  <1>5. CASE r # 0
    <2>1. len + Word - 1 = Word * (q + 1) + (r - 1) /\ r - 1 \in 0..(Word - 1)
      <3>1. Word * (q + 1) = p + Word
        BY <1>0, <1>1
      <3> HIDE DEF p, q, r
      <3> QED BY <1>0, <1>1, <1>2, <1>5, <3>1
    <2>2. c = q + 1
      <3>1. q + 1 \in Nat
        BY <1>1
      <3> QED BY <1>0, <1>3, <2>1, <3>1, DivUnique
    <2>3. c * Word = p + Word
      BY <1>0, <1>1, <2>2
    <2> HIDE DEF c, p, q, r
    <2>4. RoundUp(len) = p + Word
      BY <2>3 DEF RoundUp, c
    <2>5. RoundUp(len) = c * Word /\ c \in Nat
      BY <1>1, <2>2 DEF RoundUp, c
    <2>6. RoundUp(len) \in Nat /\ len < RoundUp(len)
      BY <1>0, <1>1, <1>2, <2>4
    <2> QED BY <1>1, <1>5, <2>5, <2>6 DEF r
  <1> QED BY <1>4, <1>5

\* Division without remainder.
LEMMA WholeWords ==
    ASSUME NEW n \in Nat, n % Word = 0
    PROVE  \E c \in Nat : n = c * Word
  <1>0. Word \in Nat \ {0}
    BY Constants
  <1>1. n \div Word \in Nat /\ n = Word * (n \div Word) + (n % Word)
    BY <1>0, DivMod
  <1>2. n = (n \div Word) * Word
    BY <1>0, <1>1, Products
  <1> QED BY <1>1, <1>2

\* A string with its padding.
LEMMA PaddedString ==
    ASSUME NEW s \in Strings
    PROVE  /\ s \in Seq(Byte) /\ Len(s) \in Nat \ {0} /\ \A k \in 1..Len(s) : s[k] # NUL
           /\ Padded(s) \in Seq(Byte) /\ Len(Padded(s)) = RoundUp(Len(s)) /\ RoundUp(Len(s)) \in Uint32
           /\ \A k \in 1..RoundUp(Len(s)) : Padded(s)[k] = IF k <= Len(s) THEN s[k] ELSE NUL
  <1> DEFINE n == Len(s)
             t == Padded(s)
  <1>1. s \in Seq(Byte \ {NUL}) /\ s # <<>> /\ RoundUp(n) \in Uint32
    BY MessageStreamAssumption
  <1>2. n \in Nat \ {0} /\ \A k \in 1..n : s[k] \in Byte \ {NUL}
    BY <1>1
  <1>3. s \in Seq(Byte)
    BY <1>1, <1>2
  <1>4. RoundUp(n) \in Nat /\ n <= RoundUp(n)
    BY <1>2, RoundedUp
  <1>5. NUL \in Byte
    BY Constants
  <1>6. /\ t \in [1..RoundUp(n) -> Byte]
        /\ \A k \in 1..RoundUp(n) : t[k] = IF k <= n THEN s[k] ELSE NUL
    <2> HIDE DEF n
    <2>1. \A k \in 1..RoundUp(n) : (IF k <= n THEN s[k] ELSE NUL) \in Byte
      BY <1>2, <1>4, <1>5
    <2> QED BY <2>1 DEF Padded, n
  <1> HIDE DEF t
  <1>7. t \in Seq(Byte) /\ Len(t) = RoundUp(n)
    BY <1>4, <1>6
  <1> QED BY <1>1, <1>2, <1>3, <1>6, <1>7 DEF t

\* What is read from a buffer is a string.
LEMMA CStringType ==
    ASSUME NEW b \in Seq(Byte), NEW v \in CStrings(b)
    PROVE  v \in Seq(Byte)
  <1> DEFINE nuls == {k \in DOMAIN b : b[k] = NUL}
  <1>0. Strays \subseteq Seq(Byte \ {NUL})
    BY MessageStreamAssumption
  <1>1. CASE nuls # {}
    <2>1. v = SubSeq(b, 1, Min(nuls) - 1)
      BY <1>1 DEF CStrings
    <2>2. Min(nuls) \in nuls
      <3>1. nuls \subseteq Nat /\ \E x \in nuls : \A y \in nuls : x <= y
        <4>1. nuls \subseteq Nat
          OBVIOUS
        <4>2. \E x \in nuls : \A y \in nuls : x <= y
          BY <1>1, <4>1, LeastNumber
        <4> QED BY <4>1, <4>2
      <3> HIDE DEF nuls
      <3> QED BY <3>1 DEF Min
    <2>3. Min(nuls) \in 1..Len(b)
      BY <2>2
    <2> HIDE DEF nuls
    <2> QED BY <2>1, <2>3
  <1>2. CASE nuls = {}
    <2>1. PICK stray \in Strays : v = b \o stray
      BY <1>2 DEF CStrings
    <2>2. stray \in Seq(Byte)
      <3>1. stray \in Seq(Byte \ {NUL})
        BY <1>0
      <3> QED BY <3>1
    <2> QED BY <2>1, <2>2
  <1> QED BY <1>1, <1>2

\* The string of a padded buffer is the string, and what follows it if nothing ends it.
LEMMA StringGot ==
    ASSUME NEW s \in Strings, NEW v \in CStrings(Padded(s))
    PROVE  Got(s, v)
  <1> DEFINE n == Len(s)
             t == Padded(s)
             nuls == {k \in DOMAIN t : t[k] = NUL}
  <1>1. /\ s \in Seq(Byte) /\ n \in Nat \ {0} /\ \A k \in 1..n : s[k] # NUL
        /\ t \in Seq(Byte) /\ Len(t) = RoundUp(n)
        /\ \A k \in 1..Len(t) : t[k] = IF k <= n THEN s[k] ELSE NUL
    BY PaddedString
  <1>2. /\ RoundUp(n) \in Nat /\ n <= RoundUp(n)
        /\ n % Word = 0 => RoundUp(n) = n
        /\ n % Word # 0 => n < RoundUp(n)
    BY <1>1, RoundedUp
  <1> HIDE DEF t, n
  <1>3. CASE n % Word # 0
    <2>1. n + 1 \in nuls /\ \A k \in nuls : n + 1 <= k
      BY <1>1, <1>2, <1>3
    <2>2. nuls \subseteq Nat
      BY <1>1
    <2>3. Min(nuls) = n + 1
      <3>1. \E x \in nuls : \A y \in nuls : x <= y
        BY <2>1
      <3>2. Min(nuls) \in nuls /\ \A y \in nuls : Min(nuls) <= y
        <4> HIDE DEF nuls
        <4> QED BY <3>1 DEF Min
      <3> HIDE DEF nuls
      <3>3. n + 1 \in Nat /\ Min(nuls) \in Nat
        <4>1. n + 1 \in Nat
          <5>1. n \in Nat
            BY <1>1
          <5> QED BY <5>1
        <4>2. Min(nuls) \in Nat
          BY <2>2, <3>2, Zenon
        <4> QED BY <4>1, <4>2
      <3>4. n + 1 <= Min(nuls) /\ Min(nuls) <= n + 1
        BY <2>1, <3>2
      <3> QED BY <3>3, <3>4
    <2>4. v = SubSeq(t, 1, n)
      <3>1. v = SubSeq(t, 1, Min(nuls) - 1)
        BY <2>1 DEF CStrings, t
      <3> HIDE DEF nuls
      <3> QED BY <1>1, <2>3, <3>1
    <2>5. v \in Seq(Byte) /\ Len(v) = n /\ \A k \in 1..n : v[k] = t[k]
      BY <1>1, <1>2, <2>4
    <2>6. v = s
      <3>1. \A k \in 1..n : v[k] = s[k] /\ k \in 1..Len(t)
        BY <1>1, <1>2, <2>5
      <3>2. Len(s) = n
        BY DEF n
      <3> QED BY <1>1, <2>5, <3>1, <3>2, SameSeq
    <2> QED BY <1>1, <2>6 DEF Got, IsPrefix
  <1>4. CASE n % Word = 0
    <2>1. Len(t) = n /\ nuls = {}
      BY <1>1, <1>2, <1>4
    <2>2. t = s
      <3>1. \A k \in 1..n : t[k] = s[k]
        BY <1>1, <2>1
      <3>2. Len(s) = n
        BY DEF n
      <3> QED BY <1>1, <2>1, <3>1, <3>2, SameSeq
    <2>3. PICK stray \in Strays : v = s \o stray
      BY <2>1, <2>2 DEF CStrings, t
    <2>4. stray \in Seq(Byte)
      <3>1. stray \in Seq(Byte \ {NUL})
        BY MessageStreamAssumption
      <3> QED BY <3>1
    <2>5. v \in Seq(Byte) /\ Len(s) <= Len(v) /\ \A k \in 1..Len(s) : v[k] = s[k]
      BY <1>1, <2>3, <2>4
    <2>6. SubSeq(s, 1, Len(s)) = SubSeq(v, 1, Len(s))
      <3>1. /\ SubSeq(s, 1, Len(s)) \in Seq(Byte) /\ Len(SubSeq(s, 1, Len(s))) = Len(s)
            /\ SubSeq(v, 1, Len(s)) \in Seq(Byte) /\ Len(SubSeq(v, 1, Len(s))) = Len(s)
            /\ \A k \in 1..Len(s) : SubSeq(s, 1, Len(s))[k] = SubSeq(v, 1, Len(s))[k]
        BY <1>1, <2>5
      <3> QED BY <3>1, SameSeq
    <2> QED BY <1>4, <2>5, <2>6 DEF Got, IsPrefix, n
  <1> QED BY <1>3, <1>4

-----------------------------------------------------------------------------
(* A message cut up *)

\* The places of a message and of its fields.
LEMMA WirePlaces ==
    ASSUME NEW w \in Wires
    PROVE  /\ w.type \in Uint32 /\ w.bytes \in Seq(Byte) /\ Len(w.bytes) \in Uint32
           /\ Len(w.bytes) \in Nat /\ Total(w) \in Nat
           /\ Fields(w) \in {2, 3} /\ Ends(w, 0) = 0 /\ Ends(w, Fields(w)) = Total(w)
           /\ \A j \in 0..(Fields(w) - 1) :
                Ends(w, j) \in Nat /\ Ends(w, j + 1) \in Nat /\ Ends(w, j) < Ends(w, j + 1)
  <1>1. w.type \in Uint32 /\ w.bytes \in Seq(Byte) /\ Len(w.bytes) \in Uint32
    BY DEF Wires
  <1>2. Len(w.bytes) \in Nat /\ Word \in Nat \ {0} /\ (w.bytes = <<>> <=> Len(w.bytes) = 0)
    BY <1>1, Constants, SMTT(30)
  <1> DEFINE n == Len(w.bytes)
  <1>3. Fields(w) = IF n = 0 THEN 2 ELSE 3
    BY <1>2 DEF Fields
  <1>4. Total(w) = Word + Word + n
    BY DEF Total
  <1>5. /\ Ends(w, 0) = 0 /\ Ends(w, 1) = Word /\ Ends(w, 2) = Word + Word /\ Ends(w, 3) = Total(w)
    BY DEF Ends
  <1> HIDE DEF n
  <1>n. n \in Nat
    BY <1>2 DEF n
  <1>6. Total(w) \in Nat /\ Fields(w) \in {2, 3} /\ Ends(w, Fields(w)) = Total(w)
    BY <1>2, <1>3, <1>4, <1>5, <1>n
  <1>7. ASSUME NEW j \in 0..(Fields(w) - 1)
        PROVE  Ends(w, j) \in Nat /\ Ends(w, j + 1) \in Nat /\ Ends(w, j) < Ends(w, j + 1)
    <2>1. j = 0 \/ j = 1 \/ (j = 2 /\ n # 0)
      BY <1>3
    <2>2. CASE j = 0
      BY <1>2, <1>5, <2>2
    <2>3. CASE j = 1
      BY <1>2, <1>5, <2>3
    <2>4. CASE j = 2 /\ n # 0
      BY <1>2, <1>4, <1>5, <1>6, <1>n, <2>4
    <2> QED BY <2>1, <2>2, <2>3, <2>4
  <1> QED BY <1>1, <1>2, <1>5, <1>6, <1>7

\* One part after another.
LEMMA PartConcat ==
    ASSUME NEW w, Total(w) \in Nat, NEW a \in Nat, NEW s \in Seq(Byte), NEW t \in Seq(Byte),
           Part(s, w, a), Part(t, w, a + Len(s))
    PROVE  s \o t \in Seq(Byte) /\ Len(s \o t) = Len(s) + Len(t) /\ Part(s \o t, w, a)
  <1> DEFINE u == s \o t
  <1>1. /\ u \in Seq(Byte) /\ Len(s) \in Nat /\ Len(t) \in Nat /\ Len(u) = Len(s) + Len(t)
        /\ \A i \in 1..Len(s) : u[i] = s[i]
        /\ \A i \in 1..Len(t) : u[Len(s) + i] = t[i]
    OBVIOUS
  <1> HIDE DEF u
  <1>2. a + Len(u) <= Total(w)
    BY <1>1 DEF Part
  <1>3. ASSUME NEW i \in 1..Len(u) PROVE u[i] = Nth(w, a + i)
    <2>1. CASE i \in 1..Len(s)
      BY <1>1, <2>1 DEF Part
    <2>2. CASE i \notin 1..Len(s)
      <3>1. i - Len(s) \in 1..Len(t) /\ Len(s) + (i - Len(s)) = i /\ (a + Len(s)) + (i - Len(s)) = a + i
        BY <1>1, <2>2
      <3>2. u[i] = t[i - Len(s)]
        BY <1>1, <3>1
      <3>3. t[i - Len(s)] = Nth(w, (a + Len(s)) + (i - Len(s)))
        BY <3>1 DEF Part
      <3> QED BY <3>1, <3>2, <3>3
    <2> QED BY <2>1, <2>2
  <1> QED BY <1>1, <1>2, <1>3 DEF Part, u

\* Part of a part.
LEMMA PartSplit ==
    ASSUME NEW w, Total(w) \in Nat, NEW a \in Nat, NEW s \in Seq(Byte), NEW n \in 0..Len(s),
           Part(s, w, a)
    PROVE  /\ SubSeq(s, 1, n) \in Seq(Byte) /\ Len(SubSeq(s, 1, n)) = n
           /\ Part(SubSeq(s, 1, n), w, a)
           /\ SubSeq(s, n + 1, Len(s)) \in Seq(Byte) /\ Len(SubSeq(s, n + 1, Len(s))) = Len(s) - n
           /\ Part(SubSeq(s, n + 1, Len(s)), w, a + n)
  <1> DEFINE x == SubSeq(s, 1, n)
             y == SubSeq(s, n + 1, Len(s))
  <1>0. Len(s) \in Nat /\ n \in Nat /\ n <= Len(s)
    OBVIOUS
  <1>1. x \in Seq(Byte) /\ Len(x) = n /\ \A i \in 1..n : x[i] = s[i]
    BY <1>0
  <1>2. y \in Seq(Byte) /\ Len(y) = Len(s) - n /\ \A i \in 1..(Len(s) - n) : y[i] = s[n + i]
    BY <1>0
  <1> HIDE DEF x, y
  <1>3. a + Len(s) <= Total(w) /\ \A i \in 1..Len(s) : s[i] = Nth(w, a + i)
    BY DEF Part
  <1>4. Part(x, w, a)
    <2>1. a + Len(x) <= Total(w)
      BY <1>0, <1>1, <1>3
    <2> QED BY <1>0, <1>1, <1>3, <2>1 DEF Part
  <1>5. Part(y, w, a + n)
    <2>1. (a + n) + Len(y) <= Total(w)
      BY <1>0, <1>2, <1>3
    <2>2. ASSUME NEW i \in 1..Len(y) PROVE y[i] = Nth(w, (a + n) + i)
      <3>1. n + i \in 1..Len(s) /\ a + (n + i) = (a + n) + i /\ i \in 1..(Len(s) - n)
        BY <1>0, <1>2
      <3>2. s[n + i] = Nth(w, a + (n + i))
        BY <1>3, <3>1
      <3> QED BY <1>2, <3>1, <3>2
    <2> QED BY <2>1, <2>2 DEF Part
  <1> QED BY <1>1, <1>2, <1>4, <1>5 DEF x, y

\* A sequence with another first element.
LEMMA NewHead ==
    ASSUME NEW A, NEW x \in A, NEW o \in Seq(A), o # <<>>
    PROVE  /\ <<x>> \o Tail(o) \in Seq(A) /\ Len(<<x>> \o Tail(o)) = Len(o)
           /\ (<<x>> \o Tail(o))[1] = x
           /\ \A k \in 2..Len(o) : (<<x>> \o Tail(o))[k] = o[k]
  <1>1. /\ Tail(o) \in Seq(A) /\ Len(Tail(o)) = Len(o) - 1 /\ Len(o) \in Nat \ {0}
        /\ \A k \in 1..(Len(o) - 1) : Tail(o)[k] = o[k + 1]
    OBVIOUS
  <1> DEFINE t == Tail(o)
  <1> HIDE DEF t
  <1>2. <<x>> \in Seq(A) /\ Len(<<x>>) = 1 /\ <<x>>[1] = x
    OBVIOUS
  <1>3. /\ <<x>> \o t \in Seq(A) /\ Len(<<x>> \o t) = 1 + Len(t) /\ (<<x>> \o t)[1] = x
        /\ \A k \in 1..Len(t) : (<<x>> \o t)[1 + k] = t[k]
    BY <1>1, <1>2 DEF t
  <1>4. ASSUME NEW k \in 2..Len(o) PROVE (<<x>> \o t)[k] = o[k]
    <2>1. k - 1 \in 1..(Len(o) - 1) /\ 1 + (k - 1) = k /\ (k - 1) + 1 = k
      BY <1>1
    <2> QED BY <1>1, <1>3, <2>1 DEF t
  <1> QED BY <1>1, <1>3, <1>4 DEF t

\* What the writer has still to send after sending n bytes of the first field.
Rest(o, n) == IF n = Len(Head(o)) THEN Tail(o)
              ELSE <<SubSeq(Head(o), n + 1, Len(Head(o)))>> \o Tail(o)

\* There is a field to send, and it begins where the message was broken off.
LEMMA NextField ==
    ASSUME NEW w \in Wires, NEW c \in Nat, NEW o \in Seq(Seq(Byte)), o # <<>>,
           NEW j \in 0..Fields(w), UnsentFrom(o, w, c, j)
    PROVE  /\ j \in 0..(Fields(w) - 1) /\ j + 1 \in 0..Fields(w) /\ Len(o) = Fields(w) - j
           /\ Head(o) = o[1] /\ o[1] \in Seq(Byte) /\ Part(o[1], w, c)
           /\ c < Ends(w, j + 1) /\ Len(o[1]) = Ends(w, j + 1) - c
           /\ Ends(w, j + 1) \in Nat /\ Ends(w, j) <= c
           /\ \A k \in 2..Len(o) :
                 /\ Ends(w, j + k - 1) < Ends(w, j + k)
                 /\ Len(o[k]) = Ends(w, j + k) - Ends(w, j + k - 1)
                 /\ Part(o[k], w, Ends(w, j + k - 1))
  <1>1. Fields(w) \in {2, 3}
    BY WirePlaces
  <1>2. Len(o) \in Nat \ {0} /\ Head(o) = o[1] /\ o[1] \in Seq(Byte)
    OBVIOUS
  <1>3. /\ Len(o) = Fields(w) - j
        /\ IF j = Fields(w) THEN c = Total(w) ELSE Ends(w, j) <= c
        /\ \A k \in 1..Len(o) :
             /\ From(w, j, c, k) < Ends(w, j + k)
             /\ Len(o[k]) = Ends(w, j + k) - From(w, j, c, k)
             /\ Part(o[k], w, From(w, j, c, k))
    BY DEF UnsentFrom
  <1>4. j \in 0..(Fields(w) - 1) /\ j + 1 \in 0..Fields(w) /\ j # Fields(w) /\ 1 \in 1..Len(o)
    BY <1>1, <1>2, <1>3
  <1>5. Ends(w, j + 1) \in Nat
    BY <1>4, WirePlaces
  <1>6. From(w, j, c, 1) = c
    BY DEF From
  <1>7. ASSUME NEW k \in 2..Len(o) PROVE k \in 1..Len(o) /\ From(w, j, c, k) = Ends(w, j + k - 1)
    BY DEF From
  <1> QED BY <1>2, <1>3, <1>4, <1>5, <1>6, <1>7

\* Some bytes of the first field go into the pipe.
LEMMA WholeSend ==
    ASSUME NEW w \in Wires, NEW a \in Nat, NEW f \in Seq(Byte), NEW p \in Seq(Byte),
           NEW o \in Seq(Seq(Byte)), o # <<>>, NEW n \in 1..Len(Head(o)), Whole(w, a, f, p, o)
    PROVE  Whole(w, a, f, p \o SubSeq(Head(o), 1, n), Rest(o, n))
  <1> DEFINE b == a + Len(f)
             c == b + Len(p)
             h == o[1]
             q == p \o SubSeq(h, 1, n)
             r == Rest(o, n)
             d == c + n
  <1>1. Part(f, w, a) /\ Part(p, w, b) /\ Unsent(o, w, c)
    BY DEF Whole
  <1>2. b \in Nat /\ c \in Nat /\ Len(p) \in Nat /\ Len(f) \in Nat
    OBVIOUS
  <1>3. PICK j \in 0..Fields(w) : UnsentFrom(o, w, c, j)
    BY <1>1 DEF Unsent
  <1> HIDE DEF b, c, q, r, d
  <1>4. /\ j \in 0..(Fields(w) - 1) /\ j + 1 \in 0..Fields(w) /\ Len(o) = Fields(w) - j
        /\ Head(o) = h /\ h \in Seq(Byte) /\ Part(h, w, c)
        /\ c < Ends(w, j + 1) /\ Len(h) = Ends(w, j + 1) - c
        /\ Ends(w, j + 1) \in Nat /\ Ends(w, j) <= c
    BY <1>2, <1>3, NextField
  <1>5. ASSUME NEW k \in 2..Len(o)
        PROVE  /\ Ends(w, j + k - 1) < Ends(w, j + k)
               /\ Len(o[k]) = Ends(w, j + k) - Ends(w, j + k - 1)
               /\ Part(o[k], w, Ends(w, j + k - 1))
    BY <1>2, <1>3, NextField
  <1>6. Total(w) \in Nat /\ Fields(w) \in {2, 3} /\ Ends(w, Fields(w)) = Total(w) /\ Ends(w, j) \in Nat
    BY <1>4, WirePlaces
  <1> HIDE DEF h
  <1>7. n \in 0..Len(h) /\ Len(h) \in Nat /\ n \in 1..Len(h)
    BY <1>4
  <1>8. /\ SubSeq(h, 1, n) \in Seq(Byte) /\ Len(SubSeq(h, 1, n)) = n /\ Part(SubSeq(h, 1, n), w, c)
        /\ SubSeq(h, n + 1, Len(h)) \in Seq(Byte) /\ Len(SubSeq(h, n + 1, Len(h))) = Len(h) - n
        /\ Part(SubSeq(h, n + 1, Len(h)), w, c + n)
    <2>1. /\ Total(w) \in Nat /\ c \in Nat /\ h \in Seq(Byte) /\ n \in 0..Len(h) /\ Part(h, w, c)
      BY <1>2, <1>4, <1>6, <1>7
    <2> QED BY ONLY <2>1, PartSplit
  <1>9. q \in Seq(Byte) /\ Len(q) = Len(p) + n /\ Part(q, w, b)
    <2>1. Part(SubSeq(h, 1, n), w, b + Len(p))
      BY <1>8 DEF c
    <2> DEFINE x == SubSeq(h, 1, n)
    <2>2. /\ Total(w) \in Nat /\ b \in Nat /\ p \in Seq(Byte) /\ x \in Seq(Byte)
          /\ Part(p, w, b) /\ Part(x, w, b + Len(p)) /\ Len(x) = n
      BY <1>1, <1>2, <1>6, <1>8, <2>1
    <2> HIDE DEF x
    <2>3. p \o x \in Seq(Byte) /\ Len(p \o x) = Len(p) + Len(x) /\ Part(p \o x, w, b)
      BY ONLY <2>2, PartConcat
    <2> QED BY <2>2, <2>3 DEF q, x
  <1>10. b + Len(q) = d /\ d \in Nat
    BY <1>2, <1>7, <1>9 DEF c, d
  <1>11. r = IF n = Len(h) THEN Tail(o) ELSE <<SubSeq(h, n + 1, Len(h))>> \o Tail(o)
    BY <1>4 DEF Rest, r
  <1>12. ASSUME n = Len(h) PROVE Unsent(r, w, d)
    <2> DEFINE i == j + 1
    <2>1. d = Ends(w, i)
      BY <1>2, <1>4, <1>7, <1>12 DEF d
    <2>2. /\ r \in Seq(Seq(Byte)) /\ Len(r) = Fields(w) - i
          /\ \A k \in 1..Len(r) : r[k] = o[k + 1] /\ k + 1 \in 2..Len(o)
      <3>1. r = Tail(o)
        BY <1>11, <1>12
      <3>2. Len(o) \in Nat \ {0} /\ Len(r) = Len(o) - 1 /\ r \in Seq(Seq(Byte))
        BY <3>1
      <3>3. \A k \in 1..Len(r) : r[k] = o[k + 1] /\ k + 1 \in 2..Len(o)
        BY <3>1, <3>2
      <3>4. Len(r) = Fields(w) - i
        <4> DEFINE F == Fields(w)
                   l == Len(o)
                   t == Len(r)
        <4>1. F \in Nat /\ l = F - j /\ t = l - 1
          <5>1. Fields(w) \in {2, 3} /\ Len(o) = Fields(w) - j /\ Len(r) = Len(o) - 1
            BY ONLY <1>4, <1>6, <3>2
          <5> HIDE DEF F, l, t
          <5>2. F \in {2, 3} /\ l = F - j /\ t = l - 1
            BY ONLY <5>1 DEF F, l, t
          <5> QED BY ONLY <5>2
        <4>2. j \in Nat
          OBVIOUS
        <4> HIDE DEF F, l, t
        <4>3. t = F - (j + 1)
          BY ONLY <4>1, <4>2
        <4> QED BY <4>3 DEF F, t
      <3> QED BY <3>2, <3>3, <3>4
    <2>3. IF i = Fields(w) THEN d = Total(w) ELSE Ends(w, i) <= d
      BY <1>6, <1>10, <2>1
    <2>4. ASSUME NEW k \in 1..Len(r)
          PROVE  /\ From(w, i, d, k) < Ends(w, i + k)
                 /\ Len(r[k]) = Ends(w, i + k) - From(w, i, d, k)
                 /\ Part(r[k], w, From(w, i, d, k))
      <3>0. j \in Nat
        BY <1>4, <1>6
      <3>1. k + 1 \in 2..Len(o) /\ r[k] = o[k + 1]
        BY <2>2
      <3>2. j + (k + 1) = i + k /\ j + (k + 1) - 1 = i + k - 1 /\ (k = 1 => i + k - 1 = i)
        BY <3>0
      <3>3. From(w, i, d, k) = Ends(w, i + k - 1)
        <4>1. CASE k = 1
          BY <2>1, <3>2, <4>1 DEF From
        <4>2. CASE k # 1
          BY <4>2 DEF From
        <4> QED BY <4>1, <4>2
      <3> HIDE DEF i
      <3>4. /\ Ends(w, i + k - 1) < Ends(w, i + k)
            /\ Len(o[k + 1]) = Ends(w, i + k) - Ends(w, i + k - 1)
            /\ Part(o[k + 1], w, Ends(w, i + k - 1))
        BY <1>5, <3>1, <3>2
      <3> QED BY <3>1, <3>3, <3>4
    <2>5. UnsentFrom(r, w, d, i)
      BY <2>2, <2>3, <2>4 DEF UnsentFrom
    <2> QED BY <1>4, <2>5 DEF Unsent
  <1>13. ASSUME n # Len(h) PROVE Unsent(r, w, d)
    <2>1. r = <<SubSeq(h, n + 1, Len(h))>> \o Tail(o)
      BY <1>11, <1>13
    <2>2. /\ r \in Seq(Seq(Byte)) /\ Len(r) = Len(o) /\ r[1] = SubSeq(h, n + 1, Len(h))
          /\ \A k \in 2..Len(o) : r[k] = o[k]
      BY <1>8, <2>1, NewHead
    <2>3. d < Ends(w, j + 1) /\ Ends(w, j) <= d /\ Len(h) - n = Ends(w, j + 1) - d
      <3> DEFINE e == Ends(w, j + 1)
      <3>1. /\ e \in Nat /\ c \in Nat /\ n \in Nat /\ Ends(w, j) \in Nat /\ Len(h) = e - c
            /\ Ends(w, j) <= c /\ n < Len(h)
        BY <1>2, <1>4, <1>6, <1>7, <1>13
      <3> HIDE DEF e
      <3>2. c + n < e /\ Ends(w, j) <= c + n /\ Len(h) - n = e - (c + n)
        BY <3>1
      <3> QED BY <3>2 DEF e, d
    <2>4. j # Fields(w)
      BY <1>4, <1>6
    <2>5. ASSUME NEW k \in 1..Len(r)
          PROVE  /\ From(w, j, d, k) < Ends(w, j + k)
                 /\ Len(r[k]) = Ends(w, j + k) - From(w, j, d, k)
                 /\ Part(r[k], w, From(w, j, d, k))
      <3>1. CASE k = 1
        <4>1. Part(r[1], w, d) /\ Len(r[1]) = Ends(w, j + 1) - d
          BY <1>8, <2>2, <2>3 DEF d
        <4> QED BY <2>3, <3>1, <4>1 DEF From
      <3>2. CASE k # 1
        <4>1. k \in 2..Len(o)
          BY <2>2, <3>2
        <4>2. From(w, j, d, k) = Ends(w, j + k - 1)
          BY <3>2 DEF From
        <4>3. r[k] = o[k]
          BY <2>2, <4>1
        <4> QED BY <1>5, <4>1, <4>2, <4>3
      <3> QED BY <3>1, <3>2
    <2>6. UnsentFrom(r, w, d, j)
      <3>1. Len(r) = Fields(w) - j
        BY <1>4, <2>2
      <3> QED BY <2>3, <2>4, <2>5, <3>1 DEF UnsentFrom
    <2> QED BY <2>6 DEF Unsent
  <1>14. Unsent(r, w, d)
    BY <1>12, <1>13
  <1>15. Unsent(r, w, b + Len(q))
    BY <1>10, <1>14
  <1>16. Whole(w, a, f, q, r)
    BY <1>1, <1>9, <1>15 DEF Whole, b
  <1> QED BY <1>4, <1>16 DEF q, r

\* Some bytes go from the pipe into the field.
LEMMA WholeRecv ==
    ASSUME NEW w \in Wires, NEW a \in Nat, NEW f \in Seq(Byte), NEW p \in Seq(Byte), NEW o,
           NEW n \in 1..Len(p), Whole(w, a, f, p, o)
    PROVE  Whole(w, a, f \o SubSeq(p, 1, n), SubSeq(p, n + 1, Len(p)), o)
  <1> DEFINE x == SubSeq(p, 1, n)
             y == SubSeq(p, n + 1, Len(p))
             g == f \o x
  <1>1. Part(f, w, a) /\ Part(p, w, a + Len(f)) /\ Unsent(o, w, a + Len(f) + Len(p))
    BY DEF Whole
  <1>2. Total(w) \in Nat /\ Len(f) \in Nat /\ a + Len(f) \in Nat /\ Len(p) \in Nat /\ n \in 0..Len(p)
    BY WirePlaces
  <1>3. /\ x \in Seq(Byte) /\ Len(x) = n /\ Part(x, w, a + Len(f))
        /\ y \in Seq(Byte) /\ Len(y) = Len(p) - n /\ Part(y, w, a + Len(f) + n)
    BY <1>1, <1>2, PartSplit
  <1> HIDE DEF x, y
  <1>4. g \in Seq(Byte) /\ Len(g) = Len(f) + n /\ Part(g, w, a)
    <2>1. /\ Total(w) \in Nat /\ a \in Nat /\ f \in Seq(Byte) /\ x \in Seq(Byte)
          /\ Part(f, w, a) /\ Part(x, w, a + Len(f))
      BY <1>1, <1>2, <1>3
    <2>2. f \o x \in Seq(Byte) /\ Len(f \o x) = Len(f) + Len(x) /\ Part(f \o x, w, a)
      BY ONLY <2>1, PartConcat
    <2> QED BY <1>3, <2>2 DEF g
  <1> HIDE DEF g
  <1>5. a + Len(g) = a + Len(f) + n /\ a + Len(g) + Len(y) = a + Len(f) + Len(p)
    BY <1>2, <1>3, <1>4
  <1> QED BY <1>1, <1>3, <1>4, <1>5 DEF Whole, x, y, g

\* The field is done.
LEMMA WholeField ==
    ASSUME NEW w \in Wires, NEW a \in Nat, NEW f \in Seq(Byte), NEW p \in Seq(Byte), NEW o,
           Whole(w, a, f, p, o)
    PROVE  Whole(w, a + Len(f), <<>>, p, o)
  <1> DEFINE b == a + Len(f)
  <1>1. Part(f, w, a) /\ Part(p, w, b) /\ Unsent(o, w, b + Len(p))
    BY DEF Whole
  <1>2. b \in Nat /\ Len(<<>>) = 0 /\ Total(w) \in Nat /\ b <= Total(w)
    BY <1>1, WirePlaces DEF Part
  <1> HIDE DEF b
  <1>3. b + Len(<<>>) = b
    BY <1>2
  <1>4. Part(<<>>, w, b)
    BY <1>2, <1>3 DEF Part
  <1> QED BY <1>1, <1>3, <1>4 DEF Whole, b

\* After the last field nothing is left.
LEMMA WholeEnd ==
    ASSUME NEW w \in Wires, NEW f \in Seq(Byte), NEW p \in Seq(Byte), NEW o \in Seq(Seq(Byte)),
           Whole(w, Total(w), f, p, o)
    PROVE  p = <<>> /\ o = <<>>
  <1> DEFINE T == Total(w)
  <1>1. Part(f, w, T) /\ Part(p, w, T + Len(f)) /\ Unsent(o, w, T + Len(f) + Len(p))
    BY DEF Whole
  <1>2. T \in Nat /\ Len(f) \in Nat /\ Len(p) \in Nat
    BY WirePlaces
  <1> HIDE DEF T
  <1>3. T + Len(f) + Len(p) <= T
    BY <1>1, <1>2 DEF Part, T
  <1>4. Len(p) = 0 /\ T + Len(f) + Len(p) = T
    BY <1>2, <1>3
  <1>5. PICK j \in 0..Fields(w) : UnsentFrom(o, w, T, j)
    BY <1>1, <1>4 DEF Unsent
  <1>6. o = <<>>
    <2> SUFFICES ASSUME o # <<>> PROVE FALSE
      OBVIOUS
    <2>1. /\ j \in 0..(Fields(w) - 1) /\ T < Ends(w, j + 1) /\ Ends(w, j + 1) \in Nat
          /\ Part(o[1], w, T) /\ Len(o[1]) = Ends(w, j + 1) - T /\ o[1] \in Seq(Byte)
      BY <1>2, <1>5, NextField
    <2>2. T + Len(o[1]) <= T
      BY <2>1 DEF Part, T
    <2> QED BY <1>2, <2>1, <2>2
  <1> QED BY <1>4, <1>6

\* What a field has in it when it is complete.
LEMMA TypeField ==
    ASSUME NEW w \in Wires, NEW f \in Seq(Byte), Part(f, w, 0), Len(f) = Word
    PROVE  ntohl(f) = w.type
  <1>1. w.type \in Uint32 /\ Word \in Nat \ {0}
    BY WirePlaces, Constants
  <1> DEFINE b == HtonlBytes(w.type)
  <1>2. b \in Seq(Byte) /\ Len(b) = Word /\ ntohl(b) = w.type
    BY <1>1, WordBytes
  <1> HIDE DEF b
  <1>3. ASSUME NEW k \in 1..Len(f) PROVE f[k] = b[k]
    <2>1. f[k] = Nth(w, 0 + k) /\ 0 + k = k /\ k <= Word
      BY <1>1 DEF Part
    <2> QED BY <2>1 DEF Nth, b
  <1>4. f = b
    BY <1>2, <1>3, SameSeq
  <1> QED BY <1>2, <1>4

\* ... for the size.
LEMMA SizeField ==
    ASSUME NEW w \in Wires, NEW f \in Seq(Byte), Part(f, w, Word), Len(f) = Word
    PROVE  ntohl(f) = Len(w.bytes)
  <1>1. Len(w.bytes) \in Uint32 /\ Word \in Nat \ {0}
    BY WirePlaces, Constants
  <1> DEFINE b == HtonlBytes(Len(w.bytes))
  <1>2. b \in Seq(Byte) /\ Len(b) = Word /\ ntohl(b) = Len(w.bytes)
    BY <1>1, WordBytes
  <1> HIDE DEF b
  <1>3. ASSUME NEW k \in 1..Len(f) PROVE f[k] = b[k]
    <2>1. f[k] = Nth(w, Word + k)
      BY DEF Part
    <2>2. Word + k <= Word + Word /\ ~(Word + k <= Word) /\ (Word + k) - Word = k
      BY <1>1
    <2> QED BY <2>1, <2>2 DEF Nth, b
  <1>4. f = b
    BY <1>2, <1>3, SameSeq
  <1> QED BY <1>2, <1>4

\* ... for the data.
LEMMA DataField ==
    ASSUME NEW w \in Wires, NEW f \in Seq(Byte), Part(f, w, Word + Word), Len(f) = Len(w.bytes)
    PROVE  f = w.bytes
  <1>1. w.bytes \in Seq(Byte) /\ Len(w.bytes) \in Nat /\ Word \in Nat \ {0}
    BY WirePlaces, Constants
  <1>3. ASSUME NEW k \in 1..Len(f) PROVE f[k] = w.bytes[k]
    <2> DEFINE p == Word + Word + k
    <2>1. f[k] = Nth(w, p)
      BY DEF Part
    <2>2. ~(p <= Word + Word) /\ ~(p <= Word) /\ p - (Word + Word) = k
      BY <1>1
    <2> HIDE DEF p
    <2> QED BY <2>1, <2>2 DEF Nth
  <1> QED BY <1>1, <1>3, SameSeq

\* A message that is still to be sent.
LEMMA WholeStart ==
    ASSUME NEW w \in Wires, NEW o \in Seq(Seq(Byte)), Len(o) = Fields(w),
           o[1] = HtonlBytes(w.type), o[2] = HtonlBytes(Len(w.bytes)),
           Fields(w) = 3 => o[3] = w.bytes
    PROVE  Whole(w, 0, <<>>, <<>>, o)
  <1>1. /\ w.type \in Uint32 /\ w.bytes \in Seq(Byte) /\ Len(w.bytes) \in Uint32 /\ Len(w.bytes) \in Nat
        /\ Fields(w) \in {2, 3} /\ Total(w) \in Nat /\ Ends(w, 0) = 0 /\ Word \in Nat \ {0}
    BY WirePlaces, Constants
  <1>2. Len(o[1]) = Word /\ Len(o[2]) = Word
    BY <1>1, WordBytes
  <1> DEFINE n == Len(w.bytes)
  <1>3. /\ Total(w) = Word + Word + n /\ (Fields(w) = 3 <=> n # 0)
    BY <1>1 DEF Total, Fields
  <1>4. Ends(w, 1) = Word /\ Ends(w, 2) = Word + Word /\ Ends(w, 3) = Word + Word + n
    BY <1>3 DEF Ends
  <1>5. /\ From(w, 0, 0, 1) = 0 /\ From(w, 0, 0, 2) = Word /\ From(w, 0, 0, 3) = Word + Word
    <2>1. 0 + 2 - 1 = 1 /\ 0 + 3 - 1 = 2 /\ 2 # 1 /\ 3 # 1
      OBVIOUS
    <2> QED BY <1>4, <2>1 DEF From
  <1>6. Part(o[1], w, 0)
    <2>1. \A i \in 1..Word : 0 + i = i /\ i <= Word
      BY <1>1
    <2>2. \A i \in 1..Word : o[1][i] = Nth(w, 0 + i)
      BY <2>1 DEF Nth
    <2>3. 0 + Word <= Total(w)
      <3>1. n \in Nat /\ Word \in Nat
        BY <1>1
      <3> HIDE DEF n
      <3> QED BY <1>3, <3>1
    <2> QED BY <1>2, <2>2, <2>3 DEF Part
  <1>7. Part(o[2], w, Word)
    <2>1. \A i \in 1..Word : Word + i <= Word + Word /\ ~(Word + i <= Word) /\ (Word + i) - Word = i
      BY <1>1
    <2>2. \A i \in 1..Word : o[2][i] = Nth(w, Word + i)
      BY <2>1 DEF Nth
    <2>3. Word + Word <= Total(w)
      <3>1. n \in Nat /\ Word \in Nat
        BY <1>1
      <3> HIDE DEF n
      <3> QED BY <1>3, <3>1
    <2> QED BY <1>2, <2>2, <2>3 DEF Part
  <1>8. ASSUME Fields(w) = 3 PROVE Part(o[3], w, Word + Word)
    <2>0. o[3] = w.bytes
      BY <1>8
    <2>1. ASSUME NEW i \in 1..n PROVE o[3][i] = Nth(w, Word + Word + i)
      <3> DEFINE p == Word + Word + i
      <3>1. ~(p <= Word + Word) /\ ~(p <= Word) /\ p - (Word + Word) = i
        BY <1>1
      <3> HIDE DEF p
      <3>2. Nth(w, p) = w.bytes[i]
        BY <3>1 DEF Nth
      <3> QED BY <2>0, <3>2 DEF p
    <2>2. Word + Word + n <= Total(w)
      BY <1>1, <1>3
    <2> QED BY <2>0, <2>1, <2>2 DEF Part
  <1>9. ASSUME NEW k \in 1..Len(o)
        PROVE  /\ From(w, 0, 0, k) < Ends(w, 0 + k)
               /\ Len(o[k]) = Ends(w, 0 + k) - From(w, 0, 0, k)
               /\ Part(o[k], w, From(w, 0, 0, k))
    <2>1. k = 1 \/ k = 2 \/ (k = 3 /\ Fields(w) = 3)
      BY <1>1
    <2>2. CASE k = 1
      <3>1. 0 < Word /\ Word = Word - 0 /\ 0 + 1 = 1
        BY <1>1
      <3> QED BY <1>2, <1>4, <1>5, <1>6, <2>2, <3>1
    <2>3. CASE k = 2
      <3>1. Word < Word + Word /\ Word = (Word + Word) - Word /\ 0 + 2 = 2
        BY <1>1
      <3> QED BY <1>2, <1>4, <1>5, <1>7, <2>3, <3>1
    <2>4. CASE k = 3 /\ Fields(w) = 3
      <3>1. 0 + 3 = 3 /\ Len(o[3]) = n /\ Part(o[3], w, Word + Word)
        BY <1>8, <2>4
      <3>2. Word + Word < Word + Word + n /\ n = (Word + Word + n) - (Word + Word)
        <4>1. n \in Nat /\ n # 0 /\ Word \in Nat
          BY <1>1, <1>3, <2>4
        <4> HIDE DEF n
        <4> QED BY <4>1
      <3> QED BY <1>4, <1>5, <2>4, <3>1, <3>2
    <2> QED BY <2>1, <2>2, <2>3, <2>4
  <1>10. UnsentFrom(o, w, 0, 0)
    <2>1. Fields(w) - 0 = Fields(w) /\ 0 # Fields(w)
      BY <1>1
    <2> QED BY <1>1, <1>9, <2>1 DEF UnsentFrom
  <1>11. Unsent(o, w, 0)
    <2>1. 0 \in 0..Fields(w)
      BY <1>1
    <2> QED BY <1>10, <2>1 DEF Unsent
  <1>12. Part(<<>>, w, 0)
    BY <1>1 DEF Part
  <1>13. 0 + Len(<<>>) = 0
    OBVIOUS
  <1> QED BY <1>11, <1>12, <1>13 DEF Whole

\* How far the reader is.
LEMMA BehindPlaces ==
    ASSUME NEW w \in Wires
    PROVE  /\ Behind(w, "write") = 0 /\ Behind(w, "type") = 0 /\ Behind(w, "size") = Word
           /\ Behind(w, "gobble") = Word + Word /\ Behind(w, "string") = Word + Word
           /\ Behind(w, "read") = Total(w)
           /\ \A state \in ReadStates \cup {"write"} : Behind(w, state) \in Nat
  <1>1. Word \in Nat /\ Word + Word \in Nat /\ Total(w) \in Nat
    BY WirePlaces, Constants
  <1>2. /\ Behind(w, "write") = 0 /\ Behind(w, "type") = 0 /\ Behind(w, "size") = Word
        /\ Behind(w, "gobble") = Word + Word /\ Behind(w, "string") = Word + Word
        /\ Behind(w, "read") = Total(w)
    BY DEF Behind
  <1> QED BY <1>1, <1>2 DEF ReadStates

\* A reader's stream when the writer has sent some more.
LEMMA StreamSend ==
    ASSUME NEW w \in Wires, NEW state \in ReadStates \cup {"write"}, NEW f \in Seq(Byte),
           NEW p \in Seq(Byte), NEW o \in Seq(Seq(Byte)), NEW msg,
           o # <<>>, NEW n \in 1..Len(Head(o)), Stream(w, state, f, p, o, msg)
    PROVE  Stream(w, state, f, p \o SubSeq(Head(o), 1, n), Rest(o, n), msg)
  <1>1. Behind(w, state) \in Nat
    BY BehindPlaces
  <1>2. Whole(w, Behind(w, state), f, p, o)
    BY DEF Stream
  <1>3. Whole(w, Behind(w, state), f, p \o SubSeq(Head(o), 1, n), Rest(o, n))
    BY <1>1, <1>2, WholeSend
  <1> QED BY <1>3 DEF Stream

\* ... when it has received some more.
LEMMA StreamRecv ==
    ASSUME NEW w \in Wires, NEW state \in {"type", "size", "gobble", "string"}, NEW f \in Seq(Byte),
           NEW p \in Seq(Byte), NEW o, NEW msg, NEW n \in 1..Len(p), Stream(w, state, f, p, o, msg)
    PROVE  Stream(w, state, f \o SubSeq(p, 1, n), SubSeq(p, n + 1, Len(p)), o, msg)
  <1>1. Behind(w, state) \in Nat
    BY BehindPlaces DEF ReadStates
  <1>2. Whole(w, Behind(w, state), f, p, o)
    BY DEF Stream
  <1>3. Whole(w, Behind(w, state), f \o SubSeq(p, 1, n), SubSeq(p, n + 1, Len(p)), o)
    BY <1>1, <1>2, WholeRecv
  <1>4. state \notin {"write", "read"}
    OBVIOUS
  <1> QED BY <1>3, <1>4 DEF Stream

\* ... when it has waited for the message.
LEMMA StreamWait ==
    ASSUME NEW w \in Wires, NEW f, NEW p, NEW o, NEW msg, Stream(w, "write", f, p, o, msg)
    PROVE  Stream(w, "type", f, p, o, msg)
  <1>1. Behind(w, "write") = Behind(w, "type")
    BY BehindPlaces
  <1> QED BY <1>1 DEF Stream

\* ... when it has the type.
LEMMA StreamType ==
    ASSUME NEW w \in Wires, NEW f \in Seq(Byte), NEW p \in Seq(Byte), NEW o, NEW msg, NEW new,
           Stream(w, "type", f, p, o, msg), Len(f) = Word, new.type = ntohl(f)
    PROVE  Stream(w, "size", <<>>, p, o, new)
  <1>1. Whole(w, 0, f, p, o)
    BY BehindPlaces DEF Stream
  <1>2. Whole(w, 0 + Len(f), <<>>, p, o)
    BY <1>1, WholeField
  <1>3. 0 + Len(f) = Behind(w, "size")
    <2>1. Word \in Nat
      BY Constants
    <2> QED BY <2>1, BehindPlaces
  <1>4. new.type = w.type
    <2>1. Part(f, w, 0)
      BY <1>1 DEF Whole
    <2> QED BY <2>1, TypeField
  <1> QED BY <1>2, <1>3, <1>4 DEF Stream

\* ... when it has the size.
LEMMA StreamSize ==
    ASSUME NEW w \in Wires, NEW f \in Seq(Byte), NEW p \in Seq(Byte), NEW o, NEW msg, NEW new,
           Stream(w, "size", f, p, o, msg), Len(f) = Word, new.size = ntohl(f), new.type = msg.type,
           NEW state, state = AfterSize(msg.type, ntohl(f))
    PROVE  /\ state \in {"read", "gobble", "string", "bad"}
           /\ state = "read" => w.type \in Control
           /\ w.type \in Control /\ Len(w.bytes) = 0 => state = "read"
           /\ state # "bad" => Stream(w, state, <<>>, p, o, new)
  <1>1. Whole(w, Word, f, p, o) /\ msg.type = w.type
    BY BehindPlaces DEF Stream
  <1>2. Whole(w, Word + Len(f), <<>>, p, o)
    <2>1. Word \in Nat
      BY Constants
    <2> QED BY <1>1, <2>1, WholeField
  <1>3. new.size = Len(w.bytes) /\ new.type = w.type /\ ntohl(f) = Len(w.bytes)
    <2>1. Part(f, w, Word)
      BY <1>1 DEF Whole
    <2> QED BY <1>1, <2>1, SizeField
  <1> DEFINE size == Len(w.bytes)
  <1>4. /\ w.type \in Control => state = IF size = 0 THEN "read" ELSE "gobble"
        /\ w.type = kCheckpoint => state = IF size % Word # 0 THEN "bad" ELSE "string"
        /\ w.type \notin Control /\ w.type # kCheckpoint => state = "bad"
    <2>1. state = AfterSize(w.type, size)
      BY <1>1, <1>3
    <2>2. kCheckpoint \notin Control
      BY Constants
    <2> HIDE DEF size
    <2>3. w.type \in Control => state = IF size = 0 THEN "read" ELSE "gobble"
      BY <2>1, <2>2 DEF AfterSize
    <2>4. w.type = kCheckpoint => state = IF size % Word # 0 THEN "bad" ELSE "string"
      BY <2>1, <2>2 DEF AfterSize
    <2>5. w.type \notin Control /\ w.type # kCheckpoint => state = "bad"
      BY <2>1, <2>2 DEF AfterSize
    <2> QED BY <2>3, <2>4, <2>5
  <1>5. Whole(w, Word + Word, <<>>, p, o)
    BY <1>2
  <1>6. CASE state = "read"
    <2>1. w.type \in Control /\ size = 0
      BY <1>4, <1>6
    <2>2. Total(w) = Word + Word
      <3>1. Word + Word + 0 = Word + Word
        BY Constants
      <3> QED BY <2>1, <3>1 DEF Total
    <2>3. Whole(w, Behind(w, "read"), <<>>, p, o)
      BY <1>5, <2>2, BehindPlaces
    <2> QED BY <1>3, <1>6, <2>1, <2>3 DEF Stream
  <1>7. CASE state = "gobble"
    <2>1. w.type \in Control
      BY <1>4, <1>7
    <2>2. Whole(w, Behind(w, "gobble"), <<>>, p, o)
      BY <1>5, BehindPlaces
    <2> QED BY <1>3, <1>4, <1>7, <2>1, <2>2 DEF Stream
  <1>8. CASE state = "string"
    <2>1. w.type = kCheckpoint /\ size % Word = 0
      BY <1>4, <1>8
    <2>2. Whole(w, Behind(w, "string"), <<>>, p, o)
      BY <1>5, BehindPlaces
    <2> QED BY <1>3, <1>4, <1>8, <2>1, <2>2 DEF Stream
  <1>9. CASE state = "bad"
    BY <1>4, <1>9
  <1> QED BY <1>4, <1>6, <1>7, <1>8, <1>9

\* ... when it has the data.
LEMMA StreamData ==
    ASSUME NEW w \in Wires, NEW state \in {"gobble", "string"}, NEW f \in Seq(Byte), NEW p \in Seq(Byte),
           NEW o, NEW msg, NEW new, Stream(w, state, f, p, o, msg), Len(f) = msg.size,
           new.type = msg.type
    PROVE  f = w.bytes /\ Stream(w, "read", <<>>, p, o, new)
  <1>1. Behind(w, state) = Word + Word
    BY BehindPlaces
  <1>2. Whole(w, Word + Word, f, p, o) /\ msg.type = w.type /\ msg.size = Len(w.bytes)
    BY <1>1 DEF Stream
  <1>3. f = w.bytes
    <2>1. Part(f, w, Word + Word)
      BY <1>2 DEF Whole
    <2> QED BY <1>2, <2>1, DataField
  <1>4. Whole(w, Word + Word + Len(f), <<>>, p, o)
    <2>1. Word + Word \in Nat
      BY Constants
    <2> QED BY <1>2, <2>1, WholeField
  <1>5. Behind(w, "read") = Word + Word + Len(f)
    BY <1>3, BehindPlaces DEF Total
  <1>6. Whole(w, Behind(w, "read"), <<>>, p, o)
    BY <1>4, <1>5
  <1> QED BY <1>2, <1>3, <1>6 DEF Stream

\* ... when it has the message.
LEMMA StreamEnd ==
    ASSUME NEW w \in Wires, NEW f, NEW p \in Seq(Byte), NEW o \in Seq(Seq(Byte)), NEW msg,
           Stream(w, "read", f, p, o, msg)
    PROVE  p = <<>> /\ o = <<>> /\ msg.type = w.type
  <1>1. f = <<>> /\ Whole(w, Total(w), f, p, o) /\ msg.type = w.type
    BY BehindPlaces DEF Stream
  <1>2. f \in Seq(Byte)
    BY <1>1
  <1> QED BY <1>1, <1>2, WholeEnd

\* The number in a field.
LEMMA NumberType ==
    ASSUME NEW f \in Seq(Byte)
    PROVE  ntohl(f) \in Nat
  <1>1. Byte \subseteq Nat /\ Radix \in Nat /\ 0 \in Nat
    BY Constants
  <1>2. f \in Seq(Nat)
    <2>1. Len(f) \in Nat /\ f \in [1..Len(f) -> Byte]
      OBVIOUS
    <2>2. f \in [1..Len(f) -> Nat]
      BY <1>1, <2>1, Zenon
    <2> QED BY <2>1, <2>2
  <1> QED BY <1>1, <1>2, ValueAppend DEF ntohl

-----------------------------------------------------------------------------
(* What the steps do *)

\* The ends are two.
LEMMA Peers ==
    /\ Peer("client") = "server" /\ Peer("server") = "client"
    /\ "client" \in End /\ "server" \in End /\ "client" # "server"
    /\ \A e \in End : Peer(e) \in End /\ Peer(e) # e /\ (e = "client" \/ e = "server")
  BY DEF Peer, End

\* What is left to send is fields of bytes.
LEMMA RestType ==
    ASSUME NEW o \in Seq(Seq(Byte)), o # <<>>, NEW n \in 1..Len(Head(o))
    PROVE  /\ Rest(o, n) \in Seq(Seq(Byte)) /\ SubSeq(Head(o), 1, n) \in Seq(Byte)
           /\ Len(SubSeq(Head(o), 1, n)) = n
  <1> DEFINE h == Head(o)
  <1>1. h \in Seq(Byte) /\ Len(h) \in Nat
    OBVIOUS
  <1>2. Tail(o) \in Seq(Seq(Byte))
    OBVIOUS
  <1> HIDE DEF h
  <1>3. n \in 1..Len(h)
    BY DEF h
  <1>4. /\ SubSeq(h, 1, n) \in Seq(Byte) /\ Len(SubSeq(h, 1, n)) = n
        /\ SubSeq(h, n + 1, Len(h)) \in Seq(Byte)
    BY <1>1, <1>3
  <1>5. <<SubSeq(h, n + 1, Len(h))>> \o Tail(o) \in Seq(Seq(Byte))
    BY <1>4, NewHead
  <1> QED BY <1>2, <1>4, <1>5 DEF Rest, h

\* Send: n bytes of the first field go to the peer.
LEMMA SendEffect ==
    ASSUME TypeOK, NEW e \in End, Send(e)
    PROVE  /\ pc[e] = "write" /\ out[e] # <<>> /\ Peer(e) \notin closed
           /\ pc' = pc /\ field' = field /\ m' = m /\ closed' = closed /\ reset' = reset
           /\ result' = result /\ sent' = sent
           /\ out' \in [End -> Seq(Seq(Byte))] /\ pipe' \in [End -> Seq(Byte)]
           /\ \A x \in End : Len(pipe'[x]) <= Capacity
           /\ out'[Peer(e)] = out[Peer(e)] /\ pipe'[e] = pipe[e]
           /\ \E n \in 1..Len(Head(out[e])) :
                /\ pipe'[Peer(e)] = pipe[Peer(e)] \o SubSeq(Head(out[e]), 1, n)
                /\ out'[e] = Rest(out[e], n)
  <1>1. PICK n \in 1..Len(Head(out[e])) :
          /\ Len(pipe[Peer(e)]) + n <= Capacity
          /\ pipe' = [pipe EXCEPT ![Peer(e)] = @ \o SubSeq(Head(out[e]), 1, n)]
          /\ out' = [out EXCEPT ![e] = Rest(out[e], n)]
    BY DEF Send, Rest
  <1>2. /\ pc[e] = "write" /\ out[e] # <<>> /\ Peer(e) \notin closed
        /\ pc' = pc /\ field' = field /\ m' = m /\ closed' = closed /\ reset' = reset
        /\ result' = result /\ sent' = sent
    BY DEF Send
  <1>3. /\ out \in [End -> Seq(Seq(Byte))] /\ pipe \in [End -> Seq(Byte)]
        /\ \A x \in End : Len(pipe[x]) <= Capacity
    BY DEF TypeOK
  <1> DEFINE q == SubSeq(Head(out[e]), 1, n)
             d == Peer(e)
             r == Rest(out[e], n)
  <1>4. r \in Seq(Seq(Byte)) /\ q \in Seq(Byte) /\ Len(q) = n
    BY <1>2, <1>3, RestType
  <1>5. d \in End /\ d # e
    BY Peers
  <1> HIDE DEF q, d, r
  <1>6. pipe' = [pipe EXCEPT ![d] = pipe[d] \o q] /\ out' = [out EXCEPT ![e] = r]
    BY <1>1 DEF q, d, r
  <1>7. pipe'[d] = pipe[d] \o q /\ pipe'[e] = pipe[e] /\ out'[e] = r /\ out'[d] = out[d]
    BY <1>3, <1>5, <1>6
  <1>8. pipe[d] \o q \in Seq(Byte) /\ Len(pipe[d] \o q) = Len(pipe[d]) + n
    <2> DEFINE z == pipe[d]
    <2>1. z \in Seq(Byte) /\ q \in Seq(Byte) /\ Len(q) = n
      BY <1>3, <1>4, <1>5
    <2> HIDE DEF z
    <2>2. z \o q \in Seq(Byte) /\ Len(z \o q) = Len(z) + n
      BY ONLY <2>1
    <2> QED BY <2>2 DEF z
  <1>9. out' \in [End -> Seq(Seq(Byte))] /\ pipe' \in [End -> Seq(Byte)]
    <2>1. out' \in [End -> Seq(Seq(Byte))]
      BY <1>3, <1>4, <1>6, Zenon
    <2> DEFINE z == pipe[d] \o q
    <2>2. z \in Seq(Byte) /\ pipe' = [pipe EXCEPT ![d] = z]
      BY <1>6, <1>8
    <2> HIDE DEF z
    <2>3. pipe' \in [End -> Seq(Byte)]
      BY <1>3, <2>2, Zenon
    <2> QED BY <2>1, <2>3
  <1>10. \A x \in End : Len(pipe'[x]) <= Capacity
    <2>1. \A x \in End : x = d \/ x = e
      BY <1>5, Peers
    <2>2. Len(pipe'[d]) <= Capacity
      BY <1>1, <1>7, <1>8 DEF d
    <2>3. Len(pipe'[e]) <= Capacity
      BY <1>3, <1>7
    <2> QED BY <2>1, <2>2, <2>3
  <1> QED BY <1>2, <1>7, <1>9, <1>10 DEF q, d, r

\* recv: n bytes of the pipe go to the field, which they do not overrun.
LEMMA RecvEffect ==
    ASSUME TypeOK, NEW e \in End, Recv(e)
    PROVE  /\ Reading(e)
           /\ pc' = pc /\ out' = out /\ m' = m /\ closed' = closed /\ reset' = reset
           /\ result' = result /\ sent' = sent
           /\ field' \in [End -> Seq(Byte)] /\ pipe' \in [End -> Seq(Byte)]
           /\ \A x \in End : Len(pipe'[x]) <= Capacity
           /\ field'[Peer(e)] = field[Peer(e)] /\ pipe'[Peer(e)] = pipe[Peer(e)]
           /\ Len(field'[e]) <= FieldSize(e)
           /\ \E n \in 1..Len(pipe[e]) :
                /\ field'[e] = field[e] \o SubSeq(pipe[e], 1, n)
                /\ pipe'[e] = SubSeq(pipe[e], n + 1, Len(pipe[e]))
  <1>1. PICK n \in 1..Len(pipe[e]) :
          /\ n <= RecvLimit(e)
          /\ field' = [field EXCEPT ![e] = field[e] \o SubSeq(pipe[e], 1, n)]
          /\ pipe' = [pipe EXCEPT ![e] = SubSeq(pipe[e], n + 1, Len(pipe[e]))]
    BY DEF Recv
  <1>2. /\ Reading(e)
        /\ pc' = pc /\ out' = out /\ m' = m /\ closed' = closed /\ reset' = reset
        /\ result' = result /\ sent' = sent
    BY DEF Recv
  <1>3. /\ field \in [End -> Seq(Byte)] /\ pipe \in [End -> Seq(Byte)]
        /\ m \in [End -> [type : Nat, size : Nat, string_value : Seq(Byte)]]
        /\ \A x \in End : Len(pipe[x]) <= Capacity
    BY DEF TypeOK
  <1> DEFINE p == pipe[e]
             f == field[e]
             x == SubSeq(p, 1, n)
             y == SubSeq(p, n + 1, Len(p))
             z == f \o x
  <1>4. p \in Seq(Byte) /\ f \in Seq(Byte) /\ Len(p) \in Nat /\ Len(f) \in Nat /\ n \in 1..Len(p)
    BY <1>3
  <1>5. n \in Nat /\ Capacity \in Nat /\ FieldSize(e) \in Nat /\ Len(p) <= Capacity
    BY <1>3, Constants, SMTT(30) DEF FieldSize
  <1> HIDE DEF p, f
  <1>6. x \in Seq(Byte) /\ Len(x) = n /\ y \in Seq(Byte) /\ Len(y) = Len(p) - n
    BY <1>4
  <1> HIDE DEF x, y
  <1>7. z \in Seq(Byte) /\ Len(z) = Len(f) + n
    BY <1>4, <1>6
  <1> HIDE DEF z
  <1>8. field' = [field EXCEPT ![e] = z] /\ pipe' = [pipe EXCEPT ![e] = y]
    BY <1>1 DEF p, f, x, y, z
  <1>9. field' \in [End -> Seq(Byte)] /\ pipe' \in [End -> Seq(Byte)]
    BY <1>3, <1>6, <1>7, <1>8, Zenon
  <1>10. /\ field'[e] = z /\ pipe'[e] = y
         /\ field'[Peer(e)] = field[Peer(e)] /\ pipe'[Peer(e)] = pipe[Peer(e)]
    BY <1>3, <1>8, Peers
  <1>11. Len(field'[e]) <= FieldSize(e)
    <2>1. n <= FieldSize(e) - Len(f)
      BY <1>1 DEF RecvLimit, f
    <2> QED BY <1>4, <1>5, <1>7, <1>10, <2>1
  <1>12. ASSUME NEW u \in End PROVE Len(pipe'[u]) <= Capacity
    <2>1. u = e \/ u = Peer(e)
      BY Peers
    <2>2. Len(pipe'[e]) <= Capacity
      BY <1>4, <1>5, <1>6, <1>10
    <2>3. Len(pipe'[Peer(e)]) <= Capacity
      BY <1>3, <1>10, Peers
    <2> QED BY <2>1, <2>2, <2>3
  <1> QED BY <1>2, <1>4, <1>9, <1>10, <1>11, <1>12 DEF p, f, x, y, z

\* The field is complete and is put into the message.
LEMMA FieldEffect ==
    ASSUME TypeOK, NEW e \in End, NEW state \in {"type", "size", "gobble", "string"}, NEW s, NEW msg,
           FieldDone(e, state, s, msg)
    PROVE  /\ pc[e] = state /\ Len(field[e]) = FieldSize(e)
           /\ out' = out /\ pipe' = pipe /\ closed' = closed /\ reset' = reset
           /\ result' = result /\ sent' = sent
           /\ pc' = [pc EXCEPT ![e] = s] /\ m' = [m EXCEPT ![e] = msg]
           /\ field' \in [End -> Seq(Byte)]
           /\ pc'[e] = s /\ pc'[Peer(e)] = pc[Peer(e)]
           /\ field'[e] = <<>> /\ field'[Peer(e)] = field[Peer(e)]
           /\ m'[e] = msg /\ m'[Peer(e)] = m[Peer(e)]
  <1>1. /\ pc[e] = state /\ Len(field[e]) >= FieldSize(e)
        /\ out' = out /\ pipe' = pipe /\ closed' = closed /\ reset' = reset
        /\ result' = result /\ sent' = sent
        /\ pc' = [pc EXCEPT ![e] = s] /\ m' = [m EXCEPT ![e] = msg]
        /\ field' = [field EXCEPT ![e] = <<>>]
    BY DEF FieldDone
  <1>2. /\ DOMAIN pc = End /\ DOMAIN m = End /\ field \in [End -> Seq(Byte)]
        /\ m \in [End -> [type : Nat, size : Nat, string_value : Seq(Byte)]]
        /\ Reading(e) => Len(field[e]) <= FieldSize(e)
    BY DEF TypeOK
  <1>3. FieldSize(e) \in Nat /\ Len(field[e]) \in Nat
    <2>1. m[e].size \in Nat /\ Word \in Nat /\ field[e] \in Seq(Byte)
      BY <1>2, Constants
    <2> QED BY <2>1 DEF FieldSize
  <1>4. Len(field[e]) = FieldSize(e)
    BY <1>1, <1>2, <1>3 DEF Reading
  <1>5. field' \in [End -> Seq(Byte)]
    BY <1>1, <1>2
  <1>6. /\ pc'[e] = s /\ pc'[Peer(e)] = pc[Peer(e)]
        /\ field'[e] = <<>> /\ field'[Peer(e)] = field[Peer(e)]
        /\ m'[e] = msg /\ m'[Peer(e)] = m[Peer(e)]
    BY <1>1, <1>2, Peers
  <1> QED BY <1>1, <1>4, <1>5, <1>6

-----------------------------------------------------------------------------
(* The types *)

\* Where an end can be, and what it can have read.
Places == {"write", "type", "size", "gobble", "string", "read", "bad",
           "returned", "quit", "killed", "closed", "dead"}
Message == [type : Nat, size : Nat, string_value : Seq(Byte)]

\* The parts of the type invariant.
LEMMA TypeParts ==
    TypeOK <=> /\ pc \in [End -> Places] /\ out \in [End -> Seq(Seq(Byte))]
               /\ pipe \in [End -> Seq(Byte)] /\ field \in [End -> Seq(Byte)] /\ m \in [End -> Message]
               /\ \A e \in End : Len(pipe[e]) <= Capacity
               /\ \A e \in End : Reading(e) => Len(field[e]) <= FieldSize(e)
               /\ closed \subseteq End /\ reset \subseteq End
               /\ result \in {"none", "-3", "0", "1"}
  BY DEF TypeOK, Places, Message

\* ... and of the next state.
LEMMA TypePartsNext ==
    ASSUME pc' \in [End -> Places], out' \in [End -> Seq(Seq(Byte))],
           pipe' \in [End -> Seq(Byte)], field' \in [End -> Seq(Byte)], m' \in [End -> Message],
           \A e \in End : Len(pipe'[e]) <= Capacity,
           \A e \in End : Reading(e)' => Len(field'[e]) <= FieldSize(e)',
           closed' \subseteq End, reset' \subseteq End,
           result' \in {"none", "-3", "0", "1"}
    PROVE  TypeOK'
  BY DEF TypeOK, Places, Message

\* A field is put into the message.
LEMMA FieldType ==
    ASSUME TypeOK, NEW e \in End, NEW state \in {"type", "size", "gobble", "string"},
           NEW s \in Places, NEW msg \in Message, FieldDone(e, state, s, msg)
    PROVE  TypeOK'
  <1>1. /\ pc \in [End -> Places] /\ out \in [End -> Seq(Seq(Byte))]
        /\ pipe \in [End -> Seq(Byte)] /\ field \in [End -> Seq(Byte)] /\ m \in [End -> Message]
        /\ \A x \in End : Len(pipe[x]) <= Capacity
        /\ \A x \in End : Reading(x) => Len(field[x]) <= FieldSize(x)
        /\ closed \subseteq End /\ reset \subseteq End
        /\ result \in {"none", "-3", "0", "1"}
    BY TypeParts
  <1>2. /\ out' = out /\ pipe' = pipe /\ closed' = closed /\ reset' = reset
        /\ result' = result
        /\ pc' = [pc EXCEPT ![e] = s] /\ m' = [m EXCEPT ![e] = msg]
        /\ field' \in [End -> Seq(Byte)]
        /\ pc'[e] = s /\ pc'[Peer(e)] = pc[Peer(e)]
        /\ field'[e] = <<>> /\ field'[Peer(e)] = field[Peer(e)]
        /\ m'[e] = msg /\ m'[Peer(e)] = m[Peer(e)]
    BY FieldEffect
  <1>3. pc' \in [End -> Places] /\ m' \in [End -> Message]
    BY <1>1, <1>2, Zenon
  <1>4. ASSUME NEW x \in End, Reading(x)' PROVE Len(field'[x]) <= FieldSize(x)'
    <2>1. CASE x = e
      <3>1. Len(field'[x]) = 0
        BY <1>2, <2>1
      <3>2. FieldSize(x)' \in Nat
        <4>1. m'[x].size \in Nat /\ Word \in Nat
          BY <1>3, Constants DEF Message
        <4> QED BY <4>1 DEF FieldSize
      <3> QED BY <3>1, <3>2
    <2>2. CASE x = Peer(e)
      <3>1. Reading(x) /\ FieldSize(x)' = FieldSize(x) /\ field'[x] = field[x]
        BY <1>2, <1>4, <2>2 DEF Reading, FieldSize
      <3> QED BY <1>1, <3>1
    <2> QED BY <2>1, <2>2, Peers
  <1> QED BY <1>1, <1>2, <1>3, <1>4, TypePartsNext

\* A step that moves bytes leaves the rest alone.
LEMMA SameField ==
    ASSUME TypeOK, NEW x \in End, pc'[x] = pc[x], m'[x] = m[x], field'[x] = field[x]
    PROVE  Reading(x)' => Len(field'[x]) <= FieldSize(x)'
  <1>1. Reading(x) => Len(field[x]) <= FieldSize(x)
    BY TypeParts
  <1>2. (Reading(x)' <=> Reading(x)) /\ FieldSize(x)' = FieldSize(x)
    BY DEF Reading, FieldSize
  <1> QED BY <1>1, <1>2

\* Bytes sent keep the types.
LEMMA SendType ==
    ASSUME TypeOK, NEW e \in End, Send(e)
    PROVE  TypeOK'
  <1>1. /\ pc \in [End -> Places] /\ field \in [End -> Seq(Byte)] /\ m \in [End -> Message]
        /\ closed \subseteq End /\ reset \subseteq End /\ result \in {"none", "-3", "0", "1"}
    BY TypeParts
  <1>2. /\ pc' = pc /\ field' = field /\ m' = m /\ closed' = closed /\ reset' = reset
        /\ result' = result
        /\ out' \in [End -> Seq(Seq(Byte))] /\ pipe' \in [End -> Seq(Byte)]
        /\ \A x \in End : Len(pipe'[x]) <= Capacity
    BY SendEffect
  <1>3. \A x \in End : Reading(x)' => Len(field'[x]) <= FieldSize(x)'
    BY <1>2, SameField
  <1> QED BY <1>1, <1>2, <1>3, TypePartsNext

\* ... and bytes received.
LEMMA RecvType ==
    ASSUME TypeOK, NEW e \in End, Recv(e)
    PROVE  TypeOK'
  <1>1. /\ pc \in [End -> Places] /\ out \in [End -> Seq(Seq(Byte))] /\ m \in [End -> Message]
        /\ closed \subseteq End /\ reset \subseteq End /\ result \in {"none", "-3", "0", "1"}
    BY TypeParts
  <1>2. /\ pc' = pc /\ out' = out /\ m' = m /\ closed' = closed /\ reset' = reset
        /\ result' = result
        /\ field' \in [End -> Seq(Byte)] /\ pipe' \in [End -> Seq(Byte)]
        /\ \A x \in End : Len(pipe'[x]) <= Capacity
        /\ field'[Peer(e)] = field[Peer(e)] /\ Len(field'[e]) <= FieldSize(e)
    BY RecvEffect
  <1>3. ASSUME NEW x \in End PROVE Reading(x)' => Len(field'[x]) <= FieldSize(x)'
    <2>1. CASE x = e
      <3>1. FieldSize(x)' = FieldSize(x)
        BY <1>2 DEF FieldSize
      <3> QED BY <1>2, <2>1, <3>1
    <2>2. CASE x = Peer(e)
      <3>1. field'[x] = field[x]
        BY <1>2, <2>2
      <3> QED BY <1>2, <3>1, SameField
    <2> QED BY <2>1, <2>2, Peers
  <1> QED BY <1>1, <1>2, <1>3, TypePartsNext

\* An end goes to a place where it reads nothing.
LEMMA MoveType ==
    ASSUME TypeOK, NEW e \in End, NEW s \in Places \ {"type", "size", "gobble", "string"},
           pc' = [pc EXCEPT ![e] = s], out' \in [End -> Seq(Seq(Byte))],
           pipe' = pipe, field' = field, m' = m,
           closed' \subseteq End, reset' \subseteq End, result' \in {"none", "-3", "0", "1"}
    PROVE  TypeOK'
  <1>1. /\ pc \in [End -> Places] /\ pipe \in [End -> Seq(Byte)] /\ field \in [End -> Seq(Byte)]
        /\ m \in [End -> Message] /\ \A x \in End : Len(pipe[x]) <= Capacity
    BY TypeParts
  <1>2. pc' \in [End -> Places] /\ pc'[e] = s /\ \A x \in End \ {e} : pc'[x] = pc[x]
    BY <1>1, Zenon
  <1>3. ASSUME NEW x \in End PROVE Reading(x)' => Len(field'[x]) <= FieldSize(x)'
    <2>1. CASE x = e
      BY <1>2, <2>1 DEF Reading
    <2>2. CASE x # e
      <3>1. pc'[x] = pc[x]
        BY <1>2, <2>2
      <3> QED BY <3>1, SameField
    <2> QED BY <2>1, <2>2
  <1> QED BY <1>1, <1>2, <1>3, TypePartsNext

\* An end closes its socket.
LEMMA CloseEffect ==
    ASSUME TypeOK, NEW e \in End, NEW s, Close(e, s)
    PROVE  /\ pc' = [pc EXCEPT ![e] = s] /\ pc'[e] = s /\ pc'[Peer(e)] = pc[Peer(e)]
           /\ closed' \subseteq End /\ reset' \subseteq End
           /\ reset' = reset \/ (pipe[e] # <<>> /\ reset' = reset \cup {Peer(e)})
  <1>1. pc \in [End -> Places] /\ closed \subseteq End /\ reset \subseteq End
    BY TypeParts
  <1>2. /\ pc' = [pc EXCEPT ![e] = s] /\ closed' = closed \cup {e}
        /\ reset' = IF pipe[e] # <<>> THEN reset \cup {Peer(e)} ELSE reset
    BY DEF Close
  <1>3. Peer(e) \in End /\ Peer(e) # e
    BY Peers
  <1>4. pc'[e] = s /\ pc'[Peer(e)] = pc[Peer(e)]
    BY <1>1, <1>2, <1>3
  <1>5. reset' = reset \/ (pipe[e] # <<>> /\ reset' = reset \cup {Peer(e)})
    BY <1>2
  <1> QED BY <1>1, <1>2, <1>3, <1>4, <1>5

-----------------------------------------------------------------------------
(* The inductive invariant *)

\* The types, the client's message on its way and the reply on its.
StreamInv == TypeOK /\ CommandInv /\ AnswerInv

\* The data of a checkpoint message is whole words, and the buffer it is read from a string.
LEMMA SwappedData ==
    ASSUME NEW w \in Wires, Len(w.bytes) % Word = 0
    PROVE  SwapWords(w.bytes) \in Seq(Byte)
  <1>1. w.bytes \in Seq(Byte) /\ Len(w.bytes) \in Nat
    BY WirePlaces
  <1>2. PICK c \in Nat : Len(w.bytes) = c * Word
    BY <1>1, WholeWords
  <1> QED BY <1>1, <1>2, SwapSwap

\* What the reader of a string of the client gets.
LEMMA SwappedString ==
    ASSUME NEW s \in Strings, NEW v \in CStrings(SwapWords(SwapWords(Padded(s))))
    PROVE  Got(s, v)
  <1>1. Padded(s) \in Seq(Byte) /\ Len(Padded(s)) = RoundUp(Len(s)) /\ Len(s) \in Nat
    BY PaddedString
  <1>2. PICK c \in Nat : RoundUp(Len(s)) = c * Word
    BY <1>1, RoundedUp
  <1>3. SwapWords(SwapWords(Padded(s))) = Padded(s)
    BY <1>1, <1>2, SwapSwap
  <1> QED BY <1>3, StringGot

\* The message that the harness is reading.
LEMMA CommandParts ==
    ASSUME StreamInv
    PROVE  /\ field["server"] \in Seq(Byte) /\ pipe["server"] \in Seq(Byte)
           /\ out["client"] \in Seq(Seq(Byte)) /\ m["server"] \in Message
           /\ field["client"] \in Seq(Byte) /\ pipe["client"] \in Seq(Byte)
           /\ out["server"] \in Seq(Seq(Byte)) /\ m["client"] \in Message
           /\ pc["client"] \in Places /\ pc["server"] \in Places
  BY TypeParts, Peers DEF StreamInv

\* Only the harness reads a string, and it has all of it.
LEMMA StringRead ==
    ASSUME StreamInv, NEW e \in End, NEW s, NEW msg, FieldDone(e, "string", s, msg)
    PROVE  /\ e = "server"
           /\ \A w \in Wires :
                Stream(w, "string", field[e], pipe[e], out["client"], m[e]) =>
                    field[e] = w.bytes /\ SwapWords(field[e]) \in Seq(Byte)
  <1>1. pc[e] = "string" /\ Len(field[e]) = FieldSize(e)
    BY FieldEffect DEF StreamInv
  <1>2. e = "server"
    <2>1. pc["client"] # "string"
      BY DEF StreamInv, AnswerInv, Answer
    <2> QED BY <1>1, <2>1, Peers
  <1>3. Len(field[e]) = m[e].size
    BY <1>1 DEF FieldSize
  <1>4. ASSUME NEW w \in Wires, Stream(w, "string", field[e], pipe[e], out["client"], m[e])
        PROVE  field[e] = w.bytes /\ SwapWords(field[e]) \in Seq(Byte)
    <2>1. field[e] \in Seq(Byte) /\ pipe[e] \in Seq(Byte)
      BY <1>2, CommandParts
    <2>2. field[e] = w.bytes
      BY <1>3, <1>4, <2>1, StreamData
    <2>3. Len(w.bytes) % Word = 0
      BY <1>4 DEF Stream
    <2> QED BY <2>2, <2>3, SwappedData
  <1> QED BY <1>2, <1>4

\* What the harness has read at a place.
LEMMA CommandPick ==
    ASSUME StreamInv
    PROVE  \E w \in Wires : Command(w, pc["server"], field["server"], pipe["server"], out["client"],
                                    m["server"], sent)
  BY DEF StreamInv, CommandInv

\* A read keeps the types.
LEMMA ReadTypes ==
    ASSUME StreamInv, NEW e \in End, ReadMessage(e)
    PROVE  TypeOK'
  <1>0. TypeOK /\ field[e] \in Seq(Byte) /\ m[e] \in Message
    BY TypeParts DEF StreamInv
  <1>1. CASE Recv(e)
    BY <1>0, <1>1, RecvType
  <1>2. CASE RecvFails(e)
    <2>1. /\ pc' = [pc EXCEPT ![e] = "bad"] /\ reset' = reset \ {e}
          /\ out' = out /\ pipe' = pipe /\ field' = field /\ m' = m /\ closed' = closed /\ result' = result
      BY <1>2 DEF RecvFails
    <2>2. /\ out \in [End -> Seq(Seq(Byte))] /\ closed \subseteq End /\ reset \subseteq End
          /\ result \in {"none", "-3", "0", "1"}
      BY <1>0, TypeParts
    <2>3. "bad" \in Places \ {"type", "size", "gobble", "string"} /\ reset' \subseteq End
      BY <2>1, <2>2 DEF Places
    <2> QED BY <1>0, <2>1, <2>2, <2>3, MoveType
  <1>3. CASE ReadType(e)
    <2> DEFINE msg == [m[e] EXCEPT !.type = ntohl(field[e])]
    <2>1. FieldDone(e, "type", "size", msg)
      BY <1>3 DEF ReadType
    <2>2. msg \in Message
      <3>1. ntohl(field[e]) \in Nat
        BY <1>0, NumberType
      <3> QED BY <1>0, <3>1 DEF Message
    <2>3. "size" \in Places
      BY DEF Places
    <2> HIDE DEF msg
    <2> QED BY <1>0, <2>1, <2>2, <2>3, FieldType
  <1>4. CASE ReadSize(e)
    <2> DEFINE msg == [m[e] EXCEPT !.size = ntohl(field[e])]
               s == AfterSize(m[e].type, ntohl(field[e]))
    <2>1. FieldDone(e, "size", s, msg)
      BY <1>4 DEF ReadSize
    <2>2. msg \in Message
      <3>1. ntohl(field[e]) \in Nat
        BY <1>0, NumberType
      <3> QED BY <1>0, <3>1 DEF Message
    <2>3. s \in Places
      BY DEF Places, AfterSize
    <2> HIDE DEF msg, s
    <2> QED BY <1>0, <2>1, <2>2, <2>3, FieldType
  <1>5. CASE GobbleData(e)
    <2>1. FieldDone(e, "gobble", "read", m[e])
      BY <1>5 DEF GobbleData
    <2>2. "read" \in Places
      BY DEF Places
    <2> QED BY <1>0, <2>1, <2>2, FieldType
  <1>6. CASE ReadString(e)
    <2>1. PICK v \in CStrings(SwapWords(field[e])) :
            FieldDone(e, "string", "read", [m[e] EXCEPT !.string_value = v])
      BY <1>6 DEF ReadString
    <2>2. e = "server" /\ pc[e] = "string"
      BY <1>0, <2>1, StringRead, FieldEffect
    <2>3. PICK w \in Wires : Stream(w, "string", field[e], pipe[e], out["client"], m[e])
      BY <2>2, CommandPick DEF Command, ReadStates
    <2>4. SwapWords(field[e]) \in Seq(Byte)
      BY <2>1, <2>3, StringRead
    <2>5. v \in Seq(Byte)
      BY <2>4, CStringType
    <2> DEFINE msg == [m[e] EXCEPT !.string_value = v]
    <2>6. msg \in Message
      BY <1>0, <2>5 DEF Message
    <2>7. "read" \in Places /\ FieldDone(e, "string", "read", msg)
      BY <2>1 DEF Places
    <2> HIDE DEF msg
    <2> QED BY <1>0, <2>6, <2>7, FieldType
  <1> QED BY <1>1, <1>2, <1>3, <1>4, <1>5, <1>6 DEF ReadMessage

\* The fields of an answer.
LEMMA WriteCommandFields ==
    ASSUME NEW type \in Control
    PROVE  /\ WriteCommand(type) \in Seq(Seq(Byte)) /\ Len(WriteCommand(type)) = 2
           /\ WriteCommand(type)[1] = HtonlBytes(type) /\ WriteCommand(type)[2] = HtonlBytes(0)
  <1>1. type \in Uint32 /\ 0 \in Uint32
    BY Constants
  <1>2. HtonlBytes(type) \in Seq(Byte) /\ HtonlBytes(0) \in Seq(Byte)
    BY <1>1, WordBytes
  <1> QED BY <1>2 DEF WriteCommand

\* Every step keeps the types.
LEMMA TypeNext ==
    ASSUME StreamInv, Next
    PROVE  TypeOK'
  <1>0. /\ TypeOK /\ out \in [End -> Seq(Seq(Byte))] /\ pc \in [End -> Places]
        /\ closed \subseteq End /\ reset \subseteq End /\ result \in {"none", "-3", "0", "1"}
    BY TypeParts DEF StreamInv
  <1>c. ASSUME NEW e \in End, NEW s \in {"killed", "returned", "quit", "closed", "dead"}, Close(e, s),
               out' = out, pipe' = pipe, field' = field, m' = m, result' \in {"none", "-3", "0", "1"}
        PROVE  TypeOK'
    <2>1. pc' = [pc EXCEPT ![e] = s] /\ closed' \subseteq End /\ reset' \subseteq End
      BY <1>0, <1>c, CloseEffect
    <2>2. s \in Places \ {"type", "size", "gobble", "string"}
      BY DEF Places
    <2> QED BY <1>0, <1>c, <2>1, <2>2, MoveType
  <1>1. ASSUME NEW e \in End, Send(e) PROVE TypeOK'
    BY <1>0, <1>1, SendType
  <1>2. ASSUME NEW e \in End, SendBroken(e) PROVE TypeOK'
    BY <1>0, <1>2, <1>c DEF SendBroken
  <1>3. CASE ClientWaits
    <2>1. /\ pc["client"] = "write" /\ pc' = [pc EXCEPT !["client"] = "type"]
          /\ out' = out /\ pipe' = pipe /\ field' = field /\ m' = m /\ closed' = closed
          /\ reset' = reset /\ result' = result
      BY <1>3 DEF ClientWaits
    <2>2. field["client"] = <<>>
      BY <2>1 DEF StreamInv, AnswerInv, Answer, Stream
    <2>3. /\ pc' \in [End -> Places] /\ pc'["server"] = pc["server"] /\ pc'["client"] = "type"
      BY <1>0, <2>1, Peers DEF Places
    <2>4. ASSUME NEW x \in End PROVE Reading(x)' => Len(field'[x]) <= FieldSize(x)'
      <3>1. CASE x = "server"
        BY <1>0, <2>1, <2>3, <3>1, SameField
      <3>2. CASE x = "client"
        <4>1. Len(field'[x]) = 0 /\ Word \in Nat
          BY <2>1, <2>2, <3>2, Constants
        <4>2. FieldSize(x)' = Word
          BY <2>3, <3>2 DEF FieldSize
        <4> QED BY <4>1, <4>2
      <3> QED BY <3>1, <3>2, Peers
    <2> QED BY <1>0, <2>1, <2>3, <2>4, TypeParts, TypePartsNext
  <1>4. CASE ClientReturns
    <2>1. result' \in {"none", "-3", "0", "1"}
      BY <1>4 DEF ClientReturns
    <2> QED BY <1>4, <1>c, <2>1, Peers DEF ClientReturns
  <1>5. CASE ClientQuits
    BY <1>0, <1>5, <1>c, Peers DEF ClientQuits
  <1>6. CASE ServerReplies
    <2> DEFINE type == IF m["server"].type = Expected THEN ExpectedDone ELSE kInvalidCommand
               o == WriteCommand(type)
    <2>1. /\ pc' = [pc EXCEPT !["server"] = "write"] /\ out' = [out EXCEPT !["server"] = o]
          /\ pipe' = pipe /\ field' = field /\ m' = m /\ closed' = closed
          /\ reset' = reset /\ result' = result
      BY <1>6 DEF ServerReplies
    <2>2. o \in Seq(Seq(Byte))
      <3>1. type \in Control
        BY Constants
      <3> HIDE DEF type
      <3> QED BY <3>1, WriteCommandFields
    <2> HIDE DEF o
    <2>3. out' \in [End -> Seq(Seq(Byte))]
      BY <1>0, <2>1, <2>2, Zenon
    <2>4. "write" \in Places \ {"type", "size", "gobble", "string"} /\ "server" \in End
      BY Peers DEF Places
    <2> QED BY <1>0, <2>1, <2>3, <2>4, MoveType
  <1>7. CASE ServerCloses
    BY <1>0, <1>7, <1>c, Peers DEF ServerCloses
  <1>8. CASE ServerGivesUp
    BY <1>0, <1>8, <1>c, Peers DEF ServerGivesUp
  <1>9. CASE UNCHANGED vars
    BY <1>0, <1>9 DEF vars, TypeOK, Reading, FieldSize
  <1>10. ASSUME NEW e \in End, ReadMessage(e) PROVE TypeOK'
    BY <1>10, ReadTypes
  <1> QED BY <1>1, <1>2, <1>3, <1>4, <1>5, <1>6, <1>7, <1>8, <1>9, <1>10, Peers
          DEF Next, Client, Server, RecvEOF, Over

\* A step that is not about the client's message.
LEMMA CommandSame ==
    ASSUME StreamInv, pc'["server"] = pc["server"], field'["server"] = field["server"],
           pipe'["server"] = pipe["server"], out'["client"] = out["client"],
           m'["server"] = m["server"], sent' = sent
    PROVE  CommandInv'
  BY DEF StreamInv, CommandInv

\* A step after which the harness holds nothing of it.
LEMMA CommandOver ==
    ASSUME StreamInv, sent' = sent, pc'["server"] \notin ReadStates,
           pc'["server"] \in Answered => pipe'["server"] = <<>> /\ out'["client"] = <<>>
    PROVE  CommandInv'
  <1>1. PICK w \in Wires : Sends(w, sent)
    BY CommandPick DEF Command
  <1>2. pc'["server"] # "read"
    BY DEF ReadStates
  <1>3. Command(w, pc'["server"], field'["server"], pipe'["server"], out'["client"], m'["server"], sent')
    BY <1>1, <1>2 DEF Command
  <1> QED BY <1>3 DEF CommandInv

\* A step of the reading.
LEMMA CommandOn ==
    ASSUME NEW w \in Wires, Sends(w, sent), sent' = sent, pc'["server"] \in ReadStates,
           Stream(w, pc'["server"], field'["server"], pipe'["server"], out'["client"], m'["server"]),
           pc'["server"] = "read" /\ sent.string_value # <<>> =>
               Got(sent.string_value, m'["server"].string_value)
    PROVE  CommandInv'
  <1>1. pc'["server"] \notin Answered
    BY DEF ReadStates, Answered
  <1>2. Command(w, pc'["server"], field'["server"], pipe'["server"], out'["client"], m'["server"], sent')
    BY <1>1 DEF Command
  <1> QED BY <1>2 DEF CommandInv

\* When the harness has read the message, or answered, nothing is left of it.
LEMMA CommandDrained ==
    ASSUME StreamInv, pc["server"] \in Answered \cup {"read"}
    PROVE  pipe["server"] = <<>> /\ out["client"] = <<>>
  <1>1. PICK w \in Wires : Command(w, pc["server"], field["server"], pipe["server"], out["client"],
                                   m["server"], sent)
    BY CommandPick
  <1>2. CASE pc["server"] \in Answered
    BY <1>1, <1>2 DEF Command
  <1>3. CASE pc["server"] = "read"
    <2>1. Stream(w, "read", field["server"], pipe["server"], out["client"], m["server"])
      BY <1>1, <1>3 DEF Command, ReadStates
    <2> QED BY <2>1, CommandParts, StreamEnd
  <1> QED BY <1>2, <1>3

\* A control message has no string.
LEMMA NoString ==
    ASSUME NEW w, Sends(w, sent), w.type \in Control
    PROVE  sent.string_value = <<>>
  BY Constants DEF Sends

\* The harness reads.
LEMMA CommandRead ==
    ASSUME StreamInv, ReadMessage("server")
    PROVE  CommandInv'
  <1> DEFINE f == field["server"]
             p == pipe["server"]
             o == out["client"]
             g == m["server"]
             size == FieldSize("server")
  <1>0. TypeOK /\ "server" \in End /\ f \in Seq(Byte) /\ p \in Seq(Byte) /\ o \in Seq(Seq(Byte)) /\ g \in Message
    BY CommandParts, Peers DEF StreamInv
  <1>w. PICK w \in Wires : Command(w, pc["server"], f, p, o, g, sent)
    BY CommandPick
  <1>s. Sends(w, sent) /\ (pc["server"] \in ReadStates => Stream(w, pc["server"], f, p, o, g))
    BY <1>w DEF Command
  <1>1. CASE Recv("server")
    <2>1. /\ pc["server"] \in {"type", "size", "gobble", "string"}
          /\ pc' = pc /\ out' = out /\ m' = m /\ sent' = sent
      BY <1>0, <1>1, RecvEffect DEF Reading
    <2>2. PICK n \in 1..Len(p) : /\ field'["server"] = f \o SubSeq(p, 1, n)
                                 /\ pipe'["server"] = SubSeq(p, n + 1, Len(p))
      BY <1>0, <1>1, RecvEffect
    <2>3. Stream(w, pc["server"], f, p, o, g) /\ pc["server"] \in ReadStates /\ pc["server"] # "read"
      BY <1>s, <2>1 DEF ReadStates
    <2>4. Stream(w, pc["server"], f \o SubSeq(p, 1, n), SubSeq(p, n + 1, Len(p)), o, g)
      BY <1>0, <2>1, <2>3, StreamRecv
    <2>5. Stream(w, pc'["server"], field'["server"], pipe'["server"], out'["client"], m'["server"])
      BY <2>1, <2>2, <2>4
    <2>6. pc'["server"] \in ReadStates /\ pc'["server"] # "read"
      BY <2>1, <2>3
    <2> QED BY <1>s, <2>1, <2>5, <2>6, CommandOn
  <1>2. CASE RecvFails("server")
    <2>1. pc'["server"] = "bad" /\ sent' = sent
      BY <1>0, <1>2, TypeParts DEF RecvFails
    <2> QED BY <2>1, CommandOver DEF ReadStates, Answered
  <1>3. CASE ReadType("server")
    <2> DEFINE msg == [g EXCEPT !.type = ntohl(f)]
    <2>1. FieldDone("server", "type", "size", msg)
      BY <1>3 DEF ReadType
    <2>2. msg.type = ntohl(f)
      BY <1>0 DEF Message
    <2> HIDE DEF msg
    <2>3. /\ pc["server"] = "type" /\ Len(f) = size /\ out' = out /\ pipe' = pipe /\ sent' = sent
          /\ pc'["server"] = "size" /\ field'["server"] = <<>> /\ m'["server"] = msg
      BY <1>0, <2>1, FieldEffect
    <2>4. Len(f) = Word
      BY <2>3 DEF FieldSize
    <2>5. Stream(w, "type", f, p, o, g)
      BY <1>s, <2>3 DEF ReadStates
    <2>6. Stream(w, "size", <<>>, p, o, msg)
      BY <1>0, <2>2, <2>4, <2>5, StreamType
    <2>7. "size" \in ReadStates /\ "size" # "read"
      BY DEF ReadStates
    <2> QED BY <1>s, <2>3, <2>6, <2>7, CommandOn
  <1>4. CASE ReadSize("server")
    <2> DEFINE msg == [g EXCEPT !.size = ntohl(f)]
               s == AfterSize(g.type, ntohl(f))
    <2>1. FieldDone("server", "size", s, msg)
      BY <1>4 DEF ReadSize
    <2>2. msg.size = ntohl(f) /\ msg.type = g.type
      BY <1>0 DEF Message
    <2>s. s = AfterSize(g.type, ntohl(f))
      OBVIOUS
    <2> HIDE DEF msg, s
    <2>3. /\ pc["server"] = "size" /\ Len(f) = size /\ out' = out /\ pipe' = pipe /\ sent' = sent
          /\ pc'["server"] = s /\ field'["server"] = <<>> /\ m'["server"] = msg
      BY <1>0, <2>1, FieldEffect
    <2>4. Len(f) = Word
      BY <2>3 DEF FieldSize
    <2>5. Stream(w, "size", f, p, o, g)
      BY <1>s, <2>3 DEF ReadStates
    <2>6. /\ s \in {"read", "gobble", "string", "bad"}
          /\ s = "read" => w.type \in Control
          /\ s # "bad" => Stream(w, s, <<>>, p, o, msg)
      BY <1>0, <2>2, <2>4, <2>5, <2>s, StreamSize
    <2>7. CASE s = "bad"
      BY <2>3, <2>7, CommandOver DEF ReadStates, Answered
    <2>8. CASE s # "bad"
      <3>1. s \in ReadStates /\ (s = "read" => sent.string_value = <<>>)
        BY <1>s, <2>6, <2>8, NoString DEF ReadStates
      <3>2. Stream(w, pc'["server"], field'["server"], pipe'["server"], out'["client"], m'["server"])
        BY <2>3, <2>6, <2>8
      <3> QED BY <1>s, <2>3, <3>1, <3>2, CommandOn
    <2> QED BY <2>7, <2>8
  <1>5. CASE GobbleData("server")
    <2>1. FieldDone("server", "gobble", "read", g)
      BY <1>5 DEF GobbleData
    <2>3. /\ pc["server"] = "gobble" /\ Len(f) = size /\ out' = out /\ pipe' = pipe /\ sent' = sent
          /\ pc'["server"] = "read" /\ field'["server"] = <<>> /\ m'["server"] = g
      BY <1>0, <2>1, FieldEffect
    <2>4. Len(f) = g.size
      BY <2>3 DEF FieldSize
    <2>5. Stream(w, "gobble", f, p, o, g)
      BY <1>s, <2>3 DEF ReadStates
    <2>6. Stream(w, "read", <<>>, p, o, g)
      BY <1>0, <2>4, <2>5, StreamData
    <2>7. w.type \in Control
      BY <2>5 DEF Stream
    <2>8. "read" \in ReadStates /\ sent.string_value = <<>>
      BY <1>s, <2>7, NoString DEF ReadStates
    <2> QED BY <1>s, <2>3, <2>6, <2>8, CommandOn
  <1>6. CASE ReadString("server")
    <2>1. PICK v \in CStrings(SwapWords(f)) :
            FieldDone("server", "string", "read", [g EXCEPT !.string_value = v])
      BY <1>6 DEF ReadString
    <2> DEFINE msg == [g EXCEPT !.string_value = v]
    <2>2. msg.type = g.type /\ msg.string_value = v
      BY <1>0 DEF Message
    <2>d. FieldDone("server", "string", "read", msg)
      BY <2>1
    <2> HIDE DEF msg
    <2>3. /\ pc["server"] = "string" /\ Len(f) = size /\ out' = out /\ pipe' = pipe /\ sent' = sent
          /\ pc'["server"] = "read" /\ field'["server"] = <<>> /\ m'["server"] = msg
      BY <1>0, <2>d, FieldEffect
    <2>4. Len(f) = g.size
      BY <2>3 DEF FieldSize
    <2>5. Stream(w, "string", f, p, o, g)
      BY <1>s, <2>3 DEF ReadStates
    <2>6. f = w.bytes /\ Stream(w, "read", <<>>, p, o, msg)
      BY <1>0, <2>2, <2>4, <2>5, StreamData
    <2>7. ASSUME sent.string_value # <<>> PROVE Got(sent.string_value, v)
      <3>1. sent.string_value \in Strings /\ f = SwapWords(Padded(sent.string_value))
        BY <1>s, <2>6, <2>7 DEF Sends
      <3>2. v \in CStrings(SwapWords(SwapWords(Padded(sent.string_value))))
        BY <3>1
      <3> QED BY <3>1, <3>2, SwappedString
    <2>8. "read" \in ReadStates
      BY DEF ReadStates
    <2> HIDE DEF f, p, o, g
    <2>9. Stream(w, pc'["server"], field'["server"], pipe'["server"], out'["client"], m'["server"])
      BY <2>3, <2>6 DEF p, o
    <2> QED BY <1>s, <2>2, <2>3, <2>7, <2>8, <2>9, CommandOn
  <1> QED BY <1>1, <1>2, <1>3, <1>4, <1>5, <1>6 DEF ReadMessage

\* What a read of the client leaves alone.
LEMMA ReadFrame ==
    ASSUME TypeOK, NEW e \in End, ReadMessage(e)
    PROVE  /\ pc'[Peer(e)] = pc[Peer(e)] /\ field'[Peer(e)] = field[Peer(e)]
           /\ pipe'[Peer(e)] = pipe[Peer(e)] /\ m'[Peer(e)] = m[Peer(e)]
           /\ out' = out /\ closed' = closed /\ result' = result /\ sent' = sent
           /\ reset' = reset \/ (RecvFails(e) /\ reset' = reset \ {e})
  <1>1. CASE Recv(e)
    BY <1>1, RecvEffect
  <1>2. CASE RecvFails(e)
    <2>1. pc \in [End -> Places] /\ Peer(e) # e /\ Peer(e) \in End
      BY TypeParts, Peers
    <2> QED BY <1>2, <2>1 DEF RecvFails
  <1>3. ASSUME NEW state \in {"type", "size", "gobble", "string"}, NEW s, NEW msg,
               FieldDone(e, state, s, msg)
        PROVE  /\ pc'[Peer(e)] = pc[Peer(e)] /\ field'[Peer(e)] = field[Peer(e)]
               /\ pipe'[Peer(e)] = pipe[Peer(e)] /\ m'[Peer(e)] = m[Peer(e)]
               /\ out' = out /\ closed' = closed /\ result' = result /\ sent' = sent /\ reset' = reset
    BY <1>3, FieldEffect
  <1>4. CASE ReadType(e)
    BY <1>3, <1>4 DEF ReadType
  <1>5. CASE ReadSize(e)
    BY <1>3, <1>5 DEF ReadSize
  <1>6. CASE GobbleData(e)
    BY <1>3, <1>6 DEF GobbleData
  <1>7. CASE ReadString(e)
    BY <1>3, <1>7 DEF ReadString
  <1> QED BY <1>1, <1>2, <1>4, <1>5, <1>6, <1>7 DEF ReadMessage

\* Every step keeps the harness and the client's message in step.
LEMMA CommandNext ==
    ASSUME StreamInv, Next
    PROVE  CommandInv'
  <1>0. TypeOK /\ pc \in [End -> Places] /\ out \in [End -> Seq(Seq(Byte))]
    BY TypeParts DEF StreamInv
  <1>p. Peer("client") = "server" /\ Peer("server") = "client" /\ "client" \in End /\ "server" \in End
        /\ "client" # "server"
    BY Peers
  <1>c. ASSUME NEW s, Close("client", s), out' = out, pipe' = pipe, field' = field, m' = m, sent' = sent
        PROVE  CommandInv'
    BY <1>0, <1>c, <1>p, CloseEffect, CommandSame
  <1>1. CASE Send("client")
    <2> DEFINE f == field["server"]
               p == pipe["server"]
               o == out["client"]
               g == m["server"]
    <2>1. o # <<>> /\ pc' = pc /\ field' = field /\ m' = m /\ sent' = sent
      BY <1>0, <1>1, <1>p, SendEffect
    <2>2. PICK n \in 1..Len(Head(o)) :
            /\ pipe'["server"] = p \o SubSeq(Head(o), 1, n) /\ out'["client"] = Rest(o, n)
      BY <1>0, <1>1, <1>p, SendEffect
    <2>3. PICK w \in Wires : Command(w, pc["server"], f, p, o, g, sent)
      BY CommandPick
    <2>4. /\ Sends(w, sent) /\ (pc["server"] \in ReadStates => Stream(w, pc["server"], f, p, o, g))
          /\ pc["server"] \notin Answered
          /\ pc["server"] = "read" /\ sent.string_value # <<>> => Got(sent.string_value, g.string_value)
      BY <2>1, <2>3 DEF Command
    <2>5. CASE pc["server"] \in ReadStates
      <3>1. f \in Seq(Byte) /\ p \in Seq(Byte) /\ o \in Seq(Seq(Byte))
        BY CommandParts
      <3> HIDE DEF f, p, o, g
      <3>2. Stream(w, pc["server"], f, p \o SubSeq(Head(o), 1, n), Rest(o, n), g)
        BY <2>1, <2>4, <2>5, <3>1, StreamSend
      <3>3. Stream(w, pc'["server"], field'["server"], pipe'["server"], out'["client"], m'["server"])
        BY <2>1, <2>2, <3>2 DEF f, g
      <3>4. pc'["server"] \in ReadStates
        BY <2>1, <2>5
      <3>5. pc'["server"] = "read" /\ sent.string_value # <<>> =>
              Got(sent.string_value, m'["server"].string_value)
        BY <2>1, <2>4 DEF g
      <3> QED BY <2>1, <2>4, <3>3, <3>4, <3>5, CommandOn
    <2>6. CASE pc["server"] \notin ReadStates
      BY <2>1, <2>4, <2>6, CommandOver
    <2> QED BY <2>5, <2>6
  <1>2. CASE SendBroken("client")
    BY <1>2, <1>c DEF SendBroken
  <1>3. CASE ReadMessage("client")
    BY <1>0, <1>3, <1>p, ReadFrame, CommandSame
  <1>4. CASE ClientWaits
    <2>1. /\ pc'["server"] = pc["server"] /\ out' = out /\ pipe' = pipe /\ field' = field /\ m' = m
          /\ sent' = sent
      BY <1>0, <1>4, <1>p DEF ClientWaits
    <2> QED BY <2>1, CommandSame
  <1>5. CASE ClientReturns
    BY <1>5, <1>c DEF ClientReturns
  <1>6. CASE ClientQuits
    BY <1>6, <1>c DEF ClientQuits
  <1>7. CASE Send("server")
    <2>1. /\ pc' = pc /\ field' = field /\ m' = m /\ sent' = sent
          /\ out'["client"] = out["client"] /\ pipe'["server"] = pipe["server"]
      BY <1>0, <1>7, <1>p, SendEffect
    <2> QED BY <2>1, CommandSame
  <1>8. CASE SendBroken("server")
    <2>1. pc["server"] = "write" /\ pc'["server"] = "killed" /\ pipe' = pipe /\ out' = out /\ sent' = sent
      BY <1>0, <1>8, <1>p, CloseEffect DEF SendBroken
    <2>2. pipe["server"] = <<>> /\ out["client"] = <<>>
      BY <2>1, CommandDrained DEF Answered
    <2> QED BY <2>1, <2>2, CommandOver DEF ReadStates
  <1>9. CASE ReadMessage("server")
    BY <1>9, CommandRead
  <1>10. CASE ServerReplies
    <2>1. /\ pc["server"] = "read" /\ pc'["server"] = "write" /\ pipe' = pipe /\ sent' = sent
          /\ out'["client"] = out["client"]
      BY <1>0, <1>10, <1>p DEF ServerReplies
    <2>2. pipe["server"] = <<>> /\ out["client"] = <<>>
      BY <2>1, CommandDrained
    <2> QED BY <2>1, <2>2, CommandOver DEF ReadStates
  <1>11. CASE ServerCloses
    <2>1. pc["server"] = "write" /\ pc'["server"] = "closed" /\ pipe' = pipe /\ out' = out /\ sent' = sent
      BY <1>0, <1>11, <1>p, CloseEffect DEF ServerCloses
    <2>2. pipe["server"] = <<>> /\ out["client"] = <<>>
      BY <2>1, CommandDrained DEF Answered
    <2> QED BY <2>1, <2>2, CommandOver DEF ReadStates
  <1>12. CASE ServerGivesUp
    <2>1. pc'["server"] = "dead" /\ sent' = sent
      BY <1>0, <1>12, <1>p, CloseEffect DEF ServerGivesUp
    <2> QED BY <2>1, CommandOver DEF ReadStates, Answered
  <1>13. CASE UNCHANGED vars
    BY <1>13, CommandSame DEF vars
  <1> QED BY <1>1, <1>2, <1>3, <1>4, <1>5, <1>6, <1>7, <1>8, <1>9, <1>10, <1>11, <1>12, <1>13
          DEF Next, Client, Server, RecvEOF, Over

\* The reply is a message without data.
LEMMA ReplyWire ==
    ASSUME NEW message
    PROVE  /\ Reply(message) \in Wires /\ Reply(message).bytes = <<>> /\ Len(Reply(message).bytes) = 0
           /\ Reply(message).type = IF message.type = Expected THEN ExpectedDone ELSE kInvalidCommand
           /\ Reply(message).type \in Control /\ Fields(Reply(message)) = 2
  <1> DEFINE r == Reply(message)
             type == IF message.type = Expected THEN ExpectedDone ELSE kInvalidCommand
  <1>1. r = [type |-> type, bytes |-> <<>>]
    BY DEF Reply
  <1>2. type \in Control /\ type \in Uint32 /\ 0 \in Uint32
    BY Constants
  <1> HIDE DEF type, r
  <1>3. r.type = type /\ r.bytes = <<>>
    BY <1>1
  <1>4. <<>> \in Seq(Byte) /\ Len(<<>>) = 0
    OBVIOUS
  <1>5. r \in Wires
    <2>1. <<>> \in {b \in Seq(Byte) : Len(b) \in Uint32}
      BY <1>2, <1>4
    <2> QED BY <1>1, <1>2, <2>1 DEF Wires
  <1>6. Fields(r) = 2
    BY <1>3 DEF Fields
  <1> QED BY <1>2, <1>3, <1>4, <1>5, <1>6 DEF r, type

\* The states the invariant lets the two ends be in.
LEMMA AnswerParts ==
    ASSUME StreamInv
    PROVE  /\ Answer(pc["client"], pc["server"], field["client"], pipe["client"], out["server"],
                     m["client"], sent)
           /\ "client" \in reset => pc["server"] = "dead"
           /\ pc["client"] \in {"write", "type", "size", "read", "bad", "returned", "quit", "killed"}
           /\ pc["server"] \notin {"returned", "quit"}
           /\ pc["client"] = "bad" => pc["server"] = "dead"
           /\ pc["server"] \in Answered /\ pc["client"] \in {"write", "type", "size", "read"} =>
                Stream(Reply(sent), pc["client"], field["client"], pipe["client"], out["server"], m["client"])
           /\ pc["server"] \notin Answered =>
                /\ out["server"] = <<>> /\ pipe["client"] = <<>> /\ field["client"] = <<>>
                /\ pc["client"] \notin {"size", "read"}
  BY DEF StreamInv, AnswerInv, Answer

\* A step that is not about the reply.
LEMMA AnswerSame ==
    ASSUME StreamInv, pc' = pc, field'["client"] = field["client"],
           pipe'["client"] = pipe["client"], out'["server"] = out["server"],
           m'["client"] = m["client"], sent' = sent, reset' = reset
    PROVE  AnswerInv'
  BY DEF StreamInv, AnswerInv

\* The client is done.
LEMMA AnswerOver ==
    ASSUME StreamInv, NEW s \in {"returned", "quit", "killed"}, Close("client", s),
           out' = out, pipe' = pipe, field' = field, sent' = sent
    PROVE  AnswerInv'
  <1>0. TypeOK
    BY DEF StreamInv
  <1>1. pc'["client"] = s /\ pc'["server"] = pc["server"] /\ ("client" \in reset' => "client" \in reset)
    <2>1. /\ pc'["client"] = s /\ pc'["server"] = pc["server"]
          /\ reset' = reset \/ reset' = reset \cup {"server"}
      BY <1>0, Peers, CloseEffect
    <2>2. "client" # "server"
      OBVIOUS
    <2> QED BY <2>1, <2>2
  <1>2. Answer(pc'["client"], pc'["server"], field'["client"], pipe'["client"], out'["server"],
               m'["client"], sent')
    BY <1>1, AnswerParts DEF Answer
  <1> QED BY <1>1, <1>2, AnswerParts DEF AnswerInv

\* The client goes on with the reply.
LEMMA AnswerOn ==
    ASSUME StreamInv, pc["server"] \in Answered, pc'["server"] \in Answered, sent' = sent, reset' = reset,
           pc'["client"] \in {"write", "type", "size", "read"},
           Stream(Reply(sent), pc'["client"], field'["client"], pipe'["client"], out'["server"], m'["client"])
    PROVE  AnswerInv'
  <1>1. /\ pc'["client"] # "bad" /\ pc'["server"] \notin {"returned", "quit"}
        /\ pc["server"] # "dead"
    BY DEF Answered
  <1>2. Answer(pc'["client"], pc'["server"], field'["client"], pipe'["client"], out'["server"],
               m'["client"], sent')
    BY <1>1 DEF Answer
  <1> QED BY <1>1, <1>2, AnswerParts DEF AnswerInv

\* The harness has not answered, and does not now.
LEMMA AnswerLater ==
    ASSUME StreamInv, pc["server"] \notin Answered, pc'["server"] \notin Answered \cup {"returned", "quit"},
           sent' = sent, out'["server"] = out["server"], pipe'["client"] = pipe["client"],
           field'["client"] = field["client"],
           pc'["client"] \in {"write", "type", "bad", "returned", "quit", "killed"},
           pc'["client"] = "bad" => pc'["server"] = "dead",
           "client" \in reset' => pc'["server"] = "dead"
    PROVE  AnswerInv'
  <1>1. Answer(pc'["client"], pc'["server"], field'["client"], pipe'["client"], out'["server"],
               m'["client"], sent')
    BY AnswerParts DEF Answer
  <1> QED BY <1>1 DEF AnswerInv

\* The client reads.
LEMMA AnswerRead ==
    ASSUME StreamInv, ReadMessage("client")
    PROVE  AnswerInv'
  <1> DEFINE f == field["client"]
             p == pipe["client"]
             o == out["server"]
             g == m["client"]
             w == Reply(sent)
  <1>0. TypeOK /\ "client" \in End /\ f \in Seq(Byte) /\ p \in Seq(Byte) /\ o \in Seq(Seq(Byte)) /\ g \in Message
    BY CommandParts, Peers DEF StreamInv
  <1>w. w \in Wires /\ Len(w.bytes) = 0 /\ w.type \in Control
    BY ReplyWire
  <1>f. pc'["server"] = pc["server"] /\ out' = out /\ sent' = sent
    BY <1>0, Peers, ReadFrame
  <1>s. pc["server"] \in Answered /\ pc["client"] \in {"write", "type", "size", "read"} =>
          Stream(w, pc["client"], f, p, o, g)
    BY AnswerParts
  <1> HIDE DEF w
  <1>1. CASE Recv("client")
    <2>1. /\ pc["client"] \in {"type", "size", "gobble", "string"}
          /\ pc' = pc /\ out' = out /\ m' = m /\ sent' = sent /\ reset' = reset
      BY <1>0, <1>1, RecvEffect DEF Reading
    <2>2. PICK n \in 1..Len(p) : /\ field'["client"] = f \o SubSeq(p, 1, n)
                                 /\ pipe'["client"] = SubSeq(p, n + 1, Len(p))
      BY <1>0, <1>1, RecvEffect
    <2>3. p # <<>>
      BY <2>2
    <2>4. pc["server"] \in Answered /\ pc["client"] \in {"type", "size"}
      BY <2>1, <2>3, AnswerParts
    <2>5. Stream(w, pc["client"], f, p, o, g)
      BY <1>s, <2>4
    <2>6. Stream(w, pc["client"], f \o SubSeq(p, 1, n), SubSeq(p, n + 1, Len(p)), o, g)
      BY <1>0, <1>w, <2>1, <2>5, StreamRecv
    <2>7. Stream(w, pc'["client"], field'["client"], pipe'["client"], out'["server"], m'["client"])
      BY <2>1, <2>2, <2>6
    <2>8. pc'["client"] \in {"write", "type", "size", "read"} /\ pc'["server"] \in Answered
      BY <2>1, <2>4
    <2> QED BY <2>1, <2>4, <2>7, <2>8, AnswerOn DEF w
  <1>2. CASE RecvFails("client")
    <2>1. /\ "client" \in reset /\ pc'["client"] = "bad" /\ reset' = reset \ {"client"}
          /\ pipe' = pipe /\ field' = field
      BY <1>0, <1>2, TypeParts DEF RecvFails
    <2>2. pc["server"] = "dead"
      BY <2>1, AnswerParts
    <2>3. "dead" \notin Answered \cup {"returned", "quit"}
      BY DEF Answered
    <2> QED BY <1>f, <2>1, <2>2, <2>3, AnswerLater
  <1>3. CASE ReadType("client")
    <2> DEFINE msg == [g EXCEPT !.type = ntohl(f)]
    <2>1. FieldDone("client", "type", "size", msg)
      BY <1>3 DEF ReadType
    <2>2. msg.type = ntohl(f)
      BY <1>0 DEF Message
    <2> HIDE DEF msg
    <2>3. /\ pc["client"] = "type" /\ Len(f) = FieldSize("client") /\ out' = out /\ pipe' = pipe
          /\ pc'["client"] = "size" /\ field'["client"] = <<>> /\ m'["client"] = msg /\ reset' = reset
      BY <1>0, <2>1, FieldEffect
    <2>4. Len(f) = Word /\ Word # 0
      BY <2>3, Constants DEF FieldSize
    <2>5. pc["server"] \in Answered
      <3>1. f # <<>>
        BY <2>4
      <3> QED BY <3>1, AnswerParts
    <2>6. Stream(w, "type", f, p, o, g)
      BY <1>s, <2>3, <2>5
    <2>7. Stream(w, "size", <<>>, p, o, msg)
      BY <1>0, <1>w, <2>2, <2>4, <2>6, StreamType
    <2> QED BY <1>f, <2>3, <2>5, <2>7, AnswerOn DEF w
  <1>4. CASE ReadSize("client")
    <2> DEFINE msg == [g EXCEPT !.size = ntohl(f)]
               s == AfterSize(g.type, ntohl(f))
    <2>1. FieldDone("client", "size", s, msg)
      BY <1>4 DEF ReadSize
    <2>2. msg.size = ntohl(f) /\ msg.type = g.type
      BY <1>0 DEF Message
    <2>s. s = AfterSize(g.type, ntohl(f))
      OBVIOUS
    <2> HIDE DEF msg, s
    <2>3. /\ pc["client"] = "size" /\ Len(f) = FieldSize("client") /\ out' = out /\ pipe' = pipe
          /\ pc'["client"] = s /\ field'["client"] = <<>> /\ m'["client"] = msg /\ reset' = reset
      BY <1>0, <2>1, FieldEffect
    <2>4. Len(f) = Word
      BY <2>3 DEF FieldSize
    <2>5. pc["server"] \in Answered
      BY <2>3, AnswerParts
    <2>6. Stream(w, "size", f, p, o, g)
      BY <1>s, <2>3, <2>5
    <2>7. s = "read" /\ Stream(w, s, <<>>, p, o, msg)
      <3>1. /\ w.type \in Control /\ Len(w.bytes) = 0 => s = "read"
            /\ s # "bad" => Stream(w, s, <<>>, p, o, msg)
        BY <1>0, <1>w, <2>2, <2>4, <2>6, <2>s, StreamSize
      <3> QED BY <1>w, <3>1
    <2> QED BY <1>f, <2>3, <2>5, <2>7, AnswerOn DEF w
  <1>5. ASSUME NEW state \in {"gobble", "string"}, NEW s, NEW msg, FieldDone("client", state, s, msg)
        PROVE  FALSE
    BY <1>5, AnswerParts DEF FieldDone
  <1> QED BY <1>1, <1>2, <1>3, <1>4, <1>5 DEF ReadMessage, GobbleData, ReadString

\* A reader stays one, or gives up.
LEMMA ReadPlaces ==
    ASSUME TypeOK, NEW e \in End, ReadMessage(e)
    PROVE  Reading(e) /\ pc'[e] \in ReadStates \cup {"bad"}
  <1>1. CASE Recv(e)
    BY <1>1, RecvEffect DEF Reading, ReadStates
  <1>2. CASE RecvFails(e)
    BY <1>2, TypeParts DEF RecvFails
  <1>3. ASSUME NEW state \in {"type", "size", "gobble", "string"}, NEW s, NEW msg,
               FieldDone(e, state, s, msg)
        PROVE  Reading(e) /\ pc'[e] = s
    BY <1>3, FieldEffect DEF Reading
  <1>4. CASE ReadType(e)
    BY <1>3, <1>4 DEF ReadType, ReadStates
  <1>5. CASE ReadSize(e)
    <2>1. PICK s : s = AfterSize(m[e].type, ntohl(field[e]))
      OBVIOUS
    <2>2. s \in ReadStates \cup {"bad"}
      BY <2>1 DEF AfterSize, ReadStates
    <2>3. FieldDone(e, "size", s, [m[e] EXCEPT !.size = ntohl(field[e])])
      BY <1>5, <2>1 DEF ReadSize
    <2> QED BY <1>3, <2>2, <2>3
  <1>6. CASE GobbleData(e)
    BY <1>3, <1>6 DEF GobbleData, ReadStates
  <1>7. CASE ReadString(e)
    BY <1>3, <1>7 DEF ReadString, ReadStates
  <1> QED BY <1>1, <1>2, <1>4, <1>5, <1>6, <1>7 DEF ReadMessage

\* Every step keeps the client and the reply in step.
LEMMA AnswerNext ==
    ASSUME StreamInv, Next
    PROVE  AnswerInv'
  <1>0. TypeOK /\ pc \in [End -> Places] /\ out \in [End -> Seq(Seq(Byte))]
    BY TypeParts DEF StreamInv
  <1>p. Peer("client") = "server" /\ Peer("server") = "client" /\ "client" \in End /\ "server" \in End
        /\ "client" # "server"
    BY Peers
  <1>1. CASE Send("client")
    <2>1. /\ pc' = pc /\ field' = field /\ m' = m /\ sent' = sent /\ reset' = reset
          /\ out'["server"] = out["server"] /\ pipe'["client"] = pipe["client"]
      BY <1>0, <1>1, <1>p, SendEffect
    <2> QED BY <2>1, AnswerSame
  <1>2. CASE SendBroken("client")
    BY <1>2, AnswerOver DEF SendBroken
  <1>3. CASE ReadMessage("client")
    BY <1>3, AnswerRead
  <1>4. CASE ClientWaits
    <2>1. /\ pc["client"] = "write" /\ pc'["client"] = "type" /\ pc'["server"] = pc["server"]
          /\ out' = out /\ pipe' = pipe /\ field' = field /\ m' = m /\ sent' = sent /\ reset' = reset
      BY <1>0, <1>4, <1>p DEF ClientWaits
    <2>2. CASE pc["server"] \in Answered
      <3>1. Stream(Reply(sent), "write", field["client"], pipe["client"], out["server"], m["client"])
        BY <2>1, <2>2, AnswerParts
      <3>2. Stream(Reply(sent), "type", field["client"], pipe["client"], out["server"], m["client"])
        BY <3>1, ReplyWire, StreamWait
      <3> QED BY <2>1, <2>2, <3>2, AnswerOn
    <2>3. CASE pc["server"] \notin Answered
      BY <2>1, <2>3, AnswerParts, AnswerLater
    <2> QED BY <2>2, <2>3
  <1>5. CASE ClientReturns
    BY <1>5, AnswerOver DEF ClientReturns
  <1>6. CASE ClientQuits
    BY <1>6, AnswerOver DEF ClientQuits
  <1>7. CASE Send("server")
    <2> DEFINE f == field["client"]
               p == pipe["client"]
               o == out["server"]
               g == m["client"]
               w == Reply(sent)
    <2>1. /\ pc["server"] = "write" /\ o # <<>> /\ pc' = pc /\ field' = field /\ m' = m /\ sent' = sent
          /\ reset' = reset
      BY <1>0, <1>7, <1>p, SendEffect
    <2>2. PICK n \in 1..Len(Head(o)) :
            /\ pipe'["client"] = p \o SubSeq(Head(o), 1, n) /\ out'["server"] = Rest(o, n)
      BY <1>0, <1>7, <1>p, SendEffect
    <2>3. pc["server"] \in Answered
      BY <2>1 DEF Answered
    <2>4. CASE pc["client"] \in {"write", "type", "size", "read"}
      <3>1. f \in Seq(Byte) /\ p \in Seq(Byte) /\ o \in Seq(Seq(Byte)) /\ w \in Wires
        BY CommandParts, ReplyWire
      <3>2. Stream(w, pc["client"], f, p, o, g)
        BY <2>3, <2>4, AnswerParts
      <3>3. pc["client"] \in ReadStates \cup {"write"}
        BY <2>4 DEF ReadStates
      <3> HIDE DEF f, p, o, g, w
      <3>4. Stream(w, pc["client"], f, p \o SubSeq(Head(o), 1, n), Rest(o, n), g)
        BY <2>1, <3>1, <3>2, <3>3, StreamSend
      <3>5. Stream(w, pc'["client"], field'["client"], pipe'["client"], out'["server"], m'["client"])
        BY <2>1, <2>2, <3>4 DEF f, g
      <3>6. pc'["client"] \in {"write", "type", "size", "read"} /\ pc'["server"] \in Answered
        BY <2>1, <2>3, <2>4
      <3> QED BY <2>1, <2>3, <3>5, <3>6, AnswerOn DEF w
    <2>5. CASE pc["client"] \notin {"write", "type", "size", "read"}
      <3>1. Answer(pc'["client"], pc'["server"], field'["client"], pipe'["client"], out'["server"],
                   m'["client"], sent')
        BY <2>1, <2>3, <2>5, AnswerParts DEF Answer
      <3> QED BY <2>1, <3>1, AnswerParts DEF AnswerInv
    <2> QED BY <2>4, <2>5
  <1>c. ASSUME pc["server"] = "write", NEW s \in {"closed", "killed"}, Close("server", s),
               out' = out, pipe' = pipe, field' = field, m' = m, sent' = sent
        PROVE  AnswerInv'
    <2>1. pipe["server"] = <<>>
      BY <1>c, CommandDrained DEF Answered
    <2>2. pc'["server"] = s /\ pc'["client"] = pc["client"] /\ reset' = reset
      BY <1>0, <1>c, <1>p, <2>1, CloseEffect
    <2>3. pc["server"] \in Answered /\ s \in Answered /\ s \notin {"returned", "quit"}
      BY <1>c DEF Answered
    <2>4. Answer(pc'["client"], pc'["server"], field'["client"], pipe'["client"], out'["server"],
                 m'["client"], sent')
      BY <1>c, <2>2, <2>3, AnswerParts DEF Answer
    <2>5. "client" \notin reset
      BY <1>c, AnswerParts
    <2> QED BY <2>2, <2>4, <2>5 DEF AnswerInv
  <1>8. CASE SendBroken("server")
    BY <1>8, <1>c DEF SendBroken
  <1>9. CASE ReadMessage("server")
    <2>1. /\ pc["server"] \in {"type", "size", "gobble", "string"} /\ pc'["server"] \in ReadStates \cup {"bad"}
      BY <1>0, <1>9, <1>p, ReadPlaces DEF Reading
    <2>2. /\ pc'["client"] = pc["client"] /\ field'["client"] = field["client"]
          /\ pipe'["client"] = pipe["client"] /\ out' = out /\ sent' = sent
          /\ reset' = reset \/ reset' = reset \ {"server"}
      BY <1>0, <1>9, <1>p, ReadFrame
    <2>3. /\ pc["server"] \notin Answered /\ pc'["server"] \notin Answered \cup {"returned", "quit"}
          /\ pc["server"] # "dead"
      BY <2>1 DEF ReadStates, Answered
    <2>4. "client" \notin reset' /\ pc["client"] # "bad"
      BY <2>2, <2>3, AnswerParts
    <2>5. pc'["client"] \in {"write", "type", "bad", "returned", "quit", "killed"} /\ pc'["client"] # "bad"
      BY <2>2, <2>3, <2>4, AnswerParts
    <2> QED BY <2>2, <2>3, <2>4, <2>5, AnswerLater
  <1>10. CASE ServerReplies
    <2> DEFINE g == m["server"]
               type == IF g.type = Expected THEN ExpectedDone ELSE kInvalidCommand
               o == WriteCommand(type)
               w == Reply(sent)
    <2>1. /\ pc["server"] = "read" /\ pc'["server"] = "write" /\ pc'["client"] = pc["client"]
          /\ out'["server"] = o /\ pipe' = pipe /\ field' = field /\ m' = m /\ sent' = sent /\ reset' = reset
      BY <1>0, <1>10, <1>p DEF ServerReplies
    <2>2. g.type = sent.type
      <3>1. PICK x \in Wires : Command(x, pc["server"], field["server"], pipe["server"], out["client"], g, sent)
        BY CommandPick
      <3>2. Sends(x, sent) /\ Stream(x, "read", field["server"], pipe["server"], out["client"], g)
        BY <2>1, <3>1 DEF Command, ReadStates
      <3>3. g.type = x.type
        BY <3>2, CommandParts, StreamEnd
      <3> QED BY <3>2, <3>3 DEF Sends
    <2>3. /\ w \in Wires /\ w.bytes = <<>> /\ Len(w.bytes) = 0 /\ w.type = type /\ type \in Control
          /\ Fields(w) = 2
      BY <2>2, ReplyWire
    <2> HIDE DEF type, w
    <2>4. o \in Seq(Seq(Byte)) /\ Len(o) = 2 /\ o[1] = HtonlBytes(type) /\ o[2] = HtonlBytes(0)
      BY <2>3, WriteCommandFields
    <2> HIDE DEF o
    <2>5. Whole(w, 0, <<>>, <<>>, o)
      <3>1. /\ Len(o) = Fields(w) /\ o[1] = HtonlBytes(w.type) /\ o[2] = HtonlBytes(Len(w.bytes))
            /\ Fields(w) # 3
        BY <2>3, <2>4
      <3> QED BY <2>3, <2>4, <3>1, WholeStart, Zenon
    <2>6. /\ out["server"] = <<>> /\ pipe["client"] = <<>> /\ field["client"] = <<>>
          /\ pc["client"] \notin {"size", "read"} /\ pc["client"] # "bad" /\ "client" \notin reset
          /\ pc["client"] \in {"write", "type", "size", "read", "bad", "returned", "quit", "killed"}
      BY <2>1, AnswerParts DEF Answered
    <2>7. ASSUME pc["client"] \in {"write", "type"}
          PROVE  Stream(w, pc["client"], <<>>, <<>>, o, m["client"])
      <3>1. Behind(w, pc["client"]) = 0
        BY <2>3, <2>7, BehindPlaces
      <3> QED BY <2>5, <2>7, <3>1 DEF Stream
    <2>8. Answer(pc'["client"], pc'["server"], field'["client"], pipe'["client"], out'["server"],
                 m'["client"], sent')
      <3>1. "write" \in Answered
        BY DEF Answered
      <3>2. pc["client"] \in {"write", "type", "size", "read"} =>
              Stream(Reply(sent), pc["client"], <<>>, <<>>, o, m["client"])
        BY <2>6, <2>7 DEF w
      <3> QED BY <2>1, <2>6, <3>1, <3>2 DEF Answer
    <2> QED BY <2>1, <2>6, <2>8 DEF AnswerInv
  <1>11. CASE ServerCloses
    BY <1>11, <1>c DEF ServerCloses
  <1>12. CASE ServerGivesUp
    <2>1. /\ pc["server"] = "bad" /\ pc'["server"] = "dead" /\ pc'["client"] = pc["client"]
          /\ out' = out /\ pipe' = pipe /\ field' = field /\ sent' = sent
      BY <1>0, <1>12, <1>p, CloseEffect DEF ServerGivesUp
    <2>2. "bad" \notin Answered /\ "dead" \notin Answered \cup {"returned", "quit"}
      BY DEF Answered
    <2>3. pc["client"] \in {"write", "type", "bad", "returned", "quit", "killed"}
      BY <2>1, <2>2, AnswerParts
    <2> QED BY <2>1, <2>2, <2>3, AnswerLater
  <1>13. CASE UNCHANGED vars
    BY <1>13, AnswerSame DEF vars
  <1> QED BY <1>1, <1>2, <1>3, <1>4, <1>5, <1>6, <1>7, <1>8, <1>9, <1>10, <1>11, <1>12, <1>13
          DEF Next, Client, Server, RecvEOF, Over

-----------------------------------------------------------------------------
(* The start *)

\* A message of the client, as it is written.
LEMMA Start ==
    ASSUME NEW w \in Wires, Sends(w, sent), NEW o \in Seq(Seq(Byte)), Len(o) = Fields(w),
           o[1] = HtonlBytes(w.type), o[2] = HtonlBytes(Len(w.bytes)), Fields(w) = 3 => o[3] = w.bytes,
           out = [e \in End |-> IF e = "client" THEN o ELSE <<>>],
           pc = [e \in End |-> IF e = "client" THEN "write" ELSE "type"],
           pipe = [e \in End |-> <<>>], field = [e \in End |-> <<>>],
           m = [e \in End |-> NoMessage],
           closed = {}, reset = {}, result = "none"
    PROVE  StreamInv
  <1>1. /\ out["client"] = o /\ out["server"] = <<>> /\ pc["client"] = "write" /\ pc["server"] = "type"
        /\ pipe["client"] = <<>> /\ pipe["server"] = <<>> /\ field["client"] = <<>> /\ field["server"] = <<>>
        /\ m["client"] = NoMessage /\ m["server"] = NoMessage
    BY Peers
  <1>2. TypeOK
    <2>1. Capacity \in Nat /\ Word \in Nat /\ Len(<<>>) = 0 /\ <<>> \in Seq(Byte) /\ <<>> \in Seq(Seq(Byte))
      BY Constants
    <2>2. NoMessage \in Message
      BY <2>1 DEF NoMessage, Message
    <2>3. /\ pc \in [End -> Places] /\ out \in [End -> Seq(Seq(Byte))]
          /\ pipe \in [End -> Seq(Byte)] /\ field \in [End -> Seq(Byte)] /\ m \in [End -> Message]
      <3>1. pc \in [End -> Places]
        BY DEF Places
      <3>2. out \in [End -> Seq(Seq(Byte))]
        BY <2>1
      <3>3. pipe \in [End -> Seq(Byte)] /\ field \in [End -> Seq(Byte)] /\ m \in [End -> Message]
        BY <2>1, <2>2
      <3> QED BY <3>1, <3>2, <3>3
    <2>4. \A e \in End : Len(pipe[e]) <= Capacity
      BY <2>1
    <2>5. ASSUME NEW e \in End, Reading(e) PROVE Len(field[e]) <= FieldSize(e)
      <3>1. e = "server"
        BY <1>1, <2>5, Peers DEF Reading
      <3>2. FieldSize(e) = Word /\ Len(field[e]) = 0
        BY <1>1, <2>1, <3>1 DEF FieldSize
      <3> QED BY <2>1, <3>2
    <2>6. closed \subseteq End /\ reset \subseteq End /\ result \in {"none", "-3", "0", "1"}
      OBVIOUS
    <2> QED BY <2>3, <2>4, <2>5, <2>6, TypeParts
  <1>3. CommandInv
    <2>1. Whole(w, 0, <<>>, <<>>, o)
      BY WholeStart
    <2>2. Stream(w, "type", <<>>, <<>>, o, NoMessage)
      BY <2>1, BehindPlaces DEF Stream
    <2>3. "type" \in ReadStates /\ "type" \notin Answered
      BY DEF ReadStates, Answered
    <2>4. Command(w, "type", <<>>, <<>>, o, NoMessage, sent)
      BY <2>2, <2>3 DEF Command
    <2>5. Command(w, pc["server"], field["server"], pipe["server"], out["client"], m["server"], sent)
      BY <1>1, <2>4
    <2> QED BY <2>5 DEF CommandInv
  <1>4. AnswerInv
    BY <1>1 DEF AnswerInv, Answer, Answered
  <1> QED BY <1>2, <1>3, <1>4 DEF StreamInv

\* Whatever the client sets out to send, the invariant holds at the start.
LEMMA StreamInit == Init => StreamInv
  <1> SUFFICES ASSUME Init PROVE StreamInv
    OBVIOUS
  <1>0. /\ pc = [e \in End |-> IF e = "client" THEN "write" ELSE "type"]
        /\ pipe = [e \in End |-> <<>>] /\ field = [e \in End |-> <<>>]
        /\ m = [e \in End |-> NoMessage]
        /\ closed = {} /\ reset = {} /\ result = "none"
    BY DEF Init
  <1>1. ASSUME NEW msg \in Messages, sent = [type |-> msg.type, string_value |-> <<>>],
               out = [e \in End |-> IF e = "client" THEN WriteForeign(msg) ELSE <<>>]
        PROVE  StreamInv
    <2> DEFINE o == WriteForeign(msg)
               b == msg.bytes
               w == [type |-> msg.type, bytes |-> b]
               x == HtonlBytes(msg.type)
               y == HtonlBytes(Len(b))
    <2>1. msg.type \in Uint32 /\ b \in Seq(Byte) /\ Len(b) \in Uint32
      BY MessageStreamAssumption
    <2>2. w \in Wires /\ w.type = msg.type /\ w.bytes = b
      BY <2>1 DEF Wires
    <2>3. x \in Seq(Byte) /\ y \in Seq(Byte)
      BY <2>1, WordBytes
    <2>4. Sends(w, sent)
      <3>1. sent.type = msg.type /\ sent.string_value = <<>>
        BY <1>1
      <3> QED BY <2>2, <3>1 DEF Sends
    <2>5. o = <<x, y>> \o IF b = <<>> THEN <<>> ELSE <<b>>
      BY DEF WriteForeign
    <2> HIDE DEF o, w, x, y, b
    <2>6. /\ o \in Seq(Seq(Byte)) /\ Len(o) = (IF b = <<>> THEN 2 ELSE 3) /\ o[1] = x /\ o[2] = y
          /\ b # <<>> => o[3] = b
      <3>1. CASE b = <<>>
        <4>1. o = <<x, y>> \o <<>>
          BY <2>5, <3>1
        <4>2. o \in Seq(Seq(Byte)) /\ Len(o) = 2 /\ o[1] = x /\ o[2] = y
          BY <2>3, <4>1
        <4> QED BY <3>1, <4>2
      <3>2. CASE b # <<>>
        <4>1. o = <<x, y>> \o <<b>>
          BY <2>5, <3>2
        <4>2. o \in Seq(Seq(Byte)) /\ Len(o) = 3 /\ o[1] = x /\ o[2] = y /\ o[3] = b
          BY <2>1, <2>3, <4>1
        <4> QED BY <3>2, <4>2
      <3> QED BY <3>1, <3>2
    <2>7. /\ Len(o) = Fields(w) /\ o[1] = HtonlBytes(w.type) /\ o[2] = HtonlBytes(Len(w.bytes))
          /\ Fields(w) = 3 => o[3] = w.bytes
      <3>1. Fields(w) = IF b = <<>> THEN 2 ELSE 3
        BY <2>2 DEF Fields
      <3>2. 2 # 3
        OBVIOUS
      <3> QED BY <2>2, <2>6, <3>1, <3>2 DEF x, y
    <2>8. out = [e \in End |-> IF e = "client" THEN o ELSE <<>>]
      BY <1>1 DEF o
    <2> QED BY <1>0, <2>2, <2>4, <2>6, <2>7, <2>8, Start
  <1>2. ASSUME NEW s \in Strings, sent = [type |-> kCheckpoint, string_value |-> s],
               out = [e \in End |-> IF e = "client" THEN WriteCheckpoint(s) ELSE <<>>]
        PROVE  StreamInv
    <2> DEFINE o == WriteCheckpoint(s)
               b == SwapWords(Padded(s))
               w == [type |-> kCheckpoint, bytes |-> b]
               x == HtonlBytes(kCheckpoint)
               y == HtonlBytes(RoundUp(Len(s)))
    <2>1. /\ s \in Seq(Byte) /\ Len(s) \in Nat \ {0} /\ Padded(s) \in Seq(Byte)
          /\ Len(Padded(s)) = RoundUp(Len(s)) /\ RoundUp(Len(s)) \in Uint32
      BY PaddedString
    <2>2. PICK c \in Nat : RoundUp(Len(s)) = c * Word
      BY <2>1, RoundedUp
    <2>3. b \in Seq(Byte) /\ Len(b) = RoundUp(Len(s))
      BY <2>1, <2>2, SwapSwap
    <2>4. RoundUp(Len(s)) \in Nat /\ Len(s) <= RoundUp(Len(s)) /\ kCheckpoint \in Uint32
      BY <2>1, RoundedUp, Constants
    <2> DEFINE n == RoundUp(Len(s))
    <2>5. n # 0
      <3>1. Len(s) \in Nat /\ Len(s) # 0 /\ n \in Nat /\ Len(s) <= n
        BY <2>1, <2>4
      <3> HIDE DEF n
      <3> QED BY <3>1
    <2>6. x \in Seq(Byte) /\ y \in Seq(Byte)
      BY <2>1, <2>4, WordBytes
    <2>7. Sends(w, sent)
      BY <1>2 DEF Sends
    <2>8. o = <<x, y, b>>
      BY DEF WriteCheckpoint
    <2> HIDE DEF b
    <2>9. w \in Wires /\ w.type = kCheckpoint /\ w.bytes = b
      BY <2>1, <2>3, <2>4 DEF Wires
    <2> HIDE DEF o, w, x, y, n
    <2>10. o \in Seq(Seq(Byte)) /\ Len(o) = 3 /\ o[1] = x /\ o[2] = y /\ o[3] = b
      BY <2>3, <2>6, <2>8
    <2>11. Fields(w) = 3
      <3>1. b # <<>>
        BY <2>3, <2>5 DEF n
      <3> QED BY <2>9, <3>1 DEF Fields
    <2>12. o[1] = HtonlBytes(w.type) /\ o[2] = HtonlBytes(Len(w.bytes)) /\ o[3] = w.bytes
      BY <2>3, <2>9, <2>10 DEF x, y
    <2>13. out = [e \in End |-> IF e = "client" THEN o ELSE <<>>]
      BY <1>2 DEF o
    <2> QED BY <1>0, <2>7, <2>9, <2>10, <2>11, <2>12, <2>13, Start
  <1>3. ASSUME NEW type \in Control, sent = [type |-> type, string_value |-> <<>>],
               out = [e \in End |-> IF e = "client" THEN WriteCommand(type) ELSE <<>>]
        PROVE  StreamInv
    <2> DEFINE o == WriteCommand(type)
               w == [type |-> type, bytes |-> <<>>]
    <2>1. type \in Uint32 /\ 0 \in Uint32 /\ Len(<<>>) = 0 /\ <<>> \in Seq(Byte)
      BY Constants
    <2>2. w \in Wires /\ w.type = type /\ w.bytes = <<>>
      <3>1. <<>> \in {b \in Seq(Byte) : Len(b) \in Uint32}
        BY <2>1
      <3> QED BY <2>1, <3>1 DEF Wires
    <2>3. Sends(w, sent)
      <3>1. sent.type = type /\ sent.string_value = <<>>
        BY <1>3
      <3> QED BY <2>2, <3>1 DEF Sends
    <2>4. /\ o \in Seq(Seq(Byte)) /\ Len(o) = 2 /\ o[1] = HtonlBytes(type) /\ o[2] = HtonlBytes(0)
      BY WriteCommandFields
    <2>5. Fields(w) = 2 /\ Fields(w) # 3
      BY <2>2 DEF Fields
    <2> HIDE DEF o, w
    <2>6. /\ Len(o) = Fields(w) /\ o[1] = HtonlBytes(w.type) /\ o[2] = HtonlBytes(Len(w.bytes))
      BY <2>1, <2>2, <2>4, <2>5
    <2>7. out = [e \in End |-> IF e = "client" THEN o ELSE <<>>]
      BY <1>3 DEF o
    <2> QED BY <1>0, <2>2, <2>3, <2>4, <2>5, <2>6, <2>7, Start
  <1> QED BY <1>1, <1>2, <1>3 DEF Init

\* The invariant is kept by every step.
LEMMA StreamNext == StreamInv /\ [Next]_vars => StreamInv'
  <1> SUFFICES ASSUME StreamInv, [Next]_vars PROVE StreamInv'
    OBVIOUS
  <1>1. CASE Next
    BY <1>1, TypeNext, CommandNext, AnswerNext DEF StreamInv
  <1>2. CASE UNCHANGED vars
    <2>1. TypeOK'
      BY <1>2 DEF vars, StreamInv, TypeOK, Reading, FieldSize
    <2>2. CommandInv' /\ AnswerInv'
      BY <1>2, CommandSame, AnswerSame DEF vars
    <2> QED BY <2>1, <2>2 DEF StreamInv
  <1> QED BY <1>1, <1>2

(***************************************************************************)
(* In every state of BaseSocket's exchange the bytes read, the bytes in    *)
(* the kernel and the bytes still to be sent make up the message, in both  *)
(* directions.                                                             *)
(***************************************************************************)
THEOREM StreamInvariant == Spec => []StreamInv
  <1>1. Init => StreamInv
    BY StreamInit
  <1>2. StreamInv /\ [Next]_vars => StreamInv'
    BY StreamNext
  <1> QED BY <1>1, <1>2, PTL DEF Spec

(***************************************************************************)
(* The variables keep their types, and no recv of ReadIntFromSocket,       *)
(* GobbleData or ReadStringFromSocket writes past the end of its buffer.   *)
(***************************************************************************)
THEOREM TypeCorrect == Spec => []TypeOK
  <1>1. StreamInv => TypeOK
    BY DEF StreamInv
  <1> QED BY <1>1, StreamInvariant, PTL

(***************************************************************************)
(* ReadMessageFromSocket gives the harness the type and the string that    *)
(* WriteMessageToSocket was given, however send and recv cut them up.      *)
(***************************************************************************)
THEOREM MessageArrivesIntact == Spec => []MessageIntact
  <1>1. StreamInv => MessageIntact
    <2> SUFFICES ASSUME StreamInv, pc["server"] = "read" PROVE MessageIntact
      BY DEF MessageIntact
    <2>1. PICK w \in Wires : Command(w, pc["server"], field["server"], pipe["server"], out["client"],
                                     m["server"], sent)
      BY CommandPick
    <2>2. /\ Sends(w, sent) /\ Stream(w, "read", field["server"], pipe["server"], out["client"], m["server"])
          /\ sent.string_value # <<>> => Got(sent.string_value, m["server"].string_value)
      BY <2>1 DEF Command, ReadStates
    <2>3. m["server"].type = sent.type
      BY <2>2 DEF Sends, Stream
    <2> QED BY <2>2, <2>3 DEF MessageIntact, Got
  <1> QED BY <1>1, StreamInvariant, PTL

(***************************************************************************)
(* When ReadMessageFromSocket returns nothing of the message is left in    *)
(* the stream or to be sent, and so it is until CloseClient.               *)
(***************************************************************************)
THEOREM StreamIsDrained == Spec => []StreamDrained
  <1>1. StreamInv => StreamDrained
    BY CommandDrained DEF StreamDrained, Answered
  <1> QED BY <1>1, StreamInvariant, PTL

(***************************************************************************)
(* ClientCommandSender::Run returns 1 exactly for the command the harness  *)
(* waited for, 0 for another, and -3 only when the harness gave up.        *)
(***************************************************************************)
THEOREM ResultIsTruthful == Spec => []ResultTruthful
  <1>1. Init => ResultTruthful
    BY DEF Init, ResultTruthful
  <1>2. StreamInv /\ ResultTruthful /\ [Next]_vars => ResultTruthful'
    <2> SUFFICES ASSUME StreamInv, ResultTruthful, [Next]_vars PROVE ResultTruthful'
      OBVIOUS
    <2>0. TypeOK /\ pc \in [End -> Places]
      BY TypeParts DEF StreamInv
    <2>s. sent' = sent
      BY DEF Next, Client, Server, ReadMessage, Send, SendBroken, Recv, RecvFails, RecvEOF, FieldDone,
             ReadType, ReadSize, GobbleData, ReadString, ClientWaits, ClientReturns, ClientQuits,
             ServerReplies, ServerCloses, ServerGivesUp, Over, vars
    <2>d. pc["server"] = "dead" => pc'["server"] = "dead"
      <3> SUFFICES ASSUME pc["server"] = "dead" PROVE pc'["server"] = "dead"
        OBVIOUS
      <3>1. ASSUME NEW s, Close("client", s) PROVE pc'["server"] = "dead"
        BY <2>0, <3>1, Peers, CloseEffect
      <3>2. CASE Send("client")
        BY <3>2 DEF Send
      <3>3. CASE SendBroken("client") \/ ClientReturns \/ ClientQuits
        BY <3>1, <3>3 DEF SendBroken, ClientReturns, ClientQuits
      <3>4. CASE ReadMessage("client")
        BY <2>0, <3>4, Peers, ReadFrame
      <3>5. CASE ClientWaits
        BY <2>0, <3>5, Peers DEF ClientWaits
      <3>6. CASE Server
        <4>1. ~ReadMessage("server")
          BY <2>0, Peers, ReadPlaces DEF Reading
        <4> QED BY <3>6, <4>1 DEF Server, Send, SendBroken, ServerReplies, ServerCloses, ServerGivesUp
      <3>7. CASE UNCHANGED vars
        BY <3>7 DEF vars
      <3> QED BY <3>2, <3>3, <3>4, <3>5, <3>6, <3>7 DEF Next, Client, RecvEOF, Over
    <2>1. CASE ClientReturns
      <3>1. /\ pc["client"] \in {"read", "bad"}
            /\ result' = IF pc["client"] = "bad" THEN "-3"
                         ELSE IF m["client"].type = ExpectedDone THEN "1" ELSE "0"
        BY <2>1 DEF ClientReturns
      <3>2. CASE pc["client"] = "bad"
        <4>1. pc["server"] = "dead" /\ result' = "-3"
          BY <3>1, <3>2, AnswerParts
        <4> QED BY <2>d, <4>1 DEF ResultTruthful
      <3>3. CASE pc["client"] = "read"
        <4>1. Stream(Reply(sent), "read", field["client"], pipe["client"], out["server"], m["client"])
          BY <3>3, AnswerParts
        <4>2. m["client"].type = IF sent.type = Expected THEN ExpectedDone ELSE kInvalidCommand
          BY <4>1, ReplyWire DEF Stream
        <4>3. ExpectedDone # kInvalidCommand
          BY Constants
        <4>4. result' = IF sent.type = Expected THEN "1" ELSE "0"
          BY <3>1, <3>3, <4>2, <4>3
        <4> QED BY <2>s, <4>4 DEF ResultTruthful
      <3> QED BY <3>1, <3>2, <3>3
    <2>2. CASE ~ClientReturns
      <3>1. result' = result
        BY <2>2 DEF Next, Client, Server, ReadMessage, Send, SendBroken, Recv, RecvFails, RecvEOF, FieldDone,
             ReadType, ReadSize, GobbleData, ReadString, ClientWaits, ClientQuits,
             ServerReplies, ServerCloses, ServerGivesUp, Over, vars
      <3> QED BY <2>s, <2>d, <3>1 DEF ResultTruthful
    <2> QED BY <2>1, <2>2
  <1> QED BY <1>1, <1>2, StreamInvariant, PTL DEF Spec
=============================================================================
