--------------------------- MODULE CowBrdProofs ---------------------------
(***************************************************************************)
(* Proofs about the copy-on-write RAM disk, for any number of disks,       *)
(* snapshots, pages and threads and any set of bios.  The results rest on  *)
(* the rules of use, one more at each stage:                               *)
(*   none        every variable keeps its type;                            *)
(*   quiet       BUG_ON(!page) is not hit, and a frozen disk does not      *)
(*               change;                                                   *)
(*   disjoint    what was written stays (no bvec may cross a page of a     *)
(*               snapshot: copy_to_brd copies the parent's page again);    *)
(*   frozen      a read returns what the device holds, and the driver      *)
(*               implements SnapshotDisk.                                  *)
(***************************************************************************)
EXTENDS CowBrd, TLAPS

-----------------------------------------------------------------------------
(* Addresses *)

(* Devices and addresses *)

\* A disk is a device and is no snapshot; a snapshot's parent is a disk.
LEMMA Devices ==
    /\ Disk \subseteq Dev
    /\ \A d \in Dev : parent_brd(d) \in Disk
    /\ \A d \in Disk : ~is_snapshot(d) /\ parent_brd(d) = d
    /\ \A d \in Dev : ~is_snapshot(d) => d \in Disk
  <1>1. num_disks \in Nat \ {0} /\ num_snapshots \in Nat
    BY CowBrdAssumption
  <1>2. num_disks * (1 + num_snapshots) \in Nat /\ num_disks <= num_disks * (1 + num_snapshots)
    BY <1>1
  <1> QED BY <1>1, <1>2 DEF Dev, Disk, parent_brd, is_snapshot

\* A sector is known by its page and its place on it.
LEMMA Sectors ==
    /\ \A s \in Nat : PageOf(s) \in Nat /\ OffsetOf(s) \in Offset
    /\ \A s \in Nat : s = PageOf(s) * PageSectors + OffsetOf(s)
    /\ \A s \in Sector : s \in Nat /\ PageOf(s) \in Page
    /\ \A r, s \in Nat : PageOf(r) = PageOf(s) /\ OffsetOf(r) = OffsetOf(s) => r = s
  <1>1. PageSectors \in Nat \ {0} /\ NumPages \in Nat \ {0}
    BY CowBrdAssumption
  <1>2. \A s \in Nat : PageOf(s) \in Nat /\ OffsetOf(s) \in Offset
    BY <1>1 DEF PageOf, OffsetOf, Offset
  <1>3. \A s \in Nat : s = PageOf(s) * PageSectors + OffsetOf(s)
    BY <1>1 DEF PageOf, OffsetOf, Offset
  <1>4. ASSUME NEW s \in Sector PROVE s \in Nat /\ PageOf(s) \in Page
    <2>1. s \in Nat /\ s < NumPages * PageSectors
      BY <1>1 DEF Sector
    <2>2. PageOf(s) < NumPages
      <3> SUFFICES ASSUME PageOf(s) >= NumPages PROVE FALSE
        BY <1>1, <1>2, <2>1
      <3>1. PageOf(s) * PageSectors >= NumPages * PageSectors
        BY <1>1, <1>2, <2>1
      <3> QED BY <1>1, <1>2, <1>3, <2>1, <3>1 DEF Offset
    <2> QED BY <1>1, <1>2, <2>1, <2>2 DEF Page
  <1>5. \A r, s \in Nat : PageOf(r) = PageOf(s) /\ OffsetOf(r) = OffsetOf(s) => r = s
    BY <1>3
  <1> QED BY <1>2, <1>3, <1>4, <1>5

\* Below the end of the disk.
LEMMA Below == \A s \in Nat : s < NumPages * PageSectors => s \in Sector
  BY CowBrdAssumption DEF Sector

\* What a bvec is.
Bvecs == [sector : Nat, len : 1..PageSectors]

\* The parts of a bvec: each on a page of its own, and together the bvec.
LEMMA Parts ==
    ASSUME NEW v \in Bvecs
    PROVE  /\ \A h \in {1, 2} : \A s \in PartSectors(v, h) :
                /\ s \in Sector /\ PageOf(s) = PageOf(v.sector) + h - 1
                /\ v.sector <= s /\ s < v.sector + v.len
           /\ \A s \in Sector : v.sector <= s /\ s < v.sector + v.len
                => s \in PartSectors(v, 1) \/ s \in PartSectors(v, 2)
           /\ v.sector \in Sector => v.sector \in PartSectors(v, 1)
  <1> DEFINE P == PageOf(v.sector)
             end == (P + 1) * PageSectors
  <1>1. PageSectors \in Nat \ {0} /\ v.sector \in Nat /\ v.len \in 1..PageSectors
    BY CowBrdAssumption DEF Bvecs
  <1>2. P \in Nat /\ OffsetOf(v.sector) \in Offset /\ v.sector = P * PageSectors + OffsetOf(v.sector)
    BY <1>1, Sectors
  <1> HIDE DEF P
  <1>3. end = P * PageSectors + PageSectors /\ P * PageSectors \in Nat
    BY <1>1, <1>2
  <1>4. P * PageSectors <= v.sector /\ v.sector < end /\ end \in Nat
    BY <1>1, <1>2, <1>3 DEF Offset
  <1> HIDE DEF end
  <1>5. ASSUME NEW s \in Sector, v.sector <= s, s < end PROVE PageOf(s) = P
    <2>1. s \in Nat /\ PageOf(s) \in Nat /\ OffsetOf(s) \in Offset /\ s = PageOf(s) * PageSectors + OffsetOf(s)
      BY Sectors
    <2>2. ~(PageOf(s) >= P + 1)
      <3> SUFFICES ASSUME PageOf(s) >= P + 1 PROVE FALSE
        OBVIOUS
      <3>1. PageOf(s) * PageSectors >= (P + 1) * PageSectors
        BY <1>1, <1>2, <2>1
      <3>2. PageOf(s) * PageSectors \in Nat /\ PageOf(s) * PageSectors >= end /\ OffsetOf(s) \in Nat
        BY <1>1, <2>1, <3>1 DEF Offset, end
      <3> QED BY <1>4, <1>5, <2>1, <3>2
    <2>3. ~(PageOf(s) + 1 <= P)
      <3> SUFFICES ASSUME PageOf(s) + 1 <= P PROVE FALSE
        OBVIOUS
      <3>1. (PageOf(s) + 1) * PageSectors <= P * PageSectors
        BY <1>1, <1>2, <2>1
      <3>2. (PageOf(s) + 1) * PageSectors = PageOf(s) * PageSectors + PageSectors
        BY <1>1, <2>1
      <3>3. /\ PageOf(s) * PageSectors \in Nat /\ OffsetOf(s) \in Nat
            /\ OffsetOf(s) < PageSectors
        BY <1>1, <2>1 DEF Offset
      <3>4. s < P * PageSectors
        BY <1>1, <1>3, <2>1, <3>1, <3>2, <3>3
      <3> QED BY <1>1, <1>3, <1>4, <1>5, <2>1, <3>4
    <2> QED BY <1>2, <2>1, <2>2, <2>3
  <1>6. ASSUME NEW s \in Sector, end <= s, s < v.sector + v.len PROVE PageOf(s) = P + 1
    <2>1. s \in Nat /\ PageOf(s) \in Nat /\ OffsetOf(s) \in Offset /\ s = PageOf(s) * PageSectors + OffsetOf(s)
      BY Sectors
    <2>2. ~(PageOf(s) >= P + 2)
      <3> SUFFICES ASSUME PageOf(s) >= P + 2 PROVE FALSE
        OBVIOUS
      <3>1. PageOf(s) * PageSectors >= (P + 2) * PageSectors
        BY <1>1, <1>2, <2>1
      <3>2. (P + 2) * PageSectors = P * PageSectors + PageSectors + PageSectors
        BY <1>1, <1>2
      <3>3. s < end + PageSectors
        BY <1>1, <1>4, <1>6, <2>1
      <3> QED BY <1>1, <1>3, <1>6, <2>1, <3>1, <3>2, <3>3 DEF Offset
    <2>3. ~(PageOf(s) + 1 <= P + 1)
      <3> SUFFICES ASSUME PageOf(s) + 1 <= P + 1 PROVE FALSE
        OBVIOUS
      <3>1. (PageOf(s) + 1) * PageSectors <= end
        BY <1>1, <1>2, <2>1 DEF end
      <3>2. (PageOf(s) + 1) * PageSectors = PageOf(s) * PageSectors + PageSectors
        BY <1>1, <2>1
      <3> QED BY <1>1, <1>4, <1>6, <2>1, <3>1, <3>2 DEF Offset
    <2> QED BY <1>2, <2>1, <2>2, <2>3
  <1>7. \A s \in Sector : s \in Nat
    BY Sectors
  <1>8. \A h \in {1, 2} : \A s : s \in PartSectors(v, h) <=>
            s \in Sector /\ v.sector <= s /\ s < v.sector + v.len /\ (h = 1) = (s < end)
    BY DEF PartSectors, P, end
  <1>9. ASSUME NEW h \in {1, 2}, NEW s \in PartSectors(v, h)
        PROVE  /\ s \in Sector /\ PageOf(s) = P + h - 1
               /\ v.sector <= s /\ s < v.sector + v.len
    <2>1. s \in Sector /\ v.sector <= s /\ s < v.sector + v.len /\ (h = 1) = (s < end) /\ s \in Nat
      BY <1>7, <1>8
    <2>2. CASE h = 1
      BY <1>2, <1>5, <2>1, <2>2
    <2>3. CASE h = 2
      BY <1>2, <1>4, <1>6, <2>1, <2>3
    <2> QED BY <2>2, <2>3
  <1>10. ASSUME NEW s \in Sector, v.sector <= s, s < v.sector + v.len
         PROVE  s \in PartSectors(v, 1) \/ s \in PartSectors(v, 2)
    BY <1>8, <1>10
  <1>11. v.sector \in Sector => v.sector \in PartSectors(v, 1)
    BY <1>1, <1>4, <1>8
  <1> QED BY <1>9, <1>10, <1>11 DEF P

\* The sectors S are on page p.
OnPage(S, p) == S \subseteq Sector /\ \A s \in S : PageOf(s) = p

\* A page with some of its sectors set.
LEMMA Filled ==
    ASSUME NEW q \in [Offset -> Val], NEW S, NEW v \in Val, NEW p, OnPage(S, p)
    PROVE  /\ Fill(q, S, v) \in [Offset -> Val]
           /\ \A s \in Sector : PageOf(s) = p =>
                Fill(q, S, v)[OffsetOf(s)] = IF s \in S THEN v ELSE q[OffsetOf(s)]
  <1> USE DEF OnPage
  <1>1. Fill(q, S, v) \in [Offset -> Val]
    BY DEF Fill
  <1>2. ASSUME NEW s \in Sector, PageOf(s) = p
        PROVE  Fill(q, S, v)[OffsetOf(s)] = IF s \in S THEN v ELSE q[OffsetOf(s)]
    <2>1. s \in Nat /\ OffsetOf(s) \in Offset
      BY Sectors
    <2>2. (\E r \in S : OffsetOf(r) = OffsetOf(s)) <=> s \in S
      BY <1>2, <2>1, Sectors
    <2> QED BY <2>1, <2>2 DEF Fill
  <1> QED BY <1>1, <1>2

\* What a bio that brd_make_request accepts is made of.
LEMMA BioFacts ==
    ASSUME NEW b \in Bios
    PROVE  /\ b # NoBio /\ b.dev \in Dev /\ b.op \in {"READ", "WRITE", "DISCARD"}
           /\ b.val \in Val /\ b.sector \in Nat /\ b.size \in Nat
           /\ 1 \in DOMAIN b.bvecs /\ DOMAIN b.bvecs \subseteq Nat
           /\ DOMAIN b.bvecs = 1..Len(b.bvecs) /\ Len(b.bvecs) \in Nat
           /\ \A k \in DOMAIN b.bvecs : b.bvecs[k] \in Bvecs
           /\ Range(b) \subseteq Sector /\ BioPages(b) \subseteq Page
           /\ \A s \in Range(b) : PageOf(s) \in BioPages(b)
  <1>1. b \in Bio /\ b # NoBio /\ b.bvecs # <<>>
    BY CowBrdAssumption, BioAssumption
  <1>2. b.bvecs \in Seq(Bvecs)
    BY <1>1 DEF Bio, Bvecs
  <1>3. Len(b.bvecs) \in Nat /\ DOMAIN b.bvecs = 1..Len(b.bvecs) /\ Len(b.bvecs) # 0
    BY <1>1, <1>2
  <1>4. \A k \in DOMAIN b.bvecs : b.bvecs[k] \in Bvecs
    BY <1>2
  <1>5. Range(b) \subseteq Sector /\ BioPages(b) \subseteq Page /\ \A s \in Range(b) : PageOf(s) \in BioPages(b)
    BY Sectors DEF Range, BioPages
  <1>6. 1 \in DOMAIN b.bvecs
    BY <1>3
  <1> QED BY <1>1, <1>3, <1>4, <1>5, <1>6 DEF Bio

\* Its bvecs, on their pages.
LEMMA BvecFacts ==
    ASSUME NEW b \in Bios, ~PastEnd(b)
    PROVE  /\ \A k \in DOMAIN b.bvecs :
                /\ PageOf(b.bvecs[k].sector) \in BioPages(b)
                /\ PageOf(b.bvecs[k].sector) \in Nat
                /\ Spans(b.bvecs[k]) => PageOf(b.bvecs[k].sector) + 1 \in BioPages(b)
                /\ \A h \in {1, 2} : /\ PartSectors(b.bvecs[k], h) \subseteq Range(b)
                                     /\ \A s \in PartSectors(b.bvecs[k], h) :
                                          PageOf(s) = PageOf(b.bvecs[k].sector) + h - 1
           /\ \A s \in Range(b) : \E k \in DOMAIN b.bvecs :
                s \in PartSectors(b.bvecs[k], 1) \/ s \in PartSectors(b.bvecs[k], 2)
  <1>1. /\ b.sector \in Nat /\ b.size \in Nat
        /\ \A k \in DOMAIN b.bvecs : b.bvecs[k] \in Bvecs
        /\ \A s \in Range(b) : PageOf(s) \in BioPages(b)
    BY BioFacts
  <1>2. NumPages * PageSectors \in Nat /\ b.sector + b.size <= NumPages * PageSectors
    BY <1>1, CowBrdAssumption DEF PastEnd
  <1>3. ASSUME NEW k \in DOMAIN b.bvecs
        PROVE  /\ PageOf(b.bvecs[k].sector) \in BioPages(b)
               /\ PageOf(b.bvecs[k].sector) \in Nat
               /\ Spans(b.bvecs[k]) => PageOf(b.bvecs[k].sector) + 1 \in BioPages(b)
               /\ \A h \in {1, 2} : /\ PartSectors(b.bvecs[k], h) \subseteq Range(b)
                                    /\ \A s \in PartSectors(b.bvecs[k], h) :
                                         PageOf(s) = PageOf(b.bvecs[k].sector) + h - 1
    <2> DEFINE v == b.bvecs[k]
    <2>1. v \in Bvecs /\ b.sector <= v.sector /\ v.sector + v.len <= b.sector + b.size
      BY <1>1, BioAssumption
    <2>2. v.sector \in Nat /\ v.len \in Nat /\ v.len > 0
      BY <2>1, CowBrdAssumption DEF Bvecs
    <2> HIDE DEF v
    <2>3. v.sector < b.sector + b.size /\ v.sector < NumPages * PageSectors
      BY <1>1, <1>2, <2>1, <2>2
    <2>4. v.sector \in Sector /\ v.sector \in Range(b) /\ PageOf(v.sector) \in Nat
      BY <2>1, <2>2, <2>3, Below, Sectors DEF Range
    <2>5. ASSUME NEW h \in {1, 2}
          PROVE  /\ PartSectors(v, h) \subseteq Range(b)
                 /\ \A s \in PartSectors(v, h) : PageOf(s) = PageOf(v.sector) + h - 1
      <3>1. \A s \in PartSectors(v, h) : /\ s \in Sector /\ s \in Nat
                                         /\ PageOf(s) = PageOf(v.sector) + h - 1
                                         /\ v.sector <= s /\ s < v.sector + v.len
        BY <2>1, Parts, Sectors
      <3>2. \A s \in PartSectors(v, h) : b.sector <= s /\ s < b.sector + b.size
        BY <1>1, <2>1, <2>2, <3>1
      <3> QED BY <3>1, <3>2 DEF Range
    <2>6. Spans(v) => PageOf(v.sector) + 1 \in BioPages(b)
      <3> SUFFICES ASSUME Spans(v) PROVE PageOf(v.sector) + 1 \in BioPages(b)
        OBVIOUS
      <3>1. PICK s \in PartSectors(v, 2) : TRUE
        BY DEF Spans
      <3>2. s \in Range(b) /\ PageOf(s) = PageOf(v.sector) + 1
        BY <2>4, <2>5
      <3> QED BY <1>1, <3>2
    <2> QED BY <1>1, <2>4, <2>5, <2>6 DEF v
  <1>4. ASSUME NEW s \in Range(b)
        PROVE  \E k \in DOMAIN b.bvecs :
                 s \in PartSectors(b.bvecs[k], 1) \/ s \in PartSectors(b.bvecs[k], 2)
    <2>1. s \in Sector /\ s \in Nat /\ b.sector <= s /\ s < b.sector + b.size
      BY Sectors DEF Range
    <2>2. s \in b.sector..(b.sector + b.size - 1)
      BY <1>1, <2>1
    <2>3. PICK k \in DOMAIN b.bvecs : b.bvecs[k].sector <= s /\ s < b.bvecs[k].sector + b.bvecs[k].len
      BY <2>2, BioAssumption
    <2> QED BY <1>1, <2>1, <2>3, Parts
  <1> QED BY <1>3, <1>4

\* A multiple of the page size keeps the place on the page.
LEMMA WholePagesOn ==
    ASSUME NEW a \in Nat, NEW k \in Nat, OffsetOf(a) = 0
    PROVE  OffsetOf(a + k * PageSectors) = 0
  <1> DEFINE x == a + k * PageSectors
             q == PageOf(a) + k
             r == PageOf(x)
  <1>1. PageSectors \in Nat \ {0} /\ k * PageSectors \in Nat /\ x \in Nat
    BY CowBrdAssumption
  <1>2. PageOf(a) \in Nat /\ a = PageOf(a) * PageSectors
    BY <1>1, Sectors
  <1>3. q \in Nat /\ x = q * PageSectors
    <2>1. \A c \in Nat : (c + k) * PageSectors = c * PageSectors + k * PageSectors
      BY <1>1
    <2>2. q \in Nat /\ q * PageSectors = PageOf(a) * PageSectors + k * PageSectors
      BY <1>2, <2>1
    <2> QED BY <1>2, <2>2, Zenon
  <1>4. r \in Nat /\ x = r * PageSectors + OffsetOf(x) /\ OffsetOf(x) \in 0..(PageSectors - 1)
    BY <1>1, Sectors DEF Offset
  <1> HIDE DEF x, q, r
  <1>5. q * PageSectors \in Nat /\ r * PageSectors \in Nat
    BY <1>1, <1>3, <1>4
  <1>6. ~(q >= r + 1)
    <2> SUFFICES ASSUME q >= r + 1 PROVE FALSE
      OBVIOUS
    <2>1. q * PageSectors >= (r + 1) * PageSectors /\ (r + 1) * PageSectors = r * PageSectors + PageSectors
      BY <1>1, <1>3, <1>4
    <2> QED BY <1>1, <1>3, <1>4, <1>5, <2>1
  <1>7. ~(r >= q + 1)
    <2> SUFFICES ASSUME r >= q + 1 PROVE FALSE
      OBVIOUS
    <2>1. r * PageSectors >= (q + 1) * PageSectors /\ (q + 1) * PageSectors = q * PageSectors + PageSectors
      BY <1>1, <1>3, <1>4
    <2> QED BY <1>1, <1>3, <1>4, <1>5, <2>1
  <1>8. q = r
    BY <1>3, <1>4, <1>6, <1>7
  <1>9. OffsetOf(x) = 0
    BY <1>1, <1>3, <1>4, <1>5, <1>8
  <1> QED BY <1>9 DEF x

\* The pages of a discard are pages of the bio, and have no sector of another.
LEMMA DiscardFacts ==
    ASSUME NEW b \in Bios, ~PastEnd(b)
    PROVE  /\ DiscardedPages(b) \subseteq BioPages(b)
           /\ b.op = "DISCARD" => \A s \in Sector : PageOf(s) \in DiscardedPages(b) => s \in Range(b)
  <1>1. /\ b.sector \in Nat /\ b.size \in Nat /\ PageSectors \in Nat \ {0}
        /\ \A s \in Range(b) : PageOf(s) \in BioPages(b)
    BY BioFacts, CowBrdAssumption
  <1>2. NumPages * PageSectors \in Nat /\ b.sector + b.size <= NumPages * PageSectors
    BY <1>1, CowBrdAssumption DEF PastEnd
  <1> DEFINE n == b.size \div PageSectors
  <1>3. n \in Nat /\ n * PageSectors <= b.size /\ n * PageSectors \in Nat
    BY <1>1
  <1> HIDE DEF n
  <1>4. ASSUME NEW k \in 0..(n - 1)
        PROVE  /\ b.sector + k * PageSectors \in Range(b)
               /\ k * PageSectors \in Nat /\ k * PageSectors + PageSectors <= b.size
    <2>1. k \in Nat /\ k + 1 <= n
      BY <1>3
    <2>2. k * PageSectors \in Nat /\ (k + 1) * PageSectors = k * PageSectors + PageSectors
      BY <1>1, <2>1
    <2>3. (k + 1) * PageSectors <= n * PageSectors
      BY <1>1, <1>3, <2>1
    <2>4. k * PageSectors + PageSectors <= b.size
      BY <1>1, <1>3, <2>2, <2>3
    <2>5. b.sector + k * PageSectors \in Nat /\ b.sector + k * PageSectors < b.sector + b.size
      BY <1>1, <2>2, <2>4
    <2>6. b.sector + k * PageSectors < NumPages * PageSectors /\ b.sector <= b.sector + k * PageSectors
      BY <1>1, <1>2, <2>2, <2>5
    <2> QED BY <2>2, <2>4, <2>5, <2>6, Below DEF Range
  <1>5. ASSUME b.op = "DISCARD", NEW s \in Sector, PageOf(s) \in DiscardedPages(b)
        PROVE  s \in Range(b)
    <2>1. PICK k \in 0..(n - 1) : PageOf(s) = PageOf(b.sector + k * PageSectors)
      BY <1>5 DEF DiscardedPages, n
    <2> DEFINE f == b.sector + k * PageSectors
    <2>2. /\ f \in Nat /\ f >= b.sector /\ f + PageSectors <= b.sector + b.size
          /\ k \in Nat /\ k * PageSectors \in Nat
      BY <1>1, <1>4
    <2>3. OffsetOf(f) = 0
      <3>1. OffsetOf(b.sector) = 0
        BY <1>5, BioAssumption DEF OffsetOf
      <3> QED BY <1>1, <2>2, <3>1, WholePagesOn
    <2> HIDE DEF f
    <2>4. f = PageOf(f) * PageSectors /\ PageOf(f) * PageSectors \in Nat
      BY <1>1, <2>2, <2>3, Sectors
    <2>5. s \in Nat /\ s = PageOf(s) * PageSectors + OffsetOf(s) /\ OffsetOf(s) \in Offset
      BY Sectors
    <2>6. s = f + OffsetOf(s) /\ OffsetOf(s) \in Nat /\ OffsetOf(s) < PageSectors
      BY <1>1, <2>1, <2>4, <2>5 DEF Offset, f
    <2>7. b.sector <= s /\ s < b.sector + b.size
      BY <1>1, <2>2, <2>5, <2>6
    <2> QED BY <2>7 DEF Range
  <1>6. DiscardedPages(b) \subseteq BioPages(b)
    BY <1>1, <1>4 DEF DiscardedPages, n
  <1> QED BY <1>5, <1>6

-----------------------------------------------------------------------------
(* Threads and devices *)

\* Where a write may be; where any bio is at work; and all the places.
Writing == {"lookup", "insert", "cow", "copy"}
Working == {"discard", "read"} \cup Writing
States == {"idle", "discard", "lookup", "insert", "cow", "copy", "read", "endio"}

\* A thread at p, with bio b, on part h of bvec k, reporting e.
Local(p, b, k, h, e) ==
    /\ p \in States /\ b \in Bios \cup {NoBio} /\ k \in Nat /\ h \in {1, 2}
    /\ e \in {"ok", "EIO", "ENOMEM"}
    /\ p = "idle" => b = NoBio /\ k = 1 /\ h = 1 /\ e = "ok"
    /\ p # "idle" => b \in Bios /\ k \in DOMAIN b.bvecs
    /\ p \in Working => ~PastEnd(b) /\ e = "ok" /\ (h = 2 => Spans(b.bvecs[k]))
    /\ p = "discard" => b.op = "DISCARD"
    /\ p = "read" => b.op = "READ"
    /\ p \in Writing => b.op = "WRITE"

\* Every thread is somewhere brd_make_request can take it.
ThreadInv ==
    /\ pc \in [Thread -> States] /\ bio \in [Thread -> Bios \cup {NoBio}]
    /\ bvec \in [Thread -> Nat] /\ half \in [Thread -> {1, 2}]
    /\ err \in [Thread -> {"ok", "EIO", "ENOMEM"}]
    /\ \A t \in Thread : Local(pc[t], bio[t], bvec[t], half[t], err[t])

\* The devices, the buffers and the history have their types.
DeviceInv ==
    /\ brd_pages \in [Dev -> [Page -> [Offset -> Val] \cup {NoPage}]]
    /\ is_writable \in [Dev -> BOOLEAN]
    /\ buf \in [Thread -> [Sector -> Val \cup {NoVal, Stray}]]
    /\ last \in [Dev -> [Sector -> Val \cup {NoVal}]]

\* Thread t goes on to p, b, k, h, e.
Moves(t, p, b, k, h, e) ==
    /\ pc' = [pc EXCEPT ![t] = p] /\ bio' = [bio EXCEPT ![t] = b]
    /\ bvec' = [bvec EXCEPT ![t] = k] /\ half' = [half EXCEPT ![t] = h]
    /\ err' = [err EXCEPT ![t] = e]

\* What a step of one thread keeps.
LEMMA MoveKeeps ==
    ASSUME ThreadInv, NEW t \in Thread, NEW p, NEW b, NEW k, NEW h, NEW e,
           Moves(t, p, b, k, h, e), Local(p, b, k, h, e)
    PROVE  /\ ThreadInv'
           /\ pc'[t] = p /\ bio'[t] = b /\ bvec'[t] = k /\ half'[t] = h /\ err'[t] = e
           /\ \A u \in Thread \ {t} :
                /\ pc'[u] = pc[u] /\ bio'[u] = bio[u] /\ bvec'[u] = bvec[u]
                /\ half'[u] = half[u] /\ err'[u] = err[u]
  <1>1. /\ pc'[t] = p /\ bio'[t] = b /\ bvec'[t] = k /\ half'[t] = h /\ err'[t] = e
        /\ \A u \in Thread \ {t} :
             /\ pc'[u] = pc[u] /\ bio'[u] = bio[u] /\ bvec'[u] = bvec[u]
             /\ half'[u] = half[u] /\ err'[u] = err[u]
    BY DEF Moves, ThreadInv
  <1>2. /\ pc' \in [Thread -> States] /\ bio' \in [Thread -> Bios \cup {NoBio}]
        /\ bvec' \in [Thread -> Nat] /\ half' \in [Thread -> {1, 2}]
        /\ err' \in [Thread -> {"ok", "EIO", "ENOMEM"}]
    BY DEF Moves, ThreadInv, Local
  <1>3. ASSUME NEW u \in Thread PROVE Local(pc'[u], bio'[u], bvec'[u], half'[u], err'[u])
    <2>1. CASE u = t
      BY <1>1, <2>1
    <2>2. CASE u # t
      <3>1. Local(pc[u], bio[u], bvec[u], half[u], err[u])
        BY DEF ThreadInv
      <3> QED BY <1>1, <2>2, <3>1
    <2> QED BY <2>1, <2>2
  <1> QED BY <1>1, <1>2, <1>3 DEF ThreadInv

\* The variables of a thread that an action leaves alone, as a move.
LEMMA Stays ==
    ASSUME ThreadInv, NEW t \in Thread
    PROVE  /\ pc = [pc EXCEPT ![t] = pc[t]] /\ bio = [bio EXCEPT ![t] = bio[t]]
           /\ bvec = [bvec EXCEPT ![t] = bvec[t]] /\ half = [half EXCEPT ![t] = half[t]]
           /\ err = [err EXCEPT ![t] = err[t]]
  BY DEF ThreadInv

\* What a thread at work is working on.
LEMMA WorkFacts ==
    ASSUME ThreadInv, NEW t \in Thread, pc[t] \in Working
    PROVE  /\ bio[t] \in Bios /\ bio[t] # NoBio /\ ~PastEnd(bio[t]) /\ dev(t) \in Dev
           /\ bvec[t] \in DOMAIN bio[t].bvecs /\ Bvec(t) \in Bvecs
           /\ PageOf(Bvec(t).sector) \in Nat /\ PageOf(Bvec(t).sector) \in BioPages(bio[t])
           /\ Spans(Bvec(t)) => PageOf(Bvec(t).sector) + 1 \in BioPages(bio[t])
           /\ Part(t) \subseteq Range(bio[t]) /\ BioPages(bio[t]) \subseteq Page
           /\ PartPage(t) \in BioPages(bio[t])
           /\ \A s \in Part(t) : PageOf(s) = PartPage(t)
           /\ half[t] = 1 => PartPage(t) = PageOf(Bvec(t).sector)
           /\ half[t] = 2 => /\ PartPage(t) = PageOf(Bvec(t).sector) + 1
                             /\ Spans(Bvec(t))
           /\ half[t] \in {1, 2} /\ err[t] = "ok"
  <1>1. Local(pc[t], bio[t], bvec[t], half[t], err[t]) /\ pc[t] # "idle"
    BY DEF ThreadInv, Working, Writing
  <1>2. /\ bio[t] \in Bios /\ bvec[t] \in DOMAIN bio[t].bvecs /\ half[t] \in {1, 2}
        /\ ~PastEnd(bio[t]) /\ err[t] = "ok" /\ (half[t] = 2 => Spans(Bvec(t)))
    BY <1>1 DEF Local, Bvec
  <1>3. bio[t] # NoBio /\ dev(t) \in Dev /\ Bvec(t) \in Bvecs /\ BioPages(bio[t]) \subseteq Page
    BY <1>2, BioFacts DEF dev, Bvec
  <1>4. /\ PageOf(Bvec(t).sector) \in BioPages(bio[t]) /\ PageOf(Bvec(t).sector) \in Nat
        /\ Spans(Bvec(t)) => PageOf(Bvec(t).sector) + 1 \in BioPages(bio[t])
        /\ \A i \in {1, 2} : /\ PartSectors(Bvec(t), i) \subseteq Range(bio[t])
                             /\ \A s \in PartSectors(Bvec(t), i) :
                                  PageOf(s) = PageOf(Bvec(t).sector) + i - 1
    BY <1>2, BvecFacts DEF Bvec
  <1>5. half[t] = 1 => PartPage(t) = PageOf(Bvec(t).sector)
    BY <1>4 DEF PartPage
  <1>6. half[t] = 2 => PartPage(t) = PageOf(Bvec(t).sector) + 1
    BY <1>4 DEF PartPage
  <1>7. Part(t) \subseteq Range(bio[t]) /\ \A s \in Part(t) : PageOf(s) = PartPage(t)
    BY <1>2, <1>4 DEF Part, PartPage
  <1> QED BY <1>2, <1>3, <1>4, <1>5, <1>6, <1>7

\* Where each step of brd_make_request takes its thread.
LEMMA ThreadMoves ==
    ASSUME ThreadInv, NEW t \in Thread, Submit(t) \/ Handle(t)
    PROVE  \E p, b, k, h, e : Moves(t, p, b, k, h, e) /\ Local(p, b, k, h, e)
  <1>1. /\ pc = [pc EXCEPT ![t] = pc[t]] /\ bio = [bio EXCEPT ![t] = bio[t]]
        /\ bvec = [bvec EXCEPT ![t] = bvec[t]] /\ half = [half EXCEPT ![t] = half[t]]
        /\ err = [err EXCEPT ![t] = err[t]]
    BY Stays
  <1>2. Local(pc[t], bio[t], bvec[t], half[t], err[t])
    BY DEF ThreadInv
  <1>3. CASE Submit(t)
    <2>1. PICK b \in Bios :
            /\ bio' = [bio EXCEPT ![t] = b] /\ UNCHANGED <<bvec, half>>
            /\ \/ pc' = [pc EXCEPT ![t] = "endio"] /\ err' = [err EXCEPT ![t] = "EIO"]
               \/ /\ ~PastEnd(b) /\ UNCHANGED err
                  /\ pc' = [pc EXCEPT ![t] = CASE b.op = "READ" -> "read"
                                              [] b.op = "WRITE" -> "lookup"
                                              [] b.op = "DISCARD" -> "discard"]
      BY <1>3 DEF Submit
    <2>2. bvec[t] = 1 /\ half[t] = 1 /\ err[t] = "ok"
      BY <1>2, <1>3 DEF Submit, Local
    <2>3. 1 \in DOMAIN b.bvecs /\ b.op \in {"READ", "WRITE", "DISCARD"}
      BY BioFacts
    <2>4. CASE pc' = [pc EXCEPT ![t] = "endio"] /\ err' = [err EXCEPT ![t] = "EIO"]
      <3>1. Local("endio", b, 1, 1, "EIO")
        BY <2>3 DEF Local, States, Working, Writing
      <3>2. Moves(t, "endio", b, 1, 1, "EIO")
        BY <1>1, <2>1, <2>2, <2>4, Zenon DEF Moves
      <3> QED BY <3>1, <3>2
    <2>5. CASE /\ ~PastEnd(b) /\ UNCHANGED err
               /\ pc' = [pc EXCEPT ![t] = CASE b.op = "READ" -> "read"
                                           [] b.op = "WRITE" -> "lookup"
                                           [] b.op = "DISCARD" -> "discard"]
      <3> DEFINE q == CASE b.op = "READ" -> "read" [] b.op = "WRITE" -> "lookup"
                        [] b.op = "DISCARD" -> "discard"
      <3>1. \/ q = "read" /\ b.op = "READ"
            \/ q = "lookup" /\ b.op = "WRITE"
            \/ q = "discard" /\ b.op = "DISCARD"
        BY <2>3
      <3>2. pc' = [pc EXCEPT ![t] = q]
        BY <2>5
      <3> HIDE DEF q
      <3>3. Local(q, b, 1, 1, "ok")
        BY <2>3, <2>5, <3>1 DEF Local, States, Working, Writing
      <3>4. Moves(t, q, b, 1, 1, "ok")
        BY <1>1, <2>1, <2>2, <2>5, <3>2, Zenon DEF Moves
      <3> QED BY <3>3, <3>4
    <2> QED BY <2>1, <2>4, <2>5
  <1>4. CASE BIO_ENDIO(t)
    <2>1. Moves(t, "idle", NoBio, 1, 1, "ok")
      BY <1>4 DEF BIO_ENDIO, Moves
    <2>2. Local("idle", NoBio, 1, 1, "ok")
      BY DEF Local, States, Working, Writing
    <2> QED BY <2>1, <2>2
  <1>5. ASSUME pc[t] \in Working, NEW e \in {"ok", "ENOMEM"}, GotoEndio(t, e), bio' = bio
        PROVE  \E p, b, k, h, x : Moves(t, p, b, k, h, x) /\ Local(p, b, k, h, x)
    <2>1. Moves(t, "endio", bio[t], bvec[t], half[t], e)
      BY <1>1, <1>5, Zenon DEF GotoEndio, Moves
    <2>2. Local("endio", bio[t], bvec[t], half[t], e)
      BY <1>2, <1>5 DEF Local, States, Working, Writing
    <2> QED BY <2>1, <2>2
  <1>6. ASSUME pc[t] \in Working, NEW p \in Working, bio' = bio, NextBvec(t, p),
               \/ p = "read" /\ bio[t].op = "READ"
               \/ p \in Writing /\ bio[t].op = "WRITE"
        PROVE  \E q, b, k, h, x : Moves(t, q, b, k, h, x) /\ Local(q, b, k, h, x)
    <2>1. CASE bvec[t] = Len(bio[t].bvecs)
      <3>1. GotoEndio(t, "ok")
        BY <1>6, <2>1 DEF NextBvec
      <3> QED BY <1>5, <1>6, <3>1
    <2>2. CASE bvec[t] # Len(bio[t].bvecs)
      <3>1. Moves(t, p, bio[t], bvec[t] + 1, 1, err[t])
        BY <1>1, <1>6, <2>2 DEF NextBvec, Moves
      <3>2. bio[t] \in Bios /\ bvec[t] \in DOMAIN bio[t].bvecs /\ ~PastEnd(bio[t]) /\ err[t] = "ok"
        BY <1>6, WorkFacts
      <3>3. bvec[t] + 1 \in DOMAIN bio[t].bvecs /\ bvec[t] + 1 \in Nat
        BY <2>2, <3>2, BioFacts
      <3>4. Local(p, bio[t], bvec[t] + 1, 1, err[t])
        BY <1>6, <3>2, <3>3 DEF Local, States, Working, Writing
      <3> QED BY <3>1, <3>4
    <2> QED BY <2>1, <2>2
  <1>7. ASSUME pc[t] \in Writing, NEW p \in Writing, NEW h \in {1, 2},
               pc' = [pc EXCEPT ![t] = p], half' = [half EXCEPT ![t] = h],
               UNCHANGED <<bio, bvec, err>>, h = 2 => h = half[t] \/ Spans(Bvec(t))
        PROVE  \E q, b, k, i, x : Moves(t, q, b, k, i, x) /\ Local(q, b, k, i, x)
    <2>1. Moves(t, p, bio[t], bvec[t], h, err[t])
      BY <1>1, <1>7, Zenon DEF Moves
    <2>2. Local(p, bio[t], bvec[t], h, err[t])
      BY <1>2, <1>7 DEF Local, States, Working, Writing, Bvec
    <2> QED BY <2>1, <2>2
  <1>8. ASSUME pc[t] \in Writing, PageReady(t), bio' = bio
        PROVE  \E q, b, k, h, x : Moves(t, q, b, k, h, x) /\ Local(q, b, k, h, x)
    <2>1. CASE half[t] = 1 /\ Spans(Bvec(t))
      BY <1>7, <1>8, <2>1 DEF PageReady, Writing
    <2>2. CASE ~(half[t] = 1 /\ Spans(Bvec(t)))
      BY <1>7, <1>8, <2>2 DEF PageReady, Writing
    <2> QED BY <2>1, <2>2
  <1>9. CASE discard_from_brd(t)
    BY <1>5, <1>9 DEF discard_from_brd, Working, Writing
  <1>10. CASE LookupPresent(t)
    BY <1>8, <1>10 DEF LookupPresent, Writing
  <1>11. CASE LookupAbsent(t)
    BY <1>1, <1>7, <1>11, <1>2 DEF LookupAbsent, Writing, Local
  <1>12. CASE AllocFails(t)
    BY <1>5, <1>12 DEF AllocFails, Working, Writing
  <1>13. CASE InsertPage(t)
    BY <1>1, <1>7, <1>13, <1>2 DEF InsertPage, Writing, Local
  <1>14. CASE CopyParent(t)
    BY <1>8, <1>14 DEF CopyParent, Writing
  <1>15. CASE CopyFirst(t)
    <2>1. bio[t].op = "WRITE" /\ pc[t] = "copy" /\ bio' = bio
      BY <1>2, <1>15 DEF CopyFirst, Local, Writing
    <2>2. CASE Spans(Bvec(t))
      BY <1>1, <1>7, <1>15, <2>1, <2>2 DEF CopyFirst, Writing
    <2>3. CASE ~Spans(Bvec(t))
      <3>1. NextBvec(t, "lookup")
        BY <1>15, <2>3 DEF CopyFirst
      <3> QED BY <1>6, <2>1, <3>1 DEF Working, Writing
    <2> QED BY <2>2, <2>3
  <1>16. CASE CopySecond(t)
    <2>1. bio[t].op = "WRITE" /\ pc[t] = "copy" /\ bio' = bio /\ NextBvec(t, "lookup")
      BY <1>2, <1>16 DEF CopySecond, Local, Writing
    <2> QED BY <1>6, <2>1 DEF Working, Writing
  <1>17. CASE copy_from_brd(t)
    <2>1. bio[t].op = "READ" /\ pc[t] = "read" /\ bio' = bio
      BY <1>2, <1>17 DEF copy_from_brd, Local
    <2>2. CASE half[t] = 1 /\ Spans(Bvec(t))
      <3>1. Moves(t, pc[t], bio[t], bvec[t], 2, err[t])
        BY <1>1, <1>17, <2>2 DEF Moves, copy_from_brd
      <3>2. Local(pc[t], bio[t], bvec[t], 2, err[t])
        BY <1>2, <2>1, <2>2 DEF Local, Bvec
      <3> QED BY <3>1, <3>2
    <2>3. CASE ~(half[t] = 1 /\ Spans(Bvec(t)))
      <3>1. NextBvec(t, "read")
        BY <1>17, <2>3 DEF copy_from_brd
      <3> QED BY <1>6, <2>1, <3>1 DEF Working, Writing
    <2> QED BY <2>2, <2>3
  <1> QED BY <1>3, <1>4, <1>9, <1>10, <1>11, <1>12, <1>13, <1>14, <1>15, <1>16, <1>17 DEF Handle

-----------------------------------------------------------------------------
(* Type correctness *)

\* The types of the pages and buffers, step by step.
LEMMA DeviceStep ==
    ASSUME ThreadInv, DeviceInv, [Next]_vars PROVE DeviceInv'
  <1> USE DEF DeviceInv
  <1>1. Zero \in Val /\ \A q \in [Offset -> Val] : q # NoPage
    BY CowBrdAssumption
  <1>2. CASE \E t \in Thread : Submit(t) \/ Handle(t)
    <2>1. PICK t \in Thread : Submit(t) \/ Handle(t)
      BY <1>2
    <2>2. CASE \/ Submit(t) \/ LookupPresent(t) \/ LookupAbsent(t) \/ AllocFails(t)
      BY <2>2 DEF Submit, LookupPresent, LookupAbsent, AllocFails
    <2>3. CASE BIO_ENDIO(t)
      <3>1. [s \in Sector |-> NoVal] \in [Sector -> Val \cup {NoVal, Stray}]
        OBVIOUS
      <3> QED BY <2>3, <3>1 DEF BIO_ENDIO
    <2>4. ASSUME pc[t] \in Working PROVE dev(t) \in Dev /\ PartPage(t) \in Page /\ bio[t].val \in Val
      BY <2>4, WorkFacts, BioFacts
    <2>5. ASSUME NEW S, NEW v \in Val \cup {NoVal}, pc[t] \in Working,
                 last' = [last EXCEPT ![dev(t)] = [s \in Sector |-> IF s \in S THEN v ELSE @[s]]]
          PROVE  last' \in [Dev -> [Sector -> Val \cup {NoVal}]]
      <3>1. last[dev(t)] \in [Sector -> Val \cup {NoVal}]
        BY <2>4, <2>5
      <3>2. [s \in Sector |-> IF s \in S THEN v ELSE last[dev(t)][s]] \in [Sector -> Val \cup {NoVal}]
        BY <3>1
      <3> QED BY <2>5, <3>2
    <2>6. ASSUME NEW q \in [Offset -> Val] \cup {NoPage}, pc[t] \in Working,
                 brd_pages' = [brd_pages EXCEPT ![dev(t)][PartPage(t)] = q]
          PROVE  brd_pages' \in [Dev -> [Page -> [Offset -> Val] \cup {NoPage}]]
      <3>1. [brd_pages[dev(t)] EXCEPT ![PartPage(t)] = q] \in [Page -> [Offset -> Val] \cup {NoPage}]
        BY <2>4, <2>6
      <3> QED BY <2>6, <3>1
    <2>7. CASE discard_from_brd(t)
      <3>1. pc[t] \in Working /\ UNCHANGED <<is_writable, buf>>
        BY <2>7 DEF discard_from_brd, Working
      <3>2. PICK hit, zeroed :
              /\ brd_pages' = [brd_pages EXCEPT ![dev(t)] =
                   [p \in Page |-> IF p \in hit /\ Has(dev(t), p)
                                   THEN [o \in Offset |-> Zero] ELSE @[p]]]
              /\ last' = [last EXCEPT ![dev(t)] =
                   [s \in Sector |-> IF PageOf(s) \in zeroed THEN Zero ELSE @[s]]]
        BY <2>7, Zenon DEF discard_from_brd
      <3>3. brd_pages[dev(t)] \in [Page -> [Offset -> Val] \cup {NoPage}]
        BY <2>4, <3>1
      <3>4. [p \in Page |-> IF p \in hit /\ Has(dev(t), p)
                            THEN [o \in Offset |-> Zero] ELSE brd_pages[dev(t)][p]]
              \in [Page -> [Offset -> Val] \cup {NoPage}]
        BY <1>1, <3>3
      <3>5. brd_pages' \in [Dev -> [Page -> [Offset -> Val] \cup {NoPage}]]
        BY <3>2, <3>4
      <3>6. last[dev(t)] \in [Sector -> Val \cup {NoVal}]
        BY <2>4, <3>1
      <3>7. [s \in Sector |-> IF PageOf(s) \in zeroed THEN Zero ELSE last[dev(t)][s]]
              \in [Sector -> Val \cup {NoVal}]
        BY <1>1, <3>6
      <3>8. last' \in [Dev -> [Sector -> Val \cup {NoVal}]]
        BY <3>2, <3>7
      <3> QED BY <3>1, <3>5, <3>8
    <2>8. CASE InsertPage(t)
      <3>1. pc[t] \in Working /\ UNCHANGED <<is_writable, buf, last>>
        BY <2>8 DEF InsertPage, Working, Writing
      <3> DEFINE q == IF brd_pages[dev(t)][PartPage(t)] = NoPage
                      THEN [o \in Offset |-> Zero] ELSE brd_pages[dev(t)][PartPage(t)]
      <3>2. q \in [Offset -> Val] \cup {NoPage}
        BY <1>1, <2>4, <3>1
      <3>3. brd_pages' = [brd_pages EXCEPT ![dev(t)][PartPage(t)] = q]
        BY <2>8 DEF InsertPage
      <3> HIDE DEF q
      <3> QED BY <2>6, <3>1, <3>2, <3>3
    <2>9. CASE CopyParent(t)
      <3>1. pc[t] \in Working /\ UNCHANGED <<is_writable, buf, last>>
        BY <2>9 DEF CopyParent, Working, Writing
      <3> DEFINE q == IF ParentHas(dev(t), PartPage(t))
                      THEN brd_lookup_page(parent_brd(dev(t)), PartPage(t))
                      ELSE brd_pages[dev(t)][PartPage(t)]
      <3>2. q \in [Offset -> Val] \cup {NoPage}
        BY <2>4, <3>1, Devices DEF brd_lookup_page
      <3>3. brd_pages' = [brd_pages EXCEPT ![dev(t)][PartPage(t)] = q]
        BY <2>9 DEF CopyParent
      <3> HIDE DEF q
      <3> QED BY <2>6, <3>1, <3>2, <3>3
    <2>10. CASE CopyFirst(t) \/ CopySecond(t)
      <3>1. /\ pc[t] \in Working /\ UNCHANGED <<is_writable, buf>> /\ Has(dev(t), PartPage(t))
            /\ last' = [last EXCEPT ![dev(t)] =
                  [s \in Sector |-> IF s \in Part(t) THEN bio[t].val ELSE @[s]]]
        BY <2>10 DEF CopyFirst, CopySecond, Working, Writing
      <3>2. last' \in [Dev -> [Sector -> Val \cup {NoVal}]]
        BY <2>4, <2>5, <3>1
      <3>3. \A q : WrittenPage(t, q) \in [Offset -> Val] \/ q \notin [Offset -> Val]
        <4>1. ASSUME NEW q \in [Offset -> Val] PROVE WrittenPage(t, q) \in [Offset -> Val]
          <5>1. Part(t) \in SUBSET Sector /\ \A s \in Part(t) : PageOf(s) = PartPage(t)
            BY <3>1, WorkFacts, BioFacts
          <5>2. bio[t].val \in Val
            BY <2>4, <3>1
          <5>3. Fill(q, Part(t), bio[t].val) \in [Offset -> Val]
            BY <5>2 DEF Fill
          <5> QED BY <5>3 DEF WrittenPage
        <4> QED BY <4>1
      <3>4. /\ brd_pages[dev(t)][PartPage(t)] \in [Offset -> Val]
            /\ ParentHas(dev(t), PartPage(t)) =>
                 brd_lookup_page(parent_brd(dev(t)), PartPage(t)) \in [Offset -> Val]
        BY <2>4, <3>1, Devices DEF Has, ParentHas, brd_lookup_page
      <3>5. PICK q \in [Offset -> Val] :
              brd_pages' = [brd_pages EXCEPT ![dev(t)][PartPage(t)] = WrittenPage(t, q)]
        <4>1. CASE CopyFirst(t)
          BY <3>4, <4>1 DEF CopyFirst
        <4>2. CASE CopySecond(t)
          <5>1. CASE ParentHas(dev(t), PartPage(t))
            BY <3>4, <4>2, <5>1 DEF CopySecond
          <5>2. CASE ~ParentHas(dev(t), PartPage(t))
            BY <3>4, <4>2, <5>2 DEF CopySecond
          <5> QED BY <5>1, <5>2
        <4> QED BY <2>10, <4>1, <4>2
      <3>6. brd_pages' \in [Dev -> [Page -> [Offset -> Val] \cup {NoPage}]]
        BY <2>6, <3>1, <3>3, <3>5
      <3> QED BY <3>1, <3>2, <3>6
    <2>11. CASE copy_from_brd(t)
      <3>1. pc[t] \in Working /\ UNCHANGED <<brd_pages, is_writable, last>>
        BY <2>11 DEF copy_from_brd, Working
      <3>2. ASSUME NEW s \in Sector PROVE ReadSector(t, s) \in Val \cup {NoVal, Stray}
        <4>1. OffsetOf(s) \in Offset /\ PageOf(s) \in Page
          BY Sectors
        <4>2. /\ Has(dev(t), PageOf(s)) => brd_lookup_page(dev(t), PageOf(s)) \in [Offset -> Val]
              /\ ParentHas(dev(t), PageOf(s)) =>
                   brd_lookup_page(parent_brd(dev(t)), PageOf(s)) \in [Offset -> Val]
          BY <2>4, <3>1, <4>1, Devices DEF Has, ParentHas, brd_lookup_page
        <4> QED BY <1>1, <4>1, <4>2 DEF ReadSector
      <3>3. buf' = [buf EXCEPT ![t] =
                      [s \in Sector |-> IF s \in Part(t) THEN ReadSector(t, s) ELSE buf[t][s]]]
        BY <2>11 DEF copy_from_brd
      <3>4. [s \in Sector |-> IF s \in Part(t) THEN ReadSector(t, s) ELSE buf[t][s]]
              \in [Sector -> Val \cup {NoVal, Stray}]
        BY <3>2
      <3> QED BY <3>1, <3>3, <3>4
    <2> QED BY <2>1, <2>2, <2>3, <2>7, <2>8, <2>9, <2>10, <2>11 DEF Handle
  <1>3. CASE \E d \in Dev : Ioctl(d)
    <2>1. PICK d \in Dev : Ioctl(d)
      BY <1>3
    <2>2. CASE COW_BRD_SNAPSHOT(d) \/ COW_BRD_UNSNAPSHOT(d)
      BY <2>2 DEF COW_BRD_SNAPSHOT, COW_BRD_UNSNAPSHOT
    <2>3. CASE COW_BRD_RESTORE_SNAPSHOT(d) \/ COW_BRD_WIPE(d)
      <3>1. brd_free_pages(d) /\ UNCHANGED <<is_writable, buf>>
        BY <2>3 DEF COW_BRD_RESTORE_SNAPSHOT, COW_BRD_WIPE
      <3>2. /\ [p \in Page |-> NoPage] \in [Page -> [Offset -> Val] \cup {NoPage}]
            /\ [s \in Sector |-> NoVal] \in [Sector -> Val \cup {NoVal}]
        OBVIOUS
      <3> QED BY <3>1, <3>2 DEF brd_free_pages
    <2> QED BY <2>1, <2>2, <2>3 DEF Ioctl
  <1>4. CASE UNCHANGED vars
    BY <1>4 DEF vars
  <1> QED BY <1>2, <1>3, <1>4 DEF Next

\* And of the threads.
LEMMA ThreadStep ==
    ASSUME ThreadInv, [Next]_vars PROVE ThreadInv'
  <1>1. CASE \E t \in Thread : Submit(t) \/ Handle(t)
    BY <1>1, ThreadMoves, MoveKeeps
  <1>2. CASE (\E d \in Dev : Ioctl(d)) \/ UNCHANGED vars
    BY <1>2 DEF Ioctl, COW_BRD_SNAPSHOT, COW_BRD_UNSNAPSHOT, COW_BRD_RESTORE_SNAPSHOT, COW_BRD_WIPE,
       ThreadInv, vars
  <1> QED BY <1>1, <1>2 DEF Next

\* Both hold when the module is loaded, and in every step.
LEMMA InitInv == Init => ThreadInv /\ DeviceInv
  <1> SUFFICES ASSUME Init PROVE ThreadInv /\ DeviceInv
    OBVIOUS
  <1>1. Local("idle", NoBio, 1, 1, "ok")
    BY DEF Local, States, Working, Writing
  <1>2. ThreadInv
    BY <1>1 DEF Init, ThreadInv, States
  <1>3. DeviceInv
    BY DEF Init, DeviceInv
  <1> QED BY <1>2, <1>3

\* Whatever the callers do, so without any rule of use.
LEMMA TypesHold == Spec => [](ThreadInv /\ DeviceInv)
  <1>1. ThreadInv /\ DeviceInv /\ [Next]_vars => (ThreadInv /\ DeviceInv)'
    BY ThreadStep, DeviceStep
  <1> QED BY <1>1, InitInv, PTL DEF Spec

(***************************************************************************)
(* The pages, the marks and the threads of the driver keep their types, for *)
(* any number of devices, threads and pages and any bios: no bvec past the  *)
(* last is taken up, and every page is a page or absent.                    *)
(***************************************************************************)
THEOREM TypeCorrect == Spec => []TypeOK
  <1>1. ThreadInv /\ DeviceInv => TypeOK
    <2> SUFFICES ASSUME ThreadInv, DeviceInv PROVE TypeOK
      OBVIOUS
    <2>1. ASSUME NEW t \in Thread
          PROVE  /\ pc[t] = "idle" <=> bio[t] = NoBio
                 /\ IF bio[t] = NoBio THEN bvec[t] = 1 ELSE bvec[t] \in DOMAIN bio[t].bvecs
      <3>1. Local(pc[t], bio[t], bvec[t], half[t], err[t])
        BY DEF ThreadInv
      <3> QED BY <3>1, CowBrdAssumption DEF Local
    <2> QED BY <2>1 DEF ThreadInv, DeviceInv, TypeOK, States
  <1> QED BY <1>1, TypesHold, PTL

-----------------------------------------------------------------------------
(* What a bio may change *)

\* The states in which a bio may change pages.
Changing == {"discard", "insert", "cow", "copy"}

\* A bio changes only its own pages of its own device, and takes none away.
LEMMA Touches ==
    ASSUME ThreadInv, DeviceInv, NEW t \in Thread, Submit(t) \/ Handle(t)
    PROVE  /\ is_writable' = is_writable
           /\ \A d \in Dev, p \in Page : Has(d, p) => Has(d, p)'
           /\ ~(pc[t] \in Changing) => brd_pages' = brd_pages /\ last' = last
           /\ \A d \in Dev, p \in Page :
                \/ pc[t] \in Changing /\ d = dev(t) /\ p \in BioPages(bio[t])
                \/ brd_pages'[d][p] = brd_pages[d][p]
           /\ \A d \in Dev, s \in Sector :
                \/ pc[t] \in Changing /\ d = dev(t) /\ PageOf(s) \in BioPages(bio[t])
                \/ last'[d][s] = last[d][s]
  <1>1. Zero \in Val /\ \A q \in [Offset -> Val] : q # NoPage
    BY CowBrdAssumption
  <1>2. /\ brd_pages \in [Dev -> [Page -> [Offset -> Val] \cup {NoPage}]]
        /\ last \in [Dev -> [Sector -> Val \cup {NoVal}]]
    BY DEF DeviceInv
  <1>3. CASE \/ Submit(t) \/ BIO_ENDIO(t) \/ LookupPresent(t) \/ LookupAbsent(t) \/ AllocFails(t)
             \/ copy_from_brd(t)
    <2>1. UNCHANGED <<brd_pages, is_writable, last>>
      BY <1>3 DEF Submit, BIO_ENDIO, LookupPresent, LookupAbsent, AllocFails, copy_from_brd
    <2> QED BY <2>1 DEF Has, brd_lookup_page
  <1> SUFFICES ASSUME pc[t] \in Changing, pc[t] \in Working, is_writable' = is_writable,
                      \/ discard_from_brd(t) \/ InsertPage(t) \/ CopyParent(t)
                      \/ CopyFirst(t) \/ CopySecond(t)
               PROVE  /\ \A d \in Dev, p \in Page : Has(d, p) => Has(d, p)'
                      /\ \A d \in Dev, p \in Page :
                           (d = dev(t) /\ p \in BioPages(bio[t])) \/ brd_pages'[d][p] = brd_pages[d][p]
                      /\ \A d \in Dev, s \in Sector :
                           (d = dev(t) /\ PageOf(s) \in BioPages(bio[t])) \/ last'[d][s] = last[d][s]
    <2>1. CASE \/ discard_from_brd(t) \/ InsertPage(t) \/ CopyParent(t) \/ CopyFirst(t) \/ CopySecond(t)
      <3>1. pc[t] \in Changing /\ pc[t] \in Working /\ is_writable' = is_writable
        BY <2>1 DEF Changing, Working, Writing, discard_from_brd, InsertPage, CopyParent, CopyFirst, CopySecond
      <3> QED BY <2>1, <3>1
    <2> QED BY <1>3, <2>1 DEF Handle
  <1>4. /\ dev(t) \in Dev /\ PartPage(t) \in Page /\ PartPage(t) \in BioPages(bio[t])
        /\ bio[t] \in Bios /\ ~PastEnd(bio[t])
        /\ \A s \in Part(t) : PageOf(s) = PartPage(t)
    BY WorkFacts
  <1>5. CASE discard_from_brd(t)
    <2>1. DiscardedPages(bio[t]) \subseteq BioPages(bio[t])
      BY <1>4, DiscardFacts
    <2>2. PICK zeroed \in SUBSET DiscardedPages(bio[t]) :
            /\ brd_pages' = [brd_pages EXCEPT ![dev(t)] =
                 [p \in Page |-> IF p \in DiscardedPages(bio[t]) /\ Has(dev(t), p)
                                 THEN [o \in Offset |-> Zero] ELSE brd_pages[dev(t)][p]]]
            /\ last' = [last EXCEPT ![dev(t)] =
                 [s \in Sector |-> IF PageOf(s) \in zeroed THEN Zero ELSE last[dev(t)][s]]]
      <3> DEFINE z == {p \in DiscardedPages(bio[t]) : Has(dev(t), p) \/ ~is_snapshot(dev(t))}
      <3>1. z \in SUBSET DiscardedPages(bio[t])
        OBVIOUS
      <3> WITNESS z \in SUBSET DiscardedPages(bio[t])
      <3> QED BY <1>5 DEF discard_from_brd
    <2>3. ASSUME NEW d \in Dev, NEW p \in Page
          PROVE  brd_pages'[d][p] = IF d = dev(t) /\ p \in DiscardedPages(bio[t]) /\ Has(d, p)
                                    THEN [o \in Offset |-> Zero] ELSE brd_pages[d][p]
      BY <1>2, <1>4, <2>2
    <2>4. ASSUME NEW d \in Dev, NEW s \in Sector
          PROVE  last'[d][s] = IF d = dev(t) /\ PageOf(s) \in zeroed THEN Zero ELSE last[d][s]
      BY <1>2, <1>4, <2>2
    <2>5. [o \in Offset |-> Zero] # NoPage
      BY <1>1
    <2>6. \A d \in Dev, p \in Page : Has(d, p) => Has(d, p)'
      BY <2>3, <2>5 DEF Has, brd_lookup_page
    <2> QED BY <2>1, <2>2, <2>3, <2>4, <2>6
  <1>6. ASSUME NEW q \in [Offset -> Val], brd_pages' = [brd_pages EXCEPT ![dev(t)][PartPage(t)] = q]
        PROVE  /\ \A d \in Dev, p \in Page : Has(d, p) => Has(d, p)'
               /\ \A d \in Dev, p \in Page :
                    (d = dev(t) /\ p \in BioPages(bio[t])) \/ brd_pages'[d][p] = brd_pages[d][p]
    <2>1. ASSUME NEW d \in Dev, NEW p \in Page
          PROVE  brd_pages'[d][p] = IF d = dev(t) /\ p = PartPage(t) THEN q ELSE brd_pages[d][p]
      BY <1>2, <1>4, <1>6
    <2>2. \A d \in Dev, p \in Page : Has(d, p) => Has(d, p)'
      BY <1>1, <2>1 DEF Has, brd_lookup_page
    <2> QED BY <1>4, <2>1, <2>2
  <1>7. CASE InsertPage(t)
    <2> DEFINE q == IF brd_pages[dev(t)][PartPage(t)] = NoPage
                    THEN [o \in Offset |-> Zero] ELSE brd_pages[dev(t)][PartPage(t)]
    <2>1. q \in [Offset -> Val]
      BY <1>1, <1>2, <1>4
    <2>2. brd_pages' = [brd_pages EXCEPT ![dev(t)][PartPage(t)] = q] /\ last' = last
      BY <1>7 DEF InsertPage
    <2> HIDE DEF q
    <2> QED BY <1>6, <2>1, <2>2
  <1>8. CASE CopyParent(t) /\ ParentHas(dev(t), PartPage(t))
    <2> DEFINE q == brd_lookup_page(parent_brd(dev(t)), PartPage(t))
    <2>1. q \in [Offset -> Val]
      BY <1>2, <1>4, <1>8, Devices DEF ParentHas, Has, brd_lookup_page
    <2>2. brd_pages' = [brd_pages EXCEPT ![dev(t)][PartPage(t)] = q] /\ last' = last
      BY <1>8 DEF CopyParent
    <2> HIDE DEF q
    <2> QED BY <1>6, <2>1, <2>2
  <1>9. CASE CopyParent(t) /\ ~ParentHas(dev(t), PartPage(t))
    <2>1. brd_pages' = [brd_pages EXCEPT ![dev(t)][PartPage(t)] = brd_pages[dev(t)][PartPage(t)]] /\ last' = last
      BY <1>9 DEF CopyParent
    <2>2. brd_pages' = brd_pages
      BY <1>2, <1>4, <2>1
    <2> QED BY <2>1, <2>2 DEF Has, brd_lookup_page
  <1>10. CASE CopyFirst(t) \/ CopySecond(t)
    <2>1. /\ Has(dev(t), PartPage(t))
          /\ last' = [last EXCEPT ![dev(t)] =
                  [s \in Sector |-> IF s \in Part(t) THEN bio[t].val ELSE last[dev(t)][s]]]
      BY <1>10 DEF CopyFirst, CopySecond
    <2>2. /\ brd_pages[dev(t)][PartPage(t)] \in [Offset -> Val]
          /\ ParentHas(dev(t), PartPage(t)) =>
               brd_lookup_page(parent_brd(dev(t)), PartPage(t)) \in [Offset -> Val]
      BY <1>2, <1>4, <2>1, Devices DEF Has, ParentHas, brd_lookup_page
    <2>3. PICK r \in [Offset -> Val] :
            brd_pages' = [brd_pages EXCEPT ![dev(t)][PartPage(t)] = WrittenPage(t, r)]
      <3>1. CASE CopyFirst(t)
        BY <2>2, <3>1 DEF CopyFirst
      <3>2. CASE CopySecond(t) /\ ParentHas(dev(t), PartPage(t))
        BY <2>2, <3>2 DEF CopySecond
      <3>3. CASE CopySecond(t) /\ ~ParentHas(dev(t), PartPage(t))
        BY <2>2, <3>3 DEF CopySecond
      <3> QED BY <1>10, <3>1, <3>2, <3>3
    <2>4. WrittenPage(t, r) \in [Offset -> Val]
      <3>1. bio[t].val \in Val
        BY <1>4, BioFacts
      <3> QED BY <3>1 DEF WrittenPage, Fill
    <2>5. ASSUME NEW d \in Dev, NEW s \in Sector
          PROVE  last'[d][s] = IF d = dev(t) /\ s \in Part(t) THEN bio[t].val ELSE last[d][s]
      BY <1>2, <1>4, <2>1
    <2> QED BY <1>4, <1>6, <2>3, <2>4, <2>5
  <1> QED BY <1>5, <1>7, <1>8, <1>9, <1>10

\* With ioctls issued only when no bio is in flight, all bios are idle in them.
LEMMA QuietIoctl ==
    ASSUME "quiet" \in Rules, NEW d \in Dev, Ioctl(d)
    PROVE  \A t \in Thread : pc[t] = "idle" /\ pc' = pc /\ bio' = bio /\ bvec' = bvec /\ half' = half
                             /\ err' = err /\ buf' = buf
  BY DEF Ioctl, COW_BRD_SNAPSHOT, COW_BRD_UNSNAPSHOT, COW_BRD_RESTORE_SNAPSHOT, COW_BRD_WIPE,
     IoctlAllowed, Idle

\* The pages that thread t has looked up or inserted so far are there.
PagesReady(t) ==
    LET first == PageOf(Bvec(t).sector)
    IN /\ pc[t] \in {"lookup", "insert", "cow"} /\ half[t] = 2 => Has(dev(t), first)
       /\ pc[t] = "cow" => Has(dev(t), PartPage(t))
       /\ pc[t] = "copy" => Has(dev(t), first) /\ (Spans(Bvec(t)) => Has(dev(t), first + 1))

\* So it is for every thread.
PageInv == \A t \in Thread : PagesReady(t)

\* A bio that changes pages was accepted while its device was writable.
WritableInv ==
    /\ \A d \in Dev : is_snapshot(d) => is_writable[d]
    /\ \A t \in Thread : pc[t] \in Writing \cup {"discard"} => is_writable[dev(t)]

\* An ioctl cannot change is_writable under a bio.
LEMMA WritableStep ==
    ASSUME "quiet" \in Rules, ThreadInv, DeviceInv, WritableInv, [Next]_vars
    PROVE  WritableInv'
  <1>1. CASE \E t \in Thread : Submit(t) \/ Handle(t)
    <2>1. PICK t \in Thread : Submit(t) \/ Handle(t)
      BY <1>1
    <2>2. PICK p, b, k, h, e : Moves(t, p, b, k, h, e) /\ Local(p, b, k, h, e)
      BY <2>1, ThreadMoves
    <2>3. /\ pc'[t] = p /\ bio'[t] = b
          /\ \A u \in Thread \ {t} : pc'[u] = pc[u] /\ bio'[u] = bio[u]
          /\ is_writable' = is_writable
      BY <2>1, <2>2, MoveKeeps, Touches
    <2>4. ASSUME NEW u \in Thread, u # t, pc'[u] \in Writing \cup {"discard"}
          PROVE  is_writable'[dev(u)']
      BY <2>3, <2>4 DEF WritableInv, dev
    <2>5. ASSUME pc'[t] \in Writing \cup {"discard"} PROVE is_writable'[dev(t)']
      <3>1. CASE Submit(t)
        <4>1. PICK c \in Bios : /\ bio' = [bio EXCEPT ![t] = c]
                                /\ PastEnd(c) \/ Refused(c) => pc' = [pc EXCEPT ![t] = "endio"]
          BY <3>1 DEF Submit
        <4>2. bio'[t] = c /\ ~Refused(c)
          <5>1. bio'[t] = c
            BY <4>1 DEF ThreadInv
          <5>2. ASSUME Refused(c) PROVE FALSE
            <6>1. pc'[t] = "endio"
              BY <4>1, <5>2 DEF ThreadInv
            <6> QED BY <2>5, <6>1 DEF Writing
          <5> QED BY <5>1, <5>2
        <4>3. c.op \in {"WRITE", "DISCARD"}
          BY <2>2, <2>3, <2>5, <4>2 DEF Local, Writing
        <4> QED BY <2>3, <4>2, <4>3 DEF Refused, dev
      <3>2. CASE Handle(t)
        <4>1. bio' = bio \/ BIO_ENDIO(t)
          BY <3>2 DEF Handle, discard_from_brd, LookupPresent, LookupAbsent, AllocFails, InsertPage,
             CopyParent, CopyFirst, CopySecond, copy_from_brd
        <4>2. ~BIO_ENDIO(t)
          BY <2>5 DEF BIO_ENDIO, ThreadInv, Writing
        <4>3. pc[t] \in Writing \cup {"discard", "read"}
          BY <3>2, <4>2 DEF Handle, discard_from_brd, LookupPresent, LookupAbsent, AllocFails, InsertPage,
             CopyParent, CopyFirst, CopySecond, copy_from_brd, Writing
        <4>4. pc[t] # "read"
          <5> SUFFICES ASSUME pc[t] = "read" PROVE FALSE
            OBVIOUS
          <5>1. bio[t].op = "READ" /\ b.op \in {"WRITE", "DISCARD"}
            BY <2>2, <2>3, <2>5 DEF Local, ThreadInv, Writing
          <5> QED BY <2>3, <4>1, <4>2, <5>1
        <4> QED BY <2>3, <4>1, <4>2, <4>3, <4>4 DEF WritableInv, dev
      <3> QED BY <2>1, <3>1, <3>2
    <2> QED BY <2>3, <2>4, <2>5 DEF WritableInv
  <1>2. CASE \E d \in Dev : Ioctl(d)
    <2>1. PICK d \in Dev : Ioctl(d)
      BY <1>2
    <2>2. \A t \in Thread : pc'[t] = "idle"
      BY <2>1, QuietIoctl
    <2>3. \A e \in Dev : is_snapshot(e) => is_writable'[e]
      BY <2>1 DEF Ioctl, COW_BRD_SNAPSHOT, COW_BRD_UNSNAPSHOT, COW_BRD_RESTORE_SNAPSHOT, COW_BRD_WIPE,
         WritableInv, DeviceInv
    <2> QED BY <2>2, <2>3 DEF WritableInv, Writing
  <1>3. CASE UNCHANGED vars
    BY <1>3 DEF vars, WritableInv, dev
  <1> QED BY <1>1, <1>2, <1>3 DEF Next

-----------------------------------------------------------------------------
(* The pages of a bio under way *)

\* The pages of a bio stay ready while other threads go on.
LEMMA OthersReady ==
    ASSUME ThreadInv, DeviceInv, PageInv, NEW t \in Thread, Submit(t) \/ Handle(t),
           NEW u \in Thread, u # t
    PROVE  PagesReady(u)'
  <1>1. PICK p, b, k, h, e : Moves(t, p, b, k, h, e) /\ Local(p, b, k, h, e)
    BY ThreadMoves
  <1>2. pc'[u] = pc[u] /\ bio'[u] = bio[u] /\ bvec'[u] = bvec[u] /\ half'[u] = half[u]
    BY <1>1, MoveKeeps
  <1>3. dev(u)' = dev(u) /\ Bvec(u)' = Bvec(u) /\ PartPage(u)' = PartPage(u)
    BY <1>2 DEF dev, Bvec, PartPage
  <1>4. \A d \in Dev, q \in Page : Has(d, q) => Has(d, q)'
    BY Touches
  <1>5. PagesReady(u)
    BY DEF PageInv
  <1>6. CASE pc[u] \in Writing
    <2>1. /\ dev(u) \in Dev /\ PartPage(u) \in Page /\ PageOf(Bvec(u).sector) \in Page
          /\ Spans(Bvec(u)) => PageOf(Bvec(u).sector) + 1 \in Page
      BY <1>6, WorkFacts DEF Working
    <2> QED BY <1>2, <1>3, <1>4, <1>5, <2>1 DEF PagesReady
  <1>7. CASE pc[u] \notin Writing
    BY <1>2, <1>7 DEF PagesReady, Writing
  <1> QED BY <1>6, <1>7

\* Each step of a write makes its next pages ready.
LEMMA OwnReady ==
    ASSUME ThreadInv, DeviceInv, PageInv, NEW t \in Thread, Submit(t) \/ Handle(t)
    PROVE  PagesReady(t)'
  <1>1. PICK p, b, k, h, e : Moves(t, p, b, k, h, e) /\ Local(p, b, k, h, e)
    BY ThreadMoves
  <1>2. pc'[t] = p /\ bio'[t] = b /\ bvec'[t] = k /\ half'[t] = h
    BY <1>1, MoveKeeps
  <1>3. \A d \in Dev, q \in Page : Has(d, q) => Has(d, q)'
    BY Touches
  <1>4. PagesReady(t)
    BY DEF PageInv
  <1>5. ASSUME p = "lookup", h = 1 PROVE PagesReady(t)'
    BY <1>2, <1>5 DEF PagesReady
  <1>6. ASSUME p \notin Writing PROVE PagesReady(t)'
    BY <1>2, <1>6 DEF PagesReady, Writing
  <1>7. CASE Submit(t)
    <2>1. h = half[t] /\ half[t] = 1
      BY <1>2, <1>7 DEF Submit, ThreadInv, Local
    <2>2. p \notin Writing \/ p = "lookup"
      <3>1. PICK c \in Bios : \/ pc' = [pc EXCEPT ![t] = "endio"]
                              \/ pc' = [pc EXCEPT ![t] = CASE c.op = "READ" -> "read"
                                              [] c.op = "WRITE" -> "lookup"
                                              [] c.op = "DISCARD" -> "discard"]
        BY <1>7 DEF Submit
      <3>2. c.op \in {"READ", "WRITE", "DISCARD"}
        BY BioFacts
      <3>3. pc'[t] \in {"endio", "read", "lookup", "discard"}
        BY <3>1, <3>2 DEF ThreadInv
      <3> QED BY <1>2, <3>3 DEF Writing
    <2> QED BY <1>5, <1>6, <2>1, <2>2
  <1>8. CASE BIO_ENDIO(t) \/ discard_from_brd(t) \/ AllocFails(t)
    <2>1. p \in {"idle", "endio"}
      BY <1>2, <1>8 DEF BIO_ENDIO, discard_from_brd, AllocFails, GotoEndio, ThreadInv
    <2> QED BY <1>6, <2>1 DEF Writing
  <1>9. ASSUME NEW q, NextBvec(t, q), q \in {"lookup", "read"} PROVE PagesReady(t)'
    <2>1. p = "endio" \/ (p = q /\ h = 1)
      BY <1>2, <1>9 DEF NextBvec, GotoEndio, ThreadInv
    <2> QED BY <1>5, <1>6, <1>9, <2>1 DEF Writing
  <1> SUFFICES ASSUME pc[t] \in Working, bio' = bio,
                      \/ LookupPresent(t) \/ LookupAbsent(t) \/ InsertPage(t) \/ CopyParent(t)
                      \/ CopyFirst(t) \/ CopySecond(t) \/ copy_from_brd(t)
               PROVE  PagesReady(t)'
    <2>1. CASE \/ LookupPresent(t) \/ LookupAbsent(t) \/ InsertPage(t) \/ CopyParent(t)
               \/ CopyFirst(t) \/ CopySecond(t) \/ copy_from_brd(t)
      <3>1. pc[t] \in Working /\ bio' = bio
        BY <2>1 DEF LookupPresent, LookupAbsent, InsertPage, CopyParent, CopyFirst, CopySecond,
           copy_from_brd, Working, Writing
      <3> QED BY <2>1, <3>1
    <2> QED BY <1>7, <1>8, <2>1 DEF Handle
  <1>10. /\ dev(t) \in Dev /\ PartPage(t) \in Page /\ PageOf(Bvec(t).sector) \in Page
         /\ Spans(Bvec(t)) => PageOf(Bvec(t).sector) + 1 \in Page
         /\ half[t] = 1 => PartPage(t) = PageOf(Bvec(t).sector)
         /\ half[t] = 2 => PartPage(t) = PageOf(Bvec(t).sector) + 1
         /\ half[t] \in {1, 2} /\ dev(t)' = dev(t)
    BY WorkFacts DEF dev
  <1>11. ASSUME bvec' = bvec PROVE Bvec(t)' = Bvec(t)
    BY <1>11 DEF Bvec
  <1>12. ASSUME PageReady(t), pc[t] \in {"lookup", "cow"}, Has(dev(t), PartPage(t))
         PROVE  PagesReady(t)'
    <2>1. bvec' = bvec /\ Bvec(t)' = Bvec(t)
      BY <1>11, <1>12 DEF PageReady
    <2>2. CASE half[t] = 1 /\ Spans(Bvec(t))
      <3>1. p = "lookup" /\ h = 2
        BY <1>2, <1>12, <2>2 DEF PageReady, ThreadInv
      <3>2. Has(dev(t), PageOf(Bvec(t).sector))'
        BY <1>3, <1>10, <1>12, <2>1, <2>2
      <3> QED BY <1>2, <3>1, <3>2 DEF PagesReady
    <2>3. CASE ~(half[t] = 1 /\ Spans(Bvec(t)))
      <3>1. p = "copy"
        BY <1>2, <1>12, <2>3 DEF PageReady, ThreadInv
      <3>2. Has(dev(t), PageOf(Bvec(t).sector))
        BY <1>4, <1>10, <1>12 DEF PagesReady
      <3>3. Spans(Bvec(t)) => Has(dev(t), PageOf(Bvec(t).sector) + 1)
        BY <1>10, <1>12, <2>3
      <3>4. /\ Has(dev(t), PageOf(Bvec(t).sector))'
            /\ Spans(Bvec(t)) => Has(dev(t), PageOf(Bvec(t).sector) + 1)'
        BY <1>3, <1>10, <2>1, <3>2, <3>3
      <3> QED BY <1>2, <2>1, <3>1, <3>4 DEF PagesReady
    <2> QED BY <2>2, <2>3
  <1>13. CASE LookupPresent(t)
    BY <1>12, <1>13 DEF LookupPresent
  <1>14. CASE CopyParent(t)
    <2>1. pc[t] = "cow" /\ PageReady(t)
      BY <1>14 DEF CopyParent
    <2>2. Has(dev(t), PartPage(t))
      BY <1>4, <2>1 DEF PagesReady
    <2> QED BY <1>12, <2>1, <2>2
  <1>15. CASE LookupAbsent(t) \/ InsertPage(t)
    <2>1. /\ pc[t] \in {"lookup", "insert"} /\ UNCHANGED <<bvec, half>> /\ h = half[t]
          /\ Bvec(t)' = Bvec(t) /\ PartPage(t)' = PartPage(t)
      BY <1>2, <1>11, <1>15 DEF LookupAbsent, InsertPage, PartPage
    <2>2. half[t] = 2 => Has(dev(t), PageOf(Bvec(t).sector))'
      BY <1>3, <1>4, <1>10, <2>1 DEF PagesReady
    <2>3. CASE LookupAbsent(t)
      <3>1. p = "insert"
        BY <1>2, <2>3 DEF LookupAbsent, ThreadInv
      <3> QED BY <1>2, <2>1, <2>2, <3>1 DEF PagesReady
    <2>4. CASE InsertPage(t)
      <3>1. p = "cow"
        BY <1>2, <2>4 DEF InsertPage, ThreadInv
      <3>2. brd_pages'[dev(t)][PartPage(t)] # NoPage
        <4>1. [o \in Offset |-> Zero] # NoPage
          BY CowBrdAssumption
        <4> QED BY <1>10, <2>4, <4>1 DEF InsertPage, DeviceInv
      <3>3. Has(dev(t), PartPage(t))'
        BY <1>10, <2>1, <3>2 DEF Has, brd_lookup_page
      <3> QED BY <1>2, <2>1, <2>2, <3>1, <3>3 DEF PagesReady
    <2> QED BY <1>15, <2>3, <2>4
  <1>16. CASE CopyFirst(t)
    <2>1. CASE ~Spans(Bvec(t))
      BY <1>9, <1>16, <2>1 DEF CopyFirst
    <2>2. CASE Spans(Bvec(t))
      <3>1. pc[t] = "copy" /\ p = "copy" /\ Bvec(t)' = Bvec(t)
        BY <1>2, <1>11, <1>16, <2>2 DEF CopyFirst
      <3>2. Has(dev(t), PageOf(Bvec(t).sector)) /\ Has(dev(t), PageOf(Bvec(t).sector) + 1)
        BY <1>4, <2>2, <3>1 DEF PagesReady
      <3>3. Has(dev(t), PageOf(Bvec(t).sector))' /\ Has(dev(t), PageOf(Bvec(t).sector) + 1)'
        BY <1>3, <1>10, <2>2, <3>1, <3>2
      <3> QED BY <1>2, <3>1, <3>3 DEF PagesReady
    <2> QED BY <2>1, <2>2
  <1>17. CASE CopySecond(t)
    BY <1>9, <1>17 DEF CopySecond
  <1>18. CASE copy_from_brd(t)
    <2>1. pc[t] = "read" /\ (pc' = pc \/ NextBvec(t, "read"))
      BY <1>18 DEF copy_from_brd
    <2> QED BY <1>2, <1>6, <1>9, <2>1 DEF Writing
  <1> QED BY <1>13, <1>14, <1>15, <1>16, <1>17, <1>18

\* Nor take away a page.
LEMMA PageStep ==
    ASSUME "quiet" \in Rules, ThreadInv, DeviceInv, PageInv, [Next]_vars PROVE PageInv'
  <1>1. CASE \E t \in Thread : Submit(t) \/ Handle(t)
    BY <1>1, OwnReady, OthersReady DEF PageInv
  <1>2. CASE \E d \in Dev : Ioctl(d)
    BY <1>2, QuietIoctl DEF PageInv, PagesReady
  <1>3. CASE UNCHANGED vars
    BY <1>3 DEF vars, PageInv, PagesReady, Bvec, PartPage, dev, Has, brd_lookup_page
  <1> QED BY <1>1, <1>2, <1>3 DEF Next

\* What holds when ioctls are issued between bios only.
QuietInv == ThreadInv /\ DeviceInv /\ WritableInv /\ PageInv

\* It is inductive.
LEMMA QuietInvHolds ==
    ASSUME "quiet" \in Rules PROVE Spec => []QuietInv
  <1>1. Init => QuietInv
    <2> SUFFICES ASSUME Init PROVE WritableInv /\ PageInv
      BY InitInv DEF QuietInv
    <2> QED BY DEF Init, WritableInv, PageInv, PagesReady, Writing
  <1>2. QuietInv /\ [Next]_vars => QuietInv'
    BY ThreadStep, DeviceStep, WritableStep, PageStep DEF QuietInv
  <1> QED BY <1>1, <1>2, PTL DEF Spec

(***************************************************************************)
(* The BUG_ON(!page) of copy_to_brd is never hit, whatever bios any number *)
(* of threads have in flight, even on the same pages, provided ioctls are  *)
(* issued only between bios.                                               *)
(***************************************************************************)
THEOREM PagesNotDeletedUnderIOHolds ==
    ASSUME "quiet" \in Rules PROVE Spec => []PagesNotDeletedUnderIO
  <1>1. QuietInv => PagesNotDeletedUnderIO
    <2> SUFFICES ASSUME QuietInv, NEW t \in Thread, pc[t] = "copy" PROVE Has(dev(t), PartPage(t))
      BY DEF PagesNotDeletedUnderIO
    <2>1. PagesReady(t) /\ ThreadInv
      BY DEF QuietInv, PageInv
    <2> QED BY <2>1, WorkFacts DEF PagesReady, Working, Writing
  <1> QED BY <1>1, QuietInvHolds, PTL

(***************************************************************************)
(* A frozen disk keeps its pages until it is wiped: is_writable, tested    *)
(* once when a bio arrives, still holds at every later step of the bio,    *)
(* provided ioctls are issued only between bios.                           *)
(***************************************************************************)
THEOREM FrozenDiskUnchangedHolds ==
    ASSUME "quiet" \in Rules PROVE Spec => FrozenDiskUnchanged
  <1>1. QuietInv /\ [Next]_vars =>
          [\A d \in Disk : ~is_writable[d] =>
             brd_pages'[d] = brd_pages[d] \/ \A p \in Page : brd_pages'[d][p] = NoPage]_vars
    <2> SUFFICES ASSUME QuietInv, Next, NEW d \in Disk, ~is_writable[d]
                 PROVE  brd_pages'[d] = brd_pages[d] \/ \A p \in Page : brd_pages'[d][p] = NoPage
      OBVIOUS
    <2>1. d \in Dev /\ ~is_snapshot(d)
      BY Devices
    <2>2. CASE \E t \in Thread : Submit(t) \/ Handle(t)
      <3>1. PICK t \in Thread : Submit(t) \/ Handle(t)
        BY <2>2
      <3>2. ThreadInv /\ DeviceInv /\ WritableInv /\ DeviceInv'
        BY DeviceStep DEF QuietInv
      <3>3. ~(pc[t] \in Changing /\ d = dev(t))
        BY <3>2 DEF WritableInv, Changing, Writing
      <3>4. \A p \in Page : brd_pages'[d][p] = brd_pages[d][p]
        BY <2>1, <3>1, <3>2, <3>3, Touches
      <3> QED BY <2>1, <3>2, <3>4 DEF DeviceInv
    <2>3. CASE \E e \in Dev : Ioctl(e)
      <3>1. PICK e \in Dev : Ioctl(e)
        BY <2>3
      <3>2. brd_pages \in [Dev -> [Page -> [Offset -> Val] \cup {NoPage}]]
        BY DEF QuietInv, DeviceInv
      <3>3. CASE COW_BRD_SNAPSHOT(e) \/ COW_BRD_UNSNAPSHOT(e)
        BY <3>3 DEF COW_BRD_SNAPSHOT, COW_BRD_UNSNAPSHOT
      <3>4. CASE COW_BRD_RESTORE_SNAPSHOT(e)
        BY <2>1, <3>2, <3>4 DEF COW_BRD_RESTORE_SNAPSHOT, brd_free_pages
      <3>5. CASE COW_BRD_WIPE(e)
        BY <2>1, <3>2, <3>5 DEF COW_BRD_WIPE, brd_free_pages
      <3> QED BY <3>1, <3>3, <3>4, <3>5 DEF Ioctl
    <2> QED BY <2>2, <2>3 DEF Next
  <1> QED BY <1>1, QuietInvHolds, PTL DEF Spec, FrozenDiskUnchanged

-----------------------------------------------------------------------------
(* What each step does to the pages *)

\* What the page of sector s holds for it, on a device that has the page.
Value(d, s) == brd_lookup_page(d, PageOf(s))[OffsetOf(s)]

\* Page r of device c becomes q.
Replaced(c, r, q) == brd_pages' = [brd_pages EXCEPT ![c][r] = q]

\* The effect of one page of one device being replaced.
LEMMA PageReplaced ==
    ASSUME DeviceInv, NEW c \in Dev, NEW r \in Page, NEW q \in [Offset -> Val],
           Replaced(c, r, q)
    PROVE  /\ \A d \in Dev, p \in Page : Has(d, p)' <=> Has(d, p) \/ (d = c /\ p = r)
           /\ \A d \in Dev, s \in Sector :
                Value(d, s)' = IF d = c /\ PageOf(s) = r THEN q[OffsetOf(s)] ELSE Value(d, s)
  <1>1. \A d \in Dev, p \in Page :
          brd_pages'[d][p] = IF d = c /\ p = r THEN q ELSE brd_pages[d][p]
    BY DEF DeviceInv, Replaced
  <1>2. q # NoPage
    BY CowBrdAssumption
  <1>3. \A s \in Sector : PageOf(s) \in Page
    BY Sectors
  <1> QED BY <1>1, <1>2, <1>3 DEF Has, Value, brd_lookup_page

\* brd_insert_page, under the lock.
LEMMA InsertEffect ==
    ASSUME ThreadInv, DeviceInv, NEW t \in Thread, InsertPage(t)
    PROVE  /\ \A d \in Dev, p \in Page : Has(d, p)' <=> Has(d, p) \/ (d = dev(t) /\ p = PartPage(t))
           /\ \A d \in Dev, s \in Sector :
                Value(d, s)' = IF d = dev(t) /\ PageOf(s) = PartPage(t) /\ ~Has(d, PageOf(s))
                               THEN Zero ELSE Value(d, s)
           /\ last' = last
  <1>1. dev(t) \in Dev /\ PartPage(t) \in Page
    BY WorkFacts DEF InsertPage, Working, Writing
  <1> DEFINE q == IF brd_pages[dev(t)][PartPage(t)] = NoPage
                  THEN [o \in Offset |-> Zero] ELSE brd_pages[dev(t)][PartPage(t)]
  <1>2. q \in [Offset -> Val]
    BY <1>1, CowBrdAssumption DEF DeviceInv
  <1>3. Replaced(dev(t), PartPage(t), q) /\ last' = last
    BY DEF InsertPage, Replaced
  <1>4. \A s \in Sector : PageOf(s) = PartPage(t) =>
          q[OffsetOf(s)] = IF ~Has(dev(t), PageOf(s)) THEN Zero ELSE Value(dev(t), s)
    BY Sectors DEF Has, Value, brd_lookup_page
  <1> HIDE DEF q
  <1>5. /\ \A d \in Dev, p \in Page : Has(d, p)' <=> Has(d, p) \/ (d = dev(t) /\ p = PartPage(t))
        /\ \A d \in Dev, s \in Sector :
             Value(d, s)' = IF d = dev(t) /\ PageOf(s) = PartPage(t) THEN q[OffsetOf(s)] ELSE Value(d, s)
    BY <1>1, <1>2, <1>3, PageReplaced
  <1> QED BY <1>3, <1>4, <1>5

\* The copy of the parent's page.
LEMMA ParentEffect ==
    ASSUME ThreadInv, DeviceInv, PageInv, NEW t \in Thread, CopyParent(t)
    PROVE  /\ \A d \in Dev, p \in Page : Has(d, p)' <=> Has(d, p)
           /\ \A d \in Dev, s \in Sector :
                Value(d, s)' = IF d = dev(t) /\ PageOf(s) = PartPage(t) /\ ParentHas(d, PageOf(s))
                               THEN Value(parent_brd(d), s) ELSE Value(d, s)
           /\ last' = last
  <1>1. dev(t) \in Dev /\ PartPage(t) \in Page /\ parent_brd(dev(t)) \in Dev
    BY WorkFacts, Devices DEF CopyParent, Working, Writing
  <1>2. Has(dev(t), PartPage(t)) /\ last' = last
    BY DEF CopyParent, PageInv, PagesReady
  <1> DEFINE q == IF ParentHas(dev(t), PartPage(t))
                  THEN brd_lookup_page(parent_brd(dev(t)), PartPage(t))
                  ELSE brd_pages[dev(t)][PartPage(t)]
  <1>3. q \in [Offset -> Val]
    BY <1>1, <1>2 DEF DeviceInv, ParentHas, Has, brd_lookup_page
  <1>4. Replaced(dev(t), PartPage(t), q)
    BY DEF CopyParent, Replaced
  <1>5. \A s \in Sector : PageOf(s) = PartPage(t) =>
          q[OffsetOf(s)] = IF ParentHas(dev(t), PageOf(s)) THEN Value(parent_brd(dev(t)), s)
                                                           ELSE Value(dev(t), s)
    BY DEF Value, brd_lookup_page
  <1> HIDE DEF q
  <1>6. /\ \A d \in Dev, p \in Page : Has(d, p)' <=> Has(d, p) \/ (d = dev(t) /\ p = PartPage(t))
        /\ \A d \in Dev, s \in Sector :
             Value(d, s)' = IF d = dev(t) /\ PageOf(s) = PartPage(t) THEN q[OffsetOf(s)] ELSE Value(d, s)
    BY <1>1, <1>3, <1>4, PageReplaced
  <1> QED BY <1>2, <1>5, <1>6

\* copy_to_brd, but for the second part of a bvec on a snapshot.
LEMMA CopyEffect ==
    ASSUME ThreadInv, DeviceInv, NEW t \in Thread, CopyFirst(t) \/ CopySecond(t),
           half[t] = 2 => ~is_snapshot(dev(t))
    PROVE  /\ \A d \in Dev, p \in Page : Has(d, p)' <=> Has(d, p)
           /\ Has(dev(t), PartPage(t))
           /\ \A d \in Dev, s \in Sector :
                Value(d, s)' = IF d = dev(t) /\ s \in Part(t) THEN bio[t].val ELSE Value(d, s)
           /\ \A d \in Dev, s \in Sector :
                last'[d][s] = IF d = dev(t) /\ s \in Part(t) THEN bio[t].val ELSE last[d][s]
  <1>1. /\ dev(t) \in Dev /\ PartPage(t) \in Page /\ bio[t] \in Bios
        /\ Part(t) \subseteq Sector /\ \A s \in Part(t) : PageOf(s) = PartPage(t)
    BY WorkFacts, BioFacts DEF CopyFirst, CopySecond, Working, Writing
  <1>2. bio[t].val \in Val
    BY <1>1, BioFacts
  <1>3. /\ Has(dev(t), PartPage(t))
        /\ last' = [last EXCEPT ![dev(t)] =
              [s \in Sector |-> IF s \in Part(t) THEN bio[t].val ELSE last[dev(t)][s]]]
    BY DEF CopyFirst, CopySecond
  <1> DEFINE r == brd_pages[dev(t)][PartPage(t)]
             q == Fill(r, Part(t), bio[t].val)
  <1>4. r \in [Offset -> Val]
    BY <1>1, <1>3 DEF DeviceInv, Has, brd_lookup_page
  <1>5. Replaced(dev(t), PartPage(t), q)
    <2>1. CASE CopyFirst(t)
      BY <2>1 DEF CopyFirst, WrittenPage, Replaced
    <2>2. CASE CopySecond(t)
      <3>1. ~ParentHas(dev(t), PartPage(t))
        BY <2>2 DEF CopySecond, ParentHas
      <3> QED BY <2>2, <3>1 DEF CopySecond, WrittenPage, Replaced
    <2> QED BY <2>1, <2>2
  <1> HIDE DEF r
  <1>6. /\ q \in [Offset -> Val]
        /\ \A s \in Sector : PageOf(s) = PartPage(t) =>
             q[OffsetOf(s)] = IF s \in Part(t) THEN bio[t].val ELSE r[OffsetOf(s)]
    <2>1. OnPage(Part(t), PartPage(t))
      BY <1>1 DEF OnPage
    <2> HIDE DEF q
    <2>2. q = Fill(r, Part(t), bio[t].val)
      BY DEF q
    <2> QED BY <1>2, <1>4, <2>1, <2>2, Filled
  <1>7. \A s \in Sector : PageOf(s) = PartPage(t) => r[OffsetOf(s)] = Value(dev(t), s)
    BY DEF r, Value, brd_lookup_page
  <1> HIDE DEF q
  <1>8. /\ \A d \in Dev, p \in Page : Has(d, p)' <=> Has(d, p) \/ (d = dev(t) /\ p = PartPage(t))
        /\ \A d \in Dev, s \in Sector :
             Value(d, s)' = IF d = dev(t) /\ PageOf(s) = PartPage(t) THEN q[OffsetOf(s)] ELSE Value(d, s)
    BY <1>1, <1>5, <1>6, PageReplaced
  <1>9. ASSUME NEW d \in Dev, NEW s \in Sector
        PROVE  last'[d][s] = IF d = dev(t) /\ s \in Part(t) THEN bio[t].val ELSE last[d][s]
    BY <1>1, <1>3 DEF DeviceInv
  <1> QED BY <1>1, <1>3, <1>6, <1>7, <1>8, <1>9

\* discard_from_brd.
LEMMA DiscardEffect ==
    ASSUME ThreadInv, DeviceInv, NEW t \in Thread, discard_from_brd(t)
    PROVE  /\ \A d \in Dev, p \in Page : Has(d, p)' <=> Has(d, p)
           /\ \A d \in Dev, s \in Sector :
                Value(d, s)' = IF /\ d = dev(t) /\ PageOf(s) \in DiscardedPages(bio[t])
                                  /\ Has(d, PageOf(s))
                               THEN Zero ELSE Value(d, s)
           /\ \A d \in Dev, s \in Sector :
                last'[d][s] = IF /\ d = dev(t) /\ PageOf(s) \in DiscardedPages(bio[t])
                                 /\ Has(d, PageOf(s)) \/ ~is_snapshot(d)
                              THEN Zero ELSE last[d][s]
  <1>1. dev(t) \in Dev
    BY WorkFacts DEF discard_from_brd, Working
  <1>2. /\ brd_pages' = [brd_pages EXCEPT ![dev(t)] =
             [p \in Page |-> IF p \in DiscardedPages(bio[t]) /\ Has(dev(t), p)
                             THEN [o \in Offset |-> Zero] ELSE brd_pages[dev(t)][p]]]
        /\ last' = [last EXCEPT ![dev(t)] =
             [s \in Sector |-> IF PageOf(s) \in {p \in DiscardedPages(bio[t]) : Has(dev(t), p) \/ ~is_snapshot(dev(t))}
                               THEN Zero ELSE last[dev(t)][s]]]
    BY DEF discard_from_brd
  <1>3. ASSUME NEW d \in Dev, NEW p \in Page
        PROVE  brd_pages'[d][p] = IF d = dev(t) /\ p \in DiscardedPages(bio[t]) /\ Has(d, p)
                                  THEN [o \in Offset |-> Zero] ELSE brd_pages[d][p]
    BY <1>1, <1>2 DEF DeviceInv
  <1>4. [o \in Offset |-> Zero] # NoPage
    BY CowBrdAssumption
  <1>5. \A d \in Dev, p \in Page : Has(d, p)' <=> Has(d, p)
    BY <1>3, <1>4 DEF Has, brd_lookup_page
  <1>6. ASSUME NEW d \in Dev, NEW s \in Sector
        PROVE  Value(d, s)' = IF /\ d = dev(t) /\ PageOf(s) \in DiscardedPages(bio[t])
                                 /\ Has(d, PageOf(s))
                              THEN Zero ELSE Value(d, s)
    <2>1. PageOf(s) \in Page /\ OffsetOf(s) \in Offset
      BY Sectors
    <2> QED BY <1>3, <2>1 DEF Value, brd_lookup_page
  <1>7. ASSUME NEW d \in Dev, NEW s \in Sector
        PROVE  last'[d][s] = IF /\ d = dev(t) /\ PageOf(s) \in DiscardedPages(bio[t])
                                /\ Has(d, PageOf(s)) \/ ~is_snapshot(d)
                             THEN Zero ELSE last[d][s]
    BY <1>1, <1>2 DEF DeviceInv
  <1> QED BY <1>5, <1>6, <1>7

\* Every other step of a bio.
LEMMA NoEffect ==
    ASSUME NEW t \in Thread,
           \/ Submit(t) \/ BIO_ENDIO(t) \/ LookupPresent(t) \/ LookupAbsent(t) \/ AllocFails(t)
           \/ copy_from_brd(t)
    PROVE  /\ \A d, p : Has(d, p)' <=> Has(d, p)
           /\ \A d, s : Value(d, s)' = Value(d, s)
           /\ last' = last /\ brd_pages' = brd_pages
  <1>1. UNCHANGED <<brd_pages, last>>
    BY DEF Submit, BIO_ENDIO, LookupPresent, LookupAbsent, AllocFails, copy_from_brd
  <1> QED BY <1>1 DEF Has, Value, brd_lookup_page

\* brd_free_pages.
LEMMA FreeEffect ==
    ASSUME DeviceInv, NEW c \in Dev, brd_free_pages(c)
    PROVE  /\ \A d \in Dev, p \in Page : Has(d, p)' <=> Has(d, p) /\ d # c
           /\ \A d \in Dev, s \in Sector : d # c => Value(d, s)' = Value(d, s) /\ last'[d][s] = last[d][s]
           /\ \A s \in Sector : last'[c][s] = NoVal
  <1>1. \A d \in Dev, p \in Page : brd_pages'[d][p] = IF d = c THEN NoPage ELSE brd_pages[d][p]
    BY DEF DeviceInv, brd_free_pages
  <1>2. \A d \in Dev, s \in Sector : last'[d][s] = IF d = c THEN NoVal ELSE last[d][s]
    BY DEF DeviceInv, brd_free_pages
  <1>3. \A s \in Sector : PageOf(s) \in Page
    BY Sectors
  <1> QED BY <1>1, <1>2, <1>3 DEF Has, Value, brd_lookup_page

-----------------------------------------------------------------------------
(* Disjoint bios *)

\* No bvec of a bio for a snapshot crosses a page boundary.
AlignedOnSnapshots ==
    \A b \in Bios : is_snapshot(b.dev) => \A k \in DOMAIN b.bvecs : ~Spans(b.bvecs[k])

\* The bio a thread works on stays until it ends.
LEMMA BioStays ==
    ASSUME ThreadInv, NEW t \in Thread, Handle(t)
    PROVE  /\ pc[t] # "idle" /\ bio[t] \in Bios
           /\ BIO_ENDIO(t) \/ (pc[t] \in Working /\ bio' = bio)
           /\ BIO_ENDIO(t) => pc'[t] = "idle"
  <1>1. BIO_ENDIO(t) \/ (pc[t] \in Working /\ bio' = bio)
    BY DEF Handle, discard_from_brd, LookupPresent, LookupAbsent, AllocFails, InsertPage,
       CopyParent, CopyFirst, CopySecond, copy_from_brd, Working, Writing
  <1>2. pc[t] # "idle"
    BY <1>1 DEF BIO_ENDIO, Working, Writing
  <1>3. BIO_ENDIO(t) => pc'[t] = "idle"
    BY DEF BIO_ENDIO, ThreadInv
  <1> QED BY <1>1, <1>2, <1>3 DEF ThreadInv, Local

\* What a step of thread t leaves of another thread u.
LEMMA OtherThread ==
    ASSUME ThreadInv, NEW t \in Thread, Submit(t) \/ Handle(t), NEW u \in Thread, u # t
    PROVE  /\ pc'[u] = pc[u] /\ bio'[u] = bio[u] /\ bvec'[u] = bvec[u] /\ half'[u] = half[u]
           /\ err'[u] = err[u]
           /\ dev(u)' = dev(u) /\ Bvec(u)' = Bvec(u) /\ PartPage(u)' = PartPage(u)
           /\ Part(u)' = Part(u)
  <1>1. PICK p, b, k, h, e : Moves(t, p, b, k, h, e) /\ Local(p, b, k, h, e)
    BY ThreadMoves
  <1>2. pc'[u] = pc[u] /\ bio'[u] = bio[u] /\ bvec'[u] = bvec[u] /\ half'[u] = half[u] /\ err'[u] = err[u]
    BY <1>1, MoveKeeps
  <1> QED BY <1>2 DEF dev, Bvec, PartPage, Part

\* Two bios in flight on a device have no page in common.
DisjointInv ==
    \A t, u \in Thread : /\ t # u /\ pc[t] # "idle" /\ pc[u] # "idle" /\ dev(t) = dev(u)
                         => BioPages(bio[t]) \cap BioPages(bio[u]) = {}

\* They are kept apart when they are submitted, and keep their pages.
LEMMA DisjointStep ==
    ASSUME "disjoint" \in Rules, ThreadInv, DisjointInv, [Next]_vars PROVE DisjointInv'
  <1>1. ASSUME NEW t \in Thread, Submit(t) \/ Handle(t), NEW u \in Thread, u # t,
               pc'[t] # "idle", pc'[u] # "idle", dev(t)' = dev(u)'
        PROVE  BioPages(bio'[t]) \cap BioPages(bio'[u]) = {}
    <2>1. pc'[u] = pc[u] /\ bio'[u] = bio[u] /\ dev(u)' = dev(u)
      BY <1>1, OtherThread
    <2>2. CASE Submit(t)
      <3>1. PICK b \in Bios : SubmitAllowed(b) /\ bio' = [bio EXCEPT ![t] = b]
        BY <2>2 DEF Submit
      <3>2. bio'[t] = b /\ dev(t)' = b.dev
        BY <3>1 DEF ThreadInv, dev
      <3> QED BY <1>1, <2>1, <3>1, <3>2 DEF SubmitAllowed, dev
    <2>3. CASE Handle(t)
      <3>1. pc[t] # "idle" /\ bio' = bio
        BY <1>1, <2>3, BioStays
      <3> QED BY <1>1, <2>1, <3>1 DEF DisjointInv, dev
    <2> QED BY <1>1, <2>2, <2>3
  <1>2. CASE \E t \in Thread : Submit(t) \/ Handle(t)
    <2>1. PICK t \in Thread : Submit(t) \/ Handle(t)
      BY <1>2
    <2>2. \A u \in Thread \ {t} : pc'[u] = pc[u] /\ bio'[u] = bio[u]
      BY <2>1, OtherThread
    <2> SUFFICES ASSUME NEW v \in Thread, NEW u \in Thread, v # u, pc'[v] # "idle", pc'[u] # "idle",
                        dev(v)' = dev(u)'
                 PROVE  BioPages(bio'[v]) \cap BioPages(bio'[u]) = {}
      BY DEF DisjointInv
    <2>3. CASE v = t
      BY <1>1, <2>1, <2>3
    <2>4. CASE u = t
      BY <1>1, <2>1, <2>4
    <2>5. CASE v # t /\ u # t
      BY <2>2, <2>5 DEF DisjointInv, dev
    <2> QED BY <2>3, <2>4, <2>5
  <1>3. CASE (\E d \in Dev : Ioctl(d)) \/ UNCHANGED vars
    BY <1>3 DEF Ioctl, COW_BRD_SNAPSHOT, COW_BRD_UNSNAPSHOT, COW_BRD_RESTORE_SNAPSHOT, COW_BRD_WIPE,
       DisjointInv, vars, dev
  <1> QED BY <1>2, <1>3 DEF Next

-----------------------------------------------------------------------------
\* What was written last to a sector is on the device's own page, or the device is
\* a disk on which a page it does not have was discarded.
StayInv ==
    \A d \in Dev, s \in Sector : last[d][s] # NoVal =>
        \/ Has(d, PageOf(s)) /\ Value(d, s) = last[d][s]
        \/ ~Has(d, PageOf(s)) /\ ~is_snapshot(d) /\ last[d][s] = Zero

\* A page that is being inserted on a snapshot holds nothing that was written there.
Fresh(t) ==
    is_snapshot(dev(t)) =>
        /\ pc[t] = "insert" => ~Has(dev(t), PartPage(t))
        /\ pc[t] = "cow" => \A s \in Sector : PageOf(s) = PartPage(t) => last[dev(t)][s] = NoVal

\* So it is for every thread.
FreshInv == \A t \in Thread : Fresh(t)

\* Another thread does not touch the pages of this one.
LEMMA OtherPages ==
    ASSUME ThreadInv, DeviceInv, DisjointInv, NEW t \in Thread, Submit(t) \/ Handle(t),
           NEW u \in Thread, u # t, pc[u] # "idle", NEW p \in BioPages(bio[u])
    PROVE  /\ brd_pages'[dev(u)][p] = brd_pages[dev(u)][p]
           /\ \A s \in Sector : PageOf(s) = p => last'[dev(u)][s] = last[dev(u)][s]
  <1>1. bio[u] \in Bios /\ dev(u) \in Dev /\ p \in Page
    BY BioFacts DEF ThreadInv, Local, dev
  <1>2. ~(pc[t] \in Changing /\ dev(u) = dev(t) /\ p \in BioPages(bio[t]))
    <2> SUFFICES ASSUME pc[t] \in Changing, dev(u) = dev(t), p \in BioPages(bio[t]) PROVE FALSE
      OBVIOUS
    <2>1. pc[t] # "idle"
      BY DEF Changing
    <2> QED BY <2>1 DEF DisjointInv
  <1>3. /\ \A d \in Dev, q \in Page :
             \/ pc[t] \in Changing /\ d = dev(t) /\ q \in BioPages(bio[t])
             \/ brd_pages'[d][q] = brd_pages[d][q]
        /\ \A d \in Dev, s \in Sector :
             \/ pc[t] \in Changing /\ d = dev(t) /\ PageOf(s) \in BioPages(bio[t])
             \/ last'[d][s] = last[d][s]
    BY Touches
  <1> QED BY <1>1, <1>2, <1>3

\* A page found absent stays absent until the thread itself inserts it.
LEMMA FreshStep ==
    ASSUME "quiet" \in Rules, ThreadInv, DeviceInv, PageInv, DisjointInv, StayInv, FreshInv, [Next]_vars
    PROVE  FreshInv'
  <1>1. CASE \E t \in Thread : Submit(t) \/ Handle(t)
    <2>1. PICK t \in Thread : Submit(t) \/ Handle(t)
      BY <1>1
    <2>2. ASSUME NEW u \in Thread, u # t PROVE Fresh(u)'
      <3>1. pc'[u] = pc[u] /\ dev(u)' = dev(u) /\ PartPage(u)' = PartPage(u)
        BY <2>1, <2>2, OtherThread
      <3>2. CASE pc[u] \in {"insert", "cow"}
        <4>1. pc[u] # "idle" /\ PartPage(u) \in BioPages(bio[u])
          BY <3>2, WorkFacts DEF Working, Writing
        <4>2. /\ brd_pages'[dev(u)][PartPage(u)] = brd_pages[dev(u)][PartPage(u)]
              /\ \A s \in Sector : PageOf(s) = PartPage(u) => last'[dev(u)][s] = last[dev(u)][s]
          BY <2>1, <2>2, <4>1, OtherPages
        <4> QED BY <3>1, <4>2 DEF Fresh, FreshInv, Has, brd_lookup_page
      <3>3. CASE pc[u] \notin {"insert", "cow"}
        BY <3>1, <3>3 DEF Fresh
      <3> QED BY <3>2, <3>3
    <2>3. Fresh(t)'
      <3>1. CASE LookupAbsent(t)
        BY <3>1 DEF LookupAbsent, Fresh, ThreadInv, Has, brd_lookup_page, dev, PartPage, Bvec
      <3>2. CASE InsertPage(t)
        <4>1. pc[t] = "insert" /\ pc'[t] = "cow" /\ last' = last /\ dev(t)' = dev(t) /\ PartPage(t)' = PartPage(t)
          BY <3>2 DEF InsertPage, ThreadInv, dev, PartPage, Bvec
        <4>2. dev(t) \in Dev
          BY <4>1, WorkFacts DEF Working, Writing
        <4>3. ASSUME is_snapshot(dev(t)), NEW s \in Sector, PageOf(s) = PartPage(t)
              PROVE  last[dev(t)][s] = NoVal
          BY <4>1, <4>2, <4>3 DEF FreshInv, Fresh, StayInv
        <4> QED BY <4>1, <4>3 DEF Fresh
      <3>3. CASE ~LookupAbsent(t) /\ ~InsertPage(t)
        <4>1. pc'[t] \notin {"insert", "cow"}
          <5>1. CASE Submit(t)
            <6>1. PICK c \in Bios : \/ pc' = [pc EXCEPT ![t] = "endio"]
                                    \/ pc' = [pc EXCEPT ![t] = CASE c.op = "READ" -> "read"
                                                [] c.op = "WRITE" -> "lookup"
                                                [] c.op = "DISCARD" -> "discard"]
              BY <5>1 DEF Submit
            <6>2. c.op \in {"READ", "WRITE", "DISCARD"}
              BY BioFacts
            <6> QED BY <6>1, <6>2 DEF ThreadInv
          <5>2. CASE Handle(t)
            BY <3>3, <5>2 DEF Handle, BIO_ENDIO, discard_from_brd, LookupPresent, AllocFails,
               CopyParent, CopyFirst, CopySecond, copy_from_brd, GotoEndio, NextBvec, PageReady, ThreadInv
          <5> QED BY <2>1, <5>1, <5>2
        <4> QED BY <4>1 DEF Fresh
      <3> QED BY <3>1, <3>2, <3>3
    <2> QED BY <2>2, <2>3 DEF FreshInv
  <1>2. CASE \E d \in Dev : Ioctl(d)
    BY <1>2, QuietIoctl DEF FreshInv, Fresh
  <1>3. CASE UNCHANGED vars
    BY <1>3 DEF vars, FreshInv, Fresh, Has, brd_lookup_page, dev, PartPage, Bvec
  <1> QED BY <1>1, <1>2, <1>3 DEF Next

\* On a snapshot only the first part of a bvec is ever worked on.
LEMMA SecondOnDisk ==
    ASSUME AlignedOnSnapshots, ThreadInv, NEW t \in Thread, pc[t] \in Working
    PROVE  half[t] = 2 => ~is_snapshot(dev(t))
  BY WorkFacts DEF AlignedOnSnapshots, dev, Bvec

\* No step loses what was written: not the copy of the parent's page above all.
LEMMA StayStep ==
    ASSUME AlignedOnSnapshots, ThreadInv, DeviceInv, PageInv, StayInv, FreshInv, [Next]_vars
    PROVE  StayInv'
  <1>0. \A s \in Sector : PageOf(s) \in Page
    BY Sectors
  <1>1. CASE \E t \in Thread : Submit(t) \/ Handle(t)
    <2>1. PICK t \in Thread : Submit(t) \/ Handle(t)
      BY <1>1
    <2>2. CASE \/ Submit(t) \/ BIO_ENDIO(t) \/ LookupPresent(t) \/ LookupAbsent(t) \/ AllocFails(t)
               \/ copy_from_brd(t)
      BY <2>2, NoEffect DEF StayInv
    <2>3. CASE discard_from_brd(t)
      BY <1>0, <2>3, DiscardEffect DEF StayInv
    <2>4. CASE InsertPage(t)
      BY <1>0, <2>4, InsertEffect DEF StayInv
    <2>5. CASE CopyParent(t)
      <3>1. is_snapshot(dev(t)) => \A s \in Sector : PageOf(s) = PartPage(t) => last[dev(t)][s] = NoVal
        BY <2>5 DEF CopyParent, FreshInv, Fresh
      <3> QED BY <1>0, <2>5, <3>1, ParentEffect DEF StayInv, ParentHas
    <2>6. CASE CopyFirst(t) \/ CopySecond(t)
      <3>1. pc[t] \in Working
        BY <2>6 DEF CopyFirst, CopySecond, Working, Writing
      <3>2. half[t] = 2 => ~is_snapshot(dev(t))
        BY <3>1, SecondOnDisk
      <3>3. \A s \in Part(t) : PageOf(s) = PartPage(t)
        BY <3>1, WorkFacts
      <3> QED BY <1>0, <2>6, <3>2, <3>3, CopyEffect DEF StayInv
    <2> QED BY <2>1, <2>2, <2>3, <2>4, <2>5, <2>6 DEF Handle
  <1>2. CASE \E d \in Dev : Ioctl(d)
    <2>1. PICK d \in Dev : Ioctl(d)
      BY <1>2
    <2>2. CASE COW_BRD_SNAPSHOT(d) \/ COW_BRD_UNSNAPSHOT(d)
      BY <2>2 DEF COW_BRD_SNAPSHOT, COW_BRD_UNSNAPSHOT, StayInv, Has, Value, brd_lookup_page
    <2>3. CASE COW_BRD_RESTORE_SNAPSHOT(d) \/ COW_BRD_WIPE(d)
      <3>1. brd_free_pages(d)
        BY <2>3 DEF COW_BRD_RESTORE_SNAPSHOT, COW_BRD_WIPE
      <3> QED BY <1>0, <3>1, FreeEffect DEF StayInv
    <2> QED BY <2>1, <2>2, <2>3 DEF Ioctl
  <1>3. CASE UNCHANGED vars
    BY <1>3 DEF vars, StayInv, Has, Value, brd_lookup_page
  <1> QED BY <1>1, <1>2, <1>3 DEF Next

-----------------------------------------------------------------------------
(* Writes *)

\* The sectors of its bio that thread t is done with.
SoFar(t) ==
    {s \in Sector : \/ \E k \in 1..(bvec[t] - 1), h \in {1, 2} : s \in PartSectors(bio[t].bvecs[k], h)
                    \/ /\ half[t] = 2 /\ pc[t] \in {"copy", "read"}
                       /\ s \in PartSectors(Bvec(t), 1)}

\* At the end, all of them.
DoneSectors(t) == IF pc[t] = "endio" THEN Range(bio[t]) ELSE SoFar(t)

\* How far a step gets: by the part in work, if it is a copying one.
LEMMA DoneStep ==
    ASSUME ThreadInv, NEW t \in Thread, Handle(t), pc'[t] # "idle",
           bio[t].op # "DISCARD", err'[t] = "ok"
    PROVE  /\ \/ CopyFirst(t) \/ CopySecond(t) \/ copy_from_brd(t)
              \/ DoneSectors(t)' \subseteq DoneSectors(t)
           /\ DoneSectors(t)' \subseteq DoneSectors(t) \cup Part(t)
           /\ DoneSectors(t) \subseteq Range(bio[t])
  <1>1. pc[t] \in Working /\ bio' = bio /\ ~BIO_ENDIO(t) /\ bio[t] \in Bios
    BY BioStays
  <1>2. /\ ~PastEnd(bio[t]) /\ bvec[t] \in DOMAIN bio[t].bvecs /\ half[t] \in {1, 2}
        /\ Part(t) \subseteq Range(bio[t])
        /\ half[t] = 2 => Spans(Bvec(t))
    BY <1>1, WorkFacts
  <1>3. DOMAIN bio[t].bvecs = 1..Len(bio[t].bvecs) /\ Len(bio[t].bvecs) \in Nat /\ bvec[t] \in Nat
    BY <1>1, <1>2, BioFacts
  <1>4. /\ DoneSectors(t) = SoFar(t)
        /\ pc'[t] # "endio" => DoneSectors(t)' = SoFar(t)'
        /\ pc'[t] = "endio" => DoneSectors(t)' = Range(bio[t])
    BY <1>1 DEF DoneSectors, Working, Writing
  <1>5. SoFar(t) \subseteq Range(bio[t])
    <2>1. ASSUME NEW k \in DOMAIN bio[t].bvecs, NEW h \in {1, 2}
          PROVE  PartSectors(bio[t].bvecs[k], h) \subseteq Range(bio[t])
      BY <1>1, <1>2, BvecFacts
    <2>2. \A k \in 1..(bvec[t] - 1) : k \in DOMAIN bio[t].bvecs
      BY <1>2, <1>3
    <2> QED BY <1>2, <2>1, <2>2 DEF SoFar, Bvec
  <1>6. ASSUME UNCHANGED bvec, pc'[t] # "endio", pc'[t] \notin {"copy", "read"} \/ half'[t] = 1
        PROVE  SoFar(t)' \subseteq SoFar(t)
    BY <1>1, <1>6 DEF SoFar
  <1>7. ASSUME NEW p, NextBvec(t, p), p # "endio", half[t] = 2 \/ ~Spans(Bvec(t)), pc[t] \in {"copy", "read"}
        PROVE  DoneSectors(t)' \subseteq SoFar(t) \cup Part(t)
    <2>1. \A s \in PartSectors(Bvec(t), 1) \cup PartSectors(Bvec(t), 2) : s \in Sector => s \in SoFar(t) \cup Part(t)
      <3>1. CASE half[t] = 2
        BY <1>7, <3>1 DEF SoFar, Part
      <3>2. CASE half[t] = 1
        <4>1. PartSectors(Bvec(t), 2) = {}
          BY <1>7, <3>2 DEF Spans
        <4> QED BY <3>2, <4>1 DEF Part
      <3> QED BY <1>2, <3>1, <3>2
    <2>2. CASE bvec[t] = Len(bio[t].bvecs)
      <3>1. DoneSectors(t)' = Range(bio[t])
        BY <1>4, <1>7, <2>2 DEF NextBvec, GotoEndio, ThreadInv
      <3> SUFFICES ASSUME NEW s \in Range(bio[t]) PROVE s \in SoFar(t) \cup Part(t)
        BY <3>1
      <3>2. s \in Sector
        BY DEF Range
      <3>3. PICK k \in DOMAIN bio[t].bvecs :
              s \in PartSectors(bio[t].bvecs[k], 1) \/ s \in PartSectors(bio[t].bvecs[k], 2)
        BY <1>1, <1>2, BvecFacts
      <3>4. CASE k = bvec[t]
        BY <2>1, <3>2, <3>3, <3>4 DEF Bvec
      <3>5. CASE k # bvec[t]
        <4>1. k \in 1..(bvec[t] - 1)
          BY <1>3, <2>2, <3>5
        <4> QED BY <3>2, <3>3, <4>1 DEF SoFar
      <3> QED BY <3>4, <3>5
    <2>3. CASE bvec[t] # Len(bio[t].bvecs)
      <3>1. pc'[t] = p /\ bvec'[t] = bvec[t] + 1 /\ half'[t] = 1
        BY <1>7, <2>3 DEF NextBvec, ThreadInv
      <3>2. DoneSectors(t)' = SoFar(t)'
        BY <1>4, <1>7, <3>1
      <3> SUFFICES ASSUME NEW s, s \in SoFar(t)' PROVE s \in SoFar(t) \cup Part(t)
        BY <3>2
      <3>3. s \in Sector /\ \E k \in 1..(bvec'[t] - 1), h \in {1, 2} : s \in PartSectors(bio'[t].bvecs[k], h)
        <4>1. half'[t] # 2
          BY <3>1
        <4> QED BY <4>1, Zenon DEF SoFar
      <3>4. PICK k \in 1..bvec[t], h \in {1, 2} : s \in PartSectors(bio[t].bvecs[k], h)
        <4>1. bvec'[t] - 1 = bvec[t]
          BY <1>3, <3>1
        <4> QED BY <1>1, <3>3, <4>1
      <3>5. CASE k = bvec[t]
        BY <2>1, <3>3, <3>4, <3>5 DEF Bvec
      <3>6. CASE k # bvec[t]
        <4>1. k \in 1..(bvec[t] - 1)
          BY <1>3, <3>6
        <4> QED BY <3>3, <3>4, <4>1 DEF SoFar
      <3> QED BY <3>5, <3>6
    <2> QED BY <2>2, <2>3
  <1>8. CASE LookupPresent(t) \/ CopyParent(t)
    <2>1. PageReady(t)
      BY <1>8 DEF LookupPresent, CopyParent
    <2>2. UNCHANGED bvec /\ pc'[t] # "endio" /\ (pc'[t] \notin {"copy", "read"} \/ half'[t] = 1)
      BY <2>1 DEF PageReady, ThreadInv
    <2> QED BY <1>4, <1>5, <1>6, <2>2
  <1>9. CASE LookupAbsent(t) \/ InsertPage(t)
    <2>1. UNCHANGED bvec /\ pc'[t] # "endio" /\ pc'[t] \notin {"copy", "read"}
      BY <1>9 DEF LookupAbsent, InsertPage, ThreadInv
    <2> QED BY <1>4, <1>5, <1>6, <2>1
  <1>10. ~AllocFails(t) /\ ~discard_from_brd(t)
    BY <1>1 DEF AllocFails, discard_from_brd, GotoEndio, ThreadInv, Local
  <1>11. ASSUME pc[t] \in {"copy", "read"}, half[t] = 1, half' = [half EXCEPT ![t] = 2], UNCHANGED <<pc, bvec>>
         PROVE  DoneSectors(t)' \subseteq SoFar(t) \cup Part(t)
    <2>1. pc'[t] # "endio" /\ half'[t] = 2 /\ pc'[t] = pc[t] /\ bvec'[t] = bvec[t]
      BY <1>11 DEF ThreadInv
    <2>2. SoFar(t)' \subseteq SoFar(t) \cup PartSectors(Bvec(t), 1)
      BY <1>1, <2>1 DEF SoFar, Bvec
    <2> QED BY <1>4, <1>11, <2>1, <2>2 DEF Part
  <1>12. CASE CopyFirst(t)
    <2>1. CASE Spans(Bvec(t))
      <3>1. DoneSectors(t)' \subseteq SoFar(t) \cup Part(t)
        BY <1>11, <1>12, <2>1 DEF CopyFirst
      <3> QED BY <1>4, <1>5, <1>12, <3>1
    <2>2. CASE ~Spans(Bvec(t))
      <3>1. NextBvec(t, "lookup") /\ pc[t] = "copy"
        BY <1>12, <2>2 DEF CopyFirst
      <3>2. DoneSectors(t)' \subseteq SoFar(t) \cup Part(t)
        BY <1>7, <2>2, <3>1
      <3> QED BY <1>4, <1>5, <1>12, <3>2
    <2> QED BY <2>1, <2>2
  <1>13. CASE CopySecond(t)
    <2>1. NextBvec(t, "lookup") /\ pc[t] = "copy" /\ half[t] = 2
      BY <1>13 DEF CopySecond
    <2>2. DoneSectors(t)' \subseteq SoFar(t) \cup Part(t)
      BY <1>7, <2>1
    <2> QED BY <1>4, <1>5, <1>13, <2>2
  <1>14. CASE copy_from_brd(t)
    <2>1. CASE half[t] = 1 /\ Spans(Bvec(t))
      <3>1. DoneSectors(t)' \subseteq SoFar(t) \cup Part(t)
        BY <1>11, <1>14, <2>1 DEF copy_from_brd
      <3> QED BY <1>4, <1>5, <1>14, <3>1
    <2>2. CASE ~(half[t] = 1 /\ Spans(Bvec(t)))
      <3>1. NextBvec(t, "read") /\ pc[t] = "read"
        BY <1>14, <2>2 DEF copy_from_brd
      <3>2. DoneSectors(t)' \subseteq SoFar(t) \cup Part(t)
        BY <1>2, <1>7, <2>2, <3>1
      <3> QED BY <1>4, <1>5, <1>14, <3>2
    <2> QED BY <2>1, <2>2
  <1> QED BY <1>1, <1>8, <1>9, <1>10, <1>12, <1>13, <1>14 DEF Handle

\* A bio that was just accepted is done with nothing.
LEMMA NothingDone ==
    ASSUME ThreadInv, NEW t \in Thread, Submit(t), err'[t] = "ok"
    PROVE  DoneSectors(t)' = {}
  <1>1. half'[t] = 1 /\ bvec'[t] = 1
    BY DEF Submit, ThreadInv, Local
  <1>2. pc'[t] # "endio"
    <2>1. PICK c \in Bios : \/ err' = [err EXCEPT ![t] = "EIO"]
                            \/ pc' = [pc EXCEPT ![t] = CASE c.op = "READ" -> "read"
                                        [] c.op = "WRITE" -> "lookup"
                                        [] c.op = "DISCARD" -> "discard"]
      BY DEF Submit
    <2>2. c.op \in {"READ", "WRITE", "DISCARD"}
      BY BioFacts
    <2> QED BY <2>1, <2>2 DEF ThreadInv
  <1> QED BY <1>1, <1>2 DEF DoneSectors, SoFar

\* A bio with nothing but its own steps and those of other threads keeps what it is done with.
LEMMA SameDone ==
    ASSUME ThreadInv, NEW t \in Thread, Submit(t) \/ Handle(t), NEW u \in Thread, u # t
    PROVE  DoneSectors(u)' = DoneSectors(u)
  <1>1. pc'[u] = pc[u] /\ bio'[u] = bio[u] /\ bvec'[u] = bvec[u] /\ half'[u] = half[u] /\ Bvec(u)' = Bvec(u)
    BY OtherThread
  <1> QED BY <1>1 DEF DoneSectors, SoFar

\* A write's sectors hold its value as far as it is done.
WriteDone(t) ==
    pc[t] # "idle" /\ bio[t].op = "WRITE" /\ err[t] = "ok"
        => \A s \in DoneSectors(t) \cap Range(bio[t]) : last[dev(t)][s] = bio[t].val

\* So it is for every thread.
WriteInv == \A t \in Thread : WriteDone(t)

\* Each copy adds its part; no other thread writes there.
LEMMA WriteStep ==
    ASSUME "quiet" \in Rules, AlignedOnSnapshots, ThreadInv, DeviceInv, DisjointInv, WriteInv, [Next]_vars
    PROVE  WriteInv'
  <1>1. CASE \E t \in Thread : Submit(t) \/ Handle(t)
    <2>1. PICK t \in Thread : Submit(t) \/ Handle(t)
      BY <1>1
    <2>2. ASSUME NEW u \in Thread, u # t PROVE WriteDone(u)'
      <3>1. pc'[u] = pc[u] /\ bio'[u] = bio[u] /\ err'[u] = err[u] /\ dev(u)' = dev(u)
            /\ DoneSectors(u)' = DoneSectors(u)
        BY <2>1, <2>2, OtherThread, SameDone
      <3> SUFFICES ASSUME pc[u] # "idle", NEW s \in Range(bio[u])
                   PROVE  last'[dev(u)][s] = last[dev(u)][s]
        BY <3>1 DEF WriteInv, WriteDone
      <3>2. bio[u] \in Bios
        BY DEF ThreadInv, Local
      <3>3. s \in Sector /\ PageOf(s) \in BioPages(bio[u])
        BY <3>2, BioFacts
      <3> QED BY <2>1, <2>2, <3>3, OtherPages
    <2>3. WriteDone(t)'
      <3>1. CASE Submit(t)
        BY <3>1, NothingDone DEF WriteDone
      <3>2. CASE Handle(t)
        <4> SUFFICES ASSUME pc'[t] # "idle", bio'[t].op = "WRITE", err'[t] = "ok",
                            NEW s \in DoneSectors(t)', s \in Range(bio'[t])
                     PROVE  last'[dev(t)'][s] = bio'[t].val
          BY DEF WriteDone
        <4>1. bio' = bio /\ pc[t] \in Working /\ bio[t] \in Bios
          BY <3>2, BioStays
        <4>2. /\ dev(t) \in Dev /\ err[t] = "ok" /\ pc[t] # "idle" /\ s \in Sector /\ dev(t)' = dev(t)
              /\ s \in Range(bio[t])
          BY <4>1, WorkFacts, BioFacts DEF Working, Writing, dev
        <4>3. /\ \/ CopyFirst(t) \/ CopySecond(t) \/ copy_from_brd(t)
                 \/ DoneSectors(t)' \subseteq DoneSectors(t)
              /\ DoneSectors(t)' \subseteq DoneSectors(t) \cup Part(t)
          BY <3>2, <4>1, DoneStep
        <4>4. s \in DoneSectors(t) => last[dev(t)][s] = bio[t].val
          BY <4>1, <4>2 DEF WriteInv, WriteDone
        <4>5. CASE CopyFirst(t) \/ CopySecond(t)
          <5>1. half[t] = 2 => ~is_snapshot(dev(t))
            BY <4>1, SecondOnDisk
          <5>2. last'[dev(t)][s] = IF s \in Part(t) THEN bio[t].val ELSE last[dev(t)][s]
            BY <4>2, <4>5, <5>1, CopyEffect
          <5> QED BY <4>1, <4>2, <4>3, <4>4, <5>2
        <4>6. CASE ~(CopyFirst(t) \/ CopySecond(t))
          <5>1. ~copy_from_brd(t) /\ ~discard_from_brd(t)
            BY <4>1 DEF copy_from_brd, discard_from_brd, ThreadInv, Local
          <5>2. last' = last
            BY <3>2, <4>6, <5>1 DEF Handle, BIO_ENDIO, LookupPresent, LookupAbsent, AllocFails, InsertPage,
               CopyParent
          <5> QED BY <4>1, <4>2, <4>3, <4>4, <4>6, <5>1, <5>2
        <4> QED BY <4>5, <4>6
      <3> QED BY <2>1, <3>1, <3>2
    <2> QED BY <2>2, <2>3 DEF WriteInv
  <1>2. CASE \E d \in Dev : Ioctl(d)
    BY <1>2, QuietIoctl DEF WriteInv, WriteDone
  <1>3. CASE UNCHANGED vars
    BY <1>3 DEF vars, WriteInv, WriteDone, DoneSectors, SoFar, Bvec, dev
  <1> QED BY <1>1, <1>2, <1>3 DEF Next

\* What holds when, besides, the bios in flight are disjoint.
StoreInv == QuietInv /\ DisjointInv /\ StayInv /\ FreshInv /\ WriteInv

\* It is inductive.
LEMMA StoreInvHolds ==
    ASSUME {"quiet", "disjoint"} \subseteq Rules, AlignedOnSnapshots PROVE Spec => []StoreInv
  <1>1. Init => StoreInv
    <2> SUFFICES ASSUME Init PROVE StoreInv
      OBVIOUS
    <2>1. QuietInv
      BY InitInv DEF Init, QuietInv, WritableInv, PageInv, PagesReady, Writing
    <2>2. DisjointInv /\ FreshInv /\ WriteInv
      BY DEF Init, DisjointInv, FreshInv, Fresh, WriteInv, WriteDone
    <2>3. StayInv
      BY DEF Init, StayInv
    <2> QED BY <2>1, <2>2, <2>3 DEF StoreInv
  <1>2. StoreInv /\ [Next]_vars => StoreInv'
    BY ThreadStep, DeviceStep, WritableStep, PageStep, DisjointStep, StayStep, FreshStep, WriteStep
       DEF StoreInv, QuietInv
  <1> QED BY <1>1, <1>2, PTL DEF Spec

(***************************************************************************)
(* What a bio wrote stays until it is overwritten, discarded or freed, and *)
(* a write that ends without error is on the device in full; for any       *)
(* number of devices and threads, provided bios in flight on a device have *)
(* no page in common, ioctls are issued only between bios, and no bvec     *)
(* crosses a page boundary of a snapshot.  Each proviso is needed.         *)
(***************************************************************************)
THEOREM WrittenStaysHolds ==
    ASSUME {"quiet", "disjoint"} \subseteq Rules, AlignedOnSnapshots PROVE Spec => []WrittenStays
  <1>1. StoreInv => WrittenStays
    <2> SUFFICES ASSUME StoreInv PROVE WrittenStays
      OBVIOUS
    <2>1. ASSUME NEW d \in Dev, NEW s \in Sector, last[d][s] # NoVal
          PROVE  Contents(d)[s] = last[d][s]
      <3>1. \/ Has(d, PageOf(s)) /\ Value(d, s) = last[d][s]
            \/ ~Has(d, PageOf(s)) /\ ~is_snapshot(d) /\ last[d][s] = Zero
        BY <2>1 DEF StoreInv, StayInv
      <3>2. ~(ParentHas(d, PageOf(s)) /\ BeingCopied(d, PageOf(s)))
        <4> SUFFICES ASSUME is_snapshot(d), BeingCopied(d, PageOf(s)) PROVE FALSE
          BY DEF ParentHas
        <4>1. PICK t \in Thread : pc[t] = "cow" /\ dev(t) = d /\ PartPage(t) = PageOf(s)
          BY DEF BeingCopied
        <4> QED BY <2>1, <4>1 DEF StoreInv, FreshInv, Fresh
      <3> QED BY <3>1, <3>2 DEF Contents, ParentHas, Value
    <2>2. ASSUME NEW t \in Thread, Completed(t, "WRITE"), NEW s \in Range(bio[t])
          PROVE  last[dev(t)][s] = bio[t].val
      BY <2>2 DEF Completed, StoreInv, WriteInv, WriteDone, DoneSectors
    <2> QED BY <2>1, <2>2 DEF WrittenStays
  <1> QED BY <1>1, StoreInvHolds, PTL

-----------------------------------------------------------------------------
(* What a device shows *)

\* What device d shows for sector s, in terms of the pages.
View(d, s) ==
    IF Has(d, PageOf(s)) /\ ~(ParentHas(d, PageOf(s)) /\ BeingCopied(d, PageOf(s)))
    THEN Value(d, s)
    ELSE IF ParentHas(d, PageOf(s)) THEN Value(parent_brd(d), s) ELSE Zero

\* Contents says the same.
LEMMA ContentsView ==
    ASSUME NEW d \in Dev, NEW s \in Sector PROVE Contents(d)[s] = View(d, s)
  <1>1. CASE Has(d, PageOf(s)) /\ ~(ParentHas(d, PageOf(s)) /\ BeingCopied(d, PageOf(s)))
    BY <1>1 DEF Contents, View, Value
  <1>2. CASE ~(Has(d, PageOf(s)) /\ ~(ParentHas(d, PageOf(s)) /\ BeingCopied(d, PageOf(s))))
    <2>1. CASE ParentHas(d, PageOf(s))
      <3>1. ~Has(d, PageOf(s)) \/ BeingCopied(d, PageOf(s))
        BY <1>2
      <3> QED BY <1>2, <2>1, <3>1 DEF Contents, View, Value
    <2>2. CASE ~ParentHas(d, PageOf(s))
      BY <1>2, <2>2 DEF Contents, View
    <2> QED BY <2>1, <2>2
  <1> QED BY <1>1, <1>2

\* A disk is frozen as long as a snapshot of it is used, or holds a page.
FrozenInv ==
    /\ \A t \in Thread : pc[t] # "idle" /\ is_snapshot(dev(t)) => ~is_writable[parent_brd(dev(t))]
    /\ \A e \in Dev, p \in Page : is_snapshot(e) /\ Has(e, p) => ~is_writable[parent_brd(e)]

\* A disk is thawed only when its snapshots hold no page, a snapshot used only when it is frozen.
LEMMA FrozenStep ==
    ASSUME {"quiet", "frozen"} \subseteq Rules, ThreadInv, DeviceInv, PageInv, FrozenInv, [Next]_vars
    PROVE  FrozenInv'
  <1>0. \A e \in Dev : parent_brd(e) \in Dev
    BY Devices
  <1>1. CASE \E t \in Thread : Submit(t) \/ Handle(t)
    <2>1. PICK t \in Thread : Submit(t) \/ Handle(t)
      BY <1>1
    <2>2. is_writable' = is_writable
      BY <2>1, Touches
    <2>3. ASSUME NEW u \in Thread, u # t, pc'[u] # "idle", is_snapshot(dev(u)')
          PROVE  ~is_writable'[parent_brd(dev(u)')]
      BY <2>1, <2>2, <2>3, OtherThread DEF FrozenInv
    <2>4. ASSUME pc'[t] # "idle", is_snapshot(dev(t)')
          PROVE  ~is_writable'[parent_brd(dev(t)')]
      <3>1. CASE Submit(t)
        <4>1. PICK b \in Bios : SubmitAllowed(b) /\ bio' = [bio EXCEPT ![t] = b]
          BY <3>1 DEF Submit
        <4>2. dev(t)' = b.dev
          BY <4>1 DEF ThreadInv, dev
        <4> QED BY <2>2, <2>4, <4>1, <4>2 DEF SubmitAllowed
      <3>2. CASE Handle(t)
        <4>1. pc[t] # "idle" /\ bio' = bio
          BY <2>4, <3>2, BioStays
        <4> QED BY <2>2, <2>4, <4>1 DEF FrozenInv, dev
      <3> QED BY <2>1, <3>1, <3>2
    <2>5. ASSUME NEW e \in Dev, NEW p \in Page, is_snapshot(e), Has(e, p)'
          PROVE  ~is_writable'[parent_brd(e)]
      <3>1. CASE Has(e, p)
        BY <2>2, <2>5, <3>1 DEF FrozenInv
      <3>2. CASE ~Has(e, p)
        <4>1. pc[t] \in Changing /\ e = dev(t)
          BY <2>1, <2>5, <3>2, Touches DEF Has, brd_lookup_page
        <4> QED BY <2>2, <2>5, <4>1 DEF FrozenInv, Changing
      <3> QED BY <3>1, <3>2
    <2> QED BY <2>3, <2>4, <2>5 DEF FrozenInv
  <1>2. CASE \E d \in Dev : Ioctl(d)
    <2>1. PICK d \in Dev : Ioctl(d)
      BY <1>2
    <2>2. \A t \in Thread : pc'[t] = "idle"
      BY <2>1, QuietIoctl
    <2> SUFFICES ASSUME NEW e \in Dev, NEW p \in Page, is_snapshot(e), Has(e, p)'
                 PROVE  ~is_writable'[parent_brd(e)]
      BY <2>2 DEF FrozenInv
    <2>3. CASE COW_BRD_SNAPSHOT(d)
      <3>1. Has(e, p)
        BY <2>3 DEF COW_BRD_SNAPSHOT, Has, brd_lookup_page
      <3> QED BY <1>0, <2>3, <3>1 DEF COW_BRD_SNAPSHOT, FrozenInv, DeviceInv
    <2>4. CASE COW_BRD_UNSNAPSHOT(d)
      <3>1. Has(e, p) /\ Unmodified(d)
        BY <2>4 DEF COW_BRD_UNSNAPSHOT, Has, brd_lookup_page, ThawAllowed
      <3>2. parent_brd(e) # d
        BY <3>1 DEF Unmodified
      <3> QED BY <1>0, <2>4, <3>1, <3>2 DEF COW_BRD_UNSNAPSHOT, FrozenInv, DeviceInv
    <2>5. CASE COW_BRD_RESTORE_SNAPSHOT(d) \/ COW_BRD_WIPE(d)
      <3>1. brd_free_pages(d) /\ is_writable' = is_writable
        BY <2>5 DEF COW_BRD_RESTORE_SNAPSHOT, COW_BRD_WIPE
      <3>2. Has(e, p)
        BY <3>1, FreeEffect
      <3> QED BY <3>1, <3>2 DEF FrozenInv
    <2> QED BY <2>1, <2>3, <2>4, <2>5 DEF Ioctl
  <1>3. CASE UNCHANGED vars
    BY <1>3 DEF vars, FrozenInv, Has, brd_lookup_page, dev
  <1> QED BY <1>1, <1>2, <1>3 DEF Next

-----------------------------------------------------------------------------
\* What holds when all three rules are kept.
SharingInv == StoreInv /\ FrozenInv

\* The devices that show what is written on d.
Shows(d) == {e \in Dev : e = d \/ (d \in Disk /\ parent_brd(e) = d)}

\* The snapshots of a disk that takes writes show its pages, and only those.
LEMMA Untouched ==
    ASSUME FrozenInv, NEW d \in Disk, is_writable[d], NEW e \in Dev, parent_brd(e) = d
    PROVE  \A s \in Sector : /\ View(e, s) = IF Has(d, PageOf(s)) THEN Value(d, s) ELSE Zero
                             /\ e # d => ~Has(e, PageOf(s))
  <1>1. e # d => is_snapshot(e)
    BY Devices
  <1>2. ~is_snapshot(d) /\ d \in Dev
    BY Devices
  <1> TAKE s \in Sector
  <1>3. PageOf(s) \in Page
    BY Sectors
  <1>4. CASE e = d
    BY <1>2, <1>4 DEF View, ParentHas
  <1>5. CASE e # d
    <2>1. ~Has(e, PageOf(s))
      BY <1>1, <1>3, <1>5 DEF FrozenInv
    <2>2. ParentHas(e, PageOf(s)) <=> Has(d, PageOf(s))
      BY <1>1, <1>5 DEF ParentHas
    <2> QED BY <2>1, <2>2 DEF View
  <1> QED BY <1>4, <1>5

\* No thread copies the parent's page over a page another one works on.
LEMMA NotCopied ==
    ASSUME ThreadInv, DisjointInv, NEW t \in Thread, pc[t] # "idle",
           NEW p \in BioPages(bio[t]), BeingCopied(dev(t), p)
    PROVE  pc[t] = "cow" /\ PartPage(t) = p
  <1>1. PICK u \in Thread : pc[u] = "cow" /\ dev(u) = dev(t) /\ PartPage(u) = p
    BY DEF BeingCopied
  <1>2. PartPage(u) \in BioPages(bio[u])
    BY <1>1, WorkFacts DEF Working, Writing
  <1>3. u = t
    BY <1>1, <1>2 DEF DisjointInv
  <1> QED BY <1>1, <1>3

\* Which pages are being copied, from one step of a thread to the next.
LEMMA CopiedStep ==
    ASSUME ThreadInv, DisjointInv, NEW t \in Thread, Submit(t) \/ Handle(t), NEW d, NEW p
    PROVE  BeingCopied(d, p)' <=>
             \/ InsertPage(t) /\ d = dev(t) /\ p = PartPage(t)
             \/ BeingCopied(d, p) /\ ~(CopyParent(t) /\ d = dev(t) /\ p = PartPage(t))
  <1>1. \A u \in Thread \ {t} : pc'[u] = pc[u] /\ dev(u)' = dev(u) /\ PartPage(u)' = PartPage(u)
    BY OtherThread
  <1>2. InsertPage(t) => /\ pc'[t] = "cow" /\ dev(t)' = dev(t) /\ PartPage(t)' = PartPage(t)
                         /\ pc[t] # "cow"
    BY DEF InsertPage, ThreadInv, dev, PartPage, Bvec
  <1>3. CopyParent(t) => pc[t] = "cow" /\ pc'[t] # "cow"
    BY DEF CopyParent, PageReady, ThreadInv
  <1>4. ~InsertPage(t) => pc'[t] # "cow"
    <2>1. CASE Submit(t)
      <3>1. PICK c \in Bios : \/ pc' = [pc EXCEPT ![t] = "endio"]
                              \/ pc' = [pc EXCEPT ![t] = CASE c.op = "READ" -> "read"
                                              [] c.op = "WRITE" -> "lookup"
                                              [] c.op = "DISCARD" -> "discard"]
        BY <2>1 DEF Submit
      <3>2. c.op \in {"READ", "WRITE", "DISCARD"}
        BY BioFacts
      <3> QED BY <3>1, <3>2 DEF ThreadInv
    <2>2. CASE BIO_ENDIO(t) \/ discard_from_brd(t) \/ AllocFails(t) \/ LookupAbsent(t)
      BY <2>2 DEF BIO_ENDIO, discard_from_brd, AllocFails, LookupAbsent, GotoEndio, ThreadInv
    <2>3. CASE LookupPresent(t) \/ CopyParent(t)
      BY <2>3 DEF LookupPresent, CopyParent, PageReady, ThreadInv
    <2>4. CASE CopyFirst(t) \/ CopySecond(t) \/ copy_from_brd(t)
      <3>1. pc'[t] = pc[t] \/ NextBvec(t, "lookup") \/ NextBvec(t, "read")
        BY <2>4 DEF CopyFirst, CopySecond, copy_from_brd
      <3>2. pc[t] # "cow"
        BY <2>4 DEF CopyFirst, CopySecond, copy_from_brd
      <3> QED BY <3>1, <3>2 DEF NextBvec, GotoEndio, ThreadInv
    <2> QED BY <2>1, <2>2, <2>3, <2>4 DEF Handle
  <1>5. ~CopyParent(t) => pc[t] # "cow"
    BY DEF Submit, Handle, BIO_ENDIO, discard_from_brd, AllocFails, LookupAbsent, LookupPresent,
       CopyFirst, CopySecond, copy_from_brd, InsertPage
  <1>6. ASSUME CopyParent(t), NEW u \in Thread, u # t, pc[u] = "cow", dev(u) = dev(t),
               PartPage(u) = PartPage(t)
        PROVE  FALSE
    <2>1. PartPage(t) \in BioPages(bio[t]) /\ PartPage(u) \in BioPages(bio[u])
      BY <1>3, <1>6, WorkFacts DEF Working, Writing
    <2> QED BY <1>3, <1>6, <2>1 DEF DisjointInv
  <1>7. BeingCopied(d, p)' <=> \E u \in Thread : pc'[u] = "cow" /\ dev(u)' = d /\ PartPage(u)' = p
    BY DEF BeingCopied
  <1>8. BeingCopied(d, p) <=> \E u \in Thread : pc[u] = "cow" /\ dev(u) = d /\ PartPage(u) = p
    BY DEF BeingCopied
  <1>9. CASE InsertPage(t)
    BY <1>1, <1>2, <1>3, <1>7, <1>8, <1>9
  <1>10. CASE CopyParent(t)
    <2>1. ~InsertPage(t) /\ pc'[t] # "cow"
      BY <1>2, <1>3, <1>10
    <2>2. BeingCopied(d, p)' <=> \E u \in Thread \ {t} : pc[u] = "cow" /\ dev(u) = d /\ PartPage(u) = p
      BY <1>1, <1>7, <2>1
    <2>3. CASE d = dev(t) /\ p = PartPage(t)
      BY <1>6, <1>10, <2>1, <2>2, <2>3
    <2>4. CASE ~(d = dev(t) /\ p = PartPage(t))
      BY <1>8, <2>1, <2>2, <2>4
    <2> QED BY <2>3, <2>4
  <1>11. CASE ~InsertPage(t) /\ ~CopyParent(t)
    BY <1>1, <1>4, <1>5, <1>7, <1>8, <1>11
  <1> QED BY <1>9, <1>10, <1>11

\* The steps of a bio that change what a device shows.
Stores(t) == CopyFirst(t) \/ CopySecond(t) \/ discard_from_brd(t)

\* All the others keep it, for every device.
LEMMA ViewKept ==
    ASSUME SharingInv, NEW t \in Thread, Submit(t) \/ Handle(t), ~Stores(t),
           NEW d \in Dev, NEW s \in Sector
    PROVE  View(d, s)' = View(d, s)
  <1>0. ThreadInv /\ DeviceInv /\ WritableInv /\ PageInv /\ DisjointInv /\ FreshInv /\ FrozenInv
    BY DEF SharingInv, StoreInv, QuietInv
  <1>1. PageOf(s) \in Page /\ parent_brd(d) \in Dev /\ ~is_snapshot(parent_brd(d))
    BY Sectors, Devices
  <1> DEFINE p == PageOf(s)
  <1>2. BeingCopied(d, p)' <=>
             \/ InsertPage(t) /\ d = dev(t) /\ p = PartPage(t)
             \/ BeingCopied(d, p) /\ ~(CopyParent(t) /\ d = dev(t) /\ p = PartPage(t))
    BY <1>0, CopiedStep
  <1> HIDE DEF p
  <1>3. CASE InsertPage(t)
    <2>1. /\ \A e \in Dev, r \in Page : Has(e, r)' <=> Has(e, r) \/ (e = dev(t) /\ r = PartPage(t))
          /\ \A e \in Dev : Value(e, s)' = IF e = dev(t) /\ p = PartPage(t) /\ ~Has(e, p)
                                           THEN Zero ELSE Value(e, s)
      BY <1>0, <1>3, InsertEffect DEF p
    <2>2. pc[t] = "insert" /\ ~CopyParent(t)
      BY <1>3 DEF InsertPage, CopyParent
    <2>3. is_snapshot(dev(t)) => ~Has(dev(t), PartPage(t))
      BY <1>0, <2>2 DEF FreshInv, Fresh
    <2>4. dev(t) \in Dev /\ is_writable[dev(t)]
      BY <1>0, <2>2, WorkFacts DEF WritableInv, Working, Writing
    <2>5. is_snapshot(d) /\ parent_brd(d) = dev(t) => ~Has(d, p)
      BY <1>0, <1>1, <2>4 DEF FrozenInv, p
    <2>6. /\ Has(d, p)' <=> Has(d, p) \/ (d = dev(t) /\ p = PartPage(t))
          /\ ParentHas(d, p)' <=> \/ ParentHas(d, p)
                                  \/ is_snapshot(d) /\ parent_brd(d) = dev(t) /\ p = PartPage(t)
      BY <1>1, <2>1 DEF ParentHas, p
    <2>7. /\ Value(d, s)' = IF d = dev(t) /\ p = PartPage(t) /\ ~Has(d, p) THEN Zero ELSE Value(d, s)
          /\ Value(parent_brd(d), s)' =
               IF parent_brd(d) = dev(t) /\ p = PartPage(t) /\ ~Has(parent_brd(d), p)
               THEN Zero ELSE Value(parent_brd(d), s)
      BY <1>1, <2>1
    <2>8. ParentHas(d, p) <=> is_snapshot(d) /\ Has(parent_brd(d), p)
      BY DEF ParentHas
    <2>9. View(d, s) = IF Has(d, p) /\ ~(ParentHas(d, p) /\ BeingCopied(d, p)) THEN Value(d, s)
                       ELSE IF ParentHas(d, p) THEN Value(parent_brd(d), s) ELSE Zero
      BY DEF View, p
    <2>10. View(d, s)' = IF Has(d, p)' /\ ~(ParentHas(d, p)' /\ BeingCopied(d, p)') THEN Value(d, s)'
                         ELSE IF ParentHas(d, p)' THEN Value(parent_brd(d), s)' ELSE Zero
      BY DEF View, p
    <2>11. CASE d = dev(t) /\ p = PartPage(t)
      <3>1. CASE is_snapshot(d)
        <4>1. ~Has(d, p) /\ Has(d, p)' /\ BeingCopied(d, p)' /\ parent_brd(d) # dev(t)
          BY <1>1, <1>2, <1>3, <2>3, <2>6, <2>11, <3>1
        <4> QED BY <2>6, <2>7, <2>8, <2>9, <2>10, <2>11, <3>1, <4>1
      <3>2. CASE ~is_snapshot(d)
        BY <2>6, <2>7, <2>8, <2>9, <2>10, <2>11, <3>2
      <3> QED BY <3>1, <3>2
    <2>12. CASE ~(d = dev(t) /\ p = PartPage(t))
      <3>1. /\ Has(d, p)' <=> Has(d, p)
            /\ BeingCopied(d, p)' <=> BeingCopied(d, p)
            /\ Value(d, s)' = Value(d, s)
        BY <1>2, <2>2, <2>6, <2>7, <2>12
      <3>2. CASE is_snapshot(d) /\ parent_brd(d) = dev(t) /\ p = PartPage(t)
        BY <2>5, <2>6, <2>7, <2>8, <2>9, <2>10, <3>1, <3>2
      <3>3. CASE ~(is_snapshot(d) /\ parent_brd(d) = dev(t) /\ p = PartPage(t))
        BY <2>6, <2>7, <2>8, <2>9, <2>10, <3>1, <3>3
      <3> QED BY <3>2, <3>3
    <2> QED BY <2>11, <2>12
  <1>4. CASE CopyParent(t)
    <2>1. /\ \A e \in Dev, r \in Page : Has(e, r)' <=> Has(e, r)
          /\ \A e \in Dev : Value(e, s)' = IF e = dev(t) /\ p = PartPage(t) /\ ParentHas(e, p)
                                           THEN Value(parent_brd(e), s) ELSE Value(e, s)
      BY <1>0, <1>4, ParentEffect DEF p
    <2>2. pc[t] = "cow" /\ ~InsertPage(t) /\ dev(t) \in Dev
      BY <1>0, <1>4, WorkFacts DEF InsertPage, CopyParent, Working, Writing
    <2>3. Has(dev(t), PartPage(t)) /\ BeingCopied(dev(t), PartPage(t))
      BY <1>0, <2>2 DEF PageInv, PagesReady, BeingCopied
    <2>4. (Has(d, p)' <=> Has(d, p)) /\ (ParentHas(d, p)' <=> ParentHas(d, p))
      BY <1>1, <2>1 DEF ParentHas, p
    <2>5. Value(parent_brd(d), s)' = Value(parent_brd(d), s)
      BY <1>1, <2>1 DEF ParentHas
    <2>6. Value(d, s)' = IF d = dev(t) /\ p = PartPage(t) /\ ParentHas(d, p)
                         THEN Value(parent_brd(d), s) ELSE Value(d, s)
      BY <2>1
    <2>7. CASE d = dev(t) /\ p = PartPage(t)
      BY <1>2, <2>2, <2>3, <2>4, <2>5, <2>6, <2>7 DEF View, p
    <2>8. CASE ~(d = dev(t) /\ p = PartPage(t))
      BY <1>2, <2>2, <2>4, <2>5, <2>6, <2>8 DEF View, p
    <2> QED BY <2>7, <2>8
  <1>5. CASE ~InsertPage(t) /\ ~CopyParent(t)
    <2>1. /\ \A e, r : Has(e, r)' <=> Has(e, r)
          /\ \A e, r : Value(e, r)' = Value(e, r)
      BY <1>5, NoEffect DEF Handle, Stores
    <2>2. BeingCopied(d, p)' <=> BeingCopied(d, p)
      BY <1>2, <1>5
    <2>3. ParentHas(d, p)' <=> ParentHas(d, p)
      BY <2>1 DEF ParentHas
    <2> QED BY <2>1, <2>2, <2>3 DEF View, p
  <1> QED BY <1>3, <1>4, <1>5

\* Storing writes some of the bio's sectors, on the device and where it shows through.
LEMMA ViewStored ==
    ASSUME SharingInv, AlignedOnSnapshots, NEW t \in Thread, Handle(t), Stores(t)
    PROVE  /\ dev(t) \in Dev /\ is_writable[dev(t)]
           /\ \E S \in SUBSET Range(bio[t]) : \A e \in Dev, s \in Sector :
                View(e, s)' = IF e \in Shows(dev(t)) /\ s \in S THEN bio[t].val ELSE View(e, s)
  <1>0. ThreadInv /\ DeviceInv /\ WritableInv /\ DisjointInv /\ FrozenInv
    BY DEF SharingInv, StoreInv, QuietInv
  <1>1. pc[t] \in {"copy", "discard"}
    BY DEF Stores, CopyFirst, CopySecond, discard_from_brd
  <1>2. /\ bio[t] \in Bios /\ ~PastEnd(bio[t]) /\ dev(t) \in Dev
        /\ Part(t) \subseteq Range(bio[t]) /\ PartPage(t) \in BioPages(bio[t])
        /\ BioPages(bio[t]) \subseteq Page
        /\ \A s \in Part(t) : PageOf(s) = PartPage(t)
    BY <1>0, <1>1, WorkFacts DEF Working, Writing
  <1>3. is_writable[dev(t)]
    BY <1>0, <1>1 DEF WritableInv, Writing
  <1>4. ~InsertPage(t) /\ ~CopyParent(t)
    BY <1>1 DEF InsertPage, CopyParent
  <1>5. \A d, p : BeingCopied(d, p)' <=> BeingCopied(d, p)
    BY <1>0, <1>4, CopiedStep
  <1>6. \A p \in BioPages(bio[t]) : ~BeingCopied(dev(t), p)
    BY <1>0, <1>1, NotCopied
  <1>7. PICK S \in SUBSET Range(bio[t]) :
          /\ \A s \in S : Has(dev(t), PageOf(s)) /\ PageOf(s) \in BioPages(bio[t])
          /\ \A d \in Dev, p \in Page : Has(d, p)' <=> Has(d, p)
          /\ \A d \in Dev, s \in Sector :
               Value(d, s)' = IF d = dev(t) /\ s \in S THEN bio[t].val ELSE Value(d, s)
    <2>1. CASE CopyFirst(t) \/ CopySecond(t)
      <3>1. half[t] = 2 => ~is_snapshot(dev(t))
        <4>1. pc[t] \in Working
          BY <1>1 DEF Working, Writing
        <4> QED BY <1>0, <4>1, SecondOnDisk
      <3>2. /\ \A d \in Dev, p \in Page : Has(d, p)' <=> Has(d, p)
            /\ Has(dev(t), PartPage(t))
            /\ \A d \in Dev, s \in Sector :
                 Value(d, s)' = IF d = dev(t) /\ s \in Part(t) THEN bio[t].val ELSE Value(d, s)
        BY <1>0, <2>1, <3>1, CopyEffect
      <3> QED BY <1>2, <3>2
    <2>2. CASE discard_from_brd(t)
      <3> DEFINE S == {s \in Sector : PageOf(s) \in DiscardedPages(bio[t]) /\ Has(dev(t), PageOf(s))}
      <3>1. bio[t].op = "DISCARD" /\ bio[t].val = Zero
        BY <1>0, <1>2, <2>2, BioAssumption DEF discard_from_brd, ThreadInv, Local
      <3>2. S \in SUBSET Range(bio[t]) /\ DiscardedPages(bio[t]) \subseteq BioPages(bio[t])
        BY <1>2, <3>1, DiscardFacts
      <3>3. /\ \A d \in Dev, p \in Page : Has(d, p)' <=> Has(d, p)
            /\ \A d \in Dev, s \in Sector :
                 Value(d, s)' = IF d = dev(t) /\ s \in S THEN Zero ELSE Value(d, s)
        BY <1>0, <2>2, DiscardEffect
      <3>4. \A s \in S : Has(dev(t), PageOf(s)) /\ PageOf(s) \in BioPages(bio[t])
        BY <3>2
      <3> HIDE DEF S
      <3> QED BY <3>1, <3>2, <3>3, <3>4
    <2> QED BY <2>1, <2>2 DEF Stores
  <1>8. ASSUME NEW e \in Dev, NEW s \in Sector
        PROVE  View(e, s)' = IF e \in Shows(dev(t)) /\ s \in S THEN bio[t].val ELSE View(e, s)
    <2> DEFINE p == PageOf(s)
    <2>1. p \in Page /\ parent_brd(e) \in Dev /\ ~is_snapshot(parent_brd(e))
      BY Sectors, Devices
    <2> HIDE DEF p
    <2>2. (Has(e, p)' <=> Has(e, p)) /\ (ParentHas(e, p)' <=> ParentHas(e, p))
      BY <1>7, <2>1 DEF ParentHas
    <2>3. BeingCopied(e, p)' <=> BeingCopied(e, p)
      BY <1>5
    <2>4. Value(e, s)' = IF e = dev(t) /\ s \in S THEN bio[t].val ELSE Value(e, s)
      BY <1>7
    <2>5. Value(parent_brd(e), s)' =
            IF parent_brd(e) = dev(t) /\ s \in S THEN bio[t].val ELSE Value(parent_brd(e), s)
      BY <1>7, <2>1
    <2>6. CASE s \notin S
      BY <2>2, <2>3, <2>4, <2>5, <2>6 DEF View, p
    <2>7. CASE s \in S /\ e = dev(t)
      <3>1. Has(e, p) /\ ~BeingCopied(e, p)
        BY <1>6, <1>7, <2>7 DEF p
      <3>2. e \in Shows(dev(t))
        BY <2>7 DEF Shows
      <3> QED BY <2>2, <2>3, <2>4, <2>7, <3>1, <3>2 DEF View, p
    <2>8. CASE s \in S /\ e # dev(t) /\ e \in Shows(dev(t))
      <3>1. dev(t) \in Disk /\ parent_brd(e) = dev(t)
        BY <2>8 DEF Shows
      <3>2. ~Has(e, p)
        BY <1>0, <1>3, <2>8, <3>1, Untouched DEF p
      <3>3. ParentHas(e, p)
        <4>1. is_snapshot(e)
          BY <2>8, <3>1, Devices
        <4> QED BY <1>7, <2>8, <3>1, <4>1 DEF ParentHas, p
      <3> QED BY <2>2, <2>5, <2>8, <3>1, <3>2, <3>3 DEF View, p
    <2>9. CASE s \in S /\ e \notin Shows(dev(t))
      <3>1. e # dev(t) /\ parent_brd(e) # dev(t)
        BY <2>9, Devices DEF Shows
      <3> QED BY <2>2, <2>3, <2>4, <2>5, <2>9, <3>1 DEF View, p
    <2> QED BY <2>6, <2>7, <2>8, <2>9
  <1> QED BY <1>2, <1>3, <1>8

-----------------------------------------------------------------------------
(* Reads *)

\* What a bio in flight looks at is changed by no other thread.
LEMMA ForeignView ==
    ASSUME SharingInv, AlignedOnSnapshots, NEW t \in Thread, Submit(t) \/ Handle(t),
           NEW u \in Thread, u # t, pc[u] # "idle", NEW s \in Range(bio[u])
    PROVE  View(dev(u), s)' = View(dev(u), s)
  <1>0. ThreadInv /\ DisjointInv /\ FrozenInv
    BY DEF SharingInv, StoreInv, QuietInv
  <1>1. bio[u] \in Bios
    BY <1>0 DEF ThreadInv, Local
  <1>2. dev(u) \in Dev /\ s \in Sector /\ PageOf(s) \in BioPages(bio[u])
    BY <1>1, BioFacts DEF dev
  <1>3. dev(u)' = dev(u)
    BY <1>0, OtherThread
  <1>4. CASE ~Stores(t)
    <2>1. \A d \in Dev : View(d, s)' = View(d, s)
      BY <1>2, <1>4, ViewKept
    <2> QED BY <1>2, <1>3, <2>1 DEF View
  <1>5. CASE Stores(t)
    <2>1. Handle(t)
      BY <1>5 DEF Stores, Handle
    <2>2. is_writable[dev(t)] /\ dev(t) \in Dev
      BY <1>5, <2>1, ViewStored
    <2>3. PICK S \in SUBSET Range(bio[t]) : \A e \in Dev, r \in Sector :
            View(e, r)' = IF e \in Shows(dev(t)) /\ r \in S THEN bio[t].val ELSE View(e, r)
      BY <1>5, <2>1, ViewStored
    <2>4. pc[t] # "idle" /\ bio[t] \in Bios
      BY <1>0, <2>1, BioStays
    <2>5. ~(dev(u) \in Shows(dev(t)) /\ s \in S)
      <3>1. CASE dev(u) = dev(t)
        <4>1. s \in S => PageOf(s) \in BioPages(bio[t])
          BY <2>4, BioFacts
        <4> QED BY <1>0, <1>2, <2>4, <3>1, <4>1 DEF DisjointInv
      <3>2. CASE dev(u) # dev(t)
        <4> SUFFICES ASSUME dev(t) \in Disk, parent_brd(dev(u)) = dev(t) PROVE FALSE
          BY <3>2 DEF Shows
        <4>1. is_snapshot(dev(u))
          BY <1>2, <3>2, Devices
        <4> QED BY <1>0, <2>2, <4>1 DEF FrozenInv
      <3> QED BY <3>1, <3>2
    <2>6. \A d \in Dev : d = dev(u) => View(d, s)' = View(d, s)
      BY <1>2, <2>3, <2>5
    <2> QED BY <1>2, <1>3, <2>6 DEF View
  <1> QED BY <1>4, <1>5

\* A read finds each sector as the device shows it, whichever tree its page is in.
LEMMA ReadsView ==
    ASSUME SharingInv, AlignedOnSnapshots, NEW t \in Thread, pc[t] = "read", NEW s \in Part(t)
    PROVE  ReadSector(t, s) = View(dev(t), s)
  <1>0. ThreadInv /\ DisjointInv /\ pc[t] \in Working
    BY DEF SharingInv, StoreInv, QuietInv, Working
  <1>1. /\ bio[t] \in Bios /\ dev(t) \in Dev /\ half[t] \in {1, 2}
        /\ PageOf(s) \in BioPages(bio[t]) /\ s \in Range(bio[t])
    BY <1>0, WorkFacts
  <1>2. s \in Sector
    BY <1>1, BioFacts
  <1>3. ~BeingCopied(dev(t), PageOf(s))
    BY <1>0, <1>1, NotCopied
  <1>4. ParentHas(dev(t), PageOf(s)) => ParentOffset(t, s) = OffsetOf(s)
    BY <1>0, <1>1, SecondOnDisk DEF ParentHas, ParentOffset
  <1>5. OffsetOf(s) \in Offset
    BY <1>2, Sectors
  <1>6. CASE Has(dev(t), PageOf(s))
    BY <1>3, <1>6 DEF ReadSector, View, Value
  <1>7. CASE ~Has(dev(t), PageOf(s)) /\ ParentHas(dev(t), PageOf(s))
    BY <1>4, <1>5, <1>7 DEF ReadSector, View, Value
  <1>8. CASE ~Has(dev(t), PageOf(s)) /\ ~ParentHas(dev(t), PageOf(s))
    BY <1>8 DEF ReadSector, View
  <1> QED BY <1>6, <1>7, <1>8

\* A read's buffer agrees with the device as far as the read is done.
ReadDone(t) ==
    pc[t] # "idle" /\ bio[t].op = "READ" /\ err[t] = "ok"
        => \A s \in DoneSectors(t) \cap Range(bio[t]) : buf[t][s] = View(dev(t), s)

\* So it is for every thread.
ReadInv == \A t \in Thread : ReadDone(t)

\* Each part read agrees with the device, and goes on agreeing.
LEMMA ReadStep ==
    ASSUME "quiet" \in Rules, AlignedOnSnapshots, SharingInv, ReadInv, [Next]_vars
    PROVE  ReadInv'
  <1>0. ThreadInv /\ DeviceInv /\ DisjointInv /\ FrozenInv
    BY DEF SharingInv, StoreInv, QuietInv
  <1>1. CASE \E t \in Thread : Submit(t) \/ Handle(t)
    <2>1. PICK t \in Thread : Submit(t) \/ Handle(t)
      BY <1>1
    <2>2. ASSUME NEW u \in Thread, u # t PROVE ReadDone(u)'
      <3>1. /\ pc'[u] = pc[u] /\ bio'[u] = bio[u] /\ err'[u] = err[u] /\ dev(u)' = dev(u)
            /\ DoneSectors(u)' = DoneSectors(u)
        BY <1>0, <2>1, <2>2, OtherThread, SameDone
      <3>2. buf'[u] = buf[u]
        BY <1>0, <2>1, <2>2 DEF Submit, Handle, BIO_ENDIO, discard_from_brd, LookupPresent, LookupAbsent,
           AllocFails, InsertPage, CopyParent, CopyFirst, CopySecond, copy_from_brd, DeviceInv
      <3>3. pc[u] # "idle" => \A s \in Range(bio[u]) : View(dev(u), s)' = View(dev(u), s)
        BY <2>1, <2>2, ForeignView
      <3>4. ReadDone(u)
        BY DEF ReadInv
      <3> QED BY <3>1, <3>2, <3>3, <3>4 DEF ReadDone
    <2>3. ReadDone(t)'
      <3>1. CASE Submit(t)
        BY <1>0, <3>1, NothingDone DEF ReadDone
      <3>2. CASE Handle(t)
        <4> SUFFICES ASSUME pc'[t] # "idle", bio'[t].op = "READ", err'[t] = "ok",
                            NEW s \in DoneSectors(t)', s \in Range(bio'[t])
                     PROVE  buf'[t][s] = View(dev(t), s)'
          BY DEF ReadDone
        <4>1. bio' = bio /\ pc[t] \in Working /\ bio[t] \in Bios
          BY <1>0, <3>2, BioStays
        <4>2. /\ dev(t) \in Dev /\ err[t] = "ok" /\ pc[t] # "idle" /\ dev(t)' = dev(t)
              /\ s \in Range(bio[t]) /\ s \in Sector
          BY <1>0, <4>1, WorkFacts, BioFacts DEF Working, Writing, dev
        <4>3. copy_from_brd(t) /\ ~Stores(t)
          <5>1. pc[t] \notin Writing \cup {"discard"}
            BY <1>0, <4>1 DEF ThreadInv, Local
          <5>2. ~BIO_ENDIO(t)
            BY <1>0, <3>2, BioStays
          <5> QED BY <3>2, <5>1, <5>2 DEF Handle, Stores, discard_from_brd, LookupPresent, LookupAbsent,
                     AllocFails, InsertPage, CopyParent, CopyFirst, CopySecond, Writing
        <4>4. View(dev(t), s)' = View(dev(t), s)
          <5>1. \A d \in Dev : View(d, s)' = View(d, s)
            BY <2>1, <4>2, <4>3, ViewKept
          <5> QED BY <4>2, <5>1 DEF View
        <4>5. buf'[t][s] = IF s \in Part(t) THEN ReadSector(t, s) ELSE buf[t][s]
          BY <1>0, <4>2, <4>3 DEF copy_from_brd, DeviceInv
        <4>6. s \in DoneSectors(t) \cup Part(t)
          BY <1>0, <3>2, <4>1, DoneStep
        <4>7. CASE s \in Part(t)
          <5>1. ReadSector(t, s) = View(dev(t), s)
            BY <4>3, <4>7, ReadsView DEF copy_from_brd
          <5> QED BY <4>4, <4>5, <4>7, <5>1
        <4>8. CASE s \notin Part(t)
          BY <4>1, <4>2, <4>4, <4>5, <4>6, <4>8 DEF ReadInv, ReadDone
        <4> QED BY <4>7, <4>8
      <3> QED BY <2>1, <3>1, <3>2
    <2> QED BY <2>2, <2>3 DEF ReadInv
  <1>2. CASE \E d \in Dev : Ioctl(d)
    BY <1>2, QuietIoctl DEF ReadInv, ReadDone
  <1>3. CASE UNCHANGED vars
    BY <1>3 DEF vars, ReadInv, ReadDone, DoneSectors, SoFar, Bvec, dev, View, Value, Has, ParentHas,
       BeingCopied, PartPage, brd_lookup_page
  <1> QED BY <1>1, <1>2, <1>3 DEF Next

\* The rules of use, all of them, and bvecs that do not cross pages on a snapshot.
WellUsed == {"quiet", "disjoint", "frozen"} \subseteq Rules /\ AlignedOnSnapshots

\* The invariant of the driver under all its rules is inductive.
LEMMA SharingInvHolds ==
    ASSUME WellUsed PROVE Spec => [](SharingInv /\ ReadInv)
  <1>1. Init => FrozenInv /\ ReadInv
    BY DEF Init, FrozenInv, ReadInv, ReadDone, Has, brd_lookup_page
  <1>2. StoreInv /\ FrozenInv /\ ReadInv /\ [Next]_vars => FrozenInv' /\ ReadInv'
    BY FrozenStep, ReadStep DEF WellUsed, SharingInv, StoreInv, QuietInv
  <1>3. Spec => []StoreInv
    BY StoreInvHolds DEF WellUsed
  <1> QED BY <1>1, <1>2, <1>3, PTL DEF Spec, SharingInv

(***************************************************************************)
(* A read that ends without error has delivered what the device holds,     *)
(* from the device's own tree, the parent's or neither; other threads      *)
(* insert, copy and write pages meanwhile, and none of it shows.           *)
(***************************************************************************)
THEOREM ReadReturnsContentsHolds ==
    ASSUME WellUsed PROVE Spec => []ReadReturnsContents
  <1>1. SharingInv /\ ReadInv => ReadReturnsContents
    <2> SUFFICES ASSUME SharingInv, ReadInv, NEW t \in Thread, Completed(t, "READ"),
                        NEW s \in Range(bio[t])
                 PROVE  buf[t][s] = Contents(dev(t))[s]
      BY DEF ReadReturnsContents
    <2>1. bio[t] \in Bios
      BY DEF SharingInv, StoreInv, QuietInv, ThreadInv, Local, Completed
    <2>2. dev(t) \in Dev /\ s \in Sector
      BY <2>1, BioFacts DEF dev
    <2>3. buf[t][s] = View(dev(t), s)
      BY DEF ReadInv, ReadDone, Completed, DoneSectors
    <2> QED BY <2>2, <2>3, ContentsView
  <1> QED BY <1>1, SharingInvHolds, PTL

-----------------------------------------------------------------------------
(* Refinement *)

\* The state of the driver, as SnapshotDisk sees it.
content == [d \in Dev |-> Contents(d)]
frozen == [d \in Disk |-> ~is_writable[d]]
request == [t \in Thread |-> Request(t)]

\* Contents are compared sector by sector.
LEMMA ContentEquals ==
    /\ \A d \in Dev : Contents(d) = [s \in Sector |-> View(d, s)]
    /\ \A d \in Dev : Contents(d)' = [s \in Sector |-> View(d, s)']
  <1>1. \A d \in Dev : Contents(d) = [s \in Sector |-> View(d, s)]
    <2> TAKE d \in Dev
    <2>1. \A s \in Sector : Contents(d)[s] = View(d, s)
      BY ContentsView
    <2>2. \E f : Contents(d) = [s \in Sector |-> f[s]]
      <3> DEFINE f == Contents(d)
      <3>1. Contents(d) = [s \in Sector |-> f[s]]
        BY DEF Contents
      <3> QED BY <3>1
    <2> QED BY <2>1, <2>2
  <1>2. (\A d \in Dev : Contents(d) = [s \in Sector |-> View(d, s)])'
    BY <1>1, PTL
  <1> QED BY <1>1, <1>2

\* When no sector shows anything else, the contents are the same.
LEMMA ContentSame ==
    ASSUME \A d \in Dev, s \in Sector : View(d, s)' = View(d, s) PROVE content' = content
  <1>1. ASSUME NEW d \in Dev PROVE Contents(d)' = Contents(d)
    BY ContentEquals
  <1> QED BY <1>1 DEF content

\* A step of one thread changes no other thread's request.
LEMMA RequestStep ==
    ASSUME ThreadInv, NEW t \in Thread, Submit(t) \/ Handle(t)
    PROVE  /\ request' = [request EXCEPT ![t] = Request(t)']
           /\ Request(t)' = Request(t) => request' = request
           /\ request[t] = Request(t)
  <1>1. ASSUME NEW u \in Thread, u # t PROVE Request(u)' = Request(u)
    BY <1>1, OtherThread DEF Request
  <1> QED BY <1>1 DEF request

\* What becomes of the request of the thread itself.
LEMMA OwnRequest ==
    ASSUME ThreadInv, NEW t \in Thread, Handle(t)
    PROVE  /\ BIO_ENDIO(t) \/ AllocFails(t) => Request(t)' = NoBio
           /\ ~(BIO_ENDIO(t) \/ AllocFails(t)) => Request(t)' = Request(t)
  <1>1. CASE BIO_ENDIO(t)
    <2>1. bio'[t] = NoBio
      BY <1>1 DEF BIO_ENDIO, ThreadInv
    <2> QED BY <1>1, <2>1 DEF Request
  <1>2. CASE AllocFails(t)
    <2>1. err'[t] # "ok"
      BY <1>2 DEF AllocFails, GotoEndio, ThreadInv
    <2> QED BY <1>2, <2>1 DEF Request
  <1>3. CASE ~(BIO_ENDIO(t) \/ AllocFails(t))
    <2>1. bio' = bio /\ err[t] = "ok"
      BY <1>3, BioStays, WorkFacts
    <2>2. err'[t] = "ok"
      BY <1>3, <2>1 DEF Handle, discard_from_brd, LookupPresent, LookupAbsent, InsertPage, CopyParent,
         CopyFirst, CopySecond, copy_from_brd, PageReady, NextBvec, GotoEndio, ThreadInv
    <2> QED BY <1>3, <2>1, <2>2 DEF Request, dev
  <1> QED BY <1>1, <1>2, <1>3

\* Accepting a bio begins a request, or none.
LEMMA SubmitBegins ==
    ASSUME WellUsed, SharingInv, NEW t \in Thread, Submit(t)
    PROVE  SD!Begin(t) \/ SD!End(t)
  <1>0. ThreadInv /\ DeviceInv /\ WritableInv
    BY DEF SharingInv, StoreInv, QuietInv
  <1>1. content' = content
    <2>1. ~Stores(t)
      BY DEF Submit, Stores, CopyFirst, CopySecond, discard_from_brd
    <2> QED BY <2>1, ViewKept, ContentSame
  <1>2. frozen' = frozen
    BY DEF Submit, frozen
  <1>3. Request(t) = NoBio /\ request' = [request EXCEPT ![t] = Request(t)'] /\ request[t] = Request(t)
    <2>1. bio[t] = NoBio
      BY <1>0 DEF Submit, ThreadInv, Local
    <2> QED BY <1>0, <2>1, RequestStep DEF Request
  <1>4. CASE Request(t)' = NoBio
    <2>1. request' = [request EXCEPT ![t] = NoBio]
      BY <1>3, <1>4
    <2> QED BY <1>1, <1>2, <2>1 DEF SD!End, content, frozen, request
  <1>5. CASE Request(t)' # NoBio
    <2>1. PICK b \in Bios : /\ SubmitAllowed(b) /\ bio' = [bio EXCEPT ![t] = b]
                            /\ PastEnd(b) \/ Refused(b) => err' = [err EXCEPT ![t] = "EIO"]
      BY DEF Submit
    <2>2. bio'[t] = b
      BY <1>0, <2>1 DEF ThreadInv
    <2> DEFINE r == [dev |-> b.dev, sectors |-> Range(b), val |-> b.val]
    <2>3. Request(t)' = r /\ err'[t] = "ok" /\ b.op # "READ"
      BY <1>5, <2>2 DEF Request, dev
    <2>4. b.dev \in Dev /\ b.op \in {"WRITE", "DISCARD"} /\ Range(b) \subseteq Sector /\ b.val \in Val
      BY <2>3, BioFacts
    <2>5. ~Refused(b)
      BY <1>0, <2>1, <2>3 DEF ThreadInv
    <2>6. is_writable[b.dev]
      BY <2>4, <2>5 DEF Refused
    <2>7. frozen[parent_brd(b.dev)] <=> b.dev \notin Disk
      <3>1. CASE b.dev \in Disk
        BY <2>6, <3>1, Devices DEF frozen
      <3>2. CASE b.dev \notin Disk
        <4>1. is_snapshot(b.dev) /\ parent_brd(b.dev) \in Disk
          BY <2>4, <3>2, Devices
        <4> QED BY <2>1, <3>2, <4>1 DEF frozen, SubmitAllowed, WellUsed
      <3> QED BY <3>1, <3>2
    <2>8. r \in SD!Requests
      BY <2>4 DEF SD!Requests
    <2>9. r.dev = b.dev
      OBVIOUS
    <2> HIDE DEF r
    <2>10. \E x \in SD!Requests : /\ frozen[parent_brd(x.dev)] <=> x.dev \notin Disk
                                  /\ request' = [request EXCEPT ![t] = x]
      BY <1>3, <2>3, <2>7, <2>8, <2>9
    <2> QED BY <1>1, <1>2, <1>3, <2>10 DEF SD!Begin, content, frozen, request
  <1> QED BY <1>4, <1>5

\* Every other step of a bio writes some of its sectors, ends the request or does not show.
LEMMA HandleWrites ==
    ASSUME WellUsed, SharingInv, NEW t \in Thread, Handle(t)
    PROVE  SD!Write(t) \/ SD!End(t) \/ UNCHANGED <<content, frozen, request>>
  <1>0. ThreadInv /\ DeviceInv /\ WritableInv /\ FrozenInv
    BY DEF SharingInv, StoreInv, QuietInv
  <1>1. frozen' = frozen
    BY <1>0, Touches DEF frozen
  <1>2. CASE ~Stores(t)
    <2>1. content' = content
      BY <1>2, ViewKept, ContentSame
    <2>2. CASE BIO_ENDIO(t) \/ AllocFails(t)
      <3>1. request' = [request EXCEPT ![t] = NoBio]
        BY <1>0, <2>2, RequestStep, OwnRequest
      <3> QED BY <1>1, <2>1, <3>1 DEF SD!End, content, frozen, request
    <2>3. CASE ~(BIO_ENDIO(t) \/ AllocFails(t))
      <3>1. request' = request
        BY <1>0, <2>3, RequestStep, OwnRequest
      <3> QED BY <1>1, <2>1, <3>1
    <2> QED BY <2>2, <2>3
  <1>3. CASE Stores(t)
    <2>1. /\ pc[t] \in {"copy", "discard"} /\ ~BIO_ENDIO(t) /\ ~AllocFails(t)
      BY <1>3 DEF Stores, CopyFirst, CopySecond, discard_from_brd, BIO_ENDIO, AllocFails
    <2>2. bio[t] \in Bios /\ bio[t] # NoBio /\ err[t] = "ok" /\ bio[t].op # "READ"
      <3>1. bio[t] \in Bios /\ bio[t] # NoBio /\ err[t] = "ok"
        BY <1>0, <2>1, WorkFacts DEF Working, Writing
      <3>2. bio[t].op # "READ"
        BY <1>0, <2>1 DEF ThreadInv, Local, Writing
      <3> QED BY <3>1, <3>2
    <2> DEFINE r == [dev |-> dev(t), sectors |-> Range(bio[t]), val |-> bio[t].val]
    <2>3. Request(t) = r
      BY <2>2 DEF Request
    <2>4. request' = request /\ request[t] = r
      BY <1>0, <2>1, <2>3, RequestStep, OwnRequest
    <2>5. r # NoBio
      <3>1. r \in [dev : Dev, sectors : SUBSET Sector, val : Val]
        BY <2>2, BioFacts DEF dev
      <3> QED BY <3>1, CowBrdAssumption
    <2>6. /\ dev(t) \in Dev /\ is_writable[dev(t)]
          /\ \E S \in SUBSET Range(bio[t]) : \A e \in Dev, s \in Sector :
                View(e, s)' = IF e \in Shows(dev(t)) /\ s \in S THEN bio[t].val ELSE View(e, s)
      BY <1>3, ViewStored DEF WellUsed
    <2>7. PICK S \in SUBSET Range(bio[t]) : \A e \in Dev, s \in Sector :
                View(e, s)' = IF e \in Shows(dev(t)) /\ s \in S THEN bio[t].val ELSE View(e, s)
      BY <2>6
    <2>8. ASSUME NEW e \in Dev, e \in Shows(dev(t)) PROVE Contents(e) = Contents(dev(t))
      <3>1. CASE e = dev(t)
        BY <3>1
      <3>2. CASE dev(t) \in Disk /\ parent_brd(e) = dev(t)
        <4>1. parent_brd(dev(t)) = dev(t)
          BY <3>2, Devices
        <4>2. \A s \in Sector : View(e, s) = View(dev(t), s)
          BY <1>0, <2>6, <3>2, <4>1, Untouched
        <4> QED BY <2>6, <4>2, ContentEquals
      <3> QED BY <2>8, <3>1, <3>2 DEF Shows
    <2>9. ASSUME NEW e \in Dev
          PROVE  Contents(e)' = IF e \in Shows(dev(t)) THEN SD!Put(Contents(e), S, bio[t].val)
                                                       ELSE Contents(e)
      <3>1. CASE e \in Shows(dev(t))
        <4>1. \A s \in Sector : View(e, s)' = IF s \in S THEN bio[t].val ELSE Contents(e)[s]
          BY <2>7, <3>1, ContentsView
        <4> QED BY <3>1, <4>1, ContentEquals DEF SD!Put
      <3>2. CASE e \notin Shows(dev(t))
        BY <2>7, <3>2, ContentEquals
      <3> QED BY <3>1, <3>2
    <2>10. /\ r.dev = dev(t) /\ r.sectors = Range(bio[t]) /\ r.val = bio[t].val
           /\ \A e \in Dev : (e = dev(t) \/ (dev(t) \in Disk /\ parent_brd(e) = dev(t))) <=> e \in Shows(dev(t))
      BY DEF Shows
    <2> HIDE DEF r
    <2>11. \A e \in Dev : (e = r.dev \/ (r.dev \in Disk /\ parent_brd(e) = r.dev)) => content[e] = content[r.dev]
      BY <2>6, <2>8, <2>10 DEF content
    <2>12. content' = [e \in Dev |-> IF e = r.dev \/ (r.dev \in Disk /\ parent_brd(e) = r.dev)
                                     THEN SD!Put(content[e], S, r.val) ELSE content[e]]
      BY <2>9, <2>10 DEF content
    <2>13. SD!Write(t)
      BY <1>1, <2>4, <2>5, <2>7, <2>10, <2>11, <2>12 DEF SD!Write, content, frozen, request
    <2> QED BY <2>13
  <1> QED BY <1>2, <1>3

\* The ioctls, issued between bios: nothing is being copied.
LEMMA IoctlImplements ==
    ASSUME WellUsed, SharingInv, NEW c \in Dev, Ioctl(c)
    PROVE  \/ \E d \in Disk : SD!Wipe(d) \/ \E b \in BOOLEAN : SD!SetFrozen(d, b)
           \/ \E e \in Dev \ Disk : SD!Restore(e)
  <1>0. DeviceInv /\ FrozenInv /\ "quiet" \in Rules
    BY DEF SharingInv, StoreInv, QuietInv, WellUsed
  <1>1. /\ \A t \in Thread : pc[t] = "idle" /\ pc'[t] = "idle"
        /\ \A t \in Thread : bio'[t] = bio[t] /\ err'[t] = err[t]
    BY <1>0, QuietIoctl
  <1>2. request' = request
    <2>1. ASSUME NEW t \in Thread PROVE Request(t)' = Request(t)
      BY <1>1 DEF Request, dev
    <2> QED BY <2>1 DEF request
  <1>3. \A d, p : ~BeingCopied(d, p) /\ ~BeingCopied(d, p)'
    BY <1>1 DEF BeingCopied
  <1>4. ASSUME NEW d \in Dev, NEW s \in Sector
        PROVE  /\ View(d, s) = IF Has(d, PageOf(s)) THEN Value(d, s)
                               ELSE IF ParentHas(d, PageOf(s)) THEN Value(parent_brd(d), s) ELSE Zero
               /\ View(d, s)' = IF Has(d, PageOf(s))' THEN Value(d, s)'
                                ELSE IF ParentHas(d, PageOf(s))' THEN Value(parent_brd(d), s)' ELSE Zero
    BY <1>3 DEF View
  <1>5. CASE COW_BRD_SNAPSHOT(c) \/ COW_BRD_UNSNAPSHOT(c)
    <2>1. PICK b \in BOOLEAN : is_writable' = [is_writable EXCEPT ![c] = ~b]
      BY <1>5 DEF COW_BRD_SNAPSHOT, COW_BRD_UNSNAPSHOT
    <2>2. c \in Disk /\ brd_pages' = brd_pages
      BY <1>5, Devices DEF COW_BRD_SNAPSHOT, COW_BRD_UNSNAPSHOT
    <2>3. content' = content
      <3>1. \A d, p : (Has(d, p)' <=> Has(d, p)) /\ (ParentHas(d, p)' <=> ParentHas(d, p))
        BY <2>2 DEF Has, ParentHas, brd_lookup_page
      <3>2. \A d, s : Value(d, s)' = Value(d, s)
        BY <2>2 DEF Value, brd_lookup_page
      <3>3. \A d \in Dev, s \in Sector : View(d, s)' = View(d, s)
        BY <1>4, <3>1, <3>2
      <3> QED BY <3>3, ContentSame
    <2>4. frozen' = [frozen EXCEPT ![c] = b]
      <3>1. \A d \in Disk : is_writable'[d] = IF d = c THEN ~b ELSE is_writable[d]
        BY <1>0, <2>1, Devices DEF DeviceInv
      <3> QED BY <2>2, <3>1 DEF frozen
    <2>5. SD!SetFrozen(c, b)
      BY <1>2, <2>3, <2>4 DEF SD!SetFrozen, content, frozen, request
    <2> QED BY <2>2, <2>5
  <1>6. ASSUME COW_BRD_RESTORE_SNAPSHOT(c) \/ COW_BRD_WIPE(c)
        PROVE  /\ frozen' = frozen
               /\ \A d \in Dev, p \in Page : Has(d, p)' <=> Has(d, p) /\ d # c
               /\ \A d \in Dev, s \in Sector : d # c => Value(d, s)' = Value(d, s)
    <2>1. brd_free_pages(c) /\ is_writable' = is_writable
      BY <1>6 DEF COW_BRD_RESTORE_SNAPSHOT, COW_BRD_WIPE
    <2> QED BY <1>0, <2>1, FreeEffect DEF frozen
  <1>7. CASE COW_BRD_RESTORE_SNAPSHOT(c)
    <2>1. is_snapshot(c) /\ c \in Dev \ Disk /\ parent_brd(c) \in Dev /\ parent_brd(c) # c
      BY <1>7, Devices DEF COW_BRD_RESTORE_SNAPSHOT
    <2>2. ASSUME NEW d \in Dev, NEW s \in Sector
          PROVE  View(d, s)' = IF d = c THEN View(parent_brd(c), s) ELSE View(d, s)
      <3>1. PageOf(s) \in Page /\ parent_brd(d) \in Dev /\ ~is_snapshot(parent_brd(d)) /\ parent_brd(d) # c
        BY <2>1, Sectors, Devices
      <3>2. ParentHas(d, PageOf(s))' <=> ParentHas(d, PageOf(s))
        BY <1>6, <1>7, <3>1 DEF ParentHas
      <3>3. Value(parent_brd(d), s)' = Value(parent_brd(d), s)
        BY <1>6, <1>7, <3>1
      <3>4. CASE d = c
        <4>1. ~Has(d, PageOf(s))'
          BY <1>6, <1>7, <3>1, <3>4
        <4>2. View(d, s)' = IF ParentHas(d, PageOf(s)) THEN Value(parent_brd(d), s) ELSE Zero
          BY <1>4, <3>2, <3>3, <4>1
        <4>3. ParentHas(d, PageOf(s)) <=> Has(parent_brd(d), PageOf(s))
          BY <2>1, <3>4 DEF ParentHas
        <4>4. View(parent_brd(d), s) = IF Has(parent_brd(d), PageOf(s)) THEN Value(parent_brd(d), s) ELSE Zero
          BY <1>4, <3>1 DEF ParentHas
        <4> QED BY <3>4, <4>2, <4>3, <4>4
      <3>5. CASE d # c
        <4>1. (Has(d, PageOf(s))' <=> Has(d, PageOf(s))) /\ Value(d, s)' = Value(d, s)
          BY <1>6, <1>7, <3>1, <3>5
        <4> QED BY <1>4, <3>2, <3>3, <3>5, <4>1
      <3> QED BY <3>4, <3>5
    <2>3. ASSUME NEW d \in Dev PROVE Contents(d)' = IF d = c THEN Contents(parent_brd(c)) ELSE Contents(d)
      BY <2>1, <2>2, ContentEquals
    <2>4. content' = [content EXCEPT ![c] = content[parent_brd(c)]]
      BY <2>1, <2>3 DEF content
    <2>5. SD!Restore(c)
      BY <1>2, <1>6, <1>7, <2>4 DEF SD!Restore, content, frozen, request
    <2> QED BY <2>1, <2>5
  <1>8. CASE COW_BRD_WIPE(c)
    <2>1. c \in Disk /\ ~is_snapshot(c) /\ Unmodified(c)
      BY <1>8, Devices DEF COW_BRD_WIPE, ThawAllowed, WellUsed
    <2>2. ASSUME NEW d \in Dev, NEW s \in Sector
          PROVE  View(d, s)' = IF parent_brd(d) = c THEN Zero ELSE View(d, s)
      <3>1. PageOf(s) \in Page /\ parent_brd(d) \in Dev
        BY Sectors, Devices
      <3>2. CASE parent_brd(d) = c
        <4>1. ~Has(d, PageOf(s))'
          <5>1. d = c \/ is_snapshot(d)
            BY <3>2, Devices
          <5>2. d = c \/ ~Has(d, PageOf(s))
            BY <2>1, <3>1, <3>2, <5>1 DEF Unmodified
          <5> QED BY <1>6, <1>8, <3>1, <5>2
        <4>2. ~ParentHas(d, PageOf(s))'
          BY <1>6, <1>8, <3>1, <3>2 DEF ParentHas
        <4> QED BY <1>4, <3>2, <4>1, <4>2
      <3>3. CASE parent_brd(d) # c
        <4>1. d # c
          BY <2>1, <3>3, Devices
        <4>2. (Has(d, PageOf(s))' <=> Has(d, PageOf(s))) /\ Value(d, s)' = Value(d, s)
          BY <1>6, <1>8, <3>1, <4>1
        <4>3. ParentHas(d, PageOf(s))' <=> ParentHas(d, PageOf(s))
          BY <1>6, <1>8, <3>1, <3>3 DEF ParentHas
        <4>4. Value(parent_brd(d), s)' = Value(parent_brd(d), s)
          BY <1>6, <1>8, <3>1, <3>3
        <4> QED BY <1>4, <3>3, <4>2, <4>3, <4>4
      <3> QED BY <3>2, <3>3
    <2>3. ASSUME NEW d \in Dev
          PROVE  Contents(d)' = IF parent_brd(d) = c THEN [s \in Sector |-> Zero] ELSE Contents(d)
      BY <2>2, ContentEquals
    <2>4. content' = [e \in Dev |-> IF parent_brd(e) = c THEN [s \in Sector |-> Zero] ELSE content[e]]
      BY <2>3 DEF content
    <2>5. SD!Wipe(c)
      BY <1>2, <1>6, <1>8, <2>4 DEF SD!Wipe, content, frozen, request
    <2> QED BY <2>1, <2>5
  <1> QED BY <1>5, <1>7, <1>8 DEF Ioctl

\* A freshly loaded driver shows zeroes everywhere.
LEMMA InitImplements == Init => SD!SDInit
  <1> SUFFICES ASSUME Init PROVE SD!SDInit
    OBVIOUS
  <1>1. content = [d \in Dev |-> [s \in Sector |-> Zero]]
    <2>1. ASSUME NEW d \in Dev, NEW s \in Sector PROVE View(d, s) = Zero
      <3>1. PageOf(s) \in Page /\ parent_brd(d) \in Dev
        BY Sectors, Devices
      <3>2. ~Has(d, PageOf(s)) /\ ~Has(parent_brd(d), PageOf(s))
        BY <3>1 DEF Init, Has, brd_lookup_page
      <3> QED BY <3>2 DEF View, ParentHas
    <2>2. ASSUME NEW d \in Dev PROVE Contents(d) = [s \in Sector |-> Zero]
      BY <2>1, ContentEquals
    <2> QED BY <2>2 DEF content
  <1>2. frozen = [d \in Disk |-> FALSE]
    BY Devices DEF Init, frozen
  <1>3. request = [t \in Thread |-> NoBio]
    <2>1. ASSUME NEW t \in Thread PROVE Request(t) = NoBio
      BY DEF Init, Request
    <2> QED BY <2>1 DEF request
  <1> QED BY <1>1, <1>2, <1>3 DEF SD!SDInit, content, frozen, request

(***************************************************************************)
(* The driver implements SnapshotDisk.  Every step of a bio writes some of *)
(* the sectors it asked for on its device, or does not show; restoring a   *)
(* snapshot gives the disk's contents back, and wiping a disk leaves       *)
(* zeroes on it and on its snapshots.                                      *)
(***************************************************************************)
THEOREM DriverImplementsSnapshotDisk ==
    ASSUME WellUsed PROVE Spec => ImplementsSnapshotDisk
  <1>1. SharingInv /\ [Next]_vars => [SD!SDNext]_(SD!sdVars)
    <2> SUFFICES ASSUME SharingInv, [Next]_vars
                 PROVE  SD!SDNext \/ UNCHANGED <<content, frozen, request>>
      BY DEF SD!sdVars, content, frozen, request
    <2>1. CASE \E t \in Thread : Submit(t) \/ Handle(t)
      BY <2>1, SubmitBegins, HandleWrites DEF SD!SDNext
    <2>2. CASE \E d \in Dev : Ioctl(d)
      <3>1. PICK c \in Dev : Ioctl(c)
        BY <2>2
      <3>2. \/ \E d \in Disk : SD!Wipe(d) \/ \E b \in BOOLEAN : SD!SetFrozen(d, b)
            \/ \E e \in Dev \ Disk : SD!Restore(e)
        BY <3>1, IoctlImplements
      <3> QED BY <3>2 DEF SD!SDNext
    <2>3. CASE UNCHANGED vars
      <3>1. content' = content
        <4>1. \A d \in Dev, s \in Sector : View(d, s)' = View(d, s)
          BY <2>3 DEF vars, View, Value, Has, ParentHas, BeingCopied, PartPage, Bvec, dev, brd_lookup_page
        <4> QED BY <4>1, ContentSame
      <3>2. frozen' = frozen /\ request' = request
        BY <2>3 DEF vars, frozen, request, Request, dev
      <3> QED BY <3>1, <3>2
    <2> QED BY <2>1, <2>2, <2>3 DEF Next
  <1> QED BY <1>1, InitImplements, SharingInvHolds, PTL DEF Spec, ImplementsSnapshotDisk, SD!SDSpec
=============================================================================
