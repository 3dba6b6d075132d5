------------------------------ MODULE CowBrd ------------------------------
(***************************************************************************)
(* The copy-on-write RAM disk driver, cow_brd.c: num_disks disks and       *)
(* num_snapshots snapshots of each.  A device keeps the pages written on   *)
(* it; a snapshot reads a page it does not have from its parent disk, and  *)
(* copies it before the first write.  A bio is handled in the context of   *)
(* the thread that submits it, in steps between which other threads and    *)
(* the ioctls run; only the insertion into the page tree holds brd_lock.   *)
(*                                                                         *)
(* A page holds PageSectors sectors.  A bio is a run of bvecs, each at     *)
(* most a page long, so a bvec touches one page or two: its halves.        *)
(***************************************************************************)
EXTENDS Integers, Sequences, FiniteSets

CONSTANTS
    num_disks, num_snapshots,
    NumPages, PageSectors,      \* disk_size and PAGE_SECTORS
    Val, Zero,                  \* contents of a sector
    Stray,                      \* what lies past the end of a page
    NoPage, NoVal, NoBio,
    Thread,                     \* contexts that submit bios
    Bios,                       \* the bios they may submit
    Rules                       \* the rules of use that callers keep

Dev == 0..(num_disks * (1 + num_snapshots) - 1)
Disk == 0..(num_disks - 1)
Page == 0..(NumPages - 1)
Sector == 0..(NumPages * PageSectors - 1)
Offset == 0..(PageSectors - 1)

Bio == [dev : Dev, op : {"READ", "WRITE", "DISCARD"}, sector : Nat, size : Nat,
        val : Val, bvecs : Seq([sector : Nat, len : 1..PageSectors])]

ASSUME CowBrdAssumption ==
    /\ num_disks \in Nat \ {0} /\ num_snapshots \in Nat
    /\ NumPages \in Nat \ {0} /\ PageSectors \in Nat \ {0}
    /\ Zero \in Val /\ Stray \notin Val /\ NoVal \notin Val \cup {Stray}
    /\ NoPage \notin [Offset -> Val]
    /\ Bios \subseteq Bio /\ NoBio \notin Bio
    /\ NoBio \notin [dev : Dev, sectors : SUBSET Sector, val : Val]
    /\ Rules \subseteq {"frozen", "disjoint", "quiet"}

\* What the block layer hands to brd_make_request: the bvecs of a bio, of which
\* there is at least one, are its sectors; a discard is of whole pages
\* (discard_granularity), and has no data.  That a discard is of whole pages is
\* assumed, not enforced: discard_from_brd would zero the page of an unaligned
\* first sector, sectors outside the range included, and skip a part of a page
\* at the end.
ASSUME BioAssumption ==
    \A b \in Bios :
        /\ b.bvecs # <<>>
        /\ \A k \in DOMAIN b.bvecs :
             LET v == b.bvecs[k]
             IN b.sector <= v.sector /\ v.sector + v.len <= b.sector + b.size
        /\ \A s \in b.sector..(b.sector + b.size - 1) :
             \E k \in DOMAIN b.bvecs :
                 b.bvecs[k].sector <= s /\ s < b.bvecs[k].sector + b.bvecs[k].len
        /\ b.op = "DISCARD" => /\ b.sector % PageSectors = 0 /\ b.size % PageSectors = 0
                              /\ b.val = Zero

VARIABLES
    brd_pages,      \* per device: page index -> its contents, or NoPage
    is_writable,    \* per device
    pc, bio,        \* per thread: where it is, the bio it handles,
    bvec, half,     \*   the bvec in work and which part of it,
    buf,            \*   what it has read,
    err,            \*   and the error it reports
    last            \* history: the value last written to each sector since
                    \* the device was emptied, NoVal if none

vars == <<brd_pages, is_writable, pc, bio, bvec, half, buf, err, last>>

-----------------------------------------------------------------------------
(* Devices and addresses *)

is_snapshot(d) == d >= num_disks

\* The disk a snapshot belongs to; a disk has no parent, and is its own here.
parent_brd(d) == d % num_disks

\* The page a sector is on, and where on it.
PageOf(s) == s \div PageSectors
OffsetOf(s) == s % PageSectors

brd_lookup_page(d, p) == brd_pages[d][p]
Has(d, p) == brd_lookup_page(d, p) # NoPage

ParentHas(d, p) == is_snapshot(d) /\ Has(parent_brd(d), p)

\* The sectors of a part of a bvec: up to the end of the page, and the rest.
PartSectors(v, h) ==
    LET end == (PageOf(v.sector) + 1) * PageSectors
    IN {s \in Sector : /\ v.sector <= s /\ s < v.sector + v.len
                       /\ (h = 1) = (s < end)}

Spans(v) == PartSectors(v, 2) # {}

\* What thread t is working on.
dev(t) == bio[t].dev
Bvec(t) == bio[t].bvecs[bvec[t]]
Part(t) == PartSectors(Bvec(t), half[t])
PartPage(t) == PageOf(Bvec(t).sector) + half[t] - 1

BioPages(b) == {PageOf(s) : s \in {x \in Sector : b.sector <= x /\ x < b.sector + b.size}}

\* Page q with the sectors S (numbered on the device) set to v.
Fill(q, S, v) == [o \in Offset |-> IF \E s \in S : OffsetOf(s) = o THEN v ELSE q[o]]

-----------------------------------------------------------------------------
(* brd_make_request *)

Idle == \A t \in Thread : pc[t] = "idle"

Unmodified(d) == \A e \in Dev : is_snapshot(e) /\ parent_brd(e) = d
                                  => \A p \in Page : ~Has(e, p)

(***************************************************************************)
(* The rules of use the driver leaves to its callers.                      *)
(*   frozen:   a snapshot is used only while its disk takes no writes, and *)
(*             its disk is thawed or wiped only when it holds no page;     *)
(*   disjoint: no two bios in flight on a device touch the same page;      *)
(*   quiet:    ioctls are issued while no bio is in flight.                *)
(***************************************************************************)
SubmitAllowed(b) ==
    /\ "frozen" \in Rules /\ is_snapshot(b.dev) => ~is_writable[parent_brd(b.dev)]
    /\ "disjoint" \in Rules =>
          \A u \in Thread : pc[u] # "idle" /\ bio[u].dev = b.dev
                              => BioPages(bio[u]) \cap BioPages(b) = {}

IoctlAllowed == "quiet" \in Rules => Idle

ThawAllowed(d) == "frozen" \in Rules => Unmodified(d)

PastEnd(b) == b.sector + b.size > NumPages * PageSectors

\* Mutant: a discard is checked, a write is not.
Refused_DiscardOnly(b) == b.op = "DISCARD" /\ ~is_writable[b.dev]

Refused(b) == b.op \in {"WRITE", "DISCARD"} /\ ~is_writable[b.dev]

Submit(t) ==
    /\ pc[t] = "idle"
    /\ \E b \in Bios :
         /\ SubmitAllowed(b)
         /\ bio' = [bio EXCEPT ![t] = b]
         /\ IF PastEnd(b) \/ Refused(b)
            THEN /\ pc' = [pc EXCEPT ![t] = "endio"]
                 /\ err' = [err EXCEPT ![t] = "EIO"]
            ELSE /\ pc' = [pc EXCEPT ![t] = CASE b.op = "READ" -> "read"
                                              [] b.op = "WRITE" -> "lookup"
                                              [] b.op = "DISCARD" -> "discard"]
                 /\ UNCHANGED err
    /\ UNCHANGED <<brd_pages, is_writable, bvec, half, buf, last>>

GotoEndio(t, e) ==
    /\ pc' = [pc EXCEPT ![t] = "endio"]
    /\ err' = [err EXCEPT ![t] = e]
    /\ UNCHANGED <<bvec, half>>

BIO_ENDIO(t) ==
    /\ pc[t] = "endio"
    /\ pc' = [pc EXCEPT ![t] = "idle"]
    /\ bio' = [bio EXCEPT ![t] = NoBio]
    /\ bvec' = [bvec EXCEPT ![t] = 1]
    /\ half' = [half EXCEPT ![t] = 1]
    /\ buf' = [buf EXCEPT ![t] = [s \in Sector |-> NoVal]]
    /\ err' = [err EXCEPT ![t] = "ok"]
    /\ UNCHANGED <<brd_pages, is_writable, last>>

\* Mutant: one bvec too many.
NextBvec_OffByOne(t, first) ==
    IF bvec[t] > Len(bio[t].bvecs)
    THEN GotoEndio(t, "ok")
    ELSE /\ bvec' = [bvec EXCEPT ![t] = @ + 1]
         /\ half' = [half EXCEPT ![t] = 1]
         /\ pc' = [pc EXCEPT ![t] = first]
         /\ UNCHANGED err

\* The bvec is done: on to the next one.
NextBvec(t, first) ==
    IF bvec[t] = Len(bio[t].bvecs)
    THEN GotoEndio(t, "ok")
    ELSE /\ bvec' = [bvec EXCEPT ![t] = @ + 1]
         /\ half' = [half EXCEPT ![t] = 1]
         /\ pc' = [pc EXCEPT ![t] = first]
         /\ UNCHANGED err

\* The pages a discard takes: as many as its size has whole ones.
DiscardedPages(b) ==
    {PageOf(b.sector + k * PageSectors) : k \in 0..(b.size \div PageSectors - 1)}

\* discard_from_brd: whole pages only, and only pages this device has.  A page a
\* snapshot does not have goes on showing the parent's contents, although the
\* queue announces discard_zeroes_data.
discard_from_brd(t) ==
    /\ pc[t] = "discard"
    /\ LET hit == DiscardedPages(bio[t])
           zeroed == {p \in hit : Has(dev(t), p) \/ ~is_snapshot(dev(t))}
       IN /\ brd_pages' = [brd_pages EXCEPT ![dev(t)] =
               [p \in Page |-> IF p \in hit /\ Has(dev(t), p)
                               THEN [o \in Offset |-> Zero] ELSE @[p]]]
          /\ last' = [last EXCEPT ![dev(t)] =
               [s \in Sector |-> IF PageOf(s) \in zeroed THEN Zero ELSE @[s]]]
    /\ GotoEndio(t, "ok")
    /\ UNCHANGED <<is_writable, bio, buf>>

-----------------------------------------------------------------------------
(* copy_to_brd_setup: brd_insert_page for one part of the bvec, then the other *)

\* Mutant: no page is inserted for what lies past the first page.
PageReady_FirstOnly(t) ==
    /\ pc' = [pc EXCEPT ![t] = "copy"]
    /\ UNCHANGED <<half, bvec, err>>

PageReady(t) ==
    /\ IF half[t] = 1 /\ Spans(Bvec(t))
       THEN half' = [half EXCEPT ![t] = 2] /\ pc' = [pc EXCEPT ![t] = "lookup"]
       ELSE half' = [half EXCEPT ![t] = 1] /\ pc' = [pc EXCEPT ![t] = "copy"]
    /\ UNCHANGED <<bvec, err>>

LookupPresent(t) ==
    /\ pc[t] = "lookup" /\ Has(dev(t), PartPage(t))
    /\ PageReady(t)
    /\ UNCHANGED <<brd_pages, is_writable, bio, buf, last>>

LookupAbsent(t) ==
    /\ pc[t] = "lookup" /\ ~Has(dev(t), PartPage(t))
    /\ pc' = [pc EXCEPT ![t] = "insert"]
    /\ UNCHANGED <<brd_pages, is_writable, bio, bvec, half, buf, err, last>>

\* No page, or no node for it, can be allocated: -ENOMEM.
AllocFails(t) ==
    /\ pc[t] = "insert"
    /\ GotoEndio(t, "ENOMEM")
    /\ UNCHANGED <<brd_pages, is_writable, bio, buf, last>>

\* Under brd_lock.  A page another thread inserted meanwhile is kept.
InsertPage(t) ==
    /\ pc[t] = "insert"
    /\ brd_pages' = [brd_pages EXCEPT ![dev(t)][PartPage(t)] =
                       IF @ = NoPage THEN [o \in Offset |-> Zero] ELSE @]
    /\ pc' = [pc EXCEPT ![t] = "cow"]
    /\ UNCHANGED <<is_writable, bio, bvec, half, buf, err, last>>

\* Mutant: the parent's page is looked up on the device itself.
CopyParent_Skipped(t) ==
    /\ pc[t] = "cow"
    /\ PageReady(t)
    /\ UNCHANGED <<brd_pages, is_writable, bio, buf, last>>

\* Without the lock: the parent's page, if there is one, is copied over the
\* page just inserted, or found inserted.
CopyParent(t) ==
    /\ pc[t] = "cow"
    /\ brd_pages' = [brd_pages EXCEPT ![dev(t)][PartPage(t)] =
                       IF ParentHas(dev(t), PartPage(t))
                       THEN brd_lookup_page(parent_brd(dev(t)), PartPage(t)) ELSE @]
    /\ PageReady(t)
    /\ UNCHANGED <<is_writable, bio, buf, last>>

-----------------------------------------------------------------------------
(* copy_to_brd.  A page that is gone by now is a BUG_ON(!page): no step. *)

WrittenPage(t, q) == Fill(q, Part(t), bio[t].val)

\* Mutant: what lies past the first page is not written.
CopyFirst_Only(t) ==
    /\ pc[t] = "copy" /\ half[t] = 1 /\ Has(dev(t), PartPage(t))
    /\ brd_pages' = [brd_pages EXCEPT ![dev(t)][PartPage(t)] = WrittenPage(t, @)]
    /\ last' = [last EXCEPT ![dev(t)] =
                  [s \in Sector |-> IF s \in Part(t) THEN bio[t].val ELSE @[s]]]
    /\ NextBvec(t, "lookup")
    /\ UNCHANGED <<is_writable, bio, buf>>

CopyFirst(t) ==
    /\ pc[t] = "copy" /\ half[t] = 1 /\ Has(dev(t), PartPage(t))
    /\ brd_pages' = [brd_pages EXCEPT ![dev(t)][PartPage(t)] = WrittenPage(t, @)]
    /\ last' = [last EXCEPT ![dev(t)] =
                  [s \in Sector |-> IF s \in Part(t) THEN bio[t].val ELSE @[s]]]
    /\ IF Spans(Bvec(t))
       THEN half' = [half EXCEPT ![t] = 2] /\ UNCHANGED <<pc, bvec, err>>
       ELSE NextBvec(t, "lookup")
    /\ UNCHANGED <<is_writable, bio, buf>>

\* The rest of the second page is taken from the parent once more.
CopySecond(t) ==
    /\ pc[t] = "copy" /\ half[t] = 2 /\ Has(dev(t), PartPage(t))
    /\ brd_pages' = [brd_pages EXCEPT ![dev(t)][PartPage(t)] =
            WrittenPage(t, IF ParentHas(dev(t), PartPage(t))
                           THEN brd_lookup_page(parent_brd(dev(t)), PartPage(t))
                           ELSE @)]
    /\ last' = [last EXCEPT ![dev(t)] =
                  [s \in Sector |-> IF s \in Part(t) THEN bio[t].val ELSE @[s]]]
    /\ NextBvec(t, "lookup")
    /\ UNCHANGED <<is_writable, bio, buf>>

-----------------------------------------------------------------------------
(* copy_from_brd *)

\* Where the sector of the second part is read in the parent's page: the
\* offset of the first part is added.
ParentOffset(t, s) ==
    IF half[t] = 1 THEN OffsetOf(s) ELSE OffsetOf(s) + OffsetOf(Bvec(t).sector)

\* Mutant: the parent is not asked.
ReadSector_NoParent(t, s) ==
    IF Has(dev(t), PageOf(s)) THEN brd_lookup_page(dev(t), PageOf(s))[OffsetOf(s)]
                              ELSE Zero

ReadSector(t, s) ==
    LET p == PageOf(s)
        o == ParentOffset(t, s)
    IN CASE Has(dev(t), p) -> brd_lookup_page(dev(t), p)[OffsetOf(s)]
         [] ~Has(dev(t), p) /\ ParentHas(dev(t), p) ->
              IF o \in Offset THEN brd_lookup_page(parent_brd(dev(t)), p)[o] ELSE Stray
         [] OTHER -> Zero

copy_from_brd(t) ==
    /\ pc[t] = "read"
    /\ buf' = [buf EXCEPT ![t] =
                 [s \in Sector |-> IF s \in Part(t) THEN ReadSector(t, s) ELSE @[s]]]
    /\ IF half[t] = 1 /\ Spans(Bvec(t))
       THEN half' = [half EXCEPT ![t] = 2] /\ UNCHANGED <<pc, bvec, err>>
       ELSE NextBvec(t, "read")
    /\ UNCHANGED <<brd_pages, is_writable, bio, last>>

-----------------------------------------------------------------------------
(* brd_ioctl.  On a device of the wrong kind it returns -ENOTTY and changes
   nothing. *)

COW_BRD_SNAPSHOT(d) ==
    /\ ~is_snapshot(d)
    /\ IoctlAllowed
    /\ is_writable' = [is_writable EXCEPT ![d] = FALSE]
    /\ UNCHANGED <<brd_pages, pc, bio, bvec, half, buf, err, last>>

COW_BRD_UNSNAPSHOT(d) ==
    /\ ~is_snapshot(d)
    /\ IoctlAllowed /\ ThawAllowed(d)
    /\ is_writable' = [is_writable EXCEPT ![d] = TRUE]
    /\ UNCHANGED <<brd_pages, pc, bio, bvec, half, buf, err, last>>

brd_free_pages(d) ==
    /\ brd_pages' = [brd_pages EXCEPT ![d] = [p \in Page |-> NoPage]]
    /\ last' = [last EXCEPT ![d] = [s \in Sector |-> NoVal]]

COW_BRD_RESTORE_SNAPSHOT(d) ==
    /\ is_snapshot(d)
    /\ IoctlAllowed
    /\ brd_free_pages(d)
    /\ UNCHANGED <<is_writable, pc, bio, bvec, half, buf, err>>

COW_BRD_WIPE(d) ==
    /\ ~is_snapshot(d)
    /\ IoctlAllowed /\ ThawAllowed(d)
    /\ brd_free_pages(d)
    /\ UNCHANGED <<is_writable, pc, bio, bvec, half, buf, err>>

-----------------------------------------------------------------------------

\* The module is loaded: every device writable and empty.
Init ==
    /\ brd_pages = [d \in Dev |-> [p \in Page |-> NoPage]]
    /\ is_writable = [d \in Dev |-> TRUE]
    /\ pc = [t \in Thread |-> "idle"]
    /\ bio = [t \in Thread |-> NoBio]
    /\ bvec = [t \in Thread |-> 1] /\ half = [t \in Thread |-> 1]
    /\ buf = [t \in Thread |-> [s \in Sector |-> NoVal]]
    /\ err = [t \in Thread |-> "ok"]
    /\ last = [d \in Dev |-> [s \in Sector |-> NoVal]]

Handle(t) ==
    \/ BIO_ENDIO(t) \/ discard_from_brd(t)
    \/ LookupPresent(t) \/ LookupAbsent(t) \/ AllocFails(t) \/ InsertPage(t)
    \/ CopyParent(t)
    \/ CopyFirst(t) \/ CopySecond(t)
    \/ copy_from_brd(t)

Ioctl(d) ==
    \/ COW_BRD_SNAPSHOT(d) \/ COW_BRD_UNSNAPSHOT(d)
    \/ COW_BRD_RESTORE_SNAPSHOT(d) \/ COW_BRD_WIPE(d)

Next == \/ \E t \in Thread : Submit(t) \/ Handle(t)
        \/ \E d \in Dev : Ioctl(d)

Spec == Init /\ [][Next]_vars

-----------------------------------------------------------------------------
(* Properties *)

\* Every variable keeps the type its declaration gives it in the code.
TypeOK ==
    /\ brd_pages \in [Dev -> [Page -> [Offset -> Val] \cup {NoPage}]]
    /\ is_writable \in [Dev -> BOOLEAN]
    /\ pc \in [Thread -> {"idle", "discard", "lookup", "insert", "cow", "copy",
                          "read", "endio"}]
    /\ bio \in [Thread -> Bios \cup {NoBio}]
    /\ \A t \in Thread : pc[t] = "idle" <=> bio[t] = NoBio
    /\ half \in [Thread -> {1, 2}] /\ bvec \in [Thread -> Nat]
    /\ \A t \in Thread : IF bio[t] = NoBio THEN bvec[t] = 1
                                          ELSE bvec[t] \in DOMAIN bio[t].bvecs
    /\ buf \in [Thread -> [Sector -> Val \cup {NoVal, Stray}]]
    /\ err \in [Thread -> {"ok", "EIO", "ENOMEM"}]
    /\ last \in [Dev -> [Sector -> Val \cup {NoVal}]]

\* A page is inserted but the parent's contents are still to be copied to it.
BeingCopied(d, p) == \E t \in Thread : pc[t] = "cow" /\ dev(t) = d /\ PartPage(t) = p

(***************************************************************************)
(* What a device holds: its own page, or the parent's, or zeroes.  A page  *)
(* still being copied counts as the parent's.                              *)
(***************************************************************************)
Contents(d) ==
    [s \in Sector |->
       LET p == PageOf(s)
       IN CASE Has(d, p) /\ ~(ParentHas(d, p) /\ BeingCopied(d, p)) ->
                 brd_lookup_page(d, p)[OffsetOf(s)]
            [] ParentHas(d, p) /\ (~Has(d, p) \/ BeingCopied(d, p)) ->
                 brd_lookup_page(parent_brd(d), p)[OffsetOf(s)]
            [] OTHER -> Zero]

Range(b) == {s \in Sector : b.sector <= s /\ s < b.sector + b.size}

\* The write or discard that t has accepted and not yet failed or ended.
Request(t) ==
    IF bio[t] = NoBio \/ err[t] # "ok" THEN NoBio
    ELSE IF bio[t].op = "READ" THEN NoBio
    ELSE [dev |-> dev(t), sectors |-> Range(bio[t]), val |-> bio[t].val]

SD == INSTANCE SnapshotDisk WITH
        content <- [d \in Dev |-> Contents(d)],
        frozen <- [d \in Disk |-> ~is_writable[d]],
        request <- [t \in Thread |-> Request(t)],
        DiskOf <- parent_brd, None <- NoBio

\* The driver implements SnapshotDisk: a write changes only sectors it asked for,
\* on the one device (and shows through untouched snapshots of a disk), restoring
\* gives the disk's contents back, and all the page copying in between changes
\* nothing a reader could see (cow_brd.c as a whole).
ImplementsSnapshotDisk == SD!SDSpec

Completed(t, op) == pc[t] = "endio" /\ err[t] = "ok" /\ bio[t].op = op

\* A read that ends without error has delivered, for every sector, what the
\* device holds (copy_from_brd), whichever tree each page came from.
ReadReturnsContents ==
    \A t \in Thread : Completed(t, "READ") =>
        \A s \in Range(bio[t]) : buf[t][s] = Contents(dev(t))[s]

\* A write that ends without error is on the device in full, over all its bvecs
\* and both pages of each; what earlier bios wrote elsewhere on the device, or
\* earlier bvecs did before an -ENOMEM, is still there (copy_to_brd).
WrittenStays ==
    /\ \A d \in Dev, s \in Sector : last[d][s] # NoVal => Contents(d)[s] = last[d][s]
    /\ \A t \in Thread : Completed(t, "WRITE") =>
          \A s \in Range(bio[t]) : last[dev(t)][s] = bio[t].val

\* copy_to_brd never runs into its BUG_ON(!page): the page copy_to_brd_setup
\* inserted is there until the copy is done.
PagesNotDeletedUnderIO ==
    \A t \in Thread : pc[t] = "copy" => Has(dev(t), PartPage(t))

\* A disk that is not writable does not change, except that it may be wiped:
\* this is what the snapshots' sharing of its pages rests on.
FrozenDiskUnchanged ==
    [][\A d \in Disk : ~is_writable[d] =>
          brd_pages'[d] = brd_pages[d] \/ \A p \in Page : brd_pages'[d][p] = NoPage]_vars

============================================================================
