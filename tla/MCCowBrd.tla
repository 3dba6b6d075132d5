------------------------------ MODULE MCCowBrd ------------------------------
(***************************************************************************)
(* Small instances of CowBrd.                                              *)
(***************************************************************************)
EXTENDS CowBrd, TLC

CONSTANTS Shapes,       \* start sector and bvec lengths of the bios
          DiskShapes    \* more of them, for the disks only

Bvecs(start, lens) ==
    [k \in 1..Len(lens) |->
       [sector |-> start + (IF k = 1 THEN 0 ELSE lens[1]), len |-> lens[k]]]

Total(lens) == IF Len(lens) = 1 THEN lens[1] ELSE lens[1] + lens[2]

MCBio(d, op, sh, v) ==
    [dev |-> d, op |-> op, sector |-> sh.start, size |-> Total(sh.lens),
     val |-> v, bvecs |-> Bvecs(sh.start, sh.lens)]

ShapesOn(d) == IF is_snapshot(d) THEN Shapes ELSE Shapes \cup DiskShapes

\* A discard covers whole pages, as the queue's discard_granularity asks.
\* The snapshots are alike: only the first one gets discards.
WholePages(sh) == sh.start % PageSectors = 0 /\ Total(sh.lens) % PageSectors = 0

MCBios == UNION {
    {MCBio(d, "WRITE", sh, v) : v \in Val \ {Zero}, sh \in ShapesOn(d)}
      \cup {MCBio(d, "READ", sh, Zero) : sh \in ShapesOn(d)}
      \cup {MCBio(d, "DISCARD", sh, Zero) :
              sh \in {x \in ShapesOn(d) : WholePages(x) /\ d <= num_disks}} :
    d \in Dev}

Shape(start, lens) == [start |-> start, lens |-> lens]

\* Part of a page, two pages in two bvecs, and a bio past the end of the disk.
Aligned == {Shape(1, <<1>>), Shape(0, <<2, 2>>), Shape(3, <<1, 1>>)}

\* The threads are interchangeable, and no property tells them apart.
Symmetry == Permutations(Thread)

\* A bvec over the page boundary.
OverBoundary == {Shape(1, <<2>>)}

\* The two sectors of one page.
OnePage == {Shape(0, <<1>>), Shape(1, <<1>>)}

\* A bvec over the page boundary, and the last sector of the second page.
Spanning == {Shape(1, <<2>>), Shape(3, <<1>>)}
=============================================================================
