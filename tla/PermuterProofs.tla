--------------------------- MODULE PermuterProofs ---------------------------
(***************************************************************************)
(* Proofs about Permuter for every log, every content of uninitialised     *)
(* memory, every number of rounds and every retry bound.                   *)
(***************************************************************************)
EXTENDS Permuter, DataInduction, FiniteSetTheorems

(***************************************************************************)
(* No epoch is ever marked overlaps: the list that would reveal an overlap *)
(* starts empty, and the scan inserts into it only next to a range it      *)
(* already holds.                                                          *)
(***************************************************************************)
NoOverlap ==
    /\ overlaps = <<>>
    /\ current_epoch.overlaps = FALSE
    /\ \A k \in 1..Len(epochs_) : epochs_[k].overlaps = FALSE

\* Drawing stays within the epochs there are.
DrawInRange ==
    pc = "fill" => /\ num_epochs \in 1..Len(epochs_)
                   /\ num_requests \in 1..Len(epochs_[num_epochs].ops)

\* A data half is owed only by an operation already passed.
OwedIsPast == prev_epoch_flush_op => index > 0

TypeInv == TypeOK /\ NoOverlap /\ DrawInRange /\ OwedIsPast

-----------------------------------------------------------------------------

\* Scanning an empty list finds nothing and inserts nothing.
LEMMA ScanEmpty ==
    ASSUME NEW start, NEW end
    PROVE  ScanHits(<<>>, start, end) = {} /\ ScanInsert(<<>>, start, end) = <<>>
  <1>1. ScanHits(<<>>, start, end) = {}
    BY DEF ScanHits
  <1> DEFINE visited(p) == \A h \in ScanHits(<<>>, start, end) : p < h
             new == [start |-> start, end |-> end]
             parts == [p \in DOMAIN <<>> |->
                         IF visited(p) /\ <<>>[p].start > end THEN <<new, <<>>[p]>>
                                                              ELSE <<(<<>>[p])>>]
  <1>2. FlattenSeq(<<>>) = <<>>
    BY DEF FlattenSeq
  <1>3. ScanInsert(<<>>, start, end) = FlattenSeq(parts)
    BY DEF ScanInsert
  <1>4. parts = <<>>
    <2> HIDE DEF visited, new
    <2> QED OBVIOUS
  <1> HIDE DEF parts
  <1> QED BY <1>1, <1>2, <1>3, <1>4
\* The fields of an epoch, and the updates InitDataVector makes to them.
LEMMA EpochFields ==
    ASSUME NEW e \in Epoch
    PROVE  /\ e.ops \in Seq(EpochOp)
           /\ e.has_barrier \in BOOLEAN
           /\ e.overlaps \in BOOLEAN
  BY DEF Epoch

\* Replacing the operations of an epoch keeps the rest of it.
LEMMA OpsUpdate ==
    ASSUME NEW e \in Epoch, NEW s \in Seq(EpochOp)
    PROVE  /\ [e EXCEPT !.ops = s] \in Epoch
           /\ [e EXCEPT !.ops = s].ops = s
           /\ [e EXCEPT !.ops = s].overlaps = e.overlaps
  BY DEF Epoch

\* Marking an epoch as overlapping keeps the rest of it.
LEMMA OverlapsUpdate ==
    ASSUME NEW e \in Epoch, NEW s \in Seq(EpochOp)
    PROVE  /\ [e EXCEPT !.ops = s, !.overlaps = FALSE] \in Epoch
           /\ [e EXCEPT !.ops = s, !.overlaps = FALSE].ops = s
           /\ [e EXCEPT !.ops = s, !.overlaps = FALSE].overlaps = FALSE
  BY DEF Epoch

\* Marking an epoch as ended by a barrier keeps the rest of it.
LEMMA BarrierUpdate ==
    ASSUME NEW e \in Epoch, NEW s \in Seq(EpochOp)
    PROVE  /\ [e EXCEPT !.ops = s, !.has_barrier = TRUE] \in Epoch
           /\ [e EXCEPT !.ops = s, !.has_barrier = TRUE].ops = s
           /\ [e EXCEPT !.ops = s, !.has_barrier = TRUE].overlaps = e.overlaps
  BY DEF Epoch

\* An operation with its log position is an epoch_op.
LEMMA EpochOpType ==
    ASSUME NEW n \in Nat, NEW w \in DiskWrites
    PROVE  [abs_index |-> n, op |-> w] \in EpochOp
  BY DEF EpochOp

\* The halves of a split flush are disk_writes, as is every logged operation.
LEMMA HalvesType ==
    ASSUME NEW w \in DiskWrites, NEW g \in DiskWrites
    PROVE  FlagHalf(w, g) \in DiskWrites /\ DataHalf(w) \in DiskWrites
  BY DEF FlagHalf, DataHalf, DiskWrites, Flag

\* The identity of a crash state is a list of log positions.
LEMMA HashType == ASSUME NEW s \in Seq(EpochOp) PROVE Hash(s) \in Seq(Nat)
  <1>1. /\ Len(s) \in Nat /\ DOMAIN s = 1..Len(s)
        /\ \A p \in 1..Len(s) : s[p] \in EpochOp
    OBVIOUS
  <1>2. \A p \in 1..Len(s) : s[p].abs_index \in Nat
    BY <1>1 DEF EpochOp
  <1>3. Hash(s) = [p \in 1..Len(s) |-> s[p].abs_index]
    BY <1>1 DEF Hash
  <1> QED BY <1>1, <1>2, <1>3

\* TypeInv holds when the log is handed to InitDataVector.
LEMMA InitType == Init => TypeInv
  <1> SUFFICES ASSUME Init PROVE TypeInv
    OBVIOUS
  <1>1. NewEpoch \in Epoch /\ NewEpoch.overlaps = FALSE
    BY DEF NewEpoch, Epoch
  <1>2. data \in Seq(DiskWrites) /\ data_half \in DiskWrites
    BY PermuterAssumption DEF Init
  <1>3. TypeOK
    <2>1. /\ <<>> \in Seq(Epoch) /\ <<>> \in Seq(SectorRange)
          /\ <<>> \in Seq(EpochOp) /\ <<>> \in Seq(Seq(EpochOp))
          /\ 0 \in 0..Len(data) /\ 0 \in Nat /\ 0 \in 0..0 /\ 0 \in 0..NumRounds
      BY <1>2, PermuterAssumption
    <2> QED BY <1>1, <1>2, <2>1, Zenon DEF Init, TypeOK
  <1> QED BY <1>1, <1>3 DEF Init, TypeInv, NoOverlap, DrawInRange, OwedIsPast

\* Every step of InitDataVector keeps TypeInv.
LEMMA InitDataVectorType == TypeInv /\ InitDataVector => TypeInv'
  <1> SUFFICES ASSUME TypeInv, InitDataVector PROVE TypeInv'
    OBVIOUS
  <1> USE DEF TypeInv, OwedIsPast
  <1>1. CASE EpochStart
    BY <1>1 DEF EpochStart, TypeOK, NoOverlap, DrawInRange, NewEpoch, Epoch,
                drawVars, callVars
  <1>2. CASE AddOp
    <2> DEFINE start == curr.write_sector
               end == start + curr.size
               op == [abs_index |-> index, op |-> curr]
    <2>1. curr \in DiskWrites /\ index \in Nat /\ index + 1 \in 0..Len(data)
      BY <1>2 DEF AddOp, TypeOK, curr
    <2>2. op \in EpochOp
      BY <2>1, EpochOpType
    <2>3. OwedHalf \in Seq(EpochOp)
      <3>1. CASE prev_epoch_flush_op
        <4>1. index - 1 \in Nat /\ data_half \in DiskWrites
          BY <2>1, <3>1 DEF TypeOK
        <4>2. [abs_index |-> index - 1, op |-> data_half] \in EpochOp
          BY <4>1, EpochOpType
        <4> QED BY <3>1, <4>2 DEF OwedHalf
      <3>2. CASE ~prev_epoch_flush_op
        BY <3>2 DEF OwedHalf
      <3> QED BY <3>1, <3>2
    <2>4. overlaps' = <<>> /\ ScanHits(overlaps, start, end) = {}
      BY <1>2, ScanEmpty DEF AddOp, NoOverlap
    <2> DEFINE s == current_epoch.ops \o OwedHalf \o <<op>>
    <2>5. current_epoch' = [current_epoch EXCEPT !.ops = s, !.overlaps = FALSE]
      <3>1. (current_epoch.overlaps \/ ScanHits(overlaps, start, end) # {}) = FALSE
        BY <2>4 DEF NoOverlap
      <3> QED BY <1>2, <3>1, Zenon DEF AddOp
    <2>6. current_epoch' \in Epoch /\ current_epoch'.overlaps = FALSE
      <3>1. current_epoch \in Epoch
        BY DEF TypeOK
      <3>2. s \in Seq(EpochOp)
        BY <2>2, <2>3, <3>1, EpochFields
      <3> HIDE DEF s
      <3> QED BY <2>5, <3>1, <3>2, OverlapsUpdate, Zenon
    <2>7. TypeOK'
      <3>1. prev_epoch_flush_op' \in BOOLEAN
        BY <1>2, Zenon DEF AddOp
      <3>2. <<>> \in Seq(SectorRange)
        OBVIOUS
      <3>3. index' \in 0..Len(data')
        BY <1>2, <2>1 DEF AddOp
      <3> QED BY <1>2, <2>4, <2>6, <3>1, <3>2, <3>3, Zenon
              DEF AddOp, TypeOK, drawVars, callVars
    <2>8. NoOverlap'
      BY <1>2, <2>4, <2>6 DEF AddOp, NoOverlap
    <2>9. DrawInRange'
      BY <1>2 DEF AddOp, DrawInRange
    <2> QED BY <1>2, <2>1, <2>7, <2>8, <2>9 DEF AddOp
  <1>3. CASE CloseSplit
    <2>1. curr \in DiskWrites /\ index \in Nat /\ index + 1 \in 0..Len(data)
      BY <1>3 DEF CloseSplit, AtBarrier, TypeOK, curr
    <2> DEFINE s(g) == Append(current_epoch.ops,
                              [abs_index |-> index, op |-> FlagHalf(curr, g)])
    <2>2. PICK g \in Garbage :
            epochs_' = Append(epochs_, [current_epoch EXCEPT !.ops = s(g)])
      BY <1>3, Zenon DEF CloseSplit
    <2>3. FlagHalf(curr, g) \in DiskWrites /\ DataHalf(curr) \in DiskWrites
      BY <2>1, HalvesType, PermuterAssumption
    <2>4. s(g) \in Seq(EpochOp) /\ current_epoch \in Epoch
      BY <2>1, <2>3, EpochFields, EpochOpType DEF TypeOK
    <2> DEFINE e == [current_epoch EXCEPT !.ops = s(g)]
    <2>5. e \in Epoch /\ e.overlaps = current_epoch.overlaps
      <3> HIDE DEF s
      <3> QED BY <2>4, OpsUpdate, Zenon
    <2> HIDE DEF e
    <2>6. epochs_' = Append(epochs_, e)
      BY <2>2 DEF e
    <2>7. TypeOK'
      <3>1. prev_epoch_flush_op' \in BOOLEAN
        BY <1>3, Zenon DEF CloseSplit
      <3>2. epochs_' \in Seq(Epoch) /\ index' \in 0..Len(data')
        BY <1>3, <2>1, <2>5, <2>6 DEF CloseSplit, TypeOK
      <3> QED BY <1>3, <2>3, <3>1, <3>2, Zenon
              DEF CloseSplit, TypeOK, drawVars, callVars
    <2>8. NoOverlap'
      BY <1>3, <2>5, <2>6 DEF CloseSplit, NoOverlap, TypeOK
    <2> QED BY <1>3, <2>1, <2>7, <2>8 DEF CloseSplit, DrawInRange
  <1>4. CASE CloseBarrier
    <2> DEFINE s == Append(current_epoch.ops, [abs_index |-> index, op |-> curr])
               e == [current_epoch EXCEPT !.ops = s, !.has_barrier = TRUE]
    <2>1. curr \in DiskWrites /\ index \in Nat /\ index + 1 \in 0..Len(data)
      BY <1>4 DEF CloseBarrier, AtBarrier, TypeOK, curr
    <2>2. s \in Seq(EpochOp) /\ current_epoch \in Epoch
      BY <2>1, EpochFields, EpochOpType DEF TypeOK
    <2>3. epochs_' = Append(epochs_, e)
      BY <1>4, Zenon DEF CloseBarrier
    <2>4. e \in Epoch /\ e.overlaps = current_epoch.overlaps
      <3> HIDE DEF s
      <3> QED BY <2>2, BarrierUpdate, Zenon
    <2> HIDE DEF e
    <2>5. TypeOK'
      BY <1>4, <2>1, <2>3, <2>4 DEF CloseBarrier, TypeOK, drawVars, callVars
    <2>6. NoOverlap'
      BY <1>4, <2>3, <2>4 DEF CloseBarrier, NoOverlap, TypeOK
    <2> QED BY <1>4, <2>1, <2>5, <2>6 DEF CloseBarrier, DrawInRange
  <1>5. CASE CloseTail
    <2>1. TypeOK'
      BY <1>5 DEF CloseTail, TypeOK, drawVars, callVars
    <2>2. NoOverlap'
      BY <1>5 DEF CloseTail, NoOverlap, TypeOK
    <2> QED BY <1>5, <2>1, <2>2 DEF CloseTail, DrawInRange
  <1>6. CASE InitDone
    BY <1>6 DEF InitDone, TypeOK, NoOverlap, DrawInRange, initVars, drawVars,
                callVars
  <1> QED BY <1>1, <1>2, <1>3, <1>4, <1>5, <1>6 DEF InitDataVector

\* Every step of GenerateCrashState and of its caller keeps TypeInv.
LEMMA GenerateType == TypeInv /\ GenerateCrashState => TypeInv'
  <1> SUFFICES ASSUME TypeInv, GenerateCrashState PROVE TypeInv'
    OBVIOUS
  <1> USE DEF TypeInv, OwedIsPast
  <1>1. CASE Call
    BY <1>1, PermuterAssumption
    DEF Call, TypeOK, NoOverlap, DrawInRange, initVars, drawVars
  <1>2. CASE LastRound
    BY <1>2 DEF LastRound, TypeOK, NoOverlap, DrawInRange, initVars, drawVars,
                callVars
  <1>3. CASE DrawNothing
    BY <1>3 DEF DrawNothing, TypeOK, NoOverlap, DrawInRange, initVars, drawVars,
                callVars
  <1>4. CASE DrawLength
    <2>1. num_epochs' \in 1..Len(epochs_) /\ num_epochs' \in Nat
      BY <1>4 DEF DrawLength, TypeOK
    <2>2. /\ num_requests' \in 1..Len(epochs_[num_epochs'].ops)
          /\ num_requests' \in Nat
      <3>1. epochs_[num_epochs'].ops \in Seq(EpochOp)
        BY <2>1, EpochFields DEF TypeOK
      <3> QED BY <1>4, <3>1 DEF DrawLength
    <2>3. i' \in 0..num_epochs' /\ crash_state' \in Seq(EpochOp)
      BY <1>4, <2>1 DEF DrawLength
    <2> QED BY <1>4, <2>1, <2>2, <2>3, Zenon
            DEF DrawLength, TypeOK, NoOverlap, DrawInRange, initVars, callVars
  <1>5. CASE CopyEpoch
    <2>1. i + 1 \in 1..Len(epochs_) /\ i + 1 \in 0..num_epochs
      BY <1>5 DEF CopyEpoch, TypeOK, DrawInRange
    <2>2. crash_state' \in Seq(EpochOp)
      <3>1. epochs_[i + 1].ops \in Seq(EpochOp)
        BY <2>1, EpochFields DEF TypeOK
      <3> QED BY <1>5, <3>1 DEF CopyEpoch, TypeOK
    <2> QED BY <1>5, <2>1, <2>2 DEF CopyEpoch, TypeOK, NoOverlap, DrawInRange,
                                    initVars, callVars
  <1>6. CASE PermuteEpoch
    <2> DEFINE e == epochs_[i + 1]
               size == IF IsLast THEN num_requests ELSE Len(e.ops)
    <2>1. i + 1 \in 1..Len(epochs_) /\ i + 1 \in 0..num_epochs
      BY <1>6 DEF PermuteEpoch, TypeOK, DrawInRange
    <2>2. e \in Epoch /\ e.ops \in Seq(EpochOp) /\ size \in Nat
      <3>1. e \in Epoch
        BY <2>1 DEF TypeOK
      <3> QED BY <3>1, EpochFields DEF TypeOK
    <2>3. PICK f \in permute_epoch(e, size) :
            crash_state' = crash_state \o [p \in 1..size |-> e.ops[f[p]]]
      BY <1>6 DEF PermuteEpoch
    <2>4. f \in [1..size -> 1..Len(e.ops)]
      BY DEF permute_epoch
    <2>5. [p \in 1..size |-> e.ops[f[p]]] \in Seq(EpochOp)
      BY <2>2, <2>4, SMTT(30)
    <2>6. crash_state' \in Seq(EpochOp)
      BY <2>3, <2>5 DEF TypeOK
    <2> QED BY <1>6, <2>1, <2>6 DEF PermuteEpoch, TypeOK, NoOverlap, DrawInRange,
                                    initVars, callVars
  <1>7. CASE Retry
    BY <1>7 DEF Retry, TypeOK, NoOverlap, DrawInRange, initVars, drawVars
  <1>8. CASE GiveUp
    BY <1>8 DEF GiveUp, TypeOK, NoOverlap, DrawInRange, initVars, drawVars
  <1>9. CASE ReturnNew
    <2>1. Hash(crash_state) \in Seq(Nat) /\ retries' \in Nat
      BY <1>9, HashType DEF ReturnNew, TypeOK
    <2>2. returned' \in Seq(Seq(EpochOp))
      BY <1>9 DEF ReturnNew, TypeOK
    <2>3. \A h \in completed_permutations_' : h \in Seq(Nat)
      BY <1>9, <2>1, Zenon DEF ReturnNew, TypeOK
    <2>4. pc' = "ready"
      BY <1>9 DEF ReturnNew
    <2>5. TypeOK'
      BY <1>9, <2>1, <2>2, <2>3, Zenon DEF ReturnNew, TypeOK, initVars, drawVars
    <2> QED BY <1>9, <2>4, <2>5 DEF ReturnNew, NoOverlap, DrawInRange, initVars
  <1> QED BY <1>1, <1>2, <1>3, <1>4, <1>5, <1>6, <1>7, <1>8, <1>9
          DEF GenerateCrashState

\* TypeInv is inductive.
LEMMA TypeInvNext == TypeInv /\ [Next]_vars => TypeInv'
  <1>1. TypeInv /\ UNCHANGED vars => TypeInv'
    BY DEF TypeInv, TypeOK, NoOverlap, DrawInRange, OwedIsPast, vars, initVars,
           drawVars, callVars
  <1> QED BY <1>1, InitDataVectorType, GenerateType DEF Next, Finished

\* The generator is type correct: whatever the log, no index it uses leaves the
\* vector it indexes (at() never throws once there is an epoch).
THEOREM TypeCorrect == Spec => []TypeOK
  <1>1. TypeInv => TypeOK
    BY DEF TypeInv
  <1> QED BY <1>1, InitType, TypeInvNext, PTL DEF Spec

\* No epoch is ever marked overlaps, for any log: only the last epoch of a crash
\* state is ever reordered.
THEOREM OverlapsNeverSet == Spec => []NoOverlap
  <1>1. TypeInv => NoOverlap
    BY DEF TypeInv
  <1> QED BY <1>1, InitType, TypeInvNext, PTL DEF Spec
-----------------------------------------------------------------------------
(***************************************************************************)
(* BarrierOrder is not inductive by itself: it says nothing of how the     *)
(* epochs were cut.  The strengthening follows the code in its two phases. *)
(* While the log is cut, every position passed is in a stored epoch or in  *)
(* the one being filled (Covered), all positions up to a barrier passed    *)
(* are in stored epochs (BarriersClosed), and so an epoch only holds       *)
(* operations whose preceding barriers lie, with all they cover, in        *)
(* earlier epochs (EpochsOrdered).  While a state is drawn, the epochs     *)
(* already visited, the last one excepted, are placed whole                *)
(* (EpochsPlaced).                                                         *)
(***************************************************************************)
\* Position x is among the operations s of an epoch.
Holds(s, x) == \E p \in 1..Len(s) : s[p].abs_index = x

\* Position x is in one of the first n stored epochs.
InEpochs(x, n) == \E k \in 1..n : Holds(epochs_[k].ops, x)

Covered ==
    \A x \in 0..(index - 1) :
        InEpochs(x, Len(epochs_)) \/ (pc = "ops" /\ Holds(current_epoch.ops, x))

BarriersClosed ==
    \A b \in Barriers : b < index => \A x \in 0..b : InEpochs(x, Len(epochs_))

CurrentPast ==
    pc = "ops" => \A p \in 1..Len(current_epoch.ops) :
                     current_epoch.ops[p].abs_index < index

EpochsOrdered ==
    \A k \in 1..Len(epochs_) : \A p \in 1..Len(epochs_[k].ops) : \A b \in Barriers :
        b < epochs_[k].ops[p].abs_index => \A x \in 0..b : InEpochs(x, k - 1)

EpochsPlaced ==
    pc = "fill" =>
        \A k \in 1..i : k < num_epochs =>
            \A x \in Nat : Holds(epochs_[k].ops, x) => PlacedBefore(x, Len(crash_state))

CutInv == Covered /\ BarriersClosed /\ CurrentPast /\ EpochsOrdered
OrderInv == CutInv /\ EpochsPlaced /\ BarrierOrder

\* Storing an epoch leaves the earlier ones in place and adds its positions.
LEMMA StoreEpoch ==
    ASSUME epochs_ \in Seq(Epoch), NEW e, epochs_' = Append(epochs_, e)
    PROVE  /\ Len(epochs_') = Len(epochs_) + 1
           /\ epochs_'[Len(epochs_) + 1] = e
           /\ \A k \in 1..Len(epochs_) : epochs_'[k] = epochs_[k]
           /\ \A n \in 0..Len(epochs_) : \A x : InEpochs(x, n)' <=> InEpochs(x, n)
           /\ \A x : InEpochs(x, Len(epochs_)) => InEpochs(x, Len(epochs_))'
           /\ \A x : Holds(e.ops, x) => InEpochs(x, Len(epochs_))'
  <1>1. /\ Len(epochs_') = Len(epochs_) + 1 /\ Len(epochs_) \in Nat
        /\ epochs_'[Len(epochs_) + 1] = e
        /\ \A k \in 1..Len(epochs_) : epochs_'[k] = epochs_[k]
    OBVIOUS
  <1>2. ASSUME NEW n \in 0..Len(epochs_), NEW x
        PROVE  InEpochs(x, n)' <=> InEpochs(x, n)
    BY <1>1 DEF InEpochs
  <1>3. ASSUME NEW x, InEpochs(x, Len(epochs_))
        PROVE  InEpochs(x, Len(epochs_))'
    BY <1>1, <1>3 DEF InEpochs
  <1>4. ASSUME NEW x, Holds(e.ops, x)
        PROVE  InEpochs(x, Len(epochs_))'
    BY <1>1, <1>4 DEF InEpochs
  <1> QED BY <1>1, <1>2, <1>3, <1>4

\* Closing an epoch keeps OrderInv, whichever of the three ways it is closed.
LEMMA CloseOrder ==
    ASSUME TypeInv, OrderInv, pc' = "epoch",
           UNCHANGED <<data, crash_state>>,
           index' \in Nat,
           NEW e \in Epoch, epochs_' = Append(epochs_, e),
           \A p \in 1..Len(e.ops) : e.ops[p].abs_index \in 0..index,
           \A x \in 0..(index' - 1) : InEpochs(x, Len(epochs_)) \/ Holds(e.ops, x)
    PROVE  OrderInv'
  <1>1. epochs_ \in Seq(Epoch) /\ index \in Nat /\ Len(epochs_) \in Nat
    BY DEF TypeInv, TypeOK
  <1>2. Covered'
    <2> SUFFICES ASSUME NEW x \in 0..(index' - 1)
                 PROVE  InEpochs(x, Len(epochs_))'
      BY DEF Covered
    <2> QED BY <1>1, StoreEpoch
  <1>3. Barriers' = Barriers /\ \A b \in Barriers : b \in Nat
    BY DEF Barriers, Positions
  <1>4. BarriersClosed'
    <2> SUFFICES ASSUME NEW b \in Barriers, b < index', NEW x \in 0..b
                 PROVE  InEpochs(x, Len(epochs_))'
      BY <1>3 DEF BarriersClosed
    <2>1. b \in Nat
      BY <1>3
    <2>2. x \in 0..(index' - 1)
      <3>1. \A n, m \in Nat : m < n => 0..m \subseteq 0..(n - 1)
        OBVIOUS
      <3> QED BY <2>1, <3>1
    <2> QED BY <1>2, <2>2 DEF Covered
  <1>5. CurrentPast' /\ EpochsPlaced'
    BY DEF CurrentPast, EpochsPlaced
  <1>6. EpochsOrdered'
    <2> SUFFICES ASSUME NEW k \in 1..(Len(epochs_) + 1),
                        NEW p \in 1..Len(epochs_'[k].ops), NEW b \in Barriers,
                        b < epochs_'[k].ops[p].abs_index, NEW x \in 0..b
                 PROVE  InEpochs(x, k - 1)'
      BY <1>1, <1>3, StoreEpoch DEF EpochsOrdered
    <2>1. CASE k \in 1..Len(epochs_)
      <3>1. InEpochs(x, k - 1)
        BY <1>1, <2>1, StoreEpoch DEF OrderInv, CutInv, EpochsOrdered
      <3> QED BY <1>1, <2>1, <3>1, StoreEpoch
    <2>2. CASE k = Len(epochs_) + 1
      <3>1. b < index
        BY <1>1, <1>3, <2>2, StoreEpoch
      <3>2. InEpochs(x, Len(epochs_))
        BY <3>1 DEF OrderInv, CutInv, BarriersClosed
      <3> QED BY <1>1, <2>2, <3>2, StoreEpoch
    <2> QED BY <1>1, <2>1, <2>2
  <1>7. BarrierOrder'
    BY <1>3 DEF OrderInv, BarrierOrder, PlacedBefore
  <1> QED BY <1>2, <1>4, <1>5, <1>6, <1>7 DEF OrderInv, CutInv
\* OrderInv holds before the first operation is read.
LEMMA InitOrder == Init => OrderInv
  <1> SUFFICES ASSUME Init PROVE OrderInv
    OBVIOUS
  <1>1. Covered
    BY DEF Init, Covered
  <1>2. BarriersClosed
    BY DEF Init, BarriersClosed, Barriers, Positions
  <1>3. CurrentPast /\ EpochsPlaced
    BY DEF Init, CurrentPast, EpochsPlaced
  <1>4. EpochsOrdered
    BY DEF Init, EpochsOrdered
  <1>5. BarrierOrder
    BY DEF Init, BarrierOrder
  <1> QED BY <1>1, <1>2, <1>3, <1>4, <1>5 DEF OrderInv, CutInv

\* Once the log is cut, the epochs stay as they are.
LEMMA CutKept ==
    ASSUME CutInv, UNCHANGED initVars, pc # "ops", pc' # "ops"
    PROVE  CutInv' /\ Barriers' = Barriers
  <1>1. UNCHANGED <<data, epochs_, index>>
    BY DEF initVars
  <1>2. Barriers' = Barriers
    BY <1>1 DEF Barriers, Positions
  <1>3. Covered'
    BY <1>1 DEF CutInv, Covered, InEpochs
  <1>4. BarriersClosed'
    BY <1>1, <1>2 DEF CutInv, BarriersClosed, InEpochs
  <1>5. CurrentPast'
    BY DEF CurrentPast
  <1>6. EpochsOrdered'
    BY <1>1, <1>2 DEF CutInv, EpochsOrdered, InEpochs
  <1> QED BY <1>2, <1>3, <1>4, <1>5, <1>6 DEF CutInv

\* What an epoch holds after operations are added at its end.
LEMMA AppendHolds ==
    ASSUME NEW s \in Seq(EpochOp), NEW o \in EpochOp, NEW u, u = Append(s, o)
    PROVE  /\ \A x : Holds(s, x) => Holds(u, x)
           /\ Holds(u, o.abs_index)
           /\ \A p \in 1..Len(u) : u[p] = o \/ \E q \in 1..Len(s) : u[p] = s[q]
  BY DEF Holds

\* Appending to an epoch keeps the positions it held.
LEMMA ConcatKeeps ==
    ASSUME NEW s \in Seq(EpochOp), NEW t \in Seq(EpochOp), NEW x, Holds(s, x)
    PROVE  Holds(s \o t, x)
  BY DEF Holds

\* Appending to an epoch adds the positions of what is appended.
LEMMA ConcatHolds ==
    ASSUME NEW s \in Seq(EpochOp), NEW t \in Seq(EpochOp), NEW o \in EpochOp,
           NEW u, u = s \o t \o <<o>>
    PROVE  /\ Holds(u, o.abs_index)
           /\ \A p \in 1..Len(u) : \/ u[p] = o
                                   \/ \E q \in 1..Len(s) : u[p] = s[q]
                                   \/ \E q \in 1..Len(t) : u[p] = t[q]
  <1>1. /\ Len(s) \in Nat /\ Len(t) \in Nat
        /\ s \o t \in Seq(EpochOp) /\ Len(s \o t) = Len(s) + Len(t)
        /\ \A q \in 1..Len(s) : (s \o t)[q] = s[q]
        /\ \A q \in (Len(s) + 1)..(Len(s) + Len(t)) : (s \o t)[q] = t[q - Len(s)]
    OBVIOUS
  <1>2. u = Append(s \o t, o)
    BY <1>1
  <1>3. /\ Len(u) = Len(s) + Len(t) + 1
        /\ u[Len(s) + Len(t) + 1] = o
        /\ \A q \in 1..(Len(s) + Len(t)) : u[q] = (s \o t)[q]
    BY <1>1, <1>2
  <1>4. Holds(u, o.abs_index)
    <2>1. Len(s) + Len(t) + 1 \in 1..Len(u)
      BY <1>1, <1>3
    <2> QED BY <1>3, <2>1 DEF Holds
  <1>5. ASSUME NEW p \in 1..Len(u)
        PROVE  \/ u[p] = o
               \/ \E q \in 1..Len(s) : u[p] = s[q]
               \/ \E q \in 1..Len(t) : u[p] = t[q]
    <2>1. CASE p \in 1..Len(s)
      BY <1>1, <1>3, <2>1
    <2>2. CASE p \in (Len(s) + 1)..(Len(s) + Len(t))
      <3>1. p - Len(s) \in 1..Len(t) /\ u[p] = t[p - Len(s)]
        BY <1>1, <1>3, <2>2
      <3> QED BY <3>1
    <2>3. CASE p = Len(s) + Len(t) + 1
      BY <1>3, <2>3
    <2> QED BY <1>1, <1>3, <2>1, <2>2, <2>3
  <1> QED BY <1>4, <1>5

\* The positions of the epoch being filled lie before the cursor.
LEMMA CurrentPositions ==
    ASSUME TypeInv, CurrentPast, pc = "ops"
    PROVE  \A p \in 1..Len(current_epoch.ops) :
              current_epoch.ops[p].abs_index \in 0..index
  <1>1. current_epoch.ops \in Seq(EpochOp) /\ index \in Nat
    BY EpochFields DEF TypeInv, TypeOK
  <1>2. \A p \in 1..Len(current_epoch.ops) : current_epoch.ops[p].abs_index \in Nat
    <2>1. \A p \in 1..Len(current_epoch.ops) : current_epoch.ops[p] \in EpochOp
      BY <1>1
    <2> QED BY <2>1 DEF EpochOp
  <1> QED BY <1>1, <1>2 DEF CurrentPast

\* A barrier at the cursor closes the epoch it is put into.
LEMMA BarrierClosesEpoch ==
    ASSUME TypeInv, OrderInv, pc = "ops", pc' = "epoch",
           UNCHANGED <<data, crash_state>>,
           index' = index + 1,
           NEW w \in DiskWrites, NEW e \in Epoch, epochs_' = Append(epochs_, e),
           e.ops = Append(current_epoch.ops, [abs_index |-> index, op |-> w])
    PROVE  OrderInv'
  <1> DEFINE op == [abs_index |-> index, op |-> w]
  <1>1. /\ index \in Nat /\ current_epoch.ops \in Seq(EpochOp)
        /\ op \in EpochOp /\ op.abs_index = index
    BY EpochFields, EpochOpType DEF TypeInv, TypeOK
  <1> HIDE DEF op
  <1>2. e.ops = Append(current_epoch.ops, op)
    BY DEF op
  <1>3. /\ \A x : Holds(current_epoch.ops, x) => Holds(e.ops, x)
        /\ Holds(e.ops, index)
        /\ \A p \in 1..Len(e.ops) :
              e.ops[p] = op \/ \E q \in 1..Len(current_epoch.ops) :
                                  e.ops[p] = current_epoch.ops[q]
    BY <1>1, <1>2, AppendHolds, ZenonT(60)
  <1>4. \A p \in 1..Len(e.ops) : e.ops[p].abs_index \in 0..index
    BY <1>1, <1>3, CurrentPositions DEF OrderInv, CutInv
  <1>5. \A x \in 0..(index' - 1) : InEpochs(x, Len(epochs_)) \/ Holds(e.ops, x)
    BY <1>1, <1>3 DEF OrderInv, CutInv, Covered
  <1>6. index' \in Nat
    BY <1>1
  <1> QED BY <1>4, <1>5, <1>6, CloseOrder

\* Every step of InitDataVector keeps OrderInv.
LEMMA InitDataVectorOrder == TypeInv /\ OrderInv /\ InitDataVector => OrderInv'
  <1> SUFFICES ASSUME TypeInv, OrderInv, InitDataVector PROVE OrderInv'
    OBVIOUS
  <1>0. /\ index \in Nat /\ Len(data) \in Nat /\ current_epoch \in Epoch
        /\ current_epoch.ops \in Seq(EpochOp) /\ epochs_ \in Seq(Epoch)
        /\ index <= Len(data)
    BY EpochFields DEF TypeInv, TypeOK
  <1>1. CASE EpochStart
    <2>1. UNCHANGED <<data, epochs_, index, crash_state>> /\ pc = "epoch"
      BY <1>1 DEF EpochStart, drawVars
    <2>2. Barriers' = Barriers
      BY <2>1 DEF Barriers, Positions
    <2>3. \A x, n : InEpochs(x, n)' <=> InEpochs(x, n)
      BY <2>1 DEF InEpochs
    <2>4. Covered'
      BY <2>1 DEF OrderInv, CutInv, Covered, InEpochs
    <2>5. BarriersClosed'
      BY <2>1, <2>2 DEF OrderInv, CutInv, BarriersClosed, InEpochs
    <2>6. CurrentPast' /\ EpochsPlaced'
      BY <1>1 DEF EpochStart, CurrentPast, EpochsPlaced, NewEpoch
    <2>7. EpochsOrdered'
      BY <2>1, <2>2 DEF OrderInv, CutInv, EpochsOrdered, InEpochs
    <2>8. BarrierOrder'
      BY <2>1, <2>2 DEF OrderInv, BarrierOrder, PlacedBefore
    <2> QED BY <2>4, <2>5, <2>6, <2>7, <2>8 DEF OrderInv, CutInv
  <1>2. CASE AddOp
    <2> DEFINE op == [abs_index |-> index, op |-> curr]
    <2>1. /\ UNCHANGED <<data, epochs_, crash_state>> /\ pc = "ops" /\ pc' = "ops"
          /\ index' = index + 1 /\ index < Len(data) /\ ~is_barrier_write(curr)
      BY <1>2 DEF AddOp, AtBarrier, drawVars
    <2>2. Barriers' = Barriers /\ \A b \in Barriers : b \in Nat
      BY <2>1 DEF Barriers, Positions
    <2>3. op \in EpochOp /\ op.abs_index = index
      <3>1. curr \in DiskWrites
        BY <1>0, <2>1 DEF TypeInv, TypeOK, curr
      <3> QED BY <1>0, <3>1, EpochOpType
    <2>4. /\ OwedHalf \in Seq(EpochOp)
          /\ \A p \in 1..Len(OwedHalf) : OwedHalf[p].abs_index < index
      <3>1. CASE prev_epoch_flush_op
        <4>1. index - 1 \in Nat /\ data_half \in DiskWrites
          BY <1>0, <3>1 DEF TypeInv, TypeOK, OwedIsPast
        <4>2. [abs_index |-> index - 1, op |-> data_half] \in EpochOp
          BY <4>1, EpochOpType
        <4> QED BY <1>0, <3>1, <4>2 DEF OwedHalf
      <3>2. CASE ~prev_epoch_flush_op
        BY <3>2 DEF OwedHalf
      <3> QED BY <3>1, <3>2
    <2>5. current_epoch'.ops = current_epoch.ops \o OwedHalf \o <<op>>
      BY <1>0, <1>2 DEF AddOp, Epoch
    <2> HIDE DEF op
    <2> DEFINE c == current_epoch.ops
               d == current_epoch'.ops
    <2>6. /\ \A x : Holds(c, x) => Holds(d, x)
          /\ Holds(d, index)
          /\ \A p \in 1..Len(d) :
                \/ d[p] = op
                \/ \E q \in 1..Len(c) : d[p] = c[q]
                \/ \E q \in 1..Len(OwedHalf) : d[p] = OwedHalf[q]
      <3>1. c \in Seq(EpochOp) /\ d = c \o OwedHalf \o <<op>>
        BY <1>0, <2>5
      <3>2. op \in EpochOp /\ op.abs_index = index /\ OwedHalf \in Seq(EpochOp)
        BY <2>3, <2>4
      <3> HIDE DEF c, d
      <3>3. ASSUME NEW x, Holds(c, x) PROVE Holds(d, x)
        <4>1. Holds(c \o OwedHalf, x) /\ c \o OwedHalf \in Seq(EpochOp)
          BY <3>1, <3>2, <3>3, ConcatKeeps
        <4>2. <<op>> \in Seq(EpochOp)
          BY <3>2
        <4> QED BY <3>1, <4>1, <4>2, ConcatKeeps
      <3>4. Holds(d, op.abs_index)
        BY <3>1, <3>2, ConcatHolds, Zenon
      <3>5. \A p \in 1..Len(d) : \/ d[p] = op
                                 \/ \E q \in 1..Len(c) : d[p] = c[q]
                                 \/ \E q \in 1..Len(OwedHalf) : d[p] = OwedHalf[q]
        BY <3>1, <3>2, ConcatHolds
      <3> QED BY <3>2, <3>3, <3>4, <3>5
    <2>7. Covered'
      <3> SUFFICES ASSUME NEW x \in 0..(index' - 1)
                   PROVE  (\/ InEpochs(x, Len(epochs_))
                           \/ pc = "ops" /\ Holds(current_epoch.ops, x))'
        BY DEF Covered
      <3>1. x \in 0..(index - 1) \/ x = index
        BY <1>0, <2>1
      <3>2. InEpochs(x, Len(epochs_)) \/ Holds(d, x)
        BY <2>1, <2>6, <3>1 DEF OrderInv, CutInv, Covered
      <3>3. CASE InEpochs(x, Len(epochs_))
        BY <2>1, <3>3 DEF InEpochs
      <3>4. CASE Holds(d, x)
        BY <2>1, <3>4 DEF Holds
      <3> QED BY <3>2, <3>3, <3>4
    <2>8. CurrentPast'
      <3>1. \A q \in 1..Len(c) : c[q].abs_index < index
        BY <2>1 DEF OrderInv, CutInv, CurrentPast
      <3>2. \A q \in 1..Len(c) : c[q].abs_index \in Nat
        BY <2>1, CurrentPositions DEF OrderInv, CutInv
      <3>3. \A q \in 1..Len(OwedHalf) : OwedHalf[q].abs_index \in Nat
        <4>1. \A q \in 1..Len(OwedHalf) : OwedHalf[q] \in EpochOp
          BY <2>4
        <4> QED BY <4>1 DEF EpochOp
      <3>4. \A p \in 1..Len(d) : d[p].abs_index < index + 1
        <4> SUFFICES ASSUME NEW p \in 1..Len(d)
                     PROVE  d[p].abs_index < index + 1
          OBVIOUS
        <4>1. CASE d[p] = op
          BY <1>0, <2>3, <4>1
        <4>2. CASE \E q \in 1..Len(c) : d[p] = c[q]
          BY <1>0, <3>1, <3>2, <4>2
        <4>3. CASE \E q \in 1..Len(OwedHalf) : d[p] = OwedHalf[q]
          BY <1>0, <2>4, <3>3, <4>3
        <4> QED BY <2>6, <4>1, <4>2, <4>3
      <3> QED BY <2>1, <3>4 DEF CurrentPast
    <2>9. BarriersClosed'
      <3>1. index \notin Barriers
        BY <2>1 DEF Barriers, curr
      <3>2. \A b \in Barriers : b < index' => b < index
        BY <1>0, <2>1, <2>2, <3>1
      <3> QED BY <2>1, <2>2, <3>2 DEF OrderInv, CutInv, BarriersClosed, InEpochs
    <2>10. EpochsOrdered'
      BY <2>1, <2>2 DEF OrderInv, CutInv, EpochsOrdered, InEpochs
    <2>11. EpochsPlaced'
      BY <2>1 DEF EpochsPlaced
    <2>12. BarrierOrder'
      BY <2>1, <2>2 DEF OrderInv, BarrierOrder, PlacedBefore
    <2> QED BY <2>7, <2>8, <2>9, <2>10, <2>11, <2>12 DEF OrderInv, CutInv
  <1>3. CASE CloseSplit
    <2> DEFINE s(g) == Append(current_epoch.ops,
                              [abs_index |-> index, op |-> FlagHalf(curr, g)])
    <2>1. PICK g \in Garbage :
            epochs_' = Append(epochs_, [current_epoch EXCEPT !.ops = s(g)])
      BY <1>3, Zenon DEF CloseSplit
    <2>2. FlagHalf(curr, g) \in DiskWrites
      BY <1>0, <1>3, HalvesType, PermuterAssumption
      DEF CloseSplit, AtBarrier, TypeInv, TypeOK, curr
    <2>3. s(g) \in Seq(EpochOp)
      BY <1>0, <2>2, EpochOpType
    <2> DEFINE e == [current_epoch EXCEPT !.ops = s(g)]
    <2>4. e \in Epoch /\ e.ops = s(g)
      <3> HIDE DEF s
      <3> QED BY <1>0, <2>3, OpsUpdate, Zenon
    <2> HIDE DEF e
    <2>5. epochs_' = Append(epochs_, e)
      BY <2>1 DEF e
    <2> QED BY <1>3, <2>2, <2>4, <2>5, BarrierClosesEpoch DEF CloseSplit, drawVars
  <1>4. CASE CloseBarrier
    <2> DEFINE s == Append(current_epoch.ops, [abs_index |-> index, op |-> curr])
               e == [current_epoch EXCEPT !.ops = s, !.has_barrier = TRUE]
    <2>1. curr \in DiskWrites
      BY <1>0, <1>4 DEF CloseBarrier, AtBarrier, TypeInv, TypeOK, curr
    <2>2. s \in Seq(EpochOp)
      BY <1>0, <2>1, EpochOpType
    <2>3. epochs_' = Append(epochs_, e)
      BY <1>4, Zenon DEF CloseBarrier
    <2>4. e \in Epoch /\ e.ops = s
      <3> HIDE DEF s
      <3> QED BY <1>0, <2>2, BarrierUpdate, Zenon
    <2> HIDE DEF e
    <2> QED BY <1>4, <2>1, <2>3, <2>4, BarrierClosesEpoch DEF CloseBarrier, drawVars
  <1>5. CASE CloseTail
    <2>1. \A p \in 1..Len(current_epoch.ops) :
             current_epoch.ops[p].abs_index \in 0..index
      BY <1>5, CurrentPositions DEF CloseTail, OrderInv, CutInv
    <2>2. \A x \in 0..(index' - 1) :
             InEpochs(x, Len(epochs_)) \/ Holds(current_epoch.ops, x)
      BY <1>0, <1>5 DEF CloseTail, OrderInv, CutInv, Covered
    <2> QED BY <1>0, <1>5, <2>1, <2>2, CloseOrder DEF CloseTail, drawVars
  <1>6. CASE InitDone
    BY <1>6, CutKept DEF InitDone, OrderInv, initVars, drawVars, EpochsPlaced,
                         BarrierOrder, PlacedBefore, Barriers, Positions
  <1> QED BY <1>1, <1>2, <1>3, <1>4, <1>5, <1>6 DEF InitDataVector
\* Placing operations of epoch i + 1 behind the epochs before it keeps every
\* entry behind the barriers that precede it.
LEMMA PlaceOrder ==
    ASSUME TypeInv, OrderInv, pc = "fill", i < num_epochs,
           UNCHANGED data,
           NEW t \in Seq(EpochOp), crash_state' = crash_state \o t,
           \A p \in 1..Len(t) : \E q \in 1..Len(epochs_[i + 1].ops) :
                                   t[p] = epochs_[i + 1].ops[q]
    PROVE  /\ BarrierOrder'
           /\ \A x : PlacedBefore(x, Len(crash_state))
                        => PlacedBefore(x, Len(crash_state))'
  <1>1. /\ crash_state \in Seq(EpochOp) /\ i \in Nat /\ num_epochs \in 1..Len(epochs_)
        /\ Len(epochs_) \in Nat
    BY DEF TypeInv, TypeOK, DrawInRange
  <1>2. /\ Len(crash_state) \in Nat /\ Len(t) \in Nat
        /\ Len(crash_state') = Len(crash_state) + Len(t)
        /\ \A p \in 1..Len(crash_state) : crash_state'[p] = crash_state[p]
        /\ \A p \in (Len(crash_state) + 1)..(Len(crash_state) + Len(t)) :
              crash_state'[p] = t[p - Len(crash_state)]
    BY <1>1
  <1>3. Barriers' = Barriers
    BY DEF Barriers, Positions
  <1>4. ASSUME NEW n \in 0..Len(crash_state), NEW x, PlacedBefore(x, n)
        PROVE  \A m \in n..Len(crash_state') : PlacedBefore(x, m)'
    BY <1>2, <1>4 DEF PlacedBefore
  <1>5. \A x : PlacedBefore(x, Len(crash_state))
                 => PlacedBefore(x, Len(crash_state))'
    BY <1>2 DEF PlacedBefore
  <1>6. BarrierOrder'
    <2> SUFFICES ASSUME NEW p \in 1..Len(crash_state'), NEW b \in Barriers,
                        b < crash_state'[p].abs_index, NEW x \in 0..b
                 PROVE  PlacedBefore(x, p - 1)'
      BY <1>3 DEF BarrierOrder
    <2>1. CASE p \in 1..Len(crash_state)
      <3>1. PlacedBefore(x, p - 1)
        BY <1>2, <2>1 DEF OrderInv, BarrierOrder
      <3>2. p - 1 \in 0..Len(crash_state) /\ p - 1 \in (p - 1)..Len(crash_state')
        BY <1>2, <2>1
      <3> QED BY <1>4, <3>1, <3>2
    <2>2. CASE p \in (Len(crash_state) + 1)..(Len(crash_state) + Len(t))
      <3>1. p - Len(crash_state) \in 1..Len(t)
        BY <1>2, <2>2
      <3>2. PICK q \in 1..Len(epochs_[i + 1].ops) :
              crash_state'[p] = epochs_[i + 1].ops[q]
        BY <1>2, <2>2, <3>1
      <3>3. i + 1 \in 1..Len(epochs_) /\ (i + 1) - 1 = i
        BY <1>1
      <3>4. InEpochs(x, i)
        BY <3>2, <3>3 DEF OrderInv, CutInv, EpochsOrdered
      <3>5. PICK k \in 1..i : Holds(epochs_[k].ops, x)
        BY <3>4 DEF InEpochs
      <3>6. k < num_epochs /\ x \in Nat
        BY <1>1
      <3>7. PlacedBefore(x, Len(crash_state))
        BY <3>5, <3>6 DEF OrderInv, EpochsPlaced
      <3>8. p - 1 \in Len(crash_state)..Len(crash_state')
        BY <1>2, <2>2
      <3>9. Len(crash_state) \in 0..Len(crash_state)
        BY <1>2
      <3> QED BY <1>4, <3>7, <3>8, <3>9
    <2> QED BY <1>2, <2>1, <2>2
  <1> QED BY <1>5, <1>6

\* Where the entries of an appended sequence stand.
LEMMA ConcatAt ==
    ASSUME NEW s \in Seq(EpochOp), NEW t \in Seq(EpochOp), NEW q \in 1..Len(t)
    PROVE  Len(s) + q \in 1..Len(s \o t) /\ (s \o t)[Len(s) + q] = t[q]
  OBVIOUS

\* Every step of GenerateCrashState and of its caller keeps OrderInv.
LEMMA GenerateOrder == TypeInv /\ OrderInv /\ GenerateCrashState => OrderInv'
  <1> SUFFICES ASSUME TypeInv, OrderInv, GenerateCrashState PROVE OrderInv'
    OBVIOUS
  <1>0. /\ i \in Nat /\ num_epochs \in Nat /\ crash_state \in Seq(EpochOp)
        /\ epochs_ \in Seq(Epoch)
    BY DEF TypeInv, TypeOK
  <1>1. ASSUME UNCHANGED initVars, pc # "ops", pc' \notin {"ops", "fill"},
               UNCHANGED crash_state
        PROVE  OrderInv'
    BY <1>1, CutKept DEF OrderInv, EpochsPlaced, BarrierOrder, PlacedBefore
  <1>2. CASE Call \/ LastRound \/ DrawNothing \/ Retry \/ ReturnNew \/ GiveUp
    BY <1>1, <1>2 DEF Call, LastRound, DrawNothing, Retry, ReturnNew, GiveUp, drawVars
  <1>3. CASE DrawLength
    <2>1. UNCHANGED initVars /\ pc = "draw" /\ pc' = "fill"
          /\ i' = 0 /\ crash_state' = <<>>
      BY <1>3 DEF DrawLength
    <2>2. CutInv'
      BY <2>1, CutKept DEF OrderInv
    <2>3. EpochsPlaced' /\ BarrierOrder'
      BY <2>1 DEF EpochsPlaced, BarrierOrder
    <2> QED BY <2>2, <2>3 DEF OrderInv
  <1>4. CASE CopyEpoch
    <2> DEFINE t == epochs_[i + 1].ops
    <2>1. /\ UNCHANGED initVars /\ pc = "fill" /\ pc' = "fill" /\ i < num_epochs
          /\ i' = i + 1 /\ crash_state' = crash_state \o t
          /\ UNCHANGED <<data, epochs_, num_epochs>>
      BY <1>4 DEF CopyEpoch, initVars
    <2>2. i + 1 \in 1..Len(epochs_)
      BY <1>0, <2>1 DEF TypeInv, DrawInRange
    <2>3. t \in Seq(EpochOp)
      BY <1>0, <2>2, EpochFields
    <2>4. CutInv'
      BY <2>1, CutKept DEF OrderInv
    <2>5. /\ BarrierOrder'
          /\ \A x : PlacedBefore(x, Len(crash_state))
                       => PlacedBefore(x, Len(crash_state))'
      <3>1. \A p \in 1..Len(t) : \E q \in 1..Len(epochs_[i + 1].ops) :
                                    t[p] = epochs_[i + 1].ops[q]
        OBVIOUS
      <3> HIDE DEF t
      <3> QED BY <2>1, <2>3, <3>1, PlaceOrder
    <2>6. EpochsPlaced'
      <3> SUFFICES ASSUME NEW k \in 1..(i + 1), k < num_epochs,
                          NEW x \in Nat, Holds(epochs_[k].ops, x)
                   PROVE  PlacedBefore(x, Len(crash_state))'
        BY <2>1 DEF EpochsPlaced, Holds
      <3>1. CASE k \in 1..i
        BY <2>1, <2>5, <3>1 DEF OrderInv, EpochsPlaced
      <3>2. CASE k = i + 1
        <4>1. PICK q \in 1..Len(t) : t[q].abs_index = x
          BY <3>2 DEF Holds
        <4>2. /\ Len(crash_state) + q \in 1..Len(crash_state')
              /\ crash_state'[Len(crash_state) + q] = t[q]
          <5> HIDE DEF t
          <5> QED BY <1>0, <2>1, <2>3, ConcatAt
        <4>3. \E r \in 1..Len(crash_state') : crash_state'[r].abs_index = x
          BY <4>1, <4>2
        <4> QED BY <4>3 DEF PlacedBefore
      <3> QED BY <1>0, <3>1, <3>2
    <2> QED BY <2>4, <2>5, <2>6 DEF OrderInv
  <1>5. CASE PermuteEpoch
    <2> DEFINE e == epochs_[i + 1]
               size == IF IsLast THEN num_requests ELSE Len(e.ops)
               t(f) == [p \in 1..size |-> e.ops[f[p]]]
    <2>1. /\ UNCHANGED initVars /\ pc = "fill" /\ pc' = "fill" /\ i < num_epochs
          /\ i' = i + 1 /\ UNCHANGED <<data, epochs_, num_epochs>>
      BY <1>5 DEF PermuteEpoch, initVars
    <2>2. PICK f \in permute_epoch(e, size) : crash_state' = crash_state \o t(f)
      BY <1>5 DEF PermuteEpoch
    <2>3. i + 1 \in 1..Len(epochs_)
      BY <1>0, <2>1 DEF TypeInv, DrawInRange
    <2>4. e.ops \in Seq(EpochOp) /\ size \in Nat
      <3>1. e \in Epoch
        BY <1>0, <2>3
      <3> QED BY <3>1, EpochFields DEF TypeInv, TypeOK
    <2>5. i = num_epochs - 1
      BY <1>5, <2>3 DEF PermuteEpoch, TypeInv, NoOverlap, IsLast
    <2>6. f \in [1..size -> 1..Len(e.ops)]
      BY DEF permute_epoch
    <2>7. /\ t(f) \in Seq(EpochOp)
          /\ \A p \in 1..Len(t(f)) : \E q \in 1..Len(epochs_[i + 1].ops) :
                                        t(f)[p] = epochs_[i + 1].ops[q]
      <3> HIDE DEF size
      <3>1. t(f) \in Seq(EpochOp) /\ Len(t(f)) = size
        BY <2>4, <2>6
      <3> QED BY <2>6, <3>1
    <2>8. CutInv'
      BY <2>1, CutKept DEF OrderInv
    <2>9. /\ BarrierOrder'
          /\ \A x : PlacedBefore(x, Len(crash_state))
                       => PlacedBefore(x, Len(crash_state))'
      <3> HIDE DEF t
      <3> QED BY <2>1, <2>2, <2>7, PlaceOrder
    <2>10. EpochsPlaced'
      <3> SUFFICES ASSUME NEW k \in 1..(i + 1), k < num_epochs,
                          NEW x \in Nat, Holds(epochs_[k].ops, x)
                   PROVE  PlacedBefore(x, Len(crash_state))'
        BY <2>1 DEF EpochsPlaced, Holds
      <3>1. k \in 1..i
        BY <1>0, <2>5
      <3> QED BY <2>1, <2>9, <3>1 DEF OrderInv, EpochsPlaced
    <2> QED BY <2>8, <2>9, <2>10 DEF OrderInv
  <1> QED BY <1>2, <1>3, <1>4, <1>5 DEF GenerateCrashState

\* The inductive invariant behind BarrierOrder.
LEMMA OrderInvNext == TypeInv /\ OrderInv /\ [Next]_vars => OrderInv'
  <1>1. TypeInv /\ OrderInv /\ UNCHANGED vars => OrderInv'
    BY DEF OrderInv, CutInv, Covered, BarriersClosed, CurrentPast, EpochsOrdered,
           EpochsPlaced, BarrierOrder, InEpochs, Holds, PlacedBefore, Barriers,
           Positions, vars, initVars, drawVars
  <1> QED BY <1>1, InitDataVectorOrder, GenerateOrder DEF Next, Finished

\* No crash state the generator ever draws, complete or still being filled, lets
\* an operation overtake a barrier logged before it: for every log, whatever its
\* flags, and every random choice.
THEOREM BarrierOrderHolds == Spec => []BarrierOrder
  <1>1. OrderInv => BarrierOrder
    BY DEF OrderInv
  <1> QED BY <1>1, InitType, InitOrder, TypeInvNext, OrderInvNext, PTL DEF Spec

-----------------------------------------------------------------------------
(***************************************************************************)
(* What InitDataVector makes of a log and what a draw takes from it.       *)
(***************************************************************************)

(***************************************************************************)
(* What the epochs are made of.  Positions increase along an epoch         *)
(* (EpochShape); a data half that is owed comes from a flush already       *)
(* passed (OwedOrigin); an entry that stands for a barrier is the last of  *)
(* its epoch, with everything logged before it in front of it, or comes    *)
(* after the epoch of that barrier (BarrierEntries).                       *)
(***************************************************************************)
Increasing(ops) ==
    \A p, q \in 1..Len(ops) : p < q => ops[p].abs_index < ops[q].abs_index

EpochShape ==
    /\ \A k \in 1..Len(epochs_) : epochs_[k].ops # <<>> /\ Increasing(epochs_[k].ops)
    /\ pc = "ops" => /\ Increasing(current_epoch.ops)
                     /\ current_epoch.ops = <<>> => index < Len(data)
                     /\ prev_epoch_flush_op => current_epoch.ops = <<>>

OwedOrigin ==
    prev_epoch_flush_op => \E b \in Barriers :
        b < index /\ IsSplit(data[b + 1]) /\ data_half = DataHalf(data[b + 1])

BarrierEntry(ops, has_barrier, n, p, b) ==
    \/ \A x \in 0..b : InEpochs(x, n)
    \/ /\ p = Len(ops)
       /\ has_barrier \/ IsSplit(data[b + 1])
       /\ \A x \in 0..(b - 1) : \/ InEpochs(x, n)
                                \/ \E q \in 1..(p - 1) : ops[q].abs_index = x

BarrierEntries ==
    \A k \in 1..Len(epochs_) : \A p \in 1..Len(epochs_[k].ops) : \A b \in Barriers :
        epochs_[k].ops[p].abs_index = b =>
            BarrierEntry(epochs_[k].ops, epochs_[k].has_barrier, k - 1, p, b)

EpochInv == EpochShape /\ OwedOrigin /\ BarrierEntries

\* The operations of an epoch, and their positions.
LEMMA OpsType ==
    ASSUME NEW s \in Seq(EpochOp)
    PROVE  /\ Len(s) \in Nat
           /\ \A p \in 1..Len(s) : s[p] \in EpochOp /\ s[p].abs_index \in Nat
                                   /\ s[p].op \in DiskWrites
  <1>1. Len(s) \in Nat /\ \A p \in 1..Len(s) : s[p] \in EpochOp
    OBVIOUS
  <1> QED BY <1>1 DEF EpochOp

\* Adding an operation behind all that an epoch has keeps it increasing.
LEMMA AppendIncreasing ==
    ASSUME NEW s \in Seq(EpochOp), Increasing(s), NEW o \in EpochOp,
           \A p \in 1..Len(s) : s[p].abs_index < o.abs_index
    PROVE  Increasing(Append(s, o)) /\ Append(s, o) # <<>>
  <1> DEFINE u == Append(s, o)
  <1>1. /\ Len(u) = Len(s) + 1 /\ Len(s) \in Nat /\ u[Len(s) + 1] = o
        /\ \A p \in 1..Len(s) : u[p] = s[p]
    OBVIOUS
  <1>2. u # <<>>
    BY <1>1
  <1> HIDE DEF u
  <1>3. Increasing(u)
    BY <1>1 DEF Increasing
  <1> QED BY <1>2, <1>3 DEF u

\* The halves and operations added in one turn of the loop stand in order.
LEMMA AddOpShape == TypeInv /\ OrderInv /\ EpochInv /\ AddOp => EpochShape'
  <1> SUFFICES ASSUME TypeInv, OrderInv, EpochInv, AddOp PROVE EpochShape'
    OBVIOUS
  <1> DEFINE c == current_epoch.ops
             op == [abs_index |-> index, op |-> curr]
  <1>1. /\ index \in Nat /\ Len(data) \in Nat /\ index < Len(data)
        /\ current_epoch \in Epoch /\ c \in Seq(EpochOp) /\ curr \in DiskWrites
        /\ pc = "ops" /\ epochs_' = epochs_ /\ prev_epoch_flush_op' = FALSE
    BY EpochFields DEF AddOp, TypeInv, TypeOK, curr
  <1>2. op \in EpochOp /\ op.abs_index = index
    BY <1>1, EpochOpType
  <1>3. current_epoch'.ops = c \o OwedHalf \o <<op>>
    BY <1>1 DEF AddOp, Epoch
  <1>4. Increasing(c) /\ \A p \in 1..Len(c) : c[p].abs_index < index
    BY <1>1 DEF EpochInv, EpochShape, OrderInv, CutInv, CurrentPast
  <1> DEFINE t == c \o OwedHalf
  <1>5. /\ t \in Seq(EpochOp) /\ Increasing(t)
        /\ \A p \in 1..Len(t) : t[p].abs_index < index
    <2>1. CASE prev_epoch_flush_op
      <3> DEFINE half == [abs_index |-> index - 1, op |-> data_half]
      <3>1. c = <<>> /\ OwedHalf = <<half>>
        BY <1>1, <2>1 DEF EpochInv, EpochShape, OwedHalf
      <3>2. half \in EpochOp /\ half.abs_index = index - 1
        <4>1. index - 1 \in Nat /\ data_half \in DiskWrites
          BY <1>1, <2>1 DEF TypeInv, TypeOK, OwedIsPast
        <4> QED BY <4>1, EpochOpType
      <3> HIDE DEF half
      <3>3. t \in Seq(EpochOp) /\ Len(t) = 1 /\ t[1] = half
        BY <3>1, <3>2
      <3> HIDE DEF t
      <3> QED BY <1>1, <3>2, <3>3 DEF Increasing
    <2>2. CASE ~prev_epoch_flush_op
      <3>1. t = c
        BY <1>1, <2>2 DEF OwedHalf
      <3> QED BY <1>1, <1>4, <3>1
    <2> QED BY <2>1, <2>2
  <1>6. Increasing(current_epoch'.ops) /\ current_epoch'.ops # <<>>
    <2> HIDE DEF op
    <2>1. current_epoch'.ops = Append(t, op)
      BY <1>2, <1>3, <1>5
    <2> HIDE DEF t
    <2> QED BY <1>2, <1>5, <2>1, AppendIncreasing
  <1> QED BY <1>1, <1>6 DEF EpochInv, EpochShape

\* Storing an epoch keeps EpochInv if the epoch itself is as it says.
LEMMA CloseEpochs ==
    ASSUME TypeInv, OrderInv, EpochInv, pc' = "epoch", UNCHANGED data,
           NEW e \in Epoch, epochs_' = Append(epochs_, e),
           e.ops # <<>>, Increasing(e.ops),
           \A p \in 1..Len(e.ops) : \A b \in Barriers :
              e.ops[p].abs_index = b =>
                 BarrierEntry(e.ops, e.has_barrier, Len(epochs_), p, b),
           OwedOrigin'
    PROVE  EpochInv'
  <1>1. epochs_ \in Seq(Epoch) /\ Len(epochs_) \in Nat
    BY DEF TypeInv, TypeOK
  <1>2. Barriers' = Barriers
    BY DEF Barriers, Positions
  <1>3. EpochShape'
    BY <1>1, StoreEpoch DEF EpochInv, EpochShape
  <1>4. BarrierEntries'
    <2> SUFFICES ASSUME NEW k \in 1..(Len(epochs_) + 1),
                        NEW p \in 1..Len(epochs_'[k].ops), NEW b \in Barriers,
                        epochs_'[k].ops[p].abs_index = b
                 PROVE  BarrierEntry(epochs_[k].ops, epochs_[k].has_barrier,
                                     k - 1, p, b)'
      BY <1>1, <1>2, StoreEpoch DEF BarrierEntries
    <2>1. k - 1 \in 0..Len(epochs_) /\ \A x : InEpochs(x, k - 1)' <=> InEpochs(x, k - 1)
      BY <1>1, StoreEpoch
    <2>2. CASE k \in 1..Len(epochs_)
      <3>1. epochs_'[k] = epochs_[k]
        BY <1>1, <2>2, StoreEpoch
      <3>2. BarrierEntry(epochs_[k].ops, epochs_[k].has_barrier, k - 1, p, b)
        BY <2>2, <3>1 DEF EpochInv, BarrierEntries
      <3> QED BY <2>1, <3>1, <3>2 DEF BarrierEntry
    <2>3. CASE k = Len(epochs_) + 1
      <3>1. epochs_'[k] = e /\ k - 1 = Len(epochs_)
        BY <1>1, <2>3, StoreEpoch
      <3>2. BarrierEntry(e.ops, e.has_barrier, k - 1, p, b)
        BY <3>1
      <3> QED BY <2>1, <3>1, <3>2 DEF BarrierEntry
    <2> QED BY <1>1, <2>2, <2>3
  <1> QED BY <1>3, <1>4 DEF EpochInv

\* An entry of the epoch being filled that stands for a barrier comes after the
\* epoch of that barrier.
LEMMA CurrentBarriers ==
    ASSUME TypeInv, OrderInv, pc = "ops", NEW p \in 1..Len(current_epoch.ops),
           NEW b \in Barriers, current_epoch.ops[p].abs_index = b
    PROVE  \A x \in 0..b : InEpochs(x, Len(epochs_))
  BY DEF OrderInv, CutInv, CurrentPast, BarriersClosed

\* Closing an epoch with the barrier at the cursor.
LEMMA BarrierEpoch ==
    ASSUME TypeInv, OrderInv, EpochInv, pc = "ops", pc' = "epoch", UNCHANGED data,
           NEW w \in DiskWrites, NEW e \in Epoch, epochs_' = Append(epochs_, e),
           e.ops = Append(current_epoch.ops, [abs_index |-> index, op |-> w]),
           e.has_barrier \/ IsSplit(curr),
           OwedOrigin'
    PROVE  EpochInv'
  <1> DEFINE c == current_epoch.ops
             op == [abs_index |-> index, op |-> w]
  <1>1. /\ index \in Nat /\ current_epoch \in Epoch /\ c \in Seq(EpochOp)
        /\ Len(c) \in Nat
    BY EpochFields DEF TypeInv, TypeOK
  <1>2. op \in EpochOp /\ op.abs_index = index
    BY <1>1, EpochOpType
  <1>3. Increasing(c) /\ \A p \in 1..Len(c) : c[p].abs_index < index
    BY <1>1 DEF EpochInv, EpochShape, OrderInv, CutInv, CurrentPast
  <1> HIDE DEF op
  <1>4. /\ e.ops = Append(c, op) /\ Len(e.ops) = Len(c) + 1
        /\ e.ops[Len(c) + 1] = op /\ \A p \in 1..Len(c) : e.ops[p] = c[p]
    BY <1>1, <1>2 DEF op
  <1>5. Increasing(e.ops) /\ e.ops # <<>>
    <2> HIDE DEF c
    <2> QED BY <1>1, <1>2, <1>3, <1>4, AppendIncreasing
  <1>6. ASSUME NEW p \in 1..Len(e.ops), NEW b \in Barriers, e.ops[p].abs_index = b
        PROVE  BarrierEntry(e.ops, e.has_barrier, Len(epochs_), p, b)
    <2>1. CASE p \in 1..Len(c)
      BY <1>4, <1>6, <2>1, CurrentBarriers DEF BarrierEntry
    <2>2. CASE p = Len(c) + 1
      <3>1. b = index /\ p = Len(e.ops) /\ p - 1 = Len(c)
        BY <1>1, <1>2, <1>4, <1>6, <2>2
      <3>2. ASSUME NEW x \in 0..(index - 1)
            PROVE  \/ InEpochs(x, Len(epochs_))
                   \/ \E q \in 1..Len(c) : e.ops[q].abs_index = x
        <4>1. InEpochs(x, Len(epochs_)) \/ Holds(c, x)
          BY DEF OrderInv, CutInv, Covered
        <4> QED BY <1>4, <4>1 DEF Holds
      <3>3. IsSplit(curr) = IsSplit(data[b + 1])
        BY <3>1 DEF curr
      <3> QED BY <3>1, <3>2, <3>3 DEF BarrierEntry
    <2> QED BY <1>1, <1>4, <2>1, <2>2
  <1> QED BY <1>5, <1>6, CloseEpochs

\* EpochInv holds before the first operation is read.
LEMMA InitEpochs == Init => EpochInv
  BY DEF Init, EpochInv, EpochShape, OwedOrigin, BarrierEntries

\* Only storing an epoch can disturb BarrierEntries.
LEMMA BarrierEntriesKept ==
    ASSUME BarrierEntries, UNCHANGED <<data, epochs_>>
    PROVE  BarrierEntries'
  <1>1. Barriers' = Barriers
    BY DEF Barriers, Positions
  <1>2. \A x, n : InEpochs(x, n)' <=> InEpochs(x, n)
    BY DEF InEpochs
  <1> SUFFICES ASSUME NEW k \in 1..Len(epochs_), NEW p \in 1..Len(epochs_[k].ops),
                      NEW b \in Barriers, epochs_[k].ops[p].abs_index = b
               PROVE  BarrierEntry(epochs_[k].ops, epochs_[k].has_barrier, k - 1, p, b)'
    BY <1>1 DEF BarrierEntries
  <1>3. BarrierEntry(epochs_[k].ops, epochs_[k].has_barrier, k - 1, p, b)
    BY DEF BarrierEntries
  <1> QED BY <1>2, <1>3 DEF BarrierEntry

\* Once the log is cut, the epochs stay as they are.
LEMMA EpochsKept ==
    ASSUME EpochInv, UNCHANGED initVars, pc' = pc \/ pc' # "ops"
    PROVE  EpochInv'
  <1>1. UNCHANGED <<data, epochs_, index, current_epoch, prev_epoch_flush_op, data_half>>
    BY DEF initVars
  <1>2. Barriers' = Barriers
    BY <1>1 DEF Barriers, Positions
  <1>3. EpochShape'
    BY <1>1 DEF EpochInv, EpochShape
  <1>4. OwedOrigin'
    BY <1>1, <1>2 DEF EpochInv, OwedOrigin
  <1>5. BarrierEntries'
    BY <1>1, BarrierEntriesKept DEF EpochInv
  <1> QED BY <1>3, <1>4, <1>5 DEF EpochInv

\* Every step of InitDataVector keeps EpochInv.
LEMMA InitDataVectorEpochs == TypeInv /\ OrderInv /\ EpochInv /\ InitDataVector => EpochInv'
  <1> SUFFICES ASSUME TypeInv, OrderInv, EpochInv, InitDataVector PROVE EpochInv'
    OBVIOUS
  <1>0. /\ index \in Nat /\ Len(data) \in Nat /\ current_epoch \in Epoch
        /\ current_epoch.ops \in Seq(EpochOp) /\ epochs_ \in Seq(Epoch)
        /\ index <= Len(data)
    BY EpochFields DEF TypeInv, TypeOK
  <1>1. CASE EpochStart
    <2>1. UNCHANGED <<data, epochs_, index, prev_epoch_flush_op, data_half>>
          /\ current_epoch'.ops = <<>> /\ index < Len(data)
      BY <1>1 DEF EpochStart, NewEpoch
    <2>2. Barriers' = Barriers
      BY <2>1 DEF Barriers, Positions
    <2>3. EpochShape'
      BY <2>1 DEF EpochInv, EpochShape, Increasing
    <2>4. OwedOrigin'
      BY <2>1, <2>2 DEF EpochInv, OwedOrigin
    <2>5. BarrierEntries'
      BY <2>1, BarrierEntriesKept DEF EpochInv
    <2> QED BY <2>3, <2>4, <2>5 DEF EpochInv
  <1>2. CASE AddOp
    <2>1. UNCHANGED <<data, epochs_>> /\ prev_epoch_flush_op' = FALSE
      BY <1>2 DEF AddOp
    <2>2. Barriers' = Barriers
      BY <2>1 DEF Barriers, Positions
    <2>3. BarrierEntries'
      BY <2>1, BarrierEntriesKept DEF EpochInv
    <2>4. OwedOrigin'
      BY <2>1 DEF OwedOrigin
    <2> QED BY <1>2, <2>3, <2>4, AddOpShape DEF EpochInv
  <1>3. CASE CloseSplit
    <2> DEFINE s(g) == Append(current_epoch.ops,
                              [abs_index |-> index, op |-> FlagHalf(curr, g)])
    <2>1. PICK g \in Garbage :
            epochs_' = Append(epochs_, [current_epoch EXCEPT !.ops = s(g)])
      BY <1>3, Zenon DEF CloseSplit
    <2>2. curr \in DiskWrites /\ FlagHalf(curr, g) \in DiskWrites
      BY <1>0, <1>3, HalvesType, PermuterAssumption
      DEF CloseSplit, AtBarrier, TypeInv, TypeOK, curr
    <2>3. s(g) \in Seq(EpochOp)
      BY <1>0, <2>2, EpochOpType
    <2> DEFINE e == [current_epoch EXCEPT !.ops = s(g)]
    <2>4. e \in Epoch /\ e.ops = s(g)
      <3> HIDE DEF s
      <3> QED BY <1>0, <2>3, OpsUpdate, Zenon
    <2> HIDE DEF e
    <2>5. epochs_' = Append(epochs_, e)
      BY <2>1 DEF e
    <2>6. OwedOrigin'
      <3>1. /\ index' = index + 1 /\ UNCHANGED data /\ data_half' = DataHalf(curr)
            /\ is_barrier_write(curr) /\ IsSplit(curr) /\ index < Len(data)
        BY <1>3 DEF CloseSplit, AtBarrier
      <3>2. index \in Barriers
        BY <1>0, <3>1 DEF Barriers, Positions, curr
      <3>3. Barriers' = Barriers
        BY <3>1 DEF Barriers, Positions
      <3> QED BY <1>0, <3>1, <3>2, <3>3 DEF OwedOrigin, curr
    <2> QED BY <1>3, <2>2, <2>4, <2>5, <2>6, BarrierEpoch DEF CloseSplit
  <1>4. CASE CloseBarrier
    <2> DEFINE s == Append(current_epoch.ops, [abs_index |-> index, op |-> curr])
               e == [current_epoch EXCEPT !.ops = s, !.has_barrier = TRUE]
    <2>1. curr \in DiskWrites
      BY <1>0, <1>4 DEF CloseBarrier, AtBarrier, TypeInv, TypeOK, curr
    <2>2. s \in Seq(EpochOp)
      BY <1>0, <2>1, EpochOpType
    <2>3. epochs_' = Append(epochs_, e)
      BY <1>4, Zenon DEF CloseBarrier
    <2>4. e \in Epoch /\ e.ops = s /\ e.has_barrier
      <3> HIDE DEF s
      <3>1. e \in Epoch /\ e.ops = s
        BY <1>0, <2>2, BarrierUpdate, Zenon
      <3> QED BY <1>0, <3>1 DEF Epoch
    <2> HIDE DEF e
    <2>5. OwedOrigin'
      <3>1. /\ index' = index + 1 /\ UNCHANGED <<data, data_half, prev_epoch_flush_op>>
        BY <1>4 DEF CloseBarrier
      <3>2. Barriers' = Barriers /\ \A b \in Barriers : b \in Nat
        BY <3>1 DEF Barriers, Positions
      <3> QED BY <1>0, <3>1, <3>2 DEF EpochInv, OwedOrigin
    <2> QED BY <1>4, <2>1, <2>3, <2>4, <2>5, BarrierEpoch DEF CloseBarrier
  <1>5. CASE CloseTail
    <2>1. /\ UNCHANGED <<data, index, data_half, prev_epoch_flush_op>>
          /\ pc = "ops" /\ pc' = "epoch" /\ index >= Len(data)
          /\ epochs_' = Append(epochs_, current_epoch)
      BY <1>5 DEF CloseTail
    <2>2. Barriers' = Barriers
      BY <2>1 DEF Barriers, Positions
    <2>3. OwedOrigin'
      BY <2>1, <2>2 DEF EpochInv, OwedOrigin
    <2>4. current_epoch.ops # <<>> /\ Increasing(current_epoch.ops)
      BY <1>0, <2>1 DEF EpochInv, EpochShape
    <2>5. ASSUME NEW p \in 1..Len(current_epoch.ops), NEW b \in Barriers,
                 current_epoch.ops[p].abs_index = b
          PROVE  BarrierEntry(current_epoch.ops, current_epoch.has_barrier,
                              Len(epochs_), p, b)
      BY <2>1, <2>5, CurrentBarriers DEF BarrierEntry
    <2> QED BY <1>0, <2>1, <2>3, <2>4, <2>5, CloseEpochs
  <1>6. CASE InitDone
    BY <1>6, EpochsKept DEF InitDone
  <1> QED BY <1>1, <1>2, <1>3, <1>4, <1>5, <1>6 DEF InitDataVector

\* EpochInv is kept by every step.
LEMMA EpochInvNext == TypeInv /\ OrderInv /\ EpochInv /\ [Next]_vars => EpochInv'
  <1> SUFFICES ASSUME TypeInv, OrderInv, EpochInv, [Next]_vars PROVE EpochInv'
    OBVIOUS
  <1>1. CASE InitDataVector
    BY <1>1, InitDataVectorEpochs
  <1>2. CASE GenerateCrashState
    <2>1. UNCHANGED initVars /\ pc' # "ops"
      BY <1>2 DEF GenerateCrashState, Call, LastRound, DrawLength, DrawNothing,
                  CopyEpoch, PermuteEpoch, Retry, ReturnNew, GiveUp
    <2> QED BY <2>1, EpochsKept
  <1>3. CASE UNCHANGED vars
    BY <1>3, EpochsKept DEF vars
  <1> QED BY <1>1, <1>2, <1>3 DEF Next, Finished

-----------------------------------------------------------------------------
\* An injective choice of n places out of n leaves none out.
LEMMA Pigeonhole ==
    ASSUME NEW n \in Nat, NEW f \in [1..n -> 1..n],
           \A p, q \in 1..n : f[p] = f[q] => p = q
    PROVE  \A y \in 1..n : \E p \in 1..n : f[p] = y
  <1>1. f \in Injection(1..n, 1..n)
    BY DEF Injection, IsInjective
  <1>2. IsFiniteSet(1..n)
    BY FS_Interval
  <1>3. f \in Surjection(1..n, 1..n)
    BY <1>1, <1>2, FS_Injection
  <1> QED BY <1>3 DEF Surjection

\* What the visited epochs hold is placed.
LEMMA EarlierPlaced ==
    ASSUME TypeInv, OrderInv, pc = "fill", i < num_epochs, NEW x \in Nat,
           InEpochs(x, i)
    PROVE  PlacedBefore(x, Len(crash_state))
  <1>1. i \in Nat /\ num_epochs \in Nat
    BY DEF TypeInv, TypeOK
  <1>2. PICK k \in 1..i : Holds(epochs_[k].ops, x)
    BY DEF InEpochs
  <1>3. k < num_epochs
    BY <1>1
  <1> QED BY <1>2, <1>3 DEF OrderInv, EpochsPlaced

\* What is placed stays placed when more is appended.
LEMMA PlacedKept ==
    ASSUME crash_state \in Seq(EpochOp), NEW t \in Seq(EpochOp),
           crash_state' = crash_state \o t,
           NEW n \in 0..Len(crash_state), NEW x, PlacedBefore(x, n)
    PROVE  \A m \in n..Len(crash_state') : PlacedBefore(x, m)'
  <1>1. /\ Len(crash_state) \in Nat /\ Len(crash_state') \in Nat
        /\ \A p \in 1..Len(crash_state) : crash_state'[p] = crash_state[p]
    OBVIOUS
  <1> QED BY <1>1 DEF PlacedBefore

\* t takes its entries from different places of the epoch e, and the barrier of
\* a marked epoch only behind all its other operations.
DrawnFrom(t, e) ==
    \E g \in [1..Len(t) -> 1..Len(e.ops)] :
        /\ \A p, q \in 1..Len(t) : g[p] = g[q] => p = q
        /\ \A p \in 1..Len(t) :
             /\ t[p] = e.ops[g[p]]
             /\ e.has_barrier /\ g[p] = Len(e.ops) =>
                   \A y \in 1..(Len(e.ops) - 1) : \E q \in 1..(p - 1) : g[q] = y

\* Placing operations drawn from epoch i + 1 keeps ForcedWriteLast.
LEMMA PlaceForced ==
    ASSUME TypeInv, OrderInv, EpochInv, ForcedWriteLast, pc = "fill",
           i < num_epochs, UNCHANGED data,
           NEW t \in Seq(EpochOp), crash_state' = crash_state \o t,
           DrawnFrom(t, epochs_[i + 1])
    PROVE  ForcedWriteLast'
  <1> DEFINE e == epochs_[i + 1]
             n == Len(e.ops)
             l == Len(crash_state)
  <1>9. PICK g \in [1..Len(t) -> 1..n] : \A p \in 1..Len(t) :
           /\ t[p] = e.ops[g[p]]
           /\ e.has_barrier /\ g[p] = n =>
                 \A y \in 1..(n - 1) : \E q \in 1..(p - 1) : g[q] = y
    BY DEF DrawnFrom
  <1>0. /\ crash_state \in Seq(EpochOp) /\ i \in Nat /\ num_epochs \in 1..Len(epochs_)
        /\ Len(epochs_) \in Nat /\ epochs_ \in Seq(Epoch)
    BY DEF TypeInv, TypeOK, DrawInRange
  <1>1. crash_state \in Seq(EpochOp) /\ i \in Nat /\ i + 1 \in 1..Len(epochs_)
        /\ epochs_ \in Seq(Epoch)
    BY <1>0
  <1>2. e.ops \in Seq(EpochOp) /\ n \in Nat
    BY <1>1, EpochFields
  <1>3. /\ l \in Nat /\ Len(t) \in Nat /\ Len(crash_state') = l + Len(t)
        /\ \A p \in 1..l : crash_state'[p] = crash_state[p]
        /\ \A p \in (l + 1)..(l + Len(t)) : crash_state'[p] = t[p - l]
    BY <1>1
  <1>4. Barriers' = Barriers /\ \A b \in Barriers : b \in Nat
    BY DEF Barriers, Positions
  <1> SUFFICES ASSUME NEW p \in 1..Len(crash_state'), NEW b \in Barriers,
                      ~IsSplit(data[b + 1]),
                      crash_state'[p] = [abs_index |-> b, op |-> data[b + 1]],
                      NEW x \in 0..(b - 1)
               PROVE  PlacedBefore(x, p - 1)'
    BY <1>4 DEF ForcedWriteLast
  <1>5. CASE p \in 1..l
    <2>1. PlacedBefore(x, p - 1)
      BY <1>3, <1>5 DEF ForcedWriteLast
    <2>2. p - 1 \in 0..l /\ p - 1 \in (p - 1)..Len(crash_state')
      BY <1>3, <1>5
    <2> QED BY <1>1, <2>1, <2>2, PlacedKept
  <1>6. CASE p \in (l + 1)..(l + Len(t))
    <2> DEFINE r == p - l
    <2>1. r \in 1..Len(t) /\ l + r = p
      BY <1>3, <1>6
    <2>2. e.ops[g[r]].abs_index = b /\ g[r] \in 1..n
      <3>1. crash_state'[p] = t[r] /\ t[r] = e.ops[g[r]]
        BY <1>9, <1>3, <1>6, <2>1
      <3>2. e.ops[g[r]] = [abs_index |-> b, op |-> data[b + 1]]
        BY <3>1
      <3>3. g[r] \in 1..n
        BY <2>1
      <3> HIDE DEF r
      <3> QED BY <3>2, <3>3
    <2>3. BarrierEntry(e.ops, e.has_barrier, i, g[r], b)
      <3>1. (i + 1) - 1 = i
        BY <1>1
      <3> QED BY <1>1, <2>2, <3>1 DEF EpochInv, BarrierEntries
    <2>4. l \in 0..l /\ p - 1 \in l..Len(crash_state') /\ x \in Nat /\ x \in 0..b
      BY <1>3, <1>4, <1>6
    <2>5. CASE InEpochs(x, i)
      <3>1. PlacedBefore(x, l)
        BY <2>4, <2>5, EarlierPlaced
      <3> QED BY <1>1, <2>4, <3>1, PlacedKept
    <2>6. CASE ~InEpochs(x, i)
      <3>1. /\ g[r] = n /\ e.has_barrier
            /\ \E y \in 1..(g[r] - 1) : e.ops[y].abs_index = x
        BY <2>3, <2>4, <2>6 DEF BarrierEntry
      <3>2. PICK y \in 1..(n - 1) : e.ops[y].abs_index = x
        BY <3>1
      <3>3. PICK q \in 1..(r - 1) : g[q] = y
        BY <1>9, <2>1, <3>1
      <3>4. q \in 1..Len(t) /\ l + q \in (l + 1)..(l + Len(t)) /\ (l + q) - l = q
        <4> HIDE DEF l, r
        <4> QED BY <1>3, <2>1
      <3>5. l + q \in 1..(p - 1) /\ t[q] = e.ops[y]
        <4>1. t[q] = e.ops[y]
          BY <1>9, <3>3, <3>4
        <4> HIDE DEF l, r
        <4> QED BY <1>3, <2>1, <4>1
      <3>6. crash_state'[l + q].abs_index = x
        BY <1>3, <3>2, <3>4, <3>5
      <3> QED BY <3>5, <3>6 DEF PlacedBefore
    <2> QED BY <2>5, <2>6
  <1> QED BY <1>3, <1>5, <1>6

\* Every draw of permute_epoch holds a marked barrier back until all else is
\* placed.
LEMMA BarrierHeldBack ==
    ASSUME NEW e \in Epoch, NEW size \in 0..Len(e.ops), NEW f \in permute_epoch(e, size),
           e.has_barrier, NEW p \in 1..size, f[p] = Len(e.ops)
    PROVE  \A y \in 1..(Len(e.ops) - 1) : \E q \in 1..(p - 1) : f[q] = y
  <1> DEFINE n == Len(e.ops)
  <1>1. n \in Nat
    BY EpochFields
  <1>2. /\ f \in [1..size -> 1..n] /\ IsInjective(f)
        /\ \A q \in 1..size : IF q <= n - 1 THEN f[q] <= n - 1 ELSE f[q] = n
    BY DEF permute_epoch
  <1> HIDE DEF n
  <1>3. p = n /\ size = n
    BY <1>1, <1>2 DEF n
  <1> DEFINE h == [q \in 1..(n - 1) |-> f[q]]
  <1>4. /\ h \in [1..(n - 1) -> 1..(n - 1)] /\ n - 1 \in Nat
        /\ \A q, r \in 1..(n - 1) : h[q] = h[r] => q = r
    <2>1. \A q \in 1..(n - 1) : q \in 1..size /\ f[q] \in 1..(n - 1)
      BY <1>1, <1>2, <1>3
    <2> QED BY <1>1, <1>2, <1>3, <2>1 DEF IsInjective
  <1>5. \A y \in 1..(n - 1) : \E q \in 1..(n - 1) : h[q] = y
    <2> HIDE DEF h
    <2> QED BY <1>4, Pigeonhole
  <1> QED BY <1>3, <1>5 DEF n

\* Each turn of the loop over the epochs places operations drawn from one of them.
LEMMA FillDraws ==
    ASSUME TypeInv, CopyEpoch \/ PermuteEpoch
    PROVE  /\ pc = "fill" /\ i < num_epochs /\ UNCHANGED data
           /\ \E t \in Seq(EpochOp) :
                /\ crash_state' = crash_state \o t /\ DrawnFrom(t, epochs_[i + 1])
                /\ IF IsLast THEN Len(t) = num_requests ELSE t = epochs_[i + 1].ops
  <1>0. /\ i \in Nat /\ num_epochs \in Nat /\ crash_state \in Seq(EpochOp)
        /\ epochs_ \in Seq(Epoch)
    BY DEF TypeInv, TypeOK
  <1>1. CASE CopyEpoch
    <2> DEFINE t == epochs_[i + 1].ops
               g == [p \in 1..Len(t) |-> p]
    <2>1. /\ pc = "fill" /\ i < num_epochs /\ crash_state' = crash_state \o t
          /\ UNCHANGED data /\ ~IsLast
      BY <1>1 DEF CopyEpoch, initVars
    <2>2. i + 1 \in 1..Len(epochs_)
      BY <1>0, <2>1 DEF TypeInv, DrawInRange
    <2>3. t \in Seq(EpochOp)
      BY <1>0, <2>2, EpochFields
    <2> HIDE DEF t
    <2>4. /\ g \in [1..Len(t) -> 1..Len(t)] /\ \A p \in 1..Len(t) : t[p] = t[g[p]]
          /\ \A p, q \in 1..Len(t) : g[p] = g[q] => p = q
          /\ \A p \in 1..Len(t) : g[p] = Len(t) =>
                \A y \in 1..(Len(t) - 1) : \E q \in 1..(p - 1) : g[q] = y
      <3>1. Len(t) \in Nat
        BY <2>3
      <3> QED BY <3>1
    <2> HIDE DEF g
    <2> DEFINE e == epochs_[i + 1]
    <2>5. e = epochs_[i + 1] /\ e.ops = t
      BY DEF t
    <2> HIDE DEF e
    <2>6. DrawnFrom(t, epochs_[i + 1])
      <3>1. /\ g \in [1..Len(t) -> 1..Len(e.ops)]
            /\ \A p, q \in 1..Len(t) : g[p] = g[q] => p = q
            /\ \A p \in 1..Len(t) :
              /\ t[p] = e.ops[g[p]]
              /\ e.has_barrier /\ g[p] = Len(e.ops) =>
                   \A y \in 1..(Len(e.ops) - 1) : \E q \in 1..(p - 1) : g[q] = y
        BY <2>4, <2>5
      <3>2. DrawnFrom(t, e)
        BY <3>1 DEF DrawnFrom
      <3> QED BY <2>5, <3>2
    <2> QED BY <2>1, <2>3, <2>5, <2>6
  <1>2. CASE PermuteEpoch
    <2> DEFINE e == epochs_[i + 1]
               t(f) == [p \in 1..num_requests |-> e.ops[f[p]]]
    <2>1. /\ pc = "fill" /\ i < num_epochs /\ UNCHANGED data
      BY <1>2 DEF PermuteEpoch, initVars
    <2>2. i + 1 \in 1..Len(epochs_)
      BY <1>0, <2>1, SMTT(30) DEF TypeInv, DrawInRange
    <2>3. i = num_epochs - 1 /\ IsLast
      BY <1>2, <2>2 DEF PermuteEpoch, TypeInv, NoOverlap, IsLast
    <2>4. e \in Epoch /\ e.ops \in Seq(EpochOp) /\ num_requests \in 0..Len(e.ops)
      <3>1. e \in Epoch
        BY <1>0, <2>2
      <3>2. i + 1 = num_epochs
        BY <1>0, <2>3
      <3> QED BY <2>1, <3>1, <3>2, EpochFields, SMTT(30) DEF TypeInv, TypeOK, DrawInRange
    <2>5. PICK f \in permute_epoch(e, num_requests) : crash_state' = crash_state \o t(f)
      BY <1>2, <2>3 DEF PermuteEpoch
    <2>6. /\ f \in [1..num_requests -> 1..Len(e.ops)]
          /\ \A p, q \in 1..num_requests : f[p] = f[q] => p = q
      BY DEF permute_epoch, IsInjective
    <2>7. t(f) \in Seq(EpochOp) /\ Len(t(f)) = num_requests
          /\ \A p \in 1..num_requests : t(f)[p] = e.ops[f[p]]
      BY <2>4, <2>6
    <2>8. \A p \in 1..num_requests : e.has_barrier /\ f[p] = Len(e.ops) =>
             \A y \in 1..(Len(e.ops) - 1) : \E q \in 1..(p - 1) : f[q] = y
      BY <2>4, BarrierHeldBack
    <2> DEFINE u == t(f)
    <2>9. /\ u \in Seq(EpochOp) /\ crash_state' = crash_state \o u /\ Len(u) = num_requests
          /\ f \in [1..Len(u) -> 1..Len(e.ops)]
          /\ \A p, q \in 1..Len(u) : f[p] = f[q] => p = q
          /\ \A p \in 1..Len(u) :
                /\ u[p] = e.ops[f[p]]
                /\ e.has_barrier /\ f[p] = Len(e.ops) =>
                     \A y \in 1..(Len(e.ops) - 1) : \E q \in 1..(p - 1) : f[q] = y
      BY <2>5, <2>6, <2>7, <2>8
    <2>10. e = epochs_[i + 1]
      OBVIOUS
    <2> HIDE DEF u, e
    <2>11. DrawnFrom(u, epochs_[i + 1])
      <3>1. DrawnFrom(u, e)
        BY <2>9, Zenon DEF DrawnFrom
      <3> QED BY <2>10, <3>1
    <2> QED BY <2>1, <2>3, <2>9, <2>11
  <1> QED BY <1>1, <1>2

\* Only these steps touch the crash state, and none touches the log.
LEMMA CrashStateSteps ==
    ASSUME [Next]_vars
    PROVE  /\ UNCHANGED data
           /\ \/ UNCHANGED crash_state
              \/ crash_state' = <<>>
              \/ CopyEpoch \/ PermuteEpoch
  <1>1. CASE InitDataVector
    BY <1>1 DEF InitDataVector, EpochStart, AddOp, CloseSplit, CloseBarrier,
                CloseTail, InitDone, initVars, drawVars
  <1>2. CASE Call \/ LastRound \/ DrawNothing \/ Retry \/ ReturnNew \/ GiveUp
    BY <1>2 DEF Call, LastRound, DrawNothing, Retry, ReturnNew, GiveUp,
                initVars, drawVars
  <1>3. CASE CopyEpoch \/ PermuteEpoch \/ DrawLength
    BY <1>3 DEF CopyEpoch, PermuteEpoch, DrawLength, initVars
  <1>4. CASE UNCHANGED vars
    BY <1>4 DEF vars, initVars, drawVars
  <1> QED BY <1>1, <1>2, <1>3, <1>4 DEF Next, GenerateCrashState, Finished

\* Every step keeps ForcedWriteLast.
LEMMA ForcedNext ==
    TypeInv /\ OrderInv /\ EpochInv /\ ForcedWriteLast /\ [Next]_vars => ForcedWriteLast'
  <1> SUFFICES ASSUME TypeInv, OrderInv, EpochInv, ForcedWriteLast, [Next]_vars
               PROVE  ForcedWriteLast'
    OBVIOUS
  <1>1. CASE UNCHANGED <<data, crash_state>>
    <2>1. Barriers' = Barriers
      BY <1>1 DEF Barriers, Positions
    <2>2. \A x, n : PlacedBefore(x, n)' <=> PlacedBefore(x, n)
      BY <1>1 DEF PlacedBefore
    <2> QED BY <1>1, <2>1, <2>2 DEF ForcedWriteLast
  <1>2. CASE crash_state' = <<>>
    BY <1>2 DEF ForcedWriteLast
  <1>3. CASE CopyEpoch \/ PermuteEpoch
    BY <1>3, FillDraws, PlaceForced
  <1> QED BY <1>1, <1>2, <1>3, CrashStateSteps

\* A write that forces what came before it (FUA or soft barrier) is placed only
\* after all of that, for every log: permute_epoch holds it back, and no other
\* path places it early.
THEOREM ForcedWriteLastHolds == Spec => []ForcedWriteLast
  <1>1. Init => ForcedWriteLast
    BY DEF Init, ForcedWriteLast
  <1> QED BY <1>1, InitType, InitOrder, InitEpochs, TypeInvNext, OrderInvNext,
             EpochInvNext, ForcedNext, PTL DEF Spec

-----------------------------------------------------------------------------
(***************************************************************************)
(* Where the payload of a split flush is: in epochs behind everything up   *)
(* to the flush.  The data half owed is that of a flush already passed.    *)
(***************************************************************************)
FlushEntries ==
    /\ data \in Logs
    /\ \A k \in 1..Len(epochs_) : \A p \in 1..Len(epochs_[k].ops) : \A b \in Barriers :
         IsSplit(data[b + 1]) /\ epochs_[k].ops[p].op.data = data[b + 1].data =>
            \A x \in 0..b : InEpochs(x, k - 1)
    /\ pc = "ops" => \A p \in 1..Len(current_epoch.ops) : \A b \in Barriers :
         IsSplit(data[b + 1]) /\ current_epoch.ops[p].op.data = data[b + 1].data =>
            b < index

\* Only the flush itself and its data half carry the payload of a split flush.
LEMMA OwnPayload ==
    ASSUME DistinctPayloads, TypeInv, data \in Logs, NEW b \in Barriers, IsSplit(data[b + 1])
    PROVE  /\ b \in Nat /\ data[b + 1].data # NoData
           /\ \A x \in Positions : data[x + 1].data = data[b + 1].data => x = b
  <1>1. Len(data) \in Nat
    BY DEF TypeInv, TypeOK
  <1>2. b \in Nat /\ b + 1 \in 1..Len(data)
    BY <1>1 DEF Barriers, Positions
  <1>3. \A x \in Positions : x \in Nat /\ x + 1 \in 1..Len(data)
    BY <1>1 DEF Positions
  <1>4. \A c \in 1..Len(data) : data[b + 1].data # NoData
                                /\ (data[c].data = data[b + 1].data => c = b + 1)
    BY <1>2 DEF DistinctPayloads
  <1>5. data[b + 1].data # NoData
    BY <1>2, <1>4
  <1>6. ASSUME NEW x \in Positions, data[x + 1].data = data[b + 1].data PROVE x = b
    <2>1. x \in Nat /\ x + 1 = b + 1
      BY <1>3, <1>4, <1>6
    <2> QED BY <1>2, <2>1
  <1> QED BY <1>2, <1>5, <1>6

\* The halves of a flush: the flag half carries no payload, the data half the
\* flush's own.
LEMMA HalvesData ==
    ASSUME NEW w \in DiskWrites, NEW g \in DiskWrites
    PROVE  FlagHalf(w, g).data = NoData /\ DataHalf(w).data = w.data
  BY DEF FlagHalf, DataHalf, DiskWrites

\* Storing an epoch keeps FlushEntries if its payloads are behind their flushes.
LEMMA CloseFlush ==
    ASSUME TypeInv, OrderInv, FlushEntries, pc' = "epoch", UNCHANGED data,
           NEW e \in Epoch, epochs_' = Append(epochs_, e),
           \A p \in 1..Len(e.ops) : \A b \in Barriers :
              IsSplit(data[b + 1]) /\ e.ops[p].op.data = data[b + 1].data => b < index
    PROVE  FlushEntries'
  <1>1. epochs_ \in Seq(Epoch) /\ Len(epochs_) \in Nat
    BY DEF TypeInv, TypeOK
  <1>2. Barriers' = Barriers
    BY DEF Barriers, Positions
  <1> SUFFICES ASSUME NEW k \in 1..(Len(epochs_) + 1),
                      NEW p \in 1..Len(epochs_'[k].ops), NEW b \in Barriers,
                      IsSplit(data[b + 1]),
                      epochs_'[k].ops[p].op.data = data[b + 1].data,
                      NEW x \in 0..b
               PROVE  InEpochs(x, k - 1)'
    BY <1>1, <1>2, StoreEpoch DEF FlushEntries
  <1>3. k - 1 \in 0..Len(epochs_) /\ (InEpochs(x, k - 1)' <=> InEpochs(x, k - 1))
    BY <1>1, StoreEpoch
  <1>4. CASE k \in 1..Len(epochs_)
    <2>1. epochs_'[k] = epochs_[k]
      BY <1>1, <1>4, StoreEpoch
    <2> QED BY <1>3, <1>4, <2>1 DEF FlushEntries
  <1>5. CASE k = Len(epochs_) + 1
    <2>1. epochs_'[k] = e /\ k - 1 = Len(epochs_)
      BY <1>1, <1>5, StoreEpoch
    <2>2. b < index
      BY <2>1
    <2> QED BY <1>3, <2>1, <2>2 DEF OrderInv, CutInv, BarriersClosed
  <1> QED BY <1>1, <1>4, <1>5

\* What leaves the epochs alone keeps FlushEntries.
LEMMA FlushKept ==
    ASSUME FlushEntries, UNCHANGED <<data, epochs_, index>>,
           \/ pc' # "ops"
           \/ pc' = pc /\ UNCHANGED current_epoch
           \/ current_epoch'.ops = <<>>
    PROVE  FlushEntries'
  <1>1. Barriers' = Barriers
    BY DEF Barriers, Positions
  <1>2. \A x, n : InEpochs(x, n)' <=> InEpochs(x, n)
    BY DEF InEpochs
  <1>3. data' \in Logs /\
        \A k \in 1..Len(epochs_) : \A p \in 1..Len(epochs_[k].ops) : \A b \in Barriers :
          IsSplit(data[b + 1]) /\ epochs_[k].ops[p].op.data = data[b + 1].data =>
             \A x \in 0..b : InEpochs(x, k - 1)'
    BY <1>2 DEF FlushEntries
  <1>4. pc' = "ops" => \A p \in 1..Len(current_epoch'.ops) : \A b \in Barriers :
          IsSplit(data[b + 1]) /\ current_epoch'.ops[p].op.data = data[b + 1].data =>
             b < index
    BY DEF FlushEntries
  <1> QED BY <1>1, <1>3, <1>4 DEF FlushEntries

\* An operation is added with its own payload, or with that of a flush passed.
LEMMA AddOpFlush ==
    ASSUME DistinctPayloads, TypeInv, EpochInv, FlushEntries, AddOp
    PROVE  FlushEntries'
  <1> DEFINE c == current_epoch.ops
             op == [abs_index |-> index, op |-> curr]
             d == current_epoch'.ops
  <1>1. /\ index \in Nat /\ Len(data) \in Nat /\ index < Len(data) /\ pc = "ops"
        /\ current_epoch \in Epoch /\ c \in Seq(EpochOp) /\ curr \in DiskWrites
        /\ UNCHANGED <<data, epochs_>> /\ index' = index + 1 /\ ~is_barrier_write(curr)
    BY EpochFields DEF AddOp, TypeInv, TypeOK, curr, AtBarrier
  <1>2. op \in EpochOp /\ op.op = curr
    BY <1>1, EpochOpType
  <1>3. d = c \o OwedHalf \o <<op>>
    BY <1>1 DEF AddOp, Epoch
  <1>4. OwedHalf \in Seq(EpochOp) /\
        \A p \in 1..Len(OwedHalf) : prev_epoch_flush_op /\ OwedHalf[p].op = data_half
    <2>1. CASE prev_epoch_flush_op
      <3>1. index - 1 \in Nat /\ data_half \in DiskWrites
        BY <1>1, <2>1 DEF TypeInv, TypeOK, OwedIsPast
      <3>2. [abs_index |-> index - 1, op |-> data_half] \in EpochOp
        BY <3>1, EpochOpType
      <3> QED BY <2>1, <3>2 DEF OwedHalf
    <2>2. CASE ~prev_epoch_flush_op
      BY <2>2 DEF OwedHalf
    <2> QED BY <2>1, <2>2
  <1>5. \A p \in 1..Len(d) : \/ d[p] = op
                             \/ \E q \in 1..Len(c) : d[p] = c[q]
                             \/ \E q \in 1..Len(OwedHalf) : d[p] = OwedHalf[q]
    <2> HIDE DEF c, d, op
    <2> QED BY <1>1, <1>2, <1>3, <1>4, ConcatHolds
  <1>6. Barriers' = Barriers /\ \A b \in Barriers : b \in Positions /\ b \in Nat
    BY <1>1 DEF Barriers, Positions
  <1>7. ASSUME NEW p \in 1..Len(d), NEW b \in Barriers, IsSplit(data[b + 1]),
               d[p].op.data = data[b + 1].data
        PROVE  b < index + 1
    <2>1. CASE d[p] = op
      <3>1. index \in Positions /\ data[index + 1].data = data[b + 1].data
        BY <1>1, <1>2, <1>7, <2>1 DEF curr, Positions
      <3>2. b = index
        BY <1>7, <3>1, OwnPayload DEF FlushEntries
      <3> QED BY <1>1, <3>2
    <2>2. CASE \E q \in 1..Len(c) : d[p] = c[q]
      <3>1. b < index
        BY <1>1, <1>7, <2>2 DEF FlushEntries
      <3> QED BY <1>1, <1>6, <3>1
    <2>3. CASE \E q \in 1..Len(OwedHalf) : d[p] = OwedHalf[q]
      <3>1. prev_epoch_flush_op /\ data_half.data = data[b + 1].data
        BY <1>4, <1>7, <2>3
      <3>2. PICK a \in Barriers : a < index /\ IsSplit(data[a + 1])
                                  /\ data_half = DataHalf(data[a + 1])
        BY <3>1 DEF EpochInv, OwedOrigin
      <3>3. data[a + 1] \in DiskWrites
        <4>1. a + 1 \in 1..Len(data)
          BY <1>1, <1>6 DEF Positions
        <4> QED BY <4>1 DEF TypeInv, TypeOK
      <3>4. data[a + 1].data = data[b + 1].data
        BY <3>1, <3>2, <3>3, HalvesData
      <3>5. a = b
        BY <1>6, <1>7, <3>4, OwnPayload DEF FlushEntries
      <3> QED BY <1>1, <1>6, <3>2, <3>5
    <2> QED BY <1>5, <2>1, <2>2, <2>3
  <1>8. \A x, n : InEpochs(x, n)' <=> InEpochs(x, n)
    BY <1>1 DEF InEpochs
  <1>9. data' \in Logs /\
        \A k \in 1..Len(epochs_) : \A p \in 1..Len(epochs_[k].ops) : \A b \in Barriers :
          IsSplit(data[b + 1]) /\ epochs_[k].ops[p].op.data = data[b + 1].data =>
             \A x \in 0..b : InEpochs(x, k - 1)'
    BY <1>1, <1>8 DEF FlushEntries
  <1> QED BY <1>1, <1>6, <1>7, <1>9 DEF FlushEntries

\* FlushEntries is kept by every step.
LEMMA FlushEntriesNext ==
    ASSUME DistinctPayloads, TypeInv, OrderInv, EpochInv, FlushEntries, [Next]_vars
    PROVE  FlushEntries'
  <1>0. /\ index \in Nat /\ Len(data) \in Nat /\ current_epoch \in Epoch
        /\ current_epoch.ops \in Seq(EpochOp) /\ epochs_ \in Seq(Epoch)
        /\ index <= Len(data)
    BY EpochFields DEF TypeInv, TypeOK
  <1>1. CASE EpochStart
    BY <1>1, FlushKept DEF EpochStart, NewEpoch
  <1>2. CASE AddOp
    BY <1>2, AddOpFlush
  <1>3. ASSUME pc = "ops", NEW w \in DiskWrites, NEW p,
               p \in 1..Len(Append(current_epoch.ops, [abs_index |-> index, op |-> w])),
               NEW b \in Barriers, IsSplit(data[b + 1]),
               Append(current_epoch.ops, [abs_index |-> index, op |-> w])[p].op.data
                 = data[b + 1].data,
               w.data = data[b + 1].data => b < index
        PROVE  b < index
    <2> DEFINE c == current_epoch.ops
               o == [abs_index |-> index, op |-> w]
               u == Append(c, o)
    <2>1. o \in EpochOp /\ o.op = w
      BY <1>0, EpochOpType
    <2> HIDE DEF o
    <2>2. u[p] = o \/ \E q \in 1..Len(c) : u[p] = c[q]
      BY <1>0, <1>3, <2>1 DEF o
    <2>3. u[p].op.data = data[b + 1].data
      BY <1>3 DEF o
    <2> HIDE DEF u
    <2>4. CASE u[p] = o
      BY <1>3, <2>1, <2>3, <2>4
    <2>5. CASE \E q \in 1..Len(c) : u[p] = c[q]
      BY <1>3, <2>3, <2>5 DEF FlushEntries
    <2> QED BY <2>2, <2>4, <2>5
  <1>4. CASE CloseSplit
    <2> DEFINE s(g) == Append(current_epoch.ops,
                              [abs_index |-> index, op |-> FlagHalf(curr, g)])
    <2>1. PICK g \in Garbage :
            epochs_' = Append(epochs_, [current_epoch EXCEPT !.ops = s(g)])
      BY <1>4, Zenon DEF CloseSplit
    <2>2. /\ curr \in DiskWrites /\ FlagHalf(curr, g) \in DiskWrites
          /\ FlagHalf(curr, g).data = NoData
      <3>1. curr \in DiskWrites /\ g \in DiskWrites
        BY <1>0, <1>4, PermuterAssumption
        DEF CloseSplit, AtBarrier, TypeInv, TypeOK, curr
      <3> QED BY <3>1, HalvesType, HalvesData
    <2>3. s(g) \in Seq(EpochOp)
      BY <1>0, <2>2, EpochOpType
    <2> DEFINE e == [current_epoch EXCEPT !.ops = s(g)]
    <2>4. e \in Epoch /\ e.ops = s(g)
      <3> HIDE DEF s
      <3> QED BY <1>0, <2>3, OpsUpdate, Zenon
    <2> HIDE DEF e
    <2>5. epochs_' = Append(epochs_, e)
      BY <2>1 DEF e
    <2>6. ASSUME NEW p \in 1..Len(e.ops), NEW b \in Barriers, IsSplit(data[b + 1]),
                 e.ops[p].op.data = data[b + 1].data
          PROVE  b < index
      <3>1. FlagHalf(curr, g).data # data[b + 1].data
        BY <2>2, <2>6, OwnPayload DEF FlushEntries
      <3> QED BY <1>3, <1>4, <2>2, <2>4, <2>6, <3>1 DEF CloseSplit
    <2> QED BY <1>4, <2>4, <2>5, <2>6, CloseFlush DEF CloseSplit
  <1>5. CASE CloseBarrier
    <2> DEFINE s == Append(current_epoch.ops, [abs_index |-> index, op |-> curr])
               e == [current_epoch EXCEPT !.ops = s, !.has_barrier = TRUE]
    <2>1. /\ curr \in DiskWrites /\ curr = data[index + 1] /\ index \in Positions
          /\ ~IsSplit(curr)
      BY <1>0, <1>5 DEF CloseBarrier, AtBarrier, TypeInv, TypeOK, curr, Positions
    <2>2. s \in Seq(EpochOp)
      BY <1>0, <2>1, EpochOpType
    <2>3. epochs_' = Append(epochs_, e)
      BY <1>5, Zenon DEF CloseBarrier
    <2>4. e \in Epoch /\ e.ops = s
      <3> HIDE DEF s
      <3> QED BY <1>0, <2>2, BarrierUpdate, Zenon
    <2> HIDE DEF e
    <2>5. ASSUME NEW p \in 1..Len(e.ops), NEW b \in Barriers, IsSplit(data[b + 1]),
                 e.ops[p].op.data = data[b + 1].data
          PROVE  b < index
      <3>1. curr.data # data[b + 1].data
        BY <2>1, <2>5, OwnPayload DEF FlushEntries
      <3> QED BY <1>3, <1>5, <2>1, <2>4, <2>5, <3>1 DEF CloseBarrier
    <2> QED BY <1>5, <2>3, <2>4, <2>5, CloseFlush DEF CloseBarrier
  <1>6. CASE CloseTail
    BY <1>0, <1>6, CloseFlush DEF CloseTail, FlushEntries
  <1>7. CASE InitDone
    BY <1>7, FlushKept DEF InitDone, initVars
  <1>8. CASE GenerateCrashState
    <2>1. UNCHANGED initVars /\ pc' # "ops"
      BY <1>8 DEF GenerateCrashState, Call, LastRound, DrawLength, DrawNothing,
                  CopyEpoch, PermuteEpoch, Retry, ReturnNew, GiveUp
    <2> QED BY <2>1, FlushKept DEF initVars
  <1>9. CASE UNCHANGED vars
    BY <1>9, FlushKept DEF vars, initVars
  <1> QED BY <1>1, <1>2, <1>4, <1>5, <1>6, <1>7, <1>8, <1>9
          DEF Next, InitDataVector, Finished

\* Placing operations of epoch i + 1 keeps FlushBeforeData.
LEMMA PlaceFlush ==
    ASSUME TypeInv, OrderInv, FlushEntries, FlushBeforeData, pc = "fill",
           i < num_epochs, UNCHANGED data,
           NEW t \in Seq(EpochOp), crash_state' = crash_state \o t,
           DrawnFrom(t, epochs_[i + 1])
    PROVE  FlushBeforeData'
  <1> DEFINE l == Len(crash_state)
  <1>0. /\ crash_state \in Seq(EpochOp) /\ i \in Nat /\ num_epochs \in 1..Len(epochs_)
        /\ Len(epochs_) \in Nat /\ epochs_ \in Seq(Epoch)
    BY DEF TypeInv, TypeOK, DrawInRange
  <1>1. i + 1 \in 1..Len(epochs_) /\ (i + 1) - 1 = i
    BY <1>0
  <1>2. \A p \in 1..Len(t) : \E q \in 1..Len(epochs_[i + 1].ops) :
           t[p] = epochs_[i + 1].ops[q]
    BY DEF DrawnFrom
  <1>3. /\ l \in Nat /\ Len(t) \in Nat /\ Len(crash_state') = l + Len(t)
        /\ \A p \in 1..l : crash_state'[p] = crash_state[p]
        /\ \A p \in (l + 1)..(l + Len(t)) : crash_state'[p] = t[p - l]
    BY <1>0
  <1>4. Barriers' = Barriers /\ \A b \in Barriers : b \in Nat
    BY DEF Barriers, Positions
  <1> SUFFICES ASSUME NEW p \in 1..Len(crash_state'), NEW b \in Barriers,
                      IsSplit(data[b + 1]),
                      crash_state'[p].op.data = data[b + 1].data, NEW x \in 0..b
               PROVE  PlacedBefore(x, p - 1)'
    BY <1>4 DEF FlushBeforeData
  <1>5. CASE p \in 1..l
    <2>1. PlacedBefore(x, p - 1)
      BY <1>3, <1>5 DEF FlushBeforeData
    <2>2. p - 1 \in 0..l /\ p - 1 \in (p - 1)..Len(crash_state')
      BY <1>3, <1>5
    <2> QED BY <1>0, <2>1, <2>2, PlacedKept
  <1>6. CASE p \in (l + 1)..(l + Len(t))
    <2>1. p - l \in 1..Len(t) /\ crash_state'[p] = t[p - l]
      BY <1>3, <1>6
    <2>2. PICK q \in 1..Len(epochs_[i + 1].ops) :
            epochs_[i + 1].ops[q].op.data = data[b + 1].data
      BY <1>2, <2>1
    <2>3. InEpochs(x, i)
      BY <1>1, <2>2 DEF FlushEntries
    <2>4. l \in 0..l /\ p - 1 \in l..Len(crash_state') /\ x \in Nat
      BY <1>3, <1>4, <1>6
    <2>5. PlacedBefore(x, l)
      BY <2>3, <2>4, EarlierPlaced
    <2> QED BY <1>0, <2>4, <2>5, PlacedKept
  <1> QED BY <1>3, <1>5, <1>6

\* Every step keeps FlushBeforeData.
LEMMA FlushNext ==
    ASSUME TypeInv, OrderInv, FlushEntries, FlushBeforeData, [Next]_vars
    PROVE  FlushBeforeData'
  <1>1. CASE UNCHANGED <<data, crash_state>>
    <2>1. Barriers' = Barriers
      BY <1>1 DEF Barriers, Positions
    <2>2. \A x, n : PlacedBefore(x, n)' <=> PlacedBefore(x, n)
      BY <1>1 DEF PlacedBefore
    <2> QED BY <1>1, <2>1, <2>2 DEF FlushBeforeData
  <1>2. CASE crash_state' = <<>>
    BY <1>2 DEF FlushBeforeData
  <1>3. CASE CopyEpoch \/ PermuteEpoch
    BY <1>3, FillDraws, PlaceFlush
  <1> QED BY <1>1, <1>2, <1>3, CrashStateSteps

\* The data of a write with a flush is never placed ahead of the flush, nor of
\* anything the flush covers, for every set of logs whose flushes can be told
\* apart by their payloads.
THEOREM FlushBeforeDataHolds ==
    ASSUME DistinctPayloads
    PROVE  Spec => []FlushBeforeData
  <1> DEFINE Inv == TypeInv /\ OrderInv /\ EpochInv /\ FlushEntries /\ FlushBeforeData
  <1>1. Init => Inv
    <2>1. Init => FlushEntries /\ FlushBeforeData
      BY DEF Init, FlushEntries, FlushBeforeData
    <2> QED BY <2>1, InitType, InitOrder, InitEpochs
  <1>2. Inv /\ [Next]_vars => Inv'
    BY TypeInvNext, OrderInvNext, EpochInvNext, FlushEntriesNext, FlushNext
  <1>3. Inv => FlushBeforeData
    OBVIOUS
  <1> QED BY <1>1, <1>2, <1>3, PTL DEF Spec

-----------------------------------------------------------------------------
(***************************************************************************)
(* What a draw is.  OpsOf are the epochs laid end to end, off says where   *)
(* each ends.  A draw of n epochs is the first n - 1 of them whole and at  *)
(* least one operation of epoch n, each from somewhere in that epoch.      *)
(***************************************************************************)
OpsOf == [k \in DOMAIN epochs_ |-> epochs_[k].ops]

IsDraw(s, off, n) ==
    /\ n \in 1..Len(epochs_) /\ off[n - 1] < Len(s) /\ Len(s) <= off[n]
    /\ \A k \in 1..(n - 1) : \A q \in 1..Len(OpsOf[k]) : s[off[k - 1] + q] = OpsOf[k][q]
    /\ \A p \in (off[n - 1] + 1)..Len(s) : \E q \in 1..Len(OpsOf[n]) : s[p] = OpsOf[n][q]

DrawsFrom(off) ==
    /\ \A k \in 1..Len(returned) : \E n : IsDraw(returned[k], off, n)
    /\ pc = "fill" => IF i < num_epochs THEN LaidOut(crash_state, OpsOf, off, i)
                                        ELSE IsDraw(crash_state, off, num_epochs)

\* Every state handed out, and the one drawn, is a draw; the completed
\* permutations are those of the states handed out.
DrawInv ==
    /\ \A off : IsOffsets(off, OpsOf) => DrawsFrom(off)
    /\ pc \in {"epoch", "ops"} => returned = <<>>
    /\ \A h \in completed_permutations_ : \E k \in 1..Len(returned) : Hash(returned[k]) = h
    /\ \A k \in 1..Len(returned) : Hash(returned[k]) \in completed_permutations_

\* The epochs as a sequence of sequences.
LEMMA OpsOfType ==
    ASSUME TypeInv
    PROVE  /\ OpsOf \in Seq(Seq(EpochOp)) /\ Len(OpsOf) = Len(epochs_)
           /\ Len(epochs_) \in Nat
           /\ \A k \in 1..Len(epochs_) : OpsOf[k] = epochs_[k].ops
  <1>1. /\ epochs_ \in Seq(Epoch) /\ Len(epochs_) \in Nat /\ DOMAIN epochs_ = 1..Len(epochs_)
        /\ \A k \in 1..Len(epochs_) : epochs_[k] \in Epoch
    BY DEF TypeInv, TypeOK
  <1>2. \A k \in 1..Len(epochs_) : epochs_[k].ops \in Seq(EpochOp)
    BY <1>1, EpochFields
  <1>3. OpsOf = [k \in 1..Len(epochs_) |-> epochs_[k].ops]
    BY <1>1 DEF OpsOf
  <1> QED BY <1>1, <1>2, <1>3

\* Two operations of an epoch with the same position are the same.
LEMMA PositionIdentifies ==
    ASSUME TypeInv, EpochInv, NEW n \in 1..Len(epochs_),
           NEW p \in 1..Len(OpsOf[n]), NEW q \in 1..Len(OpsOf[n]),
           OpsOf[n][p].abs_index = OpsOf[n][q].abs_index
    PROVE  p = q
  <1>1. OpsOf[n] = epochs_[n].ops /\ OpsOf[n] \in Seq(EpochOp)
    BY OpsOfType, EpochFields DEF TypeInv, TypeOK
  <1>2. Increasing(OpsOf[n])
    BY <1>1 DEF EpochInv, EpochShape
  <1>3. /\ OpsOf[n][p].abs_index \in Nat /\ OpsOf[n][q].abs_index \in Nat
        /\ Len(OpsOf[n]) \in Nat
    BY <1>1, OpsType
  <1> QED BY <1>2, <1>3 DEF Increasing

\* Two draws with the same positions are the same draw: their length tells how
\* many epochs they hold, and within an epoch a position tells the operation.
LEMMA HashIdentifies ==
    ASSUME TypeInv, EpochInv, NEW off, IsOffsets(off, OpsOf),
           NEW s \in Seq(EpochOp), NEW t \in Seq(EpochOp), NEW n, NEW m,
           IsDraw(s, off, n), IsDraw(t, off, m), Hash(s) = Hash(t)
    PROVE  s = t
  <1> DEFINE N == Len(epochs_)
  <1>1. /\ N \in Nat /\ OpsOf \in Seq(Seq(EpochOp)) /\ Len(OpsOf) = N
        /\ \A k \in Nat : off[k] \in Nat
        /\ Len(s) \in Nat /\ Len(t) \in Nat /\ n \in 1..N /\ m \in 1..N
    BY OpsOfType, PartsType DEF IsDraw
  <1>2. Len(s) = Len(t) /\ \A p \in 1..Len(s) : s[p].abs_index = t[p].abs_index
    <2>1. /\ DOMAIN Hash(s) = 1..Len(s) /\ DOMAIN Hash(t) = 1..Len(t)
          /\ \A p \in 1..Len(s) : Hash(s)[p] = s[p].abs_index
          /\ \A p \in 1..Len(t) : Hash(t)[p] = t[p].abs_index
      BY DEF Hash
    <2>2. Len(s) = Len(t)
      BY <1>1, <2>1
    <2> QED BY <2>1, <2>2
  <1>3. \A k, l \in 0..N : k <= l => off[k] <= off[l]
    <2> HIDE DEF N
    <2>1. \A l \in 0..N : \A k \in 0..l : off[k] <= off[l]
      BY <1>1, OffsetsMonotone
    <2>2. \A k, l \in 0..N : k <= l => k \in 0..l
      BY <1>1
    <2> QED BY <2>1, <2>2
  <1>4. n = m
    <2> HIDE DEF N
    <2>1. /\ off[n - 1] < Len(s) /\ Len(s) <= off[n]
          /\ off[m - 1] < Len(s) /\ Len(s) <= off[m]
      BY <1>2 DEF IsDraw
    <2>2. /\ n - 1 \in 0..N /\ m - 1 \in 0..N /\ n \in 0..N /\ m \in 0..N
          /\ off[n - 1] \in Nat /\ off[m - 1] \in Nat /\ off[n] \in Nat /\ off[m] \in Nat
      BY <1>1
    <2>3. CASE n < m
      <3>1. n <= m - 1
        BY <1>1, <2>3
      <3> QED BY <1>1, <1>3, <2>1, <2>2, <3>1
    <2>4. CASE m < n
      <3>1. m <= n - 1
        BY <1>1, <2>4
      <3> QED BY <1>1, <1>3, <2>1, <2>2, <3>1
    <2> QED BY <1>1, <2>3, <2>4
  <1>5. ASSUME NEW p \in 1..Len(s) PROVE s[p] = t[p]
    <2>1. off[n - 1] \in Nat /\ n - 1 \in 0..N
      <3> HIDE DEF N
      <3>1. n - 1 \in Nat /\ n - 1 \in 0..N
        BY <1>1
      <3> QED BY <1>1, <3>1
    <2>2. CASE p <= off[n - 1]
      <3>1. p \in 1..off[n - 1]
        BY <1>1, <2>1, <2>2
      <3>2. PICK j \in 1..(n - 1) : \E q \in 1..Len(OpsOf[j]) : p = off[j - 1] + q
        <4>1. n - 1 \in 0..Len(OpsOf)
          BY <1>1, <2>1
        <4>2. Located(p, n - 1, OpsOf, off)
          BY <1>1, <3>1, <4>1, OffsetsLocate
        <4> QED BY <4>2 DEF Located
      <3> QED BY <1>4, <3>2 DEF IsDraw
    <2>3. CASE p > off[n - 1]
      <3>1. p \in (off[n - 1] + 1)..Len(s)
        BY <1>1, <2>1, <2>3
      <3>2. PICK q \in 1..Len(OpsOf[n]) : s[p] = OpsOf[n][q]
        BY <3>1 DEF IsDraw
      <3>3. PICK r \in 1..Len(OpsOf[n]) : t[p] = OpsOf[n][r]
        BY <1>2, <1>4, <3>1 DEF IsDraw
      <3>4. OpsOf[n][q].abs_index = OpsOf[n][r].abs_index
        BY <1>2, <3>2, <3>3
      <3>5. q = r
        BY <1>1, <3>4, PositionIdentifies
      <3> QED BY <3>2, <3>3, <3>5
    <2> QED BY <1>1, <2>1, <2>2, <2>3
  <1> QED BY <1>2, <1>5

\* IsDraw is about the epochs only.
LEMMA DrawKept ==
    ASSUME UNCHANGED epochs_
    PROVE  OpsOf' = OpsOf /\ \A s, off, n : IsDraw(s, off, n)' <=> IsDraw(s, off, n)
  <1>1. OpsOf' = OpsOf
    BY DEF OpsOf
  <1> QED BY <1>1 DEF IsDraw

\* A finished loop over the epochs has drawn a state.
LEMMA FillDrawInv ==
    ASSUME TypeInv, DrawInv, CopyEpoch \/ PermuteEpoch,
           NEW off, IsOffsets(off, OpsOf)
    PROVE  IF i' < num_epochs' THEN LaidOut(crash_state', OpsOf, off, i')
                               ELSE IsDraw(crash_state', off, num_epochs')
  <1> DEFINE N == Len(epochs_)
  <1>1. /\ pc = "fill" /\ i < num_epochs /\ UNCHANGED num_epochs /\ i' = i + 1
        /\ i \in Nat /\ num_epochs \in 1..N /\ N \in Nat
        /\ num_requests \in 1..Len(epochs_[num_epochs].ops)
        /\ crash_state \in Seq(EpochOp)
    <2>1. pc = "fill" /\ i < num_epochs /\ UNCHANGED num_epochs /\ i' = i + 1
      BY DEF CopyEpoch, PermuteEpoch
    <2> QED BY <2>1 DEF TypeInv, TypeOK, DrawInRange
  <1>2. PICK t \in Seq(EpochOp) :
          /\ crash_state' = crash_state \o t /\ DrawnFrom(t, epochs_[i + 1])
          /\ IF IsLast THEN Len(t) = num_requests ELSE t = epochs_[i + 1].ops
    BY FillDraws
  <1>3. LaidOut(crash_state, OpsOf, off, i)
    BY <1>1 DEF DrawInv, DrawsFrom
  <1>4. /\ OpsOf \in Seq(Seq(EpochOp)) /\ i + 1 \in 1..N /\ i + 1 \in 1..Len(OpsOf)
        /\ OpsOf[i + 1] = epochs_[i + 1].ops /\ \A k \in Nat : off[k] \in Nat
    <2>1. i + 1 \in 1..N
      <3> HIDE DEF N
      <3> QED BY <1>1
    <2> QED BY <2>1, OpsOfType, PartsType
  <1>5. CASE ~IsLast
    <2>1. i' < num_epochs' /\ crash_state' = crash_state \o OpsOf[i + 1]
      <3>1. i' < num_epochs'
        <4> HIDE DEF N
        <4> QED BY <1>1, <1>5 DEF IsLast
      <3> QED BY <1>2, <1>4, <1>5, <3>1
    <2>2. LaidOut(crash_state \o OpsOf[i + 1], OpsOf, off, i + 1)
      BY <1>1, <1>3, <1>4, LayNext
    <2> QED BY <1>1, <2>1, <2>2
  <1>6. CASE IsLast
    <2> DEFINE s == crash_state
               L == Len(s)
               n == num_epochs
    <2>1. n = i + 1 /\ n - 1 = i /\ ~(i' < num_epochs')
      <3> HIDE DEF N
      <3> QED BY <1>1, <1>6 DEF IsLast
    <2>2. /\ L = off[i] /\ Len(t) = num_requests
          /\ num_requests \in 1..Len(OpsOf[n]) /\ off[n] = off[i] + Len(OpsOf[n])
      <3>1. off[i + 1] = off[(i + 1) - 1] + Len(OpsOf[i + 1])
        BY <1>4 DEF IsOffsets
      <3> QED BY <1>1, <1>2, <1>3, <1>4, <1>6, <2>1, <3>1 DEF LaidOut
    <2>3. /\ L \in Nat /\ Len(t) \in Nat /\ Len(crash_state') = L + Len(t)
          /\ \A p \in 1..L : crash_state'[p] = s[p]
          /\ \A p \in (L + 1)..(L + Len(t)) : crash_state'[p] = t[p - L]
      BY <1>1, <1>2
    <2>4. off[n - 1] < Len(crash_state') /\ Len(crash_state') <= off[n]
      <3>1. Len(OpsOf[n]) \in Nat
        BY <1>4, <2>1, PartsType
      <3> HIDE DEF L, n
      <3> QED BY <2>1, <2>2, <2>3, <3>1
    <2>5. ASSUME NEW k \in 1..(n - 1), NEW q \in 1..Len(OpsOf[k])
          PROVE  crash_state'[off[k - 1] + q] = OpsOf[k][q]
      <3>1. k \in 1..i /\ k \in 1..Len(OpsOf) /\ i \in 0..Len(OpsOf) /\ k \in 0..i
            /\ k - 1 \in Nat /\ k \in Nat
        <4>1. k \in 1..i
          BY <2>1
        <4>2. Len(OpsOf) = N /\ i < N
          <5>1. Len(OpsOf) = N
            BY OpsOfType
          <5> HIDE DEF N
          <5> QED BY <1>1, <5>1
        <4> HIDE DEF N
        <4> QED BY <1>1, <4>1, <4>2
      <3>2. off[k] <= off[i] /\ off[k] = off[k - 1] + Len(OpsOf[k])
        BY <1>4, <3>1, OffsetsMonotone DEF IsOffsets
      <3>3. off[k] \in Nat /\ off[k - 1] \in Nat /\ off[i] \in Nat /\ Len(OpsOf[k]) \in Nat
        BY <1>1, <1>4, <3>1, PartsType
      <3>4. off[k - 1] + q \in 1..L
        <4> HIDE DEF L
        <4> QED BY <2>2, <3>2, <3>3, SMTT(30)
      <3>5. s[off[k - 1] + q] = OpsOf[k][q]
        BY <1>3, <3>1 DEF LaidOut
      <3> QED BY <2>3, <3>4, <3>5
    <2>6. ASSUME NEW p \in (off[n - 1] + 1)..Len(crash_state')
          PROVE  \E q \in 1..Len(OpsOf[n]) : crash_state'[p] = OpsOf[n][q]
      <3>1. p \in (L + 1)..(L + Len(t)) /\ p - L \in 1..Len(t)
        <4> HIDE DEF L, n
        <4> QED BY <2>1, <2>2, <2>3
      <3>2. \A r \in 1..Len(t) : \E q \in 1..Len(OpsOf[n]) : t[r] = OpsOf[n][q]
        <4>1. \A r \in 1..Len(t) : \E q \in 1..Len(epochs_[i + 1].ops) :
                 t[r] = epochs_[i + 1].ops[q]
          BY <1>2 DEF DrawnFrom
        <4>2. OpsOf[n] = epochs_[i + 1].ops
          BY <1>4, <2>1
        <4> HIDE DEF n
        <4> QED BY <4>1, <4>2
      <3> QED BY <2>3, <3>1, <3>2
    <2>7. IsDraw(crash_state', off, n)
      BY <1>1, <2>4, <2>5, <2>6 DEF IsDraw
    <2> QED BY <1>1, <2>1, <2>7
  <1> QED BY <1>5, <1>6

\* Every step keeps DrawInv.
LEMMA DrawInvNext == TypeInv /\ DrawInv /\ [Next]_vars => DrawInv'
  <1> SUFFICES ASSUME TypeInv, DrawInv, [Next]_vars PROVE DrawInv'
    OBVIOUS
  <1>0. crash_state \in Seq(EpochOp) /\ returned \in Seq(Seq(EpochOp))
    BY DEF TypeInv, TypeOK
  <1>1. CASE InitDataVector
    <2>1. /\ pc \in {"epoch", "ops"} /\ pc' # "fill"
          /\ UNCHANGED <<returned, completed_permutations_>>
      BY <1>1 DEF InitDataVector, EpochStart, AddOp, CloseSplit, CloseBarrier,
                  CloseTail, InitDone, callVars
    <2>2. returned' = <<>>
      BY <2>1 DEF DrawInv
    <2> QED BY <2>1, <2>2 DEF DrawInv, DrawsFrom
  <1>2. CASE Call \/ LastRound \/ DrawNothing \/ Retry \/ GiveUp
    <2>1. /\ pc' \notin {"fill", "epoch", "ops"}
          /\ UNCHANGED <<returned, completed_permutations_, epochs_>>
      BY <1>2 DEF Call, LastRound, DrawNothing, Retry, GiveUp, initVars, callVars
    <2> QED BY <2>1, DrawKept DEF DrawInv, DrawsFrom
  <1>3. CASE DrawLength
    <2>1. /\ pc' = "fill" /\ i' = 0 /\ crash_state' = <<>> /\ i' < num_epochs'
          /\ UNCHANGED <<returned, completed_permutations_, epochs_>>
      <3>1. num_epochs' \in 1..Len(epochs_) /\ Len(epochs_) \in Nat
        BY <1>3, OpsOfType DEF DrawLength
      <3> QED BY <1>3, <3>1 DEF DrawLength, initVars, callVars
    <2>2. ASSUME NEW off, IsOffsets(off, OpsOf) PROVE LaidOut(<<>>, OpsOf, off, 0)
      BY <2>2 DEF LaidOut, IsOffsets
    <2> QED BY <2>1, <2>2, DrawKept DEF DrawInv, DrawsFrom
  <1>4. CASE CopyEpoch \/ PermuteEpoch
    <2>1. pc' = "fill" /\ UNCHANGED <<returned, completed_permutations_, epochs_>>
      BY <1>4 DEF CopyEpoch, PermuteEpoch, initVars, callVars
    <2>2. ASSUME NEW off, IsOffsets(off, OpsOf)
          PROVE  IF i' < num_epochs' THEN LaidOut(crash_state', OpsOf, off, i')
                                     ELSE IsDraw(crash_state', off, num_epochs')
      BY <1>4, <2>2, FillDrawInv
    <2> QED BY <2>1, <2>2, DrawKept DEF DrawInv, DrawsFrom
  <1>5. CASE ReturnNew
    <2>1. /\ pc' = "ready" /\ UNCHANGED epochs_ /\ Drawn
          /\ returned' = Append(returned, crash_state)
          /\ completed_permutations_' = completed_permutations_ \cup {Hash(crash_state)}
      BY <1>5 DEF ReturnNew, initVars, Drawn
    <2>2. /\ Len(returned') = Len(returned) + 1 /\ Len(returned) \in Nat
          /\ returned'[Len(returned) + 1] = crash_state
          /\ \A k \in 1..Len(returned) : returned'[k] = returned[k]
      BY <1>0, <2>1
    <2>3. ASSUME NEW off, IsOffsets(off, OpsOf), NEW k \in 1..Len(returned')
          PROVE  \E n : IsDraw(returned'[k], off, n)
      <3>1. DrawsFrom(off) /\ ~(i < num_epochs) /\ pc = "fill"
        <4>1. i = num_epochs /\ num_epochs \in Nat /\ pc = "fill"
          BY <2>1 DEF Drawn, TypeInv, TypeOK
        <4> QED BY <2>3, <4>1 DEF DrawInv
      <3>2. CASE k = Len(returned) + 1
        BY <2>2, <3>1, <3>2 DEF DrawsFrom
      <3>3. CASE k \in 1..Len(returned)
        BY <2>2, <3>1, <3>3 DEF DrawsFrom
      <3> QED BY <2>2, <3>2, <3>3
    <2>4. \A h \in completed_permutations_' : \E k \in 1..Len(returned') :
             Hash(returned'[k]) = h
      <3>1. \A h \in completed_permutations_ : \E k \in 1..Len(returned) :
               Hash(returned'[k]) = h
        BY <2>2 DEF DrawInv
      <3>2. Hash(returned'[Len(returned) + 1]) = Hash(crash_state)
        BY <2>2
      <3>3. 1..Len(returned) \subseteq 1..Len(returned') /\ Len(returned) + 1 \in 1..Len(returned')
        BY <2>2
      <3> QED BY <2>1, <3>1, <3>2, <3>3
    <2>5. \A k \in 1..Len(returned') : Hash(returned'[k]) \in completed_permutations_'
      <3>1. \A k \in 1..Len(returned) : Hash(returned'[k]) \in completed_permutations_'
        BY <2>1, <2>2 DEF DrawInv
      <3>2. Hash(returned'[Len(returned) + 1]) \in completed_permutations_'
        BY <2>1, <2>2
      <3>3. \A k \in 1..Len(returned') : k \in 1..Len(returned) \/ k = Len(returned) + 1
        BY <2>2
      <3> QED BY <3>1, <3>2, <3>3
    <2> QED BY <2>1, <2>3, <2>4, <2>5, DrawKept DEF DrawInv, DrawsFrom
  <1>6. CASE UNCHANGED vars
    <2>1. UNCHANGED <<pc, returned, completed_permutations_, epochs_, i, num_epochs, crash_state>>
      BY <1>6 DEF vars, initVars, drawVars, callVars
    <2> QED BY <2>1, DrawKept DEF DrawInv, DrawsFrom
  <1> QED BY <1>1, <1>2, <1>3, <1>4, <1>5, <1>6 DEF Next, GenerateCrashState, Finished

\* DrawInv holds at the start.
LEMMA InitDraws == Init => DrawInv
  BY DEF Init, DrawInv, DrawsFrom

\* A state refused as completed was handed out before, for every log: the list of
\* positions identifies a state although a data half shares its position.
THEOREM NoFalseDuplicateHolds == Spec => []NoFalseDuplicate
  <1>1. TypeInv /\ EpochInv /\ DrawInv => NoFalseDuplicate
    <2> SUFFICES ASSUME TypeInv, EpochInv, DrawInv, Drawn, exists
                 PROVE  \E k \in DOMAIN returned : returned[k] = crash_state
      BY DEF NoFalseDuplicate
    <2>1. /\ crash_state \in Seq(EpochOp) /\ returned \in Seq(Seq(EpochOp))
          /\ num_epochs \in Nat /\ i = num_epochs /\ pc = "fill"
      BY DEF TypeInv, TypeOK, Drawn
    <2>2. PICK k \in 1..Len(returned) : Hash(returned[k]) = Hash(crash_state)
      BY DEF DrawInv, exists
    <2>3. k \in DOMAIN returned /\ returned[k] \in Seq(EpochOp)
      BY <2>1
    <2>4. PICK off : IsOffsets(off, OpsOf)
      BY OpsOfType, OffsetsExist
    <2>5. DrawsFrom(off) /\ ~(i < num_epochs)
      BY <2>1, <2>4 DEF DrawInv
    <2>6. IsDraw(crash_state, off, num_epochs) /\ \E n : IsDraw(returned[k], off, n)
      BY <2>1, <2>5 DEF DrawsFrom
    <2>7. returned[k] = crash_state
      BY <2>1, <2>2, <2>3, <2>4, <2>6, HashIdentifies
    <2> QED BY <2>3, <2>7
  <1> QED BY <1>1, InitType, InitOrder, InitEpochs, InitDraws, TypeInvNext,
             OrderInvNext, EpochInvNext, DrawInvNext, PTL DEF Spec

\* The tester is never handed the same crash state twice, for every log, every
\* number of rounds and every retry bound.
THEOREM NoRepeatedTestHolds == Spec => []NoRepeatedTest
  <1>1. Init => NoRepeatedTest
    BY DEF Init, NoRepeatedTest, IsInjective
  <1>2. TypeInv /\ DrawInv /\ NoRepeatedTest /\ [Next]_vars => NoRepeatedTest'
    <2> SUFFICES ASSUME TypeInv, DrawInv, NoRepeatedTest, [Next]_vars
                 PROVE  NoRepeatedTest'
      OBVIOUS
    <2>1. CASE UNCHANGED returned
      BY <2>1 DEF NoRepeatedTest, IsInjective
    <2>2. CASE ReturnNew
      <3>1. /\ returned' = Append(returned, crash_state)
            /\ Hash(crash_state) \notin completed_permutations_
        BY <2>2 DEF ReturnNew, exists
      <3>2. crash_state \in Seq(EpochOp) /\ returned \in Seq(Seq(EpochOp))
        BY DEF TypeInv, TypeOK
      <3>3. /\ DOMAIN returned' = 1..(Len(returned) + 1) /\ Len(returned) \in Nat
            /\ DOMAIN returned = 1..Len(returned)
            /\ returned'[Len(returned) + 1] = crash_state
            /\ \A k \in 1..Len(returned) : returned'[k] = returned[k]
        BY <3>1, <3>2
      <3>4. \A k \in 1..Len(returned) : returned[k] # crash_state
        BY <3>1 DEF DrawInv
      <3>5. \A k \in 1..(Len(returned) + 1) : k \in 1..Len(returned) \/ k = Len(returned) + 1
        BY <3>3
      <3>6. \A a, b \in 1..(Len(returned) + 1) : returned'[a] = returned'[b] => a = b
        BY <3>3, <3>4, <3>5 DEF NoRepeatedTest, IsInjective
      <3> QED BY <3>3, <3>6 DEF NoRepeatedTest, IsInjective
    <2>3. CASE InitDataVector
      BY <2>1, <2>3 DEF InitDataVector, EpochStart, AddOp, CloseSplit, CloseBarrier,
                        CloseTail, InitDone, callVars
    <2>4. CASE Call \/ LastRound \/ DrawLength \/ DrawNothing \/ CopyEpoch
               \/ PermuteEpoch \/ Retry \/ GiveUp
      BY <2>1, <2>4 DEF Call, LastRound, DrawLength, DrawNothing, CopyEpoch,
                        PermuteEpoch, Retry, GiveUp, callVars
    <2>5. CASE UNCHANGED vars
      BY <2>1, <2>5 DEF vars, callVars
    <2> QED BY <2>2, <2>3, <2>4, <2>5 DEF Next, GenerateCrashState, Finished
  <1> QED BY <1>1, <1>2, InitType, InitDraws, TypeInvNext, DrawInvNext, PTL DEF Spec

-----------------------------------------------------------------------------
(***************************************************************************)
(* No operation is lost and none moves back: positions never decrease from *)
(* one epoch to the next (Ascending), and every operation passed by the    *)
(* cursor is in a stored epoch or the one being filled (OpsKept).          *)
(***************************************************************************)
Below(s, t) == \A p \in 1..Len(s) : \A q \in 1..Len(t) : s[p].abs_index <= t[q].abs_index

BelowIndex(s, n) == \A p \in 1..Len(s) : s[p].abs_index < n

Ascending ==
    /\ \A k, l \in 1..Len(epochs_) : k < l => Below(epochs_[k].ops, epochs_[l].ops)
    /\ \A k \in 1..Len(epochs_) : BelowIndex(epochs_[k].ops, index)
    /\ pc = "ops" => \A k \in 1..Len(epochs_) : Below(epochs_[k].ops, current_epoch.ops)

\* s holds the operation logged at x of the log, or its flag half.
Keeps(log, s, x) ==
    \E p \in 1..Len(s) :
        /\ s[p].abs_index = x
        /\ s[p].op = log[x + 1] \/ (IsSplit(log[x + 1]) /\ s[p].op.data = NoData)

OpsKept ==
    \A x \in 0..(index - 1) :
        \/ \E k \in 1..Len(epochs_) : Keeps(data, epochs_[k].ops, x)
        \/ pc = "ops" /\ Keeps(data, current_epoch.ops, x)

CutToTheEnd == InitReturned => index = Len(data)

KeptInv == Ascending /\ OpsKept /\ CutToTheEnd

\* Storing an epoch keeps KeptInv if it carries on where the others end.
LEMMA CloseKeeps ==
    ASSUME TypeInv, KeptInv, pc' = "epoch", UNCHANGED data,
           index' \in Nat, index <= index',
           NEW e \in Epoch, epochs_' = Append(epochs_, e),
           BelowIndex(e.ops, index'),
           \A k \in 1..Len(epochs_) : Below(epochs_[k].ops, e.ops),
           \A x \in 0..(index' - 1) : \/ \E k \in 1..Len(epochs_) : Keeps(data, epochs_[k].ops, x)
                                      \/ Keeps(data, e.ops, x)
    PROVE  KeptInv'
  <1>1. epochs_ \in Seq(Epoch) /\ Len(epochs_) \in Nat /\ index \in Nat
    BY DEF TypeInv, TypeOK
  <1>2. /\ Len(epochs_') = Len(epochs_) + 1 /\ epochs_'[Len(epochs_) + 1] = e
        /\ \A k \in 1..Len(epochs_) : epochs_'[k] = epochs_[k]
    BY <1>1
  <1>3. \A k \in 1..Len(epochs_') : \/ k \in 1..Len(epochs_) /\ epochs_'[k] = epochs_[k]
                                    \/ k = Len(epochs_) + 1 /\ epochs_'[k] = e
    BY <1>1, <1>2
  <1>4. ASSUME NEW k \in 1..Len(epochs_) PROVE BelowIndex(epochs_[k].ops, index')
    <2>1. BelowIndex(epochs_[k].ops, index) /\ epochs_[k].ops \in Seq(EpochOp)
      BY <1>1, EpochFields DEF KeptInv, Ascending
    <2>2. \A p \in 1..Len(epochs_[k].ops) : /\ epochs_[k].ops[p].abs_index \in Nat
                                            /\ epochs_[k].ops[p].abs_index < index
      BY <2>1, OpsType DEF BelowIndex
    <2> QED BY <1>1, <2>2 DEF BelowIndex
  <1>5. Ascending'
    <2>1. ASSUME NEW k \in 1..Len(epochs_'), NEW l \in 1..Len(epochs_'), k < l
          PROVE  Below(epochs_'[k].ops, epochs_'[l].ops)
      <3>1. k \in 1..Len(epochs_) /\ epochs_'[k] = epochs_[k]
        BY <1>1, <1>2, <2>1
      <3>2. CASE l \in 1..Len(epochs_) /\ epochs_'[l] = epochs_[l]
        BY <2>1, <3>1, <3>2 DEF KeptInv, Ascending
      <3>3. CASE epochs_'[l] = e
        BY <3>1, <3>3
      <3> QED BY <1>3, <3>2, <3>3
    <2>2. \A k \in 1..Len(epochs_') : BelowIndex(epochs_'[k].ops, index')
      BY <1>3, <1>4
    <2> QED BY <2>1, <2>2 DEF Ascending
  <1>6. OpsKept'
    <2>2. ASSUME NEW x \in 0..(index' - 1)
          PROVE  \E k \in 1..Len(epochs_') : Keeps(data, epochs_'[k].ops, x)
      <3>1. 1..Len(epochs_) \subseteq 1..Len(epochs_') /\ Len(epochs_) + 1 \in 1..Len(epochs_')
        BY <1>1, <1>2
      <3> QED BY <1>2, <3>1
    <2> QED BY <2>2 DEF OpsKept
  <1>7. CutToTheEnd'
    BY DEF CutToTheEnd, InitReturned
  <1> QED BY <1>5, <1>6, <1>7 DEF KeptInv

\* Closing an epoch with the operation at the cursor, whole or as a flag half.
LEMMA BarrierKeeps ==
    ASSUME TypeInv, OrderInv, KeptInv, pc = "ops", pc' = "epoch", UNCHANGED data,
           index' = index + 1, index < Len(data),
           NEW w \in DiskWrites, w = curr \/ (IsSplit(curr) /\ w.data = NoData),
           NEW e \in Epoch, epochs_' = Append(epochs_, e),
           e.ops = Append(current_epoch.ops, [abs_index |-> index, op |-> w])
    PROVE  KeptInv'
  <1> DEFINE c == current_epoch.ops
             o == [abs_index |-> index, op |-> w]
  <1>1. /\ index \in Nat /\ c \in Seq(EpochOp) /\ Len(c) \in Nat
        /\ epochs_ \in Seq(Epoch) /\ Len(epochs_) \in Nat
    BY EpochFields DEF TypeInv, TypeOK
  <1>2. o \in EpochOp /\ o.abs_index = index /\ o.op = w
    BY <1>1, EpochOpType
  <1> HIDE DEF o
  <1>3. /\ Len(e.ops) = Len(c) + 1 /\ e.ops[Len(c) + 1] = o
        /\ \A p \in 1..Len(c) : e.ops[p] = c[p]
    BY <1>1, <1>2 DEF o
  <1>4. \A p \in 1..Len(e.ops) : \/ p \in 1..Len(c) /\ e.ops[p] = c[p]
                                 \/ e.ops[p] = o
    BY <1>1, <1>3
  <1>5. \A p \in 1..Len(c) : c[p].abs_index \in Nat /\ c[p].abs_index < index
    BY <1>1, OpsType DEF OrderInv, CutInv, CurrentPast
  <1>6. BelowIndex(e.ops, index')
    <2> SUFFICES ASSUME NEW p \in 1..Len(e.ops) PROVE e.ops[p].abs_index < index + 1
      BY DEF BelowIndex
    <2> QED BY <1>1, <1>2, <1>4, <1>5
  <1>7. ASSUME NEW k \in 1..Len(epochs_) PROVE Below(epochs_[k].ops, e.ops)
    <2>1. /\ Below(epochs_[k].ops, c) /\ BelowIndex(epochs_[k].ops, index)
          /\ epochs_[k].ops \in Seq(EpochOp)
      BY <1>1, EpochFields DEF KeptInv, Ascending
    <2> SUFFICES ASSUME NEW p \in 1..Len(epochs_[k].ops), NEW q \in 1..Len(e.ops)
                 PROVE  epochs_[k].ops[p].abs_index <= e.ops[q].abs_index
      BY DEF Below
    <2>2. epochs_[k].ops[p].abs_index \in Nat /\ epochs_[k].ops[p].abs_index < index
      BY <2>1, OpsType DEF BelowIndex
    <2>3. CASE q \in 1..Len(c) /\ e.ops[q] = c[q]
      BY <2>1, <2>3 DEF Below
    <2>4. CASE e.ops[q] = o
      <3>1. e.ops[q].abs_index = index
        BY <1>2, <2>4
      <3> DEFINE x == epochs_[k].ops[p].abs_index
                 y == e.ops[q].abs_index
      <3>2. x \in Nat /\ x < index /\ y = index /\ index \in Nat
        BY <1>1, <2>2, <3>1
      <3> HIDE DEF x, y
      <3>3. x <= y
        BY <3>2
      <3> QED BY <3>3 DEF x, y
    <2> QED BY <1>4, <2>3, <2>4
  <1>8. ASSUME NEW x \in 0..(index' - 1)
        PROVE  \/ \E k \in 1..Len(epochs_) : Keeps(data, epochs_[k].ops, x)
               \/ Keeps(data, e.ops, x)
    <2>1. x \in 0..(index - 1) \/ x = index
      BY <1>1
    <2>2. CASE x \in 0..(index - 1)
      <3>1. (\E k \in 1..Len(epochs_) : Keeps(data, epochs_[k].ops, x)) \/ Keeps(data, c, x)
        BY <2>2 DEF KeptInv, OpsKept
      <3>2. Keeps(data, c, x) => Keeps(data, e.ops, x)
        <4>1. 1..Len(c) \subseteq 1..Len(e.ops)
          BY <1>1, <1>3
        <4> QED BY <1>3, <4>1 DEF Keeps
      <3> QED BY <3>1, <3>2
    <2>3. CASE x = index
      <3>1. Len(c) + 1 \in 1..Len(e.ops)
        BY <1>1, <1>3
      <3>2. Keeps(data, e.ops, index)
        BY <1>2, <1>3, <3>1 DEF Keeps, curr
      <3> QED BY <2>3, <3>2
    <2> QED BY <2>1, <2>2, <2>3
  <1>9. index' \in Nat /\ index <= index'
    BY <1>1
  <1> QED BY <1>6, <1>7, <1>8, <1>9, CloseKeeps

\* Adding operations to the epoch being filled.
LEMMA AddOpKeeps == ASSUME TypeInv, OrderInv, KeptInv, AddOp PROVE KeptInv'
  <1> DEFINE c == current_epoch.ops
             op == [abs_index |-> index, op |-> curr]
             d == current_epoch'.ops
  <1>1. /\ index \in Nat /\ Len(data) \in Nat /\ index < Len(data) /\ pc = "ops"
        /\ current_epoch \in Epoch /\ c \in Seq(EpochOp) /\ curr \in DiskWrites
        /\ UNCHANGED <<data, epochs_, pc>> /\ index' = index + 1
        /\ epochs_ \in Seq(Epoch)
    BY EpochFields DEF AddOp, TypeInv, TypeOK, curr
  <1>2. op \in EpochOp /\ op.op = curr /\ op.abs_index = index
    BY <1>1, EpochOpType
  <1>3. d = c \o OwedHalf \o <<op>>
    BY <1>1 DEF AddOp, Epoch
  <1>4. OwedHalf \in Seq(EpochOp) /\
        \A p \in 1..Len(OwedHalf) : OwedHalf[p].abs_index = index - 1
    <2>1. CASE prev_epoch_flush_op
      <3>1. index - 1 \in Nat /\ data_half \in DiskWrites
        BY <1>1, <2>1 DEF TypeInv, TypeOK, OwedIsPast
      <3>2. [abs_index |-> index - 1, op |-> data_half] \in EpochOp
        BY <3>1, EpochOpType
      <3> QED BY <2>1, <3>2 DEF OwedHalf
    <2>2. CASE ~prev_epoch_flush_op
      BY <2>2 DEF OwedHalf
    <2> QED BY <2>1, <2>2
  <1> HIDE DEF op
  <1>5. /\ \A p \in 1..Len(d) : \/ d[p] = op
                                \/ \E q \in 1..Len(c) : d[p] = c[q]
                                \/ \E q \in 1..Len(OwedHalf) : d[p] = OwedHalf[q]
        /\ \A p \in 1..Len(c) : p \in 1..Len(d) /\ d[p] = c[p]
        /\ \E p \in 1..Len(d) : d[p] = op
    <2> HIDE DEF c, d
    <2>1. \A p \in 1..Len(d) : \/ d[p] = op
                               \/ \E q \in 1..Len(c) : d[p] = c[q]
                               \/ \E q \in 1..Len(OwedHalf) : d[p] = OwedHalf[q]
      BY <1>1, <1>2, <1>3, <1>4, ConcatHolds
    <2> DEFINE t == c \o OwedHalf
    <2>2. t \in Seq(EpochOp) /\ \A p \in 1..Len(c) : p \in 1..Len(t) /\ t[p] = c[p]
      BY <1>1, <1>4
    <2>3. d = t \o <<op>>
      BY <1>3
    <2> HIDE DEF t
    <2>4. /\ \A p \in 1..Len(t) : p \in 1..Len(d) /\ d[p] = t[p]
          /\ Len(t) + 1 \in 1..Len(d) /\ d[Len(t) + 1] = op
      BY <1>2, <2>2, <2>3
    <2> QED BY <2>1, <2>2, <2>4
  <1>7. Ascending'
    <2>1. ASSUME NEW k \in 1..Len(epochs_)
          PROVE  Below(epochs_[k].ops, d) /\ BelowIndex(epochs_[k].ops, index + 1)
      <3>1. /\ Below(epochs_[k].ops, c) /\ BelowIndex(epochs_[k].ops, index)
            /\ epochs_[k].ops \in Seq(EpochOp)
        BY <1>1, EpochFields DEF KeptInv, Ascending
      <3>2. \A p \in 1..Len(epochs_[k].ops) : /\ epochs_[k].ops[p].abs_index \in Nat
                                              /\ epochs_[k].ops[p].abs_index < index
        BY <3>1, OpsType DEF BelowIndex
      <3>3. BelowIndex(epochs_[k].ops, index + 1)
        BY <1>1, <3>2 DEF BelowIndex
      <3>4. ASSUME NEW p \in 1..Len(epochs_[k].ops), NEW q \in 1..Len(d)
            PROVE  epochs_[k].ops[p].abs_index <= d[q].abs_index
        <4>1. CASE d[q] = op
          BY <1>1, <1>2, <3>2, <4>1, SMTT(30)
        <4>2. CASE \E r \in 1..Len(c) : d[q] = c[r]
          BY <3>1, <4>2 DEF Below
        <4>3. CASE \E r \in 1..Len(OwedHalf) : d[q] = OwedHalf[r]
          BY <1>1, <1>4, <3>2, <4>3, SMTT(30)
        <4> QED BY <1>5, <4>1, <4>2, <4>3
      <3> QED BY <3>3, <3>4 DEF Below
    <2>2. \A k, l \in 1..Len(epochs_) : k < l => Below(epochs_[k].ops, epochs_[l].ops)
      BY DEF KeptInv, Ascending
    <2> QED BY <1>1, <2>1, <2>2 DEF Ascending
  <1>8. OpsKept'
    <2> SUFFICES ASSUME NEW x \in 0..index
                 PROVE  (\E k \in 1..Len(epochs_) : Keeps(data, epochs_[k].ops, x)) \/ Keeps(data, d, x)
      <3>1. index' - 1 = index
        BY <1>1
      <3> QED BY <1>1, <3>1 DEF OpsKept
    <2>1. CASE x \in 0..(index - 1)
      <3>1. (\E k \in 1..Len(epochs_) : Keeps(data, epochs_[k].ops, x)) \/ Keeps(data, c, x)
        BY <2>1 DEF KeptInv, OpsKept
      <3>2. Keeps(data, c, x) => Keeps(data, d, x)
        BY <1>5 DEF Keeps
      <3> QED BY <3>1, <3>2
    <2>2. CASE x = index
      BY <1>2, <1>5, <2>2 DEF Keeps, curr
    <2> QED BY <1>1, <2>1, <2>2
  <1>9. CutToTheEnd'
    BY <1>1 DEF CutToTheEnd, InitReturned
  <1> QED BY <1>7, <1>8, <1>9 DEF KeptInv

\* What leaves the epochs alone keeps KeptInv.
LEMMA KeptKept ==
    ASSUME KeptInv, UNCHANGED <<data, epochs_, index>>,
           \/ pc' \notin {"epoch", "ops"} /\ pc # "ops" /\ index = Len(data)
           \/ pc' = pc /\ UNCHANGED current_epoch
           \/ pc = "epoch" /\ pc' = "ops" /\ current_epoch'.ops = <<>>
    PROVE  KeptInv'
  <1>2. Ascending'
    <2>1. /\ \A k, l \in 1..Len(epochs_) : k < l => Below(epochs_[k].ops, epochs_[l].ops)
          /\ \A k \in 1..Len(epochs_) : BelowIndex(epochs_[k].ops, index)
      BY DEF KeptInv, Ascending
    <2>2. pc' = "ops" => \A k \in 1..Len(epochs_) : Below(epochs_[k].ops, current_epoch'.ops)
      BY DEF KeptInv, Ascending, Below
    <2> QED BY <2>1, <2>2 DEF Ascending
  <1>3. OpsKept'
    BY DEF KeptInv, OpsKept
  <1>4. CutToTheEnd'
    BY DEF KeptInv, CutToTheEnd, InitReturned
  <1> QED BY <1>2, <1>3, <1>4 DEF KeptInv

\* Every step keeps KeptInv.
LEMMA KeptInvNext ==
    ASSUME TypeInv, OrderInv, KeptInv, [Next]_vars
    PROVE  KeptInv'
  <1>0. /\ index \in Nat /\ Len(data) \in Nat /\ current_epoch \in Epoch
        /\ current_epoch.ops \in Seq(EpochOp) /\ epochs_ \in Seq(Epoch)
        /\ index <= Len(data)
    BY EpochFields DEF TypeInv, TypeOK
  <1>1. CASE EpochStart
    BY <1>1, KeptKept DEF EpochStart, NewEpoch
  <1>2. CASE AddOp
    BY <1>2, AddOpKeeps
  <1>3. CASE CloseSplit
    <2> DEFINE s(g) == Append(current_epoch.ops,
                              [abs_index |-> index, op |-> FlagHalf(curr, g)])
    <2>1. PICK g \in Garbage :
            epochs_' = Append(epochs_, [current_epoch EXCEPT !.ops = s(g)])
      BY <1>3, Zenon DEF CloseSplit
    <2>2. FlagHalf(curr, g) \in DiskWrites /\ FlagHalf(curr, g).data = NoData
      <3>1. curr \in DiskWrites /\ g \in DiskWrites
        BY <1>0, <1>3, PermuterAssumption
        DEF CloseSplit, AtBarrier, TypeInv, TypeOK, curr
      <3> QED BY <3>1, HalvesType, HalvesData
    <2>3. s(g) \in Seq(EpochOp)
      BY <1>0, <2>2, EpochOpType
    <2> DEFINE e == [current_epoch EXCEPT !.ops = s(g)]
    <2>4. e \in Epoch /\ e.ops = s(g)
      <3> HIDE DEF s
      <3> QED BY <1>0, <2>3, OpsUpdate, Zenon
    <2> HIDE DEF e
    <2>5. epochs_' = Append(epochs_, e)
      BY <2>1 DEF e
    <2> QED BY <1>3, <2>2, <2>4, <2>5, BarrierKeeps DEF CloseSplit, AtBarrier
  <1>4. CASE CloseBarrier
    <2> DEFINE s == Append(current_epoch.ops, [abs_index |-> index, op |-> curr])
               e == [current_epoch EXCEPT !.ops = s, !.has_barrier = TRUE]
    <2>1. curr \in DiskWrites
      BY <1>0, <1>4 DEF CloseBarrier, AtBarrier, TypeInv, TypeOK, curr
    <2>2. s \in Seq(EpochOp)
      BY <1>0, <2>1, EpochOpType
    <2>3. epochs_' = Append(epochs_, e)
      BY <1>4, Zenon DEF CloseBarrier
    <2>4. e \in Epoch /\ e.ops = s
      <3> HIDE DEF s
      <3> QED BY <1>0, <2>2, BarrierUpdate, Zenon
    <2> HIDE DEF e
    <2> QED BY <1>4, <2>1, <2>3, <2>4, BarrierKeeps DEF CloseBarrier, AtBarrier
  <1>5. CASE CloseTail
    <2>1. /\ pc = "ops" /\ pc' = "epoch" /\ UNCHANGED <<data, index>>
          /\ epochs_' = Append(epochs_, current_epoch)
      BY <1>5 DEF CloseTail
    <2>2. BelowIndex(current_epoch.ops, index')
      BY <2>1 DEF OrderInv, CutInv, CurrentPast, BelowIndex
    <2>3. /\ \A k \in 1..Len(epochs_) : Below(epochs_[k].ops, current_epoch.ops)
          /\ \A x \in 0..(index' - 1) :
               \/ \E k \in 1..Len(epochs_) : Keeps(data, epochs_[k].ops, x)
               \/ Keeps(data, current_epoch.ops, x)
      BY <2>1 DEF KeptInv, Ascending, OpsKept
    <2> QED BY <1>0, <2>1, <2>2, <2>3, CloseKeeps
  <1>6. CASE InitDone
    BY <1>0, <1>6, KeptKept DEF InitDone, initVars
  <1>7. CASE GenerateCrashState
    <2>1. /\ UNCHANGED initVars /\ pc' \notin {"epoch", "ops"}
          /\ pc \in {"ready", "draw", "fill", "done"}
      BY <1>7 DEF GenerateCrashState, Call, LastRound, DrawLength, DrawNothing,
                  CopyEpoch, PermuteEpoch, Retry, ReturnNew, GiveUp
    <2>2. index = Len(data)
      BY <2>1 DEF KeptInv, CutToTheEnd, InitReturned
    <2> QED BY <2>1, <2>2, KeptKept DEF initVars
  <1>8. CASE UNCHANGED vars
    BY <1>8, KeptKept DEF vars, initVars
  <1> QED BY <1>1, <1>2, <1>3, <1>4, <1>5, <1>6, <1>7, <1>8
          DEF Next, InitDataVector, Finished

\* What KeptInv says of the epochs laid end to end is LogKept.
LEMMA KeptIsLogKept == TypeInv /\ EpochInv /\ KeptInv => LogKept
  <1> SUFFICES ASSUME TypeInv, EpochInv, KeptInv, InitReturned
               PROVE  LET all == FlattenSeq(OpsOf)
                      IN /\ \A x \in Positions : \E p \in DOMAIN all :
                              /\ all[p].abs_index = x
                              /\ \/ all[p].op = data[x + 1]
                                 \/ IsSplit(data[x + 1]) /\ all[p].op.data = NoData
                         /\ \A p, q \in DOMAIN all :
                              p < q => all[p].abs_index <= all[q].abs_index
    BY DEF LogKept, OpsOf
  <1> DEFINE all == FlattenSeq(OpsOf)
             N == Len(epochs_)
  <1>1. /\ N \in Nat /\ OpsOf \in Seq(Seq(EpochOp)) /\ Len(OpsOf) = N
        /\ \A k \in 1..N : OpsOf[k] = epochs_[k].ops
    BY OpsOfType
  <1>2. PICK off : IsOffsets(off, OpsOf)
    BY <1>1, OffsetsExist
  <1>3. all \in Seq(EpochOp) /\ LaidOut(all, OpsOf, off, N)
    BY <1>1, <1>2, FlattenLaidOut
  <1> HIDE DEF all
  <1>4. /\ DOMAIN all = 1..Len(all) /\ Len(all) = off[N] /\ Len(all) \in Nat
        /\ \A k \in 1..N : \A q \in 1..Len(OpsOf[k]) : all[off[k - 1] + q] = OpsOf[k][q]
    BY <1>3 DEF LaidOut
  <1>5. /\ \A k \in Nat : off[k] \in Nat
        /\ \A k \in 1..N : /\ off[k] = off[k - 1] + Len(OpsOf[k]) /\ Len(OpsOf[k]) \in Nat
                           /\ OpsOf[k] \in Seq(EpochOp)
    BY <1>1, <1>2, PartsType DEF IsOffsets
  <1>6. \A l \in 0..N : \A k \in 0..l : off[k] <= off[l]
    BY <1>1, <1>2, OffsetsMonotone
  <1> HIDE DEF N
  <1>7. ASSUME NEW x \in Positions
        PROVE  \E p \in DOMAIN all :
                 /\ all[p].abs_index = x
                 /\ \/ all[p].op = data[x + 1]
                    \/ IsSplit(data[x + 1]) /\ all[p].op.data = NoData
    <2>1. x \in 0..(index - 1) /\ pc # "ops"
      BY DEF Positions, KeptInv, CutToTheEnd, InitReturned
    <2>2. PICK k \in 1..N : Keeps(data, epochs_[k].ops, x)
      BY <2>1 DEF KeptInv, OpsKept, N
    <2>3. PICK q \in 1..Len(OpsOf[k]) :
            /\ OpsOf[k][q].abs_index = x
            /\ \/ OpsOf[k][q].op = data[x + 1]
               \/ IsSplit(data[x + 1]) /\ OpsOf[k][q].op.data = NoData
      BY <1>1, <2>2 DEF Keeps
    <2>4. off[k - 1] + q \in 1..Len(all)
      <3>1. k - 1 \in Nat /\ k \in 0..N /\ N \in 0..N /\ k \in Nat
        BY <1>1
      <3>2. off[k] <= off[N] /\ off[k] = off[k - 1] + Len(OpsOf[k])
            /\ off[k - 1] \in Nat /\ off[k] \in Nat /\ Len(OpsOf[k]) \in Nat
        BY <1>5, <1>6, <3>1
      <3> QED BY <1>4, <3>2
    <2> QED BY <1>4, <2>3, <2>4
  <1>8. ASSUME NEW p \in DOMAIN all, NEW q \in DOMAIN all, p < q
        PROVE  all[p].abs_index <= all[q].abs_index
    <2>1. Located(p, N, OpsOf, off) /\ Located(q, N, OpsOf, off) /\ p \in Nat /\ q \in Nat
      <3>1. N \in 0..Len(OpsOf) /\ p \in 1..off[N] /\ q \in 1..off[N]
        BY <1>1, <1>4
      <3>2. p \in Nat /\ q \in Nat
        BY <1>4
      <3> QED BY <1>1, <1>2, <3>1, <3>2, OffsetsLocate
    <2>2. PICK k \in 1..N : \E a \in 1..Len(OpsOf[k]) : p = off[k - 1] + a
      BY <2>1 DEF Located
    <2>3. PICK a \in 1..Len(OpsOf[k]) : p = off[k - 1] + a
      BY <2>2
    <2>4. PICK l \in 1..N : \E b \in 1..Len(OpsOf[l]) : q = off[l - 1] + b
      BY <2>1 DEF Located
    <2>5. PICK b \in 1..Len(OpsOf[l]) : q = off[l - 1] + b
      BY <2>4
    <2>6. all[p] = OpsOf[k][a] /\ all[q] = OpsOf[l][b]
      BY <1>4, <2>3, <2>5
    <2>7. /\ k - 1 \in Nat /\ l - 1 \in Nat /\ k \in Nat /\ l \in Nat
          /\ off[k - 1] \in Nat /\ off[l - 1] \in Nat /\ off[k] \in Nat /\ off[l] \in Nat
          /\ off[k] = off[k - 1] + Len(OpsOf[k]) /\ off[l] = off[l - 1] + Len(OpsOf[l])
          /\ Len(OpsOf[k]) \in Nat /\ Len(OpsOf[l]) \in Nat
      <3>1. k - 1 \in Nat /\ l - 1 \in Nat /\ k \in Nat /\ l \in Nat
        BY <1>1
      <3> QED BY <1>5, <3>1
    <2>8. CASE k = l
      <3>1. a < b
        BY <1>8, <2>3, <2>5, <2>7, <2>8
      <3>2. Increasing(OpsOf[k])
        BY <1>1 DEF EpochInv, EpochShape, N
      <3>3. OpsOf[k][a].abs_index < OpsOf[k][b].abs_index
        BY <2>8, <3>1, <3>2 DEF Increasing
      <3>4. OpsOf[k][a].abs_index \in Nat /\ OpsOf[k][b].abs_index \in Nat
        BY <1>5, <2>8, OpsType
      <3> QED BY <2>6, <2>8, <3>3, <3>4
    <2>9. CASE k < l
      BY <1>1, <2>6, <2>9, ZenonT(60) DEF KeptInv, Ascending, Below, N
    <2>10. CASE l < k
      <3>1. k - 1 \in 0..N /\ l \in 0..(k - 1)
        BY <1>1, <2>10
      <3>2. off[l] <= off[k - 1]
        BY <1>6, <3>1
      <3>3. a \in Nat /\ a > 0 /\ b \in Nat /\ b <= Len(OpsOf[l])
        BY <2>7
      <3>4. off[k - 1] < p
        BY <2>3, <2>7, <3>3
      <3>5. q <= off[l]
        BY <2>5, <2>7, <3>3
      <3> QED BY <1>8, <2>1, <2>7, <3>2, <3>4, <3>5
    <2> QED BY <2>7, <2>8, <2>9, <2>10
  <1> QED BY <1>7, <1>8 DEF all

\* InitDataVector loses no operation of any log and keeps them in their order.
THEOREM LogKeptHolds == Spec => []LogKept
  <1>1. Init => KeptInv
    BY DEF Init, KeptInv, Ascending, OpsKept, CutToTheEnd, InitReturned
  <1> QED BY <1>1, InitType, InitOrder, InitEpochs, TypeInvNext, OrderInvNext,
             EpochInvNext, KeptInvNext, KeptIsLogKept, PTL DEF Spec
==============================================================================
