------------------------------ MODULE Permuter ------------------------------
(***************************************************************************)
(* The crash-state generator: Permuter (permuter/Permuter.cpp) with        *)
(* RandomPermuter (permuter/RandomPermuter.cpp), driven by the loop of     *)
(* Tester::test_check_random_permutations.                                 *)
(*                                                                         *)
(* InitDataVector cuts the recorded log into epochs, each ended by a       *)
(* barrier; GenerateCrashState then draws crash states: some epochs whole, *)
(* and part of the next one in any order.  The harness replays a drawn     *)
(* state on a snapshot of the disk as if the machine had crashed there, so *)
(* a state that breaks the ordering the flushes promise blames the file    *)
(* system for what a disk could not have done.                             *)
(*                                                                         *)
(* Log positions (index, abs_index) count from 0 as in the code, so        *)
(* data->at(x) is data[x + 1].                                             *)
(***************************************************************************)
EXTENDS DiskWrite, Integers, Sequences, FiniteSets, Functions, SequencesExt

CONSTANTS
    Logs,              \* the logs the wrapper may have recorded
    Garbage,           \* contents of a default-constructed disk_write
    kRetryMultiplier,
    kMinRetries,
    NumRounds          \* the harness's num_rounds

ASSUME PermuterAssumption ==
    /\ Logs \subseteq Seq(DiskWrites)
    /\ Garbage \subseteq DiskWrites
    /\ kRetryMultiplier \in Nat
    /\ kMinRetries \in Nat \ {0}
    /\ NumRounds \in Nat

VARIABLES
    pc,                     \* where the code is
    data,                   \* the log
    \* InitDataVector
    epochs_, index, current_epoch, prev_epoch_flush_op, data_half, overlaps,
    \* gen_one_state and GenerateCrashState
    num_epochs, num_requests, i, crash_state, retries,
    completed_permutations_,
    \* the caller
    rounds,
    returned                \* history: the states handed to the tester

initVars == <<data, epochs_, index, current_epoch, prev_epoch_flush_op,
              data_half, overlaps>>
drawVars == <<num_epochs, num_requests, i, crash_state>>
callVars == <<retries, completed_permutations_, rounds, returned>>
vars == <<pc, initVars, drawVars, callVars>>

EpochOp == [abs_index : Nat, op : DiskWrites]
Epoch == [has_barrier : BOOLEAN, overlaps : BOOLEAN, ops : Seq(EpochOp)]
SectorRange == [start : Nat, end : Nat]

NewEpoch == [has_barrier |-> FALSE, overlaps |-> FALSE, ops |-> <<>>]

-----------------------------------------------------------------------------
(* InitDataVector *)

\* The operation the cursor is on; only meaningful while index < |data|.
curr == data[index + 1]

\* Mutant: a FUA write no longer ends an epoch.
AtBarrier_NoFUA == index < Len(data) /\ is_barrier_write(curr) /\ ~has_FUA_flag(curr)

AtBarrier == index < Len(data) /\ is_barrier_write(curr)

(***************************************************************************)
(* The scan of the overlaps list for the range of one operation.  It stops *)
(* at the first range found to contain an end point (the widened copy of   *)
(* that range is dropped), and before every visited range that starts past *)
(* the operation it inserts the new range.                                 *)
(***************************************************************************)
ScanHits(list, start, end) ==
    {p \in DOMAIN list : \/ list[p].start <= start /\ list[p].end >= start
                         \/ list[p].start <= end /\ list[p].end >= end}

ScanInsert(list, start, end) ==
    LET visited(p) == \A h \in ScanHits(list, start, end) : p < h
        new == [start |-> start, end |-> end]
    IN FlattenSeq([p \in DOMAIN list |->
                     IF visited(p) /\ list[p].start > end THEN <<new, list[p]>>
                                                          ELSE <<list[p]>>])

EpochStart ==
    /\ pc = "epoch" /\ index < Len(data)
    /\ current_epoch' = NewEpoch
    /\ pc' = "ops"
    /\ UNCHANGED <<data, epochs_, index, prev_epoch_flush_op, data_half, overlaps>>
    /\ UNCHANGED <<drawVars, callVars>>

InitDone ==
    /\ pc = "epoch" /\ index >= Len(data)
    /\ pc' = "ready"
    /\ UNCHANGED <<initVars, drawVars, callVars>>

\* The data half still owed by an earlier flush, under the position before
\* the cursor, which is the flush's own only if nothing came in between.
OwedHalf == IF prev_epoch_flush_op
            THEN <<[abs_index |-> index - 1, op |-> data_half]>>
            ELSE <<>>

\* One turn of the inner loop: an operation that is no barrier.
AddOp ==
    /\ pc = "ops" /\ index < Len(data) /\ ~AtBarrier
    /\ LET start == curr.write_sector
           end == start + curr.size
       IN /\ current_epoch' =
               [current_epoch EXCEPT
                  !.ops = @ \o OwedHalf \o <<[abs_index |-> index, op |-> curr]>>,
                  !.overlaps = @ \/ ScanHits(overlaps, start, end) # {}]
          /\ overlaps' = ScanInsert(overlaps, start, end)
    /\ prev_epoch_flush_op' = FALSE
    /\ index' = index + 1
    /\ UNCHANGED <<pc, data, epochs_, data_half>>
    /\ UNCHANGED <<drawVars, callVars>>

\* A flush that carries data and no FUA is split.
IsSplit(w) == /\ has_flush_flag(w) \/ has_flush_seq_flag(w)
              /\ has_write_flag(w) /\ ~has_FUA_flag(w)

\* Mutant: the flag half keeps the payload.
FlagHalf_KeepsData(w, g) == w

\* A default-constructed disk_write (metadata g is whatever was there) that
\* receives the flush flags of w.
FlagHalf(w, g) ==
    [g EXCEPT !.bi_rw = @ \cup (w.bi_rw \cap {"FLUSH", "FLUSH_SEQ"}),
              !.data = NoData]

DataHalf(w) == [w EXCEPT !.bi_rw = @ \ {"FLUSH", "FLUSH_SEQ"}]

\* The epoch is stored first and marked has_barrier afterwards, so the stored
\* copy is not marked.
CloseSplit ==
    /\ pc = "ops" /\ AtBarrier /\ IsSplit(curr)
    /\ \E g \in Garbage :
         epochs_' = Append(epochs_,
           [current_epoch EXCEPT
              !.ops = Append(@, [abs_index |-> index, op |-> FlagHalf(curr, g)])])
    /\ data_half' = DataHalf(curr)
    /\ prev_epoch_flush_op' = TRUE
    /\ index' = index + 1
    /\ pc' = "epoch"
    /\ UNCHANGED <<data, current_epoch, overlaps>>
    /\ UNCHANGED <<drawVars, callVars>>

CloseBarrier ==
    /\ pc = "ops" /\ AtBarrier /\ ~IsSplit(curr)
    /\ epochs_' = Append(epochs_,
         [current_epoch EXCEPT !.ops = Append(@, [abs_index |-> index, op |-> curr]),
                               !.has_barrier = TRUE])
    /\ index' = index + 1
    /\ pc' = "epoch"
    /\ UNCHANGED <<data, current_epoch, prev_epoch_flush_op, data_half, overlaps>>
    /\ UNCHANGED <<drawVars, callVars>>

\* Mutant: the last epoch is stored only if a barrier ended it.
CloseTail_Dropped ==
    /\ pc = "ops" /\ index >= Len(data)
    /\ pc' = "epoch"
    /\ UNCHANGED <<initVars, drawVars, callVars>>

\* The log ends without a barrier.
CloseTail ==
    /\ pc = "ops" /\ index >= Len(data)
    /\ epochs_' = Append(epochs_, current_epoch)
    /\ pc' = "epoch"
    /\ UNCHANGED <<data, index, current_epoch, prev_epoch_flush_op, data_half,
                   overlaps>>
    /\ UNCHANGED <<drawVars, callVars>>

InitDataVector == EpochStart \/ AddOp \/ CloseSplit \/ CloseBarrier \/ CloseTail
                  \/ InitDone

-----------------------------------------------------------------------------
(* GenerateCrashState, with RandomPermuter::gen_one_state *)

\* Mutant: the last operation is left out of the identity.
Hash_Short(state) == [p \in 1..(Len(state) - 1) |-> state[p].abs_index]

\* The identity under which a drawn state is remembered.
Hash(state) == [p \in DOMAIN state |-> state[p].abs_index]

max_retries ==
    IF kRetryMultiplier * Cardinality(completed_permutations_) < kMinRetries
    THEN kMinRetries
    ELSE kRetryMultiplier * Cardinality(completed_permutations_)

\* Mutant: one round too many.
Call_OneMore ==
    /\ pc = "ready" /\ rounds <= NumRounds
    /\ rounds' = rounds + 1
    /\ retries' = 0
    /\ pc' = "draw"
    /\ UNCHANGED <<initVars, drawVars, completed_permutations_, returned>>

Call ==
    /\ pc = "ready" /\ rounds < NumRounds
    /\ rounds' = rounds + 1
    /\ retries' = 0
    /\ pc' = "draw"
    /\ UNCHANGED <<initVars, drawVars, completed_permutations_, returned>>

\* num_rounds states have been tested.
LastRound ==
    /\ pc = "ready" /\ rounds >= NumRounds
    /\ pc' = "done"
    /\ UNCHANGED <<initVars, drawVars, callVars>>

\* How much of the log this state reaches.
DrawLength ==
    /\ pc = "draw"
    /\ num_epochs' \in 1..Len(epochs_)
    /\ num_requests' \in 1..Len(epochs_[num_epochs'].ops)
    /\ i' = 0
    /\ crash_state' = <<>>
    /\ pc' = "fill"
    /\ UNCHANGED <<initVars, callVars>>

\* With no epoch the distribution over 1..0 is undefined, and whatever it
\* yields the checked access at() throws: the harness dies.
DrawNothing ==
    /\ pc = "draw" /\ epochs_ = <<>>
    /\ pc' = "aborted"
    /\ UNCHANGED <<initVars, drawVars, callVars>>

\* Mutant: the barrier is drawn like any other operation.
permute_epoch_AnyOp(epoch, size) ==
    {f \in [1..size -> 1..Len(epoch.ops)] : IsInjective(f)}

\* permute_epoch: the ways to fill size places from an epoch.  A marked
\* barrier takes the last place, and only when all the others are placed.
permute_epoch(epoch, size) ==
    LET n == Len(epoch.ops)
        slots == IF epoch.has_barrier THEN n - 1 ELSE n
    IN {f \in [1..size -> 1..n] :
          /\ IsInjective(f)
          /\ \A p \in 1..size : IF p <= slots THEN f[p] <= slots ELSE f[p] = n}

IsLast == i = num_epochs - 1

CopyEpoch ==
    /\ pc = "fill" /\ i < num_epochs
    /\ ~IsLast /\ ~epochs_[i + 1].overlaps
    /\ crash_state' = crash_state \o epochs_[i + 1].ops
    /\ i' = i + 1
    /\ UNCHANGED <<pc, num_epochs, num_requests>>
    /\ UNCHANGED <<initVars, callVars>>

PermuteEpoch ==
    /\ pc = "fill" /\ i < num_epochs
    /\ IsLast \/ epochs_[i + 1].overlaps
    /\ LET e == epochs_[i + 1]
           size == IF IsLast THEN num_requests ELSE Len(e.ops)
       IN \E f \in permute_epoch(e, size) :
            crash_state' = crash_state \o [p \in 1..size |-> e.ops[f[p]]]
    /\ i' = i + 1
    /\ UNCHANGED <<pc, num_epochs, num_requests>>
    /\ UNCHANGED <<initVars, callVars>>

\* Mutant: the lookup is forgotten after the first retry.
exists_OnFirstDraw == retries = 0 /\ Hash(crash_state) \in completed_permutations_

exists == Hash(crash_state) \in completed_permutations_

\* Mutant: the retries are not counted.
Retry_Uncounted ==
    /\ pc = "fill" /\ i = num_epochs
    /\ exists /\ retries + 1 < max_retries
    /\ pc' = "draw"
    /\ UNCHANGED <<initVars, drawVars, callVars>>

\* A state drawn before: draw again.
Retry ==
    /\ pc = "fill" /\ i = num_epochs
    /\ exists /\ retries + 1 < max_retries
    /\ retries' = retries + 1
    /\ pc' = "draw"
    /\ UNCHANGED <<initVars, drawVars, completed_permutations_, rounds, returned>>

\* A new state goes to the tester.
ReturnNew ==
    /\ pc = "fill" /\ i = num_epochs
    /\ ~exists
    /\ completed_permutations_' = completed_permutations_ \cup {Hash(crash_state)}
    /\ returned' = Append(returned, crash_state)
    /\ retries' = retries + 1
    /\ pc' = "ready"
    /\ UNCHANGED <<initVars, drawVars, rounds>>

\* Too many repeats: GenerateCrashState returns false and the tester stops.
GiveUp ==
    /\ pc = "fill" /\ i = num_epochs
    /\ exists /\ retries + 1 >= max_retries
    /\ retries' = retries + 1
    /\ pc' = "done"
    /\ UNCHANGED <<initVars, drawVars, completed_permutations_, rounds, returned>>

GenerateCrashState == \/ Call \/ LastRound \/ DrawLength \/ DrawNothing
                      \/ CopyEpoch \/ PermuteEpoch
                      \/ Retry \/ ReturnNew \/ GiveUp

Halted == pc \in {"done", "aborted"}

Finished == Halted /\ UNCHANGED vars

-----------------------------------------------------------------------------

Init ==
    /\ data \in Logs
    /\ pc = "epoch"
    /\ epochs_ = <<>> /\ index = 0 /\ current_epoch = NewEpoch
    /\ prev_epoch_flush_op = FALSE
    /\ data_half \in Garbage
    /\ overlaps = <<>>
    /\ num_epochs = 0 /\ num_requests = 0 /\ i = 0 /\ crash_state = <<>>
    /\ retries = 0 /\ completed_permutations_ = {}
    /\ rounds = 0 /\ returned = <<>>

Next == InitDataVector \/ GenerateCrashState \/ Finished

Spec == Init /\ [][Next]_vars

\* The generator is sequential code that nothing blocks, so it keeps taking
\* steps until it returns.
FairSpec == Spec /\ WF_vars(InitDataVector \/ GenerateCrashState)

-----------------------------------------------------------------------------
(* Properties *)

\* Every variable keeps the type its declaration gives it in the code.
TypeOK ==
    /\ pc \in {"epoch", "ops", "ready", "draw", "fill", "done", "aborted"}
    /\ data \in Seq(DiskWrites)
    /\ epochs_ \in Seq(Epoch)
    /\ index \in 0..Len(data)
    /\ current_epoch \in Epoch
    /\ prev_epoch_flush_op \in BOOLEAN
    /\ data_half \in DiskWrites
    /\ overlaps \in Seq(SectorRange)
    /\ num_epochs \in Nat /\ num_requests \in Nat
    /\ i \in 0..num_epochs
    /\ crash_state \in Seq(EpochOp)
    /\ retries \in Nat /\ rounds \in 0..NumRounds
    /\ \A h \in completed_permutations_ : h \in Seq(Nat)
    /\ returned \in Seq(Seq(EpochOp))

Positions == 0..(Len(data) - 1)
Barriers == {b \in Positions : is_barrier_write(data[b + 1])}

InitReturned == pc \in {"ready", "draw", "fill", "done"}

\* Log position x occurs among the first n entries of the crash state.
PlacedBefore(x, n) == \E q \in 1..n : crash_state[q].abs_index = x

(***************************************************************************)
(* A drawn state never lets an operation reach the disk ahead of a barrier *)
(* that precedes it in the log: an entry with position x comes after       *)
(* entries for every position up to any barrier b < x.  This is what       *)
(* cutting the log at the barriers (InitDataVector) and placing all but    *)
(* the last epoch whole (gen_one_state) are for.                           *)
(***************************************************************************)
BarrierOrder ==
    \A p \in 1..Len(crash_state) : \A b \in Barriers :
        b < crash_state[p].abs_index =>
            \A x \in 0..b : PlacedBefore(x, p - 1)

(***************************************************************************)
(* A FUA or soft-barrier write that was not split is placed only after     *)
(* everything logged before it: permute_epoch holds the operation of a     *)
(* has_barrier epoch back until all the others are placed.                 *)
(***************************************************************************)
ForcedWriteLast ==
    \A p \in 1..Len(crash_state) : \A b \in Barriers :
        /\ ~IsSplit(data[b + 1])
        /\ crash_state[p] = [abs_index |-> b, op |-> data[b + 1]]
        => \A x \in 0..(b - 1) : PlacedBefore(x, p - 1)

\* The payload of a split flush is its own: no other operation of the log
\* carries it.
DistinctPayloads ==
    \A log \in Logs : \A b, c \in 1..Len(log) :
        IsSplit(log[b]) => /\ log[b].data # NoData
                           /\ log[c].data = log[b].data => c = b

(***************************************************************************)
(* The payload of a write with a flush reaches the disk only after the     *)
(* flush did: an entry that carries it comes after entries for every       *)
(* position up to the flush itself (the split into flag half and data      *)
(* half).  Stated for logs with DistinctPayloads.                          *)
(***************************************************************************)
FlushBeforeData ==
    \A p \in 1..Len(crash_state) : \A b \in Barriers :
        /\ IsSplit(data[b + 1])
        /\ crash_state[p].op.data = data[b + 1].data
        => \A x \in 0..b : PlacedBefore(x, p - 1)

(***************************************************************************)
(* InitDataVector keeps every logged operation: once it returned, each log *)
(* position is in some epoch as the operation itself or, for a split       *)
(* flush, as its flag half, and positions never decrease along the epochs. *)
(***************************************************************************)
LogKept ==
    InitReturned =>
        LET all == FlattenSeq([k \in DOMAIN epochs_ |-> epochs_[k].ops])
        IN /\ \A x \in Positions : \E p \in DOMAIN all :
                /\ all[p].abs_index = x
                /\ \/ all[p].op = data[x + 1]
                   \/ IsSplit(data[x + 1]) /\ all[p].op.data = NoData
           /\ \A p, q \in DOMAIN all :
                p < q => all[p].abs_index <= all[q].abs_index

\* A state was drawn to the end and is about to be looked up.
Drawn == pc = "fill" /\ i = num_epochs

(***************************************************************************)
(* The list of log positions identifies a crash state: a drawn state that  *)
(* is refused as already completed really was handed out before, although  *)
(* a data half shares its position with another entry.                     *)
(***************************************************************************)
NoFalseDuplicate ==
    Drawn /\ exists => \E k \in DOMAIN returned : returned[k] = crash_state

\* The tester is never handed the same crash state twice: what
\* GenerateCrashState returns with true is new.
NoRepeatedTest == IsInjective(returned)

\* The generation ends: GenerateCrashState gives up on finding a new state
\* after max_retries draws instead of spinning (the break in its loop), so the
\* tester's loop ends for every log.
Terminates == <>Halted

-----------------------------------------------------------------------------
(* What comments of the code say and the code does not do *)

\* InitDataVector's comment: a flush with data is divided and its data is made
\* "available only in the start of the next epoch".  Stated for a flush that is
\* not the last operation of the log, so that there is a next epoch.
FlushDataInNextEpoch ==
    InitReturned =>
        \A b \in Barriers : IsSplit(data[b + 1]) /\ b + 1 < Len(data) =>
            \E k \in 1..(Len(epochs_) - 1) :
                /\ Last(epochs_[k].ops).abs_index = b
                /\ Head(epochs_[k + 1].ops).op = DataHalf(data[b + 1])
=============================================================================
