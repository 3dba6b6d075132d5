--------------------------- MODULE CrashTestProofs ---------------------------
(***************************************************************************)
(* Proofs about CrashTest, for every log, disk, number of rounds and       *)
(* behaviour of fsck, mount and check_test.                                *)
(***************************************************************************)
EXTENDS CrashTest, PermuterProofs

\* A round of testing leaves the generator alone.
LEMMA TestKeepsGenerator == Test => UNCHANGED vars
  BY DEF Test, OpenSnapshot, OpenFails, clone_device_restore, RestoreFails,
         SkipNonWrite, WriteStep, WriteSome, WriteFails, WritesDone, Fsck, Mount,
         MountFails, CheckTest, Umount, UmountFails

\* A step of the tester is a step of the generator or none.
LEMMA TestNextIsNext == [TestNext]_<<vars, testVars>> => [Next]_vars
  <1> SUFFICES ASSUME [TestNext]_<<vars, testVars>> PROVE [Next]_vars
    OBVIOUS
  <1>1. CASE Generate
    BY <1>1, Zenon DEF Generate, Next
  <1>2. CASE Test
    BY <1>2, TestKeepsGenerator
  <1>3. CASE LoopDone
    BY <1>3, Zenon DEF LoopDone, Next
  <1>4. CASE UNCHANGED <<vars, testVars>>
    BY <1>4
  <1> QED BY <1>1, <1>2, <1>3, <1>4 DEF TestNext

(***************************************************************************)
(* The tester drives the generator and does nothing else to it: every      *)
(* behaviour of the tester is one of Permuter, with all that is proved     *)
(* about it.                                                               *)
(***************************************************************************)
THEOREM TesterDrivesGenerator == TestSpec => Spec
  <1>1. TestInit => Init
    BY DEF TestInit
  <1> QED BY <1>1, TestNextIsNext, PTL DEF TestSpec, Spec

-----------------------------------------------------------------------------
(* Types, and the descriptors on the snapshot *)

\* A call of GenerateCrashState hands out one state at most.
RoundInv ==
    /\ Len(returned) <= rounds
    /\ pc \in {"draw", "fill"} => Len(returned) < rounds

(***************************************************************************)
(* A round opens the snapshot once and closes it on every path but the     *)
(* failed restore, so a descriptor is leaked by a round that is over.      *)
(***************************************************************************)
FdInv ==
    /\ snapshot_fds \in Nat /\ snapshot_fds <= Len(returned)
    /\ tester = "open" => snapshot_fds < Len(returned)
    /\ tester \in {"restore", "write"} => snapshot_fds >= 1

\* Where a round's writes are.
WriteInv ==
    /\ current \in Nat \ {0}
    /\ tester \in {"write", "fsck"} => current <= Len(crash_state) + 1

TestTypeInv == TypeInv /\ TestTypeOK /\ RoundInv /\ FdInv /\ WriteInv

\* The generator counts its calls and hands out one state a call.
LEMMA RoundInvNext == TypeInv /\ RoundInv /\ [Next]_vars => RoundInv'
  <1> SUFFICES ASSUME TypeInv, RoundInv, [Next]_vars PROVE RoundInv'
    OBVIOUS
  <1>1. rounds \in Nat /\ returned \in Seq(Seq(EpochOp)) /\ crash_state \in Seq(EpochOp)
    BY PermuterAssumption DEF TypeInv, TypeOK
  <1>2. Len(returned) \in Nat
    BY <1>1
  <1>3. CASE InitDataVector
    BY <1>2, <1>3 DEF InitDataVector, EpochStart, AddOp, CloseSplit, CloseBarrier,
       CloseTail, InitDone, RoundInv, initVars, callVars
  <1>4. CASE GenerateCrashState
    <2>1. CASE Call
      BY <1>1, <1>2, <2>1 DEF Call, RoundInv
    <2>2. CASE ReturnNew
      <3>1. Len(returned') = Len(returned) + 1 /\ pc = "fill" /\ pc' = "ready"
            /\ rounds' = rounds
        BY <1>1, <2>2 DEF ReturnNew
      <3> QED BY <1>1, <1>2, <3>1 DEF RoundInv
    <2>3. CASE LastRound \/ DrawLength \/ DrawNothing \/ CopyEpoch \/ PermuteEpoch
               \/ Retry \/ GiveUp
      BY <1>1, <1>2, <2>3 DEF LastRound, DrawLength, DrawNothing, CopyEpoch,
         PermuteEpoch, Retry, GiveUp, RoundInv, callVars
    <2> QED BY <1>4, <2>1, <2>2, <2>3 DEF GenerateCrashState
  <1>5. CASE Finished \/ UNCHANGED vars
    BY <1>5 DEF Finished, vars, callVars, RoundInv
  <1> QED BY <1>3, <1>4, <1>5 DEF Next

\* What a step of the generator means for the tester.
LEMMA GenerateSteps ==
    ASSUME TypeInv, Generate
    PROVE  \/ returned' = returned /\ tester' = "generate"
           \/ Len(returned') = Len(returned) + 1 /\ tester' = "open"
  <1>1. returned \in Seq(Seq(EpochOp)) /\ crash_state \in Seq(EpochOp)
    BY DEF TypeInv, TypeOK
  <1>2. tester' = IF returned' # returned THEN "open" ELSE "generate"
    BY DEF Generate
  <1>3. CASE ReturnNew
    <2>1. Len(returned') = Len(returned) + 1
      BY <1>1, <1>3 DEF ReturnNew
    <2> QED BY <1>1, <1>2, <2>1
  <1>4. CASE ~ReturnNew
    <2>1. returned' = returned
      BY <1>4 DEF Generate, InitDataVector, EpochStart, AddOp, CloseSplit, CloseBarrier,
         CloseTail, InitDone, GenerateCrashState, Call, LastRound, DrawLength,
         DrawNothing, CopyEpoch, PermuteEpoch, Retry, GiveUp, callVars
    <2> QED BY <1>2, <2>1
  <1> QED BY <1>3, <1>4

\* Recording a result keeps the list of results well formed.
LEMMA AddedType ==
    ASSUME completed_ \in Seq(Results), NEW fs \in FsErrors,
           NEW error \in DataErrors \cup {"kClean"}, NEW outcome,
           AddCompletedTest(fs, error, outcome)
    PROVE  completed_' \in Seq(Results)
  <1>1. [fs_test |-> fs, data_test |-> error] \in Results
    BY DEF Results
  <1> QED BY <1>1 DEF AddCompletedTest

\* The operation under the cursor of test_write_data.
LEMMA CurrentType ==
    ASSUME TypeInv, WriteInv, InWrites
    PROVE  Current \in DiskWrites /\ current \in 1..Len(crash_state)
  <1>1. crash_state \in Seq(EpochOp)
    BY DEF TypeInv, TypeOK
  <1>2. current \in 1..Len(crash_state)
    BY <1>1 DEF WriteInv, InWrites
  <1>3. crash_state[current] \in EpochOp
    BY <1>1, <1>2
  <1> QED BY <1>2, <1>3 DEF Current, EpochOp

\* The end of a round resets its locals.
LEMMA RoundEnds ==
    ASSUME EndRound, snapshot_fds' \in Nat, snapshot_fds' <= Len(returned'),
           bytes_written \in Nat
    PROVE  FdInv' /\ WriteInv' /\ tester' = "generate" /\ bytes_written' \in Nat
  <1>1. tester' = "generate" /\ current' = 1 /\ bytes_written' = 0
    BY DEF EndRound
  <1>2. FdInv'
    BY <1>1 DEF FdInv
  <1>3. WriteInv'
    BY <1>1 DEF WriteInv
  <1> QED BY <1>1, <1>2, <1>3

\* Every step of a round keeps the types and closes what it opened.
LEMMA TestType == ASSUME TestTypeInv, Test PROVE TestTypeOK' /\ FdInv' /\ WriteInv'
  <1> USE DEF TestTypeInv
  <1>1. /\ crash_state \in Seq(EpochOp) /\ Len(crash_state) \in Nat
        /\ Len(returned) \in Nat /\ NumRounds \in Nat /\ Len(returned) <= NumRounds
    <2>1. crash_state \in Seq(EpochOp) /\ returned \in Seq(Seq(EpochOp)) /\ NumRounds \in Nat
          /\ rounds \in 0..NumRounds
      BY PermuterAssumption DEF TypeInv, TypeOK
    <2>2. Len(crash_state) \in Nat /\ Len(returned) \in Nat
      BY <2>1
    <2> QED BY <2>1, <2>2 DEF RoundInv
  <1>2. crash_state' = crash_state /\ returned' = returned
    BY TestKeepsGenerator DEF vars, drawVars, callVars
  <1> DEFINE TypeOfFds == snapshot_fds \in 0..(NumRounds + 1)
  <1>3. FdInv' /\ WriteInv' => (current \in 1..(Len(crash_state) + 1) \/ tester \notin {"write", "fsck"})'
                              /\ TypeOfFds'
    BY <1>1, <1>2 DEF FdInv, WriteInv
  <1> DEFINE Rest == /\ tester \in {"generate", "open", "restore", "write", "fsck", "mount",
                                     "check_test", "umount"}
                     /\ DOMAIN snapshot = Bytes /\ mounted \in BOOLEAN
                     /\ bytes_written \in Nat
                     /\ completed_ \in Seq(Results)
                     /\ faulty \in BOOLEAN
  <1>4. SUFFICES FdInv' /\ WriteInv' /\ Rest'
    BY <1>3, Zenon DEF TestTypeOK
  <1>5. Rest /\ FdInv /\ WriteInv
    BY DEF TestTypeOK
  <1> HIDE DEF TestTypeInv
  <1>6. CASE OpenSnapshot
    BY <1>1, <1>2, <1>5, <1>6 DEF OpenSnapshot, FdInv, WriteInv, roundVars, resultVars
  <1>7. CASE OpenFails
    BY <1>1, <1>2, <1>5, <1>7, RoundEnds DEF OpenFails, FdInv, deviceVars
  <1>8. CASE clone_device_restore
    BY <1>1, <1>2, <1>5, <1>8 DEF clone_device_restore, FdInv, WriteInv, resultVars
  <1>9. CASE RestoreFails
    <2>1. completed_' \in Seq(Results)
      BY <1>5, <1>9, AddedType DEF RestoreFails, FsErrors
    <2> QED BY <1>1, <1>2, <1>5, <1>9, <2>1, RoundEnds DEF RestoreFails, FdInv, deviceVars
  <1>10. CASE SkipNonWrite
    BY <1>1, <1>2, <1>5, <1>10 DEF SkipNonWrite, InWrites, FdInv, WriteInv, deviceVars,
       resultVars
  <1>11. CASE WriteStep
    <2>1. InWrites
      BY <1>11 DEF WriteStep
    <2>2. Current.size \in Nat /\ current <= Len(crash_state)
      BY <2>1, CurrentType DEF TestTypeInv, DiskWrites, InWrites
    <2>3. PICK n \in IF Current.size = 0 THEN {0} ELSE 1..(Current.size - bytes_written) :
             WriteSome(n)
      BY <1>11 DEF WriteStep
    <2>4. n \in Nat
      BY <1>5, <2>2, <2>3
    <2>5. snapshot_fds' = snapshot_fds /\ tester' = tester /\ mounted' = mounted
          /\ completed_' = completed_ /\ faulty' = faulty /\ DOMAIN snapshot' = Bytes
      BY <2>3 DEF WriteSome, Written, resultVars
    <2>6. \/ bytes_written' = bytes_written + n /\ current' = current
          \/ bytes_written' = 0 /\ current' = current + 1
      BY <2>3 DEF WriteSome
    <2>7. bytes_written' \in Nat /\ current' \in Nat \ {0} /\ current' <= Len(crash_state) + 1
      BY <1>1, <1>5, <2>2, <2>4, <2>6 DEF WriteInv
    <2> QED BY <1>1, <1>2, <1>5, <2>5, <2>7 DEF FdInv, WriteInv
  <1>12. CASE WriteFails
    <2>1. completed_' \in Seq(Results)
      BY <1>5, <1>12, AddedType DEF WriteFails, FsErrors
    <2>2. snapshot_fds' \in Nat /\ snapshot_fds' <= Len(returned)
      <3>1. snapshot_fds \in Nat /\ snapshot_fds <= Len(returned) /\ snapshot_fds >= 1
        BY <1>5, <1>12 DEF WriteFails, InWrites, FdInv
      <3>2. snapshot_fds' = snapshot_fds - 1
        BY <1>12 DEF WriteFails
      <3> QED BY <1>1, <3>1, <3>2
    <2> QED BY <1>1, <1>2, <1>5, <1>12, <2>1, <2>2, RoundEnds DEF WriteFails
  <1>13. CASE WritesDone
    BY <1>1, <1>2, <1>5, <1>13 DEF WritesDone, FdInv, WriteInv, roundVars, resultVars
  <1>14. CASE Fsck
    <2>1. CASE AddCompletedTest("kCheck", "kClean", "not checked") /\ snapshot' = Scribbled
               /\ EndRound
      <3>1. completed_' \in Seq(Results)
        BY <1>5, <2>1, AddedType DEF FsErrors
      <3> QED BY <1>1, <1>2, <1>5, <1>14, <2>1, <3>1, RoundEnds DEF Fsck, FdInv, Scribbled
    <2>2. CASE tester' = "mount" /\ current' = current /\ bytes_written' = bytes_written
               /\ UNCHANGED resultVars /\ snapshot' \in {snapshot, Scribbled}
      BY <1>1, <1>2, <1>5, <1>14, <2>2 DEF Fsck, FdInv, WriteInv, Scribbled, resultVars
    <2> QED BY <1>14, <2>1, <2>2 DEF Fsck
  <1>15. CASE Mount
    BY <1>1, <1>2, <1>5, <1>15 DEF Mount, FdInv, WriteInv, roundVars, resultVars
  <1>16. CASE MountFails
    <2>1. completed_' \in Seq(Results)
      BY <1>5, <1>16, AddedType DEF MountFails, FsErrors
    <2> QED BY <1>1, <1>2, <1>5, <1>16, <2>1, RoundEnds DEF MountFails, FdInv, deviceVars
  <1>17. CASE CheckTest
    <2>1. PICK r \in CheckReturns : \E outcome : AddCompletedTest(FixedError(r.ret), r.error, outcome)
      BY <1>17, Zenon DEF CheckTest
    <2>2. FixedError(r.ret) \in FsErrors /\ r.error \in DataErrors \cup {"kClean"}
      BY CrashTestAssumption DEF FixedError, FsErrors
    <2>3. completed_' \in Seq(Results)
      BY <1>5, <2>1, <2>2, AddedType
    <2> QED BY <1>1, <1>2, <1>5, <1>17, <2>3 DEF CheckTest, FdInv, WriteInv, roundVars,
            Scribbled
  <1>18. CASE Umount
    BY <1>1, <1>2, <1>5, <1>18, RoundEnds DEF Umount, FdInv, resultVars
  <1>19. CASE UmountFails
    BY <1>1, <1>2, <1>5, <1>19, RoundEnds DEF UmountFails, FdInv, resultVars, deviceVars
  <1> QED BY <1>6, <1>7, <1>8, <1>9, <1>10, <1>11, <1>12, <1>13, <1>14, <1>15, <1>16,
          <1>17, <1>18, <1>19 DEF Test

\* The start of the tester.
LEMMA InitTestType == TestInit => TestTypeInv
  <1> SUFFICES ASSUME TestInit PROVE TestTypeInv
    OBVIOUS
  <1>1. TypeInv /\ returned = <<>> /\ rounds = 0 /\ pc = "epoch" /\ Len(crash_state) \in Nat
    BY InitType DEF TestInit, Init
  <1>2. NumRounds \in Nat
    BY PermuterAssumption
  <1>3. TestTypeOK
    <2>1. <<>> \in Seq(Results) /\ 0 \in 0..(NumRounds + 1) /\ FALSE \in BOOLEAN
      BY <1>2
    <2>2. DOMAIN snapshot = Bytes
      BY DEF TestInit
    <2> QED BY <2>1, <2>2 DEF TestInit, TestTypeOK
  <1>4. FdInv
    BY <1>1 DEF FdInv, TestInit
  <1>5. WriteInv
    BY DEF WriteInv, TestInit
  <1> QED BY <1>1, <1>3, <1>4, <1>5 DEF TestTypeInv, RoundInv

\* Every step keeps the types.
LEMMA TestTypeNext == TestTypeInv /\ [TestNext]_<<vars, testVars>> => TestTypeInv'
  <1> SUFFICES ASSUME TestTypeInv, [TestNext]_<<vars, testVars>> PROVE TestTypeInv'
    OBVIOUS
  <1>1. [Next]_vars
    BY TestNextIsNext
  <1>2. TypeInv' /\ RoundInv'
    BY <1>1, TypeInvNext, RoundInvNext DEF TestTypeInv
  <1>3. Len(returned) \in Nat /\ Len(returned') \in Nat /\ NumRounds \in Nat
        /\ Len(returned') <= NumRounds
    <2>1. returned' \in Seq(Seq(EpochOp)) /\ rounds' \in 0..NumRounds
      BY <1>2 DEF TypeInv, TypeOK
    <2>2. returned \in Seq(Seq(EpochOp)) /\ NumRounds \in Nat
      BY PermuterAssumption DEF TestTypeInv, TypeInv, TypeOK
    <2>3. Len(returned') \in Nat /\ Len(returned) \in Nat
      BY <2>1, <2>2
    <2> QED BY <1>2, <2>1, <2>2, <2>3 DEF RoundInv
  <1>4. TestTypeOK' /\ FdInv' /\ WriteInv'
    <2>1. CASE Generate
      <3>1. UNCHANGED <<deviceVars, roundVars, resultVars, faulty>> /\ tester = "generate"
        BY <2>1 DEF Generate
      <3>2. FdInv'
        <4>1. tester' \in {"generate", "open"}
              /\ \/ Len(returned') = Len(returned) /\ tester' = "generate"
                 \/ Len(returned') = Len(returned) + 1
          BY <2>1, GenerateSteps DEF TestTypeInv
        <4>2. snapshot_fds' = snapshot_fds /\ FdInv
          BY <3>1 DEF deviceVars, TestTypeInv
        <4> QED BY <1>3, <4>1, <4>2 DEF FdInv
      <3>3. WriteInv' /\ tester' \in {"generate", "open"}
        <4>1. tester' \in {"generate", "open"}
          BY <2>1, GenerateSteps DEF TestTypeInv
        <4> QED BY <3>1, <4>1 DEF WriteInv, roundVars, TestTypeInv
      <3>4. snapshot_fds' \in 0..(NumRounds + 1)
        BY <1>3, <3>2 DEF FdInv
      <3> QED BY <3>1, <3>2, <3>3, <3>4 DEF TestTypeOK, TestTypeInv, deviceVars, roundVars,
              resultVars
    <2>2. CASE Test
      BY <2>2, TestType
    <2>3. CASE LoopDone \/ UNCHANGED <<vars, testVars>>
      <3>1. UNCHANGED <<vars, testVars>>
        BY <2>3 DEF LoopDone, Finished
      <3> QED BY <3>1 DEF TestTypeInv, TestTypeOK, FdInv, WriteInv, vars, testVars, drawVars,
              callVars, deviceVars, roundVars, resultVars
    <2> QED BY <2>1, <2>2, <2>3 DEF TestNext
  <1> QED BY <1>2, <1>4 DEF TestTypeInv

\* TestTypeInv holds in every state of the tester.
LEMMA TestTypeInvHolds == TestSpec => []TestTypeInv
  BY InitTestType, TestTypeNext, PTL DEF TestSpec

(***************************************************************************)
(* The variables of test_check_random_permutations keep their types; no    *)
(* path closes a descriptor twice, and a round leaks one at most.          *)
(***************************************************************************)
THEOREM TestTypeCorrect == TestSpec => []TestTypeOK
  <1>1. TestTypeInv => TestTypeOK
    BY DEF TestTypeInv
  <1> QED BY <1>1, TestTypeInvHolds, PTL

-----------------------------------------------------------------------------
(* What a sequence of operations leaves on an image *)

Byte == {Base, Other} \cup ((Payload \cup {NoData}) \X Int)
Images == [Bytes -> Byte]

\* Writing part of an operation makes an image of an image.
LEMMA WrittenType ==
    ASSUME NEW image \in Images, NEW w \in DiskWrites, NEW off \in Nat, NEW n \in Nat
    PROVE  Written(image, w, off, n) \in Images
  <1>1. w.data \in Payload \cup {NoData} /\ w.write_sector * SECTOR_SIZE \in Int
    BY CrashTestAssumption DEF DiskWrites
  <1>2. Bytes \subseteq Int
    BY CrashTestAssumption DEF Bytes
  <1> DEFINE z == w.write_sector * SECTOR_SIZE
             k(a) == a - z
  <1>3. Written(image, w, off, n) =
          [a \in Bytes |-> IF k(a) \in off..(off + n - 1) THEN <<w.data, k(a)>> ELSE image[a]]
    BY DEF Written
  <1> HIDE DEF z
  <1>4. ASSUME NEW a \in Bytes
        PROVE  (IF k(a) \in off..(off + n - 1) THEN <<w.data, k(a)>> ELSE image[a]) \in Byte
    <2>1. k(a) \in Int
      BY <1>1, <1>2 DEF z
    <2>2. image[a] \in Byte
      BY DEF Images
    <2> HIDE DEF k
    <2> QED BY <1>1, <2>1, <2>2 DEF Byte
  <1> QED BY <1>3, <1>4 DEF Images

\* Writing nothing changes nothing.
LEMMA WriteNothing ==
    ASSUME NEW image \in Images, NEW w \in DiskWrites, NEW off \in Nat
    PROVE  Written(image, w, off, 0) = image
  <1> DEFINE z == w.write_sector * SECTOR_SIZE
  <1>1. \A x : ~(x \in off..(off + 0 - 1))
    OBVIOUS
  <1>2. Written(image, w, off, 0) =
          [a \in Bytes |-> IF a - z \in off..(off + 0 - 1) THEN <<w.data, a - z>> ELSE image[a]]
    BY DEF Written
  <1> HIDE DEF z
  <1>3. Written(image, w, off, 0) = [a \in Bytes |-> image[a]]
    BY <1>1, <1>2
  <1> QED BY <1>3 DEF Images

\* A write that is continued where it stopped is one write.
LEMMA WriteContinued ==
    ASSUME NEW image \in Images, NEW w \in DiskWrites, NEW b \in Nat, NEW n \in Nat
    PROVE  Written(Written(image, w, 0, b), w, b, n) = Written(image, w, 0, b + n)
  <1> DEFINE z == w.write_sector * SECTOR_SIZE
             k(a) == a - z
             im == Written(image, w, 0, b)
  <1>1. z \in Int /\ \A a \in Bytes : k(a) \in Int
    <2>1. z \in Int
      BY CrashTestAssumption DEF DiskWrites
    <2>2. Bytes \subseteq Int
      BY CrashTestAssumption DEF Bytes
    <2> HIDE DEF z
    <2> QED BY <2>1, <2>2
  <1>2. im = [a \in Bytes |-> IF k(a) \in 0..(0 + b - 1) THEN <<w.data, k(a)>> ELSE image[a]]
    BY DEF Written
  <1>3. Written(im, w, b, n) =
          [a \in Bytes |-> IF k(a) \in b..(b + n - 1) THEN <<w.data, k(a)>> ELSE im[a]]
    BY DEF Written
  <1>4. Written(image, w, 0, b + n) =
          [a \in Bytes |-> IF k(a) \in 0..(0 + (b + n) - 1) THEN <<w.data, k(a)>> ELSE image[a]]
    BY DEF Written
  <1> HIDE DEF z, im, k
  <1>5. ASSUME NEW a \in Bytes
        PROVE  k(a) \in 0..(0 + (b + n) - 1) <=> k(a) \in b..(b + n - 1) \/ k(a) \in 0..(0 + b - 1)
    BY <1>1
  <1>6. \A a \in Bytes : im[a] = IF k(a) \in 0..(0 + b - 1) THEN <<w.data, k(a)>> ELSE image[a]
    BY <1>2
  <1>7. \A a \in Bytes :
          (IF k(a) \in b..(b + n - 1) THEN <<w.data, k(a)>> ELSE im[a])
          = (IF k(a) \in 0..(0 + (b + n) - 1) THEN <<w.data, k(a)>> ELSE image[a])
    BY <1>5, <1>6, Zenon
  <1> QED BY <1>3, <1>4, <1>7 DEF im

\* What one more operation leaves on an image.
Applied(image, w) == IF has_write_flag(w) THEN Written(image, w, 0, w.size) ELSE image

\* after lists what the prefixes of ops leave on image.
IsAfter(after, image, ops) ==
    /\ after[0] = image
    /\ \A n \in 0..Len(ops) : after[n] \in Images
    /\ \A n \in 1..Len(ops) : after[n] = Applied(after[n - 1], ops[n])

\* An operation makes an image of an image.
LEMMA AppliedType ==
    ASSUME NEW image \in Images, NEW w \in DiskWrites PROVE Applied(image, w) \in Images
  <1>1. w.size \in Nat /\ 0 \in Nat
    BY DEF DiskWrites
  <1> QED BY <1>1, WrittenType DEF Applied

\* After is what its recursion says, for every sequence of operations.
LEMMA AfterSteps ==
    ASSUME NEW image \in Images, NEW ops \in Seq(DiskWrites)
    PROVE  IsAfter(After(image, ops), image, ops)
  <1> DEFINE N == Len(ops)
             Def(f) == f = [n \in 0..N |-> IF n = 0 THEN image
                                           ELSE IF has_write_flag(ops[n])
                                                THEN Written(f[n - 1], ops[n], 0, ops[n].size)
                                                ELSE f[n - 1]]
             after == CHOOSE f : Def(f)
             next(m, im) == IF m + 1 \in 1..N THEN Applied(im, ops[m + 1]) ELSE im
             step == [m \in Nat |-> [im \in Images |-> next(m, im)]]
  <1>1. After(image, ops) = after
    BY DEF After
  <1>2. N \in Nat /\ \A n \in 1..N : ops[n] \in DiskWrites
    OBVIOUS
  <1>3. \A m \in Nat : \A im \in Images : next(m, im) \in Images
    BY <1>2, AppliedType
  <1>4. step \in [Nat -> [Images -> Images]]
        /\ \A m \in Nat : \A im \in Images : step[m][im] = next(m, im)
    <2> HIDE DEF next, Images
    <2> QED BY <1>3
  <1>5. PICK h : IsRecursive(h, Images, image, step)
    <2> HIDE DEF step
    <2> QED BY <1>4, RecursionExists
  <1> HIDE DEF step
  <1>6. h \in [Nat -> Images] /\ h[0] = image /\ \A m \in Nat : h[m + 1] = step[m][h[m]]
    BY <1>5 DEF IsRecursive
  <1> HIDE DEF N
  <1>7. ASSUME NEW n \in 1..N PROVE h[n] = Applied(h[n - 1], ops[n]) /\ h[n - 1] \in Images
    <2>1. n - 1 \in Nat /\ (n - 1) + 1 = n
      BY <1>2
    <2>2. h[n - 1] \in Images
      BY <1>6, <2>1
    <2>3. step[n - 1][h[n - 1]] = next(n - 1, h[n - 1])
      <3> HIDE DEF next
      <3> QED BY <1>4, <2>1, <2>2
    <2>4. next(n - 1, h[n - 1]) = Applied(h[n - 1], ops[n])
      BY <2>1
    <2>5. h[n] = step[n - 1][h[n - 1]]
      BY <1>6, <2>1
    <2> QED BY <2>2, <2>3, <2>4, <2>5
  <1> DEFINE f == [n \in 0..N |-> h[n]]
  <1>8. Def(f)
    <2>1. ASSUME NEW n \in 0..N
          PROVE  h[n] = IF n = 0 THEN image
                        ELSE IF has_write_flag(ops[n])
                             THEN Written(f[n - 1], ops[n], 0, ops[n].size) ELSE f[n - 1]
      <3>1. CASE n = 0
        BY <1>6, <3>1
      <3>2. CASE n # 0
        <4>1. n \in 1..N /\ n - 1 \in 0..N
          BY <1>2, <3>2
        <4>2. f[n - 1] = h[n - 1]
          BY <4>1
        <4> QED BY <1>7, <3>2, <4>1, <4>2 DEF Applied
      <3> QED BY <3>1, <3>2
    <2>2. f = [n \in 0..N |-> IF n = 0 THEN image
                              ELSE IF has_write_flag(ops[n])
                                   THEN Written(f[n - 1], ops[n], 0, ops[n].size)
                                   ELSE f[n - 1]]
      BY <2>1
    <2> QED BY <2>2
  <1>9. Def(after)
    <2> HIDE DEF Def
    <2> QED BY <1>8
  <1> HIDE DEF after, f
  <1>10. after[0] = image
    BY <1>2, <1>9
  <1>11. ASSUME NEW n \in 1..N PROVE after[n] = Applied(after[n - 1], ops[n])
    <2>1. n \in 0..N /\ n # 0
      BY <1>2
    <2> QED BY <1>9, <2>1 DEF Applied
  <1> HIDE DEF Def
  <1> DEFINE S == {m \in Nat : m \in 0..N => after[m] \in Images}
  <1>12. 0 \in S
    BY <1>10
  <1>13. ASSUME NEW m \in Nat, m \in S PROVE m + 1 \in S
    <2> SUFFICES ASSUME m + 1 \in 0..N PROVE after[m + 1] \in Images
      OBVIOUS
    <2>1. m + 1 \in 1..N /\ (m + 1) - 1 = m /\ m \in 0..N
      BY <1>2
    <2>2. after[m] \in Images /\ ops[m + 1] \in DiskWrites
      BY <1>2, <1>13, <2>1
    <2> QED BY <1>11, <2>1, <2>2, AppliedType
  <1>14. \A m \in Nat : m \in S
    <2> HIDE DEF S
    <2> QED BY <1>12, <1>13, NatInduct
  <1>15. \A n \in 0..N : after[n] \in Images
    BY <1>2, <1>14
  <1> QED BY <1>1, <1>10, <1>11, <1>15 DEF IsAfter, N

-----------------------------------------------------------------------------
(* A round writes its own crash state *)

CrashOps == Ops(crash_state)
CrashImage == After(BaseImage, CrashOps)

\* As long as nothing failed to be undone, a round holds the only descriptor and
\* the only mount.
Released ==
    /\ snapshot_fds = IF tester \in {"restore", "write"} THEN 1 ELSE 0
    /\ mounted <=> tester \in {"check_test", "umount"}

\* test_write_data has written the operations before current, and the first
\* bytes_written bytes of the one it is on.
Progress ==
    /\ bytes_written # 0 => /\ current <= Len(crash_state) /\ has_write_flag(Current)
                            /\ bytes_written < Current.size
    /\ snapshot = IF bytes_written = 0 THEN CrashImage[current - 1]
                  ELSE Written(CrashImage[current - 1], Current, 0, bytes_written)

ReplayInv ==
    ~faulty => /\ Released
               /\ tester = "write" => Progress
               /\ tester = "fsck" => snapshot = CrashImage[Len(crash_state)]

\* The operations of the crash state and the images they lead to.
LEMMA CrashOpsType ==
    ASSUME TypeInv
    PROVE  /\ CrashOps \in Seq(DiskWrites) /\ Len(CrashOps) = Len(crash_state)
           /\ Len(crash_state) \in Nat
           /\ \A p \in 1..Len(crash_state) : CrashOps[p] = crash_state[p].op
           /\ BaseImage \in Images
           /\ IsAfter(CrashImage, BaseImage, CrashOps)
  <1>1. crash_state \in Seq(EpochOp)
    BY DEF TypeInv, TypeOK
  <1>2. Len(crash_state) \in Nat /\ DOMAIN crash_state = 1..Len(crash_state)
        /\ \A p \in 1..Len(crash_state) : crash_state[p] \in EpochOp
    BY <1>1
  <1>3. CrashOps = [p \in 1..Len(crash_state) |-> crash_state[p].op]
    BY <1>2 DEF CrashOps, Ops
  <1>4. \A p \in 1..Len(crash_state) : crash_state[p].op \in DiskWrites
    BY <1>2 DEF EpochOp
  <1>5. CrashOps \in Seq(DiskWrites) /\ Len(CrashOps) = Len(crash_state)
        /\ \A p \in 1..Len(crash_state) : CrashOps[p] = crash_state[p].op
    BY <1>2, <1>3, <1>4
  <1>6. BaseImage \in Images
    BY DEF BaseImage, Images, Byte
  <1> QED BY <1>2, <1>5, <1>6, AfterSteps DEF CrashImage

\* The image after the operation test_write_data is on.
LEMMA CrashImageNext ==
    ASSUME TypeInv, WriteInv, InWrites
    PROVE  /\ CrashImage[current - 1] \in Images
           /\ (current + 1) - 1 = current
           /\ CrashImage[current] = Applied(CrashImage[current - 1], Current)
  <1>1. current \in 1..Len(crash_state)
    BY CurrentType
  <1>2. Len(crash_state) \in Nat /\ CrashOps[current] = Current
        /\ IsAfter(CrashImage, BaseImage, CrashOps) /\ Len(CrashOps) = Len(crash_state)
    BY <1>1, CrashOpsType DEF Current
  <1>3. current - 1 \in 0..Len(CrashOps) /\ current \in 1..Len(CrashOps)
        /\ (current + 1) - 1 = current
    BY <1>1, <1>2
  <1> QED BY <1>2, <1>3 DEF IsAfter

\* Writing goes on where it stopped: short writes add up to the operation.
LEMMA WriteProgress ==
    ASSUME TestTypeInv, InWrites, Progress, WriteStep PROVE Progress'
  <1>1. PICK n \in IF Current.size = 0 THEN {0} ELSE 1..(Current.size - bytes_written) :
           WriteSome(n)
    BY DEF WriteStep
  <1>2. TypeInv /\ WriteInv /\ bytes_written \in Nat
    BY DEF TestTypeInv, TestTypeOK
  <1>3. Current \in DiskWrites /\ current \in 1..Len(crash_state) /\ Current.size \in Nat
        /\ Len(crash_state) \in Nat
    BY <1>2, CurrentType, CrashOpsType DEF DiskWrites
  <1>4. has_write_flag(Current) /\ UNCHANGED <<crash_state, CrashImage>>
    BY <1>1 DEF WriteSome, vars, drawVars, CrashImage, CrashOps
  <1>5. n \in Nat /\ bytes_written + n <= Current.size
        /\ (bytes_written + n = 0 => Current.size = 0)
    <2>1. bytes_written = 0 \/ bytes_written < Current.size
      BY DEF Progress
    <2> QED BY <1>1, <1>2, <1>3, <2>1
  <1> DEFINE image == CrashImage[current - 1]
             b == bytes_written
  <1>6. image \in Images /\ (current + 1) - 1 = current
        /\ CrashImage[current] = Written(image, Current, 0, Current.size)
    BY <1>2, <1>4, CrashImageNext DEF Applied
  <1>7. snapshot = Written(image, Current, 0, b)
    <2>1. CASE b = 0
      BY <1>3, <1>6, <2>1, WriteNothing DEF Progress
    <2>2. CASE b # 0
      BY <2>2 DEF Progress
    <2> QED BY <2>1, <2>2
  <1>8. snapshot' = Written(image, Current, 0, b + n)
    <2>1. snapshot' = Written(snapshot, Current, b, n)
      BY <1>1 DEF WriteSome
    <2> HIDE DEF image, b
    <2> QED BY <1>2, <1>3, <1>5, <1>6, <1>7, <2>1, WriteContinued DEF b
  <1>9. CASE b + n < Current.size
    <2>1. bytes_written' = b + n /\ current' = current
      BY <1>1, <1>9 DEF WriteSome
    <2>2. Current' = Current /\ (CrashImage[current - 1])' = image
      BY <1>4, <2>1 DEF Current
    <2>3. bytes_written' # 0
      BY <1>2, <1>3, <1>5, <1>9, <2>1
    <2>4. snapshot' = Written((CrashImage[current - 1])', Current', 0, bytes_written')
      BY <1>8, <2>1, <2>2
    <2>5. current' <= Len(crash_state') /\ has_write_flag(Current') /\ bytes_written' < Current'.size
      BY <1>3, <1>4, <1>9, <2>1, <2>2
    <2> HIDE DEF image, b
    <2> QED BY <2>3, <2>4, <2>5 DEF Progress
  <1>10. CASE ~(b + n < Current.size)
    <2>1. bytes_written' = 0 /\ current' = current + 1
      BY <1>1, <1>10 DEF WriteSome
    <2>2. b + n = Current.size
      BY <1>2, <1>3, <1>5, <1>10
    <2>3. snapshot' = CrashImage[current]
      BY <1>6, <1>8, <2>2
    <2>4. (CrashImage[current - 1])' = CrashImage[current]
      BY <1>4, <1>6, <2>1
    <2> QED BY <2>1, <2>3, <2>4 DEF Progress
  <1> QED BY <1>9, <1>10

\* A round that ends, or goes on past the writes, having undone what it did.
LEMMA ReplayEnds ==
    ASSUME ~faulty' => Released', tester' \notin {"write", "fsck"}
    PROVE  ReplayInv'
  BY Zenon DEF ReplayInv

\* Every step of a round: what it writes is its crash state.
LEMMA TestReplays == ASSUME TestTypeInv, ReplayInv, Test PROVE ReplayInv'
  <1>1. crash_state' = crash_state /\ CrashImage' = CrashImage
    BY TestKeepsGenerator DEF vars, drawVars, CrashImage, CrashOps
  <1>2. CASE faulty
    <2>1. faulty'
      BY <1>2 DEF Test, OpenSnapshot, OpenFails, clone_device_restore, RestoreFails,
         SkipNonWrite, WriteStep, WriteSome, WriteFails, WritesDone, Fsck, Mount,
         MountFails, CheckTest, Umount, UmountFails
    <2> QED BY <2>1 DEF ReplayInv
  <1>3. CASE ~faulty
    <2>1. Released /\ snapshot_fds \in Nat
      BY <1>3 DEF ReplayInv, TestTypeInv, FdInv
    <2>2. CASE OpenSnapshot
      BY <2>1, <2>2, ReplayEnds DEF OpenSnapshot, Released
    <2>3. CASE OpenFails
      BY <2>1, <2>3, ReplayEnds DEF OpenFails, EndRound, Released, deviceVars
    <2>4. CASE clone_device_restore
      <3>1. snapshot_fds = 1 /\ ~mounted
        BY <2>1, <2>4 DEF clone_device_restore, Released
      <3>2. snapshot' = BaseImage /\ bytes_written' = 0 /\ current' = 1 /\ tester' = "write"
            /\ snapshot_fds' = snapshot_fds /\ mounted' = mounted
        BY <3>1, <2>4 DEF clone_device_restore, BaseImage
      <3>3. CrashImage[0] = BaseImage
        BY CrashOpsType DEF TestTypeInv, IsAfter
      <3>4. current' - 1 = 0
        BY <3>2
      <3>5. Progress'
        BY <1>1, <3>2, <3>3, <3>4 DEF Progress
      <3>6. Released'
        BY <3>1, <3>2 DEF Released
      <3> QED BY <3>2, <3>5, <3>6 DEF ReplayInv
    <2>5. CASE RestoreFails
      BY <2>5 DEF RestoreFails, ReplayInv
    <2>6. CASE SkipNonWrite
      <3>1. InWrites /\ ~has_write_flag(Current) /\ tester' = tester /\ current' = current + 1
            /\ bytes_written' = bytes_written /\ UNCHANGED deviceVars /\ tester = "write"
        BY <2>6 DEF SkipNonWrite, InWrites
      <3>2. Progress /\ bytes_written = 0
        BY <1>3, <3>1 DEF ReplayInv, Progress
      <3>3. CrashImage[current] = CrashImage[current - 1] /\ (current + 1) - 1 = current
        BY <3>1, CrashImageNext DEF TestTypeInv, Applied
      <3>4. snapshot' = (CrashImage[current - 1])' /\ bytes_written' = 0
        BY <1>1, <3>1, <3>2, <3>3 DEF Progress, deviceVars
      <3>5. Progress'
        BY <3>4 DEF Progress
      <3>6. Released'
        BY <2>1, <3>1 DEF Released, deviceVars
      <3> QED BY <3>1, <3>5, <3>6 DEF ReplayInv
    <2>7. CASE WriteStep
      <3>1. InWrites /\ tester' = tester /\ UNCHANGED <<snapshot_fds, mounted>> /\ tester = "write"
        BY <2>7 DEF WriteStep, WriteSome, InWrites
      <3>2. Progress'
        BY <1>3, <2>7, <3>1, WriteProgress DEF ReplayInv
      <3>3. Released'
        BY <2>1, <3>1 DEF Released
      <3> QED BY <3>1, <3>2, <3>3 DEF ReplayInv
    <2>8. CASE WriteFails
      <3>1. Released' /\ tester' = "generate"
        <4>1. tester = "write" /\ tester' = "generate" /\ snapshot_fds' = snapshot_fds - 1
              /\ mounted' = mounted
          BY <2>8 DEF WriteFails, InWrites, EndRound
        <4> QED BY <2>1, <4>1 DEF Released
      <3> QED BY <3>1, ReplayEnds
    <2>9. CASE WritesDone
      <3>1. tester = "write" /\ tester' = "fsck" /\ snapshot_fds' = snapshot_fds - 1
            /\ UNCHANGED <<mounted, snapshot>> /\ current > Len(crash_state)
        BY <2>9 DEF WritesDone
      <3>2. Released'
        BY <2>1, <3>1 DEF Released
      <3>3. current \in Nat /\ current <= Len(crash_state) + 1 /\ Len(crash_state) \in Nat
        BY <3>1, CrashOpsType DEF TestTypeInv, WriteInv
      <3>4. current - 1 = Len(crash_state) /\ ~(current <= Len(crash_state))
        BY <3>1, <3>3
      <3>5. snapshot = CrashImage[Len(crash_state)]
        BY <1>3, <3>1, <3>4 DEF ReplayInv, Progress
      <3> QED BY <1>1, <3>1, <3>2, <3>5 DEF ReplayInv
    <2>10. CASE Fsck
      <3>1. tester = "fsck" /\ tester' \in {"mount", "generate"}
            /\ UNCHANGED <<snapshot_fds, mounted>>
        BY <2>10 DEF Fsck, EndRound
      <3> QED BY <2>1, <3>1, ReplayEnds DEF Released
    <2>11. CASE Mount
      BY <2>1, <2>11, ReplayEnds DEF Mount, Released
    <2>12. CASE MountFails
      BY <2>1, <2>12, ReplayEnds DEF MountFails, EndRound, Released, deviceVars
    <2>13. CASE CheckTest
      BY <2>1, <2>13, ReplayEnds DEF CheckTest, Released
    <2>14. CASE Umount
      BY <2>1, <2>14, ReplayEnds DEF Umount, EndRound, Released
    <2>15. CASE UmountFails
      BY <2>15 DEF UmountFails, ReplayInv
    <2> QED BY <2>2, <2>3, <2>4, <2>5, <2>6, <2>7, <2>8, <2>9, <2>10, <2>11, <2>12,
            <2>13, <2>14, <2>15 DEF Test
  <1> QED BY <1>2, <1>3

\* Every step keeps ReplayInv.
LEMMA ReplayInvNext ==
    TestTypeInv /\ ReplayInv /\ [TestNext]_<<vars, testVars>> => ReplayInv'
  <1> SUFFICES ASSUME TestTypeInv, ReplayInv, [TestNext]_<<vars, testVars>> PROVE ReplayInv'
    OBVIOUS
  <1>1. CASE Generate
    <2>1. tester = "generate" /\ tester' \in {"generate", "open"}
          /\ UNCHANGED <<snapshot_fds, mounted, faulty>>
      BY <1>1 DEF Generate, deviceVars
    <2>2. ~faulty' => Released'
      BY <2>1 DEF Released, ReplayInv
    <2> QED BY <2>1, <2>2, ReplayEnds
  <1>2. CASE Test
    BY <1>2, TestReplays
  <1>3. CASE LoopDone \/ UNCHANGED <<vars, testVars>>
    <2>1. UNCHANGED <<vars, testVars>>
      BY <1>3 DEF LoopDone, Finished
    <2> QED BY <2>1 DEF ReplayInv, Released, Progress, CrashImage, CrashOps, Current, vars,
            testVars, drawVars, deviceVars, roundVars
  <1> QED BY <1>1, <1>2, <1>3 DEF TestNext

(***************************************************************************)
(* Each round tests its own crash state and nothing else, whatever the     *)
(* rounds before it did: test_write_data, with any split of the writes     *)
(* into short ones, leaves the replay of the crash state on a snapshot     *)
(* that was reset.                                                         *)
(***************************************************************************)
THEOREM CrashStateReplayedHolds == TestSpec => []CrashStateReplayed
  <1>1. TestInit => ReplayInv
    BY DEF TestInit, ReplayInv, Released
  <1>2. TestTypeInv /\ ReplayInv => CrashStateReplayed
    <2> SUFFICES ASSUME TestTypeInv, ReplayInv, tester = "fsck", ~faulty
                 PROVE  snapshot = Replay(BaseImage, Ops(crash_state))
      BY DEF CrashStateReplayed
    <2>1. snapshot = CrashImage[Len(crash_state)] /\ Len(CrashOps) = Len(crash_state)
      BY CrashOpsType DEF ReplayInv, TestTypeInv
    <2> QED BY <2>1 DEF Replay, CrashImage, CrashOps
  <1> QED BY <1>1, <1>2, TestTypeInvHolds, ReplayInvNext, PTL DEF TestSpec

-----------------------------------------------------------------------------
(* The summary *)

\* How many elements of a sequence are in a set.
CountIn(s, R) == Cardinality({k \in DOMAIN s : s[k] \in R})

\* Counts are natural numbers.
LEMMA CountType ==
    ASSUME NEW T, NEW s \in Seq(T), NEW R
    PROVE  /\ IsFiniteSet({k \in DOMAIN s : s[k] \in R})
           /\ CountIn(s, R) \in Nat
  <1>1. Len(s) \in Nat /\ DOMAIN s = 1..Len(s)
    OBVIOUS
  <1>2. IsFiniteSet(1..Len(s))
    BY <1>1, FS_Interval
  <1>3. {k \in DOMAIN s : s[k] \in R} \in SUBSET (1..Len(s))
    BY <1>1
  <1>4. IsFiniteSet({k \in DOMAIN s : s[k] \in R})
    BY <1>2, <1>3, FS_Subset
  <1> QED BY <1>4, FS_CardinalityType DEF CountIn

\* A sequence that is appended to is one longer.
LEMMA AppendLonger ==
    ASSUME NEW T, NEW s \in Seq(T), NEW x \in T
    PROVE  Append(s, x) \in Seq(T) /\ Len(Append(s, x)) = Len(s) + 1
  OBVIOUS

\* Appending an element counts it once.
LEMMA CountAppend ==
    ASSUME NEW T, NEW s \in Seq(T), NEW x \in T, NEW R
    PROVE  /\ x \in R => CountIn(Append(s, x), R) = CountIn(s, R) + 1
           /\ x \notin R => CountIn(Append(s, x), R) = CountIn(s, R)
  <1> DEFINE n == Len(s) + 1
             K == {k \in DOMAIN s : s[k] \in R}
             L == {k \in DOMAIN Append(s, x) : Append(s, x)[k] \in R}
  <1>1. n \in Nat /\ DOMAIN s = 1..Len(s) /\ DOMAIN Append(s, x) = 1..n /\ Append(s, x)[n] = x
        /\ n \notin DOMAIN s /\ 1..n = DOMAIN s \cup {n}
        /\ \A k \in DOMAIN s : Append(s, x)[k] = s[k]
    OBVIOUS
  <1>2. IsFiniteSet(K) /\ n \notin K /\ Cardinality(K) \in Nat /\ CountIn(s, R) = Cardinality(K)
    BY <1>1, CountType DEF CountIn
  <1>3. CountIn(Append(s, x), R) = Cardinality(L)
    BY DEF CountIn
  <1> HIDE DEF n
  <1>4. CASE x \in R
    <2>1. L = K \cup {n}
      BY <1>1, <1>4
    <2> HIDE DEF K, L
    <2> QED BY <1>2, <1>3, <1>4, <2>1, FS_AddElement
  <1>5. CASE x \notin R
    <2>1. L = K
      BY <1>1, <1>5
    <2> HIDE DEF K, L
    <2> QED BY <1>2, <1>3, <1>5, <2>1
  <1> QED BY <1>4, <1>5

\* The results of R whose error is in E.
OfError(R, E) == {r \in R : r.data_test \in E}

\* Adding the counts of the single errors counts the errors.
LEMMA SumOfCounts ==
    ASSUME NEW D, IsFiniteSet(D), NEW T, NEW s \in Seq(T), NEW R
    PROVE  SumFunctionOnSet([e \in D |-> CountIn(s, OfError(R, {e}))], D)
           = CountIn(s, OfError(R, D))
  <1> DEFINE fun == [e \in D |-> CountIn(s, OfError(R, {e}))]
             pick(t) == CHOOSE x \in t : TRUE
             Def(f) == f = [t \in SUBSET D |->
                              IF t = {} THEN 0 ELSE fun[pick(t)] + f[t \ {pick(t)}]]
             iter == CHOOSE f : Def(f)
             c(t) == CountIn(s, OfError(R, t))
             g == [t \in SUBSET D |-> c(t)]
  <1>1. SumFunctionOnSet(fun, D) = iter[D]
    BY DEF SumFunctionOnSet, FoldFunctionOnSet, MapThenFoldSet
  <1>2. \A t : c(t) \in Nat
    BY CountType
  <1>3. c({}) = 0
    <2>1. OfError(R, {}) = {}
      BY DEF OfError
    <2>2. {k \in DOMAIN s : s[k] \in OfError(R, {})} = {}
      BY <2>1
    <2> QED BY <2>2, FS_EmptySet DEF CountIn
  <1>4. ASSUME NEW t \in SUBSET D, NEW x \in t
        PROVE  c(t) = fun[x] + c(t \ {x})
    <2> DEFINE A == {k \in DOMAIN s : s[k] \in OfError(R, {x})}
               B == {k \in DOMAIN s : s[k] \in OfError(R, t \ {x})}
               C == {k \in DOMAIN s : s[k] \in OfError(R, t)}
    <2>1. IsFiniteSet(A) /\ IsFiniteSet(B) /\ Cardinality(A) \in Nat /\ Cardinality(B) \in Nat
      BY CountType DEF CountIn
    <2>2. C = A \cup B
      <3>1. OfError(R, t) = OfError(R, {x}) \cup OfError(R, t \ {x})
        BY DEF OfError
      <3> QED BY <3>1
    <2>3. A \cap B = {}
      BY DEF OfError
    <2>4. c(t) = Cardinality(C) /\ fun[x] = Cardinality(A) /\ c(t \ {x}) = Cardinality(B)
      BY DEF CountIn
    <2> HIDE DEF A, B, C, c, fun
    <2>5. Cardinality(A \cup B) = Cardinality(A) + Cardinality(B) - Cardinality(A \cap B)
      BY <2>1, FS_Union
    <2>6. Cardinality(A \cap B) = 0
      BY <2>3, FS_EmptySet
    <2> QED BY <2>1, <2>2, <2>4, <2>5, <2>6
  <1>5. \A t : t # {} => pick(t) \in t
    OBVIOUS
  <1> HIDE DEF fun, c, pick
  <1>6. Def(g)
    <2>1. ASSUME NEW t \in SUBSET D
          PROVE  c(t) = IF t = {} THEN 0 ELSE fun[pick(t)] + g[t \ {pick(t)}]
      <3>1. t \ {pick(t)} \in SUBSET D
        OBVIOUS
      <3>2. g[t \ {pick(t)}] = c(t \ {pick(t)})
        BY <3>1
      <3> QED BY <1>3, <1>4, <1>5, <3>2
    <2>2. g = [t \in SUBSET D |-> IF t = {} THEN 0 ELSE fun[pick(t)] + g[t \ {pick(t)}]]
      BY <2>1
    <2> QED BY <2>2
  <1>7. Def(iter)
    <2> HIDE DEF Def
    <2> QED BY <1>6
  <1> HIDE DEF iter
  <1>8. iter[{}] = 0
    BY <1>7
  <1>9. ASSUME NEW t \in SUBSET D, t # {} PROVE iter[t] = fun[pick(t)] + iter[t \ {pick(t)}]
    BY <1>7, <1>9
  <1> HIDE DEF Def
  <1> DEFINE S == {n \in Nat : \A t \in SUBSET D : Cardinality(t) = n => iter[t] = c(t)}
  <1>10. ASSUME NEW t \in SUBSET D PROVE IsFiniteSet(t) /\ Cardinality(t) \in Nat
    BY FS_Subset, FS_CardinalityType
  <1>11. 0 \in S
    BY <1>3, <1>8, <1>10, FS_EmptySet
  <1>12. ASSUME NEW n \in Nat, n \in S PROVE n + 1 \in S
    <2> SUFFICES ASSUME NEW t \in SUBSET D, Cardinality(t) = n + 1 PROVE iter[t] = c(t)
      OBVIOUS
    <2> DEFINE u == t \ {pick(t)}
    <2>1. t # {}
      <3>1. n + 1 # 0
        OBVIOUS
      <3> QED BY <3>1, FS_EmptySet
    <2>2. pick(t) \in t /\ u \in SUBSET D
      BY <1>5, <2>1
    <2>3. Cardinality(u) = n
      BY <1>10, <2>2, FS_RemoveElement
    <2>4. iter[u] = c(u)
      BY <1>12, <2>2, <2>3
    <2> QED BY <1>4, <1>9, <2>1, <2>2, <2>4
  <1>13. \A n \in Nat : n \in S
    <2> HIDE DEF S
    <2> QED BY <1>11, <1>12, NatInduct
  <1>14. iter[D] = c(D)
    BY <1>10, <1>13
  <1> QED BY <1>1, <1>14 DEF fun, c

-----------------------------------------------------------------------------

Outcomes == {"not opened", "not restored", "not written", "not checked", "not mounted",
             "bad data", "passed", "passed repaired"}

Passed(fs) == {[fs_test |-> fs, data_test |-> "kClean"]}
Failed == Results \ (Passed("kClean") \cup Passed("kFixed"))
NotTested == {"not restored", "not written", "not checked", "not mounted", "bad data"}

\* As many results are in R as outcomes in S.
Agree(R, S) == CountIn(completed_, R) = CountIn(outcomes, S)

Agreed ==
    /\ Agree(Passed("kClean"), {"passed"})
    /\ Agree(Passed("kFixed"), {"passed repaired"})
    /\ Agree(Failed, NotTested)
    /\ Agree(OfError(Failed, DataErrors), {"bad data"})

(***************************************************************************)
(* Every round but the one under way has an outcome, and each of the       *)
(* printed numbers counts the results of the rounds with one outcome.      *)
(***************************************************************************)
ResultInv ==
    /\ outcomes \in Seq(Outcomes)
    /\ Len(returned) = Len(outcomes) + (IF tester \in {"generate", "umount"} THEN 0 ELSE 1)
    /\ Agreed

\* A result that is recorded with the outcome it stands for keeps the counts.
LEMMA RecordedAgrees ==
    ASSUME completed_ \in Seq(Results), outcomes \in Seq(Outcomes), Agreed,
           NEW fs \in FsErrors, NEW error \in DataErrors \cup {"kClean"},
           NEW outcome \in Outcomes, AddCompletedTest(fs, error, outcome),
           outcome = "passed" <=> fs = "kClean" /\ error = "kClean",
           outcome = "passed repaired" <=> fs = "kFixed" /\ error = "kClean",
           outcome = "bad data" <=> error # "kClean",
           outcome # "not opened"
    PROVE  /\ Agreed' /\ outcomes' \in Seq(Outcomes) /\ Len(outcomes') = Len(outcomes) + 1
  <1> DEFINE r == [fs_test |-> fs, data_test |-> error]
  <1>1. r \in Results
    BY DEF Results
  <1>2. completed_' = Append(completed_, r) /\ outcomes' = Append(outcomes, outcome)
    BY DEF AddCompletedTest
  <1>3. ASSUME NEW R, NEW S, Agree(R, S), r \in R <=> outcome \in S
        PROVE  Agree(R, S)'
    <2> HIDE DEF r
    <2>1. /\ r \in R => CountIn(Append(completed_, r), R) = CountIn(completed_, R) + 1
          /\ r \notin R => CountIn(Append(completed_, r), R) = CountIn(completed_, R)
      BY <1>1, CountAppend
    <2>2. /\ outcome \in S => CountIn(Append(outcomes, outcome), S) = CountIn(outcomes, S) + 1
          /\ outcome \notin S => CountIn(Append(outcomes, outcome), S) = CountIn(outcomes, S)
      BY CountAppend
    <2>3. CountIn(Append(completed_, r), R) = CountIn(Append(outcomes, outcome), S)
      BY <1>3, <2>1, <2>2 DEF Agree
    <2> QED BY <1>2, <2>3 DEF Agree
  <1>4. r \in Passed("kClean") <=> outcome \in {"passed"}
    BY DEF Passed
  <1>5. r \in Passed("kFixed") <=> outcome \in {"passed repaired"}
    BY DEF Passed
  <1>6. r \in Failed <=> outcome \in NotTested
    <2>1. r \in Failed <=> ~(outcome \in {"passed"}) /\ ~(outcome \in {"passed repaired"})
      BY <1>1, <1>4, <1>5 DEF Failed
    <2> QED BY <2>1 DEF NotTested, Outcomes
  <1>7. r \in OfError(Failed, DataErrors) <=> outcome \in {"bad data"}
    <2>1. r \in OfError(Failed, DataErrors) <=> r \in Failed /\ error \in DataErrors
      BY DEF OfError
    <2>2. error \in DataErrors <=> error # "kClean"
      BY CrashTestAssumption
    <2>3. outcome = "bad data" => outcome \in NotTested
      BY DEF NotTested
    <2> QED BY <1>6, <2>1, <2>2, <2>3
  <1> HIDE DEF r
  <1>8. Agreed'
    BY <1>3, <1>4, <1>5, <1>6, <1>7 DEF Agreed
  <1>9. outcomes' \in Seq(Outcomes) /\ Len(outcomes') = Len(outcomes) + 1
    BY <1>2, AppendLonger, Zenon
  <1> QED BY <1>8, <1>9

\* A round that is not recorded changes no count.
LEMMA UnrecordedAgrees ==
    ASSUME outcomes \in Seq(Outcomes), Agreed, completed_' = completed_,
           outcomes' = Append(outcomes, "not opened")
    PROVE  /\ Agreed' /\ outcomes' \in Seq(Outcomes) /\ Len(outcomes') = Len(outcomes) + 1
  <1>1. "not opened" \in Outcomes
    BY DEF Outcomes
  <1>2. ASSUME NEW R, NEW S, Agree(R, S), "not opened" \notin S PROVE Agree(R, S)'
    <2>1. CountIn(Append(outcomes, "not opened"), S) = CountIn(outcomes, S)
      BY <1>1, <1>2, CountAppend
    <2> QED BY <1>2, <2>1 DEF Agree
  <1>3. "not opened" \notin NotTested
    BY DEF NotTested
  <1>4. Agreed'
    BY <1>2, <1>3 DEF Agreed
  <1>5. outcomes' \in Seq(Outcomes) /\ Len(outcomes') = Len(outcomes) + 1
    BY <1>1, AppendLonger, Zenon
  <1> QED BY <1>4, <1>5

\* The counts are of the results and the outcomes only.
LEMMA AgreedKept ==
    ASSUME Agreed, UNCHANGED resultVars PROVE Agreed' /\ outcomes' = outcomes
  BY DEF Agreed, Agree, resultVars

\* Every step of a round keeps the books.
LEMMA TestRecords == ASSUME TestTypeInv, ResultInv, Test PROVE ResultInv'
  <1>1. returned' = returned
    BY TestKeepsGenerator DEF vars, callVars
  <1>2. /\ completed_ \in Seq(Results) /\ outcomes \in Seq(Outcomes) /\ Agreed
        /\ Len(outcomes) \in Nat
    BY DEF TestTypeInv, TestTypeOK, ResultInv
  <1> DEFINE Recorded == /\ Agreed' /\ outcomes' \in Seq(Outcomes)
                         /\ Len(outcomes') = Len(outcomes) + 1
  <1>3. ASSUME Recorded, tester \notin {"generate", "umount"}, tester' \in {"generate", "umount"}
        PROVE  ResultInv'
    BY <1>1, <1>2, <1>3 DEF ResultInv
  <1>4. ASSUME NEW fs \in {"kSnapshotRestore", "kBioWrite", "kCheck", "kUnmountable"},
               NEW outcome \in NotTested \ {"bad data"},
               AddCompletedTest(fs, "kClean", outcome)
        PROVE  Recorded
    <2>1. fs \in FsErrors /\ outcome \in Outcomes /\ "kClean" \in DataErrors \cup {"kClean"}
      BY DEF FsErrors, NotTested, Outcomes
    <2>2. outcome \notin {"passed", "passed repaired", "bad data", "not opened"}
          /\ fs \notin {"kClean", "kFixed"}
      BY DEF NotTested
    <2> QED BY <1>2, <1>4, <2>1, <2>2, RecordedAgrees
  <1>5. ASSUME UNCHANGED resultVars,
               tester \in {"generate", "umount"} <=> tester' \in {"generate", "umount"}
        PROVE  ResultInv'
    <2>1. Agreed' /\ outcomes' = outcomes
      BY <1>2, <1>5, AgreedKept
    <2> QED BY <1>1, <1>2, <1>5, <2>1 DEF ResultInv
  <1>6. {"not restored", "not written", "not checked", "not mounted"} \subseteq NotTested \ {"bad data"}
    BY DEF NotTested
  <1> HIDE DEF Recorded
  <1>7. CASE OpenSnapshot
    BY <1>5, <1>7 DEF OpenSnapshot
  <1>8. CASE OpenFails
    <2>1. Recorded
      BY <1>2, <1>8, UnrecordedAgrees DEF OpenFails, Recorded
    <2> QED BY <1>3, <1>8, <2>1 DEF OpenFails, EndRound
  <1>9. CASE clone_device_restore
    BY <1>5, <1>9 DEF clone_device_restore
  <1>10. CASE RestoreFails
    <2>1. Recorded
      BY <1>4, <1>6, <1>10 DEF RestoreFails
    <2> QED BY <1>3, <1>10, <2>1 DEF RestoreFails, EndRound
  <1>11. CASE SkipNonWrite
    BY <1>5, <1>11 DEF SkipNonWrite
  <1>12. CASE WriteStep
    <2>1. UNCHANGED <<tester, resultVars>>
      BY <1>12 DEF WriteStep, WriteSome
    <2> QED BY <1>5, <2>1
  <1>13. CASE WriteFails
    <2>1. Recorded
      BY <1>4, <1>6, <1>13 DEF WriteFails
    <2> QED BY <1>3, <1>13, <2>1 DEF WriteFails, InWrites, EndRound
  <1>14. CASE WritesDone
    BY <1>5, <1>14 DEF WritesDone
  <1>15. CASE Fsck
    <2>1. CASE AddCompletedTest("kCheck", "kClean", "not checked") /\ EndRound
      <3>1. Recorded
        BY <1>4, <1>6, <2>1
      <3> QED BY <1>3, <1>15, <2>1, <3>1 DEF Fsck, EndRound
    <2>2. CASE tester' = "mount" /\ UNCHANGED resultVars
      BY <1>5, <1>15, <2>2 DEF Fsck
    <2> QED BY <1>15, <2>1, <2>2 DEF Fsck
  <1>16. CASE Mount
    BY <1>5, <1>16 DEF Mount
  <1>17. CASE MountFails
    <2>1. Recorded
      BY <1>4, <1>6, <1>17 DEF MountFails
    <2> QED BY <1>3, <1>17, <2>1 DEF MountFails, EndRound
  <1>18. CASE CheckTest
    <2> DEFINE out(r) == IF r.error # "kClean" THEN "bad data"
                         ELSE IF fs_check_return = "clean" THEN "passed" ELSE "passed repaired"
    <2>1. PICK r \in CheckReturns : AddCompletedTest(FixedError(r.ret), r.error, out(r))
      BY <1>18 DEF CheckTest
    <2>2. r.error \in DataErrors \cup {"kClean"} /\ (r.ret # 0 => r.error # "kClean")
      BY CrashTestAssumption
    <2>3. FixedError(r.ret) \in FsErrors /\ out(r) \in Outcomes
          /\ (out(r) = "passed" <=> FixedError(r.ret) = "kClean" /\ r.error = "kClean")
          /\ (out(r) = "passed repaired" <=> FixedError(r.ret) = "kFixed" /\ r.error = "kClean")
          /\ (out(r) = "bad data" <=> r.error # "kClean")
          /\ out(r) # "not opened"
      BY <2>2 DEF FixedError, FsErrors, Outcomes
    <2> HIDE DEF out
    <2>4. Recorded
      BY <1>2, <2>1, <2>2, <2>3, RecordedAgrees DEF Recorded
    <2> QED BY <1>3, <1>18, <2>4 DEF CheckTest
  <1>19. CASE Umount
    BY <1>5, <1>19 DEF Umount, EndRound
  <1>20. CASE UmountFails
    BY <1>5, <1>20 DEF UmountFails, EndRound
  <1> QED BY <1>7, <1>8, <1>9, <1>10, <1>11, <1>12, <1>13, <1>14, <1>15, <1>16, <1>17,
          <1>18, <1>19, <1>20 DEF Test

\* Every step keeps the books.
LEMMA ResultInvNext ==
    TestTypeInv /\ ResultInv /\ [TestNext]_<<vars, testVars>> => ResultInv'
  <1> SUFFICES ASSUME TestTypeInv, ResultInv, [TestNext]_<<vars, testVars>> PROVE ResultInv'
    OBVIOUS
  <1>1. CASE Generate
    <2>1. tester = "generate" /\ UNCHANGED resultVars
      BY <1>1 DEF Generate
    <2>2. Agreed' /\ outcomes' = outcomes /\ Len(outcomes) \in Nat
      BY <2>1, AgreedKept DEF ResultInv
    <2>3. \/ returned' = returned /\ tester' = "generate"
          \/ Len(returned') = Len(returned) + 1 /\ tester' = "open"
      BY <1>1, GenerateSteps DEF TestTypeInv
    <2> QED BY <2>1, <2>2, <2>3 DEF ResultInv
  <1>2. CASE Test
    BY <1>2, TestRecords
  <1>3. CASE LoopDone \/ UNCHANGED <<vars, testVars>>
    <2>1. UNCHANGED <<vars, testVars>>
      BY <1>3 DEF LoopDone, Finished
    <2> QED BY <2>1 DEF ResultInv, Agreed, Agree, vars, testVars, callVars, resultVars
  <1> QED BY <1>1, <1>2, <1>3 DEF TestNext

(***************************************************************************)
(* What PrintResults prints between rounds is what happened: one count per *)
(* crash state handed out, under the outcome it really had, whatever paths *)
(* the rounds took.                                                        *)
(***************************************************************************)
THEOREM ResultsTruthfulHolds == TestSpec => []ResultsTruthful
  <1>1. TestInit => ResultInv
    <2> SUFFICES ASSUME TestInit PROVE ResultInv
      OBVIOUS
    <2>1. completed_ = <<>> /\ outcomes = <<>> /\ returned = <<>> /\ tester = "generate"
      BY DEF TestInit, Init
    <2>2. \A R : CountIn(<<>>, R) = 0
      BY FS_EmptySet DEF CountIn
    <2>3. Agreed
      BY <2>1, <2>2, Zenon DEF Agreed, Agree
    <2>4. Len(returned) = Len(outcomes) + (IF tester \in {"generate", "umount"} THEN 0 ELSE 1)
          /\ outcomes \in Seq(Outcomes)
      BY <2>1
    <2> QED BY <2>3, <2>4 DEF ResultInv
  <1>2. TestTypeInv /\ ResultInv => ResultsTruthful
    <2> SUFFICES ASSUME TestTypeInv, ResultInv, tester = "generate"
                 PROVE  /\ Len(outcomes) = Len(returned)
                        /\ PrintResults.num_passed = OutcomeCount({"passed"})
                        /\ PrintResults.num_passed_fixed = OutcomeCount({"passed repaired"})
                        /\ PrintResults.num_failed = OutcomeCount(NotTested)
                        /\ SumFunctionOnSet(PrintResults.by_error, DataErrors)
                              = OutcomeCount({"bad data"})
      BY DEF ResultsTruthful, NotTested
    <2>1. \A S : OutcomeCount(S) = CountIn(outcomes, S)
      BY DEF OutcomeCount, CountIn
    <2>2. \A R : Count(R) = CountIn(completed_, R)
      BY DEF Count, CountIn
    <2>3. PrintResults =
            [num_passed |-> Count(Passed("kClean")), num_passed_fixed |-> Count(Passed("kFixed")),
             num_failed |-> Count(Failed),
             by_error |-> [e \in DataErrors |-> Count({r \in Failed : r.data_test = e})]]
      BY DEF PrintResults, Passed, Failed
    <2>4. PrintResults.by_error = [e \in DataErrors |-> CountIn(completed_, OfError(Failed, {e}))]
      <3>1. \A e \in DataErrors : {r \in Failed : r.data_test = e} = OfError(Failed, {e})
        BY DEF OfError
      <3>2. PrintResults.by_error = [e \in DataErrors |-> Count({r \in Failed : r.data_test = e})]
        BY <2>3
      <3> QED BY <2>2, <3>1, <3>2
    <2>5. SumFunctionOnSet(PrintResults.by_error, DataErrors)
          = CountIn(completed_, OfError(Failed, DataErrors))
      BY <2>4, SumOfCounts, CrashTestAssumption DEF TestTypeInv, TestTypeOK
    <2>6. /\ PrintResults.num_passed = CountIn(completed_, Passed("kClean"))
          /\ PrintResults.num_passed_fixed = CountIn(completed_, Passed("kFixed"))
          /\ PrintResults.num_failed = CountIn(completed_, Failed)
      BY <2>2, <2>3
    <2>7. Agreed /\ Len(outcomes) = Len(returned)
      BY DEF ResultInv
    <2> QED BY <2>1, <2>5, <2>6, <2>7 DEF Agreed, Agree
  <1> QED BY <1>1, <1>2, TestTypeInvHolds, ResultInvNext, PTL DEF TestSpec

-----------------------------------------------------------------------------
(***************************************************************************)
(* What epochs and crash states have of the log.  An entry is what the log *)
(* holds at its position, a split flush without its flush flags            *)
(* (IsContent), or the flag half of a split flush (IsFlagHalf).            *)
(***************************************************************************)
Content(log, x) == IF IsSplit(log[x + 1]) THEN DataHalf(log[x + 1]) ELSE log[x + 1]

IsContent(log, o) == o.op = Content(log, o.abs_index)

IsFlagHalf(log, o) ==
    /\ IsSplit(log[o.abs_index + 1]) /\ o.op.data = NoData
    /\ has_flush_flag(o.op) \/ has_flush_seq_flag(o.op)

\* Entries of positions below n.
Entries(log, ops, n) ==
    \A p \in 1..Len(ops) : /\ ops[p].abs_index < n
                           /\ IsContent(log, ops[p]) \/ IsFlagHalf(log, ops[p])

\* The content of position x is among the first n entries of ops.
Carries(log, ops, n, x) ==
    \E p \in 1..n : ops[p].abs_index = x /\ IsContent(log, ops[p])

\* It is in one of the first n epochs.
Stored(log, eps, n, x) ==
    \E k \in 1..n : Carries(log, eps[k].ops, Len(eps[k].ops), x)

FlushAt(log, f) ==
    has_write_flag(log[f + 1])
    /\ (has_flush_flag(log[f + 1]) \/ has_flush_seq_flag(log[f + 1]))

\* Entry p of an epoch e has what the flushes up to its position cover in the n
\* epochs before, or is the marked barrier and has the rest before it in e.
Behind(log, eps, n, e, p) ==
    \A f \in 0..e.ops[p].abs_index : FlushAt(log, f) => \A y \in 0..(f - 1) :
        \/ Stored(log, eps, n, y)
        \/ p = Len(e.ops) /\ e.has_barrier /\ Carries(log, e.ops, p - 1, y)

(***************************************************************************)
(* The epochs eps and the one being filled, with the entries cur, have the *)
(* content of the first n positions, if no split flush is followed by      *)
(* another barrier at once: all of it but an owed data half (Kept), once   *)
(* (Once), what a passed flush covers in stored epochs (Durable), each     *)
(* entry behind what the flushes before it cover (Ordered).                *)
(***************************************************************************)
Made(log, eps, cur, n) ==
    /\ \A k \in 1..Len(eps) : Entries(log, eps[k].ops, n)
    /\ Entries(log, cur, n)

Owed(log, eps, cur, n, half) ==
    /\ n > 0 /\ IsSplit(log[n]) /\ half = DataHalf(log[n])
    /\ ~Stored(log, eps, Len(eps), n - 1) /\ ~Carries(log, cur, Len(cur), n - 1)

Kept(log, eps, cur, n, owed) ==
    \A x \in 0..(n - 1) : \/ Stored(log, eps, Len(eps), x)
                          \/ Carries(log, cur, Len(cur), x)
                          \/ owed /\ x = n - 1

Durable(log, eps, n) ==
    \A f \in 0..(n - 1) : FlushAt(log, f) =>
        \A y \in 0..(f - 1) : Stored(log, eps, Len(eps), y)

Once(log, eps, cur) ==
    /\ \A x \in Nat : \A k, l \in 1..Len(eps) :
          /\ Carries(log, eps[k].ops, Len(eps[k].ops), x)
          /\ Carries(log, eps[l].ops, Len(eps[l].ops), x)
          => k = l
    /\ \A x \in Nat : Carries(log, cur, Len(cur), x) => ~Stored(log, eps, Len(eps), x)

Ordered(log, eps) ==
    \A k \in 1..Len(eps) : \A p \in 1..Len(eps[k].ops) :
        IsContent(log, eps[k].ops[p]) => Behind(log, eps, k - 1, eps[k], p)

Held(log, eps, cur, n, owed) ==
    /\ Made(log, eps, cur, n) /\ Kept(log, eps, cur, n, owed) /\ Durable(log, eps, n)
    /\ Once(log, eps, cur) /\ Ordered(log, eps)

Cut(log, eps, cur, n, owed, half) ==
    Held(log, eps, cur, n, owed) /\ (owed => Owed(log, eps, cur, n, half))

\* No split flush is followed by a barrier.
NoneInARow(log) ==
    \A f \in 1..(Len(log) - 1) : IsSplit(log[f]) => ~is_barrier_write(log[f + 1])

\* A split flush is a barrier and a flush; a flush is a barrier.
LEMMA BarrierKinds ==
    ASSUME NEW w \in DiskWrites
    PROVE  /\ IsSplit(w) => is_barrier_write(w)
           /\ has_write_flag(w) /\ (has_flush_flag(w) \/ has_flush_seq_flag(w))
                => is_barrier_write(w)
  BY DEF IsSplit, is_barrier_write, has_write_flag, has_flush_flag, has_flush_seq_flag

\* The data half of a flush has no flush flags, its flag half has: one is not
\* taken for the other.
LEMMA HalvesDiffer ==
    ASSUME NEW log \in Seq(DiskWrites), NEW o \in EpochOp, o.abs_index < Len(log),
           IsFlagHalf(log, o)
    PROVE  ~IsContent(log, o)
  <1> DEFINE w == log[o.abs_index + 1]
  <1>1. w \in DiskWrites
    <2>1. o.abs_index \in Nat
      BY DEF EpochOp
    <2> QED BY <2>1
  <1>2. DataHalf(w).bi_rw = w.bi_rw \ {"FLUSH", "FLUSH_SEQ"}
    BY <1>1 DEF DataHalf, DiskWrites
  <1> HIDE DEF w
  <1> QED BY <1>2 DEF w, IsFlagHalf, IsContent, Content, has_flush_flag, has_flush_seq_flag

\* The flag half of a split flush carries nothing.
LEMMA FlagHalfIs ==
    ASSUME NEW log \in Seq(DiskWrites), NEW n \in 0..(Len(log) - 1), IsSplit(log[n + 1]),
           NEW g \in DiskWrites, NEW o, o = [abs_index |-> n, op |-> FlagHalf(log[n + 1], g)]
    PROVE  IsFlagHalf(log, o)
  <1> DEFINE w == log[n + 1]
             h == FlagHalf(w, g)
  <1>1. h.data = NoData /\ h.bi_rw = g.bi_rw \cup (w.bi_rw \cap {"FLUSH", "FLUSH_SEQ"})
    BY DEF FlagHalf, DiskWrites
  <1>2. o.abs_index = n /\ o.op = h
    OBVIOUS
  <1> HIDE DEF h
  <1> QED BY <1>1, <1>2 DEF IsFlagHalf, IsSplit, has_flush_flag, has_flush_seq_flag

\* Appending an entry adds its content, if it has any, and leaves the rest.
LEMMA CarriesAppend ==
    ASSUME NEW log, NEW s \in Seq(EpochOp), NEW o \in EpochOp, NEW u, u = Append(s, o)
    PROVE  /\ u \in Seq(EpochOp) /\ Len(u) = Len(s) + 1 /\ Len(s) \in Nat
           /\ \A n \in 0..Len(s) : \A x : Carries(log, u, n, x) <=> Carries(log, s, n, x)
           /\ \A x : Carries(log, u, Len(u), x) <=>
                       \/ Carries(log, s, Len(s), x)
                       \/ o.abs_index = x /\ IsContent(log, o)
  <1>1. /\ u \in Seq(EpochOp) /\ Len(u) = Len(s) + 1 /\ Len(s) \in Nat /\ u[Len(s) + 1] = o
        /\ \A p \in 1..Len(s) : u[p] = s[p]
    OBVIOUS
  <1>2. \A n \in 0..Len(s) : \A p \in 1..n : u[p] = s[p]
    BY <1>1
  <1>3. \A p \in 1..Len(u) : p \in 1..Len(s) \/ p = Len(s) + 1
    BY <1>1
  <1>4. 1..Len(s) \subseteq 1..Len(u) /\ Len(s) + 1 \in 1..Len(u)
    BY <1>1
  <1>5. \A n \in 0..Len(s) : \A x : Carries(log, u, n, x) <=> Carries(log, s, n, x)
    BY <1>2 DEF Carries
  <1>6. \A x : Carries(log, u, Len(u), x) <=>
                 \/ Carries(log, s, Len(s), x)
                 \/ o.abs_index = x /\ IsContent(log, o)
    BY <1>1, <1>3, <1>4 DEF Carries
  <1> QED BY <1>1, <1>5, <1>6

\* Storing an epoch adds what it carries and leaves the rest.
LEMMA StoredAppend ==
    ASSUME NEW log, NEW eps \in Seq(Epoch), NEW e \in Epoch, NEW u, u = Append(eps, e)
    PROVE  /\ Len(u) = Len(eps) + 1 /\ Len(eps) \in Nat /\ u[Len(eps) + 1] = e
           /\ \A k \in 1..Len(eps) : u[k] = eps[k]
           /\ \A n \in 0..Len(eps) : \A x : Stored(log, u, n, x) <=> Stored(log, eps, n, x)
           /\ \A x : Stored(log, u, Len(u), x) <=>
                       \/ Stored(log, eps, Len(eps), x)
                       \/ Carries(log, e.ops, Len(e.ops), x)
  <1>1. /\ Len(u) = Len(eps) + 1 /\ Len(eps) \in Nat /\ u[Len(eps) + 1] = e
        /\ \A k \in 1..Len(eps) : u[k] = eps[k]
    OBVIOUS
  <1>2. \A n \in 0..Len(eps) : \A k \in 1..n : u[k] = eps[k]
    BY <1>1
  <1>3. \A k \in 1..Len(u) : k \in 1..Len(eps) \/ k = Len(eps) + 1
    BY <1>1
  <1>4. 1..Len(eps) \subseteq 1..Len(u) /\ Len(eps) + 1 \in 1..Len(u)
    BY <1>1
  <1>5. \A n \in 0..Len(eps) : \A x : Stored(log, u, n, x) <=> Stored(log, eps, n, x)
    BY <1>2 DEF Stored
  <1>6. \A x : Stored(log, u, Len(u), x) <=>
                 \/ Stored(log, eps, Len(eps), x)
                 \/ Carries(log, e.ops, Len(e.ops), x)
    BY <1>1, <1>3, <1>4 DEF Stored
  <1> QED BY <1>1, <1>5, <1>6

\* Entries stay entries when the cursor goes on, or when one more is appended.
LEMMA EntriesAppend ==
    ASSUME NEW log, NEW s \in Seq(EpochOp), NEW o \in EpochOp, NEW u, u = Append(s, o),
           NEW n \in Nat, NEW m \in Nat, n <= m, Entries(log, s, n), o.abs_index < m,
           IsContent(log, o) \/ IsFlagHalf(log, o)
    PROVE  Entries(log, u, m)
  <1>1. /\ Len(u) = Len(s) + 1 /\ Len(s) \in Nat /\ u[Len(s) + 1] = o
        /\ \A p \in 1..Len(s) : u[p] = s[p] /\ s[p].abs_index \in Nat
    BY OpsType
  <1>2. \A p \in 1..Len(u) : p \in 1..Len(s) \/ p = Len(s) + 1
    BY <1>1
  <1>3. \A p \in 1..Len(s) : s[p].abs_index < m
    BY <1>1 DEF Entries
  <1> QED BY <1>1, <1>2, <1>3 DEF Entries

\* Entries of positions below n are entries of positions below any larger bound.
LEMMA EntriesGrow ==
    ASSUME NEW log, NEW s \in Seq(EpochOp), NEW n \in Nat, NEW m \in Nat, n <= m,
           Entries(log, s, n)
    PROVE  Entries(log, s, m)
  <1>1. \A p \in 1..Len(s) : s[p].abs_index \in Nat
    BY OpsType
  <1> QED BY <1>1 DEF Entries

\* Epochs with entries below n store no content from n on.
LEMMA StoredBelow ==
    ASSUME NEW log, NEW eps \in Seq(Epoch), NEW cur \in Seq(EpochOp), NEW n \in Nat,
           Made(log, eps, cur, n), NEW x \in Nat,
           Stored(log, eps, Len(eps), x) \/ Carries(log, cur, Len(cur), x)
    PROVE  x < n
  <1>1. CASE Stored(log, eps, Len(eps), x)
    <2>1. PICK k \in 1..Len(eps) : Carries(log, eps[k].ops, Len(eps[k].ops), x)
      BY <1>1 DEF Stored
    <2> QED BY <2>1 DEF Carries, Made, Entries
  <1>2. CASE Carries(log, cur, Len(cur), x)
    BY <1>2 DEF Carries, Made, Entries
  <1> QED BY <1>1, <1>2

\* An entry below the cursor has what the flushes before it cover in stored epochs.
LEMMA BelowIsBehind ==
    ASSUME NEW log, NEW eps, NEW n \in Nat, Durable(log, eps, n),
           NEW e \in Epoch, NEW p \in 1..Len(e.ops), e.ops[p].abs_index < n
    PROVE  Behind(log, eps, Len(eps), e, p)
  <1>1. e.ops[p].abs_index \in Nat
    BY EpochFields, OpsType
  <1>2. \A f \in 0..e.ops[p].abs_index : f \in 0..(n - 1)
    BY <1>1
  <1> QED BY <1>2 DEF Behind, Durable

\* Paying the data half.
LEMMA CutPays ==
    ASSUME NEW log \in Seq(DiskWrites), NEW eps \in Seq(Epoch), NEW cur \in Seq(EpochOp),
           NEW n \in 0..Len(log), NEW half \in DiskWrites, Cut(log, eps, cur, n, TRUE, half),
           NEW o \in EpochOp, o = [abs_index |-> n - 1, op |-> half],
           NEW u, u = Append(cur, o)
    PROVE  Cut(log, eps, u, n, FALSE, half)
  <1>1. Owed(log, eps, cur, n, half)
    BY DEF Cut, Held
  <1>2. n \in Nat /\ n - 1 \in Nat /\ (n - 1) + 1 = n /\ o.abs_index = n - 1 /\ o.op = half
        /\ n - 1 < n /\ n <= n
    BY <1>1 DEF Owed
  <1>3. IsContent(log, o)
    BY <1>1, <1>2 DEF Owed, IsContent, Content
  <1>4. \A x : Carries(log, u, Len(u), x) <=> Carries(log, cur, Len(cur), x) \/ n - 1 = x
    <2>0. cur \in Seq(EpochOp) /\ o \in EpochOp /\ u = Append(cur, o)
      OBVIOUS
    <2>1. \A x : Carries(log, u, Len(u), x) <=>
                   Carries(log, cur, Len(cur), x) \/ (o.abs_index = x /\ IsContent(log, o))
      BY ONLY <2>0, CarriesAppend
    <2> QED BY <1>2, <1>3, <2>1
  <1>5. Made(log, eps, u, n)
    <2>1. Made(log, eps, cur, n)
      BY DEF Cut, Held
    <2>2. Entries(log, u, n)
      BY <1>2, <1>3, <2>1, EntriesAppend DEF Made
    <2> QED BY <2>1, <2>2 DEF Made
  <1>6. Kept(log, eps, u, n, FALSE)
    BY <1>4 DEF Cut, Held, Kept
  <1>7. Once(log, eps, u)
    BY <1>1, <1>4 DEF Cut, Held, Once, Owed
  <1> QED BY <1>5, <1>6, <1>7 DEF Cut, Held

\* Passing an operation that is no barrier.
LEMMA CutAdds ==
    ASSUME NEW log \in Seq(DiskWrites), NEW eps \in Seq(Epoch), NEW cur \in Seq(EpochOp),
           NEW n \in 0..(Len(log) - 1), NEW half, Cut(log, eps, cur, n, FALSE, half),
           ~is_barrier_write(log[n + 1]),
           NEW o \in EpochOp, o = [abs_index |-> n, op |-> log[n + 1]],
           NEW u, u = Append(cur, o)
    PROVE  Cut(log, eps, u, n + 1, FALSE, half)
  <1>1. /\ n \in Nat /\ n + 1 \in Nat /\ n <= n + 1 /\ n < n + 1 /\ log[n + 1] \in DiskWrites
        /\ o.abs_index = n /\ o.op = log[n + 1]
    OBVIOUS
  <1>2. ~IsSplit(log[n + 1]) /\ ~FlushAt(log, n)
    BY <1>1, BarrierKinds DEF FlushAt
  <1>3. IsContent(log, o)
    BY <1>1, <1>2 DEF IsContent, Content
  <1>4. \A x : Carries(log, u, Len(u), x) <=> Carries(log, cur, Len(cur), x) \/ n = x
    <2>0. cur \in Seq(EpochOp) /\ o \in EpochOp /\ u = Append(cur, o)
      OBVIOUS
    <2>1. \A x : Carries(log, u, Len(u), x) <=>
                   Carries(log, cur, Len(cur), x) \/ (o.abs_index = x /\ IsContent(log, o))
      BY ONLY <2>0, CarriesAppend
    <2> QED BY <1>1, <1>3, <2>1
  <1>5. Made(log, eps, cur, n)
    BY DEF Cut, Held
  <1>6. Made(log, eps, u, n + 1)
    <2>1. Entries(log, u, n + 1)
      BY <1>1, <1>3, <1>5, EntriesAppend DEF Made
    <2>2. \A k \in 1..Len(eps) : eps[k].ops \in Seq(EpochOp)
      BY EpochFields
    <2>3. \A k \in 1..Len(eps) : Entries(log, eps[k].ops, n + 1)
      BY <1>1, <1>5, <2>2, EntriesGrow DEF Made
    <2> QED BY <2>1, <2>3 DEF Made
  <1>7. \A x \in 0..((n + 1) - 1) : x \in 0..(n - 1) \/ x = n
    BY <1>1
  <1>8. Kept(log, eps, u, n + 1, FALSE)
    BY <1>4, <1>7 DEF Cut, Held, Kept
  <1>9. Durable(log, eps, n + 1)
    BY <1>2, <1>7 DEF Cut, Held, Durable
  <1>10. Once(log, eps, u)
    <2>1. ~Stored(log, eps, Len(eps), n)
      BY <1>1, <1>5, StoredBelow
    <2> QED BY <1>4, <2>1 DEF Cut, Held, Once
  <1> QED BY <1>6, <1>8, <1>9, <1>10 DEF Cut, Held

\* Storing an epoch e that has what the one being filled had, and what was passed
\* since.
LEMMA CutStores ==
    ASSUME NEW log \in Seq(DiskWrites), NEW eps \in Seq(Epoch), NEW cur \in Seq(EpochOp),
           NEW n \in 0..Len(log), NEW owed \in BOOLEAN, NEW half,
           Cut(log, eps, cur, n, owed, half),
           NEW e \in Epoch, NEW u, u = Append(eps, e),
           NEW m \in n..Len(log), NEW owed2 \in BOOLEAN, Entries(log, e.ops, m),
           \A x \in Nat : Carries(log, e.ops, Len(e.ops), x) =>
               Carries(log, cur, Len(cur), x) \/ x >= n,
           \A x \in 0..(m - 1) :
               Carries(log, cur, Len(cur), x) \/ x >= n \/ (owed /\ x = n - 1) =>
               Carries(log, e.ops, Len(e.ops), x) \/ (owed2 /\ x = m - 1),
           \A f \in n..(m - 1) : FlushAt(log, f) => \A y \in 0..(f - 1) :
               Stored(log, eps, Len(eps), y) \/ Carries(log, e.ops, Len(e.ops), y),
           \A p \in 1..Len(e.ops) :
               IsContent(log, e.ops[p]) => Behind(log, eps, Len(eps), e, p)
    PROVE  Held(log, u, <<>>, m, owed2)
  <1> DEFINE N == Len(eps)
  <1>1. /\ Len(u) = N + 1 /\ N \in Nat /\ u[N + 1] = e
        /\ \A k \in 1..N : u[k] = eps[k]
        /\ \A k \in 0..N : \A x : Stored(log, u, k, x) <=> Stored(log, eps, k, x)
        /\ \A x : Stored(log, u, Len(u), x) <=>
                    Stored(log, eps, N, x) \/ Carries(log, e.ops, Len(e.ops), x)
    <2>1. eps \in Seq(Epoch) /\ e \in Epoch /\ u = Append(eps, e)
      OBVIOUS
    <2>2. Len(u) = Len(eps) + 1 /\ Len(eps) \in Nat /\ u[Len(eps) + 1] = e
      BY ONLY <2>1, StoredAppend
    <2>3. \A k \in 1..Len(eps) : u[k] = eps[k]
      BY ONLY <2>1, StoredAppend
    <2>4. \A k \in 0..Len(eps) : \A x : Stored(log, u, k, x) <=> Stored(log, eps, k, x)
      BY ONLY <2>1, StoredAppend
    <2>5. \A x : Stored(log, u, Len(u), x) <=>
                   \/ Stored(log, eps, Len(eps), x)
                   \/ Carries(log, e.ops, Len(e.ops), x)
      BY ONLY <2>1, StoredAppend
    <2> QED BY ONLY <2>2, <2>3, <2>4, <2>5 DEF N
  <1>2. n \in Nat /\ m \in Nat /\ n <= m
    OBVIOUS
  <1>3. \A k \in 1..Len(u) : k \in 1..N \/ k = N + 1
    BY <1>1
  <1>4. Made(log, eps, cur, n) /\ \A k \in 1..N : eps[k].ops \in Seq(EpochOp)
    BY EpochFields DEF Cut, Held
  <1>5. Made(log, u, <<>>, m)
    <2>1. \A k \in 1..N : Entries(log, eps[k].ops, m)
      BY <1>2, <1>4, EntriesGrow DEF Made
    <2>2. Entries(log, <<>>, m)
      BY DEF Entries
    <2> HIDE DEF N
    <2> QED BY <1>1, <1>3, <2>1, <2>2 DEF Made
  <1>6. Kept(log, u, <<>>, m, owed2)
    <2> SUFFICES ASSUME NEW x \in 0..(m - 1)
                 PROVE  Stored(log, u, Len(u), x) \/ (owed2 /\ x = m - 1)
      BY DEF Kept
    <2>1. CASE x >= n
      BY <1>1, <2>1
    <2>2. CASE ~(x >= n)
      <3>1. x \in 0..(n - 1)
        BY <1>2, <2>2
      <3> QED BY <1>1, <3>1 DEF Cut, Held, Kept
    <2> QED BY <2>1, <2>2
  <1>7. Durable(log, u, m)
    <2> SUFFICES ASSUME NEW f \in 0..(m - 1), FlushAt(log, f), NEW y \in 0..(f - 1)
                 PROVE  Stored(log, u, Len(u), y)
      BY DEF Durable
    <2>1. CASE f \in n..(m - 1)
      BY <1>1, <2>1
    <2>2. CASE ~(f \in n..(m - 1))
      <3>1. f \in 0..(n - 1)
        BY <1>2, <2>2
      <3> QED BY <1>1, <3>1 DEF Cut, Held, Durable
    <2> QED BY <2>1, <2>2
  <1>8. Once(log, u, <<>>)
    <2>1. \A x \in Nat : ~Carries(log, <<>>, Len(<<>>), x)
      BY DEF Carries
    <2>2. ASSUME NEW x \in Nat, Carries(log, e.ops, Len(e.ops), x) PROVE ~Stored(log, eps, N, x)
      <3>1. CASE Carries(log, cur, Len(cur), x)
        BY <3>1 DEF Cut, Held, Once
      <3>2. CASE x >= n
        BY <1>2, <1>4, <3>2, StoredBelow
      <3> QED BY <2>2, <3>1, <3>2
    <2>3. \A x \in Nat : \A k \in 1..N :
            Carries(log, eps[k].ops, Len(eps[k].ops), x) => Stored(log, eps, N, x)
      BY DEF Stored
    <2>4. \A x \in Nat : \A k, l \in 1..N :
             /\ Carries(log, eps[k].ops, Len(eps[k].ops), x)
             /\ Carries(log, eps[l].ops, Len(eps[l].ops), x)
             => k = l
      BY DEF Cut, Held, Once
    <2>5. ASSUME NEW x \in Nat, NEW k \in 1..Len(u), NEW l \in 1..Len(u),
                 Carries(log, u[k].ops, Len(u[k].ops), x),
                 Carries(log, u[l].ops, Len(u[l].ops), x)
          PROVE  k = l
      <3> HIDE DEF N
      <3>1. CASE k \in 1..N /\ l \in 1..N
        BY <1>1, <2>4, <2>5, <3>1
      <3>2. CASE k = N + 1 /\ l \in 1..N
        BY <1>1, <2>2, <2>3, <2>5, <3>2
      <3>3. CASE k \in 1..N /\ l = N + 1
        BY <1>1, <2>2, <2>3, <2>5, <3>3
      <3> QED BY <1>3, <3>1, <3>2, <3>3
    <2> QED BY <2>1, <2>5 DEF Once
  <1>9. Ordered(log, u)
    <2> SUFFICES ASSUME NEW k \in 1..Len(u), NEW p \in 1..Len(u[k].ops),
                        IsContent(log, u[k].ops[p])
                 PROVE  Behind(log, u, k - 1, u[k], p)
      BY DEF Ordered
    <2>1. CASE k \in 1..N
      <3>1. k - 1 \in 0..N /\ u[k] = eps[k]
        BY <1>1, <2>1
      <3>2. Behind(log, eps, k - 1, eps[k], p)
        BY <2>1, <3>1 DEF Cut, Held, Ordered
      <3> QED BY <1>1, <3>1, <3>2 DEF Behind
    <2>2. CASE k = N + 1
      <3>1. k - 1 = N /\ N \in 0..N /\ u[k] = e
        BY <1>1, <2>2
      <3>2. Behind(log, eps, N, e, p)
        BY <3>1
      <3> QED BY <1>1, <3>1, <3>2 DEF Behind
    <2> QED BY <1>3, <2>1, <2>2
  <1> QED BY <1>5, <1>6, <1>7, <1>8, <1>9 DEF Held

\* The log ends without a barrier.
LEMMA CutTail ==
    ASSUME NEW log \in Seq(DiskWrites), NEW eps \in Seq(Epoch), NEW cur \in Seq(EpochOp),
           NEW n \in 0..Len(log), NEW owed \in BOOLEAN, NEW half,
           Cut(log, eps, cur, n, owed, half),
           NEW e \in Epoch, e.ops = cur, NEW u, u = Append(eps, e)
    PROVE  Cut(log, u, <<>>, n, owed, half)
  <1>1. n \in Nat /\ n \in n..Len(log) /\ \A f : f \notin n..(n - 1)
    OBVIOUS
  <1>2. Made(log, eps, cur, n) /\ Durable(log, eps, n)
    BY DEF Cut, Held
  <1>3. Entries(log, e.ops, n)
    BY <1>2 DEF Made
  <1>4. ASSUME NEW p \in 1..Len(e.ops) PROVE Behind(log, eps, Len(eps), e, p)
    <2>1. e.ops[p].abs_index < n
      BY <1>3 DEF Entries
    <2> QED BY <1>1, <1>2, <2>1, BelowIsBehind
  <1>5. \A x \in 0..(n - 1) : ~(x >= n)
    BY <1>1
  <1>6. Held(log, u, <<>>, n, owed)
    BY <1>1, <1>3, <1>4, <1>5, CutStores
  <1>7. owed => Owed(log, u, <<>>, n, half)
    <2> SUFFICES ASSUME owed PROVE Owed(log, u, <<>>, n, half)
      OBVIOUS
    <2>1. Owed(log, eps, cur, n, half)
      BY DEF Cut, Held
    <2>2. ~Carries(log, <<>>, Len(<<>>), n - 1)
      BY DEF Carries
    <2>3. ~Stored(log, u, Len(u), n - 1)
      BY <2>1, StoredAppend DEF Owed
    <2> QED BY <2>1, <2>2, <2>3 DEF Owed
  <1> QED BY <1>6, <1>7 DEF Cut, Held

\* At a barrier no data half is owed.
LEMMA NotOwed ==
    ASSUME NEW log \in Seq(DiskWrites), NEW eps, NEW cur, NEW n \in 0..(Len(log) - 1),
           NEW owed \in BOOLEAN, NEW half, Cut(log, eps, cur, n, owed, half),
           NoneInARow(log), is_barrier_write(log[n + 1])
    PROVE  owed = FALSE
  <1> SUFFICES ASSUME owed PROVE FALSE
    OBVIOUS
  <1>1. n > 0 /\ IsSplit(log[n])
    BY DEF Cut, Held, Owed
  <1>2. n \in 1..(Len(log) - 1)
    BY <1>1
  <1> QED BY <1>1, <1>2 DEF NoneInARow

\* An epoch that ends in a barrier which was not split.
LEMMA CutBarrier ==
    ASSUME NEW log \in Seq(DiskWrites), NEW eps \in Seq(Epoch), NEW cur \in Seq(EpochOp),
           NEW n \in 0..(Len(log) - 1), NEW half, Cut(log, eps, cur, n, FALSE, half),
           ~IsSplit(log[n + 1]),
           NEW o \in EpochOp, o = [abs_index |-> n, op |-> log[n + 1]],
           NEW e \in Epoch, e.ops = Append(cur, o), e.has_barrier,
           NEW u, u = Append(eps, e)
    PROVE  Cut(log, u, <<>>, n + 1, FALSE, half)
  <1> DEFINE L == Len(cur)
  <1>1. /\ n \in Nat /\ n + 1 \in Nat /\ n <= n + 1 /\ n < n + 1 /\ n \in 0..Len(log)
        /\ n + 1 \in n..Len(log) /\ o.abs_index = n /\ o.op = log[n + 1]
    OBVIOUS
  <1>2. IsContent(log, o)
    BY <1>1 DEF IsContent, Content
  <1>3. /\ Len(e.ops) = L + 1 /\ L \in Nat
        /\ \A x : Carries(log, e.ops, L, x) <=> Carries(log, cur, L, x)
        /\ \A x : Carries(log, e.ops, Len(e.ops), x) <=> Carries(log, cur, L, x) \/ n = x
    <2>1. L \in Nat /\ L \in 0..L
      OBVIOUS
    <2>2. /\ Len(e.ops) = Len(cur) + 1
          /\ \A k \in 0..Len(cur) : \A x :
                Carries(log, e.ops, k, x) <=> Carries(log, cur, k, x)
          /\ \A x : Carries(log, e.ops, Len(e.ops), x) <=>
                Carries(log, cur, Len(cur), x) \/ (o.abs_index = x /\ IsContent(log, o))
      BY CarriesAppend, ZenonT(60)
    <2> QED BY <1>1, <1>2, <2>1, <2>2
  <1>4. e.ops[L + 1] = o /\ \A p \in 1..L : e.ops[p] = cur[p]
    OBVIOUS
  <1>5. Made(log, eps, cur, n) /\ Durable(log, eps, n) /\ Kept(log, eps, cur, n, FALSE)
    BY DEF Cut, Held
  <1>6. Entries(log, e.ops, n + 1)
    <2>1. Entries(log, cur, n) /\ o.abs_index < n + 1 /\ cur \in Seq(EpochOp)
          /\ o \in EpochOp /\ e.ops = Append(cur, o)
      BY <1>1, <1>5 DEF Made
    <2> QED BY ONLY <1>1, <1>2, <2>1, EntriesAppend
  <1>7. \A y \in 0..(n - 1) : Stored(log, eps, Len(eps), y) \/ Carries(log, cur, L, y)
    BY <1>5 DEF Kept
  <1>8. ASSUME NEW p \in 1..Len(e.ops) PROVE Behind(log, eps, Len(eps), e, p)
    <2>1. CASE p \in 1..L
      <3>1. e.ops[p].abs_index < n
        BY <1>4, <1>5, <2>1 DEF Made, Entries
      <3> QED BY <1>1, <1>5, <3>1, BelowIsBehind
    <2>2. CASE p = L + 1
      <3>1. e.ops[p].abs_index = n /\ p = Len(e.ops) /\ p - 1 = L
        BY <1>1, <1>3, <1>4, <2>2
      <3> HIDE DEF L
      <3>2. ASSUME NEW f \in 0..n, FlushAt(log, f), NEW y \in 0..(f - 1)
            PROVE  Stored(log, eps, Len(eps), y) \/ Carries(log, e.ops, L, y)
        <4>1. y \in 0..(n - 1)
          BY <1>1
        <4> QED BY <1>3, <1>7, <4>1
      <3> QED BY <3>1, <3>2 DEF Behind
    <2>3. p \in 1..L \/ p = L + 1
      <3> HIDE DEF L
      <3> QED BY <1>3
    <2> QED BY <2>1, <2>2, <2>3
  <1>9. \A f \in n..((n + 1) - 1) : FlushAt(log, f) => \A y \in 0..(f - 1) :
          Stored(log, eps, Len(eps), y) \/ Carries(log, e.ops, Len(e.ops), y)
    <2>1. \A f \in n..((n + 1) - 1) : f = n
      BY <1>1
    <2> HIDE DEF L
    <2> QED BY <1>3, <1>7, <2>1
  <1>10. \A x \in 0..((n + 1) - 1) :
           Carries(log, cur, L, x) \/ x >= n \/ (FALSE /\ x = n - 1) =>
           Carries(log, e.ops, Len(e.ops), x) \/ (FALSE /\ x = (n + 1) - 1)
    <2>1. \A x \in 0..((n + 1) - 1) : x >= n => x = n
      BY <1>1
    <2> HIDE DEF L
    <2> QED BY <1>3, <2>1
  <1>11. \A x \in Nat : Carries(log, e.ops, Len(e.ops), x) => Carries(log, cur, L, x) \/ x >= n
    <2> HIDE DEF L
    <2> QED BY <1>1, <1>3
  <1>12. Held(log, u, <<>>, n + 1, FALSE)
    <2>1. /\ log \in Seq(DiskWrites) /\ eps \in Seq(Epoch) /\ cur \in Seq(EpochOp)
          /\ Cut(log, eps, cur, n, FALSE, half) /\ e \in Epoch /\ u = Append(eps, e)
          /\ TRUE \in BOOLEAN /\ FALSE \in BOOLEAN
      OBVIOUS
    <2> QED BY ONLY <1>1, <1>6, <1>8, <1>9, <1>10, <1>11, <2>1, CutStores, Zenon DEF L
  <1> QED BY <1>12 DEF Cut, Held

\* An epoch that ends in the flag half of a split flush.
LEMMA CutSplit ==
    ASSUME NEW log \in Seq(DiskWrites), NEW eps \in Seq(Epoch), NEW cur \in Seq(EpochOp),
           NEW n \in 0..(Len(log) - 1), NEW half, Cut(log, eps, cur, n, FALSE, half),
           IsSplit(log[n + 1]),
           NEW o \in EpochOp, o.abs_index = n, IsFlagHalf(log, o),
           NEW e \in Epoch, e.ops = Append(cur, o), NEW u, u = Append(eps, e)
    PROVE  Cut(log, u, <<>>, n + 1, TRUE, DataHalf(log[n + 1]))
  <1> DEFINE L == Len(cur)
  <1>1. /\ n \in Nat /\ n + 1 \in Nat /\ n <= n + 1 /\ n < n + 1 /\ n \in 0..Len(log)
        /\ n + 1 \in n..Len(log) /\ n < Len(log) /\ (n + 1) - 1 = n
    OBVIOUS
  <1>2. ~IsContent(log, o)
    BY <1>1, HalvesDiffer
  <1>3. /\ Len(e.ops) = L + 1 /\ L \in Nat
        /\ \A x : Carries(log, e.ops, Len(e.ops), x) <=> Carries(log, cur, L, x)
    <2>1. L \in Nat /\ L \in 0..L
      OBVIOUS
    <2> QED BY <1>1, <1>2, <2>1, CarriesAppend, ZenonT(60)
  <1>4. e.ops[L + 1] = o /\ \A p \in 1..L : e.ops[p] = cur[p]
    OBVIOUS
  <1>5. Made(log, eps, cur, n) /\ Durable(log, eps, n) /\ Kept(log, eps, cur, n, FALSE)
    BY DEF Cut, Held
  <1>6. Entries(log, e.ops, n + 1)
    BY <1>1, <1>5, EntriesAppend DEF Made
  <1>7. \A y \in 0..(n - 1) : Stored(log, eps, Len(eps), y) \/ Carries(log, cur, L, y)
    BY <1>5 DEF Kept
  <1>8. ASSUME NEW p \in 1..Len(e.ops), IsContent(log, e.ops[p])
        PROVE  Behind(log, eps, Len(eps), e, p)
    <2>1. p \in 1..L
      <3>1. p # L + 1
        BY <1>2, <1>4, <1>8
      <3> HIDE DEF L
      <3> QED BY <1>3, <3>1
    <2>2. e.ops[p].abs_index < n
      BY <1>4, <1>5, <2>1 DEF Made, Entries
    <2> QED BY <1>1, <1>5, <2>2, BelowIsBehind
  <1>9. \A f \in n..((n + 1) - 1) : FlushAt(log, f) => \A y \in 0..(f - 1) :
          Stored(log, eps, Len(eps), y) \/ Carries(log, e.ops, Len(e.ops), y)
    <2>1. \A f \in n..((n + 1) - 1) : f = n
      BY <1>1
    <2> HIDE DEF L
    <2> QED BY <1>3, <1>7, <2>1
  <1>10. \A x \in 0..((n + 1) - 1) :
           Carries(log, cur, L, x) \/ x >= n \/ (FALSE /\ x = n - 1) =>
           Carries(log, e.ops, Len(e.ops), x) \/ (TRUE /\ x = (n + 1) - 1)
    <2>1. \A x \in 0..((n + 1) - 1) : x >= n => x = (n + 1) - 1
      BY <1>1
    <2> HIDE DEF L
    <2> QED BY <1>3, <2>1
  <1>11. \A x \in Nat : Carries(log, e.ops, Len(e.ops), x) => Carries(log, cur, L, x) \/ x >= n
    <2> HIDE DEF L
    <2> QED BY <1>3
  <1>12. Held(log, u, <<>>, n + 1, TRUE)
    <2> DEFINE no == FALSE
               yes == TRUE
               m == n + 1
    <2>1. /\ log \in Seq(DiskWrites) /\ eps \in Seq(Epoch) /\ cur \in Seq(EpochOp)
          /\ Cut(log, eps, cur, n, no, half) /\ e \in Epoch /\ u = Append(eps, e)
          /\ yes \in BOOLEAN /\ no \in BOOLEAN /\ n \in 0..Len(log) /\ m \in n..Len(log)
          /\ Entries(log, e.ops, m)
      BY <1>1, <1>6
    <2>2. \A x \in 0..(m - 1) :
            Carries(log, cur, Len(cur), x) \/ x >= n \/ (no /\ x = n - 1) =>
            Carries(log, e.ops, Len(e.ops), x) \/ (yes /\ x = m - 1)
      BY <1>10
    <2>3. \A x \in Nat : Carries(log, e.ops, Len(e.ops), x) =>
                            Carries(log, cur, Len(cur), x) \/ x >= n
      BY <1>11
    <2>4. \A p \in 1..Len(e.ops) :
             IsContent(log, e.ops[p]) => Behind(log, eps, Len(eps), e, p)
      BY <1>8
    <2>5. yes = TRUE /\ m = n + 1
      OBVIOUS
    <2>6. \A f \in n..(m - 1) : FlushAt(log, f) => \A y \in 0..(f - 1) :
            Stored(log, eps, Len(eps), y) \/ Carries(log, e.ops, Len(e.ops), y)
      BY <1>9
    <2> HIDE DEF no, yes, m
    <2>7. Held(log, u, <<>>, m, yes)
      BY ONLY <2>1, <2>2, <2>3, <2>4, <2>6, CutStores, ZenonT(60)
    <2> QED BY <2>5, <2>7
  <1>13. Owed(log, u, <<>>, n + 1, DataHalf(log[n + 1]))
    <2>1. ~Stored(log, eps, Len(eps), n) /\ ~Carries(log, cur, L, n)
      BY <1>1, <1>5, StoredBelow
    <2>2. ~Stored(log, u, Len(u), n)
      <3> HIDE DEF L
      <3> QED BY <1>3, <2>1, StoredAppend
    <2>3. ~Carries(log, <<>>, Len(<<>>), n)
      BY DEF Carries
    <2> QED BY <1>1, <2>2, <2>3 DEF Owed
  <1> QED BY <1>12, <1>13 DEF Cut, Held

\* The entries of the epoch being filled.
CurrentOps == IF pc = "ops" THEN current_epoch.ops ELSE <<>>

ContentInv ==
    NoFlushInARow =>
        Cut(data, epochs_, CurrentOps, index, prev_epoch_flush_op, data_half)

\* At the start nothing is passed.
LEMMA InitContent == Init => ContentInv
  <1> SUFFICES ASSUME Init
               PROVE  Cut(data, epochs_, CurrentOps, index, prev_epoch_flush_op, data_half)
    BY DEF ContentInv
  <1>1. epochs_ = <<>> /\ CurrentOps = <<>> /\ index = 0 /\ prev_epoch_flush_op = FALSE
    BY DEF Init, CurrentOps
  <1>2. Len(epochs_) = 0 /\ Len(CurrentOps) = 0
    BY <1>1
  <1>3. \A x : ~(x \in 1..0) /\ ~(x \in 0..(0 - 1))
    OBVIOUS
  <1>4. \A log, ops, x : ~Carries(log, ops, 0, x)
    BY <1>3 DEF Carries
  <1>5. Made(data, epochs_, CurrentOps, index)
    BY <1>2, <1>3 DEF Made, Entries
  <1>6. Kept(data, epochs_, CurrentOps, index, prev_epoch_flush_op)
    BY <1>1, <1>3 DEF Kept
  <1>7. Durable(data, epochs_, index)
    BY <1>1, <1>3 DEF Durable
  <1>8. Once(data, epochs_, CurrentOps)
    BY <1>2, <1>3, <1>4 DEF Once
  <1>9. Ordered(data, epochs_)
    BY <1>2, <1>3 DEF Ordered
  <1> QED BY <1>1, <1>5, <1>6, <1>7, <1>8, <1>9 DEF Cut, Held

\* One turn of the inner loop: the owed half, then the operation.
LEMMA AddOpContent ==
    ASSUME TypeInv, Cut(data, epochs_, CurrentOps, index, prev_epoch_flush_op, data_half),
           AddOp
    PROVE  Cut(data, epochs_, CurrentOps, index, prev_epoch_flush_op, data_half)'
  <1> DEFINE c == current_epoch.ops
             op == [abs_index |-> index, op |-> curr]
             t == c \o OwedHalf
  <1>1. /\ data \in Seq(DiskWrites) /\ epochs_ \in Seq(Epoch) /\ data_half \in DiskWrites
        /\ index \in Nat /\ Len(data) \in Nat /\ index < Len(data)
        /\ current_epoch \in Epoch /\ c \in Seq(EpochOp) /\ curr \in DiskWrites
        /\ pc = "ops" /\ pc' = "ops" /\ epochs_' = epochs_ /\ prev_epoch_flush_op' = FALSE
        /\ data' = data /\ data_half' = data_half /\ index' = index + 1
        /\ ~is_barrier_write(curr) /\ curr = data[index + 1]
        /\ prev_epoch_flush_op \in BOOLEAN
    BY EpochFields DEF AddOp, TypeInv, TypeOK, curr, AtBarrier
  <1>2. op \in EpochOp /\ op = [abs_index |-> index, op |-> data[index + 1]]
    BY <1>1, EpochOpType
  <1>3. current_epoch'.ops = t \o <<op>>
    BY <1>1 DEF AddOp, Epoch
  <1>4. CurrentOps = c /\ CurrentOps' = current_epoch'.ops
    BY <1>1 DEF CurrentOps
  <1>5. index \in 0..Len(data) /\ index \in 0..(Len(data) - 1)
    BY <1>1
  <1>6. t \in Seq(EpochOp) /\ Cut(data, epochs_, t, index, FALSE, data_half)
    <2>1. CASE prev_epoch_flush_op
      <3> DEFINE half == [abs_index |-> index - 1, op |-> data_half]
      <3>1. OwedHalf = <<half>>
        BY <2>1 DEF OwedHalf
      <3>2. half \in EpochOp
        <4>1. index - 1 \in Nat
          BY <1>1, <2>1 DEF TypeInv, OwedIsPast
        <4> QED BY <1>1, <4>1, EpochOpType
      <3>3. half = [abs_index |-> index - 1, op |-> data_half]
        OBVIOUS
      <3> HIDE DEF half
      <3>4. t = Append(c, half) /\ t \in Seq(EpochOp)
        BY <1>1, <3>1, <3>2
      <3>5. Cut(data, epochs_, c, index, TRUE, data_half)
        BY <1>4, <2>1
      <3> HIDE DEF t, c
      <3>6. Cut(data, epochs_, t, index, FALSE, data_half)
        BY ONLY <1>1, <1>5, <3>2, <3>3, <3>4, <3>5, CutPays
      <3> QED BY <3>4, <3>6
    <2>2. CASE ~prev_epoch_flush_op
      <3>1. t = c /\ prev_epoch_flush_op = FALSE
        BY <1>1, <2>2 DEF OwedHalf
      <3> QED BY <1>1, <1>4, <3>1
    <2> QED BY <2>1, <2>2
  <1>7. current_epoch'.ops = Append(t, op)
    <2> HIDE DEF op
    <2> QED BY <1>2, <1>3, <1>6
  <1> DEFINE u == current_epoch'.ops
  <1>8. Cut(data, epochs_, u, index + 1, FALSE, data_half)
    <2> DEFINE o == op
    <2>1. /\ o \in EpochOp /\ o = [abs_index |-> index, op |-> data[index + 1]]
          /\ u = Append(t, o) /\ ~is_barrier_write(data[index + 1])
      BY <1>1, <1>2, <1>7
    <2> HIDE DEF o, t, u, op
    <2> QED BY ONLY <1>1, <1>5, <1>6, <2>1, CutAdds
  <1> QED BY <1>1, <1>4, <1>8

\* The ends of an epoch.
LEMMA CloseContent ==
    ASSUME TypeInv, NoFlushInARow,
           Cut(data, epochs_, CurrentOps, index, prev_epoch_flush_op, data_half),
           CloseSplit \/ CloseBarrier \/ CloseTail
    PROVE  Cut(data, epochs_, CurrentOps, index, prev_epoch_flush_op, data_half)'
  <1> DEFINE c == current_epoch.ops
             k == data_half
             d == prev_epoch_flush_op
  <1>1. /\ data \in Seq(DiskWrites) /\ epochs_ \in Seq(Epoch) /\ index \in 0..Len(data)
        /\ current_epoch \in Epoch /\ c \in Seq(EpochOp) /\ index \in Nat /\ Len(data) \in Nat
        /\ pc = "ops" /\ pc' = "epoch" /\ data' = data /\ d \in BOOLEAN
    BY EpochFields DEF CloseSplit, CloseBarrier, CloseTail, TypeInv, TypeOK, initVars
  <1>2. CurrentOps = c /\ CurrentOps' = <<>>
    BY <1>1 DEF CurrentOps
  <1>3. Cut(data, epochs_, c, index, d, k)
    BY <1>2
  <1>4. CASE CloseTail
    <2>1. /\ epochs_' = Append(epochs_, current_epoch)
          /\ UNCHANGED <<index, prev_epoch_flush_op, data_half>>
      BY <1>4 DEF CloseTail
    <2> DEFINE u == epochs_'
               e == current_epoch
    <2>2. e \in Epoch /\ e.ops = c /\ u = Append(epochs_, e)
      BY <1>1, <2>1
    <2>3. Cut(data, u, <<>>, index, d, k)
      <3> HIDE DEF u, e, c, d, k
      <3> QED BY ONLY <1>1, <1>3, <2>2, CutTail
    <2> QED BY <1>1, <1>2, <2>1, <2>3
  <1>5. CASE CloseSplit \/ CloseBarrier
    <2>1. index < Len(data) /\ is_barrier_write(data[index + 1]) /\ curr = data[index + 1]
          /\ index' = index + 1
      BY <1>5 DEF CloseSplit, CloseBarrier, AtBarrier, curr
    <2>2. index \in 0..(Len(data) - 1) /\ data[index + 1] \in DiskWrites
      BY <1>1, <2>1
    <2>3. d = FALSE
      <3>1. NoneInARow(data)
        BY DEF NoFlushInARow, NoneInARow
      <3> HIDE DEF d, c, k
      <3> QED BY ONLY <1>1, <1>3, <2>1, <2>2, <3>1, NotOwed
    <2>4. Cut(data, epochs_, c, index, FALSE, k)
      BY <1>3, <2>3
    <2>5. CASE CloseBarrier
      <3> DEFINE o == [abs_index |-> index, op |-> data[index + 1]]
                 e == [current_epoch EXCEPT !.ops = Append(@, o), !.has_barrier = TRUE]
                 u == epochs_'
      <3>1. /\ u = Append(epochs_, e) /\ ~IsSplit(data[index + 1])
            /\ UNCHANGED <<prev_epoch_flush_op, data_half>>
        BY <2>1, <2>5 DEF CloseBarrier
      <3>2. o \in EpochOp /\ o = [abs_index |-> index, op |-> data[index + 1]]
        BY <1>1, <2>2, EpochOpType
      <3> HIDE DEF o
      <3>3. e \in Epoch /\ e.ops = Append(c, o) /\ e.has_barrier
        <4>1. Append(c, o) \in Seq(EpochOp)
          BY <1>1, <3>2
        <4> QED BY <1>1, <4>1 DEF Epoch
      <3>4. Cut(data, u, <<>>, index + 1, FALSE, k)
        <4> HIDE DEF u, e, c, d, k
        <4> QED BY ONLY <1>1, <2>2, <2>4, <3>1, <3>2, <3>3, CutBarrier
      <3> QED BY <1>1, <1>2, <2>1, <2>3, <3>1, <3>4
    <2>6. CASE CloseSplit
      <3> DEFINE o(g) == [abs_index |-> index, op |-> FlagHalf(data[index + 1], g)]
                 ep(g) == [current_epoch EXCEPT !.ops = Append(@, o(g))]
                 u == epochs_'
      <3>1. PICK g \in Garbage : epochs_' = Append(epochs_, ep(g))
        BY <2>1, <2>6 DEF CloseSplit
      <3>2. /\ data_half' = DataHalf(data[index + 1]) /\ prev_epoch_flush_op' = TRUE
            /\ IsSplit(data[index + 1])
        BY <2>1, <2>6 DEF CloseSplit
      <3>3. g \in DiskWrites
        BY PermuterAssumption
      <3> DEFINE h == o(g)
                 e == ep(g)
      <3>4. h \in EpochOp /\ h.abs_index = index /\ IsFlagHalf(data, h)
        <4>1. FlagHalf(data[index + 1], g) \in DiskWrites
          BY <2>2, <3>3, HalvesType
        <4>2. h \in EpochOp /\ h.abs_index = index
          BY <1>1, <4>1, EpochOpType
        <4>3. h = [abs_index |-> index, op |-> FlagHalf(data[index + 1], g)]
          OBVIOUS
        <4> HIDE DEF h
        <4> QED BY <1>1, <2>2, <3>2, <3>3, <4>2, <4>3, FlagHalfIs
      <3>5. u = Append(epochs_, e) /\ e = [current_epoch EXCEPT !.ops = Append(@, h)]
        BY <3>1
      <3> HIDE DEF h
      <3>6. e \in Epoch /\ e.ops = Append(c, h)
        <4>1. Append(c, h) \in Seq(EpochOp)
          BY <1>1, <3>4
        <4> HIDE DEF e
        <4> QED BY <1>1, <3>5, <4>1 DEF Epoch
      <3>7. Cut(data, u, <<>>, index + 1, TRUE, DataHalf(data[index + 1]))
        <4> HIDE DEF u, e, c, d, k
        <4> QED BY ONLY <1>1, <2>2, <2>4, <3>2, <3>4, <3>5, <3>6, CutSplit
      <3> QED BY <1>1, <1>2, <2>1, <3>2, <3>7
    <2> QED BY <1>5, <2>5, <2>6
  <1> QED BY <1>4, <1>5

\* Every step keeps ContentInv.
LEMMA ContentNext == TypeInv /\ ContentInv /\ [Next]_vars => ContentInv'
  <1> SUFFICES ASSUME TypeInv, ContentInv, [Next]_vars PROVE ContentInv'
    OBVIOUS
  <1>1. NoFlushInARow' <=> NoFlushInARow
    BY CrashStateSteps DEF NoFlushInARow
  <1> SUFFICES ASSUME NoFlushInARow
               PROVE  Cut(data, epochs_, CurrentOps, index, prev_epoch_flush_op, data_half)'
    BY <1>1 DEF ContentInv
  <1>2. Cut(data, epochs_, CurrentOps, index, prev_epoch_flush_op, data_half)
    BY DEF ContentInv
  <1>3. CASE AddOp
    BY <1>2, <1>3, AddOpContent
  <1>4. CASE CloseSplit \/ CloseBarrier \/ CloseTail
    BY <1>2, <1>4, CloseContent
  <1>5. CASE EpochStart
    <2>1. CurrentOps = <<>> /\ CurrentOps' = <<>>
      BY <1>5 DEF EpochStart, CurrentOps, NewEpoch
    <2>2. UNCHANGED <<data, epochs_, index, prev_epoch_flush_op, data_half>>
      BY <1>5 DEF EpochStart
    <2> QED BY <1>2, <2>1, <2>2
  <1>6. CASE InitDone \/ GenerateCrashState
    <2>1. pc # "ops" /\ pc' # "ops" /\ UNCHANGED initVars
      BY <1>6 DEF InitDone, GenerateCrashState, Call, LastRound, DrawLength, DrawNothing,
         CopyEpoch, PermuteEpoch, Retry, ReturnNew, GiveUp
    <2>2. CurrentOps' = CurrentOps
      BY <2>1 DEF CurrentOps
    <2> QED BY <1>2, <2>1, <2>2 DEF initVars
  <1>7. CASE UNCHANGED vars
    <2>1. UNCHANGED <<pc, initVars>>
      BY <1>7 DEF vars
    <2> QED BY <1>2, <2>1 DEF initVars, CurrentOps
  <1> QED BY <1>3, <1>4, <1>5, <1>6, <1>7 DEF Next, InitDataVector, Finished

(***************************************************************************)
(* A crash state has entries of the log, the content of a position once    *)
(* (Single), and content only behind all that the flushes up to its        *)
(* position cover (Sound).  While epochs are placed it has what they store *)
(* (StateInv).                                                             *)
(***************************************************************************)
Single(log, s) ==
    \A p, q \in 1..Len(s) :
        s[p].abs_index = s[q].abs_index /\ IsContent(log, s[p]) /\ IsContent(log, s[q])
        => p = q

Sound(log, s) ==
    \A p \in 1..Len(s) : IsContent(log, s[p]) =>
        \A f \in 0..s[p].abs_index : FlushAt(log, f) =>
            \A y \in 0..(f - 1) : Carries(log, s, p - 1, y)

State(log, s) == Entries(log, s, Len(log)) /\ Single(log, s) /\ Sound(log, s)

Source(log, eps, s, n) ==
    \A x \in Nat : Carries(log, s, Len(s), x) => Stored(log, eps, n, x)

All(log, eps, s, n) ==
    \A x \in Nat : Stored(log, eps, n, x) => Carries(log, s, Len(s), x)

StateInv ==
    NoFlushInARow =>
        /\ State(data, crash_state)
        /\ pc = "fill" => /\ Source(data, epochs_, crash_state, i)
                          /\ i < num_epochs => All(data, epochs_, crash_state, i)

\* The entries of two sequences put together.
LEMMA ConcatParts ==
    ASSUME NEW s \in Seq(EpochOp), NEW t \in Seq(EpochOp), NEW u, u = s \o t
    PROVE  /\ u \in Seq(EpochOp) /\ Len(s) \in Nat /\ Len(t) \in Nat
           /\ Len(u) = Len(s) + Len(t)
           /\ \A p \in 1..Len(s) : u[p] = s[p]
           /\ \A r \in 1..Len(t) : u[Len(s) + r] = t[r]
  <1> DEFINE l == Len(s)
             m == Len(t)
  <1>1. /\ u \in Seq(EpochOp) /\ l \in Nat /\ m \in Nat /\ Len(u) = l + m
        /\ \A p \in 1..l : u[p] = s[p]
        /\ \A p \in (l + 1)..(l + m) : u[p] = t[p - l]
    OBVIOUS
  <1> HIDE DEF l, m
  <1>2. \A r \in 1..m : l + r \in (l + 1)..(l + m) /\ (l + r) - l = r
    BY <1>1
  <1> QED BY <1>1, <1>2 DEF l, m

\* Placing entries drawn from an epoch behind what was placed before.
LEMMA Placing ==
    ASSUME NEW log \in Seq(DiskWrites), NEW e \in Epoch, NEW s \in Seq(EpochOp),
           NEW t \in Seq(EpochOp), NEW u, u = s \o t,
           DrawnFrom(t, e), Increasing(e.ops), Entries(log, e.ops, Len(log)), State(log, s),
           \A x \in Nat : Carries(log, e.ops, Len(e.ops), x) => ~Carries(log, s, Len(s), x),
           \A p \in 1..Len(e.ops) : IsContent(log, e.ops[p]) =>
               \A f \in 0..e.ops[p].abs_index : FlushAt(log, f) => \A y \in 0..(f - 1) :
                   \/ Carries(log, s, Len(s), y)
                   \/ p = Len(e.ops) /\ e.has_barrier /\ Carries(log, e.ops, p - 1, y)
    PROVE  /\ State(log, u)
           /\ \A x : Carries(log, u, Len(u), x) =>
                       Carries(log, s, Len(s), x) \/ Carries(log, e.ops, Len(e.ops), x)
  <1> DEFINE l == Len(s)
             m == Len(t)
             o == e.ops
             N == Len(o)
  <1>1. /\ u \in Seq(EpochOp) /\ l \in Nat /\ m \in Nat /\ Len(u) = l + m
        /\ \A p \in 1..l : u[p] = s[p]
        /\ \A r \in 1..m : u[l + r] = t[r]
        /\ \A p \in 1..Len(u) : p \in 1..l \/ \E r \in 1..m : p = l + r
    <2>1. s \in Seq(EpochOp) /\ t \in Seq(EpochOp) /\ u = s \o t
      OBVIOUS
    <2>2. /\ u \in Seq(EpochOp) /\ Len(s) \in Nat /\ Len(t) \in Nat
          /\ Len(u) = Len(s) + Len(t)
      BY ONLY <2>1, ConcatParts
    <2>3. /\ \A p \in 1..Len(s) : u[p] = s[p]
          /\ \A r \in 1..Len(t) : u[Len(s) + r] = t[r]
      BY ONLY <2>1, ConcatParts
    <2>4. \A p \in 1..Len(u) : p \in 1..l \/ \E r \in 1..m : p = l + r
      <3> HIDE DEF l, m
      <3>1. l \in Nat /\ m \in Nat /\ Len(u) = l + m
        BY ONLY <2>2 DEF l, m
      <3>2. \A p \in 1..Len(u) : p \in 1..l \/ (p - l \in 1..m /\ p = l + (p - l))
        BY ONLY <3>1
      <3> QED BY ONLY <3>2
    <2> QED BY ONLY <2>2, <2>3, <2>4 DEF l, m
  <1>2. PICK g \in [1..m -> 1..N] :
          /\ \A p, q \in 1..m : g[p] = g[q] => p = q
          /\ \A p \in 1..m :
               /\ t[p] = o[g[p]]
               /\ e.has_barrier /\ g[p] = N =>
                     \A y \in 1..(N - 1) : \E q \in 1..(p - 1) : g[q] = y
    BY DEF DrawnFrom
  <1>3. /\ o \in Seq(EpochOp) /\ N \in Nat
        /\ \A p \in 1..N : o[p].abs_index \in Nat
        /\ \A p \in 1..l : s[p].abs_index \in Nat
    BY EpochFields, OpsType
  <1>4. \A r \in 1..m : g[r] \in 1..N /\ u[l + r] = o[g[r]]
    BY <1>1, <1>2
  <1>5. Entries(log, o, Len(log)) /\ Increasing(o)
    OBVIOUS
  <1>6. Entries(log, s, Len(log)) /\ Single(log, s) /\ Sound(log, s)
    BY DEF State
  <1>7. \A x \in Nat : Carries(log, o, N, x) => ~Carries(log, s, l, x)
    OBVIOUS
  <1>8. \A p \in 1..N : IsContent(log, o[p]) =>
          \A f \in 0..o[p].abs_index : FlushAt(log, f) => \A y \in 0..(f - 1) :
             Carries(log, s, l, y) \/ (p = N /\ e.has_barrier /\ Carries(log, o, p - 1, y))
    OBVIOUS
  <1> HIDE DEF l, m, o, N
  <1>9. Entries(log, u, Len(log))
    <2>1. ASSUME NEW p \in 1..Len(u)
          PROVE  u[p].abs_index < Len(log) /\ (IsContent(log, u[p]) \/ IsFlagHalf(log, u[p]))
      <3>1. CASE p \in 1..l
        BY <1>1, <1>6, <3>1 DEF Entries, l
      <3>2. CASE \E r \in 1..m : p = l + r
        BY <1>4, <1>5, <3>2 DEF Entries, N
      <3> QED BY <1>1, <3>1, <3>2
    <2> QED BY <2>1 DEF Entries
  <1>10. ASSUME NEW r \in 1..m, IsContent(log, o[g[r]])
         PROVE  Carries(log, o, N, o[g[r]].abs_index)
    BY <1>4, <1>10 DEF Carries
  <1>11. ASSUME NEW p \in 1..l, IsContent(log, s[p]) PROVE Carries(log, s, l, s[p].abs_index)
    BY <1>11 DEF Carries
  <1>12. ASSUME NEW p \in 1..l, NEW r \in 1..m, s[p].abs_index = o[g[r]].abs_index,
                IsContent(log, s[p]), IsContent(log, o[g[r]])
         PROVE  FALSE
    BY <1>3, <1>7, <1>10, <1>11, <1>12
  <1>13. ASSUME NEW p \in 1..m, NEW r \in 1..m, o[g[p]].abs_index = o[g[r]].abs_index
         PROVE  p = r
    <2>1. g[p] \in 1..N /\ g[r] \in 1..N
      BY <1>4
    <2>2. \A a, b \in 1..N : a < b => o[a].abs_index < o[b].abs_index
      BY <1>5 DEF Increasing, N
    <2>3. g[p] = g[r]
      <3> DEFINE a == g[p]
                 b == g[r]
      <3>1. a \in 1..N /\ b \in 1..N /\ o[a].abs_index = o[b].abs_index
        BY <1>13, <2>1
      <3> HIDE DEF a, b
      <3>2. ~(a < b) /\ ~(b < a)
        BY <1>3, <2>2, <3>1
      <3>3. a = b
        BY <1>3, <3>1, <3>2
      <3> QED BY <3>3 DEF a, b
    <2> QED BY <1>2, <2>3
  <1>14. Single(log, u)
    <2> SUFFICES ASSUME NEW p \in 1..Len(u), NEW q \in 1..Len(u),
                        u[p].abs_index = u[q].abs_index,
                        IsContent(log, u[p]), IsContent(log, u[q])
                 PROVE  p = q
      BY DEF Single
    <2>1. CASE p \in 1..l /\ q \in 1..l
      BY <1>1, <1>6, <2>1 DEF Single, l
    <2>2. CASE p \in 1..l /\ \E r \in 1..m : q = l + r
      <3>1. PICK r \in 1..m : q = l + r
        BY <2>2
      <3>2. u[q] = o[g[r]] /\ u[p] = s[p]
        BY <1>1, <1>4, <2>2, <3>1
      <3> QED BY <1>12, <2>2, <3>2
    <2>3. CASE q \in 1..l /\ \E r \in 1..m : p = l + r
      <3>1. PICK r \in 1..m : p = l + r
        BY <2>3
      <3>2. u[p] = o[g[r]] /\ u[q] = s[q]
        BY <1>1, <1>4, <2>3, <3>1
      <3> QED BY <1>12, <2>3, <3>2
    <2>4. CASE (\E r \in 1..m : p = l + r) /\ (\E r \in 1..m : q = l + r)
      <3>1. PICK a \in 1..m : p = l + a
        BY <2>4
      <3>2. PICK b \in 1..m : q = l + b
        BY <2>4
      <3>3. u[p] = o[g[a]] /\ u[q] = o[g[b]]
        BY <1>4, <3>1, <3>2
      <3>4. a = b
        BY <1>13, <3>3
      <3> QED BY <3>1, <3>2, <3>4
    <2> QED BY <1>1, <2>1, <2>2, <2>3, <2>4
  <1>15. ASSUME NEW n \in 0..l, NEW k \in n..Len(u), NEW x, Carries(log, s, n, x)
         PROVE  Carries(log, u, k, x)
    <2>1. PICK p \in 1..n : s[p].abs_index = x /\ IsContent(log, s[p])
      BY <1>15 DEF Carries
    <2>2. p \in 1..k /\ p \in 1..l
      BY <1>1
    <2> QED BY <1>1, <2>1, <2>2 DEF Carries
  <1>16. Sound(log, u)
    <2> SUFFICES ASSUME NEW p \in 1..Len(u), IsContent(log, u[p]),
                        NEW f \in 0..u[p].abs_index, FlushAt(log, f), NEW y \in 0..(f - 1)
                 PROVE  Carries(log, u, p - 1, y)
      BY DEF Sound
    <2>1. CASE p \in 1..l
      <3>1. Carries(log, s, p - 1, y)
        BY <1>1, <1>6, <2>1 DEF Sound, l
      <3>2. p - 1 \in 0..l /\ p - 1 \in (p - 1)..Len(u)
        BY <1>1, <2>1
      <3> QED BY <1>15, <3>1, <3>2
    <2>2. ASSUME NEW r \in 1..m, p = l + r PROVE Carries(log, u, p - 1, y)
      <3>1. u[p] = o[g[r]] /\ g[r] \in 1..N
        BY <1>4, <2>2
      <3>2. \/ Carries(log, s, l, y)
            \/ g[r] = N /\ e.has_barrier /\ Carries(log, o, N - 1, y)
        BY <1>8, <3>1
      <3>3. CASE Carries(log, s, l, y)
        <4>1. l \in 0..l /\ p - 1 \in l..Len(u)
          BY <1>1, <2>2
        <4> QED BY <1>15, <3>3, <4>1
      <3>4. CASE g[r] = N /\ e.has_barrier /\ Carries(log, o, N - 1, y)
        <4>1. PICK z \in 1..(N - 1) : o[z].abs_index = y /\ IsContent(log, o[z])
          BY <3>4 DEF Carries
        <4>2. PICK q \in 1..(r - 1) : g[q] = z
          BY <1>2, <3>4, <4>1
        <4>3. q \in 1..m /\ l + q \in 1..(p - 1)
          BY <1>1, <2>2
        <4>4. u[l + q] = o[z]
          BY <1>4, <4>2, <4>3
        <4> QED BY <4>1, <4>3, <4>4 DEF Carries
      <3> QED BY <3>2, <3>3, <3>4
    <2> QED BY <1>1, <2>1, <2>2
  <1>17. ASSUME NEW x, Carries(log, u, Len(u), x)
         PROVE  Carries(log, s, l, x) \/ Carries(log, o, N, x)
    <2>1. PICK p \in 1..Len(u) : u[p].abs_index = x /\ IsContent(log, u[p])
      BY <1>17 DEF Carries
    <2>2. CASE p \in 1..l
      BY <1>1, <2>1, <2>2 DEF Carries
    <2>3. CASE \E r \in 1..m : p = l + r
      <3>1. PICK r \in 1..m : p = l + r
        BY <2>3
      <3>2. u[p] = o[g[r]] /\ g[r] \in 1..N
        BY <1>4, <3>1
      <3> QED BY <2>1, <3>2 DEF Carries
    <2> QED BY <1>1, <2>2, <2>3
  <1>18. State(log, u)
    BY <1>9, <1>14, <1>16 DEF State
  <1> QED BY <1>17, <1>18 DEF l, o, N

\* Placing a whole epoch leaves out nothing it carries.
LEMMA PlacingAll ==
    ASSUME NEW log, NEW s \in Seq(EpochOp), NEW t \in Seq(EpochOp), NEW u, u = s \o t,
           NEW x, Carries(log, s, Len(s), x) \/ Carries(log, t, Len(t), x)
    PROVE  Carries(log, u, Len(u), x)
  <1> DEFINE l == Len(s)
             m == Len(t)
  <1>1. /\ l \in Nat /\ m \in Nat /\ Len(u) = l + m
        /\ \A p \in 1..l : u[p] = s[p]
        /\ \A r \in 1..m : u[l + r] = t[r]
    BY ConcatParts
  <1>2. Carries(log, s, l, x) \/ Carries(log, t, m, x)
    OBVIOUS
  <1> HIDE DEF l, m
  <1>3. \A p \in 1..l : p \in 1..Len(u)
    BY <1>1
  <1>4. \A r \in 1..m : l + r \in 1..Len(u)
    BY <1>1
  <1> QED BY <1>1, <1>2, <1>3, <1>4 DEF Carries

\* What one more epoch stores.
LEMMA StoredNext ==
    ASSUME NEW log, NEW eps, NEW n \in Nat, NEW x
    PROVE  Stored(log, eps, n + 1, x) <=>
             Stored(log, eps, n, x) \/ Carries(log, eps[n + 1].ops, Len(eps[n + 1].ops), x)
  <1>1. \A k \in 1..(n + 1) : k \in 1..n \/ k = n + 1
    OBVIOUS
  <1>2. \A k \in 1..n : k \in 1..(n + 1)
    OBVIOUS
  <1>3. n + 1 \in 1..(n + 1)
    OBVIOUS
  <1> QED BY <1>1, <1>2, <1>3 DEF Stored

\* One turn of the loop over the epochs.
LEMMA FillState ==
    ASSUME TypeInv, EpochInv, ContentInv, StateInv, CopyEpoch \/ PermuteEpoch PROVE StateInv'
  <1> DEFINE e == epochs_[i + 1]
             s == crash_state
             u == crash_state'
             n == Len(data)
  <1>1. /\ data \in Seq(DiskWrites) /\ epochs_ \in Seq(Epoch) /\ s \in Seq(EpochOp)
        /\ i \in Nat /\ i + 1 \in 1..Len(epochs_) /\ i < num_epochs /\ pc = "fill"
        /\ index \in Nat /\ n \in Nat /\ index <= n /\ num_epochs \in Nat
    <2>1. pc = "fill" /\ i < num_epochs
      BY FillDraws
    <2> QED BY <2>1 DEF TypeInv, TypeOK, DrawInRange
  <1>2. i' = i + 1 /\ UNCHANGED <<pc, data, epochs_, num_epochs>>
    BY DEF CopyEpoch, PermuteEpoch, initVars
  <1>3. PICK t \in Seq(EpochOp) : /\ u = s \o t /\ DrawnFrom(t, e)
                                  /\ ~IsLast => t = e.ops
    BY FillDraws
  <1> SUFFICES ASSUME NoFlushInARow
               PROVE  /\ State(data, u) /\ Source(data, epochs_, u, i + 1)
                      /\ i + 1 < num_epochs => All(data, epochs_, u, i + 1)
    <2>1. NoFlushInARow' <=> NoFlushInARow
      BY <1>2 DEF NoFlushInARow
    <2> QED BY <1>2, <2>1, Zenon DEF StateInv
  <1>4. Made(data, epochs_, CurrentOps, index) /\ Once(data, epochs_, CurrentOps)
        /\ Ordered(data, epochs_)
    BY DEF ContentInv, Cut, Held
  <1>5. State(data, s) /\ Source(data, epochs_, s, i) /\ All(data, epochs_, s, i)
    BY <1>1 DEF StateInv
  <1>6. e \in Epoch /\ e.ops \in Seq(EpochOp) /\ Increasing(e.ops)
    BY <1>1, EpochFields DEF EpochInv, EpochShape
  <1>7. Entries(data, e.ops, n)
    <2>1. Entries(data, e.ops, index)
      BY <1>1, <1>4 DEF Made
    <2> QED BY <1>1, <1>6, <2>1, EntriesGrow
  <1>8. ASSUME NEW x \in Nat, Carries(data, e.ops, Len(e.ops), x), Carries(data, s, Len(s), x)
        PROVE  FALSE
    <2>1. PICK k \in 1..i : Carries(data, epochs_[k].ops, Len(epochs_[k].ops), x)
      BY <1>5, <1>8 DEF Source, Stored
    <2>2. k \in 1..Len(epochs_) /\ k # i + 1
      BY <1>1
    <2> QED BY <1>1, <1>4, <1>8, <2>1, <2>2 DEF Once
  <1>9. ASSUME NEW p \in 1..Len(e.ops), IsContent(data, e.ops[p]),
               NEW f \in 0..e.ops[p].abs_index, FlushAt(data, f), NEW y \in 0..(f - 1)
        PROVE  \/ Carries(data, s, Len(s), y)
               \/ p = Len(e.ops) /\ e.has_barrier /\ Carries(data, e.ops, p - 1, y)
    <2>1. (i + 1) - 1 = i /\ y \in Nat
      BY <1>1
    <2>2. Behind(data, epochs_, i, e, p)
      BY <1>1, <1>4, <1>9, <2>1 DEF Ordered
    <2> QED BY <1>5, <1>9, <2>1, <2>2 DEF Behind, All
  <1> DEFINE log == data
             eps == epochs_
  <1> HIDE DEF s, u, e, n
  <1>10. /\ State(data, u)
         /\ \A x : Carries(data, u, Len(u), x) =>
                     Carries(data, s, Len(s), x) \/ Carries(data, e.ops, Len(e.ops), x)
    <2>1. log \in Seq(DiskWrites) /\ Entries(log, e.ops, Len(log)) /\ State(log, s)
      BY <1>1, <1>5, <1>7 DEF n
    <2>2. \A x \in Nat : Carries(log, e.ops, Len(e.ops), x) => ~Carries(log, s, Len(s), x)
      BY <1>8
    <2>3. \A p \in 1..Len(e.ops) : IsContent(log, e.ops[p]) =>
            \A f \in 0..e.ops[p].abs_index : FlushAt(log, f) => \A y \in 0..(f - 1) :
               \/ Carries(log, s, Len(s), y)
               \/ p = Len(e.ops) /\ e.has_barrier /\ Carries(log, e.ops, p - 1, y)
      BY <1>9
    <2> HIDE DEF log
    <2>4. State(log, u)
      BY ONLY <1>1, <1>3, <1>6, <2>1, <2>2, <2>3, Placing
    <2>5. \A x : Carries(log, u, Len(u), x) =>
                   Carries(log, s, Len(s), x) \/ Carries(log, e.ops, Len(e.ops), x)
      BY ONLY <1>1, <1>3, <1>6, <2>1, <2>2, <2>3, Placing
    <2> QED BY <2>4, <2>5 DEF log
  <1>11. \A x : Stored(data, epochs_, i + 1, x) <=>
                  Stored(data, epochs_, i, x) \/ Carries(data, e.ops, Len(e.ops), x)
    <2> HIDE DEF log, eps
    <2>1. \A x : Stored(log, eps, i + 1, x) <=>
            Stored(log, eps, i, x) \/ Carries(log, eps[i + 1].ops, Len(eps[i + 1].ops), x)
      BY ONLY <1>1, StoredNext
    <2> QED BY <2>1 DEF log, eps, e
  <1>12. Source(data, epochs_, u, i + 1)
    BY <1>5, <1>10, <1>11 DEF Source
  <1>13. ASSUME i + 1 < num_epochs PROVE All(data, epochs_, u, i + 1)
    <2>1. t = e.ops
      <3>1. ~IsLast
        BY <1>1, <1>13 DEF IsLast
      <3> QED BY <1>3, <3>1
    <2>2. ASSUME NEW x \in Nat, Stored(data, epochs_, i + 1, x)
          PROVE  Carries(data, u, Len(u), x)
      <3>1. Carries(data, s, Len(s), x) \/ Carries(data, t, Len(t), x)
        BY <1>5, <1>11, <2>1, <2>2 DEF All
      <3> QED BY <1>1, <1>3, <3>1, PlacingAll
    <2> QED BY <2>2 DEF All
  <1> QED BY <1>10, <1>12, <1>13

\* Every step keeps StateInv.
LEMMA StateNext ==
    TypeInv /\ EpochInv /\ ContentInv /\ StateInv /\ [Next]_vars => StateInv'
  <1> SUFFICES ASSUME TypeInv, EpochInv, ContentInv, StateInv, [Next]_vars PROVE StateInv'
    OBVIOUS
  <1>1. NoFlushInARow' <=> NoFlushInARow
    BY CrashStateSteps DEF NoFlushInARow
  <1>2. CASE CopyEpoch \/ PermuteEpoch
    BY <1>2, FillState
  <1>3. CASE DrawLength
    <2>1. crash_state' = <<>> /\ i' = 0 /\ UNCHANGED <<data, epochs_>>
      BY <1>3 DEF DrawLength, initVars
    <2>2. \A p : ~(p \in 1..0)
      OBVIOUS
    <2>3. Len(<<>>) = 0
      OBVIOUS
    <2>4. State(data, <<>>) /\ Source(data, epochs_, <<>>, 0) /\ All(data, epochs_, <<>>, 0)
      BY <2>2, <2>3 DEF State, Entries, Single, Sound, Source, All, Carries, Stored
    <2> QED BY <2>1, <2>4, Zenon DEF StateInv
  <1>4. CASE UNCHANGED <<data, crash_state>> /\ pc' # "fill"
    BY <1>1, <1>4 DEF StateInv
  <1>5. CASE UNCHANGED vars
    <2>1. UNCHANGED <<data, epochs_, crash_state, pc, i, num_epochs>>
      BY <1>5 DEF vars, initVars, drawVars
    <2> QED BY <1>1, <2>1 DEF StateInv
  <1>6. CASE InitDataVector
    <2>1. UNCHANGED <<data, crash_state>> /\ pc' # "fill"
      BY <1>6 DEF InitDataVector, EpochStart, AddOp, CloseSplit, CloseBarrier, CloseTail,
         InitDone, initVars, drawVars
    <2> QED BY <1>4, <2>1
  <1>7. CASE Call \/ LastRound \/ DrawNothing \/ Retry \/ ReturnNew \/ GiveUp
    <2>1. UNCHANGED <<data, crash_state>> /\ pc' # "fill"
      BY <1>7 DEF Call, LastRound, DrawNothing, Retry, ReturnNew, GiveUp, initVars, drawVars
    <2> QED BY <1>4, <2>1
  <1> QED BY <1>2, <1>3, <1>5, <1>6, <1>7 DEF Next, GenerateCrashState, Finished

\* Nothing is placed at the start.
LEMMA InitState == Init => StateInv
  <1> SUFFICES ASSUME Init PROVE State(data, crash_state) /\ pc # "fill"
    BY DEF StateInv
  <1>1. crash_state = <<>> /\ pc # "fill"
    BY DEF Init
  <1>2. \A p : ~(p \in 1..0)
    OBVIOUS
  <1>3. Len(<<>>) = 0
    OBVIOUS
  <1> QED BY <1>1, <1>2, <1>3 DEF State, Entries, Single, Sound

-----------------------------------------------------------------------------
(* What the tester writes of it *)

\* An operation with a NULL payload is not written unless it is empty.
Delivered(w) == has_write_flag(w) /\ w.size > 0 => w.data # NoData

DeliveredInv ==
    tester \in {"write", "fsck"} =>
        \A p \in 1..Len(crash_state) :
            p < current \/ tester = "fsck" => Delivered(crash_state[p].op)

\* Every step of a round keeps DeliveredInv.
LEMMA TestDelivers == ASSUME TestTypeInv, DeliveredInv, Test PROVE DeliveredInv'
  <1>1. crash_state' = crash_state /\ crash_state \in Seq(EpochOp) /\ TypeInv /\ WriteInv
        /\ bytes_written \in Nat
    BY TestKeepsGenerator DEF vars, drawVars, TestTypeInv, TypeInv, TypeOK, TestTypeOK
  <1>2. Len(crash_state) \in Nat
    BY <1>1
  <1>3. CASE SkipNonWrite
    <2>1. /\ tester = "write" /\ tester' = "write" /\ current' = current + 1
          /\ current \in 1..Len(crash_state) /\ ~has_write_flag(Current)
      BY <1>1, <1>3, CurrentType DEF SkipNonWrite, InWrites
    <2>2. \A p \in 1..Len(crash_state) : p < current' => p < current \/ p = current
      BY <1>2, <2>1
    <2>3. Delivered(crash_state[current].op)
      BY <2>1 DEF Delivered, Current
    <2> QED BY <1>1, <2>1, <2>2, <2>3 DEF DeliveredInv
  <1>4. CASE WriteStep
    <2>1. PICK n \in IF Current.size = 0 THEN {0} ELSE 1..(Current.size - bytes_written) :
             WriteSome(n)
      BY <1>4 DEF WriteStep
    <2>2. tester = "write" /\ tester' = "write" /\ (current' = current + 1 \/ current' = current)
      BY <1>4, <2>1 DEF WriteSome, WriteStep, InWrites
    <2>3. /\ current \in 1..Len(crash_state) /\ Current.size \in Nat
          /\ n > 0 => Current.data # NoData
      <3>1. Current \in DiskWrites /\ current \in 1..Len(crash_state)
        BY <1>1, <1>4, CurrentType DEF WriteStep
      <3> QED BY <2>1, <3>1 DEF WriteSome, DiskWrites
    <2>4. Current.size > 0 => n > 0
      BY <1>1, <2>3
    <2>5. Delivered(crash_state[current].op)
      BY <2>3, <2>4 DEF Delivered, Current
    <2>6. \A p \in 1..Len(crash_state) : p < current' => p < current \/ p = current
      BY <1>2, <2>2, <2>3
    <2> QED BY <1>1, <2>2, <2>5, <2>6 DEF DeliveredInv
  <1>5. CASE WritesDone
    <2>1. tester = "write" /\ tester' = "fsck" /\ current > Len(crash_state)
      BY <1>5 DEF WritesDone
    <2>2. \A p \in 1..Len(crash_state) : p < current
      BY <1>1, <1>2, <2>1 DEF WriteInv
    <2> QED BY <1>1, <2>1, <2>2 DEF DeliveredInv
  <1>6. CASE clone_device_restore
    <2>1. tester' = "write" /\ current' = 1
      BY <1>6 DEF clone_device_restore
    <2>2. \A p \in 1..Len(crash_state) : ~(p < 1)
      BY <1>2
    <2> QED BY <1>1, <2>1, <2>2 DEF DeliveredInv
  <1>7. CASE OpenSnapshot \/ OpenFails \/ RestoreFails \/ WriteFails \/ Fsck \/ Mount
             \/ MountFails \/ CheckTest \/ Umount \/ UmountFails
    <2>1. tester' \notin {"write", "fsck"}
      BY <1>7 DEF OpenSnapshot, OpenFails, RestoreFails, WriteFails, Fsck, Mount,
         MountFails, CheckTest, Umount, UmountFails, EndRound
    <2> QED BY <2>1, Zenon DEF DeliveredInv
  <1> QED BY <1>3, <1>4, <1>5, <1>6, <1>7 DEF Test

\* Every step keeps DeliveredInv.
LEMMA DeliveredNext ==
    TestTypeInv /\ DeliveredInv /\ [TestNext]_<<vars, testVars>> => DeliveredInv'
  <1> SUFFICES ASSUME TestTypeInv, DeliveredInv, [TestNext]_<<vars, testVars>>
               PROVE  DeliveredInv'
    OBVIOUS
  <1>1. CASE Generate
    <2>1. tester' \notin {"write", "fsck"}
      BY <1>1 DEF Generate
    <2> QED BY <2>1, Zenon DEF DeliveredInv
  <1>2. CASE Test
    BY <1>2, TestDelivers
  <1>3. CASE LoopDone \/ UNCHANGED <<vars, testVars>>
    <2>1. UNCHANGED <<vars, testVars>>
      BY <1>3 DEF LoopDone, Finished
    <2> QED BY <2>1 DEF DeliveredInv, vars, testVars, drawVars, roundVars
  <1> QED BY <1>1, <1>2, <1>3 DEF TestNext

\* The data half of a flush writes what the flush does.
LEMMA AppliedContent ==
    ASSUME NEW image, NEW w \in DiskWrites
    PROVE  Applied(image, DataHalf(w)) = Applied(image, w)
  <1> DEFINE h == DataHalf(w)
  <1>1. /\ h.bi_rw = w.bi_rw \ {"FLUSH", "FLUSH_SEQ"} /\ h.write_sector = w.write_sector
        /\ h.size = w.size /\ h.data = w.data
    BY DEF DataHalf, DiskWrites
  <1> HIDE DEF h
  <1>2. has_write_flag(h) <=> has_write_flag(w)
    BY <1>1 DEF has_write_flag
  <1>3. Written(image, h, 0, h.size) = Written(image, w, 0, w.size)
    BY <1>1, Zenon DEF Written
  <1>4. Applied(image, h) = Applied(image, w)
    BY <1>2, <1>3 DEF Applied
  <1> QED BY <1>4 DEF h

\* A flag half that does not make the write fail writes nothing.
LEMMA AppliedFlagHalf ==
    ASSUME NEW image \in Images, NEW h \in DiskWrites, h.data = NoData, Delivered(h)
    PROVE  Applied(image, h) = image
  <1>1. CASE has_write_flag(h)
    <2>1. h.size \in Nat
      BY DEF DiskWrites
    <2>2. h.size = 0
      BY <1>1, <2>1 DEF Delivered
    <2>3. 0 \in Nat
      OBVIOUS
    <2> QED BY <1>1, <2>2, <2>3, WriteNothing DEF Applied
  <1>2. CASE ~has_write_flag(h)
    BY <1>2 DEF Applied
  <1> QED BY <1>1, <1>2

\* Replaying one more operation applies it to what the others left.
LEMMA ReplayAppend ==
    ASSUME NEW image \in Images, NEW ops \in Seq(DiskWrites), NEW w \in DiskWrites,
           NEW u, u = Append(ops, w)
    PROVE  /\ Replay(image, ops) \in Images
           /\ Replay(image, u) = Applied(Replay(image, ops), w)
  <1> DEFINE N == Len(ops)
             f == After(image, ops)
             g == After(image, u)
  <1>1. /\ u \in Seq(DiskWrites) /\ Len(u) = N + 1 /\ N \in Nat /\ u[N + 1] = w
        /\ \A p \in 1..N : u[p] = ops[p]
    OBVIOUS
  <1>2. IsAfter(f, image, ops) /\ IsAfter(g, image, u)
    BY <1>1, AfterSteps
  <1>3. Replay(image, ops) = f[N] /\ Replay(image, u) = g[N + 1]
    BY <1>1 DEF Replay
  <1> HIDE DEF N, f, g
  <1>4. /\ f[0] = image /\ g[0] = image
        /\ \A n \in 1..N : f[n] = Applied(f[n - 1], ops[n])
        /\ \A n \in 1..(N + 1) : g[n] = Applied(g[n - 1], u[n])
        /\ f[N] \in Images
    <2>1. N \in 0..N
      BY <1>1
    <2> QED BY <1>1, <1>2, <2>1 DEF IsAfter, N
  <1> DEFINE S == {m \in Nat : m <= N => g[m] = f[m]}
  <1>5. 0 \in S
    BY <1>4
  <1>6. ASSUME NEW m \in Nat, m \in S PROVE m + 1 \in S
    <2> SUFFICES ASSUME m + 1 <= N PROVE g[m + 1] = f[m + 1]
      OBVIOUS
    <2>1. m + 1 \in 1..N /\ m + 1 \in 1..(N + 1) /\ (m + 1) - 1 = m /\ m <= N
      BY <1>1
    <2>2. g[m] = f[m] /\ u[m + 1] = ops[m + 1]
      BY <1>1, <1>6, <2>1
    <2> QED BY <1>4, <2>1, <2>2
  <1>7. \A m \in Nat : m \in S
    <2> HIDE DEF S
    <2> QED BY <1>5, <1>6, NatInduct
  <1>8. g[N] = f[N]
    BY <1>1, <1>7
  <1>9. N + 1 \in 1..(N + 1) /\ (N + 1) - 1 = N
    BY <1>1
  <1>10. g[N + 1] = Applied(f[N], w)
    BY <1>1, <1>4, <1>8, <1>9
  <1> QED BY <1>3, <1>4, <1>10

-----------------------------------------------------------------------------
(* The image under test *)

(***************************************************************************)
(* The log positions (from 1) in s are those whose content is among the    *)
(* first n entries of a crash state st, each once, and in an order in      *)
(* which a disk may take them.                                             *)
(***************************************************************************)
Taken(log, st, n, s) ==
    \A x \in Nat : Carries(log, st, n, x) <=> \E q \in 1..Len(s) : s[q] = x + 1

OrderedFor(log, s) ==
    \A p \in 1..Len(s) : \A f \in 0..(s[p] - 1) : FlushAt(log, f) =>
        \A x \in 1..f : \E q \in 1..(p - 1) : s[q] = x

Allowed(log, st, n, s) ==
    /\ s \in Seq(1..Len(log)) /\ Taken(log, st, n, s) /\ OrderedFor(log, s)
    /\ \A p, q \in 1..Len(s) : s[p] = s[q] => p = q

LogOps(log, s) == [p \in DOMAIN s |-> log[s[p]]]

\* An order of log positions taken one step further.
LEMMA AllowedNext ==
    ASSUME NEW log \in Seq(DiskWrites), NEW st \in Seq(EpochOp), State(log, st),
           NEW n \in 0..(Len(st) - 1), NEW s, Allowed(log, st, n, s),
           IsContent(log, st[n + 1]), NEW u, u = Append(s, st[n + 1].abs_index + 1)
    PROVE  Allowed(log, st, n + 1, u)
  <1> DEFINE a == st[n + 1].abs_index
             N == Len(s)
             L == Len(log)
  <1>1. /\ n \in Nat /\ n + 1 \in 1..Len(st) /\ a \in Nat /\ a < L /\ L \in Nat
        /\ \A p \in 1..n : p \in 1..Len(st) /\ p # n + 1
    <2>1. Len(st) \in Nat /\ n \in Nat /\ n + 1 \in 1..Len(st)
      BY OpsType
    <2>2. a \in Nat /\ a < L
      BY <2>1, OpsType DEF State, Entries
    <2> QED BY <2>1, <2>2
  <1>2. /\ s \in Seq(1..L) /\ Taken(log, st, n, s) /\ OrderedFor(log, s)
        /\ \A p, q \in 1..N : s[p] = s[q] => p = q
    BY DEF Allowed
  <1> HIDE DEF L
  <1>3. a + 1 \in 1..L
    BY <1>1
  <1> HIDE DEF a
  <1>4. u = Append(s, a + 1)
    BY DEF a
  <1>5. /\ u \in Seq(1..L) /\ Len(u) = N + 1 /\ N \in Nat /\ u[N + 1] = a + 1
        /\ \A p \in 1..N : u[p] = s[p]
    BY <1>2, <1>3, <1>4
  <1> HIDE DEF N
  <1>6. ~Carries(log, st, n, a)
    <2> SUFFICES ASSUME Carries(log, st, n, a) PROVE FALSE
      OBVIOUS
    <2>1. PICK p \in 1..n : st[p].abs_index = a /\ IsContent(log, st[p])
      BY DEF Carries
    <2> QED BY <1>1, <2>1 DEF State, Single, a
  <1>7. \A q \in 1..N : s[q] # a + 1
    BY <1>1, <1>2, <1>6 DEF Taken, N
  <1>8. \A p \in 1..(N + 1) : p \in 1..N \/ p = N + 1
    BY <1>5
  <1>9. \A p, q \in 1..Len(u) : u[p] = u[q] => p = q
    <2> SUFFICES ASSUME NEW p \in 1..(N + 1), NEW q \in 1..(N + 1), u[p] = u[q] PROVE p = q
      BY <1>5
    <2>1. CASE p \in 1..N /\ q \in 1..N
      BY <1>2, <1>5, <2>1
    <2>2. CASE p = N + 1 /\ q \in 1..N
      BY <1>5, <1>7, <2>2
    <2>3. CASE p \in 1..N /\ q = N + 1
      BY <1>5, <1>7, <2>3
    <2> QED BY <1>8, <2>1, <2>2, <2>3
  <1>10. \A x : Carries(log, st, n + 1, x) <=> Carries(log, st, n, x) \/ x = a
    <2>1. \A p \in 1..(n + 1) : p \in 1..n \/ p = n + 1
      BY <1>1
    <2>2. n + 1 \in 1..(n + 1)
      BY <1>1
    <2>3. \A p \in 1..n : p \in 1..(n + 1)
      BY <1>1
    <2> QED BY <2>1, <2>2, <2>3 DEF Carries, a
  <1>11. Taken(log, st, n + 1, u)
    <2> SUFFICES ASSUME NEW x \in Nat
                 PROVE  Carries(log, st, n + 1, x) <=> \E q \in 1..Len(u) : u[q] = x + 1
      BY DEF Taken
    <2>1. Carries(log, st, n, x) <=> \E q \in 1..N : s[q] = x + 1
      BY <1>2 DEF Taken, N
    <2>2. (\E q \in 1..Len(u) : u[q] = x + 1) <=> (\E q \in 1..N : s[q] = x + 1) \/ a + 1 = x + 1
      <3>1. 1..Len(u) = 1..N \cup {N + 1}
        BY <1>5
      <3> QED BY <1>5, <3>1
    <2>3. x = a <=> a + 1 = x + 1
      BY <1>1
    <2> QED BY <1>10, <2>1, <2>2, <2>3
  <1>12. OrderedFor(log, u)
    <2> SUFFICES ASSUME NEW p \in 1..(N + 1), NEW f \in 0..(u[p] - 1), FlushAt(log, f),
                        NEW x \in 1..f
                 PROVE  \E q \in 1..(p - 1) : u[q] = x
      BY <1>5 DEF OrderedFor
    <2>1. CASE p \in 1..N
      <3>1. PICK q \in 1..(p - 1) : s[q] = x
        BY <1>2, <1>5, <2>1, ZenonT(60) DEF OrderedFor, N
      <3>2. q \in 1..N
        BY <1>5, <2>1
      <3> QED BY <1>5, <3>1, <3>2
    <2>2. CASE p = N + 1
      <3>1. f \in 0..a /\ x - 1 \in 0..(f - 1) /\ x - 1 \in Nat /\ (x - 1) + 1 = x
            /\ (n + 1) - 1 = n /\ p - 1 = N
        BY <1>1, <1>5, <2>2
      <3>2. Carries(log, st, n, x - 1)
        BY <1>1, <3>1 DEF State, Sound, a
      <3>3. PICK q \in 1..N : s[q] = x
        BY <1>2, <3>1, <3>2 DEF Taken, N
      <3> QED BY <1>5, <3>1, <3>3
    <2> QED BY <1>8, <2>1, <2>2
  <1> QED BY <1>5, <1>9, <1>11, <1>12 DEF Allowed, L

\* An order of different positions is no longer than the log.
LEMMA AllowedShort ==
    ASSUME NEW L \in Nat, NEW s \in Seq(1..L),
           \A p, q \in 1..Len(s) : s[p] = s[q] => p = q
    PROVE  Len(s) \in 0..L
  <1> SUFFICES ASSUME L < Len(s) PROVE FALSE
    OBVIOUS
  <1> DEFINE h == [p \in 1..L |-> s[p]]
  <1>1. L + 1 \in 1..Len(s) /\ s[L + 1] \in 1..L
        /\ \A p \in 1..L : p \in 1..Len(s) /\ p # L + 1 /\ s[p] \in 1..L
    OBVIOUS
  <1>2. h \in [1..L -> 1..L] /\ \A p, q \in 1..L : h[p] = h[q] => p = q
    BY <1>1
  <1>3. \A y \in 1..L : \E p \in 1..L : h[p] = y
    <2> HIDE DEF h
    <2> QED BY <1>2, Pigeonhole
  <1>4. PICK p \in 1..L : s[p] = s[L + 1]
    BY <1>1, <1>3
  <1> QED BY <1>1, <1>4

\* The operations at positions of the log.
LEMMA LogOpsType ==
    ASSUME NEW log \in Seq(DiskWrites), NEW s \in Seq(1..Len(log))
    PROVE  LogOps(log, s) \in Seq(DiskWrites)
  <1>1. Len(s) \in Nat /\ DOMAIN s = 1..Len(s) /\ \A p \in 1..Len(s) : s[p] \in 1..Len(log)
    OBVIOUS
  <1>2. \A x \in 1..Len(log) : log[x] \in DiskWrites
    OBVIOUS
  <1>3. \A p \in 1..Len(s) : log[s[p]] \in DiskWrites
    BY <1>1, <1>2
  <1> QED BY <1>1, <1>3 DEF LogOps

\* One more position is one more operation.
LEMMA LogOpsAppend ==
    ASSUME NEW log \in Seq(DiskWrites), NEW s \in Seq(1..Len(log)), NEW x \in 1..Len(log),
           NEW u, u = Append(s, x)
    PROVE  LogOps(log, u) = Append(LogOps(log, s), log[x])
  <1> DEFINE N == Len(s)
             v == Append(LogOps(log, s), log[x])
             g == LogOps(log, s)
  <1>1. u \in Seq(1..Len(log)) /\ N \in Nat /\ Len(u) = N + 1 /\ DOMAIN u = 1..(N + 1)
        /\ u[N + 1] = x /\ \A p \in 1..N : u[p] = s[p]
    OBVIOUS
  <1>2. g \in Seq(DiskWrites) /\ log[x] \in DiskWrites
    BY LogOpsType
  <1>3. g = [p \in 1..N |-> log[s[p]]]
    BY DEF LogOps
  <1>4. Len(g) = N
    BY <1>1, <1>2, <1>3
  <1>5. /\ v = [p \in 1..(N + 1) |-> v[p]] /\ v[N + 1] = log[x]
        /\ \A p \in 1..N : v[p] = g[p]
    <2> HIDE DEF g
    <2>1. v = Append(g, log[x])
      BY DEF g
    <2> HIDE DEF v
    <2>2. v \in Seq(DiskWrites) /\ Len(v) = Len(g) + 1
      BY <1>2, <2>1
    <2>3. v = [p \in 1..Len(v) |-> v[p]]
      BY <2>2
    <2>4. v[Len(g) + 1] = log[x] /\ \A p \in 1..Len(g) : v[p] = g[p]
      BY <1>2, <2>1
    <2> QED BY <1>4, <2>2, <2>3, <2>4
  <1>6. LogOps(log, u) = [p \in 1..(N + 1) |-> log[u[p]]]
    BY <1>1 DEF LogOps
  <1> HIDE DEF N, v
  <1>7. \A p \in 1..(N + 1) : log[u[p]] = v[p]
    <2>1. \A p \in 1..(N + 1) : p \in 1..N \/ p = N + 1
      BY <1>1
    <2> QED BY <1>1, <1>3, <1>5, <2>1, ZenonT(60)
  <1>8. LogOps(log, u) = v
    BY <1>5, <1>6, <1>7
  <1> QED BY <1>8 DEF v

\* What the operations of a crash state leave on an image, some order in which a
\* disk may take the log leaves there.
LEMMA ImageAllowed ==
    ASSUME NEW log \in Seq(DiskWrites), NEW st \in Seq(EpochOp), State(log, st),
           \A p \in 1..Len(st) : Delivered(st[p].op),
           NEW image \in Images, NEW after, after[0] = image,
           \A n \in 0..Len(st) : after[n] \in Images,
           \A n \in 1..Len(st) : after[n] = Applied(after[n - 1], st[n].op)
    PROVE  \E s \in Seq(1..Len(log)) :
              Allowed(log, st, Len(st), s) /\ Replay(image, LogOps(log, s)) = after[Len(st)]
  <1> DEFINE Good(n) == \E s \in Seq(1..Len(log)) :
                           /\ Allowed(log, st, n, s)
                           /\ Replay(image, LogOps(log, s)) = after[n]
             S == {n \in Nat : n <= Len(st) => Good(n)}
  <1>1. Len(st) \in Nat /\ Len(log) \in Nat
    OBVIOUS
  <1>2. Good(0)
    <2>1. <<>> \in Seq(1..Len(log)) /\ Len(<<>>) = 0 /\ \A p : ~(p \in 1..0)
      OBVIOUS
    <2>2. Allowed(log, st, 0, <<>>)
      BY <2>1 DEF Allowed, Taken, OrderedFor, Carries
    <2>3. LogOps(log, <<>>) = <<>>
      BY DEF LogOps
    <2>4. Replay(image, <<>>) = image
      <3>1. <<>> \in Seq(DiskWrites)
        OBVIOUS
      <3>2. IsAfter(After(image, <<>>), image, <<>>)
        BY <3>1, AfterSteps
      <3> QED BY <2>1, <3>2 DEF Replay, IsAfter
    <2> QED BY <2>1, <2>2, <2>3, <2>4
  <1>3. ASSUME NEW n \in Nat, n \in S PROVE n + 1 \in S
    <2> SUFFICES ASSUME n + 1 <= Len(st) PROVE Good(n + 1)
      OBVIOUS
    <2>1. n + 1 \in 1..Len(st) /\ n \in 0..Len(st) /\ n \in 0..(Len(st) - 1) /\ (n + 1) - 1 = n
      BY <1>1
    <2>2. PICK s \in Seq(1..Len(log)) :
             Allowed(log, st, n, s) /\ Replay(image, LogOps(log, s)) = after[n]
      BY <1>1, <1>3, <2>1
    <2> HIDE DEF Good, S
    <2> DEFINE o == st[n + 1]
               a == o.abs_index
    <2>3. /\ o \in EpochOp /\ a \in Nat /\ o.op \in DiskWrites /\ a < Len(log)
          /\ IsContent(log, o) \/ IsFlagHalf(log, o)
      BY <2>1, OpsType DEF State, Entries
    <2>4. after[n] \in Images /\ after[n + 1] = Applied(after[n], o.op) /\ Delivered(o.op)
      BY <2>1
    <2>5. CASE IsContent(log, o)
      <3> DEFINE x == a + 1
                 u == Append(s, x)
      <3>1. Allowed(log, st, n + 1, u)
        BY <2>1, <2>2, <2>5, AllowedNext
      <3>2. x \in 1..Len(log) /\ log[x] \in DiskWrites
        <4> HIDE DEF a
        <4> QED BY <1>1, <2>3
      <3>3. u \in Seq(1..Len(log))
        BY <3>1 DEF Allowed
      <3>4. Applied(after[n], o.op) = Applied(after[n], log[x])
        <4>1. o.op = IF IsSplit(log[x]) THEN DataHalf(log[x]) ELSE log[x]
          BY <2>5 DEF IsContent, Content
        <4> HIDE DEF x, o
        <4> QED BY <3>2, <4>1, AppliedContent
      <3>5. LogOps(log, u) = Append(LogOps(log, s), log[x])
        <4> HIDE DEF x
        <4> QED BY <3>2, LogOpsAppend
      <3>6. LogOps(log, s) \in Seq(DiskWrites)
        BY LogOpsType
      <3> HIDE DEF x, o, u
      <3>7. Replay(image, LogOps(log, u)) = Applied(Replay(image, LogOps(log, s)), log[x])
        <4> DEFINE v == LogOps(log, s)
                   t == LogOps(log, u)
                   w == log[x]
        <4>1. v \in Seq(DiskWrites) /\ w \in DiskWrites /\ t = Append(v, w) /\ image \in Images
          BY <3>2, <3>5, <3>6
        <4> HIDE DEF v, t, w
        <4>2. Replay(image, t) = Applied(Replay(image, v), w)
          BY ONLY <4>1, ReplayAppend, ZenonT(60)
        <4> QED BY <4>2 DEF v, t, w
      <3> QED BY <2>2, <2>4, <3>1, <3>3, <3>4, <3>7 DEF Good
    <2>6. CASE ~IsContent(log, o)
      <3>1. o.op.data = NoData
        BY <2>3, <2>6 DEF IsFlagHalf
      <3>2. after[n + 1] = after[n]
        <4> HIDE DEF o
        <4> QED BY <2>3, <2>4, <3>1, AppliedFlagHalf
      <3>3. \A y : Carries(log, st, n + 1, y) <=> Carries(log, st, n, y)
        <4>1. \A p \in 1..(n + 1) : p \in 1..n \/ p = n + 1
          OBVIOUS
        <4>2. \A p \in 1..n : p \in 1..(n + 1)
          OBVIOUS
        <4> QED BY <2>6, <4>1, <4>2 DEF Carries
      <3>4. Allowed(log, st, n + 1, s)
        BY <2>2, <3>3 DEF Allowed, Taken
      <3> QED BY <2>2, <3>2, <3>4 DEF Good
    <2> QED BY <2>5, <2>6
  <1> HIDE DEF Good
  <1>4. 0 \in S
    BY <1>2
  <1>5. \A n \in Nat : n \in S
    <2> HIDE DEF S
    <2> QED BY <1>3, <1>4, NatInduct
  <1>6. Good(Len(st))
    BY <1>1, <1>5
  <1> QED BY <1>6 DEF Good

\* An allowed order is one of DiskOrders.
LEMMA AllowedIsDiskOrder ==
    ASSUME data \in Seq(DiskWrites), NEW st, NEW n, NEW s, Allowed(data, st, n, s)
    PROVE  s \in DiskOrders
  <1> DEFINE L == Len(data)
  <1>1. L \in Nat /\ DOMAIN data = 1..L
    OBVIOUS
  <1>2. /\ s \in Seq(1..L) /\ OrderedFor(data, s)
        /\ \A p, q \in 1..Len(s) : s[p] = s[q] => p = q
    BY DEF Allowed
  <1>3. Len(s) \in 0..L /\ DOMAIN s = 1..Len(s) /\ s \in [1..Len(s) -> 1..L]
    <2> HIDE DEF L
    <2>1. Len(s) \in 0..L
      BY <1>1, <1>2, AllowedShort
    <2>2. s \in Seq(1..L)
      BY <1>2
    <2>3. s = [p \in 1..Len(s) |-> s[p]]
      BY ONLY <2>2
    <2>4. DOMAIN s = 1..Len(s)
      BY ONLY <2>3
    <2>5. \A p \in 1..Len(s) : s[p] \in 1..L
      BY ONLY <1>1, <2>2, SMTT(30)
    <2> QED BY ONLY <2>1, <2>3, <2>4, <2>5
  <1>4. s \in BoundedSeq(DOMAIN data, L)
    <2> HIDE DEF L
    <2> QED BY <1>1, <1>3 DEF BoundedSeq, SeqOf
  <1>5. IsInjective(s)
    BY <1>2, <1>3 DEF IsInjective
  <1>6. ASSUME NEW p \in DOMAIN s, NEW f \in Flushes, f <= s[p], NEW x \in 1..(f - 1)
        PROVE  \E q \in 1..(p - 1) : s[q] = x
    <2>1. f \in 1..L /\ s[p] \in 1..L /\ p \in 1..Len(s)
      BY <1>1, <1>3 DEF Flushes
    <2>2. (f - 1) + 1 = f /\ f - 1 \in 0..(s[p] - 1)
      <3> HIDE DEF L
      <3> QED BY <1>1, <1>6, <2>1
    <2>3. FlushAt(data, f - 1)
      BY <2>2 DEF FlushAt, Flushes
    <2> QED BY <1>2, <2>1, <2>2, <2>3 DEF OrderedFor
  <1> QED BY <1>4, <1>5, <1>6 DEF DiskOrders

\* The image under test, from what the invariants say of the crash state.
LEMMA TestedIsPossible ==
    TestTypeInv /\ ReplayInv /\ StateInv /\ DeliveredInv => TestedImagePossible
  <1> SUFFICES ASSUME TestTypeInv, ReplayInv, StateInv, DeliveredInv,
                      tester = "fsck", ~faulty, NoFlushInARow
               PROVE  snapshot \in DiskImages
    BY DEF TestedImagePossible
  <1> DEFINE st == crash_state
             log == data
             after == CrashImage
  <1>1. log \in Seq(DiskWrites) /\ st \in Seq(EpochOp) /\ Len(st) \in Nat
    BY DEF TestTypeInv, TypeInv, TypeOK
  <1>2. State(log, st) /\ snapshot = after[Len(st)]
    BY DEF StateInv, ReplayInv
  <1>3. \A p \in 1..Len(st) : Delivered(st[p].op)
    BY DEF DeliveredInv
  <1>4. /\ BaseImage \in Images /\ after[0] = BaseImage
        /\ \A n \in 0..Len(st) : after[n] \in Images
        /\ \A n \in 1..Len(st) : after[n] = Applied(after[n - 1], st[n].op)
    BY CrashOpsType DEF IsAfter, TestTypeInv
  <1>5. PICK s \in Seq(1..Len(log)) :
           Allowed(log, st, Len(st), s) /\ Replay(BaseImage, LogOps(log, s)) = after[Len(st)]
    <2> HIDE DEF st, log, after
    <2> QED BY ONLY <1>1, <1>2, <1>3, <1>4, ImageAllowed
  <1>6. s \in DiskOrders
    BY <1>1, <1>5, AllowedIsDiskOrder
  <1>7. snapshot = Replay(BaseImage, [p \in DOMAIN s |-> data[s[p]]])
    BY <1>2, <1>5 DEF LogOps
  <1> QED BY <1>6, <1>7 DEF DiskImages

\* What the generator keeps, under the tester.
LEMMA GeneratorInvHolds == TestSpec => [](OrderInv /\ EpochInv /\ ContentInv /\ StateInv)
  <1> DEFINE I == OrderInv /\ EpochInv /\ ContentInv /\ StateInv
  <1>1. Init => I
    BY InitOrder, InitEpochs, InitContent, InitState
  <1>2. TypeInv /\ I /\ [Next]_vars => I'
    BY OrderInvNext, EpochInvNext, ContentNext, StateNext
  <1>3. TestTypeInv => TypeInv
    BY DEF TestTypeInv
  <1> HIDE DEF I
  <1>4. TestSpec => []I
    BY <1>1, <1>2, <1>3, TestTypeInvHolds, TesterDrivesGenerator, PTL DEF Spec
  <1> QED BY <1>4 DEF I

(***************************************************************************)
(* The image fsck is given is one that a disk honouring flushes could have *)
(* been left with by a crash, for every log in which no split flush is     *)
(* followed by another barrier at once: cutting the log at barriers,       *)
(* splitting flushes, placing all but the last epoch whole and holding     *)
(* marked barriers back never puts content ahead of what a flush covers.   *)
(***************************************************************************)
THEOREM TestedImagePossibleHolds == TestSpec => []TestedImagePossible
  <1>1. TestInit => DeliveredInv /\ ReplayInv
    BY DEF TestInit, DeliveredInv, ReplayInv, Released
  <1> QED BY <1>1, TestedIsPossible, TestTypeInvHolds, ReplayInvNext, DeliveredNext,
          GeneratorInvHolds, PTL DEF TestSpec
=============================================================================
