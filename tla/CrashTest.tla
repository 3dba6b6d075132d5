----------------------------- MODULE CrashTest -----------------------------
(***************************************************************************)
(* Testing the crash states: Tester::test_check_random_permutations around *)
(* the generator of module Permuter.  Each state GenerateCrashState hands  *)
(* out is written to a snapshot that was reset to the base image, checked  *)
(* by fsck, mounted, examined by the user's check_test and unmounted; the  *)
(* outcome goes to a TestSuiteResult.                                      *)
(*                                                                         *)
(* The snapshot is what a reader of its block device sees, byte by byte.   *)
(* A byte holds Base (the base image), one byte of a logged payload, or    *)
(* Other: whatever fsck, or the file system while mounted, left there.     *)
(***************************************************************************)
EXTENDS Permuter

CONSTANTS
    SECTOR_SIZE,       \* bytes per sector
    DiskBytes,         \* size of the snapshot
    Base, Other,
    DataErrors,        \* DataTestResult::ErrorType without kClean
    CheckReturns       \* what check_test may answer: its return value and error

ASSUME CrashTestAssumption ==
    /\ SECTOR_SIZE \in Nat \ {0} /\ DiskBytes \in Nat
    /\ "kClean" \notin DataErrors /\ IsFiniteSet(DataErrors)
    \* The test cases of the repository set an error whenever they fail.
    /\ CheckReturns \subseteq [ret : {0, -1}, error : DataErrors \cup {"kClean"}]
    /\ \A r \in CheckReturns : r.ret # 0 => r.error # "kClean"

VARIABLES
    tester,            \* where test_check_random_permutations is
    snapshot,          \* contents of SNAPSHOT_PATH
    snapshot_fds,      \* descriptors open on it
    mounted,           \* the kernel has it mounted
    current,           \* test_write_data: the operation it is on
    bytes_written,     \*   and how much of it is written
    fs_check_return,   \* this round's result of fsck
    completed_,        \* TestSuiteResult
    \* history
    outcomes,          \* what really became of each state handed out
    faulty             \* a restore or a umount has failed

deviceVars == <<snapshot, snapshot_fds, mounted>>
roundVars == <<current, bytes_written, fs_check_return>>
resultVars == <<completed_, outcomes>>
testVars == <<tester, deviceVars, roundVars, resultVars, faulty>>

Bytes == 0..(DiskBytes - 1)
Scribbled == [a \in Bytes |-> Other]
FsErrors == {"kClean", "kUnmountable", "kFixed", "kCheck", "kSnapshotRestore", "kBioWrite"}

-----------------------------------------------------------------------------
(* Recording a result *)

\* AddCompletedTest, with the error the round ended in; outcome is the history.
AddCompletedTest(fs, error, outcome) ==
    /\ completed_' = Append(completed_, [fs_test |-> fs, data_test |-> error])
    /\ outcomes' = Append(outcomes, outcome)

\* SingleTestInfo
Results == [fs_test : FsErrors, data_test : DataErrors \cup {"kClean"}]

Count(R) == Cardinality({k \in DOMAIN completed_ : completed_[k] \in R})

\* The numbers PrintResults prints.
PrintResults ==
    LET passed(fs) == {[fs_test |-> fs, data_test |-> "kClean"]}
        failed == Results \ (passed("kClean") \cup passed("kFixed"))
    IN [num_passed |-> Count(passed("kClean")), num_passed_fixed |-> Count(passed("kFixed")),
        num_failed |-> Count(failed),
        by_error |-> [e \in DataErrors |-> Count({r \in failed : r.data_test = e})]]

-----------------------------------------------------------------------------
(* One round *)

\* continue: the locals of the round go out of scope.
EndRound ==
    /\ tester' = "generate"
    /\ current' = 1 /\ bytes_written' = 0 /\ fs_check_return' = "unset"

\* A step of the generator; a new state starts a round of testing.
Generate ==
    /\ tester = "generate"
    /\ InitDataVector \/ GenerateCrashState
    /\ tester' = IF returned' # returned THEN "open" ELSE "generate"
    /\ UNCHANGED <<deviceVars, roundVars, resultVars, faulty>>

OpenSnapshot ==
    /\ tester = "open"
    /\ snapshot_fds' = snapshot_fds + 1
    /\ tester' = "restore"
    /\ UNCHANGED <<vars, snapshot, mounted, roundVars, resultVars, faulty>>

\* Mutant: the descriptor that was not opened is closed.
OpenFails_Closes ==
    /\ tester = "open"
    /\ snapshot_fds' = snapshot_fds - 1
    /\ outcomes' = Append(outcomes, "not opened")
    /\ EndRound
    /\ UNCHANGED <<vars, snapshot, mounted, completed_, faulty>>

\* The round is left without AddCompletedTest.
OpenFails ==
    /\ tester = "open"
    /\ outcomes' = Append(outcomes, "not opened")
    /\ EndRound
    /\ UNCHANGED <<vars, deviceVars, completed_, faulty>>

\* Mutant: the pages of the snapshot stay.
clone_device_restore_Kept ==
    /\ tester = "restore"
    /\ current' = 1 /\ bytes_written' = 0
    /\ tester' = "write"
    /\ UNCHANGED <<vars, deviceVars, fs_check_return, resultVars, faulty>>

(***************************************************************************)
(* COW_BRD_RESTORE_SNAPSHOT frees the snapshot's own pages.  The kernel    *)
(* drops its cache of a block device with the last close; while something  *)
(* else keeps the device open, what it has cached survives.                *)
(***************************************************************************)
clone_device_restore ==
    /\ tester = "restore"
    /\ \E cached \in IF snapshot_fds > 1 \/ mounted THEN SUBSET Bytes ELSE {{}} :
         snapshot' = [a \in Bytes |-> IF a \in cached THEN snapshot[a] ELSE Base]
    /\ current' = 1 /\ bytes_written' = 0
    /\ tester' = "write"
    /\ UNCHANGED <<vars, snapshot_fds, mounted, fs_check_return, resultVars, faulty>>

\* Mutant: the failed restore is not recorded.
RestoreFails_Unrecorded ==
    /\ tester = "restore"
    /\ outcomes' = Append(outcomes, "not restored")
    /\ faulty' = TRUE
    /\ EndRound
    /\ UNCHANGED <<vars, deviceVars, completed_>>

\* The descriptor is not closed.
RestoreFails ==
    /\ tester = "restore"
    /\ AddCompletedTest("kSnapshotRestore", "kClean", "not restored")
    /\ faulty' = TRUE
    /\ EndRound
    /\ UNCHANGED <<vars, deviceVars>>

\* The operation test_write_data is on; GenerateCrashState returned only the
\* operations of the crash state.
Current == crash_state[current].op

byte_addr == Current.write_sector * SECTOR_SIZE

InWrites == tester = "write" /\ current <= Len(crash_state)

SkipNonWrite ==
    /\ InWrites /\ ~has_write_flag(Current)
    /\ current' = current + 1
    /\ UNCHANGED <<vars, tester, deviceVars, bytes_written, fs_check_return,
                   resultVars, faulty>>

\* n bytes of w from offset off on, written to image.
Written(image, w, off, n) ==
    [a \in Bytes |-> LET k == a - w.write_sector * SECTOR_SIZE
                     IN IF k \in off..(off + n - 1) THEN <<w.data, k>> ELSE image[a]]

\* write takes n bytes, fewer than asked for perhaps; the loop asks again.
WriteSome(n) ==
    /\ has_write_flag(Current)
    /\ n > 0 => Current.data # NoData
    /\ byte_addr + bytes_written + n <= DiskBytes
    /\ snapshot' = Written(snapshot, Current, bytes_written, n)
    /\ IF bytes_written + n < Current.size
       THEN bytes_written' = bytes_written + n /\ UNCHANGED current
       ELSE bytes_written' = 0 /\ current' = current + 1
    /\ UNCHANGED <<vars, tester, snapshot_fds, mounted, fs_check_return, resultVars,
                   faulty>>

WriteStep == /\ InWrites
             /\ \E n \in IF Current.size = 0 THEN {0}
                         ELSE 1..(Current.size - bytes_written) : WriteSome(n)

\* Mutant: the error path keeps the descriptor.
WriteFails_KeepsFd ==
    /\ InWrites /\ has_write_flag(Current)
    /\ AddCompletedTest("kBioWrite", "kClean", "not written")
    /\ EndRound
    /\ UNCHANGED <<vars, deviceVars, faulty>>

\* lseek or write fails: an I/O error, a sector past the end, or the NULL
\* payload of a flag half whose left-over flags make it look like a write.
WriteFails ==
    /\ InWrites /\ has_write_flag(Current)
    /\ AddCompletedTest("kBioWrite", "kClean", "not written")
    /\ snapshot_fds' = snapshot_fds - 1
    /\ EndRound
    /\ UNCHANGED <<vars, snapshot, mounted, faulty>>

WritesDone ==
    /\ tester = "write" /\ current > Len(crash_state)
    /\ snapshot_fds' = snapshot_fds - 1
    /\ tester' = "fsck"
    /\ UNCHANGED <<vars, snapshot, mounted, roundVars, resultVars, faulty>>

\* fsck -y: clean, repaired (exit status 1), or anything else.
Fsck ==
    /\ tester = "fsck"
    /\ \/ /\ fs_check_return' = "clean"
          /\ tester' = "mount"
          /\ UNCHANGED <<snapshot, current, bytes_written, resultVars>>
       \/ /\ fs_check_return' = "repaired"
          /\ snapshot' = Scribbled
          /\ tester' = "mount"
          /\ UNCHANGED <<current, bytes_written, resultVars>>
       \/ /\ AddCompletedTest("kCheck", "kClean", "not checked")
          /\ snapshot' = Scribbled
          /\ EndRound
    /\ UNCHANGED <<vars, snapshot_fds, mounted, faulty>>

\* A device that is still mounted from an earlier round is busy.
Mount ==
    /\ tester = "mount" /\ ~mounted
    /\ mounted' = TRUE
    /\ tester' = "check_test"
    /\ UNCHANGED <<vars, snapshot, snapshot_fds, roundVars, resultVars, faulty>>

MountFails ==
    /\ tester = "mount"
    /\ AddCompletedTest("kUnmountable", "kClean", "not mounted")
    /\ EndRound
    /\ UNCHANGED <<vars, deviceVars, faulty>>

FixedError(ret) == IF ret = 0 /\ fs_check_return # "clean" THEN "kFixed" ELSE "kClean"

\* check_test on the mounted file system, which may write to it.
CheckTest ==
    /\ tester = "check_test"
    /\ \E r \in CheckReturns :
         AddCompletedTest(FixedError(r.ret), r.error,
             IF r.error # "kClean" THEN "bad data"
             ELSE IF fs_check_return = "clean" THEN "passed" ELSE "passed repaired")
    /\ snapshot' = Scribbled
    /\ tester' = "umount"
    /\ UNCHANGED <<vars, snapshot_fds, mounted, roundVars, faulty>>

Umount ==
    /\ tester = "umount"
    /\ mounted' = FALSE
    /\ EndRound
    /\ UNCHANGED <<vars, snapshot, snapshot_fds, resultVars, faulty>>

\* The result of umount_device is ignored.
UmountFails ==
    /\ tester = "umount"
    /\ faulty' = TRUE
    /\ EndRound
    /\ UNCHANGED <<vars, deviceVars, resultVars>>

Test == \/ OpenSnapshot \/ OpenFails \/ clone_device_restore \/ RestoreFails
        \/ SkipNonWrite \/ WriteStep \/ WriteFails \/ WritesDone
        \/ Fsck \/ Mount \/ MountFails \/ CheckTest \/ Umount \/ UmountFails

-----------------------------------------------------------------------------

TestInit ==
    /\ Init
    /\ tester = "generate"
    /\ snapshot = [a \in Bytes |-> Base] /\ snapshot_fds = 0 /\ mounted = FALSE
    /\ current = 1 /\ bytes_written = 0 /\ fs_check_return = "unset"
    /\ completed_ = <<>> /\ outcomes = <<>>
    /\ faulty = FALSE

LoopDone == tester = "generate" /\ Finished /\ UNCHANGED testVars

TestNext == Generate \/ Test \/ LoopDone

TestSpec == TestInit /\ [][TestNext]_<<vars, testVars>>

\* One sequential program: fsck, mount and check_test return.
FairTestSpec == TestSpec /\ WF_<<vars, testVars>>(Generate \/ Test)

-----------------------------------------------------------------------------
(* Properties *)

\* The variables of the tester keep their types.
TestTypeOK ==
    /\ tester \in {"generate", "open", "restore", "write", "fsck", "mount",
                   "check_test", "umount"}
    /\ DOMAIN snapshot = Bytes
    /\ snapshot_fds \in 0..(NumRounds + 1) /\ mounted \in BOOLEAN
    /\ current \in 1..(Len(crash_state) + 1) \/ tester \notin {"write", "fsck"}
    /\ bytes_written \in Nat
    /\ completed_ \in Seq(Results)
    /\ faulty \in BOOLEAN

\* What the first n of a sequence of operations leave on image: each write whole
\* and in turn.
After(image, ops) ==
    LET after[n \in 0..Len(ops)] ==
            IF n = 0 THEN image
            ELSE IF has_write_flag(ops[n])
                 THEN Written(after[n - 1], ops[n], 0, ops[n].size)
                 ELSE after[n - 1]
    IN after

Replay(image, ops) == After(image, ops)[Len(ops)]

Ops(state) == [p \in DOMAIN state |-> state[p].op]
BaseImage == [a \in Bytes |-> Base]

(***************************************************************************)
(* Each round tests its own crash state and nothing else: what fsck finds  *)
(* on the snapshot is the base image with the operations of the crash      *)
(* state written over it in their order.  Nothing an earlier round wrote,  *)
(* nor its fsck or its mount, shows through, on whatever path it ended.    *)
(* After a failed restore (which leaks a descriptor) or umount the kernel  *)
(* still holds the device, and the code promises nothing.                  *)
(***************************************************************************)
CrashStateReplayed ==
    tester = "fsck" /\ ~faulty => snapshot = Replay(BaseImage, Ops(crash_state))

\* Log positions (from 1) of the flushes: what precedes one is durable when the
\* data it carries, or anything after it, reaches the disk.
Flushes == {f \in DOMAIN data : has_write_flag(data[f])
                                /\ (has_flush_flag(data[f]) \/ has_flush_seq_flag(data[f]))}

\* The orders in which a disk that honours flushes may have taken operations when
\* it crashed: any of them, in any order, but with or after a flush only when it
\* has everything before the flush.
DiskOrders ==
    {s \in BoundedSeq(DOMAIN data, Len(data)) :
        /\ IsInjective(s)
        /\ \A p \in DOMAIN s : \A f \in Flushes :
             f <= s[p] => \A x \in 1..(f - 1) : \E q \in 1..(p - 1) : s[q] = x}

\* What such a disk may hold after a crash.
DiskImages == {Replay(BaseImage, [p \in DOMAIN s |-> data[s[p]]]) : s \in DiskOrders}

\* No split flush is followed by another barrier at once; where one is, its data
\* half is lost (FlushDataInNextEpoch).
NoFlushInARow ==
    \A f \in 1..(Len(data) - 1) : IsSplit(data[f]) => ~is_barrier_write(data[f + 1])

(***************************************************************************)
(* A file system is only blamed for what a disk can do: the image under    *)
(* test is one that a disk honouring flushes could have been left with by  *)
(* a crash while the logged operations were on their way, although the     *)
(* harness cuts the log at other barriers too, splits flushes and replays  *)
(* them one round after another.                                           *)
(***************************************************************************)
TestedImagePossible ==
    tester = "fsck" /\ ~faulty /\ NoFlushInARow => snapshot \in DiskImages

OutcomeCount(S) == Cardinality({k \in DOMAIN outcomes : outcomes[k] \in S})

(***************************************************************************)
(* Between rounds the printed summary tells what happened to every crash   *)
(* state handed out so far: it is counted as passed, passed after repair   *)
(* or failed according to what fsck, mount and check_test said, once,      *)
(* except the states for which the snapshot could not be opened, which are *)
(* not counted at all.                                                     *)
(***************************************************************************)
ResultsTruthful ==
    tester = "generate" =>
        /\ Len(outcomes) = Len(returned)
        /\ PrintResults.num_passed = OutcomeCount({"passed"})
        /\ PrintResults.num_passed_fixed = OutcomeCount({"passed repaired"})
        /\ PrintResults.num_failed =
             OutcomeCount({"not restored", "not written", "not checked", "not mounted",
                           "bad data"})
        /\ SumFunctionOnSet(PrintResults.by_error, DataErrors) = OutcomeCount({"bad data"})
=============================================================================
