# CrashMonkey in TLA+

CrashMonkey tests file systems for crash consistency. It records the block
operations a workload causes, makes up states a disk could be in after a crash,
replays each on a copy of the disk, and lets fsck and a test case judge what the
file system makes of it. A verdict is worth something only if the record is
complete and in order, the made-up states are ones a disk can reach, and the copy
is an exact and private copy. These are the properties this project is about.

## 1. The system

| Part | Code (under `src/code/`) | State | Operations |
|---|---|---|---|
| Logged operations | `utils/utils.*`, `utils/utils_c.c` | flags, sector, size, data of a `disk_write` | flag tests, (de)serialisation |
| Crash-state generator | `permuter/` | log, epochs, completed permutations | `InitDataVector`, `GenerateCrashState`, `gen_one_state`, `permute_epoch` |
| Copy-on-write RAM disk | `cow_brd.c` | page tree per device, `is_writable` | bios, `COW_BRD_*` ioctls |
| Recording device | `disk_wrapper.c` | chain of entries and three pointers into it, `log_on` | bios, `HWM_*` ioctls |
| Harness | `harness/`, `utils/ClassLoader.h` | modules, mount, descriptors, loaded classes, log, files | the phases of `main` |
| Command socket | `utils/communication/`, `user_tools/` | socket file, connection, bytes in flight | `WaitForMessage`, `SendCommand`, `CloseClient`; the three client programs |
| Crash-state tests and results | `Tester::test_check_random_permutations`, `results/` | the snapshot's contents, its descriptors and mount, completed tests | restore, `test_write_data`, fsck, mount, `check_test`, umount, `AddCompletedTest`, `PrintResults` |
| Log files | `log_profile_save`, `log_profile_load`, `serialize`, `deserialize` | the file, the reading stream | write a record, read it field by field |
| Test cases, unit tests, scripts | `tests/`, `../test/`, `*.stp` | | not modelled |

How they interact. The harness loads `cow_brd`, formats and mounts disk 0, lets
the user or a test case set it up, and freezes it (`COW_BRD_SNAPSHOT`). It loads
`disk_wrapper` over a snapshot, mounts it, turns logging on, and the workload runs:
its bios pass through `disk_wrapper_bio`, in the submitter's context, to the
snapshot. The harness then turns logging off, reads the chain entry by entry,
unloads the wrapper and hands the log to the permuter. Every crash state is
written to a restored snapshot, checked and mounted. With `-l` image and log are
saved and with `-r` a later run loads them. With `-b` the user paces the phases
through `begin_log`, `end_log` and `begin_tests`, each one command and one reply
on a local socket.

What is hard here:

* the flags of a log decide how it is cut, and unusual runs of barriers are what
  no unit test enumerates;
* bios run concurrently, with a lock held only around the tree insertion in
  `cow_brd` and none at all in `disk_wrapper`;
* the driver and the wrapper leave rules to their callers (when to issue an ioctl,
  which pages to write at once) and check none of them;
* the harness owns kernel modules and mounts that outlive it, any of its steps may
  fail, and it may be killed anywhere; what a process leaves is what the next finds;
* a client may leave at any time, with or without having sent its command, and a
  message arrives in pieces;
* every round of tests reuses one snapshot, and may end early in five places;
* a saved log is read back with no checksum and no length, from a file that may have
  been cut anywhere.

`PROJECT.json` lists these hazards at their lines.

## 2. Modules

| Module | Models | Notes |
|---|---|---|
| `DiskWrite` | `disk_write`, flag predicates | a set of flag names for `bi_rw`, payloads as model values |
| `Permuter` | `Permuter.cpp`, `RandomPermuter.cpp`, the round loop of `Tester::test_check_random_permutations` | one action per turn of a loop; random draws are `\E` |
| `Numerals` | numbers as digits: the hexadecimal numbers of a log file, the words of a message | used by `LogFile` and `MessageStream` |
| `DataInduction` | | induction over numbers, recursion and digits as facts the provers can use |
| `SnapshotDisk` | abstract: what disks and snapshots promise | |
| `CowBrd` | `cow_brd.c` | implements `SnapshotDisk` |
| `DiskWrapper` | `disk_wrapper.c`, and the `Tester` functions that call its ioctls | a heap of entries, so that freeing and re-use show |
| `Harness` | `c_harness.cpp`, `Tester.cpp`, both ends of the socket | several processes, one after the other |
| `CrashTest` | the rest of `test_check_random_permutations`, `test_write_data`, `results/` | extends `Permuter`: generator and tester in one specification |
| `LogFile` | `serialize`, `deserialize`, saving and loading a profile | characters, with the state bits of the stream |
| `MessageStream` | `BaseSocket`, one connection of `ServerSocket` and `ClientCommandSender` | bytes; what `Harness` has as whole messages |
| `PermuterProofs`, `CrashTestProofs`, `CowBrdProofs`, `DiskWrapperProofs`, `HarnessProofs`, `LogFileProofs`, `MessageStreamProofs` | | theorems about the modules they are named after |
| `MC*` | | instances for TLC |

Definitions keep the names of the code where they can: an action is named after
its function or ioctl, or after the outcome of it (`openFails`, `roundsDone`).
Operators ending in `_Something` before a definition of the same name are faulty
variants of it, used to see that the properties notice.

**Permuter.** `pc` is `epoch` and `ops` in the two loops of `InitDataVector`,
`ready` between calls, `draw` and `fill` in `gen_one_state`. A flush with data and
no FUA is split: `CloseSplit` stores the epoch with the flag half and owes the data
half (`prev_epoch_flush_op`), which `AddOp` pays before the next operation that is
no barrier. A default-constructed `disk_write` has uninitialised metadata; it is
any member of `Garbage`. An empty log makes `gen_one_state` throw (`DrawNothing`).

**CowBrd.** A bio is a sequence of bvecs and a bvec has one part per page it
touches. A part of a write is looked up, allocated and inserted (under
`brd_lock`, one step), filled from the parent (after the unlock, another step) and
written (a third). `last` remembers, for the properties, what was last written
to a sector. `Rules` says which rules of use the callers keep:

* `frozen`: a snapshot is written only while its disk is frozen, and the disk is
  thawed or wiped only while its snapshots hold no page. The harness keeps it, and
  the comment in `COW_BRD_WIPE` asks for it;
* `disjoint`: bios in flight on one device touch different pages, as the page cache
  sees to for buffered I/O;
* `quiet`: ioctls are issued with no bio in flight, as the harness does after umount. It
  excludes the races between an ioctl and a bio (`cow_brd.c:273` and `:402`), which nothing in
  the driver prevents: under it `PagesNotDeletedUnderIO` says that the setup of a write makes every page
  the copy needs, and `FrozenDiskUnchanged` that a frozen disk refuses writes and discards.

`BioAssumption` takes from the block layer that a discard is of whole pages. `discard_from_brd`
does not enforce it: an unaligned one would zero sectors outside its range.

**DiskWrapper.** `disk_wrapper_bio` in steps: arrival and test of `log_on`,
allocation, link, tail, data, pass. Either allocation may fail. `Settled` says that
the harness switches and clears the log with no bio in flight: it sleeps
after the mount (`MOUNT_DELAY`) and after the workload (`WRITE_DELAY`). The wrapper is declared not thread safe
(`disk_wrapper.c:170`), so the instances have one submitter, and nothing is shown about two
submitters or about a reader that fetches the log while a bio is in flight.

**Harness.** `Program(opts)` is the sequence of steps of `main` under the given
options and `at` the place in it. Functions of `Tester` that cleanup shares with
the phases are operators on the record `h` (fields of `Tester` together with what
the kernel holds: `loaded`, `mounted`, and `pinned` for a reference to the RAM disk
that nobody will give back). A step succeeds, fails with
`cleanup_harness` and `return -1` (`StepFails`), or has a failure of its own where
the code differs: `setupFails` cleans up and goes on; `noFlagDevice`, `insmodFails` and
`rmmodFails` return without cleanup, the last with the module loaded; an
`insert_wrapper` that fails may leave its target open (`targetNotPut`: the `out` label of
`disk_wrapper_init` has no `blkdev_put`); `restoreFails` leaks a descriptor. Some calls
report SUCCESS without having done their work: `openFails` (the module is gone again),
`snapshotNotSaved` (a read error, or a file cut after `log.fail()` was asked),
`snapshotNotLoaded` (a wipe, open, write or snapshot that failed), `profileNotSaved`
(the file cannot be opened) and `log_profile_save` with a file that is cut. Whatever is
removed, another program may have the mount point or a device of one of the modules open: the
set `busy`, any subset of `InUse`. Images and logs are known by the number of the run
that made them; an image no run made is `Garbage`. A command is read whole; a client that left without sending makes
the reader spin, one that left before the reply kills the harness with SIGPIPE.
`trouble` records the events after which cleanup cannot be complete, and is never
reset, as the machine is not; `silent` the calls on the image file that failed and
returned SUCCESS. `expire` is the machine's writeback delay: `main` sets
it and no path of the code puts it back, although the old value is kept.

**CrashTest.** `Generate` is a step of `Permuter`; when it hands out a new state the
round begins: open, restore, write, fsck, mount, `check_test`, umount, each of which
may fail where the code tests for it (umount, where it does not). The snapshot is a
function from byte addresses to `Base`, a byte of a logged payload, or `Other` after
fsck or the mounted file system have written to it. `write` takes any number of the
bytes asked for. The kernel drops its cache of a block device with the last close,
so a restore while another descriptor or a mount holds the device leaves any part of
the old contents visible; this is what makes a leaked descriptor matter. `check_test`
answers as the test cases of the repository do: whenever it fails it has set an error
(`CrashTestAssumption`). `outcomes` is a history of what really happened in each round.

**LogFile.** A record is written as one step, or cut at any character by a full disk or
a kill; `deserialize` runs field by field with `eofbit` and `failbit`, and its
uninitialised locals are chosen freely. The radix is a constant (16 in the code). Data
bytes may be digits, spaces or newlines.

**MessageStream.** Each end has fields to send, bytes on their way, and the field it
is reading. `send` and `recv` move any number of bytes that fit. Closing with unread
bytes resets the peer, whose `recv` fails once; sending to a closed end is SIGPIPE.
Words have `Word` bytes of `Radix` values. The client sends a control command as
`ClientCommandSender` does, a checkpoint as `ClientSocket::SendMessage` can, or what
another program may send that follows the layout described in `SocketUtils.h`.

## 3. Runs

Passing runs:

| Run | Instance | Shows |
|---|---|---|
| `permuter_order` | every log of at most 3 operations of 7 kinds and of 4 operations of 4 kinds, 2 rounds | `BarrierOrder`, `ForcedWriteLast`, `FlushBeforeData`: no crash state lets an operation pass a barrier; `LogKept`: cutting loses nothing but data halves |
| `crash_test` | 9 chosen logs, 2 rounds with retries, a disk of 3 bytes in sectors of 2 | `CrashStateReplayed`: what fsck sees is this round's crash state on the base image and nothing of an earlier round; `TestedImagePossible`: a disk that honours flushes could hold it; `ResultsTruthful`: the summary counts what happened; `NoFalseDuplicate`, `NoRepeatedTest`: positions identify a state and none is tested twice; `Terminates` |
| `cow_brd` | 1 disk, 2 snapshots, 2 pages of 2 sectors, 2 threads, all three rules | `ImplementsSnapshotDisk`; reads see the contents, completed writes stay, a frozen disk does not change, no `BUG_ON` |
| `disk_wrapper` | 3 entries of memory, 4 bios, 2 recordings | `ChainSound`, `LogFaithful`: the log is what was sent, in order, with its data; `DrainEnds` |
| `harness` | 2 processes, 3 option sets (recording to a file; testing from it; in the background), 2 clients, 2 rounds | `ExitClean`: a process leaves neither module nor mount, but for six named troubles; `LogOnItsBase`: crash states are replayed on the image of their log, but for named failures of saving and loading; `ReadyForCommand`; `DoneTruthful`; `Served`: a command that was taken is answered, or the process ends |
| `log_file` | every log of at most 2 records of at most 2 bytes, over an old file or none, cut anywhere | `RoundTrip`: a file written whole loads as it was; `LoadedIsPrefix`: no cut makes up a record |
| `message_stream` | words of 2 bytes of 4 values, 5 bytes in flight, 11 commands, 5 checkpoints, 5 odd messages | `MessageIntact`, `StreamDrained`: the message arrives whole and nothing of it stays behind; `ResultTruthful`: what `Run` returns; `ConnectionEnds` |

Runs in which the code does not do what a line of the repository says of it:

| Run | The line | What TLC finds |
|---|---|---|
| `permuter_flush_data` | `Permuter.cpp:109-110` | flush, barrier: the data half misses the next epoch, or is lost |
| `cow_brd_race` | `cow_brd.c:53-54` | without `disjoint`: the parent's page overwrites a completed write |
| `cow_brd_span` | `cow_brd.c:261` | a write over a page boundary undoes an earlier one in the second page |
| `disk_wrapper_nomem` | `disk_wrapper.c:53` | the end of the chain is a freed entry |
| `harness_snapshot` | `c_harness.cpp:377-378` | kilobytes taken for bytes: the image is not restored |

Two more disagreements need no run of their own. `permute_epoch`'s comment says a
barrier is not picked before the rest of its epoch (`RandomPermuter.cpp:80-81`), but
`has_barrier` is set after the epoch was stored (`Permuter.cpp:131`), so the flag half of a split
flush can be; it carries no data, and `TestedImagePossible` shows that no image comes
of it that could not be. And the comment at `cow_brd.c:71-73` that pages are never
deleted under a bio holds only for callers that keep rule `quiet`.

What a disk may hold after a crash (`DiskImages`): the log records when operations were
submitted and not when they ended, so between flushes the disk may have taken any of them
in any order; but the data of a flush, and anything after it, only with everything before
the flush. A flush that is also FUA, or a FUA write alone, is held back further by the
harness, which tests fewer images than a disk can have and none that it cannot.
`TestedImagePossible` has a condition: no split flush is followed by another barrier
at once. Without it TLC finds the log of two flushes with data and a plain write: the
first flush's data half is dropped, and the image under test has the plain write
without it, which no disk that honours the second flush can have. This is what the
finding of `permuter_flush_data` means for a file system under test.

Bounds and why they are enough. `MaxLog`: logs of three operations
are of every kind, logs of four (`MaxLog` + 1) of `LongKinds`: a plain and a FUA
write, a flush that is split and a flush with FUA. Three operations hold a split
flush with each kind before and after it, four hold two barriers with something
before, between or after them; two rounds reach the retry and the give-up.
What the order properties can go wrong on is the neighbourhood of two barriers, and the theorem below needs no bound. The logs of `crash_test` have
writes that overlap in one byte or two, without a barrier, around a flush, around a
FUA write and with the flush's own data among them; two rounds with `kMinRetries` = 2
reach a refused draw, a retry that succeeds, a call that gives up, and every way for
a round to follow one that ended early. `NumPages` = `PageSectors` = 2 is the least
with partly written pages and
bvecs over a boundary; two snapshots show that one does not disturb the other.
`MaxBios` = 4 over `Node` = 3 makes memory run out and be used again; `MaxSessions`
= 2 a log recorded after another, over the same module or a new one; `MaxRead` caps
the log read and is above what one session can hold. `MaxRuns` = 2 is a process and
the one that finds what it left; the three option sets have every step of `Program` between
them, and each mode follows each other one. In `log_file` two records show that data does not
shift what follows it, and radix 2 gives numbers of several digits. In
`message_stream` the longest message is longer than what the kernel holds, so that
the writer waits for the reader; strings end within a word and at the end of one. The
cow_brd instance has threads as a symmetry set; it is the one where that is sound,
having no liveness property. It gives bvecs over a page boundary to disks only: on
a snapshot they are faulty (`cow_brd_span`; hazard at `cow_brd.c:347`). Discards go to
the disk and to the first of the two snapshots, which are alike.

Deadlock is checked in all runs but those of DiskWrapper and Harness. DiskWrapper and Harness may
stop: every bio and session is used up, or the users start nothing more.

Fairness. `CrashTest!FairTestSpec`: sequential code that waits for fsck, mount and
`check_test`, which return. `MessageStream!FairSpec`: both programs run and the kernel
moves bytes; nobody has to interrupt a client.
`DiskWrapper!Spec`: a bio that entered the wrapper is carried on by its submitter,
and the harness keeps issuing its calls; nobody has to submit. `Harness!Spec`: the
harness process goes on while it can; users need not start it, connect, send or
stay.

## 4. Proofs

Every theorem holds for every value of the constants that satisfies the named
assumptions of the module (`PermuterAssumption`, `CowBrdAssumption`,
`BioAssumption`, ...: the types of the constants, finiteness of the memory and of
the set of data errors, at least one session). TLC evaluates them on every run. What
a theorem needs beyond them is a hypothesis in its statement, and is named here.

**How data is reasoned about.** The provers cannot use induction theorems that take
an operator. `DataInduction` states induction over the naturals about a set (`NatInduct`,
from the well-foundedness of `<`), and recursion about a function given by its
equations. What `FlattenSeq` makes of the epochs, the disk after the n-th write of a
crash state, the counts of results, the value of the digits of a number (`ValueOfDigits`) and
of the bytes of a word are proved with these.

**Permuter** (`PermuterProofs`):

* `TypeCorrect`. `TypeOK` alone is not inductive: filling a state
  reads epoch `i + 1` and draws from it, so the draw must be in range (`DrawInRange`);
  the position of a data half is `index - 1`, a natural number only if an operation
  was passed (`OwedIsPast`).
* `OverlapsNeverSet`: `Spec => []NoOverlap`. The list of ranges starts empty and the
  scan only inserts next to a range it visits, so no epoch is marked and only the
  last epoch of a state is ever reordered.
* `BarrierOrderHolds`. The invariant follows the two phases.
  While the log is cut: every position passed is in a stored epoch or the current
  one (`Covered`), everything up to a passed barrier is stored (`BarriersClosed`),
  the current epoch holds only passed positions (`CurrentPast`); hence an operation's
  preceding barriers, with all they cover, lie in earlier epochs (`EpochsOrdered`).
  While a state is drawn: all epochs visited but the last are placed whole
  (`EpochsPlaced`), so what is placed next finds those positions before it.

**Permuter, what the epochs are made of** (`PermuterProofs`, on top of the above):

* `ForcedWriteLastHolds` and `FlushBeforeDataHolds`. `EpochInv`: positions increase
  along an epoch (`EpochShape`), a data half that is owed comes from a split flush already
  passed (`OwedOrigin`), and an entry that stands for a barrier ends its epoch or comes
  after the epoch of that barrier (`BarrierEntries`). `FlushEntries` says the same of the
  entries with a flush's payload. `FlushBeforeData` is about payloads, so its theorem has
  the hypothesis `DistinctPayloads`: two logged operations do not share theirs. `MCPermuter`
  assumes it too, and TLC checks that the logs of the run have it.
* `NoFalseDuplicateHolds` and `NoRepeatedTestHolds`. `DrawInv`: a state under way is the first
  epochs whole and positions of the next, none twice; positions identify entries, so the
  positions that `completed_permutations_` compares identify the state.
* `LogKeptHolds`. `KeptInv`: the entries of the epochs and of the current one, laid end to
  end, have positions that do not decrease and cover all that was passed.

**CrashTest** (`CrashTestProofs`):

* `TesterDrivesGenerator`: `TestSpec => Spec`; all the theorems about Permuter are about
  the tester too.
* `TestTypeCorrect`. `RoundInv` (a state is handed out at most once a round), `FdInv`
  (descriptors are leaked by rounds that are over) and `WriteInv` bound the counters.
* `CrashStateReplayedHolds`. `ReplayInv`: without a leak, the snapshot is released between
  rounds, and while it is written it is the base image with the operations before the
  current one, and with the bytes of the current one written so far (`Progress`). The
  number of bytes a `write` takes is any.
* `ResultsTruthfulHolds`. `ResultInv`: the counts of results are those of the outcomes
  (`Agreed`), and a round has an outcome when it ends, on each of its paths.

* `TestedImagePossibleHolds`, for every log (the condition on flushes in a row is part of the
  property). Epochs and crash states are described by what they have of the log: the *content*
  of a position (a split flush without its flush flags) or the flag half of a split flush.
  `ContentInv`, while the log is cut: the epochs have the content of every position passed
  but an owed data half (`Kept`, `Owed`), once (`Once`); what a passed flush covers is in
  stored epochs (`Durable`); and every entry has what the flushes up to its position cover in
  earlier epochs, or is a marked barrier with the rest before it in its own (`Ordered`). This is
  the step that fails for a barrier right after a split flush, whose data half is not paid in time.
  `StateInv`, while a state is drawn: it has no content twice (`Single`), none ahead of what a
  flush covers (`Sound`), and, before the last epoch, all that the epochs visited store.
  `DeliveredInv`, in the tester: a flag half that looks like a write of something has
  made the write fail, since its payload is NULL, so it is not on the image. From these an
  induction over the entries of the crash state builds an order of log positions that is in
  `DiskOrders` and leaves the same image (`ImageAllowed`).

**LogFile** (`LogFileProofs`), for every radix from 2 on, logs and old files of any length,
with no hypothesis in a statement:

* `LogFileTypeCorrect`, `LogRoundTrip` and `LoadIsPrefix`, from `LogInv`. There are offsets, one per
  record, such that the file holds the beginning of the records laid end to end (`FileInv`);
  and the reader has read the first `n` records as they were and stands at a known place
  of the next one (`InRecord`), or is past the cut with its stream in a failed state, from which it
  only reaches an end that is no success (`Adrift`). What makes a number come back is that its digits are
  no white space and are followed by some, so that `>>` stops where `<<` did, and that the
  value of `digits[n]` is `n`. Data is read by its size, so its bytes may be anything.

**MessageStream** (`MessageStreamProofs`), for any word size, radix and capacity; the assumption
is that sizes fit a word, as those of the code's `unsigned int` do:

* `TypeCorrect`, `MessageArrivesIntact`, `StreamIsDrained` and `ResultIsTruthful`, from `StreamInv`: there is a
  message such that what the reader has of it, what is in the kernel and what the
  sender still has to send are consecutive parts of it and make it up, in both directions
  (`CommandInv`, `AnswerInv`). Where a field ends does not depend on how `send` and `recv` cut the
  bytes. A word put into network order and back is the word (`SwapSwap`), and a padded
  string ends at its first NUL or fills its words.

**DiskWrapper** (`DiskWrapperProofs`):

* `TypeCorrect`, for any number of threads. A bio in the wrapper knows its entry
  (`ThreadInv`), no more bios are in the wrapper than were submitted (`SubmittedInv`) and
  the reader asks for an entry where there is one (`ReaderInv`).
* `ChainSoundHolds` and `LogFaithfulHolds`, with the hypotheses `Settled` and one submitting thread:
  what the harness keeps to and all the code claims to support, as in run `disk_wrapper`.
  `ChainInv`: unless an allocation of data failed there is a sequence of entries that is the list
  from `writes` on (`Shape`), the bio under way has done with it what its place in the code
  says (`UnderWay`), it records what was sent (`SentInv`), and the reader has read a prefix of it
  (`ReadInv`). The sequence is existentially quantified: no variable of the code holds it.

**CowBrd** (`CowBrdProofs`), one more rule of use at each stage, so that each result says
what it rests on:

* no rule: `TypeCorrect` (`ThreadInv`, `DeviceInv`: the place in a bio stays within it);
* `quiet`: `PagesNotDeletedUnderIOHolds` and `FrozenDiskUnchangedHolds`. A page once
  inserted stays while the bio that needs it is in flight (`PageInv`), and a bio that changes
  pages was accepted while its device was writable (`WritableInv`);
* `quiet`, `disjoint` and `AlignedOnSnapshots` (no bvec crosses a page of a snapshot):
  `WrittenStaysHolds`. A page being inserted holds nothing that was written (`FreshInv`), what
  was written last is there (`StayInv`), the sectors a bio has done are written (`WriteInv`). The
  runs `cow_brd_race` and `cow_brd_span` show that both provisos are needed;
* `WellUsed`, which is all three rules and `AlignedOnSnapshots`, the configuration of run `cow_brd`:
  `ReadReturnsContentsHolds` and `DriverImplementsSnapshotDisk`. A snapshot holds pages only
  while its disk is frozen (`FrozenInv`), hence what it shows changes only with its own pages; what a
  bio has read so far agrees with that (`ReadInv`). The refinement goes action by action: a copy into a
  sector, a discard and the ioctls are steps of `SnapshotDisk`, the insertion of a
  page and its filling from the parent do not show.

**Harness** (`HarnessProofs`), for any options, number of clients, processes and rounds, with no
hypothesis in a statement. What is true at a step depends on what main did before it, so
the invariants speak of the steps passed (`Passed`), and `ProgramOrder` says what comes before
what in each of the twelve programs that the options select. The steps of `Next` are of five
kinds (`NextKinds`: a process starts, ends, works, tests a crash state, talks to clients), with one lemma
on what each kind leaves alone and one on what it does to each invariant.

* `TypeCorrect`. `at` stays in its program because the last step ends the process, and only a
  process that runs is past its first step (`PlaceInv`).
* `ReadyForCommandHolds`. `SocketInv`: the socket file is there from `Init` to the last
  reply, a client is in the queue or accepted at most once and has no reply yet, and between a command
  and its reply the client that gave it is the accepted one.
* `ExitCleanHolds`. `CleanInv`, which holds while there is no trouble: the Tester's flags agree with
  what is mounted and loaded (`Sound`), nothing is before `insert_cow_brd` and after
  `cleanup_harness`, and nothing is mounted but where main mounted it. `EndingEffect` is the same
  for every way a process ends; effect lemmas say what each function of Tester changes
  (`Rmmodded`, `Unwrapped`, `DiskRemoved`), whatever other programs have open. The troubles are: a process
  was killed; another program used what was to be released; main's own `ioctl_fd` or a snapshot's
  descriptor was open when `cleanup_harness` ran; `disk_wrapper_init` kept its target; there was
  no flags device. The theorem says that no other path leaves a module or a mount.
* `LogOnItsBaseHolds`. `BaseInv`: a log that was recorded is of the image on the disk; the two files are
  of one run, unless torn or the image was not saved as read; and after a load the disk holds
  the saved image, unless the load failed. Hence a run that records replays its log on
  its base whatever fails. A run that loads may not, after one of these failures of saving and
  loading, which the code does not report.
* `DoneTruthfulHolds`, an action property: from `SocketInv` for who is answered, `CleanInv`, and
  `RecordInv` (while the workload runs the wrapper is inserted, mounted and logging, and it is
  gone once its log was read).

Only model-checked: the liveness properties `Terminates`, `DrainEnds`, `Served` and
`ConnectionEnds`, since fairness and ENABLED are beyond the prover. Every invariant and action
property of a passing run is a theorem. Where a theorem has a hypothesis that the run does
not state (`DistinctPayloads`, `Settled` and one thread, the rules of `CowBrd`), the instance of
the run satisfies it.

## 5. Not modelled

* The words that are printed, timing statistics; user test cases beyond what they
  answer; the kernel's block layer, file systems, mkfs and fsck (fsck and a mounted
  file system leave `Other` on the snapshot).
* What a discard logged as a write does when it is replayed: `DiskWrapper` shows that
  its data is made up (`CopiedData`), `CrashTest` takes the data of a logged operation
  as it is.
* `copy_to_user` in parts; setting up and tearing down gendisks; `BLKFLSBUF` and
  direct access in `cow_brd`; failures of its module's init; discards that are not of whole
  pages; `partition_drive`, `wipe_partitions` and `test_restore_log`, which `main` does not call.
* A checkpoint with an empty string: `recv` of no bytes on a local stream socket may
  wait for data, depending on the kernel, so `MessageStream` leaves it out.
* Two harness processes at a time (the second would unlink the first's socket).

## 6. Plan

1. Done: `Permuter`, `CowBrd` over `SnapshotDisk`, `DiskWrapper`, `Harness`, `CrashTest`
   over `Permuter`, `LogFile`, `MessageStream`; all their safety properties proved.
2. Left to TLC: liveness.
3. Worth adding when the code changes: the images with a flush right after a split flush,
   once the data half is paid in the next epoch whatever ends it, and `DiskWrapper` with several
   submitters, once its chain has a lock.
