------------------------------ MODULE Harness ------------------------------
(***************************************************************************)
(* The test harness: main of harness/c_harness.cpp with the functions of   *)
(* Tester that own kernel modules, mounts and files, the server end of the *)
(* command socket (ServerSocket, BaseSocket), and the client programs of   *)
(* user_tools (ClientCommandSender).                                       *)
(*                                                                         *)
(* A harness process works through Program, the sequence of its steps      *)
(* under the given options.  What a process leaves behind (modules, mount, *)
(* socket file, saved logs) is what the next one finds.  An image or a log *)
(* is known by the number of the run that made it, 0 is none; the first    *)
(* entries of a log count as that log.                                     *)
(***************************************************************************)
EXTENDS Integers, Sequences, FiniteSets, SequencesExt

CONSTANTS
    Client, NoClient,    \* the users' shells
    Options,             \* the command lines the harness is started with
    MaxRuns,             \* bound: harness processes, one after the other
    num_rounds           \* iterations

ASSUME HarnessAssumption ==
    /\ NoClient \notin Client
    /\ Options \subseteq [background : BOOLEAN, save : BOOLEAN, load : BOOLEAN,
                          dry_run : BOOLEAN]
    /\ Options # {} /\ MaxRuns \in Nat /\ num_rounds \in Nat

VARIABLES
    run, opts, at,       \* the process: its number, options, place in Program
    status,              \* "off", "running", "spin", or how the last one ended
    h,                   \* fields of Tester, and the kernel's side of them
    log_data, rounds,
    disk,                \* the RAM disk: its first device_size bytes and the rest
    snapFile, profFile,  \* the files <log>_snap and <log>_profile
    sock,                \* the socket file: "none", "live" or "stale"
    queue, client,       \* connections waiting, and the one accepted
    cpc, cmd, answer,    \* per client: state, command sent, reply received
    trouble,             \* history: what went wrong that cleanup cannot undo
    saved, torn,         \* history: the disk when it was saved; only half is
    silent               \* history: calls that returned SUCCESS and failed

process == <<run, opts>>
files == <<snapFile, profFile, saved, torn, silent>>
clients == <<cpc, cmd, answer>>
socket == <<sock, queue, client, clients>>
vars == <<process, at, status, h, log_data, rounds, disk, files, socket, trouble>>

Commands == {"kBeginLog", "kEndLog", "kRunTests"}
Done == [kBeginLog |-> "kBeginLogDone", kEndLog |-> "kEndLogDone",
         kRunTests |-> "kRunTestsDone"]

Empty == [low |-> 0, high |-> 0]
Garbage == -1    \* an image that no run made

\* The kernel's side when the machine comes up: pinned says that a reference to
\* the RAM disk was taken that nobody will give back.
Boot == [loaded |-> {}, mounted |-> "none", pinned |-> FALSE, log_on |-> FALSE,
         expire |-> "user"]

\* A Tester before it did anything, on the machine that t leaves.
NewTester(t) ==
    [cow_brd_fd |-> FALSE, cow_brd_inserted |-> FALSE, wrapper_inserted |-> FALSE,
     ioctl_fd |-> FALSE, snapshot_fd |-> FALSE, disk_mounted |-> FALSE,
     classes |-> FALSE, log_on |-> t.log_on, loaded |-> t.loaded,
     mounted |-> t.mounted, pinned |-> t.pinned, expire |-> t.expire, ok |-> TRUE]

-----------------------------------------------------------------------------
(* main, as the sequence of its steps *)

When(condition, steps) == IF condition THEN steps ELSE <<>>

Phase0(o) == When(o.background, <<"Init">>) \o <<"insert_cow_brd", "load_class", "update_dirty_expire_time">>

Phase1(o) ==
    IF o.load THEN <<"log_snapshot_load">>
    ELSE <<"format_drive", "mount_device_raw",
           IF o.background THEN "kBeginLog" ELSE "test_setup",
           "umount_device", "clone_device">>
         \o When(o.save, <<"log_snapshot_save">>)

Phase2(o) ==
    IF o.load THEN <<"clear_caches", "log_profile_load">>
    ELSE <<"clear_caches", "insert_wrapper", "mount_wrapper_device",
           "get_wrapper_ioctl", "begin_wrapper_logging">>
         \o (IF o.background THEN <<"kBeginLogDone", "kEndLog">> ELSE <<"test_run">>)
         \o <<"get_wrapper_log", "umount_device", "remove_wrapper">>
         \o When(o.save, <<"log_profile_save">>)
         \o When(o.background, <<"kEndLogDone">>)

Phase34(o) ==
    When(o.background, <<"kRunTests">>)
    \o When(~o.dry_run, <<"test", "remove_cow_brd">>)
    \o <<"cleanup_harness">>
    \o When(o.background, <<"kRunTestsDone">>)
    \o <<"return">>

Program(o) == Phase0(o) \o Phase1(o) \o Phase2(o) \o Phase34(o)

Programs == [o \in Options |-> Program(o)]

Step == Programs[opts][at]

At(step) == status = "running" /\ Step = step

Continue == at' = at + 1 /\ UNCHANGED <<status, process, socket>>

-----------------------------------------------------------------------------
(* Functions of Tester: the state after the call, with ok its result *)

\* What another program may have open: a file under the mount point, or a device
\* of one of the modules.
InUse == {"mount", "hwm", "cow_brd"}

\* rmmod succeeds only if the module is loaded and nobody uses its devices.
rmmod(t, module, busy) ==
    LET used == IF module = "hwm" THEN t.ioctl_fd \/ t.mounted = "hwm"
                ELSE \/ t.cow_brd_fd \/ t.snapshot_fd \/ t.pinned
                     \/ t.mounted # "none" \/ "hwm" \in t.loaded
    IN IF module \in t.loaded \ busy /\ ~used
       THEN [t EXCEPT !.loaded = @ \ {module}, !.ok = TRUE]
       ELSE [t EXCEPT !.ok = FALSE]

umount_device(t, busy) ==
    IF t.disk_mounted /\ ("mount" \in busy \/ t.mounted = "none")
    THEN [t EXCEPT !.ok = FALSE]
    ELSE [t EXCEPT !.ok = TRUE, !.disk_mounted = FALSE,
                   !.mounted = IF t.disk_mounted THEN "none" ELSE @]

\* Something already mounted there makes the mount fail, as the disk may.
mount_device(t, dev, good) ==
    IF good /\ t.mounted = "none"
    THEN [t EXCEPT !.mounted = dev, !.disk_mounted = TRUE, !.ok = TRUE]
    ELSE [t EXCEPT !.disk_mounted = FALSE, !.ok = FALSE]

remove_wrapper(t, busy) ==
    LET r == rmmod(t, "hwm", busy)
    IN IF ~t.wrapper_inserted THEN [t EXCEPT !.ok = TRUE]
       ELSE IF r.ok THEN [r EXCEPT !.wrapper_inserted = FALSE, !.log_on = FALSE]
       ELSE r

\* The file descriptor is closed before the module is removed.
remove_cow_brd(t, busy) ==
    LET closed == IF t.cow_brd_fd
                  THEN [t EXCEPT !.cow_brd_fd = FALSE, !.cow_brd_inserted = FALSE]
                  ELSE t
        r == rmmod(closed, "cow_brd", busy)
    IN IF ~t.cow_brd_inserted THEN [t EXCEPT !.ok = TRUE]
       ELSE IF r.ok THEN r ELSE [r EXCEPT !.cow_brd_inserted = TRUE]

\* Mutant: the disk's module is removed before the wrapper that uses it.
cleanup_harness_Swapped(t, busy) ==
    LET unmounted == umount_device(t, busy)
        removed == remove_cow_brd(unmounted, busy)
        last == IF ~unmounted.ok THEN unmounted
                ELSE IF ~removed.ok THEN removed
                ELSE remove_wrapper(removed, busy)
    IN [last EXCEPT !.classes = FALSE]

\* Each part only if the one before succeeded; the classes in any case.
cleanup_harness(t, busy) ==
    LET unmounted == umount_device(t, busy)
        unwrapped == remove_wrapper(unmounted, busy)
        last == IF ~unmounted.ok THEN unmounted
                ELSE IF ~unwrapped.ok THEN unwrapped
                ELSE remove_cow_brd(unwrapped, busy)
    IN [last EXCEPT !.classes = FALSE]

-----------------------------------------------------------------------------
(* The end of a process *)

\* Modules, mount, log_on and the writeback delay stay; descriptors and
\* connections go.  A client still waiting for its reply reads end of file over
\* and over.
Exits(how, t) ==
    /\ status' = how
    /\ h' = NewTester(t)
    /\ at' = 1
    /\ queue' = <<>> /\ client' = NoClient
    /\ cpc' = [c \in Client |-> IF cpc[c] \in {"connected", "sent"} THEN "hung"
                               ELSE IF cpc[c] \in {"goneUnsent", "goneSent"} THEN "idle"
                               ELSE cpc[c]]
    /\ log_data' = 0 /\ rounds' = 0
    /\ UNCHANGED <<process, cmd, answer>>

\* delete background_com unlinks the socket file, any other exit leaves it.
Unlink == sock' = "none"
LeaveSocket == sock' = IF sock = "live" THEN "stale" ELSE sock

\* What cleanup_harness will not get right, noted when it starts.
Blame(t, busy) ==
    (IF \/ "mount" \in busy /\ t.disk_mounted
        \/ busy \cap t.loaded # {} THEN {"busy"} ELSE {})
    \cup (IF t.ioctl_fd THEN {"ioctl_fd"} ELSE {})
    \cup (IF t.snapshot_fd THEN {"snapshot_fd"} ELSE {})
    \cup (IF t.pinned THEN {"target_dev"} ELSE {})

\* A step fails: cleanup_harness, return -1.
Fail(t) ==
    \E busy \in SUBSET InUse :
        /\ Exits("failed", cleanup_harness(t, busy))
        /\ trouble' = trouble \cup Blame(t, busy)

\* The process dies where it is: a signal, an uncaught exception.
Dies ==
    /\ Exits("killed", h)
    /\ LeaveSocket
    /\ UNCHANGED <<disk, files>>
    /\ trouble' = trouble \cup {"killed"}

Killed == status \in {"running", "spin"} /\ Dies

Start ==
    /\ status \notin {"running", "spin"} /\ run < MaxRuns
    /\ run' = run + 1
    /\ opts' \in Options
    /\ at' = 1 /\ status' = "running"
    /\ h' = NewTester(h)
    /\ UNCHANGED <<log_data, rounds, disk, files, socket, trouble>>

-----------------------------------------------------------------------------
(* Phases 0 and 1 *)

\* ServerSocket::Init.  bind fails on a socket file that is there already,
\* and the destructor then removes that file.
Init_bind ==
    /\ At("Init") /\ sock = "none"
    /\ sock' = "live"
    /\ at' = at + 1
    /\ UNCHANGED <<status, process, queue, client, clients, h, log_data, rounds, disk,
                   files, trouble>>

Init_inUse ==
    /\ At("Init") /\ sock # "none"
    /\ Exits("failed", h) /\ Unlink
    /\ UNCHANGED <<disk, files, trouble>>

insert_cow_brd ==
    /\ At("insert_cow_brd") /\ "cow_brd" \notin h.loaded
    /\ h' = [h EXCEPT !.loaded = @ \cup {"cow_brd"}, !.cow_brd_inserted = TRUE,
                      !.cow_brd_fd = TRUE]
    /\ disk' = Empty
    /\ Continue
    /\ UNCHANGED <<log_data, rounds, files, trouble>>

\* The module is loaded already, or cannot be: return without cleanup.
insmodFails ==
    /\ At("insert_cow_brd")
    /\ Exits("failed", h) /\ LeaveSocket
    /\ UNCHANGED <<disk, files, trouble>>

\* The device cannot be opened and the module is removed again: SUCCESS all
\* the same, with cow_brd_inserted set.
openFails ==
    /\ At("insert_cow_brd") /\ "cow_brd" \notin h.loaded
    /\ h' = [h EXCEPT !.cow_brd_inserted = TRUE]
    /\ disk' = Empty
    /\ Continue
    /\ UNCHANGED <<log_data, rounds, files, trouble>>

\* The device cannot be opened, and the module not removed because somebody
\* else uses it: return without cleanup.
rmmodFails ==
    /\ At("insert_cow_brd") /\ "cow_brd" \notin h.loaded
    /\ Exits("failed", [h EXCEPT !.loaded = @ \cup {"cow_brd"}]) /\ LeaveSocket
    /\ disk' = Empty
    /\ trouble' = trouble \cup {"busy"}
    /\ UNCHANGED files

load_class ==
    /\ At("load_class")
    /\ h' = [h EXCEPT !.classes = TRUE]
    /\ Continue
    /\ UNCHANGED <<log_data, rounds, disk, files, trouble>>

\* The writeback delay of the whole machine.  The old value is read, and put back
\* only if the new one cannot be written.
update_dirty_expire_time ==
    /\ At("update_dirty_expire_time")
    /\ h' = [h EXCEPT !.expire = "test"]
    /\ Continue
    /\ UNCHANGED <<log_data, rounds, disk, files, trouble>>

\* mkfs on the RAM disk, which the loaded module provides.
format_drive ==
    /\ At("format_drive") /\ "cow_brd" \in h.loaded
    /\ disk' = [low |-> run, high |-> run]
    /\ Continue
    /\ UNCHANGED <<h, log_data, rounds, files, trouble>>

\* -f was given an empty name: return without cleanup.
noFlagDevice ==
    /\ At("format_drive")
    /\ Exits("failed", h) /\ LeaveSocket
    /\ trouble' = trouble \cup {"flag_device"}
    /\ UNCHANGED <<disk, files>>

mount_device_raw ==
    /\ At("mount_device_raw")
    /\ LET t == mount_device(h, "raw", TRUE)
       IN t.ok /\ h' = t
    /\ Continue
    /\ UNCHANGED <<log_data, rounds, disk, files, trouble>>

test_setup ==
    /\ At("test_setup") /\ h.classes
    /\ Continue
    /\ UNCHANGED <<h, log_data, rounds, disk, files, trouble>>

\* setup() failed: cleanup_harness, but no return.
setupFails ==
    /\ At("test_setup")
    /\ \E busy \in SUBSET InUse : /\ h' = cleanup_harness(h, busy)
                                  /\ trouble' = trouble \cup Blame(h, busy)
    /\ Continue
    /\ UNCHANGED <<log_data, rounds, disk, files>>

umount ==
    /\ At("umount_device")
    /\ h' = umount_device(h, {})
    /\ Continue
    /\ UNCHANGED <<log_data, rounds, disk, files, trouble>>

\* The ioctl needs the open device.
clone_device ==
    /\ At("clone_device") /\ h.cow_brd_fd
    /\ Continue
    /\ UNCHANGED <<h, log_data, rounds, disk, files, trouble>>

\* device_size counts kilobytes for the driver and bytes here.
log_snapshot_save ==
    /\ At("log_snapshot_save") /\ h.cow_brd_fd
    /\ snapFile' = disk.low
    /\ saved' = disk /\ torn' = TRUE /\ silent' = silent \ {"log_snapshot_save"}
    /\ Continue
    /\ UNCHANGED <<h, log_data, rounds, disk, profFile, trouble>>

\* The device cannot be read, and what the buffer held is written; or the end of
\* the file is lost after log.fail() was asked: SUCCESS all the same.
snapshotNotSaved ==
    /\ At("log_snapshot_save")
    /\ snapFile' \in {Garbage, 0}
    /\ saved' = disk /\ torn' = TRUE /\ silent' = silent \cup {"log_snapshot_save"}
    /\ Continue
    /\ UNCHANGED <<h, log_data, rounds, disk, profFile, trouble>>

\* The file cannot be opened, or not written once it was truncated.
snapshotSaveFails ==
    /\ At("log_snapshot_save")
    /\ Fail(h) /\ LeaveSocket
    /\ snapFile' \in {snapFile, 0}
    /\ torn' = (torn \/ snapFile' # snapFile)
    /\ UNCHANGED <<disk, profFile, saved, silent>>

\* Mutant: the image is read but not written to the disk.
log_snapshot_load_WipeOnly ==
    /\ At("log_snapshot_load") /\ snapFile # 0 /\ h.cow_brd_fd
    /\ disk' = Empty
    /\ silent' = silent \ {"log_snapshot_load"}
    /\ Continue
    /\ UNCHANGED <<h, log_data, rounds, snapFile, profFile, saved, torn, trouble>>

\* COW_BRD_WIPE, the image written over the start of the disk, COW_BRD_SNAPSHOT.
\* (A file that cannot be read is noticed, after the WIPE of what is a new disk.)
log_snapshot_load ==
    /\ At("log_snapshot_load") /\ snapFile # 0 /\ h.cow_brd_fd
    /\ disk' = [Empty EXCEPT !.low = snapFile]
    /\ silent' = silent \ {"log_snapshot_load"}
    /\ Continue
    /\ UNCHANGED <<h, log_data, rounds, snapFile, profFile, saved, torn, trouble>>

\* Any of its system calls on the disk may fail, all of them without the device:
\* not wiped, not written, written in part, or not made a snapshot.  SUCCESS.
snapshotNotLoaded ==
    /\ At("log_snapshot_load") /\ snapFile # 0
    /\ \E was \in {disk, Empty} : \E image \in {was.low, Garbage, snapFile} :
           disk' = [was EXCEPT !.low = image]
    /\ "cow_brd" \notin h.loaded => disk' = disk
    /\ silent' = silent \cup {"log_snapshot_load"}
    /\ Continue
    /\ UNCHANGED <<h, log_data, rounds, snapFile, profFile, saved, torn, trouble>>

-----------------------------------------------------------------------------
(* Phase 2 *)

clear_caches ==
    /\ At("clear_caches")
    /\ Continue
    /\ UNCHANGED <<h, log_data, rounds, disk, files, trouble>>

insert_wrapper ==
    /\ At("insert_wrapper") /\ "cow_brd" \in h.loaded /\ "hwm" \notin h.loaded
    /\ h' = [h EXCEPT !.loaded = @ \cup {"hwm"}, !.wrapper_inserted = TRUE]
    /\ Continue
    /\ UNCHANGED <<log_data, rounds, disk, files, trouble>>

mount_wrapper_device ==
    /\ At("mount_wrapper_device")
    /\ LET t == mount_device(h, "hwm", TRUE)
       IN t.ok /\ h' = t
    /\ Continue
    /\ UNCHANGED <<log_data, rounds, disk, files, trouble>>

get_wrapper_ioctl ==
    /\ At("get_wrapper_ioctl")
    /\ h' = [h EXCEPT !.ioctl_fd = TRUE]
    /\ Continue
    /\ UNCHANGED <<log_data, rounds, disk, files, trouble>>

\* clear_wrapper_log, then begin_wrapper_logging
begin_wrapper_logging ==
    /\ At("begin_wrapper_logging")
    /\ h' = [h EXCEPT !.log_on = TRUE]
    /\ Continue
    /\ UNCHANGED <<log_data, rounds, disk, files, trouble>>

test_run ==
    /\ At("test_run") /\ h.classes
    /\ Continue
    /\ UNCHANGED <<h, log_data, rounds, disk, files, trouble>>

\* end_wrapper_logging, then get_wrapper_log.  The workload may have written nothing.
get_wrapper_log ==
    /\ At("get_wrapper_log")
    /\ h' = [h EXCEPT !.log_on = FALSE]
    /\ log_data' \in {disk.low, 0}
    /\ Continue
    /\ UNCHANGED <<rounds, disk, files, trouble>>

\* put_wrapper_ioctl, then remove_wrapper
unwrap ==
    /\ At("remove_wrapper")
    /\ h' = remove_wrapper([h EXCEPT !.ioctl_fd = FALSE], {})
    /\ h'.ok
    /\ Continue
    /\ UNCHANGED <<log_data, rounds, disk, files, trouble>>

\* A file cut by a failing write holds the first entries, at worst none; that it
\* was cut goes unnoticed.
log_profile_save ==
    /\ At("log_profile_save")
    /\ profFile' \in {log_data, 0}
    /\ torn' = FALSE
    /\ Continue
    /\ UNCHANGED <<h, log_data, rounds, disk, snapFile, saved, silent, trouble>>

\* The file cannot be opened, and the older one stays: SUCCESS all the same.
profileNotSaved ==
    /\ At("log_profile_save")
    /\ Continue
    /\ UNCHANGED <<h, log_data, rounds, disk, files, trouble>>

log_profile_load ==
    /\ At("log_profile_load")
    /\ log_data' = profFile
    /\ Continue
    /\ UNCHANGED <<h, rounds, disk, files, trouble>>

\* The steps whose failure is answered with cleanup_harness and return -1.
Fallible == {"load_class", "update_dirty_expire_time", "log_snapshot_load",
             "clear_caches", "log_profile_load", "format_drive",
             "mount_device_raw", "clone_device", "insert_wrapper",
             "mount_wrapper_device", "get_wrapper_ioctl", "test_run",
             "get_wrapper_log", "umount_device", "remove_wrapper"}

\* disk_wrapper_init fails after it opened its target, which it does not put back.
\* (It is not run at all when the module is loaded already.)
targetNotPut(t) == [t EXCEPT !.pinned = @ \/ t.loaded = {"cow_brd"}]

\* The states in which a step reports its failure.
AfterFailed(step) ==
    CASE step \in {"mount_device_raw", "mount_wrapper_device"} ->
           {mount_device(h, "none", FALSE)}
      [] step = "remove_wrapper" -> {[h EXCEPT !.ioctl_fd = FALSE]}
      [] step = "insert_wrapper" -> {h, targetNotPut(h)}
      [] OTHER -> {h}

StepFails ==
    /\ status = "running"
    /\ Step \in Fallible
    /\ Step = "umount_device" => h.disk_mounted
    /\ \E t \in AfterFailed(Step) : Fail(t)
    /\ LeaveSocket
    /\ UNCHANGED <<disk, files>>

-----------------------------------------------------------------------------
(* test_check_random_permutations, and phase 4 *)

\* Mutant: one round too many.
InRound_OneMore == At("test") /\ rounds <= num_rounds /\ log_data # 0

InRound == At("test") /\ rounds < num_rounds /\ log_data # 0
SnapshotThere == "cow_brd" \in h.loaded

\* Drawing from an empty log throws.
emptyLog == At("test") /\ num_rounds > 0 /\ log_data = 0 /\ Dies

\* num_rounds rounds are over, or GenerateCrashState found no new state.
roundsDone ==
    /\ At("test")
    /\ InRound \/ rounds >= num_rounds
    /\ Continue
    /\ UNCHANGED <<h, log_data, rounds, disk, files, trouble>>

\* Mutant: the rounds are not counted.
NextRound_Uncounted ==
    UNCHANGED <<rounds, at, status, process, socket, log_data, disk, files>>

NextRound ==
    /\ rounds' = rounds + 1
    /\ UNCHANGED <<at, status, process, socket, log_data, disk, files>>

\* The snapshot cannot be opened, or the crash state cannot be written to it,
\* or fsck gives up on it.
roundEndsEarly == InRound /\ NextRound /\ UNCHANGED <<h, trouble>>

\* COW_BRD_RESTORE_SNAPSHOT fails: the descriptor is not closed.
restoreFails ==
    /\ InRound /\ SnapshotThere
    /\ h' = [h EXCEPT !.snapshot_fd = TRUE]
    /\ NextRound
    /\ UNCHANGED trouble

\* kUnmountable
snapshotUnmountable ==
    /\ InRound /\ SnapshotThere
    /\ h' = mount_device(h, "snapshot", FALSE)
    /\ NextRound
    /\ UNCHANGED trouble

\* Mounted, checked by the test case, unmounted; that the umount failed goes
\* unnoticed.
check_test ==
    /\ InRound /\ SnapshotThere /\ h.classes
    /\ LET t == mount_device(h, "snapshot", TRUE)
       IN /\ t.ok
          /\ \E busy \in SUBSET {"mount"} :
               /\ h' = umount_device(t, busy)
               /\ trouble' = trouble \cup Blame(t, busy)
    /\ NextRound

\* The results of these two are ignored.
removeDisk ==
    /\ At("remove_cow_brd")
    /\ \E busy \in SUBSET {"cow_brd"} : h' = remove_cow_brd(h, busy)
    /\ Continue
    /\ UNCHANGED <<log_data, rounds, disk, files, trouble>>

cleanup ==
    /\ At("cleanup_harness")
    /\ \E busy \in SUBSET InUse : /\ h' = cleanup_harness(h, busy)
                                  /\ trouble' = trouble \cup Blame(h, busy)
    /\ Continue
    /\ UNCHANGED <<log_data, rounds, disk, files>>

return ==
    /\ At("return")
    /\ Exits("done", h)
    /\ UNCHANGED <<sock, disk, files, trouble>>

-----------------------------------------------------------------------------
(* The command socket *)

kept == <<h, log_data, rounds, disk, files, trouble, process>>

Waiting(c) == c \in Commands /\ At(c)

\* WaitForMessage: accept, then read.
Accept ==
    /\ \E c \in Commands : Waiting(c)
    /\ client = NoClient /\ queue # <<>>
    /\ client' = Head(queue) /\ queue' = Tail(queue)
    /\ UNCHANGED <<kept, at, status, sock, clients>>

\* recv returns 0 and the loop in ReadIntFromSocket has no end.
ReadEOF ==
    /\ \E c \in Commands : Waiting(c)
    /\ client # NoClient
    /\ cpc[client] = "goneUnsent"
    /\ status' = "spin"
    /\ UNCHANGED <<kept, at, socket>>

HasSent == client # NoClient /\ cpc[client] \in {"sent", "goneSent"}

\* Mutant: the command is not compared with the expected one.
ReadExpected_Any ==
    /\ HasSent /\ \E c \in Commands : Waiting(c)
    /\ at' = at + 1
    /\ UNCHANGED <<kept, status, socket>>

ReadExpected ==
    /\ HasSent /\ Waiting(cmd[client])
    /\ at' = at + 1
    /\ UNCHANGED <<kept, status, socket>>

\* The reply reaches the client, whose program ends, and CloseClient.
Reply(message) ==
    /\ cpc[client] = "sent"
    /\ answer' = [answer EXCEPT ![client] = message]
    /\ cpc' = [cpc EXCEPT ![client] = "idle"]
    /\ client' = NoClient
    /\ UNCHANGED <<cmd, queue>>

ReadOther ==
    /\ HasSent
    /\ \E c \in Commands : Waiting(c) /\ cmd[client] # c
    /\ Reply("kInvalidCommand")
    /\ UNCHANGED <<kept, at, status, sock>>

\* Mutant: the connection is not closed after the reply.
SendDone_KeepsClient ==
    /\ \E c \in Commands : At(Done[c]) /\ cpc[client] = "sent"
         /\ answer' = [answer EXCEPT ![client] = Done[c]]
         /\ UNCHANGED <<cpc, client, cmd, queue>>
         /\ sock' = IF c = "kRunTests" THEN "none" ELSE sock
    /\ at' = at + 1
    /\ UNCHANGED <<kept, status>>

\* After the last reply the socket is closed and its file unlinked.
SendDone ==
    /\ \E c \in Commands : At(Done[c]) /\ Reply(Done[c])
         /\ sock' = IF c = "kRunTests" THEN "none" ELSE sock
    /\ at' = at + 1
    /\ UNCHANGED <<kept, status>>

\* Sending to a client that is gone raises SIGPIPE.
SendToGone ==
    /\ HasSent /\ cpc[client] = "goneSent"
    /\ \E c \in Commands : At(Done[c]) \/ (Waiting(c) /\ cmd[client] # c)
    /\ Dies

\* accept, recv or send fails: delete background_com, cleanup_harness, return -1.
SocketFails ==
    /\ \E c \in Commands : Waiting(c) \/ At(Done[c])
    /\ Fail(h) /\ Unlink
    /\ UNCHANGED <<disk, files>>

(* ClientCommandSender::Run *)

Connect(c) ==
    /\ cpc[c] = "idle" /\ sock = "live"
    /\ cpc' = [cpc EXCEPT ![c] = "connected"]
    /\ \E m \in Commands : cmd' = [cmd EXCEPT ![c] = m]
    /\ answer' = [answer EXCEPT ![c] = "none"]
    /\ queue' = Append(queue, c)
    /\ UNCHANGED <<kept, at, status, sock, client>>

SendCommand(c) ==
    /\ cpc[c] = "connected"
    /\ cpc' = [cpc EXCEPT ![c] = "sent"]
    /\ UNCHANGED <<kept, at, status, sock, client, queue, cmd, answer>>

\* The client program is interrupted.
Quit(c) ==
    /\ cpc[c] \in {"connected", "sent", "hung"}
    /\ cpc' = [cpc EXCEPT ![c] = CASE @ = "connected" -> "goneUnsent"
                                   [] @ = "sent" -> "goneSent"
                                   [] @ = "hung" -> "idle"]
    /\ UNCHANGED <<kept, at, status, sock, client, queue, cmd, answer>>

-----------------------------------------------------------------------------

Init ==
    /\ run = 0 /\ at = 1 /\ status = "off"
    /\ opts = CHOOSE o \in Options : TRUE
    /\ h = NewTester(Boot)
    /\ log_data = 0 /\ rounds = 0 /\ disk = Empty
    /\ snapFile = 0 /\ profFile = 0 /\ saved = Empty /\ torn = FALSE
    /\ silent = {}
    /\ sock = "none" /\ queue = <<>> /\ client = NoClient
    /\ cpc = [c \in Client |-> "idle"] /\ cmd = [c \in Client |-> "kBeginLog"]
    /\ answer = [c \in Client |-> "none"]
    /\ trouble = {}

SetUp == \/ Init_bind \/ Init_inUse \/ insert_cow_brd \/ insmodFails \/ openFails
         \/ rmmodFails \/ load_class \/ update_dirty_expire_time \/ format_drive \/ noFlagDevice
         \/ mount_device_raw \/ test_setup \/ setupFails \/ umount \/ clone_device
         \/ log_snapshot_save \/ snapshotNotSaved \/ snapshotSaveFails
         \/ log_snapshot_load \/ snapshotNotLoaded

Record == \/ clear_caches \/ insert_wrapper \/ mount_wrapper_device
          \/ get_wrapper_ioctl \/ begin_wrapper_logging \/ test_run
          \/ get_wrapper_log \/ unwrap \/ log_profile_save \/ profileNotSaved
          \/ log_profile_load \/ StepFails

Test == \/ emptyLog \/ roundsDone \/ roundEndsEarly \/ restoreFails
        \/ snapshotUnmountable \/ check_test \/ removeDisk \/ cleanup \/ return

Socket == \/ Accept \/ ReadEOF \/ ReadExpected \/ ReadOther
          \/ SendDone \/ SendToGone \/ SocketFails

main == SetUp \/ Record \/ Test \/ Socket

Next == \/ Start \/ Killed \/ main
        \/ \E c \in Client : Connect(c) \/ SendCommand(c) \/ Quit(c)

\* The harness is one sequential program: it goes on as long as it can.  No
\* user need start it, run a client or let a client finish.
Spec == Init /\ [][Next]_vars /\ WF_vars(main)

-----------------------------------------------------------------------------
(* Properties *)

\* Every variable keeps the type its declaration gives it in the code.
TypeOK ==
    /\ run \in 0..MaxRuns /\ opts \in Options /\ at \in DOMAIN Programs[opts]
    /\ status \in {"off", "running", "spin", "done", "failed", "killed"}
    /\ h \in [cow_brd_fd : BOOLEAN, cow_brd_inserted : BOOLEAN,
              wrapper_inserted : BOOLEAN, ioctl_fd : BOOLEAN, snapshot_fd : BOOLEAN,
              disk_mounted : BOOLEAN, classes : BOOLEAN, log_on : BOOLEAN,
              loaded : SUBSET {"cow_brd", "hwm"},
              mounted : {"none", "raw", "hwm", "snapshot"}, pinned : BOOLEAN,
              expire : {"user", "test"}, ok : BOOLEAN]
    /\ {log_data, snapFile, profFile} \subseteq Garbage..MaxRuns
    /\ {disk, saved} \subseteq [low : Garbage..MaxRuns, high : 0..MaxRuns]
    /\ rounds \in 0..num_rounds
    /\ sock \in {"none", "live", "stale"}
    /\ queue \in Seq(Client) /\ client \in Client \cup {NoClient}
    /\ cpc \in [Client -> {"idle", "connected", "sent", "goneUnsent", "goneSent", "hung"}]
    /\ cmd \in [Client -> Commands]
    /\ torn \in BOOLEAN /\ silent \subseteq {"log_snapshot_save", "log_snapshot_load"}
    /\ answer \in [Client -> {"none", "kInvalidCommand"} \cup {Done[c] : c \in Commands}]
    /\ trouble \subseteq {"busy", "ioctl_fd", "snapshot_fd", "target_dev",
                         "flag_device", "killed"}

(***************************************************************************)
(* A reply tells the truth: a client is told that a command is done only   *)
(* if it is the one that gave the command, and kBeginLogDone only while    *)
(* the wrapper, mounted, is logging; kEndLogDone only when logging has     *)
(* ended and the wrapper is gone; kRunTestsDone only after everything was  *)
(* released that can be (the SendCommand calls of c_harness.cpp).          *)
(***************************************************************************)
DoneTruthful ==
    [][\A c \in Client : answer'[c] \notin {answer[c], "none", "kInvalidCommand"} =>
         /\ answer'[c] = Done[cmd[c]]
         /\ cmd[c] = "kBeginLog" => h.log_on /\ h.mounted = "hwm"
         /\ cmd[c] = "kEndLog" => ~h.log_on /\ "hwm" \notin h.loaded
         /\ cmd[c] = "kRunTests" => h.loaded = {} \/ trouble # {}]_vars

(***************************************************************************)
(* Whenever the harness waits for a command it is free to take it: no      *)
(* earlier connection is left open, on which WaitForMessage would return   *)
(* kAlreadyConnected, and the socket file is there to connect to.          *)
(***************************************************************************)
ReadyForCommand ==
    \A c \in Commands : Waiting(c) =>
        /\ sock = "live"
        /\ client = NoClient \/ answer[client] = "none"

(***************************************************************************)
(* However a process ends, on success or by cleanup_harness after any step *)
(* failed, it leaves neither module nor mount behind, so the harness can   *)
(* be run again.  Except after one of these, in this process or before it: *)
(*   killed       a process died where it was;                             *)
(*   busy         another program used the mount or a module's device when *)
(*                it was to be released;                                   *)
(*   ioctl_fd, snapshot_fd                                                 *)
(*                main's own descriptor was open when cleanup_harness ran; *)
(*   target_dev   insert_wrapper failed in disk_wrapper_init after it had  *)
(*                opened its target, the RAM disk, and is never put back;  *)
(*   flag_device  main returned for want of a flags device.                *)
(***************************************************************************)
ExitClean ==
    status \in {"done", "failed"} /\ trouble = {} => h.loaded = {} /\ h.mounted = "none"

(***************************************************************************)
(* Crash states are replayed on the disk image on which their log was      *)
(* recorded (its first device_size bytes: see BaseImageRestored).  A run   *)
(* that records does so whatever fails.  A run that loads the files of     *)
(* another does so except in three cases: the image was saved and the log  *)
(* was not, because the run ended in between or log_profile_save could not *)
(* open its file; log_snapshot_save did not save what it read; or its own  *)
(* log_snapshot_load failed.  In the last two and in log_profile_save the  *)
(* call returned SUCCESS.                                                  *)
(***************************************************************************)
LogOnItsBase == InRound /\ log_data # disk.low => opts.load /\ (torn \/ silent # {})

(***************************************************************************)
(* A client whose command was taken gets its reply, unless the harness     *)
(* ends first: between the command and the reply main waits for nothing.   *)
(***************************************************************************)
Served ==
    (client # NoClient /\ ~\E m \in Commands : Waiting(m)) /\ status = "running"
        ~> client = NoClient

-----------------------------------------------------------------------------
(* What a comment says and the code does not do *)

\* main's comment on -l: "save the disk image we are using as the base image for
\* our snapshots."  So the disk that log_snapshot_load makes is the one saved,
\* when no system call failed.
BaseImageRestored ==
    At("clear_caches") /\ opts.load /\ silent = {} => disk = saved
=============================================================================
