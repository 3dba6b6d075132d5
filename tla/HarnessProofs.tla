--------------------------- MODULE HarnessProofs ---------------------------
(***************************************************************************)
(* Proofs about the harness.  What a process has done and will do is read  *)
(* off its place in Program: ProgramOrder says what comes before what in   *)
(* each of the programs that the options select.  The invariants relate    *)
(* the state to the steps already passed, and Inv joins them.              *)
(***************************************************************************)
EXTENDS Harness, TLAPS

-----------------------------------------------------------------------------
(* The order of the steps of main *)

\* The steps of P before its k-th.
Before(P, k, s) == \E j \in 1..(k - 1) : P[j] = s

\* The steps the process has behind it.
Passed(s) == Before(Programs[opts], at, s)

\* The steps at which the wrapper's device is mounted, and those of them at which it logs.
Logging == {"kBeginLogDone", "kEndLog", "test_run", "get_wrapper_log"}
Recording == Logging \cup {"get_wrapper_ioctl", "begin_wrapper_logging"}

\* The steps at which something may be mounted.
MountSteps == Recording \cup {"kBeginLog", "test_setup", "umount_device"}

(***************************************************************************)
(* What comes before what in a program P of main under options o, seen     *)
(* from its k-th step.                                                     *)
(***************************************************************************)
Ends(P, k) ==
    /\ k = 1 => P[k] \in {"Init", "insert_cow_brd"}
    /\ P[k] # "return" => k + 1 \in DOMAIN P
    /\ P[k] \in {"Init", "insert_cow_brd"} <=> ~Before(P, k, "insert_cow_brd")
    /\ Before(P, k, "cleanup_harness") <=> P[k] \in {"kRunTestsDone", "return"}

\* A command comes after Init, its reply after it, and no other command in between.
Talks(P, k) ==
    /\ P[k] \in Commands => Before(P, k, "Init")
    /\ P[k] # "return" => ~Before(P, k, "kRunTestsDone")
    /\ \A c \in Commands :
        /\ Before(P, k, c) /\ ~Before(P, k, Done[c]) =>
             P[k] \notin Commands /\ \A d \in Commands : P[k] = Done[d] => d = c
        /\ P[k] = Done[c] => Before(P, k, c) /\ ~Before(P, k, Done[c])

\* Where the wrapper is inserted, mounted, logging, and gone again.
Mounts(P, k) ==
    /\ k + 1 \in DOMAIN P =>
        /\ P[k + 1] \notin MountSteps =>
             P[k] \notin (MountSteps \ {"umount_device"}) \cup {"mount_device_raw", "mount_wrapper_device"}
        /\ P[k + 1] \in Recording => P[k] \in Recording \cup {"mount_wrapper_device"}
        /\ P[k + 1] \in Logging =>
             P[k] \in (Logging \ {"get_wrapper_log"}) \cup {"begin_wrapper_logging"}
        /\ P[k + 1] \in {"log_profile_save", "kEndLogDone"} =>
             P[k] \in {"remove_wrapper", "log_profile_save"}
    /\ P[k] = "remove_wrapper" =>
         Before(P, k, "insert_wrapper") /\ ~Before(P, k, "remove_wrapper")
    /\ P[k] \in {"test_setup", "cleanup_harness"} /\ Before(P, k, "insert_wrapper") =>
         Before(P, k, "remove_wrapper")

\* Where the disk image and the log are made, saved and loaded.
Bases(P, k, load) ==
    /\ P[k] \in {"insert_cow_brd", "format_drive", "log_snapshot_load"} =>
         ~Before(P, k, "get_wrapper_log") /\ ~Before(P, k, "log_snapshot_save")
    /\ P[k] \in {"insert_cow_brd", "format_drive", "log_snapshot_save"} =>
         ~Before(P, k, "log_snapshot_load")
    /\ P[k] \in {"get_wrapper_log", "log_profile_save"} => ~Before(P, k, "log_profile_load")
    /\ P[k] = "log_profile_load" => ~Before(P, k, "get_wrapper_log")
    /\ P[k] = "log_profile_save" =>
         Before(P, k, "get_wrapper_log") /\ Before(P, k, "log_snapshot_save")
    /\ P[k] = "test" => IF load THEN Before(P, k, "log_snapshot_load") /\ Before(P, k, "log_profile_load")
                        ELSE Before(P, k, "get_wrapper_log")

\* All of it.
Ordered(P, k, load) == Ends(P, k) /\ Talks(P, k) /\ Mounts(P, k) /\ Bases(P, k, load)

\* The replies to the commands.
LEMMA Replies ==
    /\ Commands = {"kBeginLog", "kEndLog", "kRunTests"}
    /\ Done["kBeginLog"] = "kBeginLogDone" /\ Done["kEndLog"] = "kEndLogDone"
    /\ Done["kRunTests"] = "kRunTestsDone"
  BY DEF Commands, Done

\* A program has a first step.
LEMMA ProgramDomain ==
    ASSUME NEW o \in Options
    PROVE  1 \in DOMAIN Programs[o] /\ DOMAIN Programs[o] \subseteq Nat \ {0}
  <1>1. Programs[o] = Program(o)
    BY DEF Programs
  <1>2. \E n \in Nat \ {0} : DOMAIN Program(o) = 1..n
    BY DEF Program, Phase0, Phase1, Phase2, Phase34, When
  <1> QED BY <1>1, <1>2

(***************************************************************************)
(* Every program is in that order: by the twelve programs the options      *)
(* select (with load, save makes no difference).                           *)
(***************************************************************************)
LEMMA ProgramOrder ==
    ASSUME NEW o \in Options, NEW k \in DOMAIN Programs[o]
    PROVE  Ordered(Programs[o], k, o.load)
  <1> DEFINE P == Program(o)
  <1>0. /\ Programs[o] = P
        /\ {o.load, o.background, o.save, o.dry_run} \subseteq BOOLEAN
    BY HarnessAssumption DEF Programs
  <1>d. /\ Done["kBeginLog"] = "kBeginLogDone" /\ Done["kEndLog"] = "kEndLogDone"
        /\ Done["kRunTests"] = "kRunTestsDone"
    BY Replies
  <1> SUFFICES ASSUME k \in DOMAIN P PROVE Ordered(P, k, o.load)
    BY <1>0
  <1>1. CASE o.load /\ o.background /\ o.dry_run
    <2>1. DOMAIN P = 1..11
      BY <1>1, <1>0 DEF Program, Phase0, Phase1, Phase2, Phase34, When
    <2>2. /\ P[1] = "Init" /\ P[2] = "insert_cow_brd" /\ P[3] = "load_class"
          /\ P[4] = "update_dirty_expire_time" /\ P[5] = "log_snapshot_load"
          /\ P[6] = "clear_caches" /\ P[7] = "log_profile_load" /\ P[8] = "kRunTests"
          /\ P[9] = "cleanup_harness" /\ P[10] = "kRunTestsDone" /\ P[11] = "return"
      BY <1>1, <1>0 DEF Program, Phase0, Phase1, Phase2, Phase34, When
    <2> QED
      <3> HIDE DEF P
      <3> QED BY <1>1, <1>d, <2>1, <2>2
             DEF Ordered, Ends, Talks, Mounts, Bases, Before,
                 Commands, MountSteps, Recording, Logging
  <1>2. CASE o.load /\ o.background /\ ~o.dry_run
    <2>1. DOMAIN P = 1..13
      BY <1>2, <1>0 DEF Program, Phase0, Phase1, Phase2, Phase34, When
    <2>2. /\ P[1] = "Init" /\ P[2] = "insert_cow_brd" /\ P[3] = "load_class"
          /\ P[4] = "update_dirty_expire_time" /\ P[5] = "log_snapshot_load"
          /\ P[6] = "clear_caches" /\ P[7] = "log_profile_load" /\ P[8] = "kRunTests"
          /\ P[9] = "test" /\ P[10] = "remove_cow_brd" /\ P[11] = "cleanup_harness"
          /\ P[12] = "kRunTestsDone" /\ P[13] = "return"
      BY <1>2, <1>0 DEF Program, Phase0, Phase1, Phase2, Phase34, When
    <2> QED
      <3> HIDE DEF P
      <3> QED BY <1>2, <1>d, <2>1, <2>2
             DEF Ordered, Ends, Talks, Mounts, Bases, Before,
                 Commands, MountSteps, Recording, Logging
  <1>3. CASE o.load /\ ~o.background /\ o.dry_run
    <2>1. DOMAIN P = 1..8
      BY <1>3, <1>0 DEF Program, Phase0, Phase1, Phase2, Phase34, When
    <2>2. /\ P[1] = "insert_cow_brd" /\ P[2] = "load_class"
          /\ P[3] = "update_dirty_expire_time" /\ P[4] = "log_snapshot_load"
          /\ P[5] = "clear_caches" /\ P[6] = "log_profile_load"
          /\ P[7] = "cleanup_harness" /\ P[8] = "return"
      BY <1>3, <1>0 DEF Program, Phase0, Phase1, Phase2, Phase34, When
    <2> QED
      <3> HIDE DEF P
      <3> QED BY <1>3, <1>d, <2>1, <2>2
             DEF Ordered, Ends, Talks, Mounts, Bases, Before,
                 Commands, MountSteps, Recording, Logging
  <1>4. CASE o.load /\ ~o.background /\ ~o.dry_run
    <2>1. DOMAIN P = 1..10
      BY <1>4, <1>0 DEF Program, Phase0, Phase1, Phase2, Phase34, When
    <2>2. /\ P[1] = "insert_cow_brd" /\ P[2] = "load_class"
          /\ P[3] = "update_dirty_expire_time" /\ P[4] = "log_snapshot_load"
          /\ P[5] = "clear_caches" /\ P[6] = "log_profile_load" /\ P[7] = "test"
          /\ P[8] = "remove_cow_brd" /\ P[9] = "cleanup_harness" /\ P[10] = "return"
      BY <1>4, <1>0 DEF Program, Phase0, Phase1, Phase2, Phase34, When
    <2> QED
      <3> HIDE DEF P
      <3> QED BY <1>4, <1>d, <2>1, <2>2
             DEF Ordered, Ends, Talks, Mounts, Bases, Before,
                 Commands, MountSteps, Recording, Logging
  <1>5. CASE ~o.load /\ o.background /\ o.save /\ o.dry_run
    <2>1. DOMAIN P = 1..26
      BY <1>5, <1>0 DEF Program, Phase0, Phase1, Phase2, Phase34, When
    <2>2. /\ P[1] = "Init" /\ P[2] = "insert_cow_brd" /\ P[3] = "load_class"
          /\ P[4] = "update_dirty_expire_time" /\ P[5] = "format_drive"
          /\ P[6] = "mount_device_raw" /\ P[7] = "kBeginLog"
          /\ P[8] = "umount_device" /\ P[9] = "clone_device"
          /\ P[10] = "log_snapshot_save" /\ P[11] = "clear_caches"
          /\ P[12] = "insert_wrapper" /\ P[13] = "mount_wrapper_device"
          /\ P[14] = "get_wrapper_ioctl" /\ P[15] = "begin_wrapper_logging"
          /\ P[16] = "kBeginLogDone" /\ P[17] = "kEndLog"
          /\ P[18] = "get_wrapper_log" /\ P[19] = "umount_device"
          /\ P[20] = "remove_wrapper" /\ P[21] = "log_profile_save"
          /\ P[22] = "kEndLogDone" /\ P[23] = "kRunTests"
          /\ P[24] = "cleanup_harness" /\ P[25] = "kRunTestsDone" /\ P[26] = "return"
      BY <1>5, <1>0 DEF Program, Phase0, Phase1, Phase2, Phase34, When
    <2> QED
      <3> HIDE DEF P
      <3> QED BY <1>5, <1>d, <2>1, <2>2
             DEF Ordered, Ends, Talks, Mounts, Bases, Before,
                 Commands, MountSteps, Recording, Logging
  <1>6. CASE ~o.load /\ o.background /\ o.save /\ ~o.dry_run
    <2>1. DOMAIN P = 1..28
      BY <1>6, <1>0 DEF Program, Phase0, Phase1, Phase2, Phase34, When
    <2>2. /\ P[1] = "Init" /\ P[2] = "insert_cow_brd" /\ P[3] = "load_class"
          /\ P[4] = "update_dirty_expire_time" /\ P[5] = "format_drive"
          /\ P[6] = "mount_device_raw" /\ P[7] = "kBeginLog"
          /\ P[8] = "umount_device" /\ P[9] = "clone_device"
          /\ P[10] = "log_snapshot_save" /\ P[11] = "clear_caches"
          /\ P[12] = "insert_wrapper" /\ P[13] = "mount_wrapper_device"
          /\ P[14] = "get_wrapper_ioctl" /\ P[15] = "begin_wrapper_logging"
          /\ P[16] = "kBeginLogDone" /\ P[17] = "kEndLog"
          /\ P[18] = "get_wrapper_log" /\ P[19] = "umount_device"
          /\ P[20] = "remove_wrapper" /\ P[21] = "log_profile_save"
          /\ P[22] = "kEndLogDone" /\ P[23] = "kRunTests" /\ P[24] = "test"
          /\ P[25] = "remove_cow_brd" /\ P[26] = "cleanup_harness"
          /\ P[27] = "kRunTestsDone" /\ P[28] = "return"
      BY <1>6, <1>0 DEF Program, Phase0, Phase1, Phase2, Phase34, When
    <2> QED
      <3> HIDE DEF P
      <3> QED BY <1>6, <1>d, <2>1, <2>2
             DEF Ordered, Ends, Talks, Mounts, Bases, Before,
                 Commands, MountSteps, Recording, Logging
  <1>7. CASE ~o.load /\ o.background /\ ~o.save /\ o.dry_run
    <2>1. DOMAIN P = 1..24
      BY <1>7, <1>0 DEF Program, Phase0, Phase1, Phase2, Phase34, When
    <2>2. /\ P[1] = "Init" /\ P[2] = "insert_cow_brd" /\ P[3] = "load_class"
          /\ P[4] = "update_dirty_expire_time" /\ P[5] = "format_drive"
          /\ P[6] = "mount_device_raw" /\ P[7] = "kBeginLog"
          /\ P[8] = "umount_device" /\ P[9] = "clone_device"
          /\ P[10] = "clear_caches" /\ P[11] = "insert_wrapper"
          /\ P[12] = "mount_wrapper_device" /\ P[13] = "get_wrapper_ioctl"
          /\ P[14] = "begin_wrapper_logging" /\ P[15] = "kBeginLogDone"
          /\ P[16] = "kEndLog" /\ P[17] = "get_wrapper_log"
          /\ P[18] = "umount_device" /\ P[19] = "remove_wrapper"
          /\ P[20] = "kEndLogDone" /\ P[21] = "kRunTests"
          /\ P[22] = "cleanup_harness" /\ P[23] = "kRunTestsDone" /\ P[24] = "return"
      BY <1>7, <1>0 DEF Program, Phase0, Phase1, Phase2, Phase34, When
    <2> QED
      <3> HIDE DEF P
      <3> QED BY <1>7, <1>d, <2>1, <2>2
             DEF Ordered, Ends, Talks, Mounts, Bases, Before,
                 Commands, MountSteps, Recording, Logging
  <1>8. CASE ~o.load /\ o.background /\ ~o.save /\ ~o.dry_run
    <2>1. DOMAIN P = 1..26
      BY <1>8, <1>0 DEF Program, Phase0, Phase1, Phase2, Phase34, When
    <2>2. /\ P[1] = "Init" /\ P[2] = "insert_cow_brd" /\ P[3] = "load_class"
          /\ P[4] = "update_dirty_expire_time" /\ P[5] = "format_drive"
          /\ P[6] = "mount_device_raw" /\ P[7] = "kBeginLog"
          /\ P[8] = "umount_device" /\ P[9] = "clone_device"
          /\ P[10] = "clear_caches" /\ P[11] = "insert_wrapper"
          /\ P[12] = "mount_wrapper_device" /\ P[13] = "get_wrapper_ioctl"
          /\ P[14] = "begin_wrapper_logging" /\ P[15] = "kBeginLogDone"
          /\ P[16] = "kEndLog" /\ P[17] = "get_wrapper_log"
          /\ P[18] = "umount_device" /\ P[19] = "remove_wrapper"
          /\ P[20] = "kEndLogDone" /\ P[21] = "kRunTests" /\ P[22] = "test"
          /\ P[23] = "remove_cow_brd" /\ P[24] = "cleanup_harness"
          /\ P[25] = "kRunTestsDone" /\ P[26] = "return"
      BY <1>8, <1>0 DEF Program, Phase0, Phase1, Phase2, Phase34, When
    <2> QED
      <3> HIDE DEF P
      <3> QED BY <1>8, <1>d, <2>1, <2>2
             DEF Ordered, Ends, Talks, Mounts, Bases, Before,
                 Commands, MountSteps, Recording, Logging
  <1>9. CASE ~o.load /\ ~o.background /\ o.save /\ o.dry_run
    <2>1. DOMAIN P = 1..21
      BY <1>9, <1>0 DEF Program, Phase0, Phase1, Phase2, Phase34, When
    <2>2. /\ P[1] = "insert_cow_brd" /\ P[2] = "load_class"
          /\ P[3] = "update_dirty_expire_time" /\ P[4] = "format_drive"
          /\ P[5] = "mount_device_raw" /\ P[6] = "test_setup"
          /\ P[7] = "umount_device" /\ P[8] = "clone_device"
          /\ P[9] = "log_snapshot_save" /\ P[10] = "clear_caches"
          /\ P[11] = "insert_wrapper" /\ P[12] = "mount_wrapper_device"
          /\ P[13] = "get_wrapper_ioctl" /\ P[14] = "begin_wrapper_logging"
          /\ P[15] = "test_run" /\ P[16] = "get_wrapper_log"
          /\ P[17] = "umount_device" /\ P[18] = "remove_wrapper"
          /\ P[19] = "log_profile_save" /\ P[20] = "cleanup_harness"
          /\ P[21] = "return"
      BY <1>9, <1>0 DEF Program, Phase0, Phase1, Phase2, Phase34, When
    <2> QED
      <3> HIDE DEF P
      <3> QED BY <1>9, <1>d, <2>1, <2>2
             DEF Ordered, Ends, Talks, Mounts, Bases, Before,
                 Commands, MountSteps, Recording, Logging
  <1>10. CASE ~o.load /\ ~o.background /\ o.save /\ ~o.dry_run
    <2>1. DOMAIN P = 1..23
      BY <1>10, <1>0 DEF Program, Phase0, Phase1, Phase2, Phase34, When
    <2>2. /\ P[1] = "insert_cow_brd" /\ P[2] = "load_class"
          /\ P[3] = "update_dirty_expire_time" /\ P[4] = "format_drive"
          /\ P[5] = "mount_device_raw" /\ P[6] = "test_setup"
          /\ P[7] = "umount_device" /\ P[8] = "clone_device"
          /\ P[9] = "log_snapshot_save" /\ P[10] = "clear_caches"
          /\ P[11] = "insert_wrapper" /\ P[12] = "mount_wrapper_device"
          /\ P[13] = "get_wrapper_ioctl" /\ P[14] = "begin_wrapper_logging"
          /\ P[15] = "test_run" /\ P[16] = "get_wrapper_log"
          /\ P[17] = "umount_device" /\ P[18] = "remove_wrapper"
          /\ P[19] = "log_profile_save" /\ P[20] = "test" /\ P[21] = "remove_cow_brd"
          /\ P[22] = "cleanup_harness" /\ P[23] = "return"
      BY <1>10, <1>0 DEF Program, Phase0, Phase1, Phase2, Phase34, When
    <2> QED
      <3> HIDE DEF P
      <3> QED BY <1>10, <1>d, <2>1, <2>2
             DEF Ordered, Ends, Talks, Mounts, Bases, Before,
                 Commands, MountSteps, Recording, Logging
  <1>11. CASE ~o.load /\ ~o.background /\ ~o.save /\ o.dry_run
    <2>1. DOMAIN P = 1..19
      BY <1>11, <1>0 DEF Program, Phase0, Phase1, Phase2, Phase34, When
    <2>2. /\ P[1] = "insert_cow_brd" /\ P[2] = "load_class"
          /\ P[3] = "update_dirty_expire_time" /\ P[4] = "format_drive"
          /\ P[5] = "mount_device_raw" /\ P[6] = "test_setup"
          /\ P[7] = "umount_device" /\ P[8] = "clone_device" /\ P[9] = "clear_caches"
          /\ P[10] = "insert_wrapper" /\ P[11] = "mount_wrapper_device"
          /\ P[12] = "get_wrapper_ioctl" /\ P[13] = "begin_wrapper_logging"
          /\ P[14] = "test_run" /\ P[15] = "get_wrapper_log"
          /\ P[16] = "umount_device" /\ P[17] = "remove_wrapper"
          /\ P[18] = "cleanup_harness" /\ P[19] = "return"
      BY <1>11, <1>0 DEF Program, Phase0, Phase1, Phase2, Phase34, When
    <2> QED
      <3> HIDE DEF P
      <3> QED BY <1>11, <1>d, <2>1, <2>2
             DEF Ordered, Ends, Talks, Mounts, Bases, Before,
                 Commands, MountSteps, Recording, Logging
  <1>12. CASE ~o.load /\ ~o.background /\ ~o.save /\ ~o.dry_run
    <2>1. DOMAIN P = 1..21
      BY <1>12, <1>0 DEF Program, Phase0, Phase1, Phase2, Phase34, When
    <2>2. /\ P[1] = "insert_cow_brd" /\ P[2] = "load_class"
          /\ P[3] = "update_dirty_expire_time" /\ P[4] = "format_drive"
          /\ P[5] = "mount_device_raw" /\ P[6] = "test_setup"
          /\ P[7] = "umount_device" /\ P[8] = "clone_device" /\ P[9] = "clear_caches"
          /\ P[10] = "insert_wrapper" /\ P[11] = "mount_wrapper_device"
          /\ P[12] = "get_wrapper_ioctl" /\ P[13] = "begin_wrapper_logging"
          /\ P[14] = "test_run" /\ P[15] = "get_wrapper_log"
          /\ P[16] = "umount_device" /\ P[17] = "remove_wrapper" /\ P[18] = "test"
          /\ P[19] = "remove_cow_brd" /\ P[20] = "cleanup_harness"
          /\ P[21] = "return"
      BY <1>12, <1>0 DEF Program, Phase0, Phase1, Phase2, Phase34, When
    <2> QED
      <3> HIDE DEF P
      <3> QED BY <1>12, <1>d, <2>1, <2>2
             DEF Ordered, Ends, Talks, Mounts, Bases, Before,
                 Commands, MountSteps, Recording, Logging
  <1> QED BY <1>0, <1>1, <1>2, <1>3, <1>4, <1>5, <1>6, <1>7, <1>8, <1>9, <1>10, <1>11, <1>12

-----------------------------------------------------------------------------
\* The flags of a Tester say what is mounted and loaded.
Sound(t) ==
    /\ t.mounted # "none" <=> t.disk_mounted
    /\ "hwm" \in t.loaded <=> t.wrapper_inserted
    /\ "cow_brd" \in t.loaded => t.cow_brd_inserted

\* Neither module nor mount is left.
Clean(t) == t.loaded = {} /\ t.mounted = "none"

\* Only a process that runs is past its first step.
PlaceInv == status \notin {"running", "spin"} => at = 1

\* A client that waits to be accepted, or for its reply.
Talking(c) == cpc[c] \in {"connected", "sent", "goneUnsent", "goneSent"} /\ answer[c] = "none"

(***************************************************************************)
(* The socket is there from Init to the last reply; a client is connected  *)
(* once and has no reply yet; between a command and its reply main serves  *)
(* the client that gave it.                                                *)
(***************************************************************************)
SocketInv ==
    /\ Passed("Init") /\ ~Passed("kRunTestsDone") => sock = "live"
    /\ client # NoClient => Talking(client)
    /\ \A i \in 1..Len(queue) : Talking(queue[i]) /\ queue[i] # client
    /\ \A i, j \in 1..Len(queue) : queue[i] = queue[j] => i = j
    /\ \A c \in Commands : Passed(c) /\ ~Passed(Done[c]) => client # NoClient /\ cmd[client] = c

(***************************************************************************)
(* Where the image and the log in hand come from.                          *)
(***************************************************************************)
BaseInv ==
    /\ ~torn /\ "log_snapshot_save" \notin silent => profFile \in {snapFile, 0}
    /\ Passed("log_snapshot_save") => snapFile = disk.low \/ "log_snapshot_save" \in silent
    /\ Passed("get_wrapper_log") => log_data \in {disk.low, 0}
    /\ Passed("log_profile_load") => log_data = profFile
    /\ Passed("log_snapshot_load") => disk.low = snapFile \/ "log_snapshot_load" \in silent

(***************************************************************************)
(* While the workload runs the wrapper is there, mounted and logging, and  *)
(* it is gone once its log was read.                                       *)
(***************************************************************************)
RecordInv ==
    /\ Step \in Recording => h.mounted = "hwm"
    /\ Step \in Logging => h.log_on
    /\ Passed("insert_wrapper") /\ ~Passed("remove_wrapper") => h.wrapper_inserted
    /\ Step \in {"log_profile_save", "kEndLogDone"} => ~h.log_on /\ "hwm" \notin h.loaded

(***************************************************************************)
(* Unless something went wrong that cleanup_harness cannot undo: the flags *)
(* are right, nothing is loaded before insert_cow_brd and after            *)
(* cleanup_harness, and nothing is mounted but where main has mounted it.  *)
(***************************************************************************)
CleanInv ==
    trouble = {} =>
        /\ Sound(h)
        /\ ~Passed("insert_cow_brd") \/ Passed("cleanup_harness") => Clean(h)
        /\ Step \notin MountSteps => h.mounted = "none"
-----------------------------------------------------------------------------
(* The functions of Tester *)

\* What a Tester and the kernel's side of it can be.
Testers == [cow_brd_fd : BOOLEAN, cow_brd_inserted : BOOLEAN,
            wrapper_inserted : BOOLEAN, ioctl_fd : BOOLEAN, snapshot_fd : BOOLEAN,
            disk_mounted : BOOLEAN, classes : BOOLEAN, log_on : BOOLEAN,
            loaded : SUBSET {"cow_brd", "hwm"},
            mounted : {"none", "raw", "hwm", "snapshot"}, pinned : BOOLEAN,
            expire : {"user", "test"}, ok : BOOLEAN]

\* A Tester r for which rmmod was called on t.
Rmmodded(t, module, busy, r) ==
    /\ r \in Testers
    /\ r.ok <=> /\ module \in t.loaded /\ module \notin busy
                /\ module = "hwm" => ~t.ioctl_fd /\ t.mounted # "hwm"
                /\ module = "cow_brd" => /\ ~t.cow_brd_fd /\ ~t.snapshot_fd /\ ~t.pinned
                                         /\ t.mounted = "none" /\ "hwm" \notin t.loaded
    /\ r.loaded = IF r.ok THEN t.loaded \ {module} ELSE t.loaded
    /\ r.mounted = t.mounted /\ r.disk_mounted = t.disk_mounted
    /\ r.wrapper_inserted = t.wrapper_inserted
    /\ r.cow_brd_inserted = t.cow_brd_inserted
    /\ r.log_on = t.log_on /\ r.ioctl_fd = t.ioctl_fd
    /\ r.snapshot_fd = t.snapshot_fd /\ r.cow_brd_fd = t.cow_brd_fd
    /\ r.pinned = t.pinned

\* What rmmod changes.
LEMMA RmmodEffect ==
    ASSUME NEW t \in Testers, NEW module \in {"cow_brd", "hwm"}, NEW busy
    PROVE  Rmmodded(t, module, busy, rmmod(t, module, busy))
  BY DEF rmmod, Testers, Rmmodded

\* umount_device changes the mount and its flag.
LEMMA UmountEffect ==
    ASSUME NEW t \in Testers, NEW busy
    PROVE  LET u == umount_device(t, busy)
           IN /\ u \in Testers
              /\ u.ok <=> ~(t.disk_mounted /\ ("mount" \in busy \/ t.mounted = "none"))
              /\ u.disk_mounted <=> t.disk_mounted /\ ~u.ok
              /\ u.mounted = IF u.ok /\ t.disk_mounted THEN "none" ELSE t.mounted
              /\ u.loaded = t.loaded /\ u.wrapper_inserted = t.wrapper_inserted
              /\ u.cow_brd_inserted = t.cow_brd_inserted
              /\ u.log_on = t.log_on /\ u.ioctl_fd = t.ioctl_fd
              /\ u.snapshot_fd = t.snapshot_fd /\ u.cow_brd_fd = t.cow_brd_fd
              /\ u.pinned = t.pinned
  BY DEF umount_device, Testers

\* mount_device does, too.
LEMMA MountEffect ==
    ASSUME NEW t \in Testers, NEW dev \in {"none", "raw", "hwm", "snapshot"}, NEW good \in BOOLEAN
    PROVE  LET u == mount_device(t, dev, good)
           IN /\ u \in Testers
              /\ u.ok <=> good /\ t.mounted = "none"
              /\ u.disk_mounted <=> u.ok
              /\ u.mounted = IF u.ok THEN dev ELSE t.mounted
              /\ u.loaded = t.loaded /\ u.wrapper_inserted = t.wrapper_inserted
              /\ u.cow_brd_inserted = t.cow_brd_inserted
              /\ u.log_on = t.log_on /\ u.ioctl_fd = t.ioctl_fd
              /\ u.snapshot_fd = t.snapshot_fd /\ u.cow_brd_fd = t.cow_brd_fd
  BY DEF mount_device, Testers

\* A Tester u for which remove_wrapper was called on t.
Unwrapped(t, busy, u) ==
    /\ u \in Testers
    /\ u.ok <=> (t.wrapper_inserted => /\ "hwm" \in t.loaded /\ "hwm" \notin busy
                                       /\ ~t.ioctl_fd /\ t.mounted # "hwm")
    /\ u.loaded = IF u.ok /\ t.wrapper_inserted THEN t.loaded \ {"hwm"} ELSE t.loaded
    /\ u.wrapper_inserted <=> t.wrapper_inserted /\ ~u.ok
    /\ u.log_on <=> t.log_on /\ ~(u.ok /\ t.wrapper_inserted)
    /\ u.mounted = t.mounted /\ u.disk_mounted = t.disk_mounted
    /\ u.cow_brd_inserted = t.cow_brd_inserted /\ u.pinned = t.pinned
    /\ u.snapshot_fd = t.snapshot_fd /\ u.cow_brd_fd = t.cow_brd_fd

\* remove_wrapper removes the wrapper that was inserted.
LEMMA RemoveWrapperEffect ==
    ASSUME NEW t \in Testers, NEW busy
    PROVE  Unwrapped(t, busy, remove_wrapper(t, busy))
  <1> DEFINE r == rmmod(t, "hwm", busy)
             u == remove_wrapper(t, busy)
  <1>1. Rmmodded(t, "hwm", busy, r)
    BY RmmodEffect
  <1>2. u = IF ~t.wrapper_inserted THEN [t EXCEPT !.ok = TRUE]
            ELSE IF r.ok THEN [r EXCEPT !.wrapper_inserted = FALSE, !.log_on = FALSE]
            ELSE r
    BY DEF remove_wrapper
  <1> SUFFICES Unwrapped(t, busy, u)
    OBVIOUS
  <1> HIDE DEF r, u
  <1>3. CASE ~t.wrapper_inserted
    <2>1. u = [t EXCEPT !.ok = TRUE]
      BY <1>2, <1>3
    <2> QED BY <1>3, <2>1 DEF Testers, Unwrapped
  <1>4. CASE t.wrapper_inserted /\ r.ok
    <2>1. u = [r EXCEPT !.wrapper_inserted = FALSE, !.log_on = FALSE]
      BY <1>2, <1>4
    <2> QED BY <1>1, <1>4, <2>1, ZenonT(60) DEF Testers, Rmmodded, Unwrapped
  <1>5. CASE t.wrapper_inserted /\ ~r.ok
    <2>1. u = r
      BY <1>2, <1>5
    <2>2. /\ u \in Testers /\ ~u.ok /\ u.loaded = t.loaded /\ u.wrapper_inserted
          /\ u.log_on = t.log_on /\ u.mounted = t.mounted /\ u.disk_mounted = t.disk_mounted
          /\ u.cow_brd_inserted = t.cow_brd_inserted /\ u.pinned = t.pinned
          /\ u.snapshot_fd = t.snapshot_fd /\ u.cow_brd_fd = t.cow_brd_fd
      BY <1>1, <1>5, <2>1 DEF Rmmodded
    <2>3. ~(/\ "hwm" \in t.loaded /\ "hwm" \notin busy
            /\ ~t.ioctl_fd /\ t.mounted # "hwm")
      BY <1>1, <1>5 DEF Rmmodded
    <2>4. t.log_on \in BOOLEAN
      BY DEF Testers
    <2> QED BY <1>5, <2>2, <2>3, <2>4 DEF Unwrapped
  <1>6. t.wrapper_inserted \in BOOLEAN /\ r.ok \in BOOLEAN
    BY <1>1 DEF Testers, Rmmodded
  <1> QED BY <1>3, <1>4, <1>5, <1>6

\* A Tester u for which remove_cow_brd was called on t.
DiskRemoved(t, busy, u) ==
    /\ u \in Testers
    /\ u.loaded \subseteq t.loaded
    /\ "hwm" \in u.loaded <=> "hwm" \in t.loaded
    /\ (/\ t.cow_brd_inserted /\ ~t.snapshot_fd /\ ~t.pinned /\ t.mounted = "none"
        /\ "hwm" \notin t.loaded /\ "cow_brd" \notin busy \cap t.loaded)
       => "cow_brd" \notin u.loaded
    /\ "cow_brd" \in u.loaded => ~t.cow_brd_inserted \/ u.cow_brd_inserted
    /\ u.mounted = t.mounted /\ u.disk_mounted = t.disk_mounted
    /\ u.wrapper_inserted = t.wrapper_inserted
    /\ ~t.cow_brd_inserted => ~u.cow_brd_inserted

\* remove_cow_brd closes the disk and removes its module.
LEMMA RemoveCowBrdEffect ==
    ASSUME NEW t \in Testers, NEW busy
    PROVE  DiskRemoved(t, busy, remove_cow_brd(t, busy))
  <1> DEFINE closed == IF t.cow_brd_fd
                       THEN [t EXCEPT !.cow_brd_fd = FALSE, !.cow_brd_inserted = FALSE]
                       ELSE t
             r == rmmod(closed, "cow_brd", busy)
             u == remove_cow_brd(t, busy)
  <1>1. /\ closed \in Testers /\ ~closed.cow_brd_fd
        /\ closed.loaded = t.loaded /\ closed.mounted = t.mounted
        /\ closed.disk_mounted = t.disk_mounted /\ closed.snapshot_fd = t.snapshot_fd
        /\ closed.wrapper_inserted = t.wrapper_inserted /\ closed.pinned = t.pinned
    BY ZenonT(60) DEF Testers
  <1>2. u = IF ~t.cow_brd_inserted THEN [t EXCEPT !.ok = TRUE]
            ELSE IF r.ok THEN r ELSE [r EXCEPT !.cow_brd_inserted = TRUE]
    BY DEF remove_cow_brd
  <1> SUFFICES DiskRemoved(t, busy, u)
    OBVIOUS
  <1> HIDE DEF closed, u
  <1>3. Rmmodded(closed, "cow_brd", busy, r)
    BY <1>1, RmmodEffect
  <1> HIDE DEF r
  <1>4. CASE ~t.cow_brd_inserted
    <2>1. u = [t EXCEPT !.ok = TRUE]
      BY <1>2, <1>4
    <2>2. /\ u \in Testers /\ u.loaded = t.loaded /\ u.mounted = t.mounted
          /\ u.disk_mounted = t.disk_mounted /\ u.wrapper_inserted = t.wrapper_inserted
          /\ ~u.cow_brd_inserted
      BY <1>4, <2>1, ZenonT(60) DEF Testers
    <2> QED BY <1>4, <2>2 DEF DiskRemoved
  <1>5. CASE t.cow_brd_inserted /\ r.ok
    <2>1. u = r
      BY <1>2, <1>5
    <2>2. /\ u \in Testers /\ u.loaded = t.loaded \ {"cow_brd"} /\ u.mounted = t.mounted
          /\ u.disk_mounted = t.disk_mounted /\ u.wrapper_inserted = t.wrapper_inserted
      BY <1>1, <1>3, <1>5, <2>1 DEF Rmmodded
    <2> QED BY <1>5, <2>2 DEF DiskRemoved
  <1>6. CASE t.cow_brd_inserted /\ ~r.ok
    <2>1. u = [r EXCEPT !.cow_brd_inserted = TRUE]
      BY <1>2, <1>6
    <2>2. /\ r \in Testers /\ r.loaded = t.loaded /\ r.mounted = t.mounted
          /\ r.disk_mounted = t.disk_mounted /\ r.wrapper_inserted = t.wrapper_inserted
      BY <1>1, <1>3, <1>6 DEF Rmmodded
    <2>3. /\ u \in Testers /\ u.loaded = t.loaded /\ u.mounted = t.mounted
          /\ u.disk_mounted = t.disk_mounted /\ u.wrapper_inserted = t.wrapper_inserted
          /\ u.cow_brd_inserted
      BY <2>1, <2>2 DEF Testers
    <2>4. ~(/\ "cow_brd" \in t.loaded /\ "cow_brd" \notin busy
            /\ ~t.snapshot_fd /\ ~t.pinned /\ t.mounted = "none" /\ "hwm" \notin t.loaded)
      BY <1>1, <1>3, <1>6 DEF Rmmodded
    <2> QED BY <1>6, <2>3, <2>4 DEF DiskRemoved
  <1>7. t.cow_brd_inserted \in BOOLEAN /\ r.ok \in BOOLEAN
    BY <1>3 DEF Testers, Rmmodded
  <1> QED BY <1>4, <1>5, <1>6, <1>7

\* What cleanup_harness leaves of a Tester.
LEMMA CleanupEffect ==
    ASSUME NEW t \in Testers, NEW busy
    PROVE  LET u == cleanup_harness(t, busy)
           IN /\ u \in Testers /\ u.loaded \subseteq t.loaded
              /\ Sound(t) /\ Blame(t, busy) = {} => Clean(u) /\ Sound(u)
  <1> DEFINE a == umount_device(t, busy)
             b == remove_wrapper(a, busy)
             c == remove_cow_brd(b, busy)
             last == IF ~a.ok THEN a ELSE IF ~b.ok THEN b ELSE c
  <1>1. /\ a \in Testers
        /\ a.ok <=> ~(t.disk_mounted /\ ("mount" \in busy \/ t.mounted = "none"))
        /\ a.disk_mounted <=> t.disk_mounted /\ ~a.ok
        /\ a.mounted = IF a.ok /\ t.disk_mounted THEN "none" ELSE t.mounted
        /\ a.loaded = t.loaded /\ a.wrapper_inserted = t.wrapper_inserted
        /\ a.cow_brd_inserted = t.cow_brd_inserted
        /\ a.ioctl_fd = t.ioctl_fd /\ a.pinned = t.pinned
        /\ a.snapshot_fd = t.snapshot_fd
    BY UmountEffect, ZenonT(60)
  <1> HIDE DEF a
  <1>2. Unwrapped(a, busy, b)
    BY <1>1, RemoveWrapperEffect
  <1> HIDE DEF b
  <1>3. DiskRemoved(b, busy, c)
    BY <1>2, RemoveCowBrdEffect DEF Unwrapped
  <1> HIDE DEF c
  <1>4. cleanup_harness(t, busy) = [last EXCEPT !.classes = FALSE]
    BY DEF cleanup_harness, a, b, c
  <1>5. last \in Testers /\ last.loaded \subseteq t.loaded
    BY <1>1, <1>2, <1>3 DEF Unwrapped, DiskRemoved
  <1>6. ASSUME Sound(t), Blame(t, busy) = {}
        PROVE  /\ last.loaded = {} /\ last.mounted = "none" /\ ~last.disk_mounted
               /\ ~last.wrapper_inserted
    <2>1. /\ ~t.ioctl_fd /\ ~t.snapshot_fd /\ ~t.pinned
          /\ ~("mount" \in busy /\ t.disk_mounted) /\ busy \cap t.loaded = {}
      BY <1>6 DEF Blame, Testers
    <2>2. a.ok /\ a.mounted = "none" /\ ~a.disk_mounted
      BY <1>1, <1>6, <2>1 DEF Sound, Testers
    <2>3. b.ok /\ "hwm" \notin b.loaded /\ ~b.wrapper_inserted
      BY <1>1, <1>2, <1>6, <2>1, <2>2 DEF Sound, Testers, Unwrapped
    <2>4. "cow_brd" \notin c.loaded /\ "hwm" \notin c.loaded
      BY <1>1, <1>2, <1>3, <1>6, <2>1, <2>2, <2>3 DEF Sound, Testers, Unwrapped, DiskRemoved
    <2>5. last = c /\ c.loaded \subseteq {"cow_brd", "hwm"}
      BY <1>3, <2>2, <2>3 DEF Testers, DiskRemoved
    <2> HIDE DEF last
    <2> QED BY <1>2, <1>3, <2>2, <2>3, <2>4, <2>5 DEF Unwrapped, DiskRemoved
  <1> HIDE DEF last
  <1> QED BY <1>4, <1>5, <1>6 DEF Testers, Sound, Clean

-----------------------------------------------------------------------------
(* Places in the program *)

\* What stands where, seen from the step the process is at.
LEMMA StepOrder ==
    ASSUME opts \in Options, at \in DOMAIN Programs[opts]
    PROVE  /\ at \in Nat \ {0} /\ 1 \in DOMAIN Programs[opts]
           /\ at = 1 => Step \in {"Init", "insert_cow_brd"} /\ \A s : ~Passed(s)
           /\ Ends(Programs[opts], at) /\ Talks(Programs[opts], at)
           /\ Mounts(Programs[opts], at) /\ Bases(Programs[opts], at, opts.load)
  <1> DEFINE P == Programs[opts]
  <1>1. Ordered(P, at, opts.load)
    BY ProgramOrder, Zenon
  <1>2. at \in Nat \ {0} /\ 1 \in DOMAIN P
    BY ProgramDomain
  <1> QED BY <1>1, <1>2 DEF Ordered, Ends, Step, Passed, Before

\* What a process has behind it after a step.
LEMMA PassedNext ==
    ASSUME opts \in Options, at \in DOMAIN Programs[opts]
    PROVE  /\ opts' = opts /\ at' = at => Step' = Step /\ \A s : Passed(s)' <=> Passed(s)
           /\ at' = 1 /\ opts' \in Options =>
                Step' \in {"Init", "insert_cow_brd"} /\ \A s : ~Passed(s)'
           /\ opts' = opts /\ at' = at + 1 =>
                /\ Step' = Programs[opts][at + 1]
                /\ \A s : Passed(s)' <=> Passed(s) \/ s = Step
  <1>1. at \in Nat \ {0}
    BY StepOrder
  <1>2. ASSUME at' = 1, opts' \in Options PROVE Step' \in {"Init", "insert_cow_brd"} /\ \A s : ~Passed(s)'
    <2>1. 1 \in DOMAIN Programs[opts']
      BY <1>2, ProgramDomain
    <2>2. Ordered(Programs[opts'], 1, opts'.load)
      BY <1>2, <2>1, ProgramOrder
    <2> QED BY <1>2, <2>2 DEF Ordered, Ends, Step, Passed, Before
  <1>3. ASSUME opts' = opts, at' = at + 1
        PROVE  /\ Step' = Programs[opts][at + 1]
               /\ \A s : Passed(s)' <=> Passed(s) \/ s = Step
    BY <1>1, <1>3 DEF Step, Passed, Before
  <1> QED BY <1>2, <1>3 DEF Step, Passed

-----------------------------------------------------------------------------
(* The end of a process *)

\* The troubles there are, and the ways to end.
Troubles == {"busy", "ioctl_fd", "snapshot_fd", "target_dev", "flag_device", "killed"}

\* The steps that end a process.
Ending == Killed \/ Init_inUse \/ insmodFails \/ rmmodFails \/ noFlagDevice
          \/ snapshotSaveFails \/ StepFails \/ emptyLog \/ return \/ SendToGone \/ SocketFails

\* A new Tester has its type and no flag set.
LEMMA NewTesterEffect ==
    ASSUME NEW t \in Testers
    PROVE  LET u == NewTester(t)
           IN /\ u \in Testers /\ u.loaded = t.loaded /\ u.mounted = t.mounted
              /\ ~u.disk_mounted /\ ~u.wrapper_inserted /\ ~u.cow_brd_inserted
  BY DEF NewTester, Testers

\* What the end of a process leaves.
LEMMA ExitEffect ==
    ASSUME NEW how, NEW t \in Testers, Exits(how, t)
    PROVE  /\ status' = how /\ at' = 1 /\ opts' = opts /\ run' = run
           /\ h' \in Testers /\ h'.loaded = t.loaded /\ h'.mounted = t.mounted
           /\ ~h'.disk_mounted /\ ~h'.wrapper_inserted /\ ~h'.cow_brd_inserted
           /\ queue' = <<>> /\ client' = NoClient
           /\ log_data' = 0 /\ rounds' = 0
           /\ cmd' = cmd /\ answer' = answer
  BY NewTesterEffect DEF Exits, process

\* A failing step cleans up, and leaves no trouble only if it leaves nothing.
LEMMA FailEffect ==
    ASSUME NEW t \in Testers, trouble \subseteq Troubles, Fail(t)
    PROVE  \E u \in Testers : /\ Exits("failed", u) /\ trouble' \subseteq Troubles
                              /\ trouble' = {} => trouble = {} /\ (Sound(t) => Clean(u))
  <1>1. PICK busy \in SUBSET InUse : /\ Exits("failed", cleanup_harness(t, busy))
                                     /\ trouble' = trouble \cup Blame(t, busy)
    BY DEF Fail
  <1>2. Blame(t, busy) \subseteq Troubles
    BY DEF Blame, Troubles
  <1>3. cleanup_harness(t, busy) \in Testers
        /\ (Sound(t) /\ Blame(t, busy) = {} => Clean(cleanup_harness(t, busy)))
    BY CleanupEffect
  <1> QED BY <1>1, <1>2, <1>3

\* A Tester whose step has failed.
LEMMA AfterFailedEffect ==
    ASSUME h \in Testers, NEW t \in AfterFailed(Step)
    PROVE  /\ t \in Testers
           /\ (/\ Sound(h)
               /\ Step \in {"mount_device_raw", "mount_wrapper_device"} => h.mounted = "none")
              => Sound(t)
  <1>1. CASE Step \in {"mount_device_raw", "mount_wrapper_device"}
    <2>1. t = mount_device(h, "none", FALSE)
      BY <1>1 DEF AfterFailed
    <2>2. /\ t \in Testers
          /\ t.disk_mounted <=> t.ok
          /\ t.ok <=> FALSE /\ h.mounted = "none"
          /\ t.mounted = IF t.ok THEN "none" ELSE h.mounted
          /\ t.loaded = h.loaded /\ t.wrapper_inserted = h.wrapper_inserted
          /\ t.cow_brd_inserted = h.cow_brd_inserted
      BY <2>1, MountEffect
    <2>3. ~t.disk_mounted /\ t.mounted = h.mounted
      BY <2>2
    <2>4. Sound(h) /\ h.mounted = "none" => Sound(t)
      BY <2>2, <2>3 DEF Sound
    <2> QED BY <1>1, <2>2, <2>4
  <1>2. CASE Step = "remove_wrapper"
    <2>1. t = [h EXCEPT !.ioctl_fd = FALSE]
      BY <1>2 DEF AfterFailed
    <2> QED BY <1>2, <2>1 DEF Sound, Testers
  <1>3. CASE Step = "insert_wrapper"
    <2>1. t = h \/ t = [h EXCEPT !.pinned = @ \/ h.loaded = {"cow_brd"}]
      BY <1>3 DEF AfterFailed, targetNotPut
    <2>2. (h.pinned \/ h.loaded = {"cow_brd"}) \in BOOLEAN
      OBVIOUS
    <2>3. /\ t \in Testers /\ t.loaded = h.loaded /\ t.mounted = h.mounted
          /\ t.disk_mounted = h.disk_mounted /\ t.wrapper_inserted = h.wrapper_inserted
          /\ t.cow_brd_inserted = h.cow_brd_inserted
      BY <2>1, <2>2, ZenonT(60) DEF Testers
    <2> QED BY <1>3, <2>3 DEF Sound
  <1>4. CASE Step \notin {"mount_device_raw", "mount_wrapper_device", "remove_wrapper",
                          "insert_wrapper"}
    <2>1. t = h
      BY <1>4 DEF AfterFailed
    <2> QED BY <2>1
  <1> QED BY <1>1, <1>2, <1>3, <1>4

\* A process ends that way, leaving the machine as u has it.
Leaves(how, u) ==
    /\ Exits(how, u) /\ trouble' \subseteq Troubles
    /\ sock' \in {"none", "live", "stale"}
    /\ CleanInv /\ trouble' = {} => Clean(u)
    /\ disk' \in {disk, Empty} /\ UNCHANGED <<profFile, saved, silent>>
    /\ UNCHANGED <<snapFile, torn>> \/ (snapFile' = 0 /\ torn' = TRUE)

(***************************************************************************)
(* However a process ends, it leaves nothing loaded or mounted, or the     *)
(* trouble is recorded; and the files are as they were or known as torn.   *)
(***************************************************************************)
LEMMA EndingEffect ==
    ASSUME TypeOK, Ending
    PROVE  \E how \in {"failed", "killed", "done"}, u \in Testers : Leaves(how, u)
  <1>0. /\ h \in Testers /\ trouble \subseteq Troubles /\ sock \in {"none", "live", "stale"}
        /\ opts \in Options /\ at \in DOMAIN Programs[opts]
    BY DEF TypeOK, Testers, Troubles
  <1>t. torn \in BOOLEAN
    BY DEF TypeOK
  <1>1. (LeaveSocket \/ Unlink \/ sock' = sock) => sock' \in {"none", "live", "stale"}
    BY <1>0 DEF LeaveSocket, Unlink
  <1>2. CASE Dies
    <2>1. Leaves("killed", h)
      BY <1>0, <1>1, <1>2 DEF Dies, Troubles, Leaves, files
    <2> QED BY <1>0, <2>1
  <1>3. CASE Killed \/ emptyLog \/ SendToGone
    BY <1>2, <1>3 DEF Killed, emptyLog, SendToGone
  <1>4. Ends(Programs[opts], at)
    BY <1>0, StepOrder
  <1>5. CASE Init_inUse \/ insmodFails \/ return
    <2>1. Passed("cleanup_harness") \/ ~Passed("insert_cow_brd")
      BY <1>4, <1>5 DEF Init_inUse, insmodFails, return, At, Ends, Passed, Step
    <2>2. CleanInv /\ trouble = {} => Clean(h)
      BY <2>1 DEF CleanInv
    <2>3. Exits("failed", h) \/ Exits("done", h)
      BY <1>5 DEF Init_inUse, insmodFails, return
    <2>4. trouble' = trouble /\ UNCHANGED <<disk, files>>
      BY <1>5 DEF Init_inUse, insmodFails, return
    <2>5. LeaveSocket \/ Unlink \/ sock' = sock
      BY <1>5 DEF Init_inUse, insmodFails, return
    <2>6. Leaves("failed", h) \/ Leaves("done", h)
      BY <1>0, <1>1, <2>2, <2>3, <2>4, <2>5 DEF Leaves, files
    <2> QED BY <1>0, <2>6
  <1>6. CASE noFlagDevice
    <2>1. Leaves("failed", h)
      BY <1>0, <1>1, <1>6 DEF noFlagDevice, Troubles, Leaves, files
    <2> QED BY <1>0, <2>1
  <1>9. CASE rmmodFails
    <2> DEFINE u == [h EXCEPT !.loaded = @ \cup {"cow_brd"}]
    <2>1. u \in Testers
      BY <1>0 DEF Testers
    <2>2. Exits("failed", u) /\ LeaveSocket /\ disk' = Empty /\ UNCHANGED files
          /\ trouble' = trouble \cup {"busy"}
      BY <1>9 DEF rmmodFails
    <2> HIDE DEF u
    <2>3. Leaves("failed", u)
      BY <1>0, <1>1, <2>2 DEF Troubles, Leaves, files
    <2> QED BY <2>1, <2>3
  <1>7. CASE snapshotSaveFails \/ SocketFails
    <2>1. /\ Fail(h) /\ (LeaveSocket \/ Unlink)
          /\ disk' = disk /\ UNCHANGED <<profFile, saved, silent>>
          /\ UNCHANGED <<snapFile, torn>> \/ (snapFile' = 0 /\ torn' = TRUE)
      BY <1>7, <1>t DEF snapshotSaveFails, SocketFails, files
    <2>2. PICK u \in Testers : /\ Exits("failed", u) /\ trouble' \subseteq Troubles
                               /\ trouble' = {} => trouble = {} /\ (Sound(h) => Clean(u))
      BY <1>0, <2>1, FailEffect
    <2>3. Leaves("failed", u)
      BY <1>1, <2>1, <2>2 DEF CleanInv, Leaves
    <2> QED BY <2>3
  <1>8. CASE StepFails
    <2>1. PICK t \in AfterFailed(Step) : Fail(t)
      BY <1>8 DEF StepFails
    <2>5. LeaveSocket /\ UNCHANGED <<disk, files>>
      BY <1>8 DEF StepFails
    <2>2. t \in Testers /\ (CleanInv /\ trouble = {} => Sound(t))
      <3>1. Step \in {"mount_device_raw", "mount_wrapper_device"} => Step \notin MountSteps
        BY DEF MountSteps, Recording, Logging
      <3> QED BY <1>0, <3>1, AfterFailedEffect DEF CleanInv
    <2>3. PICK u \in Testers : /\ Exits("failed", u) /\ trouble' \subseteq Troubles
                               /\ trouble' = {} => trouble = {} /\ (Sound(t) => Clean(u))
      BY <1>0, <2>1, <2>2, FailEffect
    <2>4. Leaves("failed", u)
      BY <1>1, <2>2, <2>3, <2>5 DEF Leaves, files
    <2> QED BY <2>4
  <1> QED BY <1>3, <1>5, <1>6, <1>7, <1>8, <1>9 DEF Ending

-----------------------------------------------------------------------------
(* The kinds of steps *)

\* main goes on to its next step.
Work == \/ insert_cow_brd \/ openFails \/ load_class \/ update_dirty_expire_time
        \/ format_drive \/ mount_device_raw \/ test_setup \/ setupFails \/ umount
        \/ clone_device \/ log_snapshot_save \/ snapshotNotSaved \/ log_snapshot_load
        \/ snapshotNotLoaded \/ clear_caches \/ insert_wrapper
        \/ mount_wrapper_device \/ get_wrapper_ioctl \/ begin_wrapper_logging \/ test_run \/ get_wrapper_log \/ unwrap
        \/ log_profile_save \/ profileNotSaved \/ log_profile_load \/ roundsDone
        \/ removeDisk \/ cleanup

\* A round of tests.
Round == roundEndsEarly \/ restoreFails \/ snapshotUnmountable \/ check_test

\* A step of a client or of main's end of the socket.
Talk == \/ Init_bind \/ Accept \/ ReadEOF \/ ReadExpected \/ ReadOther \/ SendDone
        \/ \E c \in Client : Connect(c) \/ SendCommand(c) \/ Quit(c)

\* The steps of main that use the socket.
TalkSteps == {"Init", "kBeginLog", "kEndLog", "kRunTests",
              "kBeginLogDone", "kEndLogDone", "kRunTestsDone"}

\* There are no others.
LEMMA NextKinds == Next => Start \/ Ending \/ Work \/ Round \/ Talk
  BY Zenon DEF Next, main, SetUp, Record, Test, Socket, Ending, Work, Round, Talk

\* main at work: it leaves the socket alone.
LEMMA WorkShape ==
    ASSUME Work
    PROVE  /\ status = "running" /\ Step \notin TalkSteps \cup {"return"}
           /\ at' = at + 1 /\ status' = status /\ run' = run /\ opts' = opts
           /\ UNCHANGED socket
  BY DEF Work, insert_cow_brd, openFails, load_class, update_dirty_expire_time,
         format_drive, mount_device_raw, test_setup, setupFails, umount,
         clone_device, log_snapshot_save, snapshotNotSaved, log_snapshot_load,
         snapshotNotLoaded, profileNotSaved, clear_caches,
         insert_wrapper, mount_wrapper_device, get_wrapper_ioctl,
         begin_wrapper_logging, test_run, get_wrapper_log, unwrap,
         log_profile_save, log_profile_load, roundsDone, removeDisk, cleanup,
         At, Continue, TalkSteps, process

\* A round does, too.
LEMMA RoundShape ==
    ASSUME Round
    PROVE  /\ status = "running" /\ Step = "test"
           /\ at' = at /\ status' = status /\ run' = run /\ opts' = opts
           /\ rounds < num_rounds /\ rounds' = rounds + 1
           /\ UNCHANGED <<socket, log_data, disk, files>>
  BY DEF Round, roundEndsEarly, restoreFails, snapshotUnmountable, check_test,
         InRound, NextRound, At, process

\* Talk leaves everything else alone.
LEMMA TalkShape ==
    ASSUME Talk
    PROVE  /\ run' = run /\ opts' = opts /\ h' = h /\ log_data' = log_data /\ rounds' = rounds
           /\ disk' = disk /\ trouble' = trouble /\ UNCHANGED files
           /\ \/ at' = at
              \/ at' = at + 1 /\ status = "running" /\ status' = status /\ Step \in TalkSteps
           /\ status' = status \/ (status' = "spin" /\ status = "running" /\ at' = at)
  <1>1. CASE Init_bind
    BY <1>1 DEF Init_bind, At, TalkSteps, process
  <1>2. CASE Accept \/ ReadEOF \/ ReadOther
    BY <1>2 DEF Accept, ReadEOF, ReadOther, kept, process, Waiting, At
  <1>3. CASE ReadExpected
    BY <1>3 DEF ReadExpected, Waiting, At, kept, process, TalkSteps, Commands
  <1>4. CASE SendDone
    <2>1. PICK c \in Commands : At(Done[c])
      BY <1>4 DEF SendDone
    <2>2. status = "running" /\ Step \in TalkSteps
      BY <2>1, Replies DEF At, TalkSteps
    <2> QED BY <1>4, <2>2 DEF SendDone, kept, process
  <1>5. CASE \E c \in Client : Connect(c) \/ SendCommand(c) \/ Quit(c)
    BY <1>5 DEF Connect, SendCommand, Quit, kept, process
  <1> QED BY <1>1, <1>2, <1>3, <1>4, <1>5 DEF Talk

-----------------------------------------------------------------------------
(* Types *)

\* The images, logs and files there can be.
DataOK ==
    /\ {log_data, snapFile, profFile} \subseteq Garbage..MaxRuns
    /\ {disk, saved} \subseteq [low : Garbage..MaxRuns, high : 0..MaxRuns]
    /\ torn \in BOOLEAN /\ silent \subseteq {"log_snapshot_save", "log_snapshot_load"}

\* What main does keeps the Tester's type.
LEMMA WorkTester ==
    ASSUME h \in Testers, trouble \subseteq Troubles, Work
    PROVE  h' \in Testers /\ trouble' \subseteq Troubles
  <1>1. CASE h' = h /\ trouble' = trouble
    BY <1>1
  <1>2. CASE format_drive \/ test_setup \/ clone_device \/ log_snapshot_save \/ log_snapshot_load
             \/ snapshotNotSaved \/ snapshotNotLoaded \/ profileNotSaved
             \/ clear_caches \/ test_run \/ log_profile_save \/ log_profile_load \/ roundsDone
    BY <1>1, <1>2 DEF format_drive, test_setup, clone_device, log_snapshot_save,
       log_snapshot_load, snapshotNotSaved, snapshotNotLoaded, profileNotSaved,
       clear_caches, test_run, log_profile_save, log_profile_load, roundsDone
  <1>3. CASE insert_cow_brd
    BY <1>3 DEF insert_cow_brd, Testers
  <1>4. CASE insert_wrapper
    BY <1>4 DEF insert_wrapper, Testers
  <1>5. CASE openFails \/ load_class \/ update_dirty_expire_time \/ get_wrapper_ioctl
             \/ begin_wrapper_logging \/ get_wrapper_log
    BY <1>5 DEF openFails, load_class, update_dirty_expire_time, get_wrapper_ioctl,
       begin_wrapper_logging, get_wrapper_log, Testers
  <1>6. CASE mount_device_raw \/ mount_wrapper_device
    <2>1. PICK dev \in {"none", "raw", "hwm", "snapshot"} : h' = mount_device(h, dev, TRUE)
      BY <1>6 DEF mount_device_raw, mount_wrapper_device
    <2>2. h' \in Testers
      BY <2>1, MountEffect
    <2> QED BY <1>6, <2>2 DEF mount_device_raw, mount_wrapper_device
  <1>7. CASE umount
    BY <1>7, UmountEffect DEF umount
  <1>8. CASE unwrap
    <2>1. [h EXCEPT !.ioctl_fd = FALSE] \in Testers
      BY DEF Testers
    <2> QED BY <1>8, <2>1, RemoveWrapperEffect DEF unwrap, Unwrapped
  <1>9. CASE removeDisk
    BY <1>9, RemoveCowBrdEffect DEF removeDisk, DiskRemoved
  <1>10. CASE setupFails \/ cleanup
    <2>1. PICK busy \in SUBSET InUse : h' = cleanup_harness(h, busy) /\ trouble' = trouble \cup Blame(h, busy)
      BY <1>10 DEF setupFails, cleanup
    <2>2. Blame(h, busy) \subseteq Troubles
      BY DEF Blame, Troubles
    <2> QED BY <2>1, <2>2, CleanupEffect
  <1> QED BY <1>2, <1>3, <1>4, <1>5, <1>6, <1>7, <1>8, <1>9, <1>10 DEF Work

\* And those of images, logs and files.
LEMMA WorkData ==
    ASSUME run \in 0..MaxRuns, DataOK, Work
    PROVE  DataOK' /\ rounds' = rounds
  <1>0. /\ {Garbage, 0, run} \subseteq Garbage..MaxRuns
        /\ Empty \in [low : Garbage..MaxRuns, high : 0..MaxRuns]
    BY HarnessAssumption DEF Empty, Garbage
  <1>1. CASE UNCHANGED <<log_data, rounds, disk, files>>
    BY <1>1 DEF DataOK, files
  <1>2. CASE load_class \/ update_dirty_expire_time \/ mount_device_raw \/ test_setup \/ umount
             \/ clone_device \/ clear_caches \/ insert_wrapper \/ mount_wrapper_device
             \/ get_wrapper_ioctl \/ begin_wrapper_logging \/ test_run \/ unwrap \/ roundsDone
             \/ removeDisk
    BY <1>1, <1>2 DEF load_class, update_dirty_expire_time, mount_device_raw, test_setup, umount,
       clone_device, clear_caches, insert_wrapper, mount_wrapper_device,
       get_wrapper_ioctl, begin_wrapper_logging, test_run, unwrap, roundsDone, removeDisk
  <1>3. CASE setupFails \/ cleanup
    BY <1>1, <1>3 DEF setupFails, cleanup
  <1>4. CASE insert_cow_brd \/ openFails
    BY <1>0, <1>4 DEF insert_cow_brd, openFails, DataOK, files
  <1>5. CASE format_drive
    BY <1>0, <1>5 DEF format_drive, DataOK, files
  <1>6. CASE log_snapshot_save \/ snapshotNotSaved
    BY <1>0, <1>6 DEF log_snapshot_save, snapshotNotSaved, DataOK
  <1>7. CASE log_snapshot_load \/ snapshotNotLoaded
    <2>1. \A d \in {disk, Empty} : \A image \in {d.low, Garbage, snapFile} :
            [d EXCEPT !.low = image] \in [low : Garbage..MaxRuns, high : 0..MaxRuns]
      BY <1>0 DEF DataOK
    <2>2. disk' \in [low : Garbage..MaxRuns, high : 0..MaxRuns]
      BY <1>7, <2>1 DEF log_snapshot_load, snapshotNotLoaded
    <2>3. /\ UNCHANGED <<log_data, rounds, snapFile, profFile, saved, torn>>
          /\ silent' \subseteq silent \cup {"log_snapshot_load"}
      BY <1>7 DEF log_snapshot_load, snapshotNotLoaded
    <2> QED BY <2>2, <2>3 DEF DataOK
  <1>8. CASE get_wrapper_log
    BY <1>0, <1>8 DEF get_wrapper_log, DataOK, files
  <1>9. CASE log_profile_save \/ profileNotSaved
    BY <1>0, <1>9 DEF log_profile_save, profileNotSaved, DataOK, files
  <1>10. CASE log_profile_load
    BY <1>10 DEF log_profile_load, DataOK, files
  <1> QED BY <1>2, <1>3, <1>4, <1>5, <1>6, <1>7, <1>8, <1>9, <1>10 DEF Work

\* A round keeps the Tester's type.
LEMMA RoundTester ==
    ASSUME h \in Testers, trouble \subseteq Troubles, Round
    PROVE  h' \in Testers /\ trouble' \subseteq Troubles
  <1>1. CASE roundEndsEarly
    BY <1>1 DEF roundEndsEarly
  <1>2. CASE restoreFails
    BY <1>2 DEF restoreFails, Testers
  <1>3. CASE snapshotUnmountable
    BY <1>3, MountEffect DEF snapshotUnmountable
  <1>4. CASE check_test
    <2> DEFINE t == mount_device(h, "snapshot", TRUE)
    <2>1. PICK busy \in SUBSET InUse : h' = umount_device(t, busy) /\ trouble' = trouble \cup Blame(t, busy)
      BY <1>4 DEF check_test, InUse
    <2>2. t \in Testers
      BY MountEffect
    <2> HIDE DEF t
    <2>3. Blame(t, busy) \subseteq Troubles
      BY DEF Blame, Troubles
    <2> QED BY <2>1, <2>2, <2>3, UmountEffect
  <1> QED BY <1>1, <1>2, <1>3, <1>4 DEF Round

\* The types of the socket and of the clients.
ClientOK ==
    /\ sock \in {"none", "live", "stale"}
    /\ queue \in Seq(Client) /\ client \in Client \cup {NoClient}
    /\ cpc \in [Client -> {"idle", "connected", "sent", "goneUnsent", "goneSent", "hung"}]
    /\ cmd \in [Client -> Commands]
    /\ answer \in [Client -> {"none", "kInvalidCommand"} \cup {Done[c] : c \in Commands}]

\* A reply goes to the client that waits for it.
LEMMA ReplyTypes ==
    ASSUME ClientOK, NEW message \in {"none", "kInvalidCommand"} \cup {Done[c] : c \in Commands},
           Reply(message), sock' \in {"none", "live", "stale"}
    PROVE  ClientOK'
  BY DEF Reply, ClientOK

\* Talk keeps these types.
LEMMA TalkTypes == ASSUME ClientOK, Talk PROVE ClientOK'
  <1>1. CASE Init_bind
    BY <1>1 DEF Init_bind, ClientOK, clients
  <1>2. CASE Accept
    BY <1>2 DEF Accept, ClientOK, clients
  <1>3. CASE ReadEOF \/ ReadExpected
    BY <1>3 DEF ReadEOF, ReadExpected, ClientOK, socket, clients
  <1>4. CASE ReadOther
    <2>1. Reply("kInvalidCommand") /\ sock' = sock
      BY <1>4 DEF ReadOther
    <2> QED BY <2>1, ReplyTypes DEF ClientOK
  <1>5. CASE SendDone
    <2>1. PICK c \in Commands : Reply(Done[c]) /\ sock' = IF c = "kRunTests" THEN "none" ELSE sock
      BY <1>5 DEF SendDone
    <2>2. sock' \in {"none", "live", "stale"}
      BY <2>1 DEF ClientOK
    <2> QED BY <2>1, <2>2, ReplyTypes
  <1>6. ASSUME NEW c \in Client, Connect(c) \/ SendCommand(c) \/ Quit(c) PROVE ClientOK'
    <2>1. CASE Connect(c)
      BY <2>1 DEF Connect, ClientOK
    <2>2. CASE SendCommand(c)
      BY <2>2 DEF SendCommand, ClientOK
    <2>3. CASE Quit(c)
      BY <2>3 DEF Quit, ClientOK
    <2> QED BY <1>6, <2>1, <2>2, <2>3
  <1> QED BY <1>1, <1>2, <1>3, <1>4, <1>5, <1>6 DEF Talk

\* The end of a process keeps them.
LEMMA ExitTypes ==
    ASSUME ClientOK, NEW how, NEW u, Exits(how, u), sock' \in {"none", "live", "stale"}
    PROVE  ClientOK'
  BY DEF Exits, ClientOK

\* The parts of the type invariant.
LEMMA TypeParts ==
    TypeOK <=> /\ run \in 0..MaxRuns /\ opts \in Options /\ at \in DOMAIN Programs[opts]
               /\ status \in {"off", "running", "spin", "done", "failed", "killed"}
               /\ h \in Testers /\ DataOK /\ rounds \in 0..num_rounds /\ ClientOK
               /\ trouble \subseteq Troubles
  BY DEF TypeOK, Testers, DataOK, ClientOK, Troubles

\* The types hold as long as at is in its program, which PlaceInv keeps.
TypeInv == TypeOK /\ PlaceInv

\* Every step keeps them all.
LEMMA TypeStep == TypeInv /\ [Next]_vars => TypeInv'
  <1> SUFFICES ASSUME TypeInv, [Next]_vars PROVE TypeInv'
    OBVIOUS
  <1>0. /\ run \in 0..MaxRuns /\ opts \in Options /\ at \in DOMAIN Programs[opts]
        /\ status \in {"off", "running", "spin", "done", "failed", "killed"}
        /\ h \in Testers /\ DataOK /\ rounds \in 0..num_rounds /\ ClientOK
        /\ trouble \subseteq Troubles
    BY TypeParts DEF TypeInv
  <1>p. TypeOK' <=> (/\ run \in 0..MaxRuns /\ opts \in Options /\ at \in DOMAIN Programs[opts]
               /\ status \in {"off", "running", "spin", "done", "failed", "killed"}
               /\ h \in Testers /\ DataOK /\ rounds \in 0..num_rounds /\ ClientOK
               /\ trouble \subseteq Troubles)'
    BY TypeParts, PTL
  <1>1. /\ at \in Nat \ {0} /\ 1 \in DOMAIN Programs[opts]
        /\ Step # "return" => at + 1 \in DOMAIN Programs[opts]
    BY <1>0, StepOrder DEF Ends, Step
  <1>2. CASE Start
    <2>1. opts' \in Options /\ at' = 1 /\ run' \in 0..MaxRuns /\ status' = "running"
      BY <1>0, <1>2, HarnessAssumption DEF Start
    <2>2. at' \in DOMAIN Programs[opts']
      BY <2>1, ProgramDomain
    <2>3. h' \in Testers
      BY <1>0, <1>2, NewTesterEffect DEF Start
    <2>4. DataOK' /\ ClientOK' /\ rounds' = rounds /\ trouble' = trouble
      BY <1>0, <1>2 DEF Start, DataOK, ClientOK, files, socket, clients
    <2> QED BY <1>0, <1>p, <2>1, <2>2, <2>3, <2>4 DEF TypeInv, PlaceInv
  <1>3. CASE Ending
    <2>1. PICK how \in {"failed", "killed", "done"}, u \in Testers : Leaves(how, u)
      BY <1>3, EndingEffect DEF TypeInv
    <2>2. Exits(how, u)
      BY <2>1 DEF Leaves
    <2>3. /\ status' = how /\ at' = 1 /\ opts' = opts /\ run' = run /\ h' \in Testers
          /\ log_data' = 0 /\ rounds' = 0
      BY <2>2, ExitEffect
    <2>4. ClientOK' /\ trouble' \subseteq Troubles
      BY <1>0, <2>1, <2>2, ExitTypes DEF Leaves
    <2>5. DataOK'
      <3>1. 0 \in Garbage..MaxRuns /\ Empty \in [low : Garbage..MaxRuns, high : 0..MaxRuns]
        BY HarnessAssumption DEF Empty, Garbage
      <3>2. /\ disk' \in {disk, Empty} /\ UNCHANGED <<profFile, saved, silent>>
            /\ UNCHANGED <<snapFile, torn>> \/ (snapFile' = 0 /\ torn' = TRUE)
        BY <2>1 DEF Leaves
      <3> QED BY <1>0, <2>3, <3>1, <3>2 DEF DataOK
    <2>6. 0 \in 0..num_rounds
      BY HarnessAssumption
    <2> QED BY <1>0, <1>1, <1>p, <2>3, <2>4, <2>5, <2>6 DEF TypeInv, PlaceInv
  <1>4. CASE Work
    <2>1. /\ status = "running" /\ Step # "return" /\ at' = at + 1 /\ status' = status
          /\ run' = run /\ opts' = opts /\ UNCHANGED socket
      BY <1>4, WorkShape
    <2>2. h' \in Testers /\ trouble' \subseteq Troubles /\ DataOK' /\ rounds' = rounds
      BY <1>0, <1>4, WorkTester, WorkData
    <2>3. ClientOK'
      BY <1>0, <2>1 DEF ClientOK, socket, clients
    <2> QED BY <1>0, <1>1, <1>p, <2>1, <2>2, <2>3 DEF TypeInv, PlaceInv
  <1>5. CASE Round
    <2>1. /\ status = "running" /\ at' = at /\ status' = status
          /\ run' = run /\ opts' = opts /\ rounds < num_rounds /\ rounds' = rounds + 1
          /\ UNCHANGED <<socket, log_data, disk, files>>
      BY <1>5, RoundShape
    <2>2. h' \in Testers /\ trouble' \subseteq Troubles
      BY <1>0, <1>5, RoundTester
    <2>3. DataOK' /\ ClientOK'
      BY <1>0, <2>1 DEF DataOK, ClientOK, socket, clients, files
    <2>4. rounds' \in 0..num_rounds
      BY <1>0, <2>1, HarnessAssumption
    <2> QED BY <1>0, <1>p, <2>1, <2>2, <2>3, <2>4 DEF TypeInv, PlaceInv
  <1>6. CASE Talk
    <2>1. /\ run' = run /\ opts' = opts /\ h' = h /\ log_data' = log_data /\ rounds' = rounds
          /\ disk' = disk /\ trouble' = trouble /\ UNCHANGED files
          /\ \/ at' = at
             \/ at' = at + 1 /\ status = "running" /\ status' = status /\ Step \in TalkSteps
          /\ status' = status \/ (status' = "spin" /\ status = "running" /\ at' = at)
      BY <1>6, TalkShape
    <2>2. DataOK' /\ ClientOK'
      BY <1>0, <1>6, <2>1, TalkTypes DEF DataOK, files
    <2>3. at' \in DOMAIN Programs[opts]
      BY <1>0, <1>1, <2>1 DEF TalkSteps
    <2> QED BY <1>0, <1>p, <2>1, <2>2, <2>3 DEF TypeInv, PlaceInv
  <1>7. CASE UNCHANGED vars
    <2>1. UNCHANGED <<run, opts, at, status, h, rounds, trouble>> /\ DataOK' /\ ClientOK'
      BY <1>0, <1>7 DEF vars, process, files, socket, clients, DataOK, ClientOK
    <2> QED BY <1>0, <1>p, <2>1 DEF TypeInv, PlaceInv
  <1> QED BY <1>2, <1>3, <1>4, <1>5, <1>6, <1>7, NextKinds

\* They hold at the start.
LEMMA TypeInit == Init => TypeInv
  <1> SUFFICES ASSUME Init PROVE TypeInv
    OBVIOUS
  <1>1. opts \in Options
    BY HarnessAssumption DEF Init
  <1>2. at \in DOMAIN Programs[opts]
    BY <1>1, ProgramDomain DEF Init
  <1>3. h \in Testers
    BY DEF Init, NewTester, Boot, Testers
  <1>4. DataOK /\ rounds \in 0..num_rounds /\ run \in 0..MaxRuns
    <2>1. 0 \in 0..MaxRuns /\ 0 \in 0..num_rounds /\ 0 \in Garbage..MaxRuns
      BY HarnessAssumption DEF Garbage
    <2>2. Empty \in [low : Garbage..MaxRuns, high : 0..MaxRuns]
      BY <2>1 DEF Empty
    <2>3. /\ log_data = 0 /\ rounds = 0 /\ run = 0 /\ snapFile = 0 /\ profFile = 0
          /\ disk = Empty /\ saved = Empty /\ torn = FALSE /\ silent = {}
      BY DEF Init
    <2> QED BY <2>1, <2>2, <2>3 DEF DataOK
  <1>5. ClientOK
    BY DEF Init, ClientOK, Commands
  <1> QED BY <1>1, <1>2, <1>3, <1>4, <1>5, TypeParts DEF Init, TypeInv, PlaceInv, Troubles

(***************************************************************************)
(* Every variable of the harness keeps its type.                           *)
(***************************************************************************)
THEOREM TypeCorrect == Spec => []TypeOK
  <1>1. TypeInv => TypeOK
    BY DEF TypeInv
  <1> QED BY <1>1, TypeInit, TypeStep, PTL DEF Spec

-----------------------------------------------------------------------------
(* What is loaded and mounted *)

\* main at work keeps the flags right, and mounts only where it says so.
LEMMA WorkClean ==
    ASSUME h \in Testers, trouble = {}, Sound(h), trouble' = {}, Work,
           Step \notin MountSteps => h.mounted = "none"
    PROVE  /\ Sound(h')
           /\ h'.mounted \in {h.mounted, "none"} \/ Step \in {"mount_device_raw", "mount_wrapper_device"}
           /\ Step = "umount_device" => h'.mounted = "none"
           /\ Step = "cleanup_harness" => Clean(h')
  <1>1. CASE format_drive \/ test_setup \/ clone_device \/ log_snapshot_save \/ log_snapshot_load
             \/ snapshotNotSaved \/ snapshotNotLoaded \/ profileNotSaved
             \/ clear_caches \/ test_run \/ log_profile_save \/ log_profile_load \/ roundsDone
    <2>1. h' = h /\ Step \notin {"umount_device", "cleanup_harness"}
      BY <1>1 DEF format_drive, test_setup, clone_device, log_snapshot_save, log_snapshot_load,
         snapshotNotSaved, snapshotNotLoaded, profileNotSaved,
         clear_caches, test_run, log_profile_save, log_profile_load, roundsDone, At
    <2> QED BY <2>1
  <1>2. CASE insert_cow_brd
    <2>1. h' = [h EXCEPT !.loaded = @ \cup {"cow_brd"}, !.cow_brd_inserted = TRUE, !.cow_brd_fd = TRUE]
          /\ Step = "insert_cow_brd"
      BY <1>2 DEF insert_cow_brd, At
    <2> QED BY <2>1 DEF Sound, Testers
  <1>3. CASE insert_wrapper
    <2>1. h' = [h EXCEPT !.loaded = @ \cup {"hwm"}, !.wrapper_inserted = TRUE]
          /\ Step = "insert_wrapper"
      BY <1>3 DEF insert_wrapper, At
    <2> QED BY <2>1 DEF Sound, Testers
  <1>4. CASE openFails \/ load_class \/ update_dirty_expire_time \/ get_wrapper_ioctl
             \/ begin_wrapper_logging \/ get_wrapper_log
    <2>1. /\ h'.loaded = h.loaded /\ h'.mounted = h.mounted /\ h'.disk_mounted = h.disk_mounted
          /\ h'.wrapper_inserted = h.wrapper_inserted
          /\ h'.cow_brd_inserted = h.cow_brd_inserted \/ h'.cow_brd_inserted = TRUE
      BY <1>4 DEF openFails, load_class, update_dirty_expire_time, get_wrapper_ioctl,
         begin_wrapper_logging, get_wrapper_log, Testers
    <2>2. Step \notin {"umount_device", "cleanup_harness"}
      BY <1>4 DEF openFails, load_class, update_dirty_expire_time, get_wrapper_ioctl,
         begin_wrapper_logging, get_wrapper_log, At
    <2> QED BY <2>1, <2>2 DEF Sound
  <1>5. CASE mount_device_raw \/ mount_wrapper_device
    <2>1. PICK dev \in {"none", "raw", "hwm", "snapshot"} :
            dev # "none" /\ h' = mount_device(h, dev, TRUE) /\ h'.ok
      BY <1>5 DEF mount_device_raw, mount_wrapper_device
    <2>2. Step \in {"mount_device_raw", "mount_wrapper_device"}
      BY <1>5 DEF mount_device_raw, mount_wrapper_device, At
    <2>3. /\ h'.disk_mounted <=> h'.ok
          /\ h'.mounted = IF h'.ok THEN dev ELSE h.mounted
          /\ h'.loaded = h.loaded /\ h'.wrapper_inserted = h.wrapper_inserted
          /\ h'.cow_brd_inserted = h.cow_brd_inserted
      BY <2>1 DEF mount_device, Testers
    <2> QED BY <2>1, <2>2, <2>3 DEF Sound
  <1>6. CASE umount
    <2>1. h' = umount_device(h, {}) /\ Step = "umount_device"
      BY <1>6 DEF umount, At
    <2>2. /\ h'.ok <=> ~(h.disk_mounted /\ h.mounted = "none")
          /\ h'.disk_mounted <=> h.disk_mounted /\ ~h'.ok
          /\ h'.mounted = IF h'.ok /\ h.disk_mounted THEN "none" ELSE h.mounted
          /\ h'.loaded = h.loaded /\ h'.wrapper_inserted = h.wrapper_inserted
          /\ h'.cow_brd_inserted = h.cow_brd_inserted
      BY <2>1, UmountEffect
    <2>3. h'.ok /\ ~h'.disk_mounted /\ h'.mounted = "none"
      BY <2>2 DEF Sound
    <2> QED BY <2>1, <2>2, <2>3 DEF Sound
  <1>7. CASE unwrap
    <2> DEFINE t == [h EXCEPT !.ioctl_fd = FALSE]
    <2>1. /\ t \in Testers /\ t.loaded = h.loaded /\ t.mounted = h.mounted
          /\ t.disk_mounted = h.disk_mounted /\ t.wrapper_inserted = h.wrapper_inserted
          /\ t.cow_brd_inserted = h.cow_brd_inserted
      BY DEF Testers
    <2>2. h' = remove_wrapper(t, {}) /\ h'.ok /\ Step = "remove_wrapper"
      BY <1>7 DEF unwrap, At
    <2> HIDE DEF t
    <2>3. /\ h'.loaded = IF h'.ok /\ t.wrapper_inserted THEN t.loaded \ {"hwm"} ELSE t.loaded
          /\ h'.wrapper_inserted <=> t.wrapper_inserted /\ ~h'.ok
          /\ h'.mounted = t.mounted /\ h'.disk_mounted = t.disk_mounted
          /\ h'.cow_brd_inserted = t.cow_brd_inserted
      <3>1. Unwrapped(t, {}, h')
        BY <2>1, <2>2, RemoveWrapperEffect
      <3> QED BY <3>1 DEF Unwrapped
    <2> QED BY <2>1, <2>2, <2>3 DEF Sound
  <1>8. CASE removeDisk
    <2>1. Step = "remove_cow_brd" /\ \E busy \in SUBSET InUse : h' = remove_cow_brd(h, busy)
      BY <1>8 DEF removeDisk, At, InUse
    <2>2. /\ h'.loaded \subseteq h.loaded
          /\ "hwm" \in h'.loaded <=> "hwm" \in h.loaded
          /\ "cow_brd" \in h'.loaded => ~h.cow_brd_inserted \/ h'.cow_brd_inserted
          /\ h'.mounted = h.mounted /\ h'.disk_mounted = h.disk_mounted
          /\ h'.wrapper_inserted = h.wrapper_inserted
      BY <2>1, RemoveCowBrdEffect DEF DiskRemoved
    <2> QED BY <2>1, <2>2 DEF Sound
  <1>9. CASE setupFails \/ cleanup
    <2>1. PICK busy \in SUBSET InUse : h' = cleanup_harness(h, busy) /\ trouble' = trouble \cup Blame(h, busy)
      BY <1>9 DEF setupFails, cleanup
    <2>2. Step \in {"test_setup", "cleanup_harness"}
      BY <1>9 DEF setupFails, cleanup, At
    <2>3. Clean(h') /\ Sound(h')
      BY <2>1, CleanupEffect
    <2> QED BY <2>2, <2>3 DEF Clean
  <1> QED BY <1>1, <1>2, <1>3, <1>4, <1>5, <1>6, <1>7, <1>8, <1>9 DEF Work

\* So does a round.
LEMMA RoundClean ==
    ASSUME h \in Testers, trouble' = {}, trouble = {} => Sound(h) /\ h.mounted = "none", Round
    PROVE  trouble = {} /\ Sound(h') /\ h'.mounted = "none"
  <1>1. CASE roundEndsEarly
    BY <1>1 DEF roundEndsEarly
  <1>2. CASE restoreFails
    <2>1. h' = [h EXCEPT !.snapshot_fd = TRUE] /\ trouble' = trouble
      BY <1>2 DEF restoreFails
    <2> QED BY <2>1 DEF Sound, Testers
  <1>3. CASE snapshotUnmountable
    <2>1. h' = mount_device(h, "snapshot", FALSE) /\ trouble' = trouble
      BY <1>3 DEF snapshotUnmountable
    <2>2. /\ h'.ok <=> FALSE /\ h.mounted = "none"
          /\ h'.disk_mounted <=> h'.ok
          /\ h'.mounted = IF h'.ok THEN "snapshot" ELSE h.mounted
          /\ h'.loaded = h.loaded /\ h'.wrapper_inserted = h.wrapper_inserted
          /\ h'.cow_brd_inserted = h.cow_brd_inserted
      BY <2>1, MountEffect
    <2> QED BY <2>1, <2>2 DEF Sound
  <1>4. CASE check_test
    <2> DEFINE t == mount_device(h, "snapshot", TRUE)
    <2>1. PICK busy \in SUBSET InUse : h' = umount_device(t, busy) /\ trouble' = trouble \cup Blame(t, busy)
      BY <1>4 DEF check_test, InUse
    <2>2. t.ok
      BY <1>4 DEF check_test
    <2>3. /\ t \in Testers
          /\ t.disk_mounted <=> t.ok
          /\ t.mounted = IF t.ok THEN "snapshot" ELSE h.mounted
          /\ t.loaded = h.loaded /\ t.wrapper_inserted = h.wrapper_inserted
          /\ t.cow_brd_inserted = h.cow_brd_inserted
      BY MountEffect, Zenon
    <2> HIDE DEF t
    <2>4. trouble = {} /\ "mount" \notin busy
      BY <2>1, <2>2, <2>3 DEF Blame
    <2>5. /\ h'.ok <=> ~(t.disk_mounted /\ ("mount" \in busy \/ t.mounted = "none"))
          /\ h'.disk_mounted <=> t.disk_mounted /\ ~h'.ok
          /\ h'.mounted = IF h'.ok /\ t.disk_mounted THEN "none" ELSE t.mounted
          /\ h'.loaded = t.loaded /\ h'.wrapper_inserted = t.wrapper_inserted
          /\ h'.cow_brd_inserted = t.cow_brd_inserted
      BY <2>1, <2>3, UmountEffect
    <2>6. h'.ok /\ ~h'.disk_mounted /\ h'.mounted = "none"
      BY <2>2, <2>3, <2>4, <2>5
    <2> QED BY <2>3, <2>4, <2>5, <2>6 DEF Sound
  <1> QED BY <1>1, <1>2, <1>3, <1>4 DEF Round

\* Trouble is never forgotten.
LEMMA TroubleStays == ASSUME Work PROVE trouble \subseteq trouble'
  BY DEF Work, insert_cow_brd, openFails, load_class, update_dirty_expire_time,
         format_drive, mount_device_raw, test_setup, setupFails, umount,
         clone_device, log_snapshot_save, snapshotNotSaved, log_snapshot_load,
         snapshotNotLoaded, profileNotSaved, clear_caches,
         insert_wrapper, mount_wrapper_device, get_wrapper_ioctl,
         begin_wrapper_logging, test_run, get_wrapper_log, unwrap,
         log_profile_save, log_profile_load, roundsDone, removeDisk, cleanup

\* Every step leaves the machine clean where it should be, or there is trouble.
LEMMA CleanStep == TypeInv /\ CleanInv /\ [Next]_vars => CleanInv'
  <1> SUFFICES ASSUME TypeInv, CleanInv, [Next]_vars, trouble' = {}
               PROVE  /\ Sound(h')
                      /\ ~Passed("insert_cow_brd")' \/ Passed("cleanup_harness")' => Clean(h')
                      /\ Step' \notin MountSteps => h'.mounted = "none"
    BY DEF CleanInv
  <1>0. /\ opts \in Options /\ at \in DOMAIN Programs[opts] /\ h \in Testers
        /\ TypeOK /\ PlaceInv
    BY TypeParts DEF TypeInv
  <1>1. /\ at = 1 => \A s : ~Passed(s)
        /\ Ends(Programs[opts], at) /\ Mounts(Programs[opts], at)
    BY <1>0, StepOrder
  <1>2. /\ Step # "return" => at + 1 \in DOMAIN Programs[opts]
        /\ Step \in {"Init", "insert_cow_brd"} <=> ~Passed("insert_cow_brd")
        /\ Passed("cleanup_harness") <=> Step \in {"kRunTestsDone", "return"}
    BY <1>1 DEF Ends, Step, Passed
  <1>3. CASE Start
    <2>1. PlaceInv /\ status \notin {"running", "spin"} /\ trouble' = trouble
      BY <1>0, <1>3 DEF Start
    <2>2. Clean(h)
      BY <1>1, <2>1 DEF PlaceInv, CleanInv
    <2>3. /\ h' \in Testers /\ h'.loaded = h.loaded /\ h'.mounted = h.mounted
          /\ ~h'.disk_mounted /\ ~h'.wrapper_inserted /\ ~h'.cow_brd_inserted
      BY <1>0, <1>3, NewTesterEffect DEF Start
    <2> QED BY <2>2, <2>3 DEF Clean, Sound
  <1>4. CASE Ending
    <2>1. PICK how \in {"failed", "killed", "done"}, u \in Testers : Leaves(how, u)
      BY <1>0, <1>4, EndingEffect
    <2>2. Exits(how, u) /\ Clean(u)
      BY <2>1 DEF Leaves
    <2>3. /\ h'.loaded = u.loaded /\ h'.mounted = u.mounted
          /\ ~h'.disk_mounted /\ ~h'.wrapper_inserted /\ ~h'.cow_brd_inserted
      BY <2>2, ExitEffect
    <2> QED BY <2>2, <2>3 DEF Clean, Sound
  <1>5. CASE Work
    <2>1. /\ Step \notin TalkSteps \cup {"return"} /\ at' = at + 1 /\ opts' = opts
      BY <1>5, WorkShape
    <2>2. /\ Step' = Programs[opts][at + 1]
          /\ \A s : Passed(s)' <=> Passed(s) \/ s = Step
      BY <1>0, <2>1, PassedNext
    <2>3. trouble = {}
      BY <1>5, TroubleStays
    <2>4. /\ Sound(h')
          /\ h'.mounted \in {h.mounted, "none"} \/ Step \in {"mount_device_raw", "mount_wrapper_device"}
          /\ Step = "umount_device" => h'.mounted = "none"
          /\ Step = "cleanup_harness" => Clean(h')
      BY <1>0, <1>5, <2>3, WorkClean DEF CleanInv
    <2>5. Passed("insert_cow_brd")' /\ (Passed("cleanup_harness")' => Step = "cleanup_harness")
      BY <1>2, <2>1, <2>2 DEF TalkSteps
    <2>6. Step' \notin MountSteps =>
            Step \notin (MountSteps \ {"umount_device"}) \cup {"mount_device_raw", "mount_wrapper_device"}
      BY <1>1, <1>2, <2>1, <2>2 DEF Mounts, Step
    <2>7. ASSUME Step' \notin MountSteps PROVE h'.mounted = "none"
      <3>1. CASE Step = "umount_device"
        BY <2>4, <3>1
      <3>2. CASE Step # "umount_device"
        BY <2>3, <2>4, <2>6, <2>7, <3>2 DEF CleanInv
      <3> QED BY <3>1, <3>2
    <2> QED BY <2>4, <2>5, <2>7
  <1>6. CASE Round
    <2>1. Step = "test" /\ at' = at /\ opts' = opts
      BY <1>6, RoundShape
    <2>2. Step' = Step /\ \A s : Passed(s)' <=> Passed(s)
      BY <1>0, <2>1, PassedNext
    <2>3. Step \notin MountSteps
      BY <2>1 DEF MountSteps, Recording, Logging
    <2>4. trouble = {} /\ Sound(h') /\ h'.mounted = "none"
      BY <1>0, <1>6, <2>3, RoundClean DEF CleanInv
    <2> QED BY <1>2, <2>1, <2>2, <2>4
  <1>7. CASE Talk
    <2>1. /\ opts' = opts /\ h' = h /\ trouble' = trouble
          /\ at' = at \/ (at' = at + 1 /\ Step \in TalkSteps)
      BY <1>7, TalkShape
    <2>2. CASE at' = at
      BY <1>0, <2>1, <2>2, PassedNext DEF CleanInv
    <2>3. CASE at' = at + 1 /\ Step \in TalkSteps
      <3>1. /\ Step' = Programs[opts][at + 1]
            /\ \A s : Passed(s)' <=> Passed(s) \/ s = Step
        BY <1>0, <2>1, <2>3, PassedNext
      <3>2. Step' \notin MountSteps => Step \notin MountSteps
        BY <1>1, <1>2, <2>3, <3>1 DEF Mounts, Step, TalkSteps
      <3>3. Passed("cleanup_harness")' => Passed("cleanup_harness")
        BY <2>3, <3>1 DEF TalkSteps
      <3> QED BY <2>1, <3>1, <3>2, <3>3 DEF CleanInv
    <2> QED BY <2>1, <2>2, <2>3
  <1>8. CASE UNCHANGED vars
    <2>1. UNCHANGED <<opts, at, h, trouble>>
      BY <1>8 DEF vars, process
    <2> QED BY <1>0, <2>1, PassedNext DEF CleanInv
  <1> QED BY <1>3, <1>4, <1>5, <1>6, <1>7, <1>8, NextKinds

-----------------------------------------------------------------------------
(* The wrapper while the workload runs *)

\* What main's work does to the wrapper.
LEMMA WorkRecord ==
    ASSUME h \in Testers, Work
    PROVE  /\ Step = "mount_wrapper_device" => h'.mounted = "hwm"
           /\ Step = "begin_wrapper_logging" => h'.log_on
           /\ Step \in Recording => h'.mounted = h.mounted
           /\ Step \in Logging \ {"get_wrapper_log"} => h'.log_on = h.log_on
           /\ Step = "insert_wrapper" => h'.wrapper_inserted
           /\ \/ Step \in {"remove_wrapper", "test_setup", "cleanup_harness", "insert_wrapper"}
              \/ h'.wrapper_inserted = h.wrapper_inserted
           /\ Step = "remove_wrapper" /\ h.wrapper_inserted => ~h'.log_on /\ "hwm" \notin h'.loaded
           /\ Step = "log_profile_save" => h' = h
  <1> USE DEF Recording, Logging
  <1>1. CASE format_drive \/ test_setup \/ clone_device \/ log_snapshot_save \/ log_snapshot_load
             \/ snapshotNotSaved \/ snapshotNotLoaded \/ profileNotSaved
             \/ clear_caches \/ test_run \/ log_profile_save \/ log_profile_load \/ roundsDone
    <2>1. h' = h /\ Step \notin {"mount_wrapper_device", "begin_wrapper_logging", "insert_wrapper",
                                 "remove_wrapper"}
      BY <1>1 DEF format_drive, test_setup, clone_device, log_snapshot_save, log_snapshot_load,
         snapshotNotSaved, snapshotNotLoaded, profileNotSaved,
         clear_caches, test_run, log_profile_save, log_profile_load, roundsDone, At
    <2> QED BY <2>1
  <1>2. CASE insert_cow_brd \/ openFails \/ load_class \/ update_dirty_expire_time
    <2>1. Step \in {"insert_cow_brd", "load_class", "update_dirty_expire_time"}
      BY <1>2 DEF insert_cow_brd, openFails, load_class, update_dirty_expire_time, At
    <2>2. h'.wrapper_inserted = h.wrapper_inserted
      BY <1>2 DEF insert_cow_brd, openFails, load_class, update_dirty_expire_time, Testers
    <2> QED BY <2>1, <2>2
  <1>3. CASE insert_wrapper
    <2>1. Step = "insert_wrapper" /\ h'.wrapper_inserted
      BY <1>3 DEF insert_wrapper, At, Testers
    <2> QED BY <2>1
  <1>4. CASE mount_device_raw \/ mount_wrapper_device \/ umount
    <2>1. CASE mount_device_raw
      BY <2>1, MountEffect DEF mount_device_raw, At
    <2>2. CASE mount_wrapper_device
      <3>1. h' = mount_device(h, "hwm", TRUE) /\ h'.ok /\ Step = "mount_wrapper_device"
        BY <2>2 DEF mount_wrapper_device, At
      <3>2. /\ h'.mounted = IF h'.ok THEN "hwm" ELSE h.mounted
            /\ h'.wrapper_inserted = h.wrapper_inserted
        BY <3>1, MountEffect
      <3> QED BY <3>1, <3>2
    <2>3. CASE umount
      BY <2>3, UmountEffect DEF umount, At
    <2> QED BY <1>4, <2>1, <2>2, <2>3
  <1>5. CASE get_wrapper_ioctl \/ begin_wrapper_logging \/ get_wrapper_log
    <2>1. h'.mounted = h.mounted /\ h'.wrapper_inserted = h.wrapper_inserted
      BY <1>5 DEF get_wrapper_ioctl, begin_wrapper_logging, get_wrapper_log, Testers
    <2>2. /\ Step \in {"get_wrapper_ioctl", "begin_wrapper_logging", "get_wrapper_log"}
          /\ Step = "begin_wrapper_logging" => h'.log_on
      BY <1>5 DEF get_wrapper_ioctl, begin_wrapper_logging, get_wrapper_log, At, Testers
    <2> QED BY <2>1, <2>2
  <1>6. CASE unwrap
    <2> DEFINE t == [h EXCEPT !.ioctl_fd = FALSE]
    <2>1. t \in Testers /\ t.wrapper_inserted = h.wrapper_inserted /\ t.loaded = h.loaded
      BY DEF Testers
    <2>2. h' = remove_wrapper(t, {}) /\ h'.ok /\ Step = "remove_wrapper"
      BY <1>6 DEF unwrap, At
    <2> HIDE DEF t
    <2>3. /\ h'.loaded = IF h'.ok /\ t.wrapper_inserted THEN t.loaded \ {"hwm"} ELSE t.loaded
          /\ h'.log_on <=> t.log_on /\ ~(h'.ok /\ t.wrapper_inserted)
      <3>1. Unwrapped(t, {}, h')
        BY <2>1, <2>2, RemoveWrapperEffect
      <3> QED BY <3>1 DEF Unwrapped
    <2> QED BY <2>1, <2>2, <2>3
  <1>7. CASE removeDisk
    BY <1>7, RemoveCowBrdEffect DEF removeDisk, At, DiskRemoved
  <1>8. CASE setupFails \/ cleanup
    BY <1>8 DEF setupFails, cleanup, At
  <1> QED BY <1>1, <1>2, <1>3, <1>4, <1>5, <1>6, <1>7, <1>8 DEF Work

\* A round leaves the wrapper alone.
LEMMA RoundKeeps ==
    ASSUME h \in Testers, Round
    PROVE  h'.wrapper_inserted = h.wrapper_inserted
  <1>1. CASE roundEndsEarly
    BY <1>1 DEF roundEndsEarly
  <1>2. CASE restoreFails
    BY <1>2 DEF restoreFails, Testers
  <1>3. CASE snapshotUnmountable
    BY <1>3, MountEffect DEF snapshotUnmountable
  <1>4. CASE check_test
    <2> DEFINE t == mount_device(h, "snapshot", TRUE)
    <2>1. PICK busy \in SUBSET InUse : h' = umount_device(t, busy)
      BY <1>4 DEF check_test, InUse
    <2>2. t \in Testers /\ t.wrapper_inserted = h.wrapper_inserted
      BY MountEffect
    <2> HIDE DEF t
    <2> QED BY <2>1, <2>2, UmountEffect
  <1> QED BY <1>1, <1>2, <1>3, <1>4 DEF Round

\* Every step keeps the wrapper where the workload needs it.
LEMMA RecordStep == TypeInv /\ RecordInv /\ [Next]_vars => RecordInv'
  <1> SUFFICES ASSUME TypeInv, RecordInv, [Next]_vars PROVE RecordInv'
    OBVIOUS
  <1>0. /\ opts \in Options /\ at \in DOMAIN Programs[opts] /\ h \in Testers /\ TypeOK
    BY TypeParts DEF TypeInv
  <1>1. Ends(Programs[opts], at) /\ Mounts(Programs[opts], at)
    BY <1>0, StepOrder
  <1>2. /\ Step # "return" => at + 1 \in DOMAIN Programs[opts]
        /\ Step = "remove_wrapper" => Passed("insert_wrapper") /\ ~Passed("remove_wrapper")
        /\ Step \in {"test_setup", "cleanup_harness"} /\ Passed("insert_wrapper") =>
             Passed("remove_wrapper")
    BY <1>1 DEF Ends, Mounts, Step, Passed
  <1>3. ASSUME at' = at + 1, opts' = opts, Step # "return"
        PROVE  /\ Step' \in Recording => Step \in Recording \cup {"mount_wrapper_device"}
               /\ Step' \in Logging => Step \in (Logging \ {"get_wrapper_log"}) \cup {"begin_wrapper_logging"}
               /\ Step' \in {"log_profile_save", "kEndLogDone"} =>
                    Step \in {"remove_wrapper", "log_profile_save"}
               /\ \A s : Passed(s)' <=> Passed(s) \/ s = Step
    <2>1. /\ Step' = Programs[opts][at + 1]
          /\ \A s : Passed(s)' <=> Passed(s) \/ s = Step
      BY <1>0, <1>3, PassedNext
    <2> QED BY <1>1, <1>2, <1>3, <2>1 DEF Mounts, Step
  <1>4. CASE at' = 1 /\ opts' \in Options
    <2>1. Step' \in {"Init", "insert_cow_brd"} /\ \A s : ~Passed(s)'
      BY <1>0, <1>4, PassedNext
    <2> QED BY <2>1 DEF RecordInv, Recording, Logging
  <1>5. CASE Start
    BY <1>4, <1>5 DEF Start
  <1>6. CASE Ending
    <2>1. PICK how \in {"failed", "killed", "done"}, u \in Testers : Leaves(how, u)
      BY <1>0, <1>6, EndingEffect
    <2>2. at' = 1 /\ opts' = opts
      BY <2>1, ExitEffect DEF Leaves
    <2> QED BY <1>0, <1>4, <2>2
  <1>7. CASE Work
    <2>1. Step # "return" /\ at' = at + 1 /\ opts' = opts
      BY <1>7, WorkShape
    <2>2. /\ Step' \in Recording => Step \in Recording \cup {"mount_wrapper_device"}
          /\ Step' \in Logging => Step \in (Logging \ {"get_wrapper_log"}) \cup {"begin_wrapper_logging"}
          /\ Step' \in {"log_profile_save", "kEndLogDone"} =>
               Step \in {"remove_wrapper", "log_profile_save"}
          /\ \A s : Passed(s)' <=> Passed(s) \/ s = Step
      BY <1>3, <2>1
    <2>3. /\ Step = "mount_wrapper_device" => h'.mounted = "hwm"
          /\ Step = "begin_wrapper_logging" => h'.log_on
          /\ Step \in Recording => h'.mounted = h.mounted
          /\ Step \in Logging \ {"get_wrapper_log"} => h'.log_on = h.log_on
          /\ Step = "insert_wrapper" => h'.wrapper_inserted
          /\ \/ Step \in {"remove_wrapper", "test_setup", "cleanup_harness", "insert_wrapper"}
             \/ h'.wrapper_inserted = h.wrapper_inserted
          /\ Step = "remove_wrapper" /\ h.wrapper_inserted => ~h'.log_on /\ "hwm" \notin h'.loaded
          /\ Step = "log_profile_save" => h' = h
      BY <1>0, <1>7, WorkRecord
    <2>4. Step' \in Recording => h'.mounted = "hwm"
      BY <2>2, <2>3 DEF RecordInv
    <2>5. Step' \in Logging => h'.log_on
      BY <2>2, <2>3 DEF RecordInv
    <2>6. Passed("insert_wrapper")' /\ ~Passed("remove_wrapper")' => h'.wrapper_inserted
      BY <1>2, <2>2, <2>3 DEF RecordInv
    <2>7. Step' \in {"log_profile_save", "kEndLogDone"} => ~h'.log_on /\ "hwm" \notin h'.loaded
      BY <1>2, <2>2, <2>3 DEF RecordInv
    <2> QED BY <2>4, <2>5, <2>6, <2>7 DEF RecordInv
  <1>8. CASE Round
    <2>1. Step = "test" /\ at' = at /\ opts' = opts
      BY <1>8, RoundShape
    <2>2. Step' = Step /\ \A s : Passed(s)' <=> Passed(s)
      BY <1>0, <2>1, PassedNext
    <2>3. h'.wrapper_inserted = h.wrapper_inserted
      BY <1>0, <1>8, RoundKeeps
    <2> QED BY <2>1, <2>2, <2>3 DEF RecordInv, Recording, Logging
  <1>9. CASE UNCHANGED <<opts, at, h>>
    BY <1>0, <1>9, PassedNext DEF RecordInv
  <1>10. CASE Talk
    <2>1. /\ opts' = opts /\ h' = h
          /\ at' = at \/ (at' = at + 1 /\ Step \in TalkSteps)
      BY <1>10, TalkShape
    <2>2. CASE at' = at + 1 /\ Step \in TalkSteps
      <3>1. /\ Step' \in Recording => Step \in Recording \cup {"mount_wrapper_device"}
            /\ Step' \in Logging => Step \in (Logging \ {"get_wrapper_log"}) \cup {"begin_wrapper_logging"}
            /\ Step' \in {"log_profile_save", "kEndLogDone"} =>
                 Step \in {"remove_wrapper", "log_profile_save"}
            /\ \A s : Passed(s)' <=> Passed(s) \/ s = Step
        BY <1>3, <2>1, <2>2 DEF TalkSteps
      <3> QED BY <2>1, <2>2, <3>1 DEF RecordInv, TalkSteps
    <2> QED BY <1>9, <2>1, <2>2
  <1>11. CASE UNCHANGED vars
    BY <1>9, <1>11 DEF vars, process
  <1> QED BY <1>5, <1>6, <1>7, <1>8, <1>10, <1>11, NextKinds

-----------------------------------------------------------------------------
(* Images and logs *)

\* What main's work does to the disk, the log and the files.
LEMMA WorkBase ==
    ASSUME Work
    PROVE  /\ Step \notin {"insert_cow_brd", "format_drive", "log_snapshot_load"} => disk' = disk
           /\ Step = "log_snapshot_load" =>
                disk'.low = snapFile \/ "log_snapshot_load" \in silent'
           /\ IF Step = "log_snapshot_save"
              THEN torn' = TRUE /\ (snapFile' = disk.low \/ "log_snapshot_save" \in silent')
              ELSE snapFile' = snapFile /\ ("log_snapshot_save" \in silent' <=> "log_snapshot_save" \in silent)
           /\ Step # "log_snapshot_load" =>
                ("log_snapshot_load" \in silent' <=> "log_snapshot_load" \in silent)
           /\ profFile' = profFile \/ (Step = "log_profile_save" /\ profFile' \in {log_data, 0})
           /\ Step # "log_snapshot_save" =>
                torn' = torn \/ (Step = "log_profile_save" /\ profFile' \in {log_data, 0})
           /\ Step = "get_wrapper_log" => log_data' \in {disk.low, 0}
           /\ Step = "log_profile_load" => log_data' = profFile
           /\ Step \notin {"get_wrapper_log", "log_profile_load"} => log_data' = log_data
  <1>1. CASE UNCHANGED <<disk, log_data, files>> /\
             Step \notin {"log_snapshot_save", "log_snapshot_load", "log_profile_save",
                          "log_profile_load", "get_wrapper_log"}
    BY <1>1 DEF files
  <1>2. CASE load_class \/ update_dirty_expire_time \/ mount_device_raw \/ test_setup \/ umount
             \/ clone_device \/ clear_caches \/ insert_wrapper \/ mount_wrapper_device
             \/ get_wrapper_ioctl \/ begin_wrapper_logging \/ test_run \/ unwrap \/ roundsDone
             \/ removeDisk \/ setupFails \/ cleanup
    <2>1. UNCHANGED <<disk, log_data, files>>
      BY <1>2 DEF load_class, update_dirty_expire_time, mount_device_raw, test_setup, umount,
         clone_device, clear_caches, insert_wrapper, mount_wrapper_device,
         get_wrapper_ioctl, begin_wrapper_logging, test_run, unwrap, roundsDone, removeDisk,
         setupFails, cleanup
    <2>2. Step \notin {"log_snapshot_save", "log_snapshot_load", "log_profile_save",
                       "log_profile_load", "get_wrapper_log"}
      BY <1>2 DEF load_class, update_dirty_expire_time, mount_device_raw, test_setup, umount,
         clone_device, clear_caches, insert_wrapper, mount_wrapper_device,
         get_wrapper_ioctl, begin_wrapper_logging, test_run, unwrap, roundsDone, removeDisk,
         setupFails, cleanup, At
    <2> QED BY <1>1, <2>1, <2>2
  <1>3. CASE insert_cow_brd \/ openFails \/ format_drive
    BY <1>3 DEF insert_cow_brd, openFails, format_drive, files, At
  <1>4. CASE log_snapshot_save \/ snapshotNotSaved
    BY <1>4 DEF log_snapshot_save, snapshotNotSaved, At
  <1>5. CASE log_snapshot_load \/ snapshotNotLoaded
    BY <1>5 DEF log_snapshot_load, snapshotNotLoaded, At, Empty
  <1>6. CASE get_wrapper_log
    BY <1>6 DEF get_wrapper_log, At, files
  <1>7. CASE log_profile_save \/ profileNotSaved
    BY <1>7 DEF log_profile_save, profileNotSaved, At, files
  <1>8. CASE log_profile_load
    BY <1>8 DEF log_profile_load, At, files
  <1> QED BY <1>2, <1>3, <1>4, <1>5, <1>6, <1>7, <1>8 DEF Work

\* Every step keeps what is known of the image and the log.
LEMMA BaseStep == TypeInv /\ BaseInv /\ [Next]_vars => BaseInv'
  <1> SUFFICES ASSUME TypeInv, BaseInv, [Next]_vars PROVE BaseInv'
    OBVIOUS
  <1>0. /\ opts \in Options /\ at \in DOMAIN Programs[opts] /\ h \in Testers /\ TypeOK
    BY TypeParts DEF TypeInv
  <1>1. Bases(Programs[opts], at, opts.load)
    BY <1>0, StepOrder
  <1>2. /\ Step \in {"insert_cow_brd", "format_drive", "log_snapshot_load"} =>
             ~Passed("get_wrapper_log") /\ ~Passed("log_snapshot_save")
        /\ Step \in {"insert_cow_brd", "format_drive", "log_snapshot_save"} =>
             ~Passed("log_snapshot_load")
        /\ Step \in {"get_wrapper_log", "log_profile_save"} => ~Passed("log_profile_load")
        /\ Step = "log_profile_load" => ~Passed("get_wrapper_log")
        /\ Step = "log_profile_save" => Passed("get_wrapper_log") /\ Passed("log_snapshot_save")
    BY <1>1 DEF Bases, Step, Passed
  <1>3. CASE /\ at' = 1 /\ opts' \in Options
             /\ ~torn' /\ "log_snapshot_save" \notin silent' => profFile' \in {snapFile', 0}
    <2>1. \A s : ~Passed(s)'
      BY <1>0, <1>3, PassedNext
    <2> QED BY <1>3, <2>1 DEF BaseInv
  <1>4. CASE Start
    BY <1>3, <1>4 DEF Start, BaseInv, files
  <1>5. CASE Ending
    <2>1. PICK how \in {"failed", "killed", "done"}, u \in Testers : Leaves(how, u)
      BY <1>0, <1>5, EndingEffect
    <2>2. at' = 1 /\ opts' = opts
      BY <2>1, ExitEffect DEF Leaves
    <2>3. ~torn' /\ "log_snapshot_save" \notin silent' => profFile' \in {snapFile', 0}
      BY <2>1 DEF Leaves, BaseInv
    <2> QED BY <1>0, <1>3, <2>2, <2>3
  <1>6. CASE Work
    <2>1. at' = at + 1 /\ opts' = opts
      BY <1>6, WorkShape
    <2>2. \A s : Passed(s)' <=> Passed(s) \/ s = Step
      BY <1>0, <2>1, PassedNext
    <2>3. /\ Step \notin {"insert_cow_brd", "format_drive", "log_snapshot_load"} => disk' = disk
          /\ Step = "log_snapshot_load" =>
               disk'.low = snapFile \/ "log_snapshot_load" \in silent'
          /\ IF Step = "log_snapshot_save"
             THEN torn' = TRUE /\ (snapFile' = disk.low \/ "log_snapshot_save" \in silent')
             ELSE snapFile' = snapFile /\ ("log_snapshot_save" \in silent' <=> "log_snapshot_save" \in silent)
          /\ Step # "log_snapshot_load" =>
               ("log_snapshot_load" \in silent' <=> "log_snapshot_load" \in silent)
          /\ profFile' = profFile \/ (Step = "log_profile_save" /\ profFile' \in {log_data, 0})
          /\ Step # "log_snapshot_save" =>
               torn' = torn \/ (Step = "log_profile_save" /\ profFile' \in {log_data, 0})
          /\ Step = "get_wrapper_log" => log_data' \in {disk.low, 0}
          /\ Step = "log_profile_load" => log_data' = profFile
          /\ Step \notin {"get_wrapper_log", "log_profile_load"} => log_data' = log_data
      BY <1>6, WorkBase
    <2>4. ~torn' /\ "log_snapshot_save" \notin silent' => profFile' \in {snapFile', 0}
      BY <1>2, <2>3 DEF BaseInv
    <2>5. Passed("log_snapshot_save")' => snapFile' = disk'.low \/ "log_snapshot_save" \in silent'
      BY <1>2, <2>2, <2>3 DEF BaseInv
    <2>6. Passed("get_wrapper_log")' => log_data' \in {disk'.low, 0}
      BY <1>2, <2>2, <2>3 DEF BaseInv
    <2>7. Passed("log_profile_load")' => log_data' = profFile'
      BY <1>2, <2>2, <2>3 DEF BaseInv
    <2>8. Passed("log_snapshot_load")' => disk'.low = snapFile' \/ "log_snapshot_load" \in silent'
      BY <1>2, <2>2, <2>3 DEF BaseInv
    <2> QED BY <2>4, <2>5, <2>6, <2>7, <2>8 DEF BaseInv
  <1>7. CASE Round
    <2>1. at' = at /\ opts' = opts /\ UNCHANGED <<log_data, disk, files>>
      BY <1>7, RoundShape
    <2>2. \A s : Passed(s)' <=> Passed(s)
      BY <1>0, <2>1, PassedNext
    <2> QED BY <2>1, <2>2 DEF BaseInv, files
  <1>8. CASE UNCHANGED <<opts, at, log_data, disk, files>>
    <2>1. \A s : Passed(s)' <=> Passed(s)
      BY <1>0, <1>8, PassedNext
    <2> QED BY <1>8, <2>1 DEF BaseInv, files
  <1>9. CASE Talk
    <2>1. /\ opts' = opts /\ UNCHANGED <<log_data, disk, files>>
          /\ at' = at \/ (at' = at + 1 /\ Step \in TalkSteps)
      BY <1>9, TalkShape
    <2>2. CASE at' = at + 1 /\ Step \in TalkSteps
      <3>1. \A s : Passed(s)' <=> Passed(s) \/ s = Step
        BY <1>0, <2>1, <2>2, PassedNext
      <3> QED BY <2>1, <2>2, <3>1 DEF BaseInv, files, TalkSteps
    <2> QED BY <1>8, <2>1, <2>2
  <1>10. CASE UNCHANGED vars
    BY <1>8, <1>10 DEF vars, process
  <1> QED BY <1>4, <1>5, <1>6, <1>7, <1>9, <1>10, NextKinds

-----------------------------------------------------------------------------
(* The command socket *)

\* The connections that wait, and the one accepted.
QueueInv ==
    /\ client # NoClient => Talking(client)
    /\ \A i \in 1..Len(queue) : Talking(queue[i]) /\ queue[i] # client
    /\ \A i, j \in 1..Len(queue) : queue[i] = queue[j] => i = j

\* Between a command and its reply its client is the one accepted.
ServedInv == \A c \in Commands : Passed(c) /\ ~Passed(Done[c]) => client # NoClient /\ cmd[client] = c

\* A reply goes to the accepted client and ends its connection.
LEMMA ReplyQueue ==
    ASSUME ClientOK, QueueInv, client # NoClient, NEW message, Reply(message)
    PROVE  QueueInv'
  <1>1. /\ queue' = queue /\ client' = NoClient /\ client \in Client
        /\ queue \in Seq(Client) /\ NoClient \notin Client
    BY HarnessAssumption DEF Reply, ClientOK
  <1>2. \A c \in Client \ {client} : cpc'[c] = cpc[c] /\ answer'[c] = answer[c]
    BY DEF Reply, ClientOK
  <1>3. \A i \in 1..Len(queue) : queue[i] \in Client
    BY <1>1
  <1>4. \A i \in 1..Len(queue) : Talking(queue[i])' /\ queue[i] # NoClient
    BY <1>1, <1>2, <1>3 DEF QueueInv, Talking
  <1> QED BY <1>1, <1>4 DEF QueueInv

\* The steps of a client keep the queue in order.
LEMMA ClientQueue ==
    ASSUME ClientOK, QueueInv, NEW c \in Client, Connect(c) \/ SendCommand(c) \/ Quit(c)
    PROVE  QueueInv'
  <1>0. /\ queue \in Seq(Client) /\ Len(queue) \in Nat /\ \A i \in 1..Len(queue) : queue[i] \in Client
        /\ client' = client /\ client \in Client \cup {NoClient} /\ NoClient \notin Client
    BY HarnessAssumption DEF ClientOK, Connect, SendCommand, Quit
  <1>1. CASE Connect(c)
    <2>1. /\ ~Talking(c) /\ Talking(c)' /\ queue' = Append(queue, c)
          /\ \A d \in Client \ {c} : cpc'[d] = cpc[d] /\ answer'[d] = answer[d]
      BY <1>1 DEF Connect, ClientOK, Talking
    <2>2. c # client /\ \A i \in 1..Len(queue) : queue[i] # c
      BY <2>1, <1>0 DEF QueueInv
    <2>3. \A d \in Client : Talking(d) => Talking(d)'
      BY <2>1 DEF Talking
    <2>4. /\ Len(queue') = Len(queue) + 1 /\ queue'[Len(queue) + 1] = c
          /\ \A i \in 1..Len(queue) : queue'[i] = queue[i]
      BY <1>0, <2>1
    <2>5. \A i \in 1..Len(queue') : i \in 1..Len(queue) \/ i = Len(queue) + 1
      BY <1>0, <2>4
    <2>6. client' # NoClient => Talking(client)'
      BY <1>0, <2>3 DEF QueueInv, Talking
    <2>7. \A i \in 1..Len(queue') :
             /\ cpc'[queue'[i]] \in {"connected", "sent", "goneUnsent", "goneSent"}
             /\ answer'[queue'[i]] = "none" /\ queue'[i] # client'
      <3> SUFFICES ASSUME NEW i \in 1..Len(queue')
                   PROVE  /\ cpc'[queue'[i]] \in {"connected", "sent", "goneUnsent", "goneSent"}
                          /\ answer'[queue'[i]] = "none" /\ queue'[i] # client'
        OBVIOUS
      <3>1. CASE i \in 1..Len(queue)
        <4>1. queue[i] \in Client /\ Talking(queue[i]) /\ queue[i] # client /\ queue[i] # c
          BY <1>0, <2>2, <3>1 DEF QueueInv
        <4>2. cpc'[queue[i]] = cpc[queue[i]] /\ answer'[queue[i]] = answer[queue[i]]
          BY <2>1, <4>1
        <4> QED BY <1>0, <2>4, <3>1, <4>1, <4>2 DEF Talking
      <3>2. CASE i = Len(queue) + 1
        BY <1>0, <2>1, <2>2, <2>4, <3>2 DEF Talking
      <3> QED BY <2>5, <3>1, <3>2
    <2>8. \A i, j \in 1..Len(queue') : queue'[i] = queue'[j] => i = j
      BY <1>0, <2>2, <2>4, <2>5 DEF QueueInv
    <2> QED BY <2>6, <2>7, <2>8 DEF QueueInv, Talking
  <1>2. CASE SendCommand(c) \/ Quit(c)
    <2>1. queue' = queue /\ answer' = answer
      BY <1>2 DEF SendCommand, Quit
    <2>2. \A d \in Client : Talking(d) => Talking(d)'
      <3>1. CASE SendCommand(c)
        BY <3>1 DEF SendCommand, ClientOK, Talking
      <3>2. CASE Quit(c)
        BY <3>2 DEF Quit, ClientOK, Talking
      <3> QED BY <1>2, <3>1, <3>2
    <2> QED BY <1>0, <2>1, <2>2 DEF QueueInv, Talking
  <1> QED BY <1>1, <1>2

\* What stands where, for the commands.
LEMMA CommandOrder ==
    ASSUME TypeInv
    PROVE  /\ Step \in Commands => Passed("Init")
           /\ Step # "return" => ~Passed("kRunTestsDone")
           /\ \A c \in Commands :
                /\ Passed(c) /\ ~Passed(Done[c]) =>
                     Step \notin Commands /\ \A d \in Commands : Step = Done[d] => d = c
                /\ Step = Done[c] => Passed(c) /\ ~Passed(Done[c])
  <1>1. Talks(Programs[opts], at)
    BY TypeParts, StepOrder DEF TypeInv
  <1> QED BY <1>1 DEF Talks, Step, Passed

\* The steps of clients and of main's end of the socket keep SocketInv.
LEMMA TalkStep ==
    ASSUME TypeInv, SocketInv, Talk
    PROVE  SocketInv'
  <1>0. /\ opts \in Options /\ at \in DOMAIN Programs[opts] /\ ClientOK /\ QueueInv /\ ServedInv
        /\ NoClient \notin Client
    BY TypeParts, HarnessAssumption DEF TypeInv, SocketInv, QueueInv, ServedInv
  <1>1. /\ Step \in Commands => Passed("Init")
        /\ Step # "return" => ~Passed("kRunTestsDone")
        /\ \A c \in Commands :
             /\ Passed(c) /\ ~Passed(Done[c]) =>
                  Step \notin Commands /\ \A d \in Commands : Step = Done[d] => d = c
             /\ Step = Done[c] => Passed(c) /\ ~Passed(Done[c])
    BY CommandOrder
  <1>2. opts' = opts
    BY TalkShape
  <1>3. /\ at' = at => \A s : Passed(s)' <=> Passed(s)
        /\ at' = at + 1 => \A s : Passed(s)' <=> Passed(s) \/ s = Step
    BY <1>0, <1>2, PassedNext
  <1>d. \A c \in Commands : Done[c] \notin Commands /\ Done[c] # "Init"
                            /\ (Done[c] = "kRunTestsDone" <=> c = "kRunTests")
    BY Replies
  <1>c. "Init" \notin Commands /\ "kRunTestsDone" \notin Commands /\ "kRunTests" \in Commands
    BY Replies
  <1>4. SUFFICES /\ QueueInv' /\ ServedInv'
                 /\ Passed("Init")' /\ ~Passed("kRunTestsDone")' => sock' = "live"
    BY DEF SocketInv, QueueInv, ServedInv
  <1>5. CASE Init_bind
    <2>1. Step = "Init" /\ at' = at + 1 /\ sock' = "live" /\ UNCHANGED <<queue, client, clients>>
      BY <1>5 DEF Init_bind, At
    <2>2. QueueInv'
      BY <1>0, <2>1 DEF QueueInv, Talking, clients
    <2>3. ServedInv'
      BY <1>0, <1>3, <1>c, <1>d, <2>1 DEF ServedInv, clients
    <2> QED BY <2>1, <2>2, <2>3
  <1>6. CASE Accept
    <2>1. /\ Step \in Commands /\ client = NoClient /\ queue # <<>> /\ at' = at
          /\ client' = Head(queue) /\ queue' = Tail(queue) /\ sock' = sock /\ UNCHANGED clients
      BY <1>6 DEF Accept, Waiting, At
    <2>2. /\ Len(queue) \in Nat \ {0} /\ Len(queue') = Len(queue) - 1 /\ client' = queue[1]
          /\ \A i \in 1..Len(queue') : queue'[i] = queue[i + 1] /\ i + 1 \in 1..Len(queue)
      BY <1>0, <2>1 DEF ClientOK
    <2>3. QueueInv'
      BY <1>0, <2>1, <2>2 DEF QueueInv, Talking, clients
    <2>4. ServedInv'
      BY <1>1, <1>3, <2>1 DEF ServedInv
    <2> QED BY <1>3, <2>1, <2>3, <2>4 DEF SocketInv
  <1>7. CASE ReadEOF
    <2>1. at' = at /\ UNCHANGED socket
      BY <1>7 DEF ReadEOF
    <2>2. QueueInv' /\ ServedInv'
      BY <1>0, <1>3, <2>1 DEF QueueInv, Talking, ServedInv, socket, clients
    <2> QED BY <1>3, <2>1, <2>2 DEF SocketInv, socket
  <1>8. CASE ReadExpected
    <2>1. /\ Step \in Commands /\ cmd[client] = Step /\ client # NoClient /\ at' = at + 1
          /\ UNCHANGED socket
      BY <1>8 DEF ReadExpected, Waiting, At, HasSent
    <2>2. QueueInv'
      BY <1>0, <2>1 DEF QueueInv, Talking, socket, clients
    <2>3. ServedInv'
      BY <1>0, <1>1, <1>3, <2>1 DEF ServedInv, socket, clients
    <2>4. Passed("Init") /\ (~Passed("kRunTestsDone")' => ~Passed("kRunTestsDone")) /\ sock' = sock
      BY <1>1, <1>3, <2>1 DEF socket
    <2> QED BY <2>2, <2>3, <2>4 DEF SocketInv
  <1>9. CASE ReadOther
    <2>1. /\ Step \in Commands /\ client # NoClient /\ Reply("kInvalidCommand") /\ at' = at /\ sock' = sock
      BY <1>9 DEF ReadOther, Waiting, At, HasSent
    <2>2. QueueInv'
      BY <1>0, <2>1, ReplyQueue
    <2>3. ServedInv'
      BY <1>1, <1>3, <2>1 DEF ServedInv
    <2> QED BY <1>3, <2>1, <2>2, <2>3 DEF SocketInv
  <1>10. CASE SendDone
    <2>1. PICK c \in Commands : /\ At(Done[c]) /\ Reply(Done[c])
                                /\ sock' = IF c = "kRunTests" THEN "none" ELSE sock
      BY <1>10 DEF SendDone
    <2>2. Step = Done[c] /\ at' = at + 1
      BY <1>10, <2>1 DEF SendDone, At
    <2>3. client # NoClient
      BY <1>0, <1>1, <2>2 DEF ServedInv
    <2>4. QueueInv'
      BY <1>0, <2>1, <2>3, ReplyQueue
    <2>5. ServedInv'
      <3> SUFFICES ASSUME NEW d \in Commands, Passed(d)', ~Passed(Done[d])' PROVE FALSE
        BY DEF ServedInv
      <3>1. Passed(d) /\ ~Passed(Done[d]) /\ d # c
        BY <1>3, <1>d, <2>2
      <3> QED BY <1>1, <2>2, <3>1
    <2>6. Passed("Init")' /\ ~Passed("kRunTestsDone")' => sock' = "live"
      BY <1>3, <1>d, <2>1, <2>2 DEF SocketInv
    <2> QED BY <2>4, <2>5, <2>6
  <1>11. ASSUME NEW c \in Client, Connect(c) \/ SendCommand(c) \/ Quit(c)
         PROVE  /\ QueueInv' /\ ServedInv'
                /\ Passed("Init")' /\ ~Passed("kRunTestsDone")' => sock' = "live"
    <2>1. QueueInv'
      BY <1>0, <1>11, ClientQueue
    <2>2. at' = at /\ client' = client /\ sock' = sock
      BY <1>11 DEF Connect, SendCommand, Quit
    <2>3. client # NoClient => cmd'[client] = cmd[client]
      <3>1. CASE Connect(c)
        <4>1. ~Talking(c)
          BY <3>1 DEF Connect, Talking
        <4>2. client # NoClient => client \in Client \ {c}
          BY <1>0, <4>1 DEF QueueInv, ClientOK
        <4> QED BY <1>0, <3>1, <4>2 DEF Connect, ClientOK
      <3>2. CASE SendCommand(c) \/ Quit(c)
        BY <3>2 DEF SendCommand, Quit
      <3> QED BY <1>11, <3>1, <3>2
    <2>4. ServedInv'
      BY <1>0, <1>3, <2>2, <2>3 DEF ServedInv
    <2> QED BY <1>3, <2>1, <2>2, <2>4 DEF SocketInv
  <1> QED BY <1>5, <1>6, <1>7, <1>8, <1>9, <1>10, <1>11 DEF Talk

\* The other steps leave the socket alone, or end the process and its connections.
LEMMA SocketStep == TypeInv /\ SocketInv /\ [Next]_vars => SocketInv'
  <1> SUFFICES ASSUME TypeInv, SocketInv, [Next]_vars PROVE SocketInv'
    OBVIOUS
  <1>0. opts \in Options /\ at \in DOMAIN Programs[opts] /\ TypeOK
    BY TypeParts DEF TypeInv
  <1>1. ASSUME UNCHANGED socket, \A s \in TalkSteps : Passed(s)' => Passed(s),
               \A s \in TalkSteps : Passed(s) => Passed(s)' \/ \A u \in TalkSteps : ~Passed(u)'
        PROVE  SocketInv'
    <2>1. Commands \subseteq TalkSteps /\ (\A c \in Commands : Done[c] \in TalkSteps)
          /\ {"Init", "kRunTestsDone"} \subseteq TalkSteps
      BY Replies DEF TalkSteps
    <2> QED BY <1>1, <2>1 DEF SocketInv, Talking, socket, clients
  <1>2. CASE Start
    <2>1. at' = 1 /\ opts' \in Options /\ UNCHANGED socket
      BY <1>2 DEF Start
    <2>2. \A s : ~Passed(s)'
      BY <1>0, <2>1, PassedNext
    <2> QED BY <1>1, <2>1, <2>2
  <1>3. CASE Ending
    <2>1. PICK how \in {"failed", "killed", "done"}, u \in Testers : Leaves(how, u)
      BY <1>0, <1>3, EndingEffect
    <2>2. at' = 1 /\ opts' = opts /\ queue' = <<>> /\ client' = NoClient
      BY <2>1, ExitEffect DEF Leaves
    <2>3. \A s : ~Passed(s)'
      BY <1>0, <2>2, PassedNext
    <2> QED BY <2>2, <2>3 DEF SocketInv
  <1>4. CASE Work
    <2>1. Step \notin TalkSteps /\ at' = at + 1 /\ opts' = opts /\ UNCHANGED socket
      BY <1>4, WorkShape
    <2>2. \A s : Passed(s)' <=> Passed(s) \/ s = Step
      BY <1>0, <2>1, PassedNext
    <2> QED BY <1>1, <2>1, <2>2
  <1>5. CASE Round
    <2>1. at' = at /\ opts' = opts /\ UNCHANGED socket
      BY <1>5, RoundShape
    <2>2. \A s : Passed(s)' <=> Passed(s)
      BY <1>0, <2>1, PassedNext
    <2> QED BY <1>1, <2>1, <2>2
  <1>6. CASE Talk
    BY <1>6, TalkStep
  <1>7. CASE UNCHANGED vars
    <2>1. at' = at /\ opts' = opts /\ UNCHANGED socket
      BY <1>7 DEF vars, process
    <2>2. \A s : Passed(s)' <=> Passed(s)
      BY <1>0, <2>1, PassedNext
    <2> QED BY <1>1, <2>1, <2>2
  <1> QED BY <1>2, <1>3, <1>4, <1>5, <1>6, <1>7, NextKinds

-----------------------------------------------------------------------------
(* The theorems *)

\* The inductive invariant of the harness.
Inv == TypeInv /\ SocketInv /\ BaseInv /\ RecordInv /\ CleanInv

\* Before the first process nothing is passed and nothing is there.
LEMMA InvInit == Init => Inv
  <1> SUFFICES ASSUME Init PROVE Inv
    OBVIOUS
  <1>1. TypeInv
    BY TypeInit
  <1>2. Step \in {"Init", "insert_cow_brd"} /\ \A s : ~Passed(s)
    BY <1>1, TypeParts, StepOrder DEF TypeInv, Init
  <1>3. SocketInv
    BY <1>2 DEF Init, SocketInv
  <1>4. BaseInv
    BY <1>2 DEF Init, BaseInv
  <1>5. Step \notin Recording \cup MountSteps \cup {"log_profile_save", "kEndLogDone"}
    BY <1>2 DEF Recording, Logging, MountSteps
  <1>6. RecordInv
    BY <1>2, <1>5 DEF RecordInv, Recording
  <1>7. Clean(h) /\ Sound(h)
    BY DEF Init, NewTester, Boot, Clean, Sound
  <1>8. CleanInv
    BY <1>7 DEF CleanInv, Clean
  <1> QED BY <1>1, <1>3, <1>4, <1>6, <1>8 DEF Inv

\* Every step keeps it.
LEMMA InvStep == Inv /\ [Next]_vars => Inv'
  BY TypeStep, SocketStep, BaseStep, RecordStep, CleanStep DEF Inv

\* It holds in every run of the harness.
LEMMA InvHolds == Spec => []Inv
  BY InvInit, InvStep, PTL DEF Spec

(***************************************************************************)
(* Whenever main waits for a command, the socket file is there and no      *)
(* answered connection is left open.                                       *)
(***************************************************************************)
THEOREM ReadyForCommandHolds == Spec => []ReadyForCommand
  <1>1. Inv => ReadyForCommand
    <2> SUFFICES ASSUME Inv, NEW c \in Commands, Waiting(c)
                 PROVE  sock = "live" /\ (client = NoClient \/ answer[client] = "none")
      BY DEF ReadyForCommand
    <2>1. Passed("Init") /\ ~Passed("kRunTestsDone")
      BY CommandOrder, Replies DEF Inv, Waiting, At
    <2> QED BY <2>1 DEF Inv, SocketInv, Talking
  <1> QED BY <1>1, InvHolds, PTL

(***************************************************************************)
(* A process that ends without trouble leaves neither module nor mount.    *)
(***************************************************************************)
THEOREM ExitCleanHolds == Spec => []ExitClean
  <1>1. Inv => ExitClean
    <2> SUFFICES ASSUME Inv, status \in {"done", "failed"}, trouble = {} PROVE Clean(h)
      BY DEF ExitClean, Clean
    <2>1. at = 1 /\ opts \in Options /\ at \in DOMAIN Programs[opts]
      BY TypeParts DEF Inv, TypeInv, PlaceInv
    <2>2. ~Passed("insert_cow_brd")
      BY <2>1, StepOrder
    <2> QED BY <2>2 DEF Inv, CleanInv
  <1> QED BY <1>1, InvHolds, PTL

(***************************************************************************)
(* Crash states are replayed on the image their log was recorded on: in a  *)
(* recording run always, in a loading one unless a save or the load failed *)
(* unnoticed or only half was saved.                                       *)
(***************************************************************************)
THEOREM LogOnItsBaseHolds == Spec => []LogOnItsBase
  <1>1. Inv => LogOnItsBase
    <2> SUFFICES ASSUME Inv, InRound, ~(opts.load /\ (torn \/ silent # {}))
                 PROVE  log_data = disk.low
      BY DEF LogOnItsBase
    <2>1. /\ Step = "test" /\ log_data # 0
          /\ opts \in Options /\ at \in DOMAIN Programs[opts] /\ BaseInv
      BY TypeParts DEF Inv, TypeInv, InRound, At
    <2>2. IF opts.load THEN Passed("log_snapshot_load") /\ Passed("log_profile_load")
          ELSE Passed("get_wrapper_log")
      BY <2>1, StepOrder DEF Bases, Step, Passed
    <2>3. CASE Passed("get_wrapper_log")
      BY <2>1, <2>3 DEF BaseInv
    <2>4. CASE opts.load /\ Passed("log_snapshot_load") /\ Passed("log_profile_load")
      BY <2>1, <2>4 DEF BaseInv
    <2> QED BY <2>2, <2>3, <2>4
  <1> QED BY <1>1, InvHolds, PTL

\* Replies are sent by ReadOther and SendDone alone; a new connection has none.
LEMMA AnswerChanges ==
    ASSUME TypeInv, [Next]_vars
    PROVE  \/ answer' = answer
           \/ \E c \in Client : answer' = [answer EXCEPT ![c] = "none"]
           \/ client # NoClient /\ answer' = [answer EXCEPT ![client] = "kInvalidCommand"]
           \/ SendDone
  <1>1. CASE Start \/ Work \/ Round \/ UNCHANGED vars
    BY <1>1, WorkShape, RoundShape DEF Start, vars, socket, clients
  <1>2. CASE Ending
    <2>1. PICK how \in {"failed", "killed", "done"}, u \in Testers : Leaves(how, u)
      BY <1>2, EndingEffect DEF TypeInv
    <2> QED BY <2>1, ExitEffect DEF Leaves
  <1>3. CASE Talk
    <2>1. CASE Init_bind \/ Accept \/ ReadEOF \/ ReadExpected
      BY <2>1 DEF Init_bind, Accept, ReadEOF, ReadExpected, socket, clients
    <2>2. CASE ReadOther
      BY <2>2 DEF ReadOther, HasSent, Reply
    <2>3. ASSUME NEW c \in Client, Connect(c) \/ SendCommand(c) \/ Quit(c)
          PROVE  answer' = answer \/ answer' = [answer EXCEPT ![c] = "none"]
      BY <2>3 DEF Connect, SendCommand, Quit
    <2> QED BY <1>3, <2>1, <2>2, <2>3 DEF Talk
  <1> QED BY <1>1, <1>2, <1>3, NextKinds

\* What holds when a reply to a command is sent.
LEMMA DoneStep ==
    ASSUME Inv, SendDone
    PROVE  /\ client \in Client /\ answer' = [answer EXCEPT ![client] = Done[cmd[client]]]
           /\ cmd[client] = "kBeginLog" => h.log_on /\ h.mounted = "hwm"
           /\ cmd[client] = "kEndLog" => ~h.log_on /\ "hwm" \notin h.loaded
           /\ cmd[client] = "kRunTests" => h.loaded = {} \/ trouble # {}
  <1>1. PICK c \in Commands : At(Done[c]) /\ Reply(Done[c])
    BY DEF SendDone
  <1>2. Step = Done[c] /\ TypeInv /\ ClientOK /\ opts \in Options /\ at \in DOMAIN Programs[opts]
    BY <1>1, TypeParts DEF At, Inv, TypeInv
  <1>3. Passed(c) /\ ~Passed(Done[c])
    BY <1>2, CommandOrder
  <1>4. client # NoClient /\ cmd[client] = c
    BY <1>3 DEF Inv, SocketInv
  <1>5. client \in Client /\ answer' = [answer EXCEPT ![client] = Done[cmd[client]]]
    BY <1>1, <1>2, <1>4 DEF Reply, ClientOK
  <1>6. c = "kBeginLog" => h.log_on /\ h.mounted = "hwm"
    BY <1>2, Replies DEF Inv, RecordInv, Recording, Logging
  <1>7. c = "kEndLog" => ~h.log_on /\ "hwm" \notin h.loaded
    BY <1>2, Replies DEF Inv, RecordInv
  <1>8. ASSUME c = "kRunTests" PROVE h.loaded = {} \/ trouble # {}
    <2>1. Step = "kRunTestsDone"
      BY <1>2, <1>8, Replies
    <2>2. Passed("cleanup_harness")
      BY <1>2, <2>1, StepOrder DEF Ends, Passed, Step
    <2> QED BY <2>2 DEF Inv, CleanInv, Clean
  <1> QED BY <1>4, <1>5, <1>6, <1>7, <1>8

(***************************************************************************)
(* A client is told that a command is done only if it gave that command    *)
(* and the machine is in the state the reply announces.                    *)
(***************************************************************************)
THEOREM DoneTruthfulHolds == Spec => DoneTruthful
  <1> DEFINE Truthful ==
        \A c \in Client : answer'[c] \notin {answer[c], "none", "kInvalidCommand"} =>
            /\ answer'[c] = Done[cmd[c]]
            /\ cmd[c] = "kBeginLog" => h.log_on /\ h.mounted = "hwm"
            /\ cmd[c] = "kEndLog" => ~h.log_on /\ "hwm" \notin h.loaded
            /\ cmd[c] = "kRunTests" => h.loaded = {} \/ trouble # {}
  <1>1. Inv /\ [Next]_vars => [Truthful]_vars
    <2> SUFFICES ASSUME Inv, [Next]_vars PROVE Truthful
      OBVIOUS
    <2>0. TypeInv /\ answer \in [Client -> {"none", "kInvalidCommand"} \cup {Done[c] : c \in Commands}]
      BY DEF Inv, TypeInv, TypeOK
    <2>1. CASE SendDone
      <3>1. /\ client \in Client /\ answer' = [answer EXCEPT ![client] = Done[cmd[client]]]
            /\ cmd[client] = "kBeginLog" => h.log_on /\ h.mounted = "hwm"
            /\ cmd[client] = "kEndLog" => ~h.log_on /\ "hwm" \notin h.loaded
            /\ cmd[client] = "kRunTests" => h.loaded = {} \/ trouble # {}
        BY <2>1, DoneStep
      <3>2. \A c \in Client : answer'[c] # answer[c] => c = client
        BY <2>0, <3>1
      <3>3. answer'[client] = Done[cmd[client]]
        BY <2>0, <3>1
      <3> QED BY <3>1, <3>2, <3>3
    <2>2. CASE ~SendDone
      <3>1. \/ answer' = answer
            \/ \E c \in Client : answer' = [answer EXCEPT ![c] = "none"]
            \/ client # NoClient /\ answer' = [answer EXCEPT ![client] = "kInvalidCommand"]
        BY <2>0, <2>2, AnswerChanges
      <3>2. \A c \in Client : answer'[c] \in {answer[c], "none", "kInvalidCommand"}
        BY <2>0, <3>1
      <3> QED BY <3>2
    <2> QED BY <2>1, <2>2
  <1>2. Spec => [][Truthful]_vars
    BY <1>1, InvHolds, PTL DEF Spec
  <1> QED BY <1>2 DEF DoneTruthful
=============================================================================
