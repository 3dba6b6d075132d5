---------------------------- MODULE DiskWrapper ----------------------------
(***************************************************************************)
(* The recording block device, disk_wrapper.c, and the harness's use of    *)
(* it: clear_wrapper_log, begin_wrapper_logging, end_wrapper_logging and   *)
(* get_wrapper_log of harness/Tester.cpp.                                  *)
(*                                                                         *)
(* disk_wrapper_bio runs in the context of whoever submits a bio.  While   *)
(* logging is on it links a new entry to the chain and copies the bio's    *)
(* data, without any lock, then passes the bio to the target device.  The  *)
(* harness reads the chain, entry by entry, through ioctls.                *)
(*                                                                         *)
(* The chain lives in kernel memory: Node names the blocks of it that      *)
(* entries may occupy, and a freed block may be handed out again.          *)
(***************************************************************************)
EXTENDS DiskWrite, Integers, Sequences, FiniteSets, SequencesExt

CONSTANTS
    Node, NULL,        \* memory for entries, and the null pointer
    Thread,            \* contexts that submit bios
    Bios,              \* the bios they may submit
    Settled,           \* no bio is in flight when logging is switched or cleared
    MaxBios,           \* bound: bios submitted
    MaxSessions,       \* bound: times a log is recorded and read
    MaxRead            \* bound: entries read in one session

(***************************************************************************)
(* Nothing in the wrapper is thread safe, as its TODO comments say: with   *)
(* one thread bios are logged one after the other.  The harness is settled *)
(* because it sleeps for WRITE_DELAY before it turns logging off.          *)
(***************************************************************************)
ASSUME WrapperAssumption ==
    /\ Bios \subseteq DiskWrites /\ NULL \notin Node /\ IsFiniteSet(Node)
    /\ Settled \in BOOLEAN
    /\ MaxBios \in Nat /\ MaxSessions \in Nat \ {0} /\ MaxRead \in Nat

VARIABLES
    log_on, writes, current_write, current_log_write,    \* Device
    heap,              \* node -> [live, meta, data, next]
    pc, bio, write,    \* per thread: disk_wrapper_bio
    hpc, meta, got,    \* the harness: where it is, the entry it is reading
    log_data,          \* what it has read
    sent,              \* history: logged bios passed to the target, in order
    failed,            \* history: an entry got no memory for its data
    submitted, sessions

vars == <<log_on, writes, current_write, current_log_write, heap, pc, bio, write,
          hpc, meta, got, log_data, sent, failed, submitted, sessions>>
device == <<log_on, writes, current_write, current_log_write>>
harness == <<hpc, meta, got, log_data, sessions>>

NoBio == [bi_rw |-> {}, write_sector |-> 0, size |-> 0, data |-> NoData]
FreeNode == [live |-> FALSE, meta |-> NoBio, data |-> NoData, next |-> NULL]

Idle == \A t \in Thread : pc[t] = "idle"

-----------------------------------------------------------------------------
(* disk_wrapper_bio *)

Logged(b) == b.bi_rw \cap {"FLUSH", "FUA", "FLUSH_SEQ", "WRITE", "DISCARD"} # {}

\* Of the logged bios only a discard has a size and no segments of data.
ASSUME DiscardAssumption ==
    \A b \in Bios : Logged(b) /\ b.size > 0 /\ b.data = NoData => "DISCARD" \in b.bi_rw

Arrive(t) ==
    /\ pc[t] = "idle" /\ submitted < MaxBios
    /\ \E b \in Bios :
         /\ bio' = [bio EXCEPT ![t] = b]
         /\ pc' = [pc EXCEPT ![t] = IF log_on /\ Logged(b) THEN "node" ELSE "pass"]
    /\ submitted' = submitted + 1
    /\ UNCHANGED <<device, heap, write, harness, sent, failed>>

\* No memory for the entry: the bio passes unlogged.
NodeFails(t) ==
    /\ pc[t] = "node"
    /\ pc' = [pc EXCEPT ![t] = "pass"]
    /\ UNCHANGED <<device, heap, bio, write, harness, sent, failed, submitted>>

NewNode(t) ==
    /\ pc[t] = "node"
    /\ \E n \in Node :
         /\ ~heap[n].live
         /\ heap' = [heap EXCEPT ![n] = [live |-> TRUE, meta |-> bio[t],
                                         data |-> NoData, next |-> NULL]]
         /\ write' = [write EXCEPT ![t] = n]
    /\ pc' = [pc EXCEPT ![t] = "link"]
    /\ UNCHANGED <<device, bio, harness, sent, failed, submitted>>

LinkFirst(t) ==
    /\ pc[t] = "link" /\ current_write = NULL
    /\ writes' = write[t]
    /\ current_log_write' = write[t]
    /\ pc' = [pc EXCEPT ![t] = "tail"]
    /\ UNCHANGED <<log_on, current_write, heap, bio, write, harness, sent, failed, submitted>>

LinkNext(t) ==
    /\ pc[t] = "link" /\ current_write # NULL
    /\ heap' = [heap EXCEPT ![current_write].next = write[t]]
    /\ pc' = [pc EXCEPT ![t] = "tail"]
    /\ UNCHANGED <<device, bio, write, harness, sent, failed, submitted>>

\* Mutant: the end of the chain is not moved.
SetTail_Stays(t) ==
    /\ pc[t] = "tail"
    /\ current_write' = IF current_write = NULL THEN write[t] ELSE current_write
    /\ pc' = [pc EXCEPT ![t] = "data"]
    /\ UNCHANGED <<log_on, writes, current_log_write, heap, bio, write, harness, sent,
                   failed, submitted>>

SetTail(t) ==
    /\ pc[t] = "tail"
    /\ current_write' = write[t]
    /\ pc' = [pc EXCEPT ![t] = "data"]
    /\ UNCHANGED <<log_on, writes, current_log_write, heap, bio, write, harness, sent,
                   failed, submitted>>

\* No memory for the data: the entry is freed where it stands in the chain.
\* (kmalloc(0) does not return NULL.)
DataFails(t) ==
    /\ pc[t] = "data" /\ bio[t].size > 0
    /\ heap' = [heap EXCEPT ![write[t]].live = FALSE]
    /\ write' = [write EXCEPT ![t] = NULL]
    /\ failed' = TRUE
    /\ pc' = [pc EXCEPT ![t] = "pass"]
    /\ UNCHANGED <<device, bio, harness, sent, submitted>>

\* The segments of the bio, copied one after the other.  The entry of a discard
\* keeps what kmalloc happened to return.
CopiedData(b) == IF b.size > 0 /\ b.data = NoData THEN Payload ELSE {b.data}

CopyData(t) ==
    /\ pc[t] = "data"
    /\ \E d \in CopiedData(bio[t]) : heap' = [heap EXCEPT ![write[t]].data = d]
    /\ pc' = [pc EXCEPT ![t] = "pass"]
    /\ UNCHANGED <<device, bio, write, harness, sent, failed, submitted>>

\* passthrough: submit_bio to the target device.
Pass(t) ==
    /\ pc[t] = "pass"
    /\ sent' = IF write[t] # NULL THEN Append(sent, bio[t]) ELSE sent
    /\ pc' = [pc EXCEPT ![t] = "idle"]
    /\ bio' = [bio EXCEPT ![t] = NoBio]
    /\ write' = [write EXCEPT ![t] = NULL]
    /\ UNCHANGED <<device, heap, harness, failed, submitted>>

disk_wrapper_bio(t) ==
    \/ Arrive(t) \/ NodeFails(t) \/ NewNode(t) \/ LinkFirst(t) \/ LinkNext(t)
    \/ SetTail(t) \/ DataFails(t) \/ CopyData(t) \/ Pass(t)

-----------------------------------------------------------------------------
(* disk_wrapper_ioctl, as the harness calls it *)

\* The nodes from n on.
Follow(n) ==
    LET step[k \in 0..Cardinality(Node)] ==
          IF k = 0 THEN {n}
          ELSE step[k - 1] \cup {heap[m].next : m \in step[k - 1] \ {NULL}}
    IN step[Cardinality(Node)] \ {NULL}

CallAllowed == Settled => Idle

\* Mutant: the end of the chain is not forgotten.
HWM_CLR_LOG_KeepsTail ==
    /\ hpc = "clear" /\ CallAllowed
    /\ heap' = [n \in Node |-> IF n \in Follow(writes) THEN FreeNode ELSE heap[n]]
    /\ writes' = NULL /\ current_log_write' = NULL
    /\ hpc' = "on"
    /\ UNCHANGED <<log_on, current_write, pc, bio, write, meta, got, log_data, sent,
                   failed, submitted, sessions>>

\* free_logs
HWM_CLR_LOG ==
    /\ hpc = "clear" /\ CallAllowed
    /\ heap' = [n \in Node |-> IF n \in Follow(writes) THEN FreeNode ELSE heap[n]]
    /\ writes' = NULL /\ current_write' = NULL /\ current_log_write' = NULL
    /\ hpc' = "on"
    /\ UNCHANGED <<log_on, pc, bio, write, meta, got, log_data, sent, failed, submitted,
                   sessions>>

HWM_LOG_ON ==
    /\ hpc = "on" /\ CallAllowed
    /\ log_on' = TRUE
    /\ hpc' = "off"
    /\ UNCHANGED <<writes, current_write, current_log_write, heap, pc, bio, write,
                   meta, got, log_data, sent, failed, submitted, sessions>>

HWM_LOG_OFF ==
    /\ hpc = "off" /\ CallAllowed
    /\ log_on' = FALSE
    /\ hpc' = "meta"
    /\ UNCHANGED <<writes, current_write, current_log_write, heap, pc, bio, write,
                   meta, got, log_data, sent, failed, submitted, sessions>>

\* Mutant: reading goes on where there is no entry.
HWM_GET_LOG_META_NoCheck ==
    /\ hpc = "meta"
    /\ hpc' = IF current_log_write = NULL THEN "read" ELSE "data"
    /\ meta' = IF current_log_write = NULL THEN NULL ELSE heap[current_log_write].meta
    /\ UNCHANGED <<device, heap, pc, bio, write, got, log_data, sent, failed, submitted,
                   sessions>>

HWM_GET_LOG_META ==
    /\ hpc = "meta"
    /\ IF current_log_write = NULL
       THEN hpc' = "read" /\ UNCHANGED meta                    \* ENODATA
       ELSE hpc' = "data" /\ meta' = heap[current_log_write].meta
    /\ UNCHANGED <<device, heap, pc, bio, write, got, log_data, sent, failed, submitted,
                   sessions>>

HWM_GET_LOG_DATA ==
    /\ hpc = "data"
    /\ got' = heap[current_log_write].data
    /\ hpc' = "next"
    /\ UNCHANGED <<device, heap, pc, bio, write, meta, log_data, sent, failed, submitted,
                   sessions>>

\* Mutant: the reader stays where it is.
HWM_NEXT_ENT_Stays ==
    /\ hpc = "next" /\ Len(log_data) < MaxRead
    /\ log_data' = Append(log_data, [meta EXCEPT !.data = got])
    /\ hpc' = "meta"
    /\ meta' = NoBio /\ got' = NoData
    /\ UNCHANGED <<device, heap, pc, bio, write, sent, failed, submitted, sessions>>

\* The entry is kept, and the reader moves on.
HWM_NEXT_ENT ==
    /\ hpc = "next" /\ Len(log_data) < MaxRead
    /\ log_data' = Append(log_data, [meta EXCEPT !.data = got])
    /\ current_log_write' = heap[current_log_write].next
    /\ hpc' = "meta"
    /\ meta' = NoBio /\ got' = NoData
    /\ UNCHANGED <<log_on, writes, current_write, heap, pc, bio, write, sent, failed,
                   submitted, sessions>>

\* Another recording; the log read so far is done with.
NewSession ==
    /\ hpc = "read" /\ sessions < MaxSessions
    /\ sessions' = sessions + 1
    /\ hpc' = "clear"
    /\ log_data' = <<>> /\ sent' = <<>>
    /\ UNCHANGED <<pc, bio, write, meta, got, submitted>>

\* It clears the log of the loaded wrapper,
SameWrapper == NewSession /\ UNCHANGED <<device, heap, failed>>

\* or loads the wrapper anew: hello_cleanup, then disk_wrapper_init.
Reload ==
    /\ NewSession /\ Idle
    /\ log_on' = FALSE
    /\ writes' = NULL /\ current_write' = NULL /\ current_log_write' = NULL
    /\ heap' = [n \in Node |-> FreeNode]
    /\ failed' = FALSE

Harness == \/ HWM_CLR_LOG \/ HWM_LOG_ON \/ HWM_LOG_OFF
           \/ HWM_GET_LOG_META \/ HWM_GET_LOG_DATA \/ HWM_NEXT_ENT

-----------------------------------------------------------------------------

Init ==
    /\ log_on = FALSE
    /\ writes = NULL /\ current_write = NULL /\ current_log_write = NULL
    /\ heap = [n \in Node |-> FreeNode]
    /\ pc = [t \in Thread |-> "idle"] /\ bio = [t \in Thread |-> NoBio]
    /\ write = [t \in Thread |-> NULL]
    /\ hpc = "clear" /\ meta = NoBio /\ got = NoData /\ log_data = <<>>
    /\ sent = <<>> /\ failed = FALSE /\ submitted = 0 /\ sessions = 1

Next == (\E t \in Thread : disk_wrapper_bio(t)) \/ Harness \/ SameWrapper \/ Reload

\* A bio in the wrapper is carried on by its submitter and the harness keeps
\* issuing its calls; nobody need submit a bio or start another session.
Fairness ==
    /\ \A t \in Thread : WF_vars(disk_wrapper_bio(t) /\ pc[t] # "idle")
    /\ WF_vars(Harness)

Spec == Init /\ [][Next]_vars /\ Fairness

-----------------------------------------------------------------------------
(* Properties *)

\* Every variable keeps the type its declaration gives it in the code.
TypeOK ==
    /\ log_on \in BOOLEAN /\ failed \in BOOLEAN
    /\ {writes, current_write, current_log_write} \subseteq Node \cup {NULL}
    /\ heap \in [Node -> [live : BOOLEAN, meta : Bios \cup {NoBio},
                          data : Payload \cup {NoData}, next : Node \cup {NULL}]]
    /\ pc \in [Thread -> {"idle", "node", "link", "tail", "data", "pass"}]
    /\ bio \in [Thread -> Bios \cup {NoBio}]
    /\ write \in [Thread -> Node \cup {NULL}]
    /\ hpc \in {"clear", "on", "off", "meta", "data", "next", "read"}
    /\ meta \in Bios \cup {NoBio} /\ got \in Payload \cup {NoData}
    /\ submitted \in 0..MaxBios /\ sessions \in 1..MaxSessions
    /\ log_data \in Seq(DiskWrites) /\ Len(log_data) <= MaxRead
    /\ sent \in Seq(Bios) /\ Len(sent) <= MaxBios

(***************************************************************************)
(* The comment on Device.current_write, disk_wrapper.c:53: "Pointer to     *)
(* last write op in the chain."  Between bios it is the last entry that    *)
(* the chain from Device.writes leads to, and that entry is allocated.     *)
(***************************************************************************)
TailIsLast ==
    Idle => IF current_write = NULL
            THEN writes = NULL
            ELSE /\ current_write \in Follow(writes)
                 /\ heap[current_write].live /\ heap[current_write].next = NULL

(***************************************************************************)
(* As long as no entry was left without memory for its data, the chain is  *)
(* sound between bios: its end is where appends go, and the entries on it  *)
(* are exactly the allocated ones, so free_logs neither misses one nor     *)
(* frees one twice, and the reader stands on it.                           *)
(***************************************************************************)
ChainSound ==
    ~failed /\ Idle =>
      /\ TailIsLast
      /\ Follow(writes) = {n \in Node : heap[n].live}
      /\ current_log_write \in Follow(writes) \cup {NULL}

(***************************************************************************)
(* What get_wrapper_log returns is what the file system sent to the target *)
(* while logging was on, in the order in which it did, each with its own   *)
(* data: nothing from an earlier session, nothing twice, nothing left out  *)
(* but the bios for which no entry could be allocated.  Only the data of a *)
(* discard, which has none, is made up.                                    *)
(***************************************************************************)
LogFaithful ==
    hpc = "read" /\ ~failed =>
        /\ Len(log_data) = Len(sent)
        /\ \A k \in DOMAIN sent :
             \/ log_data[k] = sent[k]
             \/ "DISCARD" \in sent[k].bi_rw /\ [log_data[k] EXCEPT !.data = NoData] = sent[k]

(***************************************************************************)
(* get_wrapper_log's loop ends: HWM_NEXT_ENT moves along a chain without a *)
(* cycle, so HWM_GET_LOG_META comes to answer ENODATA.                     *)
(***************************************************************************)
DrainEnds == (hpc = "meta" /\ ~failed) ~> hpc = "read"
============================================================================
