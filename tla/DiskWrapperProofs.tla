------------------------- MODULE DiskWrapperProofs -------------------------
(***************************************************************************)
(* Proofs about DiskWrapper for every memory, workload, number of bios and *)
(* sessions: the types for any number of submitting threads, the chain and *)
(* the log for one, which is all the wrapper is written for.               *)
(***************************************************************************)
EXTENDS DiskWrapper, DataInduction, FiniteSetTheorems

\* The contents a node of kernel memory can have.
Entries == [live : BOOLEAN, meta : Bios \cup {NoBio}, data : Payload \cup {NoData},
            next : Node \cup {NULL}]

\* Where a bio is in disk_wrapper_bio, and what its thread then holds.
ThreadInv ==
    \A t \in Thread :
        /\ pc[t] # "idle" => bio[t] \in Bios
        /\ pc[t] \in {"link", "tail", "data"} => write[t] \in Node
        /\ pc[t] \in {"idle", "node"} => write[t] = NULL
        /\ pc[t] = "node" \/ write[t] # NULL => Logged(bio[t])

\* The threads inside disk_wrapper_bio.
Busy == {t \in Thread : pc[t] # "idle"}

\* A submitted bio is in the wrapper or has been passed on, once.
SubmittedInv ==
    IsFiniteSet(Busy) /\ Cardinality(Busy) \in Nat /\ Len(sent) + Cardinality(Busy) <= submitted

\* The reader asks for an entry only where there is one.
ReaderInv == hpc \in {"data", "next"} => current_log_write # NULL

TypeInv == TypeOK /\ ThreadInv /\ SubmittedInv /\ ReaderInv

-----------------------------------------------------------------------------
(* Types *)

\* A bio and an unused entry have their types.
LEMMA ConstantTypes ==
    /\ FreeNode \in Entries
    /\ Bios \cup {NoBio} \subseteq DiskWrites
    /\ NULL \notin Node
  <1>1. NoBio \in DiskWrites
    BY DEF NoBio, DiskWrites
  <1>2. FreeNode \in Entries
    BY DEF FreeNode, Entries
  <1> QED BY <1>1, <1>2, WrapperAssumption

\* The wrapper is loaded and nothing is recorded.
LEMMA InitType == Init => TypeInv
  <1> SUFFICES ASSUME Init PROVE TypeInv
    OBVIOUS
  <1>1. TypeOK
    <2>1. heap \in [Node -> Entries]
      BY ConstantTypes DEF Init
    <2>2. <<>> \in Seq(DiskWrites) /\ <<>> \in Seq(Bios) /\ Len(<<>>) = 0
      OBVIOUS
    <2>3. 1 \in 1..MaxSessions /\ 0 \in 0..MaxBios /\ 0 <= MaxRead /\ 0 <= MaxBios
      BY WrapperAssumption
    <2> QED BY <2>1, <2>2, <2>3 DEF Init, TypeOK, Entries
  <1>2. ThreadInv
    BY DEF Init, ThreadInv
  <1>3. SubmittedInv
    <2>1. Busy = {}
      BY DEF Init, Busy
    <2>2. sent = <<>> /\ submitted = 0
      BY DEF Init
    <2> QED BY <2>1, <2>2, FS_EmptySet DEF SubmittedInv
  <1> QED BY <1>1, <1>2, <1>3 DEF TypeInv, ReaderInv, Init

\* The part of the type invariant about the threads, when thread t alone moves on.
LEMMA ThreadMoves ==
    ASSUME TypeInv, NEW t \in Thread, NEW p, NEW b, NEW w,
           pc' = [pc EXCEPT ![t] = p], bio' = [bio EXCEPT ![t] = b],
           write' = [write EXCEPT ![t] = w],
           p \in {"idle", "node", "link", "tail", "data", "pass"}, b \in Bios \cup {NoBio},
           w \in Node \cup {NULL},
           p # "idle" => b \in Bios,
           p \in {"link", "tail", "data"} => w \in Node,
           p \in {"idle", "node"} => w = NULL,
           p = "node" \/ w # NULL => Logged(b)
    PROVE  /\ pc' \in [Thread -> {"idle", "node", "link", "tail", "data", "pass"}]
           /\ bio' \in [Thread -> Bios \cup {NoBio}]
           /\ write' \in [Thread -> Node \cup {NULL}]
           /\ ThreadInv'
           /\ pc'[t] = p /\ \A u \in Thread \ {t} : pc'[u] = pc[u]
  <1>1. /\ pc \in [Thread -> {"idle", "node", "link", "tail", "data", "pass"}]
        /\ bio \in [Thread -> Bios \cup {NoBio}] /\ write \in [Thread -> Node \cup {NULL}]
        /\ ThreadInv
    BY DEF TypeInv, TypeOK
  <1>2. /\ pc'[t] = p /\ bio'[t] = b /\ write'[t] = w
        /\ \A u \in Thread \ {t} : pc'[u] = pc[u] /\ bio'[u] = bio[u] /\ write'[u] = write[u]
    BY <1>1
  <1>3. ThreadInv'
    BY <1>1, <1>2 DEF ThreadInv
  <1> QED BY <1>1, <1>2, <1>3

\* A step inside the wrapper keeps the count of the bios in it.
LEMMA BusyKept ==
    ASSUME SubmittedInv, NEW t \in Thread, NEW p, pc[t] # "idle", p # "idle",
           pc'[t] = p, \A u \in Thread \ {t} : pc'[u] = pc[u],
           sent' = sent, submitted' = submitted
    PROVE  SubmittedInv'
  <1>1. Busy' = Busy
    BY DEF Busy
  <1> QED BY <1>1 DEF SubmittedInv

\* The device and the entries keep their types.
DeviceTypeOK ==
    /\ log_on \in BOOLEAN /\ failed \in BOOLEAN
    /\ {writes, current_write, current_log_write} \subseteq Node \cup {NULL}
    /\ heap \in [Node -> Entries]

ThreadTypeOK ==
    /\ pc \in [Thread -> {"idle", "node", "link", "tail", "data", "pass"}]
    /\ bio \in [Thread -> Bios \cup {NoBio}]
    /\ write \in [Thread -> Node \cup {NULL}]

HarnessTypeOK ==
    /\ hpc \in {"clear", "on", "off", "meta", "data", "next", "read"}
    /\ meta \in Bios \cup {NoBio} /\ got \in Payload \cup {NoData}
    /\ sessions \in 1..MaxSessions
    /\ log_data \in Seq(DiskWrites) /\ Len(log_data) <= MaxRead

CountTypeOK == submitted \in 0..MaxBios /\ sent \in Seq(Bios)

\* TypeInv in parts.
LEMMA TypeInvParts ==
    /\ TypeInv => /\ DeviceTypeOK /\ ThreadTypeOK /\ HarnessTypeOK /\ CountTypeOK
                  /\ ThreadInv /\ SubmittedInv /\ ReaderInv
    /\ DeviceTypeOK' /\ ThreadTypeOK' /\ HarnessTypeOK' /\ CountTypeOK' /\ ThreadInv'
       /\ SubmittedInv' /\ ReaderInv' => TypeInv'
  <1>1. TypeInv => /\ DeviceTypeOK /\ ThreadTypeOK /\ HarnessTypeOK /\ CountTypeOK
                   /\ ThreadInv /\ SubmittedInv /\ ReaderInv
    BY DEF TypeInv, TypeOK, DeviceTypeOK, ThreadTypeOK, HarnessTypeOK, CountTypeOK, Entries
  <1>2. CountTypeOK' /\ SubmittedInv' => Len(sent') <= MaxBios
    BY WrapperAssumption DEF CountTypeOK, SubmittedInv
  <1>3. DeviceTypeOK' /\ ThreadTypeOK' /\ HarnessTypeOK' /\ CountTypeOK' /\ ThreadInv'
       /\ SubmittedInv' /\ ReaderInv' => TypeInv'
    BY <1>2, Zenon DEF TypeInv, TypeOK, DeviceTypeOK, ThreadTypeOK, HarnessTypeOK, CountTypeOK,
       Entries
  <1> QED BY <1>1, <1>3

\* The harness's part when a bio moves.
LEMMA HarnessKept ==
    ASSUME HarnessTypeOK, UNCHANGED harness PROVE HarnessTypeOK'
  BY DEF HarnessTypeOK, harness

\* Every step of disk_wrapper_bio, of any thread, keeps TypeInv.
LEMMA BioType == ASSUME TypeInv, NEW t \in Thread, disk_wrapper_bio(t) PROVE TypeInv'
  <1>1. /\ DeviceTypeOK /\ ThreadTypeOK /\ HarnessTypeOK /\ CountTypeOK
        /\ ThreadInv /\ SubmittedInv /\ ReaderInv
    BY TypeInvParts
  <1>2. UNCHANGED harness
    BY DEF disk_wrapper_bio, Arrive, NodeFails, NewNode, LinkFirst, LinkNext, SetTail,
       DataFails, CopyData, Pass
  <1>3. HarnessTypeOK'
    BY <1>1, <1>2, HarnessKept
  <1> SUFFICES DeviceTypeOK' /\ ThreadTypeOK' /\ CountTypeOK' /\ ThreadInv' /\ SubmittedInv'
               /\ ReaderInv'
    BY <1>3, TypeInvParts
  <1> DEFINE p == pc[t]
             b == bio[t]
             w == write[t]
  <1>4. /\ p \in {"idle", "node", "link", "tail", "data", "pass"} /\ b \in Bios \cup {NoBio}
        /\ w \in Node \cup {NULL}
        /\ p # "idle" => b \in Bios
        /\ p \in {"link", "tail", "data"} => w \in Node
        /\ p \in {"idle", "node"} => w = NULL
        /\ p = "node" \/ w # NULL => Logged(b)
        /\ pc = [pc EXCEPT ![t] = p] /\ bio = [bio EXCEPT ![t] = b]
        /\ write = [write EXCEPT ![t] = w]
    BY <1>1 DEF ThreadTypeOK, ThreadInv
  <1> DEFINE Moved == /\ ThreadTypeOK' /\ ThreadInv'
                      /\ \A u \in Thread \ {t} : pc'[u] = pc[u]
  <1>5. ASSUME NEW q, NEW c, NEW n,
               pc' = [pc EXCEPT ![t] = q], bio' = [bio EXCEPT ![t] = c],
               write' = [write EXCEPT ![t] = n],
               q \in {"idle", "node", "link", "tail", "data", "pass"}, c \in Bios \cup {NoBio},
               n \in Node \cup {NULL},
               q # "idle" => c \in Bios,
               q \in {"link", "tail", "data"} => n \in Node,
               q \in {"idle", "node"} => n = NULL,
               q = "node" \/ n # NULL => Logged(c)
        PROVE  Moved /\ pc'[t] = q
    <2> HIDE DEF p, b, w
    <2> QED BY <1>5, ThreadMoves DEF ThreadTypeOK
  <1>6. ASSUME DeviceTypeOK', Moved, pc[t] # "idle", pc'[t] # "idle", ReaderInv',
               sent' = sent, submitted' = submitted
        PROVE  DeviceTypeOK' /\ ThreadTypeOK' /\ CountTypeOK' /\ ThreadInv' /\ SubmittedInv'
               /\ ReaderInv'
    <2>1. SubmittedInv'
      BY <1>1, <1>6, BusyKept
    <2> QED BY <1>1, <1>6, <2>1 DEF CountTypeOK
  <1>7. ASSUME UNCHANGED device, UNCHANGED heap, UNCHANGED failed
        PROVE  DeviceTypeOK' /\ ReaderInv'
    BY <1>1, <1>2, <1>7 DEF DeviceTypeOK, ReaderInv, device, harness
  <1> HIDE DEF Moved
  <1>8. CASE Arrive(t)
    <2>1. PICK c \in Bios :
            /\ bio' = [bio EXCEPT ![t] = c]
            /\ pc' = [pc EXCEPT ![t] = IF log_on /\ Logged(c) THEN "node" ELSE "pass"]
      BY <1>8 DEF Arrive
    <2> DEFINE q == IF log_on /\ Logged(c) THEN "node" ELSE "pass"
    <2>2. q \in {"node", "pass"} /\ (q = "node" => Logged(c)) /\ write' = write /\ pc[t] = "idle"
          /\ w = NULL /\ pc' = [pc EXCEPT ![t] = q] /\ write' = [write EXCEPT ![t] = w]
      BY <1>4, <1>8, <2>1 DEF Arrive
    <2> HIDE DEF q, p, b, w
    <2>3. Moved /\ pc'[t] = q
      BY <1>5, <2>1, <2>2
    <2>4. sent' = sent /\ submitted' = submitted + 1 /\ submitted < MaxBios
      BY <1>8 DEF Arrive
    <2>5. SubmittedInv'
      <3>1. Busy' = Busy \cup {t} /\ t \notin Busy
        BY <2>2, <2>3 DEF Busy, Moved
      <3>2. IsFiniteSet(Busy') /\ Cardinality(Busy') = Cardinality(Busy) + 1
        BY <1>1, <3>1, FS_AddElement DEF SubmittedInv
      <3>3. Len(sent) \in Nat /\ submitted \in Nat
        BY <1>1 DEF CountTypeOK
      <3> HIDE DEF Busy
      <3> QED BY <1>1, <2>4, <3>2, <3>3 DEF SubmittedInv
    <2>6. CountTypeOK'
      BY <1>1, <2>4, WrapperAssumption DEF CountTypeOK
    <2>7. DeviceTypeOK' /\ ReaderInv'
      BY <1>7, <1>8 DEF Arrive
    <2> QED BY <2>3, <2>5, <2>6, <2>7 DEF Moved
  <1>9. CASE NodeFails(t)
    <2>1. p = "node" /\ pc' = [pc EXCEPT ![t] = "pass"] /\ bio' = bio /\ write' = write
          /\ sent' = sent /\ submitted' = submitted
      BY <1>9 DEF NodeFails
    <2>2. Moved /\ pc'[t] = "pass"
      <3> HIDE DEF p, b, w
      <3> QED BY <1>4, <1>5, <2>1
    <2> QED BY <1>6, <1>7, <1>9, <2>1, <2>2 DEF NodeFails
  <1>10. CASE NewNode(t)
    <2>1. PICK n \in Node :
            /\ heap' = [heap EXCEPT ![n] = [live |-> TRUE, meta |-> bio[t],
                                            data |-> NoData, next |-> NULL]]
            /\ write' = [write EXCEPT ![t] = n]
      BY <1>10 DEF NewNode
    <2>2. p = "node" /\ pc' = [pc EXCEPT ![t] = "link"] /\ bio' = bio
          /\ sent' = sent /\ submitted' = submitted /\ UNCHANGED device /\ failed' = failed
      BY <1>10 DEF NewNode
    <2>3. Moved /\ pc'[t] = "link"
      <3> HIDE DEF p, b, w
      <3> QED BY <1>4, <1>5, <2>1, <2>2
    <2>4. [live |-> TRUE, meta |-> bio[t], data |-> NoData, next |-> NULL] \in Entries
      BY <1>4 DEF Entries
    <2>5. DeviceTypeOK' /\ ReaderInv'
      BY <1>1, <1>2, <2>1, <2>2, <2>4 DEF DeviceTypeOK, ReaderInv, device, harness
    <2> QED BY <1>6, <2>2, <2>3, <2>5
  <1>11. CASE LinkFirst(t)
    <2>1. p = "link" /\ pc' = [pc EXCEPT ![t] = "tail"] /\ bio' = bio /\ write' = write
          /\ sent' = sent /\ submitted' = submitted
      BY <1>11 DEF LinkFirst
    <2>2. Moved /\ pc'[t] = "tail" /\ w \in Node
      <3> HIDE DEF p, b, w
      <3> QED BY <1>4, <1>5, <2>1
    <2>3. DeviceTypeOK' /\ ReaderInv'
      BY <1>1, <1>11, <2>2, ConstantTypes DEF DeviceTypeOK, ReaderInv, LinkFirst
    <2> QED BY <1>6, <2>1, <2>2, <2>3
  <1>12. CASE LinkNext(t)
    <2>1. p = "link" /\ pc' = [pc EXCEPT ![t] = "tail"] /\ bio' = bio /\ write' = write
          /\ sent' = sent /\ submitted' = submitted
      BY <1>12 DEF LinkNext
    <2>2. Moved /\ pc'[t] = "tail" /\ w \in Node
      <3> HIDE DEF p, b, w
      <3> QED BY <1>4, <1>5, <2>1
    <2>3. heap' \in [Node -> Entries]
      BY <1>1, <1>12, <2>2 DEF DeviceTypeOK, LinkNext, Entries
    <2>4. DeviceTypeOK' /\ ReaderInv'
      BY <1>1, <1>2, <1>12, <2>3 DEF DeviceTypeOK, ReaderInv, LinkNext, device, harness
    <2> QED BY <1>6, <2>1, <2>2, <2>4
  <1>13. CASE SetTail(t)
    <2>1. p = "tail" /\ pc' = [pc EXCEPT ![t] = "data"] /\ bio' = bio /\ write' = write
          /\ sent' = sent /\ submitted' = submitted
      BY <1>13 DEF SetTail
    <2>2. Moved /\ pc'[t] = "data" /\ w \in Node
      <3> HIDE DEF p, b, w
      <3> QED BY <1>4, <1>5, <2>1
    <2>3. DeviceTypeOK' /\ ReaderInv'
      BY <1>1, <1>2, <1>13, <2>2 DEF DeviceTypeOK, ReaderInv, SetTail, harness
    <2> QED BY <1>6, <2>1, <2>2, <2>3
  <1>14. CASE DataFails(t)
    <2>1. p = "data" /\ pc' = [pc EXCEPT ![t] = "pass"] /\ bio' = bio
          /\ write' = [write EXCEPT ![t] = NULL]
          /\ sent' = sent /\ submitted' = submitted
      BY <1>14 DEF DataFails
    <2>2. Moved /\ pc'[t] = "pass" /\ w \in Node
      <3> HIDE DEF p, b, w
      <3> QED BY <1>4, <1>5, <2>1
    <2>3. heap' \in [Node -> Entries]
      BY <1>1, <1>14, <2>2 DEF DeviceTypeOK, DataFails, Entries
    <2>4. DeviceTypeOK' /\ ReaderInv'
      BY <1>1, <1>2, <1>14, <2>3 DEF DeviceTypeOK, ReaderInv, DataFails, device, harness
    <2> QED BY <1>6, <2>1, <2>2, <2>4
  <1>15. CASE CopyData(t)
    <2>1. p = "data" /\ pc' = [pc EXCEPT ![t] = "pass"] /\ bio' = bio /\ write' = write
          /\ sent' = sent /\ submitted' = submitted
      BY <1>15 DEF CopyData
    <2>2. Moved /\ pc'[t] = "pass" /\ w \in Node
      <3> HIDE DEF p, b, w
      <3> QED BY <1>4, <1>5, <2>1
    <2>3. PICK d \in CopiedData(b) : heap' = [heap EXCEPT ![w].data = d]
      BY <1>15 DEF CopyData
    <2>4. d \in Payload \cup {NoData}
      <3>1. b.data \in Payload \cup {NoData}
        BY <1>4, ConstantTypes DEF DiskWrites
      <3> QED BY <3>1 DEF CopiedData
    <2>5. heap' \in [Node -> Entries]
      BY <1>1, <2>2, <2>3, <2>4 DEF DeviceTypeOK, Entries
    <2>6. DeviceTypeOK' /\ ReaderInv'
      BY <1>1, <1>2, <1>15, <2>5 DEF DeviceTypeOK, ReaderInv, CopyData, device, harness
    <2> QED BY <1>6, <2>1, <2>2, <2>6
  <1>16. CASE Pass(t)
    <2>1. p = "pass" /\ pc' = [pc EXCEPT ![t] = "idle"] /\ bio' = [bio EXCEPT ![t] = NoBio]
          /\ write' = [write EXCEPT ![t] = NULL] /\ submitted' = submitted
          /\ sent' \in {sent, Append(sent, b)}
      BY <1>16 DEF Pass
    <2>2. Moved /\ pc'[t] = "idle" /\ b \in Bios
      <3> HIDE DEF p, b, w
      <3> QED BY <1>4, <1>5, <2>1
    <2>3. sent \in Seq(Bios) /\ Len(sent) \in Nat
      BY <1>1 DEF CountTypeOK
    <2>4. sent' \in Seq(Bios) /\ Len(sent') \in Nat /\ Len(sent') <= Len(sent) + 1
      <3>1. Append(sent, b) \in Seq(Bios) /\ Len(Append(sent, b)) = Len(sent) + 1
        BY <2>2, <2>3
      <3> QED BY <2>1, <2>3, <3>1
    <2>5. SubmittedInv'
      <3>1. Busy' = Busy \ {t} /\ t \in Busy
        BY <2>1, <2>2 DEF Busy, Moved
      <3>2. IsFiniteSet(Busy') /\ Cardinality(Busy') = Cardinality(Busy) - 1
        BY <1>1, <3>1, FS_RemoveElement DEF SubmittedInv
      <3>3. Cardinality(Busy') \in Nat
        BY <3>2, FS_CardinalityType
      <3>4. submitted \in Nat
        BY <1>1 DEF CountTypeOK
      <3> HIDE DEF Busy
      <3> QED BY <1>1, <2>1, <2>3, <2>4, <3>2, <3>3, <3>4 DEF SubmittedInv
    <2>6. CountTypeOK'
      BY <1>1, <2>1, <2>4 DEF CountTypeOK
    <2>7. DeviceTypeOK' /\ ReaderInv'
      BY <1>7, <1>16 DEF Pass
    <2> QED BY <2>2, <2>5, <2>6, <2>7 DEF Moved
  <1> QED BY <1>8, <1>9, <1>10, <1>11, <1>12, <1>13, <1>14, <1>15, <1>16 DEF disk_wrapper_bio

\* Every call of the harness keeps TypeInv.
LEMMA HarnessType == ASSUME TypeInv, Harness \/ SameWrapper \/ Reload PROVE TypeInv'
  <1>1. /\ DeviceTypeOK /\ ThreadTypeOK /\ HarnessTypeOK /\ CountTypeOK
        /\ ThreadInv /\ SubmittedInv /\ ReaderInv
    BY TypeInvParts
  <1>2. UNCHANGED <<pc, bio, write, submitted>> /\ sent' \in {sent, <<>>}
    BY DEF Harness, HWM_CLR_LOG, HWM_LOG_ON, HWM_LOG_OFF, HWM_GET_LOG_META,
       HWM_GET_LOG_DATA, HWM_NEXT_ENT, SameWrapper, Reload, NewSession
  <1>3. ThreadTypeOK' /\ ThreadInv'
    BY <1>1, <1>2 DEF ThreadTypeOK, ThreadInv
  <1>4. CountTypeOK' /\ SubmittedInv'
    <2>1. Busy' = Busy
      BY <1>2 DEF Busy
    <2>2. sent' \in Seq(Bios) /\ Len(sent') \in Nat /\ Len(sent') <= Len(sent) /\ Len(sent) \in Nat
      <3>1. <<>> \in Seq(Bios) /\ Len(<<>>) = 0 /\ sent \in Seq(Bios) /\ Len(sent) \in Nat
        BY <1>1 DEF CountTypeOK
      <3>2. CASE sent' = sent
        BY <3>1, <3>2
      <3>3. CASE sent' = <<>>
        BY <3>1, <3>3
      <3> QED BY <1>2, <3>2, <3>3
    <2>3. submitted \in Nat
      BY <1>1 DEF CountTypeOK
    <2> QED BY <1>1, <1>2, <2>1, <2>2, <2>3 DEF CountTypeOK, SubmittedInv
  <1> SUFFICES DeviceTypeOK' /\ HarnessTypeOK' /\ ReaderInv'
    BY <1>3, <1>4, TypeInvParts
  <1>5. CASE HWM_CLR_LOG
    <2>1. heap' \in [Node -> Entries]
      BY <1>1, <1>5, ConstantTypes DEF HWM_CLR_LOG, DeviceTypeOK
    <2> QED BY <1>1, <1>5, <2>1 DEF HWM_CLR_LOG, DeviceTypeOK, HarnessTypeOK, ReaderInv
  <1>6. CASE HWM_LOG_ON \/ HWM_LOG_OFF
    BY <1>1, <1>6 DEF HWM_LOG_ON, HWM_LOG_OFF, DeviceTypeOK, HarnessTypeOK, ReaderInv
  <1>7. CASE HWM_GET_LOG_META
    <2>1. current_log_write # NULL => heap[current_log_write] \in Entries
      BY <1>1 DEF DeviceTypeOK
    <2>2. current_log_write # NULL => heap[current_log_write].meta \in Bios \cup {NoBio}
      BY <2>1 DEF Entries
    <2> QED BY <1>1, <1>7, <2>2 DEF HWM_GET_LOG_META, DeviceTypeOK, HarnessTypeOK, ReaderInv,
            device
  <1>8. CASE HWM_GET_LOG_DATA
    <2>1. current_log_write # NULL
      BY <1>1, <1>8 DEF HWM_GET_LOG_DATA, ReaderInv
    <2>2. heap[current_log_write] \in Entries
      BY <1>1, <2>1 DEF DeviceTypeOK
    <2>3. got' \in Payload \cup {NoData}
      BY <1>8, <2>2 DEF HWM_GET_LOG_DATA, Entries
    <2> QED BY <1>1, <1>8, <2>1, <2>3 DEF HWM_GET_LOG_DATA, DeviceTypeOK, HarnessTypeOK,
            ReaderInv, device
  <1>9. CASE HWM_NEXT_ENT
    <2>1. current_log_write # NULL
      BY <1>1, <1>9 DEF HWM_NEXT_ENT, ReaderInv
    <2>2. heap[current_log_write] \in Entries
      BY <1>1, <2>1 DEF DeviceTypeOK
    <2>3. current_log_write' \in Node \cup {NULL}
      BY <1>9, <2>2 DEF HWM_NEXT_ENT, Entries
    <2>4. [meta EXCEPT !.data = got] \in DiskWrites
      <3>1. meta \in DiskWrites /\ got \in Payload \cup {NoData}
        BY <1>1, ConstantTypes DEF HarnessTypeOK
      <3> QED BY <3>1 DEF DiskWrites
    <2>5. log_data' \in Seq(DiskWrites) /\ Len(log_data') <= MaxRead
      <3>1. log_data \in Seq(DiskWrites) /\ log_data' = Append(log_data, [meta EXCEPT !.data = got])
            /\ Len(log_data) < MaxRead /\ MaxRead \in Nat
        BY <1>1, <1>9, WrapperAssumption DEF HWM_NEXT_ENT, HarnessTypeOK
      <3> QED BY <2>4, <3>1
    <2> QED BY <1>1, <1>9, <2>3, <2>5 DEF HWM_NEXT_ENT, DeviceTypeOK, HarnessTypeOK, ReaderInv
  <1>10. CASE SameWrapper \/ Reload
    <2>1. sessions' \in 1..MaxSessions /\ log_data' = <<>> /\ hpc' = "clear"
          /\ meta' = meta /\ got' = got
      BY <1>1, <1>10, WrapperAssumption DEF SameWrapper, Reload, NewSession, HarnessTypeOK
    <2>2. <<>> \in Seq(DiskWrites) /\ Len(<<>>) <= MaxRead
      BY WrapperAssumption
    <2>3. HarnessTypeOK' /\ ReaderInv'
      BY <1>1, <2>1, <2>2 DEF HarnessTypeOK, ReaderInv
    <2>4. CASE SameWrapper
      BY <1>1, <2>3, <2>4 DEF SameWrapper, DeviceTypeOK, device
    <2>5. CASE Reload
      <3>1. heap' \in [Node -> Entries]
        BY <2>5, ConstantTypes DEF Reload
      <3> QED BY <2>3, <2>5, <3>1 DEF Reload, DeviceTypeOK
    <2> QED BY <1>10, <2>4, <2>5
  <1> QED BY <1>5, <1>6, <1>7, <1>8, <1>9, <1>10 DEF Harness

\* Every step keeps TypeInv.
LEMMA TypeInvNext == TypeInv /\ [Next]_vars => TypeInv'
  <1> SUFFICES ASSUME TypeInv, [Next]_vars PROVE TypeInv'
    OBVIOUS
  <1>1. CASE UNCHANGED vars
    BY <1>1 DEF vars, TypeInv, TypeOK, ThreadInv, SubmittedInv, Busy, ReaderInv
  <1> QED BY <1>1, BioType, HarnessType DEF Next

\* TypeInv holds in every state.
LEMMA TypeInvHolds == Spec => []TypeInv
  BY InitType, TypeInvNext, PTL DEF Spec

(***************************************************************************)
(* The fields of Device, the entries and the harness's copies keep their   *)
(* types with any number of threads submitting bios at once, although they *)
(* race.  It takes that no thread and no reader follows a null pointer     *)
(* (ThreadInv, ReaderInv) and that a bio is passed on once (SubmittedInv). *)
(***************************************************************************)
THEOREM TypeCorrect == Spec => []TypeOK
  <1>1. TypeInv => TypeOK
    BY DEF TypeInv
  <1> QED BY <1>1, TypeInvHolds, PTL

-----------------------------------------------------------------------------
(***************************************************************************)
(* The chain of entries that writes points to, as a sequence c of nodes.   *)
(***************************************************************************)
\* The node at place k of the chain, or the null pointer past its ends.
At(c, k) == IF k \in 1..Len(c) THEN c[k] ELSE NULL

\* In memory h, the entries c are distinct, allocated, and each points to the next.
Linked(h, c) ==
    /\ c \in Seq(Node)
    /\ \A j, k \in 1..Len(c) : c[j] = c[k] => j = k
    /\ \A k \in 1..Len(c) : h[c[k]].live /\ h[c[k]].next = At(c, k + 1)

\* The nodes of the chain.
Members(c) == {c[k] : k \in 1..Len(c)}

\* A chain is no longer than there is memory.
LEMMA ChainFits ==
    ASSUME NEW h, NEW c, Linked(h, c)
    PROVE  Len(c) \in Nat /\ Cardinality(Node) \in Nat /\ Len(c) <= Cardinality(Node)
  <1>1. Len(c) \in Nat /\ c \in [1..Len(c) -> Node]
    BY DEF Linked
  <1>2. IsFiniteSet(Node) /\ Cardinality(Node) \in Nat
    BY WrapperAssumption, FS_CardinalityType
  <1>3. IsFiniteSet(1..Len(c)) /\ Cardinality(1..Len(c)) = Len(c)
    BY <1>1, FS_Interval
  <1> SUFFICES ASSUME ~(Len(c) <= Cardinality(Node)) PROVE FALSE
    BY <1>1, <1>2
  <1>4. Cardinality(Node) < Cardinality(1..Len(c))
    BY <1>1, <1>2, <1>3
  <1>5. \E x, y \in 1..Len(c) : x # y /\ c[x] = c[y]
    BY <1>1, <1>2, <1>3, <1>4, FS_PigeonHole
  <1> QED BY <1>5 DEF Linked

\* Following the chain from its first entry finds its entries and no other node.
LEMMA FollowChain ==
    ASSUME NEW c, Linked(heap, c), writes = At(c, 1)
    PROVE  Follow(writes) = Members(c)
  <1> DEFINE N == Cardinality(Node)
             L == Len(c)
             more(s) == {heap[m].next : m \in s \ {NULL}}
             Def(f) == f = [k \in 0..N |-> IF k = 0 THEN {writes} ELSE f[k - 1] \cup more(f[k - 1])]
             step == CHOOSE f : Def(f)
             reach(k) == {At(c, j) : j \in 1..(k + 1)}
             g == [k \in 0..N |-> reach(k)]
  <1>1. Follow(writes) = step[N] \ {NULL}
    BY DEF Follow
  <1>2. L \in Nat /\ N \in Nat /\ L <= N
    BY ChainFits
  <1>3. /\ \A k \in 1..L : At(c, k) = c[k] /\ c[k] \in Node /\ c[k] # NULL
        /\ \A k \in Nat : k \notin 1..L => At(c, k) = NULL
        /\ \A k \in 1..L : heap[c[k]].next = At(c, k + 1)
    BY WrapperAssumption DEF At, Linked
  <1> HIDE DEF N, L
  <1>4. reach(0) = {writes}
    OBVIOUS
  <1>5. ASSUME NEW k \in Nat, k # 0 PROVE reach(k) = reach(k - 1) \cup more(reach(k - 1))
    <2>1. ASSUME NEW j \in 1..(k + 1) PROVE At(c, j) \in reach(k - 1) \cup more(reach(k - 1))
      <3>1. CASE j \in 1..k
        <4>1. j \in 1..((k - 1) + 1)
          BY <3>1
        <4> QED BY <4>1
      <3>2. CASE j = k + 1
        <4>1. k \in 1..((k - 1) + 1) /\ At(c, k) \in reach(k - 1)
          BY <1>5
        <4>2. CASE k \in 1..L
          <5>1. c[k] \in reach(k - 1) \ {NULL} /\ heap[c[k]].next = At(c, k + 1)
            BY <1>3, <4>1, <4>2
          <5> HIDE DEF reach
          <5> QED BY <3>2, <5>1
        <4>3. CASE k \notin 1..L
          <5>1. k + 1 \notin 1..L /\ k + 1 \in Nat
            BY <1>2, <1>5, <4>3
          <5>2. At(c, k) = NULL /\ At(c, k + 1) = NULL
            BY <1>3, <4>3, <5>1
          <5> HIDE DEF reach
          <5> QED BY <3>2, <4>1, <5>2
        <4> QED BY <4>2, <4>3
      <3> QED BY <1>5, <3>1, <3>2
    <2>2. ASSUME NEW j \in 1..((k - 1) + 1)
          PROVE  At(c, j) \in reach(k) /\ (At(c, j) # NULL => heap[At(c, j)].next \in reach(k))
      <3>1. j \in 1..(k + 1) /\ j + 1 \in 1..(k + 1) /\ j \in Nat
        BY <1>5
      <3>2. At(c, j) \in reach(k) /\ At(c, j + 1) \in reach(k)
        BY <3>1
      <3>3. At(c, j) # NULL => heap[At(c, j)].next = At(c, j + 1)
        BY <1>3, <3>1
      <3> HIDE DEF reach
      <3> QED BY <3>2, <3>3
    <2>3. reach(k) \subseteq reach(k - 1) \cup more(reach(k - 1))
      <3> HIDE DEF more
      <3> QED BY <2>1
    <2>4. reach(k - 1) \subseteq reach(k) /\ more(reach(k - 1)) \subseteq reach(k)
      <3>1. \A m \in reach(k - 1) : m \in reach(k) /\ (m # NULL => heap[m].next \in reach(k))
        BY <2>2
      <3> HIDE DEF reach
      <3> QED BY <3>1
    <2> HIDE DEF reach, more
    <2> QED BY <2>3, <2>4
  <1> HIDE DEF reach, more
  <1>6. Def(g)
    <2>1. ASSUME NEW k \in 0..N
          PROVE  reach(k) = IF k = 0 THEN {writes} ELSE g[k - 1] \cup more(g[k - 1])
      <3>1. CASE k = 0
        BY <1>4, <3>1
      <3>2. CASE k # 0
        <4>1. k \in Nat /\ k - 1 \in 0..N
          BY <1>2, <3>2
        <4>2. g[k - 1] = reach(k - 1)
          BY <4>1
        <4> QED BY <1>5, <3>2, <4>1, <4>2
      <3> QED BY <3>1, <3>2
    <2>2. g = [k \in 0..N |-> IF k = 0 THEN {writes} ELSE g[k - 1] \cup more(g[k - 1])]
      BY <2>1
    <2> QED BY <2>2
  <1>7. Def(step)
    <2> HIDE DEF Def
    <2> QED BY <1>6
  <1> HIDE DEF step, g
  <1> DEFINE S == {k \in Nat : k \in 0..N => step[k] = reach(k)}
  <1>8. 0 \in S
    BY <1>2, <1>4, <1>7
  <1>9. ASSUME NEW k \in Nat, k \in S PROVE k + 1 \in S
    <2> SUFFICES ASSUME k + 1 \in 0..N PROVE step[k + 1] = reach(k + 1)
      OBVIOUS
    <2>1. k \in 0..N /\ (k + 1) - 1 = k /\ k + 1 # 0 /\ k + 1 \in Nat
      BY <1>2
    <2>2. step[k + 1] = step[k] \cup more(step[k])
      BY <1>7, <2>1
    <2>3. reach(k + 1) = reach(k) \cup more(reach(k))
      BY <1>5, <2>1
    <2> QED BY <1>9, <2>1, <2>2, <2>3
  <1>10. \A k \in Nat : k \in S
    <2> HIDE DEF S
    <2> QED BY <1>8, <1>9, NatInduct
  <1>11. step[N] = reach(N)
    BY <1>2, <1>10
  <1>12. reach(N) \ {NULL} = {c[k] : k \in 1..L}
    <2>1. ASSUME NEW k \in 1..L PROVE c[k] \in reach(N) \ {NULL}
      <3>1. k \in 1..(N + 1)
        BY <1>2
      <3> QED BY <1>3, <3>1 DEF reach
    <2>2. ASSUME NEW j \in 1..(N + 1), At(c, j) # NULL PROVE j \in 1..L /\ At(c, j) = c[j]
      BY <1>2, <1>3, <2>2
    <2> QED BY <2>1, <2>2 DEF reach
  <1> QED BY <1>1, <1>11, <1>12 DEF Members, L

-----------------------------------------------------------------------------
\* Entry n of the chain was made for bio b.
Records(h, n, b) == h[n].meta = b /\ h[n].data \in CopiedData(b) /\ Logged(b) /\ b \in Bios

\* What get_wrapper_log makes of entry n.
Entry(h, n) == [h[n].meta EXCEPT !.data = h[n].data]

\* Bios are logged only between HWM_LOG_ON and HWM_LOG_OFF.
FlowInv(t) ==
    /\ log_on => hpc = "off"
    /\ hpc # "off" => pc[t] \in {"idle", "pass"} /\ write[t] = NULL

\* The nodes that are allocated.
Live(h) == {n \in Node : h[n].live}

\* The chain c, as thread t leaves it at each step: the end of it lags behind while
\* an entry is linked, and an entry not linked yet is allocated.
Shape(t, c) ==
    /\ Linked(heap, c)
    /\ writes = At(c, 1)
    /\ pc[t] = "tail" => current_write = At(c, Len(c) - 1)
    /\ pc[t] # "tail" => current_write = At(c, Len(c))
    /\ pc[t] = "link" => Live(heap) = Members(c) \cup {write[t]}
    /\ pc[t] # "link" => Live(heap) = Members(c)

\* The entry of the bio in the wrapper.
UnderWay(t, c) ==
    /\ pc[t] = "link" => /\ write[t] \notin Members(c) /\ heap[write[t]].next = NULL
                         /\ heap[write[t]].live /\ heap[write[t]].meta = bio[t]
    /\ pc[t] \in {"tail", "data"} => /\ Len(c) > 0 /\ c[Len(c)] = write[t]
                                     /\ heap[write[t]].meta = bio[t]
    /\ pc[t] = "pass" /\ write[t] # NULL => /\ Len(c) > 0 /\ c[Len(c)] = write[t]
                                            /\ Records(heap, write[t], bio[t])

\* The entries whose bios went to the target.
Done(t, c) == IF pc[t] \in {"tail", "data"} \/ (pc[t] = "pass" /\ write[t] # NULL)
              THEN Len(c) - 1 ELSE Len(c)

\* Those bios are the ones that were sent, in the order of the chain.
SentInv(t, c) ==
    IF hpc = "clear" THEN sent = <<>>
    ELSE Len(sent) = Done(t, c) /\ \A k \in 1..Len(sent) : Records(heap, c[k], sent[k])

\* The reader is on the entry after those it has read.
ReadInv(c) ==
    /\ hpc = "on" => c = <<>>
    /\ hpc \in {"clear", "on", "off"} => log_data = <<>>
    /\ current_log_write = IF hpc = "clear" THEN NULL ELSE At(c, Len(log_data) + 1)
    /\ Len(log_data) <= Len(c)
    /\ \A k \in 1..Len(log_data) : log_data[k] = Entry(heap, c[k])
    /\ hpc \in {"data", "next"} => meta = heap[current_log_write].meta
    /\ hpc = "next" => got = heap[current_log_write].data
    /\ hpc = "read" => Len(log_data) = Len(c)

\* c is the chain of this state.
IsChain(t, c) == Shape(t, c) /\ UnderWay(t, c) /\ SentInv(t, c) /\ ReadInv(c)

\* There is such a chain unless an allocation has failed.
ChainInv(t) == FlowInv(t) /\ (~failed => \E c : IsChain(t, c))

\* What the chain invariant says before the wrapper is used, and anew after a reload.
LEMMA EmptyChain ==
    ASSUME NEW t, writes = NULL, current_write = NULL, current_log_write = NULL,
           \A n \in Node : ~heap[n].live, pc[t] \in {"idle", "pass"},
           write[t] = NULL, hpc \in {"clear", "on"}, log_data = <<>>, sent = <<>>
    PROVE  IsChain(t, <<>>)
  <1>1. Len(<<>>) = 0 /\ \A k : At(<<>>, k) = NULL /\ Members(<<>>) = {} /\ <<>> \in Seq(Node)
    BY DEF At, Members
  <1>2. Linked(heap, <<>>)
    BY <1>1 DEF Linked
  <1>3. Shape(t, <<>>)
    <2>1. Live(heap) = {}
      BY DEF Live
    <2> QED BY <1>1, <1>2, <2>1 DEF Shape
  <1>4. UnderWay(t, <<>>) /\ SentInv(t, <<>>)
    BY <1>1 DEF UnderWay, SentInv, Done
  <1>5. ReadInv(<<>>)
    BY <1>1 DEF ReadInv
  <1> QED BY <1>3, <1>4, <1>5 DEF IsChain

\* Facts about a chain that every step of the proof uses.
LEMMA ChainFacts ==
    ASSUME NEW h, NEW c, Linked(h, c)
    PROVE  /\ c \in Seq(Node) /\ Len(c) \in Nat
           /\ \A k \in 1..Len(c) : /\ c[k] \in Node /\ c[k] # NULL /\ At(c, k) = c[k]
                                   /\ c[k] \in Members(c) /\ h[c[k]].live
                                   /\ h[c[k]].next = At(c, k + 1)
           /\ \A k : k \notin 1..Len(c) => At(c, k) = NULL
           /\ \A n \in Members(c) : \E k \in 1..Len(c) : n = c[k]
           /\ \A j, k \in 1..Len(c) : c[j] = c[k] => j = k
  BY WrapperAssumption DEF Linked, At, Members

\* From memory h to memory g, node n was put at the end of chain c.
PutLast(h, g, c, n) ==
    /\ n \in Node /\ n \notin Members(c) /\ g[n].live /\ g[n].next = NULL
    /\ \A k \in 1..Len(c) : g[c[k]].live
    /\ \A k \in 1..Len(c) : g[c[k]].next = IF k = Len(c) THEN n ELSE h[c[k]].next

\* A chain with a node put at its end is a chain.
LEMMA ChainAppend ==
    ASSUME NEW h, NEW g, NEW c, NEW n, Linked(h, c), PutLast(h, g, c, n)
    PROVE  /\ Linked(g, Append(c, n))
           /\ Members(Append(c, n)) = Members(c) \cup {n}
           /\ Len(Append(c, n)) = Len(c) + 1
           /\ \A k \in 1..Len(c) : Append(c, n)[k] = c[k]
           /\ Append(c, n)[Len(c) + 1] = n
           /\ \A k \in 1..Len(c) : At(Append(c, n), k) = c[k]
           /\ At(Append(c, n), Len(c) + 1) = n
  <1> USE DEF PutLast
  <1> DEFINE d == Append(c, n)
             L == Len(c)
  <1>1. /\ c \in Seq(Node) /\ L \in Nat
        /\ \A k \in 1..L : /\ c[k] \in Node /\ At(c, k) = c[k]
                           /\ c[k] \in Members(c) /\ h[c[k]].next = At(c, k + 1)
        /\ \A k : k \notin 1..L => At(c, k) = NULL
        /\ \A j, k \in 1..L : c[j] = c[k] => j = k
    BY ChainFacts
  <1>2. d \in Seq(Node) /\ Len(d) = L + 1 /\ d[L + 1] = n /\ \A k \in 1..L : d[k] = c[k]
    BY <1>1
  <1> HIDE DEF d, L
  <1>3. L + 1 \in 1..Len(d) /\ (\A k \in 1..L : k \in 1..Len(d)) /\ L + 2 \notin 1..Len(d)
        /\ 1..Len(d) = 1..L \cup {L + 1} /\ L + 1 \notin 1..L
    BY <1>1, <1>2
  <1>4. (\A k \in 1..L : At(d, k) = c[k]) /\ At(d, L + 1) = n /\ At(d, L + 2) = NULL
    BY <1>2, <1>3 DEF At
  <1>5. \A j, k \in 1..Len(d) : d[j] = d[k] => j = k
    BY <1>1, <1>2, <1>3
  <1>6. ASSUME NEW k \in 1..Len(d) PROVE g[d[k]].live /\ g[d[k]].next = At(d, k + 1)
    <2>1. CASE k = L + 1
      <3>1. k + 1 = L + 2
        BY <1>1, <2>1
      <3> QED BY <1>2, <1>4, <2>1, <3>1
    <2>2. CASE k \in 1..L /\ k = L
      BY <1>2, <1>4, <2>2 DEF L
    <2>3. CASE k \in 1..L /\ k # L
      <3>1. k + 1 \in 1..L
        BY <1>1, <2>3
      <3>2. At(d, k + 1) = c[k + 1] /\ At(c, k + 1) = c[k + 1]
        BY <1>1, <1>4, <3>1
      <3>3. g[c[k]].next = h[c[k]].next /\ g[c[k]].live
        BY <2>3 DEF L
      <3> QED BY <1>1, <1>2, <2>3, <3>2, <3>3
    <2> QED BY <1>3, <2>1, <2>2, <2>3
  <1>7. Members(d) = Members(c) \cup {n}
    <2>1. \A k \in 1..Len(d) : d[k] \in Members(c) \cup {n}
      BY <1>1, <1>2, <1>3
    <2>2. n \in Members(d)
      BY <1>2, <1>3 DEF Members
    <2>3. \A m \in Members(c) : m \in Members(d)
      <3>1. \A k \in 1..L : c[k] \in Members(d)
        BY <1>2, <1>3 DEF Members
      <3> QED BY <3>1 DEF Members, L
    <2> QED BY <2>1, <2>2, <2>3 DEF Members
  <1>8. Linked(g, d)
    BY <1>2, <1>5, <1>6 DEF Linked
  <1> QED BY <1>2, <1>4, <1>7, <1>8 DEF d, L

\* The chain invariant for a state that is entered by clearing or reloading.
LEMMA EmptiedChain ==
    ASSUME NEW t, writes' = NULL, current_write' = NULL, current_log_write' = NULL,
           \A n \in Node : ~heap'[n].live, pc'[t] \in {"idle", "pass"},
           write'[t] = NULL, hpc' \in {"clear", "on"}, log_data' = <<>>, sent' = <<>>
    PROVE  IsChain(t, <<>>)'
  <1>1. Len(<<>>) = 0 /\ \A k : At(<<>>, k) = NULL /\ Members(<<>>) = {} /\ <<>> \in Seq(Node)
    BY DEF At, Members
  <1>2. Linked(heap', <<>>)
    BY <1>1 DEF Linked
  <1>3. Shape(t, <<>>)'
    <2>1. Live(heap') = {}
      BY DEF Live
    <2> QED BY <1>1, <1>2, <2>1 DEF Shape
  <1>4. UnderWay(t, <<>>)' /\ SentInv(t, <<>>)'
    BY <1>1 DEF UnderWay, SentInv, Done
  <1>5. ReadInv(<<>>)'
    BY <1>1 DEF ReadInv
  <1> QED BY <1>3, <1>4, <1>5 DEF IsChain

\* A step of a bio that has no entry.
LEMMA UnloggedStep ==
    ASSUME NEW t, NEW c, IsChain(t, c), UNCHANGED <<device, heap, harness, sent>>,
           pc[t] \in {"idle", "node", "pass"}, write[t] = NULL,
           pc'[t] \in {"idle", "node", "pass"}, write'[t] = NULL
    PROVE  IsChain(t, c)'
  <1>1. Shape(t, c)'
    BY DEF IsChain, Shape, device
  <1>2. UnderWay(t, c)'
    BY DEF UnderWay
  <1>3. SentInv(t, c)'
    BY DEF IsChain, SentInv, Done, harness
  <1>4. ReadInv(c)'
    BY DEF IsChain, ReadInv, device, harness
  <1> QED BY <1>1, <1>2, <1>3, <1>4 DEF IsChain

\* While logging is on nothing has been read.
LEMMA ReadingLater ==
    ASSUME NEW c, NEW d, ReadInv(c), hpc = "off", UNCHANGED harness, Len(d) \in Nat,
           current_log_write' = At(d, 1)
    PROVE  ReadInv(d)'
  <1>1. log_data = <<>> /\ Len(<<>>) = 0 /\ 0 + 1 = 1
    BY DEF ReadInv
  <1> QED BY <1>1 DEF ReadInv, harness

\* The steps of the one thread, each with the chain it leaves.
LEMMA BioChain ==
    ASSUME NEW t, Thread = {t}, TypeInv, ChainInv(t), disk_wrapper_bio(t)
    PROVE  ChainInv(t)'
  <1> DEFINE p == pc[t]
             b == bio[t]
             w == write[t]
             Fields == {"idle", "node", "link", "tail", "data", "pass"}
  <1>1. /\ pc \in [Thread -> Fields] /\ bio \in [Thread -> Bios \cup {NoBio}]
        /\ write \in [Thread -> Node \cup {NULL}] /\ heap \in [Node -> Entries] /\ t \in Thread
        /\ NULL \notin Node /\ sent \in Seq(Bios)
    BY WrapperAssumption DEF TypeInv, TypeOK, Entries
  <1>2. /\ p # "idle" => b \in Bios
        /\ p \in {"link", "tail", "data"} => w \in Node
        /\ p \in {"idle", "node"} => w = NULL
        /\ p = "node" \/ w # NULL => Logged(b)
    BY <1>1 DEF TypeInv, ThreadInv
  <1>3. FlowInv(t)
    BY DEF ChainInv
  <1>4. UNCHANGED <<log_on, harness>>
    BY DEF disk_wrapper_bio, Arrive, NodeFails, NewNode, LinkFirst, LinkNext, SetTail,
       DataFails, CopyData, Pass, device
  <1>5. hpc' = hpc /\ log_on' = log_on
    BY <1>4 DEF harness
  <1>6. p \in {"node", "link", "tail", "data"} \/ w # NULL => hpc = "off"
    BY <1>3 DEF FlowInv
  <1>7. FlowInv(t)'
    <2>1. CASE Arrive(t)
      <3>1. pc'[t] \in {"node", "pass"} /\ (pc'[t] = "node" => log_on) /\ write'[t] = NULL
        BY <1>1, <1>2, <2>1 DEF Arrive
      <3> QED BY <1>3, <1>5, <3>1 DEF FlowInv
    <2>2. CASE Pass(t)
      <3>1. pc'[t] = "idle" /\ write'[t] = NULL
        BY <1>1, <2>2 DEF Pass
      <3> QED BY <1>3, <1>5, <3>1 DEF FlowInv
    <2>3. CASE p \in {"node", "link", "tail", "data"}
      BY <1>3, <1>5, <1>6, <2>3 DEF FlowInv
    <2> QED BY <2>1, <2>2, <2>3 DEF disk_wrapper_bio, NodeFails, NewNode, LinkFirst, LinkNext,
            SetTail, DataFails, CopyData
  <1> SUFFICES ASSUME ~failed' PROVE \E c : IsChain(t, c)'
    BY <1>7 DEF ChainInv
  <1>8. failed' = failed /\ ~DataFails(t)
    BY DEF disk_wrapper_bio, Arrive, NodeFails, NewNode, LinkFirst, LinkNext, SetTail,
       DataFails, CopyData, Pass
  <1>9. PICK c : IsChain(t, c)
    BY <1>8 DEF ChainInv
  <1> DEFINE L == Len(c)
  <1>10. Linked(heap, c) /\ Shape(t, c) /\ UnderWay(t, c) /\ SentInv(t, c) /\ ReadInv(c)
    BY <1>9 DEF IsChain, Shape
  <1>11. /\ c \in Seq(Node) /\ L \in Nat
         /\ \A k \in 1..L : /\ c[k] \in Node /\ c[k] # NULL /\ At(c, k) = c[k]
                            /\ c[k] \in Members(c) /\ heap[c[k]].live
                            /\ heap[c[k]].next = At(c, k + 1)
         /\ \A k : k \notin 1..L => At(c, k) = NULL
         /\ \A n \in Members(c) : \E k \in 1..L : n = c[k]
         /\ \A j, k \in 1..L : c[j] = c[k] => j = k
    BY <1>10, ChainFacts
  <1>12. hpc = "off" => current_log_write = At(c, 1) /\ Len(sent) = Done(t, c)
                        /\ \A k \in 1..Len(sent) : Records(heap, c[k], sent[k])
    <2>1. hpc = "off" => log_data = <<>> /\ current_log_write = At(c, Len(log_data) + 1)
      BY <1>10 DEF ReadInv
    <2>2. Len(<<>>) + 1 = 1
      OBVIOUS
    <2> QED BY <1>10, <2>1, <2>2 DEF SentInv
  <1>13. CASE Arrive(t)
    <2>1. /\ pc'[t] \in {"node", "pass"} /\ write'[t] = NULL /\ w = NULL /\ p = "idle"
          /\ UNCHANGED <<device, heap, sent>>
      BY <1>1, <1>2, <1>13 DEF Arrive
    <2> QED BY <1>4, <1>9, <2>1, UnloggedStep
  <1>14. CASE NodeFails(t)
    <2>1. /\ pc'[t] = "pass" /\ write'[t] = NULL /\ w = NULL /\ p = "node"
          /\ UNCHANGED <<device, heap, sent>>
      BY <1>1, <1>2, <1>14 DEF NodeFails
    <2> QED BY <1>4, <1>9, <2>1, UnloggedStep
  <1>15. CASE NewNode(t)
    <2>1. PICK n \in Node :
            /\ ~heap[n].live
            /\ heap' = [heap EXCEPT ![n] = [live |-> TRUE, meta |-> bio[t],
                                            data |-> NoData, next |-> NULL]]
            /\ write' = [write EXCEPT ![t] = n]
      BY <1>15 DEF NewNode
    <2>2. p = "node" /\ pc'[t] = "link" /\ write'[t] = n /\ bio'[t] = b
          /\ UNCHANGED <<device, sent>> /\ hpc = "off"
      BY <1>1, <1>6, <1>15, <2>1 DEF NewNode
    <2>3. n \notin Members(c) /\ \A k \in 1..L : c[k] # n
      BY <1>11, <2>1
    <2>4. heap'[n] = [live |-> TRUE, meta |-> b, data |-> NoData, next |-> NULL]
          /\ \A m \in Node \ {n} : heap'[m] = heap[m]
      BY <1>1, <2>1
    <2>5. \A k \in 1..L : heap'[c[k]] = heap[c[k]]
      BY <1>11, <2>3, <2>4
    <2>6. Shape(t, c)'
      <3>1. Linked(heap', c)
        BY <1>10, <2>5 DEF Linked
      <3>2. Live(heap') = Live(heap) \cup {n}
        BY <2>4 DEF Live
      <3>3. Live(heap') = Members(c) \cup {n}
        BY <1>10, <2>2, <3>2 DEF Shape
      <3> QED BY <1>10, <2>2, <3>1, <3>3, Zenon DEF Shape, device
    <2>7. UnderWay(t, c)'
      BY <2>2, <2>3, <2>4 DEF UnderWay
    <2>8. SentInv(t, c)'
      <3>1. Len(sent) = L /\ Done(t, c)' = L
        BY <1>12, <2>2 DEF Done
      <3>2. \A k \in 1..Len(sent) : Records(heap', c[k], sent[k])
        BY <1>12, <2>2, <2>5, <3>1 DEF Records
      <3> QED BY <1>5, <2>2, <3>1, <3>2 DEF SentInv
    <2>9. ReadInv(c)'
      BY <1>4, <1>10, <1>11, <1>12, <2>2, ReadingLater DEF device
    <2> QED BY <2>6, <2>7, <2>8, <2>9 DEF IsChain
  <1>16. CASE LinkFirst(t)
    <2>1. /\ p = "link" /\ pc'[t] = "tail" /\ write'[t] = w /\ bio'[t] = b /\ w \in Node
          /\ UNCHANGED <<heap, sent>> /\ hpc = "off" /\ current_write = NULL
          /\ writes' = w /\ current_log_write' = w /\ current_write' = NULL
      BY <1>1, <1>2, <1>6, <1>16 DEF LinkFirst
    <2>2. L = 0
      <3>1. At(c, L) = NULL
        BY <1>10, <2>1 DEF Shape
      <3> QED BY <1>11, <3>1
    <2>3. w \notin Members(c) /\ heap[w].next = NULL /\ heap[w].live /\ heap[w].meta = b
      BY <1>10, <2>1 DEF UnderWay
    <2>20. PICK d : d = Append(c, w)
      OBVIOUS
    <2>4. /\ Linked(heap, d) /\ Members(d) = Members(c) \cup {w} /\ Len(d) = L + 1
          /\ d[L + 1] = w /\ At(d, L + 1) = w
      <3>1. \A k \in 1..Len(c) : heap[c[k]].live /\ heap[c[k]].next = IF k = Len(c) THEN w ELSE heap[c[k]].next
        BY <2>2
      <3>2. PutLast(heap, heap, c, w)
        BY <2>1, <2>3, <3>1 DEF PutLast
      <3> QED BY <1>10, <2>20, <3>2, ChainAppend
    <2>5. Len(d) = 1 /\ d[1] = w /\ At(d, 1) = w /\ Linked(heap', d) /\ 1 - 1 = 0
      BY <2>1, <2>2, <2>4
    <2>6. At(d, 0) = NULL
      BY <2>5 DEF At
    <2>7. Shape(t, d)'
      <3>1. Live(heap') = Members(d)
        BY <1>10, <2>1, <2>4, Zenon DEF Shape
      <3> QED BY <2>1, <2>5, <2>6, <3>1 DEF Shape
    <2>8. UnderWay(t, d)'
      BY <2>1, <2>3, <2>5 DEF UnderWay
    <2>9. SentInv(t, d)'
      <3>1. Done(t, c) = L /\ Done(t, d)' = Len(d) - 1
        <4>1. pc[t] \notin {"tail", "data"} /\ pc[t] # "pass" /\ pc'[t] \in {"tail", "data"}
          BY <2>1
        <4>2. Done(t, c) = L
          BY <4>1 DEF Done
        <4>3. Done(t, d)' = Len(d) - 1
          BY <4>1 DEF Done
        <4> QED BY <4>2, <4>3
      <3>2. Len(sent) = 0 /\ Done(t, d)' = 0
        BY <1>12, <2>1, <2>2, <2>5, <3>1
      <3> QED BY <1>5, <2>1, <3>2 DEF SentInv
    <2>10. ReadInv(d)'
      BY <1>4, <1>10, <2>1, <2>5, ReadingLater
    <2> QED BY <2>7, <2>8, <2>9, <2>10 DEF IsChain
  <1>17. CASE LinkNext(t)
    <2>1. /\ p = "link" /\ pc'[t] = "tail" /\ write'[t] = w /\ bio'[t] = b /\ w \in Node
          /\ UNCHANGED <<device, sent>> /\ hpc = "off" /\ current_write # NULL
          /\ heap' = [heap EXCEPT ![current_write].next = w]
      BY <1>1, <1>2, <1>6, <1>17 DEF LinkNext
    <2>2. L \in 1..L /\ current_write = c[L]
      <3>1. At(c, L) = current_write
        BY <1>10, <2>1 DEF Shape
      <3> QED BY <1>11, <2>1, <3>1
    <2>3. w \notin Members(c) /\ heap[w].next = NULL /\ heap[w].live /\ heap[w].meta = b
      BY <1>10, <2>1 DEF UnderWay
    <2>4. /\ heap'[c[L]] = [heap[c[L]] EXCEPT !.next = w]
          /\ \A m \in Node \ {c[L]} : heap'[m] = heap[m]
          /\ heap[c[L]] \in Entries
      BY <1>1, <1>11, <2>1, <2>2
    <2>5. \A m \in Node : heap'[m].live = heap[m].live /\ heap'[m].meta = heap[m].meta
                          /\ heap'[m].data = heap[m].data
      BY <2>4 DEF Entries
    <2>6. heap'[c[L]].next = w /\ heap'[w] = heap[w]
      BY <1>11, <2>1, <2>2, <2>3, <2>4 DEF Entries
    <2>20. PICK d : d = Append(c, w)
      OBVIOUS
    <2>7. /\ Linked(heap', d) /\ Members(d) = Members(c) \cup {w} /\ Len(d) = L + 1
          /\ d[L + 1] = w /\ At(d, L + 1) = w
          /\ \A k \in 1..L : d[k] = c[k] /\ At(d, k) = c[k]
      <3>1. \A k \in 1..Len(c) : heap'[c[k]].live
        BY <1>11, <2>5
      <3>2. ASSUME NEW k \in 1..Len(c)
            PROVE  heap'[c[k]].next = IF k = Len(c) THEN w ELSE heap[c[k]].next
        <4>1. CASE k = L
          BY <2>6, <4>1
        <4>2. CASE k # L
          <5>1. c[k] \in Node \ {c[L]}
            BY <1>11, <2>2, <4>2
          <5>2. heap'[c[k]] = heap[c[k]]
            BY <2>4, <5>1
          <5> QED BY <4>2, <5>2
        <4> QED BY <4>1, <4>2
      <3>3. heap'[w].live /\ heap'[w].next = NULL
        BY <2>3, <2>6
      <3>4. /\ Linked(heap', d) /\ Members(d) = Members(c) \cup {w} /\ Len(d) = Len(c) + 1
            /\ d[Len(c) + 1] = w /\ At(d, Len(c) + 1) = w
            /\ (\A k \in 1..Len(c) : d[k] = c[k]) /\ \A k \in 1..Len(c) : At(d, k) = c[k]
        <4>1. PutLast(heap, heap', c, w)
          BY <2>1, <2>3, <3>1, <3>2, <3>3 DEF PutLast
        <4> QED BY <1>10, <2>20, <4>1, ChainAppend
      <3> QED BY <3>4
    <2> HIDE DEF L
    <2>8. (L + 1) - 1 = L /\ 1 \in 1..L /\ L + 1 \in Nat
      BY <1>11, <2>2
    <2>9. Shape(t, d)'
      <3>1. Live(heap') = Members(d)
        <4>1. Live(heap') = Live(heap)
          BY <2>5, Zenon DEF Live
        <4> QED BY <1>10, <2>1, <2>7, <4>1, Zenon DEF Shape
      <3>2. writes = At(d, 1)
        BY <1>10, <1>11, <2>7, <2>8 DEF Shape
      <3>3. current_write = At(d, Len(d) - 1)
        BY <2>2, <2>7, <2>8
      <3> QED BY <2>1, <2>7, <3>1, <3>2, <3>3 DEF Shape, device
    <2>10. UnderWay(t, d)'
      BY <1>11, <2>1, <2>3, <2>6, <2>7 DEF UnderWay
    <2>11. SentInv(t, d)'
      <3>0. Done(t, c) = L /\ Done(t, d)' = Len(d) - 1
        <4>1. pc[t] \notin {"tail", "data"} /\ pc[t] # "pass" /\ pc'[t] \in {"tail", "data"}
          BY <2>1
        <4>2. Done(t, c) = L
          BY <4>1 DEF Done, L
        <4>3. Done(t, d)' = Len(d) - 1
          BY <4>1 DEF Done
        <4> QED BY <4>2, <4>3
      <3>1. Len(sent) = L /\ Done(t, d)' = L
        BY <1>12, <2>1, <2>7, <2>8, <3>0
      <3>2. \A k \in 1..Len(sent) : Records(heap', d[k], sent[k])
        BY <1>11, <1>12, <2>1, <2>5, <2>7, <3>1 DEF Records
      <3> QED BY <1>5, <2>1, <3>1, <3>2 DEF SentInv
    <2>12. ReadInv(d)'
      <3>1. current_log_write' = At(d, 1)
        BY <1>11, <1>12, <2>1, <2>7, <2>8 DEF device
      <3> QED BY <1>4, <1>10, <2>1, <2>7, <2>8, <3>1, ReadingLater
    <2> QED BY <2>9, <2>10, <2>11, <2>12 DEF IsChain
  <1>18. CASE SetTail(t)
    <2>1. /\ p = "tail" /\ pc'[t] = "data" /\ write'[t] = w /\ bio'[t] = b /\ w \in Node
          /\ UNCHANGED <<writes, current_log_write, heap, sent>> /\ hpc = "off"
          /\ current_write' = w
      BY <1>1, <1>2, <1>6, <1>18 DEF SetTail
    <2>2. L > 0 /\ c[L] = w /\ heap[w].meta = b
      BY <1>10, <2>1 DEF UnderWay
    <2>3. At(c, L) = w
      BY <1>11, <2>2
    <2>4. Shape(t, c)'
      BY <1>10, <2>1, <2>3 DEF Shape
    <2>5. UnderWay(t, c)'
      BY <2>1, <2>2 DEF UnderWay
    <2>6. SentInv(t, c)'
      BY <1>5, <1>12, <2>1 DEF SentInv, Done
    <2>7. ReadInv(c)'
      BY <1>4, <1>10, <1>11, <1>12, <2>1, ReadingLater
    <2> QED BY <2>4, <2>5, <2>6, <2>7 DEF IsChain
  <1>19. CASE CopyData(t)
    <2>1. /\ p = "data" /\ pc'[t] = "pass" /\ write'[t] = w /\ bio'[t] = b /\ w \in Node
          /\ UNCHANGED <<device, sent>> /\ hpc = "off" /\ w # NULL
      BY <1>1, <1>2, <1>6, <1>19 DEF CopyData
    <2>2. PICK d \in CopiedData(b) : heap' = [heap EXCEPT ![w].data = d]
      BY <1>19 DEF CopyData
    <2>3. L > 0 /\ c[L] = w /\ heap[w].meta = b
      BY <1>10, <2>1 DEF UnderWay
    <2>4. /\ heap'[w] = [heap[w] EXCEPT !.data = d] /\ heap[w] \in Entries
          /\ \A m \in Node \ {w} : heap'[m] = heap[m]
      BY <1>1, <2>1, <2>2
    <2>5. /\ heap'[w].data = d /\ heap'[w].meta = b
          /\ \A m \in Node : heap'[m].live = heap[m].live /\ heap'[m].next = heap[m].next
      BY <2>3, <2>4 DEF Entries
    <2>6. Shape(t, c)'
      <3>1. Linked(heap', c)
        BY <1>10, <1>11, <2>5 DEF Linked
      <3>2. Live(heap') = Live(heap)
        BY <2>5, Zenon DEF Live
      <3> QED BY <1>10, <2>1, <3>1, <3>2 DEF Shape, device
    <2>7. UnderWay(t, c)'
      <3>1. Records(heap', w, b)
        BY <1>2, <2>1, <2>2, <2>5 DEF Records
      <3> QED BY <2>1, <2>3, <3>1 DEF UnderWay
    <2>8. SentInv(t, c)'
      <3>1. Len(sent) = L - 1 /\ Done(t, c)' = L - 1
        BY <1>12, <2>1 DEF Done
      <3>2. \A k \in 1..Len(sent) : k \in 1..L /\ k # L /\ L \in 1..L
        BY <1>11, <2>3, <3>1
      <3>3. \A k \in 1..Len(sent) : heap'[c[k]] = heap[c[k]]
        BY <1>11, <2>3, <2>4, <3>2
      <3>4. \A k \in 1..Len(sent) : Records(heap', c[k], sent[k])
        BY <1>12, <2>1, <3>3 DEF Records
      <3> QED BY <1>5, <2>1, <3>1, <3>4 DEF SentInv
    <2>9. ReadInv(c)'
      BY <1>4, <1>10, <1>11, <1>12, <2>1, ReadingLater DEF device
    <2> QED BY <2>6, <2>7, <2>8, <2>9 DEF IsChain
  <1>20. CASE Pass(t) /\ w = NULL
    <2>1. /\ pc'[t] = "idle" /\ write'[t] = NULL /\ w = NULL /\ p = "pass"
          /\ UNCHANGED <<device, heap, sent>>
      BY <1>1, <1>20 DEF Pass
    <2> QED BY <1>4, <1>9, <2>1, UnloggedStep
  <1>21. CASE Pass(t) /\ w # NULL
    <2>1. /\ p = "pass" /\ pc'[t] = "idle" /\ write'[t] = NULL /\ sent' = Append(sent, b)
          /\ UNCHANGED <<device, heap>> /\ hpc = "off" /\ b \in Bios
      BY <1>1, <1>2, <1>6, <1>21 DEF Pass
    <2>2. L > 0 /\ c[L] = w /\ Records(heap, w, b)
      BY <1>10, <1>21, <2>1 DEF UnderWay
    <2>3. Shape(t, c)'
      BY <1>10, <2>1 DEF Shape, device
    <2>4. UnderWay(t, c)'
      BY <2>1 DEF UnderWay
    <2>5. SentInv(t, c)'
      <3>1. Len(sent) = L - 1 /\ Done(t, c)' = L
        BY <1>12, <1>21, <2>1 DEF Done
      <3>2. Len(sent') = Len(sent) + 1 /\ sent'[Len(sent) + 1] = b
            /\ \A k \in 1..Len(sent) : sent'[k] = sent[k]
        BY <1>1, <2>1
      <3>3. Len(sent') = L /\ Len(sent) + 1 = L /\ \A k \in 1..L : k = L \/ k \in 1..Len(sent)
        BY <1>11, <3>1, <3>2
      <3>4. \A k \in 1..Len(sent') : Records(heap', c[k], sent'[k])
        BY <1>12, <2>1, <2>2, <3>2, <3>3
      <3> QED BY <1>5, <2>1, <3>1, <3>3, <3>4 DEF SentInv
    <2>6. ReadInv(c)'
      BY <1>4, <1>10, <1>11, <1>12, <2>1, ReadingLater DEF device
    <2> QED BY <2>3, <2>4, <2>5, <2>6 DEF IsChain
  <1> QED BY <1>8, <1>13, <1>14, <1>15, <1>16, <1>17, <1>18, <1>19, <1>20, <1>21
          DEF disk_wrapper_bio

\* The calls of the harness, each with the chain it leaves.
LEMMA HarnessChain ==
    ASSUME Settled, NEW t, Thread = {t}, TypeInv, ChainInv(t), Harness \/ SameWrapper \/ Reload
    PROVE  ChainInv(t)'
  <1>1. /\ write \in [Thread -> Node \cup {NULL}] /\ heap \in [Node -> Entries] /\ t \in Thread
        /\ NULL \notin Node /\ log_data \in Seq(DiskWrites)
    BY WrapperAssumption DEF TypeInv, TypeOK, Entries
  <1>2. UNCHANGED <<pc, bio, write>>
    BY DEF Harness, HWM_CLR_LOG, HWM_LOG_ON, HWM_LOG_OFF, HWM_GET_LOG_META,
       HWM_GET_LOG_DATA, HWM_NEXT_ENT, SameWrapper, Reload, NewSession
  <1>3. FlowInv(t)
    BY DEF ChainInv
  <1>4. CallAllowed \/ (SameWrapper /\ Idle) \/ Reload => pc[t] = "idle" /\ write[t] = NULL
    <2>1. Idle => pc[t] = "idle" /\ write[t] = NULL
      BY <1>1 DEF Idle, TypeInv, ThreadInv
    <2> QED BY <2>1 DEF CallAllowed, Reload
  <1>5. FlowInv(t)'
    <2>1. CASE HWM_CLR_LOG \/ HWM_LOG_ON \/ HWM_LOG_OFF
      <3>1. CallAllowed
        BY <2>1 DEF HWM_CLR_LOG, HWM_LOG_ON, HWM_LOG_OFF
      <3>2. pc'[t] = "idle" /\ write'[t] = NULL
        BY <1>2, <1>4, <3>1
      <3> QED BY <1>3, <2>1, <3>2 DEF HWM_CLR_LOG, HWM_LOG_ON, HWM_LOG_OFF, FlowInv
    <2>2. CASE HWM_GET_LOG_META \/ HWM_GET_LOG_DATA \/ HWM_NEXT_ENT \/ SameWrapper \/ Reload
      <3>1. hpc # "off" /\ hpc' # "off" /\ log_on' \in {log_on, FALSE}
        BY <2>2 DEF HWM_GET_LOG_META, HWM_GET_LOG_DATA, HWM_NEXT_ENT, SameWrapper, Reload,
           NewSession, device
      <3>2. ~log_on /\ write[t] = NULL /\ pc[t] \in {"idle", "pass"}
        BY <1>3, <3>1, Zenon DEF FlowInv
      <3>3. ~log_on'
        BY <3>1, <3>2, Zenon
      <3>4. pc'[t] = pc[t] /\ write'[t] = write[t]
        BY <1>2, Zenon
      <3> QED BY <3>2, <3>3, <3>4, Zenon DEF FlowInv
    <2> QED BY <2>1, <2>2 DEF Harness
  <1> SUFFICES ASSUME ~failed' PROVE \E c : IsChain(t, c)'
    BY <1>5 DEF ChainInv
  <1>6. CASE Reload
    <2>1. /\ writes' = NULL /\ current_write' = NULL /\ current_log_write' = NULL
          /\ hpc' = "clear" /\ log_data' = <<>> /\ sent' = <<>>
          /\ heap' = [n \in Node |-> FreeNode]
      BY <1>6 DEF Reload, NewSession
    <2>2. \A n \in Node : ~heap'[n].live
      BY <2>1 DEF FreeNode
    <2>3. pc'[t] = "idle" /\ write'[t] = NULL
      BY <1>2, <1>4, <1>6
    <2>4. IsChain(t, <<>>)'
      BY <2>1, <2>2, <2>3, EmptiedChain
    <2> QED BY <2>4
  <1>7. CASE ~Reload
    <2>1. failed' = failed
      BY <1>7 DEF Harness, HWM_CLR_LOG, HWM_LOG_ON, HWM_LOG_OFF, HWM_GET_LOG_META,
         HWM_GET_LOG_DATA, HWM_NEXT_ENT, SameWrapper
    <2>2. PICK c : IsChain(t, c)
      BY <2>1 DEF ChainInv
    <2> DEFINE L == Len(c)
               r == Len(log_data)
    <2>3. Linked(heap, c) /\ Shape(t, c) /\ UnderWay(t, c) /\ SentInv(t, c) /\ ReadInv(c)
      BY <2>2 DEF IsChain, Shape
    <2>4. /\ c \in Seq(Node) /\ L \in Nat
          /\ \A k \in 1..L : /\ c[k] \in Node /\ c[k] # NULL /\ At(c, k) = c[k]
                             /\ c[k] \in Members(c) /\ heap[c[k]].live
                             /\ heap[c[k]].next = At(c, k + 1)
          /\ \A k : k \notin 1..L => At(c, k) = NULL
      BY <2>3, ChainFacts
    <2>5. r \in Nat /\ r <= L /\ r + 1 \in Nat /\ (r + 1 \in 1..L <=> r # L)
      BY <1>1, <2>3, <2>4 DEF ReadInv
    <2>6. ASSUME UNCHANGED <<writes, current_write, heap>> PROVE Shape(t, c)' /\ UnderWay(t, c)'
      BY <1>2, <2>3, <2>6 DEF Shape, UnderWay
    <2>7. ASSUME UNCHANGED <<heap, sent>>, hpc # "clear", hpc' # "clear" PROVE SentInv(t, c)'
      BY <1>2, <2>3, <2>7 DEF SentInv, Done
    <2>8. CASE HWM_CLR_LOG
      <3>1. /\ writes' = NULL /\ current_write' = NULL /\ current_log_write' = NULL
            /\ hpc = "clear" /\ hpc' = "on" /\ UNCHANGED <<log_data, sent>> /\ CallAllowed
            /\ heap' = [n \in Node |-> IF n \in Follow(writes) THEN FreeNode ELSE heap[n]]
        BY <2>8 DEF HWM_CLR_LOG
      <3>2. pc[t] = "idle" /\ pc'[t] = "idle" /\ write'[t] = NULL
        BY <1>2, <1>4, <3>1
      <3>3. Follow(writes) = Members(c)
        BY <2>3, FollowChain DEF Shape
      <3>4. \A n \in Node : n \notin Members(c) => ~heap[n].live
        BY <2>3, <3>2 DEF Shape, Live
      <3>5. \A n \in Node : ~heap'[n].live
        BY <3>1, <3>3, <3>4 DEF FreeNode
      <3>6. log_data' = <<>> /\ sent' = <<>>
        BY <2>3, <3>1 DEF ReadInv, SentInv
      <3>7. IsChain(t, <<>>)'
        BY <3>1, <3>2, <3>5, <3>6, EmptiedChain
      <3> QED BY <3>7
    <2>9. CASE HWM_LOG_ON \/ HWM_LOG_OFF
      <3>1. /\ hpc \in {"on", "off"} /\ hpc' \in {"off", "meta"}
            /\ UNCHANGED <<writes, current_write, current_log_write, heap, sent, log_data>>
        BY <2>9 DEF HWM_LOG_ON, HWM_LOG_OFF
      <3>2. ReadInv(c)'
        BY <2>3, <3>1 DEF ReadInv
      <3> QED BY <2>6, <2>7, <3>1, <3>2 DEF IsChain
    <2>10. CASE HWM_GET_LOG_META
      <3>1. /\ hpc = "meta" /\ hpc' \in {"read", "data"}
            /\ UNCHANGED <<device, heap, sent, log_data>>
        BY <2>10 DEF HWM_GET_LOG_META
      <3>2. current_log_write = At(c, r + 1)
        BY <2>3, <3>1 DEF ReadInv
      <3>3. CASE current_log_write = NULL
        <4>1. r = L /\ hpc' = "read"
          BY <2>4, <2>5, <2>10, <3>2, <3>3 DEF HWM_GET_LOG_META
        <4>2. ReadInv(c)'
          BY <2>3, <2>5, <3>1, <4>1 DEF ReadInv, device
        <4> QED BY <2>6, <2>7, <3>1, <4>1, <4>2 DEF IsChain, device
      <3>4. CASE current_log_write # NULL
        <4>1. hpc' = "data" /\ meta' = heap[current_log_write].meta
          BY <2>10, <3>4 DEF HWM_GET_LOG_META
        <4>2. ReadInv(c)'
          BY <2>3, <3>1, <4>1 DEF ReadInv, device
        <4> QED BY <2>6, <2>7, <3>1, <4>1, <4>2 DEF IsChain, device
      <3> QED BY <3>3, <3>4
    <2>11. CASE HWM_GET_LOG_DATA
      <3>1. /\ hpc = "data" /\ hpc' = "next" /\ got' = heap[current_log_write].data
            /\ UNCHANGED <<device, heap, sent, log_data, meta>>
        BY <2>11 DEF HWM_GET_LOG_DATA
      <3>2. ReadInv(c)'
        BY <2>3, <3>1 DEF ReadInv, device
      <3> QED BY <2>6, <2>7, <3>1, <3>2 DEF IsChain, device
    <2>12. CASE HWM_NEXT_ENT
      <3>1. /\ hpc = "next" /\ hpc' = "meta" /\ current_log_write' = heap[current_log_write].next
            /\ log_data' = Append(log_data, [meta EXCEPT !.data = got])
            /\ UNCHANGED <<writes, current_write, heap, sent>>
        BY <2>12 DEF HWM_NEXT_ENT
      <3>2. current_log_write # NULL
        BY <3>1 DEF TypeInv, ReaderInv
      <3>3. current_log_write = At(c, r + 1) /\ meta = heap[current_log_write].meta
            /\ got = heap[current_log_write].data
        BY <2>3, <3>1 DEF ReadInv
      <3>4. r + 1 \in 1..L /\ current_log_write = c[r + 1]
        BY <2>4, <2>5, <3>2, <3>3
      <3>5. [meta EXCEPT !.data = got] = Entry(heap, c[r + 1])
        BY <3>3, <3>4 DEF Entry
      <3>6. /\ Len(log_data') = r + 1 /\ log_data'[r + 1] = Entry(heap, c[r + 1])
            /\ \A k \in 1..r : log_data'[k] = log_data[k]
        <4>1. [meta EXCEPT !.data = got] \in DiskWrites
          <5>1. meta \in DiskWrites /\ got \in Payload \cup {NoData}
            BY ConstantTypes DEF TypeInv, TypeOK
          <5> QED BY <5>1 DEF DiskWrites
        <4> HIDE DEF r
        <4> QED BY <1>1, <3>1, <3>5, <4>1 DEF r
      <3>7. \A k \in 1..(r + 1) : k = r + 1 \/ k \in 1..r
        BY <2>5
      <3>8. \A k \in 1..Len(log_data') : log_data'[k] = Entry(heap', c[k])
        <4>1. \A k \in 1..r : log_data[k] = Entry(heap, c[k])
          BY <2>3 DEF ReadInv
        <4> HIDE DEF r
        <4> QED BY <3>1, <3>6, <3>7, <4>1
      <3>9. current_log_write' = At(c, Len(log_data') + 1) /\ Len(log_data') <= L
        BY <2>4, <2>5, <3>1, <3>4, <3>6
      <3>10. ReadInv(c)'
        BY <3>1, <3>8, <3>9 DEF ReadInv
      <3> QED BY <2>6, <2>7, <3>1, <3>10 DEF IsChain
    <2>13. CASE SameWrapper
      <3>1. /\ hpc = "read" /\ hpc' = "clear" /\ log_data' = <<>> /\ sent' = <<>>
            /\ UNCHANGED <<device, heap>>
        BY <2>13 DEF SameWrapper, NewSession
      <3>2. current_log_write = NULL
        <4>1. current_log_write = At(c, r + 1) /\ r = L
          BY <2>3, <3>1 DEF ReadInv
        <4> QED BY <2>4, <2>5, <4>1
      <3>3. Len(<<>>) = 0 /\ 0 <= L
        BY <2>4
      <3>4. ReadInv(c)'
        BY <3>1, <3>2, <3>3 DEF ReadInv, device
      <3>5. SentInv(t, c)'
        BY <3>1 DEF SentInv
      <3> QED BY <2>6, <3>1, <3>4, <3>5 DEF IsChain, device
    <2> QED BY <1>7, <2>8, <2>9, <2>10, <2>11, <2>12, <2>13 DEF Harness
  <1> QED BY <1>6, <1>7

\* Every step of a wrapper with one submitting thread keeps the chain.
LEMMA ChainNext ==
    ASSUME Settled, NEW t, Thread = {t}
    PROVE  TypeInv /\ ChainInv(t) /\ [Next]_vars => ChainInv(t)'
  <1> SUFFICES ASSUME TypeInv, ChainInv(t), [Next]_vars PROVE ChainInv(t)'
    OBVIOUS
  <1>1. CASE \E u \in Thread : disk_wrapper_bio(u)
    <2>1. disk_wrapper_bio(t)
      BY <1>1
    <2> QED BY <2>1, BioChain
  <1>2. CASE Harness \/ SameWrapper \/ Reload
    BY <1>2, HarnessChain
  <1>3. CASE UNCHANGED vars
    BY <1>3 DEF vars, ChainInv, FlowInv, IsChain, Shape, UnderWay, SentInv, Done, ReadInv
  <1> QED BY <1>1, <1>2, <1>3 DEF Next

\* The chain invariant holds in every state.
LEMMA ChainInvHolds ==
    ASSUME Settled, NEW t, Thread = {t} PROVE Spec => [](TypeInv /\ ChainInv(t))
  <1>1. Init => ChainInv(t)
    <2> SUFFICES ASSUME Init PROVE ChainInv(t)
      OBVIOUS
    <2>1. \A n \in Node : ~heap[n].live
      BY DEF Init, FreeNode
    <2>2. pc[t] = "idle" /\ write[t] = NULL
      BY DEF Init
    <2>3. IsChain(t, <<>>)
      BY <2>1, <2>2, EmptyChain DEF Init
    <2> QED BY <2>2, <2>3 DEF ChainInv, FlowInv, Init
  <1>2. TypeInv /\ ChainInv(t) /\ [Next]_vars => ChainInv(t)'
    BY ChainNext
  <1> QED BY <1>1, <1>2, InitType, TypeInvNext, PTL DEF Spec

(***************************************************************************)
(* With one submitting thread, and a harness that switches and clears the  *)
(* log when no bio is in flight, the chain that disk_wrapper_bio builds is *)
(* sound between bios, for any number of bios, sessions and reloads: what  *)
(* free_logs finds by following it are exactly the allocated entries.      *)
(***************************************************************************)
THEOREM ChainSoundHolds ==
    ASSUME Settled, NEW t, Thread = {t} PROVE Spec => []ChainSound
  <1>1. TypeInv /\ ChainInv(t) => ChainSound
    <2> SUFFICES ASSUME TypeInv, ChainInv(t), ~failed, Idle
                 PROVE  /\ TailIsLast
                        /\ Follow(writes) = {n \in Node : heap[n].live}
                        /\ current_log_write \in Follow(writes) \cup {NULL}
      BY DEF ChainSound
    <2>1. PICK c : IsChain(t, c)
      BY DEF ChainInv
    <2>2. Linked(heap, c) /\ Shape(t, c) /\ ReadInv(c) /\ pc[t] = "idle"
      BY <2>1 DEF IsChain, Shape, Idle
    <2>3. /\ c \in Seq(Node) /\ Len(c) \in Nat
          /\ \A k \in 1..Len(c) : /\ c[k] \in Node /\ c[k] # NULL /\ At(c, k) = c[k]
                                  /\ c[k] \in Members(c) /\ heap[c[k]].live
                                  /\ heap[c[k]].next = At(c, k + 1)
          /\ \A k : k \notin 1..Len(c) => At(c, k) = NULL
      BY <2>2, ChainFacts
    <2>4. Follow(writes) = Members(c) /\ writes = At(c, 1) /\ current_write = At(c, Len(c))
          /\ Live(heap) = Members(c)
      BY <2>2, FollowChain DEF Shape
    <2>5. TailIsLast
      <3>1. CASE Len(c) = 0
        <4>1. current_write = NULL /\ writes = NULL
          BY <2>3, <2>4, <3>1
        <4> QED BY <4>1 DEF TailIsLast
      <3>2. CASE Len(c) # 0
        <4>1. Len(c) \in 1..Len(c) /\ Len(c) + 1 \notin 1..Len(c)
          BY <2>3, <3>2
        <4>2. current_write = c[Len(c)] /\ current_write # NULL /\ current_write \in Members(c)
              /\ heap[current_write].live /\ heap[current_write].next = NULL
          BY <2>3, <2>4, <4>1
        <4> QED BY <2>4, <4>2 DEF TailIsLast
      <3> QED BY <3>1, <3>2
    <2>6. current_log_write \in Members(c) \cup {NULL}
      BY <2>2, <2>3 DEF ReadInv
    <2> QED BY <2>4, <2>5, <2>6 DEF Live
  <1>2. Spec => [](TypeInv /\ ChainInv(t))
    BY ChainInvHolds
  <1> QED BY <1>1, <1>2, PTL

\* A record of what was sent is what was sent, but for the data of a discard.
LEMMA RecordsFaithful ==
    ASSUME NEW h, NEW n, NEW b, Records(h, n, b)
    PROVE  \/ Entry(h, n) = b
           \/ "DISCARD" \in b.bi_rw /\ [Entry(h, n) EXCEPT !.data = NoData] = b
  <1>1. b \in DiskWrites /\ b \in Bios /\ Logged(b) /\ h[n].meta = b
        /\ h[n].data \in CopiedData(b)
    BY WrapperAssumption DEF Records
  <1>2. Entry(h, n) = [b EXCEPT !.data = h[n].data]
    BY <1>1 DEF Entry
  <1>3. CASE h[n].data = b.data
    BY <1>1, <1>2, <1>3 DEF DiskWrites
  <1>4. CASE h[n].data # b.data
    <2>1. b.size > 0 /\ b.data = NoData
      BY <1>1, <1>4 DEF CopiedData
    <2>2. "DISCARD" \in b.bi_rw
      BY <1>1, <2>1, DiscardAssumption
    <2>3. [Entry(h, n) EXCEPT !.data = NoData] = b
      BY <1>1, <1>2, <2>1 DEF DiskWrites
    <2> QED BY <2>2, <2>3
  <1> QED BY <1>3, <1>4

(***************************************************************************)
(* What get_wrapper_log returns is what the file system sent to the target *)
(* while logging was on, in that order and each with its own data, for any *)
(* workload of one submitting thread and any number of sessions.           *)
(***************************************************************************)
THEOREM LogFaithfulHolds ==
    ASSUME Settled, NEW t, Thread = {t} PROVE Spec => []LogFaithful
  <1>1. TypeInv /\ ChainInv(t) => LogFaithful
    <2> SUFFICES ASSUME TypeInv, ChainInv(t), hpc = "read", ~failed
                 PROVE  /\ Len(log_data) = Len(sent)
                        /\ \A k \in DOMAIN sent :
                             \/ log_data[k] = sent[k]
                             \/ /\ "DISCARD" \in sent[k].bi_rw
                                /\ [log_data[k] EXCEPT !.data = NoData] = sent[k]
      BY DEF LogFaithful
    <2>1. PICK c : IsChain(t, c)
      BY DEF ChainInv
    <2>2. SentInv(t, c) /\ ReadInv(c)
      BY <2>1 DEF IsChain
    <2>3. pc[t] \in {"idle", "pass"} /\ write[t] = NULL
      BY DEF ChainInv, FlowInv
    <2>4. Done(t, c) = Len(c)
      BY <2>3 DEF Done
    <2>5. Len(sent) = Len(c) /\ \A k \in 1..Len(sent) : Records(heap, c[k], sent[k])
      BY <2>2, <2>4 DEF SentInv
    <2>6. Len(log_data) = Len(c) /\ \A k \in 1..Len(log_data) : log_data[k] = Entry(heap, c[k])
      BY <2>2 DEF ReadInv
    <2>7. DOMAIN sent = 1..Len(sent)
      BY DEF TypeInv, TypeOK
    <2>8. ASSUME NEW k \in DOMAIN sent
          PROVE  \/ log_data[k] = sent[k]
                 \/ /\ "DISCARD" \in sent[k].bi_rw
                    /\ [log_data[k] EXCEPT !.data = NoData] = sent[k]
      <3>1. Records(heap, c[k], sent[k]) /\ log_data[k] = Entry(heap, c[k])
        BY <2>5, <2>6, <2>7, <2>8
      <3> QED BY <3>1, RecordsFaithful
    <2> QED BY <2>5, <2>6, <2>8
  <1>2. Spec => [](TypeInv /\ ChainInv(t))
    BY ChainInvHolds
  <1> QED BY <1>1, <1>2, PTL

=============================================================================
