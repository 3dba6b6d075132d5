--------------------------- MODULE SnapshotDisk ---------------------------
(***************************************************************************)
(* What the copy-on-write RAM disk promises the harness: disks, and        *)
(* snapshots of them that start out equal to their disk, take writes of    *)
(* their own without disturbing anything else, and go back to the disk's   *)
(* contents when restored.  A disk is frozen while its snapshots diverge.  *)
(***************************************************************************)
EXTENDS Naturals

CONSTANTS Dev, Disk, Sector, Val, Zero,
          Thread, None,       \* who writes, and no request
          DiskOf(_)           \* the disk a device is, or is a snapshot of

VARIABLES content,            \* what a read of each device returns
          frozen,             \* whether a disk refuses writes
          request             \* per thread: the write in progress, or None

sdVars == <<content, frozen, request>>

Requests == [dev : Dev, sectors : SUBSET Sector, val : Val]

SDInit ==
    /\ content = [d \in Dev |-> [s \in Sector |-> Zero]]
    /\ frozen = [d \in Disk |-> FALSE]
    /\ request = [t \in Thread |-> None]

\* A frozen disk takes no request, a snapshot takes one only if its disk is frozen.
Begin(t) ==
    /\ request[t] = None
    /\ \E r \in Requests :
         /\ frozen[DiskOf(r.dev)] <=> r.dev \notin Disk
         /\ request' = [request EXCEPT ![t] = r]
    /\ UNCHANGED <<content, frozen>>

Put(c, S, v) == [s \in Sector |-> IF s \in S THEN v ELSE c[s]]

(***************************************************************************)
(* Some of the requested sectors are written, at once.  A write to a disk  *)
(* shows through its snapshots, none of which has diverged; a write to a   *)
(* snapshot shows nowhere else.                                            *)
(***************************************************************************)
Write(t) ==
    /\ request[t] # None
    /\ LET r == request[t]
           shows(e) == e = r.dev \/ (r.dev \in Disk /\ DiskOf(e) = r.dev)
       IN /\ \A e \in Dev : shows(e) => content[e] = content[r.dev]
          /\ \E S \in SUBSET r.sectors :
               content' = [e \in Dev |-> IF shows(e) THEN Put(content[e], S, r.val)
                                                     ELSE content[e]]
    /\ UNCHANGED <<frozen, request>>

\* The request is done with, or has failed half way.
End(t) ==
    /\ request' = [request EXCEPT ![t] = None]
    /\ UNCHANGED <<content, frozen>>

SetFrozen(d, b) ==
    /\ frozen' = [frozen EXCEPT ![d] = b]
    /\ UNCHANGED <<content, request>>

Restore(e) ==
    /\ content' = [content EXCEPT ![e] = content[DiskOf(e)]]
    /\ UNCHANGED <<frozen, request>>

Wipe(d) ==
    /\ content' = [e \in Dev |-> IF DiskOf(e) = d THEN [s \in Sector |-> Zero]
                                                  ELSE content[e]]
    /\ UNCHANGED <<frozen, request>>

SDNext ==
    \/ \E t \in Thread : Begin(t) \/ Write(t) \/ End(t)
    \/ \E d \in Disk : Wipe(d) \/ \E b \in BOOLEAN : SetFrozen(d, b)
    \/ \E e \in Dev \ Disk : Restore(e)

SDSpec == SDInit /\ [][SDNext]_sdVars
============================================================================
