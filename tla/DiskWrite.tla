----------------------------- MODULE DiskWrite -----------------------------
(***************************************************************************)
(* One logged block operation: struct disk_write_op_meta with the payload  *)
(* that goes with it, and the flag tests of utils/utils_c.c.  bi_rw is the *)
(* set of REQ_* bits that are on; a payload is an identity, NoData is the  *)
(* NULL pointer of an operation to which no payload was ever assigned.     *)
(***************************************************************************)
EXTENDS Naturals

CONSTANTS Payload,   \* identities of the payloads a workload writes
          NoData     \* the NULL data pointer

ASSUME PayloadAssumption == NoData \notin Payload

\* The REQ_* bits the code tests.
Flag == {"WRITE", "FUA", "FLUSH", "FLUSH_SEQ", "SOFTBARRIER", "DISCARD"}

DiskWrites == [bi_rw : SUBSET Flag, write_sector : Nat, size : Nat,
               data : Payload \cup {NoData}]

has_write_flag(w) == "WRITE" \in w.bi_rw

has_flush_flag(w) == "FLUSH" \in w.bi_rw

has_flush_seq_flag(w) == "FLUSH_SEQ" \in w.bi_rw

has_FUA_flag(w) == "FUA" \in w.bi_rw

\* Without REQ_WRITE no operation is a barrier, whatever its other flags.
is_barrier_write(w) ==
    /\ w.bi_rw \cap {"FUA", "FLUSH", "FLUSH_SEQ", "SOFTBARRIER"} # {}
    /\ has_write_flag(w)
============================================================================
