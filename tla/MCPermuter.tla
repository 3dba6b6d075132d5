----------------------------- MODULE MCPermuter -----------------------------
(***************************************************************************)
(* Small instances of Permuter: every log of up to MaxLog operations of    *)
(* the given kinds, and every one longer by one operation of fewer kinds,  *)
(* each operation with a payload of its own.                               *)
(***************************************************************************)
EXTENDS Permuter

CONSTANTS MaxLog, Kinds, LongKinds, Sectors

MCPayload == 1..(MaxLog + 1)

\* The operations on the wire: a plain write, a FUA write, a flush with data,
\* the second half of a kernel flush sequence, a soft barrier, a flush with
\* FUA, and a flush bit on something that is no write.
KindFlags ==
    [plain   |-> {"WRITE"},
     fua     |-> {"WRITE", "FUA"},
     flush   |-> {"WRITE", "FLUSH"},
     seq     |-> {"WRITE", "FLUSH_SEQ"},
     soft    |-> {"WRITE", "SOFTBARRIER"},
     flushFua |-> {"WRITE", "FLUSH", "FUA"},
     noWrite |-> {"FLUSH"}]

Kind(kinds) == [flags : {KindFlags[k] : k \in kinds}, sector : Sectors]

MCLogs ==
    LET log(kinds) == [p \in DOMAIN kinds |->
            [bi_rw |-> kinds[p].flags, write_sector |-> kinds[p].sector,
             size |-> 1, data |-> p]]
    IN UNION {{log(kinds) : kinds \in [1..n -> Kind(Kinds)]} : n \in 0..MaxLog}
         \cup {log(kinds) : kinds \in [1..(MaxLog + 1) -> Kind(LongKinds)]}

ASSUME MCDistinctPayloads == DistinctPayloads

\* What a default-constructed disk_write may hold: nothing, or a stale WRITE.
MCGarbage == {[bi_rw |-> f, write_sector |-> 0, size |-> 0, data |-> NoData] :
                 f \in {{}, {"WRITE"}}}
=============================================================================
