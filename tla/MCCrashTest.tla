---------------------------- MODULE MCCrashTest ----------------------------
(***************************************************************************)
(* A small instance of CrashTest: chosen logs on a disk of two sectors.    *)
(***************************************************************************)
EXTENDS CrashTest

MCPayload == 1..3

\* The operation of kind k at log position p: a write of the first sector, one
\* that reaches into the second, a FUA write, a flush with data, one that is
\* also FUA and so not split, an empty flush, and a flush bit on something that
\* is no write, which the tester skips.
LoggedOp(k, p) ==
    LET op(flags, sector, size) ==
            [bi_rw |-> flags, write_sector |-> sector, size |-> size,
             data |-> IF size = 0 THEN NoData ELSE p]
    IN CASE k = "first"   -> op({"WRITE"}, 0, 2)
         [] k = "both"    -> op({"WRITE"}, 0, 3)
         [] k = "fua"     -> op({"WRITE", "FUA"}, 1, 1)
         [] k = "flush"   -> op({"WRITE", "FLUSH"}, 1, 1)
         [] k = "forced"  -> op({"WRITE", "FLUSH", "FUA"}, 1, 1)
         [] k = "empty"   -> op({"WRITE", "FLUSH"}, 0, 0)
         [] k = "noWrite" -> op({"FLUSH"}, 0, 2)

\* Overlapping writes without a barrier, around a flush, before one that is not
\* split and around a FUA write; a flush whose data belongs to the next epoch;
\* flushes in a row; one operation only, so that the generator gives up; nothing
\* at all.
KindSeqs ==
    {<<>>, <<"flush">>, <<"noWrite", "fua">>, <<"both", "first">>,
     <<"first", "flush", "both">>, <<"flush", "both", "fua">>,
     <<"both", "empty", "first">>, <<"flush", "flush", "first">>,
     <<"both", "first", "forced">>}

MCLogs == {[p \in DOMAIN ks |-> LoggedOp(ks[p], p)] : ks \in KindSeqs}

\* What a default-constructed disk_write may hold: nothing, or a stale write.
MCGarbage == {[bi_rw |-> {}, write_sector |-> 0, size |-> 0, data |-> NoData],
              [bi_rw |-> {"WRITE"}, write_sector |-> 1, size |-> 1, data |-> NoData]}

MCCheckReturns == {[ret |-> 0, error |-> "kClean"],
                   [ret |-> 0, error |-> "kFileMissing"],
                   [ret |-> -1, error |-> "kOldFilePersisted"]}
=============================================================================
