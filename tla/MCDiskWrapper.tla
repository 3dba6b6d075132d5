--------------------------- MODULE MCDiskWrapper ---------------------------
(***************************************************************************)
(* Small instances of DiskWrapper.                                         *)
(***************************************************************************)
EXTENDS DiskWrapper, TLC

CONSTANTS a, b

Op(flags, sector, size, data) ==
    [bi_rw |-> flags, write_sector |-> sector, size |-> size, data |-> data]

\* Two writes of the same place, a flush without data, a discard, and a read.
MCBios == {Op({"WRITE"}, 1, 1, a), Op({"WRITE", "FUA"}, 1, 1, b),
           Op({"WRITE", "FLUSH"}, 0, 0, NoData),
           Op({"WRITE", "DISCARD"}, 1, 1, NoData), Op({}, 1, 1, NoData)}
============================================================================
