------------------------------ MODULE MCLogFile ------------------------------
(***************************************************************************)
(* A small instance of LogFile: every log of up to MaxRecords records with *)
(* up to MaxSize bytes of data.                                            *)
(***************************************************************************)
EXTENDS LogFile

CONSTANTS MaxRecords, MaxSize

\* A digit, a space or a newline.
DataByte == {1, SP, NL}

Record(rw, d) == [bi_flags |-> 0, bi_rw |-> rw, write_sector |-> 5, size |-> Len(d), data |-> d]

MCLogs == BoundedSeq({Record(2, d) : d \in BoundedSeq(DataByte, MaxSize)}, MaxRecords)

\* Nothing, or one operation that differs from all of the above.
MCOldLogs == {<<>>, <<Record(3, <<NL>>)>>}
=============================================================================
