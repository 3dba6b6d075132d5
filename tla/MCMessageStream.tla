-------------------------- MODULE MCMessageStream --------------------------
(***************************************************************************)
(* A small instance of MessageStream: words of two bytes with four values. *)
(***************************************************************************)
EXTENDS MessageStream

\* Control messages with extra data, a checkpoint that is not a whole number of
\* words, and a type that does not exist, with and without data.
MCMessages ==
    {[type |-> 6, bytes |-> <<1, 0, 2>>], [type |-> 2, bytes |-> <<3>>],
     [type |-> kCheckpoint, bytes |-> <<1, 2, 3>>],
     [type |-> 13, bytes |-> <<>>], [type |-> 13, bytes |-> <<1, 2>>]}

MCStrings == {<<1>>, <<2, 3>>, <<1, 2, 3>>, <<1, 3, 2, 1>>, <<3, 2, 1, 2, 3>>}

MCStrays == {<<>>, <<3>>}
============================================================================
