--------------------------- MODULE MessageStream ---------------------------
(***************************************************************************)
(* One connection on the command socket, byte by byte: a client program    *)
(* (ClientCommandSender::Run) sends a message and waits for the reply, the *)
(* harness (ServerSocket::WaitForMessage, SendCommand, CloseClient) reads  *)
(* it, answers and hangs up.  Both use BaseSocket, whose integers are      *)
(* words in network order and whose strings are padded to whole words.     *)
(* Module Harness has the same exchange with whole messages, and what the  *)
(* harness does for a command.                                             *)
(*                                                                         *)
(* A word has Word bytes (4 in the code) and a byte Radix values; hosts    *)
(* are little-endian.  send and recv may move fewer bytes than asked for.  *)
(***************************************************************************)
EXTENDS Numerals, SequencesExt

CONSTANTS
    Word, Radix,
    Capacity,         \* bytes the kernel holds in one direction
    Messages,         \* what the client may send: [type, bytes]
    Strings,          \* string_value of the checkpoint messages it may send
    Strays,           \* what may follow a string that has no terminator
    Expected,         \* the command the harness waits for
    ExpectedDone      \* and the one that says it is done

\* CmCommand
kInvalidCommand == 1
kCheckpoint == 10
Control == (0..11) \ {kCheckpoint}

Byte == 0..(Radix - 1)
NUL == 0

\* What an integer can be.
Uint32 == 0..(Power(Radix, Word) - 1)

\* Mutant: the string is cut to whole words.
RoundUp_Down(len) == (len \div Word) * Word

RoundUp(len) == ((len + Word - 1) \div Word) * Word

\* The data of a message is in an array on the stack, and its size an integer.
ASSUME MessageStreamAssumption ==
    /\ Word \in Nat \ {0} /\ Radix \in Nat \ {0} /\ 12 \in Uint32
    /\ Capacity \in Nat \ {0}
    \* Type and data, as a program that is not this one may send them; a
    \* checkpoint of this one is in Strings.
    /\ Messages \subseteq [type : Uint32, bytes : Seq(Byte)]
    /\ \A msg \in Messages : Len(msg.bytes) \in Uint32
    /\ Strings \subseteq Seq(Byte \ {NUL}) \ {<<>>}
    /\ \A s \in Strings : RoundUp(Len(s)) \in Uint32
    /\ Strays \subseteq Seq(Byte \ {NUL})
    /\ Expected \in Control /\ ExpectedDone \in Control \ {Expected, kInvalidCommand}

End == {"client", "server"}
Peer(e) == IF e = "client" THEN "server" ELSE "client"

VARIABLES
    pc,        \* where each end is
    out,       \* fields it has still to send
    pipe,      \* bytes on their way to it
    field,     \* bytes of the field it is reading
    m,         \* the SocketMessage it is reading
    closed,    \* ends that have closed the connection
    reset,     \* ends whose peer closed with unread bytes
    result,    \* what ClientCommandSender::Run returned
    sent       \* history: the message the client set out to send

vars == <<pc, out, pipe, field, m, closed, reset, result, sent>>

-----------------------------------------------------------------------------
(* Words and strings *)

\* Mutant: the bytes of an integer go out in host order.
HtonlBytes_HostOrder(n) == [k \in 1..Word |-> (n \div Power(Radix, k - 1)) % Radix]

\* An integer on the wire, most significant byte first.
HtonlBytes(n) == [k \in 1..Word |-> (n \div Power(Radix, Word - k)) % Radix]

ntohl(bytes) == Value(Radix, bytes)

\* Every word of a string swapped: htonl and ntohl on a little-endian host.
SwapWords(bytes) ==
    [k \in DOMAIN bytes |->
        LET first == ((k - 1) \div Word) * Word + 1
        IN bytes[first + Word - 1 - (k - first)]]

Padded(s) == [k \in 1..RoundUp(Len(s)) |-> IF k <= Len(s) THEN s[k] ELSE NUL]

\* The C string that starts with bytes; with no NUL in it, it runs on.
CStrings(bytes) ==
    LET nuls == {k \in DOMAIN bytes : bytes[k] = NUL}
    IN IF nuls # {} THEN {SubSeq(bytes, 1, Min(nuls) - 1)}
                    ELSE {bytes \o stray : stray \in Strays}

\* Mutant: the size of a control message is not sent.
WriteCommand_NoSize(type) == <<HtonlBytes(type)>>

\* WriteMessageToSocket: the fields of a control message, whose size is 0.
WriteCommand(type) == <<HtonlBytes(type), HtonlBytes(0)>>

\* The fields of a checkpoint message.  strcpy puts the terminator of a string
\* that fills its words one byte past send_data; it is not sent.
WriteCheckpoint(s) ==
    <<HtonlBytes(kCheckpoint), HtonlBytes(RoundUp(Len(s))), SwapWords(Padded(s))>>

\* Another program that follows the layout in SocketUtils.h.
WriteForeign(msg) ==
    <<HtonlBytes(msg.type), HtonlBytes(Len(msg.bytes))>>
      \o IF msg.bytes = <<>> THEN <<>> ELSE <<msg.bytes>>

-----------------------------------------------------------------------------
(* Writing *)

\* send: some bytes of the field, as room allows; the loop sends the rest.
Send(e) ==
    /\ pc[e] = "write" /\ out[e] # <<>> /\ Peer(e) \notin closed
    /\ \E n \in 1..Len(Head(out[e])) :
         /\ Len(pipe[Peer(e)]) + n <= Capacity
         /\ pipe' = [pipe EXCEPT ![Peer(e)] = @ \o SubSeq(Head(out[e]), 1, n)]
         /\ out' = [out EXCEPT ![e] =
                      IF n = Len(Head(@)) THEN Tail(@)
                      ELSE <<SubSeq(Head(@), n + 1, Len(Head(@)))>> \o Tail(@)]
    /\ UNCHANGED <<pc, field, m, closed, reset, result, sent>>

\* The end closes its socket in state s; bytes it has not read reset the peer.
Close(e, s) ==
    /\ pc' = [pc EXCEPT ![e] = s]
    /\ closed' = closed \cup {e}
    /\ reset' = IF pipe[e] # <<>> THEN reset \cup {Peer(e)} ELSE reset

\* send to a closed socket raises SIGPIPE.
SendBroken(e) ==
    /\ pc[e] = "write" /\ out[e] # <<>> /\ Peer(e) \in closed
    /\ Close(e, "killed")
    /\ UNCHANGED <<out, pipe, field, m, result, sent>>

-----------------------------------------------------------------------------
(* Reading: ReadMessageFromSocket *)

Reading(e) == pc[e] \in {"type", "size", "gobble", "string"}

\* Bytes the field being read has in all.
FieldSize(e) == IF pc[e] \in {"type", "size"} THEN Word ELSE m[e].size

\* Mutant: recv is asked for the whole field again after a short read.
RecvLimit_WholeField(e) == FieldSize(e)

RecvLimit(e) == FieldSize(e) - Len(field[e])

\* recv: some of the bytes that are there.
Recv(e) ==
    /\ Reading(e) /\ Len(field[e]) < FieldSize(e)
    /\ \E n \in 1..Len(pipe[e]) :
         /\ n <= RecvLimit(e)
         /\ field' = [field EXCEPT ![e] = @ \o SubSeq(pipe[e], 1, n)]
         /\ pipe' = [pipe EXCEPT ![e] = SubSeq(@, n + 1, Len(@))]
    /\ UNCHANGED <<pc, out, m, closed, reset, result, sent>>

\* The peer is gone: recv returns 0 and the loop goes round.
RecvEOF(e) ==
    /\ Reading(e) /\ Len(field[e]) < FieldSize(e)
    /\ pipe[e] = <<>> /\ Peer(e) \in closed /\ e \notin reset
    /\ UNCHANGED vars

\* The peer closed with unread bytes: recv fails once (ECONNRESET).
RecvFails(e) ==
    /\ Reading(e) /\ Len(field[e]) < FieldSize(e)
    /\ pipe[e] = <<>> /\ e \in reset
    /\ pc' = [pc EXCEPT ![e] = "bad"]
    /\ reset' = reset \ {e}
    /\ UNCHANGED <<out, pipe, field, m, closed, result, sent>>

\* The field is complete: go on in state s with message msg.
FieldDone(e, state, s, msg) ==
    /\ pc[e] = state /\ Len(field[e]) >= FieldSize(e)
    /\ field' = [field EXCEPT ![e] = <<>>]
    /\ m' = [m EXCEPT ![e] = msg]
    /\ pc' = [pc EXCEPT ![e] = s]
    /\ UNCHANGED <<out, pipe, closed, reset, result, sent>>

ReadType(e) == FieldDone(e, "type", "size", [m[e] EXCEPT !.type = ntohl(field[e])])

\* Mutant: the extra data of a control message is left in the socket.
AfterSize_NoGobble(type, size) ==
    IF type \in Control THEN "read" ELSE IF type = kCheckpoint THEN "string" ELSE "bad"

\* What follows the header: extra data of a control message is gobbled up.
AfterSize(type, size) ==
    CASE type \in Control -> IF size = 0 THEN "read" ELSE "gobble"
      [] type = kCheckpoint -> IF size % Word # 0 THEN "bad" ELSE "string"
      [] OTHER -> "bad"

ReadSize(e) == LET size == ntohl(field[e])
               IN FieldDone(e, "size", AfterSize(m[e].type, size), [m[e] EXCEPT !.size = size])

GobbleData(e) == FieldDone(e, "gobble", "read", m[e])

ReadString(e) ==
    \E s \in CStrings(SwapWords(field[e])) :
        FieldDone(e, "string", "read", [m[e] EXCEPT !.string_value = s])

ReadMessage(e) ==
    \/ Recv(e) \/ RecvFails(e) \/ ReadType(e) \/ ReadSize(e) \/ GobbleData(e)
    \/ pc[e] = "string" /\ Len(field[e]) >= FieldSize(e) /\ ReadString(e)

-----------------------------------------------------------------------------
(* The client: ClientCommandSender::Run *)

\* SendCommand has returned: WaitForMessage.
ClientWaits ==
    /\ pc["client"] = "write" /\ out["client"] = <<>>
    /\ pc' = [pc EXCEPT !["client"] = "type"]
    /\ UNCHANGED <<out, pipe, field, m, closed, reset, result, sent>>

\* Run returns whether the reply is return_command, or -3.
ClientReturns ==
    /\ pc["client"] \in {"read", "bad"}
    /\ result' = IF pc["client"] = "bad" THEN "-3"
                 ELSE IF m["client"].type = ExpectedDone THEN "1" ELSE "0"
    /\ Close("client", "returned")
    /\ UNCHANGED <<out, pipe, field, m, sent>>

\* The user interrupts the program.
ClientQuits ==
    /\ "client" \notin closed
    /\ Close("client", "quit")
    /\ UNCHANGED <<out, pipe, field, m, result, sent>>

-----------------------------------------------------------------------------
(* The harness *)

\* The harness answers the message it has read.
ServerReplies ==
    /\ pc["server"] = "read"
    /\ out' = [out EXCEPT !["server"] =
                 WriteCommand(IF m["server"].type = Expected THEN ExpectedDone
                                                             ELSE kInvalidCommand)]
    /\ pc' = [pc EXCEPT !["server"] = "write"]
    /\ UNCHANGED <<pipe, field, m, closed, reset, result, sent>>

\* CloseClient.
ServerCloses ==
    /\ pc["server"] = "write" /\ out["server"] = <<>>
    /\ Close("server", "closed")
    /\ UNCHANGED <<out, pipe, field, m, result, sent>>

\* WaitForMessage returned an error: the harness cleans up and exits.
ServerGivesUp ==
    /\ pc["server"] = "bad"
    /\ Close("server", "dead")
    /\ UNCHANGED <<out, pipe, field, m, result, sent>>

-----------------------------------------------------------------------------

NoMessage == [type |-> 0, size |-> 0, string_value |-> <<>>]

Init ==
    /\ \/ \E msg \in Messages :
            /\ sent = [type |-> msg.type, string_value |-> <<>>]
            /\ out = [e \in End |-> IF e = "client" THEN WriteForeign(msg) ELSE <<>>]
       \/ \E s \in Strings :
            /\ sent = [type |-> kCheckpoint, string_value |-> s]
            /\ out = [e \in End |-> IF e = "client" THEN WriteCheckpoint(s) ELSE <<>>]
       \/ \E type \in Control :
            /\ sent = [type |-> type, string_value |-> <<>>]
            /\ out = [e \in End |-> IF e = "client" THEN WriteCommand(type) ELSE <<>>]
    /\ pc = [e \in End |-> IF e = "client" THEN "write" ELSE "type"]
    /\ pipe = [e \in End |-> <<>>] /\ field = [e \in End |-> <<>>]
    /\ m = [e \in End |-> NoMessage]
    /\ closed = {} /\ reset = {} /\ result = "none"

Client == Send("client") \/ SendBroken("client") \/ ReadMessage("client")
          \/ ClientWaits \/ ClientReturns

Server == Send("server") \/ SendBroken("server") \/ ReadMessage("server")
          \/ ServerReplies \/ ServerCloses \/ ServerGivesUp

Over == closed = End /\ UNCHANGED vars

Next == Client \/ Server \/ ClientQuits \/ (\E e \in End : RecvEOF(e)) \/ Over

Spec == Init /\ [][Next]_vars

\* Both programs run and the kernel moves bytes; nobody need interrupt a client.
FairSpec == Spec /\ WF_vars(Client) /\ WF_vars(Server)

-----------------------------------------------------------------------------
(* Properties *)

\* The variables keep their types; no read overruns the field it fills.
TypeOK ==
    /\ pc \in [End -> {"write", "type", "size", "gobble", "string", "read", "bad",
                       "returned", "quit", "killed", "closed", "dead"}]
    /\ out \in [End -> Seq(Seq(Byte))]
    /\ pipe \in [End -> Seq(Byte)] /\ field \in [End -> Seq(Byte)]
    /\ m \in [End -> [type : Nat, size : Nat, string_value : Seq(Byte)]]
    /\ \A e \in End : /\ Len(pipe[e]) <= Capacity
                      /\ Reading(e) => Len(field[e]) <= FieldSize(e)
    /\ closed \subseteq End /\ reset \subseteq End
    /\ result \in {"none", "-3", "0", "1"}

(***************************************************************************)
(* The harness gets the message the client sent, however send and recv     *)
(* cut it up: its type, and for a checkpoint its string.  A string that    *)
(* fills its words has no terminator, and may come out with stray bytes    *)
(* after it.                                                               *)
(***************************************************************************)
MessageIntact ==
    pc["server"] = "read" =>
        LET got == m["server"]
        IN /\ got.type = sent.type
           /\ sent.string_value # <<>> =>
                /\ IsPrefix(sent.string_value, got.string_value)
                /\ Len(sent.string_value) % Word # 0 =>
                     got.string_value = sent.string_value

(***************************************************************************)
(* When the harness has read a message the stream holds nothing more of    *)
(* it, and the client has nothing left to send: the data of a control      *)
(* message was gobbled up.  Otherwise the client could still be sending    *)
(* when the harness hangs up, and die of SIGPIPE with the reply unread.    *)
(***************************************************************************)
StreamDrained ==
    pc["server"] \in {"read", "write", "closed"} =>
        /\ pipe["server"] = <<>>
        /\ out["client"] = <<>> \/ pc["client"] = "quit"

(***************************************************************************)
(* Run tells its user the truth: it returns 1 exactly if the command was   *)
(* the one the harness waited for, 0 for any other it understood, and -3   *)
(* only when the harness gave up on a malformed message.                   *)
(***************************************************************************)
ResultTruthful ==
    /\ result = "1" => sent.type = Expected
    /\ result = "0" => sent.type # Expected
    /\ result = "-3" => pc["server"] = "dead"

(***************************************************************************)
(* Nobody waits for ever on a peer that is there: the client's Run returns *)
(* unless it is interrupted, or the harness gave up on its message; and    *)
(* the harness is done with the connection unless the client was           *)
(* interrupted in the middle of its message (recv then returns 0, which    *)
(* the loop takes for a short read).                                       *)
(***************************************************************************)
ConnectionEnds ==
    /\ <>(pc["client"] \in {"returned", "quit", "killed"} \/ pc["server"] = "dead")
    /\ <>(pc["server"] \in {"closed", "dead", "killed"} \/ pc["client"] = "quit")
============================================================================
