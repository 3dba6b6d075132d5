------------------------------ MODULE LogFile ------------------------------
(***************************************************************************)
(* The profile file: Tester::log_profile_save writes the recorded          *)
(* operations with disk_write::serialize, and a later run of the harness   *)
(* (-r) reads them back with log_profile_load and deserialize.             *)
(*                                                                         *)
(* A record is four numbers, each followed by a space, then size bytes of  *)
(* data and a newline.  Data bytes are arbitrary, so they may look like    *)
(* digits, spaces or newlines.  A character is a number: the digits, SP    *)
(* and NL; the radix (16 in the code) is a parameter.                      *)
(***************************************************************************)
EXTENDS Numerals, SequencesExt

CONSTANTS
    Radix,
    Logs,          \* the logs a run may record
    OldLogs        \* the logs an earlier run may have left in the file

SP == Radix
NL == Radix + 1
Char == 0..NL

\* disk_write: metadata and as many bytes of data as it says.
Records == {r \in [bi_flags : Nat, bi_rw : Nat, write_sector : Nat, size : Nat,
                   data : Seq(Char)] : Len(r.data) = r.size}

ASSUME LogFileAssumption ==
    /\ Radix \in Nat /\ Radix >= 2
    /\ Logs \cup OldLogs \subseteq Seq(Records)

VARIABLES
    saver,         \* log_profile_save: where it is
    log_data,      \* the log it saves
    next,          \* the record it is on
    file,          \* what is on disk
    reader,        \* log_profile_load, with deserialize: where it is
    pos,           \* position in the file of the next character
    eofbit, failbit,
    meta,          \* the four numbers
    buffer, nl,    \* the data, and the character last got
    loaded,        \* the log it builds
    \* history
    old,           \* what the file held before
    opened, lost   \* the save could open the file; not all of it was written

saveVars == <<saver, next, opened, lost>>
stream == <<pos, eofbit, failbit>>
record == <<meta, buffer, nl>>
vars == <<saveVars, log_data, old, file, reader, stream, record, loaded>>

-----------------------------------------------------------------------------
(* serialize *)

digits[n \in Nat] ==
    IF n < Radix THEN <<n>> ELSE Append(digits[n \div Radix], n % Radix)

serialize(w) ==
    digits[w.bi_flags] \o <<SP>> \o digits[w.bi_rw] \o <<SP>>
      \o digits[w.write_sector] \o <<SP>> \o digits[w.size] \o <<SP>>
      \o w.data \o <<NL>>

Contents(log) == FlattenSeq([k \in DOMAIN log |-> serialize(log[k])])

-----------------------------------------------------------------------------
(* log_profile_save *)

\* Mutant: the file is opened for appending, as the comment there says.
OpenLog_Append ==
    /\ saver = "open"
    /\ opened' = TRUE
    /\ saver' = "write"
    /\ UNCHANGED <<next, lost, file, log_data, old, reader, stream, record, loaded>>

OpenLog ==
    /\ saver = "open"
    /\ opened' = TRUE
    /\ file' = <<>>
    /\ saver' = "write"
    /\ UNCHANGED <<next, lost, log_data, old, reader, stream, record, loaded>>

\* Every write to the stream is then a no-op, and SUCCESS is returned.
OpenLogFails ==
    /\ saver = "open"
    /\ lost' = TRUE
    /\ saver' = "returned"
    /\ UNCHANGED <<next, opened, log_data, old, file, reader, stream, record, loaded>>

\* One record; endl pushes it out to the file.
WriteRecord ==
    /\ saver = "write" /\ next <= Len(log_data)
    /\ file' = file \o serialize(log_data[next])
    /\ next' = next + 1
    /\ UNCHANGED <<saver, opened, lost, log_data, old, reader, stream, record, loaded>>

\* The disk is full, or the harness is killed, somewhere in a record: the rest
\* is not written.  In the first case log_profile_save still returns SUCCESS.
WriteCut ==
    /\ saver = "write" /\ next <= Len(log_data)
    /\ \E n \in 0..(Len(serialize(log_data[next])) - 1) :
         file' = file \o SubSeq(serialize(log_data[next]), 1, n)
    /\ lost' = TRUE
    /\ saver' \in {"returned", "killed"}
    /\ UNCHANGED <<next, opened, log_data, old, reader, stream, record, loaded>>

Saved ==
    /\ saver = "write" /\ next > Len(log_data)
    /\ saver' = "returned"
    /\ UNCHANGED <<next, opened, lost, log_data, old, file, reader, stream, record, loaded>>

log_profile_save == OpenLog \/ OpenLogFails \/ WriteRecord \/ WriteCut \/ Saved

-----------------------------------------------------------------------------
(* log_profile_load, in a later run *)

good == ~eofbit /\ ~failbit

AtEnd == pos > Len(file)

\* The file could not be opened: peek gives EOF, and failbit is set.
OpenForLoad ==
    /\ saver \in {"returned", "killed"} /\ reader = "idle"
    /\ failbit' \in BOOLEAN
    /\ reader' = "peek"
    /\ UNCHANGED <<saveVars, log_data, old, file, pos, eofbit, record, loaded>>

\* peek meets the end, or the stream is not good: the loop is left.
PeekEOF ==
    /\ reader = "peek" /\ (AtEnd \/ ~good)
    /\ eofbit' = TRUE
    /\ reader' = IF failbit THEN "error" ELSE "success"
    /\ UNCHANGED <<saveVars, log_data, old, file, pos, failbit, record, loaded>>

\* deserialize: nl and the four numbers are not initialised.
Deserialize ==
    /\ reader = "peek" /\ ~AtEnd /\ good
    /\ meta' = <<>>
    /\ nl' \in Char
    /\ reader' = "number"
    /\ UNCHANGED <<saveVars, log_data, old, file, stream, buffer, loaded>>

IsSpace(c) == c \in {SP, NL}

\* is >> number: skip white space, then take as many digits as there are.
ReadNumber ==
    /\ reader = "number"
    /\ LET ahead == {p \in pos..Len(file) : ~IsSpace(file[p])}
           first == Min(ahead)
           after == Min({p \in first..Len(file) : IsSpace(file[p])} \cup {Len(file) + 1})
           value == Value(Radix, SubSeq(file, first, after - 1))
       IN IF good /\ ahead # {}
          THEN /\ meta' = Append(meta, value)
               /\ pos' = after
               /\ eofbit' = (after > Len(file))
               /\ UNCHANGED failbit
          ELSE \* the extraction fails and leaves the variable as it is
               /\ \E garbage \in 0..1 : meta' = Append(meta, garbage)
               /\ pos' = Len(file) + 1
               /\ eofbit' = TRUE /\ failbit' = TRUE
    /\ reader' = IF Len(meta') = 4 THEN "space" ELSE "number"
    /\ UNCHANGED <<saveVars, log_data, old, file, buffer, nl, loaded>>

\* Mutant: the position advances past the end.
Get_Unchecked == nl' = (IF AtEnd THEN SP ELSE file[pos]) /\ pos' = pos + 1
                 /\ UNCHANGED <<eofbit, failbit>>

\* is.get(nl): a get that fails leaves nl as it is.
Get == IF good /\ ~AtEnd
       THEN nl' = file[pos] /\ pos' = pos + 1 /\ UNCHANGED <<eofbit, failbit>>
       ELSE eofbit' = TRUE /\ failbit' = TRUE /\ UNCHANGED <<nl, pos>>

\* The space after size, and its assert.
EatSpace ==
    /\ reader = "space"
    /\ Get
    /\ reader' = IF nl' = SP THEN "data" ELSE "aborted"
    /\ UNCHANGED <<saveVars, log_data, old, file, meta, buffer, loaded>>

\* Mutant: the data is extracted with >>, which skips white space.
ReadData_Formatted ==
    /\ reader = "data"
    /\ LET ahead == {p \in pos..Len(file) : ~IsSpace(file[p])}
           from == IF meta[4] = 0 \/ ahead = {} THEN pos ELSE Min(ahead)
           n == Min({meta[4], Len(file) + 1 - from})
       IN /\ buffer' = SubSeq(file, from, from + n - 1)
          /\ pos' = from + n
          /\ eofbit' = (eofbit \/ n < meta[4]) /\ failbit' = (failbit \/ n < meta[4])
    /\ reader' = "newline"
    /\ UNCHANGED <<saveVars, log_data, old, file, meta, nl, loaded>>

\* is.read(data, meta.size): a short read sets both bits.
ReadData ==
    /\ reader = "data"
    /\ LET n == IF good THEN Min({meta[4], Len(file) + 1 - pos}) ELSE 0
       IN /\ buffer' = SubSeq(file, pos, pos + n - 1)
          /\ pos' = pos + n
          /\ eofbit' = (eofbit \/ n < meta[4]) /\ failbit' = (failbit \/ n < meta[4])
    /\ reader' = "newline"
    /\ UNCHANGED <<saveVars, log_data, old, file, meta, nl, loaded>>

\* The newline, its assert, and push_back of the new disk_write.
EatNewline ==
    /\ reader = "newline"
    /\ Get
    /\ IF nl' = NL
       THEN /\ loaded' = Append(loaded,
                 [bi_flags |-> meta[1], bi_rw |-> meta[2], write_sector |-> meta[3],
                  size |-> meta[4], data |-> buffer])
            /\ reader' = "peek"
       ELSE reader' = "aborted" /\ UNCHANGED loaded
    /\ UNCHANGED <<saveVars, log_data, old, file, meta, buffer>>

deserialize == Deserialize \/ ReadNumber \/ EatSpace \/ ReadData \/ EatNewline

log_profile_load == OpenForLoad \/ PeekEOF \/ deserialize

Ended == reader \in {"success", "error", "aborted"} /\ UNCHANGED vars

-----------------------------------------------------------------------------

Init ==
    /\ log_data \in Logs /\ old \in OldLogs
    /\ saver = "open" /\ next = 1
    /\ file = Contents(old)
    /\ reader = "idle" /\ pos = 1 /\ eofbit = FALSE /\ failbit = FALSE
    /\ meta = <<>> /\ buffer = <<>> /\ nl = SP
    /\ loaded = <<>>
    /\ opened = FALSE /\ lost = FALSE

Next == log_profile_save \/ log_profile_load \/ Ended

Spec == Init /\ [][Next]_vars

-----------------------------------------------------------------------------
(* Properties *)

\* The variables keep their types; the reader never leaves the file.
TypeOK ==
    /\ saver \in {"open", "write", "returned", "killed"}
    /\ next \in 1..(Len(log_data) + 1)
    /\ file \in Seq(Char)
    /\ reader \in {"idle", "peek", "number", "space", "data", "newline",
                   "success", "error", "aborted"}
    /\ pos \in 1..(Len(file) + 1)
    /\ eofbit \in BOOLEAN /\ failbit \in BOOLEAN
    /\ meta \in Seq(Nat) /\ Len(meta) <= 4
    /\ buffer \in Seq(Char) /\ nl \in Char

(***************************************************************************)
(* A log that was written whole is read back as it was, whatever its data  *)
(* bytes look like, and over whatever file was there before: the load      *)
(* neither trips over its own asserts nor changes a record.                *)
(***************************************************************************)
RoundTrip ==
    ~lost =>
        /\ reader # "aborted"
        /\ reader = "success" => loaded = log_data

(***************************************************************************)
(* A file that was cut anywhere never yields a record that was not         *)
(* recorded: a load that succeeds returns the first records of the saved   *)
(* log (an end between two records goes unnoticed), or, when the save      *)
(* could not open the file, the whole of the log saved before it.          *)
(***************************************************************************)
LoadedIsPrefix ==
    reader = "success" =>
        IF opened THEN IsPrefix(loaded, log_data) ELSE loaded = old
============================================================================
