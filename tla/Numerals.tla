------------------------------ MODULE Numerals ------------------------------
(***************************************************************************)
(* Numbers written as digits, most significant first: the hexadecimal      *)
(* numbers of a profile file and the bytes of an integer on a socket.      *)
(***************************************************************************)
EXTENDS Integers, Sequences

\* radix to the power n
Power(radix, n) ==
    LET power[k \in 0..n] == IF k = 0 THEN 1 ELSE radix * power[k - 1]
    IN power[n]

\* The number that the digits stand for.
Value(radix, s) ==
    LET value[k \in 0..Len(s)] == IF k = 0 THEN 0 ELSE value[k - 1] * radix + s[k]
    IN value[Len(s)]
=============================================================================
