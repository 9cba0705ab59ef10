------------------------------ MODULE SeqArith ------------------------------
(***************************************************************************)
(* C arithmetic on the 32-bit sequence numbers of tcp.c and buffer.c.      *)
(* A sequence number is an unsigned int: sums and differences wrap at      *)
(* SeqMod (2^32 in the program, a small even number in a model), and a     *)
(* difference stored in an int is the signed reading of the same bits.     *)
(***************************************************************************)
EXTENDS Integers

CONSTANT SeqMod      \* number of values of an unsigned int

ASSUME SeqModAssumption == SeqMod \in Nat /\ SeqMod > 1 /\ SeqMod % 2 = 0

\* The values of a uint variable.
uint == 0..(SeqMod - 1)

\* "a + n" and "a - n" computed in unsigned arithmetic.
SeqAdd(a, n) == (a + n) % SeqMod

\* "int d = a - b": the signed value of an unsigned difference.
IntDiff(a, b) ==
    LET u == (a - b) % SeqMod
    IN  IF 2 * u < SeqMod THEN u ELSE u - SeqMod

\* The smaller of two ints, for the "if (len > x) len = x" idiom.
MinInt(a, b) == IF a < b THEN a ELSE b
=============================================================================
