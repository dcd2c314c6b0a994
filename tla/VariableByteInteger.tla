------------------------ MODULE VariableByteInteger -------------------------
(***************************************************************************)
(* packet/variable_byte_integer.rs: the encoding of the remaining length.  *)
(* A byte is a number below 2 * Base: the digit is byte % Base, and the    *)
(* continuation bit is set in the bytes from Base on.  Base is 128 in MQTT.*)
(***************************************************************************)
EXTENDS Integers, Sequences

CONSTANT Base

ASSUME BaseAssumption == Base \in Nat \ {0, 1}

Byte == 0..(2 * Base - 1)
MAX_DIGITS == 4                             \* the capacity of the ArrayVec
Weight == <<1, Base, Base * Base, Base * Base * Base>>
MAX == Base * Base * Base * Base - 1        \* VariableByteInteger::MAX

more(byte)  == byte >= Base
digit(byte) == byte % Base

\* What from_u32 has left of a value after i bytes.
quotient(value) ==
  LET r[i \in 0..MAX_DIGITS] == IF i = 0 THEN value ELSE r[i - 1] \div Base
  IN  r

\* The bytes of a value up to MAX: one for each division until nothing is left, the
\* lowest digit first, with the continuation bit if there is more.
size(value) == CHOOSE n \in 1..MAX_DIGITS : /\ quotient(value)[n] = 0
                                            /\ n > 1 => quotient(value)[n - 1] > 0
\* Mutant: the continuation bit is tested before the division.
from_u32_Before(value) ==
  [i \in 1..size(value) |-> digit(quotient(value)[i - 1])
                              + (IF quotient(value)[i - 1] > 0 THEN Base ELSE 0)]
from_u32(value) ==
  [i \in 1..size(value) |-> digit(quotient(value)[i - 1])
                              + (IF quotient(value)[i] > 0 THEN Base ELSE 0)]

\* The sum of the first n digits, each with its weight.
to_u32(encoded) ==
  LET sum[n \in 0..Len(encoded)] ==
        IF n = 0 THEN 0 ELSE sum[n - 1] + digit(encoded[n]) * Weight[n]
  IN  sum[Len(encoded)]

\* The first byte without the continuation bit ends the integer; the fourth
\* byte is the last that is read.
decode_stream(buf) ==
  LET read == SubSeq(buf, 1, IF Len(buf) < MAX_DIGITS THEN Len(buf) ELSE MAX_DIGITS)
      ends == {i \in DOMAIN read : ~more(read[i])}
  IN  IF ends # {}
      THEN LET last == CHOOSE i \in ends : \A j \in ends : i <= j
           IN  [result |-> "Ok", value |-> to_u32(SubSeq(read, 1, last)), used |-> last]
      ELSE IF Len(buf) < MAX_DIGITS THEN [result |-> "Incomplete"] ELSE [result |-> "Err"]
=============================================================================
