------------------------ MODULE PacketBuilderProofs -------------------------
(***************************************************************************)
(* feed frames what the peer wrote, however the transport cuts it, for     *)
(* every Base, every set of packets with lengths of up to three bytes and  *)
(* any number of them.  The proof follows the bytes: what from_u32 writes, *)
(* what one byte does to a builder that has read the first m bytes of a    *)
(* stream, what feed therefore returns, and which stream is on the         *)
(* transport.                                                              *)
(***************************************************************************)
EXTENDS PacketBuilder, NaturalsInduction, WellFoundedInduction, SequenceTheorems, TLAPS

\* What % and \div are for the digits of a length.
LEMMA Division ==
  ASSUME NEW x \in Nat
  PROVE  /\ x \div Base \in Nat /\ x % Base \in 0..(Base - 1)
         /\ x = Base * (x \div Base) + (x % Base)
<1>1. x \div Base \in Int /\ x % Base \in 0..(Base - 1)
  BY BaseAssumption
<1>2. x = Base * (x \div Base) + (x % Base)
  BY BaseAssumption
<1>3. x \div Base >= 0
  <2>1. SUFFICES ASSUME x \div Base <= -1 PROVE FALSE
    BY <1>1
  <2>2. Base * (x \div Base) <= -Base
    BY <1>1, <2>1, BaseAssumption
  <2> QED BY <1>1, <1>2, <2>2, BaseAssumption
<1> QED BY <1>1, <1>2, <1>3

\* The continuation bit does not change the digit.
LEMMA Digits ==
  ASSUME NEW d \in 0..(Base - 1)
  PROVE  digit(d) = d /\ digit(d + Base) = d /\ ~more(d) /\ more(d + Base)
BY BaseAssumption DEF digit, more

\* quotient is defined: each value is the one before it, divided.
LEMMA Quotients ==
  ASSUME NEW x \in Nat
  PROVE  /\ quotient(x)[0] = x
         /\ \A i \in 1..4 : quotient(x)[i] = quotient(x)[i - 1] \div Base
<1> DEFINE Rec(g) == g = [i \in 0..4 |-> IF i = 0 THEN x ELSE g[i - 1] \div Base]
           w == [i \in 0..4 |-> IF i = 0 THEN x
                          ELSE IF i = 1 THEN x \div Base
                          ELSE IF i = 2 THEN (x \div Base) \div Base
                          ELSE IF i = 3 THEN ((x \div Base) \div Base) \div Base
                          ELSE (((x \div Base) \div Base) \div Base) \div Base]
<1>1. Rec(w)
  OBVIOUS
<1>2. quotient(x) = CHOOSE g : Rec(g)
  BY DEF quotient, MAX_DIGITS
<1>3. Rec(quotient(x))
  BY <1>1, <1>2
<1> QED BY <1>3

\* The value of the first n of the digits that begin behind position o, n at most 3.
Value(s, o, n) ==
  (IF n > 0 THEN digit(s[o + 1]) ELSE 0)
    + (IF n > 1 THEN digit(s[o + 2]) * Base ELSE 0)
    + (IF n > 2 THEN digit(s[o + 3]) * (Base * Base) ELSE 0)

\* The bytes of s behind position o are an integer of n bytes.
Ends(s, o, n) == (\A i \in 1..(n - 1) : more(s[o + i])) /\ ~more(s[o + n])

\* How many bytes remaining_length_to_total_size takes a length to have.
Bytes(l) == IF l < Base THEN 1 ELSE IF l < Base * Base THEN 2 ELSE 3

\* What the divisions leave of a length below Base^3.
LEMMA Divisions ==
  ASSUME NEW l \in Nat, l < Base * Base * Base
  PROVE  LET q == quotient(l) IN
         /\ \A i \in 0..3 : q[i] \in Nat /\ digit(q[i]) \in 0..(Base - 1)
         /\ q[0] = l /\ q[3] = 0
         /\ l = digit(q[0]) + digit(q[1]) * Base + digit(q[2]) * (Base * Base)
         /\ q[1] = 0 <=> l < Base
         /\ q[2] = 0 <=> l < Base * Base
         /\ q[1] = 0 => q[2] = 0 /\ digit(q[1]) = 0
         /\ q[2] = 0 => digit(q[2]) = 0
<1> DEFINE q == quotient(l)
           a == l \div Base
           b == a \div Base
           c == b \div Base
<1>1. /\ a \in Nat /\ digit(l) \in 0..(Base - 1) /\ l = Base * a + digit(l)
      /\ b \in Nat /\ digit(a) \in 0..(Base - 1) /\ a = Base * b + digit(a)
      /\ c \in Nat /\ digit(b) \in 0..(Base - 1) /\ b = Base * c + digit(b)
      /\ digit(c) \in 0..(Base - 1)
  BY Division, Zenon DEF digit
<1>2. q[0] = l /\ q[1] = a /\ q[2] = b /\ q[3] = c
  BY Quotients
<1> HIDE DEF a, b, c, q
<1>3. \A x, y \in Nat : /\ x < y => Base * x + Base <= Base * y
                        /\ x <= y => Base * x <= Base * y
                        /\ Base * x \in Nat
  BY BaseAssumption
<1>4. Base \in Nat /\ Base > 1 /\ Base * Base \in Nat
  BY BaseAssumption
<1>5. a = 0 <=> l < Base
  BY <1>1, <1>3, <1>4
<1>6. b = 0 <=> a < Base
  BY <1>1, <1>3, <1>4
<1>7. c = 0 <=> b < Base
  BY <1>1, <1>3, <1>4
<1>8. a < Base <=> l < Base * Base
  BY <1>1, <1>3, <1>4
<1>9. b < Base
  <2>1. SUFFICES ASSUME Base <= b PROVE FALSE
    BY <1>1, <1>4
  <2>2. Base * Base <= a
    BY <1>1, <1>3, <1>4, <2>1
  <2>3. Base * (Base * Base) <= l
    BY <1>1, <1>3, <1>4, <2>2
  <2>4. Base * (Base * Base) = Base * Base * Base
    BY <1>4
  <2> QED BY <1>1, <1>4, <2>3, <2>4
<1>10. c = 0 /\ b = digit(b)
  BY <1>1, <1>4, <1>7, <1>9
<1>11. l = digit(l) + digit(a) * Base + digit(b) * (Base * Base)
  <2>1. a = Base * digit(b) + digit(a)
    BY <1>1, <1>10
  <2>2. Base * a = Base * (Base * digit(b)) + Base * digit(a)
    <3>1. \A x, y \in Int : Base * (x + y) = Base * x + Base * y
      BY <1>4
    <3>2. Base * digit(b) \in Int /\ digit(a) \in Int
      BY <1>1, <1>4
    <3>3. Base * (Base * digit(b) + digit(a)) = Base * (Base * digit(b)) + Base * digit(a)
      BY <3>1, <3>2, Zenon
    <3> QED BY <2>1, <3>3
  <2>3. Base * (Base * digit(b)) = digit(b) * (Base * Base) /\ Base * digit(a) = digit(a) * Base
    BY <1>1, <1>4
  <2> QED BY <1>1, <1>4, <2>2, <2>3
<1>12. /\ a = 0 => b = 0 /\ digit(a) = 0
       /\ b = 0 => digit(b) = 0
  BY <1>1, <1>3, <1>4, <1>6, <1>10
<1>13. \A i \in 0..3 : q[i] \in Nat /\ digit(q[i]) \in 0..(Base - 1)
  BY <1>1, <1>2
<1>14. LET u == quotient(l) IN u = q
  BY DEF q
<1> QED BY <1>2, <1>5, <1>6, <1>8, <1>10, <1>11, <1>12, <1>13 DEF q

\* from_u32: a length below Base^3 has the bytes that its size says, and their value.
LEMMA LengthBytes ==
  ASSUME NEW l \in Nat, l < Base * Base * Base
  PROVE  LET e == from_u32(l)
             n == Bytes(l) IN
         /\ size(l) = n /\ e \in Seq(Byte) /\ Len(e) = n
         /\ Ends(e, 0, n) /\ Value(e, 0, n) = l
<1> DEFINE q == quotient(l)
           e == from_u32(l)
           n == Bytes(l)
<1>1. /\ \A i \in 0..3 : q[i] \in Nat /\ digit(q[i]) \in 0..(Base - 1)
      /\ q[0] = l /\ q[3] = 0
      /\ l = digit(q[0]) + digit(q[1]) * Base + digit(q[2]) * (Base * Base)
      /\ q[1] = 0 <=> l < Base
      /\ q[2] = 0 <=> l < Base * Base
      /\ q[1] = 0 => q[2] = 0 /\ digit(q[1]) = 0
      /\ q[2] = 0 => digit(q[2]) = 0
  BY Divisions, Zenon
<1>2. size(l) = CHOOSE k \in 1..4 : q[k] = 0 /\ (k > 1 => q[k - 1] > 0)
  BY DEF size, MAX_DIGITS
<1>3. e = [i \in 1..size(l) |-> digit(q[i - 1]) + (IF q[i] > 0 THEN Base ELSE 0)]
  BY DEF from_u32
<1> HIDE DEF q, e
<1>4. n \in 1..3 /\ q[n] = 0 /\ (n > 1 => q[n - 1] > 0)
  BY <1>1 DEF Bytes
<1>5. ASSUME NEW k \in 1..4, q[k] = 0, k > 1 => q[k - 1] > 0 PROVE k = n
  <2>1. CASE k = 1
    BY <1>1, <1>5, <2>1 DEF Bytes
  <2>2. CASE k = 2
    BY <1>1, <1>5, <2>2 DEF Bytes
  <2>3. CASE k = 3
    BY <1>1, <1>5, <2>3 DEF Bytes
  <2>4. CASE k = 4
    BY <1>1, <1>5, <2>4
  <2> QED BY <2>1, <2>2, <2>3, <2>4
<1>6. size(l) = n
  <2>1. n \in 1..4
    BY <1>4
  <2> HIDE DEF n
  <2> QED BY <1>2, <1>4, <1>5, <2>1
<1>7. Base \in Nat /\ Base > 1
  BY BaseAssumption
<1>8. ASSUME NEW i \in 1..n
      PROVE  /\ e[i] = IF i < n THEN digit(q[i - 1]) + Base ELSE digit(q[i - 1])
             /\ e[i] \in Byte /\ digit(e[i]) = digit(q[i - 1])
             /\ more(e[i]) <=> i < n
  <2>1. e[i] = digit(q[i - 1]) + (IF q[i] > 0 THEN Base ELSE 0) /\ i - 1 \in 0..3 /\ i \in 0..3
    BY <1>3, <1>4, <1>6
  <2>2. q[i] > 0 <=> i < n
    BY <1>1, <1>4, <2>1 DEF Bytes
  <2>3. PICK d \in 0..(Base - 1) : d = digit(q[i - 1])
    BY <1>1, <2>1
  <2>4. e[i] = IF i < n THEN d + Base ELSE d
    BY <1>7, <2>1, <2>2, <2>3
  <2> HIDE DEF n
  <2>5. digit(d) = d /\ digit(d + Base) = d /\ ~more(d) /\ more(d + Base)
    BY Digits
  <2>6. e[i] \in Byte
    BY <1>7, <2>4 DEF Byte
  <2> QED BY <2>3, <2>4, <2>5, <2>6
<1>9. e \in Seq(Byte) /\ Len(e) = n
  <2>1. n \in Nat /\ e = [i \in 1..n |-> e[i]]
    BY <1>3, <1>4, <1>6
  <2> HIDE DEF n
  <2>2. e \in [1..n -> Byte]
    BY <1>8, <2>1
  <2> QED BY <2>1, <2>2
<1>10. Ends(e, 0, n)
  BY <1>4, <1>8 DEF Ends
<1>11. Value(e, 0, n) = l
  <2>1. /\ n > 0 => digit(e[1]) = digit(q[0])
        /\ n > 1 => digit(e[2]) = digit(q[1])
        /\ n > 2 => digit(e[3]) = digit(q[2])
    BY <1>4, <1>8
  <2>2. CASE n = 1
    BY <1>1, <1>7, <2>1, <2>2 DEF Value, Bytes
  <2>3. CASE n = 2
    BY <1>1, <1>7, <2>1, <2>3 DEF Value, Bytes
  <2>4. CASE n = 3
    BY <1>1, <1>7, <2>1, <2>4 DEF Value, Bytes
  <2> QED BY <1>4, <2>2, <2>3, <2>4
<1> QED BY <1>6, <1>9, <1>10, <1>11 DEF e

-----------------------------------------------------------------------------
\* The builder has read the first m bytes of the stream r: one byte of the header and k
\* of the length, which goes on; or the length and a part of the payload.
InLength(b, r) ==
  /\ b.state = "RemainingLength" /\ b.raw_buf = <<>>
  /\ \E k \in 0..3 : /\ Len(b.header_buf) = k + 1 /\ b.multiplier = Weight[k + 1]
                     /\ b.remaining_length = Value(r, 1, k)
                     /\ \A i \in 1..k : more(r[1 + i])
InPayload(b, r) ==
  /\ b.state = "Payload"
  /\ \E k \in 1..3 : /\ Len(b.header_buf) = k + 1 /\ Ends(r, 1, k)
                     /\ b.remaining_length \in Nat \ {0}
                     /\ b.remaining_length + Len(b.raw_buf) = Value(r, 1, k)
Holds(b, r, m) ==
  /\ b = [state |-> b.state, header_buf |-> b.header_buf, multiplier |-> b.multiplier,
          remaining_length |-> b.remaining_length, raw_buf |-> b.raw_buf]
  /\ b.header_buf \in Seq(Byte) /\ b.raw_buf \in Seq(Byte)
  /\ m = Len(b.header_buf) + Len(b.raw_buf) /\ m <= Len(r)
  /\ \A i \in 1..Len(b.header_buf) : b.header_buf[i] = r[i]
  /\ \A i \in 1..Len(b.raw_buf) : b.raw_buf[i] = r[Len(b.header_buf) + i]
At(b, r, m) == Holds(b, r, m) /\ (b = Fresh \/ InLength(b, r) \/ InPayload(b, r))

\* The first m bytes of r are the packet p; or its length does not end.
Whole(p, r, m) ==
  /\ m <= Len(r)
  /\ \E k \in 1..3 : /\ Ends(r, 1, k)
                     /\ p = [header |-> r[1], data |-> p.data] /\ p.data \in Seq(Byte)
                     /\ Len(p.data) = Value(r, 1, k) /\ m = 1 + k + Len(p.data)
                     /\ \A i \in 1..Len(p.data) : p.data[i] = r[1 + k + i]
TooLong(r) == Len(r) >= 5 /\ \A i \in 1..3 : more(r[1 + i])

\* What feed may return when it has read up to position m.
Returned(out, r, m) ==
  \/ out.result = "Incomplete" /\ At(out.builder, r, m)
  \/ out.result = "Complete" /\ out.builder = Fresh /\ Whole(out.packet, r, m)
  \/ out.result = "Error" /\ out.builder = Fresh /\ TooLong(r)

\* One digit more, with the multiplier of feed.
LEMMA ValueNext ==
  ASSUME NEW r \in Seq(Byte), NEW k \in 0..2, 1 + k < Len(r)
  PROVE  /\ Value(r, 1, k) \in Nat /\ Value(r, 1, k + 1) \in Nat
         /\ Value(r, 1, k) + digit(r[k + 2]) * Weight[k + 1] = Value(r, 1, k + 1)
         /\ Weight[k + 1] * Base = Weight[k + 2] /\ Weight[k + 2] <= Base * Base * Base
<1>1. Base \in Nat /\ Base > 1 /\ Base * Base \in Nat /\ Base * Base * Base \in Nat
  BY BaseAssumption
<1>2. \A i \in 1..Len(r) : r[i] \in Nat
  BY <1>1 DEF Byte
<1>3. \A i \in 1..Len(r) : digit(r[i]) \in Nat
  <2>1. \A x \in Nat : digit(x) \in 0..(Base - 1)
    BY Division, Zenon DEF digit
  <2>2. \A x \in Nat : digit(x) \in Nat
    BY <1>1, <2>1, SMTT(30)
  <2> QED BY <1>2, <2>2
<1>4. \A x, y \in Nat : x * y \in Nat
  OBVIOUS
<1>5. Base <= Base * Base /\ Base * Base <= Base * Base * Base
  <2>1. \A x \in Nat : x <= x * Base
    BY <1>1
  <2> QED BY <1>1, <2>1
<1>6. /\ Weight[1] = 1 /\ Weight[2] = Base /\ Weight[3] = Base * Base
      /\ Weight[4] = Base * Base * Base
  BY DEF Weight
<1>7. CASE k = 0
  <2>1. digit(r[2]) \in Nat
    BY <1>3, <1>7
  <2>2. Value(r, 1, k) = 0 /\ Value(r, 1, k + 1) = digit(r[2])
    BY <1>7, <2>1 DEF Value
  <2>3. digit(r[k + 2]) * Weight[k + 1] = digit(r[2])
    BY <1>6, <1>7, <2>1
  <2>4. Weight[k + 1] * Base = Weight[k + 2] /\ Weight[k + 2] <= Base * Base * Base
    BY <1>1, <1>5, <1>6, <1>7
  <2> QED BY <2>1, <2>2, <2>3, <2>4
<1>8. CASE k = 1
  <2>1. digit(r[2]) \in Nat /\ digit(r[3]) * Base \in Nat
    BY <1>1, <1>3, <1>4, <1>8
  <2>2. /\ Value(r, 1, k) = digit(r[2])
        /\ Value(r, 1, k + 1) = digit(r[2]) + digit(r[3]) * Base
    BY <1>8, <2>1 DEF Value
  <2>3. digit(r[k + 2]) * Weight[k + 1] = digit(r[3]) * Base
    BY <1>6, <1>8
  <2>4. Weight[k + 1] * Base = Weight[k + 2] /\ Weight[k + 2] <= Base * Base * Base
    BY <1>1, <1>5, <1>6, <1>8
  <2> QED BY <2>1, <2>2, <2>3, <2>4
<1>9. CASE k = 2
  <2>1. digit(r[2]) \in Nat /\ digit(r[3]) * Base \in Nat /\ digit(r[4]) * (Base * Base) \in Nat
    BY <1>1, <1>3, <1>4, <1>9, SMTT(30)
  <2>2. /\ Value(r, 1, k) = digit(r[2]) + digit(r[3]) * Base
        /\ Value(r, 1, k + 1) = digit(r[2]) + digit(r[3]) * Base + digit(r[4]) * (Base * Base)
    BY <1>9, <2>1 DEF Value
  <2>3. digit(r[k + 2]) * Weight[k + 1] = digit(r[4]) * (Base * Base)
    BY <1>6, <1>9
  <2>4. Weight[k + 1] * Base = Weight[k + 2] /\ Weight[k + 2] <= Base * Base * Base
    BY <1>1, <1>6, <1>9
  <2> QED BY <2>1, <2>2, <2>3, <2>4, SMTT(30)
<1> QED BY <1>7, <1>8, <1>9

\* Changes of several fields of a builder, as the arms of feed make them.
LEMMA Updates ==
  ASSUME NEW b, b = [state |-> b.state, header_buf |-> b.header_buf,
                     multiplier |-> b.multiplier, remaining_length |-> b.remaining_length,
                     raw_buf |-> b.raw_buf],
         NEW x, NEW y, NEW z
  PROVE  /\ [b EXCEPT !.header_buf = x, !.state = y]
              = [state |-> y, header_buf |-> x, multiplier |-> b.multiplier,
                 remaining_length |-> b.remaining_length, raw_buf |-> b.raw_buf]
         /\ [b EXCEPT !.header_buf = x, !.remaining_length = y, !.multiplier = z]
              = [state |-> b.state, header_buf |-> x, multiplier |-> z,
                 remaining_length |-> y, raw_buf |-> b.raw_buf]
         /\ [b EXCEPT !.raw_buf = x, !.remaining_length = y]
              = [state |-> b.state, header_buf |-> b.header_buf, multiplier |-> b.multiplier,
                 remaining_length |-> y, raw_buf |-> x]
<1> DEFINE h == [b EXCEPT !.header_buf = x]
           l == [h EXCEPT !.remaining_length = y]
           w == [b EXCEPT !.raw_buf = x]
<1>1. /\ [b EXCEPT !.header_buf = x, !.state = y] = [h EXCEPT !.state = y]
      /\ [b EXCEPT !.header_buf = x, !.remaining_length = y, !.multiplier = z]
           = [l EXCEPT !.multiplier = z]
      /\ [b EXCEPT !.raw_buf = x, !.remaining_length = y] = [w EXCEPT !.remaining_length = y]
  OBVIOUS
<1>2. /\ h = [state |-> b.state, header_buf |-> x, multiplier |-> b.multiplier,
              remaining_length |-> b.remaining_length, raw_buf |-> b.raw_buf]
      /\ w = [state |-> b.state, header_buf |-> b.header_buf, multiplier |-> b.multiplier,
              remaining_length |-> b.remaining_length, raw_buf |-> x]
  OBVIOUS
<1> HIDE DEF h, w
<1>3. l = [state |-> b.state, header_buf |-> x, multiplier |-> b.multiplier,
           remaining_length |-> y, raw_buf |-> b.raw_buf]
  BY <1>2
<1> HIDE DEF l
<1>4. [h EXCEPT !.state = y]
        = [state |-> y, header_buf |-> x, multiplier |-> b.multiplier,
           remaining_length |-> b.remaining_length, raw_buf |-> b.raw_buf]
  BY <1>2
<1>5. [l EXCEPT !.multiplier = z]
        = [state |-> b.state, header_buf |-> x, multiplier |-> z,
           remaining_length |-> y, raw_buf |-> b.raw_buf]
  BY <1>3
<1>6. [w EXCEPT !.remaining_length = y]
        = [state |-> b.state, header_buf |-> b.header_buf, multiplier |-> b.multiplier,
           remaining_length |-> y, raw_buf |-> x]
  BY <1>2
<1> QED BY <1>1, <1>4, <1>5, <1>6

\* The three arms of feed, on the next byte of the stream.
LEMMA ReadHeader ==
  ASSUME NEW r \in Seq(Byte), r # <<>>
  PROVE  Returned(read_fixed_header(Fresh, r[1]), r, 1)
<1> DEFINE b == [Fresh EXCEPT !.header_buf = Append(@, r[1]), !.state = "RemainingLength"]
<1>1. r[1] \in Byte /\ Len(r) >= 1
  OBVIOUS
<1>2. b = [state |-> "RemainingLength", header_buf |-> <<r[1]>>, multiplier |-> 1,
           remaining_length |-> 0, raw_buf |-> <<>>]
  <2> DEFINE f == [Fresh EXCEPT !.header_buf = <<r[1]>>]
  <2>1. f = [state |-> "FixedHeader", header_buf |-> <<r[1]>>, multiplier |-> 1,
             remaining_length |-> 0, raw_buf |-> <<>>]
    BY DEF Fresh
  <2>2. b = [f EXCEPT !.state = "RemainingLength"]
    <3>1. Append(Fresh.header_buf, r[1]) = <<r[1]>>
      BY DEF Fresh
    <3> QED BY <3>1
  <2> HIDE DEF f, b
  <2> QED BY <2>1, <2>2
<1> HIDE DEF b
<1>3. Holds(b, r, 1)
  BY <1>1, <1>2 DEF Holds
<1>4. InLength(b, r)
  BY <1>2 DEF InLength, Weight, Value
<1>5. read_fixed_header(Fresh, r[1]) = [result |-> "Incomplete", builder |-> b]
  BY DEF read_fixed_header, Incomplete, b
<1> QED BY <1>3, <1>4, <1>5 DEF Returned, At

LEMMA ReadLength ==
  ASSUME NEW r \in Seq(Byte), NEW b, NEW m \in Nat, Holds(b, r, m), InLength(b, r), m < Len(r)
  PROVE  Returned(read_remaining_length(b, r[m + 1]), r, m + 1)
<1>1. PICK k \in 0..3 : /\ Len(b.header_buf) = k + 1 /\ b.multiplier = Weight[k + 1]
                       /\ b.remaining_length = Value(r, 1, k)
                       /\ \A i \in 1..k : more(r[1 + i])
  BY DEF InLength
<1>2. b.raw_buf = <<>> /\ m = k + 1 /\ r[m + 1] \in Byte /\ b.header_buf \in Seq(Byte)
  BY <1>1 DEF InLength, Holds
<1> DEFINE c == r[m + 1]
           h == Append(b.header_buf, c)
           v == b.remaining_length + digit(c) * b.multiplier
           w == b.multiplier * Base
           read == [b EXCEPT !.header_buf = Append(@, c),
                             !.remaining_length = @ + digit(c) * b.multiplier,
                             !.multiplier = @ * Base]
           out == read_remaining_length(b, c)
<1>3. read = [state |-> "RemainingLength", header_buf |-> h, multiplier |-> w,
              remaining_length |-> v, raw_buf |-> <<>>]
  <2>1. /\ b = [state |-> b.state, header_buf |-> b.header_buf, multiplier |-> b.multiplier,
                remaining_length |-> b.remaining_length, raw_buf |-> b.raw_buf]
        /\ b.state = "RemainingLength"
    BY DEF Holds, InLength
  <2>2. read = [b EXCEPT !.header_buf = h, !.remaining_length = v, !.multiplier = w]
    OBVIOUS
  <2> HIDE DEF h, v, w, read
  <2>3. read = [state |-> b.state, header_buf |-> h, multiplier |-> w,
                remaining_length |-> v, raw_buf |-> b.raw_buf]
    BY <2>1, <2>2, Updates, Zenon
  <2> QED BY <1>2, <2>1, <2>3
<1>4. out = IF w > Base * Base * Base THEN MalformedPacket
            ELSE IF more(c) THEN Incomplete(read)
            ELSE IF v = 0 THEN Complete(read)
            ELSE Incomplete([read EXCEPT !.state = "Payload"])
  BY <1>3 DEF read_remaining_length
<1>5. /\ h \in Seq(Byte) /\ Len(h) = k + 2 /\ k + 2 <= Len(r)
      /\ \A i \in 1..(k + 2) : h[i] = r[i]
  BY <1>1, <1>2 DEF Holds
<1> HIDE DEF h, v, w, read, out
<1>6. CASE k = 3
  <2>1. w > Base * Base * Base
    <3>1. w = Base * Base * Base * Base
      BY <1>1, <1>6 DEF w, Weight
    <3>2. Base * Base * Base \in Nat /\ Base * Base * Base > 0 /\ Base \in Nat /\ Base > 1
      BY BaseAssumption
    <3>3. \A x \in Nat : x > 0 => x * Base > x
      BY <3>2
    <3> QED BY <3>1, <3>2, <3>3
  <2>2. out = [result |-> "Error", builder |-> Fresh]
    BY <1>4, <2>1 DEF MalformedPacket
  <2>3. TooLong(r)
    BY <1>1, <1>2, <1>6 DEF TooLong
  <2> QED BY <2>2, <2>3 DEF Returned, out
<1>7. CASE k < 3
  <2>1. /\ v = Value(r, 1, k + 1) /\ w = Weight[k + 2] /\ w <= Base * Base * Base
        /\ v \in Nat /\ w \in Nat /\ Base * Base * Base \in Nat
    <3>1. k \in 0..2 /\ 1 + k < Len(r)
      BY <1>2, <1>7
    <3>2. /\ b.remaining_length + digit(r[k + 2]) * Weight[k + 1] = Value(r, 1, k + 1)
          /\ Weight[k + 1] * Base = Weight[k + 2] /\ Weight[k + 2] <= Base * Base * Base
      BY <1>1, <3>1, ValueNext
    <3>3. Base * Base \in Nat /\ Base * Base * Base \in Nat
      BY BaseAssumption
    <3>4. Weight[k + 2] \in Nat
      BY <3>1, <3>3, BaseAssumption DEF Weight
    <3>5. Value(r, 1, k + 1) \in Nat
      BY <3>1, ValueNext
    <3> QED BY <1>1, <1>2, <3>2, <3>3, <3>4, <3>5 DEF v, w
  <2>2. CASE more(c)
    <3>1. out = [result |-> "Incomplete", builder |-> read]
      BY <1>4, <2>1, <2>2 DEF Incomplete
    <3>2. Holds(read, r, m + 1)
      BY <1>2, <1>3, <1>5 DEF Holds
    <3>3. \A i \in 1..(k + 1) : more(r[1 + i])
      BY <1>1, <1>2, <2>2
    <3>4. InLength(read, r)
      <4>1. k + 1 \in 0..3 /\ Len(h) = (k + 1) + 1
        BY <1>5, <1>7
      <4>2. /\ read.state = "RemainingLength" /\ read.raw_buf = <<>> /\ read.header_buf = h
            /\ read.multiplier = Weight[(k + 1) + 1] /\ read.remaining_length = Value(r, 1, k + 1)
        BY <1>3, <2>1
      <4> QED BY <3>3, <4>1, <4>2 DEF InLength
    <3> QED BY <3>1, <3>2, <3>4 DEF Returned, At, out
  <2>3. CASE ~more(c)
    <3>1. Ends(r, 1, k + 1) /\ k + 1 \in 1..3
      BY <1>1, <1>2, <1>7, <2>3 DEF Ends
    <3>2. CASE v = 0
      <4>1. out = [result |-> "Complete", builder |-> Fresh,
                   packet |-> [header |-> h[1], data |-> <<>>]]
        BY <1>3, <1>4, <2>1, <2>3, <3>2 DEF Complete
      <4>2. h[1] = r[1]
        BY <1>5
      <4>3. Whole([header |-> h[1], data |-> <<>>], r, m + 1)
        BY <1>2, <1>5, <2>1, <3>1, <3>2, <4>2 DEF Whole
      <4> QED BY <4>1, <4>3 DEF Returned, out
    <3>3. CASE v # 0
      <4> DEFINE d == [read EXCEPT !.state = "Payload"]
      <4>1. out = [result |-> "Incomplete", builder |-> d]
        BY <1>4, <2>1, <2>3, <3>3 DEF Incomplete
      <4>2. d = [state |-> "Payload", header_buf |-> h, multiplier |-> w,
                 remaining_length |-> v, raw_buf |-> <<>>]
        BY <1>3
      <4> HIDE DEF d
      <4>3. Holds(d, r, m + 1)
        BY <1>2, <1>5, <4>2 DEF Holds
      <4>4. InPayload(d, r)
        <5>1. Len(h) = (k + 1) + 1
          BY <1>5
        <5> QED BY <2>1, <3>1, <3>3, <4>2, <5>1, SMTT(30) DEF InPayload
      <4> QED BY <4>1, <4>3, <4>4 DEF Returned, At, out
    <3> QED BY <3>2, <3>3
  <2> QED BY <2>2, <2>3
<1> QED BY <1>6, <1>7

LEMMA ReadPayload ==
  ASSUME NEW r \in Seq(Byte), NEW b, NEW m \in Nat, Holds(b, r, m), InPayload(b, r), m < Len(r)
  PROVE  Returned(read_payload(b, r[m + 1]), r, m + 1)
<1>1. PICK k \in 1..3 : /\ Len(b.header_buf) = k + 1 /\ Ends(r, 1, k)
                       /\ b.remaining_length \in Nat \ {0}
                       /\ b.remaining_length + Len(b.raw_buf) = Value(r, 1, k)
  BY DEF InPayload
<1> DEFINE c == r[m + 1]
           w == Append(b.raw_buf, c)
           v == b.remaining_length - 1
           read == [b EXCEPT !.raw_buf = Append(@, c), !.remaining_length = @ - 1]
           out == read_payload(b, c)
<1>2. read = [state |-> "Payload", header_buf |-> b.header_buf, multiplier |-> b.multiplier,
              remaining_length |-> v, raw_buf |-> w]
  <2>1. /\ b = [state |-> b.state, header_buf |-> b.header_buf, multiplier |-> b.multiplier,
                remaining_length |-> b.remaining_length, raw_buf |-> b.raw_buf]
        /\ b.state = "Payload"
    BY DEF Holds, InPayload
  <2>2. read = [b EXCEPT !.raw_buf = w, !.remaining_length = v]
    OBVIOUS
  <2> HIDE DEF w, v, read
  <2>3. read = [state |-> b.state, header_buf |-> b.header_buf, multiplier |-> b.multiplier,
                remaining_length |-> v, raw_buf |-> w]
    BY <2>1, <2>2, Updates, Zenon
  <2> QED BY <2>1, <2>3
<1>3. out = IF v = 0 THEN Complete(read) ELSE Incomplete(read)
  BY <1>2 DEF read_payload
<1>4. /\ b.header_buf \in Seq(Byte) /\ b.raw_buf \in Seq(Byte) /\ c \in Byte
      /\ Len(b.header_buf) \in Nat /\ Len(b.raw_buf) \in Nat
      /\ m = Len(b.header_buf) + Len(b.raw_buf)
  BY DEF Holds
<1>5. /\ \A i \in 1..Len(b.header_buf) : b.header_buf[i] = r[i]
      /\ \A i \in 1..Len(b.raw_buf) : b.raw_buf[i] = r[Len(b.header_buf) + i]
  BY DEF Holds
<1>6. /\ w \in Seq(Byte) /\ Len(w) = Len(b.raw_buf) + 1
      /\ w[Len(b.raw_buf) + 1] = c /\ \A i \in 1..Len(b.raw_buf) : w[i] = b.raw_buf[i]
  <2>1. \A q \in Seq(Byte), x \in Byte :
          /\ Append(q, x) \in Seq(Byte) /\ Len(Append(q, x)) = Len(q) + 1
          /\ Append(q, x)[Len(q) + 1] = x /\ \A i \in 1..Len(q) : Append(q, x)[i] = q[i]
    OBVIOUS
  <2> HIDE DEF c
  <2> QED BY <1>4, <2>1, Zenon
<1>7. /\ v \in Nat /\ v + Len(w) = Value(r, 1, k) /\ m + 1 = Len(b.header_buf) + Len(w)
      /\ v = 0 => m + 1 = 1 + k + Len(w)
      /\ m + 1 = Len(b.header_buf) + (Len(b.raw_buf) + 1) /\ m + 1 <= Len(r)
  <2> HIDE DEF c, w
  <2>1. Len(w) = Len(b.raw_buf) + 1 /\ Len(b.header_buf) = k + 1
    BY <1>1, <1>6, Zenon
  <2>2. b.remaining_length + Len(b.raw_buf) = Value(r, 1, k) /\ b.remaining_length \in Nat \ {0}
    BY <1>1, Zenon
  <2>3. /\ Len(b.header_buf) \in Nat /\ Len(b.raw_buf) \in Nat /\ Len(r) \in Nat
        /\ m = Len(b.header_buf) + Len(b.raw_buf)
    BY <1>4
  <2>4. v \in Nat /\ v + Len(w) = b.remaining_length + Len(b.raw_buf)
    BY <2>1, <2>2, <2>3, SMTT(30)
  <2>5. \A x, y, t \in Nat : m = x + y /\ t = y + 1 /\ x = k + 1
                           => m + 1 = x + t /\ m + 1 = x + (y + 1) /\ m + 1 = 1 + k + t
    OBVIOUS
  <2>6. /\ m + 1 = Len(b.header_buf) + Len(w) /\ m + 1 = Len(b.header_buf) + (Len(b.raw_buf) + 1)
        /\ m + 1 = 1 + k + Len(w)
    <3>1. Len(w) \in Nat
      BY <2>1, <2>3
    <3> QED BY <2>1, <2>3, <2>5, <3>1, Zenon
  <2>7. m + 1 <= Len(r)
    OBVIOUS
  <2> HIDE DEF v
  <2> QED BY <2>2, <2>4, <2>6, <2>7
<1> HIDE DEF w, v, read, out
<1>8. \A i \in 1..Len(w) : w[i] = r[Len(b.header_buf) + i]
  <2>1. \A i \in 1..Len(w) : i \in 1..Len(b.raw_buf) \/ i = Len(b.raw_buf) + 1
    BY <1>4, <1>6
  <2> QED BY <1>5, <1>6, <1>7, <2>1, Zenon
<1> HIDE DEF c
<1>9. CASE v = 0
  <2>1. out = [result |-> "Complete", builder |-> Fresh,
               packet |-> [header |-> b.header_buf[1], data |-> w]]
    BY <1>2, <1>3, <1>9 DEF Complete
  <2>2. b.header_buf[1] = r[1]
    <3>1. 1 \in 1..Len(b.header_buf)
      BY <1>1
    <3> QED BY <1>5, <3>1, Zenon
  <2> DEFINE p == [header |-> b.header_buf[1], data |-> w]
  <2>3. p.data = w /\ p = [header |-> r[1], data |-> p.data]
    BY <2>2
  <2>4. m + 1 <= Len(r) /\ Len(w) = Value(r, 1, k) /\ m + 1 = 1 + k + Len(w)
    <3>1. Len(w) \in Nat
      BY <1>6
    <3> QED BY <1>7, <1>9, <3>1
  <2>5. \A i \in 1..Len(w) : w[i] = r[1 + k + i]
    BY <1>1, <1>8
  <2>6. Whole(p, r, m + 1)
    <3> HIDE DEF p
    <3> QED BY <1>1, <1>6, <2>3, <2>4, <2>5, Zenon DEF Whole
  <2> QED BY <2>1, <2>6 DEF Returned, out, c
<1>10. CASE v # 0
  <2>1. out = [result |-> "Incomplete", builder |-> read]
    BY <1>3, <1>10 DEF Incomplete
  <2>2. Holds(read, r, m + 1)
    <3>1. /\ read.header_buf = b.header_buf /\ read.raw_buf = w
          /\ read = [state |-> read.state, header_buf |-> read.header_buf,
                     multiplier |-> read.multiplier,
                     remaining_length |-> read.remaining_length, raw_buf |-> read.raw_buf]
      BY <1>2
    <3> QED BY <1>4, <1>5, <1>6, <1>7, <1>8, <3>1, Zenon DEF Holds
  <2>3. InPayload(read, r)
    BY <1>1, <1>2, <1>7, <1>10 DEF InPayload
  <2> QED BY <2>1, <2>2, <2>3 DEF Returned, At, out, c
<1> QED BY <1>9, <1>10

\* One byte more.
LEMMA ReadByte ==
  ASSUME NEW r \in Seq(Byte), NEW b, NEW m \in Nat, At(b, r, m), m < Len(r)
  PROVE  Returned(read_byte(b, r[m + 1]), r, m + 1)
<1>1. CASE b = Fresh
  <2>1. m = 0 /\ r # <<>> /\ b.state = "FixedHeader"
    BY <1>1 DEF At, Holds, Fresh
  <2>2. read_byte(b, r[m + 1]) = read_fixed_header(Fresh, r[1])
    BY <1>1, <2>1 DEF read_byte
  <2> QED BY <2>1, <2>2, ReadHeader
<1>2. CASE InLength(b, r)
  <2>1. read_byte(b, r[m + 1]) = read_remaining_length(b, r[m + 1])
    BY <1>2 DEF read_byte, InLength
  <2> QED BY <1>2, <2>1, ReadLength DEF At
<1>3. CASE InPayload(b, r)
  <2>1. read_byte(b, r[m + 1]) = read_payload(b, r[m + 1])
    BY <1>3 DEF read_byte, InPayload
  <2> QED BY <1>3, <2>1, ReadPayload DEF At
<1> QED BY <1>1, <1>2, <1>3 DEF At

-----------------------------------------------------------------------------
\* feed is the function that reads its bytes one after another.
Reads(b, data, n, g) ==
  g = [i \in 0..n |->
         IF i = 0 THEN [out |-> Incomplete(b), used |-> 0]
         ELSE IF g[i - 1].out.result # "Incomplete" THEN g[i - 1]
         ELSE [out |-> read_byte(g[i - 1].out.builder, data[i]), used |-> i]]

\* Induction over the natural numbers, for a set.
LEMMA Induction ==
  ASSUME NEW T, 0 \in T, \A n \in Nat : n \in T => n + 1 \in T
  PROVE  Nat \subseteq T
<1>1. SUFFICES ASSUME Nat \ T # {} PROVE FALSE
  OBVIOUS
<1>2. IsWellFoundedOn(OpToRel(<, Nat), Nat)
  BY NatLessThanWellFounded
<1>3. PICK x \in Nat \ T : \A y \in Nat \ T : ~(<<y, x>> \in OpToRel(<, Nat))
  BY <1>1, <1>2, WFMin
<1>4. \A y \in Nat \ T : ~(y < x)
  BY <1>3 DEF OpToRel
<1>5. x - 1 \in Nat /\ x - 1 < x /\ x = (x - 1) + 1
  <2>1. x # 0
    BY <1>3
  <2>2. x \in Nat
    BY <1>3
  <2> QED BY <2>1, <2>2
<1> QED BY <1>3, <1>4, <1>5

\* The recursion of feed has a solution, so feed is its last value.
LEMMA FeedReads ==
  ASSUME NEW b, NEW data, Len(data) \in Nat
  PROVE  \E g : Reads(b, data, Len(data), g) /\ feed(b, data) = g[Len(data)]
<1> DEFINE T == {n \in Nat : \E g : Reads(b, data, n, g)}
<1>1. 0 \in T
  <2> DEFINE g == [i \in 0..0 |-> [out |-> Incomplete(b), used |-> 0]]
  <2>1. Reads(b, data, 0, g)
    BY DEF Reads
  <2> QED BY <2>1
<1>2. ASSUME NEW n \in Nat, n \in T PROVE n + 1 \in T
  <2>1. PICK g : Reads(b, data, n, g)
    BY <1>2
  <2> DEFINE e == IF g[n].out.result # "Incomplete" THEN g[n]
                  ELSE [out |-> read_byte(g[n].out.builder, data[n + 1]), used |-> n + 1]
             f == [i \in 0..(n + 1) |-> IF i <= n THEN g[i] ELSE e]
  <2>2. ASSUME NEW i \in 0..(n + 1)
        PROVE  f[i] = IF i = 0 THEN [out |-> Incomplete(b), used |-> 0]
                      ELSE IF f[i - 1].out.result # "Incomplete" THEN f[i - 1]
                      ELSE [out |-> read_byte(f[i - 1].out.builder, data[i]), used |-> i]
    <3>1. CASE i = n + 1
      <4>1. f[i] = e /\ f[i - 1] = g[n] /\ i # 0
        BY <3>1
      <4> QED BY <3>1, <4>1
    <3>2. CASE i \in 0..n
      <4>1. f[i] = g[i] /\ (i # 0 => f[i - 1] = g[i - 1])
        BY <3>2, SMTT(30)
      <4>2. g[i] = IF i = 0 THEN [out |-> Incomplete(b), used |-> 0]
                   ELSE IF g[i - 1].out.result # "Incomplete" THEN g[i - 1]
                   ELSE [out |-> read_byte(g[i - 1].out.builder, data[i]), used |-> i]
        BY <2>1, <3>2 DEF Reads
      <4> HIDE DEF f
      <4> QED BY <4>1, <4>2
    <3> QED BY <3>1, <3>2, SMTT(30)
  <2>3. f = [i \in 0..(n + 1) |-> f[i]]
    OBVIOUS
  <2> HIDE DEF f
  <2>4. Reads(b, data, n + 1, f)
    BY <2>2, <2>3 DEF Reads
  <2> QED BY <2>4
<1>3. Nat \subseteq T
  <2> HIDE DEF T
  <2> QED BY <1>1, <1>2, Induction
<1>4. \E g : Reads(b, data, Len(data), g)
  BY <1>3
<1> DEFINE c == CHOOSE g : Reads(b, data, Len(data), g)
<1>5. Reads(b, data, Len(data), c)
  BY <1>4, Zenon
<1>6. feed(b, data) = c[Len(data)]
  BY DEF feed, Reads
<1> QED BY <1>5, <1>6

\* What feed returns for the next bytes of a stream.
LEMMA Fed ==
  ASSUME NEW r \in Seq(Byte), NEW b, NEW m \in Nat, At(b, r, m), NEW data \in Seq(Byte),
         m + Len(data) <= Len(r), \A i \in 1..Len(data) : data[i] = r[m + i]
  PROVE  LET f == feed(b, data) IN
         /\ f.used \in 0..Len(data)
         /\ f.out.result # "Incomplete" => f.used > 0
         /\ Returned(f.out, r, m + f.used)
<1> DEFINE L == Len(data)
<1>1. PICK g : Reads(b, data, L, g) /\ feed(b, data) = g[L]
  <2>1. Len(data) \in Nat
    OBVIOUS
  <2> QED BY <2>1, FeedReads
<1> DEFINE Good(i) == /\ g[i].used \in 0..i
                      /\ g[i].out.result # "Incomplete" => g[i].used > 0
                      /\ g[i].out.result = "Incomplete" => g[i].used = i
                      /\ Returned(g[i].out, r, m + g[i].used)
           T == {n \in Nat : n <= L => Good(n)}
<1>2. L \in Nat
  BY SMTT(30)
<1>3. \A i \in 0..L : g[i] = IF i = 0 THEN [out |-> Incomplete(b), used |-> 0]
                      ELSE IF g[i - 1].out.result # "Incomplete" THEN g[i - 1]
                      ELSE [out |-> read_byte(g[i - 1].out.builder, data[i]), used |-> i]
  BY <1>1 DEF Reads
<1>4. 0 \in T
  <2>1. g[0] = [out |-> Incomplete(b), used |-> 0]
    <3>1. 0 \in 0..L
      BY <1>2
    <3> HIDE DEF L
    <3> QED BY <1>3, <3>1
  <2>2. g[0].used = 0 /\ g[0].out.result = "Incomplete" /\ g[0].out.builder = b
    BY <2>1 DEF Incomplete
  <2>3. Returned(g[0].out, r, m + g[0].used)
    <3>1. m + g[0].used = m
      BY <2>2
    <3> QED BY <2>2, <3>1 DEF Returned
  <2> QED BY <2>2, <2>3
<1>5. ASSUME NEW n \in Nat, n \in T PROVE n + 1 \in T
  <2> SUFFICES ASSUME n + 1 <= L PROVE Good(n + 1)
    OBVIOUS
  <2>1. Good(n)
    BY <1>2, <1>5
  <2>2. g[n + 1] = IF g[n].out.result # "Incomplete" THEN g[n]
                   ELSE [out |-> read_byte(g[n].out.builder, data[n + 1]), used |-> n + 1]
    <3>1. n + 1 \in 0..L /\ n + 1 # 0 /\ (n + 1) - 1 = n
      BY <1>2
    <3> QED BY <1>3, <3>1
  <2>3. CASE g[n].out.result # "Incomplete"
    <3>1. g[n + 1] = g[n]
      BY <2>2, <2>3
    <3> QED BY <2>1, <2>3, <3>1
  <2>4. CASE g[n].out.result = "Incomplete"
    <3>1. g[n + 1].out = read_byte(g[n].out.builder, data[n + 1]) /\ g[n + 1].used = n + 1
      BY <2>2, <2>4
    <3>2. At(g[n].out.builder, r, m + n)
      BY <2>1, <2>4 DEF Returned
    <3>3. data[n + 1] = r[(m + n) + 1] /\ m + n \in Nat /\ m + n < Len(r)
      <4>1. n + 1 \in 1..Len(data) /\ m + (n + 1) = (m + n) + 1 /\ m + n \in Nat /\ Len(r) \in Nat
        BY <1>2
      <4>2. data[n + 1] = r[m + (n + 1)]
        BY <4>1, Zenon
      <4>3. m + n < Len(r)
        BY <1>2, <4>1
      <4> QED BY <4>1, <4>2, <4>3
    <3>4. Returned(g[n + 1].out, r, (m + n) + 1)
      BY <3>1, <3>2, <3>3, ReadByte
    <3>5. (m + n) + 1 = m + (n + 1) /\ n + 1 \in 0..(n + 1) /\ n + 1 > 0
      OBVIOUS
    <3> QED BY <3>1, <3>4, <3>5
  <2> QED BY <2>3, <2>4
<1>6. L \in T
  <2> HIDE DEF T
  <2>1. Nat \subseteq T
    BY <1>4, <1>5, Induction
  <2> QED BY <1>2, <2>1
<1>7. Good(L)
  BY <1>2, <1>6
<1> QED BY <1>1, <1>7, Zenon

-----------------------------------------------------------------------------
\* Elements of concatenations.
LEMMA Joined ==
  ASSUME NEW S, NEW s \in Seq(S), NEW t \in Seq(S)
  PROVE  /\ s \o t \in Seq(S) /\ Len(s \o t) = Len(s) + Len(t)
         /\ \A i \in 1..Len(s) : (s \o t)[i] = s[i]
         /\ \A i \in 1..Len(t) : (s \o t)[Len(s) + i] = t[i]
OBVIOUS

LEMMA Associative ==
  \A s, t, v \in Seq(Byte) : (s \o t) \o v = s \o (t \o v)
<1> TAKE s, t, v \in Seq(Byte)
<1> QED BY ConcatAssociative

\* An integer is the same in two streams that agree on its bytes.
LEMMA SameValue ==
  ASSUME NEW s, NEW t, NEW o \in Nat, NEW q \in Nat, NEW k \in 0..3,
         \A i \in 1..k : s[o + i] = t[q + i]
  PROVE  /\ Value(s, o, k) = Value(t, q, k)
         /\ k > 0 => (Ends(s, o, k) <=> Ends(t, q, k))
<1>1. CASE k = 0
  BY <1>1 DEF Value
<1>2. CASE k = 1
  BY <1>2 DEF Value, Ends
<1>3. CASE k = 2
  BY <1>3 DEF Value, Ends
<1>4. CASE k = 3
  BY <1>4 DEF Value, Ends
<1> QED BY <1>1, <1>2, <1>3, <1>4

\* A packet as the peer writes it, with a length that feed admits.
Sendable(p) == /\ p = [header |-> p.header, data |-> p.data]
               /\ p.header \in Byte /\ p.data \in Seq(Byte)
               /\ Len(p.data) < Base * Base * Base

\* What the peer writes for a packet is that packet, whatever follows, and as long as
\* remaining_length_to_total_size says.
LEMMA EncodedWhole ==
  ASSUME NEW p, Sendable(p), NEW t \in Seq(Byte)
  PROVE  LET e == Encoded(p) IN
         /\ e \in Seq(Byte) /\ Len(e) = 1 + Bytes(Len(p.data)) + Len(p.data)
         /\ Whole(p, e \o t, Len(e))
<1> DEFINE l == Len(p.data)
           f == from_u32(l)
           k == Bytes(l)
           h == <<p.header>>
           e == Encoded(p)
           r == e \o t
<1>1. l \in Nat /\ l < Base * Base * Base /\ h \in Seq(Byte) /\ Len(h) = 1 /\ h[1] = p.header
      /\ p.data \in Seq(Byte)
  BY DEF Sendable
<1>2. /\ f \in Seq(Byte) /\ Len(f) = k /\ Ends(f, 0, k) /\ Value(f, 0, k) = l
  <2> HIDE DEF l
  <2> QED BY <1>1, LengthBytes
<1>3. k \in 1..3
  BY DEF Bytes
<1>4. e = (h \o f) \o p.data
  BY DEF Encoded
<1> HIDE DEF f, k, h, e, r
<1>0. \A x, y \in Seq(Byte) :
        /\ x \o y \in Seq(Byte) /\ Len(x \o y) = Len(x) + Len(y)
        /\ \A i \in 1..Len(x) : (x \o y)[i] = x[i]
        /\ \A i \in 1..Len(y) : (x \o y)[Len(x) + i] = y[i]
  BY Joined
<1>5. /\ h \o f \in Seq(Byte) /\ Len(h \o f) = 1 + k
      /\ (h \o f)[1] = p.header /\ \A i \in 1..k : (h \o f)[1 + i] = f[i]
  <2>1. /\ h \o f \in Seq(Byte) /\ Len(h \o f) = Len(h) + Len(f)
        /\ \A i \in 1..Len(h) : (h \o f)[i] = h[i]
        /\ \A i \in 1..Len(f) : (h \o f)[Len(h) + i] = f[i]
    BY <1>0, <1>1, <1>2, Zenon
  <2>2. 1 \in 1..Len(h)
    BY <1>1
  <2> QED BY <1>1, <1>2, <2>1, <2>2, Zenon
<1>6. /\ e \in Seq(Byte) /\ Len(e) = (1 + k) + l
      /\ \A i \in 1..(1 + k) : e[i] = (h \o f)[i]
      /\ \A i \in 1..l : e[(1 + k) + i] = p.data[i]
  <2> DEFINE g == h \o f
  <2>1. g \in Seq(Byte) /\ p.data \in Seq(Byte) /\ e = g \o p.data /\ Len(g) = 1 + k
    BY <1>1, <1>4, <1>5, Zenon
  <2> HIDE DEF g
  <2>2. /\ e \in Seq(Byte) /\ Len(e) = Len(g) + Len(p.data)
        /\ \A i \in 1..Len(g) : e[i] = g[i]
        /\ \A i \in 1..Len(p.data) : e[Len(g) + i] = p.data[i]
    BY <1>0, <2>1, Zenon
  <2> QED BY <2>1, <2>2, Zenon DEF g
<1>7. /\ r \in Seq(Byte) /\ Len(r) = Len(e) + Len(t) /\ \A i \in 1..Len(e) : r[i] = e[i]
  BY <1>0, <1>6, Zenon DEF r
<1>8. /\ 1 \in 1..(1 + k) /\ \A i \in 1..(1 + k) : i \in 1..((1 + k) + l)
      /\ \A i \in 1..k : 1 + i \in 1..(1 + k)
      /\ \A i \in 1..l : (1 + k) + i \in 1..((1 + k) + l)
      /\ \A i \in 1..k : 0 + i = i
  <2> HIDE DEF l
  <2> QED BY <1>1, <1>3
<1>9. /\ r[1] = p.header /\ \A i \in 1..k : r[1 + i] = f[0 + i]
      /\ \A i \in 1..l : r[(1 + k) + i] = p.data[i]
  <2>1. \A i \in 1..((1 + k) + l) : r[i] = e[i]
    BY <1>6, <1>7, Zenon
  <2>2. \A i \in 1..(1 + k) : r[i] = (h \o f)[i]
    BY <1>6, <1>8, <2>1, Zenon
  <2>3. \A i \in 1..k : r[1 + i] = f[i]
    BY <1>5, <1>8, <2>2, Zenon
  <2>4. \A i \in 1..l : r[(1 + k) + i] = p.data[i]
    BY <1>6, <1>8, <2>1, Zenon
  <2>5. r[1] = p.header
    BY <1>5, <1>8, <2>2, Zenon
  <2>6. \A i \in 1..k : r[1 + i] = f[0 + i]
    BY <1>8, <2>3, Zenon
  <2> QED BY <2>4, <2>5, <2>6
<1>10. Ends(r, 1, k) /\ Value(r, 1, k) = l
  <2>1. 0 \in Nat /\ 1 \in Nat /\ k \in 0..3 /\ k > 0
    BY <1>3
  <2>2. Value(r, 1, k) = Value(f, 0, k) /\ (k > 0 => (Ends(r, 1, k) <=> Ends(f, 0, k)))
    BY <1>9, <2>1, SameValue, Zenon
  <2> QED BY <1>2, <2>1, <2>2
<1>11. Len(e) <= Len(r)
  BY <1>6, <1>7
<1>12. Whole(p, r, Len(e))
  <2>1. p = [header |-> r[1], data |-> p.data]
    BY <1>9 DEF Sendable
  <2> QED BY <1>1, <1>3, <1>6, <1>9, <1>10, <1>11, <2>1, Zenon DEF Whole
<1> QED BY <1>6, <1>12, Zenon DEF e, r, k

\* The first packet of a stream is one packet.
LEMMA WholeUnique ==
  ASSUME NEW r, NEW p, NEW q, NEW m, NEW n, Whole(p, r, m), Whole(q, r, n)
  PROVE  p = q /\ m = n
<1>1. PICK k \in 1..3 : /\ Ends(r, 1, k)
                       /\ p = [header |-> r[1], data |-> p.data] /\ p.data \in Seq(Byte)
                       /\ Len(p.data) = Value(r, 1, k) /\ m = 1 + k + Len(p.data)
                       /\ \A i \in 1..Len(p.data) : p.data[i] = r[1 + k + i]
  BY DEF Whole
<1>2. PICK j \in 1..3 : /\ Ends(r, 1, j)
                       /\ q = [header |-> r[1], data |-> q.data] /\ q.data \in Seq(Byte)
                       /\ Len(q.data) = Value(r, 1, j) /\ n = 1 + j + Len(q.data)
                       /\ \A i \in 1..Len(q.data) : q.data[i] = r[1 + j + i]
  BY DEF Whole
<1>3. k = j
  <2>0. Ends(r, 1, k) /\ Ends(r, 1, j)
    BY <1>1, <1>2, Zenon
  <2>1. ~(k < j)
    BY <2>0 DEF Ends
  <2>2. ~(j < k)
    BY <2>0 DEF Ends
  <2> QED BY <2>1, <2>2
<1>4. Len(p.data) = Len(q.data) /\ \A i \in 1..Len(p.data) : p.data[i] = q.data[i]
  BY <1>1, <1>2, <1>3, Zenon
<1>5. \A x, y \in Seq(Byte) : Len(x) = Len(y) /\ (\A i \in 1..Len(x) : x[i] = y[i]) => x = y
  OBVIOUS
<1>6. p.data = q.data
  BY <1>1, <1>2, <1>4, <1>5, Zenon
<1> QED BY <1>1, <1>2, <1>3, <1>6

\* A builder has never read all of a packet without returning it, and never refuses one.
LEMMA WholeBounds ==
  ASSUME NEW r, NEW p, NEW m, Whole(p, r, m)
  PROVE  /\ m \in Nat /\ m > 1 /\ m <= Len(r) /\ ~TooLong(r)
         /\ \A b, x : At(b, r, x) => x < m
<1>1. PICK k \in 1..3 : /\ Ends(r, 1, k) /\ p.data \in Seq(Byte)
                       /\ Len(p.data) = Value(r, 1, k) /\ m = 1 + k + Len(p.data)
  BY DEF Whole
<1>2. Len(p.data) \in Nat
  BY <1>1
<1>3. m \in Nat /\ m > 1 /\ m >= 1 + k
  BY <1>1, <1>2
<1>4. ~TooLong(r)
  BY <1>1 DEF TooLong, Ends
<1>5. ASSUME NEW b, NEW x, At(b, r, x) PROVE x < m
  <2>1. /\ b.header_buf \in Seq(Byte) /\ b.raw_buf \in Seq(Byte)
        /\ x = Len(b.header_buf) + Len(b.raw_buf)
    BY <1>5 DEF At, Holds
  <2>2. CASE b = Fresh
    <3>1. x = 0
      BY <2>1, <2>2 DEF Fresh
    <3> QED BY <1>3, <3>1
  <2>3. CASE InLength(b, r)
    <3>1. PICK j \in 0..3 : Len(b.header_buf) = j + 1 /\ \A i \in 1..j : more(r[1 + i])
      BY <2>3 DEF InLength
    <3>2. j < k
      BY <1>1, <3>1 DEF Ends
    <3>3. x = j + 1
      BY <2>1, <2>3, <3>1 DEF InLength
    <3> QED BY <1>3, <3>2, <3>3
  <2>4. CASE InPayload(b, r)
    <3>1. PICK j \in 1..3 : /\ Len(b.header_buf) = j + 1 /\ Ends(r, 1, j)
                           /\ b.remaining_length \in Nat \ {0}
                           /\ b.remaining_length + Len(b.raw_buf) = Value(r, 1, j)
      BY <2>4 DEF InPayload
    <3>2. j = k
      BY <1>1, <3>1 DEF Ends
    <3>3. Len(b.raw_buf) \in Nat
      BY <2>1
    <3>4. b.remaining_length + Len(b.raw_buf) = Len(p.data)
      BY <1>1, <3>1, <3>2, Zenon
    <3>5. Len(b.raw_buf) < Len(p.data)
      BY <1>2, <3>1, <3>3, <3>4
    <3>6. \A y, z \in Nat : y < z => (k + 1) + y < 1 + k + z
      OBVIOUS
    <3> QED BY <1>1, <1>2, <2>1, <3>1, <3>2, <3>3, <3>5, <3>6, Zenon
  <2> QED BY <1>5, <2>2, <2>3, <2>4 DEF At
<1> QED BY <1>3, <1>4, <1>5 DEF Whole

\* More bytes at the end of the stream change nothing for the builder.
LEMMA AtExtended ==
  ASSUME NEW r \in Seq(Byte), NEW t \in Seq(Byte), NEW b, NEW m, At(b, r, m)
  PROVE  At(b, r \o t, m)
<1> DEFINE q == r \o t
<1>1. /\ q \in Seq(Byte) /\ Len(q) = Len(r) + Len(t) /\ \A i \in 1..Len(r) : q[i] = r[i]
      /\ Len(r) \in Nat /\ Len(t) \in Nat
  BY Joined
<1> HIDE DEF q
<1> DEFINE x == Len(b.header_buf)
           y == Len(b.raw_buf)
<1>2. /\ b = [state |-> b.state, header_buf |-> b.header_buf, multiplier |-> b.multiplier,
              remaining_length |-> b.remaining_length, raw_buf |-> b.raw_buf]
      /\ b.header_buf \in Seq(Byte) /\ b.raw_buf \in Seq(Byte)
      /\ m = x + y /\ m <= Len(r) /\ x \in Nat /\ y \in Nat
  BY DEF At, Holds
<1>3. /\ \A i \in 1..x : b.header_buf[i] = r[i]
      /\ \A i \in 1..y : b.raw_buf[i] = r[x + i]
  BY DEF At, Holds
<1> HIDE DEF x, y
<1>4. /\ \A i \in 1..x : i \in 1..Len(r)
      /\ \A i \in 1..y : x + i \in 1..Len(r)
      /\ m <= Len(q)
  BY <1>1, <1>2
<1>5. Holds(b, q, m)
  <2>1. /\ \A i \in 1..x : b.header_buf[i] = q[i]
        /\ \A i \in 1..y : b.raw_buf[i] = q[x + i]
    BY <1>1, <1>3, <1>4, Zenon
  <2> QED BY <1>2, <1>4, <2>1, Zenon DEF Holds, x, y
<1>6. ASSUME NEW k \in 0..3, x = k + 1
      PROVE  /\ Value(r, 1, k) = Value(q, 1, k)
             /\ k > 0 => (Ends(r, 1, k) <=> Ends(q, 1, k))
             /\ \A i \in 1..k : r[1 + i] = q[1 + i]
  <2>1. \A i \in 1..k : 1 + i \in 1..x
    BY <1>6
  <2>2. \A i \in 1..k : r[1 + i] = q[1 + i]
    BY <1>1, <1>4, <2>1, Zenon
  <2>3. 1 \in Nat
    OBVIOUS
  <2> QED BY <2>2, <2>3, SameValue, Zenon
<1>7. CASE b = Fresh
  BY <1>5, <1>7 DEF At, q
<1>8. CASE InLength(b, r)
  <2>1. PICK k \in 0..3 : /\ x = k + 1 /\ b.multiplier = Weight[k + 1]
                         /\ b.remaining_length = Value(r, 1, k)
                         /\ \A i \in 1..k : more(r[1 + i])
    BY <1>8 DEF InLength, x
  <2>2. b.remaining_length = Value(q, 1, k) /\ \A i \in 1..k : more(q[1 + i])
    <3>1. Value(r, 1, k) = Value(q, 1, k) /\ \A i \in 1..k : r[1 + i] = q[1 + i]
      BY <1>6, <2>1
    <3> QED BY <2>1, <3>1, Zenon
  <2>3. InLength(b, q)
    BY <1>8, <2>1, <2>2, Zenon DEF InLength, x
  <2> QED BY <1>5, <2>3 DEF At, q
<1>9. CASE InPayload(b, r)
  <2>1. PICK k \in 1..3 : /\ x = k + 1 /\ Ends(r, 1, k)
                         /\ b.remaining_length \in Nat \ {0}
                         /\ b.remaining_length + y = Value(r, 1, k)
    BY <1>9 DEF InPayload, x, y
  <2>2. k \in 0..3 /\ k > 0
    OBVIOUS
  <2>3. Ends(q, 1, k) /\ b.remaining_length + y = Value(q, 1, k)
    <3>1. Value(r, 1, k) = Value(q, 1, k) /\ (Ends(r, 1, k) <=> Ends(q, 1, k))
      BY <1>6, <2>1, <2>2
    <3> QED BY <2>1, <3>1, Zenon
  <2>4. InPayload(b, q)
    BY <1>9, <2>1, <2>3, Zenon DEF InPayload, x, y
  <2> QED BY <1>5, <2>4 DEF At, q
<1> QED BY <1>7, <1>8, <1>9 DEF At

\* A new builder has read nothing.
LEMMA AtFresh ==
  ASSUME NEW r \in Seq(Byte)
  PROVE  At(Fresh, r, 0)
BY DEF At, Holds, Fresh

-----------------------------------------------------------------------------
(***************************************************************************)
(* The invariant: what the builder holds and what is unread are together   *)
(* the packets that were sent and not completed, and the overlong bytes    *)
(* behind them if there are any.                                           *)
(***************************************************************************)
\* The peer's packets have lengths of at most three bytes, the most that feed admits;
\* its other bytes are a length that goes on; transports end between packets.
FramedPeer ==
  /\ ClosesMidPacket = FALSE
  /\ \A p \in Packets : Sendable(p)
  /\ \A x \in Overlong : x \in Seq(Byte) /\ \A i \in 2..4 : i <= Len(x) => more(x[i])

\* r[i] is what follows the i-th packet on the transport.
Stream(r, ps, last) ==
  /\ r \in [0..Len(ps) -> Seq(Byte)]
  /\ \A i \in 1..Len(ps) : r[i - 1] = Encoded(ps[i]) \o r[i]
  /\ r[Len(ps)] = last
Suffix(u, r, m) == Len(u) = Len(r) - m /\ \A i \in 1..Len(u) : u[i] = r[m + i]
InStream(b, u, g, ps, last) ==
  \E r : /\ Stream(r, ps, last)
         /\ \E m \in Nat : At(b, r[g], m) /\ Suffix(u, r[g], m)

\* The inductive invariant.
BuilderInv ==
  /\ sent \in Seq(Packets) /\ got \in Seq(Packets) /\ Len(got) <= Len(sent)
  /\ \A i \in 1..Len(got) : got[i] = sent[i]
  /\ unread \in Seq(Byte) /\ spoilt \in BOOLEAN /\ failed \in BOOLEAN
  /\ failed => spoilt /\ builder = Fresh
  /\ ~failed => \E last \in Seq(Byte) :
                  /\ IF spoilt THEN last \in Overlong ELSE last = <<>>
                  /\ InStream(builder, unread, Len(got), sent, last)

\* A new transport.
LEMMA StartsEmpty ==
  ASSUME NEW b, b = Fresh PROVE InStream(b, <<>>, 0, <<>>, <<>>)
<1> DEFINE r == [i \in 0..0 |-> <<>>]
<1>1. <<>> \in Seq(Byte) /\ Len(<<>>) = 0 /\ <<>> \in Seq({})
  OBVIOUS
<1>2. Stream(r, <<>>, <<>>)
  BY <1>1 DEF Stream
<1>3. r[0] = <<>>
  OBVIOUS
<1>4. At(b, r[0], 0)
  BY <1>1, <1>3, AtFresh
<1>5. Suffix(<<>>, r[0], 0)
  BY <1>3 DEF Suffix
<1> HIDE DEF r
<1> QED BY <1>2, <1>4, <1>5 DEF InStream

\* Bytes written behind the last packet.
LEMMA Written ==
  ASSUME NEW b, NEW u \in Seq(Byte), NEW ps, Len(ps) \in Nat, NEW g \in 0..Len(ps),
         NEW x \in Seq(Byte), InStream(b, u, g, ps, <<>>),
         \A i \in 1..Len(ps) : Encoded(ps[i]) \in Seq(Byte)
  PROVE  InStream(b, u \o x, g, ps, x)
<1>1. PICK r : /\ Stream(r, ps, <<>>)
               /\ \E m \in Nat : At(b, r[g], m) /\ Suffix(u, r[g], m)
  BY DEF InStream
<1>2. PICK m \in Nat : At(b, r[g], m) /\ Suffix(u, r[g], m)
  BY <1>1
<1> DEFINE q == [i \in 0..Len(ps) |-> r[i] \o x]
<1>3. \A i \in 0..Len(ps) : r[i] \in Seq(Byte)
  BY <1>1 DEF Stream
<1>4. \A s, t \in Seq(Byte) :
        /\ s \o t \in Seq(Byte) /\ Len(s \o t) = Len(s) + Len(t)
        /\ Len(s) \in Nat
        /\ \A i \in 1..Len(s) : (s \o t)[i] = s[i]
        /\ \A i \in 1..Len(t) : (s \o t)[Len(s) + i] = t[i]
  BY Joined
<1>5. q \in [0..Len(ps) -> Seq(Byte)]
  BY <1>3, <1>4
<1>6. \A i \in 1..Len(ps) : q[i - 1] = Encoded(ps[i]) \o q[i]
  <2> SUFFICES ASSUME NEW i \in 1..Len(ps) PROVE q[i - 1] = Encoded(ps[i]) \o q[i]
    OBVIOUS
  <2>1. i \in 0..Len(ps) /\ i - 1 \in 0..Len(ps)
    OBVIOUS
  <2>2. q[i] = r[i] \o x /\ q[i - 1] = r[i - 1] \o x
    BY <2>1
  <2>3. r[i - 1] = Encoded(ps[i]) \o r[i]
    BY <1>1 DEF Stream
  <2>4. (Encoded(ps[i]) \o r[i]) \o x = Encoded(ps[i]) \o (r[i] \o x)
    <3>1. Encoded(ps[i]) \in Seq(Byte) /\ r[i] \in Seq(Byte)
      BY <1>3, <2>1
    <3>2. \A s, t, v \in Seq(Byte) : (s \o t) \o v = s \o (t \o v)
      BY Associative
    <3> QED BY <3>1, <3>2, Zenon
  <2> QED BY <2>2, <2>3, <2>4
<1>7. q[Len(ps)] = x
  <2>1. r[Len(ps)] = <<>>
    BY <1>1 DEF Stream
  <2>2. <<>> \o x = x
    BY ConcatEmptySeq
  <2> QED BY <2>1, <2>2
<1>8. Stream(q, ps, x)
  BY <1>5, <1>6, <1>7, Zenon DEF Stream
<1>9. q[g] = r[g] \o x /\ r[g] \in Seq(Byte)
  BY <1>3
<1>10. At(b, q[g], m)
  BY <1>2, <1>9, AtExtended
<1> HIDE DEF q
<1>11. Suffix(u \o x, q[g], m)
  <2> DEFINE s == r[g]
             v == u \o x
             w == s \o x
  <2>1. /\ s \in Seq(Byte) /\ Len(s) \in Nat /\ Len(u) \in Nat /\ Len(x) \in Nat
        /\ Len(u) = Len(s) - m
    BY <1>2, <1>9 DEF Suffix
  <2>2. \A i \in 1..Len(u) : u[i] = s[m + i]
    BY <1>2 DEF Suffix
  <2>3. /\ Len(v) = Len(u) + Len(x)
        /\ \A i \in 1..Len(u) : v[i] = u[i]
        /\ \A i \in 1..Len(x) : v[Len(u) + i] = x[i]
    BY <1>4, Zenon
  <2>4. /\ Len(w) = Len(s) + Len(x)
        /\ \A i \in 1..Len(s) : w[i] = s[i]
        /\ \A i \in 1..Len(x) : w[Len(s) + i] = x[i]
    BY <1>4, <1>9, Zenon
  <2> HIDE DEF s, v, w
  <2>5. Len(v) = Len(w) - m
    BY <2>1, <2>3, <2>4
  <2>6. ASSUME NEW i \in 1..Len(v) PROVE v[i] = w[m + i]
    <3>1. i \in 1..Len(u) \/ \E j \in 1..Len(x) : i = Len(u) + j
      <4>1. i > Len(u) => i - Len(u) \in 1..Len(x) /\ i = Len(u) + (i - Len(u))
        BY <2>1, <2>3
      <4>2. i <= Len(u) => i \in 1..Len(u)
        BY <2>1
      <4>3. i <= Len(u) \/ i > Len(u)
        BY <2>1
      <4> QED BY <4>1, <4>2, <4>3
    <3>2. CASE i \in 1..Len(u)
      <4>1. m + i \in 1..Len(s)
        BY <2>1, <3>2
      <4> QED BY <2>2, <2>3, <2>4, <3>2, <4>1, Zenon
    <3>3. ASSUME NEW j \in 1..Len(x), i = Len(u) + j PROVE v[i] = w[m + i]
      <4>1. m + i = Len(s) + j
        BY <2>1, <3>3
      <4> QED BY <2>3, <2>4, <3>3, <4>1, Zenon
    <3> QED BY <3>1, <3>2, <3>3
  <2>7. Suffix(v, w, m)
    BY <2>5, <2>6 DEF Suffix
  <2> QED BY <1>9, <2>7 DEF v, w, s
<1> QED BY <1>8, <1>10, <1>11 DEF InStream

\* One packet more: what followed the last one is the packet, and nothing follows it.
LEMMA Longer ==
  ASSUME NEW b, NEW u, NEW ps \in Seq(Packets), NEW g \in 0..Len(ps), NEW p \in Packets,
         Encoded(p) \in Seq(Byte), InStream(b, u, g, ps, Encoded(p))
  PROVE  InStream(b, u, g, Append(ps, p), <<>>)
<1> DEFINE n == Len(ps)
           qs == Append(ps, p)
<1>1. PICK r : /\ Stream(r, ps, Encoded(p))
               /\ \E m \in Nat : At(b, r[g], m) /\ Suffix(u, r[g], m)
  BY DEF InStream
<1> DEFINE q == [i \in 0..(n + 1) |-> IF i <= n THEN r[i] ELSE <<>>]
<1>2. n \in Nat /\ Len(qs) = n + 1 /\ qs[n + 1] = p /\ \A i \in 1..n : qs[i] = ps[i]
  OBVIOUS
<1>3. /\ \A i \in 0..n : r[i] \in Seq(Byte)
      /\ \A i \in 1..n : r[i - 1] = Encoded(ps[i]) \o r[i]
      /\ r[n] = Encoded(p)
  BY <1>1 DEF Stream
<1> HIDE DEF n, qs
<1>4. /\ \A i \in 0..n : q[i] = r[i]
      /\ q[n + 1] = <<>>
  BY <1>2
<1>5. q \in [0..(n + 1) -> Seq(Byte)]
  <2>1. <<>> \in Seq(Byte)
    OBVIOUS
  <2> QED BY <1>2, <1>3, <2>1
<1> HIDE DEF q
<1>6. ASSUME NEW i \in 1..(n + 1) PROVE q[i - 1] = Encoded(qs[i]) \o q[i]
  <2>1. CASE i \in 1..n
    <3>1. i \in 0..n /\ i - 1 \in 0..n
      BY <1>2, <2>1
    <3>2. q[i] = r[i] /\ q[i - 1] = r[i - 1] /\ qs[i] = ps[i]
      BY <1>2, <1>4, <2>1, <3>1
    <3>3. r[i - 1] = Encoded(ps[i]) \o r[i]
      BY <1>3, <2>1
    <3> QED BY <3>2, <3>3
  <2>2. CASE i = n + 1
    <3>1. n \in 0..n /\ i - 1 = n
      BY <1>2, <2>2
    <3>2. q[i - 1] = Encoded(p) /\ q[i] = <<>> /\ qs[i] = p
      BY <1>2, <1>3, <1>4, <2>2, <3>1
    <3>3. Encoded(p) \o <<>> = Encoded(p)
      BY ConcatEmptySeq
    <3> QED BY <3>2, <3>3
  <2> QED BY <1>2, <2>1, <2>2
<1>7. Stream(q, qs, <<>>)
  BY <1>2, <1>4, <1>5, <1>6 DEF Stream
<1>8. q[g] = r[g]
  <2>1. g \in 0..n
    BY DEF n
  <2> QED BY <1>4, <2>1
<1> QED BY <1>1, <1>7, <1>8 DEF InStream, qs

\* What is left of unread when some bytes of it are used.
LEMMA Used ==
  ASSUME NEW u \in Seq(Byte), NEW r \in Seq(Byte), NEW m \in Nat, Suffix(u, r, m),
         NEW k \in 0..Len(u)
  PROVE  /\ SubSeq(u, k + 1, Len(u)) \in Seq(Byte)
         /\ Suffix(SubSeq(u, k + 1, Len(u)), r, m + k)
<1> DEFINE v == SubSeq(u, k + 1, Len(u))
<1>1. Len(u) \in Nat /\ Len(r) \in Nat /\ k \in Nat /\ k <= Len(u)
  OBVIOUS
<1>2. v \in Seq(Byte) /\ Len(v) = Len(u) - k /\ \A i \in 1..(Len(u) - k) : v[i] = u[k + i]
  OBVIOUS
<1>3. Len(u) = Len(r) - m /\ \A i \in 1..Len(u) : u[i] = r[m + i]
  BY DEF Suffix
<1> HIDE DEF v
<1>4. Len(v) = Len(r) - (m + k)
  BY <1>1, <1>2, <1>3
<1>5. ASSUME NEW i \in 1..Len(v) PROVE v[i] = r[(m + k) + i]
  <2>1. /\ i \in 1..(Len(u) - k) /\ k + i \in 1..Len(u) /\ m + (k + i) = (m + k) + i
    BY <1>1, <1>2
  <2> QED BY <1>2, <1>3, <2>1, Zenon
<1> QED BY <1>2, <1>4, <1>5 DEF Suffix, v

\* The bytes that Recv feeds are the next ones of the stream.
LEMMA NextBytes ==
  ASSUME NEW u \in Seq(Byte), NEW r \in Seq(Byte), NEW m \in Nat, Suffix(u, r, m),
         NEW n \in 1..Len(u)
  PROVE  LET d == SubSeq(u, 1, n) IN
         /\ d \in Seq(Byte) /\ Len(d) = n /\ m + Len(d) <= Len(r)
         /\ \A i \in 1..Len(d) : d[i] = r[m + i]
<1> DEFINE d == SubSeq(u, 1, n)
<1>1. Len(u) \in Nat /\ Len(r) \in Nat
  OBVIOUS
<1>2. d \in Seq(Byte) /\ Len(d) = n /\ \A i \in 1..n : d[i] = u[i]
  OBVIOUS
<1>3. Len(u) = Len(r) - m /\ \A i \in 1..Len(u) : u[i] = r[m + i]
  BY DEF Suffix
<1> HIDE DEF d
<1>4. m + Len(d) <= Len(r)
  BY <1>1, <1>2, <1>3
<1>5. \A i \in 1..n : i \in 1..Len(u)
  BY <1>1
<1>6. \A i \in 1..Len(d) : d[i] = r[m + i]
  BY <1>2, <1>3, <1>5, Zenon
<1> QED BY <1>2, <1>4, <1>6 DEF d

\* The packets behind the first g, when some are left.
LEMMA FirstLeft ==
  ASSUME FramedPeer, NEW ps \in Seq(Packets), NEW g \in 0..Len(ps), g < Len(ps),
         NEW r, NEW last, Stream(r, ps, last)
  PROVE  LET e == Encoded(ps[g + 1]) IN
         /\ r[g] \in Seq(Byte) /\ r[g + 1] \in Seq(Byte) /\ e \in Seq(Byte)
         /\ r[g] = e \o r[g + 1] /\ Whole(ps[g + 1], r[g], Len(e))
         /\ ps[g + 1] \in Packets
<1> DEFINE p == ps[g + 1]
           e == Encoded(p)
<1>1. g + 1 \in 1..Len(ps) /\ (g + 1) - 1 = g /\ g + 1 \in 0..Len(ps)
  OBVIOUS
<1>2. p \in Packets
  BY <1>1
<1>3. Sendable(p)
  BY <1>2 DEF FramedPeer
<1>4. r[g] \in Seq(Byte) /\ r[g + 1] \in Seq(Byte) /\ r[g] = e \o r[g + 1]
  BY <1>1 DEF Stream
<1> HIDE DEF p
<1>5. e \in Seq(Byte) /\ Whole(p, e \o r[g + 1], Len(e))
  BY <1>3, <1>4, EncodedWhole
<1> QED BY <1>2, <1>4, <1>5 DEF p

-----------------------------------------------------------------------------
\* The invariant holds at first, and each action keeps it.
LEMMA InvInit ==
  ASSUME FramedPeer, Init PROVE BuilderInv
<1>1. <<>> \in Seq(Packets) /\ <<>> \in Seq(Byte) /\ Len(<<>>) = 0
  OBVIOUS
<1>2. InStream(builder, unread, Len(got), sent, <<>>)
  BY <1>1, StartsEmpty DEF Init
<1>3. /\ sent \in Seq(Packets) /\ got \in Seq(Packets) /\ Len(got) <= Len(sent)
      /\ \A i \in 1..Len(got) : got[i] = sent[i]
      /\ unread \in Seq(Byte) /\ spoilt = FALSE /\ failed = FALSE
  BY <1>1 DEF Init
<1> QED BY <1>1, <1>2, <1>3 DEF BuilderInv

LEMMA InvSend ==
  ASSUME FramedPeer, BuilderInv, NEW p \in Packets, Send(p) PROVE BuilderInv'
<1> DEFINE e == Encoded(p)
<1>1. /\ ~spoilt /\ sent' = Append(sent, p) /\ unread' = unread \o e
      /\ UNCHANGED <<builder, got, spoilt, failed>>
  BY DEF Send
<1>2. /\ sent \in Seq(Packets) /\ got \in Seq(Packets) /\ Len(got) <= Len(sent)
      /\ \A i \in 1..Len(got) : got[i] = sent[i]
      /\ unread \in Seq(Byte) /\ spoilt = FALSE /\ failed = FALSE
      /\ InStream(builder, unread, Len(got), sent, <<>>)
  BY <1>1 DEF BuilderInv
<1>3. \A q \in Packets : Encoded(q) \in Seq(Byte)
  <2> SUFFICES ASSUME NEW q \in Packets PROVE Encoded(q) \in Seq(Byte)
    OBVIOUS
  <2>1. Sendable(q) /\ <<>> \in Seq(Byte)
    BY DEF FramedPeer
  <2> QED BY <2>1, EncodedWhole
<1>4. e \in Seq(Byte)
  BY <1>3
<1> HIDE DEF e
<1>5. /\ Len(got) \in 0..Len(sent) /\ Len(sent) \in Nat
      /\ \A i \in 1..Len(sent) : Encoded(sent[i]) \in Seq(Byte)
  <2>1. \A i \in 1..Len(sent) : sent[i] \in Packets
    BY <1>2
  <2> QED BY <1>2, <1>3, <2>1
<1>6. InStream(builder, unread \o e, Len(got), sent, e)
  BY <1>2, <1>4, <1>5, Written
<1>7. InStream(builder, unread \o e, Len(got), Append(sent, p), <<>>)
  BY <1>2, <1>4, <1>5, <1>6, Longer DEF e
<1>8. /\ sent' \in Seq(Packets) /\ Len(sent') = Len(sent) + 1
      /\ \A i \in 1..Len(sent) : sent'[i] = sent[i]
  BY <1>1, <1>2
<1>9. unread' \in Seq(Byte) /\ <<>> \in Seq(Byte)
  BY <1>1, <1>2, <1>4
<1>10. Len(got') <= Len(sent') /\ \A i \in 1..Len(got') : got'[i] = sent'[i]
  <2>1. \A i \in 1..Len(got) : i \in 1..Len(sent)
    BY <1>5
  <2>2. Len(got) <= Len(sent) + 1
    BY <1>5
  <2> QED BY <1>1, <1>2, <1>8, <2>1, <2>2
<1>11. InStream(builder', unread', Len(got'), sent', <<>>)
  BY <1>1, <1>7
<1> QED BY <1>1, <1>2, <1>8, <1>9, <1>10, <1>11 DEF BuilderInv

LEMMA InvSendOverlong ==
  ASSUME FramedPeer, BuilderInv, NEW x \in Overlong, SendOverlong(x) PROVE BuilderInv'
<1>1. /\ ~spoilt /\ spoilt' = TRUE /\ unread' = unread \o x
      /\ UNCHANGED <<builder, sent, got, failed>>
  BY DEF SendOverlong
<1>2. /\ sent \in Seq(Packets) /\ got \in Seq(Packets) /\ Len(got) <= Len(sent)
      /\ \A i \in 1..Len(got) : got[i] = sent[i]
      /\ unread \in Seq(Byte) /\ spoilt = FALSE /\ failed = FALSE
      /\ InStream(builder, unread, Len(got), sent, <<>>)
  BY <1>1 DEF BuilderInv
<1>3. x \in Seq(Byte)
  BY DEF FramedPeer
<1>4. /\ Len(got) \in 0..Len(sent) /\ Len(sent) \in Nat
      /\ \A i \in 1..Len(sent) : Encoded(sent[i]) \in Seq(Byte)
  <2>1. \A q \in Packets : Encoded(q) \in Seq(Byte)
    <3> SUFFICES ASSUME NEW q \in Packets PROVE Encoded(q) \in Seq(Byte)
      OBVIOUS
    <3>1. Sendable(q) /\ <<>> \in Seq(Byte)
      BY DEF FramedPeer
    <3> QED BY <3>1, EncodedWhole
  <2>2. \A i \in 1..Len(sent) : sent[i] \in Packets
    BY <1>2
  <2> QED BY <1>2, <2>1, <2>2
<1>5. InStream(builder, unread \o x, Len(got), sent, x)
  BY <1>2, <1>3, <1>4, Written
<1>6. unread' \in Seq(Byte)
  BY <1>1, <1>2, <1>3
<1>7. InStream(builder', unread', Len(got'), sent', x)
  BY <1>1, <1>5
<1> QED BY <1>1, <1>2, <1>3, <1>6, <1>7 DEF BuilderInv

LEMMA InvClose ==
  ASSUME FramedPeer, BuilderInv, Close PROVE BuilderInv'
<1>1. /\ builder.state = "FixedHeader" /\ builder' = builder /\ unread' = <<>> /\ sent' = <<>>
      /\ got' = <<>> /\ spoilt' = FALSE /\ failed' = FALSE
  BY DEF Close, FramedPeer
<1>2. builder = Fresh
  <2>1. CASE failed
    BY <2>1 DEF BuilderInv
  <2>2. CASE ~failed
    <3>1. \E r, m : At(builder, r, m)
      BY <2>2 DEF BuilderInv, InStream
    <3> QED BY <1>1, <3>1 DEF At, InLength, InPayload
  <2> QED BY <2>1, <2>2
<1>3. <<>> \in Seq(Packets) /\ <<>> \in Seq(Byte) /\ Len(<<>>) = 0
  OBVIOUS
<1>4. InStream(builder', unread', Len(got'), sent', <<>>)
  BY <1>1, <1>2, <1>3, StartsEmpty
<1>5. /\ sent' \in Seq(Packets) /\ got' \in Seq(Packets) /\ Len(got') <= Len(sent')
      /\ \A i \in 1..Len(got') : got'[i] = sent'[i]
      /\ unread' \in Seq(Byte) /\ spoilt' = FALSE /\ failed' = FALSE
  BY <1>1, <1>3
<1> QED BY <1>3, <1>4, <1>5 DEF BuilderInv

LEMMA InvRecv ==
  ASSUME FramedPeer, BuilderInv, NEW n \in 1..Len(unread), Recv(n) PROVE BuilderInv'
<1> DEFINE d == SubSeq(unread, 1, n)
           f == feed(builder, d)
           g == Len(got)
<1>1. /\ ~failed /\ builder' = f.out.builder
      /\ unread' = SubSeq(unread, f.used + 1, Len(unread))
      /\ got' = IF f.out.result = "Complete" THEN Append(got, f.out.packet) ELSE got
      /\ failed' = (f.out.result = "Error") /\ sent' = sent /\ spoilt' = spoilt
  BY DEF Recv
<1>2. /\ sent \in Seq(Packets) /\ got \in Seq(Packets) /\ g <= Len(sent)
      /\ \A i \in 1..g : got[i] = sent[i]
      /\ unread \in Seq(Byte) /\ spoilt \in BOOLEAN
  BY DEF BuilderInv
<1>3. PICK last \in Seq(Byte) : /\ IF spoilt THEN last \in Overlong ELSE last = <<>>
                               /\ InStream(builder, unread, g, sent, last)
  BY <1>1 DEF BuilderInv
<1>4. PICK r : /\ Stream(r, sent, last)
               /\ \E m \in Nat : At(builder, r[g], m) /\ Suffix(unread, r[g], m)
  BY <1>3 DEF InStream
<1>5. PICK m \in Nat : At(builder, r[g], m) /\ Suffix(unread, r[g], m)
  BY <1>4
<1>6. g \in Nat /\ Len(sent) \in Nat /\ g \in 0..Len(sent) /\ r[g] \in Seq(Byte)
      /\ Len(unread) \in Nat
  <2>1. g \in 0..Len(sent)
    BY <1>2
  <2>2. r \in [0..Len(sent) -> Seq(Byte)]
    BY <1>4 DEF Stream
  <2> QED BY <1>2, <2>1, <2>2
<1> HIDE DEF g
<1>7. /\ d \in Seq(Byte) /\ Len(d) = n /\ m + Len(d) <= Len(r[g])
      /\ \A i \in 1..Len(d) : d[i] = r[g][m + i]
  BY <1>2, <1>5, <1>6, NextBytes
<1> HIDE DEF d
<1>8. /\ f.used \in 0..n /\ (f.out.result # "Incomplete" => f.used > 0)
      /\ Returned(f.out, r[g], m + f.used)
  BY <1>5, <1>6, <1>7, Fed
<1> HIDE DEF f
<1>9. f.used \in 0..Len(unread) /\ m + f.used \in Nat
  BY <1>6, <1>8
<1>10. unread' \in Seq(Byte) /\ Suffix(unread', r[g], m + f.used)
  BY <1>1, <1>2, <1>5, <1>6, <1>9, Used
<1>11. CASE f.out.result = "Incomplete"
  <2>1. At(builder', r[g], m + f.used) /\ got' = got /\ failed' = FALSE
    BY <1>1, <1>8, <1>11 DEF Returned
  <2>2. InStream(builder', unread', Len(got'), sent', last)
    BY <1>1, <1>4, <1>9, <1>10, <2>1 DEF InStream, g
  <2> QED BY <1>1, <1>2, <1>3, <1>10, <2>1, <2>2 DEF BuilderInv, g
<1>12. CASE f.out.result = "Complete"
  <2> DEFINE p == f.out.packet
             k == m + f.used
  <2>1. builder' = Fresh /\ Whole(p, r[g], k) /\ got' = Append(got, p) /\ failed' = FALSE
    BY <1>1, <1>8, <1>12 DEF Returned
  <2> HIDE DEF p, k
  <2>2. g < Len(sent)
    <3> SUFFICES ASSUME g = Len(sent) PROVE FALSE
      BY <1>6
    <3>1. r[g] = last
      BY <1>4 DEF Stream
    <3>2. Len(last) > 1
      <4>1. k \in Nat /\ k > 1 /\ k <= Len(last)
        BY <2>1, <3>1, WholeBounds
      <4>2. Len(last) \in Nat
        OBVIOUS
      <4> QED BY <4>1, <4>2
    <3>3. last \in Overlong
      <4>1. last # <<>>
        BY <3>2
      <4> QED BY <1>2, <1>3, <4>1
    <3>4. PICK j \in 1..3 : Ends(last, 1, j) /\ 1 + j <= Len(last)
      <4>1. PICK j \in 1..3 : /\ Ends(last, 1, j) /\ p.data \in Seq(Byte)
                             /\ k = 1 + j + Len(p.data) /\ k <= Len(last)
        BY <2>1, <3>1 DEF Whole
      <4>2. Len(p.data) \in Nat /\ Len(last) \in Nat
        BY <4>1
      <4>3. \A x, y \in Nat : 1 + j + x <= y => 1 + j <= y
        OBVIOUS
      <4>4. 1 + j + Len(p.data) <= Len(last)
        BY <4>1
      <4> QED BY <4>1, <4>2, <4>3, <4>4, Zenon
    <3>5. 1 + j \in 2..4 /\ ~more(last[1 + j])
      BY <3>4 DEF Ends
    <3> QED BY <3>3, <3>4, <3>5 DEF FramedPeer
  <2> DEFINE e == Encoded(sent[g + 1])
  <2>3. /\ r[g + 1] \in Seq(Byte) /\ e \in Seq(Byte) /\ r[g] = e \o r[g + 1]
        /\ Whole(sent[g + 1], r[g], Len(e)) /\ sent[g + 1] \in Packets
    BY <1>2, <1>4, <1>6, <2>2, FirstLeft
  <2>4. p = sent[g + 1] /\ k = Len(e)
    BY <2>1, <2>3, WholeUnique
  <2> HIDE DEF e
  <2>5. /\ got' \in Seq(Packets) /\ Len(got') = g + 1 /\ got'[g + 1] = p
        /\ \A i \in 1..g : got'[i] = got[i]
    <3>1. p \in Packets
      BY <2>3, <2>4
    <3> QED BY <1>2, <2>1, <3>1 DEF g
  <2>6. Len(got') <= Len(sent') /\ \A i \in 1..Len(got') : got'[i] = sent'[i]
    <3>1. \A i \in 1..(g + 1) : i \in 1..g \/ i = g + 1
      BY <1>6
    <3>2. g + 1 <= Len(sent)
      BY <1>6, <2>2
    <3> QED BY <1>1, <1>2, <2>4, <2>5, <3>1, <3>2, Zenon
  <2>7. At(builder', r[g + 1], 0)
    BY <2>1, <2>3, AtFresh
  <2>8. Suffix(unread', r[g + 1], 0)
    <3> DEFINE t == r[g + 1]
               u == unread'
    <3>1. /\ Len(r[g]) = Len(e) + Len(t) /\ Len(e) \in Nat /\ Len(t) \in Nat
          /\ \A i \in 1..Len(t) : r[g][Len(e) + i] = t[i]
      BY <2>3, Joined
    <3>2. Len(u) = Len(r[g]) - Len(e) /\ \A i \in 1..Len(u) : u[i] = r[g][Len(e) + i]
      BY <1>10, <2>4 DEF Suffix, k
    <3> HIDE DEF t, u
    <3>3. Len(u) = Len(t)
      BY <3>1, <3>2
    <3>4. \A i \in 1..Len(u) : 0 + i = i
      BY <3>1, <3>3
    <3>5. Len(u) = Len(t) - 0 /\ \A i \in 1..Len(u) : u[i] = t[0 + i]
      <4>1. \A i \in 1..Len(u) : u[i] = t[i]
        BY <3>1, <3>2, <3>3, Zenon
      <4>2. Len(t) - 0 = Len(t)
        BY <3>1
      <4> QED BY <3>3, <3>4, <4>1, <4>2, Zenon
    <3> QED BY <3>5 DEF Suffix, t, u
  <2>9. InStream(builder', unread', Len(got'), sent', last)
    <3>1. 0 \in Nat
      OBVIOUS
    <3> QED BY <1>1, <1>4, <2>5, <2>7, <2>8, <3>1 DEF InStream
  <2> QED BY <1>1, <1>2, <1>3, <1>10, <2>1, <2>5, <2>6, <2>9 DEF BuilderInv
<1>13. CASE f.out.result = "Error"
  <2>1. builder' = Fresh /\ TooLong(r[g]) /\ got' = got /\ failed' = TRUE
    BY <1>1, <1>8, <1>13 DEF Returned
  <2>2. g = Len(sent)
    <3> SUFFICES ASSUME g < Len(sent) PROVE FALSE
      BY <1>6
    <3>1. Whole(sent[g + 1], r[g], Len(Encoded(sent[g + 1])))
      BY <1>2, <1>4, <1>6, FirstLeft
    <3> QED BY <2>1, <3>1, WholeBounds
  <2>3. spoilt
    <3>1. r[g] = last
      BY <1>4, <2>2 DEF Stream
    <3>2. last # <<>>
      BY <2>1, <3>1 DEF TooLong
    <3> QED BY <1>2, <1>3, <3>2
  <2> QED BY <1>1, <1>2, <1>10, <2>1, <2>3 DEF BuilderInv, g
<1> QED BY <1>8, <1>11, <1>12, <1>13 DEF Returned

\* What the builder holds and what is unread are always the rest of what was sent.
THEOREM BuilderInvHolds ==
  ASSUME FramedPeer PROVE Spec => []BuilderInv
<1>1. Init => BuilderInv
  BY InvInit
<1>2. BuilderInv /\ [Next]_vars => BuilderInv'
  <2> SUFFICES ASSUME BuilderInv, [Next]_vars PROVE BuilderInv'
    OBVIOUS
  <2>1. ASSUME NEW p \in Packets, Send(p) PROVE BuilderInv'
    BY <2>1, InvSend
  <2>2. ASSUME NEW x \in Overlong, SendOverlong(x) PROVE BuilderInv'
    BY <2>2, InvSendOverlong
  <2>3. ASSUME NEW n \in 1..Len(unread), Recv(n) PROVE BuilderInv'
    BY <2>3, InvRecv
  <2>4. CASE Close
    BY <2>4, InvClose
  <2>5. CASE UNCHANGED vars
    <3>1. /\ builder' = builder /\ unread' = unread /\ sent' = sent /\ got' = got
          /\ spoilt' = spoilt /\ failed' = failed
      BY <2>5 DEF vars
    <3> QED BY <3>1, Zenon DEF BuilderInv
  <2> QED BY <2>1, <2>2, <2>3, <2>4, <2>5 DEF Next
<1> QED BY <1>1, <1>2, PTL DEF Spec

-----------------------------------------------------------------------------
\* However recv gets the bytes, the packets it completes are those that were sent, in
\* order and with their bytes, also ahead of a length that never ends.
THEOREM FramingHolds ==
  ASSUME FramedPeer PROVE Spec => []Framing
<1>1. BuilderInv => Framing
  <2> SUFFICES ASSUME BuilderInv PROVE Framing
    OBVIOUS
  <2>1. /\ sent \in Seq(Packets) /\ got \in Seq(Packets) /\ Len(got) <= Len(sent)
        /\ \A i \in 1..Len(got) : got[i] = sent[i]
    BY DEF BuilderInv
  <2>2. SubSeq(got, 1, Len(got)) = SubSeq(sent, 1, Len(got))
    BY <2>1
  <2> QED BY <2>1, <2>2 DEF Framing, IsPrefix
<1> QED BY <1>1, BuilderInvHolds, PTL

\* feed refuses no packet with a length of up to three bytes, and has completed every one
\* when it has read every byte.
THEOREM NothingPendingHolds ==
  ASSUME FramedPeer PROVE Spec => []NothingPending
<1>1. BuilderInv => NothingPending
  <2> SUFFICES ASSUME BuilderInv, ~spoilt PROVE ~failed /\ (unread = <<>> => got = sent)
    BY DEF NothingPending
  <2>1. ~failed
    BY DEF BuilderInv
  <2>2. ASSUME unread = <<>> PROVE got = sent
    <3> DEFINE g == Len(got)
    <3>1. /\ sent \in Seq(Packets) /\ got \in Seq(Packets) /\ g <= Len(sent)
          /\ \A i \in 1..g : got[i] = sent[i]
      BY DEF BuilderInv
    <3>2. PICK last, r : /\ Stream(r, sent, last)
                         /\ \E m \in Nat : At(builder, r[g], m) /\ Suffix(unread, r[g], m)
      BY <2>1 DEF BuilderInv, InStream
    <3>3. PICK m \in Nat : At(builder, r[g], m) /\ Suffix(unread, r[g], m)
      BY <3>2
    <3>4. g \in Nat /\ Len(sent) \in Nat /\ g \in 0..Len(sent)
      BY <3>1
    <3>5. r[g] \in Seq(Byte)
      BY <3>2, <3>4 DEF Stream
    <3>6. Len(r[g]) = m
      <4>1. Len(unread) = 0 /\ Len(r[g]) \in Nat /\ Len(unread) = Len(r[g]) - m
        BY <2>2, <3>3, <3>5 DEF Suffix
      <4> QED BY <4>1
    <3>7. g = Len(sent)
      <4> HIDE DEF g
      <4> SUFFICES ASSUME g < Len(sent) PROVE FALSE
        BY <3>1, <3>4
      <4>1. Whole(sent[g + 1], r[g], Len(Encoded(sent[g + 1])))
        BY <3>1, <3>2, <3>4, FirstLeft
      <4> DEFINE n == Len(Encoded(sent[g + 1]))
      <4>2. n \in Nat /\ n <= Len(r[g]) /\ m < n
        BY <3>3, <4>1, WholeBounds
      <4> HIDE DEF n
      <4> QED BY <3>6, <4>2
    <3> QED BY <3>1, <3>7
  <2> QED BY <2>1, <2>2
<1> QED BY <1>1, BuilderInvHolds, PTL

\* remaining_length_to_total_size, which process_recv_packet compares with the maximum
\* packet size, is the number of bytes that the packet took.
THEOREM SizeAlwaysExact ==
  ASSUME FramedPeer PROVE Spec => []SizeExact
<1>1. BuilderInv => SizeExact
  <2> SUFFICES ASSUME BuilderInv, NEW i \in DOMAIN got
               PROVE  remaining_length_to_total_size(Len(got[i].data)) = Len(Encoded(got[i]))
    BY DEF SizeExact
  <2> DEFINE p == got[i]
             l == Len(p.data)
  <2>1. p \in Packets
    BY DEF BuilderInv
  <2> HIDE DEF p
  <2>2. Sendable(p) /\ <<>> \in Seq(Byte)
    BY <2>1 DEF FramedPeer
  <2>3. Len(Encoded(p)) = 1 + Bytes(l) + l
    BY <2>2, EncodedWhole
  <2>4. l < Base * Base * Base
    BY <2>2 DEF Sendable
  <2> HIDE DEF l
  <2>5. remaining_length_to_total_size(l) = 1 + Bytes(l) + l
    BY <2>4 DEF remaining_length_to_total_size, Bytes
  <2> QED BY <2>3, <2>5 DEF l, p
<1> QED BY <1>1, BuilderInvHolds, PTL

\* The sum of to_u32.
LEMMA Summed ==
  ASSUME NEW s \in Seq(Byte), Len(s) \in 1..3
  PROVE  to_u32(s) = Value(s, 0, Len(s))
<1> DEFINE n == Len(s)
           Rec(g) == g = [i \in 0..n |-> IF i = 0 THEN 0 ELSE g[i - 1] + digit(s[i]) * Weight[i]]
           w == [i \in 0..n |-> Value(s, 0, i)]
           c == CHOOSE g : Rec(g)
<1>1. /\ n \in 1..3 /\ \A i \in 1..n : digit(s[i]) \in Nat
  <2>1. \A i \in 1..n : s[i] \in Nat
    BY BaseAssumption DEF Byte
  <2>2. \A x \in Nat : digit(x) \in 0..(Base - 1)
    BY Division, Zenon DEF digit
  <2>3. \A x \in Nat : digit(x) \in Nat
    BY <2>2, BaseAssumption
  <2> QED BY <2>1, <2>3
<1>2. to_u32(s) = c[n]
  BY DEF to_u32
<1> HIDE DEF n
<1>3. /\ Weight[1] = 1 /\ Weight[2] = Base /\ Weight[3] = Base * Base
  BY DEF Weight
<1>4. /\ Value(s, 0, 0) = 0 /\ Value(s, 0, 1) = digit(s[1])
      /\ n > 1 => Value(s, 0, 2) = digit(s[1]) + digit(s[2]) * Base
      /\ n > 2 => Value(s, 0, 3) = digit(s[1]) + digit(s[2]) * Base + digit(s[3]) * (Base * Base)
  <2>1. Base \in Nat /\ \A x, y \in Nat : x * y \in Nat
    BY BaseAssumption
  <2>2. digit(s[1]) \in Nat /\ (n > 1 => digit(s[2]) * Base \in Nat)
    BY <1>1, <2>1
  <2>3. n > 2 => digit(s[3]) * (Base * Base) \in Nat
    BY <1>1, <2>1
  <2> QED BY <1>1, <2>2, <2>3 DEF Value
<1>5. ASSUME NEW i \in 1..n
      PROVE  Value(s, 0, i) = Value(s, 0, i - 1) + digit(s[i]) * Weight[i]
  <2>1. CASE i = 1
    BY <1>1, <1>3, <1>4, <2>1
  <2>2. CASE i = 2
    BY <1>1, <1>3, <1>4, <2>2
  <2>3. CASE i = 3
    BY <1>1, <1>3, <1>4, <2>3
  <2> QED BY <1>1, <2>1, <2>2, <2>3
<1>6. Rec(w)
  <2>1. ASSUME NEW i \in 0..n
        PROVE  w[i] = IF i = 0 THEN 0 ELSE w[i - 1] + digit(s[i]) * Weight[i]
    <3>1. CASE i = 0
      BY <1>4, <3>1
    <3>2. CASE i # 0
      <4>1. i \in 1..n /\ i - 1 \in 0..n
        BY <1>1, <3>2
      <4>2. w[i] = Value(s, 0, i) /\ w[i - 1] = Value(s, 0, i - 1)
        BY <4>1
      <4> QED BY <1>5, <3>2, <4>1, <4>2
    <3> QED BY <3>1, <3>2
  <2>2. w = [i \in 0..n |-> w[i]]
    OBVIOUS
  <2> HIDE DEF w
  <2> QED BY <2>1, <2>2
<1>7. Rec(c)
  BY <1>6, Zenon
<1> HIDE DEF c
<1>8. c[0] = 0 /\ \A i \in 1..n : c[i] = c[i - 1] + digit(s[i]) * Weight[i]
  <2>1. \A i \in 0..n : c[i] = IF i = 0 THEN 0 ELSE c[i - 1] + digit(s[i]) * Weight[i]
    BY <1>7
  <2>2. 0 \in 0..n /\ \A i \in 1..n : i \in 0..n /\ i # 0
    BY <1>1
  <2> QED BY <2>1, <2>2
<1>9. c[1] = Value(s, 0, 1)
  BY <1>1, <1>4, <1>5, <1>8
<1>10. n > 1 => c[2] = Value(s, 0, 2)
  BY <1>1, <1>5, <1>8, <1>9
<1>11. n > 2 => c[3] = Value(s, 0, 3)
  BY <1>1, <1>5, <1>8, <1>10
<1>12. c[n] = Value(s, 0, n)
  BY <1>1, <1>9, <1>10, <1>11
<1> QED BY <1>2, <1>12 DEF n

\* decode_stream reads an integer of up to three bytes, whatever follows it.
LEMMA Decodes ==
  ASSUME NEW s \in Seq(Byte), NEW k \in 1..3, k <= Len(s), Ends(s, 0, k)
  PROVE  decode_stream(s) = [result |-> "Ok", value |-> Value(s, 0, k), used |-> k]
<1> DEFINE z == IF Len(s) < 4 THEN Len(s) ELSE 4
           read == SubSeq(s, 1, z)
           ends == {i \in DOMAIN read : ~more(read[i])}
           last == CHOOSE i \in ends : \A j \in ends : i <= j
           v == SubSeq(read, 1, k)
<1>1. Len(s) \in Nat /\ z \in Nat /\ k <= z /\ z <= Len(s)
  OBVIOUS
<1>2. /\ read \in Seq(Byte) /\ Len(read) = z /\ DOMAIN read = 1..z
      /\ \A i \in 1..z : read[i] = s[i]
  <2> HIDE DEF z
  <2> QED BY <1>1
<1> HIDE DEF z
<1>3. decode_stream(s) = IF ends # {}
        THEN [result |-> "Ok", value |-> to_u32(SubSeq(read, 1, last)), used |-> last]
        ELSE IF Len(s) < MAX_DIGITS THEN [result |-> "Incomplete"] ELSE [result |-> "Err"]
  BY DEF decode_stream, MAX_DIGITS, z
<1> HIDE DEF read
<1>4. ~more(s[k]) /\ \A i \in 1..(k - 1) : more(s[i])
  BY DEF Ends
<1>5. k \in ends /\ \A j \in ends : k <= j
  <2>1. k \in 1..z
    BY <1>1
  <2>2. k \in ends
    BY <1>2, <1>4, <2>1
  <2>3. ASSUME NEW j \in ends PROVE k <= j
    <3>1. j \in 1..z /\ ~more(s[j])
      BY <1>2
    <3> QED BY <1>1, <1>4, <3>1
  <2> QED BY <2>2, <2>3
<1>6. \A i \in ends : i \in Nat
  BY <1>1, <1>2
<1> HIDE DEF ends
<1>7. last = k
  <2>1. last \in ends /\ \A j \in ends : last <= j
    BY <1>5
  <2> HIDE DEF last
  <2>2. last <= k /\ k <= last /\ last \in Nat
    BY <1>5, <1>6, <2>1
  <2> QED BY <2>2
<1> HIDE DEF last
<1>8. /\ v \in Seq(Byte) /\ Len(v) = k /\ \A i \in 1..k : v[i] = read[i]
  BY <1>1, <1>2
<1> HIDE DEF v
<1>9. to_u32(v) = Value(v, 0, k)
  BY <1>8, Summed
<1>10. Value(v, 0, k) = Value(s, 0, k)
  <2>1. \A i \in 1..k : i \in 1..z /\ 0 + i = i
    BY <1>1
  <2>2. \A i \in 1..k : v[0 + i] = s[0 + i]
    BY <1>2, <1>8, <2>1, Zenon
  <2>3. 0 \in Nat /\ k \in 0..3
    OBVIOUS
  <2> QED BY <2>2, <2>3, SameValue, Zenon
<1> QED BY <1>3, <1>5, <1>7, <1>9, <1>10 DEF v

\* decode_stream finds the length that from_u32 wrote, which is the one that feed will
\* find, in as many bytes as size says.
THEOREM DecodesNextHolds ==
  ASSUME FramedPeer PROVE Spec => []DecodesNext
<1>1. BuilderInv => DecodesNext
  <2> SUFFICES ASSUME BuilderInv, builder.state = "FixedHeader", Len(unread) > 1, ~failed,
                      Len(got) < Len(sent)
               PROVE  LET d == decode_stream(Tail(unread))
                          p == sent[Len(got) + 1]
                      IN  d.result = "Ok" /\ d.value = Len(p.data) /\ d.used = size(d.value)
    BY DEF DecodesNext
  <2> DEFINE g == Len(got)
             p == sent[g + 1]
             l == Len(p.data)
             e == Encoded(p)
             b == Tail(unread)
  <2>1. /\ sent \in Seq(Packets) /\ g \in Nat /\ g \in 0..Len(sent) /\ unread \in Seq(Byte)
    BY DEF BuilderInv
  <2>2. PICK last, r : /\ Stream(r, sent, last)
                       /\ \E m \in Nat : At(builder, r[g], m) /\ Suffix(unread, r[g], m)
    BY DEF BuilderInv, InStream
  <2>3. PICK m \in Nat : At(builder, r[g], m) /\ Suffix(unread, r[g], m)
    BY <2>2
  <2>4. m = 0
    <3>1. builder = Fresh
      BY <2>3 DEF At, InLength, InPayload
    <3> QED BY <2>3, <3>1 DEF At, Holds, Fresh
  <2> HIDE DEF g
  <2>5. r[g] \in Seq(Byte) /\ Whole(p, r[g], Len(e)) /\ p \in Packets
    BY <2>1, <2>2, FirstLeft DEF g
  <2> HIDE DEF p
  <2>6. Sendable(p) /\ <<>> \in Seq(Byte)
    BY <2>5 DEF FramedPeer
  <2>7. Len(e) = 1 + Bytes(l) + l
    BY <2>6, EncodedWhole
  <2>8. l \in Nat /\ l < Base * Base * Base /\ Bytes(l) \in 1..3
    BY <2>6 DEF Sendable, Bytes
  <2> HIDE DEF e
  <2>9. PICK k \in 1..3 : /\ Ends(r[g], 1, k) /\ l = Value(r[g], 1, k) /\ Len(e) = 1 + k + l
                         /\ Len(e) <= Len(r[g])
    BY <2>5 DEF Whole
  <2> HIDE DEF l
  <2>10. k = Bytes(l)
    BY <2>7, <2>8, <2>9
  <2>11. size(l) = Bytes(l)
    BY <2>8, LengthBytes
  <2>12. Len(unread) = Len(r[g]) /\ \A i \in 1..Len(unread) : unread[i] = r[g][i]
    <3>1. Len(r[g]) \in Nat
      BY <2>5
    <3>2. Len(unread) = Len(r[g]) - 0 /\ \A i \in 1..Len(unread) : unread[i] = r[g][0 + i]
      BY <2>3, <2>4 DEF Suffix
    <3>3. \A i \in 1..Len(unread) : 0 + i = i
      BY <2>1
    <3> QED BY <3>1, <3>2, <3>3
  <2>13. /\ b \in Seq(Byte) /\ Len(b) = Len(unread) - 1
         /\ \A i \in 1..(Len(unread) - 1) : b[i] = unread[i + 1]
    BY <2>1
  <2> HIDE DEF b
  <2>14. k <= Len(b) /\ \A i \in 1..k : b[0 + i] = r[g][1 + i]
    <3>1. Len(r[g]) \in Nat /\ Len(unread) \in Nat
      BY <2>1, <2>5
    <3>2. 1 + k <= Len(unread)
      BY <2>8, <2>9, <2>12, <3>1
    <3>3. \A i \in 1..k : /\ i \in 1..(Len(unread) - 1) /\ i + 1 \in 1..Len(unread)
                          /\ 0 + i = i /\ i + 1 = 1 + i
      BY <3>1, <3>2
    <3>4. k <= Len(b)
      BY <2>13, <3>1, <3>2
    <3>5. \A i \in 1..k : b[i] = r[g][i + 1]
      BY <2>12, <2>13, <3>3, Zenon
    <3>6. \A i \in 1..k : b[0 + i] = r[g][1 + i]
      BY <3>3, <3>5
    <3> QED BY <3>4, <3>6
  <2>15. Ends(b, 0, k) /\ Value(b, 0, k) = l
    <3>1. 0 \in Nat /\ 1 \in Nat /\ k \in 0..3 /\ k > 0
      OBVIOUS
    <3>2. Value(b, 0, k) = Value(r[g], 1, k) /\ (k > 0 => (Ends(b, 0, k) <=> Ends(r[g], 1, k)))
      BY <2>14, <3>1, SameValue, Zenon
    <3> QED BY <2>9, <3>1, <3>2
  <2>16. decode_stream(b) = [result |-> "Ok", value |-> Value(b, 0, k), used |-> k]
    BY <2>13, <2>14, <2>15, Decodes
  <2>17. /\ decode_stream(b).result = "Ok" /\ decode_stream(b).value = l
         /\ decode_stream(b).used = size(decode_stream(b).value)
    BY <2>10, <2>11, <2>15, <2>16
  <2> QED BY <2>17 DEF b, l, p, g
<1> QED BY <1>1, BuilderInvHolds, PTL
=============================================================================
