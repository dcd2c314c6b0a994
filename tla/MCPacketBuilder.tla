-------------------------- MODULE MCPacketBuilder ---------------------------
(***************************************************************************)
(* Bytes are 0..3 (Base is 2): a data byte looks like a header, a length   *)
(* that ends or one that goes on.                                          *)
(***************************************************************************)
EXTENDS PacketBuilder

P(header, data) == [header |-> header, data |-> data]

\* Lengths of one, two and three bytes, each at both ends of its range.
ShortPackets == {P(0, <<>>), P(1, <<3>>), P(3, <<2, 0>>), P(2, <<0, 1, 3>>),
                 P(0, <<3, 3, 3, 3>>), P(1, <<2, 1, 0, 3, 2, 1, 0>>)}
\* A length of four bytes.
LongPackets  == {P(1, <<2, 1, 0, 3, 2, 1, 0, 3>>)}
Endless      == {<<0, 2, 3, 2, 2, 1>>}
Nothing      == {}
=============================================================================
