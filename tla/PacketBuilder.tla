--------------------------- MODULE PacketBuilder ----------------------------
(***************************************************************************)
(* connection/packet_builder.rs: the bytes of a transport become packets,  *)
(* however the transport cuts them into pieces.  A packet is its first     *)
(* byte and the bytes of its remaining length.  The peer writes packets,   *)
(* the application feeds what has arrived, and the transport may close and *)
(* be replaced by another: notify_closed does not reset the builder.       *)
(***************************************************************************)
EXTENDS VariableByteInteger, SequencesExt

CONSTANTS Packets,         \* what the peer sends: records of header and data
          Overlong,        \* byte sequences whose length never ends
          MaxSent,         \* packets sent on one transport
          ClosesMidPacket  \* the transport may close between a packet's bytes

VARIABLES builder,  \* the PacketBuilder of the connection
          unread,   \* the bytes on the transport, not fed yet
          sent,     \* the packets written to this transport
          got,      \* the packets completed on this transport
          spoilt,   \* the peer wrote an overlong length
          failed    \* feed returned an error: the application closes

vars == <<builder, unread, sent, got, spoilt, failed>>

\* new() and reset().  raw_buf_offset is the length of raw_buf.
Fresh == [state |-> "FixedHeader", header_buf |-> <<>>, remaining_length |-> 0,
          multiplier |-> 1, raw_buf |-> <<>>]

Incomplete(b)  == [result |-> "Incomplete", builder |-> b]
Complete(b)    == [result |-> "Complete", builder |-> Fresh,
                   packet |-> [header |-> b.header_buf[1], data |-> b.raw_buf]]
MalformedPacket == [result |-> "Error", builder |-> Fresh]

\* Mutant: one byte fewer is a complete payload.
read_payload_Short(b, byte) ==
  LET read == [b EXCEPT !.raw_buf = Append(@, byte), !.remaining_length = @ - 1]
  IN  IF read.remaining_length <= 1 THEN Complete(read) ELSE Incomplete(read)

\* The arms of the loop of feed, on one byte.
read_fixed_header(b, byte) ==
  Incomplete([b EXCEPT !.header_buf = Append(@, byte), !.state = "RemainingLength"])

read_payload(b, byte) ==
  LET read == [b EXCEPT !.raw_buf = Append(@, byte), !.remaining_length = @ - 1]
  IN  IF read.remaining_length = 0 THEN Complete(read) ELSE Incomplete(read)

\* Mutant: the payload starts before the last digit of the length.
read_remaining_length_Early(b, byte) ==
  LET read == [b EXCEPT !.header_buf = Append(@, byte),
                        !.remaining_length = @ + digit(byte) * b.multiplier,
                        !.multiplier = @ * Base]
  IN  IF read.multiplier > Base * Base * Base THEN MalformedPacket
      ELSE IF more(byte) /\ read.remaining_length = 0 THEN Incomplete(read)
      ELSE IF read.remaining_length = 0 THEN Complete(read)
      ELSE Incomplete([read EXCEPT !.state = "Payload"])

read_remaining_length(b, byte) ==
  LET read == [b EXCEPT !.header_buf = Append(@, byte),
                        !.remaining_length = @ + digit(byte) * b.multiplier,
                        !.multiplier = @ * Base]
  IN  IF read.multiplier > Base * Base * Base THEN MalformedPacket
      ELSE IF more(byte) THEN Incomplete(read)
      ELSE IF read.remaining_length = 0 THEN Complete(read)
      ELSE Incomplete([read EXCEPT !.state = "Payload"])

read_byte(b, byte) ==
  CASE b.state = "FixedHeader" -> read_fixed_header(b, byte)
    [] b.state = "RemainingLength" -> read_remaining_length(b, byte)
    [] b.state = "Payload" -> read_payload(b, byte)

\* feed reads the bytes it is given up to the end of a packet or an error.
feed(b, data) ==
  LET read[n \in 0..Len(data)] ==
        IF n = 0 THEN [out |-> Incomplete(b), used |-> 0]
        ELSE LET fed == read[n - 1]
             IN  IF fed.out.result # "Incomplete" THEN fed
                 ELSE [out |-> read_byte(fed.out.builder, data[n]), used |-> n]
  IN  read[Len(data)]

\* Mutant: lengths of the next power have the bytes of the one below.
remaining_length_to_total_size_Low(n) ==
  1 + (IF n <= Base THEN 1 ELSE IF n <= Base * Base THEN 2
       ELSE IF n <= Base * Base * Base THEN 3 ELSE 4) + n

\* remaining_length_to_total_size of core.rs.
remaining_length_to_total_size(n) ==
  1 + (IF n < Base THEN 1 ELSE IF n < Base * Base THEN 2
       ELSE IF n < Base * Base * Base THEN 3 ELSE 4) + n

-----------------------------------------------------------------------------
Encoded(p) == <<p.header>> \o from_u32(Len(p.data)) \o p.data

Init == /\ builder = Fresh
        /\ unread = <<>> /\ sent = <<>> /\ got = <<>>
        /\ spoilt = FALSE /\ failed = FALSE

Send(p) ==
  /\ Len(sent) < MaxSent /\ ~spoilt
  /\ sent' = Append(sent, p)
  /\ unread' = unread \o Encoded(p)
  /\ UNCHANGED <<builder, got, spoilt, failed>>

SendOverlong(bytes) ==
  /\ ~spoilt
  /\ spoilt' = TRUE /\ unread' = unread \o bytes
  /\ UNCHANGED <<builder, sent, got, failed>>

\* recv() with the next n bytes; what a packet leaves of them is fed again.
Recv(n) ==
  LET fed == feed(builder, SubSeq(unread, 1, n))
  IN  /\ ~failed /\ n \in 1..Len(unread)
      /\ builder' = fed.out.builder
      /\ unread' = SubSeq(unread, fed.used + 1, Len(unread))
      /\ got' = IF fed.out.result = "Complete" THEN Append(got, fed.out.packet) ELSE got
      /\ failed' = (fed.out.result = "Error")
      /\ UNCHANGED <<sent, spoilt>>

\* notify_closed and a new transport.
Close ==
  /\ ClosesMidPacket \/ builder.state = "FixedHeader"
  /\ unread' = <<>> /\ sent' = <<>> /\ got' = <<>>
  /\ spoilt' = FALSE /\ failed' = FALSE
  /\ UNCHANGED builder

Next == \/ \E p \in Packets : Send(p)
        \/ \E bytes \in Overlong : SendOverlong(bytes)
        \/ \E n \in 1..Len(unread) : Recv(n)
        \/ Close

Spec == Init /\ [][Next]_vars

-----------------------------------------------------------------------------
\* However the transport cuts the bytes, feed completes the packets that were
\* sent, in order, with their bytes.
Framing == IsPrefix(got, sent)

\* Once every byte is fed, every packet is complete, and feed refuses no length
\* that the encoding allows.
NothingPending == ~spoilt => ~failed /\ (unread = <<>> => got = sent)

\* The size that process_recv_packet compares with the maximum packet size is
\* the number of bytes the packet took on the transport.
SizeExact ==
  \A i \in DOMAIN got :
    remaining_length_to_total_size(Len(got[i].data)) = Len(Encoded(got[i]))

\* Between two packets, decode_stream finds on the transport the length of the
\* next packet, as the builder will.
DecodesNext ==
  builder.state = "FixedHeader" /\ Len(unread) > 1 /\ ~failed /\ Len(got) < Len(sent) =>
    LET d == decode_stream(Tail(unread))
        p == sent[Len(got) + 1]
    IN  d.result = "Ok" /\ d.value = Len(p.data) /\ d.used = size(d.value)
=============================================================================
