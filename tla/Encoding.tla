------------------------------ MODULE Encoding ------------------------------
(***************************************************************************)
(* The fields packets are made of: numbers, strings, binary data, packet   *)
(* ids and subscription entries, and the cursor parse() moves over the     *)
(* bytes of a packet.  A byte is a natural number.  Numbers and length     *)
(* prefixes have digits below Radix, 256 in MQTT: with a small Radix the   *)
(* longest string and the greatest number are short, and are reached.  A   *)
(* byte where a digit is expected counts modulo Radix.                     *)
(***************************************************************************)
EXTENDS VariableByteInteger, SequencesExt, Bitwise

CONSTANTS Radix,   \* the values of a digit of u16 and u32
          PidSize  \* size_of PacketIdType::Buffer: 2 for u16, 4 for u32

ASSUME EncodingAssumption == Radix \in Nat \ {0, 1} /\ PidSize \in {2, 4}

\* Result: the value read and the bytes consumed, or the MqttError.
Ok(val, used) == [ok |-> TRUE, val |-> val, used |-> used]
Err(error)    == [ok |-> FALSE, error |-> error]

\* A byte outside of UTF-8.
NotUtf8 == 255
Hash    == 35
Plus    == 43

-----------------------------------------------------------------------------
\* to_be_bytes and from_be_bytes.
to_be_bytes(n, width) == [i \in 1..width |-> (n \div Radix ^ (width - i)) % Radix]
from_be_bytes(bytes)  == FoldLeft(LAMBDA n, byte : n * Radix + (byte % Radix), 0, bytes)

uint(width, data) ==
  IF Len(data) < width THEN Err("MalformedPacket")
  ELSE Ok(from_be_bytes(SubSeq(data, 1, width)), width)

\* u8: a byte as it is.
u8(data) == IF data = <<>> THEN Err("MalformedPacket") ELSE Ok(data[1], 1)

\* IsPacketId::to_buffer and from_buffer, behind the check of the length every
\* parse() makes.
pid_to_buffer(pid)    == to_be_bytes(pid, PidSize)
pid_from_buffer(data) == uint(PidSize, data)

-----------------------------------------------------------------------------
\* The length prefix of strings and binary data has two digits.
MaxLength == Radix ^ 2 - 1

\* MqttString::new and MqttBinary::new: the value is held as its content.
string_new(s) == IF Len(s) > MaxLength THEN Err("MalformedPacket") ELSE Ok(s, 0)
binary_new(s) == IF Len(s) > MaxLength THEN Err("MalformedPacket") ELSE Ok(s, 0)

\* as_bytes, to_buffers and to_continuous_buffer: the Small and the Large form
\* hold the same bytes.
string_bytes(s) == to_be_bytes(Len(s), 2) \o s
binary_bytes(s) == to_be_bytes(Len(s), 2) \o s
string_size(s)  == 2 + Len(s)
binary_size(s)  == 2 + Len(s)

after_length(len, data) ==
  IF ~len.ok THEN len
  ELSE IF Len(data) < 2 + len.val THEN Err("MalformedPacket")
  ELSE Ok(SubSeq(data, 3, 2 + len.val), 2 + len.val)
binary_decode(data) == after_length(uint(2, data), data)

utf8(r) == IF r.ok /\ Contains(r.val, NotUtf8) THEN Err("MalformedPacket") ELSE r
string_decode(data) == utf8(binary_decode(data))

-----------------------------------------------------------------------------
(***************************************************************************)
(* SubOpts and SubEntry.                                                   *)
(***************************************************************************)
qos_bits(opts) == opts & 3
rh_bits(opts)  == (opts & 48) \div 16

\* Mutant: the QoS is not checked.
SubOpts_from_u8_AnyQos(value) ==
  IF (value & 192) # 0 \/ rh_bits(value) > 2 THEN Err("MalformedPacket") ELSE Ok(value, 1)

SubOpts_from_u8(value) ==
  IF (value & 192) # 0 \/ qos_bits(value) > 2 \/ rh_bits(value) > 2
  THEN Err("MalformedPacket") ELSE Ok(value, 1)

\* SubOpts::new().set_qos(..).set_nl(..).set_rap(..).set_rh(..)
set_qos(opts, qos) == (opts - qos_bits(opts)) | qos
set_flag(opts, bit, on) == IF on THEN opts | bit ELSE opts - (opts & bit)
set_rh(opts, rh) == (opts - (opts & 48)) | (16 * rh)
SubOpts(o) == set_rh(set_flag(set_flag(set_qos(0, o.qos), 4, o.nl), 8, o.rap), o.rh)

\* The accessors; qos() and rh() are unreachable!() on a value above 2.
SubOpts_view(opts) == [qos |-> qos_bits(opts), nl |-> (opts & 4) # 0,
                       rap |-> (opts & 8) # 0, rh |-> rh_bits(opts)]

entry_new(e)   == IF string_new(e.topic_filter).ok
                  THEN Ok([topic_filter |-> e.topic_filter, opts |-> SubOpts(e.opts)], 0)
                  ELSE string_new(e.topic_filter)
entry_bytes(e) == Append(string_bytes(e.topic_filter), e.opts)
entry_size(e)  == string_size(e.topic_filter) + 1

-----------------------------------------------------------------------------
(***************************************************************************)
(* The cursor of parse(): what is left of the data, how much was consumed, *)
(* the fields read so far, and the first error, after which nothing more   *)
(* is read.  A packet, like a builder, is the function of its fields that  *)
(* are present: an Option that is None is a name without a value.          *)
(***************************************************************************)
NoError  == "none"
NoFields == [f \in {} |-> 0]

Cursor(data) == [rest |-> data, used |-> 0, got |-> NoFields, error |-> NoError]

With(fields, name, val) == [f \in DOMAIN fields \cup {name} |->
                              IF f = name THEN val ELSE fields[f]]
Has(fields, name)       == name \in DOMAIN fields
Get(fields, name, default) == IF Has(fields, name) THEN fields[name] ELSE default

\* The next field, which Decode finds at the start of what is left.
Take(c, name, result) ==
  IF c.error # NoError THEN c
  ELSE IF ~result.ok THEN [c EXCEPT !.error = result.error]
  ELSE [rest |-> SubSeq(c.rest, result.used + 1, Len(c.rest)), used |-> c.used + result.used,
        got |-> With(c.got, name, result.val), error |-> NoError]

Read(c, name, Decode(_)) == Take(c, name, Decode(c.rest))

ReadU8(c, name)     == Read(c, name, u8)
ReadU16(c, name)    == Take(c, name, uint(2, c.rest))
ReadPid(c, name)    == Read(c, name, pid_from_buffer)
ReadString(c, name) == Read(c, name, string_decode)
ReadBinary(c, name) == Read(c, name, binary_decode)
\* All that is left.
ReadRest(c, name)   == Take(c, name, Ok(c.rest, Len(c.rest)))

\* A condition that is checked where the cursor stands, a part of the packet that is
\* read only if a condition holds, and the packet at the end.
Require(c, Holds(_), error) ==
  IF c.error = NoError /\ ~Holds(c.got) THEN [c EXCEPT !.error = error] ELSE c
ReadIf(c, Present(_), Next(_)) == IF c.error = NoError /\ Present(c) THEN Next(c) ELSE c
Parsed(c, Packet(_)) == IF c.error # NoError THEN Err(c.error) ELSE Ok(Packet(c), c.used)

\* while cursor < data.len(): the items up to the end of the data, each at least
\* one byte long.
next_item(c, item) ==
  IF ~item.ok THEN [c EXCEPT !.error = item.error]
  ELSE [c EXCEPT !.rest = SubSeq(@, item.used + 1, Len(@)), !.used = @ + item.used,
                 !.got = Append(@, item.val)]
decode_all(Decode(_), data) ==
  Parsed(FoldLeft(LAMBDA c, i : IF c.rest = <<>> \/ c.error # NoError THEN c
                                ELSE next_item(c, Decode(c.rest)),
                  [Cursor(data) EXCEPT !.got = <<>>], data),
         LAMBDA end : end.got)

\* SubEntry::parse.
opts_parse(data) == IF data = <<>> THEN Err("MalformedPacket") ELSE SubOpts_from_u8(data[1])
entry_parse(data) ==
  Parsed(Read(ReadString(Cursor(data), "topic_filter"), "opts", opts_parse), LAMBDA end : end.got)

\* The sum of sizes, and the bytes of a list.
Sum(Size(_), list)     == FoldLeft(LAMBDA n, x : n + Size(x), 0, list)
Joined(Bytes(_), list) == FoldLeft(LAMBDA s, x : s \o Bytes(x), <<>>, list)

\* A byte that must be one of a set of codes.
code(data, Codes) ==
  IF data = <<>> \/ data[1] \notin Codes THEN Err("MalformedPacket") ELSE Ok(data[1], 1)
ReadCode(c, name, Codes) == Take(c, name, code(c.rest, Codes))
MapErr(result, error) == IF result.ok THEN result ELSE Err(error)

-----------------------------------------------------------------------------
(***************************************************************************)
(* What all packets have in common: the fixed header and the remaining     *)
(* length, which build() and parse() compute and from_u32(..).unwrap()     *)
(* panics on when it is above MAX.                                         *)
(***************************************************************************)
\* Mutant: the length is checked and forgotten.
Sized_Lost(fields, remaining) == IF remaining > MAX THEN Err("panic") ELSE Ok(fields, 0)

Sized(fields, remaining) ==
  IF remaining > MAX THEN Err("panic")
  ELSE Ok(With(fields, "remaining_length", remaining), 0)

\* size() and to_continuous_buffer(); to_buffers() is the same bytes in pieces.
packet_size(p) == 1 + size(p.remaining_length) + p.remaining_length
Framed(header, p, body) == <<header>> \o from_u32(p.remaining_length) \o body

\* A setter stores a value, or fails as the constructor of the value does.
Set(b, name, val) == Ok(With(b, name, val), 0)
SetTo(b, name, made) == IF made.ok THEN Set(b, name, made.val) ELSE made

Lengths == {"remaining_length", "property_length"}
\* The accessors of a packet whose fields are what they return.
Fields(p) == Restrict(p, DOMAIN p \ Lengths)
=============================================================================
