------------------------------ MODULE PacketV3 ------------------------------
(***************************************************************************)
(* packet/v3_1_1: the packets of MQTT v3.1.1.  For every packet type there *)
(* are the accessors (view), the setters of its builder (set), the checks  *)
(* and lengths of build(), the bytes it is sent as, and parse().  The four *)
(* are separate code, and nothing but agreement between them makes a       *)
(* packet arrive as it was built.                                          *)
(***************************************************************************)
EXTENDS Encoding, ReasonCodes

\* 00 04 'M' 'Q' 'T' 'T'
protocol_name == <<0, 4, 77, 81, 84, 84>>

bit(flags, mask) == (flags & mask) # 0

-----------------------------------------------------------------------------
(***************************************************************************)
(* CONNECT                                                                 *)
(***************************************************************************)
will_qos(qos) == IF qos > 2 THEN 0 ELSE qos

connect_view(p) ==
  LET all == [client_id |-> p.client_id, keep_alive |-> p.keep_alive,
              clean_session |-> bit(p.flags, 2),
              will |-> [topic |-> p.will_topic, payload |-> p.will_payload,
                        qos |-> will_qos((p.flags & 24) \div 8), retain |-> bit(p.flags, 32)],
              user_name |-> p.user_name, password |-> p.password]
  IN  Restrict(all, {"client_id", "keep_alive", "clean_session"}
                      \cup (IF bit(p.flags, 4) THEN {"will"} ELSE {})
                      \cup (IF bit(p.flags, 128) THEN {"user_name"} ELSE {})
                      \cup (IF bit(p.flags, 64) THEN {"password"} ELSE {}))

\* A setter that ORs bits into connect_flags_buf; the flags start as clean session.
flagged(b, bits) == With(b, "flags", Get(b, "flags", 2) | bits)

\* The setter of the will: what an earlier call left in the flags stays there.
will_message(b, will) ==
  IF ~string_new(will.topic).ok \/ ~binary_new(will.payload).ok THEN Err("MalformedPacket")
  ELSE Ok(With(With(flagged(b, 4 | (8 * will.qos) | (IF will.retain THEN 32 ELSE 0)),
                    "will_topic", will.topic), "will_payload", will.payload), 0)

\* Mutant: clean_session is only ever set.
connect_set_Or(b, name, v) ==
  CASE name = "client_id"     -> SetTo(b, name, string_new(v))
    [] name = "clean_session" -> Set(b, "flags", set_flag(Get(b, "flags", 0), 2, TRUE))
    [] name = "will"          -> will_message(b, v)
    [] name = "user_name"     -> SetTo(flagged(b, 128), name, string_new(v))
    [] name = "password"      -> SetTo(flagged(b, 64), name, binary_new(v))
    [] name = "keep_alive"    -> Set(b, name, v)

connect_set(b, name, v) ==
  CASE name = "client_id"     -> SetTo(b, name, string_new(v))
    [] name = "clean_session" -> Set(b, "flags", set_flag(Get(b, "flags", 0), 2, v))
    [] name = "will"          -> will_message(b, v)
    [] name = "user_name"     -> SetTo(flagged(b, 128), name, string_new(v))
    [] name = "password"      -> SetTo(flagged(b, 64), name, binary_new(v))
    [] name = "keep_alive"    -> Set(b, name, v)

connect_validate(b) ==
  LET flags == Get(b, "flags", 2)
  IN  IF bit(flags, 64) /\ ~bit(flags, 128) THEN "ProtocolError"
      ELSE IF bit(flags, 4) /\ ~(Has(b, "will_topic") /\ Has(b, "will_payload"))
      THEN "MalformedPacket" ELSE NoError

connect_build(b) ==
  LET p == [flags |-> Get(b, "flags", 2), keep_alive |-> Get(b, "keep_alive", 0),
            client_id |-> Get(b, "client_id", <<>>),
            will_topic |-> Get(b, "will_topic", <<>>),
            will_payload |-> Get(b, "will_payload", <<>>),
            user_name |-> Get(b, "user_name", <<>>), password |-> Get(b, "password", <<>>)]
      remaining ==
        6 + 1 + 1 + 2 + string_size(p.client_id)
          + (IF bit(p.flags, 4) THEN string_size(p.will_topic) + binary_size(p.will_payload) ELSE 0)
          + (IF bit(p.flags, 128) THEN string_size(p.user_name) ELSE 0)
          + (IF bit(p.flags, 64) THEN binary_size(p.password) ELSE 0)
  IN  IF connect_validate(b) # NoError THEN Err(connect_validate(b)) ELSE Sized(p, remaining)

connect_bytes(p) ==
  Framed(16, p,
    protocol_name \o <<4, p.flags>> \o to_be_bytes(p.keep_alive, 2) \o string_bytes(p.client_id)
      \o (IF bit(p.flags, 4) THEN string_bytes(p.will_topic) \o binary_bytes(p.will_payload)
          ELSE <<>>)
      \o (IF bit(p.flags, 128) THEN string_bytes(p.user_name) ELSE <<>>)
      \o (IF bit(p.flags, 64) THEN binary_bytes(p.password) ELSE <<>>))

\* The protocol name, the version and the connect flags.
connect_head(data, version) ==
  LET name == Take(Cursor(data), "name", IF Len(data) < 6 THEN Err("MalformedPacket")
                                         ELSE Ok(SubSeq(data, 1, 6), 6))
      mqtt == Require(name, LAMBDA got : got.name = protocol_name, "ProtocolError")
      v    == Require(ReadU8(mqtt, "version"), LAMBDA got : got.version = version,
                      "UnsupportedProtocolVersion")
  IN  ReadU8(v, "flags")

\* The defaults of the fields whose flag is not set.
NoCredentials == [will_topic |-> <<>>, will_payload |-> <<>>,
                  user_name |-> <<>>, password |-> <<>>]

read_credentials(c) ==
  LET string(rest) == MapErr(string_decode(rest), "BadUserNameOrPassword")
      binary(rest) == MapErr(binary_decode(rest), "BadUserNameOrPassword")
      name == ReadIf(c, LAMBDA d : bit(d.got.flags, 128), LAMBDA d : Read(d, "user_name", string))
      pass == ReadIf(name, LAMBDA d : bit(d.got.flags, 64), LAMBDA d : Read(d, "password", binary))
  IN  Require(pass, LAMBDA got : bit(got.flags, 64) => bit(got.flags, 128), "ProtocolError")

client_id_decode(data) == MapErr(string_decode(data), "ClientIdentifierNotValid")

\* The packet, with defaults where nothing was read.
connect_packet(c, unset) ==
  [f \in (DOMAIN c.got \cup DOMAIN unset \cup {"remaining_length"}) \ {"name", "version"} |->
     IF f = "remaining_length" THEN c.used
     ELSE IF Has(c.got, f) THEN c.got[f] ELSE unset[f]]

connect_parse(data) ==
  LET keep == ReadU16(connect_head(data, 4), "keep_alive")
      id   == Read(keep, "client_id", client_id_decode)
      will == ReadIf(id, LAMBDA c : bit(c.got.flags, 4),
                     LAMBDA c : ReadBinary(ReadString(c, "will_topic"), "will_payload"))
  IN  Parsed(read_credentials(will), LAMBDA end : connect_packet(end, NoCredentials))

-----------------------------------------------------------------------------
(***************************************************************************)
(* CONNACK                                                                 *)
(***************************************************************************)
connack_view(p) == [session_present |-> bit(p.flags, 1), return_code |-> p.return_code]

connack_set(b, name, v) ==
  IF name = "session_present" THEN Set(b, "flags", IF v THEN 1 ELSE 0) ELSE Set(b, name, v)

connack_build(b) ==
  IF ~Has(b, "flags") \/ ~Has(b, "return_code") THEN Err("MalformedPacket") ELSE Sized(b, 2)

connack_bytes(p) == Framed(32, p, <<p.flags, p.return_code>>)

\* parse() hands what it read to the builder, which keeps one bit of the flags.
connack_parse(data) ==
  Parsed(ReadCode(ReadU8(Cursor(data), "flags"), "return_code", ConnectReturnCode),
         LAMBDA end : [flags |-> end.got.flags & 1, return_code |-> end.got.return_code,
                       remaining_length |-> 2])

-----------------------------------------------------------------------------
(***************************************************************************)
(* PUBLISH.  The fixed header holds DUP (8), QoS (6) and RETAIN (1).       *)
(***************************************************************************)
header_qos(header) == (header & 6) \div 2
header_with_qos(header, qos) == (header - (header & 6)) | (2 * qos)

\* qos() is unreachable!() on 3.
publish_view(p) ==
  LET all == [topic_name |-> p.topic_name, payload |-> p.payload,
              qos |-> header_qos(p.header), dup |-> bit(p.header, 8),
              retain |-> bit(p.header, 1)]
  IN  IF Has(p, "packet_id") THEN With(all, "packet_id", p.packet_id) ELSE all

set_dup(p, dup) == [p EXCEPT !.header = set_flag(@, 8, dup)]

publish_set(b, name, v) ==
  CASE name = "topic_name" ->
         IF ~string_new(v).ok \/ Contains(v, Hash) \/ Contains(v, Plus)
         THEN Err("MalformedPacket") ELSE Set(b, name, v)
    [] name = "qos"    -> Set(b, "header", header_with_qos(Get(b, "header", 48), v))
    [] name = "dup"    -> Set(b, "header", set_flag(Get(b, "header", 48), 8, v))
    [] name = "retain" -> Set(b, "header", set_flag(Get(b, "header", 48), 1, v))
    [] OTHER           -> Set(b, name, v)

publish_validate(b) ==
  LET qos == header_qos(Get(b, "header", 48))
      pid == Get(b, "packet_id", 0)
  IN  IF \/ Len(Get(b, "topic_name", <<>>)) = 0
         \/ qos > 2
         \/ IF qos = 0 THEN Has(b, "packet_id") ELSE pid = 0
         \/ Len(Get(b, "payload", <<>>)) > MAX
      THEN "MalformedPacket" ELSE NoError

publish_build(b) ==
  LET p == With(With(b, "header", Get(b, "header", 48)), "payload", Get(b, "payload", <<>>))
      remaining == string_size(p.topic_name) + Len(p.payload)
                     + (IF header_qos(p.header) # 0 /\ Has(p, "packet_id") THEN PidSize ELSE 0)
  IN  IF publish_validate(b) # NoError THEN Err(publish_validate(b)) ELSE Sized(p, remaining)

publish_bytes(p) ==
  Framed(p.header, p,
    string_bytes(p.topic_name)
      \o (IF Has(p, "packet_id") THEN pid_to_buffer(p.packet_id) ELSE <<>>) \o p.payload)

\* The payload is the rest of the data.
publish_parse(flags, data) ==
  LET start == Require(Cursor(data), LAMBDA got : header_qos(flags) # 3, "MalformedPacket")
      topic == ReadString(start, "topic_name")
      id    == ReadIf(topic, LAMBDA c : header_qos(flags) # 0, LAMBDA c : ReadPid(c, "packet_id"))
      length(p) == string_size(p.topic_name) + Len(p.payload)
                     + (IF Has(p, "packet_id") THEN PidSize ELSE 0)
  IN  Parsed(ReadRest(id, "payload"),
             LAMBDA end : With(With(end.got, "header", 48 | (flags & 15)),
                               "remaining_length", length(end.got)))

-----------------------------------------------------------------------------
(***************************************************************************)
(* PUBACK, PUBREC, PUBREL and PUBCOMP are the same but for the reason      *)
(* codes, which v3.1.1 does not have and the library allows.               *)
(***************************************************************************)
OptionalCode(p) == IF Has(p, "reason_code") THEN <<p.reason_code>> ELSE <<>>

zero_or_no_id(b) == Get(b, "packet_id", 0) = 0

ack_build(b) ==
  IF zero_or_no_id(b) THEN Err("MalformedPacket") ELSE Sized(b, PidSize + Len(OptionalCode(b)))
ack_bytes(header, p) == Framed(header, p, pid_to_buffer(p.packet_id) \o OptionalCode(p))

\* The packet id at the start, which is not zero.
read_id(data) == Require(ReadPid(Cursor(data), "packet_id"),
                         LAMBDA got : got.packet_id # 0, "MalformedPacket")
More(c) == c.rest # <<>>

ack_parse(data, Codes) ==
  Parsed(ReadIf(read_id(data), More, LAMBDA c : ReadCode(c, "reason_code", Codes)),
         LAMBDA end : With(end.got, "remaining_length", PidSize + Len(OptionalCode(end.got))))

puback_view(p)         == Fields(p)
puback_set(b, name, v) == Set(b, name, v)
puback_build(b)        == ack_build(b)
puback_bytes(p)        == ack_bytes(64, p)
puback_parse(data)     == ack_parse(data, PubackReasonCode)

pubrec_view(p)         == Fields(p)
pubrec_set(b, name, v) == Set(b, name, v)
pubrec_build(b)        == ack_build(b)
pubrec_bytes(p)        == ack_bytes(80, p)
pubrec_parse(data)     == ack_parse(data, PubrecReasonCode)

pubrel_view(p)         == Fields(p)
pubrel_set(b, name, v) == Set(b, name, v)
pubrel_build(b)        == ack_build(b)
pubrel_bytes(p)        == ack_bytes(98, p)
pubrel_parse(data)     == ack_parse(data, PubrelReasonCode)

pubcomp_view(p)         == Fields(p)
pubcomp_set(b, name, v) == Set(b, name, v)
pubcomp_build(b)        == ack_build(b)
pubcomp_bytes(p)        == ack_bytes(112, p)
pubcomp_parse(data)     == ack_parse(data, PubcompReasonCode)
-----------------------------------------------------------------------------
(***************************************************************************)
(* SUBSCRIBE, SUBACK, UNSUBSCRIBE and UNSUBACK.                            *)
(***************************************************************************)
\* The entries of a list after the packet id, at least one of them.
list_build(b, name, Size(_)) ==
  IF zero_or_no_id(b) THEN Err("MalformedPacket")
  ELSE IF Get(b, name, <<>>) = <<>> THEN Err("ProtocolError")
  ELSE Sized(b, PidSize + Sum(Size, b[name]))

list_parse(data, name, Decode(_), Size(_)) ==
  LET all == Read(ReadPid(Cursor(data), "packet_id"), name,
                  LAMBDA rest : decode_all(Decode, rest))
  IN  Parsed(Require(all, LAMBDA got : got[name] # <<>>, "ProtocolError"),
             LAMBDA end : With(end.got, "remaining_length", PidSize + Sum(Size, end.got[name])))

one(item) == 1

subscribe_view(p) ==
  [packet_id |-> p.packet_id,
   entries |-> [i \in DOMAIN p.entries |->
                  [topic_filter |-> p.entries[i].topic_filter,
                   opts |-> SubOpts_view(p.entries[i].opts)]]]
\* The entries are made by SubEntry::new before they are set.
subscribe_set(b, name, v) ==
  IF name # "entries" THEN Set(b, name, v)
  ELSE IF \E i \in DOMAIN v : ~entry_new(v[i]).ok THEN Err("MalformedPacket")
  ELSE Set(b, name, [i \in DOMAIN v |-> entry_new(v[i]).val])
subscribe_build(b)    == list_build(b, "entries", entry_size)
subscribe_bytes(p)    ==
  Framed(130, p, pid_to_buffer(p.packet_id) \o Joined(entry_bytes, p.entries))
subscribe_parse(data) == list_parse(data, "entries", entry_parse, entry_size)

suback_view(p) == [packet_id |-> p.packet_id,
                   return_codes |-> [i \in DOMAIN p.return_codes |->
                     IF p.return_codes[i] \in SubackReturnCode THEN p.return_codes[i] ELSE 128]]
suback_set(b, name, v) == Set(b, name, v)
suback_build(b)    == list_build(b, "return_codes", one)
suback_bytes(p)    == Framed(144, p, pid_to_buffer(p.packet_id) \o p.return_codes)
suback_parse(data) ==
  list_parse(data, "return_codes", LAMBDA rest : code(rest, SubackReturnCode), one)

unsubscribe_view(p) == Fields(p)
unsubscribe_set(b, name, v) ==
  IF name = "entries" /\ \E i \in DOMAIN v : ~string_new(v[i]).ok THEN Err("MalformedPacket")
  ELSE Set(b, name, v)
unsubscribe_build(b)    == list_build(b, "entries", string_size)
unsubscribe_bytes(p)    ==
  Framed(162, p, pid_to_buffer(p.packet_id) \o Joined(string_bytes, p.entries))
unsubscribe_parse(data) == list_parse(data, "entries", string_decode, string_size)

unsuback_view(p)         == Fields(p)
unsuback_set(b, name, v) == Set(b, name, v)
\* The remaining length is 2 whatever the size of PacketIdType is.
unsuback_build(b)    == IF zero_or_no_id(b) THEN Err("MalformedPacket") ELSE Sized(b, 2)
unsuback_bytes(p)    == Framed(176, p, pid_to_buffer(p.packet_id))
unsuback_parse(data) ==
  Parsed(ReadPid(Cursor(data), "packet_id"),
         LAMBDA end : With(end.got, "remaining_length", PidSize))

-----------------------------------------------------------------------------
(***************************************************************************)
(* PINGREQ, PINGRESP and DISCONNECT have no content: parse() ignores the   *)
(* data it is given.                                                       *)
(***************************************************************************)
empty_parse == Ok([remaining_length |-> 0], 0)

pingreq_build(b)     == Sized(b, 0)
pingreq_bytes(p)     == Framed(192, p, <<>>)
pingreq_parse(data)  == empty_parse
pingresp_build(b)    == Sized(b, 0)
pingresp_bytes(p)    == Framed(208, p, <<>>)
pingresp_parse(data) == empty_parse
disconnect_build(b)    == Sized(b, 0)
disconnect_bytes(p)    == Framed(224, p, <<>>)
disconnect_parse(data) == empty_parse

-----------------------------------------------------------------------------
(***************************************************************************)
(* The type of a packet is the high half of its first byte.                *)
(***************************************************************************)
Kinds == {"connect", "connack", "publish", "puback", "pubrec", "pubrel", "pubcomp", "subscribe",
          "suback", "unsubscribe", "unsuback", "pingreq", "pingresp", "disconnect"}

view(kind, p) ==
  CASE kind = "connect"   -> connect_view(p)   [] kind = "connack"     -> connack_view(p)
    [] kind = "publish"   -> publish_view(p)   [] kind = "puback"      -> puback_view(p)
    [] kind = "pubrec"    -> pubrec_view(p)    [] kind = "pubrel"      -> pubrel_view(p)
    [] kind = "pubcomp"   -> pubcomp_view(p)   [] kind = "subscribe"   -> subscribe_view(p)
    [] kind = "suback"    -> suback_view(p)    [] kind = "unsubscribe" -> unsubscribe_view(p)
    [] kind = "unsuback"  -> unsuback_view(p)  [] OTHER                -> NoFields

set(kind, b, name, v) ==
  CASE kind = "connect"   -> connect_set(b, name, v)  [] kind = "connack" -> connack_set(b, name, v)
    [] kind = "publish"   -> publish_set(b, name, v)  [] kind = "puback"  -> puback_set(b, name, v)
    [] kind = "pubrec"    -> pubrec_set(b, name, v)   [] kind = "pubrel"  -> pubrel_set(b, name, v)
    [] kind = "pubcomp"   -> pubcomp_set(b, name, v)  [] kind = "suback"  -> suback_set(b, name, v)
    [] kind = "subscribe"   -> subscribe_set(b, name, v)
    [] kind = "unsubscribe" -> unsubscribe_set(b, name, v)
    [] kind = "unsuback"    -> unsuback_set(b, name, v)

build(kind, b) ==
  CASE kind = "connect"   -> connect_build(b)    [] kind = "connack"     -> connack_build(b)
    [] kind = "publish"   -> publish_build(b)    [] kind = "puback"      -> puback_build(b)
    [] kind = "pubrec"    -> pubrec_build(b)     [] kind = "pubrel"      -> pubrel_build(b)
    [] kind = "pubcomp"   -> pubcomp_build(b)    [] kind = "subscribe"   -> subscribe_build(b)
    [] kind = "suback"    -> suback_build(b)     [] kind = "unsubscribe" -> unsubscribe_build(b)
    [] kind = "unsuback"  -> unsuback_build(b)   [] kind = "pingreq"     -> pingreq_build(b)
    [] kind = "pingresp"  -> pingresp_build(b)   [] kind = "disconnect"  -> disconnect_build(b)

bytes(kind, p) ==
  CASE kind = "connect"   -> connect_bytes(p)    [] kind = "connack"     -> connack_bytes(p)
    [] kind = "publish"   -> publish_bytes(p)    [] kind = "puback"      -> puback_bytes(p)
    [] kind = "pubrec"    -> pubrec_bytes(p)     [] kind = "pubrel"      -> pubrel_bytes(p)
    [] kind = "pubcomp"   -> pubcomp_bytes(p)    [] kind = "subscribe"   -> subscribe_bytes(p)
    [] kind = "suback"    -> suback_bytes(p)     [] kind = "unsubscribe" -> unsubscribe_bytes(p)
    [] kind = "unsuback"  -> unsuback_bytes(p)   [] kind = "pingreq"     -> pingreq_bytes(p)
    [] kind = "pingresp"  -> pingresp_bytes(p)   [] kind = "disconnect"  -> disconnect_bytes(p)

\* The match on the type in process_recv_packet, for v3.1.1.
parse(header, data) ==
  LET type == header \div 16
  IN  CASE type = 1  -> connect_parse(data)     [] type = 2  -> connack_parse(data)
        [] type = 3  -> publish_parse(header % 16, data)
        [] type = 4  -> puback_parse(data)      [] type = 5  -> pubrec_parse(data)
        [] type = 6  -> pubrel_parse(data)      [] type = 7  -> pubcomp_parse(data)
        [] type = 8  -> subscribe_parse(data)   [] type = 9  -> suback_parse(data)
        [] type = 10 -> unsubscribe_parse(data) [] type = 11 -> unsuback_parse(data)
        [] type = 12 -> pingreq_parse(data)     [] type = 13 -> pingresp_parse(data)
        [] type = 14 -> disconnect_parse(data)  [] OTHER     -> Err("MalformedPacket")
=============================================================================
