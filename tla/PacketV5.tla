------------------------------ MODULE PacketV5 ------------------------------
(***************************************************************************)
(* packet/v5_0: the packets of MQTT v5.0, written as those of v3.1.1 are,  *)
(* and with properties.  A packet whose properties are optional on the     *)
(* wire has no "props" when they are absent.                               *)
(***************************************************************************)
EXTENDS Property, ReasonCodes

V3 == INSTANCE PacketV3

bit(flags, mask) == (flags & mask) # 0
PropsOf(fields)  == Get(fields, "props", <<>>)

\* The setter props(..), and the other setters of the types that check nothing.
plain_set(b, name, v) ==
  IF name = "props" THEN SetTo(b, name, properties_new(v)) ELSE Set(b, name, v)

-----------------------------------------------------------------------------
(***************************************************************************)
(* CONNECT                                                                 *)
(***************************************************************************)
validate_connect_properties(props) ==
  properties_allowed(props, {17, 33, 39, 34, 25, 23, 21, 22}, {38})
validate_will_properties(props) == properties_allowed(props, {24, 1, 2, 3, 8, 9}, {38})

connect_view(p) ==
  LET all == V3!connect_view(p)
  IN  [f \in (DOMAIN all \ {"clean_session"}) \cup {"clean_start", "props", "will_props"} |->
         CASE f = "clean_start" -> all.clean_session
           [] f \in {"props", "will_props"} -> p[f]
           [] OTHER -> all[f]]

connect_set(b, name, v) ==
  CASE name = "clean_start"              -> V3!connect_set(b, "clean_session", v)
    [] name \in {"props", "will_props"}  -> SetTo(b, name, properties_new(v))
    [] OTHER                             -> V3!connect_set(b, name, v)

connect_validate(b) ==
  IF V3!connect_validate(b) # NoError THEN V3!connect_validate(b)
  ELSE IF \/ ~validate_connect_properties(PropsOf(b))
          \/ ~validate_will_properties(Get(b, "will_props", <<>>))
  THEN "ProtocolError" ELSE NoError

connect_build(b) ==
  LET p == [flags |-> Get(b, "flags", 2), keep_alive |-> Get(b, "keep_alive", 0),
            client_id |-> Get(b, "client_id", <<>>), props |-> PropsOf(b),
            will_props |-> Get(b, "will_props", <<>>),
            will_topic |-> Get(b, "will_topic", <<>>),
            will_payload |-> Get(b, "will_payload", <<>>),
            user_name |-> Get(b, "user_name", <<>>), password |-> Get(b, "password", <<>>)]
      remaining ==
        6 + 1 + 1 + 2 + section_size(p.props) + string_size(p.client_id)
          + (IF bit(p.flags, 4) THEN section_size(p.will_props) + string_size(p.will_topic)
                                     + binary_size(p.will_payload) ELSE 0)
          + (IF bit(p.flags, 128) THEN string_size(p.user_name) ELSE 0)
          + (IF bit(p.flags, 64) THEN binary_size(p.password) ELSE 0)
  IN  IF connect_validate(b) # NoError THEN Err(connect_validate(b)) ELSE Sized(p, remaining)

connect_bytes(p) ==
  Framed(16, p,
    V3!protocol_name \o <<5, p.flags>> \o to_be_bytes(p.keep_alive, 2)
      \o properties_section(p.props) \o string_bytes(p.client_id)
      \o (IF bit(p.flags, 4) THEN properties_section(p.will_props) \o string_bytes(p.will_topic)
                                  \o binary_bytes(p.will_payload) ELSE <<>>)
      \o (IF bit(p.flags, 128) THEN string_bytes(p.user_name) ELSE <<>>)
      \o (IF bit(p.flags, 64) THEN binary_bytes(p.password) ELSE <<>>))

read_will(c) ==
  LET props == Require(ReadProperties(c, "will_props"),
                       LAMBDA got : validate_will_properties(got.will_props), "ProtocolError")
  IN  ReadBinary(ReadString(props, "will_topic"), "will_payload")

connect_parse(data) ==
  LET keep  == ReadU16(V3!connect_head(data, 5), "keep_alive")
      props == Require(ReadProperties(keep, "props"),
                       LAMBDA got : validate_connect_properties(got.props), "ProtocolError")
      id    == Read(props, "client_id", V3!client_id_decode)
      will  == ReadIf(id, LAMBDA c : bit(c.got.flags, 4), read_will)
  IN  Parsed(V3!read_credentials(will),
             LAMBDA end : V3!connect_packet(end, With(V3!NoCredentials, "will_props", <<>>)))

-----------------------------------------------------------------------------
(***************************************************************************)
(* CONNACK                                                                 *)
(***************************************************************************)
validate_connack_properties(props) ==
  properties_allowed(props, {17, 33, 36, 37, 39, 18, 34, 31, 40, 41, 42, 19, 26, 28, 21, 22}, {38})

\* reason_code() unwraps the code.
connack_view(p) == [session_present |-> bit(p.flags, 1), reason_code |-> p.reason_code,
                    props |-> p.props]
connack_set(b, name, v) ==
  IF name = "session_present" THEN Set(b, "flags", IF v THEN 1 ELSE 0) ELSE plain_set(b, name, v)

connack_validate(b) ==
  IF ~Has(b, "flags") \/ ~Has(b, "reason_code") THEN "MalformedPacket"
  ELSE IF ~validate_connack_properties(PropsOf(b)) THEN "ProtocolError" ELSE NoError

connack_build(b) ==
  IF connack_validate(b) # NoError THEN Err(connack_validate(b))
  ELSE Sized(With(b, "props", PropsOf(b)), 1 + 1 + section_size(PropsOf(b)))

connack_bytes(p) == Framed(32, p, <<p.flags, p.reason_code>> \o properties_section(p.props))

connack_read(data) ==
  LET start == Require(Cursor(data), LAMBDA got : Len(data) >= 3, "MalformedPacket")
      reason == ReadCode(ReadU8(start, "flags"), "reason_code", ConnectReasonCode)
  IN  Require(ReadProperties(reason, "props"),
              LAMBDA got : validate_connack_properties(got.props), "ProtocolError")


connack_parse(data) ==
  Parsed(connack_read(data), LAMBDA end : With(end.got, "remaining_length", end.used))

-----------------------------------------------------------------------------
(***************************************************************************)
(* PUBLISH                                                                 *)
(***************************************************************************)
validate_publish_properties(props) == properties_allowed(props, {1, 2, 35, 8, 9, 3}, {11, 38})
has_topic_alias(props) == \E i \in DOMAIN props : property_id(props[i]) = "TopicAlias"

publish_view(p) == With(V3!publish_view(p), "props", p.props)
publish_set(b, name, v) ==
  IF name = "props" THEN SetTo(b, name, properties_new(v)) ELSE V3!publish_set(b, name, v)

publish_validate(b) ==
  LET qos == V3!header_qos(Get(b, "header", 48))
  IN  IF ~validate_publish_properties(PropsOf(b)) THEN "ProtocolError"
      ELSE IF \/ Get(b, "topic_name", <<>>) = <<>> /\ ~has_topic_alias(PropsOf(b))
              \/ qos > 2
              \/ IF qos = 0 THEN Has(b, "packet_id") ELSE Get(b, "packet_id", 0) = 0
              \/ Len(Get(b, "payload", <<>>)) > MAX
      THEN "MalformedPacket" ELSE NoError

\* recalculate_lengths, which build() does too.
recalculate_lengths(p) ==
  Sized(p, string_size(p.topic_name) + section_size(p.props) + Len(p.payload)
             + (IF V3!header_qos(p.header) # 0 /\ Has(p, "packet_id") THEN PidSize ELSE 0))

publish_build(b) ==
  IF publish_validate(b) # NoError THEN Err(publish_validate(b))
  ELSE recalculate_lengths([f \in DOMAIN b \cup {"header", "topic_name", "props", "payload"} |->
                              IF f = "header" THEN Get(b, f, 48) ELSE Get(b, f, <<>>)])

publish_bytes(p) ==
  Framed(p.header, p,
    string_bytes(p.topic_name)
      \o (IF Has(p, "packet_id") THEN pid_to_buffer(p.packet_id) ELSE <<>>)
      \o properties_section(p.props) \o p.payload)

\* A PUBLISH that ends after its packet id has no properties.
publish_properties(data) == IF data = <<>> THEN Ok(<<>>, 0) ELSE properties_parse(data)
publish_parse(flags, data) ==
  LET qos   == V3!header_qos(flags)
      start == Require(Cursor(data), LAMBDA got : qos # 3, "MalformedPacket")
      topic == ReadString(start, "topic_name")
      id    == ReadIf(topic, LAMBDA c : qos # 0, LAMBDA c : ReadPid(c, "packet_id"))
      props == Require(Read(id, "props", publish_properties),
                       LAMBDA got : validate_publish_properties(got.props), "ProtocolError")
  IN  Parsed(ReadRest(props, "payload"),
             LAMBDA end : recalculate_lengths(With(end.got, "header", 48 | (flags & 15))).val)

-----------------------------------------------------------------------------
(***************************************************************************)
(* The changes a connection makes to a PUBLISH that is built or received.  *)
(***************************************************************************)
drop_alias(props) == SelectSeq(props, LAMBDA prop : property_id(prop) # "TopicAlias")

\* Both functions that fill in a topic.
topic_for_empty(p, topic) ==
  IF p.topic_name # <<>> THEN Err("TopicNameInvalid")
  ELSE IF Contains(topic, Hash) \/ Contains(topic, Plus) THEN Err("MalformedPacket")
  ELSE string_new(topic)

\* The packet goes back to the topic name: as it is kept for a new connection.
remove_topic_alias_add_topic(p, topic) ==
  IF ~topic_for_empty(p, topic).ok THEN topic_for_empty(p, topic)
  ELSE recalculate_lengths([p EXCEPT !.topic_name = topic, !.props = drop_alias(@)])

\* Mutant: the lengths are those of the properties with the alias.
remove_topic_alias_Stale(p) == Ok([p EXCEPT !.props = drop_alias(@)], 0)

remove_topic_alias(p) == recalculate_lengths([p EXCEPT !.props = drop_alias(@)])

\* The topic the alias of a received packet stands for; the alias stays.
add_extracted_topic_name(p, topic) ==
  IF ~topic_for_empty(p, topic).ok THEN topic_for_empty(p, topic)
  ELSE recalculate_lengths([p EXCEPT !.topic_name = topic])

\* Mutant: the alias takes the place of all properties.
remove_topic_add_topic_alias_Reset(p, alias) ==
  recalculate_lengths([p EXCEPT !.topic_name = <<>>, !.props = <<Prop("TopicAlias", alias)>>])

\* The topic is replaced by an alias; TopicAlias::new(0).unwrap() panics.
remove_topic_add_topic_alias(p, alias) ==
  IF ~u16_new("TopicAlias", alias).ok THEN Err("panic")
  ELSE recalculate_lengths([p EXCEPT !.topic_name = <<>>,
                                     !.props = Append(drop_alias(@), Prop("TopicAlias", alias))])

set_dup(p, dup) == V3!set_dup(p, dup)

-----------------------------------------------------------------------------
(***************************************************************************)
(* PUBACK, PUBREC, PUBREL, PUBCOMP, DISCONNECT and AUTH: a reason code and *)
(* properties that may both be absent, the second only with the first, or  *)
(* the first and the second together.                                      *)
(***************************************************************************)
ack_properties(props) == properties_allowed(props, {31}, {38})

optional_size(p) == (IF Has(p, "reason_code") THEN 1 ELSE 0)
                      + (IF Has(p, "props") THEN section_size(p.props) ELSE 0)
optional_bytes(p) == V3!OptionalCode(p)
                       \o (IF Has(p, "props") THEN properties_section(p.props) ELSE <<>>)

\* The end of parse(): from the position of the reason code on.
read_optional(c, Codes, Valid(_)) ==
  LET reason == ReadIf(c, V3!More, LAMBDA d : ReadCode(d, "reason_code", Codes))
  IN  ReadIf(reason, V3!More, LAMBDA d : Require(ReadProperties(d, "props"),
                                                 LAMBDA got : Valid(got.props), "ProtocolError"))
optional_packet(c, before) == With(c.got, "remaining_length", before + optional_size(c.got))

ack_validate(b) ==
  IF V3!zero_or_no_id(b) \/ (Has(b, "props") /\ ~Has(b, "reason_code")) THEN "MalformedPacket"
  ELSE IF ~ack_properties(PropsOf(b)) THEN "ProtocolError" ELSE NoError
ack_build(b) ==
  IF ack_validate(b) # NoError THEN Err(ack_validate(b)) ELSE Sized(b, PidSize + optional_size(b))
ack_bytes(header, p) == Framed(header, p, pid_to_buffer(p.packet_id) \o optional_bytes(p))
ack_parse(data, Codes) ==
  Parsed(read_optional(V3!read_id(data), Codes, ack_properties),
         LAMBDA end : optional_packet(end, PidSize))

puback_view(p)         == Fields(p)
puback_set(b, name, v) == plain_set(b, name, v)
puback_build(b)        == ack_build(b)
puback_bytes(p)        == ack_bytes(64, p)
puback_parse(data)     == ack_parse(data, PubackReasonCode)

pubrec_view(p)         == Fields(p)
pubrec_set(b, name, v) == plain_set(b, name, v)
pubrec_build(b)        == ack_build(b)
pubrec_bytes(p)        == ack_bytes(80, p)
pubrec_parse(data)     == ack_parse(data, PubrecReasonCode)

pubrel_view(p)         == Fields(p)
pubrel_set(b, name, v) == plain_set(b, name, v)
pubrel_build(b)        == ack_build(b)
pubrel_bytes(p)        == ack_bytes(98, p)
pubrel_parse(data)     == ack_parse(data, PubrelReasonCode)

pubcomp_view(p)         == Fields(p)
pubcomp_set(b, name, v) == plain_set(b, name, v)
pubcomp_build(b)        == ack_build(b)
pubcomp_bytes(p)        == ack_bytes(112, p)
pubcomp_parse(data)     == ack_parse(data, PubcompReasonCode)

validate_disconnect_properties(props) == properties_allowed(props, {17, 31, 28}, {38})

disconnect_view(p)         == Fields(p)
disconnect_set(b, name, v) == plain_set(b, name, v)
disconnect_build(b) ==
  IF Has(b, "props") /\ ~Has(b, "reason_code") THEN Err("MalformedPacket")
  ELSE IF ~validate_disconnect_properties(PropsOf(b)) THEN Err("ProtocolError")
  ELSE Sized(b, optional_size(b))
disconnect_bytes(p) == Framed(224, p, optional_bytes(p))
disconnect_parse(data) ==
  Parsed(read_optional(Cursor(data), DisconnectReasonCode, validate_disconnect_properties),
         LAMBDA end : optional_packet(end, 0))

\* A code other than Success, and authentication data, need a method.
validate_auth_packet(p) ==
  LET ids == {property_id(PropsOf(p)[i]) : i \in DOMAIN PropsOf(p)}
  IN  /\ properties_allowed(PropsOf(p), {21, 22, 31}, {38})
      /\ "AuthenticationData" \in ids \/ Get(p, "reason_code", 0) # 0
           => "AuthenticationMethod" \in ids

auth_view(p) == Fields(p)
\* Setting the reason code also sets empty properties, if there are none.
auth_set(b, name, v) ==
  IF name = "reason_code" THEN Set(With(b, "props", PropsOf(b)), name, v)
  ELSE plain_set(b, name, v)
auth_build(b) ==
  IF Has(b, "props") /\ ~Has(b, "reason_code") THEN Err("MalformedPacket")
  ELSE IF ~validate_auth_packet(b) THEN Err("ProtocolError")
  ELSE Sized(b, optional_size(b))
auth_bytes(p) == Framed(240, p, optional_bytes(p))
auth_parse(data) ==
  LET got == read_optional(Cursor(data), AuthReasonCode, LAMBDA props : TRUE)
  IN  Parsed(Require(got, validate_auth_packet, "ProtocolError"),
             LAMBDA end : optional_packet(end, 0))

-----------------------------------------------------------------------------
(***************************************************************************)
(* SUBSCRIBE, SUBACK, UNSUBSCRIBE and UNSUBACK: a packet id, properties    *)
(* and a list that is not empty.  parse() keeps the length the properties  *)
(* were received with.                                                     *)
(***************************************************************************)
list_build(b, name, Size(_), Valid(_)) ==
  IF V3!zero_or_no_id(b) THEN Err("MalformedPacket")
  ELSE IF Get(b, name, <<>>) = <<>> \/ ~Valid(PropsOf(b)) THEN Err("ProtocolError")
  ELSE Sized(With(b, "props", PropsOf(b)),
             PidSize + section_size(PropsOf(b)) + Sum(Size, b[name]))

list_bytes(header, p, items) ==
  Framed(header, p, pid_to_buffer(p.packet_id) \o properties_section(p.props) \o items)

\* The items behind the properties, which end at c.
items_parse(c, name, Decode(_), Size(_)) ==
  LET all == Read(c, name, LAMBDA rest : decode_all(Decode, rest))
  IN  Parsed(Require(all, LAMBDA got : got[name] # <<>>, "ProtocolError"),
             LAMBDA end : With(end.got, "remaining_length", c.used + Sum(Size, end.got[name])))

list_parse(data, name, Decode(_), Size(_), Valid(_)) ==
  items_parse(Require(ReadProperties(ReadPid(Cursor(data), "packet_id"), "props"),
                      LAMBDA got : Valid(got.props), "ProtocolError"),
              name, Decode, Size)

validate_subscribe_properties(props)   == properties_allowed(props, {}, {11, 38})
validate_suback_properties(props)      == properties_allowed(props, {31}, {38})
validate_unsubscribe_properties(props) == properties_allowed(props, {}, {38})
validate_unsuback_properties(props)    == properties_allowed(props, {31}, {38})

subscribe_view(p) == With(V3!subscribe_view(p), "props", p.props)
subscribe_set(b, name, v) ==
  IF name = "entries" THEN V3!subscribe_set(b, name, v) ELSE plain_set(b, name, v)
subscribe_build(b) == list_build(b, "entries", entry_size, validate_subscribe_properties)
subscribe_bytes(p) == list_bytes(130, p, Joined(entry_bytes, p.entries))
subscribe_parse(data) ==
  list_parse(data, "entries", entry_parse, entry_size, validate_subscribe_properties)

suback_view(p) == [Fields(p) EXCEPT !.reason_codes =
                     [i \in DOMAIN @ |-> IF @[i] \in SubackReasonCode THEN @[i] ELSE 128]]
suback_set(b, name, v) == plain_set(b, name, v)
suback_build(b) == list_build(b, "reason_codes", V3!one, validate_suback_properties)
suback_bytes(p) == list_bytes(144, p, p.reason_codes)
suback_parse(data) == list_parse(data, "reason_codes", LAMBDA rest : code(rest, SubackReasonCode),
                                 V3!one, validate_suback_properties)

unsubscribe_view(p) == Fields(p)
unsubscribe_set(b, name, v) ==
  IF name = "entries" THEN V3!unsubscribe_set(b, name, v) ELSE plain_set(b, name, v)
unsubscribe_build(b) == list_build(b, "entries", string_size, validate_unsubscribe_properties)
unsubscribe_bytes(p) == list_bytes(162, p, Joined(string_bytes, p.entries))
unsubscribe_parse(data) ==
  list_parse(data, "entries", string_decode, string_size, validate_unsubscribe_properties)

unsuback_view(p) == [Fields(p) EXCEPT !.reason_codes =
                       [i \in DOMAIN @ |-> IF @[i] \in UnsubackReasonCode THEN @[i] ELSE 128]]
unsuback_set(b, name, v) == plain_set(b, name, v)
unsuback_build(b) == list_build(b, "reason_codes", V3!one, validate_unsuback_properties)
unsuback_bytes(p) == list_bytes(176, p, p.reason_codes)
unsuback_parse(data) == list_parse(data, "reason_codes",
                                   LAMBDA rest : code(rest, UnsubackReasonCode),
                                   V3!one, validate_unsuback_properties)

pingreq_build(b)     == Sized(b, 0)
pingreq_bytes(p)     == Framed(192, p, <<>>)
pingreq_parse(data)  == V3!empty_parse
pingresp_build(b)    == Sized(b, 0)
pingresp_bytes(p)    == Framed(208, p, <<>>)
pingresp_parse(data) == V3!empty_parse

-----------------------------------------------------------------------------
(***************************************************************************)
(* The type of a packet is the high half of its first byte.                *)
(***************************************************************************)
Kinds == {"connect", "connack", "publish", "puback", "pubrec", "pubrel", "pubcomp", "subscribe",
          "suback", "unsubscribe", "unsuback", "pingreq", "pingresp", "disconnect", "auth"}

view(kind, p) ==
  CASE kind = "connect"   -> connect_view(p)   [] kind = "connack"     -> connack_view(p)
    [] kind = "publish"   -> publish_view(p)   [] kind = "puback"      -> puback_view(p)
    [] kind = "pubrec"    -> pubrec_view(p)    [] kind = "pubrel"      -> pubrel_view(p)
    [] kind = "pubcomp"   -> pubcomp_view(p)   [] kind = "subscribe"   -> subscribe_view(p)
    [] kind = "suback"    -> suback_view(p)    [] kind = "unsubscribe" -> unsubscribe_view(p)
    [] kind = "unsuback"  -> unsuback_view(p)  [] kind = "disconnect"  -> disconnect_view(p)
    [] kind = "auth"      -> auth_view(p)      [] OTHER                -> NoFields

set(kind, b, name, v) ==
  CASE kind = "connect"   -> connect_set(b, name, v)  [] kind = "connack" -> connack_set(b, name, v)
    [] kind = "publish"   -> publish_set(b, name, v)  [] kind = "puback"  -> puback_set(b, name, v)
    [] kind = "pubrec"    -> pubrec_set(b, name, v)   [] kind = "pubrel"  -> pubrel_set(b, name, v)
    [] kind = "pubcomp"   -> pubcomp_set(b, name, v)  [] kind = "suback"  -> suback_set(b, name, v)
    [] kind = "subscribe"   -> subscribe_set(b, name, v)
    [] kind = "unsubscribe" -> unsubscribe_set(b, name, v)
    [] kind = "unsuback"    -> unsuback_set(b, name, v)
    [] kind = "disconnect"  -> disconnect_set(b, name, v)
    [] kind = "auth"        -> auth_set(b, name, v)

build(kind, b) ==
  CASE kind = "connect"   -> connect_build(b)    [] kind = "connack"     -> connack_build(b)
    [] kind = "publish"   -> publish_build(b)    [] kind = "puback"      -> puback_build(b)
    [] kind = "pubrec"    -> pubrec_build(b)     [] kind = "pubrel"      -> pubrel_build(b)
    [] kind = "pubcomp"   -> pubcomp_build(b)    [] kind = "subscribe"   -> subscribe_build(b)
    [] kind = "suback"    -> suback_build(b)     [] kind = "unsubscribe" -> unsubscribe_build(b)
    [] kind = "unsuback"  -> unsuback_build(b)   [] kind = "pingreq"     -> pingreq_build(b)
    [] kind = "pingresp"  -> pingresp_build(b)   [] kind = "disconnect"  -> disconnect_build(b)
    [] kind = "auth"      -> auth_build(b)

bytes(kind, p) ==
  CASE kind = "connect"   -> connect_bytes(p)    [] kind = "connack"     -> connack_bytes(p)
    [] kind = "publish"   -> publish_bytes(p)    [] kind = "puback"      -> puback_bytes(p)
    [] kind = "pubrec"    -> pubrec_bytes(p)     [] kind = "pubrel"      -> pubrel_bytes(p)
    [] kind = "pubcomp"   -> pubcomp_bytes(p)    [] kind = "subscribe"   -> subscribe_bytes(p)
    [] kind = "suback"    -> suback_bytes(p)     [] kind = "unsubscribe" -> unsubscribe_bytes(p)
    [] kind = "unsuback"  -> unsuback_bytes(p)   [] kind = "pingreq"     -> pingreq_bytes(p)
    [] kind = "pingresp"  -> pingresp_bytes(p)   [] kind = "disconnect"  -> disconnect_bytes(p)
    [] kind = "auth"      -> auth_bytes(p)

\* The match on the type in process_recv_packet, for v5.0.
parse(header, data) ==
  LET type == header \div 16
  IN  CASE type = 1  -> connect_parse(data)     [] type = 2  -> connack_parse(data)
        [] type = 3  -> publish_parse(header % 16, data)
        [] type = 4  -> puback_parse(data)      [] type = 5  -> pubrec_parse(data)
        [] type = 6  -> pubrel_parse(data)      [] type = 7  -> pubcomp_parse(data)
        [] type = 8  -> subscribe_parse(data)   [] type = 9  -> suback_parse(data)
        [] type = 10 -> unsubscribe_parse(data) [] type = 11 -> unsuback_parse(data)
        [] type = 12 -> pingreq_parse(data)     [] type = 13 -> pingresp_parse(data)
        [] type = 14 -> disconnect_parse(data)  [] type = 15 -> auth_parse(data)
        [] OTHER     -> Err("MalformedPacket")
=============================================================================
