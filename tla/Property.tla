------------------------------ MODULE Property ------------------------------
(***************************************************************************)
(* packet/property.rs: the properties of MQTT v5.0.  A property is its id  *)
(* and its value; the macros of the source make one type per id, with one  *)
(* of seven kinds of value.                                                *)
(***************************************************************************)
EXTENDS Encoding

PropertyId ==
  [PayloadFormatIndicator |-> 1, MessageExpiryInterval |-> 2, ContentType |-> 3,
   ResponseTopic |-> 8, CorrelationData |-> 9, SubscriptionIdentifier |-> 11,
   SessionExpiryInterval |-> 17, AssignedClientIdentifier |-> 18, ServerKeepAlive |-> 19,
   AuthenticationMethod |-> 21, AuthenticationData |-> 22, RequestProblemInformation |-> 23,
   WillDelayInterval |-> 24, RequestResponseInformation |-> 25, ResponseInformation |-> 26,
   ServerReference |-> 28, ReasonString |-> 31, ReceiveMaximum |-> 33,
   TopicAliasMaximum |-> 34, TopicAlias |-> 35, MaximumQos |-> 36, RetainAvailable |-> 37,
   UserProperty |-> 38, MaximumPacketSize |-> 39, WildcardSubscriptionAvailable |-> 40,
   SubscriptionIdentifierAvailable |-> 41, SharedSubscriptionAvailable |-> 42]

Names(ids) == {name \in DOMAIN PropertyId : PropertyId[name] \in ids}

\* Which accessor returns the value, which is which macro made the type.
kind_of(id) ==
  CASE id \in {1, 23, 25, 36, 37, 40, 41, 42}  -> "u8"
    [] id \in {19, 33, 34, 35}                 -> "u16"
    [] id \in {2, 17, 24, 39}                  -> "u32"
    [] id = 11                                 -> "variable_integer"
    [] id \in {3, 8, 18, 21, 26, 28, 31}       -> "string"
    [] id \in {9, 22}                          -> "binary"
    [] id = 38                                 -> "string_pair"
value_kind(name) == kind_of(PropertyId[name])

\* The validators: a flag is 0 or 1, and what counts from one is not zero.
validator(name, v) ==
  /\ value_kind(name) = "u8" => v <= 1
  /\ name \in {"SubscriptionIdentifier", "ReceiveMaximum", "TopicAlias", "MaximumPacketSize"}
       => v # 0

Validated(name, result) ==
  IF result.ok /\ ~validator(name, result.val) THEN Err("ProtocolError") ELSE result

-----------------------------------------------------------------------------
(***************************************************************************)
(* new, the bytes and the size of a value, and parse, per kind.            *)
(***************************************************************************)
u8_new(name, v)     == Validated(name, Ok(v, 1))
u8_bytes(v)         == <<v>>
u8_parse(name, data) == Validated(name, u8(data))

u16_new(name, v)     == Validated(name, Ok(v, 2))
u16_bytes(v)         == to_be_bytes(v, 2)
u16_parse(name, data) == Validated(name, uint(2, data))

u32_new(name, v)     == Validated(name, Ok(v, 4))
u32_bytes(v)         == to_be_bytes(v, 4)
u32_parse(name, data) == Validated(name, uint(4, data))

variable_integer_new(name, v) ==
  IF v > MAX THEN Err("ValueOutOfRange") ELSE Validated(name, Ok(v, 0))
variable_integer_bytes(v) == from_u32(v)
complete(vbi) ==
  IF vbi.result # "Ok" THEN Err("InsufficientBytes") ELSE Ok(vbi.value, vbi.used)
variable_integer_parse(name, data) == Validated(name, complete(decode_stream(data)))

string_pair_new(pair) ==
  IF ~string_new(pair[1]).ok \/ ~string_new(pair[2]).ok THEN Err("MalformedPacket") ELSE Ok(pair, 0)
string_pair_bytes(pair) == string_bytes(pair[1]) \o string_bytes(pair[2])
string_pair_size(pair)  == string_size(pair[1]) + string_size(pair[2])
string_pair_parse(data) ==
  Parsed(ReadString(ReadString(Cursor(data), "key"), "val"),
         LAMBDA end : <<end.got.key, end.got.val>>)

-----------------------------------------------------------------------------
(***************************************************************************)
(* Property: the type that holds one of them.  It is one byte longer, for  *)
(* the id.                                                                 *)
(***************************************************************************)
Prop(name, v)   == <<name, v>>
property_id(p)  == p[1]
property_val(p) == p[2]

value_new(k, name, v) ==
  CASE k = "u8"  -> u8_new(name, v)          [] k = "u16"    -> u16_new(name, v)
    [] k = "u32" -> u32_new(name, v)         [] k = "string" -> string_new(v)
    [] k = "binary"           -> binary_new(v)
    [] k = "variable_integer" -> variable_integer_new(name, v)
    [] k = "string_pair"      -> string_pair_new(v)
property_new(p) == value_new(value_kind(property_id(p)), property_id(p), property_val(p))

value_bytes(k, v) ==
  CASE k = "u8"  -> u8_bytes(v)              [] k = "u16"    -> u16_bytes(v)
    [] k = "u32" -> u32_bytes(v)             [] k = "string" -> string_bytes(v)
    [] k = "binary"           -> binary_bytes(v)
    [] k = "variable_integer" -> variable_integer_bytes(v)
    [] k = "string_pair"      -> string_pair_bytes(v)
property_bytes(p) ==
  <<PropertyId[property_id(p)]>> \o value_bytes(value_kind(property_id(p)), property_val(p))

value_size(k, v) ==
  CASE k = "u8"  -> 1                        [] k = "u16"    -> 2
    [] k = "u32" -> 4                        [] k = "string" -> string_size(v)
    [] k = "binary"           -> binary_size(v)
    [] k = "variable_integer" -> size(v)
    [] k = "string_pair"      -> string_pair_size(v)
property_size(p) == 1 + value_size(value_kind(property_id(p)), property_val(p))

\* The value after the id, by its kind.
value_parse(k, name, data) ==
  CASE k = "u8"  -> u8_parse(name, data)     [] k = "u16"    -> u16_parse(name, data)
    [] k = "u32" -> u32_parse(name, data)    [] k = "string" -> string_decode(data)
    [] k = "binary"           -> binary_decode(data)
    [] k = "variable_integer" -> variable_integer_parse(name, data)
    [] k = "string_pair"      -> string_pair_parse(data)

with_id(name, value) ==
  IF ~value.ok THEN value ELSE Ok(Prop(name, value.val), value.used + 1)
property_of(name, data) == with_id(name, value_parse(value_kind(name), name, data))
property_parse(data) ==
  IF data = <<>> \/ Names({data[1]}) = {} THEN Err("MalformedPacket")
  ELSE property_of(CHOOSE name \in Names({data[1]}) : TRUE, Tail(data))

-----------------------------------------------------------------------------
(***************************************************************************)
(* Properties: the list, sent behind its length in bytes.                  *)
(***************************************************************************)
properties_size(props)  == Sum(property_size, props)
properties_bytes(props) == Joined(property_bytes, props)

\* The properties of a packet and their property_length.
properties_section(props) == from_u32(properties_size(props)) \o properties_bytes(props)
section_size(props) == size(properties_size(props)) + properties_size(props)

\* The list after the length len, which ends at end.
section_parse(len, end, data) ==
  IF len.value = 0 THEN Ok(<<>>, len.used)
  ELSE IF end > Len(data) THEN Err("MalformedPacket")
  ELSE Parsed(Read([Cursor(data) EXCEPT !.rest = SubSeq(data, len.used + 1, end),
                                        !.used = len.used],
                   "props", LAMBDA rest : decode_all(property_parse, rest)),
              LAMBDA c : c.got.props)

behind_length(len, data) ==
  IF data = <<>> \/ len.result # "Ok" THEN Err("MalformedPacket")
  ELSE section_parse(len, len.used + len.value, data)
\* Mutant: the properties may run past their length.
properties_parse_Unbounded(data) ==
  IF data = <<>> \/ decode_stream(data).result # "Ok" THEN Err("MalformedPacket")
  ELSE section_parse(decode_stream(data), Len(data), data)

properties_parse(data) == behind_length(decode_stream(data), data)

\* The checks a packet type makes on its properties: the ids it may have once and
\* those it may have any number of times.
properties_allowed(props, Once, Many) ==
  /\ \A i \in DOMAIN props : PropertyId[property_id(props[i])] \in Once \cup Many
  /\ \A i, j \in DOMAIN props :
       property_id(props[i]) = property_id(props[j]) /\ i # j
         => PropertyId[property_id(props[i])] \in Many

ReadProperties(c, name) == Read(c, name, properties_parse)

\* A list of properties whose values were made by their constructors.
properties_new(props) ==
  LET bad == {i \in DOMAIN props : ~property_new(props[i]).ok}
  IN  IF bad = {} THEN Ok(props, 0)
      ELSE property_new(props[CHOOSE i \in bad : \A j \in bad : i <= j])
=============================================================================
