------------------------------ MODULE MCCodec -------------------------------
(***************************************************************************)
(* Instances of Codec: the setter calls of every packet type, with values  *)
(* at the limits of their fields.  Strings have at most 3 bytes here.      *)
(***************************************************************************)
EXTENDS Codec

Full == <<97, 98, 99>>
Long == <<97, 98, 99, 100>>

Prop(id, v) == <<id, v>>
User == Prop("UserProperty", <<<<107>>, Full>>)

\* The lists of properties given to a builder: one of each kind of value, lists
\* longer than one length byte counts, a duplicate and one that does not belong.
PropLists(kind) ==
  CASE kind = "connect"    -> {<<Prop("ReceiveMaximum", 1), Prop("SessionExpiryInterval", 5)>>,
                               <<User, User>>, <<Prop("ReceiveMaximum", 0)>>,
                               <<Prop("RequestProblemInformation", 2)>>,
                               <<Prop("TopicAlias", 1)>>}
    [] kind = "connack"    -> {<<Prop("MaximumQos", 1), Prop("ReasonString", Full)>>,
                               <<Prop("MaximumPacketSize", 9), Prop("AuthenticationData", <<1>>)>>,
                               <<Prop("ServerKeepAlive", 3), Prop("ServerKeepAlive", 3)>>}
    [] kind = "publish"    -> {<<Prop("TopicAlias", 2)>>, <<User, Prop("TopicAlias", 1), User>>,
                               <<Prop("SubscriptionIdentifier", 20),
                                 Prop("CorrelationData", Full)>>,
                               <<Prop("PayloadFormatIndicator", 1), Prop("TopicAlias", 0)>>}
    [] kind = "subscribe"  -> {<<Prop("SubscriptionIdentifier", 1), User>>,
                               <<Prop("SubscriptionIdentifier", 0)>>}
    [] kind = "unsubscribe" -> {<<User, User>>, <<Prop("ReasonString", Full)>>}
    [] kind = "disconnect" -> {<<Prop("SessionExpiryInterval", 15)>>,
                               <<User, Prop("ServerReference", <<97>>)>>}
    [] kind = "auth"       -> {<<Prop("AuthenticationMethod", <<97>>),
                                 Prop("AuthenticationData", Full)>>,
                               <<Prop("AuthenticationData", Full)>>}
    [] OTHER               -> {<<Prop("ReasonString", Full)>>, <<User, User>>}

WillProps == {<<Prop("WillDelayInterval", 4), Prop("ContentType", <<97>>)>>, <<User, User>>}

Will(t, p, q, r) == [topic |-> t, payload |-> p, qos |-> q, retain |-> r]
Entry(f, q, n, a, h) == [topic_filter |-> f, opts |-> [qos |-> q, nl |-> n, rap |-> a, rh |-> h]]

\* <<name, value>> for every value of a set.
Each(name, values) == {<<name, v>> : v \in values}
Ids == Each("packet_id", {0, 1, 3})

CallsV3(kind) ==
  CASE kind = "connect" ->
         Each("client_id", {Full, Long}) \cup Each("clean_session", BOOLEAN)
           \cup Each("will", {Will(<<97>>, <<>>, 1, TRUE), Will(Full, <<1>>, 2, FALSE),
                              Will(Long, <<>>, 0, FALSE)})
           \cup Each("user_name", {<<97>>}) \cup Each("password", {<<1, 2>>})
           \cup Each("keep_alive", {3})
    [] kind = "connack" -> Each("session_present", BOOLEAN) \cup Each("return_code", {0, 5})
    [] kind = "publish" ->
         Each("topic_name", {<<>>, <<97>>, Full, Long, <<97, Plus>>}) \cup Ids
           \cup Each("qos", 0..2) \cup Each("dup", {TRUE}) \cup Each("retain", {TRUE})
           \cup Each("payload", {<<1, 255, 0>>})
    [] kind = "puback"  -> Ids \cup Each("reason_code", {0, 128})
    [] kind = "pubrec"  -> Ids \cup Each("reason_code", {16, 153})
    [] kind \in {"pubrel", "pubcomp"} -> Ids \cup Each("reason_code", {0, 146})
    [] kind = "subscribe" ->
         Ids \cup Each("entries", {<<>>, <<Entry(<<97>>, 1, TRUE, FALSE, 2)>>,
                                   <<Entry(Full, 2, FALSE, TRUE, 0),
                                     Entry(<<35>>, 0, TRUE, TRUE, 1)>>,
                                   <<Entry(Long, 0, FALSE, FALSE, 0)>>})
    [] kind = "suback"  -> Ids \cup Each("return_codes", {<<>>, <<0>>, <<2, 128>>})
    [] kind = "unsubscribe" ->
         Ids \cup Each("entries", {<<>>, <<<<97>>>>, <<Full, <<98>>>>, <<Long>>})
    [] kind = "unsuback" -> Ids
    [] OTHER -> {}

\* v5.0 has the same fields and properties.
CallsV5(kind) ==
  (CASE kind = "connect" -> {call \in CallsV3(kind) : call[1] # "clean_session"}
                              \cup Each("clean_start", BOOLEAN) \cup Each("will_props", WillProps)
     [] kind = "connack"  -> Each("session_present", BOOLEAN) \cup Each("reason_code", {0, 159})
     [] kind = "suback"   -> Ids \cup Each("reason_codes", {<<>>, <<0>>, <<2, 162>>})
     [] kind = "unsuback" -> Ids \cup Each("reason_codes", {<<>>, <<0>>, <<17, 145>>})
     [] kind = "disconnect" -> Each("reason_code", {0, 4, 162})
     [] kind = "auth"     -> Each("reason_code", {0, 24, 25})
     [] OTHER -> CallsV3(kind))
  \cup (IF kind \in {"pingreq", "pingresp"} THEN {} ELSE Each("props", PropLists(kind)))

Type(v, k) == [version |-> v, kind |-> k]
AllTypes   == {Type(3, k) : k \in V3!Kinds} \cup {Type(5, k) : k \in V5!Kinds}
AllCalls   == [t \in AllTypes |-> IF t.version = 3 THEN CallsV3(t.kind) ELSE CallsV5(t.kind)]
=============================================================================
