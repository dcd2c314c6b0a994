------------------------------- MODULE Codec --------------------------------
(***************************************************************************)
(* The life of a packet of either version: an application calls setters of *)
(* a builder and build(), a connection may change a PUBLISH it holds, the  *)
(* bytes travel, and the peer parses them.  A peer that encodes packets in *)
(* its own way is a packet whose bytes are one edit away from ours.        *)
(***************************************************************************)
EXTENDS Encoding, FiniteSets

CONSTANTS Types,     \* the packet types, [version : {3, 5}, kind : string]
          Calls,     \* Calls[t]: the setter calls <<name, value>> on a builder of t
          MaxFields, \* how many fields of one packet are set
          OnlyOnce,  \* the setters that are not called again
          Noise,     \* the bytes an edit puts in
          AliasTopic \* the topic name of the aliases both sides know

VARIABLES type,     \* what is being built
          asked,    \* the last value given to each setter
          builder,  \* the builder's fields
          packet,   \* the packet build() made, and what became of it
          topic,    \* the topic name of the PUBLISH, or the one its alias stands for
          wire,     \* the bytes sent, or the content another implementation sent
          received, \* the packet the peer parsed
          stage

vars == <<type, asked, builder, packet, topic, wire, received, stage>>

V3 == INSTANCE PacketV3
V5 == INSTANCE PacketV5

view(t, p)         == IF t.version = 3 THEN V3!view(t.kind, p) ELSE V5!view(t.kind, p)
set(t, b, name, v) == IF t.version = 3 THEN V3!set(t.kind, b, name, v)
                      ELSE V5!set(t.kind, b, name, v)
build(t, b)        == IF t.version = 3 THEN V3!build(t.kind, b) ELSE V5!build(t.kind, b)
bytes(t, p)        == IF t.version = 3 THEN V3!bytes(t.kind, p) ELSE V5!bytes(t.kind, p)

\* The dispatch on the version of the connection; a server that has none yet finds
\* it in the CONNECT.
parse(version, header, data) ==
  CASE version = 3 -> V3!parse(header, data)
    [] version = 5 -> V5!parse(header, data)
    [] OTHER ->
         IF header \div 16 # 1 \/ Len(data) < 7 THEN Err("MalformedPacket")
         ELSE CASE data[7] = 4 -> V3!connect_parse(data)
                [] data[7] = 5 -> V5!connect_parse(data)
                [] OTHER -> Err("UnsupportedProtocolVersion")

NoPacket == NoFields

Init ==
  /\ type \in Types
  /\ asked = NoPacket /\ builder = NoPacket /\ packet = NoPacket /\ received = NoPacket
  /\ topic = <<>> /\ wire = <<>> /\ stage = "building"

\* A setter takes the builder and returns it, or an error and no builder.
Call(name, v) ==
  /\ stage = "building"
  /\ name \in OnlyOnce => name \notin DOMAIN asked
  /\ Cardinality(DOMAIN asked \cup {name}) <= MaxFields
  /\ \E r \in {set(type, builder, name, v)} :
       IF r.ok
       THEN builder' = r.val /\ asked' = With(asked, name, v) /\ UNCHANGED stage
       ELSE stage' = "refused" /\ UNCHANGED <<builder, asked>>
  /\ UNCHANGED <<type, packet, topic, wire, received>>

Build ==
  /\ stage = "building"
  /\ \E r \in {build(type, builder)} :
       IF r.ok THEN packet' = r.val /\ stage' = "built"
       ELSE UNCHANGED packet /\ stage' = IF r.error = "panic" THEN "panic" ELSE "refused"
  /\ topic' = IF Get(packet', "topic_name", <<>>) = <<>> THEN AliasTopic ELSE packet'.topic_name
  /\ UNCHANGED <<type, asked, builder, wire, received>>

-----------------------------------------------------------------------------
(***************************************************************************)
(* What connections do to a PUBLISH.                                       *)
(***************************************************************************)
Publish5 == type.version = 5 /\ type.kind = "publish"

duplicate(made) == IF made.ok THEN Ok(V5!set_dup(made.val, TRUE), 0) ELSE made

\* A change of the packet; unwrap() on its error is a panic.
Change(made, next) ==
  /\ IF made.ok THEN packet' = made.val /\ stage' = next
     ELSE stage' = "panic" /\ UNCHANGED packet
  /\ UNCHANGED <<type, asked, builder, topic, wire, received>>

\* The replacement of a topic name by an alias, before sending: by the connection, or by
\* the application on a packet that may have another alias.
ReplaceByAlias(alias) ==
  /\ stage = "built" /\ Publish5 /\ packet.topic_name # <<>>
  /\ Change(V5!remove_topic_add_topic_alias(packet, alias), "aliased")

\* The copy of a packet of QoS 1 or 2, whose topic may be an alias the application chose,
\* that is stored and sent as a duplicate on a later connection, which knows no alias.
Store ==
  /\ stage \in {"built", "aliased"} /\ type.kind = "publish" /\ "packet_id" \in DOMAIN packet
  /\ Change(IF type.version = 3 THEN Ok(V3!set_dup(packet, TRUE), 0)
            ELSE duplicate(IF packet.topic_name = <<>>
                           THEN V5!remove_topic_alias_add_topic(packet, topic)
                           ELSE V5!remove_topic_alias(packet)),
            "stored")

-----------------------------------------------------------------------------
(***************************************************************************)
(* The way to the peer.                                                    *)
(***************************************************************************)
\* The fixed header and what the remaining length says is the packet.
framed(len, sent) ==
  IF len.result # "Ok" \/ Len(sent) # 1 + len.used + len.value THEN [whole |-> FALSE]
  ELSE [whole |-> TRUE, header |-> sent[1], data |-> SubSeq(sent, 2 + len.used, Len(sent))]
Frame(sent) == IF sent = <<>> THEN [whole |-> FALSE] ELSE framed(decode_stream(Tail(sent)), sent)

\* The result of parsing all of a frame.
unframe(version, f) ==
  IF ~f.whole THEN Err("MalformedPacket") ELSE parse(version, f.header, f.data)

Send ==
  /\ stage \in {"built", "aliased", "stored"}
  /\ wire' = bytes(type, packet) /\ stage' = "sent"
  /\ UNCHANGED <<type, asked, builder, packet, topic, received>>

\* The versions the receiving connection may have.
Receivers == IF type.kind = "connect" THEN {type.version, 0} ELSE {type.version}

Receive(version) ==
  /\ stage = "sent"
  /\ \E f \in {Frame(wire)}, r \in {unframe(version, Frame(wire))} :
       IF r.ok /\ r.used = Len(f.data)
       THEN received' = r.val /\ stage' = "received"
       ELSE stage' = "rejected" /\ UNCHANGED received
  /\ UNCHANGED <<type, asked, builder, packet, topic, wire>>

\* The topic name a received alias stands for is put into the packet.
ExtractTopic ==
  /\ stage = "received" /\ Publish5 /\ received.topic_name = <<>>
  /\ received' = V5!add_extracted_topic_name(received, topic).val /\ stage' = "extracted"
  /\ UNCHANGED <<type, asked, builder, packet, topic, wire>>

\* The content of the packet cut short, with one byte changed or one more.
Edits(data) ==
  {SubSeq(data, 1, n) : n \in 0..(Len(data) - 1)}
    \cup {[data EXCEPT ![i] = b] : i \in DOMAIN data, b \in Noise}
    \cup {SubSeq(data, 1, n) \o <<b>> \o SubSeq(data, n + 1, Len(data)) :
            n \in 0..Len(data), b \in Noise}

\* The flags of a PUBLISH are in the first byte.
Headers(header) == IF type.kind = "publish" THEN {header, 48, 50, 54, 59} ELSE {header}

ReceiveForeign ==
  /\ stage = "sent" /\ Frame(wire).whole
  /\ \E data \in Edits(Frame(wire).data), header \in Headers(wire[1]) :
       \E r \in {parse(type.version, header, data)} :
         IF r.ok THEN received' = r.val /\ wire' = data /\ stage' = "accepted"
         ELSE stage' = "declined" /\ UNCHANGED <<received, wire>>
  /\ UNCHANGED <<type, asked, builder, packet, topic>>

Next ==
  \/ \E call \in Calls[type] : Call(call[1], call[2])
  \/ Build
  \/ \E alias \in 1..2 : ReplaceByAlias(alias)
  \/ Store
  \/ Send
  \/ \E version \in Receivers : Receive(version)
  \/ ExtractTopic
  \/ ReceiveForeign

Spec == Init /\ [][Next]_vars

-----------------------------------------------------------------------------
\* Every stage is one of the program's, and a packet that exists has its lengths.
TypeOK ==
  /\ type \in Types /\ stage \in {"building", "refused", "panic", "built", "aliased", "stored",
                                  "sent", "received", "rejected", "extracted",
                                  "accepted", "declined"}
  /\ DOMAIN asked \subseteq {call[1] : call \in Calls[type]}
  /\ stage \notin {"building", "refused", "panic"} => "remaining_length" \in DOMAIN packet

\* The accessors of a packet that was built return the last value given to each
\* setter.  will_props() without a will is the one field that is not part of the
\* packet.
BuiltAsAsked ==
  stage = "built" => \A name \in DOMAIN asked : view(type, packet)[name] = asked[name]

\* A packet that was built, or built and changed by a connection, is accepted by the
\* peer, to its last byte, and its accessors return what they return at the sender.
Delivered ==
  /\ stage # "rejected"
  /\ stage = "received" =>
       \A name \in DOMAIN view(type, packet) :
         \/ view(type, received)[name] = view(type, packet)[name]
         \/ name = "will_props" /\ "will" \notin DOMAIN view(type, packet)

\* size() is the number of bytes to_continuous_buffer() returns, for a packet that
\* was built or changed and for what the peer makes of it: the checks of the Maximum
\* Packet Size rest on it.
Exact(p) == packet_size(p) = Len(bytes(type, p))
SizeExact ==
  /\ stage \in {"built", "aliased", "stored"} => Exact(packet)
  /\ stage \in {"received", "extracted"} => Exact(received)

\* Where the content of a v5.0 packet says how long its properties, or those of its
\* will, are, but for PUBLISH, whose parse() computes its lengths anew.
LengthAt(data, i) == decode_stream(SubSeq(data, i, Len(data)))
AfterClientId(data) ==
  LET props == LengthAt(data, 11)
      id    == 11 + props.used + props.value
  IN  id + 2 + from_be_bytes(SubSeq(data, id, id + 1))
PropertyLengths(data) ==
  IF type.version = 3 THEN {}
  ELSE CASE type.kind = "connect" -> {11} \cup IF V5!bit(data[8], 4) THEN {AfterClientId(data)} ELSE {}
         [] type.kind = "connack" -> {3}
         [] type.kind \in {"puback", "pubrec", "pubrel", "pubcomp"} -> {PidSize + 2}
         [] type.kind \in {"subscribe", "suback", "unsubscribe", "unsuback"} -> {PidSize + 1}
         [] type.kind \in {"disconnect", "auth"} -> {2}
         [] OTHER -> {}

\* A property length takes more bytes than it needs: parse() accepts it and counts them
\* in the remaining length (v5_0/connack.rs:426), and nothing sends them again.
Overlong(data) ==
  \E i \in PropertyLengths(data) \cap DOMAIN data :
    LengthAt(data, i).used > size(LengthAt(data, i).value)


\* No accessor of an accepted packet panics: PUBLISH and SUBSCRIBE hold no QoS and no
\* retain handling above 2, which are unreachable!(), and CONNACK a code that is known.
AccessorsSafe ==
  stage = "accepted" =>
    LET v == view(type, received)
    IN  CASE type.kind = "publish"   -> v.qos <= 2
          [] type.kind = "subscribe" -> \A i \in DOMAIN v.entries : /\ v.entries[i].opts.qos <= 2
                                                                     /\ v.entries[i].opts.rh <= 2
          [] type.kind = "connack"   -> IF type.version = 3
                                        THEN v.return_code \in V3!ConnectReturnCode
                                        ELSE v.reason_code \in V5!ConnectReasonCode
          [] OTHER                   -> TRUE

\* Topic aliases are invisible to the application: a PUBLISH whose topic name was
\* replaced by an alias and put back, at the receiver or for the store, is the one
\* that was built, but for the alias.
Message(p) == [view(type, p) EXCEPT !.props = V5!drop_alias(@)]
SameMessage ==
  Publish5 /\ stage \in {"stored", "extracted"} =>
    LET m == Message(IF stage = "stored" THEN packet ELSE received)
    IN  /\ m.topic_name = topic
        /\ \A name \in DOMAIN asked \ {"dup", "topic_name"} :
             m[name] = (IF name = "props" THEN V5!drop_alias(asked.props) ELSE asked[name])
=============================================================================
