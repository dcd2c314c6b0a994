------------------------- MODULE EndpointInvariant --------------------------
(***************************************************************************)
(* Inductive invariants of an endpoint of any role and version, with any   *)
(* packets, settings and peer; AnyRoleProofs, ReceiverProofs and           *)
(* AliasProofs prove them.                                                 *)
(***************************************************************************)
EXTENDS Endpoint

LinkRecord == [status : Statuses, is_client : BOOLEAN, protocol_version : Versions]
PingTimes  == {"pingreq_keep_alive_ms", "pingreq_server_keep_alive_ms",
               "pingreq_recv_timeout_ms"}

\* The shape of the connection's state that every call relies on.
ConnShape ==
  /\ link \in LinkRecord
  /\ PingTimes \cup {"armed"} \subseteq DOMAIN ping /\ ping.armed \subseteq TimerKind
  /\ {"need_store", "store", "qos2_publish_handled"} \subseteq DOMAIN sess
  /\ sess.store \in Seq(ToSet(sess.store))

\* The transport is closed, or it is new and nothing may come before CONNECT.
Silent == net = "closed" \/ (net = "new" /\ ~BeforeConnect)

\* The connection's flags are the timers the application runs.  A silent transport
\* has no connection, and one that is connecting had a CONNECT.  A v3.1.1 server is watched from
\* CONNECT on, for CONNACK does not start the timer, and asks for the close before it
\* ceases to be connected, so that no CONNACK makes it connected and unwatched.
TimerInv ==
  /\ ConnShape
  /\ timers = ping.armed
  /\ net \in {"closed", "new", "open"}
  /\ Silent => link.status = "Disconnected"
  /\ link.status = "Connecting" => net = "open"
  /\ net = "open" /\ ~link.is_client /\ ~V5 /\ ~closing
       /\ ping.pingreq_recv_timeout_ms # 0 => "PingreqRecv" \in timers

\* A closed transport has no timer, and nor has one that may close unnoticed.
ClosedInv == Silent => timers = {}

\* What was delivered and not released is taken for a duplicate.
DeliveredInv == delivered \subseteq sess.qos2_publish_handled

\* The PUBLISHes a client admitted are finitely many, within the receive maximum
\* that its CONNECT announced.
RecvInv ==
  /\ {"recv_max", "recv"} \subseteq DOMAIN flow
  /\ IsFiniteSet(flow.recv)
  /\ flow.recv_max # None => /\ flow.recv_max \in Nat
                             /\ Cardinality(flow.recv) <= flow.recv_max

\* TopicAliasSend: the fields have their types, and the maps and the order of use
\* say the same.
TableShape(t) ==
  /\ t = [max |-> t.max, used |-> t.used, order |-> t.order, topic |-> t.topic,
          aliases |-> t.aliases]
  /\ t.max \in Nat
  /\ t.order \in Seq(1..t.max)
  /\ t.topic \in [1..t.max -> Topics \cup {NoTopic}]
  /\ t.aliases \in [Topics -> Seq(1..t.max)]
TableOK(t) ==
  /\ TableShape(t)
  /\ t.used = ToSet(t.order) /\ IsInjective(t.order)
  /\ \A a \in 1..t.max : t.topic[a] # NoTopic <=> a \in t.used
  /\ \A u \in Topics : /\ ToSet(t.aliases[u]) = {a \in t.used : t.topic[a] = u}
                       /\ IsInjective(t.aliases[u])

\* What makes AliasResolves inductive for a client: auto map is off, the peer learnt one
\* topic for an alias, and there is no table between CONNECT and CONNACK.
WireInv ==
  /\ "auto_map_topic_alias_send" \in DOMAIN opts /\ opts.auto_map_topic_alias_send = FALSE
  /\ "send_max" \in DOMAIN flow /\ flow.send_max \in Int
  /\ \A u \in wire : u = [alias |-> u.alias, topic |-> u.topic]
  /\ \A u, v \in wire : u.alias = v.alias => u = v
  /\ link.status = "Connecting" => alias.send.max = 0
  /\ AliasResolves
=============================================================================
