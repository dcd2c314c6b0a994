----------------------------- MODULE MCEndpoint -----------------------------
(***************************************************************************)
(* The packets of the Endpoint runs.                                       *)
(***************************************************************************)
EXTENDS ClientInvariant

Connect(clean, keep_alive) ==
  [type |-> "connect", version |-> "V3", clean |-> clean, keep_alive |-> keep_alive,
   ta_max |-> None, recv_max |-> None, max_size |-> None, expiry |-> None, size |-> AckSize]
Connect5(clean, expiry) ==
  [Connect(clean, 0) EXCEPT !.version = "V5", !.expiry = expiry]

Connack(session_present) ==
  [type |-> "connack", ok |-> TRUE, session_present |-> session_present,
   ta_max |-> None, recv_max |-> None, max_size |-> None,
   server_keep_alive |-> None, size |-> AckSize]
Refusal == [Connack(FALSE) EXCEPT !.ok = FALSE]

Publish(qos, pid) ==
  [type |-> "publish", qos |-> qos, pid |-> pid, size |-> AckSize,
   topic |-> "t", alias |-> 0]
Aliased(qos, topic, a) == [Publish(qos, 0) EXCEPT !.topic = topic, !.alias = a]

Acks(types, pids) == {Ack(type, pid) : type \in types, pid \in pids}
Failed(type, pid) == [Ack(type, pid) EXCEPT !.ok = FALSE]

OneTopic == {"t"}
Nothing  == {}
Shapes   == {Publish(1, 0), Publish(2, 0)}

-----------------------------------------------------------------------------
\* A v3.1.1 client that keeps its session or not.
SessionClient == {Connect(TRUE, 0), Connect(FALSE, 0), Plain("disconnect")}
SessionServer == {Connack(FALSE), Connack(TRUE)}
                   \cup Acks({"puback", "pubrec", "pubcomp", "suback"}, PacketIds)
SessionSettings == {<<"offline_publish", TRUE>>, <<"auto_pub_response", TRUE>>}
Subscribes    == {"subscribe"}
Unsubscribes  == {"unsubscribe"}

\* A v5.0 client without a session, under the server's receive maximum and its
\* own, or with a session that is resumed without a receive maximum.
Client5 == {[Connect5(TRUE, None) EXCEPT !.recv_max = 1], Connect5(FALSE, 1),
            Failed("pubrec", 2)} \cup Acks({"puback"}, {1}) \cup Acks({"pubcomp"}, {2})
Server5 == {[Connack(FALSE) EXCEPT !.recv_max = 1], [Connack(FALSE) EXCEPT !.recv_max = 2],
            Connack(TRUE), Publish(1, 1), Publish(2, 2)}
             \cup Acks({"puback", "pubrec", "pubcomp"}, PacketIds)
             \cup {Failed("pubrec", 1)} \cup Acks({"pubrel"}, {2})
ResumeClient == {Connect5(TRUE, 1), Connect5(FALSE, 1), Plain("disconnect")}
AutoResponse == {<<"auto_pub_response", TRUE>>}

\* A v5.0 client that publishes with topic aliases.
TwoTopics == {"t", "u"}
ThreeTopics == {"t", "u", "w"}
AliasClient == {Connect5(TRUE, None)}
AliasServer == {[Connack(FALSE) EXCEPT !.ta_max = 2, !.recv_max = 1],
                [Connack(FALSE) EXCEPT !.ta_max = 1], Ack("puback", 1)}
AliasShapes == {Aliased(0, topic, a) : topic \in TwoTopics \cup {NoTopic}, a \in 1..2}
                 \cup {Aliased(0, topic, 0) : topic \in TwoTopics}
                 \cup {Aliased(1, topic, 1) : topic \in TwoTopics}
AutoShapes  == {Aliased(0, topic, 0) : topic \in ThreeTopics}
AutoReplace == {<<"auto_replace_topic_alias_send", TRUE>>,
                <<"auto_replace_topic_alias_send", FALSE>>}
AutoMap     == {<<"auto_map_topic_alias_send", TRUE>>}

\* An endpoint of any role and version, which its peer's CONNECT decides.
AnyPackets  == {Connect(TRUE, 2), [Connect5(TRUE, 1) EXCEPT !.keep_alive = 2],
                Connack(FALSE), [Connack(FALSE) EXCEPT !.server_keep_alive = 2],
                Refusal, Plain("disconnect"), Plain("pingreq"), Plain("pingresp"), Plain("auth")}
                 \cup Acks({"suback", "unsuback"}, {1})
AnyPeer     == {Connect(FALSE, 2), [Connect5(TRUE, 1) EXCEPT !.keep_alive = 2],
                [Connect(TRUE, 0) EXCEPT !.version = "unknown"], Connack(TRUE),
                [Connack(FALSE) EXCEPT !.server_keep_alive = 0],
                Plain("pingreq"), Plain("pingresp"), Plain("auth"), Plain("disconnect")}
                 \cup Acks({"subscribe", "unsubscribe", "unsuback"}, {1})
AnySettings == {<<"pingresp_recv_timeout_ms", 3>>}
AnyIntervals == {0, 1}

\* Servers and clients of the findings.
SmallWindow == {[Connack(FALSE) EXCEPT !.recv_max = 1]}
OnlyConnack == {Connack(FALSE)}
TwoSessions == {Connect(TRUE, 0), Connect(FALSE, 0), Publish(2, 1)}
=============================================================================
