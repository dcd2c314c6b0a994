-------------------------- MODULE ClientInvariant ---------------------------
(***************************************************************************)
(* What a client's application must do for the connection to keep its ids, *)
(* its store and its count of PUBLISHes in step, and the inductive         *)
(* invariant that shows it: EndpointProofs proves it for both versions and *)
(* any ids, packets and settings.                                          *)
(***************************************************************************)
EXTENDS EndpointInvariant

\* A PUBLISH of the application before it has an id.
PublishShape == [type : {"publish"}, qos : 0..2, pid : {0}, size : 0..NoLimit,
                 topic : Topics \ {NoTopic}, alias : {0}]

\* A client whose application gives up the ids of an ended session, asks for the
\* vacancy before a v5.0 PUBLISH, sends PUBREL only while connected, releases no
\* id after a failed send, reports a close only after CONNECT and asks for a
\* session if it resumes one.
CarefulApplication ==
  /\ Role = "Client" /\ InitVersion \in {"V3", "V5"}
  /\ ForgetsIds = TRUE /\ PubrelOffline = FALSE
  /\ ReleasesOnSendError = FALSE /\ BeforeConnect = FALSE
  /\ InitVersion = "V5" => ChecksVacancy = TRUE
  /\ \A p \in AppPackets :
       /\ p.type \notin {"publish", "pubrel", "subscribe", "unsubscribe"}
       /\ p.type = "connect" => /\ p.clean \in BOOLEAN
                                /\ InitVersion = "V5" /\ ~p.clean => Prop(p.expiry, 0) # 0
  /\ Publishes \subseteq PublishShape
  /\ Requests \subseteq {"subscribe", "unsubscribe"}
  /\ \A s \in Settings : s[1] = "offline_publish" => s[2] \in BOOLEAN

\* The server's packets may be any in any order, but for CONNACK: one comes per
\* CONNECT, since a second one would empty the session under exchanges in flight;
\* and one that resumes a session carries no limits, which would apply to packets
\* already in flight; nor has v3.1.1 any.
CarefulClient ==
  /\ CarefulApplication /\ OneConnack = TRUE
  /\ \A p \in PeerPackets : p.type = "connack" =>
       /\ p.recv_max \in {None} \cup 0..(CountMod - 1)
       /\ InitVersion = "V3" \/ p.session_present => p.recv_max = None
       /\ p.session_present => p.max_size = None

\* What the store holds: PUBLISH of QoS 1 and 2, and PUBREL.
Stored == [type : {"publish"}, qos : 1..2, pid : PacketIds, size : 0..NoLimit,
           topic : Topics \cup {NoTopic}, alias : {0}]
            \cup [type : {"pubrel"}, pid : PacketIds, ok : {TRUE}, size : {AckSize}]

\* A store whose packets have distinct ids and are awaited under their response.
Distinct(s) == \A i, j \in DOMAIN s : s[i].pid = s[j].pid => i = j
AwaitedIn(s, i) == \A k \in DOMAIN s : s[k].pid \in i[response_packet(s[k])]
StoreOK(s, i) == s \in Seq(Stored) /\ Distinct(s) /\ AwaitedIn(s, i)

IdsType  == [man : SUBSET PacketIds, suback : SUBSET PacketIds,
             unsuback : SUBSET PacketIds, puback : SUBSET PacketIds,
             pubrec : SUBSET PacketIds, pubcomp : SUBSET PacketIds]

\* Who owns an id: the sets are apart and together are the ids in use.
Owned(i, h, r) ==
  /\ i \in IdsType /\ h \subseteq PacketIds /\ r \subseteq PacketIds
  /\ i.man = i.suback \cup i.unsuback \cup i.puback \cup i.pubrec \cup i.pubcomp \cup h \cup r
  /\ \A x \in h : x \notin r \cup i.suback \cup i.unsuback \cup i.puback \cup i.pubrec \cup i.pubcomp
  /\ \A x \in r : x \notin i.suback \cup i.unsuback \cup i.puback \cup i.pubrec \cup i.pubcomp
  /\ \A x \in i.suback : x \notin i.unsuback \cup i.puback \cup i.pubrec \cup i.pubcomp
  /\ \A x \in i.unsuback : x \notin i.puback \cup i.pubrec \cup i.pubcomp
  /\ \A x \in i.puback : x \notin i.pubrec \cup i.pubcomp
  /\ \A x \in i.pubrec : x \notin i.pubcomp

-----------------------------------------------------------------------------
PeerIds  == {p.pid : p \in {q \in PeerPackets : q.type = "publish"}}
LinkType == [status : Statuses, is_client : BOOLEAN, protocol_version : {InitVersion}]
SessType == [need_store : BOOLEAN, store : Seq(Stored), qos2_publish_handled : SUBSET PeerIds]

\* publish_send_count, while a receive maximum is agreed: the PUBLISHes in flight as
\* long as the transport is open, and never above the maximum; and the receive and
\* the size limit last from CONNACK to the close.
FlowKept ==
  /\ {"send_max", "send_count"} \subseteq DOMAIN flow
  /\ link.status = "Connecting" => flow.send_max = None /\ flow.send_count = 0
  /\ flow.send_max # None =>
       /\ InitVersion = "V5"
       /\ flow.send_max \in 0..(CountMod - 1) /\ flow.send_count \in 0..flow.send_max
       /\ net = "open" => flow.send_count = Cardinality(InFlight)
LimitKept ==
  /\ "send" \in DOMAIN lim
  /\ net # "open" \/ link.status = "Connecting" => lim.send = NoLimit

\* The inductive invariant of a client: ids have one owner each, the store is awaited,
\* the count is right, and what makes that inductive.  Requests are awaited only
\* between CONNACK and the close, so that initialize and clear_store_related, which
\* drop pid_suback or leave it, lose no id; and without a session the store is empty
\* while the transport is open, so that notify_closed may forget the exchanges.
ClientInv ==
  /\ link \in LinkType
  /\ sess \in SessType
  /\ Owned(ids, held, rel)
  /\ StoreOK(sess.store, ids)
  /\ FlowKept /\ LimitKept
  /\ "offline_publish" \in DOMAIN opts /\ opts.offline_publish \in BOOLEAN
  /\ panicked = FALSE
  /\ net \in {"closed", "new", "open"}
  /\ link.status # "Disconnected" => net = "open"
  /\ net # "open" \/ link.status = "Connecting" => ids.suback = {} /\ ids.unsuback = {}
  /\ net = "open" /\ ~sess.need_store => sess.store = <<>>
=============================================================================
