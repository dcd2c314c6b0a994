------------------------------ MODULE Endpoint ------------------------------
(***************************************************************************)
(* A Connection with what surrounds it: the application that owns packet   *)
(* ids and sets options, its timers, the transport that opens, closes and  *)
(* delivers, and a peer that may send any packet of a given set, in any    *)
(* order and any number of times.  The constants say how the application   *)
(* and the peer behave, so that a run can ask what the connection          *)
(* guarantees to a careful application and what it does to a careless one. *)
(***************************************************************************)
EXTENDS Connection

CONSTANTS
  AppPackets,     \* packets without a packet id of ours, sent at any time
  Publishes,      \* PUBLISH packets of the application, without their id
  Requests,       \* the packets among "subscribe", "unsubscribe" that are sent
  PeerPackets,    \* what the peer may send
  Settings,       \* <<option, value>> pairs the application may set
  Intervals,      \* arguments of set_pingreq_send_interval
  Malformed,      \* the peer's packets may also be malformed
  PubrelOffline,  \* PUBREL is also sent while not connected
  ChecksVacancy,  \* QoS 1 and 2 only if get_receive_maximum_vacancy_for_send allows
  ForgetsIds,     \* ids are given up when the session is cleared
  ReleasesOnSendError, \* release_packet_id after a failed send, as event.rs asks
  BeforeConnect,  \* packets may come, and a close be reported, before CONNECT
  OneConnack,     \* a CONNACK comes only between CONNECT and the first CONNACK
  Crashes         \* the process may restart and restore what it stored

ASSUME EndpointAssumption ==
  /\ \A p \in Publishes : p.type = "publish"
  /\ \A p \in PeerPackets : p.type = "publish" => {"type", "qos", "pid"} \subseteq DOMAIN p
  /\ Requests \subseteq {"subscribe", "unsubscribe"}

VARIABLES
  net,       \* the transport: "closed", "new" (no CONNECT yet) or "open"
  closing,   \* RequestClose was returned, or DISCONNECT received, on this transport
  timers,    \* the timers running in the application
  held,      \* ids acquired and not yet given to a packet
  rel,       \* ids whose PUBREC came and whose PUBREL the application must send
  delivered, \* QoS 2 ids whose message was delivered and not yet released
  carried,   \* ids in flight since before the receive maximum was agreed
  wire       \* the aliases sent on this transport with the topics they mean to
             \* the peer

envVars == <<net, closing, timers, held, rel, delivered, carried, wire>>
vars    == <<connVars, envVars>>

\* get_receive_maximum_vacancy_for_send
vacancy == IF flow.send_max = None THEN None
           ELSE IF flow.send_count > flow.send_max THEN 0
           ELSE flow.send_max - flow.send_count

\* The ids for which a response is awaited, and the PUBLISHes in flight.
Awaited  == ids.suback \cup ids.unsuback \cup ids.puback \cup ids.pubrec \cup ids.pubcomp
InFlight == ids.puback \cup ids.pubrec \cup ids.pubcomp \cup rel

-----------------------------------------------------------------------------
\* The application obeys the events: it restarts and stops its timers.
About(kind, evs) == {i \in DOMAIN evs :
   evs[i].event \in {"RequestTimerReset", "RequestTimerCancel"} /\ evs[i].kind = kind}
Obeyed(running, evs) ==
  {kind \in TimerKind :
     IF About(kind, evs) = {} THEN kind \in running
     ELSE \E i \in About(kind, evs) : /\ \A j \in About(kind, evs) : j <= i
                                      /\ evs[i].event = "RequestTimerReset"}
Obeys(running) == timers' = Obeyed(running, events')

Notified(evs, type) == \E i \in DOMAIN evs : /\ evs[i].event = "NotifyPacketReceived"
                                             /\ evs[i].packet.type = type
Closes(evs) == \/ \E i \in DOMAIN evs : evs[i].event = "RequestClose"
               \/ Notified(evs, "disconnect")

\* What follows every call; after a panic there is none.
Called == /\ ~panicked
          /\ Obeys(timers)
          /\ closing' = (closing \/ Closes(events'))

\* The session was cleared by the call.
Forgets(cleared) ==
  /\ held' = IF cleared /\ ForgetsIds THEN {} ELSE held
  /\ rel'  = IF cleared /\ ForgetsIds THEN {} ELSE rel
  /\ delivered' = IF cleared THEN {} ELSE delivered

\* What the peer learns from the PUBLISH packets of the call.
TopicOnWire(w, a) == IF \E u \in w : u.alias = a
                     THEN (CHOOSE u \in w : u.alias = a).topic ELSE NoTopic
AliasUse(p, topic) ==
  {u \in wire : u.alias # p.alias} \cup {[alias |-> p.alias, topic |-> topic]}
Announces ==
  wire' = LET sent == {events'[i].packet : i \in {j \in DOMAIN events' :
                         events'[j].event = "RequestSendPacket"}}
              aliased == {p \in sent : p.type = "publish" /\ p.alias # 0}
          IN  IF aliased = {} THEN wire
              ELSE LET p == CHOOSE q \in aliased : TRUE
                   IN  AliasUse(p, IF p.topic # NoTopic THEN p.topic
                                   ELSE TopicOnWire(wire, p.alias))

\* Only v5.0 has properties, as the one of CONNACK that changes the keep-alive.
OfVersion(p) == p.type = "connack" /\ p.server_keep_alive # None => V5

\* After the call the id is attached to a packet, freed, or still the application's.
GivesUp(pid) == held' = IF pid \in ids'.man \ Awaited' THEN held ELSE held \ {pid}

-----------------------------------------------------------------------------
Init == /\ ConnInit
        /\ net = "closed" /\ closing = FALSE /\ timers = {}
        /\ held = {} /\ rel = {} /\ delivered = {} /\ carried = {} /\ wire = {}

Open == /\ net = "closed" /\ ~panicked
        /\ net' = "new" /\ closing' = FALSE /\ events' = <<>> /\ wire' = {}
        /\ UNCHANGED <<link, ping, core, panicked>>
        /\ UNCHANGED <<timers, held, rel, delivered, carried>>

Close == /\ net = "open" \/ (net = "new" /\ BeforeConnect)
         /\ notify_closed
         /\ net' = "closed"
         /\ delivered' = IF sess.need_store THEN delivered ELSE {}
         /\ Called
         /\ UNCHANGED <<held, rel, carried, wire>>

\* The transport closes before a CONNECT was sent or came, and nobody is told.
CloseUnused ==
  /\ net = "new" /\ ~BeforeConnect /\ ~panicked
  /\ net' = "closed" /\ events' = <<>>
  /\ UNCHANGED <<link, ping, core, panicked>>
  /\ UNCHANGED <<closing, timers, held, rel, delivered, carried, wire>>

\* CONNECT is the first packet on a transport; sent later it is refused.
AppConnect(p) ==
  /\ p.type = "connect"
  /\ net = "new" \/ link.status # "Disconnected"
  /\ send(p)
  /\ net' = IF link'.status = "Connecting" THEN "open" ELSE net
  /\ Forgets(net = "new" /\ link'.status = "Connecting" /\ p.clean)
  /\ Called
  /\ UNCHANGED <<carried, wire>>

AppSend(p) ==
  /\ p.type # "connect" /\ OfVersion(p)
  /\ send(p)
  /\ Called
  /\ delivered' = IF p.type = "pubrec" /\ ~p.ok
                  THEN delivered \cap sess'.qos2_publish_handled ELSE delivered
  /\ UNCHANGED <<net, held, rel, carried, wire>>

AppPublish(shape, pid) ==
  /\ IF shape.qos = 0 THEN pid = 0 ELSE pid \in held
  /\ ChecksVacancy /\ shape.qos > 0 => vacancy # 0
  /\ send([shape EXCEPT !.pid = pid])
  /\ GivesUp(pid)
  /\ Announces
  /\ Called
  /\ UNCHANGED <<net, rel, delivered, carried>>

AppRequest(type, pid) ==
  /\ pid \in held
  /\ send(Ack(type, pid))
  /\ GivesUp(pid)
  /\ Called
  /\ UNCHANGED <<net, rel, delivered, carried, wire>>

AppPubrel(pid) ==
  /\ pid \in rel
  /\ PubrelOffline \/ link.status = "Connected"
  /\ send(Ack("pubrel", pid))
  /\ rel' = IF pid \in ids'.pubcomp \/ in_store(sess'.store, pid) THEN rel \ {pid} ELSE rel
  /\ Called
  /\ UNCHANGED <<net, held, delivered, carried, wire>>

Acquire == \E pid \in PacketIds :
  /\ acquire_packet_id(pid)
  /\ held' = held \cup {pid}
  /\ Called
  /\ UNCHANGED <<net, rel, delivered, carried, wire>>

AcquireFails ==
  acquire_fails /\ Called /\ UNCHANGED <<net, held, rel, delivered, carried, wire>>

Register(pid) ==
  /\ register_packet_id(pid)
  /\ held' = IF pid \in free_ids THEN held \cup {pid} ELSE held
  /\ Called
  /\ UNCHANGED <<net, rel, delivered, carried, wire>>

\* An id whose exchange goes on is not released; the session's end leaves it
\* to the application.
Release(pid) ==
  /\ pid \in held \/ (pid \in rel /\ net = "closed")
  /\ release_packet_id(pid)
  /\ held' = held \ {pid} /\ rel' = rel \ {pid}
  /\ Called
  /\ UNCHANGED <<net, delivered, carried, wire>>

\* The transport failed to send the packet of the last call.
SendError ==
  /\ ReleasesOnSendError
  /\ \E i \in DOMAIN events :
       /\ events[i].event = "RequestSendPacket" /\ events[i].release # 0
       /\ release_packet_id(events[i].release)
  /\ Called
  /\ UNCHANGED <<net, held, rel, delivered, carried, wire>>

\* A packet arrives, in any order; process_recv_connack does not ask for the status,
\* so only a peer with OneConnack holds a second CONNACK back.
PeerSend(p) ==
  /\ net = "open" \/ (net = "new" /\ (BeforeConnect \/ p.type = "connect"))
  /\ OfVersion(p)
  /\ OneConnack /\ p.type = "connack" => link.status = "Connecting"
  /\ recv(p)
  /\ net' = IF link'.status = "Connecting" THEN "open" ELSE net
  /\ LET notified == Notified(events', p.type)
         restarts == p.type = "connect" /\ notified
         agrees   == restarts \/ (p.type = "connack" /\ notified /\ p.ok)
         cleared  == (restarts /\ p.clean) \/ (agrees /\ ~restarts /\ ~p.session_present)
     IN  /\ held' = IF cleared /\ ForgetsIds THEN {} ELSE held
         /\ rel'  = IF cleared /\ ForgetsIds THEN {}
                    ELSE IF /\ p.type = "pubrec" /\ notified
                            /\ p.pid \in ids'.man \ Awaited' THEN rel \cup {p.pid}
                    ELSE rel
         /\ delivered' = IF cleared THEN {}
                         ELSE IF p.type = "publish" /\ notified /\ p.qos = 2
                              THEN delivered \cup {p.pid}
                         ELSE IF p.type = "pubrel" /\ notified THEN delivered \ {p.pid}
                         ELSE delivered
         /\ carried' = IF agrees THEN InFlight' ELSE carried \cap InFlight'
  /\ Called
  /\ UNCHANGED wire

PeerSendsMalformed(p) ==
  /\ Malformed /\ (net = "open" \/ (net = "new" /\ BeforeConnect))
  /\ recv_malformed(p) \/ recv_framing_error
  /\ net' = IF link'.status = "Connecting" THEN "open" ELSE net
  /\ Called
  /\ UNCHANGED <<held, rel, delivered, carried, wire>>

TimerFires(kind) ==
  /\ kind \in timers /\ ~panicked
  /\ notify_timer_fired(kind)
  /\ Obeys(timers \ {kind})
  /\ closing' = (closing \/ Closes(events'))
  /\ UNCHANGED <<net, held, rel, delivered, carried, wire>>

Sets(name, val) ==
  /\ opts[name] # val
  /\ IF name = "offline_publish" THEN set_offline_publish(val) ELSE set_option(name, val)
  /\ Called
  /\ UNCHANGED <<net, held, rel, delivered, carried, wire>>

SetsInterval(ms) ==
  /\ set_pingreq_send_interval(ms)
  /\ Called
  /\ UNCHANGED <<net, held, rel, delivered, carried, wire>>

\* The process restarts.  The application kept what get_stored_packets and
\* get_qos2_publish_handled_pids returned; an id whose PUBREL it owed is lost.
Restart ==
  /\ Crashes /\ ~panicked
  /\ restore(sess.store, sess.qos2_publish_handled)
  /\ net' = "closed" /\ closing' = FALSE /\ timers' = {}
  /\ held' = {} /\ rel' = {} /\ carried' = {} /\ wire' = {}
  /\ UNCHANGED delivered

App == \/ \E p \in AppPackets : AppConnect(p) \/ AppSend(p)
       \/ \E p \in Publishes, pid \in PacketIds \cup {0} : AppPublish(p, pid)
       \/ \E type \in Requests, pid \in PacketIds : AppRequest(type, pid)
       \/ \E pid \in PacketIds : AppPubrel(pid) \/ Release(pid) \/ Register(pid)
       \/ Acquire \/ AcquireFails \/ SendError
       \/ \E s \in Settings : Sets(s[1], s[2])
       \/ \E ms \in Intervals : SetsInterval(ms)
       \/ \E kind \in TimerKind : TimerFires(kind)

Network == \/ Open \/ Close \/ CloseUnused
           \/ \E p \in PeerPackets : PeerSend(p) \/ PeerSendsMalformed(p)

Next == App \/ Network \/ Restart

Spec == Init /\ [][Next]_vars

-----------------------------------------------------------------------------
(***************************************************************************)
(* Properties.                                                             *)
(***************************************************************************)
Durations == Nat \cup {None}

EventOK(e) ==
  CASE e.event = "RequestTimerReset" -> e.kind \in TimerKind /\ e.duration_ms \in Nat \ {0}
    [] e.event = "RequestTimerCancel" -> e.kind \in TimerKind
    [] e.event = "NotifyPacketIdReleased" -> e.pids \subseteq PacketIds
    [] e.event = "RequestSendPacket" -> e.release \in PacketIds \cup {0}
    [] OTHER -> e.event \in {"NotifyError", "RequestClose", "NotifyPacketReceived"}

\* The type invariant: the fields of GenericConnection hold values of their
\* types, the count wraps as a u16, and no timer is requested for 0 ms.
TypeOK ==
  /\ link \in [status : Statuses, is_client : BOOLEAN, protocol_version : Versions]
  /\ ids \in [man : SUBSET PacketIds, suback : SUBSET PacketIds,
               unsuback : SUBSET PacketIds, puback : SUBSET PacketIds,
               pubrec : SUBSET PacketIds, pubcomp : SUBSET PacketIds]
  /\ sess.need_store \in BOOLEAN
  /\ \A i \in DOMAIN sess.store : /\ sess.store[i].pid \in PacketIds
                                  /\ sess.store[i].type \in {"publish", "pubrel"}
  /\ sess.qos2_publish_handled \subseteq PacketIds
  /\ flow.send_count \in 0..(CountMod - 1) /\ flow.recv \subseteq PacketIds
  /\ flow.send_max \in Durations /\ flow.recv_max \in Durations
  /\ lim.send \in Nat /\ lim.recv \in Nat
  /\ ping.armed \subseteq TimerKind /\ timers \subseteq TimerKind
  /\ \A i \in DOMAIN events : EventOK(events[i])
  /\ panicked \in BOOLEAN /\ net \in {"closed", "new", "open"}

\* Every id of the packet id manager is either the application's (acquired and
\* not sent yet, or waiting for its PUBREL) or awaits a response, and the other
\* way round: no path of send, recv, notify_closed or restore leaks an id or
\* frees one that is still used.  It rests on OneConnack: a second CONNACK without a
\* session empties the manager and leaves pid_suback and pid_unsuback as they are.
IdOwnership == ids.man = Awaited \cup held \cup rel

\* An id has one owner: it is in one of the sets pid_suback .. pid_pubcomp, or
\* the application's, never in two at once; so one response ends one exchange.
\* Under OneConnack, as IdOwnership.
OneOwner ==
  LET owners == <<held, rel, ids.suback, ids.unsuback, ids.puback, ids.pubrec, ids.pubcomp>>
  IN  \A i, j \in DOMAIN owners : i # j => owners[i] \cap owners[j] = {}

\* A stored packet is awaited under the response that erases it, and no two have
\* the same id: what send_stored resends is answered and then erased.
StoreAwaited ==
  /\ \A i, j \in DOMAIN sess.store : sess.store[i].pid = sess.store[j].pid => i = j
  /\ \A i \in DOMAIN sess.store :
       sess.store[i].pid \in ids[response_packet(sess.store[i])]

\* No call panics: neither on store.add(..).unwrap(), nor on the arithmetic of
\* publish_send_count and release_id, nor on the assertions of TopicAliasSend.
\* Under OneConnack: otherwise a SUBACK may free the id of a stored PUBLISH.
NoPanic == ~panicked

\* In a session a QoS 2 message is delivered once: no PUBLISH of an id already
\* delivered is notified until its PUBREL, over reconnects and restarts.
ExactlyOnce ==
  [][\A i \in DOMAIN events' :
       /\ events'[i].event = "NotifyPacketReceived"
       /\ events'[i].packet.type = "publish" /\ events'[i].packet.qos = 2
       => events'[i].packet.pid \notin delivered]_vars

\* A QoS 2 id is taken for a duplicate only if its message was delivered in this
\* session: qos2_publish_handled holds nothing else.
HandledDelivered == sess.qos2_publish_handled \subseteq delivered

\* While connected, the count of PUBLISHes in flight is exact and within the
\* peer's receive maximum, unless some are carried over from before CONNACK.  Under
\* OneConnack: a second CONNACK without a session keeps the count.
FlowAccounting ==
  flow.send_max # None /\ link.status = "Connected" /\ carried = {} =>
    /\ flow.send_count = Cardinality(InFlight)
    /\ flow.send_count <= flow.send_max

\* No timer runs on a closed transport: notify_closed cancels all of them and
\* nothing starts one before the next CONNECT.
NoTimerWhenClosed == net = "closed" => timers = {}

\* The connection's three flags agree with the timers the application runs: no
\* event is left out or sent twice, so a cancel is never missed.
TimersAgree == timers = ping.armed

\* A connected v3.1.1 server that expects packets within a keep-alive time has the
\* timer running from CONNECT until it asks for the transport to be closed, also
\* when a CONNACK comes from its client.
ClientWatched ==
  net = "open" /\ ~link.is_client /\ ~V5 /\ link.status = "Connected" /\ ~closing
    /\ ping.pingreq_recv_timeout_ms # 0 => "PingreqRecv" \in timers

\* The alias table of TopicAliasSend is consistent: its two maps are inverse to
\* each other, and the LRU order lists each alias in use once.
AliasTableOK ==
  LET tas == alias.send
  IN  /\ tas.used = ToSet(tas.order) /\ IsInjective(tas.order)
      /\ \A a \in MIN_ALIAS..tas.max : (tas.topic[a] # NoTopic) = (a \in tas.used)
      /\ \A t \in Topics : /\ ToSet(tas.aliases[t]) = {a \in tas.used : tas.topic[a] = t}
                           /\ IsInjective(tas.aliases[t])

\* Whatever alias the table holds, the peer knows for the same topic, so that a
\* PUBLISH sent with the alias alone reaches the topic that was published to.
AliasResolves ==
  link.status = "Connected" =>
    \A a \in alias.send.used : TopicOnWire(wire, a) = alias.send.topic[a]

\* The receive maximum this side announced bounds what it admits.
ReceiveMaximumKept ==
  flow.recv_max # None => Cardinality(flow.recv) <= flow.recv_max
=============================================================================
