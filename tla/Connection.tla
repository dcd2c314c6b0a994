----------------------------- MODULE Connection -----------------------------
(***************************************************************************)
(* GenericConnection of connection/core.rs: the Sans-I/O MQTT endpoint.    *)
(* Every public call is an action; it returns its events in `events`.  The *)
(* v3.1.1 and v5.0 handlers of a packet are one definition: they differ    *)
(* where V5 is tested.  The fields of the struct are grouped in records:   *)
(*   link   status, is_client, protocol_version                            *)
(*   ids    pid_man and the sets of ids that await a response              *)
(*   sess   need_store, store, qos2_publish_handled                        *)
(*   flow   publish_send_max/count, publish_recv_max, publish_recv         *)
(*   lim    maximum_packet_size_send and _recv                             *)
(*   alias  topic_alias_send and _recv                                     *)
(*   ping   the keep-alive values, and the timers whose flag is set        *)
(*   opts   what the application configures                                *)
(* A packet is a record with its type, a size and the fields the handlers  *)
(* read.  An absent property is None, an absent packet id or alias is 0.   *)
(***************************************************************************)
EXTENDS TopicAlias, SequencesExt

CONSTANTS Role,         \* "Client", "Server" or "Any"
          InitVersion,  \* the version given to new()
          MaxId,        \* the greatest packet id, PacketIdType::max_value()
          CountMod      \* publish_send_count is a u16: 2^16

None == -1
NoLimit == 9            \* MQTT_PACKET_SIZE_NO_LIMIT: above every size used
AckSize == 1            \* the size of a packet the connection builds itself

PacketIds == 1..MaxId
Roles     == {"Client", "Server", "Any"}
Versions  == {"V3", "V5", "Undetermined"}
Statuses  == {"Disconnected", "Connecting", "Connected"}
TimerKind == {"PingreqSend", "PingreqRecv", "PingrespRecv"}

ASSUME ConnectionAssumption == /\ MaxId \in Nat \ {0}
                               /\ CountMod \in Nat \ {0}
                               /\ Role \in Roles
                               /\ InitVersion \in Versions

VARIABLES link, ids, sess, flow, lim, alias, ping, opts,
          events,       \* the events the last call returned
          panicked      \* the last call panicked: nothing is called any more

core     == <<ids, sess, flow, lim, alias, opts>>
connVars == <<link, ids, sess, flow, lim, alias, ping, opts, events, panicked>>

V5 == link.protocol_version = "V5"

-----------------------------------------------------------------------------
(***************************************************************************)
(* A call threads `self` through its helpers: the record of the link, the  *)
(* timers and the events pushed so far.                                    *)
(***************************************************************************)
self == [link |-> link, ping |-> ping, ev |-> <<>>]

Out(o) == /\ link' = o.link /\ ping' = o.ping /\ events' = o.ev
          /\ panicked' = FALSE

\* As Out, but arithmetic overflowed: a debug build panics, a release build wraps.
OutUnless(overflow, o) == /\ link' = o.link /\ ping' = o.ping /\ events' = o.ev
                          /\ panicked' \in IF overflow THEN BOOLEAN ELSE {FALSE}

Panic == /\ panicked' = TRUE /\ events' = <<>>
         /\ UNCHANGED <<link, ping, core>>

Push(o, e)           == [o EXCEPT !.ev = Append(@, e)]
NotifyError(o, e)    == Push(o, [event |-> "NotifyError", error |-> e])
RequestClose(o)      == Push(o, [event |-> "RequestClose"])
SendEvent(p, rel)    == [event |-> "RequestSendPacket", packet |-> p, release |-> rel]
RequestSend(o, p, rel) == Push(o, SendEvent(p, rel))
NotifyReceived(o, p) == Push(o, [event |-> "NotifyPacketReceived", packet |-> p])
ReleasedEvent(pids)  == [event |-> "NotifyPacketIdReleased", pids |-> pids]
\* One event stands for the notifications of a batch; its order is a HashSet's.
NotifyReleased(o, pids) == IF pids = {} THEN o ELSE Push(o, ReleasedEvent(pids))

Status(o, s) == [o EXCEPT !.link.status = s]

\* RequestTimerReset and RequestTimerCancel, with the flag they go with.
reset(o, kind, ms) ==
  Push([o EXCEPT !.ping.armed = @ \cup {kind}],
       [event |-> "RequestTimerReset", kind |-> kind, duration_ms |-> ms])
cancel(o, kind) ==
  IF kind \in o.ping.armed
  THEN Push([o EXCEPT !.ping.armed = @ \ {kind}],
            [event |-> "RequestTimerCancel", kind |-> kind])
  ELSE o

\* Mutant: one timer is forgotten.
cancel_timers_KeepsRecv(o) == cancel(cancel(o, "PingreqSend"), "PingrespRecv")

cancel_timers(o) ==
  cancel(cancel(cancel(o, "PingreqSend"), "PingreqRecv"), "PingrespRecv")

refresh_pingreq_recv(o) ==
  IF o.ping.pingreq_recv_timeout_ms # 0
  THEN reset(o, "PingreqRecv", o.ping.pingreq_recv_timeout_ms) ELSE o

\* The interval of the PINGREQ timer: the user's, the server's, the client's.
pingreq_interval(o) ==
  IF opts.pingreq_user_send_interval_ms # None
  THEN opts.pingreq_user_send_interval_ms
  ELSE IF o.ping.pingreq_server_keep_alive_ms # None
       THEN o.ping.pingreq_server_keep_alive_ms
       ELSE o.ping.pingreq_keep_alive_ms

\* Mutant: an interval of 0 is not taken for "no PINGREQ".
send_post_process_AnyInterval(o) ==
  IF o.link.is_client THEN reset(o, "PingreqSend", pingreq_interval(o)) ELSE o

send_post_process(o) ==
  IF o.link.is_client /\ pingreq_interval(o) > 0
  THEN reset(o, "PingreqSend", pingreq_interval(o)) ELSE o

\* ~validate_maximum_packet_size_send, which only the v5.0 handlers call.
TooLarge(size) == V5 /\ size > lim.send

\* A packet that is only checked and sent: the acknowledgements and PINGRESP.
CanSend(o, p) == ~TooLarge(p.size) /\ o.link.status = "Connected"
send_response(o, p) ==
  IF TooLarge(p.size) THEN NotifyError(o, "PacketTooLarge")
  ELSE IF ~CanSend(o, p) THEN NotifyError(o, "PacketNotAllowedToSend")
  ELSE send_post_process(RequestSend(o, p, 0))

Ack(type, pid) == [type |-> type, pid |-> pid, ok |-> TRUE, size |-> AckSize]
Plain(type)    == [type |-> type, size |-> AckSize]

disconnect(o, p) ==
  IF TooLarge(p.size) THEN NotifyError(o, "PacketTooLarge")
  ELSE IF o.link.status # "Connected" THEN NotifyError(o, "PacketNotAllowedToSend")
  ELSE RequestClose(RequestSend(cancel_timers(Status(o, "Disconnected")), p, 0))

pingreq(o, p) ==
  IF ~CanSend(o, p) THEN send_response(o, p)
  ELSE LET sent == RequestSend(o, p, 0)
       IN  send_post_process(IF opts.pingresp_recv_timeout_ms # 0
                             THEN reset(sent, "PingrespRecv", opts.pingresp_recv_timeout_ms)
                             ELSE sent)

\* handle_v3_1_1_error and handle_v5_0_error.
handle_error(o, e) ==
  IF V5 THEN NotifyError(disconnect(o, Plain("disconnect")), e)
  ELSE NotifyError(RequestClose(o), e)

-----------------------------------------------------------------------------
(***************************************************************************)
(* connection/store.rs: packets awaiting acknowledgement, by packet id, in *)
(* insertion order.                                                        *)
(***************************************************************************)
in_store(s, pid) == \E i \in DOMAIN s : s[i].pid = pid

\* The acknowledgement that removes a stored packet.
response_packet(p) == IF p.type = "pubrel" THEN "pubcomp"
                      ELSE IF p.qos = 1 THEN "puback" ELSE "pubrec"

erasable(s, response, pid) ==
  {i \in DOMAIN s : s[i].pid = pid /\ response_packet(s[i]) = response}

\* Mutant: the acknowledged packet stays in the store.
erase_Nothing(s, response, pid) == s

erase(s, response, pid) ==
  IF erasable(s, response, pid) = {} THEN s
  ELSE RemoveAt(s, CHOOSE i \in erasable(s, response, pid) : TRUE)

\* PUBLISH with dup set and its topic instead of an alias, or PUBREL.
StoredPublish(p, topic) == [type |-> "publish", qos |-> p.qos, pid |-> p.pid,
                            size |-> p.size, topic |-> topic, alias |-> 0]

\* send_stored: what is over the peer's size limit is dropped, the rest sent.
oversize(max) == {i \in DOMAIN sess.store : sess.store[i].size > max}
dropped_ids(max) == {sess.store[i].pid : i \in oversize(max)}
\* Mutant: the store is kept and not sent.
send_stored_Nothing(o, max) == o

send_stored(o, max) ==
  [o EXCEPT !.ev = @ \o [i \in DOMAIN sess.store |->
      IF i \in oversize(max) THEN ReleasedEvent({sess.store[i].pid})
      ELSE SendEvent(sess.store[i], 0)]]
kept_store(max) ==
  LET kept   == DOMAIN sess.store \ oversize(max)
      nth(k) == CHOOSE i \in kept : Cardinality({j \in kept : j <= i}) = k
  IN  IF oversize(max) = {} THEN sess.store
      ELSE [k \in 1..Cardinality(kept) |-> sess.store[nth(k)]]
\* release_id of the greatest id when it is free overflows (ValueAllocator).
release_overflows(max) == MaxId \in dropped_ids(max) \ ids.man

-----------------------------------------------------------------------------
NoIds == [man |-> {}, suback |-> {}, unsuback |-> {},
          puback |-> {}, pubrec |-> {}, pubcomp |-> {}]

ConnInit ==
  /\ link = [status |-> "Disconnected", is_client |-> FALSE,
             protocol_version |-> InitVersion]
  /\ ids  = NoIds
  /\ sess = [need_store |-> FALSE, store |-> <<>>, qos2_publish_handled |-> {}]
  /\ flow = [send_max |-> None, send_count |-> 0, recv_max |-> None, recv |-> {}]
  /\ lim  = [send |-> NoLimit, recv |-> NoLimit]
  /\ alias = [send |-> NoTopicAliasSend, recv |-> NoTopicAliasRecv]
  /\ ping = [pingreq_keep_alive_ms |-> 0, pingreq_server_keep_alive_ms |-> None,
             pingreq_recv_timeout_ms |-> 0, armed |-> {}]
  /\ opts = [offline_publish |-> FALSE, auto_pub_response |-> FALSE,
             auto_ping_response |-> FALSE, auto_map_topic_alias_send |-> FALSE,
             auto_replace_topic_alias_send |-> FALSE,
             pingreq_user_send_interval_ms |-> None, pingresp_recv_timeout_ms |-> 0]
  /\ events = <<>>
  /\ panicked = FALSE

\* initialize, the part of it on each record.
initialize_ids(i)  == [i EXCEPT !.suback = {}, !.unsuback = {}]
\* Mutant: publish_send_count is not reset.
initialize_flow_KeepsCount ==
  [send_max |-> None, send_count |-> flow.send_count, recv_max |-> None, recv |-> {}]
initialize_flow    == [send_max |-> None, send_count |-> 0, recv_max |-> None, recv |-> {}]
initialize_self(o, is_client) ==
  [o EXCEPT !.link.is_client = is_client,
            !.ping.pingreq_keep_alive_ms = 0,
            !.ping.pingreq_server_keep_alive_ms = None]

\* Mutants of clear_ids: pid_man or pid_pubcomp is not cleared.
clear_ids_KeepsMan(i)     == [i EXCEPT !.puback = {}, !.pubrec = {}, !.pubcomp = {}]
clear_ids_KeepsPubcomp(i) == [i EXCEPT !.man = {}, !.puback = {}, !.pubrec = {}]

\* clear_store_related, on the ids; the store becomes empty with it.
clear_ids(i) == [i EXCEPT !.man = {}, !.puback = {}, !.pubrec = {}, !.pubcomp = {}]

\* The value of a property, or what it leaves in place when it is absent.
Prop(val, old) == IF val = None THEN old ELSE val

-----------------------------------------------------------------------------
(***************************************************************************)
(* send(): the packets the role and the version allow; the rest are errors *)
(* that change nothing.                                                    *)
(***************************************************************************)
\* send() first compares the versions.  In the model CONNECT tells its version and
\* only v5.0 has AUTH; the application makes its other packets for the connection's.
wrong_version(p) ==
  \/ link.protocol_version = "Undetermined"
  \/ p.type = "auth" /\ ~V5
  \/ p.type = "connect" /\ p.version # link.protocol_version

may_send(p) ==
  /\ ~wrong_version(p)
  /\ Role = "Client" => p.type \notin {"connack", "suback", "unsuback", "pingresp"}
  /\ Role = "Server" => /\ p.type \notin {"connect", "subscribe", "unsubscribe", "pingreq"}
                        /\ p.type = "disconnect" => V5

send_refused(p) ==
  /\ ~may_send(p)
  /\ Out(NotifyError(self, IF wrong_version(p) THEN "VersionMismatch"
                           ELSE "PacketNotAllowedToSend"))
  /\ UNCHANGED core

process_send_connect(p) ==
  \/ /\ TooLarge(p.size) \/ link.status # "Disconnected"
     /\ Out(NotifyError(self, IF TooLarge(p.size) THEN "PacketTooLarge"
                              ELSE "PacketNotAllowedToSend"))
     /\ UNCHANGED core
  \/ /\ ~TooLarge(p.size) /\ link.status = "Disconnected"
     /\ ids'  = IF p.clean THEN clear_ids(initialize_ids(ids)) ELSE initialize_ids(ids)
     /\ sess' = [sess EXCEPT !.need_store = IF V5 THEN Prop(p.expiry, 0) # 0 ELSE ~p.clean,
                             !.store = IF p.clean THEN <<>> ELSE @]
     /\ flow' = [initialize_flow EXCEPT !.recv_max = p.recv_max]
     /\ lim'  = [lim EXCEPT !.recv = Prop(p.max_size, @)]
     /\ alias' = [send |-> NoTopicAliasSend, recv |-> TopicAliasRecv(Prop(p.ta_max, 0))]
     /\ Out(LET started == Status(initialize_self(self, TRUE), "Connecting")
            IN  send_post_process(RequestSend(
                  [started EXCEPT !.ping.pingreq_keep_alive_ms = p.keep_alive], p, 0)))
     /\ UNCHANGED opts

\* The tail of process_send_connack for a refusal.
refuse_connack(o, p) ==
  RequestClose(cancel_timers(Status(RequestSend(o, p, 0), "Disconnected")))

process_send_connack(p) ==
  \/ /\ TooLarge(p.size) \/ link.status # "Connecting"
     /\ Out(NotifyError(self, IF TooLarge(p.size) THEN "PacketTooLarge"
                              ELSE "PacketNotAllowedToSend"))
     /\ UNCHANGED core
  \/ /\ ~TooLarge(p.size) /\ link.status = "Connecting" /\ ~p.ok
     /\ Out(refuse_connack(self, p))
     /\ UNCHANGED core
  \/ /\ ~TooLarge(p.size) /\ link.status = "Connecting" /\ p.ok
     /\ alias' = IF Prop(p.ta_max, 0) = 0 THEN alias
                 ELSE [alias EXCEPT !.recv = TopicAliasRecv(p.ta_max)]
     /\ flow' = [flow EXCEPT !.recv_max = Prop(p.recv_max, @)]
     /\ lim'  = [lim EXCEPT !.recv = Prop(p.max_size, @)]
     /\ ids'  = [ids EXCEPT !.man = @ \ dropped_ids(lim.send)]
     /\ sess' = [sess EXCEPT !.store = kept_store(lim.send)]
     /\ LET timeout == IF p.server_keep_alive = None THEN ping.pingreq_recv_timeout_ms
                       ELSE p.server_keep_alive
            timed   == [self EXCEPT !.ping.pingreq_recv_timeout_ms = timeout]
            armed   == IF p.server_keep_alive = None THEN timed
                       ELSE IF p.server_keep_alive = 0 THEN cancel(timed, "PingreqRecv")
                       ELSE reset(timed, "PingreqRecv", timeout)
        IN  OutUnless(release_overflows(lim.send),
              send_post_process(send_stored(
                Status(RequestSend(armed, p, 0), "Connected"), lim.send)))
     /\ UNCHANGED opts

-----------------------------------------------------------------------------
(***************************************************************************)
(* PUBLISH.  i is the ids record at the point of an early return.          *)
(***************************************************************************)
refuse_and_release(i, e, pid) ==
  /\ ids' = [i EXCEPT !.man = @ \ {pid}]
  /\ Out(NotifyReleased(NotifyError(self, e), {pid} \cap i.man))

\* Mutant: nothing is stored before CONNACK.
stores_publish_Connected(p) == p.qos > 0 /\ sess.need_store /\ link.status = "Connected"

\* The packet goes to the store, rather than only to the transport.
stores_publish(p) == /\ p.qos > 0 /\ sess.need_store
                     /\ link.status # "Disconnected" \/ opts.offline_publish

\* validate_topic_alias and validate_topic_alias_range, for the packet's alias.
alias_usable(p) ==
  V5 => IF p.topic = NoTopic THEN has_alias(alias.send, p.alias)
        ELSE p.alias = 0 \/ p.alias \in MIN_ALIAS..alias.send.max

\* Mutant: auto replace allocates aliases as auto map does.
auto_alias_Allocates(p) ==
  IF ~(V5 /\ link.status = "Connected" /\ alias.send.max > 0
          /\ p.topic # NoTopic /\ p.alias = 0) THEN 0
  ELSE IF opts.auto_map_topic_alias_send \/ opts.auto_replace_topic_alias_send
       THEN IF find_by_topic(alias.send, p.topic) # 0
            THEN find_by_topic(alias.send, p.topic) ELSE get_lru_alias(alias.send)
       ELSE 0

\* The alias that auto map or auto replace puts in the place of the topic.
auto_alias(p) ==
  IF ~(V5 /\ link.status = "Connected" /\ alias.send.max > 0
          /\ p.topic # NoTopic /\ p.alias = 0) THEN 0
  ELSE IF opts.auto_map_topic_alias_send \/ opts.auto_replace_topic_alias_send
       THEN IF find_by_topic(alias.send, p.topic) # 0
            THEN find_by_topic(alias.send, p.topic)
            ELSE IF opts.auto_map_topic_alias_send
                 THEN get_lru_alias(alias.send) ELSE 0
       ELSE 0

alias_after_publish(p) ==
  CASE p.topic = NoTopic -> touch(alias.send, p.alias)
    [] p.topic # NoTopic /\ p.alias # 0 -> insert_or_update(alias.send, p.topic, p.alias)
    [] p.topic # NoTopic /\ p.alias = 0 ->
         IF auto_alias(p) # 0 /\ find_by_topic(alias.send, p.topic) = 0
         THEN insert_or_update(alias.send, p.topic, auto_alias(p)) ELSE alias.send

\* The packet as it is sent.
wire_publish(p) ==
  IF auto_alias(p) = 0 THEN p ELSE [p EXCEPT !.topic = NoTopic, !.alias = auto_alias(p)]

\* Mutant: a QoS 2 PUBLISH awaits PUBACK.
attach_publish_OnlyPuback(p) ==
  [ids EXCEPT !.puback = IF p.qos > 0 THEN @ \cup {p.pid} ELSE @]

attach_publish(p) ==
  [ids EXCEPT !.puback = IF p.qos = 1 THEN @ \cup {p.pid} ELSE @,
              !.pubrec = IF p.qos = 2 THEN @ \cup {p.pid} ELSE @]

\* Mutant: a QoS 1 PUBLISH is not counted.
limited_OnlyQos2(p) == p.qos = 2 /\ flow.send_max # None

limited(p) == p.qos > 0 /\ flow.send_max # None
add_count(d) == [flow EXCEPT !.send_count = (@ + d) % CountMod]
overflows(d) == flow.send_count + d \notin 0..(CountMod - 1)

\* After the id is attached: the alias, the receive maximum, the transport.
publish_attached(p) ==
  \/ /\ ~alias_usable(p)
     /\ refuse_and_release(attach_publish(p), "PacketNotAllowedToSend", p.pid)
     /\ UNCHANGED <<flow, alias>>
  \/ /\ alias_usable(p) /\ limited(p) /\ flow.send_count = flow.send_max
     /\ alias' = [alias EXCEPT !.send = alias_after_publish(p)]
     /\ refuse_and_release(attach_publish(p), "ReceiveMaximumExceeded", p.pid)
     /\ UNCHANGED flow
  \/ /\ alias_usable(p) /\ ~(limited(p) /\ flow.send_count = flow.send_max)
     /\ alias' = [alias EXCEPT !.send = alias_after_publish(p)]
     /\ ids' = attach_publish(p)
     /\ flow' = IF limited(p) THEN add_count(1) ELSE flow
     /\ OutUnless(limited(p) /\ overflows(1),
          IF link.status # "Connected" THEN self
          ELSE send_post_process(RequestSend(self, wire_publish(p),
                 IF p.qos > 0 /\ ~stores_publish(p) THEN p.pid ELSE 0)))

\* The packet passed the checks on its size, the status and its id.
publish_accepted(p) ==
  LET unresolved == V5 /\ p.topic = NoTopic /\ ~has_alias(alias.send, p.alias)
      topic == IF p.topic = NoTopic THEN peek(alias.send, p.alias) ELSE p.topic
  IN  \/ /\ stores_publish(p) /\ unresolved
         /\ refuse_and_release(ids, "PacketNotAllowedToSend", p.pid)
         /\ UNCHANGED <<sess, flow, alias>>
      \/ \* store.add(..).unwrap(): the id is in the store already
         stores_publish(p) /\ ~unresolved /\ in_store(sess.store, p.pid) /\ Panic
      \/ /\ ~(stores_publish(p) /\ (unresolved \/ in_store(sess.store, p.pid)))
         /\ sess' = IF stores_publish(p)
                    THEN [sess EXCEPT !.store = Append(@, StoredPublish(p, topic))]
                    ELSE sess
         /\ publish_attached(p)

process_send_publish(p) ==
  LET allowed == IF p.qos = 0 THEN link.status = "Connected"
                 ELSE link.status = "Connected" \/ sess.need_store \/ opts.offline_publish
  IN  /\ \/ /\ TooLarge(p.size)
            /\ Out(NotifyError(self, "PacketTooLarge"))
            /\ UNCHANGED <<ids, sess, flow, alias>>
         \/ /\ ~TooLarge(p.size) /\ ~allowed
            /\ refuse_and_release(ids, "PacketNotAllowedToSend", p.pid)
            /\ UNCHANGED <<sess, flow, alias>>
         \/ /\ ~TooLarge(p.size) /\ allowed /\ p.qos > 0 /\ p.pid \notin ids.man
            /\ Out(NotifyError(self, "PacketIdentifierInvalid"))
            /\ UNCHANGED <<ids, sess, flow, alias>>
         \/ /\ ~TooLarge(p.size) /\ allowed /\ (p.qos > 0 => p.pid \in ids.man)
            /\ publish_accepted(p)
      /\ UNCHANGED <<lim, opts>>

-----------------------------------------------------------------------------
(***************************************************************************)
(* The acknowledgements of PUBLISH, sent by the application or, under      *)
(* auto_pub_response, by the receiving handlers.                           *)
(***************************************************************************)
\* PUBACK and PUBCOMP end the exchange of a received PUBLISH.
flow_after_ack(o, p, f) ==
  IF V5 /\ CanSend(o, p) THEN [f EXCEPT !.recv = @ \ {p.pid}] ELSE f

process_send_puback(p) ==
  /\ flow' = flow_after_ack(self, p, flow)
  /\ Out(send_response(self, p))
  /\ UNCHANGED <<ids, sess, lim, alias, opts>>

process_send_pubcomp(p) ==
  /\ flow' = flow_after_ack(self, p, flow)
  /\ Out(send_response(self, p))
  /\ UNCHANGED <<ids, sess, lim, alias, opts>>

\* A PUBREC that reports a failure ends the exchange as well.
process_send_pubrec(p) ==
  LET ends == V5 /\ CanSend(self, p) /\ ~p.ok
  IN  /\ flow' = IF ends THEN [flow EXCEPT !.recv = @ \ {p.pid}] ELSE flow
      /\ sess' = IF ends THEN [sess EXCEPT !.qos2_publish_handled = @ \ {p.pid}] ELSE sess
      /\ Out(send_response(self, p))
      /\ UNCHANGED <<ids, lim, alias, opts>>

\* process_send_pubrel from the state o, i, s: the state it leads to.
pubrel(o, i, s, p) ==
  LET same(e) == [out |-> NotifyError(o, e), ids |-> i, sess |-> s, panics |-> FALSE]
      connected == o.link.status = "Connected"
  IN  CASE TooLarge(p.size) -> same("PacketTooLarge")
        [] ~TooLarge(p.size) /\ ~connected /\ ~s.need_store ->
             same("PacketNotAllowedToSend")
        [] ~TooLarge(p.size) /\ (connected \/ s.need_store) /\ p.pid \notin i.man ->
             same("PacketIdentifierInvalid")
        [] OTHER ->
             [out  |-> send_post_process(IF connected THEN RequestSend(o, p, 0) ELSE o),
              ids  |-> IF connected THEN [i EXCEPT !.pubcomp = @ \cup {p.pid}] ELSE i,
              sess |-> IF s.need_store THEN [s EXCEPT !.store = Append(@, p)] ELSE s,
              panics |-> s.need_store /\ in_store(s.store, p.pid)]

process_send_pubrel(p) ==
  LET r == pubrel(self, ids, sess, p)
  IN  \/ r.panics /\ Panic
      \/ /\ ~r.panics
         /\ ids' = r.ids /\ sess' = r.sess
         /\ Out(r.out)
         /\ UNCHANGED <<flow, lim, alias, opts>>

-----------------------------------------------------------------------------
\* SUBSCRIBE and UNSUBSCRIBE: `attached` is ids with the response awaited.
send_request(p, attached) ==
  /\ \/ /\ TooLarge(p.size)
        /\ Out(NotifyError(self, "PacketTooLarge")) /\ UNCHANGED ids
     \/ /\ ~TooLarge(p.size) /\ link.status # "Connected"
        /\ refuse_and_release(ids, "PacketNotAllowedToSend", p.pid)
     \/ /\ ~TooLarge(p.size) /\ link.status = "Connected" /\ p.pid \notin ids.man
        /\ Out(NotifyError(self, "PacketIdentifierInvalid")) /\ UNCHANGED ids
     \/ /\ ~TooLarge(p.size) /\ link.status = "Connected" /\ p.pid \in ids.man
        /\ ids' = attached
        /\ Out(send_post_process(RequestSend(self, p, p.pid)))
  /\ UNCHANGED <<sess, flow, lim, alias, opts>>

process_send_subscribe(p) ==
  send_request(p, [ids EXCEPT !.suback = @ \cup {p.pid}])

process_send_unsubscribe(p) ==
  send_request(p, [ids EXCEPT !.unsuback = @ \cup {p.pid}])

process_send_suback(p)   == Out(send_response(self, p)) /\ UNCHANGED core
process_send_unsuback(p) == Out(send_response(self, p)) /\ UNCHANGED core
process_send_pingresp(p) == Out(send_response(self, p)) /\ UNCHANGED core
process_send_pingreq(p)  == Out(pingreq(self, p)) /\ UNCHANGED core
process_send_disconnect(p) == Out(disconnect(self, p)) /\ UNCHANGED core

process_send_auth(p) ==
  /\ Out(IF TooLarge(p.size) THEN NotifyError(self, "PacketTooLarge")
         ELSE IF link.status = "Disconnected" THEN NotifyError(self, "PacketNotAllowedToSend")
         ELSE send_post_process(RequestSend(self, p, 0)))
  /\ UNCHANGED core

-----------------------------------------------------------------------------
(***************************************************************************)
(* recv(): a framing error of the PacketBuilder, then the checks that      *)
(* process_recv_packet makes on every packet.                              *)
(***************************************************************************)
recv_framing_error ==
  /\ Out(NotifyError(RequestClose(cancel_timers(self)), "MalformedPacket"))
  /\ UNCHANGED core

can_receive(type) ==
  /\ Role = "Client" =>
       /\ type \notin {"connect", "subscribe", "unsubscribe", "pingreq"}
       /\ link.protocol_version = "V3" => type \notin {"disconnect", "auth"}
  /\ Role = "Server" =>
       /\ type \notin {"connack", "suback", "unsuback", "pingresp"}
       /\ link.protocol_version = "V3" => type # "auth"

\* The version has a handler for the packet.
handled_type(type) ==
  CASE link.protocol_version = "Undetermined" -> type = "connect"
    [] link.protocol_version = "V3" -> type # "auth"
    [] link.protocol_version = "V5" -> TRUE

accepts(p) == p.size <= lim.recv /\ can_receive(p.type) /\ handled_type(p.type)

recv_refused(p) ==
  /\ \/ /\ p.size > lim.recv
        /\ Out(NotifyError(disconnect(self, Plain("disconnect")), "PacketTooLarge"))
     \/ /\ p.size <= lim.recv /\ ~can_receive(p.type)
        /\ Out(NotifyError(self, "ProtocolError"))
     \/ /\ p.size <= lim.recv /\ can_receive(p.type) /\ ~handled_type(p.type)
        /\ Out(NotifyError(self, "MalformedPacket"))
  /\ UNCHANGED core

\* The handlers' answer to a packet whose body does not parse.  Before the version is
\* decided, and so Disconnected, a CONNECT may be too short to tell its own, and
\* otherwise decides it.
malformed_connect(o) ==
  LET connecting == Status(o, "Connecting")
      over == o.link.protocol_version = "V5" /\ AckSize > lim.send
  IN  IF link.status # "Disconnected" THEN handle_error(o, "ProtocolError")
      ELSE NotifyError(IF over THEN NotifyError(connecting, "PacketTooLarge")
                       ELSE refuse_connack(connecting, Plain("connack")), "MalformedPacket")

recv_malformed(p) ==
  /\ accepts(p)
  /\ \/ /\ link.protocol_version = "Undetermined"
        /\ Out(NotifyError(self, "MalformedPacket"))
     \/ /\ link.protocol_version = "Undetermined" /\ link.status = "Disconnected"
        /\ p.version \in {"V3", "V5"}
        /\ Out(malformed_connect([self EXCEPT !.link.protocol_version = p.version]))
     \/ /\ link.protocol_version # "Undetermined"
        /\ Out(CASE p.type = "connect" -> malformed_connect(self)
                 [] p.type \in {"connack", "publish"} ->
                      IF V5 /\ link.status # "Connected" THEN NotifyError(self, "MalformedPacket")
                      ELSE handle_error(self, "MalformedPacket")
                 [] OTHER -> handle_error(self, "MalformedPacket"))
  /\ UNCHANGED core

\* A CONNECT of a version that is not the connection's does not parse.  The
\* version of a connection made for any version becomes the packet's.
process_recv_connect(p) ==
  LET decided == IF link.protocol_version = "Undetermined"
                 THEN [self EXCEPT !.link.protocol_version = p.version] ELSE self
      v5 == p.version = "V5"
  IN  /\ accepts(p)
      /\ link.protocol_version \in {"Undetermined", p.version}
      /\ \/ /\ p.version \notin {"V3", "V5"}
            /\ Out(NotifyError(self, "UnsupportedProtocolVersion"))
            /\ UNCHANGED core
         \/ /\ p.version \in {"V3", "V5"} /\ link.status # "Disconnected"
            /\ Out(handle_error(self, "ProtocolError"))
            /\ UNCHANGED core
         \/ /\ p.version \in {"V3", "V5"} /\ link.status = "Disconnected"
            /\ v5 /\ p.ta_max = 0      \* TopicAliasSend::new(0) asserts 1 <= 0
            /\ Panic
         \/ /\ p.version \in {"V3", "V5"} /\ link.status = "Disconnected"
            /\ ~(v5 /\ p.ta_max = 0)
            /\ ids'  = IF p.clean THEN clear_ids(initialize_ids(ids)) ELSE initialize_ids(ids)
            /\ sess' = [sess EXCEPT !.need_store = IF v5 THEN Prop(p.expiry, 0) # 0 ELSE ~p.clean,
                                    !.store = IF p.clean THEN <<>> ELSE @]
            /\ flow' = [initialize_flow EXCEPT !.send_max = p.recv_max]
            /\ lim'  = [lim EXCEPT !.send = Prop(p.max_size, @)]
            /\ alias' = [send |-> TopicAliasSend(Prop(p.ta_max, 0)), recv |-> NoTopicAliasRecv]
            /\ Out(LET started == initialize_self(Status(decided, "Connecting"), FALSE)
                   IN  NotifyReceived(refresh_pingreq_recv(
                         IF p.keep_alive = 0 THEN started
                         ELSE [started EXCEPT !.ping.pingreq_recv_timeout_ms = p.keep_alive]), p))
            /\ UNCHANGED opts

\* The status is not checked.
process_recv_connack(p) ==
  /\ accepts(p)
  /\ \/ ~p.ok /\ Out(NotifyReceived(self, p)) /\ UNCHANGED core
     \/ LET max == Prop(p.max_size, lim.send)
            connected == [Status(self, "Connected") EXCEPT
              !.ping.pingreq_server_keep_alive_ms = Prop(p.server_keep_alive, @)]
            timed == IF p.server_keep_alive = None
                          \/ opts.pingreq_user_send_interval_ms # None THEN connected
                     ELSE IF p.server_keep_alive = 0 THEN cancel(connected, "PingreqSend")
                     ELSE reset(connected, "PingreqSend", p.server_keep_alive)
        IN  /\ p.ok
            /\ alias' = IF Prop(p.ta_max, 0) = 0 THEN alias
                        ELSE [alias EXCEPT !.send = TopicAliasSend(p.ta_max)]
            /\ flow' = [flow EXCEPT !.send_max = Prop(p.recv_max, @)]
            /\ lim'  = [lim EXCEPT !.send = max]
            /\ \/ /\ p.session_present
                  /\ ids'  = [ids EXCEPT !.man = @ \ dropped_ids(max)]
                  /\ sess' = [sess EXCEPT !.store = kept_store(max)]
                  /\ OutUnless(release_overflows(max),
                               NotifyReceived(send_stored(timed, max), p))
               \/ /\ ~p.session_present
                  /\ ids'  = clear_ids(ids)
                  /\ sess' = [sess EXCEPT !.store = <<>>]
                  /\ Out(NotifyReceived(timed, p))
            /\ UNCHANGED opts

\* The alias of a received PUBLISH is in range and, without a topic, known.
recv_alias_valid(p) ==
  V5 => IF p.topic = NoTopic THEN recv_get(alias.recv, p.alias) # NoTopic
        ELSE p.alias = 0 \/ p.alias \in MIN_ALIAS..alias.recv.max

\* Mutant: one PUBLISH too many is admitted.
receive_maximum_exceeded_OneMore(p) ==
  V5 /\ p.qos > 0 /\ flow.recv_max # None /\ Cardinality(flow.recv) > flow.recv_max

receive_maximum_exceeded(p) ==
  V5 /\ p.qos > 0 /\ flow.recv_max # None /\ Cardinality(flow.recv) >= flow.recv_max

process_recv_publish(p) ==
  LET over == receive_maximum_exceeded(p)
      already_handled == p.qos = 2 /\ p.pid \in sess.qos2_publish_handled
      noted == IF V5 /\ p.qos > 0 THEN [flow EXCEPT !.recv = @ \cup {p.pid}] ELSE flow
      responds == /\ link.status = "Connected"
                  /\ \/ p.qos = 1 /\ opts.auto_pub_response
                     \/ p.qos = 2 /\ (opts.auto_pub_response \/ already_handled)
      ack == Ack(IF p.qos = 1 THEN "puback" ELSE "pubrec", p.pid)
      full == IF V5 /\ p.topic = NoTopic
              THEN [p EXCEPT !.topic = recv_get(alias.recv, p.alias)] ELSE p
      refreshed == refresh_pingreq_recv(IF responds THEN send_response(self, ack) ELSE self)
  IN  /\ accepts(p)
      /\ \/ /\ over
            /\ Out(handle_error(self, "ReceiveMaximumExceeded"))
            /\ UNCHANGED <<sess, flow, alias>>
         \/ /\ ~over
            /\ sess' = IF p.qos = 2 THEN [sess EXCEPT !.qos2_publish_handled = @ \cup {p.pid}]
                       ELSE sess
            /\ \/ /\ ~recv_alias_valid(p)
                  /\ flow' = noted
                  /\ Out(handle_error(self, "TopicAliasInvalid"))
                  /\ UNCHANGED alias
               \/ /\ recv_alias_valid(p)
                  /\ alias' = IF V5 /\ p.topic # NoTopic /\ p.alias # 0
                              THEN [alias EXCEPT !.recv =
                                      recv_insert_or_update(@, p.topic, p.alias)]
                              ELSE alias
                  /\ flow' = IF responds /\ p.qos = 1 THEN flow_after_ack(self, ack, noted)
                             ELSE noted
                  /\ Out(IF already_handled THEN refreshed ELSE NotifyReceived(refreshed, full))
      /\ UNCHANGED <<ids, lim, opts>>

\* A response that nothing awaits.
unexpected_response ==
  Out(handle_error(self, "ProtocolError")) /\ UNCHANGED core

\* Mutants: the id is not released; the stored packet is not erased.
response_ends_KeepsId(p, awaiting, counted) ==
  /\ ids' = awaiting
  /\ sess' = [sess EXCEPT !.store = erase(@, p.type, p.pid)]
  /\ flow' = IF counted /\ flow.send_max # None THEN add_count(-1) ELSE flow
  /\ OutUnless(counted /\ flow.send_max # None /\ overflows(-1),
       NotifyReceived(refresh_pingreq_recv(
         NotifyReleased(self, {p.pid} \cap ids.man)), p))
  /\ UNCHANGED <<lim, alias, opts>>

response_ends_KeepsPacket(p, awaiting, counted) ==
  /\ ids' = [awaiting EXCEPT !.man = @ \ {p.pid}]
  /\ UNCHANGED sess
  /\ flow' = IF counted /\ flow.send_max # None THEN add_count(-1) ELSE flow
  /\ OutUnless(counted /\ flow.send_max # None /\ overflows(-1),
       NotifyReceived(refresh_pingreq_recv(
         NotifyReleased(self, {p.pid} \cap ids.man)), p))
  /\ UNCHANGED <<lim, alias, opts>>

\* The end of the exchange: the stored packet is erased and the id is freed.
response_ends(p, awaiting, counted) ==
  /\ ids' = [awaiting EXCEPT !.man = @ \ {p.pid}]
  /\ sess' = [sess EXCEPT !.store = erase(@, p.type, p.pid)]
  /\ flow' = IF counted /\ flow.send_max # None THEN add_count(-1) ELSE flow
  /\ OutUnless(counted /\ flow.send_max # None /\ overflows(-1),
       NotifyReceived(refresh_pingreq_recv(
         NotifyReleased(self, {p.pid} \cap ids.man)), p))
  /\ UNCHANGED <<lim, alias, opts>>

process_recv_puback(p) ==
  /\ accepts(p)
  /\ \/ p.pid \notin ids.puback /\ unexpected_response
     \/ p.pid \in ids.puback /\ response_ends(p, [ids EXCEPT !.puback = @ \ {p.pid}], V5)

process_recv_pubcomp(p) ==
  /\ accepts(p)
  /\ \/ p.pid \notin ids.pubcomp /\ unexpected_response
     \/ p.pid \in ids.pubcomp /\ response_ends(p, [ids EXCEPT !.pubcomp = @ \ {p.pid}], V5)

process_recv_suback(p) ==
  /\ accepts(p)
  /\ \/ p.pid \notin ids.suback /\ unexpected_response
     \/ p.pid \in ids.suback /\ response_ends(p, [ids EXCEPT !.suback = @ \ {p.pid}], FALSE)

process_recv_unsuback(p) ==
  /\ accepts(p)
  /\ \/ p.pid \notin ids.unsuback /\ unexpected_response
     \/ p.pid \in ids.unsuback /\ response_ends(p, [ids EXCEPT !.unsuback = @ \ {p.pid}], FALSE)

process_recv_pubrec(p) ==
  LET awaiting == [ids EXCEPT !.pubrec = @ \ {p.pid}]
      erased == [sess EXCEPT !.store = erase(@, "pubrec", p.pid)]
      r == IF opts.auto_pub_response /\ link.status = "Connected"
           THEN pubrel(self, awaiting, erased, Ack("pubrel", p.pid))
           ELSE [out |-> self, ids |-> awaiting, sess |-> erased, panics |-> FALSE]
  IN  /\ accepts(p)
      /\ \/ p.pid \notin ids.pubrec /\ unexpected_response
         \/ /\ p.pid \in ids.pubrec /\ V5 /\ ~p.ok
            /\ response_ends(p, awaiting, TRUE)
         \/ p.pid \in ids.pubrec /\ ~(V5 /\ ~p.ok) /\ r.panics /\ Panic
         \/ /\ p.pid \in ids.pubrec /\ ~(V5 /\ ~p.ok) /\ ~r.panics
            /\ ids' = r.ids /\ sess' = r.sess
            /\ Out(NotifyReceived(refresh_pingreq_recv(r.out), p))
            /\ UNCHANGED <<flow, lim, alias, opts>>

\* Mutant: the id is still taken for that of a handled message.
process_recv_pubrel_KeepsHandled(p) ==
  LET answers == opts.auto_pub_response /\ link.status = "Connected"
  IN  /\ accepts(p)
      /\ flow' = IF answers THEN flow_after_ack(self, Ack("pubcomp", p.pid), flow) ELSE flow
      /\ Out(NotifyReceived(refresh_pingreq_recv(
               IF answers THEN send_response(self, Ack("pubcomp", p.pid)) ELSE self), p))
      /\ UNCHANGED <<ids, sess, lim, alias, opts>>

process_recv_pubrel(p) ==
  LET answers == opts.auto_pub_response /\ link.status = "Connected"
      found   == ~V5 \/ p.pid \in sess.qos2_publish_handled
      pubcomp == [Ack("pubcomp", p.pid) EXCEPT !.ok = found]
  IN  /\ accepts(p)
      /\ sess' = [sess EXCEPT !.qos2_publish_handled = @ \ {p.pid}]
      /\ flow' = IF answers THEN flow_after_ack(self, pubcomp, flow) ELSE flow
      /\ Out(NotifyReceived(refresh_pingreq_recv(
               IF answers THEN send_response(self, pubcomp) ELSE self), p))
      /\ UNCHANGED <<ids, lim, alias, opts>>

\* SUBSCRIBE, UNSUBSCRIBE and AUTH only refresh the timer.
process_recv_notified(p) ==
  /\ accepts(p)
  /\ Out(NotifyReceived(refresh_pingreq_recv(self), p)) /\ UNCHANGED core

process_recv_pingreq(p) ==
  LET answers == /\ Role \in {"Server", "Any"} /\ ~link.is_client
                 /\ opts.auto_ping_response /\ link.status = "Connected"
  IN  /\ accepts(p)
      /\ Out(NotifyReceived(refresh_pingreq_recv(
               IF answers THEN send_response(self, Plain("pingresp")) ELSE self), p))
      /\ UNCHANGED core

process_recv_pingresp(p) ==
  /\ accepts(p)
  /\ Out(NotifyReceived(cancel(self, "PingrespRecv"), p)) /\ UNCHANGED core

\* The status stays Connected until the transport reports the close.
process_recv_disconnect(p) ==
  /\ accepts(p)
  /\ Out(NotifyReceived(cancel_timers(self), p)) /\ UNCHANGED core

-----------------------------------------------------------------------------
(***************************************************************************)
(* The calls that are neither send() nor recv().                           *)
(***************************************************************************)
\* Mutant: the flag of a timer that fired stays set.
notify_timer_fired_KeepsFlag(kind) ==
  /\ Out(IF kind # "PingreqSend" THEN RequestClose(self)
         ELSE IF link.status = "Connected" THEN pingreq(self, Plain("pingreq")) ELSE self)
  /\ UNCHANGED core

\* Mutant: a timer that fires before CONNACK has no effect.
notify_timer_fired_OnlyConnected(kind) ==
  LET fired == [self EXCEPT !.ping.armed = @ \ {kind}]
  IN  /\ Out(IF link.status # "Connected" THEN fired
             ELSE IF kind = "PingreqSend" THEN pingreq(fired, Plain("pingreq"))
             ELSE IF V5 THEN disconnect(fired, Plain("disconnect")) ELSE RequestClose(fired))
      /\ UNCHANGED core

\* Without a version, which no timer precedes, the code has unreachable!().
notify_timer_fired(kind) ==
  LET fired == [self EXCEPT !.ping.armed = @ \ {kind}]
      connected == link.status = "Connected"
  IN  /\ \/ /\ kind = "PingreqSend"
            /\ Out(IF connected THEN pingreq(fired, Plain("pingreq")) ELSE fired)
         \/ /\ kind # "PingreqSend" /\ link.protocol_version # "Undetermined"
            /\ Out(IF ~V5 THEN RequestClose(fired)
                   ELSE IF connected THEN disconnect(fired, Plain("disconnect")) ELSE fired)
      /\ UNCHANGED core

\* Mutants: the exchanges of a session are not awaited any more; the handled ids are
\* forgotten with the transport.
notify_closed_DropsAwaited ==
  /\ lim' = [send |-> NoLimit, recv |-> NoLimit]
  /\ alias' = [send |-> NoTopicAliasSend, recv |-> NoTopicAliasRecv]
  /\ ids' = [NoIds EXCEPT !.man = IF sess.need_store THEN ids.man ELSE {}]
  /\ Out(cancel_timers(Status(self, "Disconnected")))
  /\ UNCHANGED <<sess, flow, opts>>

notify_closed_Forgets ==
  /\ lim' = [send |-> NoLimit, recv |-> NoLimit]
  /\ alias' = [send |-> NoTopicAliasSend, recv |-> NoTopicAliasRecv]
  /\ sess' = [sess EXCEPT !.qos2_publish_handled = {}]
  /\ Out(cancel_timers(Status(self, "Disconnected")))
  /\ UNCHANGED <<ids, flow, opts>>

notify_closed ==
  LET requests == ids.suback \cup ids.unsuback
      exchanges == IF sess.need_store THEN {} ELSE ids.puback \cup ids.pubrec \cup ids.pubcomp
      released == (requests \cup exchanges) \cap ids.man
      drained == [ids EXCEPT !.man = @ \ released, !.suback = {}, !.unsuback = {}]
  IN  /\ lim' = [send |-> NoLimit, recv |-> NoLimit]
      /\ alias' = [send |-> NoTopicAliasSend, recv |-> NoTopicAliasRecv]
      /\ ids' = IF sess.need_store THEN drained
                ELSE [drained EXCEPT !.puback = {}, !.pubrec = {}, !.pubcomp = {}]
      /\ sess' = IF sess.need_store THEN sess ELSE [sess EXCEPT !.qos2_publish_handled = {}]
      /\ Out(cancel_timers(NotifyReleased(Status(self, "Disconnected"), released)))
      /\ UNCHANGED <<flow, opts>>

set_pingreq_send_interval(ms) ==
  /\ opts' = [opts EXCEPT !.pingreq_user_send_interval_ms = ms]
  /\ Out(IF ms = None THEN self
         ELSE IF ms = 0 THEN cancel(self, "PingreqSend")
         ELSE IF link.status = "Connected" THEN reset(self, "PingreqSend", ms) ELSE self)
  /\ UNCHANGED <<ids, sess, flow, lim, alias>>

set_offline_publish(enable) ==
  /\ opts' = [opts EXCEPT !.offline_publish = enable]
  /\ sess' = IF enable THEN [sess EXCEPT !.need_store = TRUE] ELSE sess
  /\ Out(self)
  /\ UNCHANGED <<ids, flow, lim, alias>>

\* The other setters assign the option of that name.
set_option(name, val) ==
  /\ opts' = [opts EXCEPT ![name] = val]
  /\ Out(self)
  /\ UNCHANGED <<ids, sess, flow, lim, alias>>

free_ids == PacketIds \ ids.man

\* Ok(pid); the error of an exhausted range is acquire_fails.
acquire_packet_id(pid) ==
  /\ pid \in free_ids /\ \A other \in free_ids : pid <= other
  /\ ids' = [ids EXCEPT !.man = @ \cup {pid}]
  /\ Out(self)
  /\ UNCHANGED <<sess, flow, lim, alias, opts>>

acquire_fails == free_ids = {} /\ Out(self) /\ UNCHANGED core

register_packet_id(pid) ==
  /\ ids' = [ids EXCEPT !.man = @ \cup {pid}]
  /\ Out(self)
  /\ UNCHANGED <<sess, flow, lim, alias, opts>>

release_packet_id(pid) ==
  /\ ids' = [ids EXCEPT !.man = @ \ {pid}]
  /\ Out(NotifyReleased(self, {pid} \cap ids.man))
  /\ UNCHANGED <<sess, flow, lim, alias, opts>>

\* Mutant: the ids are not registered with pid_man.
restored_ids_Unregistered(packets) ==
  LET with(response) == {packets[i].pid : i \in {j \in DOMAIN packets :
                                response_packet(packets[j]) = response}}
  IN  [NoIds EXCEPT !.puback = with("puback"), !.pubrec = with("pubrec"),
                    !.pubcomp = with("pubcomp")]

\* restore_packets: every packet awaits its response and registers its id.
restored_ids(packets) ==
  LET with(response) == {packets[i].pid : i \in {j \in DOMAIN packets :
                                response_packet(packets[j]) = response}}
  IN  [NoIds EXCEPT !.man = {packets[i].pid : i \in DOMAIN packets},
                    !.puback = with("puback"), !.pubrec = with("pubrec"),
                    !.pubcomp = with("pubcomp")]

\* new(), then restore_packets and restore_qos2_publish_handled with what the
\* application kept: packets with distinct ids, none of them in use yet.  The
\* application configures the new connection as it did the old one.
restore(packets, pids) ==
  /\ ids'  = restored_ids(packets)
  /\ sess' = [need_store |-> opts.offline_publish, store |-> packets, qos2_publish_handled |-> pids]
  /\ link' = [status |-> "Disconnected", is_client |-> FALSE,
              protocol_version |-> InitVersion]
  /\ flow' = initialize_flow
  /\ lim'  = [send |-> NoLimit, recv |-> NoLimit]
  /\ alias' = [send |-> NoTopicAliasSend, recv |-> NoTopicAliasRecv]
  /\ ping' = [pingreq_keep_alive_ms |-> 0, pingreq_server_keep_alive_ms |-> None,
              pingreq_recv_timeout_ms |-> 0, armed |-> {}]
  /\ events' = <<>> /\ panicked' = FALSE
  /\ UNCHANGED opts

-----------------------------------------------------------------------------
\* The dispatch of send() and of process_recv_packet on the packet's type.
send(p) ==
  \/ send_refused(p)
  \/ /\ may_send(p)
     /\ \/ p.type = "connect" /\ process_send_connect(p)
        \/ p.type = "connack" /\ process_send_connack(p)
        \/ p.type = "publish" /\ process_send_publish(p)
        \/ p.type = "puback" /\ process_send_puback(p)
        \/ p.type = "pubrec" /\ process_send_pubrec(p)
        \/ p.type = "pubrel" /\ process_send_pubrel(p)
        \/ p.type = "pubcomp" /\ process_send_pubcomp(p)
        \/ p.type = "subscribe" /\ process_send_subscribe(p)
        \/ p.type = "suback" /\ process_send_suback(p)
        \/ p.type = "unsubscribe" /\ process_send_unsubscribe(p)
        \/ p.type = "unsuback" /\ process_send_unsuback(p)
        \/ p.type = "pingreq" /\ process_send_pingreq(p)
        \/ p.type = "pingresp" /\ process_send_pingresp(p)
        \/ p.type = "disconnect" /\ process_send_disconnect(p)
        \/ p.type = "auth" /\ process_send_auth(p)

recv(p) ==
  \/ recv_refused(p)
  \/ p.type = "connect" /\ process_recv_connect(p)
  \/ p.type = "connack" /\ process_recv_connack(p)
  \/ p.type = "publish" /\ process_recv_publish(p)
  \/ p.type = "puback" /\ process_recv_puback(p)
  \/ p.type = "pubrec" /\ process_recv_pubrec(p)
  \/ p.type = "pubrel" /\ process_recv_pubrel(p)
  \/ p.type = "pubcomp" /\ process_recv_pubcomp(p)
  \/ p.type \in {"subscribe", "unsubscribe", "auth"} /\ process_recv_notified(p)
  \/ p.type = "suback" /\ process_recv_suback(p)
  \/ p.type = "unsuback" /\ process_recv_unsuback(p)
  \/ p.type = "pingreq" /\ process_recv_pingreq(p)
  \/ p.type = "pingresp" /\ process_recv_pingresp(p)
  \/ p.type = "disconnect" /\ process_recv_disconnect(p)
=============================================================================
