--------------------------- MODULE AnyRoleProofs ----------------------------
(***************************************************************************)
(* Theorems about an endpoint of any role and version, whatever packets    *)
(* and settings its application uses and its peer sends: the timers agree  *)
(* with the connection's flags, a v3.1.1 server watches its client, and no *)
(* timer runs on a closed transport.                                       *)
(***************************************************************************)
EXTENDS CallProofs

\* ConnShape of the state after a step, from what the lemmas on calls give.
LEMMA ShapeNow ==
  ASSUME ConnShape PROVE SessShape(sess)
BY SelfBase DEF ConnShape, SessShape

-----------------------------------------------------------------------------
\* What a call does to the session: only a PUBREC that reports an error makes the
\* connection forget a handled id on sending.
LEMMA SendSess ==
  ASSUME ConnShape, NEW p, send(p)
  PROVE  /\ SessShape(sess')
         /\ \/ sess'.qos2_publish_handled = sess.qos2_publish_handled
            \/ p.type = "pubrec" /\ ~p.ok
<1>0. SessShape(sess) /\ IsList(sess.store)
  BY ShapeNow, SelfBase
<1>1. CASE sess' = sess
  BY <1>0, <1>1
<1>2. ASSUME NEW q, sess' = [sess EXCEPT !.store = Append(@, q)]
      PROVE  SessShape(sess') /\ sess'.qos2_publish_handled = sess.qos2_publish_handled
  BY <1>0, <1>2, SessKept
<1>3. CASE send_refused(p)
  BY <1>1, <1>3 DEF send_refused, core
<1>4. CASE process_send_connect(p)
  <2>1. CASE UNCHANGED core
    BY <1>1, <2>1 DEF core
  <2>2. CASE \E b, x : IsList(x) /\ sess' = [sess EXCEPT !.need_store = b, !.store = x]
    BY <1>0, <2>2 DEF SessShape
  <2>3. <<>> \in Seq({})
    BY SMT
  <2>4. IsList(IF p.clean THEN <<>> ELSE sess.store)
    BY <1>0, <2>3 DEF IsList
  <2> QED BY <1>4, <2>1, <2>2, <2>4 DEF process_send_connect
<1>5. CASE process_send_connack(p)
  <2>1. IsList(kept_store(lim.send))
    BY <1>0, KeptIsList
  <2>2. CASE sess' = [sess EXCEPT !.store = kept_store(lim.send)]
    BY <1>0, <2>1, <2>2, SessKept
  <2> QED BY <1>1, <1>5, <2>2 DEF process_send_connack, core
<1>6. CASE process_send_publish(p)
  <2>1. CASE Panic \/ sess' = sess
    BY <1>1, <2>1 DEF Panic, core
  <2>2. CASE \E q : sess' = [sess EXCEPT !.store = Append(@, q)]
    BY <1>2, <2>2
  <2> QED BY <1>6, <2>1, <2>2 DEF process_send_publish, publish_accepted
<1>7. CASE p.type = "pubrec" /\ process_send_pubrec(p)
  <2>1. CASE sess' = [sess EXCEPT !.qos2_publish_handled = @ \ {p.pid}] /\ ~p.ok
    <3>1. SessShape(sess')
      BY <1>0, <2>1, SessKept
    <3> QED BY <1>7, <2>1, <3>1
  <2> QED BY <1>1, <1>7, <2>1 DEF process_send_pubrec
<1>8. CASE process_send_pubrel(p)
  <2> DEFINE r == pubrel(self, ids, sess, p)
  <2>1. r.sess \in {sess, [sess EXCEPT !.store = Append(@, p)]}
    BY SelfBase, PubrelLeads
  <2> HIDE DEF r
  <2>2. sess' = sess \/ sess' = r.sess
    BY <1>8 DEF process_send_pubrel, r, Panic, core
  <2> QED BY <1>1, <1>2, <2>1, <2>2
<1>9. CASE \/ process_send_puback(p) \/ process_send_pubcomp(p) \/ process_send_subscribe(p)
           \/ process_send_unsubscribe(p) \/ process_send_suback(p) \/ process_send_unsuback(p)
           \/ process_send_pingresp(p) \/ process_send_pingreq(p) \/ process_send_disconnect(p)
           \/ process_send_auth(p)
  BY <1>1, <1>9 DEF process_send_puback, process_send_pubcomp, process_send_subscribe,
       process_send_unsubscribe, send_request, process_send_suback, process_send_unsuback,
       process_send_pingresp, process_send_pingreq, process_send_disconnect,
       process_send_auth, core
<1> QED BY <1>3, <1>4, <1>5, <1>6, <1>7, <1>8, <1>9 DEF send

\* Only PUBREL makes it forget one on receiving.
LEMMA RecvSess ==
  ASSUME ConnShape, NEW p, recv(p)
  PROVE  /\ SessShape(sess')
         /\ \/ sess.qos2_publish_handled \subseteq sess'.qos2_publish_handled
            \/ /\ p.type = "pubrel" /\ process_recv_pubrel(p)
               /\ sess'.qos2_publish_handled = sess.qos2_publish_handled \ {p.pid}
<1>0. SessShape(sess) /\ IsList(sess.store)
  BY ShapeNow, SelfBase
<1>1. CASE sess' = sess
  BY <1>0, <1>1
<1>2. ASSUME NEW response, NEW pid, sess' = [sess EXCEPT !.store = erase(@, response, pid)]
      PROVE  SessShape(sess') /\ sess'.qos2_publish_handled = sess.qos2_publish_handled
  BY <1>0, <1>2, SessKept
<1>3. CASE recv_refused(p)
  BY <1>1, <1>3 DEF recv_refused, core
<1>4. CASE process_recv_connect(p)
  <2>1. CASE UNCHANGED core \/ Panic
    BY <1>1, <2>1 DEF core, Panic
  <2>2. CASE \E b, x : IsList(x) /\ sess' = [sess EXCEPT !.need_store = b, !.store = x]
    BY <1>0, <2>2 DEF SessShape
  <2>3. <<>> \in Seq({})
    BY SMT
  <2>4. IsList(IF p.clean THEN <<>> ELSE sess.store)
    BY <1>0, <2>3 DEF IsList
  <2>5. \/ UNCHANGED core \/ Panic
        \/ sess' = [sess EXCEPT !.need_store = IF p.version = "V5" THEN Prop(p.expiry, 0) # 0
                                              ELSE ~p.clean,
                               !.store = IF p.clean THEN <<>> ELSE @]
    BY <1>4 DEF process_recv_connect
  <2> QED BY <2>1, <2>2, <2>4, <2>5
<1>5. CASE process_recv_connack(p)
  <2>1. \A max : IsList(kept_store(max))
    BY <1>0, KeptIsList
  <2>2. <<>> \in Seq({})
    BY SMT
  <2>3. IsList(<<>>)
    BY <2>2 DEF IsList
  <2>4. CASE \E x : IsList(x) /\ sess' = [sess EXCEPT !.store = x]
    BY <1>0, <2>4, SessKept
  <2> QED BY <1>1, <1>5, <2>1, <2>3, <2>4 DEF process_recv_connack, core
<1>6. CASE process_recv_publish(p)
  <2>1. CASE sess' = [sess EXCEPT !.qos2_publish_handled = @ \cup {p.pid}]
    BY <1>0, <2>1, SessKept
  <2> QED BY <1>1, <1>6, <2>1 DEF process_recv_publish
<1>7. ASSUME NEW i, NEW b, response_ends(p, i, b)
      PROVE  SessShape(sess') /\ sess'.qos2_publish_handled = sess.qos2_publish_handled
  BY <1>2, <1>7 DEF response_ends
<1>8. CASE unexpected_response
  BY <1>1, <1>8 DEF unexpected_response, core
<1>9. CASE process_recv_puback(p) \/ process_recv_pubcomp(p) \/ process_recv_suback(p)
             \/ process_recv_unsuback(p)
  BY <1>7, <1>8, <1>9 DEF process_recv_puback, process_recv_pubcomp, process_recv_suback,
       process_recv_unsuback
<1>10. CASE process_recv_pubrec(p)
  <2> DEFINE awaiting == [ids EXCEPT !.pubrec = @ \ {p.pid}]
             erased == [sess EXCEPT !.store = erase(@, "pubrec", p.pid)]
             r == IF opts.auto_pub_response /\ link.status = "Connected"
                  THEN pubrel(self, awaiting, erased, Ack("pubrel", p.pid))
                  ELSE [out |-> self, ids |-> awaiting, sess |-> erased, panics |-> FALSE]
  <2>1. SessShape(erased) /\ erased.qos2_publish_handled = sess.qos2_publish_handled
    BY <1>0, SessKept
  <2>2. CASE sess' = r.sess
    <3> HIDE DEF erased, awaiting
    <3>1. r.sess \in {erased, [erased EXCEPT !.store = Append(@, Ack("pubrel", p.pid))]}
      <4>1. pubrel(self, awaiting, erased, Ack("pubrel", p.pid)).sess
              \in {erased, [erased EXCEPT !.store = Append(@, Ack("pubrel", p.pid))]}
        BY SelfBase, PubrelLeads
      <4> QED BY <4>1
    <3> HIDE DEF r
    <3> DEFINE added == [erased EXCEPT !.store = Append(@, Ack("pubrel", p.pid))]
    <3>a. SessShape(added) /\ added.qos2_publish_handled = erased.qos2_publish_handled
      BY <2>1, SessKept
    <3> HIDE DEF added
    <3>b. r.sess \in {erased, added}
      BY <3>1 DEF added
    <3>2. SessShape(r.sess) /\ r.sess.qos2_publish_handled = sess.qos2_publish_handled
      BY <2>1, <3>a, <3>b
    <3> QED BY <2>2, <3>2
  <2>3. CASE Panic
    BY <1>1, <2>3 DEF Panic, core
  <2>4. unexpected_response \/ Panic \/ sess' = r.sess \/ \E i, b : response_ends(p, i, b)
    BY <1>10 DEF process_recv_pubrec
  <2> QED BY <1>7, <1>8, <2>2, <2>3, <2>4
<1>11. CASE p.type = "pubrel" /\ process_recv_pubrel(p)
  BY <1>0, <1>11, SessKept DEF process_recv_pubrel
<1>12. CASE process_recv_notified(p) \/ process_recv_pingreq(p) \/ process_recv_pingresp(p)
              \/ process_recv_disconnect(p)
  BY <1>1, <1>12 DEF process_recv_notified, process_recv_pingreq, process_recv_pingresp,
       process_recv_disconnect, core
<1> QED BY <1>3, <1>4, <1>5, <1>6, <1>9, <1>10, <1>11, <1>12 DEF recv

-----------------------------------------------------------------------------
(***************************************************************************)
(* The timers.                                                             *)
(***************************************************************************)
\* After a call from a base the flags and the timers agree again.
LEMMA StepShape ==
  ASSUME NEW T, T \subseteq TimerKind, NEW b, Call(b), b.ev = <<>>, b.ping.armed = T,
         Pushes(b) \/ \E q : Arrives(b, q),
         SessShape(sess'), Obeys(T)
  PROVE  /\ ConnShape' /\ timers' = ping'.armed
         /\ link' \in {b.link, Down(b.link)}
         /\ ping'.pingreq_recv_timeout_ms = b.ping.pingreq_recv_timeout_ms
<1>1. PICK o : Follows(b, o) /\ (Returns(o) \/ \E q : Returns(NotifyReceived(o, q)))
  BY DEF Pushes, Arrives
<1>2. Heeded(T, b)
  BY ObeyedNothing DEF Heeded
<1>3. Call(o) /\ Heeded(T, o)
  BY <1>1, <1>2 DEF Follows
<1>4. PICK f : Returns(f) /\ Call(f) /\ Heeded(T, f) /\ f.link = o.link /\ f.ping = o.ping
  BY <1>1, <1>3, ReceivedCall
<1>5. link' = f.link /\ ping' = f.ping /\ events' = f.ev
  BY <1>4 DEF Returns
<1>6. timers' = ping'.armed
  BY <1>4, <1>5 DEF Obeys, Heeded
<1>7. sess'.store \in Seq(ToSet(sess'.store))
  BY ListShape DEF SessShape
<1>8. ConnShape'
  BY <1>4, <1>5, <1>7 DEF ConnShape, SessShape, Call
<1>9. link' \in {b.link, Down(b.link)}
  BY <1>1, <1>4, <1>5 DEF Follows
<1>10. ping'.pingreq_recv_timeout_ms = b.ping.pingreq_recv_timeout_ms
  BY <1>1, <1>4, <1>5 DEF Follows, PingTimes
<1> QED BY <1>6, <1>8, <1>9, <1>10

\* A call that starts from self and keeps the watch.
LEMMA CallKeeps ==
  ASSUME TimerInv, Pushes(self) \/ \E q : Arrives(self, q), Watches \/ Closes(events'),
         SessShape(sess'), Called,
         net' \in {net, IF link'.status = "Connecting" THEN "open" ELSE net}
  PROVE  TimerInv'
<1>0. ConnShape /\ Base(self) /\ self.link = link /\ self.ping = ping /\ ping.armed \subseteq TimerKind
  BY SelfBase DEF TimerInv, ConnShape
<1>1. /\ ConnShape' /\ timers' = ping'.armed
      /\ link' \in {link, Down(link)}
      /\ ping'.pingreq_recv_timeout_ms = ping.pingreq_recv_timeout_ms
  <2>1. Call(self) /\ self.ev = <<>> /\ self.ping.armed = timers /\ timers \subseteq TimerKind
    BY <1>0 DEF Base, TimerInv
  <2>2. Obeys(timers)
    BY DEF Called
  <2> QED BY <1>0, <2>1, <2>2, StepShape
<1>c. /\ link'.is_client = link.is_client /\ link'.protocol_version = link.protocol_version
      /\ link'.status \in {link.status, "Disconnected"}
  BY <1>0, <1>1 DEF Down, ConnShape, LinkRecord
<1>3. /\ net' \in {"closed", "new", "open"}
      /\ Silent' => link'.status = "Disconnected"
      /\ link'.status = "Connecting" => net' = "open"
  BY <1>c DEF TimerInv, Silent
<1>4. ASSUME net' = "open", ~link'.is_client, ~V5', ~closing', ping'.pingreq_recv_timeout_ms # 0
      PROVE  "PingreqRecv" \in timers'
  <2>1. ~V5 /\ ~link.is_client /\ ~closing /\ ~Closes(events')
    BY <1>c, <1>4 DEF Called, V5
  <2>2. net = "open"
    BY <1>c, <1>4 DEF TimerInv
  <2>3. "PingreqRecv" \in ping.armed
    BY <1>1, <1>4, <2>1, <2>2 DEF TimerInv
  <2> QED BY <1>1, <1>4, <2>1, <2>3 DEF Watches
<1> QED BY <1>1, <1>3, <1>4 DEF TimerInv

LEMMA AppConnectTimer ==
  ASSUME TimerInv, NEW p, AppConnect(p)
  PROVE  TimerInv'
<1>0. ConnShape /\ Base(self) /\ self.link = link /\ self.ping = ping /\ ping.armed \subseteq TimerKind
  BY SelfBase DEF TimerInv, ConnShape
<1>1. SessShape(sess') /\ Called /\ net' = IF link'.status = "Connecting" THEN "open" ELSE net
  BY <1>0, SendSess DEF AppConnect
<1>2. CASE Pushes(self) /\ Watches
  BY <1>1, <1>2, CallKeeps
<1>3. CASE \E b : /\ Base(b) /\ Pushes(b) /\ link' = b.link
                 /\ b.link = [[link EXCEPT !.is_client = TRUE] EXCEPT !.status = "Connecting"]
  <2>1. PICK b : /\ Base(b) /\ Pushes(b) /\ link' = b.link
                 /\ b.link = [[link EXCEPT !.is_client = TRUE] EXCEPT !.status = "Connecting"]
    BY <1>3
  <2>2. link'.is_client = TRUE /\ link'.status = "Connecting"
    BY <1>0, <2>1 DEF ConnShape, LinkRecord
  <2>3. ConnShape' /\ timers' = ping'.armed
    <3>1. Call(b) /\ b.ev = <<>> /\ b.ping.armed = timers /\ timers \subseteq TimerKind
      BY <1>0, <2>1 DEF Base, TimerInv
    <3>2. Obeys(timers)
      BY <1>1 DEF Called
    <3> QED BY <1>1, <2>1, <3>1, <3>2, StepShape
  <2> QED BY <1>1, <2>2, <2>3 DEF TimerInv, Silent
<1>4. CASE send_refused(p)
  BY <1>0, <1>2, <1>4, PlainReturns DEF send_refused
<1>5. send_refused(p) \/ process_send_connect(p)
  BY DEF AppConnect, send
<1> QED BY <1>0, <1>2, <1>3, <1>4, <1>5, SendConnect

LEMMA AppSendTimer ==
  ASSUME TimerInv, NEW p, AppSend(p)
  PROVE  TimerInv'
<1>0. ConnShape /\ Base(self) /\ self.link = link /\ self.ping = ping /\ ping.armed \subseteq TimerKind
  BY SelfBase DEF TimerInv, ConnShape
<1>1. SessShape(sess') /\ Called /\ net' = net /\ send(p) /\ p.type # "connect" /\ OfVersion(p)
  BY <1>0, SendSess DEF AppSend
<1>2. CASE Pushes(self) /\ Watches
  BY <1>1, <1>2, CallKeeps
<1>3. CASE p.type # "connack"
  BY <1>0, <1>1, <1>2, <1>3, SendPushes
<1>4. CASE p.type = "connack" /\ send_refused(p)
  BY <1>0, <1>2, <1>4, PlainReturns DEF send_refused
<1>5. CASE /\ link.status = "Connecting" /\ p.type = "connack"
           /\ \E b : /\ Base(b) /\ Pushes(b) /\ link' = b.link
                     /\ b.link = [link EXCEPT !.status = "Connected"]
                     /\ p.server_keep_alive = None =>
                          /\ Watches
                          /\ ping'.pingreq_recv_timeout_ms = ping.pingreq_recv_timeout_ms
  <2>1. PICK b : /\ Base(b) /\ Pushes(b) /\ link' = b.link
                 /\ b.link = [link EXCEPT !.status = "Connected"]
                 /\ p.server_keep_alive = None =>
                      /\ Watches
                      /\ ping'.pingreq_recv_timeout_ms = ping.pingreq_recv_timeout_ms
    BY <1>5
  <2>2. /\ link'.is_client = link.is_client /\ link'.protocol_version = link.protocol_version
        /\ link'.status = "Connected"
    BY <1>0, <2>1 DEF ConnShape, LinkRecord
  <2>3. ConnShape' /\ timers' = ping'.armed
    <3>1. Call(b) /\ b.ev = <<>> /\ b.ping.armed = timers /\ timers \subseteq TimerKind
      BY <1>0, <2>1 DEF Base, TimerInv
    <3>2. Obeys(timers)
      BY <1>1 DEF Called
    <3> QED BY <1>1, <2>1, <3>1, <3>2, StepShape
  <2>4. net' = "open" /\ net = "open"
    BY <1>1, <1>5 DEF TimerInv
  <2>5. ASSUME ~link'.is_client, ~V5', ~closing', ping'.pingreq_recv_timeout_ms # 0
        PROVE  "PingreqRecv" \in timers'
    <3>1. ~V5 /\ ~closing
      BY <1>1, <2>2, <2>5 DEF V5, Called
    <3>2. p.server_keep_alive = None
      BY <1>1, <1>5, <3>1 DEF OfVersion
    <3>3. "PingreqRecv" \in ping.armed /\ ~Closes(events')
      BY <1>1, <2>1, <2>2, <2>4, <2>5, <3>1, <3>2 DEF TimerInv, Called
    <3> QED BY <2>1, <2>3, <3>2, <3>3 DEF Watches
  <2> QED BY <2>2, <2>3, <2>4, <2>5 DEF TimerInv, Silent
<1>6. CASE p.type = "connack" /\ process_send_connack(p)
  BY <1>0, <1>2, <1>5, <1>6, SendConnack
<1>7. p.type = "connack" => send_refused(p) \/ process_send_connack(p)
  BY <1>1 DEF send
<1> QED BY <1>3, <1>4, <1>6, <1>7

\* The other calls of the application.
LEMMA AppOthersTimer ==
  ASSUME TimerInv
  PROVE  /\ \A p \in Publishes, pid \in PacketIds \cup {0} : AppPublish(p, pid) => TimerInv'
         /\ \A type \in Requests, pid \in PacketIds : AppRequest(type, pid) => TimerInv'
         /\ \A pid : AppPubrel(pid) \/ Release(pid) \/ Register(pid) => TimerInv'
         /\ Acquire \/ AcquireFails \/ SendError => TimerInv'
         /\ \A name, val : Sets(name, val) => TimerInv'
         /\ \A ms : SetsInterval(ms) => TimerInv'
<1>0. ConnShape /\ SessShape(sess)
  BY ShapeNow DEF TimerInv
<1>1. ASSUME Pushes(self), Watches, SessShape(sess'), Called, net' = net PROVE TimerInv'
  BY <1>1, CallKeeps
<1>s. ASSUME NEW p, send(p), p.type \notin {"connect", "connack"}
      PROVE  Pushes(self) /\ Watches /\ SessShape(sess')
  BY <1>0, <1>s, SendPushes, SendSess
<1>2. ASSUME NEW p \in Publishes, NEW pid, AppPublish(p, pid) PROVE TimerInv'
  <2>1. [p EXCEPT !.pid = pid].type \notin {"connect", "connack"}
    BY EndpointAssumption
  <2> QED BY <1>1, <1>2, <1>s, <2>1 DEF AppPublish
<1>3. ASSUME NEW type \in Requests, NEW pid, AppRequest(type, pid)
      PROVE  TimerInv'
  <2>1. Ack(type, pid).type \notin {"connect", "connack"}
    BY EndpointAssumption DEF Ack
  <2> QED BY <1>1, <1>3, <1>s, <2>1 DEF AppRequest
<1>4. ASSUME NEW pid, AppPubrel(pid) PROVE TimerInv'
  <2>1. Ack("pubrel", pid).type \notin {"connect", "connack"}
    BY DEF Ack
  <2> QED BY <1>1, <1>4, <1>s, <2>1 DEF AppPubrel
<1>5. ASSUME NEW pid, Release(pid) \/ Register(pid) PROVE TimerInv'
  BY <1>0, <1>1, <1>5, PlainReturns DEF Release, Register, release_packet_id, register_packet_id
<1>6. ASSUME Acquire \/ AcquireFails \/ SendError PROVE TimerInv'
  BY <1>0, <1>1, <1>6, PlainReturns DEF Acquire, AcquireFails, SendError, acquire_packet_id,
       acquire_fails, release_packet_id, core
<1>7. ASSUME NEW name, NEW val, Sets(name, val) PROVE TimerInv'
  <2>1. SessShape(sess')
    BY <1>0, <1>7 DEF Sets, set_offline_publish, set_option, SessShape
  <2> QED BY <1>0, <1>1, <1>7, <2>1, PlainReturns DEF Sets, set_offline_publish, set_option
<1>8. ASSUME NEW ms, SetsInterval(ms) PROVE TimerInv'
  <2>1. SessShape(sess')
    BY <1>0, <1>8 DEF SetsInterval, set_pingreq_send_interval
  <2> QED BY <1>0, <1>1, <1>8, <2>1, IntervalPushes DEF SetsInterval
<1> QED BY <1>2, <1>3, <1>4, <1>5, <1>6, <1>7, <1>8

\* The transport.
LEMMA TransportTimer ==
  ASSUME TimerInv
  PROVE  Open \/ Close \/ CloseUnused => TimerInv'
<1>0. ConnShape /\ SessShape(sess) /\ ping.armed \subseteq TimerKind
  BY ShapeNow DEF TimerInv, ConnShape
<1>1. ASSUME Open PROVE TimerInv'
  BY <1>1 DEF Open, TimerInv, ConnShape, Silent, core
<1>2. ASSUME CloseUnused PROVE TimerInv'
  BY <1>2 DEF CloseUnused, TimerInv, ConnShape, Silent, core
<1>3. ASSUME Close PROVE TimerInv'
  <2>1. notify_closed /\ net' = "closed" /\ Called
    BY <1>3 DEF Close
  <2>2. SessShape(sess')
    BY <1>0, <2>1, SessKept DEF notify_closed
  <2>3. PICK b : /\ Base(b) /\ Pushes(b) /\ b.link = Down(link) /\ link' = b.link
    BY <1>0, <2>1, ClosedPushes
  <2>4. link'.status = "Disconnected"
    BY <1>0, <2>3 DEF Down, ConnShape, LinkRecord
  <2>5. ConnShape' /\ timers' = ping'.armed
    <3>1. Call(b) /\ b.ev = <<>> /\ b.ping.armed = timers /\ timers \subseteq TimerKind
      BY <1>0, <2>3 DEF Base, TimerInv
    <3>2. Obeys(timers)
      BY <2>1 DEF Called
    <3> QED BY <2>2, <2>3, <3>1, <3>2, StepShape
  <2> QED BY <2>1, <2>4, <2>5 DEF TimerInv
<1> QED BY <1>1, <1>2, <1>3

\* A timer that runs fires.
LEMMA FiresTimer ==
  ASSUME TimerInv, NEW kind \in TimerKind, TimerFires(kind)
  PROVE  TimerInv'
<1>0. ConnShape /\ SessShape(sess) /\ ping.armed \subseteq TimerKind
  BY ShapeNow DEF TimerInv, ConnShape
<1>1. /\ notify_timer_fired(kind) /\ Obeys(timers \ {kind}) /\ net' = net
      /\ closing' = (closing \/ Closes(events'))
  BY DEF TimerFires
<1>2. SessShape(sess')
  BY <1>0, <1>1 DEF notify_timer_fired, core
<1>3. PICK b, o : Disarms(b, kind) /\ Leads(b, o) /\ Returns(o)
  BY <1>0, <1>1, FiredPushes
<1>8. /\ Call(b) /\ b.ev = <<>> /\ b.ping.armed = ping.armed \ {kind} /\ b.link = link
      /\ b.ping.pingreq_recv_timeout_ms = ping.pingreq_recv_timeout_ms
  BY <1>3 DEF Disarms
<1>9. kind = "PingreqRecv" /\ ~V5 => Closes(events')
  BY <1>0, <1>1, FiredPushes
<1>4. Pushes(b)
  BY <1>3, LeadsCall DEF Pushes
<1>5. /\ ConnShape' /\ timers' = ping'.armed /\ link' \in {link, Down(link)}
      /\ ping'.pingreq_recv_timeout_ms = ping.pingreq_recv_timeout_ms
  <2>1. b.ping.armed = timers \ {kind} /\ timers \ {kind} \subseteq TimerKind
    BY <1>0, <1>8 DEF TimerInv
  <2> QED BY <1>1, <1>2, <1>3, <1>4, <1>8, <2>1, StepShape
<1>6. /\ link'.is_client = link.is_client /\ link'.protocol_version = link.protocol_version
      /\ link'.status \in {link.status, "Disconnected"}
  BY <1>0, <1>5 DEF Down, ConnShape, LinkRecord
<1>7. ASSUME net' = "open", ~link'.is_client, ~V5', ~closing', ping'.pingreq_recv_timeout_ms # 0
      PROVE  "PingreqRecv" \in timers'
  <2>1. ~link.is_client /\ ~V5 /\ ~closing /\ ~Closes(events')
    BY <1>1, <1>6, <1>7 DEF V5
  <2>2. "PingreqRecv" \in timers /\ kind # "PingreqRecv"
    BY <1>1, <1>5, <1>7, <1>9, <2>1 DEF TimerInv
  <2>3. "PingreqRecv" \in b.ping.armed
    BY <1>8, <2>2 DEF TimerInv
  <2> QED BY <1>3, <1>5, <2>1, <2>3 DEF Leads, Returns
<1> QED BY <1>1, <1>5, <1>6, <1>7 DEF TimerInv, Silent

LEMMA RestartTimer ==
  ASSUME TimerInv, Restart
  PROVE  TimerInv'
<1>1. link' \in LinkRecord /\ link'.status = "Disconnected"
  BY ConnectionAssumption DEF Restart, restore, LinkRecord, Statuses
<1>2. PingTimes \cup {"armed"} \subseteq DOMAIN ping' /\ ping'.armed = {}
  BY DEF Restart, restore, PingTimes
<1>3. {"need_store", "store", "qos2_publish_handled"} \subseteq DOMAIN sess' /\ sess'.store = sess.store
  BY DEF Restart, restore
<1>4. sess'.store \in Seq(ToSet(sess'.store))
  BY <1>3 DEF TimerInv, ConnShape
<1>5. net' = "closed" /\ timers' = {}
  BY DEF Restart
<1> QED BY <1>1, <1>2, <1>3, <1>4, <1>5 DEF TimerInv, ConnShape

LEMMA PeerSendTimer ==
  ASSUME TimerInv, NEW p \in PeerPackets, PeerSend(p)
  PROVE  TimerInv'
<1>0. ConnShape /\ ping.armed \subseteq TimerKind
  BY DEF TimerInv, ConnShape
<1>1. /\ recv(p) /\ Called /\ net' = IF link'.status = "Connecting" THEN "open" ELSE net
      /\ Silent => p.type = "connect"
  BY DEF PeerSend, Silent
<1>2. SessShape(sess')
  BY <1>0, <1>1, RecvSess
<1>3. CASE /\ Pushes(self) \/ \E q : Arrives(self, q)
           /\ Watches \/ Closes(events')
  BY <1>1, <1>2, <1>3, CallKeeps
<1>4. CASE recv_refused(p)
  BY <1>0, <1>3, <1>4, RefusedPushes
<1>5. CASE p.type \notin {"connect", "connack", "publish", "disconnect"}
  BY <1>0, <1>1, <1>3, <1>5, RecvOther
<1>6. CASE process_recv_publish(p)
  BY <1>0, <1>3, <1>6, RecvPublish
<1>7. CASE p.type = "disconnect" /\ process_recv_disconnect(p)
  BY <1>0, <1>3, <1>7, RecvDisconnect
<1>8. ASSUME NEW b, Base(b), Arrives(b, p), link' = b.link
      PROVE  ConnShape' /\ timers' = ping'.armed
  <2>1. Call(b) /\ b.ev = <<>> /\ b.ping.armed = timers /\ timers \subseteq TimerKind
    BY <1>0, <1>8 DEF Base, TimerInv
  <2>2. Obeys(timers)
    BY <1>1 DEF Called
  <2> QED BY <1>2, <1>8, <2>1, <2>2, StepShape
<1>9. CASE process_recv_connect(p)
  <2>1. CASE Pushes(self) /\ Watches
    BY <1>3, <2>1
  <2>2. ASSUME NEW b, Base(b), Arrives(b, p), link' = b.link,
               b.link.status = "Connecting", b.link.is_client = FALSE,
               ping'.pingreq_recv_timeout_ms # 0 => "PingreqRecv" \in ping'.armed
        PROVE  TimerInv'
    <3>1. ConnShape' /\ timers' = ping'.armed
      BY <1>8, <2>2
    <3>2. net' = "open" /\ link'.is_client = FALSE
      BY <1>1, <2>2
    <3> QED BY <2>2, <3>1, <3>2 DEF TimerInv, Silent
  <2> QED BY <1>0, <1>9, <2>1, <2>2, RecvConnect
<1>10. CASE p.type = "connack" /\ process_recv_connack(p)
  <2>1. CASE Arrives(self, p) /\ Watches
    BY <1>3, <2>1
  <2>2. CASE \E b : /\ Base(b) /\ Arrives(b, p) /\ link' = b.link
                   /\ b.link = [link EXCEPT !.status = "Connected"]
                   /\ Watches
                   /\ ping'.pingreq_recv_timeout_ms = ping.pingreq_recv_timeout_ms
    <3>1. ConnShape' /\ timers' = ping'.armed
      BY <1>8, <2>2
    <3>2. /\ link'.is_client = link.is_client /\ link'.protocol_version = link.protocol_version
          /\ link'.status = "Connected"
      BY <1>0, <2>2 DEF ConnShape, LinkRecord
    <3>3. net' = net /\ ~Silent
      BY <1>1, <1>10, <3>2
    <3>4. ASSUME net = "open", ~link'.is_client, ~V5', ~closing', ping'.pingreq_recv_timeout_ms # 0
          PROVE  "PingreqRecv" \in timers'
      <4>1. ~closing /\ ~V5 /\ ~Closes(events')
        BY <1>1, <3>2, <3>4 DEF Called, V5
      <4>2. "PingreqRecv" \in ping.armed
        BY <2>2, <3>2, <3>4, <4>1 DEF TimerInv
      <4> QED BY <2>2, <3>1, <4>1, <4>2 DEF Watches
    <3> QED BY <3>1, <3>2, <3>3, <3>4 DEF TimerInv, Silent
  <2> QED BY <1>0, <1>10, <2>1, <2>2, RecvConnack
<1> QED BY <1>1, <1>4, <1>5, <1>6, <1>7, <1>9, <1>10 DEF recv

LEMMA MalformedTimer ==
  ASSUME TimerInv, NEW p, PeerSendsMalformed(p)
  PROVE  TimerInv'
<1>0. ConnShape /\ SessShape(sess) /\ ping.armed \subseteq TimerKind
  BY ShapeNow DEF TimerInv, ConnShape
<1>1. /\ recv_malformed(p) \/ recv_framing_error
      /\ Called /\ net' = IF link'.status = "Connecting" THEN "open" ELSE net
      /\ ~Silent /\ net' \in {net, "open"}
  BY DEF PeerSendsMalformed, Silent
<1>2. SessShape(sess')
  BY <1>0, <1>1 DEF recv_malformed, recv_framing_error, core
<1>3. CASE Pushes(self) /\ (Watches \/ Closes(events'))
  BY <1>1, <1>2, <1>3, CallKeeps
<1>4. CASE recv_framing_error
  BY <1>0, <1>3, <1>4, FramingPushes
<1>5. ASSUME NEW b, NEW v \in Versions, Base(b), Pushes(b), b.link = Fumbled(link, v),
             v = "V5" \/ Closes(events')
      PROVE  TimerInv'
  <2>1. ConnShape' /\ timers' = ping'.armed /\ link' \in {b.link, Down(b.link)}
    <3>1. Call(b) /\ b.ev = <<>> /\ b.ping.armed = timers /\ timers \subseteq TimerKind
      BY <1>0, <1>5 DEF Base, TimerInv
    <3>2. Obeys(timers)
      BY <1>1 DEF Called
    <3> QED BY <1>2, <1>5, <3>1, <3>2, StepShape
  <2>2. link'.protocol_version = v /\ link'.status \in {"Connecting", "Disconnected"}
    BY <1>0, <1>5, <2>1 DEF Fumbled, Down, ConnShape, LinkRecord
  <2>3. V5' \/ closing'
    BY <1>1, <1>5, <2>2 DEF V5, Called
  <2>4. net' \in {"closed", "new", "open"} /\ ~Silent'
    BY <1>1 DEF Silent, TimerInv
  <2> QED BY <1>1, <2>1, <2>2, <2>3, <2>4 DEF TimerInv
<1> QED BY <1>0, <1>1, <1>3, <1>4, <1>5, MalformedPushes

\* The timers the application runs are those the connection believes to run, a silent
\* transport has no connection, and a v3.1.1 server is watched from CONNECT until it
\* asks for the close (TimerInv): every call that sets or clears a ..._set flag also returns
\* the request, for every role, version, packet, setting and peer.
THEOREM TimerInvHolds == Spec => []TimerInv
<1>1. Init => TimerInv
  <2> SUFFICES ASSUME Init PROVE TimerInv
    OBVIOUS
  <2>1. link \in LinkRecord /\ link.status = "Disconnected"
    BY ConnectionAssumption DEF Init, ConnInit, LinkRecord, Statuses
  <2>2. PingTimes \cup {"armed"} \subseteq DOMAIN ping /\ ping.armed = {}
    BY DEF Init, ConnInit, PingTimes
  <2>3. {"need_store", "store", "qos2_publish_handled"} \subseteq DOMAIN sess /\ sess.store = <<>>
    BY DEF Init, ConnInit
  <2>4. <<>> \in Seq(ToSet(<<>>))
    BY SMT
  <2>5. net = "closed" /\ timers = {}
    BY DEF Init
  <2> QED BY <2>1, <2>2, <2>3, <2>4, <2>5 DEF TimerInv, ConnShape
<1>2. TimerInv /\ [Next]_vars => TimerInv'
  <2> SUFFICES ASSUME TimerInv, [Next]_vars PROVE TimerInv'
    OBVIOUS
  <2>1. CASE App
    <3>1. CASE \E p \in AppPackets : AppConnect(p) \/ AppSend(p)
      BY <3>1, AppConnectTimer, AppSendTimer
    <3>2. CASE \E kind \in TimerKind : TimerFires(kind)
      BY <3>2, FiresTimer
    <3> QED BY <2>1, <3>1, <3>2, AppOthersTimer DEF App
  <2>2. CASE Network
    BY <2>2, TransportTimer, PeerSendTimer, MalformedTimer DEF Network
  <2>3. CASE Restart
    BY <2>3, RestartTimer
  <2>4. CASE UNCHANGED vars
    BY <2>4 DEF vars, connVars, envVars, TimerInv, ConnShape, V5, Silent
  <2> QED BY <2>1, <2>2, <2>3, <2>4 DEF Next
<1> QED BY <1>1, <1>2, PTL DEF Spec

\* Whatever is sent and received, the timers the application runs are those whose
\* flags the connection has set (TimersAgree): every RequestTimerReset and
\* RequestTimerCancel goes with the change of its flag.
THEOREM TimersAlwaysAgree == Spec => []TimersAgree
<1>1. TimerInv => TimersAgree
  BY DEF TimerInv, TimersAgree
<1> QED BY <1>1, TimerInvHolds, PTL

\* A v3.1.1 server whose client asked for a keep-alive has the PingreqRecv timer
\* running while it is connected, until it asks for the close (ClientWatched).
THEOREM ServerAlwaysWatches == Spec => []ClientWatched
<1>1. TimerInv => ClientWatched
  BY DEF TimerInv, ClientWatched
<1> QED BY <1>1, TimerInvHolds, PTL

-----------------------------------------------------------------------------
(***************************************************************************)
(* A closed transport has no timers.  The application sends no PUBREL      *)
(* while it is not connected: process_send_pubrel stores it and restarts   *)
(* the PINGREQ timer whether or not there is a transport.                  *)
(***************************************************************************)
PubrelOnline == PubrelOffline = FALSE /\ \A p \in AppPackets : p.type # "pubrel"

\* What is sent while not connected starts no timer.
LEMMA OfflineSend ==
  ASSUME ConnShape, link.status = "Disconnected", NEW p, send(p),
         p.type \notin {"connect", "pubrel"}
  PROVE  ping' = ping
<1>0. self.link = link
  BY SelfBase
<1>1. CASE send_refused(p)
  BY <1>1, OutPing DEF send_refused
<1>2. CASE process_send_connack(p)
  BY <1>2, OutPing DEF process_send_connack
<1>3. CASE process_send_publish(p)
  <2>1. CASE publish_attached(p)
    <3>1. link.status # "Connected"
      BY <1>0
    <3> QED BY <2>1, <3>1, OutPing DEF publish_attached
  <2>2. CASE publish_accepted(p)
    BY <2>1, <2>2, OutPing DEF publish_accepted
  <2> QED BY <1>3, <2>2, OutPing DEF process_send_publish
<1>4. \A q : \E e : send_response(self, q) = NotifyError(self, e)
  BY <1>0 DEF send_response, CanSend
<1>5. \A q : /\ \E e : pingreq(self, q) = NotifyError(self, e)
             /\ \E e : disconnect(self, q) = NotifyError(self, e)
  BY <1>0, <1>4 DEF pingreq, disconnect, CanSend
<1>6. \A q : /\ Out(send_response(self, q)) => ping' = ping
             /\ Out(pingreq(self, q)) => ping' = ping
             /\ Out(disconnect(self, q)) => ping' = ping
  BY <1>4, <1>5, OutPing
<1>7. CASE process_send_puback(p) \/ process_send_pubcomp(p) \/ process_send_pubrec(p)
  BY <1>6, <1>7 DEF process_send_puback, process_send_pubcomp, process_send_pubrec
<1>8. CASE process_send_subscribe(p) \/ process_send_unsubscribe(p)
  BY <1>8, OutPing DEF process_send_subscribe, process_send_unsubscribe, send_request
<1>9. CASE process_send_suback(p) \/ process_send_unsuback(p) \/ process_send_pingresp(p)
             \/ process_send_pingreq(p) \/ process_send_disconnect(p)
  BY <1>6, <1>9 DEF process_send_suback, process_send_unsuback, process_send_pingresp,
       process_send_pingreq, process_send_disconnect
<1>10. CASE process_send_auth(p)
  BY <1>10, OutPing DEF process_send_auth
<1> QED BY <1>1, <1>2, <1>3, <1>7, <1>8, <1>9, <1>10 DEF send

\* A CONNECT that comes or is sent is refused without a timer, or connects.
LEMMA OfflineConnect ==
  ASSUME ConnShape, link.status = "Disconnected", NEW p, p.type = "connect",
         send(p) \/ recv(p)
  PROVE  ping' = ping \/ link'.status = "Connecting"
<1>0. Call(self) /\ self.link = link /\ self.ping = ping
  BY SelfBase
<1>1. CASE send_refused(p)
  BY <1>1, OutPing DEF send_refused
<1>2. CASE process_send_connect(p)
  <2>1. CASE \E b : /\ Base(b) /\ Pushes(b) /\ link' = b.link
                   /\ b.link = [[link EXCEPT !.is_client = TRUE] EXCEPT !.status = "Connecting"]
    BY <2>1 DEF ConnShape, LinkRecord
  <2> QED BY <1>2, <2>1, SendConnect
<1>3. CASE recv_refused(p)
  <2>1. \A q : \E e : disconnect(self, q) = NotifyError(self, e)
    BY <1>0 DEF disconnect
  <2>2. \A q, e : Call(disconnect(self, q)) /\ disconnect(self, q).ping = ping
    BY <1>0, <2>1, EventLeads, LeadsCall
  <2>3. \A q, e : NotifyError(disconnect(self, q), e).ping = ping
    BY <2>2, EventLeads
  <2>4. \A q, e : Out(NotifyError(disconnect(self, q), e)) => ping' = ping
    BY <2>3 DEF Out
  <2> QED BY <1>3, <2>4, OutPing DEF recv_refused
<1>4. CASE process_recv_connect(p)
  <2>1. ASSUME NEW b, link' = b.link, b.link.status = "Connecting"
        PROVE  link'.status = "Connecting"
    BY <2>1
  <2> QED BY <1>4, <2>1, RecvConnect
<1> QED BY <1>1, <1>2, <1>3, <1>4 DEF send, recv

\* A call that leaves the flags alone starts no timer.
LEMMA SameTimers ==
  ASSUME TimerInv, TimerInv', ClosedInv, ping' = ping, net' \in {net, "open"}
  PROVE  ClosedInv'
BY DEF TimerInv, ClosedInv, Silent

LEMMA ClosedApp ==
  ASSUME PubrelOnline, TimerInv, TimerInv', ClosedInv, App
  PROVE  ClosedInv'
<1>0. ConnShape /\ (Silent => link.status = "Disconnected")
  BY DEF TimerInv
<1>1. CASE ~Silent'
  BY <1>1 DEF ClosedInv
<1>2. ASSUME NEW p \in AppPackets, AppConnect(p), Silent PROVE ClosedInv'
  <2>1. CASE link'.status = "Connecting"
    BY <1>2, <2>1 DEF AppConnect, ClosedInv, Silent
  <2>2. CASE ping' = ping /\ link'.status # "Connecting"
    BY <1>2, <2>2, SameTimers DEF AppConnect
  <2> QED BY <1>0, <1>2, <2>1, <2>2, OfflineConnect DEF AppConnect
<1>3. ASSUME NEW p, send(p), p.type \notin {"connect", "pubrel"}, Silent, net' = net
      PROVE  ClosedInv'
  BY <1>0, <1>3, OfflineSend, SameTimers
<1>4. ASSUME NEW p \in AppPackets, AppSend(p), Silent PROVE ClosedInv'
  BY <1>3, <1>4 DEF AppSend, PubrelOnline
<1>5. ASSUME NEW shape \in Publishes, NEW pid, AppPublish(shape, pid), Silent
      PROVE  ClosedInv'
  <2> DEFINE p == [shape EXCEPT !.pid = pid]
  <2>1. p.type = "publish"
    BY EndpointAssumption
  <2>2. send(p) /\ net' = net
    BY <1>5 DEF AppPublish
  <2> HIDE DEF p
  <2> QED BY <1>3, <1>5, <2>1, <2>2
<1>6. ASSUME NEW type \in Requests, NEW pid, AppRequest(type, pid), Silent
      PROVE  ClosedInv'
  <2> DEFINE p == Ack(type, pid)
  <2>1. p.type \in {"subscribe", "unsubscribe"}
    BY EndpointAssumption DEF Ack
  <2>2. send(p) /\ net' = net
    BY <1>6 DEF AppRequest
  <2> HIDE DEF p
  <2> QED BY <1>3, <1>6, <2>1, <2>2
<1>7. ASSUME NEW pid, AppPubrel(pid), Silent PROVE ClosedInv'
  BY <1>0, <1>7 DEF AppPubrel, PubrelOnline
<1>8. \A pid : release_packet_id(pid) => ping' = ping
  BY <1>0, OutPing DEF release_packet_id
<1>9. Acquire \/ AcquireFails \/ SendError \/ (\E pid : Release(pid) \/ Register(pid)) => ClosedInv'
  BY <1>0, <1>8, OutPing, SameTimers DEF Acquire, acquire_packet_id, AcquireFails, acquire_fails,
       SendError, Release, Register, register_packet_id
<1>10. \A name, val : Sets(name, val) => ClosedInv'
  BY <1>0, OutPing, SameTimers DEF Sets, set_offline_publish, set_option
<1>11. ASSUME NEW ms, SetsInterval(ms), Silent PROVE ClosedInv'
  <2>1. ping' = ping \/ ping'.armed = ping.armed \ {"PingreqSend"}
    <3>1. cancel(self, "PingreqSend").ping.armed = ping.armed \ {"PingreqSend"}
      BY <1>0, SelfBase, CancelFollows DEF TimerKind
    <3>2. CASE Out(cancel(self, "PingreqSend"))
      BY <3>1, <3>2 DEF Out
    <3> QED BY <1>0, <1>11, <3>2, OutPing DEF SetsInterval, set_pingreq_send_interval
  <2>2. CASE ping'.armed = ping.armed \ {"PingreqSend"}
    BY <1>11, <2>2 DEF SetsInterval, TimerInv, ClosedInv, Silent
  <2> QED BY <1>11, <2>1, <2>2, SameTimers DEF SetsInterval
<1>12. ASSUME NEW kind \in TimerKind, TimerFires(kind) PROVE ClosedInv'
  BY <1>12 DEF TimerFires, ClosedInv, TimerInv, Silent
<1>13. CASE ~Silent
  <2>1. net' \in {net, "open"}
    BY DEF App, AppConnect, AppSend, AppPublish, AppRequest, AppPubrel, Release, Register,
         Acquire, AcquireFails, SendError, Sets, SetsInterval, TimerFires
  <2> QED BY <1>1, <1>13, <2>1 DEF Silent
<1>14. CASE Silent
  BY <1>2, <1>4, <1>5, <1>6, <1>7, <1>9, <1>10, <1>11, <1>12, <1>14 DEF App
<1> QED BY <1>13, <1>14

LEMMA ClosedNetwork ==
  ASSUME TimerInv, TimerInv', ClosedInv, Network
  PROVE  ClosedInv'
<1>0. ConnShape /\ (Silent => link.status = "Disconnected")
  BY DEF TimerInv
<1>1. CASE Open \/ CloseUnused
  BY <1>1, SameTimers DEF Open, CloseUnused, ClosedInv, TimerInv, Silent
<1>2. CASE Close
  <2>1. ping'.armed = {}
    BY <1>0, <1>2, ClosedPushes DEF Close
  <2> QED BY <2>1 DEF TimerInv, ClosedInv
<1>3. ASSUME NEW p \in PeerPackets, PeerSend(p) PROVE ClosedInv'
  <2>1. CASE net = "open" \/ BeforeConnect
    BY <1>3, <2>1 DEF PeerSend, ClosedInv, Silent
  <2>2. CASE net = "new" /\ ~BeforeConnect
    <3>1. recv(p) /\ p.type = "connect" /\ link.status = "Disconnected"
      BY <1>0, <1>3, <2>2 DEF PeerSend, Silent
    <3>2. CASE link'.status = "Connecting"
      BY <1>3, <3>2 DEF PeerSend, ClosedInv, Silent
    <3>3. CASE ping' = ping
      BY <1>3, <3>3, SameTimers DEF PeerSend
    <3> QED BY <1>0, <3>1, <3>2, <3>3, OfflineConnect
  <2> QED BY <1>3, <2>1, <2>2 DEF PeerSend
<1>4. ASSUME NEW p, PeerSendsMalformed(p) PROVE ClosedInv'
  BY <1>4 DEF PeerSendsMalformed, ClosedInv, Silent
<1> QED BY <1>1, <1>2, <1>3, <1>4 DEF Network

\* A closed transport has no timer, nor has a new one that may close unnoticed
\* (ClosedInv): notify_closed cancels every timer and, but for a PUBREL sent offline,
\* no call starts one until the next CONNECT.
LEMMA ClosedInvHolds ==
  ASSUME PubrelOnline
  PROVE  Spec => []ClosedInv
<1>1. Init => ClosedInv
  BY DEF Init, ClosedInv
<1>2. TimerInv /\ TimerInv' /\ ClosedInv /\ [Next]_vars => ClosedInv'
  <2> SUFFICES ASSUME TimerInv, TimerInv', ClosedInv, [Next]_vars PROVE ClosedInv'
    OBVIOUS
  <2>1. CASE Restart
    BY <2>1 DEF Restart, ClosedInv
  <2>2. CASE UNCHANGED vars
    BY <2>2 DEF vars, envVars, ClosedInv, Silent
  <2> QED BY <2>1, <2>2, PubrelOnline, ClosedApp, ClosedNetwork DEF Next
<1> QED BY <1>1, <1>2, TimerInvHolds, PTL DEF Spec

\* No timer is left running on a transport that is closed, whatever was received
\* and whoever closed (NoTimerWhenClosed).
THEOREM ClosedHasNoTimer ==
  ASSUME PubrelOnline
  PROVE  Spec => []NoTimerWhenClosed
<1>1. ClosedInv => NoTimerWhenClosed
  BY DEF ClosedInv, NoTimerWhenClosed, Silent
<1> QED BY <1>1, PubrelOnline, ClosedInvHolds, PTL
=============================================================================
