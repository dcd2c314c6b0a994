--------------------------- MODULE ReceiverProofs ---------------------------
(***************************************************************************)
(* What an endpoint promises as a receiver, with any packets and settings  *)
(* and any peer, over reconnects and restarts.  A QoS 2 message is         *)
(* delivered once, by any role and version: an id that was delivered and   *)
(* not released is in qos2_publish_handled (DeliveredInv).  A client never *)
(* admits more PUBLISHes than the receive maximum that its CONNECT         *)
(* announced.                                                              *)
(***************************************************************************)
EXTENDS AnyRoleProofs

\* What the application is told of received packets by the events of the call.
Unheard  == \A i \in DOMAIN events' : events'[i].event # "NotifyPacketReceived"
Hears(q) == \A i \in DOMAIN events' :
              events'[i].event = "NotifyPacketReceived" => events'[i].packet = q

\* What ExactlyOnce says of a step.
OnceNow == \A i \in DOMAIN events' :
  /\ events'[i].event = "NotifyPacketReceived"
  /\ events'[i].packet.type = "publish" /\ events'[i].packet.qos = 2
  => events'[i].packet.pid \notin delivered

LEMMA WhatIsHeard ==
  ASSUME NEW b, Call(b), b.ev = <<>>
  PROVE  /\ Pushes(b) => Unheard
         /\ \A q : Arrives(b, q) => Hears(q) /\ Notified(events', q.type)
<1>1. Quiet(b)
  BY DEF Quiet
<1>2. ASSUME Pushes(b) PROVE Unheard
  BY <1>1, <1>2 DEF Pushes, Follows, Returns, Quiet, Unheard
<1>3. ASSUME NEW q, Arrives(b, q) PROVE Hears(q) /\ Notified(events', q.type)
  <2>1. PICK o : Follows(b, o) /\ Returns(NotifyReceived(o, q))
    BY <1>3 DEF Arrives
  <2>2. Call(o) /\ Quiet(o)
    BY <1>1, <2>1 DEF Follows
  <2> DEFINE f == NotifyReceived(o, q)
  <2>3. /\ Notified(f.ev, q.type)
        /\ \A i \in DOMAIN f.ev : f.ev[i].event = "NotifyPacketReceived" => f.ev[i].packet = q
    BY <2>2, ReceivedCall
  <2>4. events' = f.ev
    BY <2>1 DEF Returns
  <2> HIDE DEF f
  <2> QED BY <2>3, <2>4 DEF Hears
<1> QED BY <1>2, <1>3

LEMMA SelfHears ==
  ASSUME ConnShape
  PROVE  /\ Pushes(self) => Unheard
         /\ \A q : Arrives(self, q) => Hears(q) /\ Notified(events', q.type)
BY SelfBase, WhatIsHeard DEF Base

LEMMA NothingHeard ==
  ASSUME Unheard
  PROVE  OnceNow /\ \A type : ~Notified(events', type)
BY DEF Unheard, OnceNow, Notified

\* Sending notifies nothing.
LEMMA SendUnheard ==
  ASSUME ConnShape, NEW p, send(p)
  PROVE  Unheard
<1>1. ASSUME NEW b, Base(b), Pushes(b) PROVE Unheard
  BY <1>1, WhatIsHeard DEF Base
<1>2. CASE send_refused(p)
  BY <1>2, PlainReturns, SelfHears DEF send_refused
<1>3. CASE process_send_connect(p)
  BY <1>1, <1>3, SendConnect, SelfHears
<1>4. CASE process_send_connack(p)
  BY <1>1, <1>4, SendConnack, SelfHears
<1>5. CASE p.type \notin {"connect", "connack"}
  BY <1>5, SendPushes, SelfHears
<1> QED BY <1>2, <1>3, <1>4, <1>5 DEF send

-----------------------------------------------------------------------------
LEMMA DeliveredApp ==
  ASSUME TimerInv, DeliveredInv, App
  PROVE  DeliveredInv' /\ OnceNow
<1>0. ConnShape
  BY DEF TimerInv
<1>1. ASSUME NEW p \in AppPackets, AppConnect(p) PROVE DeliveredInv' /\ OnceNow
  <2>1. send(p) /\ delivered' \subseteq delivered /\ p.type = "connect"
    BY <1>1 DEF AppConnect, Forgets
  <2>2. sess'.qos2_publish_handled = sess.qos2_publish_handled
    BY <1>0, <2>1, SendSess
  <2> QED BY <1>0, <2>1, <2>2, SendUnheard, NothingHeard DEF DeliveredInv
<1>2. ASSUME NEW p \in AppPackets, AppSend(p) PROVE DeliveredInv' /\ OnceNow
  <2>1. Unheard
    BY <1>0, <1>2, SendUnheard DEF AppSend
  <2>2. ASSUME p.type = "pubrec", ~p.ok PROVE DeliveredInv'
    BY <1>2, <2>2 DEF AppSend, DeliveredInv
  <2>3. ASSUME ~(p.type = "pubrec" /\ ~p.ok) PROVE DeliveredInv'
    <3>1. sess'.qos2_publish_handled = sess.qos2_publish_handled /\ delivered' = delivered
      BY <1>0, <1>2, <2>3, SendSess DEF AppSend
    <3> QED BY <3>1 DEF DeliveredInv
  <2> QED BY <2>1, <2>2, <2>3, NothingHeard
<1>3. ASSUME NEW p, send(p), p.type # "pubrec", delivered' = delivered
      PROVE  DeliveredInv' /\ OnceNow
  BY <1>0, <1>3, SendSess, SendUnheard, NothingHeard DEF DeliveredInv
<1>4. ASSUME NEW shape \in Publishes, NEW pid, AppPublish(shape, pid)
      PROVE  DeliveredInv' /\ OnceNow
  <2> DEFINE p == [shape EXCEPT !.pid = pid]
  <2>1. p.type = "publish"
    BY EndpointAssumption
  <2>2. send(p) /\ delivered' = delivered
    BY <1>4 DEF AppPublish
  <2> HIDE DEF p
  <2> QED BY <1>3, <2>1, <2>2
<1>5. ASSUME NEW type \in Requests, NEW pid, AppRequest(type, pid)
      PROVE  DeliveredInv' /\ OnceNow
  <2> DEFINE p == Ack(type, pid)
  <2>1. p.type # "pubrec"
    BY EndpointAssumption DEF Ack
  <2>2. send(p) /\ delivered' = delivered
    BY <1>5 DEF AppRequest
  <2> HIDE DEF p
  <2> QED BY <1>3, <2>1, <2>2
<1>6. ASSUME NEW pid, AppPubrel(pid) PROVE DeliveredInv' /\ OnceNow
  <2> DEFINE p == Ack("pubrel", pid)
  <2>1. p.type # "pubrec"
    BY DEF Ack
  <2>2. send(p) /\ delivered' = delivered
    BY <1>6 DEF AppPubrel
  <2> HIDE DEF p
  <2> QED BY <1>3, <2>1, <2>2
<1>7. ASSUME Pushes(self), delivered' = delivered,
             sess'.qos2_publish_handled = sess.qos2_publish_handled
      PROVE  DeliveredInv' /\ OnceNow
  BY <1>0, <1>7, SelfHears, NothingHeard DEF DeliveredInv
<1>8. CASE Acquire \/ AcquireFails \/ SendError \/ (\E pid : Release(pid) \/ Register(pid))
  BY <1>0, <1>7, <1>8, PlainReturns DEF Acquire, acquire_packet_id, AcquireFails, acquire_fails,
       SendError, Release, release_packet_id, Register, register_packet_id, core
<1>9. ASSUME NEW name, NEW val, Sets(name, val) PROVE DeliveredInv' /\ OnceNow
  <2>1. sess'.qos2_publish_handled = sess.qos2_publish_handled
    BY <1>0, <1>9 DEF Sets, set_offline_publish, set_option, ConnShape
  <2> QED BY <1>0, <1>7, <1>9, <2>1, PlainReturns DEF Sets, set_offline_publish, set_option
<1>10. ASSUME NEW ms, SetsInterval(ms) PROVE DeliveredInv' /\ OnceNow
  BY <1>0, <1>7, <1>10, IntervalPushes DEF SetsInterval, set_pingreq_send_interval
<1>11. ASSUME NEW kind \in TimerKind, TimerFires(kind) PROVE DeliveredInv' /\ OnceNow
  <2>1. PICK b, o : Disarms(b, kind) /\ Leads(b, o) /\ Returns(o)
    BY <1>0, <1>11, FiredPushes DEF TimerFires
  <2>2. Call(b) /\ b.ev = <<>> /\ Pushes(b)
    BY <2>1, LeadsCall DEF Disarms, Pushes
  <2>3. sess' = sess /\ delivered' = delivered
    BY <1>11 DEF TimerFires, notify_timer_fired, core
  <2> QED BY <2>2, <2>3, WhatIsHeard, NothingHeard DEF DeliveredInv
<1> QED BY <1>1, <1>2, <1>4, <1>5, <1>6, <1>8, <1>9, <1>10, <1>11 DEF App

-----------------------------------------------------------------------------
\* PUBLISH is notified only if its id was not handled, and then it is.
LEMMA DeliveredPublish ==
  ASSUME TimerInv, DeliveredInv, NEW p \in PeerPackets, PeerSend(p), p.type = "publish"
  PROVE  DeliveredInv' /\ OnceNow
<1>0. ConnShape /\ recv(p)
  BY DEF TimerInv, PeerSend
<1>1. sess.qos2_publish_handled \subseteq sess'.qos2_publish_handled
  BY <1>0, RecvSess
<1>2. delivered' = IF Notified(events', "publish") /\ p.qos = 2
                   THEN delivered \cup {p.pid} ELSE delivered
  BY DEF PeerSend
<1>3. CASE Pushes(self)
  BY <1>0, <1>1, <1>2, <1>3, SelfHears, NothingHeard DEF DeliveredInv
<1>4. ASSUME NEW q, NEW t, Arrives(self, q), q \in {p, [p EXCEPT !.topic = t]},
             p.qos = 2 => /\ p.pid \notin sess.qos2_publish_handled
                          /\ sess' = [sess EXCEPT !.qos2_publish_handled = @ \cup {p.pid}]
      PROVE  DeliveredInv' /\ OnceNow
  <2>1. q.type = "publish" /\ q.qos = p.qos /\ q.pid = p.pid
    BY <1>4, EndpointAssumption
  <2>2. Hears(q)
    BY <1>0, <1>4, SelfHears
  <2>3. OnceNow
    BY <1>4, <2>1, <2>2 DEF Hears, OnceNow, DeliveredInv
  <2>4. p.qos = 2 => p.pid \in sess'.qos2_publish_handled
    BY <1>0, <1>4 DEF ConnShape
  <2>5. DeliveredInv'
    BY <1>1, <1>2, <2>4 DEF DeliveredInv
  <2> QED BY <2>3, <2>5
<1>5. CASE recv_refused(p)
  BY <1>0, <1>3, <1>5, RefusedPushes
<1>6. CASE process_recv_publish(p)
  BY <1>0, <1>3, <1>4, <1>6, RecvPublish
<1> QED BY <1>0, <1>5, <1>6 DEF recv

\* PUBREL ends the exchange on both sides; the other packets deliver nothing.
LEMMA DeliveredOther ==
  ASSUME TimerInv, DeliveredInv, NEW p \in PeerPackets, PeerSend(p), p.type # "publish"
  PROVE  DeliveredInv' /\ OnceNow
<1>0. ConnShape /\ recv(p)
  BY DEF TimerInv, PeerSend
<1>1. /\ delivered' \subseteq delivered
      /\ p.type = "pubrel" /\ Notified(events', "pubrel") => delivered' = delivered \ {p.pid}
  BY DEF PeerSend
<1>2. Unheard \/ (Hears(p) /\ Notified(events', p.type))
  <2>1. ASSUME NEW b, Base(b), Arrives(b, p) PROVE Hears(p) /\ Notified(events', p.type)
    BY <2>1, WhatIsHeard DEF Base
  <2>2. CASE Pushes(self) \/ Arrives(self, p)
    BY <1>0, <2>2, SelfHears
  <2>3. CASE recv_refused(p)
    BY <1>0, <2>2, <2>3, RefusedPushes
  <2>4. CASE process_recv_connect(p)
    BY <1>0, <2>1, <2>2, <2>4, RecvConnect
  <2>5. CASE p.type = "connack" /\ process_recv_connack(p)
    BY <1>0, <2>1, <2>2, <2>5, RecvConnack
  <2>6. CASE p.type = "disconnect" /\ process_recv_disconnect(p)
    BY <1>0, <2>2, <2>6, RecvDisconnect
  <2>7. CASE p.type \notin {"connect", "connack", "publish", "disconnect"}
    BY <1>0, <2>2, <2>7, RecvOther
  <2> QED BY <1>0, <2>3, <2>4, <2>5, <2>6, <2>7 DEF recv
<1>3. OnceNow
  BY <1>2, NothingHeard DEF Hears, OnceNow
<1>4. ASSUME sess.qos2_publish_handled \subseteq sess'.qos2_publish_handled
      PROVE  DeliveredInv'
  BY <1>1, <1>4 DEF DeliveredInv
<1>5. ASSUME p.type = "pubrel", process_recv_pubrel(p),
             sess'.qos2_publish_handled = sess.qos2_publish_handled \ {p.pid}
      PROVE  DeliveredInv'
  <2>1. Arrives(self, p)
    <3>1. Leads(self, self) /\ Call(self)
      BY <1>0, SelfBase, LeadsSelf
    <3>2. \A q : Leads(self, refresh_pingreq_recv(self))
                  /\ Leads(self, refresh_pingreq_recv(send_response(self, q)))
      BY <3>1, CallLeads, LeadsOn, LeadsCall
    <3>3. \A q : /\ Out(NotifyReceived(refresh_pingreq_recv(self), p)) => Arrives(self, p)
                 /\ Out(NotifyReceived(refresh_pingreq_recv(send_response(self, q)), p))
                      => Arrives(self, p)
      BY <1>0, <3>2, CallReturns
    <3> QED BY <1>5, <3>3 DEF process_recv_pubrel
  <2>2. Notified(events', "pubrel")
    BY <1>0, <1>5, <2>1, SelfHears
  <2> QED BY <1>1, <1>5, <2>2 DEF DeliveredInv
<1>6. DeliveredInv'
  BY <1>0, <1>4, <1>5, RecvSess
<1> QED BY <1>3, <1>6

LEMMA DeliveredNetwork ==
  ASSUME TimerInv, DeliveredInv, Network
  PROVE  DeliveredInv' /\ OnceNow
<1>0. ConnShape
  BY DEF TimerInv
<1>1. CASE Open \/ CloseUnused
  BY <1>1, NothingHeard DEF Open, CloseUnused, core, DeliveredInv, Unheard
<1>2. CASE Close
  <2>1. Unheard
    BY <1>0, <1>2, ClosedPushes, WhatIsHeard DEF Close, Base
  <2>2. delivered' \subseteq sess'.qos2_publish_handled
    BY <1>0, <1>2 DEF Close, notify_closed, DeliveredInv, ConnShape
  <2> QED BY <2>1, <2>2, NothingHeard DEF DeliveredInv
<1>3. ASSUME NEW p, PeerSendsMalformed(p) PROVE DeliveredInv' /\ OnceNow
  <2>1. ASSUME NEW b, Base(b), Pushes(b) PROVE Unheard
    BY <2>1, WhatIsHeard DEF Base
  <2>2. Unheard
    BY <1>0, <1>3, <2>1, SelfHears, MalformedPushes, FramingPushes DEF PeerSendsMalformed
  <2>3. sess' = sess /\ delivered' = delivered
    BY <1>3 DEF PeerSendsMalformed, recv_malformed, recv_framing_error, core
  <2> QED BY <2>2, <2>3, NothingHeard DEF DeliveredInv
<1> QED BY <1>1, <1>2, <1>3, DeliveredPublish, DeliveredOther DEF Network

LEMMA DeliveredStep ==
  ASSUME TimerInv, DeliveredInv, Next
  PROVE  DeliveredInv' /\ OnceNow
<1>1. CASE Restart
  BY <1>1, NothingHeard DEF Restart, restore, DeliveredInv, Unheard
<1> QED BY <1>1, DeliveredApp, DeliveredNetwork DEF Next

\* An id that was delivered and not released stays in qos2_publish_handled, over
\* reconnects and restarts, until a PUBREL, a failed PUBREC or the end of the
\* session (DeliveredInv).
THEOREM DeliveredIsHandled == Spec => []DeliveredInv
<1>1. Init => DeliveredInv
  BY DEF Init, DeliveredInv
<1>2. TimerInv /\ DeliveredInv /\ [Next]_vars => DeliveredInv'
  <2>1. ASSUME DeliveredInv, UNCHANGED vars PROVE DeliveredInv'
    BY <2>1 DEF vars, connVars, envVars, core, DeliveredInv
  <2> QED BY <2>1, DeliveredStep
<1> QED BY <1>1, <1>2, TimerInvHolds, PTL DEF Spec

\* process_recv_publish notifies a QoS 2 message once in its session: no PUBLISH of
\* an id that was delivered is notified before its PUBREL (ExactlyOnce).
THEOREM DeliveredExactlyOnce == Spec => ExactlyOnce
<1>1. TimerInv /\ DeliveredInv /\ [Next]_vars => [OnceNow]_vars
  <2> SUFFICES ASSUME TimerInv, DeliveredInv, Next PROVE OnceNow
    OBVIOUS
  <2> QED BY DeliveredStep
<1> QED BY <1>1, TimerInvHolds, DeliveredIsHandled, PTL DEF Spec, ExactlyOnce, OnceNow

-----------------------------------------------------------------------------
\* A client whose CONNECTs announce a number or nothing.
AnnouncingClient ==
  /\ Role = "Client"
  /\ \A p \in AppPackets : p.type = "connect" => p.recv_max \in Nat \cup {None}

\* The ways publish_recv and publish_recv_max change: packets leave; CONNECT or a
\* restart begins anew; one packet is admitted below the maximum.
Leaves  == /\ {"recv_max", "recv"} \subseteq DOMAIN flow'
           /\ flow'.recv \subseteq flow.recv /\ flow'.recv_max = flow.recv_max
Begins  == /\ {"recv_max", "recv"} \subseteq DOMAIN flow'
           /\ flow'.recv = {} /\ flow'.recv_max \in Nat \cup {None}
Admits  == /\ {"recv_max", "recv"} \subseteq DOMAIN flow'
           /\ \E x : flow'.recv = flow.recv \cup {x}
           /\ flow'.recv_max = flow.recv_max
           /\ flow.recv_max # None => ~(Cardinality(flow.recv) >= flow.recv_max)
RecvStep == Leaves \/ Begins \/ Admits

\* Each of them keeps the invariant.
LEMMA RecvStepKeeps == ASSUME RecvInv, RecvStep PROVE RecvInv'
<1>1. CASE Leaves
  <2>1. IsFiniteSet(flow'.recv) /\ Cardinality(flow'.recv) <= Cardinality(flow.recv)
    BY <1>1, FS_Subset DEF Leaves, RecvInv
  <2>2. Cardinality(flow.recv) \in Nat /\ Cardinality(flow'.recv) \in Nat
    BY <2>1, FS_CardinalityType DEF RecvInv
  <2> QED BY <1>1, <2>1, <2>2 DEF Leaves, RecvInv
<1>2. CASE Begins
  <2>1. IsFiniteSet(flow'.recv) /\ Cardinality(flow'.recv) = 0
    BY <1>2, FS_EmptySet DEF Begins
  <2> QED BY <1>2, <2>1 DEF Begins, RecvInv
<1>3. CASE Admits
  <2>1. PICK x : flow'.recv = flow.recv \cup {x}
    BY <1>3 DEF Admits
  <2>2. /\ IsFiniteSet(flow'.recv)
        /\ Cardinality(flow'.recv) \in {Cardinality(flow.recv), Cardinality(flow.recv) + 1}
    BY <2>1, FS_AddElement DEF RecvInv
  <2>3. Cardinality(flow.recv) \in Nat
    BY FS_CardinalityType DEF RecvInv
  <2> QED BY <1>3, <2>2, <2>3 DEF Admits, RecvInv
<1> QED BY <1>1, <1>2, <1>3 DEF RecvStep

\* What leaves the flow record alone.
LEMMA FlowSame == ASSUME RecvInv, UNCHANGED flow PROVE RecvStep
BY DEF RecvInv, RecvStep, Leaves

LEMMA CountSame == ASSUME RecvInv, NEW d, flow' = add_count(d) PROVE RecvStep
BY DEF RecvInv, RecvStep, Leaves, add_count

LEMMA AckLeaves == ASSUME RecvInv, NEW o, NEW p, flow' = flow_after_ack(o, p, flow) PROVE RecvStep
BY DEF RecvInv, RecvStep, Leaves, flow_after_ack

LEMMA CoreSame == ASSUME RecvInv, UNCHANGED core PROVE RecvStep
BY FlowSame DEF core

LEMMA PanicSame == ASSUME RecvInv, Panic PROVE RecvStep
BY CoreSame DEF Panic

\* send() of a packet other than CONNECT: a client sends no CONNACK.
LEMMA SendStep ==
  ASSUME Role = "Client", RecvInv, NEW p, send(p), p.type # "connect"
  PROVE  RecvStep
<1>1. ASSUME send_refused(p) PROVE RecvStep
  BY <1>1, CoreSame DEF send_refused
<1>2. ASSUME may_send(p), p.type = "connack" PROVE FALSE
  BY <1>2 DEF may_send, wrong_version
<1>3. ASSUME process_send_publish(p) PROVE RecvStep
  <2>1. \/ UNCHANGED flow \/ publish_accepted(p)
    BY <1>3 DEF process_send_publish
  <2>2. \/ UNCHANGED flow \/ Panic \/ publish_attached(p)
    BY <2>1 DEF publish_accepted
  <2>3. UNCHANGED flow \/ Panic \/ flow' = add_count(1)
    BY <2>2 DEF publish_attached
  <2> QED BY <2>3, FlowSame, PanicSame, CountSame
<1>4. ASSUME process_send_puback(p) PROVE RecvStep
  BY <1>4, AckLeaves DEF process_send_puback
<1>5. ASSUME process_send_pubcomp(p) PROVE RecvStep
  BY <1>5, AckLeaves DEF process_send_pubcomp
<1>6. ASSUME process_send_pubrec(p) PROVE RecvStep
  <2>1. UNCHANGED flow \/ flow' = [flow EXCEPT !.recv = @ \ {p.pid}]
    BY <1>6 DEF process_send_pubrec
  <2> QED BY <2>1, FlowSame DEF RecvInv, RecvStep, Leaves
<1>7. ASSUME process_send_pubrel(p) PROVE RecvStep
  <2>1. Panic \/ UNCHANGED flow
    BY <1>7 DEF process_send_pubrel
  <2> QED BY <2>1, PanicSame, FlowSame
<1>8. ASSUME process_send_subscribe(p) \/ process_send_unsubscribe(p) PROVE RecvStep
  BY <1>8, FlowSame DEF process_send_subscribe, process_send_unsubscribe, send_request
<1>9. ASSUME \/ process_send_suback(p) \/ process_send_unsuback(p) \/ process_send_pingreq(p)
             \/ process_send_pingresp(p) \/ process_send_disconnect(p) \/ process_send_auth(p)
      PROVE  RecvStep
  BY <1>9, CoreSame DEF process_send_suback, process_send_unsuback, process_send_pingreq,
       process_send_pingresp, process_send_disconnect, process_send_auth
<1> QED BY <1>1, <1>2, <1>3, <1>4, <1>5, <1>6, <1>7, <1>8, <1>9 DEF send

\* CONNECT begins anew or is refused.
LEMMA ConnectStep ==
  ASSUME AnnouncingClient, RecvInv, NEW p \in AppPackets, p.type = "connect", send(p)
  PROVE  RecvStep
<1>1. p.recv_max \in Nat \cup {None}
  BY DEF AnnouncingClient
<1>2. ASSUME send_refused(p) PROVE RecvStep
  BY <1>2, CoreSame DEF send_refused
<1>3. ASSUME process_send_connect(p) PROVE RecvStep
  <2>1. UNCHANGED core \/ flow' = [initialize_flow EXCEPT !.recv_max = p.recv_max]
    BY <1>3 DEF process_send_connect
  <2> QED BY <1>1, <2>1, CoreSame DEF initialize_flow, RecvStep, Begins
<1> QED BY <1>2, <1>3 DEF send

\* A PUBLISH is admitted below the maximum, and leaves at once if it is answered.
LEMMA PublishStep ==
  ASSUME RecvInv, NEW p, process_recv_publish(p) PROVE RecvStep
<1> DEFINE noted == IF V5 /\ p.qos > 0 THEN [flow EXCEPT !.recv = @ \cup {p.pid}] ELSE flow
           ack   == Ack(IF p.qos = 1 THEN "puback" ELSE "pubrec", p.pid)
<1>1. \/ UNCHANGED flow
      \/ /\ ~receive_maximum_exceeded(p)
         /\ flow' = noted \/ flow' = flow_after_ack(self, ack, noted)
  BY DEF process_recv_publish
<1>2. ack.pid = p.pid
  BY DEF Ack
<1> HIDE DEF ack
<1>3. CASE ~(V5 /\ p.qos > 0)
  <2>1. UNCHANGED flow \/ flow' = flow_after_ack(self, ack, flow)
    BY <1>1, <1>3
  <2> QED BY <2>1, FlowSame, AckLeaves
<1>4. CASE V5 /\ p.qos > 0
  <2>1. noted = [flow EXCEPT !.recv = @ \cup {p.pid}]
    BY <1>4
  <2>2. ~receive_maximum_exceeded(p) =>
          (flow.recv_max # None => ~(Cardinality(flow.recv) >= flow.recv_max))
    BY <1>4 DEF receive_maximum_exceeded
  <2>3. /\ {"recv_max", "recv"} \subseteq DOMAIN noted
        /\ noted.recv = flow.recv \cup {p.pid} /\ noted.recv_max = flow.recv_max
    BY <2>1 DEF RecvInv
  <2> HIDE DEF noted
  <2>4. \/ flow_after_ack(self, ack, noted) = noted
        \/ flow_after_ack(self, ack, noted) = [noted EXCEPT !.recv = @ \ {p.pid}]
    BY <1>2 DEF flow_after_ack
  <2>5. ASSUME flow' = noted, ~receive_maximum_exceeded(p) PROVE Admits
    BY <2>2, <2>3, <2>5 DEF Admits
  <2>6. ASSUME flow' = [noted EXCEPT !.recv = @ \ {p.pid}] PROVE Leaves
    BY <2>3, <2>6 DEF Leaves
  <2> QED BY <1>1, <2>4, <2>5, <2>6, FlowSame DEF RecvStep
<1> QED BY <1>3, <1>4

\* A response that ends an exchange of the client's own changes only the count.
LEMMA ResponseStep ==
  ASSUME RecvInv, NEW p, NEW i, NEW c, response_ends(p, i, c) \/ unexpected_response
  PROVE  RecvStep
<1>1. UNCHANGED flow \/ flow' = add_count(-1) \/ UNCHANGED core
  BY DEF response_ends, unexpected_response
<1> QED BY <1>1, FlowSame, CountSame, CoreSame

\* recv(): a client receives no CONNECT.
LEMMA ReceiveStep ==
  ASSUME Role = "Client", RecvInv, NEW p, recv(p) PROVE RecvStep
<1>1. ASSUME recv_refused(p) PROVE RecvStep
  BY <1>1, CoreSame DEF recv_refused
<1>2. ASSUME p.type = "connect", process_recv_connect(p) PROVE FALSE
  BY <1>2 DEF process_recv_connect, accepts, can_receive
<1>3. ASSUME process_recv_connack(p) PROVE RecvStep
  <2>1. UNCHANGED core \/ flow' = [flow EXCEPT !.send_max = Prop(p.recv_max, @)]
    BY <1>3 DEF process_recv_connack
  <2> QED BY <2>1, CoreSame DEF RecvInv, RecvStep, Leaves
<1>4. ASSUME process_recv_puback(p) PROVE RecvStep
  BY <1>4, ResponseStep DEF process_recv_puback
<1>5. ASSUME process_recv_pubcomp(p) PROVE RecvStep
  BY <1>5, ResponseStep DEF process_recv_pubcomp
<1>6. ASSUME process_recv_suback(p) PROVE RecvStep
  BY <1>6, ResponseStep DEF process_recv_suback
<1>7. ASSUME process_recv_unsuback(p) PROVE RecvStep
  BY <1>7, ResponseStep DEF process_recv_unsuback
<1>8. ASSUME process_recv_pubrec(p) PROVE RecvStep
  <2>1. \/ unexpected_response \/ Panic \/ UNCHANGED flow
        \/ response_ends(p, [ids EXCEPT !.pubrec = @ \ {p.pid}], TRUE)
    BY <1>8 DEF process_recv_pubrec
  <2> QED BY <2>1, ResponseStep, PanicSame, FlowSame
<1>9. ASSUME process_recv_pubrel(p) PROVE RecvStep
  <2>1. \/ UNCHANGED flow
        \/ \E a : flow' = flow_after_ack(self, a, flow)
    BY <1>9 DEF process_recv_pubrel
  <2> QED BY <2>1, FlowSame, AckLeaves
<1>10. ASSUME \/ process_recv_notified(p) \/ process_recv_pingreq(p)
              \/ process_recv_pingresp(p) \/ process_recv_disconnect(p)
       PROVE  RecvStep
  BY <1>10, CoreSame DEF process_recv_notified, process_recv_pingreq,
       process_recv_pingresp, process_recv_disconnect
<1> QED BY <1>1, <1>2, <1>3, <1>4, <1>5, <1>6, <1>7, <1>8, <1>9, <1>10, PublishStep DEF recv

-----------------------------------------------------------------------------
\* Every action is such a step.
LEMMA NextRecv == ASSUME AnnouncingClient, RecvInv, Next PROVE RecvStep
<1>1. Role = "Client"
  BY DEF AnnouncingClient
<1>2. ASSUME NEW p \in AppPackets, AppConnect(p) PROVE RecvStep
  BY <1>2, ConnectStep DEF AppConnect
<1>3. ASSUME NEW p \in AppPackets, AppSend(p) PROVE RecvStep
  BY <1>1, <1>3, SendStep DEF AppSend
<1>4. ASSUME NEW p \in Publishes, NEW pid, AppPublish(p, pid) PROVE RecvStep
  <2>1. p.type = "publish"
    BY EndpointAssumption
  <2>2. [p EXCEPT !.pid = pid].type # "connect"
    BY <2>1
  <2>3. send([p EXCEPT !.pid = pid])
    BY <1>4 DEF AppPublish
  <2> QED BY <1>1, <2>2, <2>3, SendStep
<1>5. ASSUME NEW type \in Requests, NEW pid, AppRequest(type, pid) PROVE RecvStep
  <2>1. Ack(type, pid).type # "connect"
    BY EndpointAssumption DEF Ack
  <2> QED BY <1>1, <1>5, <2>1, SendStep DEF AppRequest
<1>6. ASSUME NEW pid, AppPubrel(pid) PROVE RecvStep
  <2>1. Ack("pubrel", pid).type # "connect"
    BY DEF Ack
  <2> QED BY <1>1, <1>6, <2>1, SendStep DEF AppPubrel
<1>7. ASSUME NEW pid, Release(pid) \/ Register(pid) PROVE RecvStep
  BY <1>7, FlowSame DEF Release, Register, release_packet_id, register_packet_id
<1>8. ASSUME Acquire \/ AcquireFails \/ SendError PROVE RecvStep
  BY <1>8, FlowSame, CoreSame DEF Acquire, AcquireFails, SendError, acquire_packet_id,
       acquire_fails, release_packet_id
<1>9. ASSUME NEW name, NEW val, Sets(name, val) PROVE RecvStep
  BY <1>9, FlowSame DEF Sets, set_offline_publish, set_option
<1>10. ASSUME NEW ms, SetsInterval(ms) PROVE RecvStep
  BY <1>10, FlowSame DEF SetsInterval, set_pingreq_send_interval
<1>11. ASSUME NEW kind, TimerFires(kind) PROVE RecvStep
  BY <1>11, CoreSame DEF TimerFires, notify_timer_fired
<1>12. ASSUME Open \/ Close \/ CloseUnused PROVE RecvStep
  BY <1>12, FlowSame, CoreSame DEF Open, Close, CloseUnused, notify_closed
<1>13. ASSUME NEW p \in PeerPackets, PeerSend(p) PROVE RecvStep
  BY <1>1, <1>13, ReceiveStep DEF PeerSend
<1>14. ASSUME NEW p \in PeerPackets, PeerSendsMalformed(p) PROVE RecvStep
  BY <1>14, CoreSame DEF PeerSendsMalformed, recv_malformed, recv_framing_error
<1>15. ASSUME Restart PROVE RecvStep
  <2>1. flow' = initialize_flow
    BY <1>15 DEF Restart, restore
  <2> QED BY <2>1 DEF initialize_flow, RecvStep, Begins
<1> QED BY <1>2, <1>3, <1>4, <1>5, <1>6, <1>7, <1>8, <1>9, <1>10, <1>11, <1>12, <1>13, <1>14,
           <1>15 DEF Next, App, Network

\* The PUBLISHes that a client admitted and did not acknowledge never exceed the
\* receive maximum of its CONNECT: process_recv_publish refuses the next one, and
\* no reconnect, restart or answer out of order loosens the bound.
THEOREM ReceiveMaximumAlwaysKept ==
  ASSUME AnnouncingClient PROVE Spec => []ReceiveMaximumKept
<1>1. Init => RecvInv
  <2> SUFFICES ASSUME Init PROVE RecvInv
    OBVIOUS
  <2>1. flow = [send_max |-> None, send_count |-> 0, recv_max |-> None, recv |-> {}]
    BY DEF Init, ConnInit
  <2>2. IsFiniteSet({})
    BY FS_EmptySet
  <2> QED BY <2>1, <2>2 DEF RecvInv
<1>2. RecvInv /\ [Next]_vars => RecvInv'
  <2>1. RecvInv /\ Next => RecvInv'
    BY NextRecv, RecvStepKeeps
  <2>2. RecvInv /\ UNCHANGED vars => RecvInv'
    BY FlowSame, RecvStepKeeps DEF vars, connVars
  <2> QED BY <2>1, <2>2
<1>3. RecvInv => ReceiveMaximumKept
  BY DEF RecvInv, ReceiveMaximumKept
<1> QED BY <1>1, <1>2, <1>3, PTL DEF Spec
=============================================================================
