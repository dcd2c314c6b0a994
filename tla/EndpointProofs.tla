--------------------------- MODULE EndpointProofs ---------------------------
(***************************************************************************)
(* The proof of ClientInv and of what follows from it.  Its parts: what    *)
(* the helpers that push events do (they notify no packet and at most end  *)
(* the connection); what store.add and erase do to the store; the ways an  *)
(* id changes hands and the count follows; one lemma per action that       *)
(* ClientInv is kept; the theorems.                                        *)
(***************************************************************************)
EXTENDS ClientInvariant, SequenceTheorems, FiniteSetTheorems, TLAPS

\* A list of events without NotifyPacketReceived, and the `self` of a call whose
\* events are such a list.
QuietSeq(ev) == \E S : ev \in Seq(S) /\ \A e \in S : e.event # "NotifyPacketReceived"
Shaped(o)    == o = [link |-> o.link, ping |-> o.ping, ev |-> o.ev]
Quiet(o)     == Shaped(o) /\ QuietSeq(o.ev)

\* A quiet list stays quiet when another event than NotifyPacketReceived is added.
LEMMA AppendQuiet ==
  ASSUME NEW ev, QuietSeq(ev), NEW e, e.event # "NotifyPacketReceived"
  PROVE  QuietSeq(Append(ev, e))
<1>1. PICK S : ev \in Seq(S) /\ \A d \in S : d.event # "NotifyPacketReceived"
  BY DEF QuietSeq
<1>2. Append(ev, e) \in Seq(S \cup {e})
  BY <1>1
<1>3. \A d \in S \cup {e} : d.event # "NotifyPacketReceived"
  BY <1>1
<1> QED BY <1>2, <1>3 DEF QuietSeq

\* Pushing such an event leaves the link alone.
LEMMA PushQuiet ==
  ASSUME NEW o, Quiet(o), NEW e, e.event # "NotifyPacketReceived"
  PROVE  Quiet(Push(o, e)) /\ Push(o, e).link = o.link
<1>1. Push(o, e) = [link |-> o.link, ping |-> o.ping, ev |-> Append(o.ev, e)]
  BY SMTT(30) DEF Push, Quiet, Shaped
<1> QED BY <1>1, AppendQuiet DEF Quiet, Shaped

\* A quiet list notifies no packet.
LEMMA QuietNotNotified ==
  ASSUME NEW ev, QuietSeq(ev), NEW type
  PROVE  ~Notified(ev, type)
<1>1. PICK S : ev \in Seq(S) /\ \A d \in S : d.event # "NotifyPacketReceived"
  BY DEF QuietSeq
<1>2. \A i \in DOMAIN ev : ev[i] \in S
  BY <1>1
<1> QED BY <1>1, <1>2 DEF Notified

\* NotifyReceived after quiet events notifies the packet and leaves the link alone.
LEMMA ReceivedNotified ==
  ASSUME NEW o, Quiet(o), NEW p
  PROVE  /\ Notified(NotifyReceived(o, p).ev, p.type)
         /\ NotifyReceived(o, p).link = o.link
<1> DEFINE e == [event |-> "NotifyPacketReceived", packet |-> p]
<1>1. NotifyReceived(o, p) = [link |-> o.link, ping |-> o.ping, ev |-> Append(o.ev, e)]
  BY SMTT(30) DEF NotifyReceived, Push, Quiet, Shaped
<1>2. PICK S : o.ev \in Seq(S)
  BY DEF Quiet, QuietSeq
<1>3. /\ Len(o.ev) + 1 \in DOMAIN Append(o.ev, e)
      /\ Append(o.ev, e)[Len(o.ev) + 1] = e
  BY <1>2
<1> QED BY <1>1, <1>3 DEF Notified

\* A call starts without events.
LEMMA SelfQuiet == Quiet(self) /\ self.link = link
<1> DEFINE S == {[event |-> "RequestClose"]}
<1>1. <<>> \in Seq(S)
  BY SMT
<1>2. \A e \in S : e.event # "NotifyPacketReceived"
  OBVIOUS
<1>3. QuietSeq(<<>>)
  <2> HIDE DEF S
  <2> QED BY <1>1, <1>2, Zenon DEF QuietSeq
<1> QED BY <1>3 DEF Quiet, Shaped, self

-----------------------------------------------------------------------------
\* What the helpers that push events do to a quiet `self`: it stays quiet, and
\* only disconnect touches the link.
Tame(o, f) == Quiet(f) /\ f.link = o.link

\* The events that are pushed unconditionally.
LEMMA SimpleTame ==
  ASSUME NEW o, Quiet(o)
  PROVE  /\ \A e : Tame(o, NotifyError(o, e))
         /\ Tame(o, RequestClose(o))
         /\ \A p, r : Tame(o, RequestSend(o, p, r))
         /\ \A pids : Tame(o, NotifyReleased(o, pids))
<1>1. \A e : Tame(o, NotifyError(o, e))
  BY PushQuiet DEF NotifyError, Tame
<1>2. Tame(o, RequestClose(o))
  BY PushQuiet DEF RequestClose, Tame
<1>3. \A p, r : Tame(o, RequestSend(o, p, r))
  BY PushQuiet DEF RequestSend, SendEvent, Tame
<1>4. \A pids : Tame(o, NotifyReleased(o, pids))
  BY PushQuiet DEF NotifyReleased, ReleasedEvent, Tame
<1> QED BY <1>1, <1>2, <1>3, <1>4

\* RequestTimerReset and RequestTimerCancel.
LEMMA TimerTame ==
  ASSUME NEW o, Quiet(o)
  PROVE  /\ \A kind, ms : Tame(o, reset(o, kind, ms))
         /\ \A kind : Tame(o, cancel(o, kind))
<1>1. ASSUME NEW kind, NEW ms PROVE Tame(o, reset(o, kind, ms))
  <2> DEFINE armed == [o EXCEPT !.ping.armed = @ \cup {kind}]
  <2>1. Quiet(armed) /\ armed.link = o.link
    BY DEF Quiet, Shaped
  <2> HIDE DEF armed
  <2>2. Tame(o, Push(armed, [event |-> "RequestTimerReset", kind |-> kind, duration_ms |-> ms]))
    BY <2>1, PushQuiet DEF Tame
  <2> QED BY <2>2 DEF reset, armed
<1>2. ASSUME NEW kind PROVE Tame(o, cancel(o, kind))
  <2> DEFINE armed == [o EXCEPT !.ping.armed = @ \ {kind}]
  <2>1. Quiet(armed) /\ armed.link = o.link
    BY DEF Quiet, Shaped
  <2> HIDE DEF armed
  <2>2. Tame(o, Push(armed, [event |-> "RequestTimerCancel", kind |-> kind]))
    BY <2>1, PushQuiet DEF Tame
  <2> QED BY <2>2 DEF cancel, armed, Tame
<1> QED BY <1>1, <1>2

\* The helpers that only push events.
LEMMA CallTame ==
  ASSUME NEW o, Quiet(o)
  PROVE  /\ Tame(o, cancel_timers(o))
         /\ Tame(o, refresh_pingreq_recv(o))
         /\ Tame(o, send_post_process(o))
         /\ \A p : Tame(o, send_response(o, p))
         /\ \A p : Tame(o, pingreq(o, p))
<1>1. Tame(o, cancel_timers(o))
  BY TimerTame DEF cancel_timers, Tame
<1>2. Tame(o, refresh_pingreq_recv(o))
  BY TimerTame DEF refresh_pingreq_recv, Tame
<1>3. ASSUME NEW f, Quiet(f) PROVE Tame(f, send_post_process(f))
  BY <1>3, TimerTame DEF send_post_process, Tame
<1>4. \A p : Tame(o, send_response(o, p))
  BY <1>3, SimpleTame DEF send_response, Tame
<1>5. ASSUME NEW p PROVE Tame(o, pingreq(o, p))
  <2> DEFINE sent == RequestSend(o, p, 0)
             armed == IF opts.pingresp_recv_timeout_ms # 0
                      THEN reset(sent, "PingrespRecv", opts.pingresp_recv_timeout_ms)
                      ELSE sent
  <2>1. Tame(o, sent)
    BY SimpleTame
  <2>2. Tame(o, armed)
    BY <2>1, TimerTame DEF Tame
  <2>3. Tame(o, send_post_process(armed))
    BY <2>2, <1>3 DEF Tame
  <2> QED BY <2>3, <1>4 DEF pingreq
<1> QED BY <1>1, <1>2, <1>3, <1>4, <1>5

\* disconnect may also end the connection, and so may the v5.0 error handler.
Down(l)      == [l EXCEPT !.status = "Disconnected"]
Yields(o, f) == Quiet(f) /\ f.link \in {o.link, Down(o.link)}

LEMMA DisconnectQuiet ==
  ASSUME NEW o, Quiet(o), NEW p
  PROVE  Yields(o, disconnect(o, p))
<1> DEFINE down == Status(o, "Disconnected")
<1>1. Quiet(down) /\ down.link = Down(o.link)
  BY DEF Quiet, Shaped, Status, Down
<1> HIDE DEF down
<1>2. Tame(down, cancel_timers(down))
  BY <1>1, CallTame
<1>3. Tame(down, RequestSend(cancel_timers(down), p, 0))
  BY <1>2, SimpleTame DEF Tame
<1>4. Tame(down, RequestClose(RequestSend(cancel_timers(down), p, 0)))
  BY <1>3, SimpleTame DEF Tame
<1>5. \A e : Tame(o, NotifyError(o, e))
  BY SimpleTame
<1> QED BY <1>1, <1>4, <1>5 DEF disconnect, down, Tame, Yields

LEMMA ErrorQuiet ==
  ASSUME NEW o, Quiet(o), NEW e
  PROVE  Yields(o, handle_error(o, e))
<1> DEFINE d == disconnect(o, Plain("disconnect"))
<1>1. Yields(o, d)
  BY DisconnectQuiet
<1> HIDE DEF d
<1>2. Tame(d, NotifyError(d, e))
  BY <1>1, SimpleTame DEF Yields
<1>3. Tame(o, NotifyError(RequestClose(o), e))
  BY SimpleTame DEF Tame
<1> QED BY <1>1, <1>2, <1>3 DEF handle_error, d, Tame, Yields

-----------------------------------------------------------------------------
LEMMA ResponseTypes ==
  ASSUME NEW p \in Stored
  PROVE  /\ p.pid \in PacketIds /\ p.size \in 0..NoLimit
         /\ response_packet(p) \in {"puback", "pubrec", "pubcomp"}
<1>1. CASE p \in [type : {"publish"}, qos : 1..2, pid : PacketIds, size : 0..NoLimit,
                   topic : Topics \cup {NoTopic}, alias : {0}]
  BY <1>1 DEF response_packet, NoLimit
<1>2. CASE p \in [type : {"pubrel"}, pid : PacketIds, ok : {TRUE}, size : {AckSize}]
  BY <1>2 DEF response_packet, NoLimit, AckSize
<1> QED BY <1>1, <1>2 DEF Stored

\* store.add of a packet whose id is not in the store and whose response is awaited.
LEMMA StoreAdd ==
  ASSUME NEW i \in IdsType, NEW s, StoreOK(s, i), NEW p \in Stored, ~in_store(s, p.pid),
         NEW j \in IdsType, i.puback \subseteq j.puback, i.pubrec \subseteq j.pubrec,
         i.pubcomp \subseteq j.pubcomp, p.pid \in j[response_packet(p)]
  PROVE  StoreOK(Append(s, p), j)
<1>1. Append(s, p) \in Seq(Stored)
  BY DEF StoreOK
<1>2. /\ Len(s) \in Nat /\ DOMAIN s = 1..Len(s) /\ DOMAIN Append(s, p) = 1..(Len(s) + 1)
      /\ \A k \in 1..Len(s) : Append(s, p)[k] = s[k]
      /\ Append(s, p)[Len(s) + 1] = p
  BY DEF StoreOK
<1>3. Distinct(Append(s, p))
  BY <1>2 DEF StoreOK, Distinct, in_store
<1>4. ASSUME NEW k \in 1..Len(s) PROVE s[k].pid \in j[response_packet(s[k])]
  <2>1. s[k] \in Stored
    BY <1>2 DEF StoreOK
  <2>2. s[k].pid \in i[response_packet(s[k])]
    BY <1>2 DEF StoreOK, AwaitedIn
  <2> QED BY <2>1, <2>2, ResponseTypes
<1>5. AwaitedIn(Append(s, p), j)
  BY <1>2, <1>4 DEF AwaitedIn
<1> QED BY <1>1, <1>3, <1>5 DEF StoreOK

\* erase leaves packets of the store, in their order, and not the one it is for.
LEMMA EraseKeeps ==
  ASSUME NEW s \in Seq(Stored), Distinct(s), NEW response, NEW pid
  PROVE  LET e == erase(s, response, pid)
         IN  /\ e \in Seq(Stored) /\ Distinct(e)
             /\ \A k \in DOMAIN e : \E m \in DOMAIN s :
                  e[k] = s[m] /\ ~(s[m].pid = pid /\ response_packet(s[m]) = response)
<1> DEFINE e == erase(s, response, pid)
<1>1. CASE erasable(s, response, pid) = {}
  <2>1. e = s
    BY <1>1 DEF erase
  <2>2. \A m \in DOMAIN s : ~(s[m].pid = pid /\ response_packet(s[m]) = response)
    BY <1>1 DEF erasable
  <2> HIDE DEF e
  <2> QED BY <2>1, <2>2 DEF e
<1>2. CASE erasable(s, response, pid) # {}
  <2> DEFINE n == CHOOSE i \in erasable(s, response, pid) : TRUE
  <2>1. n \in erasable(s, response, pid)
    BY <1>2
  <2>2. e = SubSeq(s, 1, n - 1) \o SubSeq(s, n + 1, Len(s))
    BY <1>2 DEF erase, RemoveAt
  <2>3. n \in DOMAIN s /\ s[n].pid = pid /\ Len(s) \in Nat /\ DOMAIN s = 1..Len(s)
    BY <2>1 DEF erasable
  <2> HIDE DEF n, e
  <2> DEFINE a == SubSeq(s, 1, n - 1)
             b == SubSeq(s, n + 1, Len(s))
  <2>4. a \in Seq(Stored) /\ Len(a) = n - 1 /\ \A k \in 1..(n - 1) : a[k] = s[k]
    BY <2>3
  <2>5. b \in Seq(Stored) /\ Len(b) = Len(s) - n /\ \A k \in 1..(Len(s) - n) : b[k] = s[n + k]
    BY <2>3, SMTT(30)
  <2>4a. e = a \o b
    BY <2>2
  <2> HIDE DEF a, b
  <2>6. /\ e \in Seq(Stored) /\ Len(e) = Len(a) + Len(b)
        /\ \A k \in 1..(Len(a) + Len(b)) : e[k] = IF k <= Len(a) THEN a[k] ELSE b[k - Len(a)]
    <3>1. /\ a \o b \in Seq(Stored) /\ Len(a \o b) = Len(a) + Len(b)
          /\ \A k \in 1..(Len(a) + Len(b)) :
               (a \o b)[k] = IF k <= Len(a) THEN a[k] ELSE b[k - Len(a)]
      BY <2>4, <2>5, ConcatProperties
    <3> QED BY <3>1, <2>4a, Zenon
  <2>7. DOMAIN e = 1..(Len(s) - 1)
    BY <2>3, <2>4, <2>5, <2>6
  <2>7b. ASSUME NEW k \in DOMAIN e PROVE e[k] = s[IF k < n THEN k ELSE k + 1]
    <3>1. CASE k < n
      <4>1. k \in 1..(Len(a) + Len(b)) /\ k <= Len(a) /\ k \in 1..(n - 1)
        BY <3>1, <2>3, <2>4, <2>5, <2>7
      <4>2. e[k] = a[k] /\ a[k] = s[k]
        BY <4>1, <2>4, <2>6
      <4> QED BY <4>2, <3>1
    <3>2. CASE ~(k < n)
      <4>1. k - Len(a) \in 1..(Len(s) - n) /\ n + (k - Len(a)) = k + 1
        BY <3>2, <2>3, <2>4, <2>7
      <4>2. k \in 1..(Len(a) + Len(b)) /\ ~(k <= Len(a))
        BY <3>2, <2>3, <2>4, <2>5, <2>7
      <4>3. e[k] = b[k - Len(a)]
        BY <4>2, <2>6
      <4>4. b[k - Len(a)] = s[n + (k - Len(a))]
        BY <4>1, <2>5
      <4> QED BY <4>1, <4>3, <4>4, <3>2
    <3> QED BY <3>1, <3>2
  <2>8. Distinct(e)
    BY <2>3, <2>7, <2>7b, SMTT(30) DEF Distinct
  <2>9. ASSUME NEW k \in DOMAIN e
        PROVE  \E m \in DOMAIN s :
                 e[k] = s[m] /\ ~(s[m].pid = pid /\ response_packet(s[m]) = response)
    <3> DEFINE m == IF k < n THEN k ELSE k + 1
    <3>1. m \in DOMAIN s /\ m # n /\ e[k] = s[m]
      BY <2>3, <2>7, <2>7b
    <3>2. s[m].pid # pid
      BY <3>1, <2>3 DEF Distinct
    <3> QED BY <3>1, <3>2
  <2> QED BY <2>6, <2>8, <2>9 DEF e
<1> QED BY <1>1, <1>2

\* No packet with the id is left, so the responses awaited for others suffice.
LEMMA StoreErase ==
  ASSUME NEW i, NEW h, NEW r, Owned(i, h, r), NEW s, StoreOK(s, i),
         NEW f \in {"suback", "unsuback", "puback", "pubrec", "pubcomp"}, NEW x \in i[f],
         NEW j \in IdsType, i.puback \ {x} \subseteq j.puback,
         i.pubrec \ {x} \subseteq j.pubrec, i.pubcomp \ {x} \subseteq j.pubcomp
  PROVE  /\ StoreOK(erase(s, f, x), j) /\ ~in_store(erase(s, f, x), x)
         /\ s = <<>> => erase(s, f, x) = <<>>
<1> DEFINE e == erase(s, f, x)
<1>1. /\ e \in Seq(Stored) /\ Distinct(e)
      /\ \A k \in DOMAIN e : \E m \in DOMAIN s :
           e[k] = s[m] /\ ~(s[m].pid = x /\ response_packet(s[m]) = f)
  BY EraseKeeps DEF StoreOK
<1>2. s = <<>> => e = <<>>
  BY DEF erase, erasable
<1> HIDE DEF e
<1>3. ASSUME NEW k \in DOMAIN e
      PROVE  e[k].pid # x /\ e[k].pid \in j[response_packet(e[k])]
  <2>1. PICK m \in DOMAIN s : e[k] = s[m] /\ ~(s[m].pid = x /\ response_packet(s[m]) = f)
    BY <1>1
  <2>2. s[m] \in Stored /\ s[m].pid \in i[response_packet(s[m])]
    BY DEF StoreOK, AwaitedIn
  <2>3. response_packet(s[m]) \in {"puback", "pubrec", "pubcomp"}
    BY <2>2, ResponseTypes
  <2>4. s[m].pid # x
    BY <2>1, <2>2, <2>3 DEF Owned
  <2>5. s[m].pid \in j[response_packet(s[m])]
    BY <2>2, <2>3, <2>4
  <2> QED BY <2>1, <2>4, <2>5
<1>4. StoreOK(e, j) /\ ~in_store(e, x)
  BY <1>1, <1>3 DEF StoreOK, AwaitedIn, in_store
<1> QED BY <1>2, <1>4 DEF e

\* A store stays right when more responses are awaited.
LEMMA StoreMono ==
  ASSUME NEW i \in IdsType, NEW s, StoreOK(s, i), NEW j \in IdsType,
         i.puback \subseteq j.puback, i.pubrec \subseteq j.pubrec, i.pubcomp \subseteq j.pubcomp
  PROVE  StoreOK(s, j)
<1>1. ASSUME NEW k \in DOMAIN s PROVE s[k].pid \in j[response_packet(s[k])]
  <2>1. s[k] \in Stored /\ s[k].pid \in i[response_packet(s[k])]
    BY DEF StoreOK, AwaitedIn
  <2> QED BY <2>1, ResponseTypes
<1> QED BY <1>1 DEF StoreOK, AwaitedIn

\* A stored packet's id belongs to neither the application nor a request.
LEMMA StoredNotHeld ==
  ASSUME NEW i, NEW h, NEW r, Owned(i, h, r), NEW s, StoreOK(s, i), NEW x,
         x \in h \cup r \cup i.suback \cup i.unsuback
  PROVE  ~in_store(s, x)
<1> SUFFICES ASSUME NEW k \in DOMAIN s, s[k].pid = x PROVE FALSE
  BY DEF in_store
<1>1. s[k] \in Stored /\ x \in i[response_packet(s[k])]
  BY DEF StoreOK, AwaitedIn
<1>2. response_packet(s[k]) \in {"puback", "pubrec", "pubcomp"}
  BY <1>1, ResponseTypes
<1> QED BY <1>1, <1>2 DEF Owned

\* The ways an id changes hands.
LEMMA Moves ==
  ASSUME NEW i, NEW h, NEW r, Owned(i, h, r), NEW x
  PROVE  /\ x \in h => Owned([i EXCEPT !.man = @ \ {x}], h \ {x}, r)
         /\ x \in r => Owned([i EXCEPT !.man = @ \ {x}], h, r \ {x})
         /\ x \in PacketIds \ i.man => Owned([i EXCEPT !.man = @ \cup {x}], h \cup {x}, r)
         /\ x \in h => Owned([i EXCEPT !.suback = @ \cup {x}], h \ {x}, r)
         /\ x \in h => Owned([i EXCEPT !.unsuback = @ \cup {x}], h \ {x}, r)
         /\ x \in h => Owned([i EXCEPT !.puback = @ \cup {x}], h \ {x}, r)
         /\ x \in h => Owned([i EXCEPT !.pubrec = @ \cup {x}], h \ {x}, r)
         /\ x \in r => Owned([i EXCEPT !.pubcomp = @ \cup {x}], h, r \ {x})
         /\ x \in i.pubrec => Owned([i EXCEPT !.pubrec = @ \ {x}], h, r \cup {x})
         /\ x \in i.pubrec => Owned([[i EXCEPT !.pubrec = @ \ {x}] EXCEPT !.pubcomp = @ \cup {x}], h, r)
         /\ x \in i.suback => Owned([[i EXCEPT !.suback = @ \ {x}] EXCEPT !.man = @ \ {x}], h, r)
         /\ x \in i.unsuback => Owned([[i EXCEPT !.unsuback = @ \ {x}] EXCEPT !.man = @ \ {x}], h, r)
         /\ x \in i.puback => Owned([[i EXCEPT !.puback = @ \ {x}] EXCEPT !.man = @ \ {x}], h, r)
         /\ x \in i.pubcomp => Owned([[i EXCEPT !.pubcomp = @ \ {x}] EXCEPT !.man = @ \ {x}], h, r)
         /\ x \in i.pubrec => Owned([[i EXCEPT !.pubrec = @ \ {x}] EXCEPT !.man = @ \ {x}], h, r)
<1> USE DEF Owned, IdsType
<1>1. x \in h => Owned([i EXCEPT !.man = @ \ {x}], h \ {x}, r)
  OBVIOUS
<1>2. x \in r => Owned([i EXCEPT !.man = @ \ {x}], h, r \ {x})
  OBVIOUS
<1>3. x \in PacketIds \ i.man => Owned([i EXCEPT !.man = @ \cup {x}], h \cup {x}, r)
  OBVIOUS
<1>4. x \in h => Owned([i EXCEPT !.suback = @ \cup {x}], h \ {x}, r)
  OBVIOUS
<1>5. x \in h => Owned([i EXCEPT !.unsuback = @ \cup {x}], h \ {x}, r)
  OBVIOUS
<1>6. x \in h => Owned([i EXCEPT !.puback = @ \cup {x}], h \ {x}, r)
  OBVIOUS
<1>7. x \in h => Owned([i EXCEPT !.pubrec = @ \cup {x}], h \ {x}, r)
  OBVIOUS
<1>8. x \in r => Owned([i EXCEPT !.pubcomp = @ \cup {x}], h, r \ {x})
  OBVIOUS
<1>9. x \in i.pubrec => Owned([i EXCEPT !.pubrec = @ \ {x}], h, r \cup {x})
  OBVIOUS
<1>10. ASSUME x \in i.pubrec PROVE Owned([[i EXCEPT !.pubrec = @ \ {x}] EXCEPT !.pubcomp = @ \cup {x}], h, r)
  <2> DEFINE j == [[i EXCEPT !.pubrec = @ \ {x}] EXCEPT !.pubcomp = @ \cup {x}]
  <2>1. /\ j \in IdsType
        /\ j.man = i.man /\ j.suback = i.suback /\ j.unsuback = i.unsuback
        /\ j.puback = i.puback /\ j.pubrec = i.pubrec \ {x} /\ j.pubcomp = i.pubcomp \cup {x}
    BY <1>10
  <2> HIDE DEF j
  <2>2. Owned(j, h, r)
    BY <1>10, <2>1
  <2> QED BY <2>2 DEF j
<1>11. ASSUME x \in i.suback PROVE Owned([[i EXCEPT !.suback = @ \ {x}] EXCEPT !.man = @ \ {x}], h, r)
  <2> DEFINE j == [[i EXCEPT !.suback = @ \ {x}] EXCEPT !.man = @ \ {x}]
  <2>1. /\ j \in IdsType
        /\ j.man = i.man \ {x} /\ j.suback = i.suback \ {x} /\ j.unsuback = i.unsuback
        /\ j.puback = i.puback /\ j.pubrec = i.pubrec /\ j.pubcomp = i.pubcomp
    BY <1>11
  <2> HIDE DEF j
  <2>2. Owned(j, h, r)
    BY <1>11, <2>1
  <2> QED BY <2>2 DEF j
<1>12. ASSUME x \in i.unsuback PROVE Owned([[i EXCEPT !.unsuback = @ \ {x}] EXCEPT !.man = @ \ {x}], h, r)
  <2> DEFINE j == [[i EXCEPT !.unsuback = @ \ {x}] EXCEPT !.man = @ \ {x}]
  <2>1. /\ j \in IdsType
        /\ j.man = i.man \ {x} /\ j.suback = i.suback /\ j.unsuback = i.unsuback \ {x}
        /\ j.puback = i.puback /\ j.pubrec = i.pubrec /\ j.pubcomp = i.pubcomp
    BY <1>12
  <2> HIDE DEF j
  <2>2. Owned(j, h, r)
    BY <1>12, <2>1
  <2> QED BY <2>2 DEF j
<1>13. ASSUME x \in i.puback PROVE Owned([[i EXCEPT !.puback = @ \ {x}] EXCEPT !.man = @ \ {x}], h, r)
  <2> DEFINE j == [[i EXCEPT !.puback = @ \ {x}] EXCEPT !.man = @ \ {x}]
  <2>1. /\ j \in IdsType
        /\ j.man = i.man \ {x} /\ j.suback = i.suback /\ j.unsuback = i.unsuback
        /\ j.puback = i.puback \ {x} /\ j.pubrec = i.pubrec /\ j.pubcomp = i.pubcomp
    BY <1>13
  <2> HIDE DEF j
  <2>2. Owned(j, h, r)
    BY <1>13, <2>1
  <2> QED BY <2>2 DEF j
<1>14. ASSUME x \in i.pubcomp PROVE Owned([[i EXCEPT !.pubcomp = @ \ {x}] EXCEPT !.man = @ \ {x}], h, r)
  <2> DEFINE j == [[i EXCEPT !.pubcomp = @ \ {x}] EXCEPT !.man = @ \ {x}]
  <2>1. /\ j \in IdsType
        /\ j.man = i.man \ {x} /\ j.suback = i.suback /\ j.unsuback = i.unsuback
        /\ j.puback = i.puback /\ j.pubrec = i.pubrec /\ j.pubcomp = i.pubcomp \ {x}
    BY <1>14
  <2> HIDE DEF j
  <2>2. Owned(j, h, r)
    BY <1>14, <2>1
  <2> QED BY <2>2 DEF j
<1>15. ASSUME x \in i.pubrec PROVE Owned([[i EXCEPT !.pubrec = @ \ {x}] EXCEPT !.man = @ \ {x}], h, r)
  <2> DEFINE j == [[i EXCEPT !.pubrec = @ \ {x}] EXCEPT !.man = @ \ {x}]
  <2>1. /\ j \in IdsType
        /\ j.man = i.man \ {x} /\ j.suback = i.suback /\ j.unsuback = i.unsuback
        /\ j.puback = i.puback /\ j.pubrec = i.pubrec \ {x} /\ j.pubcomp = i.pubcomp
    BY <1>15
  <2> HIDE DEF j
  <2>2. Owned(j, h, r)
    BY <1>15, <2>1
  <2> QED BY <2>2 DEF j
<1> HIDE DEF Owned, IdsType
<1> QED BY <1>1, <1>2, <1>3, <1>4, <1>5, <1>6, <1>7, <1>8, <1>9, <1>10, <1>11, <1>12, <1>13, <1>14,
           <1>15

-----------------------------------------------------------------------------
\* publish_send_count goes up below the maximum and down above zero: it neither
\* overflows nor wraps.
LEMMA CountFits ==
  ASSUME ClientInv, flow.send_max # None
  PROVE  /\ flow.send_count # flow.send_max =>
              ~overflows(1) /\ add_count(1).send_count = flow.send_count + 1
         /\ flow.send_count # 0 =>
              ~overflows(-1) /\ add_count(-1).send_count = flow.send_count - 1
<1>1. /\ {"send_max", "send_count"} \subseteq DOMAIN flow
      /\ flow.send_max \in 0..(CountMod - 1) /\ flow.send_count \in 0..flow.send_max
  BY DEF ClientInv, FlowKept
<1>2. CountMod \in Nat \ {0}
  BY ConnectionAssumption
<1>3. ASSUME NEW n \in 0..(CountMod - 1) PROVE n % CountMod = n
  BY <1>2
<1>4. /\ add_count(1).send_count = (flow.send_count + 1) % CountMod
      /\ add_count(-1).send_count = (flow.send_count + (-1)) % CountMod
  BY <1>1 DEF add_count
<1>5. ASSUME flow.send_count # flow.send_max PROVE flow.send_count + 1 \in 0..(CountMod - 1)
  BY <1>1, <1>2, <1>5
<1>6. ASSUME flow.send_count # 0
      PROVE  /\ flow.send_count + (-1) \in 0..(CountMod - 1)
             /\ flow.send_count + (-1) = flow.send_count - 1
  BY <1>1, <1>2, <1>6
<1> QED BY <1>3, <1>4, <1>5, <1>6 DEF overflows

\* The PUBLISHes in flight are finitely many.
LEMMA InFlightFinite == ASSUME ClientInv PROVE InFlight \subseteq PacketIds /\ IsFiniteSet(InFlight)
<1>1. InFlight \subseteq PacketIds
  BY DEF ClientInv, Owned, IdsType, InFlight
<1>2. IsFiniteSet(PacketIds)
  <2>1. 1 \in Int /\ MaxId \in Int
    BY ConnectionAssumption
  <2> QED BY <2>1, FS_Interval DEF PacketIds
<1> QED BY <1>1, <1>2, FS_Subset

\* The count stays right when nothing enters or leaves, when a PUBLISH is sent that
\* the receive maximum allows, and when an exchange ends.
LEMMA FlowStays ==
  ASSUME ClientInv, UNCHANGED <<link, net, flow>>,
         flow.send_max = None \/ net # "open" \/ InFlight' = InFlight
  PROVE  FlowKept'
BY DEF ClientInv, FlowKept

LEMMA FlowAdds ==
  ASSUME ClientInv, UNCHANGED <<link, net>>, flow.send_max # None,
         flow.send_count # flow.send_max, flow' = add_count(1),
         NEW x, x \notin InFlight, InFlight' = InFlight \cup {x}
  PROVE  FlowKept'
<1>1. FlowKept
  BY DEF ClientInv
<1>2. flow'.send_count = flow.send_count + 1
  BY CountFits
<1>3. {"send_max", "send_count"} \subseteq DOMAIN flow' /\ flow'.send_max = flow.send_max
  BY <1>1 DEF FlowKept, add_count
<1>4. Cardinality(InFlight') = Cardinality(InFlight) + 1
  BY InFlightFinite, FS_AddElement
<1>5. flow'.send_count \in 0..flow'.send_max
  BY <1>1, <1>2, <1>3, ConnectionAssumption DEF FlowKept
<1> QED BY <1>1, <1>2, <1>3, <1>4, <1>5 DEF FlowKept

LEMMA FlowDrops ==
  ASSUME ClientInv, UNCHANGED <<link, net>>, flow.send_max # None, net = "open",
         NEW x \in InFlight, InFlight' = InFlight \ {x}
  PROVE  /\ ~overflows(-1)
         /\ flow' = add_count(-1) => FlowKept'
<1>1. FlowKept
  BY DEF ClientInv
<1>2. /\ Cardinality(InFlight') = Cardinality(InFlight) - 1
      /\ Cardinality(InFlight) \in Nat /\ Cardinality(InFlight') \in Nat
  BY InFlightFinite, FS_RemoveElement, FS_CardinalityType, FS_Subset
<1>3. flow.send_count = Cardinality(InFlight) /\ flow.send_count # 0
  BY <1>1, <1>2 DEF FlowKept
<1>4. ~overflows(-1) /\ add_count(-1).send_count = flow.send_count - 1
  BY <1>3, CountFits
<1>5. ASSUME flow' = add_count(-1) PROVE FlowKept'
  <2>1. /\ {"send_max", "send_count"} \subseteq DOMAIN flow' /\ flow'.send_max = flow.send_max
        /\ flow'.send_count = flow.send_count - 1
    BY <1>1, <1>4, <1>5 DEF FlowKept, add_count
  <2>2. flow'.send_count \in 0..flow'.send_max /\ flow'.send_count = Cardinality(InFlight')
    BY <1>1, <1>2, <1>3, <2>1, ConnectionAssumption DEF FlowKept
  <2> QED BY <1>1, <2>1, <2>2 DEF FlowKept
<1> QED BY <1>4, <1>5

-----------------------------------------------------------------------------
\* The parts of flow and sess that the invariant speaks of are the same.
SameFlow(f) == /\ {"send_max", "send_count"} \subseteq DOMAIN f
               /\ f.send_max = flow.send_max /\ f.send_count = flow.send_count
SameSess(s) == s \in SessType /\ s.store = sess.store /\ (sess.need_store => s.need_store)

\* A step that changes neither the owners of the ids nor the store.
FrameStep ==
  /\ link' \in {link, Down(link)}
  /\ UNCHANGED <<ids, held, rel, net, lim>>
  /\ SameSess(sess') /\ SameFlow(flow')
  /\ "offline_publish" \in DOMAIN opts' /\ opts'.offline_publish \in BOOLEAN
  /\ panicked' = FALSE

\* Such a step keeps the invariant.
LEMMA FrameKeeps == ASSUME ClientInv, FrameStep PROVE ClientInv'
<1>1. link' \in LinkType /\ link'.status \in {link.status, "Disconnected"}
  BY DEF ClientInv, FrameStep, LinkType, Statuses, Down
<1>2. Owned(ids, held, rel)' /\ StoreOK(sess.store, ids)'
  BY DEF ClientInv, FrameStep, SameSess
<1>3. sess.need_store \in BOOLEAN /\ sess'.need_store \in BOOLEAN
  BY DEF ClientInv, FrameStep, SessType, SameSess
<1>4. FlowKept'
  <2>1. InFlight' = InFlight
    BY DEF FrameStep, InFlight
  <2> QED BY <1>1, <2>1 DEF ClientInv, FrameStep, SameFlow, FlowKept
<1>5. LimitKept'
  BY <1>1 DEF ClientInv, FrameStep, LimitKept
<1> QED BY <1>1, <1>2, <1>3, <1>4, <1>5 DEF ClientInv, FrameStep, SameSess

\* A call that returns events, may end the connection and leaves what matters.
LEMMA AckFrames ==
  ASSUME ClientInv, NEW o, Out(o), UNCHANGED <<ids, lim, opts, net, held, rel>>,
         SameFlow(flow'), SameSess(sess'), o.link \in {link, Down(link)}
  PROVE  FrameStep
<1>1. link' \in {link, Down(link)} /\ panicked' = FALSE
  BY DEF Out
<1> QED BY <1>1 DEF FrameStep, ClientInv

\* What is not assigned is the same.
LEMMA SameAsBefore ==
  ASSUME ClientInv
  PROVE  /\ flow' = flow => SameFlow(flow')
         /\ sess' = sess => SameSess(sess')
         /\ \A S : SameFlow([flow EXCEPT !.recv = S])
         /\ \A o, p, f : SameFlow(f) => SameFlow(flow_after_ack(o, p, f))
         /\ \A S \in SUBSET PeerIds : SameSess([sess EXCEPT !.qos2_publish_handled = S])
BY DEF ClientInv, FlowKept, SameFlow, SameSess, SessType, flow_after_ack

LEMMA CallFrames ==
  ASSUME ClientInv, NEW o, Out(o), UNCHANGED <<core, net, held, rel>>,
         o.link \in {link, Down(link)}
  PROVE  FrameStep
BY AckFrames, SameAsBefore DEF core

\* The version stays the one given to new().
LEMMA ClientVersion ==
  ASSUME CarefulClient, ClientInv
  PROVE  /\ link.protocol_version = InitVersion /\ link.protocol_version \in {"V3", "V5"}
         /\ V5 <=> InitVersion = "V5"
BY DEF ClientInv, V5, LinkType, CarefulClient, CarefulApplication

\* new() establishes the invariant.
LEMMA InitClient == ASSUME CarefulClient, Init PROVE ClientInv
<1>1. link \in LinkType
  BY DEF Init, ConnInit, LinkType, Statuses
<1>2. sess \in SessType /\ sess.store = <<>>
  <2>1. <<>> \in Seq(Stored)
    BY SMT
  <2> QED BY <2>1 DEF Init, ConnInit, SessType
<1>3. Owned(ids, held, rel) /\ ids.suback = {} /\ ids.unsuback = {}
  BY DEF Init, ConnInit, NoIds, Owned, IdsType
<1>4. StoreOK(sess.store, ids)
  BY <1>2 DEF StoreOK, Distinct, AwaitedIn, SessType
<1>5. /\ FlowKept /\ LimitKept
      /\ "offline_publish" \in DOMAIN opts /\ opts.offline_publish \in BOOLEAN
  BY DEF Init, ConnInit, FlowKept, LimitKept
<1>6. link.status = "Disconnected" /\ net = "closed" /\ panicked = FALSE
  BY DEF Init, ConnInit
<1> QED BY <1>1, <1>2, <1>3, <1>4, <1>5, <1>6 DEF ClientInv

\* The packets that are checked, sent and forgotten.
LEMMA AppSendKeeps ==
  ASSUME CarefulClient, ClientInv, NEW p \in AppPackets, AppSend(p)
  PROVE  ClientInv'
<1>1. Quiet(self) /\ self.link = link /\ link.protocol_version \in {"V3", "V5"}
  BY SelfQuiet, ClientVersion
<1>2. UNCHANGED <<net, held, rel>> /\ send(p) /\ p.type # "connect"
  BY DEF AppSend
<1>3. p.type \notin {"connect", "publish", "pubrel", "subscribe", "unsubscribe"}
  BY <1>2 DEF CarefulClient, CarefulApplication
<1>4. CASE send_refused(p)
  <2>1. \E e : Out(NotifyError(self, e)) /\ UNCHANGED core
    BY <1>4 DEF send_refused
  <2>2. \A e : NotifyError(self, e).link = link
    BY <1>1, SimpleTame DEF Tame
  <2> QED BY <1>2, <2>1, <2>2, CallFrames, FrameKeeps
<1>5. CASE may_send(p)
  <2>1. p.type \notin {"connack", "suback", "unsuback", "pingresp"}
    BY <1>5, <1>1 DEF may_send, wrong_version, CarefulClient, CarefulApplication
  <2>2. \/ p.type = "puback" /\ process_send_puback(p)
        \/ p.type = "pubrec" /\ process_send_pubrec(p)
        \/ p.type = "pubcomp" /\ process_send_pubcomp(p)
        \/ p.type = "pingreq" /\ process_send_pingreq(p)
        \/ p.type = "disconnect" /\ process_send_disconnect(p)
        \/ p.type = "auth" /\ process_send_auth(p)
    BY <1>2, <1>3, <1>5, <2>1 DEF send, send_refused
  <2>3. send_response(self, p).link = link /\ pingreq(self, p).link = link
    BY <1>1, CallTame DEF Tame
  <2>4. CASE process_send_puback(p) \/ process_send_pubcomp(p)
    <3>1. /\ Out(send_response(self, p)) /\ flow' = flow_after_ack(self, p, flow)
          /\ UNCHANGED <<ids, sess, lim, opts>>
      BY <2>4 DEF process_send_puback, process_send_pubcomp
    <3>2. SameFlow(flow)
      BY DEF SameFlow, ClientInv, FlowKept
    <3>3. SameFlow(flow') /\ SameSess(sess')
      BY <3>1, <3>2, SameAsBefore
    <3> QED BY <1>2, <2>3, <3>1, <3>3, AckFrames, FrameKeeps
  <2>5. CASE process_send_pubrec(p)
    <3>1. /\ Out(send_response(self, p)) /\ UNCHANGED <<ids, lim, opts>>
          /\ flow' \in {flow, [flow EXCEPT !.recv = @ \ {p.pid}]}
          /\ sess' \in {sess, [sess EXCEPT !.qos2_publish_handled = @ \ {p.pid}]}
      BY <2>5 DEF process_send_pubrec
    <3>2. sess.qos2_publish_handled \ {p.pid} \in SUBSET PeerIds
      BY DEF ClientInv, SessType
    <3>3. SameFlow(flow') /\ SameSess(sess')
      BY <3>1, <3>2, SameAsBefore
    <3> QED BY <1>2, <2>3, <3>1, <3>3, AckFrames, FrameKeeps
  <2>6. CASE process_send_pingreq(p)
    BY <1>2, <2>3, <2>6, CallFrames, FrameKeeps DEF process_send_pingreq
  <2>7. CASE process_send_disconnect(p)
    <3>1. disconnect(self, p).link \in {link, Down(link)}
      BY <1>1, DisconnectQuiet DEF Yields
    <3> QED BY <1>2, <2>7, <3>1, CallFrames, FrameKeeps DEF process_send_disconnect
  <2>8. CASE process_send_auth(p)
    <3>1. Tame(self, RequestSend(self, p, 0)) /\ \A e : Tame(self, NotifyError(self, e))
      BY <1>1, SimpleTame
    <3>2. Tame(self, send_post_process(RequestSend(self, p, 0)))
      BY <3>1, CallTame DEF Tame
    <3>3. PICK o : Out(o) /\ UNCHANGED core /\ Tame(self, o)
      BY <2>8, <3>1, <3>2 DEF process_send_auth
    <3> QED BY <1>1, <1>2, <3>3, CallFrames, FrameKeeps DEF Tame
  <2> QED BY <2>2, <2>4, <2>5, <2>6, <2>7, <2>8
<1> QED BY <1>2, <1>4, <1>5 DEF send

\* What the application does besides sending, and the transport's quiet steps.
LEMMA TimerKeeps ==
  ASSUME ClientInv, NEW kind, TimerFires(kind) PROVE ClientInv'
<1> DEFINE fired == [self EXCEPT !.ping.armed = @ \ {kind}]
<1>1. Quiet(fired) /\ fired.link = link
  BY SelfQuiet DEF Quiet, Shaped
<1>2. PICK o : o \in {fired, pingreq(fired, Plain("pingreq")), RequestClose(fired),
                      disconnect(fired, Plain("disconnect"))}
               /\ Out(o) /\ UNCHANGED core
  BY <1>1, Zenon DEF TimerFires, notify_timer_fired
<1> HIDE DEF fired
<1>3. o.link \in {link, Down(link)}
  BY <1>1, <1>2, CallTame, SimpleTame, DisconnectQuiet DEF Tame, Yields
<1> QED BY <1>2, <1>3, CallFrames, FrameKeeps DEF TimerFires

\* The setters; offline publish turns the store on and never off.
LEMMA SetsKeeps ==
  ASSUME CarefulClient, ClientInv, NEW s \in Settings, Sets(s[1], s[2]) PROVE ClientInv'
<1>1. Out(self) /\ self.link = link
  BY SelfQuiet DEF Sets, set_offline_publish, set_option
<1>2. SameSess(sess')
  BY DEF Sets, set_offline_publish, set_option, ClientInv, SessType, SameSess
<1>3. UNCHANGED <<ids, flow, lim, net, held, rel>>
  BY DEF Sets, set_offline_publish, set_option
<1>4. "offline_publish" \in DOMAIN opts' /\ opts'.offline_publish \in BOOLEAN
  BY DEF Sets, set_offline_publish, set_option, ClientInv, CarefulClient, CarefulApplication
<1>5. SameFlow(flow')
  BY <1>3, SameAsBefore
<1> QED BY <1>1, <1>2, <1>3, <1>4, <1>5, FrameKeeps DEF FrameStep, ClientInv, Out

\* set_pingreq_send_interval.
LEMMA SetsIntervalKeeps ==
  ASSUME ClientInv, NEW ms, SetsInterval(ms) PROVE ClientInv'
<1>1. Quiet(self) /\ self.link = link
  BY SelfQuiet
<1>2. PICK o : o \in {self, cancel(self, "PingreqSend"), reset(self, "PingreqSend", ms)} /\ Out(o)
  BY DEF SetsInterval, set_pingreq_send_interval
<1>3. o.link = link
  BY <1>1, <1>2, TimerTame DEF Tame
<1>4. UNCHANGED <<ids, sess, flow, lim, net, held, rel>>
  BY DEF SetsInterval, set_pingreq_send_interval
<1>5. "offline_publish" \in DOMAIN opts' /\ opts'.offline_publish \in BOOLEAN
  BY DEF SetsInterval, set_pingreq_send_interval, ClientInv
<1>6. SameFlow(flow') /\ SameSess(sess')
  BY <1>4, SameAsBefore
<1> QED BY <1>2, <1>3, <1>4, <1>5, <1>6, FrameKeeps DEF FrameStep, ClientInv, Out

\* A packet that does not parse is answered with an error.
LEMMA MalformedKeeps ==
  ASSUME CarefulClient, ClientInv, NEW p, PeerSendsMalformed(p) PROVE ClientInv'
<1>1. Quiet(self) /\ self.link = link
  BY SelfQuiet
<1>2. PICK o : Out(o) /\ UNCHANGED core /\ o.link \in {link, Down(link)}
  <2>1. CASE recv_framing_error
    <3>1. Tame(self, NotifyError(RequestClose(cancel_timers(self)), "MalformedPacket"))
      BY <1>1, CallTame, SimpleTame DEF Tame
    <3> QED BY <1>1, <2>1, <3>1 DEF recv_framing_error, Tame
  <2>2. CASE recv_malformed(p)
    <3>1. p.type # "connect" /\ link.protocol_version # "Undetermined"
      BY <2>2, ClientVersion DEF recv_malformed, accepts, can_receive, CarefulClient, CarefulApplication
    <3>2. PICK o : /\ o \in {handle_error(self, "MalformedPacket"),
                             NotifyError(self, "MalformedPacket")}
                   /\ Out(o) /\ UNCHANGED core
      BY <2>2, <3>1 DEF recv_malformed
    <3>3. o.link \in {link, Down(link)}
      BY <1>1, <3>2, ErrorQuiet, SimpleTame DEF Tame, Yields
    <3> QED BY <3>2, <3>3
  <2> QED BY <2>1, <2>2 DEF PeerSendsMalformed
<1>3. link'.status \in {link.status, "Disconnected"}
  BY <1>2 DEF Out, Down, ClientInv, LinkType
<1>4. net' = net /\ held' = held /\ rel' = rel
  BY <1>3 DEF PeerSendsMalformed, ClientInv
<1> QED BY <1>2, <1>4, CallFrames, FrameKeeps

\* A transport that opens, or closes before CONNECT.
LEMMA OpenKeeps ==
  ASSUME ClientInv, Open \/ CloseUnused PROVE ClientInv'
<1>1. /\ UNCHANGED <<link, ids, sess, flow, lim, opts, panicked, held, rel>>
      /\ net # "open" /\ net' \in {"new", "closed"}
  BY DEF Open, CloseUnused, core
<1>2. FlowKept' /\ LimitKept'
  BY <1>1 DEF ClientInv, FlowKept, LimitKept
<1> QED BY <1>1, <1>2 DEF ClientInv, Owned, StoreOK, Distinct, AwaitedIn

\* acquire_packet_id with every id in use.
LEMMA AcquireFailsKeeps ==
  ASSUME ClientInv, AcquireFails PROVE ClientInv'
BY SelfQuiet, CallFrames, FrameKeeps DEF AcquireFails, acquire_fails

-----------------------------------------------------------------------------
\* A step that gives ids a new owner while the connection goes on.
MoveStep ==
  /\ UNCHANGED <<link, net, lim, opts>> /\ panicked' = FALSE /\ FlowKept'
  /\ sess' \in SessType /\ sess'.need_store = sess.need_store
  /\ Owned(ids, held, rel)' /\ StoreOK(sess.store, ids)'
  /\ ids'.suback \subseteq ids.suback \/ link.status = "Connected"
  /\ ids'.unsuback \subseteq ids.unsuback \/ link.status = "Connected"
  /\ ~sess.need_store => sess'.store = sess.store

\* Such a step keeps the invariant.
LEMMA MoveKeeps == ASSUME ClientInv, MoveStep PROVE ClientInv'
BY DEF ClientInv, MoveStep, LimitKept

\* pid_man gains or loses an id that no response is awaited for.
LEMMA ManStep ==
  ASSUME ClientInv, Owned(ids, held, rel)', NEW m, ids' = [ids EXCEPT !.man = m],
         UNCHANGED <<link, net, sess, flow, lim, opts>>, panicked' = FALSE,
         rel' = rel \/ net # "open"
  PROVE  ClientInv'
<1>1. ids \in IdsType /\ ids' \in IdsType
  BY DEF ClientInv, Owned
<1>2. /\ ids'.puback = ids.puback /\ ids'.pubrec = ids.pubrec /\ ids'.pubcomp = ids.pubcomp
      /\ ids'.suback = ids.suback /\ ids'.unsuback = ids.unsuback
  BY <1>1 DEF IdsType
<1>3. StoreOK(sess.store, ids')
  BY <1>1, <1>2, StoreMono DEF ClientInv
<1>4. StoreOK(sess.store, ids)'
  BY <1>3
<1>5. FlowKept'
  <2>1. rel' = rel => InFlight' = InFlight
    BY <1>2 DEF InFlight
  <2> QED BY <2>1, FlowStays
<1> QED BY <1>2, <1>4, <1>5, MoveKeeps DEF MoveStep, ClientInv

\* acquire_packet_id hands out a free id.
LEMMA AcquireKeeps == ASSUME ClientInv, Acquire PROVE ClientInv'
<1>1. PICK pid \in PacketIds : /\ acquire_packet_id(pid) /\ held' = held \cup {pid}
                               /\ UNCHANGED <<net, rel>>
  BY DEF Acquire
<1>2. /\ pid \in PacketIds \ ids.man /\ ids' = [ids EXCEPT !.man = @ \cup {pid}]
      /\ Out(self) /\ UNCHANGED <<sess, flow, lim, opts>>
  BY <1>1 DEF acquire_packet_id, free_ids
<1>3. link' = link /\ panicked' = FALSE
  BY <1>2, SelfQuiet DEF Out
<1>4. Owned([ids EXCEPT !.man = @ \cup {pid}], held \cup {pid}, rel)
  BY <1>2, Moves DEF ClientInv
<1>5. Owned(ids, held, rel)'
  BY <1>1, <1>2, <1>4
<1> QED BY <1>1, <1>2, <1>3, <1>5, ManStep

\* register_packet_id hands out the id only if it was free.
LEMMA RegisterKeeps ==
  ASSUME ClientInv, NEW pid \in PacketIds, Register(pid) PROVE ClientInv'
<1>1. /\ ids' = [ids EXCEPT !.man = @ \cup {pid}] /\ Out(self)
      /\ UNCHANGED <<sess, flow, lim, opts, net, rel>>
      /\ held' = IF pid \in free_ids THEN held \cup {pid} ELSE held
  BY DEF Register, register_packet_id
<1>2. link' = link /\ panicked' = FALSE
  BY <1>1, SelfQuiet DEF Out
<1>3. Owned(ids, held, rel)'
  <2>1. CASE pid \in free_ids
    <3>1. Owned([ids EXCEPT !.man = @ \cup {pid}], held \cup {pid}, rel)
      BY <2>1, Moves DEF ClientInv, free_ids
    <3> QED BY <1>1, <2>1, <3>1
  <2>2. CASE pid \notin free_ids
    <3>1. Owned(ids, held, rel) /\ pid \in ids.man
      BY <2>2 DEF free_ids, ClientInv
    <3>2. Owned([ids EXCEPT !.man = @ \cup {pid}], held, rel)
      BY <3>1 DEF Owned, IdsType
    <3> QED BY <1>1, <2>2, <3>2
  <2> QED BY <2>1, <2>2
<1> QED BY <1>1, <1>2, <1>3, ManStep

\* release_packet_id frees an id of the application.
LEMMA ReleaseKeeps ==
  ASSUME ClientInv, NEW pid, Release(pid) PROVE ClientInv'
<1>1. /\ ids' = [ids EXCEPT !.man = @ \ {pid}]
      /\ Out(NotifyReleased(self, {pid} \cap ids.man))
      /\ UNCHANGED <<sess, flow, lim, opts, net>>
      /\ held' = held \ {pid} /\ rel' = rel \ {pid}
      /\ pid \in held \/ (pid \in rel /\ net # "open")
  BY DEF Release, release_packet_id
<1>2. NotifyReleased(self, {pid} \cap ids.man).link = link
  BY SelfQuiet, SimpleTame DEF Tame
<1>3. link' = link /\ panicked' = FALSE
  BY <1>1, <1>2 DEF Out
<1>4. Owned(ids, held, rel)
  BY DEF ClientInv
<1>5. CASE pid \in held
  <2>1. rel \ {pid} = rel
    BY <1>4, <1>5 DEF Owned
  <2>2. Owned([ids EXCEPT !.man = @ \ {pid}], held \ {pid}, rel)
    BY <1>4, <1>5, Moves
  <2>3. Owned(ids, held, rel)'
    BY <1>1, <2>1, <2>2
  <2> QED BY <1>1, <1>3, <2>1, <2>3, ManStep
<1>6. CASE pid \in rel /\ net # "open"
  <2>1. held \ {pid} = held
    BY <1>4, <1>6 DEF Owned
  <2>2. Owned([ids EXCEPT !.man = @ \ {pid}], held, rel \ {pid})
    BY <1>4, <1>6, Moves
  <2>3. Owned(ids, held, rel)'
    BY <1>1, <2>1, <2>2
  <2> QED BY <1>1, <1>3, <1>6, <2>3, ManStep
<1> QED BY <1>1, <1>5, <1>6

\* A packet that is refused takes its id with it.
LEMMA RefusedKeeps ==
  ASSUME ClientInv, NEW e, NEW pid \in held, refuse_and_release(ids, e, pid),
         UNCHANGED <<net, sess, flow, lim, opts, rel>>, GivesUp(pid)
  PROVE  ClientInv'
<1> DEFINE o == NotifyReleased(NotifyError(self, e), {pid} \cap ids.man)
<1>1. ids' = [ids EXCEPT !.man = @ \ {pid}] /\ Out(o)
  BY DEF refuse_and_release
<1>2. Tame(self, NotifyError(self, e))
  BY SelfQuiet, SimpleTame
<1>3. o.link = link
  BY <1>2, SelfQuiet, SimpleTame DEF Tame
<1>4. link' = link /\ panicked' = FALSE
  BY <1>1, <1>3 DEF Out
<1>5. Owned(ids, held, rel)
  BY DEF ClientInv
<1>6. pid \notin ids'.man
  BY <1>1, <1>5 DEF Owned, IdsType
<1>7. held' = held \ {pid}
  BY <1>6 DEF GivesUp
<1>8. Owned([ids EXCEPT !.man = @ \ {pid}], held \ {pid}, rel)
  BY <1>5, Moves
<1>9. Owned(ids, held, rel)'
  BY <1>1, <1>7, <1>8
<1> QED BY <1>1, <1>4, <1>9, ManStep

\* SUBSCRIBE and UNSUBSCRIBE pass the id from the application to pid_suback or
\* pid_unsuback, or free it.
LEMMA AppRequestKeeps ==
  ASSUME CarefulClient, ClientInv, NEW type \in Requests, NEW pid, AppRequest(type, pid)
  PROVE  ClientInv'
<1> DEFINE p == Ack(type, pid)
<1>1. p.type = type /\ p.pid = pid /\ type \in {"subscribe", "unsubscribe"}
  BY DEF Ack, CarefulClient, CarefulApplication
<1>2. pid \in held /\ send(p) /\ GivesUp(pid) /\ UNCHANGED <<net, rel>>
  BY DEF AppRequest
<1>3. link.protocol_version \in {"V3", "V5"} /\ Quiet(self) /\ self.link = link
  BY ClientVersion, SelfQuiet
<1>4. may_send(p)
  BY <1>1, <1>3 DEF may_send, wrong_version, CarefulClient, CarefulApplication
<1>5. Owned(ids, held, rel) /\ StoreOK(sess.store, ids) /\ pid \in ids.man /\ ids \in IdsType
  BY <1>2 DEF ClientInv, Owned
<1> HIDE DEF p
<1>6. ASSUME NEW attached, send_request(p, attached),
             attached \in {[ids EXCEPT !.suback = @ \cup {pid}],
                           [ids EXCEPT !.unsuback = @ \cup {pid}]}
      PROVE  ClientInv'
  <2>1. UNCHANGED <<sess, flow, lim, opts>>
    BY <1>6 DEF send_request
  <2>2. \/ link.status # "Connected" /\ refuse_and_release(ids, "PacketNotAllowedToSend", pid)
        \/ /\ link.status = "Connected" /\ ids' = attached
           /\ Out(send_post_process(RequestSend(self, p, pid)))
        \/ Out(NotifyError(self, "PacketTooLarge")) /\ ids' = ids
    BY <1>1, <1>5, <1>6 DEF send_request
  <2>2a. CASE Out(NotifyError(self, "PacketTooLarge")) /\ ids' = ids
    <3>1. NotifyError(self, "PacketTooLarge").link = link
      BY <1>3, SimpleTame DEF Tame
    <3>2. held' = held
      BY <1>2, <1>5, <2>2a DEF GivesUp, Awaited, Owned
    <3> QED BY <1>2, <2>1, <2>2a, <3>1, <3>2, CallFrames, FrameKeeps, SameAsBefore, AckFrames
  <2>3. CASE refuse_and_release(ids, "PacketNotAllowedToSend", pid)
    BY <1>2, <2>1, <2>3, RefusedKeeps
  <2>4. CASE /\ link.status = "Connected" /\ ids' = attached
             /\ Out(send_post_process(RequestSend(self, p, pid)))
    <3>1. Tame(self, RequestSend(self, p, pid))
      BY <1>3, SimpleTame
    <3>2. send_post_process(RequestSend(self, p, pid)).link = link
      BY <1>3, <3>1, CallTame DEF Tame
    <3>3. link' = link /\ panicked' = FALSE
      BY <2>4, <3>2 DEF Out
    <3>4. /\ Owned([ids EXCEPT !.suback = @ \cup {pid}], held \ {pid}, rel)
          /\ Owned([ids EXCEPT !.unsuback = @ \cup {pid}], held \ {pid}, rel)
      BY <1>2, <1>5, Moves
    <3>5. /\ ids' \in IdsType /\ pid \in ids'.suback \cup ids'.unsuback
          /\ ids'.puback = ids.puback /\ ids'.pubrec = ids.pubrec /\ ids'.pubcomp = ids.pubcomp
      <4>1. CASE ids' = [ids EXCEPT !.suback = @ \cup {pid}]
        BY <1>5, <3>4, <4>1 DEF Owned, IdsType
      <4>2. CASE ids' = [ids EXCEPT !.unsuback = @ \cup {pid}]
        BY <1>5, <3>4, <4>2 DEF Owned, IdsType
      <4> QED BY <1>6, <2>4, <4>1, <4>2
    <3>6. held' = held \ {pid}
      BY <1>2, <3>5 DEF GivesUp, Awaited
    <3>7. Owned(ids, held, rel)'
      BY <1>2, <1>6, <2>4, <3>4, <3>6
    <3>8. StoreOK(sess.store, ids')
      BY <1>5, <3>5, StoreMono
    <3>9. StoreOK(sess.store, ids)'
      BY <2>1, <3>8
    <3>10. FlowKept'
      <4>1. InFlight' = InFlight
        BY <1>2, <3>5 DEF InFlight
      <4> QED BY <1>2, <2>1, <3>3, <4>1, FlowStays
    <3> QED BY <1>2, <2>1, <2>4, <3>3, <3>7, <3>9, <3>10, MoveKeeps DEF MoveStep, ClientInv
  <2> QED BY <2>2, <2>2a, <2>3, <2>4
<1>7. CASE type = "subscribe"
  <2>1. send_request(p, [ids EXCEPT !.suback = @ \cup {pid}])
    BY <1>1, <1>2, <1>4, <1>7 DEF send, send_refused, process_send_subscribe
  <2> QED BY <2>1, <1>6
<1>8. CASE type = "unsubscribe"
  <2>1. send_request(p, [ids EXCEPT !.unsuback = @ \cup {pid}])
    BY <1>1, <1>2, <1>4, <1>8 DEF send, send_refused, process_send_unsubscribe
  <2> QED BY <2>1, <1>6
<1> QED BY <1>1, <1>7, <1>8

\* PUBLISH passes the id to pid_puback or pid_pubrec, and the packet to the store
\* when the session is kept; store.add does not fail, so it does not panic.
LEMMA AppPublishKeeps ==
  ASSUME CarefulClient, ClientInv, NEW shape \in Publishes, NEW pid, AppPublish(shape, pid)
  PROVE  ClientInv'
<1> DEFINE p == [shape EXCEPT !.pid = pid]
<1>1. /\ p.type = "publish" /\ p.qos \in 0..2 /\ p.pid = pid /\ p.size \in 0..NoLimit
      /\ p.topic \in Topics /\ p.topic # NoTopic /\ p.alias = 0 /\ p.qos = shape.qos
  BY DEF CarefulClient, CarefulApplication, PublishShape
<1>2. /\ send(p) /\ GivesUp(pid) /\ UNCHANGED <<net, rel>>
      /\ IF p.qos = 0 THEN pid = 0 ELSE pid \in held
      /\ ChecksVacancy /\ p.qos > 0 => vacancy # 0
  BY <1>1 DEF AppPublish
<1> HIDE DEF p
<1>3. link.protocol_version \in {"V3", "V5"} /\ Quiet(self) /\ self.link = link
  BY ClientVersion, SelfQuiet
<1>4. /\ Owned(ids, held, rel) /\ StoreOK(sess.store, ids) /\ ids \in IdsType
      /\ sess \in SessType /\ held \subseteq PacketIds /\ held \subseteq ids.man
  BY DEF ClientInv, Owned
<1>5. process_send_publish(p)
  <2>1. may_send(p)
    BY <1>1, <1>3 DEF may_send, wrong_version, CarefulClient, CarefulApplication
  <2> QED BY <1>1, <1>2, <2>1 DEF send, send_refused
<1>6. lim' = lim /\ opts' = opts
  BY <1>5 DEF process_send_publish
<1>7. 0 \notin held /\ (p.qos = 0 => held' = held)
  <2>1. 0 \notin held
    BY <1>4 DEF PacketIds
  <2> QED BY <1>2, <2>1 DEF GivesUp
<1>8. \/ /\ refuse_and_release(ids, "PacketNotAllowedToSend", pid)
         /\ UNCHANGED <<sess, flow>>
      \/ publish_accepted(p)
      \/ Out(NotifyError(self, "PacketTooLarge")) /\ UNCHANGED <<ids, sess, flow>>
  BY <1>1, <1>2, <1>4, <1>5 DEF process_send_publish
<1>8a. CASE Out(NotifyError(self, "PacketTooLarge")) /\ UNCHANGED <<ids, sess, flow>>
  <2>1. NotifyError(self, "PacketTooLarge").link = link
    BY <1>3, SimpleTame DEF Tame
  <2>2. held' = held
    BY <1>2, <1>4, <1>7, <1>8a DEF GivesUp, Awaited, Owned
  <2> QED BY <1>2, <1>3, <1>6, <1>8a, <2>1, <2>2, FrameKeeps, SameAsBefore, AckFrames
<1>9. CASE /\ refuse_and_release(ids, "PacketNotAllowedToSend", pid)
           /\ UNCHANGED <<sess, flow>>
  <2>1. CASE p.qos # 0
    BY <1>2, <1>6, <1>9, <2>1, RefusedKeeps
  <2>2. CASE p.qos = 0
    <3> DEFINE o == NotifyReleased(NotifyError(self, "PacketNotAllowedToSend"), {pid} \cap ids.man)
    <3>1. ids' = [ids EXCEPT !.man = @ \ {0}] /\ Out(o)
      BY <1>2, <1>9, <2>2 DEF refuse_and_release
    <3>2. Tame(self, NotifyError(self, "PacketNotAllowedToSend"))
      BY <1>3, SimpleTame
    <3>3. o.link = link
      BY <1>3, <3>2, SimpleTame DEF Tame
    <3> HIDE DEF o
    <3>4. link' = link /\ panicked' = FALSE
      BY <3>1, <3>3 DEF Out
    <3>5. Owned([ids EXCEPT !.man = @ \ {0}], held, rel)
      <4>1. ids.man \ {0} = ids.man
        BY <1>4 DEF IdsType, PacketIds
      <4> QED BY <1>4, <4>1 DEF Owned, IdsType
    <3>6. Owned(ids, held, rel)'
      BY <1>2, <1>7, <2>2, <3>1, <3>5
    <3> QED BY <1>2, <1>6, <1>9, <3>1, <3>4, <3>6, ManStep
  <2> QED BY <2>1, <2>2
<1>10. CASE publish_accepted(p)
  <2>1. stores_publish(p) => pid \in held /\ p.qos \in 1..2 /\ ~in_store(sess.store, pid)
    BY <1>1, <1>2, <1>4, StoredNotHeld DEF stores_publish
  <2>2. /\ sess' = IF stores_publish(p)
                   THEN [sess EXCEPT !.store = Append(@, StoredPublish(p, p.topic))]
                   ELSE sess
        /\ publish_attached(p)
    BY <1>1, <1>3, <1>10, <2>1 DEF publish_accepted
  <2>3. /\ alias_usable(p)
        /\ limited(p) => flow.send_max # None /\ flow.send_count # flow.send_max /\ ~overflows(1)
    <3>1. alias_usable(p)
      BY <1>1 DEF alias_usable
    <3>2. ASSUME limited(p) PROVE flow.send_max # None /\ flow.send_count # flow.send_max
      <4>1. flow.send_max # None /\ p.qos > 0 /\ InitVersion = "V5"
        BY <3>2 DEF limited, ClientInv, FlowKept
      <4>2. vacancy # 0
        BY <1>2, <4>1 DEF CarefulClient, CarefulApplication
      <4>3. flow.send_max \in Nat
        BY <4>1, ConnectionAssumption DEF ClientInv, FlowKept
      <4> QED BY <4>1, <4>2, <4>3 DEF vacancy
    <3> QED BY <3>1, <3>2, CountFits
  <2>4. /\ ids' = attach_publish(p) /\ link' = link /\ panicked' = FALSE
        /\ flow' = IF limited(p) THEN add_count(1) ELSE flow
    <3> DEFINE sent == RequestSend(self, wire_publish(p),
                                   IF p.qos > 0 /\ ~stores_publish(p) THEN p.pid ELSE 0)
               o == IF link.status # "Connected" THEN self ELSE send_post_process(sent)
    <3>1. /\ ids' = attach_publish(p) /\ OutUnless(FALSE, o)
          /\ flow' = IF limited(p) THEN add_count(1) ELSE flow
      BY <2>2, <2>3 DEF publish_attached, OutUnless
    <3>2. Tame(self, sent)
      BY <1>3, SimpleTame
    <3>3. o.link = link
      BY <1>3, <3>2, CallTame DEF Tame
    <3> HIDE DEF o
    <3> QED BY <3>1, <3>3 DEF OutUnless
  <2>5. /\ ids' \in IdsType /\ ids'.man = ids.man /\ ids'.suback = ids.suback
        /\ ids'.unsuback = ids.unsuback /\ ids'.pubcomp = ids.pubcomp
        /\ ids'.puback = (IF p.qos = 1 THEN ids.puback \cup {pid} ELSE ids.puback)
        /\ ids'.pubrec = (IF p.qos = 2 THEN ids.pubrec \cup {pid} ELSE ids.pubrec)
    <3>1. pid \in PacketIds \/ p.qos = 0
      BY <1>1, <1>2, <1>4
    <3> DEFINE a == IF p.qos = 1 THEN ids.puback \cup {pid} ELSE ids.puback
               b == IF p.qos = 2 THEN ids.pubrec \cup {pid} ELSE ids.pubrec
    <3>2. a \in SUBSET PacketIds /\ b \in SUBSET PacketIds
      BY <1>4, <3>1 DEF IdsType
    <3>3. ids' = [ids EXCEPT !.puback = a, !.pubrec = b]
      BY <1>1, <2>4 DEF attach_publish
    <3> HIDE DEF a, b
    <3>4. /\ ids' \in IdsType /\ ids'.man = ids.man /\ ids'.suback = ids.suback
          /\ ids'.unsuback = ids.unsuback /\ ids'.pubcomp = ids.pubcomp
          /\ ids'.puback = a /\ ids'.pubrec = b
      BY <1>4, <3>2, <3>3 DEF IdsType
    <3> QED BY <3>4 DEF a, b
  <2>6. held' = IF p.qos = 0 THEN held ELSE held \ {pid}
    BY <1>1, <1>2, <1>7, <2>5 DEF GivesUp, Awaited
  <2>7. Owned(ids, held, rel)'
    <3>1. Owned(ids', held', rel)
      <4>1. CASE p.qos = 0
        BY <4>1, <1>4, <2>5, <2>6 DEF Owned
      <4>2. CASE p.qos = 1
        BY <4>2, <1>2, <1>4, <2>5, <2>6 DEF Owned
      <4>3. CASE p.qos = 2
        BY <4>3, <1>2, <1>4, <2>5, <2>6 DEF Owned
      <4> QED BY <1>1, <4>1, <4>2, <4>3
    <3> QED BY <1>2, <3>1
  <2>8. sess' \in SessType /\ sess'.need_store = sess.need_store
    /\ StoreOK(sess'.store, ids') /\ (~sess.need_store => sess'.store = sess.store)
    <3>1. CASE ~stores_publish(p)
      <4>1. sess' = sess
        BY <2>2, <3>1
      <4>2. StoreOK(sess.store, ids')
        BY <1>4, <2>5, StoreMono
      <4> QED BY <1>4, <4>1, <4>2
    <3>2. CASE stores_publish(p)
      <4> DEFINE q == StoredPublish(p, p.topic)
      <4>1. /\ q \in Stored /\ q.pid = pid
            /\ response_packet(q) = IF p.qos = 1 THEN "puback" ELSE "pubrec"
        BY <1>1, <1>4, <2>1, <3>2 DEF Stored, StoredPublish, response_packet
      <4>2. sess' = [sess EXCEPT !.store = Append(@, q)]
        BY <2>2, <3>2
      <4> HIDE DEF q
      <4>3. pid \in ids'[response_packet(q)]
        BY <2>1, <2>5, <3>2, <4>1
      <4>4. StoreOK(Append(sess.store, q), ids')
        BY <1>4, <2>1, <2>5, <3>2, <4>1, <4>3, StoreAdd
      <4>5. Append(sess.store, q) \in Seq(Stored)
        BY <4>4 DEF StoreOK
      <4>6. sess' \in SessType /\ sess'.need_store = sess.need_store
            /\ sess'.store = Append(sess.store, q)
        BY <1>4, <4>2, <4>5 DEF SessType
      <4> QED BY <3>2, <4>4, <4>6 DEF stores_publish
    <3> QED BY <3>1, <3>2
  <2>9. StoreOK(sess.store, ids)'
    BY <2>8
  <2>10. FlowKept'
    <3>1. CASE p.qos = 0
      <4>1. InFlight' = InFlight /\ flow' = flow
        BY <1>2, <2>4, <2>5, <3>1 DEF InFlight, limited
      <4> QED BY <1>2, <2>4, <4>1, FlowStays
    <3>2. CASE p.qos # 0 /\ flow.send_max = None
      BY <1>2, <2>4, <3>2, FlowStays DEF limited
    <3>3. CASE p.qos # 0 /\ flow.send_max # None
      <4>1. limited(p) /\ p.qos \in {1, 2} /\ pid \in held
        BY <1>1, <1>2, <3>3 DEF limited
      <4>2. pid \notin InFlight
        BY <1>4, <4>1 DEF Owned, InFlight
      <4>3. InFlight' = InFlight \cup {pid}
        BY <1>2, <2>5, <4>1 DEF InFlight
      <4> QED BY <1>2, <2>3, <2>4, <4>1, <4>2, <4>3, FlowAdds
    <3> QED BY <3>1, <3>2, <3>3
  <2> QED BY <1>2, <1>6, <2>4, <2>5, <2>7, <2>8, <2>9, <2>10, MoveKeeps DEF MoveStep
<1> QED BY <1>8, <1>8a, <1>9, <1>10

\* The store with the PUBREL of an id that no stored packet has.
LEMMA PubrelStored ==
  ASSUME NEW s \in SessType, NEW i \in IdsType, StoreOK(s.store, i), NEW pid \in PacketIds,
         ~in_store(s.store, pid), NEW j \in IdsType, i.puback \subseteq j.puback,
         i.pubrec \subseteq j.pubrec, i.pubcomp \subseteq j.pubcomp, pid \in j.pubcomp,
         NEW t, t = (IF s.need_store THEN Append(s.store, Ack("pubrel", pid)) ELSE s.store)
  PROVE  StoreOK(t, j)
<1> DEFINE q == Ack("pubrel", pid)
<1>1. q \in Stored /\ q.pid = pid /\ response_packet(q) = "pubcomp"
  BY DEF Stored, Ack, response_packet
<1> HIDE DEF q
<1>2. StoreOK(s.store, j)
  BY StoreMono
<1>3. StoreOK(Append(s.store, q), j)
  BY <1>1, StoreAdd
<1> QED BY <1>2, <1>3 DEF q

\* PUBREL passes an id the application owed it for to pid_pubcomp.
LEMMA AppPubrelKeeps ==
  ASSUME CarefulClient, ClientInv, NEW pid \in PacketIds, AppPubrel(pid)
  PROVE  ClientInv'
<1> DEFINE p == Ack("pubrel", pid)
           r == pubrel(self, ids, sess, p)
<1>1. /\ pid \in rel /\ link.status = "Connected" /\ send(p) /\ UNCHANGED <<net, held>>
      /\ rel' = IF pid \in ids'.pubcomp \/ in_store(sess'.store, pid) THEN rel \ {pid} ELSE rel
  BY DEF AppPubrel, CarefulClient, CarefulApplication
<1>2. p.type = "pubrel" /\ p.pid = pid
  BY DEF Ack
<1>3. link.protocol_version \in {"V3", "V5"} /\ Quiet(self) /\ self.link = link
  BY ClientVersion, SelfQuiet
<1>4. /\ Owned(ids, held, rel) /\ StoreOK(sess.store, ids) /\ ids \in IdsType
      /\ sess \in SessType /\ pid \in ids.man
  BY <1>1 DEF ClientInv, Owned
<1>5. process_send_pubrel(p)
  <2>1. may_send(p)
    BY <1>2, <1>3 DEF may_send, wrong_version, CarefulClient, CarefulApplication
  <2> HIDE DEF p
  <2> QED BY <1>1, <1>2, <2>1 DEF send, send_refused
<1>6. ~in_store(sess.store, pid)
  BY <1>1, <1>4, StoredNotHeld
<1> HIDE DEF p
<1>6a. CASE TooLarge(p.size)
  <2>1. r = [out |-> NotifyError(self, "PacketTooLarge"), ids |-> ids, sess |-> sess,
             panics |-> FALSE]
    BY <1>6a DEF pubrel
  <2> HIDE DEF r
  <2>2. /\ Out(NotifyError(self, "PacketTooLarge")) /\ ids' = ids /\ sess' = sess
        /\ UNCHANGED <<flow, lim, opts>>
    BY <1>5, <2>1 DEF process_send_pubrel, r
  <2>3. NotifyError(self, "PacketTooLarge").link = link
    BY <1>3, SimpleTame DEF Tame
  <2>4. rel' = rel
    BY <1>1, <1>4, <1>6, <2>2 DEF Owned
  <2> QED BY <1>1, <2>2, <2>3, <2>4, FrameKeeps, SameAsBefore, AckFrames
<1> SUFFICES ASSUME ~TooLarge(p.size) PROVE ClientInv'
  BY <1>6a
<1>7. /\ r.out = send_post_process(RequestSend(self, p, 0))
      /\ r.ids = [ids EXCEPT !.pubcomp = @ \cup {pid}]
      /\ r.sess = IF sess.need_store THEN [sess EXCEPT !.store = Append(@, p)] ELSE sess
      /\ ~r.panics
  <2>1. self.link.status = "Connected" /\ p.pid \in ids.man
    BY <1>1, <1>2, <1>3, <1>4
  <2>2. /\ r.out = send_post_process(RequestSend(self, p, 0))
        /\ r.ids = [ids EXCEPT !.pubcomp = @ \cup {p.pid}]
        /\ r.sess = IF sess.need_store THEN [sess EXCEPT !.store = Append(@, p)] ELSE sess
        /\ r.panics = (sess.need_store /\ in_store(sess.store, p.pid))
    BY <1>3, <2>1 DEF pubrel
  <2> HIDE DEF r
  <2> QED BY <1>2, <1>6, <2>2
<1>8. ids' = r.ids /\ sess' = r.sess /\ Out(r.out) /\ UNCHANGED <<flow, lim, opts>>
  BY <1>5, <1>7 DEF process_send_pubrel
<1> HIDE DEF r
<1>9. link' = link /\ panicked' = FALSE
  <2>1. Tame(self, RequestSend(self, p, 0))
    BY <1>3, SimpleTame
  <2>2. r.out.link = link
    BY <1>3, <1>7, <2>1, CallTame DEF Tame
  <2> QED BY <1>8, <2>2 DEF Out
<1>10. /\ ids' \in IdsType /\ ids'.puback = ids.puback /\ ids'.pubrec = ids.pubrec
       /\ ids'.pubcomp = ids.pubcomp \cup {pid} /\ ids'.suback = ids.suback
       /\ ids'.unsuback = ids.unsuback
  BY <1>4, <1>7, <1>8 DEF IdsType
<1>11. Owned([ids EXCEPT !.pubcomp = @ \cup {pid}], held, rel \ {pid})
  BY <1>1, <1>4, Moves
<1>12. Owned(ids, held, rel)'
  BY <1>1, <1>7, <1>8, <1>10, <1>11
<1>13. /\ sess' \in SessType /\ sess'.need_store = sess.need_store /\ StoreOK(sess'.store, ids')
       /\ ~sess.need_store => sess'.store = sess.store
  <2>1. sess' = IF sess.need_store THEN [sess EXCEPT !.store = Append(@, p)] ELSE sess
    BY <1>7, <1>8
  <2>2. /\ sess'.need_store = sess.need_store
        /\ sess'.store = (IF sess.need_store THEN Append(sess.store, p) ELSE sess.store)
        /\ sess'.store \in Seq(Stored) => sess' \in SessType
    BY <1>4, <2>1 DEF SessType
  <2>3. StoreOK(sess'.store, ids')
    <3>1. sess'.store = (IF sess.need_store THEN Append(sess.store, Ack("pubrel", pid)) ELSE sess.store)
      BY <2>2 DEF p
    <3> QED BY <1>4, <1>6, <1>10, <3>1, PubrelStored
  <2> QED BY <2>2, <2>3 DEF StoreOK
<1>14. StoreOK(sess.store, ids)'
  BY <1>13
<1>15. FlowKept'
  <2>1. rel' = rel \ {pid}
    BY <1>1, <1>10
  <2>2. InFlight' = InFlight
    BY <1>1, <1>10, <2>1 DEF InFlight
  <2> QED BY <1>1, <1>8, <1>9, <2>2, FlowStays
<1> QED BY <1>1, <1>8, <1>9, <1>10, <1>12, <1>13, <1>14, <1>15, MoveKeeps DEF MoveStep

-----------------------------------------------------------------------------
\* CONNECT on a new transport: with clean session the ids and the store go.
LEMMA AppConnectKeeps ==
  ASSUME CarefulClient, ClientInv, NEW p \in AppPackets, AppConnect(p)
  PROVE  ClientInv'
<1>1. /\ p.type = "connect" /\ p.clean \in BOOLEAN /\ send(p)
      /\ net = "new" \/ link.status # "Disconnected"
      /\ net' = IF link'.status = "Connecting" THEN "open" ELSE net
      /\ Forgets(net = "new" /\ link'.status = "Connecting" /\ p.clean)
  BY DEF AppConnect, CarefulClient, CarefulApplication
<1>2. link.protocol_version \in {"V3", "V5"} /\ Quiet(self) /\ self.link = link
  BY ClientVersion, SelfQuiet
<1>3. send_refused(p) \/ process_send_connect(p)
  BY <1>1 DEF send
<1>4. CASE send_refused(p) \/ TooLarge(p.size) \/ link.status # "Disconnected"
  <2>1. PICK e : Out(NotifyError(self, e)) /\ UNCHANGED core
    BY <1>3, <1>4 DEF process_send_connect, send_refused
  <2>2. NotifyError(self, e).link = link
    BY <1>2, SimpleTame DEF Tame
  <2>3. link' = link /\ (link.status = "Connecting" => net = "open")
    BY <2>1, <2>2 DEF Out, ClientInv
  <2>4. net' = net /\ held' = held /\ rel' = rel
    BY <1>1, <2>3 DEF Forgets
  <2> QED BY <2>1, <2>2, <2>4, CallFrames, FrameKeeps
<1>5. CASE ~send_refused(p) /\ ~TooLarge(p.size) /\ link.status = "Disconnected"
  <2> DEFINE started == Status(initialize_self(self, TRUE), "Connecting")
             timed == [started EXCEPT !.ping.pingreq_keep_alive_ms = p.keep_alive]
             sent == RequestSend(timed, p, 0)
             keeps == IF V5 THEN Prop(p.expiry, 0) # 0 ELSE ~p.clean
  <2>1. /\ ids'  = IF p.clean THEN clear_ids(initialize_ids(ids)) ELSE initialize_ids(ids)
        /\ sess' = [sess EXCEPT !.need_store = keeps, !.store = IF p.clean THEN <<>> ELSE @]
        /\ flow' = [initialize_flow EXCEPT !.recv_max = p.recv_max]
        /\ lim'  = [lim EXCEPT !.recv = Prop(p.max_size, @)]
        /\ Out(send_post_process(sent)) /\ opts' = opts
    BY <1>2, <1>3, <1>5 DEF process_send_connect
  <2>1a. keeps \in BOOLEAN /\ (~p.clean => keeps)
    BY <1>1, ClientVersion DEF CarefulClient, CarefulApplication
  <2> HIDE DEF keeps
  <2>2. /\ Quiet(timed)
        /\ timed.link = [[link EXCEPT !.is_client = TRUE] EXCEPT !.status = "Connecting"]
    <3> DEFINE fresh == initialize_self(self, TRUE)
    <3>1. Quiet(fresh) /\ fresh.link = [link EXCEPT !.is_client = TRUE]
      <4>1. fresh = [self EXCEPT !.link.is_client = TRUE, !.ping.pingreq_keep_alive_ms = 0,
                                 !.ping.pingreq_server_keep_alive_ms = None]
        BY DEF initialize_self
      <4> HIDE DEF fresh
      <4>2. /\ fresh.link = [link EXCEPT !.is_client = TRUE] /\ fresh.ev = self.ev
            /\ Shaped(fresh)
        BY <1>2, <4>1 DEF Quiet, Shaped
      <4> QED BY <1>2, <4>2 DEF Quiet
    <3>1a. started = Status(fresh, "Connecting")
      OBVIOUS
    <3> HIDE DEF fresh, started
    <3>2. Quiet(started) /\ started.link = [fresh.link EXCEPT !.status = "Connecting"]
      BY <3>1, <3>1a DEF Status, Quiet, Shaped
    <3>3. Quiet(timed) /\ timed.link = started.link
      BY <3>2 DEF Quiet, Shaped
    <3> QED BY <3>1, <3>2, <3>3
  <2> HIDE DEF timed
  <2>3. Tame(timed, sent)
    BY <2>2, SimpleTame
  <2>4. send_post_process(sent).link = timed.link
    BY <1>2, <2>3, CallTame DEF Tame
  <2>5. /\ link' = [[link EXCEPT !.is_client = TRUE] EXCEPT !.status = "Connecting"]
        /\ panicked' = FALSE
    BY <2>1, <2>2, <2>4 DEF Out
  <2>6. link' \in LinkType /\ link'.status = "Connecting"
    BY <2>5 DEF ClientInv, LinkType, Statuses
  <2>7. /\ net' = "open" /\ net = "new"
        /\ held' = (IF p.clean THEN {} ELSE held) /\ rel' = (IF p.clean THEN {} ELSE rel)
    BY <1>1, <1>5, <2>6 DEF Forgets, CarefulClient, CarefulApplication
  <2>8. /\ Owned(ids, held, rel) /\ ids \in IdsType /\ ids.suback = {} /\ ids.unsuback = {}
        /\ sess \in SessType /\ StoreOK(sess.store, ids)
    BY <2>7 DEF ClientInv, Owned
  <2>9. /\ "offline_publish" \in DOMAIN opts' /\ opts'.offline_publish \in BOOLEAN
        /\ FlowKept' /\ LimitKept'
    BY <2>1, <2>7 DEF initialize_flow, ClientInv, FlowKept, LimitKept
  <2>10. CASE p.clean
    <3>1. /\ ids' \in IdsType /\ ids'.man = {} /\ ids'.suback = {} /\ ids'.unsuback = {}
          /\ ids'.puback = {} /\ ids'.pubrec = {} /\ ids'.pubcomp = {}
      <4> DEFINE i == initialize_ids(ids)
      <4>1. i \in IdsType /\ i.suback = {} /\ i.unsuback = {}
        BY <2>8 DEF initialize_ids, IdsType
      <4>2. ids' = clear_ids(i)
        BY <2>1, <2>10
      <4> HIDE DEF i
      <4> QED BY <4>1, <4>2 DEF clear_ids, IdsType
    <3>2. Owned(ids', {}, {})
      BY <3>1 DEF Owned
    <3>3. Owned(ids, held, rel)'
      BY <3>2, <2>7, <2>10
    <3>4. sess' \in SessType /\ sess'.store = <<>>
      <4>1. <<>> \in Seq(Stored)
        BY SMT
      <4> QED BY <2>1, <2>1a, <2>8, <2>10, <4>1 DEF SessType
    <3>5. StoreOK(sess.store, ids)'
      BY <3>4 DEF StoreOK, Distinct, AwaitedIn, SessType
    <3> QED BY <2>5, <2>6, <2>7, <2>9, <3>1, <3>3, <3>4, <3>5 DEF ClientInv
  <2>11. CASE ~p.clean
    <3>1. /\ ids' \in IdsType /\ ids'.suback = {} /\ ids'.unsuback = {} /\ ids'.man = ids.man
          /\ ids'.puback = ids.puback /\ ids'.pubrec = ids.pubrec /\ ids'.pubcomp = ids.pubcomp
      BY <2>1, <2>8, <2>11 DEF initialize_ids, IdsType
    <3>2. Owned(ids', held, rel)
      BY <2>8, <3>1 DEF Owned
    <3>3. Owned(ids, held, rel)'
      BY <3>2, <2>7, <2>11
    <3>4. sess' \in SessType /\ sess'.store = sess.store /\ sess'.need_store
      BY <2>1, <2>1a, <2>8, <2>11 DEF SessType
    <3>5. StoreOK(sess.store, ids')
      BY <2>8, <3>1, StoreMono
    <3>6. StoreOK(sess.store, ids)'
      BY <3>4, <3>5
    <3> QED BY <2>5, <2>6, <2>7, <2>9, <3>1, <3>3, <3>4, <3>6 DEF ClientInv
  <2> QED BY <1>1, <2>10, <2>11
<1> QED BY <1>4, <1>5

\* notify_closed: the requests end; without a session the exchanges end as well.
LEMMA CloseKeeps ==
  ASSUME CarefulClient, ClientInv, Close PROVE ClientInv'
<1> DEFINE requests == ids.suback \cup ids.unsuback
           exchanges == IF sess.need_store THEN {} ELSE ids.puback \cup ids.pubrec \cup ids.pubcomp
           released == (requests \cup exchanges) \cap ids.man
           drained == [ids EXCEPT !.man = @ \ released, !.suback = {}, !.unsuback = {}]
           down == Status(self, "Disconnected")
           o == NotifyReleased(down, released)
<1>1. /\ net = "open" /\ net' = "closed" /\ notify_closed /\ UNCHANGED <<held, rel>>
  BY DEF Close, CarefulClient, CarefulApplication
<1>2. /\ lim' = [send |-> NoLimit, recv |-> NoLimit]
      /\ ids' = IF sess.need_store THEN drained
                ELSE [drained EXCEPT !.puback = {}, !.pubrec = {}, !.pubcomp = {}]
      /\ sess' = IF sess.need_store THEN sess ELSE [sess EXCEPT !.qos2_publish_handled = {}]
      /\ Out(cancel_timers(o)) /\ flow' = flow /\ opts' = opts
  BY <1>1 DEF notify_closed
<1>3. /\ Owned(ids, held, rel) /\ ids \in IdsType /\ sess \in SessType /\ StoreOK(sess.store, ids)
      /\ ~sess.need_store => sess.store = <<>>
  BY <1>1 DEF ClientInv, Owned
<1>4. link' = [link EXCEPT !.status = "Disconnected"] /\ panicked' = FALSE
  <2>1. Quiet(down) /\ down.link = [link EXCEPT !.status = "Disconnected"]
    BY SelfQuiet DEF Status, Quiet, Shaped
  <2> HIDE DEF down, released
  <2>2. Tame(down, o)
    BY <2>1, SimpleTame
  <2>3. cancel_timers(o).link = [link EXCEPT !.status = "Disconnected"]
    BY <1>3, <2>1, <2>2, CallTame DEF Tame
  <2> QED BY <1>2, <2>3 DEF Out
<1>5. link' \in LinkType /\ link'.status = "Disconnected"
  BY <1>4 DEF ClientInv, LinkType, Statuses
<1>5a. FlowKept' /\ LimitKept'
  BY <1>1, <1>2, <1>5 DEF ClientInv, FlowKept, LimitKept
<1>6. /\ drained \in IdsType /\ drained.man = ids.man \ released
      /\ drained.suback = {} /\ drained.unsuback = {} /\ drained.puback = ids.puback
      /\ drained.pubrec = ids.pubrec /\ drained.pubcomp = ids.pubcomp
  <2>1. ids.man \ released \in SUBSET PacketIds
    BY <1>3 DEF IdsType
  <2> HIDE DEF released
  <2> QED BY <1>3, <2>1 DEF IdsType
<1>7. CASE sess.need_store
  <2>1. ids' = drained /\ sess' = sess
    BY <1>2, <1>7
  <2>2. Owned(drained, held, rel)
    <3> HIDE DEF drained
    <3> QED BY <1>3, <1>6, <1>7 DEF Owned
  <2> HIDE DEF drained
  <2>3. StoreOK(sess.store, drained)
    BY <1>3, <1>6, StoreMono
  <2>4. Owned(ids, held, rel)' /\ StoreOK(sess.store, ids)'
    BY <1>1, <2>1, <2>2, <2>3
  <2> QED BY <1>1, <1>2, <1>3, <1>4, <1>5, <1>5a, <1>6, <2>1, <2>4 DEF ClientInv
<1>8. CASE ~sess.need_store
  <2>1. /\ ids' = [drained EXCEPT !.puback = {}, !.pubrec = {}, !.pubcomp = {}]
        /\ sess' = [sess EXCEPT !.qos2_publish_handled = {}]
    BY <1>2, <1>8
  <2>2. /\ ids' \in IdsType /\ ids'.man = ids.man \ released
        /\ ids'.suback = {} /\ ids'.unsuback = {}
        /\ ids'.puback = {} /\ ids'.pubrec = {} /\ ids'.pubcomp = {}
    <3> HIDE DEF drained, released
    <3> QED BY <1>6, <2>1 DEF IdsType
  <2>3. Owned(ids', held, rel)
    BY <1>3, <1>8, <2>2 DEF Owned
  <2>4. sess' \in SessType /\ sess'.store = <<>>
    BY <1>3, <1>8, <2>1 DEF SessType
  <2>5. Owned(ids, held, rel)' /\ StoreOK(sess.store, ids)'
    BY <1>1, <2>3, <2>4 DEF StoreOK, Distinct, AwaitedIn, SessType
  <2> QED BY <1>1, <1>2, <1>4, <1>5, <1>5a, <2>2, <2>4, <2>5 DEF ClientInv
<1> QED BY <1>3, <1>7, <1>8 DEF SessType

\* restore_packets rebuilds from the store exactly the ids it needs.
LEMMA RestoredOwned ==
  ASSUME NEW s \in Seq(Stored), Distinct(s)
  PROVE  Owned(restored_ids(s), {}, {}) /\ StoreOK(s, restored_ids(s))
         /\ restored_ids(s).suback = {} /\ restored_ids(s).unsuback = {}
<1> DEFINE j == restored_ids(s)
           with(response) == {s[k].pid : k \in {m \in DOMAIN s : response_packet(s[m]) = response}}
<1>1. ASSUME NEW k \in DOMAIN s
      PROVE  /\ s[k].pid \in PacketIds
             /\ response_packet(s[k]) \in {"puback", "pubrec", "pubcomp"}
  <2>1. s[k] \in Stored
    OBVIOUS
  <2> QED BY <2>1, ResponseTypes
<1>2. /\ j.man = {s[k].pid : k \in DOMAIN s} /\ j.suback = {} /\ j.unsuback = {}
      /\ j.puback = with("puback") /\ j.pubrec = with("pubrec") /\ j.pubcomp = with("pubcomp")
  BY DEF restored_ids, NoIds
<1>3. j \in IdsType
  <2> DEFINE a == {s[k].pid : k \in DOMAIN s}
             b == with("puback")
             c == with("pubrec")
             d == with("pubcomp")
  <2>1. /\ a \in SUBSET PacketIds /\ b \in SUBSET PacketIds
        /\ c \in SUBSET PacketIds /\ d \in SUBSET PacketIds
    BY <1>1
  <2>2. j = [NoIds EXCEPT !.man = a, !.puback = b, !.pubrec = c, !.pubcomp = d]
    BY DEF restored_ids
  <2> HIDE DEF a, b, c, d, j
  <2> QED BY <2>1, <2>2 DEF NoIds, IdsType
<1> HIDE DEF j
<1>4. Owned(j, {}, {})
  <2>1. j.man = j.puback \cup j.pubrec \cup j.pubcomp
    BY <1>1, <1>2
  <2>2. ASSUME NEW x, NEW e, NEW f, x \in with(e), x \in with(f) PROVE e = f
    <3>1. PICK k \in DOMAIN s : response_packet(s[k]) = e /\ s[k].pid = x
      BY <2>2
    <3>2. PICK m \in DOMAIN s : response_packet(s[m]) = f /\ s[m].pid = x
      BY <2>2
    <3>3. k = m
      BY <3>1, <3>2 DEF Distinct
    <3> QED BY <3>1, <3>2, <3>3
  <2> HIDE DEF with
  <2>3. /\ \A x \in j.puback : x \notin j.pubrec \cup j.pubcomp
        /\ \A x \in j.pubrec : x \notin j.pubcomp
    BY <1>2, <2>2
  <2> QED BY <1>2, <1>3, <2>1, <2>3 DEF Owned
<1>5. ASSUME NEW k \in DOMAIN s PROVE s[k].pid \in j[response_packet(s[k])]
  <2>1. s[k].pid \in with(response_packet(s[k]))
    OBVIOUS
  <2> HIDE DEF with
  <2> QED BY <1>1, <1>2, <2>1
<1> QED BY <1>2, <1>4, <1>5 DEF StoreOK, AwaitedIn, j

\* A restart from the stored packets establishes the invariant again.
LEMMA RestartKeeps ==
  ASSUME CarefulClient, ClientInv, Restart PROVE ClientInv'
<1>1. restore(sess.store, sess.qos2_publish_handled) /\ net' = "closed" /\ held' = {} /\ rel' = {}
  BY DEF Restart
<1>2. sess \in SessType /\ sess.store \in Seq(Stored) /\ Distinct(sess.store)
  BY DEF ClientInv, StoreOK
<1>3. /\ ids' = restored_ids(sess.store) /\ sess'.store = sess.store /\ panicked' = FALSE
      /\ opts' = opts
  BY <1>1 DEF restore
<1>4. sess' \in SessType
  BY <1>1, <1>2 DEF restore, SessType, ClientInv
<1>5. link' \in LinkType /\ link'.status = "Disconnected"
  BY <1>1 DEF restore, LinkType, Statuses
<1>5a. FlowKept' /\ LimitKept'
  BY <1>1, <1>5 DEF restore, initialize_flow, FlowKept, LimitKept
<1>6. /\ Owned(ids, held, rel)' /\ StoreOK(sess.store, ids)'
      /\ ids'.suback = {} /\ ids'.unsuback = {}
  BY <1>1, <1>2, <1>3, RestoredOwned
<1> QED BY <1>1, <1>3, <1>4, <1>5, <1>5a, <1>6 DEF ClientInv

-----------------------------------------------------------------------------
\* A packet from the server.  It leaves the application's ids alone unless it is
\* a CONNACK that ends the session, or a PUBREC.
LEMMA PeerLeaves ==
  ASSUME NEW p, PeerSend(p),
         \/ ~Notified(events', p.type)
         \/ p.type \notin {"connect", "connack", "pubrec"}
         \/ p.type = "connack" /\ (~p.ok \/ p.session_present)
  PROVE  held' = held /\ rel' = rel
<1>1. CASE ~Notified(events', p.type)
  BY <1>1 DEF PeerSend
<1>2. CASE p.type \notin {"connect", "connack", "pubrec"}
  BY <1>2 DEF PeerSend
<1>3. CASE p.type = "connack" /\ (~p.ok \/ p.session_present)
  BY <1>3 DEF PeerSend
<1> QED BY <1>1, <1>2, <1>3

\* What a packet from the server can do to the transport.
LEMMA PeerNet ==
  ASSUME CarefulClient, ClientInv, NEW p, PeerSend(p)
  PROVE  /\ p.type # "connect" => net = "open"
         /\ link'.status \in {link.status, "Disconnected"} => net' = net
         /\ link'.status = "Connected" => net' = net
BY DEF PeerSend, ClientInv, CarefulClient, CarefulApplication

\* A packet that only returns events.
LEMMA PeerFrames ==
  ASSUME CarefulClient, ClientInv, NEW p, PeerSend(p), NEW o, Out(o), UNCHANGED core,
         o.link \in {link, Down(link)},
         \/ Quiet(o)
         \/ p.type \notin {"connect", "connack", "pubrec"}
         \/ p.type = "connack" /\ ~p.ok
  PROVE  ClientInv'
<1>1. link' = o.link /\ events' = o.ev
  BY DEF Out
<1>2. link'.status \in {link.status, "Disconnected"}
  BY <1>1 DEF ClientInv, LinkType, Down
<1>3. net' = net
  BY <1>2, PeerNet
<1>4. Quiet(o) => ~Notified(events', p.type)
  BY <1>1, QuietNotNotified DEF Quiet
<1>5. held' = held /\ rel' = rel
  BY <1>4, PeerLeaves
<1> QED BY <1>3, <1>5, CallFrames, FrameKeeps

\* A packet that is too large or not for a client.
LEMMA RefusedPacketKeeps ==
  ASSUME CarefulClient, ClientInv, NEW p, PeerSend(p), recv_refused(p) PROVE ClientInv'
<1> DEFINE d == disconnect(self, Plain("disconnect"))
<1>1. Quiet(self) /\ self.link = link
  BY SelfQuiet
<1>2. Quiet(d) /\ d.link \in {link, Down(link)}
  BY <1>1, DisconnectQuiet DEF Yields
<1> HIDE DEF d
<1>3. /\ \A e : Tame(self, NotifyError(self, e))
      /\ \A e : Tame(d, NotifyError(d, e))
  BY <1>1, <1>2, SimpleTame
<1>4. PICK o : Out(o) /\ UNCHANGED core /\ \E e : o \in {NotifyError(d, e), NotifyError(self, e)}
  BY DEF recv_refused, d
<1>5. Quiet(o) /\ o.link \in {link, Down(link)}
  BY <1>1, <1>2, <1>3, <1>4 DEF Tame
<1> QED BY <1>4, <1>5, PeerFrames

\* A response nothing awaits.
LEMMA UnexpectedKeeps ==
  ASSUME CarefulClient, ClientInv, NEW p, PeerSend(p), unexpected_response PROVE ClientInv'
<1> DEFINE o == handle_error(self, "ProtocolError")
<1>1. Yields(self, o) /\ self.link = link
  BY SelfQuiet, ErrorQuiet
<1>2. Out(o) /\ UNCHANGED core
  BY DEF unexpected_response
<1> HIDE DEF o
<1> QED BY <1>1, <1>2, PeerFrames DEF Yields

\* The response that ends an exchange: the packet leaves the store with its id.
LEMMA EndsKeeps ==
  ASSUME CarefulClient, ClientInv, NEW p, PeerSend(p), NEW awaiting, NEW counted,
         response_ends(p, awaiting, counted), NEW j, j = [awaiting EXCEPT !.man = @ \ {p.pid}],
         p.type \in {"suback", "unsuback", "puback", "pubrec", "pubcomp"}, p.pid \in ids[p.type],
         flow.send_max # None => counted = (p.type \notin {"suback", "unsuback"}),
         Owned(j, held, rel), ids.puback \ {p.pid} \subseteq j.puback,
         ids.pubrec \ {p.pid} \subseteq j.pubrec, ids.pubcomp \ {p.pid} \subseteq j.pubcomp,
         j.puback \cup j.pubrec \cup j.pubcomp
           = (ids.puback \cup ids.pubrec \cup ids.pubcomp) \ {p.pid},
         j.suback \subseteq ids.suback, j.unsuback \subseteq ids.unsuback
  PROVE  ClientInv'
<1> DEFINE s == NotifyReleased(self, {p.pid} \cap ids.man)
           o == NotifyReceived(refresh_pingreq_recv(s), p)
<1>1. /\ Owned(ids, held, rel) /\ StoreOK(sess.store, ids) /\ sess \in SessType
      /\ Quiet(self) /\ self.link = link
  BY SelfQuiet DEF ClientInv
<1>2. net = "open"
  BY PeerNet
<1>3. /\ ids' = j /\ sess' = [sess EXCEPT !.store = erase(@, p.type, p.pid)]
      /\ flow' = IF counted /\ flow.send_max # None THEN add_count(-1) ELSE flow
      /\ OutUnless(counted /\ flow.send_max # None /\ overflows(-1), o)
      /\ UNCHANGED <<lim, opts>>
  BY <1>1 DEF response_ends
<1>4. link' = link
  <2>1. Tame(self, s)
    BY <1>1, SimpleTame
  <2> HIDE DEF s
  <2>2. Tame(self, refresh_pingreq_recv(s))
    BY <1>1, <2>1, CallTame DEF Tame
  <2>3. o.link = link
    BY <1>1, <2>2, ReceivedNotified DEF Tame
  <2> QED BY <1>3, <2>3 DEF OutUnless
<1>5. net' = net /\ held' = held /\ rel' = rel
  <2>1. net' = net
    BY <1>4, PeerNet
  <2>2. CASE p.type # "pubrec"
    BY <2>1, <2>2, PeerLeaves
  <2>3. CASE p.type = "pubrec"
    <3>1. p.pid \notin ids'.man
      BY <1>3 DEF Owned, IdsType
    <3>2. held' = held /\ rel' = rel
      BY <2>3, <3>1 DEF PeerSend
    <3> QED BY <2>1, <3>2
  <2> QED BY <2>2, <2>3
<1>5a. panicked' = FALSE /\ FlowKept'
  <2>1. /\ InFlight' = InFlight \ {p.pid}
        /\ p.pid \in InFlight <=> p.type \notin {"suback", "unsuback"}
    <3>1. p.pid \notin rel
      BY <1>1 DEF Owned
    <3>2. InFlight' = InFlight \ {p.pid}
      BY <1>3, <1>5, <3>1 DEF InFlight
    <3>3. p.pid \in InFlight <=> p.type \notin {"suback", "unsuback"}
      BY <1>1, <3>1 DEF InFlight, Owned
    <3> QED BY <3>2, <3>3
  <2>2. CASE flow.send_max = None
    BY <1>3, <1>4, <1>5, <2>2, FlowStays DEF OutUnless
  <2>3. CASE flow.send_max # None /\ p.type \in {"suback", "unsuback"}
    <3>1. InFlight' = InFlight /\ ~counted
      BY <2>1, <2>3
    <3> QED BY <1>3, <1>4, <1>5, <3>1, FlowStays DEF OutUnless
  <2>4. CASE flow.send_max # None /\ p.type \notin {"suback", "unsuback"}
    <3>1. counted /\ p.pid \in InFlight
      BY <2>1, <2>4
    <3>2. ~overflows(-1) /\ (flow' = add_count(-1) => FlowKept')
      BY <1>2, <1>4, <1>5, <2>1, <2>4, <3>1, FlowDrops
    <3> QED BY <1>3, <2>4, <3>1, <3>2 DEF OutUnless
  <2> QED BY <2>2, <2>3, <2>4
<1>6. Owned(ids, held, rel)'
  BY <1>3, <1>5
<1>7. /\ StoreOK(erase(sess.store, p.type, p.pid), j)
      /\ sess.store = <<>> => erase(sess.store, p.type, p.pid) = <<>>
  <2>1. j \in IdsType
    BY DEF Owned
  <2> DEFINE f == p.type
             x == p.pid
  <2>2. f \in {"suback", "unsuback", "puback", "pubrec", "pubcomp"} /\ x \in ids[f]
    OBVIOUS
  <2>3. /\ ids.puback \ {x} \subseteq j.puback /\ ids.pubrec \ {x} \subseteq j.pubrec
        /\ ids.pubcomp \ {x} \subseteq j.pubcomp
    OBVIOUS
  <2> HIDE DEF f, x
  <2>4. /\ StoreOK(erase(sess.store, f, x), j) /\ ~in_store(erase(sess.store, f, x), x)
        /\ sess.store = <<>> => erase(sess.store, f, x) = <<>>
    BY ONLY <1>1, <2>1, <2>2, <2>3, StoreErase
  <2> QED BY <2>4 DEF f, x
<1>8. /\ sess' \in SessType /\ sess'.need_store = sess.need_store
      /\ sess'.store = erase(sess.store, p.type, p.pid)
  BY <1>1, <1>3, <1>7 DEF SessType, StoreOK
<1>9. StoreOK(sess.store, ids)'
  BY <1>3, <1>7, <1>8
<1>10. ~sess.need_store => sess'.store = sess.store
  BY <1>2, <1>7, <1>8 DEF ClientInv
<1> QED BY <1>3, <1>4, <1>5, <1>5a, <1>6, <1>8, <1>9, <1>10, MoveKeeps DEF MoveStep

\* PUBACK, PUBCOMP, SUBACK and UNSUBACK.
LEMMA ResponseKeeps ==
  ASSUME CarefulClient, ClientInv, NEW p, PeerSend(p),
         \/ p.type = "puback" /\ process_recv_puback(p)
         \/ p.type = "pubcomp" /\ process_recv_pubcomp(p)
         \/ p.type = "suback" /\ process_recv_suback(p)
         \/ p.type = "unsuback" /\ process_recv_unsuback(p)
  PROVE  ClientInv'
<1>1. Owned(ids, held, rel) /\ ids \in IdsType
  BY DEF ClientInv, Owned
<1>1a. flow.send_max # None => V5
  BY ClientVersion DEF ClientInv, FlowKept
<1>2. CASE unexpected_response
  BY <1>2, UnexpectedKeeps
<1>3. CASE /\ p.type = "puback" /\ p.pid \in ids.puback
           /\ response_ends(p, [ids EXCEPT !.puback = @ \ {p.pid}], V5)
  <2> DEFINE a == [ids EXCEPT !.puback = @ \ {p.pid}]
             j == [a EXCEPT !.man = @ \ {p.pid}]
  <2>1. Owned(j, held, rel)
    BY <1>1, <1>3, Moves
  <2>2. /\ j.puback = ids.puback \ {p.pid} /\ j.pubrec = ids.pubrec /\ j.pubcomp = ids.pubcomp
        /\ j.suback = ids.suback /\ j.unsuback = ids.unsuback
    BY <1>1 DEF IdsType
  <2>3. response_ends(p, a, V5) /\ j = [a EXCEPT !.man = @ \ {p.pid}]
    BY <1>3
  <2> HIDE DEF a, j
  <2>4. j.puback \cup j.pubrec \cup j.pubcomp
          = (ids.puback \cup ids.pubrec \cup ids.pubcomp) \ {p.pid}
    BY <1>1, <1>3, <2>2 DEF Owned
  <2> QED BY <1>1a, <1>3, <2>1, <2>2, <2>3, <2>4, EndsKeeps
<1>4. CASE /\ p.type = "pubcomp" /\ p.pid \in ids.pubcomp
           /\ response_ends(p, [ids EXCEPT !.pubcomp = @ \ {p.pid}], V5)
  <2> DEFINE a == [ids EXCEPT !.pubcomp = @ \ {p.pid}]
             j == [a EXCEPT !.man = @ \ {p.pid}]
  <2>1. Owned(j, held, rel)
    BY <1>1, <1>4, Moves
  <2>2. /\ j.puback = ids.puback /\ j.pubrec = ids.pubrec /\ j.pubcomp = ids.pubcomp \ {p.pid}
        /\ j.suback = ids.suback /\ j.unsuback = ids.unsuback
    BY <1>1 DEF IdsType
  <2>3. response_ends(p, a, V5) /\ j = [a EXCEPT !.man = @ \ {p.pid}]
    BY <1>4
  <2> HIDE DEF a, j
  <2>4. j.puback \cup j.pubrec \cup j.pubcomp
          = (ids.puback \cup ids.pubrec \cup ids.pubcomp) \ {p.pid}
    BY <1>1, <1>4, <2>2 DEF Owned
  <2> QED BY <1>1a, <1>4, <2>1, <2>2, <2>3, <2>4, EndsKeeps
<1>5. CASE /\ p.type = "suback" /\ p.pid \in ids.suback
           /\ response_ends(p, [ids EXCEPT !.suback = @ \ {p.pid}], FALSE)
  <2> DEFINE a == [ids EXCEPT !.suback = @ \ {p.pid}]
             j == [a EXCEPT !.man = @ \ {p.pid}]
  <2>1. Owned(j, held, rel)
    BY <1>1, <1>5, Moves
  <2>2. /\ j.puback = ids.puback /\ j.pubrec = ids.pubrec /\ j.pubcomp = ids.pubcomp
        /\ j.suback = ids.suback \ {p.pid} /\ j.unsuback = ids.unsuback
    BY <1>1 DEF IdsType
  <2>3. response_ends(p, a, FALSE) /\ j = [a EXCEPT !.man = @ \ {p.pid}]
    BY <1>5
  <2> HIDE DEF a, j
  <2>4. j.puback \cup j.pubrec \cup j.pubcomp
          = (ids.puback \cup ids.pubrec \cup ids.pubcomp) \ {p.pid}
    BY <1>1, <1>5, <2>2 DEF Owned
  <2> QED BY <1>1a, <1>5, <2>1, <2>2, <2>3, <2>4, EndsKeeps
<1>6. CASE /\ p.type = "unsuback" /\ p.pid \in ids.unsuback
           /\ response_ends(p, [ids EXCEPT !.unsuback = @ \ {p.pid}], FALSE)
  <2> DEFINE a == [ids EXCEPT !.unsuback = @ \ {p.pid}]
             j == [a EXCEPT !.man = @ \ {p.pid}]
  <2>1. Owned(j, held, rel)
    BY <1>1, <1>6, Moves
  <2>2. /\ j.puback = ids.puback /\ j.pubrec = ids.pubrec /\ j.pubcomp = ids.pubcomp
        /\ j.suback = ids.suback /\ j.unsuback = ids.unsuback \ {p.pid}
    BY <1>1 DEF IdsType
  <2>3. response_ends(p, a, FALSE) /\ j = [a EXCEPT !.man = @ \ {p.pid}]
    BY <1>6
  <2> HIDE DEF a, j
  <2>4. j.puback \cup j.pubrec \cup j.pubcomp
          = (ids.puback \cup ids.pubrec \cup ids.pubcomp) \ {p.pid}
    BY <1>1, <1>6, <2>2 DEF Owned
  <2> QED BY <1>1a, <1>6, <2>1, <2>2, <2>3, <2>4, EndsKeeps
<1> QED BY <1>2, <1>3, <1>4, <1>5, <1>6
        DEF process_recv_puback, process_recv_pubcomp, process_recv_suback, process_recv_unsuback

\* PUBREC: the application owes the PUBREL, or it is sent at once.
LEMMA PubrecKeeps ==
  ASSUME CarefulClient, ClientInv, NEW p, PeerSend(p), p.type = "pubrec", process_recv_pubrec(p)
  PROVE  ClientInv'
<1> DEFINE awaiting == [ids EXCEPT !.pubrec = @ \ {p.pid}]
           erased == [sess EXCEPT !.store = erase(@, "pubrec", p.pid)]
           q == Ack("pubrel", p.pid)
           auto == opts.auto_pub_response /\ link.status = "Connected"
           r == IF auto THEN pubrel(self, awaiting, erased, q)
                ELSE [out |-> self, ids |-> awaiting, sess |-> erased, panics |-> FALSE]
<1>1. /\ Owned(ids, held, rel) /\ StoreOK(sess.store, ids) /\ sess \in SessType /\ ids \in IdsType
      /\ Quiet(self) /\ self.link = link
  BY SelfQuiet DEF ClientInv, Owned
<1>2. CASE unexpected_response
  BY <1>2, UnexpectedKeeps
<1>2a. CASE p.pid \in ids.pubrec /\ response_ends(p, awaiting, TRUE)
  <2> DEFINE j == [awaiting EXCEPT !.man = @ \ {p.pid}]
  <2>1. Owned(j, held, rel)
    BY <1>1, <1>2a, Moves
  <2>2. /\ j.puback = ids.puback /\ j.pubrec = ids.pubrec \ {p.pid} /\ j.pubcomp = ids.pubcomp
        /\ j.suback = ids.suback /\ j.unsuback = ids.unsuback
    BY <1>1 DEF IdsType
  <2>3. response_ends(p, awaiting, TRUE) /\ j = [awaiting EXCEPT !.man = @ \ {p.pid}]
    BY <1>2a
  <2> HIDE DEF awaiting, j
  <2>4. j.puback \cup j.pubrec \cup j.pubcomp
          = (ids.puback \cup ids.pubrec \cup ids.pubcomp) \ {p.pid}
    BY <1>1, <1>2a, <2>2 DEF Owned
  <2> QED BY <1>2a, <2>1, <2>2, <2>3, <2>4, EndsKeeps
<1>3. CASE ~unexpected_response /\ ~(p.pid \in ids.pubrec /\ response_ends(p, awaiting, TRUE))
  <2>1. /\ p.pid \in ids.pubrec
        /\ \/ r.panics /\ Panic
           \/ /\ ~r.panics /\ ids' = r.ids /\ sess' = r.sess
              /\ Out(NotifyReceived(refresh_pingreq_recv(r.out), p))
              /\ UNCHANGED <<flow, lim, opts>>
    BY <1>1, <1>3 DEF process_recv_pubrec
  <2>2. /\ awaiting \in IdsType /\ awaiting.man = ids.man /\ awaiting.puback = ids.puback
        /\ awaiting.pubrec = ids.pubrec \ {p.pid} /\ awaiting.pubcomp = ids.pubcomp
        /\ awaiting.suback = ids.suback /\ awaiting.unsuback = ids.unsuback
    BY <1>1 DEF IdsType
  <2>3. p.pid \in ids.man /\ p.pid \in PacketIds
    BY <1>1, <2>1 DEF Owned, IdsType
  <2>4. /\ Owned([ids EXCEPT !.pubrec = @ \ {p.pid}], held, rel \cup {p.pid})
        /\ Owned([[ids EXCEPT !.pubrec = @ \ {p.pid}] EXCEPT !.pubcomp = @ \cup {p.pid}], held, rel)
    BY <1>1, <2>1, Moves
  <2>5. /\ Owned(awaiting, held, rel \cup {p.pid})
        /\ Owned([awaiting EXCEPT !.pubcomp = @ \cup {p.pid}], held, rel)
    BY <2>4
  <2> HIDE DEF awaiting
  <2> DEFINE e == erase(sess.store, "pubrec", p.pid)
  <2>6. /\ StoreOK(e, awaiting) /\ ~in_store(e, p.pid)
        /\ sess.store = <<>> => e = <<>>
    <3> DEFINE x == p.pid
               f == "pubrec"
    <3>1. f \in {"suback", "unsuback", "puback", "pubrec", "pubcomp"} /\ x \in ids[f]
      BY <2>1
    <3>2. /\ ids.puback \ {x} \subseteq awaiting.puback /\ ids.pubrec \ {x} \subseteq awaiting.pubrec
          /\ ids.pubcomp \ {x} \subseteq awaiting.pubcomp
      BY <2>2
    <3> HIDE DEF x, f
    <3>3. /\ StoreOK(erase(sess.store, f, x), awaiting) /\ ~in_store(erase(sess.store, f, x), x)
          /\ sess.store = <<>> => erase(sess.store, f, x) = <<>>
      BY ONLY <1>1, <2>2, <3>1, <3>2, StoreErase
    <3> QED BY <3>3 DEF x, f
  <2> HIDE DEF e
  <2>7. erased \in SessType /\ erased.store = e /\ erased.need_store = sess.need_store
    BY <1>1, <2>6 DEF SessType, StoreOK, e
  <2> HIDE DEF erased
  <2>8. net = "open" /\ (~sess.need_store => e = <<>> /\ sess.store = <<>>)
    BY <2>6, PeerNet DEF ClientInv
  <2>9. ASSUME NEW o, Tame(self, o), Out(NotifyReceived(refresh_pingreq_recv(o), p))
        PROVE  /\ link' = link /\ panicked' = FALSE /\ net' = net
               /\ Notified(events', "pubrec")
    <3>1. Tame(self, refresh_pingreq_recv(o))
      BY <1>1, <2>9, CallTame DEF Tame
    <3>2. link' = link /\ panicked' = FALSE /\ Notified(events', "pubrec")
      BY <1>1, <2>9, <3>1, ReceivedNotified DEF Tame, Out
    <3> QED BY <3>2, PeerNet
  <2>10. /\ held' = held
         /\ rel' = IF Notified(events', "pubrec") /\ p.pid \in ids'.man \ Awaited'
                   THEN rel \cup {p.pid} ELSE rel
    BY DEF PeerSend
  <2>11. CASE ~auto \/ TooLarge(q.size)
    <3>1. PICK o : /\ r = [out |-> o, ids |-> awaiting, sess |-> erased, panics |-> FALSE]
                   /\ o \in {self, NotifyError(self, "PacketTooLarge")}
      BY <2>11 DEF pubrel
    <3> HIDE DEF r
    <3>2. /\ ids' = awaiting /\ sess' = erased /\ UNCHANGED <<flow, lim, opts>>
          /\ Out(NotifyReceived(refresh_pingreq_recv(o), p))
      BY <2>1, <3>1
    <3>2a. Tame(self, o)
      BY <1>1, <3>1, SimpleTame DEF Tame
    <3>3. /\ link' = link /\ panicked' = FALSE /\ net' = net /\ Notified(events', "pubrec")
      BY <2>9, <3>2, <3>2a
    <3>4. p.pid \in ids'.man \ Awaited'
      BY <1>1, <2>1, <2>2, <2>3, <3>2 DEF Owned, Awaited
    <3>5. rel' = rel \cup {p.pid}
      BY <2>10, <3>3, <3>4
    <3>6. Owned(ids, held, rel)'
      BY <2>5, <2>10, <3>2, <3>5
    <3>7. StoreOK(sess.store, ids)'
      BY <2>6, <2>7, <3>2
    <3>8. FlowKept'
      <4>1. InFlight' = InFlight
        BY <2>1, <2>2, <3>2, <3>5 DEF InFlight
      <4> QED BY <3>2, <3>3, <4>1, FlowStays
    <3> QED BY <2>2, <2>7, <2>8, <3>2, <3>3, <3>6, <3>7, <3>8, MoveKeeps DEF MoveStep
  <2>12. CASE auto /\ ~TooLarge(q.size)
    <3>1. q.pid = p.pid /\ r = pubrel(self, awaiting, erased, q)
      BY <2>12 DEF Ack
    <3>2. self.link.status = "Connected" /\ q.pid \in awaiting.man
      BY <1>1, <2>2, <2>3, <2>12, <3>1
    <3> HIDE DEF q, r
    <3>3. /\ r.out = send_post_process(RequestSend(self, q, 0))
          /\ r.ids = [awaiting EXCEPT !.pubcomp = @ \cup {q.pid}]
          /\ r.sess = IF erased.need_store THEN [erased EXCEPT !.store = Append(@, q)] ELSE erased
          /\ r.panics = (erased.need_store /\ in_store(erased.store, q.pid))
      BY <1>1, <2>12, <3>1, <3>2 DEF pubrel
    <3>4. ~r.panics
      BY <2>6, <2>7, <3>1, <3>3
    <3>5. /\ ids' = [awaiting EXCEPT !.pubcomp = @ \cup {p.pid}]
          /\ sess' = IF erased.need_store THEN [erased EXCEPT !.store = Append(@, q)] ELSE erased
          /\ Out(NotifyReceived(refresh_pingreq_recv(r.out), p)) /\ UNCHANGED <<flow, lim, opts>>
      BY <2>1, <3>1, <3>3, <3>4
    <3>6. Tame(self, r.out)
      <4>1. Tame(self, RequestSend(self, q, 0))
        BY <1>1, SimpleTame
      <4> QED BY <1>1, <3>3, <4>1, CallTame DEF Tame
    <3>7. /\ link' = link /\ panicked' = FALSE /\ net' = net
      BY <2>9, <3>5, <3>6
    <3>8. /\ ids' \in IdsType /\ ids'.puback = awaiting.puback /\ ids'.pubrec = awaiting.pubrec
          /\ ids'.pubcomp = awaiting.pubcomp \cup {p.pid} /\ ids'.suback = awaiting.suback
          /\ ids'.unsuback = awaiting.unsuback
      BY <2>2, <2>3, <3>5 DEF IdsType
    <3>9. rel' = rel
      BY <2>10, <3>8 DEF Awaited
    <3>10. Owned(ids, held, rel)'
      BY <2>5, <2>10, <3>5, <3>9
    <3>11. /\ sess'.need_store = sess.need_store
           /\ sess'.store = (IF erased.need_store THEN Append(erased.store, q) ELSE erased.store)
           /\ sess'.store \in Seq(Stored) => sess' \in SessType
      BY <2>7, <3>5 DEF SessType
    <3>12. StoreOK(sess'.store, ids')
      <4>1. sess'.store = (IF erased.need_store THEN Append(erased.store, Ack("pubrel", p.pid))
                           ELSE erased.store)
        BY <3>11 DEF q
      <4> QED BY <2>2, <2>3, <2>6, <2>7, <3>8, <4>1, PubrelStored
    <3>13. sess' \in SessType /\ (~sess.need_store => sess'.store = sess.store)
      BY <2>7, <2>8, <3>11, <3>12 DEF StoreOK
    <3>14. StoreOK(sess.store, ids)'
      BY <3>12
    <3>15. FlowKept'
      <4>1. InFlight' = InFlight
        BY <2>1, <2>2, <3>8, <3>9 DEF InFlight
      <4> QED BY <3>5, <3>7, <4>1, FlowStays
    <3> QED BY <2>2, <3>5, <3>7, <3>8, <3>10, <3>11, <3>13, <3>14, <3>15, MoveKeeps DEF MoveStep
  <2> QED BY <2>11, <2>12
<1> QED BY <1>2, <1>2a, <1>3

\* A received PUBLISH is an error, a duplicate or a message.
LEMMA PublishYields ==
  ASSUME ClientInv, NEW p \in PeerPackets, p.type = "publish", process_recv_publish(p)
  PROVE  /\ \E o : Out(o) /\ o.link \in {link, Down(link)}
         /\ UNCHANGED <<ids, lim, opts>> /\ SameFlow(flow') /\ SameSess(sess')
<1> DEFINE already == p.qos = 2 /\ p.pid \in sess.qos2_publish_handled
           noted == IF V5 /\ p.qos > 0 THEN [flow EXCEPT !.recv = @ \cup {p.pid}] ELSE flow
           responds == /\ link.status = "Connected"
                       /\ \/ p.qos = 1 /\ opts.auto_pub_response
                          \/ p.qos = 2 /\ (opts.auto_pub_response \/ already)
           ack == Ack(IF p.qos = 1 THEN "puback" ELSE "pubrec", p.pid)
           full == IF V5 /\ p.topic = NoTopic
                   THEN [p EXCEPT !.topic = recv_get(alias.recv, p.alias)] ELSE p
           refreshed == refresh_pingreq_recv(IF responds THEN send_response(self, ack) ELSE self)
<1>1. Quiet(self) /\ self.link = link
  BY SelfQuiet
<1>2. /\ UNCHANGED <<ids, lim, opts>>
      /\ flow' \in {flow, noted, flow_after_ack(self, ack, noted)}
      /\ sess' \in {sess, [sess EXCEPT !.qos2_publish_handled = @ \cup {p.pid}]}
  BY DEF process_recv_publish
<1>3. \E o : /\ o \in {handle_error(self, "ReceiveMaximumExceeded"),
                       handle_error(self, "TopicAliasInvalid"),
                       refreshed, NotifyReceived(refreshed, full)}
             /\ Out(o)
  BY DEF process_recv_publish
<1>4. SameFlow(flow')
  <2> DEFINE a == flow_after_ack(self, ack, noted)
  <2>1. SameFlow(flow)
    BY DEF SameFlow, ClientInv, FlowKept
  <2>2. SameFlow(noted)
    BY <2>1, SameAsBefore
  <2> HIDE DEF noted, ack
  <2>3. SameFlow(a)
    BY <2>2, SameAsBefore
  <2> QED BY <1>2, <2>1, <2>2, <2>3
<1>5. SameSess(sess')
  <2>1. p.pid \in PeerIds
    BY DEF PeerIds
  <2>2. sess.qos2_publish_handled \cup {p.pid} \in SUBSET PeerIds
    BY <2>1 DEF ClientInv, SessType
  <2> QED BY <1>2, <2>2, SameAsBefore
<1>6. Tame(self, refreshed)
  <2> HIDE DEF responds, ack
  <2>1. Tame(self, send_response(self, ack))
    BY <1>1, CallTame
  <2> QED BY <1>1, <2>1, CallTame DEF Tame
<1> HIDE DEF refreshed, full
<1>7. refreshed.link = link /\ NotifyReceived(refreshed, full).link = link
  BY <1>1, <1>6, ReceivedNotified DEF Tame
<1>8. \A e : handle_error(self, e).link \in {link, Down(link)}
  BY <1>1, ErrorQuiet DEF Yields
<1> QED BY <1>2, <1>3, <1>4, <1>5, <1>7, <1>8

\* A received PUBREL frees the server's id.
LEMMA PubrelYields ==
  ASSUME ClientInv, NEW p, process_recv_pubrel(p)
  PROVE  /\ \E o : Out(o) /\ o.link = link
         /\ UNCHANGED <<ids, lim, opts>> /\ SameFlow(flow') /\ SameSess(sess')
<1> DEFINE answers == opts.auto_pub_response /\ link.status = "Connected"
           found == ~V5 \/ p.pid \in sess.qos2_publish_handled
           pubcomp == [Ack("pubcomp", p.pid) EXCEPT !.ok = found]
           o == refresh_pingreq_recv(IF answers THEN send_response(self, pubcomp) ELSE self)
<1>1. Quiet(self) /\ self.link = link
  BY SelfQuiet
<1>2. /\ sess' = [sess EXCEPT !.qos2_publish_handled = @ \ {p.pid}]
      /\ flow' \in {flow, flow_after_ack(self, pubcomp, flow)}
      /\ UNCHANGED <<ids, lim, opts>> /\ Out(NotifyReceived(o, p))
  BY DEF process_recv_pubrel
<1>3. Tame(self, o)
  <2> HIDE DEF answers, pubcomp
  <2>1. Tame(self, send_response(self, pubcomp))
    BY <1>1, CallTame
  <2> QED BY <1>1, <2>1, CallTame DEF Tame
<1> HIDE DEF o, pubcomp
<1>4. NotifyReceived(o, p).link = link
  BY <1>1, <1>3, ReceivedNotified DEF Tame
<1>5. SameFlow(flow')
  <2>1. SameFlow(flow)
    BY DEF SameFlow, ClientInv, FlowKept
  <2> QED BY <1>2, <2>1, SameAsBefore
<1>6. SameSess(sess')
  <2>1. sess.qos2_publish_handled \ {p.pid} \in SUBSET PeerIds
    BY DEF ClientInv, SessType
  <2> QED BY <1>2, <2>1, SameAsBefore
<1> QED BY <1>2, <1>4, <1>5, <1>6

\* PINGRESP, DISCONNECT and AUTH are notified.
LEMMA NoticeYields ==
  ASSUME ClientInv, NEW p,
         process_recv_pingresp(p) \/ process_recv_disconnect(p) \/ process_recv_notified(p)
  PROVE  /\ \E o : Out(o) /\ o.link = link
         /\ UNCHANGED <<ids, lim, opts>> /\ SameFlow(flow') /\ SameSess(sess')
<1>1. Quiet(self) /\ self.link = link
  BY SelfQuiet
<1>2. PICK o : /\ o \in {cancel(self, "PingrespRecv"), cancel_timers(self),
                         refresh_pingreq_recv(self)}
               /\ Out(NotifyReceived(o, p)) /\ UNCHANGED core
  BY DEF process_recv_pingresp, process_recv_disconnect, process_recv_notified
<1>3. Tame(self, o)
  BY <1>1, <1>2, TimerTame, CallTame
<1>4. NotifyReceived(o, p).link = link
  BY <1>1, <1>3, ReceivedNotified DEF Tame
<1> QED BY <1>2, <1>4, SameAsBefore DEF core

\* These packets concern the server's ids, not the client's.
LEMMA DeliveryKeeps ==
  ASSUME CarefulClient, ClientInv, NEW p \in PeerPackets, PeerSend(p),
         \/ p.type = "publish" /\ process_recv_publish(p)
         \/ p.type = "pubrel" /\ process_recv_pubrel(p)
         \/ p.type = "pingresp" /\ process_recv_pingresp(p)
         \/ p.type = "disconnect" /\ process_recv_disconnect(p)
         \/ p.type = "auth" /\ process_recv_notified(p)
  PROVE  ClientInv'
<1>1. /\ \E o : Out(o) /\ o.link \in {link, Down(link)}
      /\ UNCHANGED <<ids, lim, opts>> /\ SameFlow(flow') /\ SameSess(sess')
  BY PublishYields, PubrelYields, NoticeYields
<1>2. PICK o : Out(o) /\ o.link \in {link, Down(link)}
  BY <1>1
<1>3. link'.status \in {link.status, "Disconnected"}
  BY <1>2 DEF Out, Down, ClientInv, LinkType
<1>4. net' = net /\ held' = held /\ rel' = rel
  BY <1>3, PeerNet, PeerLeaves
<1> QED BY <1>1, <1>2, <1>4, AckFrames, FrameKeeps

\* Without a maximum packet size send_stored drops nothing.
LEMMA NothingOversize ==
  ASSUME sess.store \in Seq(Stored)
  PROVE  /\ kept_store(NoLimit) = sess.store /\ dropped_ids(NoLimit) = {}
         /\ release_overflows(NoLimit) = FALSE
<1>1. ASSUME NEW k \in DOMAIN sess.store PROVE ~(sess.store[k].size > NoLimit)
  <2>1. sess.store[k] \in Stored
    OBVIOUS
  <2>2. sess.store[k].size \in 0..NoLimit
    BY <2>1, ResponseTypes
  <2> QED BY <2>2 DEF NoLimit
<1>2. oversize(NoLimit) = {}
  BY <1>1 DEF oversize
<1> QED BY <1>2 DEF kept_store, dropped_ids, release_overflows

\* CONNACK: the session goes on and the store is sent again, or both sides start anew.
LEMMA ConnackKeeps ==
  ASSUME CarefulClient, ClientInv, NEW p \in PeerPackets, PeerSend(p),
         p.type = "connack", process_recv_connack(p)
  PROVE  ClientInv'
<1> DEFINE connected == [Status(self, "Connected") EXCEPT
              !.ping.pingreq_server_keep_alive_ms = Prop(p.server_keep_alive, @)]
           timed == IF p.server_keep_alive = None
                         \/ opts.pingreq_user_send_interval_ms # None THEN connected
                    ELSE IF p.server_keep_alive = 0 THEN cancel(connected, "PingreqSend")
                    ELSE reset(connected, "PingreqSend", p.server_keep_alive)
<1>1. /\ Owned(ids, held, rel) /\ StoreOK(sess.store, ids) /\ sess \in SessType
      /\ ids \in IdsType /\ sess.store \in Seq(Stored)
      /\ Quiet(self) /\ self.link = link
  BY SelfQuiet DEF ClientInv, Owned, StoreOK
<1>2. /\ link.status = "Connecting" /\ net = "open" /\ ids.suback = {} /\ ids.unsuback = {}
      /\ flow.send_max = None /\ flow.send_count = 0 /\ lim.send = NoLimit
  BY DEF PeerSend, CarefulClient, ClientInv, FlowKept, LimitKept
<1>3. CASE ~p.ok /\ Out(NotifyReceived(self, p)) /\ UNCHANGED core
  <2>1. NotifyReceived(self, p).link = link
    BY <1>1, ReceivedNotified
  <2> QED BY <1>3, <2>1, PeerFrames
<1>4. CASE p.ok
  <2> DEFINE max == Prop(p.max_size, lim.send)
  <2>1. /\ Prop(p.recv_max, flow.send_max) = p.recv_max
        /\ p.session_present => max = NoLimit /\ p.recv_max = None
    BY <1>2 DEF Prop, CarefulClient
  <2>2. /\ flow' = [flow EXCEPT !.send_max = Prop(p.recv_max, @)]
        /\ lim'  = [lim EXCEPT !.send = max] /\ opts' = opts
        /\ \/ /\ p.session_present
              /\ ids'  = [ids EXCEPT !.man = @ \ dropped_ids(NoLimit)]
              /\ sess' = [sess EXCEPT !.store = kept_store(NoLimit)]
              /\ OutUnless(release_overflows(NoLimit),
                           NotifyReceived(send_stored(timed, NoLimit), p))
           \/ /\ ~p.session_present
              /\ ids'  = clear_ids(ids)
              /\ sess' = [sess EXCEPT !.store = <<>>]
              /\ Out(NotifyReceived(timed, p))
    BY <1>4, <2>1 DEF process_recv_connack
  <2> HIDE DEF max
  <2>3. /\ {"send_max", "send_count"} \subseteq DOMAIN flow' /\ flow'.send_max = p.recv_max
        /\ flow'.send_count = 0 /\ "send" \in DOMAIN lim'
        /\ "offline_publish" \in DOMAIN opts' /\ opts'.offline_publish \in BOOLEAN
    BY <1>2, <2>1, <2>2 DEF ClientInv, FlowKept, LimitKept
  <2>4. Quiet(timed) /\ timed.link = [link EXCEPT !.status = "Connected"]
    <3> DEFINE up == Status(self, "Connected")
    <3>1. Quiet(up) /\ up.link = [link EXCEPT !.status = "Connected"]
      BY <1>1, SMTT(30) DEF Status, Quiet, Shaped
    <3> HIDE DEF up
    <3>2. connected = [up EXCEPT !.ping.pingreq_server_keep_alive_ms = Prop(p.server_keep_alive, @)]
      BY DEF up
    <3> HIDE DEF connected
    <3>3. Quiet(connected) /\ connected.link = up.link
      BY <3>1, <3>2 DEF Quiet, Shaped
    <3>4. Tame(connected, timed)
      BY <3>3, TimerTame DEF Tame
    <3> QED BY <3>1, <3>3, <3>4 DEF Tame
  <2> HIDE DEF timed
  <2>5. ASSUME link' = [link EXCEPT !.status = "Connected"], panicked' = FALSE
        PROVE  link' \in LinkType /\ link'.status = "Connected" /\ net' = "open"
    BY <1>2, <2>5, PeerNet DEF LinkType, Statuses, ClientInv
  <2>6. CASE p.session_present
    <3> DEFINE f == send_stored(timed, NoLimit)
    <3>1. /\ ids'  = [ids EXCEPT !.man = @ \ {}] /\ sess' = [sess EXCEPT !.store = sess.store]
          /\ OutUnless(FALSE, NotifyReceived(f, p))
      BY <1>1, <2>2, <2>6, NothingOversize
    <3>2. Shaped(f) /\ f.link = timed.link
      <4> DEFINE z == timed.ev \o [i \in DOMAIN sess.store |->
                        IF i \in oversize(NoLimit) THEN ReleasedEvent({sess.store[i].pid})
                        ELSE SendEvent(sess.store[i], 0)]
      <4>1. f = [timed EXCEPT !.ev = z]
        BY DEF send_stored
      <4> HIDE DEF f, z
      <4> QED BY <2>4, <4>1 DEF Quiet, Shaped
    <3> HIDE DEF f
    <3>3. NotifyReceived(f, p).link = f.link
      BY <3>2 DEF NotifyReceived, Push, Shaped
    <3>4. link' = [link EXCEPT !.status = "Connected"] /\ panicked' = FALSE
      BY <2>4, <3>1, <3>2, <3>3 DEF OutUnless
    <3>5. /\ ids' \in IdsType /\ ids'.man = ids.man /\ ids'.suback = ids.suback
          /\ ids'.unsuback = ids.unsuback /\ ids'.puback = ids.puback
          /\ ids'.pubrec = ids.pubrec /\ ids'.pubcomp = ids.pubcomp
      BY <1>1, <3>1 DEF IdsType
    <3>6. held' = held /\ rel' = rel
      BY <2>6, PeerLeaves
    <3>7. Owned(ids, held, rel)'
      BY <1>1, <3>5, <3>6 DEF Owned
    <3>8. sess' \in SessType /\ sess'.store = sess.store /\ sess'.need_store = sess.need_store
      BY <1>1, <3>1 DEF SessType
    <3>9. StoreOK(sess.store, ids')
      BY <1>1, <3>5, StoreMono
    <3>10. StoreOK(sess.store, ids)'
      BY <3>8, <3>9
    <3>11. ~sess'.need_store => sess'.store = <<>>
      BY <1>2, <3>8 DEF ClientInv
    <3>12. FlowKept' /\ LimitKept'
      BY <2>1, <2>3, <2>5, <2>6, <3>4 DEF FlowKept, LimitKept
    <3> QED BY <2>3, <2>5, <3>4, <3>7, <3>8, <3>10, <3>11, <3>12 DEF ClientInv
  <2>7. CASE ~p.session_present
    <3>1. ids' = clear_ids(ids) /\ sess' = [sess EXCEPT !.store = <<>>] /\ Out(NotifyReceived(timed, p))
      BY <2>2, <2>7
    <3>2. /\ link' = [link EXCEPT !.status = "Connected"] /\ panicked' = FALSE
          /\ Notified(events', "connack")
      BY <2>4, <3>1, ReceivedNotified DEF Out
    <3>3. held' = {} /\ rel' = {}
      BY <1>4, <2>7, <3>2 DEF PeerSend, CarefulClient, CarefulApplication
    <3>4. /\ ids' \in IdsType /\ ids'.man = {} /\ ids'.suback = {} /\ ids'.unsuback = {}
          /\ ids'.puback = {} /\ ids'.pubrec = {} /\ ids'.pubcomp = {}
      BY <1>1, <1>2, <3>1 DEF clear_ids, IdsType
    <3>5. Owned(ids, held, rel)'
      BY <3>3, <3>4 DEF Owned
    <3>6. sess' \in SessType /\ sess'.store = <<>>
      <4>1. <<>> \in Seq(Stored)
        BY SMT
      <4> QED BY <1>1, <3>1, <4>1 DEF SessType
    <3>7. StoreOK(sess.store, ids)'
      BY <3>6 DEF StoreOK, Distinct, AwaitedIn, SessType
    <3>8. FlowKept' /\ LimitKept'
      <4>1. InFlight' = {} /\ Cardinality({}) = 0
        BY <3>3, <3>4, FS_EmptySet DEF InFlight
      <4>2. /\ p.recv_max # None => InitVersion = "V5" /\ p.recv_max \in 0..(CountMod - 1)
            /\ p.recv_max # None => 0 \in 0..p.recv_max
        BY ConnectionAssumption DEF CarefulClient, CarefulApplication
      <4> QED BY <2>3, <2>5, <3>2, <4>1, <4>2 DEF FlowKept, LimitKept
    <3> QED BY <2>3, <2>5, <3>2, <3>4, <3>5, <3>6, <3>7, <3>8 DEF ClientInv
  <2> QED BY <2>6, <2>7
<1> QED BY <1>3, <1>4 DEF process_recv_connack

\* Every packet of the server keeps the invariant.
LEMMA PeerSendKeeps ==
  ASSUME CarefulClient, ClientInv, NEW p \in PeerPackets, PeerSend(p) PROVE ClientInv'
<1>1. recv(p)
  BY DEF PeerSend
<1>2. ASSUME accepts(p)
      PROVE  p.type \notin {"connect", "subscribe", "unsubscribe", "pingreq"}
  BY <1>2 DEF accepts, can_receive, CarefulClient, CarefulApplication
<1>3. CASE recv_refused(p)
  BY <1>3, RefusedPacketKeeps
<1>4. CASE p.type = "connack" /\ process_recv_connack(p)
  BY <1>4, ConnackKeeps
<1>5. CASE p.type = "pubrec" /\ process_recv_pubrec(p)
  BY <1>5, PubrecKeeps
<1>6. CASE \/ p.type = "publish" /\ process_recv_publish(p)
           \/ p.type = "pubrel" /\ process_recv_pubrel(p)
           \/ p.type = "pingresp" /\ process_recv_pingresp(p)
           \/ p.type = "disconnect" /\ process_recv_disconnect(p)
           \/ p.type = "auth" /\ process_recv_notified(p)
  BY <1>6, DeliveryKeeps
<1>7. CASE \/ p.type = "puback" /\ process_recv_puback(p)
           \/ p.type = "pubcomp" /\ process_recv_pubcomp(p)
           \/ p.type = "suback" /\ process_recv_suback(p)
           \/ p.type = "unsuback" /\ process_recv_unsuback(p)
  BY <1>7, ResponseKeeps
<1>8. CASE \/ p.type = "connect" /\ process_recv_connect(p)
           \/ p.type \in {"subscribe", "unsubscribe"} /\ process_recv_notified(p)
           \/ p.type = "pingreq" /\ process_recv_pingreq(p)
  <2>1. accepts(p)
    BY <1>8 DEF process_recv_connect, process_recv_notified, process_recv_pingreq
  <2> QED BY <1>2, <1>8, <2>1
<1> QED BY <1>1, <1>3, <1>4, <1>5, <1>6, <1>7, <1>8 DEF recv

\* Every step keeps the invariant.
LEMMA NextKeeps == ASSUME CarefulClient, ClientInv, [Next]_vars PROVE ClientInv'
<1>1. CASE App
  <2>1. CASE \E p \in AppPackets : AppConnect(p) \/ AppSend(p)
    BY <2>1, AppConnectKeeps, AppSendKeeps
  <2>2. CASE \E p \in Publishes, pid \in PacketIds \cup {0} : AppPublish(p, pid)
    BY <2>2, AppPublishKeeps
  <2>3. CASE \E type \in Requests, pid \in PacketIds : AppRequest(type, pid)
    BY <2>3, AppRequestKeeps
  <2>4. CASE \E pid \in PacketIds : AppPubrel(pid) \/ Release(pid) \/ Register(pid)
    BY <2>4, AppPubrelKeeps, ReleaseKeeps, RegisterKeeps
  <2>5. CASE Acquire \/ AcquireFails
    BY <2>5, AcquireKeeps, AcquireFailsKeeps
  <2>6. CASE SendError
    BY <2>6 DEF SendError, CarefulClient, CarefulApplication
  <2>7. CASE \E s \in Settings : Sets(s[1], s[2])
    BY <2>7, SetsKeeps
  <2>8. CASE \E ms \in Intervals : SetsInterval(ms)
    BY <2>8, SetsIntervalKeeps
  <2>9. CASE \E kind \in TimerKind : TimerFires(kind)
    BY <2>9, TimerKeeps
  <2> QED BY <1>1, <2>1, <2>2, <2>3, <2>4, <2>5, <2>6, <2>7, <2>8, <2>9 DEF App
<1>2. CASE Network
  <2>1. CASE Open \/ CloseUnused
    BY <2>1, OpenKeeps
  <2>2. CASE Close
    BY <2>2, CloseKeeps
  <2>3. CASE \E p \in PeerPackets : PeerSend(p) \/ PeerSendsMalformed(p)
    BY <2>3, PeerSendKeeps, MalformedKeeps
  <2> QED BY <1>2, <2>1, <2>2, <2>3 DEF Network
<1>3. CASE Restart
  BY <1>3, RestartKeeps
<1>4. CASE UNCHANGED vars
  <2>1. UNCHANGED <<link, ids, sess, flow, lim, opts, panicked, net, held, rel>>
    BY <1>4 DEF vars, connVars, envVars
  <2>2. SameFlow(flow') /\ SameSess(sess')
    BY <2>1, SameAsBefore
  <2> QED BY <2>1, <2>2, FrameKeeps DEF FrameStep, ClientInv
<1> QED BY <1>1, <1>2, <1>3, <1>4 DEF Next

\* The invariant implies the properties.
LEMMA ClientSafe ==
  ASSUME CarefulClient, ClientInv
  PROVE  IdOwnership /\ OneOwner /\ StoreAwaited /\ NoPanic /\ FlowAccounting
<1>1. Owned(ids, held, rel) /\ StoreOK(sess.store, ids) /\ panicked = FALSE
  BY DEF ClientInv
<1>2. IdOwnership
  BY <1>1 DEF IdOwnership, Awaited, Owned
<1>3. OneOwner
  <2> DEFINE owners == <<held, rel, ids.suback, ids.unsuback, ids.puback, ids.pubrec, ids.pubcomp>>
  <2>1. ASSUME NEW i \in 1..7, NEW j \in 1..7, i # j PROVE owners[i] \cap owners[j] = {}
    BY <1>1, <2>1 DEF Owned
  <2> QED BY <2>1 DEF OneOwner
<1>4. StoreAwaited
  BY <1>1 DEF StoreAwaited, StoreOK, Distinct, AwaitedIn
<1>5. FlowAccounting
  <2> SUFFICES ASSUME flow.send_max # None, link.status = "Connected"
               PROVE  /\ flow.send_count = Cardinality(InFlight)
                      /\ flow.send_count <= flow.send_max
    BY DEF FlowAccounting
  <2>1. FlowKept /\ net = "open"
    BY DEF ClientInv
  <2> QED BY <2>1, ConnectionAssumption DEF FlowKept
<1> QED BY <1>1, <1>2, <1>3, <1>4, <1>5 DEF NoPanic

-----------------------------------------------------------------------------
(***************************************************************************)
(* The theorems, for every set of packet ids, packets, settings and        *)
(* intervals, of a v3.1.1 or v5.0 client used as CarefulClient says: over  *)
(* reconnects, clean and resumed sessions, restarts, errors, and any       *)
(* packets that the server sends in any order and any number of times, but *)
(* one CONNACK per CONNECT (OneConnack, a part of CarefulClient): without  *)
(* it the code does not keep the invariant.                                *)
(***************************************************************************)
\* The invariant holds from new() on, with one CONNACK per CONNECT.
THEOREM ClientInvHolds ==
  ASSUME CarefulClient PROVE Spec => []ClientInv
<1>1. Init => ClientInv
  BY InitClient
<1>2. ClientInv /\ [Next]_vars => ClientInv'
  BY NextKeeps
<1> QED BY <1>1, <1>2, PTL DEF Spec

\* No path of send, recv, notify_closed or a restart leaks a packet id of the client
\* or frees one that is still used, as long as the server answers a CONNECT with one
\* CONNACK.
THEOREM ClientIdOwnership ==
  ASSUME CarefulClient PROVE Spec => []IdOwnership
<1>1. ClientInv => IdOwnership
  BY ClientSafe
<1> QED BY <1>1, ClientInvHolds, PTL

\* An id awaits one response or is the application's, so one response ends one
\* exchange.
THEOREM ClientOneOwner ==
  ASSUME CarefulClient PROVE Spec => []OneOwner
<1>1. ClientInv => OneOwner
  BY ClientSafe
<1> QED BY <1>1, ClientInvHolds, PTL

\* What send_stored sends again after a reconnect is answered, and the answer erases it.
THEOREM ClientStoreAwaited ==
  ASSUME CarefulClient PROVE Spec => []StoreAwaited
<1>1. ClientInv => StoreAwaited
  BY ClientSafe
<1> QED BY <1>1, ClientInvHolds, PTL

\* No call panics: store.add never meets its id, and publish_send_count neither
\* overflows nor goes below zero.
THEOREM ClientNoPanic ==
  ASSUME CarefulClient PROVE Spec => []NoPanic
<1>1. ClientInv => NoPanic
  BY ClientSafe
<1> QED BY <1>1, ClientInvHolds, PTL

\* While connected, publish_send_count is the number of PUBLISHes in flight and
\* within the server's receive maximum: every way an exchange ends is counted once.
THEOREM ClientFlowAccounting ==
  ASSUME CarefulClient PROVE Spec => []FlowAccounting
<1>1. ClientInv => FlowAccounting
  BY ClientSafe
<1> QED BY <1>1, ClientInvHolds, PTL
=============================================================================
