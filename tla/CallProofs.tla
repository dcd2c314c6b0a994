----------------------------- MODULE CallProofs -----------------------------
(***************************************************************************)
(* What the helpers that a call threads `self` through may do, for every   *)
(* role and version: each pushes events, arms and disarms timers together  *)
(* with the events that say so, and may end the connection; none of them   *)
(* notifies a packet.  The proofs about whole calls rest on these lemmas.  *)
(***************************************************************************)
EXTENDS EndpointInvariant, SequenceTheorems, FiniteSetTheorems, TLAPS

IsList(ev) == \E S : ev \in Seq(S)

\* A record that a call may thread through its helpers.
Call(o) == /\ o = [link |-> o.link, ping |-> o.ping, ev |-> o.ev]
           /\ o.link \in LinkRecord
           /\ PingTimes \cup {"armed"} \subseteq DOMAIN o.ping
           /\ o.ping.armed \subseteq TimerKind
           /\ IsList(o.ev)

Down(l)      == [l EXCEPT !.status = "Disconnected"]
Quiet(o)     == \A i \in DOMAIN o.ev : o.ev[i].event # "NotifyPacketReceived"
\* The application that ran the timers T obeyed the events of o.
Heeded(T, o) == Obeyed(T, o.ev) = o.ping.armed

\* f comes from o by helpers; and if they do not ask for the close, the timer that
\* watches the peer still runs.
Follows(o, f) ==
  /\ Call(f)
  /\ f.link \in {o.link, Down(o.link)}
  /\ \A x \in PingTimes : f.ping[x] = o.ping[x]
  /\ Quiet(o) => Quiet(f)
  /\ \A T : Heeded(T, o) => Heeded(T, f)
  /\ Closes(o.ev) => Closes(f.ev)
Leads(o, f) ==
  /\ Follows(o, f)
  /\ "PingreqRecv" \in o.ping.armed => "PingreqRecv" \in f.ping.armed \/ Closes(f.ev)

-----------------------------------------------------------------------------
LEMMA ListFacts ==
  ASSUME NEW ev, IsList(ev), NEW e
  PROVE  /\ IsList(Append(ev, e)) /\ Len(ev) \in Nat /\ DOMAIN ev = 1..Len(ev)
         /\ DOMAIN Append(ev, e) = 1..(Len(ev) + 1)
         /\ \A k \in 1..Len(ev) : Append(ev, e)[k] = ev[k]
         /\ Append(ev, e)[Len(ev) + 1] = e
<1>1. PICK S : ev \in Seq(S)
  BY DEF IsList
<1>2. Append(ev, e) \in Seq(S \cup {e})
  BY <1>1
<1>3. Len(ev) \in Nat /\ DOMAIN ev = 1..Len(ev)
  BY <1>1
<1>4. /\ DOMAIN Append(ev, e) = 1..(Len(ev) + 1)
      /\ \A k \in 1..Len(ev) : Append(ev, e)[k] = ev[k]
      /\ Append(ev, e)[Len(ev) + 1] = e
  BY <1>1
<1> QED BY <1>2, <1>3, <1>4 DEF IsList

\* RequestClose, or DISCONNECT, is still among the events after another one.
LEMMA ClosesAppend ==
  ASSUME NEW ev, IsList(ev), NEW e
  PROVE  Closes(ev) => Closes(Append(ev, e))
<1> DEFINE w == Append(ev, e)
<1>1. \A k \in DOMAIN ev : k \in DOMAIN w /\ w[k] = ev[k]
  BY ListFacts
<1> HIDE DEF w
<1>2. Closes(ev) => Closes(w)
  BY <1>1 DEF Closes, Notified
<1> QED BY <1>2 DEF w

\* What obeying one more event changes.
LEMMA ObeyedAppend ==
  ASSUME NEW ev, IsList(ev), NEW e, NEW T
  PROVE  /\ e.event \notin {"RequestTimerReset", "RequestTimerCancel"} =>
              Obeyed(T, Append(ev, e)) = Obeyed(T, ev)
         /\ e.event = "RequestTimerReset" /\ e.kind \in TimerKind =>
              Obeyed(T, Append(ev, e)) = Obeyed(T, ev) \cup {e.kind}
         /\ e.event = "RequestTimerCancel" /\ e.kind \in TimerKind =>
              Obeyed(T, Append(ev, e)) = Obeyed(T, ev) \ {e.kind}
<1> DEFINE w == Append(ev, e)
           n == Len(ev)
           timed == e.event \in {"RequestTimerReset", "RequestTimerCancel"}
<1>1. /\ n \in Nat /\ DOMAIN ev = 1..n /\ DOMAIN w = 1..(n + 1)
      /\ \A k \in 1..n : w[k] = ev[k]
      /\ w[n + 1] = e
  BY ListFacts
<1> HIDE DEF w, n
<1>2. ASSUME NEW kind, ~(timed /\ e.kind = kind)
      PROVE  About(kind, w) = About(kind, ev)
  BY <1>1, <1>2 DEF About
<1>3. ASSUME NEW kind, timed /\ e.kind = kind
      PROVE  n + 1 \in About(kind, w) /\ About(kind, w) \subseteq 1..(n + 1)
  BY <1>1, <1>3 DEF About
<1>4. ASSUME NEW kind \in TimerKind, ~(timed /\ e.kind = kind)
      PROVE  kind \in Obeyed(T, w) <=> kind \in Obeyed(T, ev)
  <2>1. About(kind, ev) \subseteq 1..n
    BY <1>1 DEF About
  <2> QED BY <1>1, <1>2, <1>4, <2>1 DEF Obeyed
<1>5. ASSUME NEW kind \in TimerKind, timed /\ e.kind = kind
      PROVE  kind \in Obeyed(T, w) <=> e.event = "RequestTimerReset"
  <2>1. About(kind, w) # {}
    BY <1>3, <1>5
  <2>2. \A i \in About(kind, w) : (\A j \in About(kind, w) : j <= i) <=> i = n + 1
    BY <1>1, <1>3, <1>5
  <2>3. (\E i \in About(kind, w) : /\ \A j \in About(kind, w) : j <= i
                                   /\ w[i].event = "RequestTimerReset")
          <=> e.event = "RequestTimerReset"
    BY <2>2, <1>3, <1>5, <1>1
  <2> QED BY <2>1, <2>3 DEF Obeyed
<1>6. Obeyed(T, w) \subseteq TimerKind /\ Obeyed(T, ev) \subseteq TimerKind
  BY DEF Obeyed
<1>7. ~timed => Obeyed(T, w) = Obeyed(T, ev)
  BY <1>4, <1>6
<1>8. e.event = "RequestTimerReset" /\ e.kind \in TimerKind =>
        Obeyed(T, w) = Obeyed(T, ev) \cup {e.kind}
  BY <1>4, <1>5, <1>6
<1>9. e.event = "RequestTimerCancel" /\ e.kind \in TimerKind =>
        Obeyed(T, w) = Obeyed(T, ev) \ {e.kind}
  BY <1>4, <1>5, <1>6
<1> QED BY <1>7, <1>8, <1>9 DEF w

\* Before any event the timers are as they were.
LEMMA ObeyedNothing ==
  ASSUME NEW T, T \subseteq TimerKind
  PROVE  Obeyed(T, <<>>) = T
<1>1. \A kind : About(kind, <<>>) = {}
  BY DEF About
<1> QED BY <1>1 DEF Obeyed

\* A packet is not notified by the events of a quiet list and one other.
LEMMA QuietAppend ==
  ASSUME NEW o, Call(o), Quiet(o), NEW e, e.event # "NotifyPacketReceived"
  PROVE  \A i \in DOMAIN Append(o.ev, e) : Append(o.ev, e)[i].event # "NotifyPacketReceived"
<1> DEFINE n == Len(o.ev)
           w == Append(o.ev, e)
<1>1. /\ n \in Nat /\ DOMAIN o.ev = 1..n /\ DOMAIN w = 1..(n + 1)
      /\ \A k \in 1..n : w[k] = o.ev[k]
      /\ w[n + 1] = e
  BY ListFacts DEF Call
<1> HIDE DEF n, w
<1>2. \A i \in DOMAIN w : w[i].event # "NotifyPacketReceived"
  BY <1>1 DEF Quiet
<1> QED BY <1>2 DEF w

LEMMA LeadsSelf ==
  ASSUME NEW o, Call(o) PROVE Leads(o, o)
BY DEF Leads, Follows

LEMMA LeadsOn ==
  ASSUME NEW o, NEW f, NEW g, Call(o), Leads(o, f), Leads(f, g)
  PROVE  Leads(o, g)
<1>1. Down(Down(o.link)) = Down(o.link)
  BY DEF Down, Call, LinkRecord
<1>2. g.link \in {o.link, Down(o.link)}
  BY <1>1 DEF Leads, Follows
<1> QED BY <1>2 DEF Leads, Follows

LEMMA FollowsOn ==
  ASSUME NEW o, NEW f, NEW g, Call(o), Follows(o, f), Follows(f, g)
  PROVE  Follows(o, g)
<1>1. Down(Down(o.link)) = Down(o.link)
  BY DEF Down, Call, LinkRecord
<1>2. g.link \in {o.link, Down(o.link)}
  BY <1>1 DEF Follows
<1> QED BY <1>2 DEF Follows

-----------------------------------------------------------------------------
\* Pushing an event that is about neither a timer nor a packet received.
LEMMA PushLeads ==
  ASSUME NEW o, Call(o), NEW e,
         e.event \notin {"NotifyPacketReceived", "RequestTimerReset", "RequestTimerCancel"}
  PROVE  Leads(o, Push(o, e)) /\ Push(o, e).link = o.link /\ Push(o, e).ping = o.ping
<1> DEFINE f == Push(o, e)
<1>1. f = [link |-> o.link, ping |-> o.ping, ev |-> Append(o.ev, e)]
  <2> DEFINE l == o.link
             p == o.ping
             v == o.ev
             w == Append(v, e)
  <2>1. o = [link |-> l, ping |-> p, ev |-> v]
    BY DEF Call
  <2>2. f = [o EXCEPT !.ev = w]
    BY DEF Push
  <2> HIDE DEF f, l, p, v, w
  <2>3. f = [link |-> l, ping |-> p, ev |-> w]
    BY <2>1, <2>2
  <2> QED BY <2>3 DEF l, p, v, w
<1> HIDE DEF f
<1>2. f.link = o.link /\ f.ping = o.ping /\ f.ev = Append(o.ev, e)
  BY <1>1
<1>3. IsList(f.ev)
  BY <1>2, ListFacts DEF Call
<1>4. Call(f)
  BY <1>1, <1>2, <1>3 DEF Call
<1>5. Quiet(o) => Quiet(f)
  BY <1>2, QuietAppend DEF Quiet
<1>6. ASSUME NEW T, Heeded(T, o) PROVE Heeded(T, f)
  <2>1. Obeyed(T, Append(o.ev, e)) = Obeyed(T, o.ev)
    BY ObeyedAppend DEF Call
  <2> QED BY <1>2, <1>6, <2>1 DEF Heeded
<1>7. Closes(o.ev) => Closes(f.ev)
  BY <1>2, ClosesAppend DEF Call
<1>8. Leads(o, f)
  BY <1>2, <1>4, <1>5, <1>6, <1>7 DEF Leads, Follows
<1> QED BY <1>2, <1>8 DEF f

\* RequestTimerReset.
LEMMA ResetLeads ==
  ASSUME NEW o, Call(o), NEW kind \in TimerKind, NEW ms
  PROVE  /\ Leads(o, reset(o, kind, ms)) /\ reset(o, kind, ms).link = o.link
         /\ reset(o, kind, ms).ping.armed = o.ping.armed \cup {kind}
<1> DEFINE f == reset(o, kind, ms)
           e == [event |-> "RequestTimerReset", kind |-> kind, duration_ms |-> ms]
           g == [o.ping EXCEPT !.armed = @ \cup {kind}]
<1>0. [o EXCEPT !.ping.armed = @ \cup {kind}] = [link |-> o.link, ping |-> g, ev |-> o.ev]
  BY DEF Call
<1> DEFINE armed == [o EXCEPT !.ping.armed = @ \cup {kind}]
<1>a. f = Push(armed, e)
  BY DEF reset
<1>1. f = [link |-> o.link, ping |-> g, ev |-> Append(o.ev, e)]
  <2> HIDE DEF armed, g, e, f
  <2>1. armed = [link |-> o.link, ping |-> g, ev |-> o.ev]
    BY <1>0 DEF armed
  <2> QED BY <2>1, <1>a DEF Push
<1>2. /\ DOMAIN g = DOMAIN o.ping /\ g.armed = o.ping.armed \cup {kind}
      /\ \A x \in PingTimes : g[x] = o.ping[x]
  BY DEF Call, PingTimes
<1>3. e.event = "RequestTimerReset" /\ e.kind = kind
  OBVIOUS
<1> HIDE DEF f, g, e
<1>4. f.link = o.link /\ f.ping = g /\ f.ev = Append(o.ev, e)
  BY <1>1
<1>5. IsList(f.ev)
  BY <1>4, ListFacts DEF Call
<1>6. Call(f)
  BY <1>1, <1>2, <1>4, <1>5 DEF Call
<1>7. Quiet(o) => Quiet(f)
  BY <1>3, <1>4, QuietAppend DEF Quiet
<1>8. ASSUME NEW T, Heeded(T, o) PROVE Heeded(T, f)
  <2>1. Obeyed(T, Append(o.ev, e)) = Obeyed(T, o.ev) \cup {kind}
    BY <1>3, ObeyedAppend DEF Call
  <2> QED BY <1>2, <1>4, <1>8, <2>1 DEF Heeded
<1>9. Closes(o.ev) => Closes(f.ev)
  BY <1>4, ClosesAppend DEF Call
<1>10. Leads(o, f)
  BY <1>2, <1>4, <1>6, <1>7, <1>8, <1>9 DEF Leads, Follows
<1> QED BY <1>2, <1>4, <1>10 DEF f

\* RequestTimerCancel.
LEMMA CancelFollows ==
  ASSUME NEW o, Call(o), NEW kind \in TimerKind
  PROVE  /\ Follows(o, cancel(o, kind)) /\ cancel(o, kind).link = o.link
         /\ cancel(o, kind).ping.armed = o.ping.armed \ {kind}
         /\ kind # "PingreqRecv" => Leads(o, cancel(o, kind))
<1>1. CASE kind \notin o.ping.armed
  <2>1. cancel(o, kind) = o
    BY <1>1 DEF cancel
  <2> QED BY <1>1, <2>1, LeadsSelf DEF Leads
<1>2. CASE kind \in o.ping.armed
  <2> DEFINE f == cancel(o, kind)
             e == [event |-> "RequestTimerCancel", kind |-> kind]
             g == [o.ping EXCEPT !.armed = @ \ {kind}]
  <2>1. f = [link |-> o.link, ping |-> g, ev |-> Append(o.ev, e)]
    BY <1>2 DEF cancel, Push, Call
  <2>2. /\ DOMAIN g = DOMAIN o.ping /\ g.armed = o.ping.armed \ {kind}
        /\ \A x \in PingTimes : g[x] = o.ping[x]
    BY DEF Call, PingTimes
  <2>3. e.event = "RequestTimerCancel" /\ e.kind = kind
    OBVIOUS
  <2> HIDE DEF f, g, e
  <2>4. f.link = o.link /\ f.ping = g /\ f.ev = Append(o.ev, e)
    BY <2>1
  <2>5. IsList(f.ev)
    BY <2>4, ListFacts DEF Call
  <2>6. Call(f)
    BY <2>1, <2>2, <2>4, <2>5 DEF Call
  <2>7. Quiet(o) => Quiet(f)
    BY <2>3, <2>4, QuietAppend DEF Quiet
  <2>8. ASSUME NEW T, Heeded(T, o) PROVE Heeded(T, f)
    <3>1. Obeyed(T, Append(o.ev, e)) = Obeyed(T, o.ev) \ {kind}
      BY <2>3, ObeyedAppend DEF Call
    <3> QED BY <2>2, <2>4, <2>8, <3>1 DEF Heeded
  <2>c. Closes(o.ev) => Closes(f.ev)
    BY <2>4, ClosesAppend DEF Call
  <2>9. Follows(o, f)
    BY <2>2, <2>4, <2>6, <2>7, <2>8, <2>c DEF Follows
  <2>10. kind # "PingreqRecv" => Leads(o, f)
    BY <2>2, <2>4, <2>9 DEF Leads
  <2> QED BY <2>2, <2>4, <2>9, <2>10 DEF f
<1> QED BY <1>1, <1>2

-----------------------------------------------------------------------------
LEMMA LeadsCall ==
  ASSUME NEW o, NEW f, Leads(o, f) PROVE Call(f) /\ Follows(o, f)
BY DEF Leads, Follows

\* The helpers that push one event.
LEMMA EventLeads ==
  ASSUME NEW o, Call(o)
  PROVE  /\ \A e : Leads(o, NotifyError(o, e)) /\ NotifyError(o, e).link = o.link
                     /\ NotifyError(o, e).ping = o.ping
         /\ Leads(o, RequestClose(o)) /\ RequestClose(o).link = o.link
         /\ RequestClose(o).ping = o.ping
         /\ \A p, r : Leads(o, RequestSend(o, p, r)) /\ RequestSend(o, p, r).link = o.link
                       /\ RequestSend(o, p, r).ping = o.ping
         /\ \A pids : Leads(o, NotifyReleased(o, pids)) /\ NotifyReleased(o, pids).link = o.link
                       /\ NotifyReleased(o, pids).ping = o.ping
<1>1. \A e : Leads(o, NotifyError(o, e)) /\ NotifyError(o, e).link = o.link
              /\ NotifyError(o, e).ping = o.ping
  BY PushLeads DEF NotifyError
<1>2. Leads(o, RequestClose(o)) /\ RequestClose(o).link = o.link /\ RequestClose(o).ping = o.ping
  BY PushLeads DEF RequestClose
<1>3. \A p, r : Leads(o, RequestSend(o, p, r)) /\ RequestSend(o, p, r).link = o.link
                /\ RequestSend(o, p, r).ping = o.ping
  BY PushLeads DEF RequestSend, SendEvent
<1>4. \A pids : Leads(o, NotifyReleased(o, pids)) /\ NotifyReleased(o, pids).link = o.link
                /\ NotifyReleased(o, pids).ping = o.ping
  BY PushLeads, LeadsSelf DEF NotifyReleased, ReleasedEvent
<1> QED BY <1>1, <1>2, <1>3, <1>4

\* The status a helper gives to the link is one of it.
LEMMA StatusCall ==
  ASSUME NEW o, Call(o), NEW s \in Statuses
  PROVE  /\ Call(Status(o, s)) /\ Status(o, s).link = [o.link EXCEPT !.status = s]
         /\ Status(o, s).ping = o.ping /\ Status(o, s).ev = o.ev
<1> DEFINE f == Status(o, s)
<1>1. f = [link |-> [o.link EXCEPT !.status = s], ping |-> o.ping, ev |-> o.ev]
  BY DEF Status, Call
<1>2. [o.link EXCEPT !.status = s] \in LinkRecord
  BY DEF Call, LinkRecord
<1> HIDE DEF f
<1>3. /\ f.link = [o.link EXCEPT !.status = s] /\ f.ping = o.ping /\ f.ev = o.ev
  BY <1>1
<1>4. Call(f)
  BY <1>1, <1>2, <1>3 DEF Call
<1> QED BY <1>3, <1>4 DEF f

LEMMA CancelTimers ==
  ASSUME NEW o, Call(o)
  PROVE  /\ Follows(o, cancel_timers(o)) /\ cancel_timers(o).link = o.link
         /\ cancel_timers(o).ping.armed = {}
<1> DEFINE a == cancel(o, "PingreqSend")
           b == cancel(a, "PingreqRecv")
           c == cancel(b, "PingrespRecv")
<1>k. {"PingreqSend", "PingreqRecv", "PingrespRecv"} \subseteq TimerKind
  BY DEF TimerKind
<1>1. Follows(o, a) /\ a.link = o.link /\ a.ping.armed = o.ping.armed \ {"PingreqSend"} /\ Call(a)
  BY <1>k, CancelFollows DEF Follows
<1> HIDE DEF a
<1>2. Follows(a, b) /\ b.link = a.link /\ b.ping.armed = a.ping.armed \ {"PingreqRecv"} /\ Call(b)
  BY <1>k, <1>1, CancelFollows DEF Follows
<1> HIDE DEF b
<1>3. Follows(b, c) /\ c.link = b.link /\ c.ping.armed = b.ping.armed \ {"PingrespRecv"}
  BY <1>k, <1>2, CancelFollows DEF Follows
<1>4. Follows(o, b)
  BY <1>1, <1>2, FollowsOn
<1>5. Follows(o, c)
  BY <1>3, <1>4, FollowsOn
<1>6. o.ping.armed \subseteq TimerKind
  BY DEF Call
<1>7. c.ping.armed = {}
  BY <1>1, <1>2, <1>3, <1>6 DEF TimerKind
<1>8. cancel_timers(o) = c
  BY DEF cancel_timers, a, b
<1> HIDE DEF c
<1> QED BY <1>1, <1>2, <1>3, <1>5, <1>7, <1>8

\* The helpers that arm a timer, or push an event and then arm one.
LEMMA CallLeads ==
  ASSUME NEW o, Call(o)
  PROVE  /\ Leads(o, refresh_pingreq_recv(o)) /\ refresh_pingreq_recv(o).link = o.link
         /\ o.ping.pingreq_recv_timeout_ms # 0 =>
              "PingreqRecv" \in refresh_pingreq_recv(o).ping.armed
         /\ Leads(o, send_post_process(o)) /\ send_post_process(o).link = o.link
         /\ \A p : Leads(o, send_response(o, p)) /\ send_response(o, p).link = o.link
         /\ \A p : Leads(o, pingreq(o, p)) /\ pingreq(o, p).link = o.link
<1>k. {"PingreqSend", "PingreqRecv", "PingrespRecv"} \subseteq TimerKind
  BY DEF TimerKind
<1>1. /\ Leads(o, refresh_pingreq_recv(o)) /\ refresh_pingreq_recv(o).link = o.link
      /\ o.ping.pingreq_recv_timeout_ms # 0 =>
              "PingreqRecv" \in refresh_pingreq_recv(o).ping.armed
  BY <1>k, ResetLeads, LeadsSelf DEF refresh_pingreq_recv
<1>2. ASSUME NEW f, Call(f) PROVE Leads(f, send_post_process(f)) /\ send_post_process(f).link = f.link
  BY <1>2, <1>k, ResetLeads, LeadsSelf DEF send_post_process
<1>3. ASSUME NEW p PROVE Leads(o, send_response(o, p)) /\ send_response(o, p).link = o.link
  <2> DEFINE sent == RequestSend(o, p, 0)
  <2>1. Leads(o, sent) /\ Call(sent) /\ sent.link = o.link
    BY EventLeads, LeadsCall
  <2> HIDE DEF sent
  <2>2. Leads(o, send_post_process(sent)) /\ send_post_process(sent).link = o.link
    BY <2>1, <1>2, LeadsOn
  <2> QED BY <2>2, EventLeads DEF send_response, sent
<1>4. ASSUME NEW p PROVE Leads(o, pingreq(o, p)) /\ pingreq(o, p).link = o.link
  <2> DEFINE sent == RequestSend(o, p, 0)
             armed == IF opts.pingresp_recv_timeout_ms # 0
                      THEN reset(sent, "PingrespRecv", opts.pingresp_recv_timeout_ms)
                      ELSE sent
  <2>1. Leads(o, sent) /\ Call(sent) /\ sent.link = o.link
    BY EventLeads, LeadsCall
  <2> HIDE DEF sent
  <2>2. Leads(sent, armed) /\ armed.link = o.link
    BY <2>1, <1>k, ResetLeads, LeadsSelf
  <2> HIDE DEF armed
  <2>3. Leads(o, armed) /\ Call(armed)
    BY <2>1, <2>2, LeadsOn, LeadsCall
  <2>4. Leads(o, send_post_process(armed)) /\ send_post_process(armed).link = o.link
    BY <2>2, <2>3, <1>2, LeadsOn
  <2> QED BY <2>4, <1>3 DEF pingreq, sent, armed
<1> QED BY <1>1, <1>2, <1>3, <1>4

\* RequestClose asks for the close, and pushing another event does not take it back.
LEMMA ClosesNow ==
  ASSUME NEW o, Call(o), NEW e
  PROVE  /\ Closes(RequestClose(o).ev)
         /\ Closes(o.ev) => Closes(Push(o, e).ev)
<1>0. ASSUME NEW g PROVE Push(o, g).ev = Append(o.ev, g)
  BY DEF Push, Call
<1> DEFINE n == Len(o.ev)
<1>1. ASSUME NEW g
      PROVE  /\ n \in Nat /\ DOMAIN o.ev = 1..n /\ DOMAIN Append(o.ev, g) = 1..(n + 1)
             /\ \A k \in 1..n : Append(o.ev, g)[k] = o.ev[k]
             /\ Append(o.ev, g)[n + 1] = g
  BY ListFacts DEF Call
<1> HIDE DEF n
<1>2. Closes(Append(o.ev, [event |-> "RequestClose"]))
  <2> DEFINE g == [event |-> "RequestClose"]
             w == Append(o.ev, g)
  <2>1. n + 1 \in DOMAIN w /\ w[n + 1] = g
    BY <1>1
  <2>2. g.event = "RequestClose"
    OBVIOUS
  <2> HIDE DEF w, g
  <2>3. Closes(w)
    BY <2>1, <2>2 DEF Closes
  <2> QED BY <2>3 DEF w, g
<1>3. Closes(o.ev) => Closes(Append(o.ev, e))
  BY ClosesAppend DEF Call
<1> QED BY <1>0, <1>2, <1>3 DEF RequestClose

\* disconnect may end the connection; then no timer runs.
LEMMA DisconnectLeads ==
  ASSUME NEW o, Call(o), NEW p
  PROVE  /\ Leads(o, disconnect(o, p))
         /\ disconnect(o, p).ping.armed \in {o.ping.armed, {}}
<1>1. Leads(o, NotifyError(o, "PacketTooLarge"))
        /\ Leads(o, NotifyError(o, "PacketNotAllowedToSend"))
        /\ NotifyError(o, "PacketTooLarge").ping = o.ping
        /\ NotifyError(o, "PacketNotAllowedToSend").ping = o.ping
  BY EventLeads
<1> DEFINE down == Status(o, "Disconnected")
           still == cancel_timers(down)
           sent == RequestSend(still, p, 0)
           f == RequestClose(sent)
<1>2. Call(down) /\ down.link = Down(o.link) /\ down.ping = o.ping /\ down.ev = o.ev
  BY StatusCall DEF Statuses, Down
<1>3. down.link.status = "Disconnected"
  BY <1>2 DEF Down, Call, LinkRecord
<1> HIDE DEF down
<1>4. Follows(down, still) /\ still.link = down.link /\ still.ping.armed = {} /\ Call(still)
  BY <1>2, CancelTimers DEF Follows
<1> HIDE DEF still
<1>5. Follows(still, sent) /\ sent.link = still.link /\ sent.ping = still.ping /\ Call(sent)
  BY <1>4, EventLeads, LeadsCall
<1> HIDE DEF sent
<1>6. Follows(sent, f) /\ f.link = sent.link /\ f.ping = sent.ping
  BY <1>5, EventLeads, LeadsCall
<1> HIDE DEF f
<1>7. Follows(down, f) /\ f.ping.armed = {}
  BY <1>2, <1>4, <1>5, <1>6, FollowsOn
<1>8. Follows(o, f)
  BY <1>2, <1>4, <1>5, <1>6, <1>7 DEF Follows, Quiet, Heeded
<1>c. Closes(f.ev)
  BY <1>5, ClosesNow DEF f
<1>9. Leads(o, f)
  BY <1>8, <1>c DEF Leads
<1> QED BY <1>1, <1>7, <1>9 DEF disconnect, f, sent, still, down

LEMMA ErrorLeads ==
  ASSUME NEW o, Call(o), NEW e
  PROVE  Leads(o, handle_error(o, e))
<1> DEFINE d == disconnect(o, Plain("disconnect"))
           c == RequestClose(o)
<1>1. Leads(o, d) /\ Call(d)
  BY DisconnectLeads, LeadsCall
<1>2. Leads(o, c) /\ Call(c)
  BY EventLeads, LeadsCall
<1> HIDE DEF d, c
<1>3. Leads(o, NotifyError(d, e)) /\ Leads(o, NotifyError(c, e))
  BY <1>1, <1>2, EventLeads, LeadsOn
<1> QED BY <1>3 DEF handle_error, d, c

-----------------------------------------------------------------------------
\* A list of events about no timer, added to others, changes no timer.
LEMMA ObeyedConcat ==
  ASSUME NEW ev, IsList(ev), NEW w, IsList(w), NEW T,
         \A i \in DOMAIN w : w[i].event \notin {"RequestTimerReset", "RequestTimerCancel"}
  PROVE  Obeyed(T, ev \o w) = Obeyed(T, ev)
<1>1. PICK S : ev \in Seq(S)
  BY DEF IsList
<1>2. PICK R : w \in Seq(R)
  BY DEF IsList
<1> DEFINE c == ev \o w
<1>3. ev \in Seq(S \cup R) /\ w \in Seq(S \cup R)
  BY <1>1, <1>2
<1>4. /\ c \in Seq(S \cup R) /\ Len(c) = Len(ev) + Len(w)
      /\ \A i \in 1..(Len(ev) + Len(w)) : c[i] = IF i <= Len(ev) THEN ev[i] ELSE w[i - Len(ev)]
  BY <1>3, ConcatProperties
<1>5. /\ Len(ev) \in Nat /\ Len(w) \in Nat /\ DOMAIN ev = 1..Len(ev) /\ DOMAIN w = 1..Len(w)
      /\ DOMAIN c = 1..(Len(ev) + Len(w))
  BY <1>1, <1>2, <1>4
<1> HIDE DEF c
<1>6. \A i \in DOMAIN ev : i \in DOMAIN c /\ c[i] = ev[i]
  BY <1>4, <1>5
<1>7. ASSUME NEW i \in DOMAIN c, i \notin DOMAIN ev
      PROVE  c[i].event \notin {"RequestTimerReset", "RequestTimerCancel"}
  <2>1. i - Len(ev) \in DOMAIN w /\ c[i] = w[i - Len(ev)]
    BY <1>4, <1>5, <1>7
  <2> QED BY <2>1
<1>8. \A kind : About(kind, c) = About(kind, ev)
  BY <1>6, <1>7 DEF About
<1>9. \A kind : \A i \in About(kind, ev) : c[i] = ev[i]
  BY <1>6 DEF About
<1>10. Obeyed(T, c) = Obeyed(T, ev)
  BY <1>8, <1>9 DEF Obeyed
<1> QED BY <1>10 DEF c

\* What send_stored sends for a store.
LEMMA StoredEvents ==
  ASSUME NEW max, IsList(sess.store)
  PROVE  LET w == [i \in DOMAIN sess.store |->
                     IF i \in oversize(max) THEN ReleasedEvent({sess.store[i].pid})
                     ELSE SendEvent(sess.store[i], 0)]
         IN  /\ IsList(w)
             /\ \A i \in DOMAIN w : w[i].event \in {"NotifyPacketIdReleased", "RequestSendPacket"}
<1> DEFINE w == [i \in DOMAIN sess.store |->
                   IF i \in oversize(max) THEN ReleasedEvent({sess.store[i].pid})
                   ELSE SendEvent(sess.store[i], 0)]
           n == Len(sess.store)
<1>1. n \in Nat /\ DOMAIN sess.store = 1..n
  BY DEF IsList
<1>2. DOMAIN w = 1..n
  BY <1>1
<1>3. \A i \in DOMAIN w : w[i].event \in {"NotifyPacketIdReleased", "RequestSendPacket"}
  BY DEF ReleasedEvent, SendEvent
<1>4. w = [i \in 1..n |-> w[i]]
  BY <1>1
<1> HIDE DEF w, n
<1>5. w \in Seq({w[i] : i \in 1..n})
  BY <1>1, <1>4
<1> QED BY <1>3, <1>5 DEF IsList, w

LEMMA StoredLeads ==
  ASSUME NEW o, Call(o), NEW max, IsList(sess.store)
  PROVE  /\ Leads(o, send_stored(o, max)) /\ send_stored(o, max).link = o.link
         /\ send_stored(o, max).ping = o.ping
<1> DEFINE w == [i \in DOMAIN sess.store |->
                   IF i \in oversize(max) THEN ReleasedEvent({sess.store[i].pid})
                   ELSE SendEvent(sess.store[i], 0)]
           f == send_stored(o, max)
<1>0. f = [o EXCEPT !.ev = @ \o w]
  BY DEF send_stored
<1>2. /\ IsList(w)
      /\ \A i \in DOMAIN w : w[i].event \in {"NotifyPacketIdReleased", "RequestSendPacket"}
  BY StoredEvents
<1> HIDE DEF w, f
<1>1. f = [link |-> o.link, ping |-> o.ping, ev |-> o.ev \o w]
  BY <1>0 DEF Call
<1>3. f.link = o.link /\ f.ping = o.ping /\ f.ev = o.ev \o w
  BY <1>1
<1>4. PICK S : o.ev \in Seq(S)
  BY DEF Call, IsList
<1>5. PICK R : w \in Seq(R)
  BY <1>2 DEF IsList
<1>6. o.ev \in Seq(S \cup R) /\ w \in Seq(S \cup R)
  BY <1>4, <1>5
<1>7. /\ f.ev \in Seq(S \cup R) /\ Len(f.ev) = Len(o.ev) + Len(w)
      /\ \A i \in 1..(Len(o.ev) + Len(w)) :
            f.ev[i] = IF i <= Len(o.ev) THEN o.ev[i] ELSE w[i - Len(o.ev)]
  BY <1>3, <1>6, ConcatProperties
<1>8. IsList(f.ev)
  BY <1>7 DEF IsList
<1>9. Call(f)
  BY <1>1, <1>3, <1>8 DEF Call
<1>10. ASSUME Quiet(o) PROVE Quiet(f)
  <2>1. /\ Len(o.ev) \in Nat /\ Len(w) \in Nat /\ DOMAIN o.ev = 1..Len(o.ev)
        /\ DOMAIN w = 1..Len(w) /\ DOMAIN f.ev = 1..(Len(o.ev) + Len(w))
    BY <1>6, <1>7
  <2>2. ASSUME NEW i \in DOMAIN f.ev PROVE f.ev[i].event # "NotifyPacketReceived"
    <3>1. CASE i <= Len(o.ev)
      <4>1. i \in DOMAIN o.ev /\ f.ev[i] = o.ev[i]
        BY <3>1, <2>1, <1>7
      <4> QED BY <4>1, <1>10 DEF Quiet
    <3>2. CASE ~(i <= Len(o.ev))
      <4>a. i \in 1..(Len(o.ev) + Len(w))
        BY <2>1
      <4>b. f.ev[i] = w[i - Len(o.ev)]
        BY <3>2, <4>a, <1>7
      <4>c. i - Len(o.ev) \in DOMAIN w
        <5> DEFINE n == Len(o.ev)
                   l == Len(w)
        <5>1. n \in Nat /\ l \in Nat /\ i \in 1..(n + l) /\ ~(i <= n)
          BY <3>2, <4>a, <2>1
        <5> HIDE DEF n, l
        <5>2. i - n \in 1..l
          BY <5>1
        <5> QED BY <5>2, <2>1 DEF n, l
      <4>1. i - Len(o.ev) \in DOMAIN w /\ f.ev[i] = w[i - Len(o.ev)]
        BY <4>b, <4>c
      <4> QED BY <4>1, <1>2
    <3> QED BY <3>1, <3>2
  <2> QED BY <2>2 DEF Quiet
<1>11. ASSUME NEW T, Heeded(T, o) PROVE Heeded(T, f)
  <2>1. Obeyed(T, o.ev \o w) = Obeyed(T, o.ev)
    BY <1>2, ObeyedConcat DEF Call
  <2> QED BY <1>3, <1>11, <2>1 DEF Heeded
<1>12. Closes(o.ev) => Closes(f.ev)
  <2>1. \A k \in DOMAIN o.ev : k \in DOMAIN f.ev /\ f.ev[k] = o.ev[k]
    <3>1. /\ Len(o.ev) \in Nat /\ Len(w) \in Nat /\ DOMAIN o.ev = 1..Len(o.ev)
          /\ DOMAIN f.ev = 1..(Len(o.ev) + Len(w))
      BY <1>6, <1>7
    <3>2. ASSUME NEW n \in Nat, NEW m \in Nat, NEW k \in 1..n
          PROVE  k \in 1..(n + m) /\ k <= n
      OBVIOUS
    <3> QED BY <1>7, <3>1, <3>2
  <2> QED BY <2>1 DEF Closes, Notified
<1>13. Leads(o, f)
  BY <1>3, <1>9, <1>10, <1>11, <1>12 DEF Leads, Follows
<1> QED BY <1>3, <1>13 DEF f

\* What is left of the store is a list.
LEMMA KeptIsList ==
  ASSUME NEW max, IsList(sess.store)
  PROVE  IsList(kept_store(max))
<1>1. CASE oversize(max) = {}
  BY <1>1 DEF kept_store
<1>2. CASE oversize(max) # {}
  <2> DEFINE kept == DOMAIN sess.store \ oversize(max)
             nth(k) == CHOOSE i \in kept : Cardinality({j \in kept : j <= i}) = k
             n == Cardinality(kept)
             f == [k \in 1..n |-> sess.store[nth(k)]]
  <2>1. Len(sess.store) \in Nat /\ DOMAIN sess.store = 1..Len(sess.store)
    BY DEF IsList
  <2>2. IsFiniteSet(1..Len(sess.store))
    BY <2>1, FS_Interval
  <2>3. IsFiniteSet(kept)
    BY <2>1, <2>2, FS_Subset
  <2>4. n \in Nat
    BY <2>3, FS_CardinalityType
  <2>5. kept_store(max) = f
    BY <1>2 DEF kept_store
  <2>6. f = [k \in 1..n |-> f[k]]
    OBVIOUS
  <2> HIDE DEF f, n
  <2>7. f \in Seq({f[k] : k \in 1..n})
    BY <2>4, <2>6
  <2> QED BY <2>5, <2>7 DEF IsList
<1> QED BY <1>1, <1>2

\* A refused CONNACK ends the connection.
LEMMA RefusalLeads ==
  ASSUME NEW o, Call(o), NEW p
  PROVE  /\ Leads(o, refuse_connack(o, p)) /\ refuse_connack(o, p).link = Down(o.link)
         /\ Closes(refuse_connack(o, p).ev)
<1> DEFINE sent == RequestSend(o, p, 0)
           down == Status(sent, "Disconnected")
           still == cancel_timers(down)
           f == RequestClose(still)
<1>1. Follows(o, sent) /\ sent.link = o.link /\ sent.ping = o.ping /\ Call(sent)
  BY EventLeads, LeadsCall
<1> HIDE DEF sent
<1>2. Call(down) /\ down.link = Down(o.link) /\ down.ping = sent.ping /\ down.ev = sent.ev
  <2>1. "Disconnected" \in Statuses
    BY DEF Statuses
  <2>2. Call(down) /\ down.link = Down(sent.link) /\ down.ping = sent.ping /\ down.ev = sent.ev
    BY <1>1, <2>1, StatusCall DEF Down
  <2> QED BY <1>1, <2>2
<1>3. Follows(o, down) /\ down.link.status = "Disconnected"
  BY <1>1, <1>2 DEF Follows, Quiet, Heeded, Down, Call, LinkRecord
<1> HIDE DEF down
<1>4. Follows(down, still) /\ still.link = down.link /\ Call(still)
  BY <1>2, CancelTimers DEF Follows
<1> HIDE DEF still
<1>5. Follows(still, f) /\ f.link = still.link
  BY <1>4, EventLeads, LeadsCall
<1> HIDE DEF f
<1>6. Follows(o, f)
  BY <1>3, <1>4, <1>5, FollowsOn
<1>c. Closes(f.ev)
  BY <1>4, ClosesNow DEF f
<1>7. Leads(o, f)
  BY <1>6, <1>c DEF Leads
<1> QED BY <1>2, <1>4, <1>5, <1>7, <1>c DEF refuse_connack, f, still, down, sent

-----------------------------------------------------------------------------
(***************************************************************************)
(* Whole calls.  A call starts from a record without events whose flags    *)
(* are the connection's, and returns what its helpers made of it, with or  *)
(* without the packet received.                                            *)
(***************************************************************************)
Base(b)       == Call(b) /\ b.ev = <<>> /\ b.ping.armed = ping.armed
Returns(o)    == link' = o.link /\ ping' = o.ping /\ events' = o.ev
Pushes(b)     == \E o : Follows(b, o) /\ Returns(o)
Arrives(b, p) == \E o : Follows(b, o) /\ Returns(NotifyReceived(o, p))
Watches       == "PingreqRecv" \in ping.armed
                   => "PingreqRecv" \in ping'.armed \/ Closes(events')

LEMMA SelfBase ==
  ASSUME ConnShape
  PROVE  /\ Base(self) /\ Call(self) /\ self.link = link /\ self.ping = ping
         /\ IsList(sess.store)
<1>1. self = [link |-> link, ping |-> ping, ev |-> <<>>]
  BY DEF self
<1>2. self.link = link /\ self.ping = ping /\ self.ev = <<>>
  BY <1>1
<1>3. <<>> \in Seq({})
  BY SMT
<1>4. IsList(<<>>)
  BY <1>3 DEF IsList
<1>5. Call(self)
  BY <1>1, <1>2, <1>4 DEF Call, ConnShape
<1>6. IsList(sess.store)
  BY DEF IsList, ConnShape
<1> QED BY <1>2, <1>5, <1>6 DEF Base

LEMMA ListShape ==
  ASSUME NEW s, IsList(s)
  PROVE  s \in Seq(ToSet(s))
<1>1. PICK S : s \in Seq(S)
  BY DEF IsList
<1>2. s \in [1..Len(s) -> {s[i] : i \in 1..Len(s)}] /\ DOMAIN s = 1..Len(s) /\ Len(s) \in Nat
  BY <1>1
<1>3. s \in Seq({s[i] : i \in 1..Len(s)})
  BY <1>2, SeqDef
<1> QED BY <1>2, <1>3 DEF ToSet

\* The packet received is the last event, and the only one of its kind.
LEMMA ReceivedCall ==
  ASSUME NEW o, Call(o), NEW p
  PROVE  LET f == NotifyReceived(o, p)
         IN  /\ Call(f) /\ f.link = o.link /\ f.ping = o.ping
             /\ \A T : Heeded(T, o) => Heeded(T, f)
             /\ Notified(f.ev, p.type)
             /\ Quiet(o) => \A i \in DOMAIN f.ev :
                  f.ev[i].event = "NotifyPacketReceived" => f.ev[i].packet = p
<1> DEFINE f == NotifyReceived(o, p)
           e == [event |-> "NotifyPacketReceived", packet |-> p]
           n == Len(o.ev)
<1>1. f = [link |-> o.link, ping |-> o.ping, ev |-> Append(o.ev, e)]
  BY DEF NotifyReceived, Push, Call
<1>2. e.event = "NotifyPacketReceived" /\ e.packet = p
  OBVIOUS
<1> HIDE DEF f, e
<1>3. f.link = o.link /\ f.ping = o.ping /\ f.ev = Append(o.ev, e)
  BY <1>1
<1>4. /\ IsList(f.ev) /\ n \in Nat /\ DOMAIN o.ev = 1..n /\ DOMAIN f.ev = 1..(n + 1)
      /\ \A k \in 1..n : f.ev[k] = o.ev[k]
      /\ f.ev[n + 1] = e
  BY <1>3, ListFacts DEF Call
<1> HIDE DEF n
<1>5. Call(f)
  BY <1>1, <1>3, <1>4 DEF Call
<1>6. ASSUME NEW T, Heeded(T, o) PROVE Heeded(T, f)
  <2>1. Obeyed(T, Append(o.ev, e)) = Obeyed(T, o.ev)
    BY <1>2, ObeyedAppend DEF Call
  <2> QED BY <1>3, <1>6, <2>1 DEF Heeded
<1>7. Notified(f.ev, p.type)
  <2>1. n + 1 \in DOMAIN f.ev /\ f.ev[n + 1].event = "NotifyPacketReceived"
        /\ f.ev[n + 1].packet.type = p.type
    BY <1>2, <1>4
  <2> QED BY <2>1 DEF Notified
<1>8. Quiet(o) => \A i \in DOMAIN f.ev :
        f.ev[i].event = "NotifyPacketReceived" => f.ev[i].packet = p
  BY <1>2, <1>4 DEF Quiet
<1> QED BY <1>3, <1>5, <1>6, <1>7, <1>8 DEF f

LEMMA LeadsPushes ==
  ASSUME NEW b, Base(b), NEW o, Leads(b, o), Returns(o)
  PROVE  Pushes(b) /\ Watches
<1>1. Pushes(b)
  BY DEF Pushes, Leads
<1>2. Watches
  BY DEF Watches, Leads, Base, Returns
<1> QED BY <1>1, <1>2

LEMMA LeadsArrives ==
  ASSUME NEW b, Base(b), NEW o, Leads(b, o), NEW p, Returns(NotifyReceived(o, p))
  PROVE  Arrives(b, p) /\ Watches
<1>1. Arrives(b, p)
  BY DEF Arrives, Leads
<1>2. /\ NotifyReceived(o, p).link = o.link /\ NotifyReceived(o, p).ping = o.ping
      /\ Closes(o.ev) => Closes(NotifyReceived(o, p).ev)
  BY ReceivedCall, LeadsCall, ClosesNow DEF NotifyReceived
<1>3. Watches
  BY <1>2 DEF Watches, Leads, Base, Returns
<1> QED BY <1>1, <1>3

LEMMA OutReturns ==
  ASSUME NEW o
  PROVE  /\ Out(o) => Returns(o)
         /\ \A overflow : OutUnless(overflow, o) => Returns(o)
         /\ Panic => Returns(self)
BY DEF Out, OutUnless, Panic, Returns, self

-----------------------------------------------------------------------------
\* A call that returns what leads on from self.
LEMMA CallReturns ==
  ASSUME ConnShape, NEW o, Leads(self, o)
  PROVE  /\ Out(o) => Pushes(self) /\ Watches
         /\ \A overflow : OutUnless(overflow, o) => Pushes(self) /\ Watches
         /\ \A p : Out(NotifyReceived(o, p)) => Arrives(self, p) /\ Watches
         /\ \A p, overflow :
              OutUnless(overflow, NotifyReceived(o, p)) => Arrives(self, p) /\ Watches
<1>1. Base(self)
  BY SelfBase
<1>2. Returns(o) => Pushes(self) /\ Watches
  BY <1>1, LeadsPushes
<1>3. \A p : Returns(NotifyReceived(o, p)) => Arrives(self, p) /\ Watches
  BY <1>1, LeadsArrives
<1> QED BY <1>2, <1>3, OutReturns

\* The calls that return self, an error, or a panic.
LEMMA PlainReturns ==
  ASSUME ConnShape
  PROVE  /\ Out(self) => Pushes(self) /\ Watches
         /\ \A e : Out(NotifyError(self, e)) => Pushes(self) /\ Watches
         /\ \A pids : Out(NotifyReleased(self, pids)) => Pushes(self) /\ Watches
         /\ \A i, e, pid : refuse_and_release(i, e, pid) => Pushes(self) /\ Watches
         /\ Panic => Pushes(self) /\ Watches
<1>1. Call(self) /\ Base(self)
  BY SelfBase
<1>2. Leads(self, self)
  BY <1>1, LeadsSelf
<1>3. \A e : Leads(self, NotifyError(self, e)) /\ Call(NotifyError(self, e))
  BY <1>1, EventLeads, LeadsCall
<1>4. \A pids : Leads(self, NotifyReleased(self, pids))
  BY <1>1, EventLeads
<1>5. \A e, pids : Leads(self, NotifyReleased(NotifyError(self, e), pids))
  BY <1>1, <1>3, EventLeads, LeadsOn
<1>6. Panic => Pushes(self) /\ Watches
  BY <1>1, <1>2, LeadsPushes, OutReturns
<1> QED BY <1>2, <1>3, <1>4, <1>5, <1>6, CallReturns DEF refuse_and_release

\* The returns that leave the timers alone.
LEMMA OutPing ==
  ASSUME ConnShape
  PROVE  /\ Out(self) => ping' = ping
         /\ \A e : Out(NotifyError(self, e)) => ping' = ping /\ link' = link
         /\ \A pids : Out(NotifyReleased(self, pids)) => ping' = ping
         /\ \A i, e, pid : refuse_and_release(i, e, pid) => ping' = ping
         /\ Panic => ping' = ping
         /\ \A overflow : OutUnless(overflow, self) => ping' = ping
<1>0. Call(self) /\ self.ping = ping /\ self.link = link
  BY SelfBase
<1>1. /\ \A e : /\ NotifyError(self, e).ping = ping /\ NotifyError(self, e).link = link
                /\ Call(NotifyError(self, e))
      /\ \A pids : NotifyReleased(self, pids).ping = ping
  BY <1>0, EventLeads, LeadsCall
<1>2. \A e, pids : NotifyReleased(NotifyError(self, e), pids).ping = ping
  BY <1>1, EventLeads
<1>3. \A o : Out(o) => ping' = o.ping /\ link' = o.link
  BY DEF Out
<1>4. \A i, e, pid : refuse_and_release(i, e, pid) => ping' = ping
  BY <1>2, <1>3 DEF refuse_and_release
<1> QED BY <1>0, <1>1, <1>3, <1>4 DEF Panic, OutUnless

\* What process_send_pubrel does to the record of the call.
LEMMA PubrelLeads ==
  ASSUME NEW o, Call(o), NEW i, NEW s, NEW p
  PROVE  LET r == pubrel(o, i, s, p)
         IN  /\ Leads(o, r.out) /\ r.out.link = o.link
             /\ r.sess \in {s, [s EXCEPT !.store = Append(@, p)]}
<1> DEFINE r == pubrel(o, i, s, p)
           connected == o.link.status = "Connected"
           sent == IF connected THEN RequestSend(o, p, 0) ELSE o
<1>1. \A e : Leads(o, NotifyError(o, e)) /\ NotifyError(o, e).link = o.link
  BY EventLeads
<1>2. Leads(o, sent) /\ sent.link = o.link /\ Call(sent)
  BY EventLeads, LeadsSelf, LeadsCall
<1> HIDE DEF sent
<1>3. Leads(o, send_post_process(sent)) /\ send_post_process(sent).link = o.link
  BY <1>2, CallLeads, LeadsOn
<1>4. \/ \E e : r = [out |-> NotifyError(o, e), ids |-> i, sess |-> s, panics |-> FALSE]
      \/ \E j, b : r = [out |-> send_post_process(sent), ids |-> j,
                       sess |-> IF s.need_store THEN [s EXCEPT !.store = Append(@, p)] ELSE s,
                       panics |-> b]
  BY DEF pubrel, sent
<1> HIDE DEF r
<1>5. CASE \E e : r = [out |-> NotifyError(o, e), ids |-> i, sess |-> s, panics |-> FALSE]
  BY <1>1, <1>5 DEF r
<1>6. CASE \E j, b : r = [out |-> send_post_process(sent), ids |-> j,
                       sess |-> IF s.need_store THEN [s EXCEPT !.store = Append(@, p)] ELSE s,
                       panics |-> b]
  BY <1>3, <1>6 DEF r
<1> QED BY <1>4, <1>5, <1>6

LEMMA PublishPushes ==
  ASSUME ConnShape, NEW p, process_send_publish(p)
  PROVE  Pushes(self) /\ Watches
<1>1. Call(self)
  BY SelfBase
<1>2. \A w, r : /\ Leads(self, RequestSend(self, w, r))
               /\ Call(RequestSend(self, w, r))
  BY <1>1, EventLeads, LeadsCall
<1>3. \A w, r : Leads(self, send_post_process(RequestSend(self, w, r)))
  BY <1>1, <1>2, CallLeads, LeadsOn
<1>4. Leads(self, self)
  BY <1>1, LeadsSelf
<1>5. CASE publish_attached(p)
  <2>1. CASE \E i, e, pid : refuse_and_release(i, e, pid)
    BY <2>1, PlainReturns
  <2>2. CASE \E b : OutUnless(b, IF link.status # "Connected" THEN self
          ELSE send_post_process(RequestSend(self, wire_publish(p),
                 IF p.qos > 0 /\ ~stores_publish(p) THEN p.pid ELSE 0)))
    <3> DEFINE o == IF link.status # "Connected" THEN self
          ELSE send_post_process(RequestSend(self, wire_publish(p),
                 IF p.qos > 0 /\ ~stores_publish(p) THEN p.pid ELSE 0))
    <3>1. Leads(self, o)
      BY <1>3, <1>4
    <3> HIDE DEF o
    <3>2. \A b : OutUnless(b, o) => Pushes(self) /\ Watches
      BY <3>1, CallReturns
    <3> QED BY <3>2, <2>2 DEF o
  <2> QED BY <1>5, <2>1, <2>2 DEF publish_attached
<1>6. CASE publish_accepted(p)
  BY <1>5, <1>6, PlainReturns DEF publish_accepted
<1> QED BY <1>6, PlainReturns DEF process_send_publish

\* send() of any packet that does not start a connection.
LEMMA SendPushes ==
  ASSUME ConnShape, NEW p, send(p), p.type \notin {"connect", "connack"}
  PROVE  Pushes(self) /\ Watches
<1>1. Call(self)
  BY SelfBase
<1>2. \A q : Leads(self, send_response(self, q)) /\ Leads(self, pingreq(self, q))
              /\ Leads(self, disconnect(self, q))
  BY <1>1, CallLeads, DisconnectLeads
<1>3. \A q, r : Leads(self, send_post_process(RequestSend(self, q, r)))
  <2>1. \A q, r : Leads(self, RequestSend(self, q, r)) /\ Call(RequestSend(self, q, r))
    BY <1>1, EventLeads, LeadsCall
  <2> QED BY <1>1, <2>1, CallLeads, LeadsOn
<1>4. \A q : /\ Out(send_response(self, q)) => Pushes(self) /\ Watches
             /\ Out(pingreq(self, q)) => Pushes(self) /\ Watches
             /\ Out(disconnect(self, q)) => Pushes(self) /\ Watches
  BY <1>2, CallReturns
<1>5. \A q, r : Out(send_post_process(RequestSend(self, q, r))) => Pushes(self) /\ Watches
  BY <1>3, CallReturns
<1>6. CASE send_refused(p)
  BY <1>6, PlainReturns DEF send_refused
<1>7. CASE process_send_publish(p)
  BY <1>7, PublishPushes
<1>8. CASE process_send_puback(p) \/ process_send_pubcomp(p) \/ process_send_pubrec(p)
  BY <1>4, <1>8 DEF process_send_puback, process_send_pubcomp, process_send_pubrec
<1>9. CASE process_send_pubrel(p)
  <2> DEFINE r == pubrel(self, ids, sess, p)
  <2>1. Leads(self, r.out)
    BY <1>1, PubrelLeads
  <2> HIDE DEF r
  <2>2. Out(r.out) => Pushes(self) /\ Watches
    BY <2>1, CallReturns
  <2> QED BY <1>9, <2>2, PlainReturns DEF process_send_pubrel, r
<1>10. ASSUME NEW i, send_request(p, i) PROVE Pushes(self) /\ Watches
  BY <1>5, <1>10, PlainReturns DEF send_request
<1>11. CASE process_send_subscribe(p) \/ process_send_unsubscribe(p)
  BY <1>10, <1>11 DEF process_send_subscribe, process_send_unsubscribe
<1>12. CASE process_send_suback(p) \/ process_send_unsuback(p) \/ process_send_pingresp(p)
              \/ process_send_pingreq(p) \/ process_send_disconnect(p)
  BY <1>4, <1>12 DEF process_send_suback, process_send_unsuback, process_send_pingresp,
       process_send_pingreq, process_send_disconnect
<1>13. CASE process_send_auth(p)
  BY <1>5, <1>13, PlainReturns DEF process_send_auth
<1> QED BY <1>6, <1>7, <1>8, <1>9, <1>11, <1>12, <1>13 DEF send

-----------------------------------------------------------------------------
\* Changing a time of the keep-alive changes nothing else.
LEMMA TimeCall ==
  ASSUME NEW o, Call(o), NEW x \in PingTimes, NEW ms
  PROVE  LET f == [o EXCEPT !.ping[x] = ms]
         IN  /\ Call(f) /\ f.link = o.link /\ f.ev = o.ev /\ f.ping.armed = o.ping.armed
             /\ f.ping[x] = ms /\ \A y \in PingTimes \ {x} : f.ping[y] = o.ping[y]
<1> DEFINE f == [o EXCEPT !.ping[x] = ms]
           g == [o.ping EXCEPT ![x] = ms]
<1>1. f = [link |-> o.link, ping |-> g, ev |-> o.ev]
  BY DEF Call
<1>2. /\ DOMAIN g = DOMAIN o.ping /\ g.armed = o.ping.armed
      /\ g[x] = ms /\ \A y \in PingTimes \ {x} : g[y] = o.ping[y]
  BY DEF Call, PingTimes
<1> HIDE DEF f, g
<1>3. f.link = o.link /\ f.ping = g /\ f.ev = o.ev
  BY <1>1
<1>4. Call(f)
  BY <1>1, <1>2, <1>3 DEF Call
<1> QED BY <1>2, <1>3, <1>4 DEF f

LEMMA RoleCall ==
  ASSUME NEW o, Call(o), NEW c \in BOOLEAN
  PROVE  LET f == [o EXCEPT !.link.is_client = c]
         IN  /\ Call(f) /\ f.link = [o.link EXCEPT !.is_client = c]
             /\ f.ping = o.ping /\ f.ev = o.ev
<1> DEFINE f == [o EXCEPT !.link.is_client = c]
<1>1. f = [link |-> [o.link EXCEPT !.is_client = c], ping |-> o.ping, ev |-> o.ev]
  BY DEF Call
<1>2. [o.link EXCEPT !.is_client = c] \in LinkRecord
  BY DEF Call, LinkRecord
<1> HIDE DEF f
<1>3. /\ f.link = [o.link EXCEPT !.is_client = c] /\ f.ping = o.ping /\ f.ev = o.ev
  BY <1>1
<1>4. Call(f)
  BY <1>1, <1>2, <1>3 DEF Call
<1> QED BY <1>3, <1>4 DEF f

LEMMA InitCall ==
  ASSUME NEW o, Call(o), NEW c \in BOOLEAN
  PROVE  LET f == initialize_self(o, c)
         IN  /\ Call(f) /\ f.link = [o.link EXCEPT !.is_client = c] /\ f.ev = o.ev
             /\ f.ping.armed = o.ping.armed
             /\ f.ping.pingreq_recv_timeout_ms = o.ping.pingreq_recv_timeout_ms
<1> DEFINE f == initialize_self(o, c)
           a == [o EXCEPT !.link.is_client = c]
           b == [a EXCEPT !.ping["pingreq_keep_alive_ms"] = 0]
           d == [b EXCEPT !.ping["pingreq_server_keep_alive_ms"] = None]
<1>1. f = d
  BY DEF initialize_self
<1>2. /\ Call(a) /\ a.link = [o.link EXCEPT !.is_client = c] /\ a.ping = o.ping /\ a.ev = o.ev
  BY RoleCall
<1> HIDE DEF a
<1>3. /\ Call(b) /\ b.link = a.link /\ b.ev = a.ev /\ b.ping.armed = a.ping.armed
      /\ b.ping.pingreq_recv_timeout_ms = a.ping.pingreq_recv_timeout_ms
  <2>1. "pingreq_keep_alive_ms" \in PingTimes
        /\ "pingreq_recv_timeout_ms" \in PingTimes \ {"pingreq_keep_alive_ms"}
    BY DEF PingTimes
  <2> QED BY <1>2, <2>1, TimeCall, SMTT(30)
<1> HIDE DEF b
<1>4. /\ Call(d) /\ d.link = b.link /\ d.ev = b.ev /\ d.ping.armed = b.ping.armed
      /\ d.ping.pingreq_recv_timeout_ms = b.ping.pingreq_recv_timeout_ms
  <2>1. "pingreq_server_keep_alive_ms" \in PingTimes
        /\ "pingreq_recv_timeout_ms" \in PingTimes \ {"pingreq_server_keep_alive_ms"}
    BY DEF PingTimes
  <2> QED BY <1>3, <2>1, TimeCall
<1> HIDE DEF d, f
<1>5. /\ Call(f) /\ f.link = [o.link EXCEPT !.is_client = c] /\ f.ev = o.ev
      /\ f.ping.armed = o.ping.armed
      /\ f.ping.pingreq_recv_timeout_ms = o.ping.pingreq_recv_timeout_ms
  BY <1>1, <1>2, <1>3, <1>4
<1> QED BY <1>5 DEF f

\* A version that was not decided is one of the link.
LEMMA VersionCall ==
  ASSUME NEW o, Call(o), NEW v \in Versions
  PROVE  LET f == [o EXCEPT !.link.protocol_version = v]
         IN  /\ Call(f) /\ f.link = [o.link EXCEPT !.protocol_version = v]
             /\ f.ping = o.ping /\ f.ev = o.ev
<1> DEFINE f == [o EXCEPT !.link.protocol_version = v]
<1>1. f = [link |-> [o.link EXCEPT !.protocol_version = v], ping |-> o.ping, ev |-> o.ev]
  BY DEF Call
<1>2. [o.link EXCEPT !.protocol_version = v] \in LinkRecord
  BY DEF Call, LinkRecord
<1> HIDE DEF f
<1>3. /\ f.link = [o.link EXCEPT !.protocol_version = v] /\ f.ping = o.ping /\ f.ev = o.ev
  BY <1>1
<1>4. Call(f)
  BY <1>1, <1>2, <1>3 DEF Call
<1> QED BY <1>3, <1>4 DEF f

\* CONNECT sent: an error, or a connection begins.
LEMMA SendConnect ==
  ASSUME ConnShape, NEW p, process_send_connect(p)
  PROVE  \/ Pushes(self) /\ Watches /\ link' = link /\ ping' = ping /\ sess' = sess
         \/ /\ link.status = "Disconnected"
            /\ \E b : /\ Base(b) /\ Pushes(b) /\ link' = b.link
                      /\ b.link = [[link EXCEPT !.is_client = TRUE] EXCEPT !.status = "Connecting"]
<1>0. Call(self) /\ self.link = link /\ self.ping = ping /\ Base(self)
  BY SelfBase
<1>1. CASE \E e : Out(NotifyError(self, e)) /\ UNCHANGED core
  <2>1. PICK e : Out(NotifyError(self, e)) /\ UNCHANGED core
    BY <1>1
  <2>2. NotifyError(self, e).link = link /\ NotifyError(self, e).ping = ping
    BY <1>0, EventLeads
  <2> QED BY <2>1, <2>2, PlainReturns DEF Out, core
<1> DEFINE a == initialize_self(self, TRUE)
           d == Status(a, "Connecting")
           b == [d EXCEPT !.ping.pingreq_keep_alive_ms = p.keep_alive]
           sent == RequestSend(b, p, 0)
           o == send_post_process(sent)
<1>2. CASE link.status = "Disconnected" /\ Out(o)
  <2>1. /\ Call(a) /\ a.link = [link EXCEPT !.is_client = TRUE] /\ a.ev = <<>>
        /\ a.ping.armed = ping.armed
    BY <1>0, InitCall DEF Base
  <2> HIDE DEF a
  <2>2. Call(d) /\ d.link = [a.link EXCEPT !.status = "Connecting"] /\ d.ping = a.ping /\ d.ev = a.ev
    BY <2>1, StatusCall DEF Statuses
  <2> HIDE DEF d
  <2>3. Call(b) /\ b.link = d.link /\ b.ev = d.ev /\ b.ping.armed = d.ping.armed
    <3>1. "pingreq_keep_alive_ms" \in PingTimes
      BY DEF PingTimes
    <3> DEFINE e == [d EXCEPT !.ping["pingreq_keep_alive_ms"] = p.keep_alive]
    <3>2. Call(e) /\ e.link = d.link /\ e.ev = d.ev /\ e.ping.armed = d.ping.armed
      BY ONLY <2>2, <3>1, TimeCall
    <3> QED BY ONLY <3>2
  <2> HIDE DEF b
  <2>4. Base(b) /\ b.link = [[link EXCEPT !.is_client = TRUE] EXCEPT !.status = "Connecting"]
    BY <2>1, <2>2, <2>3 DEF Base
  <2>5. Leads(b, sent) /\ Call(sent) /\ sent.link = b.link
    BY <2>3, EventLeads, LeadsCall
  <2> HIDE DEF sent
  <2>6. Leads(b, o) /\ o.link = b.link
    BY <2>3, <2>5, CallLeads, LeadsOn
  <2> HIDE DEF o
  <2>7. Pushes(b) /\ link' = b.link
    BY <1>2, <2>4, <2>6, LeadsPushes, OutReturns DEF Returns
  <2> QED BY <1>2, <2>4, <2>7
<1> QED BY <1>1, <1>2 DEF process_send_connect

\* Helpers that leave the link alone do so from another status too.
LEMMA StatusFollows ==
  ASSUME NEW o, Call(o), NEW f, Follows(o, f), f.link = o.link, NEW s \in Statuses
  PROVE  /\ Follows(Status(o, s), Status(f, s)) /\ Status(f, s).link = Status(o, s).link
         /\ Call(Status(o, s)) /\ Call(Status(f, s))
         /\ Status(o, s).link = [o.link EXCEPT !.status = s]
         /\ Status(o, s).ping = o.ping /\ Status(o, s).ev = o.ev
         /\ Status(f, s).ping = f.ping
<1> DEFINE a == Status(o, s)
           b == Status(f, s)
<1>1. /\ Call(a) /\ a.link = [o.link EXCEPT !.status = s] /\ a.ping = o.ping /\ a.ev = o.ev
  BY StatusCall
<1>2. /\ Call(b) /\ b.link = [f.link EXCEPT !.status = s] /\ b.ping = f.ping /\ b.ev = f.ev
  BY StatusCall DEF Follows
<1> HIDE DEF a, b
<1>3. Follows(a, b) /\ b.link = a.link
  BY <1>1, <1>2 DEF Follows, Quiet, Heeded
<1> QED BY <1>1, <1>2, <1>3 DEF a, b

\* CONNACK sent: an error, a refusal, or the connection is established.
LEMMA SendConnack ==
  ASSUME ConnShape, NEW p, process_send_connack(p)
  PROVE  \/ Pushes(self) /\ Watches
         \/ /\ link.status = "Connecting"
            /\ \E b : /\ Base(b) /\ Pushes(b) /\ link' = b.link
                      /\ b.link = [link EXCEPT !.status = "Connected"]
                      /\ p.server_keep_alive = None =>
                           /\ Watches
                           /\ ping'.pingreq_recv_timeout_ms = ping.pingreq_recv_timeout_ms
<1>0. Call(self) /\ self.link = link /\ self.ping = ping /\ Base(self) /\ IsList(sess.store)
  BY SelfBase
<1>1. CASE \E e : Out(NotifyError(self, e))
  BY <1>1, PlainReturns
<1>2. CASE Out(refuse_connack(self, p))
  BY <1>0, <1>2, RefusalLeads, CallReturns
<1> DEFINE timeout == IF p.server_keep_alive = None THEN ping.pingreq_recv_timeout_ms
                      ELSE p.server_keep_alive
           timed == [self EXCEPT !.ping.pingreq_recv_timeout_ms = timeout]
           armed == IF p.server_keep_alive = None THEN timed
                    ELSE IF p.server_keep_alive = 0 THEN cancel(timed, "PingreqRecv")
                    ELSE reset(timed, "PingreqRecv", timeout)
           sent  == RequestSend(armed, p, 0)
           up    == Status(sent, "Connected")
           all   == send_stored(up, lim.send)
           o     == send_post_process(all)
           b     == Status(timed, "Connected")
<1>3. CASE link.status = "Connecting" /\ OutUnless(release_overflows(lim.send), o)
  <2>1. /\ Call(timed) /\ timed.link = link /\ timed.ev = <<>>
        /\ timed.ping.armed = ping.armed /\ timed.ping.pingreq_recv_timeout_ms = timeout
    <3>1. "pingreq_recv_timeout_ms" \in PingTimes
      BY DEF PingTimes
    <3> DEFINE e == [self EXCEPT !.ping["pingreq_recv_timeout_ms"] = timeout]
    <3> HIDE DEF timeout
    <3>2. /\ Call(e) /\ e.link = self.link /\ e.ev = self.ev /\ e.ping.armed = self.ping.armed
          /\ e.ping["pingreq_recv_timeout_ms"] = timeout
      BY ONLY <1>0, <3>1, TimeCall
    <3>3. self.ev = <<>>
      BY <1>0 DEF Base
    <3> QED BY ONLY <1>0, <3>2, <3>3
  <2> HIDE DEF timed
  <2>2. /\ Follows(timed, armed) /\ armed.link = timed.link /\ Call(armed)
        /\ p.server_keep_alive = None => armed = timed
    <3>1. "PingreqRecv" \in TimerKind
      BY DEF TimerKind
    <3>2. Follows(timed, timed)
      BY <2>1, LeadsSelf, LeadsCall
    <3>3. Follows(timed, cancel(timed, "PingreqRecv")) /\ cancel(timed, "PingreqRecv").link = timed.link
      BY <2>1, <3>1, CancelFollows
    <3>4. /\ Follows(timed, reset(timed, "PingreqRecv", timeout))
          /\ reset(timed, "PingreqRecv", timeout).link = timed.link
      BY <2>1, <3>1, ResetLeads, LeadsCall
    <3>5. Follows(timed, armed) /\ armed.link = timed.link
      BY <3>2, <3>3, <3>4
    <3>6. Call(armed)
      BY <3>5 DEF Follows
    <3> QED BY <3>5, <3>6
  <2> HIDE DEF armed, timeout
  <2>3. Follows(timed, sent) /\ sent.link = timed.link /\ sent.ping = armed.ping
    <3>1. Follows(armed, sent) /\ sent.link = armed.link /\ sent.ping = armed.ping
      BY <2>2, EventLeads, LeadsCall
    <3> QED BY <2>1, <2>2, <3>1, FollowsOn
  <2> HIDE DEF sent
  <2>4. /\ Follows(b, up) /\ up.link = b.link /\ Call(b) /\ Call(up)
        /\ b.link = [link EXCEPT !.status = "Connected"]
        /\ b.ping = timed.ping /\ b.ev = <<>> /\ up.ping = armed.ping
    <3>1. "Connected" \in Statuses
      BY DEF Statuses
    <3> QED BY <2>1, <2>3, <3>1, StatusFollows
  <2> HIDE DEF b, up
  <2>5. Base(b) /\ b.link.status = "Connected"
    BY <2>1, <2>4 DEF Base, ConnShape, LinkRecord
  <2>6. Leads(up, all) /\ all.link = up.link /\ Call(all)
    BY <1>0, <2>4, StoredLeads, LeadsCall
  <2> HIDE DEF all
  <2>7. Leads(up, o) /\ o.link = b.link
    BY <2>4, <2>6, CallLeads, LeadsOn
  <2> HIDE DEF o
  <2>8. Follows(b, o)
    BY <2>4, <2>7, FollowsOn, LeadsCall
  <2>9. Returns(o)
    BY <1>3, OutReturns
  <2>10. Pushes(b) /\ link' = b.link
    BY <2>7, <2>8, <2>9 DEF Pushes, Returns
  <2>11. p.server_keep_alive = None => Watches
    BY <2>1, <2>2, <2>4, <2>5, <2>7, <2>9 DEF Watches, Leads, Returns
  <2>12. ping'.pingreq_recv_timeout_ms = timeout
    BY <2>1, <2>4, <2>8, <2>9 DEF Follows, Returns, PingTimes
  <2>13. p.server_keep_alive = None => timeout = ping.pingreq_recv_timeout_ms
    BY DEF timeout
  <2> QED BY <1>3, <2>4, <2>5, <2>10, <2>11, <2>12, <2>13
<1> QED BY <1>1, <1>2, <1>3 DEF process_send_connack

-----------------------------------------------------------------------------
\* CONNECT received: an error, a panic, or a connection begins, and its client is
\* watched if it ever asked for a keep-alive.
LEMMA RecvConnect ==
  ASSUME ConnShape, NEW p, process_recv_connect(p)
  PROVE  \/ /\ Pushes(self) /\ Watches
            /\ link.status = "Disconnected" => ping' = ping
         \/ \E b : /\ Base(b) /\ Arrives(b, p) /\ link' = b.link
                   /\ b.link.status = "Connecting" /\ b.link.is_client = FALSE
                   /\ link.protocol_version # "Undetermined" =>
                        b.link.protocol_version = link.protocol_version
                   /\ ping'.pingreq_recv_timeout_ms # 0 => "PingreqRecv" \in ping'.armed
<1>0. Call(self) /\ self.link = link /\ self.ping = ping /\ Base(self)
  BY SelfBase
<1>1. CASE Panic \/ \E e : Out(NotifyError(self, e))
  BY <1>1, PlainReturns, OutPing
<1>2. CASE link.status # "Disconnected" /\ \E e : Out(handle_error(self, e))
  BY <1>0, <1>2, ErrorLeads, CallReturns
<1> DEFINE decided == IF link.protocol_version = "Undetermined"
                      THEN [self EXCEPT !.link.protocol_version = p.version] ELSE self
           c == Status(decided, "Connecting")
           started == initialize_self(c, FALSE)
           b == IF p.keep_alive = 0 THEN started
                ELSE [started EXCEPT !.ping.pingreq_recv_timeout_ms = p.keep_alive]
           o == refresh_pingreq_recv(b)
<1>3. CASE p.version \in {"V3", "V5"} /\ Out(NotifyReceived(o, p))
  <2>1. Call(decided) /\ decided.ping = ping /\ decided.ev = <<>>
    <3>1. p.version \in Versions
      BY <1>3 DEF Versions
    <3> DEFINE e == [self EXCEPT !.link.protocol_version = p.version]
    <3>2. Call(e) /\ e.ping = self.ping /\ e.ev = self.ev
      BY ONLY <1>0, <3>1, VersionCall
    <3>3. self.ev = <<>>
      BY <1>0 DEF Base
    <3> QED BY ONLY <1>0, <3>2, <3>3
  <2>12. link.protocol_version # "Undetermined" => decided.link = link
    BY ONLY <1>0
  <2> HIDE DEF decided
  <2>2. /\ Call(c) /\ c.link = [decided.link EXCEPT !.status = "Connecting"]
        /\ c.ping = ping /\ c.ev = <<>>
    BY <2>1, StatusCall DEF Statuses
  <2>3. c.link.status = "Connecting"
    BY <2>1, <2>2 DEF Call, LinkRecord
  <2> HIDE DEF c
  <2>4. /\ Call(started) /\ started.link = [c.link EXCEPT !.is_client = FALSE] /\ started.ev = <<>>
        /\ started.ping.armed = ping.armed
    BY <2>2, InitCall
  <2>5. started.link.status = "Connecting" /\ started.link.is_client = FALSE
    BY <2>2, <2>3, <2>4 DEF Call, LinkRecord
  <2>13. link.protocol_version # "Undetermined" =>
           started.link.protocol_version = link.protocol_version
    BY <2>1, <2>2, <2>4, <2>12 DEF Call, LinkRecord
  <2> HIDE DEF started
  <2>6. /\ Call(b) /\ b.link = started.link /\ b.ev = <<>> /\ b.ping.armed = ping.armed
    <3>1. "pingreq_recv_timeout_ms" \in PingTimes
      BY DEF PingTimes
    <3> DEFINE e == [started EXCEPT !.ping["pingreq_recv_timeout_ms"] = p.keep_alive]
    <3>2. /\ Call(e) /\ e.link = started.link /\ e.ev = started.ev
          /\ e.ping.armed = started.ping.armed
      BY ONLY <2>4, <3>1, TimeCall
    <3> QED BY ONLY <2>4, <3>2
  <2> HIDE DEF b
  <2>7. Base(b) /\ b.link.status = "Connecting" /\ b.link.is_client = FALSE
    BY <2>5, <2>6 DEF Base
  <2>8. /\ Leads(b, o) /\ o.link = b.link /\ Call(o)
        /\ b.ping.pingreq_recv_timeout_ms # 0 => "PingreqRecv" \in o.ping.armed
    BY <2>6, CallLeads, LeadsCall
  <2> HIDE DEF o
  <2>9. o.ping.pingreq_recv_timeout_ms = b.ping.pingreq_recv_timeout_ms
    BY <2>8 DEF Leads, Follows, PingTimes
  <2>10. Arrives(b, p)
    BY <1>3, <2>7, <2>8, OutReturns, LeadsArrives
  <2>11. link' = o.link /\ ping' = o.ping
    BY <1>3, <2>8, ReceivedCall DEF Out
  <2> QED BY <2>6, <2>7, <2>8, <2>9, <2>10, <2>11, <2>13
<1> QED BY <1>1, <1>2, <1>3 DEF process_recv_connect, unexpected_response

\* CONNACK received: a refusal, or the connection is established.
LEMMA RecvConnack ==
  ASSUME ConnShape, NEW p, process_recv_connack(p)
  PROVE  \/ Arrives(self, p) /\ Watches /\ UNCHANGED core
         \/ \E b : /\ Base(b) /\ Arrives(b, p) /\ link' = b.link
                   /\ b.link = [link EXCEPT !.status = "Connected"]
                   /\ Watches
                   /\ ping'.pingreq_recv_timeout_ms = ping.pingreq_recv_timeout_ms
<1>0. Call(self) /\ self.link = link /\ self.ping = ping /\ Base(self) /\ IsList(sess.store)
  BY SelfBase
<1>1. CASE Out(NotifyReceived(self, p)) /\ UNCHANGED core
  <2>1. Leads(self, self)
    BY <1>0, LeadsSelf
  <2> QED BY <1>1, <2>1, CallReturns
<1> DEFINE max == Prop(p.max_size, lim.send)
           up == Status(self, "Connected")
           time == Prop(p.server_keep_alive, up.ping.pingreq_server_keep_alive_ms)
           b == [up EXCEPT !.ping.pingreq_server_keep_alive_ms = time]
           timed == IF p.server_keep_alive = None
                          \/ opts.pingreq_user_send_interval_ms # None THEN b
                    ELSE IF p.server_keep_alive = 0 THEN cancel(b, "PingreqSend")
                    ELSE reset(b, "PingreqSend", p.server_keep_alive)
           all == send_stored(timed, max)
<1>2. CASE \/ OutUnless(release_overflows(max), NotifyReceived(all, p))
           \/ Out(NotifyReceived(timed, p))
  <2>1. /\ Call(up) /\ up.link = [link EXCEPT !.status = "Connected"]
        /\ up.ping = ping /\ up.ev = <<>>
    BY <1>0, StatusCall DEF Statuses, Base
  <2> HIDE DEF up
  <2>2. /\ Call(b) /\ b.link = up.link /\ b.ev = <<>> /\ b.ping.armed = ping.armed
        /\ b.ping.pingreq_recv_timeout_ms = ping.pingreq_recv_timeout_ms
    <3>1. "pingreq_server_keep_alive_ms" \in PingTimes
          /\ "pingreq_recv_timeout_ms" \in PingTimes \ {"pingreq_server_keep_alive_ms"}
      BY DEF PingTimes
    <3> HIDE DEF time
    <3> DEFINE e == [up EXCEPT !.ping["pingreq_server_keep_alive_ms"] = time]
    <3>2. /\ Call(e) /\ e.link = up.link /\ e.ev = up.ev /\ e.ping.armed = up.ping.armed
          /\ \A y \in PingTimes \ {"pingreq_server_keep_alive_ms"} : e.ping[y] = up.ping[y]
      BY ONLY <2>1, <3>1, TimeCall
    <3> QED BY ONLY <2>1, <3>1, <3>2
  <2> HIDE DEF b
  <2>3. Base(b) /\ b.link.status = "Connected"
    BY <2>1, <2>2 DEF Base, ConnShape, LinkRecord
  <2>4. Leads(b, timed) /\ timed.link = b.link /\ Call(timed)
    <3>1. "PingreqSend" \in TimerKind /\ "PingreqSend" # "PingreqRecv"
      BY DEF TimerKind
    <3>2. Leads(b, timed) /\ timed.link = b.link
      BY <2>2, <3>1, CancelFollows, ResetLeads, LeadsSelf
    <3> QED BY <3>2, LeadsCall
  <2> HIDE DEF timed
  <2>5. Leads(b, all) /\ all.link = b.link /\ Call(all)
    BY <1>0, <2>2, <2>4, StoredLeads, LeadsOn, LeadsCall
  <2> HIDE DEF all, max
  <2>6. PICK o \in {timed, all} : Returns(NotifyReceived(o, p))
    BY <1>2, OutReturns
  <2>7. Leads(b, o) /\ o.link = b.link /\ Call(o)
    BY <2>4, <2>5, <2>6
  <2>8. Arrives(b, p) /\ Watches
    BY <2>3, <2>6, <2>7, LeadsArrives
  <2>9. link' = o.link /\ ping' = o.ping
    BY <2>6, <2>7, ReceivedCall DEF Returns
  <2>10. o.ping.pingreq_recv_timeout_ms = ping.pingreq_recv_timeout_ms
    BY <2>2, <2>7 DEF Leads, Follows, PingTimes
  <2> QED BY <2>1, <2>2, <2>3, <2>7, <2>8, <2>9, <2>10
<1>3. \/ Out(NotifyReceived(self, p)) /\ UNCHANGED core
      \/ OutUnless(release_overflows(max), NotifyReceived(all, p))
      \/ Out(NotifyReceived(timed, p))
  BY DEF process_recv_connack
<1> QED BY <1>1, <1>2, <1>3

-----------------------------------------------------------------------------
\* PUBLISH received: an error, a duplicate that is only answered, or a message
\* that is notified and, with QoS 2, remembered.
LEMMA RecvPublish ==
  ASSUME ConnShape, NEW p, process_recv_publish(p)
  PROVE  /\ Watches
         /\ \/ Pushes(self)
            \/ \E q : /\ Arrives(self, q)
                      /\ \E t : q \in {p, [p EXCEPT !.topic = t]}
                      /\ p.qos = 2 => /\ p.pid \notin sess.qos2_publish_handled
                                      /\ sess' = [sess EXCEPT !.qos2_publish_handled = @ \cup {p.pid}]
<1>0. Call(self)
  BY SelfBase
<1>1. CASE \E e : Out(handle_error(self, e))
  BY <1>0, <1>1, ErrorLeads, CallReturns
<1> DEFINE already_handled == p.qos = 2 /\ p.pid \in sess.qos2_publish_handled
           responds == /\ link.status = "Connected"
                       /\ \/ p.qos = 1 /\ opts.auto_pub_response
                          \/ p.qos = 2 /\ (opts.auto_pub_response \/ already_handled)
           ack == Ack(IF p.qos = 1 THEN "puback" ELSE "pubrec", p.pid)
           full == IF V5 /\ p.topic = NoTopic
                   THEN [p EXCEPT !.topic = recv_get(alias.recv, p.alias)] ELSE p
           answered == IF responds THEN send_response(self, ack) ELSE self
           o == refresh_pingreq_recv(answered)
<1>2. CASE /\ Out(IF already_handled THEN o ELSE NotifyReceived(o, full))
           /\ sess' = IF p.qos = 2 THEN [sess EXCEPT !.qos2_publish_handled = @ \cup {p.pid}]
                      ELSE sess
  <2>1. Leads(self, answered) /\ Call(answered)
    BY <1>0, CallLeads, LeadsSelf, LeadsCall
  <2> HIDE DEF answered
  <2>2. Leads(self, o)
    BY <1>0, <2>1, CallLeads, LeadsOn
  <2> HIDE DEF o
  <2>3. \E t : full \in {p, [p EXCEPT !.topic = t]}
    OBVIOUS
  <2> HIDE DEF full
  <2>4. CASE already_handled
    <3>1. Out(o)
      BY <1>2, <2>4
    <3> QED BY <3>1, <2>2, CallReturns
  <2>5. CASE ~already_handled
    <3>1. Out(NotifyReceived(o, full))
      BY <1>2, <2>5
    <3>2. Arrives(self, full) /\ Watches
      BY <3>1, <2>2, CallReturns
    <3> QED BY <3>2, <2>3, <2>5, <1>2
  <2> QED BY <2>4, <2>5
<1> QED BY <1>1, <1>2 DEF process_recv_publish

LEMMA ResponseArrives ==
  ASSUME ConnShape, NEW p, NEW i, NEW b, response_ends(p, i, b)
  PROVE  Arrives(self, p) /\ Watches
<1>0. Call(self)
  BY SelfBase
<1> DEFINE a == NotifyReleased(self, {p.pid} \cap ids.man)
           o == refresh_pingreq_recv(a)
<1>1. Leads(self, a) /\ Call(a)
  BY <1>0, EventLeads, LeadsCall
<1> HIDE DEF a
<1>2. Leads(self, o)
  BY <1>0, <1>1, CallLeads, LeadsOn
<1> HIDE DEF o
<1>3. \E c : OutUnless(c, NotifyReceived(o, p))
  BY DEF response_ends, o, a
<1> QED BY <1>2, <1>3, CallReturns

LEMMA RecvPubrec ==
  ASSUME ConnShape, NEW p, process_recv_pubrec(p)
  PROVE  /\ Pushes(self) \/ Arrives(self, p)
         /\ Watches
<1>0. Call(self)
  BY SelfBase
<1>1. CASE unexpected_response \/ Panic
  BY <1>0, <1>1, ErrorLeads, CallReturns, PlainReturns DEF unexpected_response
<1>2. CASE \E i, b : response_ends(p, i, b)
  BY <1>2, ResponseArrives
<1> DEFINE awaiting == [ids EXCEPT !.pubrec = @ \ {p.pid}]
           erased == [sess EXCEPT !.store = erase(@, "pubrec", p.pid)]
           r == IF opts.auto_pub_response /\ link.status = "Connected"
                THEN pubrel(self, awaiting, erased, Ack("pubrel", p.pid))
                ELSE [out |-> self, ids |-> awaiting, sess |-> erased, panics |-> FALSE]
           o == refresh_pingreq_recv(r.out)
<1>3. CASE Out(NotifyReceived(o, p))
  <2> HIDE DEF awaiting, erased
  <2>1. Leads(self, pubrel(self, awaiting, erased, Ack("pubrel", p.pid)).out)
    BY <1>0, PubrelLeads
  <2>2. Leads(self, [out |-> self, ids |-> awaiting, sess |-> erased, panics |-> FALSE].out)
    BY <1>0, LeadsSelf
  <2>3. Leads(self, r.out) /\ Call(r.out)
    BY <2>1, <2>2, LeadsCall
  <2> HIDE DEF r
  <2>4. Leads(self, o)
    BY <1>0, <2>3, CallLeads, LeadsOn
  <2> HIDE DEF o
  <2> QED BY <1>3, <2>4, CallReturns
<1>4. \/ unexpected_response \/ Panic
      \/ \E i, b : response_ends(p, i, b)
      \/ Out(NotifyReceived(o, p))
  BY DEF process_recv_pubrec
<1> QED BY <1>1, <1>2, <1>3, <1>4

LEMMA RefusedPushes ==
  ASSUME ConnShape, NEW p, recv_refused(p)
  PROVE  Pushes(self) /\ Watches
<1>0. Call(self)
  BY SelfBase
<1> DEFINE d == disconnect(self, Plain("disconnect"))
<1>1. Leads(self, d) /\ Call(d)
  BY <1>0, DisconnectLeads, LeadsCall
<1> HIDE DEF d
<1>2. \A e : Leads(self, NotifyError(d, e))
  BY <1>0, <1>1, EventLeads, LeadsOn
<1>3. \A e : Out(NotifyError(d, e)) => Pushes(self) /\ Watches
  BY <1>2, CallReturns
<1> QED BY <1>3, PlainReturns DEF recv_refused, d

\* recv() of any other packet but DISCONNECT.
LEMMA RecvOther ==
  ASSUME ConnShape, NEW p, recv(p),
         p.type \notin {"connect", "connack", "publish", "disconnect"}
  PROVE  /\ Pushes(self) \/ Arrives(self, p)
         /\ Watches
<1>0. Call(self)
  BY SelfBase
<1>1. CASE unexpected_response
  BY <1>0, <1>1, ErrorLeads, CallReturns DEF unexpected_response
<1>2. CASE process_recv_puback(p) \/ process_recv_pubcomp(p) \/ process_recv_suback(p)
             \/ process_recv_unsuback(p)
  BY <1>1, <1>2, ResponseArrives DEF process_recv_puback, process_recv_pubcomp,
       process_recv_suback, process_recv_unsuback
<1>3. \A q, b : Leads(self, refresh_pingreq_recv(IF b THEN send_response(self, q) ELSE self))
  <2>1. ASSUME NEW q, NEW b
        PROVE  LET a == IF b THEN send_response(self, q) ELSE self
               IN  Leads(self, a) /\ Call(a)
    <3>1. Leads(self, send_response(self, q)) /\ Leads(self, self)
      BY <1>0, CallLeads, LeadsSelf
    <3> QED BY <3>1, LeadsCall
  <2> QED BY <1>0, <2>1, CallLeads, LeadsOn
<1>4. \A q, b : Out(NotifyReceived(
        refresh_pingreq_recv(IF b THEN send_response(self, q) ELSE self), p))
           => Arrives(self, p) /\ Watches
  BY <1>3, CallReturns
<1>5. CASE process_recv_pubrel(p)
  BY <1>4, <1>5 DEF process_recv_pubrel
<1>6. CASE process_recv_pingreq(p)
  BY <1>4, <1>6 DEF process_recv_pingreq
<1>7. CASE process_recv_notified(p)
  <2>1. Leads(self, refresh_pingreq_recv(self))
    BY <1>0, CallLeads
  <2> QED BY <1>7, <2>1, CallReturns DEF process_recv_notified
<1>8. CASE process_recv_pingresp(p)
  <2>1. "PingrespRecv" \in TimerKind /\ "PingrespRecv" # "PingreqRecv"
    BY DEF TimerKind
  <2>2. Leads(self, cancel(self, "PingrespRecv"))
    BY <1>0, <2>1, CancelFollows
  <2> QED BY <1>8, <2>2, CallReturns DEF process_recv_pingresp
<1>9. CASE process_recv_pubrec(p)
  BY <1>9, RecvPubrec
<1>10. CASE recv_refused(p)
  BY <1>10, RefusedPushes
<1> QED BY <1>2, <1>5, <1>6, <1>7, <1>8, <1>9, <1>10 DEF recv

\* DISCONNECT received: no timer is left, and the application is told to close.
LEMMA RecvDisconnect ==
  ASSUME ConnShape, NEW p, process_recv_disconnect(p), p.type = "disconnect"
  PROVE  Arrives(self, p) /\ Closes(events')
<1>0. Call(self)
  BY SelfBase
<1> DEFINE o == cancel_timers(self)
<1>1. Follows(self, o) /\ Call(o)
  BY <1>0, CancelTimers DEF Follows
<1> HIDE DEF o
<1>2. Returns(NotifyReceived(o, p))
  BY OutReturns DEF process_recv_disconnect, o
<1>3. Notified(NotifyReceived(o, p).ev, "disconnect")
  BY <1>1, ReceivedCall
<1> QED BY <1>1, <1>2, <1>3 DEF Arrives, Closes, Returns

\* A packet that does not parse; only a CONNECT may change the link otherwise, and then
\* decides the version if that was open.
LEMMA MalformedConnect ==
  ASSUME ConnShape, NEW a, Base(a), link.status = "Disconnected", Out(malformed_connect(a))
  PROVE  \E b : /\ Base(b) /\ Pushes(b) /\ b.link = [a.link EXCEPT !.status = "Connecting"]
               /\ (a.link.protocol_version = "V5" \/ Closes(events'))
<1> DEFINE b == Status(a, "Connecting")
           over == a.link.protocol_version = "V5" /\ AckSize > lim.send
           answered == IF over THEN NotifyError(b, "PacketTooLarge")
                       ELSE refuse_connack(b, Plain("connack"))
           o == NotifyError(answered, "MalformedPacket")
<1>1. Out(o)
  BY DEF malformed_connect
<1>2. /\ Call(b) /\ b.link = [a.link EXCEPT !.status = "Connecting"] /\ Base(b)
  BY StatusCall DEF Statuses, Base
<1> HIDE DEF b
<1>3. /\ Leads(b, answered) /\ Call(answered)
      /\ ~over => Closes(answered.ev)
  BY <1>2, EventLeads, RefusalLeads, LeadsCall
<1> HIDE DEF answered
<1>4. Leads(b, o) /\ (Closes(answered.ev) => Closes(o.ev))
  BY <1>2, <1>3, EventLeads, LeadsOn DEF Leads, Follows
<1> HIDE DEF o
<1>5. Pushes(b) /\ events' = o.ev
  BY <1>1, <1>2, <1>4, LeadsPushes, OutReturns DEF Returns
<1> QED BY <1>2, <1>3, <1>4, <1>5

\* What such a CONNECT makes of the link before it is refused.
Fumbled(l, v) == [[l EXCEPT !.protocol_version = v] EXCEPT !.status = "Connecting"]

LEMMA MalformedPushes ==
  ASSUME ConnShape, NEW p, recv_malformed(p)
  PROVE  \/ Pushes(self) /\ Watches
         \/ \E b, v : /\ Base(b) /\ Pushes(b) /\ link.status = "Disconnected"
                      /\ b.link = Fumbled(link, v)
                      /\ link.protocol_version \in {v, "Undetermined"} /\ v \in Versions
                      /\ (v = "V5" \/ Closes(events'))
<1>0. Call(self) /\ Base(self) /\ self.link = link /\ self.ping = ping /\ link \in LinkRecord
  BY SelfBase DEF ConnShape
<1>1. CASE \E e : Out(handle_error(self, e)) \/ Out(NotifyError(self, e))
  BY <1>0, <1>1, ErrorLeads, CallReturns, PlainReturns
<1>2. CASE Out(malformed_connect(self))
  <2>1. CASE link.status # "Disconnected"
    BY <1>1, <1>2, <2>1 DEF malformed_connect
  <2>2. CASE link.status = "Disconnected"
    <3> DEFINE v == link.protocol_version
    <3>1. /\ [link EXCEPT !.protocol_version = v] = link /\ v \in Versions
      BY <1>0 DEF LinkRecord
    <3>2. PICK b : /\ Base(b) /\ Pushes(b) /\ b.link = [self.link EXCEPT !.status = "Connecting"]
                   /\ (self.link.protocol_version = "V5" \/ Closes(events'))
      BY <1>0, <1>2, <2>2, MalformedConnect
    <3>3. b.link = Fumbled(link, v) /\ (v = "V5" \/ Closes(events'))
      BY <1>0, <3>1, <3>2 DEF Fumbled
    <3> HIDE DEF v
    <3>4. link.protocol_version = v
      BY DEF v
    <3> QED BY <2>2, <3>1, <3>2, <3>3, <3>4, Zenon
  <2> QED BY <2>1, <2>2
<1>3. CASE /\ link.protocol_version = "Undetermined" /\ link.status = "Disconnected"
           /\ p.version \in {"V3", "V5"}
           /\ Out(malformed_connect([self EXCEPT !.link.protocol_version = p.version]))
  <2> DEFINE a == [self EXCEPT !.link.protocol_version = p.version]
             v == p.version
  <2>1. Base(a) /\ a.link = [link EXCEPT !.protocol_version = v]
    <3>1. v \in Versions
      BY <1>3 DEF Versions
    <3> HIDE DEF v
    <3>2. /\ Call(a) /\ a.link = [self.link EXCEPT !.protocol_version = v]
          /\ a.ping = self.ping /\ a.ev = self.ev
      BY <1>0, <3>1, VersionCall DEF v
    <3> HIDE DEF a
    <3> QED BY <1>0, <3>2 DEF Base
  <2>2. a.link.protocol_version = v
    BY <1>0, <2>1 DEF LinkRecord
  <2>3. Out(malformed_connect(a))
    BY <1>3
  <2> HIDE DEF a, v
  <2>4. v \in Versions
    BY <1>3 DEF v, Versions
  <2>5. PICK b : /\ Base(b) /\ Pushes(b) /\ b.link = [a.link EXCEPT !.status = "Connecting"]
                 /\ (a.link.protocol_version = "V5" \/ Closes(events'))
    BY <1>3, <2>1, <2>3, MalformedConnect
  <2>6. b.link = Fumbled(link, v) /\ (v = "V5" \/ Closes(events'))
    BY <2>1, <2>2, <2>5 DEF Fumbled
  <2> QED BY <1>3, <2>4, <2>5, <2>6, Zenon
<1> QED BY <1>1, <1>2, <1>3 DEF recv_malformed

LEMMA FramingPushes ==
  ASSUME ConnShape, recv_framing_error
  PROVE  Pushes(self) /\ Closes(events')
<1>0. Call(self)
  BY SelfBase
<1> DEFINE a == cancel_timers(self)
           b == RequestClose(a)
           o == NotifyError(b, "MalformedPacket")
<1>1. Follows(self, a) /\ Call(a)
  BY <1>0, CancelTimers DEF Follows
<1> HIDE DEF a
<1>2. Follows(a, b) /\ Call(b) /\ Closes(b.ev)
  BY <1>1, EventLeads, LeadsCall, ClosesNow
<1> HIDE DEF b
<1>3. Follows(b, o) /\ Closes(o.ev)
  BY <1>2, EventLeads, LeadsCall, ClosesNow DEF NotifyError
<1> HIDE DEF o
<1>4. Follows(self, o)
  BY <1>0, <1>1, <1>2, <1>3, FollowsOn
<1>5. Returns(o)
  BY OutReturns DEF recv_framing_error, o, b, a
<1> QED BY <1>3, <1>4, <1>5 DEF Pushes, Returns

-----------------------------------------------------------------------------
\* The close of the transport ends the connection and its timers.
LEMMA ClosedPushes ==
  ASSUME ConnShape, notify_closed
  PROVE  \E b : /\ Base(b) /\ Pushes(b) /\ b.link = Down(link)
               /\ link' = b.link /\ ping'.armed = {}
<1>0. Call(self) /\ Base(self) /\ self.link = link /\ self.ping = ping
  BY SelfBase
<1> DEFINE pids == ((ids.suback \cup ids.unsuback) \cup
                      (IF sess.need_store THEN {} ELSE ids.puback \cup ids.pubrec \cup ids.pubcomp))
                     \cap ids.man
           b == Status(self, "Disconnected")
           a == NotifyReleased(b, pids)
           o == cancel_timers(a)
<1>1. /\ Call(b) /\ b.link = Down(link) /\ b.ping = ping /\ b.ev = <<>>
  BY <1>0, StatusCall DEF Statuses, Base, Down
<1>2. Out(o)
  BY DEF notify_closed
<1> HIDE DEF b, pids
<1>3. Follows(b, a) /\ Call(a) /\ a.link = b.link
  BY <1>1, EventLeads, LeadsCall
<1> HIDE DEF a
<1>4. Follows(b, o) /\ o.link = b.link /\ o.ping.armed = {}
  BY <1>1, <1>3, CancelTimers, FollowsOn
<1> HIDE DEF o
<1>5. Returns(o)
  BY <1>2, OutReturns
<1> QED BY <1>1, <1>4, <1>5 DEF Base, Pushes, Returns

LEMMA DisarmedCall ==
  ASSUME NEW o, Call(o), NEW kind
  PROVE  LET f == [o EXCEPT !.ping.armed = @ \ {kind}]
         IN  /\ Call(f) /\ f.link = o.link /\ f.ev = o.ev
             /\ f.ping.armed = o.ping.armed \ {kind}
             /\ f.ping.pingreq_recv_timeout_ms = o.ping.pingreq_recv_timeout_ms
<1> DEFINE f == [o EXCEPT !.ping.armed = @ \ {kind}]
           g == [o.ping EXCEPT !.armed = @ \ {kind}]
<1>1. f = [link |-> o.link, ping |-> g, ev |-> o.ev]
  BY DEF Call
<1>2. /\ DOMAIN g = DOMAIN o.ping /\ g.armed = o.ping.armed \ {kind}
      /\ g.pingreq_recv_timeout_ms = o.ping.pingreq_recv_timeout_ms
  BY DEF Call, PingTimes
<1> HIDE DEF f, g
<1>3. f.link = o.link /\ f.ping = g /\ f.ev = o.ev
  BY <1>1
<1>4. Call(f)
  BY <1>1, <1>2, <1>3 DEF Call
<1> QED BY <1>2, <1>3, <1>4 DEF f

\* A timer that fired does not run; the one that watches the peer closes.
Disarms(b, kind) == /\ Call(b) /\ b.ev = <<>> /\ b.ping.armed = ping.armed \ {kind}
                    /\ b.link = link
                    /\ b.ping.pingreq_recv_timeout_ms = ping.pingreq_recv_timeout_ms

LEMMA FiredPushes ==
  ASSUME ConnShape, NEW kind \in TimerKind, notify_timer_fired(kind)
  PROVE  /\ \E b, o : Disarms(b, kind) /\ Leads(b, o) /\ Returns(o)
         /\ kind = "PingreqRecv" /\ ~V5 => Closes(events')
<1>0. Call(self) /\ Base(self) /\ self.link = link /\ self.ping = ping
  BY SelfBase
<1> DEFINE b == [self EXCEPT !.ping.armed = @ \ {kind}]
<1>3. notify_timer_fired(kind) <=>
      /\ \/ /\ kind = "PingreqSend"
            /\ Out(IF link.status = "Connected" THEN pingreq(b, Plain("pingreq")) ELSE b)
         \/ /\ kind # "PingreqSend" /\ link.protocol_version # "Undetermined"
            /\ Out(IF ~V5 THEN RequestClose(b)
                   ELSE IF link.status = "Connected" THEN disconnect(b, Plain("disconnect")) ELSE b)
      /\ UNCHANGED core
  BY DEF notify_timer_fired
<1>6. /\ Call(b) /\ b.link = link /\ b.ev = <<>> /\ b.ping.armed = ping.armed \ {kind}
      /\ b.ping.pingreq_recv_timeout_ms = ping.pingreq_recv_timeout_ms
  <2>1. /\ Call(b) /\ b.link = self.link /\ b.ev = self.ev
        /\ b.ping.armed = self.ping.armed \ {kind}
        /\ b.ping.pingreq_recv_timeout_ms = self.ping.pingreq_recv_timeout_ms
    BY ONLY <1>0, DisarmedCall
  <2>2. self.ev = <<>>
    BY <1>0 DEF Base
  <2> HIDE DEF b
  <2> QED BY ONLY <1>0, <2>1, <2>2
<1> HIDE DEF b
<1>7. /\ Leads(b, b) /\ Leads(b, pingreq(b, Plain("pingreq"))) /\ Leads(b, RequestClose(b))
      /\ Leads(b, disconnect(b, Plain("disconnect"))) /\ Closes(RequestClose(b).ev)
  BY <1>6, LeadsSelf, CallLeads, EventLeads, DisconnectLeads, ClosesNow
<1>8. \E o : Leads(b, o) /\ Out(o) /\ (kind = "PingreqRecv" /\ ~V5 => Closes(o.ev))
  BY <1>3, <1>7
<1>9. PICK o : Leads(b, o) /\ Out(o) /\ (kind = "PingreqRecv" /\ ~V5 => Closes(o.ev))
  BY <1>8
<1>10. Returns(o)
  BY <1>9, OutReturns
<1>11. Disarms(b, kind)
  BY <1>6 DEF Disarms
<1>12. events' = o.ev
  BY <1>10 DEF Returns
<1> QED BY <1>9, <1>10, <1>11, <1>12

LEMMA IntervalPushes ==
  ASSUME ConnShape, NEW ms, set_pingreq_send_interval(ms)
  PROVE  Pushes(self) /\ Watches
<1>0. Call(self)
  BY SelfBase
<1>1. "PingreqSend" \in TimerKind /\ "PingreqSend" # "PingreqRecv"
  BY DEF TimerKind
<1>2. /\ Leads(self, self) /\ Leads(self, cancel(self, "PingreqSend"))
      /\ Leads(self, reset(self, "PingreqSend", ms))
  BY <1>0, <1>1, LeadsSelf, CancelFollows, ResetLeads
<1>3. \E o : Leads(self, o) /\ Out(o)
  BY <1>2 DEF set_pingreq_send_interval
<1> QED BY <1>3, CallReturns

-----------------------------------------------------------------------------
\* The session keeps its shape, and store.add and erase leave a list.
SessShape(s) == /\ {"need_store", "store", "qos2_publish_handled"} \subseteq DOMAIN s
                /\ IsList(s.store)

LEMMA EraseIsList ==
  ASSUME NEW s, IsList(s), NEW response, NEW pid
  PROVE  IsList(erase(s, response, pid))
<1>1. CASE erasable(s, response, pid) = {}
  BY <1>1 DEF erase
<1>2. CASE erasable(s, response, pid) # {}
  <2> DEFINE n == CHOOSE i \in erasable(s, response, pid) : TRUE
  <2>1. n \in DOMAIN s
    BY <1>2 DEF erasable
  <2>2. erase(s, response, pid) = SubSeq(s, 1, n - 1) \o SubSeq(s, n + 1, Len(s))
    BY <1>2 DEF erase, RemoveAt
  <2> HIDE DEF n
  <2>3. PICK S : s \in Seq(S)
    BY DEF IsList
  <2>4. n \in 1..Len(s) /\ Len(s) \in Nat
    BY <2>1, <2>3
  <2>5. SubSeq(s, 1, n - 1) \in Seq(S) /\ SubSeq(s, n + 1, Len(s)) \in Seq(S)
    BY <2>3, <2>4
  <2>6. SubSeq(s, 1, n - 1) \o SubSeq(s, n + 1, Len(s)) \in Seq(S)
    BY <2>5, ConcatProperties
  <2> QED BY <2>2, <2>6 DEF IsList
<1> QED BY <1>1, <1>2

\* What a call may make of the session besides the ids of handled messages.
LEMMA SessKept ==
  ASSUME NEW s, SessShape(s)
  PROVE  /\ \A p : LET t == [s EXCEPT !.store = Append(@, p)]
                  IN  SessShape(t) /\ t.qos2_publish_handled = s.qos2_publish_handled
         /\ \A response, pid :
              LET t == [s EXCEPT !.store = erase(@, response, pid)]
              IN  SessShape(t) /\ t.qos2_publish_handled = s.qos2_publish_handled
         /\ \A x : IsList(x) => LET t == [s EXCEPT !.store = x]
                  IN  SessShape(t) /\ t.qos2_publish_handled = s.qos2_publish_handled
         /\ \A h : LET t == [s EXCEPT !.qos2_publish_handled = h]
                  IN  SessShape(t) /\ t.qos2_publish_handled = h
<1>1. ASSUME NEW x, IsList(x)
      PROVE  LET t == [s EXCEPT !.store = x]
             IN  SessShape(t) /\ t.qos2_publish_handled = s.qos2_publish_handled
  BY <1>1 DEF SessShape
<1>2. \A p : IsList(Append(s.store, p))
  BY ListFacts DEF SessShape
<1>3. \A response, pid : IsList(erase(s.store, response, pid))
  BY EraseIsList DEF SessShape
<1>4. ASSUME NEW h
      PROVE  LET t == [s EXCEPT !.qos2_publish_handled = h]
             IN  SessShape(t) /\ t.qos2_publish_handled = h
  BY DEF SessShape
<1> QED BY <1>1, <1>2, <1>3, <1>4
=============================================================================
