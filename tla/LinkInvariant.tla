--------------------------- MODULE LinkInvariant ----------------------------
(***************************************************************************)
(* The inductive invariant of two endpoints that keep a session: what the  *)
(* two connections, the packets between them and the messages say of each  *)
(* other.  LinkProofs proves it for any messages, ids and faults, and that *)
(* the link implements Delivery.                                           *)
(***************************************************************************)
EXTENDS Link

\* Messages are taken only from applications that know the session, and a transport
\* that closes before CONNECT is not reported.
CarefulSides == BeforeSession = FALSE /\ BeforeConnect = FALSE

flow(side)  == IF side = "client" THEN c_flow ELSE s_flow
lim(side)   == IF side = "client" THEN c_lim ELSE s_lim
alias(side) == IF side = "client" THEN c_alias ELSE s_alias
ping(side)  == IF side = "client" THEN c_ping ELSE s_ping

status(side)  == link(side).status
store(side)   == sess(side).store
handled(side) == sess(side).qos2_publish_handled
Stored(side)  == C!ToSet(store(side))
On(side)      == C!ToSet(wire[side])

Requests  == {"publish", "pubrel"}
Responses == {"puback", "pubrec", "pubcomp"}

-----------------------------------------------------------------------------
\* What no CONNECT and CONNACK of the link ever changes: there are no limits, aliases
\* or timers.  A connection that is not disconnected, or publishes offline, stores.
NoAlias  == [send |-> C!NoTopicAliasSend, recv |-> C!NoTopicAliasRecv]
NoLimits == [send |-> C!NoLimit, recv |-> C!NoLimit]
NoPing   == [pingreq_keep_alive_ms |-> 0, pingreq_server_keep_alive_ms |-> C!None,
             pingreq_recv_timeout_ms |-> 0, armed |-> {}]
NoFlow(pids) == [send_max |-> C!None, send_count |-> 0, recv_max |-> C!None, recv |-> pids]
Options(offline, auto) ==
  [offline_publish |-> offline, auto_pub_response |-> auto,
   auto_ping_response |-> FALSE, auto_map_topic_alias_send |-> FALSE,
   auto_replace_topic_alias_send |-> FALSE,
   pingreq_user_send_interval_ms |-> C!None, pingresp_recv_timeout_ms |-> 0]
Plain(side) ==
  /\ alias(side) = NoAlias /\ lim(side) = NoLimits /\ ping(side) = NoPing
  /\ flow(side) = NoFlow(flow(side).recv)
  /\ \E offline, auto \in BOOLEAN : opts(side) = Options(offline, auto)
  /\ \E s \in C!Statuses, i \in BOOLEAN, v \in {Version, "Undetermined"} :
       link(side) = [status |-> s, is_client |-> i, protocol_version |-> v]
  /\ \E n \in BOOLEAN : sess(side) = [need_store |-> n, store |-> store(side),
                                      qos2_publish_handled |-> handled(side)]
  /\ opts(side).offline_publish \/ status(side) # "Disconnected" => sess(side).need_store
  /\ status(side) # "Disconnected" \/ side = "client" => link(side).protocol_version = Version

\* The ids in use are those of the stored packets, which await their responses, and
\* the one the application holds.
IdsType == [man : SUBSET C!PacketIds, suback : {{}}, unsuback : {{}},
            puback : SUBSET C!PacketIds, pubrec : SUBSET C!PacketIds, pubcomp : SUBSET C!PacketIds]
Awaited(i, Q, hold) ==
  /\ i \in IdsType
  /\ i.man = {q.pid : q \in Q} \cup ({hold} \ {0})
  /\ \A response \in Responses :
       i[response] = {q.pid : q \in {r \in Q : C!response_packet(r) = response}}
DistinctIds(s) == \A i, j \in DOMAIN s : s[i].pid = s[j].pid => i = j
StoreInv(side) ==
  /\ store(side) \in Seq(Stored(side)) /\ DistinctIds(store(side))
  /\ held[side] \in 0..MaxId /\ \A q \in Stored(side) : q.pid # held[side]
  /\ Awaited(ids(side), Stored(side), held[side])

-----------------------------------------------------------------------------
(***************************************************************************)
(* The exchanges of one side's messages.  Q is its store; Asked are its    *)
(* requests and Answered the responses to it that are on the way; H are    *)
(* the ids the receiver has handled; own[pid] is the message that the id   *)
(* was used for last; the live messages are accepted and not settled.      *)
(***************************************************************************)
\* A stored packet is of a live message: its PUBLISH, or its PUBREL once the message
\* was delivered; and every live message has one.
Books(side, Q, own, live, dlv) ==
  /\ \A q \in Q :
       /\ q.pid \in C!PacketIds /\ own[q.pid] \in live /\ own[q.pid].from = side
       /\ \/ q = Publish(own[q.pid], q.pid)
          \/ q = C!Ack("pubrel", q.pid) /\ own[q.pid].qos = 2 /\ dlv[own[q.pid]] > 0
  /\ \A q, r \in Q : q.pid = r.pid \/ own[q.pid] = own[r.pid] => q = r
  /\ \A m \in live : m.from = side => \E q \in Q : own[q.pid] = m

\* A response is to a stored packet, and says the truth about the receiver.
Answers(r, q, H, own, dlv) ==
  /\ q.pid = r.pid /\ C!response_packet(q) = r.type
  /\ r = [type |-> r.type, pid |-> r.pid, ok |-> r.ok, size |-> C!AckSize]
  /\ r.type = "puback" => dlv[own[r.pid]] > 0
  /\ r.type = "pubrec" => r.ok = TRUE /\ r.pid \in H
  /\ r.type = "pubcomp" => r.pid \notin H

\* Of an exchange there is one packet on the way, and it is in step with the sender's
\* store and the receiver's handled ids.
InStep(Q, Asked, Answered, H, own, dlv) ==
  /\ Asked \subseteq Q
  /\ \A r \in Answered : \E q \in Q : Answers(r, q, H, own, dlv)
  /\ \A p \in Asked, r \in Answered : p.pid # r.pid
  /\ \A pid \in H : \E q \in Q : q.pid = pid /\ C!response_packet(q) # "puback"
  /\ \A q \in Q : C!response_packet(q) = "pubrec" =>
       dlv[own[q.pid]] = IF q.pid \in H THEN 1 ELSE 0

Asked(side)    == {p \in On(Other(side)) : p.type \in Requests}
Answered(side) == {r \in On(side) : r.type \in Responses}
ExchangeInv(side) ==
  /\ Books(side, Stored(side), owner[side], accepted \ settled, delivered)
  /\ InStep(Stored(side), Asked(side), Answered(side), handled(Other(side)),
            owner[side], delivered)

MessagesInv ==
  /\ accepted \subseteq Messages /\ settled \subseteq accepted
  /\ delivered \in [Messages -> 0..2]
  /\ owner \in [Sides -> [C!PacketIds -> Messages \cup {NoMessage}]]
  /\ DOMAIN held = Sides
  /\ \A m \in Messages \ accepted : delivered[m] = 0

-----------------------------------------------------------------------------
\* No two packets on the way are requests, or responses, of the same exchange.
Alike(p, r) == /\ \/ p.type \in Requests /\ r.type \in Requests
                  \/ p.type \in Responses /\ r.type \in Responses
               /\ p.pid = r.pid
Once(w) == \A i, j \in DOMAIN w : Alike(w[i], w[j]) => i = j
TransportInv ==
  /\ DOMAIN wire = Sides /\ \A side \in Sides : wire[side] \in Seq(On(side)) /\ Once(wire[side])
  /\ open \in BOOLEAN /\ attached \subseteq Sides
  /\ open => attached = Sides
  /\ \A side \in Sides : IF side \in attached THEN Configured(side)
                         ELSE status(side) = "Disconnected" /\ wire[side] = <<>>

\* CONNECT and CONNACK come before the packets of the exchanges.
Exchanges(w) == \A i \in DOMAIN w : w[i].type \in Requests \cup Responses
ConnackThenRequests(w) ==
  /\ w # <<>> /\ w[1] \in {Connack(TRUE), Connack(FALSE)}
  /\ \A i \in DOMAIN w : i # 1 => w[i].type \in Requests
HandshakeInv ==
  /\ status("client") = "Disconnected" =>
       /\ wire["client"] = <<>>
       /\ "client" \in attached => wire["server"] = <<>> /\ status("server") = "Disconnected"
  /\ status("client") = "Connecting" =>
       /\ wire["server"] \in {<<>>, <<Connect>>}
       /\ wire["client"] = <<>> \/ ConnackThenRequests(wire["client"])
  /\ status("client") = "Connected" => Exchanges(wire["client"])
  /\ status("server") = "Disconnected" => wire["server"] \in {<<>>, <<Connect>>}
  /\ status("server") = "Connecting" => wire["server"] = <<>>
  /\ status("server") = "Connected" => Exchanges(wire["server"])
  /\ open /\ status("server") = "Disconnected" =>
       wire["client"] = <<>> /\ status("client") # "Connected"
  /\ open /\ status("server") = "Connecting" =>
       wire["client"] = <<>> /\ status("client") = "Connecting"
  /\ open /\ status("server") = "Connected" =>
       /\ status("client") # "Disconnected"
       /\ status("client") = "Connecting" => wire["client"] # <<>>

\* A CONNACK without the session finds a client that has nothing to lose.
SessionInv ==
  /\ session \in {{}, {"server"}, Sides}
  /\ \A side \in Sides : side \notin session =>
       store(side) = <<>> /\ held[side] = 0 /\ status(side) # "Connected"
  /\ wire["client"] # <<>> => "server" \in session
  /\ Connack(FALSE) \in On("client") => "client" \notin session

LinkInv ==
  /\ \A side \in Sides : Plain(side) /\ StoreInv(side) /\ ExchangeInv(side)
  /\ TransportInv /\ HandshakeInv /\ SessionInv /\ MessagesInv
  /\ NoError
=============================================================================
