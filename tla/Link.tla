-------------------------------- MODULE Link --------------------------------
(***************************************************************************)
(* A client and a server, both GenericConnection, that keep a session over *)
(* transports which break and processes which crash.  The applications     *)
(* publish messages of QoS 1 and 2, with automatic responses; whatever     *)
(* their connections ask to be sent goes to the other side in order, until *)
(* the transport breaks and loses the end of it.  Neither side learns of   *)
(* the break at once, nor at the same time as the other.                   *)
(***************************************************************************)
EXTENDS Naturals, Sequences, FiniteSets

CONSTANTS
  Version,       \* "V3" or "V5"
  Messages,      \* records: name (its topic), from (the side that sends it), qos
  MaxId, CountMod,
  Offline,       \* the sides whose application uses set_offline_publish(true)
  BeforeSession, \* messages may be queued before there is a session
  BeforeConnect, \* a transport that closes before CONNECT is reported too
  MaxFaults      \* breaks of a transport, and crashes

Sides == {"client", "server"}

ASSUME LinkAssumption ==
  /\ Version \in {"V3", "V5"} /\ MaxId \in Nat \ {0} /\ CountMod \in Nat \ {0}
  /\ \A m \in Messages : m.name # "" /\ m.from \in Sides /\ m.qos \in {1, 2}
  /\ \A m, n \in Messages : m.name = n.name => m = n

Other(side) == IF side = "client" THEN "server" ELSE "client"
Topics == {m.name : m \in Messages}

VARIABLES
  \* the fields of the client's connection and of the server's
  c_link, c_ids, c_sess, c_flow, c_lim, c_alias, c_ping, c_opts, c_events, c_panicked,
  s_link, s_ids, s_sess, s_flow, s_lim, s_alias, s_ping, s_opts, s_events, s_panicked,
  wire,       \* the packets on their way to each side
  open,       \* the transport carries what is sent
  attached,   \* the sides that have not been told that it closed
  session,    \* the sides that know the session: the server's application since it
              \* answered a CONNECT, the client's since it saw an answer
  held,       \* the id each application has acquired for its next message, or 0
  owner,      \* the message each id was used for last
  faults,     \* how many faults there were
  accepted, delivered, settled    \* as in Delivery

C == INSTANCE Connection WITH
       Role <- "Client", InitVersion <- Version, link <- c_link, ids <- c_ids, sess <- c_sess,
       flow <- c_flow, lim <- c_lim, alias <- c_alias, ping <- c_ping, opts <- c_opts,
       events <- c_events, panicked <- c_panicked
S == INSTANCE Connection WITH
       Role <- "Server", InitVersion <- "Undetermined", link <- s_link, ids <- s_ids,
       sess <- s_sess, flow <- s_flow, lim <- s_lim, alias <- s_alias, ping <- s_ping,
       opts <- s_opts, events <- s_events, panicked <- s_panicked

D == INSTANCE Delivery WITH Qos <- [m \in Messages |-> m.qos]

c_kept  == <<c_link, c_ids, c_sess, c_flow, c_lim, c_alias, c_ping, c_opts, c_panicked>>
s_kept  == <<s_link, s_ids, s_sess, s_flow, s_lim, s_alias, s_ping, s_opts, s_panicked>>
netVars == <<wire, open, attached, faults>>
appVars == <<session, held, owner, accepted, delivered, settled>>
vars    == <<c_kept, c_events, s_kept, s_events, netVars, appVars>>

\* What is read of the connection of either side.
link(side)   == IF side = "client" THEN c_link ELSE s_link
ids(side)    == IF side = "client" THEN c_ids ELSE s_ids
sess(side)   == IF side = "client" THEN c_sess ELSE s_sess
opts(side)   == IF side = "client" THEN c_opts ELSE s_opts
events(side) == IF side = "client" THEN c_events ELSE s_events

-----------------------------------------------------------------------------
(***************************************************************************)
(* The packets of the applications, and the calls on a side's connection.  *)
(***************************************************************************)
Connect == [type |-> "connect", version |-> Version, clean |-> FALSE, keep_alive |-> 0,
            ta_max |-> C!None, recv_max |-> C!None, max_size |-> C!None,
            expiry |-> IF Version = "V5" THEN 1 ELSE C!None, size |-> C!AckSize]
Connack(session_present) ==
  [type |-> "connack", ok |-> TRUE, session_present |-> session_present,
   ta_max |-> C!None, recv_max |-> C!None, max_size |-> C!None,
   server_keep_alive |-> C!None, size |-> C!AckSize]
Publish(m, pid) == [type |-> "publish", qos |-> m.qos, pid |-> pid, size |-> C!AckSize,
                    topic |-> m.name, alias |-> 0]

\* The other side makes no call: the events it returned have been dealt with.
Idle(side) ==
  IF side = "client"
  THEN c_events' = <<>> /\ UNCHANGED c_kept
  ELSE s_events' = <<>> /\ UNCHANGED s_kept

send(side, p) ==
  /\ IF side = "client" THEN C!send(p) ELSE S!send(p)
  /\ Idle(Other(side))
recv(side, p) ==
  /\ IF side = "client" THEN C!recv(p) ELSE S!recv(p)
  /\ Idle(Other(side))
notify_closed(side) ==
  /\ IF side = "client" THEN C!notify_closed ELSE S!notify_closed
  /\ Idle(Other(side))
acquire_packet_id(side, pid) ==
  /\ IF side = "client" THEN C!acquire_packet_id(pid) ELSE S!acquire_packet_id(pid)
  /\ Idle(Other(side))
set_auto_pub_response(side) ==
  /\ IF side = "client" THEN C!set_option("auto_pub_response", TRUE)
     ELSE S!set_option("auto_pub_response", TRUE)
  /\ Idle(Other(side))
set_offline_publish(side) ==
  /\ IF side = "client" THEN C!set_offline_publish(TRUE) ELSE S!set_offline_publish(TRUE)
  /\ Idle(Other(side))
restore(side) ==
  /\ IF side = "client" THEN C!restore(c_sess.store, c_sess.qos2_publish_handled)
     ELSE S!restore(s_sess.store, s_sess.qos2_publish_handled)
  /\ Idle(Other(side))

-----------------------------------------------------------------------------
(***************************************************************************)
(* What the I/O layer and the application of a side do with the events.    *)
(***************************************************************************)
Of(evs, event) == {i \in DOMAIN evs : evs[i].event = event}
Sent(evs) ==
  LET at     == Of(evs, "RequestSendPacket")
      nth(k) == CHOOSE i \in at : Cardinality({j \in at : j <= i}) = k
  IN  [k \in 1..Cardinality(at) |-> evs[nth(k)].packet]
Released(evs) == UNION {evs[i].pids : i \in {j \in DOMAIN evs :
                           evs[j].event = "NotifyPacketIdReleased"}}
Notified(evs, type) == {evs[i].packet : i \in {j \in DOMAIN evs :
                           evs[j].event = "NotifyPacketReceived" /\ evs[j].packet.type = type}}

\* The packets go out, if the transport carries them; it is closed on request, and
\* nothing more is read from it.
Transmits(side, inbound) ==
  LET evs == events(side)'
  IN  /\ open' = (open /\ Of(evs, "RequestClose") = {})
      /\ wire' = [wire EXCEPT ![side] = IF Of(evs, "RequestClose") = {} THEN inbound ELSE <<>>,
                              ![Other(side)] = IF open THEN @ \o Sent(evs) ELSE @]

\* A PUBLISH is handed to the application, and an id that is given back ends the
\* exchange of its message.
Reports(side) ==
  LET evs == events(side)'
      names == {p.topic : p \in Notified(evs, "publish")}
  IN  /\ delivered' = [m \in Messages |-> IF m.name \in names THEN D!Again(delivered[m])
                                          ELSE delivered[m]]
      /\ settled' = settled \cup ({owner[side][pid] : pid \in Released(evs)} \cap Messages)

NoMessage == [name |-> "", from |-> "", qos |-> 0]

-----------------------------------------------------------------------------
Init ==
  /\ C!ConnInit /\ S!ConnInit
  /\ wire = [side \in Sides |-> <<>>] /\ open = FALSE /\ attached = {} /\ faults = 0
  /\ session = {} /\ held = [side \in Sides |-> 0]
  /\ owner = [side \in Sides |-> [pid \in C!PacketIds |-> NoMessage]]
  /\ accepted = {} /\ delivered = [m \in Messages |-> 0] /\ settled = {}

Configured(side) == /\ opts(side).auto_pub_response
                    /\ opts(side).offline_publish = (side \in Offline)

Configure(side) ==
  /\ \/ ~opts(side).auto_pub_response /\ set_auto_pub_response(side)
     \/ /\ side \in Offline /\ opts(side).auto_pub_response /\ ~opts(side).offline_publish
        /\ set_offline_publish(side)
  /\ UNCHANGED <<netVars, appVars>>

Open ==
  /\ attached = {} /\ \A side \in Sides : Configured(side)
  /\ open' = TRUE /\ attached' = Sides /\ wire' = [side \in Sides |-> <<>>]
  /\ Idle("client") /\ Idle("server")
  /\ UNCHANGED <<faults, appVars>>

SendConnect ==
  /\ "client" \in attached /\ c_link.status = "Disconnected"
  /\ send("client", Connect)
  /\ Transmits("client", wire["client"])
  /\ UNCHANGED <<attached, faults, appVars>>

SendConnack ==
  /\ "server" \in attached /\ s_link.status = "Connecting"
  /\ send("server", Connack("server" \in session))
  /\ session' = session \cup {"server"}
  /\ Transmits("server", wire["server"])
  /\ UNCHANGED <<attached, faults, held, owner, accepted, delivered, settled>>

\* The application publishes as long as there is a session; while disconnected only
\* if it asked for that.
MayPublish(side) ==
  /\ Configured(side)
  /\ side \in session \/ (BeforeSession /\ link(side).status = "Disconnected")
  /\ side \in Offline \/ link(side).status # "Disconnected"
  /\ link(side).protocol_version # "Undetermined"

Acquire(side, pid) ==
  /\ held[side] = 0 /\ MayPublish(side)
  /\ \E m \in Messages \ accepted : m.from = side
  /\ acquire_packet_id(side, pid)
  /\ held' = [held EXCEPT ![side] = pid]
  /\ UNCHANGED <<netVars, session, owner, accepted, delivered, settled>>

AppPublish(m) ==
  LET side == m.from
      pid  == held[side]
  IN  /\ m \notin accepted /\ pid # 0 /\ MayPublish(side)
      /\ send(side, Publish(m, pid))
      /\ Transmits(side, wire[side])
      /\ held' = [held EXCEPT ![side] = 0]
      /\ IF Of(events(side)', "NotifyError") = {}
         THEN accepted' = accepted \cup {m} /\ owner' = [owner EXCEPT ![side][pid] = m]
         ELSE UNCHANGED <<accepted, owner>>
      /\ UNCHANGED <<attached, faults, session, delivered, settled>>

\* The next packet of the transport reaches the connection.
Receive(side) ==
  /\ side \in attached /\ wire[side] # <<>>
  /\ recv(side, Head(wire[side]))
  /\ Transmits(side, Tail(wire[side]))
  /\ Reports(side)
  /\ session' = IF Notified(events(side)', "connack") # {} THEN session \cup {side} ELSE session
  /\ UNCHANGED <<attached, faults, held, owner, accepted>>

Prefixes(s) == {SubSeq(s, 1, n) : n \in 0..Len(s)}

\* The transport breaks: the last packets of each direction never arrive.
Break ==
  /\ open /\ faults < MaxFaults
  /\ open' = FALSE /\ faults' = faults + 1
  /\ \E in \in Prefixes(wire["client"]), out \in Prefixes(wire["server"]) :
       wire' = [client |-> in, server |-> out]
  /\ Idle("client") /\ Idle("server")
  /\ UNCHANGED <<attached, appVars>>

\* A side is told of the close, when it has read what arrived or before.
Close(side) ==
  /\ side \in attached /\ ~open
  /\ IF link(side).status # "Disconnected" \/ BeforeConnect THEN notify_closed(side)
     ELSE Idle("client") /\ Idle("server")
  /\ wire' = [wire EXCEPT ![side] = <<>>]
  /\ attached' = attached \ {side}
  /\ Reports(side)
  /\ UNCHANGED <<open, faults, session, held, owner, accepted>>

\* The process of one side dies, its transport with it, and comes back with the
\* stored packets and the handled ids.
Crash(side) ==
  /\ faults < MaxFaults /\ Configured(side)
  /\ faults' = faults + 1
  /\ restore(side)
  /\ open' = FALSE /\ attached' = attached \ {side}
  /\ \E rest \in Prefixes(wire[Other(side)]) :
       wire' = [wire EXCEPT ![side] = <<>>, ![Other(side)] = rest]
  /\ held' = [held EXCEPT ![side] = 0]
  /\ UNCHANGED <<session, owner, accepted, delivered, settled>>

Next ==
  \/ Open \/ SendConnect \/ SendConnack \/ Break
  \/ \E side \in Sides : Configure(side) \/ Receive(side) \/ Close(side) \/ Crash(side)
  \/ \E side \in Sides, pid \in C!PacketIds : Acquire(side, pid)
  \/ \E m \in Messages : AppPublish(m)

\* The transport moves on and reports its end, the applications set up a connection
\* again, and there are finitely many faults.  Whether they publish is up to them.
Fairness ==
  /\ WF_vars(Open) /\ WF_vars(SendConnect) /\ WF_vars(SendConnack)
  /\ \A side \in Sides : WF_vars(Configure(side)) /\ WF_vars(Receive(side)) /\ WF_vars(Close(side))

Spec == Init /\ [][Next]_vars /\ Fairness

-----------------------------------------------------------------------------
\* The link implements Delivery: in spite of breaks and crashes a message of QoS 2 is
\* delivered once and one of QoS 1 at least once, and a packet id is given back only
\* after its message was delivered.
DeliverySpec == D!Spec

\* Every accepted message is delivered and settled in the end: after the last fault the
\* resumed session sends what is stored and the exchanges run to their end.
Progress == D!Live

\* No side ever accuses the other, or refuses its own application: the answers of one
\* connection are the ones the other waits for, also after a resumed session.
NoError == \A side \in Sides : Of(events(side), "NotifyError") = {}

\* What was accepted and not settled can be sent again: the message is in the store of
\* its sender, or it was delivered and its PUBREL is.
NothingLost ==
  \A m \in accepted \ settled :
    \E p \in {sess(m.from).store[i] : i \in DOMAIN sess(m.from).store} :
      \/ p.type = "publish" /\ p.topic = m.name
      \/ p.type = "pubrel" /\ owner[m.from][p.pid] = m /\ delivered[m] > 0

\* A receiver takes an id for that of a message it knows only while the sender uses it
\* for that message: the next message with the id is not taken for a duplicate.
HandledInUse ==
  \A side \in Sides :
    \A pid \in sess(Other(side)).qos2_publish_handled :
      /\ pid \in ids(side).man
      /\ owner[side][pid].qos = 2 /\ owner[side][pid] \in accepted \ settled
=============================================================================
