------------------------------ MODULE Delivery ------------------------------
(***************************************************************************)
(* What two endpoints with a session promise their applications about the  *)
(* messages of QoS 1 and 2, whatever happens to the transports between     *)
(* them: a message that was accepted is delivered, of QoS 2 exactly once   *)
(* and of QoS 1 at least once, and is settled, which gives its packet id   *)
(* back, after it was delivered; it is not delivered after that.           *)
(***************************************************************************)
EXTENDS Naturals

CONSTANTS Messages,  \* the messages of both sides
          Qos        \* Qos[m] is 1 or 2

VARIABLES accepted,  \* the messages a connection took from its application
          delivered, \* how often each was handed to the other application
          settled    \* the messages whose packet id was given back

vars == <<accepted, delivered, settled>>

\* Two deliveries and more are not told apart.
Again(n) == IF n < 2 THEN n + 1 ELSE n

Init == /\ accepted = {} /\ settled = {}
        /\ delivered = [m \in Messages |-> 0]

Accept(m) ==
  /\ m \in Messages \ accepted
  /\ accepted' = accepted \cup {m}
  /\ UNCHANGED <<delivered, settled>>

Deliver(m) ==
  /\ m \in accepted \ settled
  /\ Qos[m] = 2 => delivered[m] = 0
  /\ delivered' = [delivered EXCEPT ![m] = Again(@)]
  /\ UNCHANGED <<accepted, settled>>

Settle(m) ==
  /\ m \in accepted \ settled /\ delivered[m] > 0
  /\ settled' = settled \cup {m}
  /\ UNCHANGED <<accepted, delivered>>

Next == \E m \in Messages : Accept(m) \/ Deliver(m) \/ Settle(m)

Spec == Init /\ [][Next]_vars

\* Again and again there comes a time when all that was accepted is settled, so every
\* accepted message is delivered and settled in the end.
Live == []<>(accepted \subseteq settled)
=============================================================================
