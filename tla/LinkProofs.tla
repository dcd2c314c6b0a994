---- MODULE LinkProofs ----
\* Proofs about two endpoints joined by a lossy transport (Link), for every number of
\* packet ids and every set of messages: the inductive invariant LinkInv holds, the
\* safety invariants of the link follow, and the link implements Delivery.
EXTENDS LinkInvariant, SequenceTheorems, FiniteSetTheorems, TLAPS

-------------------------------------------------------------------------------
\* The exchanges of one side, on its books: a message accepted, a PUBLISH, a PUBREL
\* and a response arriving, and packets lost or sent again.

\* The stored packets of a side are requests.
LEMMA Types ==
  ASSUME NEW Q, NEW own, NEW live, NEW dlv, NEW side \in Sides, NEW q \in Q,
         Books(side, Q, own, live, dlv)
  PROVE  /\ q.type \in Requests /\ q.pid \in C!PacketIds /\ q.size = C!AckSize
         /\ C!response_packet(q) \in Responses
         /\ C!response_packet(q) = "pubcomp" => q = C!Ack("pubrel", q.pid)
         /\ C!response_packet(q) # "pubcomp" => q = Publish(own[q.pid], q.pid)
         /\ C!response_packet(q) = "puback" => own[q.pid].qos = 1
         /\ own[q.pid] \in live /\ own[q.pid].from = side
<1>1. /\ q.pid \in C!PacketIds /\ own[q.pid] \in live /\ own[q.pid].from = side
      /\ \/ q = Publish(own[q.pid], q.pid)
         \/ q = C!Ack("pubrel", q.pid) /\ own[q.pid].qos = 2 /\ dlv[own[q.pid]] > 0
  BY DEF Books
<1>2. CASE q = Publish(own[q.pid], q.pid)
  <2>1. q.type = "publish" /\ q.size = C!AckSize /\ q.qos = own[q.pid].qos
    BY <1>2 DEF Publish
  <2> QED BY <1>1, <1>2, <2>1 DEF C!response_packet, Requests, Responses
<1>3. CASE q = C!Ack("pubrel", q.pid)
  <2>1. q.type = "pubrel" /\ q.size = C!AckSize
    BY <1>3 DEF C!Ack
  <2> QED BY <1>1, <1>3, <2>1 DEF C!response_packet, Requests, Responses
<1> QED BY <1>1, <1>2, <1>3

\* Fewer packets are on the way.
LEMMA LostPackets ==
  ASSUME NEW Q, NEW A, NEW R, NEW H, NEW own, NEW dlv, InStep(Q, A, R, H, own, dlv),
         NEW A2 \in SUBSET A, NEW R2 \in SUBSET R
  PROVE  InStep(Q, A2, R2, H, own, dlv)
BY DEF InStep

\* The stored packets are sent again.
LEMMA SentAgain ==
  ASSUME NEW Q, NEW A, NEW R, NEW H, NEW own, NEW dlv, InStep(Q, A, R, H, own, dlv)
  PROVE  InStep(Q, Q, {}, H, own, dlv)
BY DEF InStep

\* A new message is accepted.
LEMMA NewMessage ==
  ASSUME NEW Q, NEW A, NEW R, NEW H, NEW own, NEW live, NEW dlv, NEW side \in Sides,
         Books(side, Q, own, live, dlv), InStep(Q, A, R, H, own, dlv),
         own \in [C!PacketIds -> Messages \cup {NoMessage}],
         NEW m \in Messages, m \notin live, m.from = side, m.qos \in {1, 2}, dlv[m] = 0,
         NEW pid \in C!PacketIds, \A q \in Q : q.pid # pid,
         NEW A2 \in SUBSET (A \cup {Publish(m, pid)})
  PROVE  /\ Books(side, Q \cup {Publish(m, pid)}, [own EXCEPT ![pid] = m], live \cup {m}, dlv)
         /\ InStep(Q \cup {Publish(m, pid)}, A2, R, H, [own EXCEPT ![pid] = m], dlv)
<1> DEFINE new == Publish(m, pid)
           Q2 == Q \cup {new}
           own2 == [own EXCEPT ![pid] = m]
<1>1. new.pid = pid /\ new.type = "publish" /\ new.qos = m.qos /\ own2[pid] = m
  BY DEF Publish
<1>2. \A q \in Q : own2[q.pid] = own[q.pid] /\ own[q.pid] # m
  BY DEF Books
<1>3. \A q \in Q : q.pid \in C!PacketIds
  BY DEF Books
<1>4. new = Publish(own2[new.pid], new.pid)
  BY <1>1
<1> HIDE DEF new, own2
<1>5. Books(side, Q2, own2, live \cup {m}, dlv)
  <2>1. \A q \in Q2 :
       /\ q.pid \in C!PacketIds /\ own2[q.pid] \in live \cup {m} /\ own2[q.pid].from = side
       /\ \/ q = Publish(own2[q.pid], q.pid)
          \/ q = C!Ack("pubrel", q.pid) /\ own2[q.pid].qos = 2 /\ dlv[own2[q.pid]] > 0
    <3>1. \A q \in Q : 
       /\ q.pid \in C!PacketIds /\ own[q.pid] \in live /\ own[q.pid].from = side
       /\ \/ q = Publish(own[q.pid], q.pid)
          \/ q = C!Ack("pubrel", q.pid) /\ own[q.pid].qos = 2 /\ dlv[own[q.pid]] > 0
      BY DEF Books
    <3> QED BY <1>1, <1>2, <1>4, <3>1
  <2>2. \A q, r \in Q2 : q.pid = r.pid \/ own2[q.pid] = own2[r.pid] => q = r
    BY <1>1, <1>2 DEF Books
  <2>3. \A x \in live \cup {m} : x.from = side => \E q \in Q2 : own2[q.pid] = x
    BY <1>1, <1>2 DEF Books
  <2> HIDE DEF Q2
  <2> QED BY <2>1, <2>2, <2>3 DEF Books
<1>6. InStep(Q2, A2, R, H, own2, dlv)
  <2>1. A2 \subseteq Q2
    BY DEF InStep, new
  <2>2. \A r \in R : \E q \in Q2 : Answers(r, q, H, own2, dlv)
    <3> SUFFICES ASSUME NEW r \in R PROVE \E q \in Q2 : Answers(r, q, H, own2, dlv)
      OBVIOUS
    <3>1. PICK q \in Q : Answers(r, q, H, own, dlv)
      BY DEF InStep
    <3>2. own2[r.pid] = own[r.pid]
      BY <3>1, <1>2 DEF Answers
    <3>3. Answers(r, q, H, own2, dlv)
      BY <3>1, <3>2 DEF Answers
    <3> QED BY <3>3
  <2>3. \A p \in A2, r \in R : p.pid # r.pid
    <3>1. \A r \in R : r.pid # pid
      BY DEF InStep, Answers
    <3> QED BY <3>1, <1>1 DEF InStep, new
  <2>4. \A x \in H : \E q \in Q2 : q.pid = x /\ C!response_packet(q) # "puback"
    BY DEF InStep
  <2>5. \A q \in Q2 : C!response_packet(q) = "pubrec" =>
          dlv[own2[q.pid]] = IF q.pid \in H THEN 1 ELSE 0
    <3>1. pid \notin H
      BY DEF InStep
    <3>2. \A q \in Q : C!response_packet(q) = "pubrec" =>
          dlv[own[q.pid]] = IF q.pid \in H THEN 1 ELSE 0
      BY DEF InStep
    <3> QED BY <1>1, <1>2, <3>1, <3>2
  <2> HIDE DEF Q2
  <2> QED BY <2>1, <2>2, <2>3, <2>4, <2>5 DEF InStep
<1> QED BY <1>5, <1>6 DEF new, own2

\* The receiver has a PUBLISH of the side: it is handled, and answered if the transport
\* carries the answer.
LEMMA PublishArrives ==
  ASSUME NEW Q, NEW A, NEW R, NEW H, NEW own, NEW live, NEW dlv, NEW side \in Sides,
         Books(side, Q, own, live, dlv), InStep(Q, A, R, H, own, dlv),
         live \subseteq Messages, dlv \in [Messages -> 0..2],
         NEW p \in A, p.type = "publish",
         NEW A2 \in SUBSET A, \A x \in A2 : x.pid # p.pid,
         NEW ack, ack = C!Ack(C!response_packet(p), p.pid),
         NEW R2 \in SUBSET (R \cup {ack}),
         NEW H2, H2 = IF p.qos = 2 THEN H \cup {p.pid} ELSE H,
         NEW dlv2 \in [Messages -> 0..2],
         \A m \in Messages : m # own[p.pid] => dlv2[m] = dlv[m],
         dlv2[own[p.pid]] = IF p.qos = 2 /\ p.pid \in H THEN dlv[own[p.pid]]
                            ELSE D!Again(dlv[own[p.pid]])
  PROVE  Books(side, Q, own, live, dlv2) /\ InStep(Q, A2, R2, H2, own, dlv2)
<1> DEFINE o == own[p.pid]
<1>1. /\ p \in Q /\ o \in live /\ o \in Messages
      /\ p.pid \in C!PacketIds /\ C!response_packet(p) # "pubcomp"
      /\ p = Publish(o, p.pid)
  BY Types DEF InStep, C!response_packet
<1>2. p.qos = o.qos
  BY <1>1 DEF Publish
<1>3. \A m \in Messages : dlv[m] \in 0..2 /\ dlv2[m] \in 0..2 /\ dlv2[m] >= dlv[m]
  BY <1>1 DEF D!Again
<1>4. dlv[o] = 0 \/ dlv2[o] > 0
  BY <1>1, <1>3
<1>5. \A q \in Q : own[q.pid] \in live /\ (own[q.pid] = o => q = p)
  BY <1>1 DEF Books
<1>6. C!response_packet(p) = "pubrec" => dlv[o] = IF p.pid \in H THEN 1 ELSE 0
  BY <1>1 DEF InStep
<1>7. C!response_packet(p) = IF p.qos = 1 THEN "puback" ELSE "pubrec"
  BY DEF C!response_packet
<1>8. o.qos \in {1, 2}
  BY <1>1, LinkAssumption
<1>9. Books(side, Q, own, live, dlv2)
  <2>1. \A q \in Q : dlv[own[q.pid]] > 0 => dlv2[own[q.pid]] > 0
    BY <1>3, <1>5
  <2>2. \A q \in Q :
       /\ q.pid \in C!PacketIds /\ own[q.pid] \in live /\ own[q.pid].from = side
       /\ \/ q = Publish(own[q.pid], q.pid)
          \/ q = C!Ack("pubrel", q.pid) /\ own[q.pid].qos = 2 /\ dlv[own[q.pid]] > 0
    BY DEF Books
  <2>3. /\ \A q, r \in Q : q.pid = r.pid \/ own[q.pid] = own[r.pid] => q = r
        /\ \A m \in live : m.from = side => \E q \in Q : own[q.pid] = m
    BY DEF Books
  <2> QED BY <2>1, <2>2, <2>3, Zenon DEF Books
<1>10. ack.pid = p.pid /\ ack.type = C!response_packet(p) /\ ack.ok = TRUE
       /\ ack = [type |-> ack.type, pid |-> ack.pid, ok |-> ack.ok, size |-> C!AckSize]
  BY DEF C!Ack
<1>11. \A x \in Q : x.pid = p.pid => x = p
  BY <1>1 DEF Books
<1> HIDE DEF o
<1>12. InStep(Q, A2, R2, H2, own, dlv2)
  <2>1. A2 \subseteq Q
    BY DEF InStep
  <2>2. \A r \in R2 : \E q \in Q : Answers(r, q, H2, own, dlv2)
    <3> SUFFICES ASSUME NEW r \in R2 PROVE \E q \in Q : Answers(r, q, H2, own, dlv2)
      OBVIOUS
    <3>1. CASE r = ack
      <4>1. ack.type = "puback" => dlv2[own[ack.pid]] > 0
        <5>1. ack.type = "puback" => p.qos = 1
          BY <1>7, <1>10
        <5>2. ack.type = "puback" => dlv2[o] = D!Again(dlv[o])
          BY <5>1 DEF o
        <5>3. dlv[o] \in 0..2
          BY <1>1, <1>3
        <5> QED BY <5>2, <5>3, <1>10 DEF D!Again, o
      <4>2. ack.type = "pubrec" => ack.pid \in H2
        BY <1>2, <1>7, <1>8, <1>10
      <4>3. ack.type # "pubcomp"
        BY <1>7, <1>10
      <4>4. Answers(ack, p, H2, own, dlv2)
        BY <4>1, <4>2, <4>3, <1>10 DEF Answers
      <4> QED BY <4>4, <3>1, <1>1
    <3>2. CASE r \in R
      <4>1. PICK q \in Q : Answers(r, q, H, own, dlv)
        BY <3>2 DEF InStep
      <4>2. r.pid # p.pid
        BY <3>2 DEF InStep
      <4>3. r.pid \in H2 <=> r.pid \in H
        BY <4>2
      <4>4. own[r.pid] \in live /\ own[r.pid] \in Messages
        BY <4>1, <1>5 DEF Answers
      <4>5. dlv[own[r.pid]] > 0 => dlv2[own[r.pid]] > 0
        BY <4>4, <1>3
      <4>6. Answers(r, q, H2, own, dlv2)
        BY <4>1, <4>3, <4>5 DEF Answers
      <4> QED BY <4>6
    <3> QED BY <3>1, <3>2
  <2>3. \A x \in A2, r \in R2 : x.pid # r.pid
    BY <1>10 DEF InStep
  <2>4. \A x \in H2 : \E q \in Q : q.pid = x /\ C!response_packet(q) # "puback"
    <3>1. \A x \in H : \E q \in Q : q.pid = x /\ C!response_packet(q) # "puback"
      BY DEF InStep
    <3>2. p.qos = 2 => C!response_packet(p) # "puback"
      BY <1>7
    <3> QED BY <3>1, <3>2, <1>1
  <2>5. \A q \in Q : C!response_packet(q) = "pubrec" =>
          dlv2[own[q.pid]] = IF q.pid \in H2 THEN 1 ELSE 0
    <3> SUFFICES ASSUME NEW q \in Q, C!response_packet(q) = "pubrec"
                 PROVE dlv2[own[q.pid]] = IF q.pid \in H2 THEN 1 ELSE 0
      OBVIOUS
    <3>1. CASE q = p
      <4>1. p.qos = 2 /\ p.pid \in H2
        BY <3>1, <1>2, <1>7, <1>8
      <4>2. dlv[o] = IF p.pid \in H THEN 1 ELSE 0
        BY <1>6, <3>1
      <4>3. dlv2[o] = IF p.pid \in H THEN dlv[o] ELSE D!Again(dlv[o])
        BY <4>1 DEF o
      <4>4. dlv2[o] = 1
        BY <4>2, <4>3 DEF D!Again
      <4> QED BY <4>1, <4>4, <3>1 DEF o
    <3>2. CASE q # p
      <4>1. q.pid # p.pid /\ own[q.pid] # o /\ own[q.pid] \in Messages
        BY <3>2, <1>5, <1>11
      <4>2. dlv2[own[q.pid]] = dlv[own[q.pid]]
        BY <4>1 DEF o
      <4>3. dlv[own[q.pid]] = IF q.pid \in H THEN 1 ELSE 0
        BY DEF InStep
      <4> QED BY <4>1, <4>2, <4>3
    <3> QED BY <3>1, <3>2
  <2> QED BY <2>1, <2>2, <2>3, <2>4, <2>5 DEF InStep
<1> QED BY <1>9, <1>12

\* The receiver has a PUBREL of the side: the id is forgotten, and the PUBREL answered.
LEMMA PubrelArrives ==
  ASSUME NEW Q, NEW A, NEW R, NEW H, NEW own, NEW live, NEW dlv, NEW side \in Sides,
         Books(side, Q, own, live, dlv), InStep(Q, A, R, H, own, dlv),
         NEW p \in A, p.type = "pubrel",
         NEW A2 \in SUBSET A, \A x \in A2 : x.pid # p.pid,
         NEW ack, NEW ok, ack = [type |-> "pubcomp", pid |-> p.pid, ok |-> ok, size |-> C!AckSize],
         NEW R2 \in SUBSET (R \cup {ack})
  PROVE  InStep(Q, A2, R2, H \ {p.pid}, own, dlv)
<1>1. p \in Q /\ C!response_packet(p) = "pubcomp"
  BY DEF InStep, C!response_packet
<1>2. \A x \in Q : x.pid = p.pid => x = p
  BY <1>1 DEF Books
<1>3. Answers(ack, p, H \ {p.pid}, own, dlv)
  BY <1>1 DEF Answers
<1>4. \A r \in R2 : \E q \in Q : Answers(r, q, H \ {p.pid}, own, dlv)
  <2> SUFFICES ASSUME NEW r \in R2 PROVE \E q \in Q : Answers(r, q, H \ {p.pid}, own, dlv)
    OBVIOUS
  <2>1. CASE r = ack
    BY <2>1, <1>1, <1>3
  <2>2. CASE r \in R
    <3>1. PICK q \in Q : Answers(r, q, H, own, dlv)
      BY <2>2 DEF InStep
    <3>2. r.pid # p.pid
      BY <2>2 DEF InStep
    <3>3. Answers(r, q, H \ {p.pid}, own, dlv)
      BY <3>1, <3>2 DEF Answers
    <3> QED BY <3>3
  <2> QED BY <2>1, <2>2
<1>5. \A q \in Q : C!response_packet(q) = "pubrec" =>
        dlv[own[q.pid]] = IF q.pid \in H \ {p.pid} THEN 1 ELSE 0
  BY <1>1, <1>2 DEF InStep
<1>6. A2 \subseteq Q /\ \A x \in A2, r \in R2 : x.pid # r.pid
  BY DEF InStep
<1>7. \A pid \in H \ {p.pid} : \E q \in Q : q.pid = pid /\ C!response_packet(q) # "puback"
  BY DEF InStep
<1> QED BY <1>4, <1>5, <1>6, <1>7 DEF InStep

\* A message has been handed on; a response that ends an exchange; the packet it answers,
\* and the responses still on the way after it.
Handed(dlv, m) == dlv[m] > 0
Ending(r)      == r.type \in {"puback", "pubcomp"}
EndOf(Q, R, R2, r, q) == /\ r \in R /\ q \in Q /\ q.pid = r.pid
                         /\ R2 \in SUBSET R /\ \A x \in R2 : x.pid # r.pid

\* The side has the response that ends an exchange.
LEMMA ExchangeEnds ==
  ASSUME NEW Q, NEW A, NEW R, NEW H, NEW own, NEW live, NEW dlv, NEW side \in Sides,
         Books(side, Q, own, live, dlv), InStep(Q, A, R, H, own, dlv),
         NEW r, Ending(r), NEW q, NEW R2, EndOf(Q, R, R2, r, q)
  PROVE  /\ Books(side, Q \ {q}, own, live \ {own[r.pid]}, dlv)
         /\ InStep(Q \ {q}, A, R2, H, own, dlv)
         /\ Handed(dlv, own[r.pid]) /\ own[r.pid] \in live /\ own[r.pid].from = side
<1>a. /\ r.type \in {"puback", "pubcomp"} /\ q.pid = r.pid /\ r \in R /\ q \in Q
      /\ R2 \in SUBSET R /\ \A x \in R2 : x.pid # r.pid
  BY DEF Ending, EndOf
<1> USE <1>a
<1>1. PICK q2 \in Q : Answers(r, q2, H, own, dlv)
  BY DEF InStep
<1>2. q2 = q
  BY <1>1 DEF Answers, Books
<1>3. \A x \in Q : x # q => x.pid # q.pid /\ own[x.pid] # own[q.pid]
  BY DEF Books
<1>4. own[r.pid] \in live /\ C!response_packet(q) = r.type /\ own[r.pid].from = side
  BY <1>1, <1>2, Types DEF Answers
<1>5. dlv[own[r.pid]] > 0
  <2>1. CASE r.type = "puback"
    BY <1>1, <2>1 DEF Answers
  <2>2. CASE r.type = "pubcomp"
    <3>1. q.type = "pubrel"
      BY <1>4, <2>2 DEF C!response_packet
    <3>2. q # Publish(own[q.pid], q.pid)
      BY <3>1 DEF Publish
    <3> QED BY <3>2 DEF Books
  <2> QED BY <2>1, <2>2
<1>6. Books(side, Q \ {q}, own, live \ {own[r.pid]}, dlv)
  <2>1. \A x \in Q :
       /\ x.pid \in C!PacketIds /\ own[x.pid] \in live /\ own[x.pid].from = side
       /\ \/ x = Publish(own[x.pid], x.pid)
          \/ x = C!Ack("pubrel", x.pid) /\ own[x.pid].qos = 2 /\ dlv[own[x.pid]] > 0
    BY DEF Books
  <2>2. /\ \A x, y \in Q : x.pid = y.pid \/ own[x.pid] = own[y.pid] => x = y
        /\ \A m \in live : m.from = side => \E x \in Q : own[x.pid] = m
    BY DEF Books
  <2>3. \A x \in Q \ {q} : own[x.pid] \in live \ {own[r.pid]}
    BY <2>1, <1>3
  <2>4. \A m \in live \ {own[r.pid]} : m.from = side => \E x \in Q \ {q} : own[x.pid] = m
    BY <2>2
  <2> QED BY <2>1, <2>2, <2>3, <2>4, Zenon DEF Books
<1>7. InStep(Q \ {q}, A, R2, H, own, dlv)
  <2>1. A \subseteq Q \ {q}
    BY DEF InStep
  <2>2. \A x \in R2 : \E y \in Q \ {q} : Answers(x, y, H, own, dlv)
    BY DEF InStep, Answers
  <2>3. \A x \in A, y \in R2 : x.pid # y.pid
    BY DEF InStep
  <2>4. \A pid \in H : \E x \in Q \ {q} : x.pid = pid /\ C!response_packet(x) # "puback"
    <3>1. r.pid \notin H
      <4>1. CASE r.type = "puback"
        BY <4>1, <1>3, <1>4 DEF InStep
      <4>2. CASE r.type = "pubcomp"
        BY <1>1, <4>2 DEF Answers
      <4> QED BY <4>1, <4>2
    <3> QED BY <3>1 DEF InStep
  <2>5. \A x \in Q \ {q} : C!response_packet(x) = "pubrec" =>
          dlv[own[x.pid]] = IF x.pid \in H THEN 1 ELSE 0
    BY DEF InStep
  <2> QED BY <2>1, <2>2, <2>3, <2>4, <2>5 DEF InStep
<1> QED BY <1>4, <1>5, <1>6, <1>7 DEF Handed

\* The side has a PUBREC: the PUBREL takes the place of the PUBLISH.
LEMMA PubrecArrives ==
  ASSUME NEW Q, NEW A, NEW R, NEW H, NEW own, NEW live, NEW dlv, NEW side \in Sides,
         Books(side, Q, own, live, dlv), InStep(Q, A, R, H, own, dlv),
         live \subseteq Messages,
         NEW r, r.type = "pubrec", NEW q, NEW R2, EndOf(Q, R, R2, r, q),
         NEW rel, rel = C!Ack("pubrel", r.pid), NEW A2 \in SUBSET (A \cup {rel})
  PROVE  /\ Books(side, (Q \ {q}) \cup {rel}, own, live, dlv)
         /\ InStep((Q \ {q}) \cup {rel}, A2, R2, H, own, dlv)
<1> DEFINE Q2 == (Q \ {q}) \cup {rel}
<1>a. /\ q.pid = r.pid /\ r \in R /\ q \in Q
      /\ R2 \in SUBSET R /\ \A x \in R2 : x.pid # r.pid
  BY DEF EndOf
<1> USE <1>a
<1>1. PICK q2 \in Q : Answers(r, q2, H, own, dlv)
  BY DEF InStep
<1>2. q2 = q
  BY <1>1 DEF Answers, Books
<1>3. \A x \in Q : x # q => x.pid # q.pid /\ own[x.pid] # own[q.pid]
  BY DEF Books
<1>4. C!response_packet(q) = "pubrec" /\ r.ok = TRUE /\ r.pid \in H
  BY <1>1, <1>2 DEF Answers
<1>5. rel.pid = r.pid /\ rel.type = "pubrel" /\ C!response_packet(rel) = "pubcomp"
      /\ rel = C!Ack("pubrel", rel.pid)
  BY DEF C!Ack, C!response_packet
<1>6. own[r.pid].qos = 2
  <2>1. q = Publish(own[q.pid], q.pid) /\ own[q.pid] \in Messages
    BY <1>4, Types
  <2>2. q.qos = own[r.pid].qos
    BY <2>1 DEF Publish
  <2> QED BY <2>1, <2>2, <1>4, LinkAssumption DEF C!response_packet
<1>7. dlv[own[r.pid]] = 1
  BY <1>4 DEF InStep
<1> HIDE DEF Q2
<1>8. Books(side, Q2, own, live, dlv)
  <2>1. \A x \in Q :
       /\ x.pid \in C!PacketIds /\ own[x.pid] \in live /\ own[x.pid].from = side
       /\ \/ x = Publish(own[x.pid], x.pid)
          \/ x = C!Ack("pubrel", x.pid) /\ own[x.pid].qos = 2 /\ dlv[own[x.pid]] > 0
    BY DEF Books
  <2>2. /\ \A x, y \in Q : x.pid = y.pid \/ own[x.pid] = own[y.pid] => x = y
        /\ \A m \in live : m.from = side => \E x \in Q : own[x.pid] = m
    BY DEF Books
  <2>3. dlv[own[r.pid]] > 0
    BY <1>7
  <2>4. \A x \in Q2 :
       /\ x.pid \in C!PacketIds /\ own[x.pid] \in live /\ own[x.pid].from = side
       /\ \/ x = Publish(own[x.pid], x.pid)
          \/ x = C!Ack("pubrel", x.pid) /\ own[x.pid].qos = 2 /\ dlv[own[x.pid]] > 0
    BY <2>1, <2>3, <1>5, <1>6 DEF Q2
  <2>5. \A x, y \in Q2 : x.pid = y.pid \/ own[x.pid] = own[y.pid] => x = y
    BY <2>2, <1>3, <1>5 DEF Q2
  <2>6. \A m \in live : m.from = side => \E x \in Q2 : own[x.pid] = m
    BY <2>2, <1>5 DEF Q2
  <2> QED BY <2>4, <2>5, <2>6 DEF Books
<1>9. InStep(Q2, A2, R2, H, own, dlv)
  <2>1. A2 \subseteq Q2
    BY DEF InStep, Q2
  <2>2. \A x \in R2 : \E y \in Q2 : Answers(x, y, H, own, dlv)
    <3>1. \A x \in R2 : \E y \in Q \ {q} : Answers(x, y, H, own, dlv)
      BY DEF InStep, Answers
    <3> QED BY <3>1 DEF Q2
  <2>3. \A x \in A2, y \in R2 : x.pid # y.pid
    BY <1>5 DEF InStep
  <2>4. \A pid \in H : \E x \in Q2 : x.pid = pid /\ C!response_packet(x) # "puback"
    BY <1>5 DEF InStep, Q2
  <2>5. \A x \in Q2 : C!response_packet(x) = "pubrec" =>
          dlv[own[x.pid]] = IF x.pid \in H THEN 1 ELSE 0
    BY <1>5 DEF InStep, Q2
  <2> QED BY <2>1, <2>2, <2>3, <2>4, <2>5 DEF InStep
<1> QED BY <1>4, <1>8, <1>9 DEF Q2

\* What happens to the messages of the other side does not matter.
LEMMA OthersMessages ==
  ASSUME NEW Q, NEW A, NEW R, NEW H, NEW own, NEW live, NEW dlv, NEW side \in Sides,
         Books(side, Q, own, live, dlv), InStep(Q, A, R, H, own, dlv),
         live \subseteq Messages,
         NEW live2 \in SUBSET Messages, NEW dlv2,
         \A m \in Messages : m.from = side => dlv2[m] = dlv[m] /\ (m \in live2 <=> m \in live)
  PROVE  Books(side, Q, own, live2, dlv2) /\ InStep(Q, A, R, H, own, dlv2)
<1>1. \A q \in Q : /\ own[q.pid] \in live /\ own[q.pid] \in live2
                   /\ dlv2[own[q.pid]] = dlv[own[q.pid]]
  BY Types
<1>2. Books(side, Q, own, live2, dlv2)
  <2>1. \A x \in Q :
       /\ x.pid \in C!PacketIds /\ own[x.pid] \in live /\ own[x.pid].from = side
       /\ \/ x = Publish(own[x.pid], x.pid)
          \/ x = C!Ack("pubrel", x.pid) /\ own[x.pid].qos = 2 /\ dlv[own[x.pid]] > 0
    BY DEF Books
  <2>2. /\ \A x, y \in Q : x.pid = y.pid \/ own[x.pid] = own[y.pid] => x = y
        /\ \A m \in live : m.from = side => \E x \in Q : own[x.pid] = m
    BY DEF Books
  <2>3. \A m \in live2 : m.from = side => m \in live
    OBVIOUS
  <2> QED BY <2>1, <2>2, <2>3, <1>1, Zenon DEF Books
<1>3. InStep(Q, A, R, H, own, dlv2)
  <2>1. \A r \in R : \E q \in Q : Answers(r, q, H, own, dlv2)
    BY <1>1 DEF InStep, Answers
  <2>2. \A q \in Q : C!response_packet(q) = "pubrec" =>
          dlv2[own[q.pid]] = IF q.pid \in H THEN 1 ELSE 0
    BY <1>1 DEF InStep
  <2> QED BY <2>1, <2>2 DEF InStep
<1> QED BY <1>2, <1>3

-------------------------------------------------------------------------------
\* Lists: the store and the two directions of the transport.

\* A list is a sequence of its own elements.
List(w) == w \in Seq(C!ToSet(w))

\* A list and its elements, its length and its domain.
LEMMA ListFacts ==
  ASSUME NEW w, List(w)
  PROVE  /\ Len(w) \in Nat /\ DOMAIN w = 1..Len(w)
         /\ w \in [1..Len(w) -> C!ToSet(w)]
         /\ C!ToSet(w) = {w[i] : i \in 1..Len(w)}
         /\ (w = <<>>) <=> (Len(w) = 0)
         /\ (w = <<>>) <=> (C!ToSet(w) = {})
<1>1. Len(w) \in Nat /\ DOMAIN w = 1..Len(w) /\ w \in [1..Len(w) -> C!ToSet(w)]
  BY DEF List
<1>2. C!ToSet(w) = {w[i] : i \in 1..Len(w)}
  BY <1>1 DEF C!ToSet
<1>3. (w = <<>>) <=> (Len(w) = 0)
  BY <1>1, EmptySeq DEF List
<1>4. (C!ToSet(w) = {}) <=> (Len(w) = 0)
  <2>1. CASE Len(w) = 0
    <3>1. 1..Len(w) = {}
      BY <2>1
    <3> QED BY <1>2, <2>1, <3>1
  <2>2. CASE Len(w) # 0
    <3>1. w[1] \in C!ToSet(w)
      BY <1>1, <2>2
    <3> QED BY <2>2, <3>1
  <2> QED BY <2>1, <2>2
<1> QED BY <1>1, <1>2, <1>3, <1>4

\* A sequence is a list.
LEMMA ListIntro ==
  ASSUME NEW T, NEW w \in Seq(T)
  PROVE  List(w) /\ C!ToSet(w) \subseteq T
<1>1. Len(w) \in Nat /\ DOMAIN w = 1..Len(w) /\ w \in [1..Len(w) -> T]
  OBVIOUS
<1>2. C!ToSet(w) = {w[i] : i \in 1..Len(w)}
  BY <1>1 DEF C!ToSet
<1>3. w \in [1..Len(w) -> C!ToSet(w)]
  BY <1>1, <1>2
<1>4. w \in Seq(C!ToSet(w))
  BY <1>1, <1>3, SeqDef
<1> QED BY <1>1, <1>2, <1>4 DEF List

\* Nothing in a list.
LEMMA EmptyList == List(<<>>) /\ C!ToSet(<<>>) = {} /\ Once(<<>>) /\ DistinctIds(<<>>) /\ DOMAIN <<>> = {}
<1>1. <<>> \in Seq({})
  OBVIOUS
<1>2. DOMAIN <<>> = {}
  OBVIOUS
<1> QED BY <1>1, <1>2, ListIntro DEF Once, DistinctIds, C!ToSet

\* One packet in a list.
LEMMA OneList ==
  ASSUME NEW e
  PROVE  List(<<e>>) /\ C!ToSet(<<e>>) = {e} /\ Once(<<e>>) /\ <<e>> # <<>> /\ <<e>>[1] = e /\ DOMAIN <<e>> = {1}
<1>1. <<e>> \in Seq({e}) /\ DOMAIN <<e>> = {1} /\ <<e>>[1] = e /\ <<e>> # <<>>
  OBVIOUS
<1>2. C!ToSet(<<e>>) = {e}
  <2>1. {<<e>>[i] : i \in {1}} = {e}
    BY <1>1
  <2> QED BY <2>1, <1>1 DEF C!ToSet
<1>3. Once(<<e>>)
  BY <1>1 DEF Once
<1>4. List(<<e>>)
  BY <1>1, ListIntro
<1> QED BY <1>1, <1>2, <1>3, <1>4

\* The rest of a list, after its head.
LEMMA TailList ==
  ASSUME NEW w, List(w), w # <<>>
  PROVE  /\ List(Tail(w)) /\ C!ToSet(Tail(w)) \subseteq C!ToSet(w)
         /\ Head(w) = w[1] /\ Head(w) \in C!ToSet(w) /\ 1 \in DOMAIN w
         /\ \A i \in DOMAIN Tail(w) : i + 1 \in DOMAIN w /\ i + 1 # 1 /\ Tail(w)[i] = w[i + 1]
         /\ Once(w) => Once(Tail(w)) /\ \A x \in C!ToSet(Tail(w)) : ~Alike(Head(w), x)
<1>1. Len(w) \in Nat \ {0} /\ DOMAIN w = 1..Len(w) /\ w \in Seq(C!ToSet(w))
  BY ListFacts DEF List
<1>2. /\ Tail(w) \in Seq(C!ToSet(w)) /\ Len(Tail(w)) = Len(w) - 1
      /\ \A i \in 1..(Len(w) - 1) : Tail(w)[i] = w[i + 1]
      /\ Head(w) = w[1]
  BY <1>1, HeadTailProperties
<1>3. \A i \in DOMAIN Tail(w) : i + 1 \in DOMAIN w /\ i + 1 # 1 /\ Tail(w)[i] = w[i + 1]
  BY <1>1, <1>2
<1>4. List(Tail(w)) /\ C!ToSet(Tail(w)) \subseteq C!ToSet(w)
  BY <1>2, ListIntro
<1>5. 1 \in DOMAIN w /\ w[1] \in C!ToSet(w)
  BY <1>1
<1>6. ASSUME Once(w) PROVE Once(Tail(w))
  <2> SUFFICES ASSUME NEW i \in DOMAIN Tail(w), NEW j \in DOMAIN Tail(w),
                      Alike(Tail(w)[i], Tail(w)[j])
               PROVE  i = j
    BY DEF Once
  <2>1. i + 1 = j + 1
    BY <1>3, <1>6 DEF Once
  <2>2. i \in Nat /\ j \in Nat
    BY <1>2
  <2> QED BY <2>1, <2>2
<1>7. ASSUME Once(w), NEW x \in C!ToSet(Tail(w)) PROVE ~Alike(Head(w), x)
  <2>1. PICK i \in DOMAIN Tail(w) : x = Tail(w)[i]
    BY DEF C!ToSet
  <2> QED BY <2>1, <1>2, <1>3, <1>5, <1>7 DEF Once
<1> QED BY <1>2, <1>3, <1>4, <1>5, <1>6, <1>7

\* A packet at the end of a list.
LEMMA AppendList ==
  ASSUME NEW w, List(w), NEW e
  PROVE  /\ List(Append(w, e)) /\ C!ToSet(Append(w, e)) = C!ToSet(w) \cup {e}
         /\ DOMAIN Append(w, e) = DOMAIN w \cup {Len(w) + 1} /\ Len(w) + 1 \notin DOMAIN w
         /\ \A i \in DOMAIN w : Append(w, e)[i] = w[i]
         /\ Append(w, e)[Len(w) + 1] = e /\ Append(w, e) # <<>>
         /\ (w # <<>>) => (Append(w, e)[1] = w[1] /\ Len(w) + 1 # 1)
<1>1. Len(w) \in Nat /\ DOMAIN w = 1..Len(w) /\ w \in Seq(C!ToSet(w) \cup {e})
  <2>1. w \in Seq(C!ToSet(w))
    BY DEF List
  <2>2. Len(w) \in Nat /\ DOMAIN w = 1..Len(w)
    BY <2>1
  <2>3. \A i \in 1..Len(w) : w[i] \in C!ToSet(w) \cup {e}
    BY <2>1
  <2>4. w \in [1..Len(w) -> C!ToSet(w) \cup {e}]
    BY <2>1, <2>3
  <2> QED BY <2>2, <2>4, SeqDef
<1>2. /\ Append(w, e) \in Seq(C!ToSet(w) \cup {e}) /\ Len(Append(w, e)) = Len(w) + 1
      /\ \A i \in 1..Len(w) : Append(w, e)[i] = w[i]
      /\ Append(w, e)[Len(w) + 1] = e
  BY <1>1, AppendProperties
<1>3. DOMAIN Append(w, e) = 1..(Len(w) + 1)
  BY <1>2
<1>4. 1..(Len(w) + 1) = (1..Len(w)) \cup {Len(w) + 1} /\ Len(w) + 1 \notin 1..Len(w)
  BY <1>1
<1>5. C!ToSet(Append(w, e)) = C!ToSet(w) \cup {e}
  <2>1. \A x \in C!ToSet(Append(w, e)) : x \in C!ToSet(w) \cup {e}
    BY <1>1, <1>2, <1>3, <1>4 DEF C!ToSet
  <2>2. \A x \in C!ToSet(w) : x \in C!ToSet(Append(w, e))
    BY <1>1, <1>2, <1>3, <1>4 DEF C!ToSet
  <2>3. e \in C!ToSet(Append(w, e))
    BY <1>1, <1>2, <1>3, <1>4 DEF C!ToSet
  <2> QED BY <2>1, <2>2, <2>3
<1>6. List(Append(w, e))
  BY <1>2, ListIntro
<1>7. (w # <<>>) => (Append(w, e)[1] = w[1] /\ Len(w) + 1 # 1)
  <2>1. (w # <<>>) => (Len(w) # 0)
    BY ListFacts
  <2> QED BY <2>1, <1>1, <1>2
<1>8. Append(w, e) # <<>>
  <2>1. Len(Append(w, e)) # 0
    BY <1>1, <1>2
  <2> QED BY <2>1, SMTT(30)
<1> QED BY <1>1, <1>2, <1>3, <1>4, <1>5, <1>6, <1>7, <1>8

\* A packet that is not in a list yet.
LEMMA AppendOnce ==
  ASSUME NEW w, List(w), Once(w), NEW e, \A x \in C!ToSet(w) : ~Alike(x, e)
  PROVE  Once(Append(w, e))
<1>1. \A i \in DOMAIN w : ~Alike(w[i], e) /\ ~Alike(e, w[i])
  BY DEF C!ToSet, Alike
<1> QED BY <1>1, AppendList DEF Once

\* A packet with an id that no packet of the list has.
LEMMA AppendDistinct ==
  ASSUME NEW s, List(s), DistinctIds(s), NEW e, \A x \in C!ToSet(s) : x.pid # e.pid
  PROVE  DistinctIds(Append(s, e))
<1>1. \A i \in DOMAIN s : s[i].pid # e.pid
  BY DEF C!ToSet
<1> QED BY <1>1, AppendList DEF DistinctIds

\* A packet before a list.
LEMMA ConsList ==
  ASSUME NEW s, List(s), NEW e
  PROVE  /\ List(<<e>> \o s) /\ C!ToSet(<<e>> \o s) = {e} \cup C!ToSet(s)
         /\ <<e>> \o s # <<>> /\ (<<e>> \o s)[1] = e
         /\ Len(<<e>> \o s) = Len(s) + 1
         /\ \A i \in 1..Len(s) : (<<e>> \o s)[i + 1] = s[i]
         /\ \A i \in DOMAIN (<<e>> \o s) : i # 1 => i - 1 \in 1..Len(s) /\ (<<e>> \o s)[i] = s[i - 1]
<1>1. Len(s) \in Nat /\ DOMAIN s = 1..Len(s) /\ s \in Seq({e} \cup C!ToSet(s))
  <2>1. s \in Seq(C!ToSet(s))
    BY DEF List
  <2>2. Len(s) \in Nat /\ DOMAIN s = 1..Len(s)
    BY <2>1
  <2>3. \A i \in 1..Len(s) : s[i] \in {e} \cup C!ToSet(s)
    BY <2>1
  <2>4. s \in [1..Len(s) -> {e} \cup C!ToSet(s)]
    BY <2>1, <2>3
  <2> QED BY <2>2, <2>4, SeqDef
<1> DEFINE T == {e} \cup C!ToSet(s)
           c == <<e>> \o s
<1>2. <<e>> \in Seq(T) /\ Len(<<e>>) = 1 /\ <<e>>[1] = e
  OBVIOUS
<1>3. s \in Seq(T)
  BY <1>1
<1> HIDE DEF T
<1>4. /\ c \in Seq(T) /\ Len(c) = Len(<<e>>) + Len(s)
      /\ \A i \in 1..(Len(<<e>>) + Len(s)) :
            c[i] = IF i <= Len(<<e>>) THEN <<e>>[i] ELSE s[i - Len(<<e>>)]
  BY <1>2, <1>3, ConcatProperties
<1> HIDE DEF c
<1>5. /\ Len(c) = Len(s) + 1 /\ DOMAIN c = 1..(Len(s) + 1)
      /\ c[1] = e /\ c # <<>>
  BY <1>1, <1>2, <1>4
<1>6. \A i \in 1..Len(s) : c[i + 1] = s[i]
  <2> SUFFICES ASSUME NEW i \in 1..Len(s) PROVE c[i + 1] = s[i]
    OBVIOUS
  <2>1. i + 1 \in 1..(Len(<<e>>) + Len(s)) /\ ~(i + 1 <= Len(<<e>>)) /\ (i + 1) - Len(<<e>>) = i
    BY <1>1, <1>2
  <2> QED BY <2>1, <1>4
<1>7. \A i \in DOMAIN c : i # 1 => i - 1 \in 1..Len(s) /\ c[i] = s[i - 1]
  <2> SUFFICES ASSUME NEW i \in DOMAIN c, i # 1 PROVE i - 1 \in 1..Len(s) /\ c[i] = s[i - 1]
    OBVIOUS
  <2>1. i - 1 \in 1..Len(s) /\ (i - 1) + 1 = i
    BY <1>1, <1>5
  <2> QED BY <2>1, <1>6
<1>8. C!ToSet(c) = {e} \cup C!ToSet(s)
  <2>1. \A x \in C!ToSet(c) : x \in {e} \cup C!ToSet(s)
    <3> SUFFICES ASSUME NEW i \in DOMAIN c PROVE c[i] \in {e} \cup C!ToSet(s)
      BY DEF C!ToSet
    <3>1. CASE i = 1
      BY <3>1, <1>5
    <3>2. CASE i # 1
      BY <3>2, <1>1, <1>7 DEF C!ToSet
    <3> QED BY <3>1, <3>2
  <2>2. e \in C!ToSet(c)
    <3>1. 1 \in DOMAIN c
      BY <1>1, <1>5
    <3> QED BY <3>1, <1>5 DEF C!ToSet
  <2>3. \A x \in C!ToSet(s) : x \in C!ToSet(c)
    <3> SUFFICES ASSUME NEW i \in DOMAIN s PROVE s[i] \in C!ToSet(c)
      BY DEF C!ToSet
    <3>1. i + 1 \in DOMAIN c /\ c[i + 1] = s[i]
      BY <1>1, <1>5, <1>6
    <3> QED BY <3>1 DEF C!ToSet
  <2> QED BY <2>1, <2>2, <2>3
<1>9. List(c)
  BY <1>4, ListIntro
<1> QED BY <1>5, <1>6, <1>7, <1>8, <1>9 DEF c

\* One list after another.
LEMMA JoinList ==
  ASSUME NEW w, List(w)
  PROVE  w \o <<>> = w /\ <<>> \o w = w /\ \A e : w \o <<e>> = Append(w, e)
<1>1. w \in Seq(C!ToSet(w))
  BY DEF List
<1>2. w \o <<>> = w /\ <<>> \o w = w
  BY <1>1, ConcatEmptySeq
<1>3. ASSUME NEW e PROVE w \o <<e>> = Append(w, e)
  <2>1. w \in Seq(C!ToSet(w) \cup {e}) /\ e \in C!ToSet(w) \cup {e}
    <3>1. \A i \in 1..Len(w) : w[i] \in C!ToSet(w) \cup {e}
      BY <1>1
    <3>2. w \in [1..Len(w) -> C!ToSet(w) \cup {e}] /\ Len(w) \in Nat
      BY <1>1, <3>1
    <3> QED BY <3>2, SeqDef
  <2> QED BY <2>1, AppendIsConcat
<1> QED BY <1>2, <1>3

\* What is left of a list when its end is lost.
LEMMA PrefixList ==
  ASSUME NEW w, List(w), NEW v \in Prefixes(w)
  PROVE  /\ List(v) /\ C!ToSet(v) \subseteq C!ToSet(w)
         /\ DOMAIN v \subseteq DOMAIN w /\ \A i \in DOMAIN v : v[i] = w[i]
         /\ v # <<>> => w # <<>> /\ 1 \in DOMAIN v
         /\ Once(w) => Once(v)
         /\ \A e : w \in {<<>>, <<e>>} => v \in {<<>>, <<e>>}
<1>1. w \in Seq(C!ToSet(w)) /\ Len(w) \in Nat /\ DOMAIN w = 1..Len(w)
  BY ListFacts DEF List
<1>2. PICK n \in 0..Len(w) : v = SubSeq(w, 1, n)
  BY DEF Prefixes
<1>3. v \in Seq(C!ToSet(w)) /\ Len(v) = n /\ \A i \in 1..n : v[i] = w[i]
  BY <1>1, <1>2
<1>4. List(v) /\ C!ToSet(v) \subseteq C!ToSet(w)
  BY <1>3, ListIntro
<1>5. DOMAIN v = 1..n /\ DOMAIN v \subseteq DOMAIN w /\ \A i \in DOMAIN v : v[i] = w[i]
  BY <1>1, <1>3
<1>6. v # <<>> => w # <<>> /\ 1 \in DOMAIN v
  BY <1>1, <1>3, <1>5, EmptySeq
<1>7. Once(w) => Once(v)
  BY <1>5 DEF Once
<1>8. ASSUME NEW e, w \in {<<>>, <<e>>} PROVE v \in {<<>>, <<e>>}
  <2>1. CASE n = 0
    BY <2>1, <1>3, EmptySeq
  <2>2. CASE n # 0
    <3>1. w = <<e>>
      BY <2>2, <1>8
    <3>2. n = 1
      BY <3>1, <2>2
    <3>3. v[1] = e
      BY <3>1, <3>2, <1>3
    <3>4. v = <<e>>
      BY <3>2, <3>3, <1>3
    <3> QED BY <3>4
  <2> QED BY <2>1, <2>2
<1> QED BY <1>4, <1>5, <1>6, <1>7, <1>8

-------------------------------------------------------------------------------
\* The store and the ids it awaits.

\* erase takes one packet out of a store.
LEMMA EraseList ==
  ASSUME NEW s, List(s), DistinctIds(s), NEW q \in C!ToSet(s)
  PROVE  LET e == C!erase(s, C!response_packet(q), q.pid)
         IN  List(e) /\ C!ToSet(e) = C!ToSet(s) \ {q} /\ DistinctIds(e)
<1> DEFINE response == C!response_packet(q)
           e == C!erase(s, response, q.pid)
           T == C!ToSet(s)
           n == CHOOSE i \in C!erasable(s, response, q.pid) : TRUE
<1>1. s \in Seq(T) /\ Len(s) \in Nat /\ DOMAIN s = 1..Len(s)
  BY ListFacts DEF List
<1>2. PICK n0 \in DOMAIN s : q = s[n0]
  BY DEF C!ToSet
<1>3. n0 \in C!erasable(s, response, q.pid)
  BY <1>2 DEF C!erasable
<1>4. n \in C!erasable(s, response, q.pid)
  BY <1>3
<1>5. n \in DOMAIN s /\ s[n] = q
  <2>1. n \in DOMAIN s /\ s[n].pid = q.pid
    BY <1>4 DEF C!erasable
  <2> QED BY <2>1, <1>2 DEF DistinctIds
<1>6. e = SubSeq(s, 1, n - 1) \o SubSeq(s, n + 1, Len(s))
  BY <1>3 DEF C!erase, C!RemoveAt
<1> HIDE DEF n, e, response, T
<1> DEFINE a == SubSeq(s, 1, n - 1)
           b == SubSeq(s, n + 1, Len(s))
<1>7. a \in Seq(T) /\ Len(a) = n - 1 /\ \A k \in 1..(n - 1) : a[k] = s[k]
  BY <1>1, <1>5
<1>8. b \in Seq(T) /\ Len(b) = Len(s) - n /\ \A k \in 1..(Len(s) - n) : b[k] = s[n + k]
  BY <1>1, <1>5, SMTT(30)
<1>9. e = a \o b
  BY <1>6
<1> HIDE DEF a, b
<1>10. /\ e \in Seq(T) /\ Len(e) = Len(a) + Len(b)
       /\ \A k \in 1..(Len(a) + Len(b)) : e[k] = IF k <= Len(a) THEN a[k] ELSE b[k - Len(a)]
  <2>1. /\ a \o b \in Seq(T) /\ Len(a \o b) = Len(a) + Len(b)
        /\ \A k \in 1..(Len(a) + Len(b)) :
             (a \o b)[k] = IF k <= Len(a) THEN a[k] ELSE b[k - Len(a)]
    BY <1>7, <1>8, ConcatProperties
  <2> QED BY <2>1, <1>9, Zenon
<1>11. DOMAIN e = 1..(Len(s) - 1) /\ n \in 1..Len(s)
  BY <1>1, <1>5, <1>7, <1>8, <1>10
<1>12. ASSUME NEW k \in DOMAIN e PROVE e[k] = s[IF k < n THEN k ELSE k + 1]
  <2>1. CASE k < n
    <3>1. k \in 1..(Len(a) + Len(b)) /\ k <= Len(a) /\ k \in 1..(n - 1)
      BY <2>1, <1>1, <1>7, <1>8, <1>11
    <3>2. e[k] = a[k] /\ a[k] = s[k]
      BY <3>1, <1>7, <1>10
    <3> QED BY <3>2, <2>1
  <2>2. CASE ~(k < n)
    <3>1. k - Len(a) \in 1..(Len(s) - n) /\ n + (k - Len(a)) = k + 1
      BY <2>2, <1>1, <1>7, <1>11
    <3>2. k \in 1..(Len(a) + Len(b)) /\ ~(k <= Len(a))
      BY <2>2, <1>1, <1>7, <1>8, <1>11
    <3>3. e[k] = b[k - Len(a)]
      BY <3>2, <1>10
    <3>4. b[k - Len(a)] = s[n + (k - Len(a))]
      BY <3>1, <1>8
    <3> QED BY <3>1, <3>3, <3>4, <2>2
  <2> QED BY <2>1, <2>2
<1>13. DistinctIds(e)
  BY <1>1, <1>11, <1>12, SMTT(30) DEF DistinctIds
<1>14. \A x \in C!ToSet(e) : x \in C!ToSet(s) \ {q}
  <2> SUFFICES ASSUME NEW k \in DOMAIN e PROVE e[k] \in C!ToSet(s) \ {q}
    BY DEF C!ToSet
  <2> DEFINE m == IF k < n THEN k ELSE k + 1
  <2>1. m \in DOMAIN s /\ m # n /\ e[k] = s[m]
    BY <1>1, <1>11, <1>12
  <2>2. s[m] # q
    BY <2>1, <1>5 DEF DistinctIds
  <2> QED BY <2>1, <2>2 DEF C!ToSet
<1>15. \A x \in C!ToSet(s) \ {q} : x \in C!ToSet(e)
  <2> SUFFICES ASSUME NEW m \in DOMAIN s, s[m] # q PROVE s[m] \in C!ToSet(e)
    BY DEF C!ToSet
  <2> DEFINE k == IF m < n THEN m ELSE m - 1
  <2>1. k \in DOMAIN e /\ m = IF k < n THEN k ELSE k + 1
    <3>1. m # n
      BY <1>5
    <3> QED BY <3>1, <1>1, <1>11
  <2>2. e[k] = s[m]
    BY <2>1, <1>12
  <2> QED BY <2>1, <2>2 DEF C!ToSet
<1>16. List(e)
  BY <1>10, ListIntro
<1> QED BY <1>13, <1>14, <1>15, <1>16 DEF e, response

-----------------------------------------------------------------------------
\* The ids that the stored packets await, by membership.
LEMMA AwaitedIff ==
  ASSUME NEW i, NEW Q, NEW h
  PROVE  Awaited(i, Q, h) <=>
           /\ i \in IdsType
           /\ \A x : x \in i.man <=> (\E q \in Q : q.pid = x) \/ (x = h /\ x # 0)
           /\ \A x : x \in i.puback <=> \E q \in Q : q.pid = x /\ C!response_packet(q) = "puback"
           /\ \A x : x \in i.pubrec <=> \E q \in Q : q.pid = x /\ C!response_packet(q) = "pubrec"
           /\ \A x : x \in i.pubcomp <=> \E q \in Q : q.pid = x /\ C!response_packet(q) = "pubcomp"
<1>1. \A f : LET w == {q.pid : q \in {r \in Q : C!response_packet(r) = f}}
             IN \A x : x \in w <=> \E q \in Q : q.pid = x /\ C!response_packet(q) = f
  OBVIOUS
<1>2. \A f, z : (z = {q.pid : q \in {r \in Q : C!response_packet(r) = f}}) <=>
                (\A x : x \in z <=> \E q \in Q : q.pid = x /\ C!response_packet(q) = f)
  BY <1>1
<1>3. \A z : (z = {q.pid : q \in Q} \cup ({h} \ {0})) <=>
             (\A x : x \in z <=> (\E q \in Q : q.pid = x) \/ (x = h /\ x # 0))
  OBVIOUS
<1>4. Awaited(i, Q, h) <=>
           /\ i \in IdsType
           /\ i.man = {q.pid : q \in Q} \cup ({h} \ {0})
           /\ i.puback = {q.pid : q \in {r \in Q : C!response_packet(r) = "puback"}}
           /\ i.pubrec = {q.pid : q \in {r \in Q : C!response_packet(r) = "pubrec"}}
           /\ i.pubcomp = {q.pid : q \in {r \in Q : C!response_packet(r) = "pubcomp"}}
  BY Zenon DEF Awaited, Responses
<1> QED BY <1>2, <1>3, <1>4, Zenon

\* An id the application takes.
LEMMA AwaitedHold ==
  ASSUME NEW i, NEW Q, Awaited(i, Q, 0), NEW pid \in C!PacketIds, pid # 0,
         NEW j, j = [i EXCEPT !.man = @ \cup {pid}]
  PROVE  Awaited(j, Q, pid)
<1>1. /\ i \in IdsType
      /\ \A x : x \in i.man <=> (\E q \in Q : q.pid = x) \/ (x = 0 /\ x # 0)
      /\ \A x : x \in i.puback <=> \E q \in Q : q.pid = x /\ C!response_packet(q) = "puback"
      /\ \A x : x \in i.pubrec <=> \E q \in Q : q.pid = x /\ C!response_packet(q) = "pubrec"
      /\ \A x : x \in i.pubcomp <=> \E q \in Q : q.pid = x /\ C!response_packet(q) = "pubcomp"
  BY AwaitedIff, Zenon
<1>2. /\ j \in IdsType /\ j.man = i.man \cup {pid} /\ j.puback = i.puback
      /\ j.pubrec = i.pubrec /\ j.pubcomp = i.pubcomp
  BY <1>1 DEF IdsType
<1>3. \A x : x \in j.man <=> (\E q \in Q : q.pid = x) \/ (x = pid /\ x # 0)
  BY <1>1, <1>2
<1> QED BY <1>1, <1>2, <1>3, AwaitedIff, Zenon

\* The response to a PUBLISH is awaited.
Awaiting(i, m, pid) == [i EXCEPT !.puback = IF m.qos = 1 THEN @ \cup {pid} ELSE @,
                                 !.pubrec = IF m.qos = 2 THEN @ \cup {pid} ELSE @]

\* A PUBLISH is stored under the id the application holds.
LEMMA AwaitedAdd ==
  ASSUME NEW i, NEW Q, NEW m \in Messages, NEW pid \in C!PacketIds, Awaited(i, Q, pid),
         NEW j, j = Awaiting(i, m, pid)
  PROVE  Awaited(j, Q \cup {Publish(m, pid)}, 0)
<1>b. m.qos \in {1, 2}
  BY LinkAssumption
<1> DEFINE new == Publish(m, pid)
           Q2 == Q \cup {new}
<1>1. new.pid = pid /\ C!response_packet(new) = IF m.qos = 1 THEN "puback" ELSE "pubrec"
  BY <1>b DEF Publish, C!response_packet
<1>2. /\ i \in IdsType
      /\ \A x : x \in i.man <=> (\E q \in Q : q.pid = x) \/ (x = pid /\ x # 0)
      /\ \A x : x \in i.puback <=> \E q \in Q : q.pid = x /\ C!response_packet(q) = "puback"
      /\ \A x : x \in i.pubrec <=> \E q \in Q : q.pid = x /\ C!response_packet(q) = "pubrec"
      /\ \A x : x \in i.pubcomp <=> \E q \in Q : q.pid = x /\ C!response_packet(q) = "pubcomp"
  BY AwaitedIff, Zenon
<1>3. /\ j \in IdsType /\ j.man = i.man /\ j.pubcomp = i.pubcomp
      /\ j.puback = IF m.qos = 1 THEN i.puback \cup {pid} ELSE i.puback
      /\ j.pubrec = IF m.qos = 2 THEN i.pubrec \cup {pid} ELSE i.pubrec
  BY <1>2, ZenonT(60) DEF IdsType, Awaiting
<1>a. pid # 0
  <2>1. MaxId \in Nat
    BY LinkAssumption
  <2> QED BY <2>1 DEF C!PacketIds
<1> HIDE DEF new
<1>4. \A x : x \in j.man <=> (\E q \in Q2 : q.pid = x) \/ (x = 0 /\ x # 0)
  BY <1>1, <1>2, <1>3, <1>a
<1>5. \A x : x \in j.puback <=> \E q \in Q2 : q.pid = x /\ C!response_packet(q) = "puback"
  BY <1>1, <1>2, <1>3, <1>b
<1>6. \A x : x \in j.pubrec <=> \E q \in Q2 : q.pid = x /\ C!response_packet(q) = "pubrec"
  BY <1>1, <1>2, <1>3, <1>b
<1>7. \A x : x \in j.pubcomp <=> \E q \in Q2 : q.pid = x /\ C!response_packet(q) = "pubcomp"
  BY <1>1, <1>2, <1>3, <1>b
<1> HIDE DEF Q2
<1>8. Awaited(j, Q2, 0)
  BY <1>3, <1>4, <1>5, <1>6, <1>7, AwaitedIff, Zenon
<1> QED BY <1>8 DEF Q2, new

\* A response ends an exchange and its id is free.
LEMMA AwaitedEnd ==
  ASSUME NEW i, NEW Q, NEW h, Awaited(i, Q, h),
         NEW q \in Q, \A x \in Q : x.pid = q.pid => x = q, h # q.pid,
         NEW j,
         \/ /\ C!response_packet(q) = "puback"
            /\ j = [[i EXCEPT !.puback = @ \ {q.pid}] EXCEPT !.man = @ \ {q.pid}]
         \/ /\ C!response_packet(q) = "pubcomp"
            /\ j = [[i EXCEPT !.pubcomp = @ \ {q.pid}] EXCEPT !.man = @ \ {q.pid}]
  PROVE  Awaited(j, Q \ {q}, h)
<1> DEFINE Q2 == Q \ {q}
<1>1. /\ i \in IdsType
      /\ \A x : x \in i.man <=> (\E r \in Q : r.pid = x) \/ (x = h /\ x # 0)
      /\ \A x : x \in i.puback <=> \E r \in Q : r.pid = x /\ C!response_packet(r) = "puback"
      /\ \A x : x \in i.pubrec <=> \E r \in Q : r.pid = x /\ C!response_packet(r) = "pubrec"
      /\ \A x : x \in i.pubcomp <=> \E r \in Q : r.pid = x /\ C!response_packet(r) = "pubcomp"
  BY AwaitedIff, Zenon
<1>2. /\ j \in IdsType /\ j.man = i.man \ {q.pid} /\ j.pubrec = i.pubrec
      /\ C!response_packet(q) \in {"puback", "pubcomp"}
      /\ j.puback = IF C!response_packet(q) = "puback" THEN i.puback \ {q.pid} ELSE i.puback
      /\ j.pubcomp = IF C!response_packet(q) = "pubcomp" THEN i.pubcomp \ {q.pid} ELSE i.pubcomp
  <2>1. CASE /\ C!response_packet(q) = "puback"
             /\ j = [[i EXCEPT !.puback = @ \ {q.pid}] EXCEPT !.man = @ \ {q.pid}]
    BY <2>1, <1>1 DEF IdsType
  <2>2. CASE /\ C!response_packet(q) = "pubcomp"
             /\ j = [[i EXCEPT !.pubcomp = @ \ {q.pid}] EXCEPT !.man = @ \ {q.pid}]
    BY <2>2, <1>1 DEF IdsType
  <2> QED BY <2>1, <2>2
<1>4. \A x : x \in j.man <=> (\E r \in Q2 : r.pid = x) \/ (x = h /\ x # 0)
  BY <1>1, <1>2
<1>5. \A x : x \in j.puback <=> \E r \in Q2 : r.pid = x /\ C!response_packet(r) = "puback"
  BY <1>1, <1>2
<1>6. \A x : x \in j.pubrec <=> \E r \in Q2 : r.pid = x /\ C!response_packet(r) = "pubrec"
  BY <1>1, <1>2
<1>7. \A x : x \in j.pubcomp <=> \E r \in Q2 : r.pid = x /\ C!response_packet(r) = "pubcomp"
  BY <1>1, <1>2
<1> HIDE DEF Q2
<1>8. Awaited(j, Q2, h)
  BY <1>2, <1>4, <1>5, <1>6, <1>7, AwaitedIff, Zenon
<1> QED BY <1>8 DEF Q2

\* A PUBREL is stored in the place of its PUBLISH.
LEMMA AwaitedPubrec ==
  ASSUME NEW i, NEW Q, NEW h, Awaited(i, Q, h),
         NEW q \in Q, \A x \in Q : x.pid = q.pid => x = q, q.pid \in C!PacketIds,
         C!response_packet(q) = "pubrec",
         NEW j, j = [[i EXCEPT !.pubrec = @ \ {q.pid}] EXCEPT !.pubcomp = @ \cup {q.pid}]
  PROVE  Awaited(j, (Q \ {q}) \cup {C!Ack("pubrel", q.pid)}, h)
<1> DEFINE rel == C!Ack("pubrel", q.pid)
           Q2 == (Q \ {q}) \cup {rel}
<1>1. rel.pid = q.pid /\ C!response_packet(rel) = "pubcomp"
  BY DEF C!Ack, C!response_packet
<1>2. /\ i \in IdsType
      /\ \A x : x \in i.man <=> (\E r \in Q : r.pid = x) \/ (x = h /\ x # 0)
      /\ \A x : x \in i.puback <=> \E r \in Q : r.pid = x /\ C!response_packet(r) = "puback"
      /\ \A x : x \in i.pubrec <=> \E r \in Q : r.pid = x /\ C!response_packet(r) = "pubrec"
      /\ \A x : x \in i.pubcomp <=> \E r \in Q : r.pid = x /\ C!response_packet(r) = "pubcomp"
  BY AwaitedIff, Zenon
<1>3. /\ j \in IdsType /\ j.man = i.man /\ j.puback = i.puback
      /\ j.pubrec = i.pubrec \ {q.pid} /\ j.pubcomp = i.pubcomp \cup {q.pid}
  BY <1>2 DEF IdsType
<1> HIDE DEF rel
<1>4. \A x : x \in j.man <=> (\E r \in Q2 : r.pid = x) \/ (x = h /\ x # 0)
  BY <1>1, <1>2, <1>3
<1>5. \A x : x \in j.puback <=> \E r \in Q2 : r.pid = x /\ C!response_packet(r) = "puback"
  BY <1>1, <1>2, <1>3
<1>6. \A x : x \in j.pubrec <=> \E r \in Q2 : r.pid = x /\ C!response_packet(r) = "pubrec"
  BY <1>1, <1>2, <1>3
<1>7. \A x : x \in j.pubcomp <=> \E r \in Q2 : r.pid = x /\ C!response_packet(r) = "pubcomp"
  BY <1>1, <1>2, <1>3
<1> HIDE DEF Q2
<1>8. Awaited(j, Q2, h)
  BY <1>3, <1>4, <1>5, <1>6, <1>7, AwaitedIff, Zenon
<1> QED BY <1>8 DEF Q2, rel

\* The ids that restore_packets takes are those of the stored packets.
LEMMA RestoredIds ==
  ASSUME NEW s, \A q \in C!ToSet(s) : q.pid \in C!PacketIds
  PROVE  Awaited(C!restored_ids(s), C!ToSet(s), 0)
<1> DEFINE with(f) == {s[i].pid : i \in {j \in DOMAIN s : C!response_packet(s[j]) = f}}
           man == {s[i].pid : i \in DOMAIN s}
           Q == C!ToSet(s)
           i == C!restored_ids(s)
<1>1. i = [C!NoIds EXCEPT !.man = man, !.puback = with("puback"),
                          !.pubrec = with("pubrec"), !.pubcomp = with("pubcomp")]
  BY DEF C!restored_ids
<1>2. \A x : x \in man <=> (\E q \in Q : q.pid = x) \/ (x = 0 /\ x # 0)
  BY DEF C!ToSet
<1>3. \A f, x : x \in with(f) <=> \E q \in Q : q.pid = x /\ C!response_packet(q) = f
  BY DEF C!ToSet
<1>4. man \in SUBSET C!PacketIds /\ \A f : with(f) \in SUBSET C!PacketIds
  BY DEF C!ToSet
<1> HIDE DEF with, man, Q, i
<1>5. C!NoIds \in IdsType
  BY DEF IdsType, C!NoIds
<1>6. /\ i \in IdsType /\ i.man = man /\ i.puback = with("puback") /\ i.pubrec = with("pubrec")
      /\ i.pubcomp = with("pubcomp")
  BY <1>1, <1>4, <1>5 DEF IdsType
<1>7. /\ \A x : x \in i.man <=> (\E q \in Q : q.pid = x) \/ (x = 0 /\ x # 0)
      /\ \A x : x \in i.puback <=> \E q \in Q : q.pid = x /\ C!response_packet(q) = "puback"
      /\ \A x : x \in i.pubrec <=> \E q \in Q : q.pid = x /\ C!response_packet(q) = "pubrec"
      /\ \A x : x \in i.pubcomp <=> \E q \in Q : q.pid = x /\ C!response_packet(q) = "pubcomp"
  BY <1>2, <1>3, <1>6
<1>8. Awaited(i, Q, 0)
  BY <1>6, <1>7, AwaitedIff, Zenon
<1> QED BY <1>8 DEF Q, i

-------------------------------------------------------------------------------
\* The events of a call, and what the application does with them.

SendEv(p)        == [event |-> "RequestSendPacket", packet |-> p, release |-> 0]
ReceivedEv(p)    == [event |-> "NotifyPacketReceived", packet |-> p]
ReleasedEv(pids) == [event |-> "NotifyPacketIdReleased", pids |-> pids]
SendAll(s)       == [i \in DOMAIN s |-> SendEv(s[i])]

\* When the packets are sent first, they are the ones sent.
LEMMA SentFirst ==
  ASSUME NEW evs, NEW n \in Nat, Of(evs, "RequestSendPacket") = 1..n
  PROVE  Sent(evs) = [k \in 1..n |-> evs[k].packet]
<1> DEFINE at == Of(evs, "RequestSendPacket")
           nth(k) == CHOOSE i \in at : Cardinality({j \in at : j <= i}) = k
<1>1. ASSUME NEW i \in at PROVE Cardinality({j \in at : j <= i}) = i
  <2>1. {j \in at : j <= i} = 1..i /\ i \in Nat
    OBVIOUS
  <2>2. Cardinality(1..i) = i
    BY <2>1, FS_Interval
  <2> QED BY <2>1, <2>2
<1>2. Cardinality(at) = n
  BY FS_Interval
<1>3. ASSUME NEW k \in 1..n PROVE nth(k) = k
  <2>1. \A i \in at : Cardinality({j \in at : j <= i}) = i
    BY <1>1
  <2>2. k \in at
    OBVIOUS
  <2> HIDE DEF at
  <2>3. \E i \in at : Cardinality({j \in at : j <= i}) = k
    BY <2>1, <2>2
  <2>4. nth(k) \in at /\ Cardinality({j \in at : j <= nth(k)}) = k
    BY <2>3
  <2> HIDE DEF nth
  <2> QED BY <2>1, <2>4
<1>4. Sent(evs) = [k \in 1..Cardinality(at) |-> evs[nth(k)].packet]
  BY DEF Sent
<1> HIDE DEF nth, at
<1> QED BY <1>2, <1>3, <1>4

\* The events of a call that only sends.
LEMMA EventsSent ==
  ASSUME NEW s, List(s), NEW evs, evs = SendAll(s)
  PROVE  /\ Sent(evs) = s /\ Released(evs) = {} /\ \A t : Notified(evs, t) = {}
         /\ Of(evs, "RequestClose") = {} /\ Of(evs, "NotifyError") = {}
<1>1. Len(s) \in Nat /\ DOMAIN s = 1..Len(s) /\ s = [k \in 1..Len(s) |-> s[k]]
  BY ListFacts
<1>2. DOMAIN evs = 1..Len(s) /\ \A i \in DOMAIN evs : evs[i] = SendEv(s[i])
  BY <1>1 DEF SendAll
<1>3. \A i \in DOMAIN evs : evs[i].event = "RequestSendPacket" /\ evs[i].packet = s[i]
  BY <1>2 DEF SendEv
<1>4. Of(evs, "RequestSendPacket") = 1..Len(s)
  BY <1>2, <1>3 DEF Of
<1>5. Sent(evs) = [k \in 1..Len(s) |-> evs[k].packet]
  <2> DEFINE n == Len(s)
  <2>1. n \in Nat /\ Of(evs, "RequestSendPacket") = 1..n
    BY <1>1, <1>4
  <2> HIDE DEF n
  <2>2. Sent(evs) = [k \in 1..n |-> evs[k].packet]
    BY <2>1, SentFirst, ZenonT(60)
  <2> QED BY <2>2 DEF n
<1>6. Sent(evs) = s
  BY <1>1, <1>2, <1>3, <1>5
<1>7. Of(evs, "RequestClose") = {} /\ Of(evs, "NotifyError") = {}
  BY <1>3 DEF Of
<1>8. Released(evs) = {} /\ \A t : Notified(evs, t) = {}
  BY <1>3 DEF Released, Notified
<1> QED BY <1>6, <1>7, <1>8

\* The events of a call that sends, and hands on what it received.
LEMMA EventsReceived ==
  ASSUME NEW s, List(s), NEW x, NEW evs, evs = Append(SendAll(s), ReceivedEv(x))
  PROVE  /\ Sent(evs) = s /\ Released(evs) = {}
         /\ \A t : Notified(evs, t) = IF x.type = t THEN {x} ELSE {}
         /\ Of(evs, "RequestClose") = {} /\ Of(evs, "NotifyError") = {}
<1>1. Len(s) \in Nat /\ DOMAIN s = 1..Len(s) /\ s = [k \in 1..Len(s) |-> s[k]]
  BY ListFacts
<1> DEFINE n == Len(s)
           all == SendAll(s)
           E == {SendEv(s[i]) : i \in DOMAIN s} \cup {ReceivedEv(x)}
<1>2. all \in Seq(E) /\ Len(all) = n /\ \A i \in 1..n : all[i] = SendEv(s[i])
  <2>1. all \in [1..n -> E] /\ \A i \in 1..n : all[i] = SendEv(s[i])
    BY <1>1 DEF SendAll
  <2> HIDE DEF all, E, n
  <2>2. all \in Seq(E)
    BY <2>1, <1>1, SeqDef DEF n
  <2> QED BY <2>1, <2>2, <1>1 DEF n
<1> HIDE DEF all
<1>3. ReceivedEv(x) \in E
  OBVIOUS
<1> HIDE DEF E
<1>4. /\ Len(evs) = n + 1 /\ DOMAIN evs = 1..(n + 1)
      /\ \A i \in 1..n : evs[i] = SendEv(s[i])
      /\ evs[n + 1] = ReceivedEv(x)
  <2>1. evs = Append(all, ReceivedEv(x))
    BY DEF all
  <2>2. evs \in Seq(E) /\ Len(evs) = n + 1 /\ (\A i \in 1..n : evs[i] = all[i]) /\ evs[n + 1] = ReceivedEv(x)
    BY <2>1, <1>2, <1>3, AppendProperties
  <2> QED BY <2>2, <1>2
<1> HIDE DEF n
<1>5. /\ \A i \in 1..n : evs[i].event = "RequestSendPacket" /\ evs[i].packet = s[i]
      /\ evs[n + 1].event = "NotifyPacketReceived" /\ evs[n + 1].packet = x
  <2>1. \A p : SendEv(p).event = "RequestSendPacket" /\ SendEv(p).packet = p
    BY DEF SendEv
  <2>2. ReceivedEv(x).event = "NotifyPacketReceived" /\ ReceivedEv(x).packet = x
    BY DEF ReceivedEv
  <2> QED BY <2>1, <2>2, <1>4, Zenon
<1>6. n \in Nat /\ 1..(n + 1) = 1..n \cup {n + 1}
  BY <1>1 DEF n
<1>7. Of(evs, "RequestSendPacket") = 1..n
  BY <1>4, <1>5, <1>6 DEF Of
<1>8. Sent(evs) = [k \in 1..n |-> evs[k].packet]
  BY <1>6, <1>7, SentFirst, Zenon
<1>9. Sent(evs) = s
  BY <1>1, <1>5, <1>8 DEF n
<1>10. Of(evs, "RequestClose") = {} /\ Of(evs, "NotifyError") = {}
  BY <1>4, <1>5, <1>6 DEF Of
<1>11. Released(evs) = {}
  BY <1>4, <1>5, <1>6 DEF Released
<1>12. ASSUME NEW t PROVE Notified(evs, t) = IF x.type = t THEN {x} ELSE {}
  <2>1. {j \in DOMAIN evs : evs[j].event = "NotifyPacketReceived" /\ evs[j].packet.type = t}
          = IF x.type = t THEN {n + 1} ELSE {}
    BY <1>4, <1>5, <1>6
  <2> QED BY <2>1, <1>5 DEF Notified
<1> QED BY <1>9, <1>10, <1>11, <1>12

\* The events of a call that ends an exchange.
LEMMA EventsReleased ==
  ASSUME NEW pids, NEW x, NEW evs, evs = <<ReleasedEv(pids), ReceivedEv(x)>>
  PROVE  /\ Sent(evs) = <<>> /\ Released(evs) = pids
         /\ \A t : Notified(evs, t) = IF x.type = t THEN {x} ELSE {}
         /\ Of(evs, "RequestClose") = {} /\ Of(evs, "NotifyError") = {}
<1>1. DOMAIN evs = {1, 2} /\ evs[1] = ReleasedEv(pids) /\ evs[2] = ReceivedEv(x)
  OBVIOUS
<1>2. /\ evs[1].event = "NotifyPacketIdReleased" /\ evs[1].pids = pids
      /\ evs[2].event = "NotifyPacketReceived" /\ evs[2].packet = x
  BY <1>1 DEF ReleasedEv, ReceivedEv
<1>3. /\ Of(evs, "RequestSendPacket") = {} /\ Of(evs, "RequestClose") = {}
      /\ Of(evs, "NotifyError") = {}
  BY <1>1, <1>2 DEF Of
<1>4. Of(evs, "RequestSendPacket") = 1..0
  BY <1>3
<1>5. Sent(evs) = [k \in 1..0 |-> evs[k].packet]
  BY <1>4, SentFirst
<1>6. Sent(evs) = <<>>
  BY <1>5
<1>7. Released(evs) = pids
  <2>1. {j \in DOMAIN evs : evs[j].event = "NotifyPacketIdReleased"} = {1}
    BY <1>1, <1>2
  <2>2. {evs[i].pids : i \in {1}} = {pids}
    BY <1>2
  <2> QED BY <2>1, <2>2 DEF Released
<1>8. ASSUME NEW t PROVE Notified(evs, t) = IF x.type = t THEN {x} ELSE {}
  <2>1. {j \in DOMAIN evs : evs[j].event = "NotifyPacketReceived" /\ evs[j].packet.type = t}
          = IF x.type = t THEN {2} ELSE {}
    BY <1>1, <1>2
  <2>2. {evs[i].packet : i \in {2}} = {x} /\ {evs[i].packet : i \in {}} = {}
    BY <1>2
  <2> QED BY <2>1, <2>2 DEF Notified
<1> QED BY <1>3, <1>6, <1>7, <1>8
\* Nothing to send.
LEMMA SendNone == SendAll(<<>>) = <<>>
BY DEF SendAll

\* One packet to send.
LEMMA SendOne ==
  ASSUME NEW p
  PROVE  SendAll(<<p>>) = <<SendEv(p)>>
<1>1. DOMAIN <<p>> = {1} /\ <<p>>[1] = p
  OBVIOUS
<1>2. SendAll(<<p>>) = [i \in {1} |-> SendEv(p)]
  BY <1>1 DEF SendAll
<1> HIDE DEF SendEv
<1>3. <<SendEv(p)>> = [i \in {1} |-> SendEv(p)]
  OBVIOUS
<1> QED BY <1>2, <1>3

-------------------------------------------------------------------------------
\* What recv() does with a packet of an exchange, on a side that is plain. The client
\* and the server are instances of the same module, so a fact about a helper is stated
\* for each.

\* A connection's `self` between the helpers of a call.
St(l, e) == [link |-> l, ping |-> NoPing, ev |-> e]

\* Events added one after another.
LEMMA Appends ==
  ASSUME NEW a, NEW b
  PROVE  Append(<<>>, a) = <<a>> /\ Append(<<a>>, b) = <<a, b>>
<1>1. Append(<<>>, a) = <<a>>
  OBVIOUS
<1>2. Append(<<a>>, b) = <<a, b>>
  <2> DEFINE t == Append(<<a>>, b)
  <2>1. <<a>> \in Seq({a, b}) /\ Len(<<a>>) = 1 /\ <<a>>[1] = a
    OBVIOUS
  <2>2. t \in Seq({a, b}) /\ Len(t) = Len(<<a>>) + 1 /\ t[1] = <<a>>[1] /\ t[Len(<<a>>) + 1] = b
    BY <2>1, AppendProperties
  <2> HIDE DEF t
  <2>3. Len(t) = 2 /\ t[1] = a /\ t[2] = b
    BY <2>1, <2>2
  <2>4. t = <<a, b>>
    BY <2>2, <2>3
  <2> QED BY <2>4 DEF t
<1> QED BY <1>1, <1>2

\* The session of a connection that stores.
Session(st, pids) == [need_store |-> TRUE, store |-> st, qos2_publish_handled |-> pids]

\* One event more.
LEMMA ClientPush ==
  ASSUME NEW l, NEW e, NEW x
  PROVE  C!Push(St(l, e), x) = St(l, Append(e, x))
BY DEF C!Push, St

\* request_send adds a packet to send.
LEMMA ClientRequestSend ==
  ASSUME NEW l, NEW e, NEW p
  PROVE  C!RequestSend(St(l, e), p, 0) = St(l, Append(e, SendEv(p)))
BY ClientPush DEF C!RequestSend, C!SendEvent, SendEv

\* A packet handed to the application.
LEMMA ClientNotifyReceived ==
  ASSUME NEW l, NEW e, NEW p
  PROVE  C!NotifyReceived(St(l, e), p) = St(l, Append(e, ReceivedEv(p)))
BY ClientPush DEF C!NotifyReceived, ReceivedEv

\* An id given back.
LEMMA ClientNotifyReleased ==
  ASSUME NEW l, NEW e, NEW pids, pids # {}
  PROVE  C!NotifyReleased(St(l, e), pids) = St(l, Append(e, ReleasedEv(pids)))
BY ClientPush DEF C!NotifyReleased, C!ReleasedEvent, ReleasedEv

\* The helpers of a call on a plain connection, which has no timers to set.
LEMMA ClientHelpers ==
  ASSUME Plain("client")
  PROVE  /\ C!self = St(c_link, <<>>)
         /\ \A l, e : C!send_post_process(St(l, e)) = St(l, e)
         /\ \A l, e : C!refresh_pingreq_recv(St(l, e)) = St(l, e)
         /\ \A l, e : C!cancel_timers(St(l, e)) = St(l, e)
         /\ ~C!TooLarge(C!AckSize) /\ C!AckSize <= c_lim.recv
<1>1. c_ping = NoPing /\ c_opts.pingreq_user_send_interval_ms = C!None
  BY DEF Plain, ping, opts, Options
<1>2. C!self = St(c_link, <<>>)
  BY <1>1 DEF St, C!self
<1>4. \A l, e : C!pingreq_interval(St(l, e)) = 0
  BY <1>1 DEF C!pingreq_interval, St, NoPing, C!None, C!None
<1>5. \A l, e : C!send_post_process(St(l, e)) = St(l, e)
  BY <1>4 DEF C!send_post_process
<1>6. \A l, e : C!refresh_pingreq_recv(St(l, e)) = St(l, e)
  BY DEF C!refresh_pingreq_recv, St, NoPing
<1>7. \A l, e, k : C!cancel(St(l, e), k) = St(l, e)
  BY DEF C!cancel, St, NoPing
<1>8. \A l, e : C!cancel_timers(St(l, e)) = St(l, e)
  BY <1>7 DEF C!cancel_timers
<1>12. ~C!TooLarge(C!AckSize) /\ C!AckSize <= c_lim.recv
  BY DEF C!TooLarge, Plain, lim, NoLimits, C!NoLimit, C!AckSize
<1> QED BY <1>2, <1>5, <1>6, <1>8, <1>12

\* What a call leaves in the variables.
LEMMA ClientOut ==
  ASSUME NEW l, NEW e
  PROVE  /\ C!Out(St(l, e)) => c_link' = l /\ c_ping' = NoPing /\ c_events' = e
         /\ \A b : C!OutUnless(b, St(l, e)) => c_link' = l /\ c_ping' = NoPing /\ c_events' = e
BY DEF C!Out, C!OutUnless, St

\* A response is sent when it is automatic.
LEMMA ClientResponse ==
  ASSUME Plain("client"), c_link.status = "Connected", NEW p, p.size = C!AckSize
  PROVE  C!CanSend(St(c_link, <<>>), p) /\ C!send_response(St(c_link, <<>>), p) = St(c_link, <<SendEv(p)>>)
<1>1. ~C!TooLarge(p.size)
  BY ClientHelpers
<1>2. C!CanSend(St(c_link, <<>>), p)
  BY <1>1 DEF C!CanSend, St
<1>3. Append(<<>>, SendEv(p)) = <<SendEv(p)>>
  OBVIOUS
<1>4. C!RequestSend(St(c_link, <<>>), p, 0) = St(c_link, <<SendEv(p)>>)
  <2>1. C!RequestSend(St(c_link, <<>>), p, 0) = St(c_link, Append(<<>>, SendEv(p)))
    BY ClientRequestSend
  <2> QED BY <1>3, <2>1, Zenon
<1>5. C!send_post_process(St(c_link, <<SendEv(p)>>)) = St(c_link, <<SendEv(p)>>)
  BY ClientHelpers
<1>6. C!send_response(St(c_link, <<>>), p) = C!send_post_process(C!RequestSend(St(c_link, <<>>), p, 0))
  BY <1>1, <1>2 DEF C!send_response
<1> QED BY <1>2, <1>4, <1>5, <1>6

\* A packet of an exchange is accepted.
LEMMA ClientAccepts ==
  ASSUME Plain("client"), c_link.status = "Connected",
         NEW p, p.type \in Requests \cup Responses, p.size = C!AckSize
  PROVE  C!accepts(p) /\ ~C!recv_refused(p)
<1>1. c_link.protocol_version \in {"V3", "V5"}
  <2>1. c_link.protocol_version = Version
    BY DEF Plain, status, link
  <2> QED BY <2>1, LinkAssumption
<1>2. p.size <= c_lim.recv
  BY ClientHelpers
<1>3. C!can_receive(p.type)
  BY DEF C!can_receive, Requests, Responses
<1>4. C!handled_type(p.type)
  BY <1>1 DEF C!handled_type, Requests, Responses
<1>5. ~(p.size > c_lim.recv)
  BY DEF Plain, lim, NoLimits, C!NoLimit, C!AckSize
<1> QED BY <1>2, <1>3, <1>4, <1>5 DEF C!accepts, C!recv_refused

\* The handler of a packet that is not refused.
LEMMA ClientRecv ==
  ASSUME NEW p, C!recv(p), ~C!recv_refused(p)
  PROVE  /\ p.type = "connect" => C!process_recv_connect(p)
         /\ p.type = "connack" => C!process_recv_connack(p)
         /\ p.type = "publish" => C!process_recv_publish(p)
         /\ p.type = "puback" => C!process_recv_puback(p)
         /\ p.type = "pubrec" => C!process_recv_pubrec(p)
         /\ p.type = "pubrel" => C!process_recv_pubrel(p)
         /\ p.type = "pubcomp" => C!process_recv_pubcomp(p)
<1>1. CASE p.type = "connect"
  BY <1>1 DEF C!recv
<1>2. CASE p.type = "connack"
  BY <1>2 DEF C!recv
<1>3. CASE p.type = "publish"
  BY <1>3 DEF C!recv
<1>4. CASE p.type = "puback"
  BY <1>4 DEF C!recv
<1>5. CASE p.type = "pubrec"
  BY <1>5 DEF C!recv
<1>6. CASE p.type = "pubrel"
  BY <1>6 DEF C!recv
<1>7. CASE p.type = "pubcomp"
  BY <1>7 DEF C!recv
<1> QED BY <1>1, <1>2, <1>3, <1>4, <1>5, <1>6, <1>7

\* The records of a session that is kept.
LEMMA ClientSession ==
  ASSUME Plain("client"), c_link.status = "Connected" \/ c_link.status = "Connecting"
  PROVE  c_sess = Session(c_sess.store, c_sess.qos2_publish_handled)
<1>1. PICK n \in BOOLEAN : c_sess = [need_store |-> n, store |-> c_sess.store,
                                      qos2_publish_handled |-> c_sess.qos2_publish_handled]
  BY DEF Plain, sess, store, handled
<1>2. c_sess.need_store
  BY DEF Plain, sess, status, link
<1>3. n = TRUE
  BY <1>1, <1>2
<1> QED BY <1>1, <1>3 DEF Session
\* One event more.
LEMMA ServerPush ==
  ASSUME NEW l, NEW e, NEW x
  PROVE  S!Push(St(l, e), x) = St(l, Append(e, x))
BY DEF S!Push, St

\* request_send adds a packet to send.
LEMMA ServerRequestSend ==
  ASSUME NEW l, NEW e, NEW p
  PROVE  S!RequestSend(St(l, e), p, 0) = St(l, Append(e, SendEv(p)))
BY ServerPush DEF S!RequestSend, S!SendEvent, SendEv

\* A packet handed to the application.
LEMMA ServerNotifyReceived ==
  ASSUME NEW l, NEW e, NEW p
  PROVE  S!NotifyReceived(St(l, e), p) = St(l, Append(e, ReceivedEv(p)))
BY ServerPush DEF S!NotifyReceived, ReceivedEv

\* An id given back.
LEMMA ServerNotifyReleased ==
  ASSUME NEW l, NEW e, NEW pids, pids # {}
  PROVE  S!NotifyReleased(St(l, e), pids) = St(l, Append(e, ReleasedEv(pids)))
BY ServerPush DEF S!NotifyReleased, S!ReleasedEvent, ReleasedEv

\* The helpers of a call on a plain connection, which has no timers to set.
LEMMA ServerHelpers ==
  ASSUME Plain("server")
  PROVE  /\ S!self = St(s_link, <<>>)
         /\ \A l, e : S!send_post_process(St(l, e)) = St(l, e)
         /\ \A l, e : S!refresh_pingreq_recv(St(l, e)) = St(l, e)
         /\ \A l, e : S!cancel_timers(St(l, e)) = St(l, e)
         /\ ~S!TooLarge(C!AckSize) /\ C!AckSize <= s_lim.recv
<1>1. s_ping = NoPing /\ s_opts.pingreq_user_send_interval_ms = C!None
  BY DEF Plain, ping, opts, Options
<1>2. S!self = St(s_link, <<>>)
  BY <1>1 DEF St, S!self
<1>4. \A l, e : S!pingreq_interval(St(l, e)) = 0
  BY <1>1 DEF S!pingreq_interval, St, NoPing, C!None, S!None
<1>5. \A l, e : S!send_post_process(St(l, e)) = St(l, e)
  BY <1>4 DEF S!send_post_process
<1>6. \A l, e : S!refresh_pingreq_recv(St(l, e)) = St(l, e)
  BY DEF S!refresh_pingreq_recv, St, NoPing
<1>7. \A l, e, k : S!cancel(St(l, e), k) = St(l, e)
  BY DEF S!cancel, St, NoPing
<1>8. \A l, e : S!cancel_timers(St(l, e)) = St(l, e)
  BY <1>7 DEF S!cancel_timers
<1>12. ~S!TooLarge(C!AckSize) /\ C!AckSize <= s_lim.recv
  BY DEF S!TooLarge, Plain, lim, NoLimits, C!NoLimit, C!AckSize
<1> QED BY <1>2, <1>5, <1>6, <1>8, <1>12

\* What a call leaves in the variables.
LEMMA ServerOut ==
  ASSUME NEW l, NEW e
  PROVE  /\ S!Out(St(l, e)) => s_link' = l /\ s_ping' = NoPing /\ s_events' = e
         /\ \A b : S!OutUnless(b, St(l, e)) => s_link' = l /\ s_ping' = NoPing /\ s_events' = e
BY DEF S!Out, S!OutUnless, St

\* A response is sent when it is automatic.
LEMMA ServerResponse ==
  ASSUME Plain("server"), s_link.status = "Connected", NEW p, p.size = C!AckSize
  PROVE  S!CanSend(St(s_link, <<>>), p) /\ S!send_response(St(s_link, <<>>), p) = St(s_link, <<SendEv(p)>>)
<1>1. ~S!TooLarge(p.size)
  BY ServerHelpers
<1>2. S!CanSend(St(s_link, <<>>), p)
  BY <1>1 DEF S!CanSend, St
<1>3. Append(<<>>, SendEv(p)) = <<SendEv(p)>>
  OBVIOUS
<1>4. S!RequestSend(St(s_link, <<>>), p, 0) = St(s_link, <<SendEv(p)>>)
  <2>1. S!RequestSend(St(s_link, <<>>), p, 0) = St(s_link, Append(<<>>, SendEv(p)))
    BY ServerRequestSend
  <2> QED BY <1>3, <2>1, Zenon
<1>5. S!send_post_process(St(s_link, <<SendEv(p)>>)) = St(s_link, <<SendEv(p)>>)
  BY ServerHelpers
<1>6. S!send_response(St(s_link, <<>>), p) = S!send_post_process(S!RequestSend(St(s_link, <<>>), p, 0))
  BY <1>1, <1>2 DEF S!send_response
<1> QED BY <1>2, <1>4, <1>5, <1>6

\* A packet of an exchange is accepted.
LEMMA ServerAccepts ==
  ASSUME Plain("server"), s_link.status = "Connected",
         NEW p, p.type \in Requests \cup Responses, p.size = C!AckSize
  PROVE  S!accepts(p) /\ ~S!recv_refused(p)
<1>1. s_link.protocol_version \in {"V3", "V5"}
  <2>1. s_link.protocol_version = Version
    BY DEF Plain, status, link
  <2> QED BY <2>1, LinkAssumption
<1>2. p.size <= s_lim.recv
  BY ServerHelpers
<1>3. S!can_receive(p.type)
  BY DEF S!can_receive, Requests, Responses
<1>4. S!handled_type(p.type)
  BY <1>1 DEF S!handled_type, Requests, Responses
<1>5. ~(p.size > s_lim.recv)
  BY DEF Plain, lim, NoLimits, C!NoLimit, C!AckSize
<1> QED BY <1>2, <1>3, <1>4, <1>5 DEF S!accepts, S!recv_refused

\* The handler of a packet that is not refused.
LEMMA ServerRecv ==
  ASSUME NEW p, S!recv(p), ~S!recv_refused(p)
  PROVE  /\ p.type = "connect" => S!process_recv_connect(p)
         /\ p.type = "connack" => S!process_recv_connack(p)
         /\ p.type = "publish" => S!process_recv_publish(p)
         /\ p.type = "puback" => S!process_recv_puback(p)
         /\ p.type = "pubrec" => S!process_recv_pubrec(p)
         /\ p.type = "pubrel" => S!process_recv_pubrel(p)
         /\ p.type = "pubcomp" => S!process_recv_pubcomp(p)
<1>1. CASE p.type = "connect"
  BY <1>1 DEF S!recv
<1>2. CASE p.type = "connack"
  BY <1>2 DEF S!recv
<1>3. CASE p.type = "publish"
  BY <1>3 DEF S!recv
<1>4. CASE p.type = "puback"
  BY <1>4 DEF S!recv
<1>5. CASE p.type = "pubrec"
  BY <1>5 DEF S!recv
<1>6. CASE p.type = "pubrel"
  BY <1>6 DEF S!recv
<1>7. CASE p.type = "pubcomp"
  BY <1>7 DEF S!recv
<1> QED BY <1>1, <1>2, <1>3, <1>4, <1>5, <1>6, <1>7

\* The records of a session that is kept.
LEMMA ServerSession ==
  ASSUME Plain("server"), s_link.status = "Connected" \/ s_link.status = "Connecting"
  PROVE  s_sess = Session(s_sess.store, s_sess.qos2_publish_handled)
<1>1. PICK n \in BOOLEAN : s_sess = [need_store |-> n, store |-> s_sess.store,
                                      qos2_publish_handled |-> s_sess.qos2_publish_handled]
  BY DEF Plain, sess, store, handled
<1>2. s_sess.need_store
  BY DEF Plain, sess, status, link
<1>3. n = TRUE
  BY <1>1, <1>2
<1> QED BY <1>1, <1>3 DEF Session

\* What the packets of the exchanges leave alone.
Frame(side) == /\ alias(side)' = alias(side) /\ lim(side)' = lim(side) /\ ping(side)' = NoPing
               /\ opts(side)' = opts(side) /\ link(side)' = link(side)

\* A response that ends an exchange is awaited, and frees the id.
Expected(i, r) == r.pid \in i[r.type] /\ r.pid \in i.man
Freed(i, r) ==
  IF r.type = "puback" THEN [[i EXCEPT !.puback = @ \ {r.pid}] EXCEPT !.man = @ \ {r.pid}]
  ELSE [[i EXCEPT !.pubcomp = @ \ {r.pid}] EXCEPT !.man = @ \ {r.pid}]

\* recv() of PUBACK or PUBCOMP: the stored packet is erased, the id freed.
LEMMA RecvEnds ==
  ASSUME NEW side \in Sides, Plain(side), status(side) = "Connected",
         NEW r, Ending(r), r.size = C!AckSize,
         Expected(ids(side), r), recv(side, r)
  PROVE  /\ ids(side)' = Freed(ids(side), r)
         /\ sess(side)' = Session(C!erase(store(side), r.type, r.pid), handled(side))
         /\ Frame(side) /\ flow(side)' = flow(side)
         /\ events(side)' = <<ReleasedEv({r.pid}), ReceivedEv(r)>>
<1>1. CASE side = "client"
  <2>b. r.type \in {"puback", "pubcomp"}
    BY DEF Ending
  <2> USE <2>b
  <2>1. Plain("client") /\ c_link.status = "Connected" /\ C!recv(r)
    BY <1>1 DEF status, link, recv
  <2>2. C!accepts(r) /\ ~C!recv_refused(r)
    BY <2>1, ClientAccepts DEF Responses
  <2>3. \/ r.type = "puback" /\ C!process_recv_puback(r)
        \/ r.type = "pubcomp" /\ C!process_recv_pubcomp(r)
    <3>1. /\ r.type = "puback" => C!process_recv_puback(r)
          /\ r.type = "pubcomp" => C!process_recv_pubcomp(r)
      BY <2>1, <2>2, ClientRecv
    <3>2. r.type = "puback" \/ r.type = "pubcomp"
      OBVIOUS
    <3> QED BY <3>1, <3>2, Zenon
  <2>a. r.pid \in ids(side)[r.type] /\ r.pid \in ids(side).man
    BY DEF Expected
  <2>4. \/ r.type = "puback" /\ C!response_ends(r, [c_ids EXCEPT !.puback = @ \ {r.pid}], C!V5)
        \/ r.type = "pubcomp" /\ C!response_ends(r, [c_ids EXCEPT !.pubcomp = @ \ {r.pid}], C!V5)
    BY <2>3, <2>a, <1>1 DEF C!process_recv_puback, C!process_recv_pubcomp, ids
  <2>5. c_flow.send_max = C!None
    BY <2>1 DEF Plain, flow, NoFlow, C!None, C!None
  <2>6. /\ c_flow' = c_flow /\ c_sess' = [c_sess EXCEPT !.store = C!erase(@, r.type, r.pid)]
        /\ UNCHANGED <<c_lim, c_alias, c_opts>>
        /\ C!Out(C!NotifyReceived(C!refresh_pingreq_recv(C!NotifyReleased(C!self, {r.pid} \cap c_ids.man)), r))
    BY <2>4, <2>5 DEF C!response_ends, C!OutUnless, C!Out
  <2>7. {r.pid} \cap c_ids.man = {r.pid}
    BY <2>a, <1>1 DEF ids
  <2>8. C!Out(St(c_link, <<ReleasedEv({r.pid}), ReceivedEv(r)>>))
    <3>1. /\ Append(<<>>, ReleasedEv({r.pid})) = <<ReleasedEv({r.pid})>>
          /\ Append(<<ReleasedEv({r.pid})>>, ReceivedEv(r)) = <<ReleasedEv({r.pid}), ReceivedEv(r)>>
      BY Appends
    <3>2. C!NotifyReleased(C!self, {r.pid} \cap c_ids.man) = St(c_link, <<ReleasedEv({r.pid})>>)
      <4>1. C!NotifyReleased(St(c_link, <<>>), {r.pid}) = St(c_link, Append(<<>>, ReleasedEv({r.pid})))
        BY ClientNotifyReleased
      <4>2. C!self = St(c_link, <<>>)
        BY <2>1, ClientHelpers
      <4> QED BY <2>7, <3>1, <4>1, <4>2, Zenon
    <3>3. C!NotifyReceived(C!refresh_pingreq_recv(St(c_link, <<ReleasedEv({r.pid})>>)), r)
            = St(c_link, <<ReleasedEv({r.pid}), ReceivedEv(r)>>)
      <4>1. C!NotifyReceived(St(c_link, <<ReleasedEv({r.pid})>>), r)
              = St(c_link, Append(<<ReleasedEv({r.pid})>>, ReceivedEv(r)))
        BY ClientNotifyReceived
      <4>2. C!refresh_pingreq_recv(St(c_link, <<ReleasedEv({r.pid})>>)) = St(c_link, <<ReleasedEv({r.pid})>>)
        BY <2>1, ClientHelpers
      <4> QED BY <3>1, <4>1, <4>2, Zenon
    <3> QED BY <2>6, <3>2, <3>3
  <2>9. c_link' = c_link /\ c_ping' = NoPing /\ c_events' = <<ReleasedEv({r.pid}), ReceivedEv(r)>>
    BY <2>8, ClientOut
  <2>10. \A s : C!erase(s, r.type, r.pid) = C!erase(s, r.type, r.pid)
    BY DEF C!erase, C!erase, C!erasable, C!erasable, C!response_packet, C!response_packet, C!RemoveAt, C!RemoveAt
  <2>11. sess(side)' = Session(C!erase(store(side), r.type, r.pid), handled(side))
    <3>1. c_sess' = Session(C!erase(c_sess.store, r.type, r.pid), c_sess.qos2_publish_handled)
      <4> DEFINE st == c_sess.store
                 hd == c_sess.qos2_publish_handled
                 e == C!erase(st, r.type, r.pid)
      <4>1. c_sess = Session(st, hd)
        BY <2>1, ClientSession
      <4>2. c_sess' = [c_sess EXCEPT !.store = e]
        BY <2>6
      <4> HIDE DEF e, st, hd
      <4>3. c_sess' = Session(e, hd)
        BY <4>1, <4>2 DEF Session
      <4> QED BY <4>3 DEF e, st, hd
    <3> QED BY <3>1, <2>10, <1>1 DEF sess, store, handled
  <2>12. /\ r.type = "puback" =>
              ids(side)' = [[ids(side) EXCEPT !.puback = @ \ {r.pid}] EXCEPT !.man = @ \ {r.pid}]
         /\ r.type = "pubcomp" =>
              ids(side)' = [[ids(side) EXCEPT !.pubcomp = @ \ {r.pid}] EXCEPT !.man = @ \ {r.pid}]
    BY <2>4, <1>1 DEF C!response_ends, ids
  <2>13. ids(side)' = Freed(ids(side), r)
    BY <2>12 DEF Freed
  <2> QED BY <2>6, <2>9, <2>11, <2>13, <1>1 DEF Frame, alias, lim, ping, opts, link, flow, events
<1>2. CASE side = "server"
  <2>b. r.type \in {"puback", "pubcomp"}
    BY DEF Ending
  <2> USE <2>b
  <2>1. Plain("server") /\ s_link.status = "Connected" /\ S!recv(r)
    BY <1>2 DEF status, link, recv
  <2>2. S!accepts(r) /\ ~S!recv_refused(r)
    BY <2>1, ServerAccepts DEF Responses
  <2>3. \/ r.type = "puback" /\ S!process_recv_puback(r)
        \/ r.type = "pubcomp" /\ S!process_recv_pubcomp(r)
    <3>1. /\ r.type = "puback" => S!process_recv_puback(r)
          /\ r.type = "pubcomp" => S!process_recv_pubcomp(r)
      BY <2>1, <2>2, ServerRecv
    <3>2. r.type = "puback" \/ r.type = "pubcomp"
      OBVIOUS
    <3> QED BY <3>1, <3>2, Zenon
  <2>a. r.pid \in ids(side)[r.type] /\ r.pid \in ids(side).man
    BY DEF Expected
  <2>4. \/ r.type = "puback" /\ S!response_ends(r, [s_ids EXCEPT !.puback = @ \ {r.pid}], S!V5)
        \/ r.type = "pubcomp" /\ S!response_ends(r, [s_ids EXCEPT !.pubcomp = @ \ {r.pid}], S!V5)
    BY <2>3, <2>a, <1>2 DEF S!process_recv_puback, S!process_recv_pubcomp, ids
  <2>5. s_flow.send_max = S!None
    BY <2>1 DEF Plain, flow, NoFlow, C!None, S!None
  <2>6. /\ s_flow' = s_flow /\ s_sess' = [s_sess EXCEPT !.store = S!erase(@, r.type, r.pid)]
        /\ UNCHANGED <<s_lim, s_alias, s_opts>>
        /\ S!Out(S!NotifyReceived(S!refresh_pingreq_recv(S!NotifyReleased(S!self, {r.pid} \cap s_ids.man)), r))
    BY <2>4, <2>5 DEF S!response_ends, S!OutUnless, S!Out
  <2>7. {r.pid} \cap s_ids.man = {r.pid}
    BY <2>a, <1>2 DEF ids
  <2>8. S!Out(St(s_link, <<ReleasedEv({r.pid}), ReceivedEv(r)>>))
    <3>1. /\ Append(<<>>, ReleasedEv({r.pid})) = <<ReleasedEv({r.pid})>>
          /\ Append(<<ReleasedEv({r.pid})>>, ReceivedEv(r)) = <<ReleasedEv({r.pid}), ReceivedEv(r)>>
      BY Appends
    <3>2. S!NotifyReleased(S!self, {r.pid} \cap s_ids.man) = St(s_link, <<ReleasedEv({r.pid})>>)
      <4>1. S!NotifyReleased(St(s_link, <<>>), {r.pid}) = St(s_link, Append(<<>>, ReleasedEv({r.pid})))
        BY ServerNotifyReleased
      <4>2. S!self = St(s_link, <<>>)
        BY <2>1, ServerHelpers
      <4> QED BY <2>7, <3>1, <4>1, <4>2, Zenon
    <3>3. S!NotifyReceived(S!refresh_pingreq_recv(St(s_link, <<ReleasedEv({r.pid})>>)), r)
            = St(s_link, <<ReleasedEv({r.pid}), ReceivedEv(r)>>)
      <4>1. S!NotifyReceived(St(s_link, <<ReleasedEv({r.pid})>>), r)
              = St(s_link, Append(<<ReleasedEv({r.pid})>>, ReceivedEv(r)))
        BY ServerNotifyReceived
      <4>2. S!refresh_pingreq_recv(St(s_link, <<ReleasedEv({r.pid})>>)) = St(s_link, <<ReleasedEv({r.pid})>>)
        BY <2>1, ServerHelpers
      <4> QED BY <3>1, <4>1, <4>2, Zenon
    <3> QED BY <2>6, <3>2, <3>3
  <2>9. s_link' = s_link /\ s_ping' = NoPing /\ s_events' = <<ReleasedEv({r.pid}), ReceivedEv(r)>>
    BY <2>8, ServerOut
  <2>10. \A s : S!erase(s, r.type, r.pid) = C!erase(s, r.type, r.pid)
    BY DEF S!erase, C!erase, S!erasable, C!erasable, S!response_packet, C!response_packet, S!RemoveAt, C!RemoveAt
  <2>11. sess(side)' = Session(C!erase(store(side), r.type, r.pid), handled(side))
    <3>1. s_sess' = Session(S!erase(s_sess.store, r.type, r.pid), s_sess.qos2_publish_handled)
      <4> DEFINE st == s_sess.store
                 hd == s_sess.qos2_publish_handled
                 e == S!erase(st, r.type, r.pid)
      <4>1. s_sess = Session(st, hd)
        BY <2>1, ServerSession
      <4>2. s_sess' = [s_sess EXCEPT !.store = e]
        BY <2>6
      <4> HIDE DEF e, st, hd
      <4>3. s_sess' = Session(e, hd)
        BY <4>1, <4>2 DEF Session
      <4> QED BY <4>3 DEF e, st, hd
    <3> QED BY <3>1, <2>10, <1>2 DEF sess, store, handled
  <2>12. /\ r.type = "puback" =>
              ids(side)' = [[ids(side) EXCEPT !.puback = @ \ {r.pid}] EXCEPT !.man = @ \ {r.pid}]
         /\ r.type = "pubcomp" =>
              ids(side)' = [[ids(side) EXCEPT !.pubcomp = @ \ {r.pid}] EXCEPT !.man = @ \ {r.pid}]
    BY <2>4, <1>2 DEF S!response_ends, ids
  <2>13. ids(side)' = Freed(ids(side), r)
    BY <2>12 DEF Freed
  <2> QED BY <2>6, <2>9, <2>11, <2>13, <1>2 DEF Frame, alias, lim, ping, opts, link, flow, events
<1> QED BY <1>1, <1>2 DEF Sides

\* recv() of PUBREC: the PUBREL is stored in the place of the PUBLISH, and sent.
LEMMA RecvPubrec ==
  ASSUME NEW side \in Sides, Plain(side), status(side) = "Connected", opts(side).auto_pub_response,
         ids(side) \in IdsType,
         NEW r, r.type = "pubrec", r.ok = TRUE, r.size = C!AckSize,
         r.pid \in ids(side).pubrec, r.pid \in ids(side).man,
         \A q \in C!ToSet(C!erase(store(side), "pubrec", r.pid)) : q.pid # r.pid,
         recv(side, r)
  PROVE  /\ ids(side)' = [[ids(side) EXCEPT !.pubrec = @ \ {r.pid}] EXCEPT !.pubcomp = @ \cup {r.pid}]
         /\ sess(side)' = Session(Append(C!erase(store(side), "pubrec", r.pid), C!Ack("pubrel", r.pid)),
                                  handled(side))
         /\ Frame(side) /\ flow(side)' = flow(side)
         /\ events(side)' = <<SendEv(C!Ack("pubrel", r.pid)), ReceivedEv(r)>>
<1> DEFINE rel == C!Ack("pubrel", r.pid)
<1>1. CASE side = "client"
  <2>1. Plain("client") /\ c_link.status = "Connected" /\ C!recv(r) /\ c_opts.auto_pub_response
    BY <1>1 DEF status, link, recv, opts
  <2>2. C!accepts(r) /\ ~C!recv_refused(r)
    BY <2>1, ClientAccepts DEF Responses
  <2>3. C!process_recv_pubrec(r)
    BY <2>1, <2>2, ClientRecv
  <2> DEFINE awaiting == [c_ids EXCEPT !.pubrec = @ \ {r.pid}]
             erased == [c_sess EXCEPT !.store = C!erase(@, "pubrec", r.pid)]
             x == C!pubrel(C!self, awaiting, erased, C!Ack("pubrel", r.pid))
             e == C!erase(c_sess.store, "pubrec", r.pid)
             hd == c_sess.qos2_publish_handled
  <2>4. C!Ack("pubrel", r.pid) = rel /\ rel.pid = r.pid /\ rel.size = C!AckSize
    BY DEF C!Ack, C!Ack, C!AckSize, C!AckSize
  <2>5. \A s : C!erase(s, "pubrec", r.pid) = C!erase(s, "pubrec", r.pid)
    BY DEF C!erase, C!erase, C!erasable, C!erasable, C!response_packet, C!response_packet, C!RemoveAt, C!RemoveAt
  <2>6. erased = Session(e, hd)
    <3> DEFINE st == c_sess.store
    <3>1. c_sess = Session(st, hd)
      BY <2>1, ClientSession
    <3>2. erased = [c_sess EXCEPT !.store = e]
      BY <2>5
    <3> HIDE DEF e, st, hd, erased
    <3> QED BY <3>1, <3>2 DEF Session
  <2>7. c_ids \in IdsType /\ r.pid \in c_ids.pubrec /\ r.pid \in c_ids.man
    BY <1>1 DEF ids
  <2>8. awaiting.man = c_ids.man
    BY <2>7 DEF IdsType
  <2>9. ~C!in_store(e, rel.pid)
    <3>1. \A q \in C!ToSet(e) : q.pid # r.pid
      BY <1>1 DEF store, sess
    <3> HIDE DEF e
    <3> QED BY <2>4, <3>1 DEF C!in_store, C!ToSet
  <2>10. erased.need_store = TRUE /\ erased.store = e
    BY <2>6 DEF Session
  <2>11. C!self = St(c_link, <<>>) /\ C!self.link.status = "Connected"
    BY <2>1, ClientHelpers DEF St
  <2>12. ~C!TooLarge(rel.size)
    BY <2>1, <2>4, ClientHelpers
  <2> HIDE DEF rel, e, hd
  <2>13. x = [out |-> C!send_post_process(C!RequestSend(C!self, rel, 0)),
              ids |-> [awaiting EXCEPT !.pubcomp = @ \cup {rel.pid}],
              sess |-> [erased EXCEPT !.store = Append(@, rel)],
              panics |-> FALSE]
    <3> HIDE DEF awaiting, erased
    <3>1. rel.pid \in awaiting.man
      BY <2>4, <2>7, <2>8
    <3> QED BY <2>4, <2>9, <2>10, <2>11, <2>12, <3>1 DEF C!pubrel
  <2>14. C!send_post_process(C!RequestSend(C!self, rel, 0)) = St(c_link, <<SendEv(rel)>>)
    <3>1. C!RequestSend(St(c_link, <<>>), rel, 0) = St(c_link, Append(<<>>, SendEv(rel)))
      BY ClientRequestSend
    <3>2. Append(<<>>, SendEv(rel)) = <<SendEv(rel)>>
      BY Appends
    <3>3. C!send_post_process(St(c_link, <<SendEv(rel)>>)) = St(c_link, <<SendEv(rel)>>)
      BY <2>1, ClientHelpers
    <3> QED BY <2>11, <3>1, <3>2, <3>3, Zenon
  <2>15. [erased EXCEPT !.store = Append(@, rel)] = Session(Append(e, rel), hd)
    <3> DEFINE a == Append(e, rel)
    <3>1. [erased EXCEPT !.store = Append(@, rel)] = [erased EXCEPT !.store = a]
      BY <2>10
    <3> HIDE DEF a, erased
    <3>2. ASSUME NEW y, y = [erased EXCEPT !.store = a] PROVE y = Session(a, hd)
      BY <2>6, <3>2 DEF Session
    <3> QED BY <3>1, <3>2 DEF a
  <2>16. /\ x.panics = FALSE /\ x.out = St(c_link, <<SendEv(rel)>>)
         /\ x.ids = [awaiting EXCEPT !.pubcomp = @ \cup {r.pid}] /\ x.sess = Session(Append(e, rel), hd)
    <3> HIDE DEF x, awaiting, erased
    <3> QED BY <2>4, <2>13, <2>14, <2>15
  <2>17. /\ c_ids' = x.ids /\ c_sess' = x.sess
         /\ C!Out(C!NotifyReceived(C!refresh_pingreq_recv(x.out), r))
         /\ UNCHANGED <<c_flow, c_lim, c_alias, c_opts>>
    <3> HIDE DEF x
    <3> QED BY <2>1, <2>3, <2>7, <2>16 DEF C!process_recv_pubrec, x, awaiting, erased
  <2>18. C!Out(St(c_link, <<SendEv(rel), ReceivedEv(r)>>))
    <3>1. C!refresh_pingreq_recv(St(c_link, <<SendEv(rel)>>)) = St(c_link, <<SendEv(rel)>>)
      BY <2>1, ClientHelpers
    <3>2. C!NotifyReceived(St(c_link, <<SendEv(rel)>>), r) = St(c_link, Append(<<SendEv(rel)>>, ReceivedEv(r)))
      BY ClientNotifyReceived
    <3>3. Append(<<SendEv(rel)>>, ReceivedEv(r)) = <<SendEv(rel), ReceivedEv(r)>>
      BY Appends
    <3> HIDE DEF x
    <3> QED BY <2>16, <2>17, <3>1, <3>2, <3>3, Zenon
  <2>19. c_link' = c_link /\ c_ping' = NoPing /\ c_events' = <<SendEv(rel), ReceivedEv(r)>>
    BY <2>18, ClientOut
  <2>20. c_ids' = [[c_ids EXCEPT !.pubrec = @ \ {r.pid}] EXCEPT !.pubcomp = @ \cup {r.pid}]
    BY <2>16, <2>17
  <2>21. c_sess' = Session(Append(C!erase(c_sess.store, "pubrec", r.pid), rel), c_sess.qos2_publish_handled)
    <3> HIDE DEF x
    <3> QED BY <2>16, <2>17 DEF e, hd
  <2> HIDE DEF x, awaiting, erased
  <2> QED BY <2>17, <2>19, <2>20, <2>21, <1>1
        DEF Frame, alias, lim, ping, opts, link, flow, events, ids, sess, store, handled, rel
<1>2. CASE side = "server"
  <2>1. Plain("server") /\ s_link.status = "Connected" /\ S!recv(r) /\ s_opts.auto_pub_response
    BY <1>2 DEF status, link, recv, opts
  <2>2. S!accepts(r) /\ ~S!recv_refused(r)
    BY <2>1, ServerAccepts DEF Responses
  <2>3. S!process_recv_pubrec(r)
    BY <2>1, <2>2, ServerRecv
  <2> DEFINE awaiting == [s_ids EXCEPT !.pubrec = @ \ {r.pid}]
             erased == [s_sess EXCEPT !.store = S!erase(@, "pubrec", r.pid)]
             x == S!pubrel(S!self, awaiting, erased, S!Ack("pubrel", r.pid))
             e == C!erase(s_sess.store, "pubrec", r.pid)
             hd == s_sess.qos2_publish_handled
  <2>4. S!Ack("pubrel", r.pid) = rel /\ rel.pid = r.pid /\ rel.size = C!AckSize
    BY DEF S!Ack, C!Ack, S!AckSize, C!AckSize
  <2>5. \A s : S!erase(s, "pubrec", r.pid) = C!erase(s, "pubrec", r.pid)
    BY DEF S!erase, C!erase, S!erasable, C!erasable, S!response_packet, C!response_packet, S!RemoveAt, C!RemoveAt
  <2>6. erased = Session(e, hd)
    <3> DEFINE st == s_sess.store
    <3>1. s_sess = Session(st, hd)
      BY <2>1, ServerSession
    <3>2. erased = [s_sess EXCEPT !.store = e]
      BY <2>5
    <3> HIDE DEF e, st, hd, erased
    <3> QED BY <3>1, <3>2 DEF Session
  <2>7. s_ids \in IdsType /\ r.pid \in s_ids.pubrec /\ r.pid \in s_ids.man
    BY <1>2 DEF ids
  <2>8. awaiting.man = s_ids.man
    BY <2>7 DEF IdsType
  <2>9. ~S!in_store(e, rel.pid)
    <3>1. \A q \in C!ToSet(e) : q.pid # r.pid
      BY <1>2 DEF store, sess
    <3> HIDE DEF e
    <3> QED BY <2>4, <3>1 DEF S!in_store, C!ToSet
  <2>10. erased.need_store = TRUE /\ erased.store = e
    BY <2>6 DEF Session
  <2>11. S!self = St(s_link, <<>>) /\ S!self.link.status = "Connected"
    BY <2>1, ServerHelpers DEF St
  <2>12. ~S!TooLarge(rel.size)
    BY <2>1, <2>4, ServerHelpers
  <2> HIDE DEF rel, e, hd
  <2>13. x = [out |-> S!send_post_process(S!RequestSend(S!self, rel, 0)),
              ids |-> [awaiting EXCEPT !.pubcomp = @ \cup {rel.pid}],
              sess |-> [erased EXCEPT !.store = Append(@, rel)],
              panics |-> FALSE]
    <3> HIDE DEF awaiting, erased
    <3>1. rel.pid \in awaiting.man
      BY <2>4, <2>7, <2>8
    <3> QED BY <2>4, <2>9, <2>10, <2>11, <2>12, <3>1 DEF S!pubrel
  <2>14. S!send_post_process(S!RequestSend(S!self, rel, 0)) = St(s_link, <<SendEv(rel)>>)
    <3>1. S!RequestSend(St(s_link, <<>>), rel, 0) = St(s_link, Append(<<>>, SendEv(rel)))
      BY ServerRequestSend
    <3>2. Append(<<>>, SendEv(rel)) = <<SendEv(rel)>>
      BY Appends
    <3>3. S!send_post_process(St(s_link, <<SendEv(rel)>>)) = St(s_link, <<SendEv(rel)>>)
      BY <2>1, ServerHelpers
    <3> QED BY <2>11, <3>1, <3>2, <3>3, Zenon
  <2>15. [erased EXCEPT !.store = Append(@, rel)] = Session(Append(e, rel), hd)
    <3> DEFINE a == Append(e, rel)
    <3>1. [erased EXCEPT !.store = Append(@, rel)] = [erased EXCEPT !.store = a]
      BY <2>10
    <3> HIDE DEF a, erased
    <3>2. ASSUME NEW y, y = [erased EXCEPT !.store = a] PROVE y = Session(a, hd)
      BY <2>6, <3>2 DEF Session
    <3> QED BY <3>1, <3>2 DEF a
  <2>16. /\ x.panics = FALSE /\ x.out = St(s_link, <<SendEv(rel)>>)
         /\ x.ids = [awaiting EXCEPT !.pubcomp = @ \cup {r.pid}] /\ x.sess = Session(Append(e, rel), hd)
    <3> HIDE DEF x, awaiting, erased
    <3> QED BY <2>4, <2>13, <2>14, <2>15
  <2>17. /\ s_ids' = x.ids /\ s_sess' = x.sess
         /\ S!Out(S!NotifyReceived(S!refresh_pingreq_recv(x.out), r))
         /\ UNCHANGED <<s_flow, s_lim, s_alias, s_opts>>
    <3> HIDE DEF x
    <3> QED BY <2>1, <2>3, <2>7, <2>16 DEF S!process_recv_pubrec, x, awaiting, erased
  <2>18. S!Out(St(s_link, <<SendEv(rel), ReceivedEv(r)>>))
    <3>1. S!refresh_pingreq_recv(St(s_link, <<SendEv(rel)>>)) = St(s_link, <<SendEv(rel)>>)
      BY <2>1, ServerHelpers
    <3>2. S!NotifyReceived(St(s_link, <<SendEv(rel)>>), r) = St(s_link, Append(<<SendEv(rel)>>, ReceivedEv(r)))
      BY ServerNotifyReceived
    <3>3. Append(<<SendEv(rel)>>, ReceivedEv(r)) = <<SendEv(rel), ReceivedEv(r)>>
      BY Appends
    <3> HIDE DEF x
    <3> QED BY <2>16, <2>17, <3>1, <3>2, <3>3, Zenon
  <2>19. s_link' = s_link /\ s_ping' = NoPing /\ s_events' = <<SendEv(rel), ReceivedEv(r)>>
    BY <2>18, ServerOut
  <2>20. s_ids' = [[s_ids EXCEPT !.pubrec = @ \ {r.pid}] EXCEPT !.pubcomp = @ \cup {r.pid}]
    BY <2>16, <2>17
  <2>21. s_sess' = Session(Append(C!erase(s_sess.store, "pubrec", r.pid), rel), s_sess.qos2_publish_handled)
    <3> HIDE DEF x
    <3> QED BY <2>16, <2>17 DEF e, hd
  <2> HIDE DEF x, awaiting, erased
  <2> QED BY <2>17, <2>19, <2>20, <2>21, <1>2
        DEF Frame, alias, lim, ping, opts, link, flow, events, ids, sess, store, handled, rel
<1> QED BY <1>1, <1>2 DEF Sides

\* recv() of PUBREL: the id is no longer handled, and PUBCOMP is sent.
LEMMA RecvPubrel ==
  ASSUME NEW side \in Sides, Plain(side), status(side) = "Connected", opts(side).auto_pub_response,
         NEW p, p.type = "pubrel", p.size = C!AckSize, recv(side, p)
  PROVE  /\ ids(side)' = ids(side)
         /\ sess(side)' = Session(store(side), handled(side) \ {p.pid})
         /\ Frame(side) /\ flow(side)' = NoFlow(flow(side)'.recv)
         /\ \E ok \in BOOLEAN :
              events(side)' = <<SendEv([type |-> "pubcomp", pid |-> p.pid, ok |-> ok, size |-> C!AckSize]),
                                ReceivedEv(p)>>
<1>1. CASE side = "client"
  <2>1. Plain("client") /\ c_link.status = "Connected" /\ C!recv(p) /\ c_opts.auto_pub_response
    BY <1>1 DEF status, link, recv, opts
  <2>2. C!accepts(p) /\ ~C!recv_refused(p)
    BY <2>1, ClientAccepts DEF Requests
  <2>3. C!process_recv_pubrel(p)
    BY <2>1, <2>2, ClientRecv
  <2> DEFINE found == ~C!V5 \/ p.pid \in c_sess.qos2_publish_handled
             comp == [C!Ack("pubcomp", p.pid) EXCEPT !.ok = found]
  <2>4. /\ c_sess' = [c_sess EXCEPT !.qos2_publish_handled = @ \ {p.pid}]
        /\ c_flow' = C!flow_after_ack(C!self, comp, c_flow)
        /\ C!Out(C!NotifyReceived(C!refresh_pingreq_recv(C!send_response(C!self, comp)), p))
        /\ UNCHANGED <<c_ids, c_lim, c_alias, c_opts>>
    BY <2>1, <2>3 DEF C!process_recv_pubrel
  <2>5. comp = [type |-> "pubcomp", pid |-> p.pid, ok |-> found, size |-> C!AckSize] /\ found \in BOOLEAN
    <3>1. found \in BOOLEAN
      OBVIOUS
    <3> HIDE DEF found
    <3> QED BY <3>1 DEF C!Ack, C!AckSize, C!AckSize
  <2> HIDE DEF comp, found
  <2>6. comp.size = C!AckSize
    BY <2>5
  <2>7. C!self = St(c_link, <<>>)
    BY <2>1, ClientHelpers
  <2>8. C!send_response(C!self, comp) = St(c_link, <<SendEv(comp)>>)
    BY <2>1, <2>6, <2>7, ClientResponse
  <2>9. C!Out(St(c_link, <<SendEv(comp), ReceivedEv(p)>>))
    <3>1. C!refresh_pingreq_recv(St(c_link, <<SendEv(comp)>>)) = St(c_link, <<SendEv(comp)>>)
      BY <2>1, ClientHelpers
    <3>2. C!NotifyReceived(St(c_link, <<SendEv(comp)>>), p) = St(c_link, Append(<<SendEv(comp)>>, ReceivedEv(p)))
      BY ClientNotifyReceived
    <3>3. Append(<<SendEv(comp)>>, ReceivedEv(p)) = <<SendEv(comp), ReceivedEv(p)>>
      BY Appends
    <3> QED BY <2>4, <2>8, <3>1, <3>2, <3>3, Zenon
  <2>10. c_link' = c_link /\ c_ping' = NoPing /\ c_events' = <<SendEv(comp), ReceivedEv(p)>>
    BY <2>9, ClientOut
  <2>11. c_sess' = Session(c_sess.store, c_sess.qos2_publish_handled \ {p.pid})
    <3> DEFINE st == c_sess.store
               hd == c_sess.qos2_publish_handled
               h2 == hd \ {p.pid}
    <3>1. c_sess = Session(st, hd)
      BY <2>1, ClientSession
    <3>2. c_sess' = [c_sess EXCEPT !.qos2_publish_handled = h2]
      BY <2>4
    <3> HIDE DEF st, hd, h2
    <3>3. c_sess' = Session(st, h2)
      BY <3>1, <3>2 DEF Session
    <3> QED BY <3>3 DEF st, hd, h2
  <2>12. c_flow' = NoFlow(c_flow'.recv)
    <3> DEFINE rc == c_flow.recv
               rc2 == rc \ {comp.pid}
    <3>1. c_flow = NoFlow(rc)
      BY <2>1 DEF Plain, flow
    <3>2. c_flow' = c_flow \/ c_flow' = [c_flow EXCEPT !.recv = rc2]
      BY <2>4 DEF C!flow_after_ack
    <3> HIDE DEF rc, rc2
    <3>3. c_flow' = NoFlow(rc) \/ c_flow' = NoFlow(rc2)
      BY <3>1, <3>2 DEF NoFlow
    <3> QED BY <3>3 DEF NoFlow
  <2> QED BY <2>4, <2>5, <2>10, <2>11, <2>12, <1>1
        DEF Frame, alias, lim, ping, opts, link, flow, events, ids, sess, store, handled
<1>2. CASE side = "server"
  <2>1. Plain("server") /\ s_link.status = "Connected" /\ S!recv(p) /\ s_opts.auto_pub_response
    BY <1>2 DEF status, link, recv, opts
  <2>2. S!accepts(p) /\ ~S!recv_refused(p)
    BY <2>1, ServerAccepts DEF Requests
  <2>3. S!process_recv_pubrel(p)
    BY <2>1, <2>2, ServerRecv
  <2> DEFINE found == ~S!V5 \/ p.pid \in s_sess.qos2_publish_handled
             comp == [S!Ack("pubcomp", p.pid) EXCEPT !.ok = found]
  <2>4. /\ s_sess' = [s_sess EXCEPT !.qos2_publish_handled = @ \ {p.pid}]
        /\ s_flow' = S!flow_after_ack(S!self, comp, s_flow)
        /\ S!Out(S!NotifyReceived(S!refresh_pingreq_recv(S!send_response(S!self, comp)), p))
        /\ UNCHANGED <<s_ids, s_lim, s_alias, s_opts>>
    BY <2>1, <2>3 DEF S!process_recv_pubrel
  <2>5. comp = [type |-> "pubcomp", pid |-> p.pid, ok |-> found, size |-> C!AckSize] /\ found \in BOOLEAN
    <3>1. found \in BOOLEAN
      OBVIOUS
    <3> HIDE DEF found
    <3> QED BY <3>1 DEF S!Ack, S!AckSize, C!AckSize
  <2> HIDE DEF comp, found
  <2>6. comp.size = C!AckSize
    BY <2>5
  <2>7. S!self = St(s_link, <<>>)
    BY <2>1, ServerHelpers
  <2>8. S!send_response(S!self, comp) = St(s_link, <<SendEv(comp)>>)
    BY <2>1, <2>6, <2>7, ServerResponse
  <2>9. S!Out(St(s_link, <<SendEv(comp), ReceivedEv(p)>>))
    <3>1. S!refresh_pingreq_recv(St(s_link, <<SendEv(comp)>>)) = St(s_link, <<SendEv(comp)>>)
      BY <2>1, ServerHelpers
    <3>2. S!NotifyReceived(St(s_link, <<SendEv(comp)>>), p) = St(s_link, Append(<<SendEv(comp)>>, ReceivedEv(p)))
      BY ServerNotifyReceived
    <3>3. Append(<<SendEv(comp)>>, ReceivedEv(p)) = <<SendEv(comp), ReceivedEv(p)>>
      BY Appends
    <3> QED BY <2>4, <2>8, <3>1, <3>2, <3>3, Zenon
  <2>10. s_link' = s_link /\ s_ping' = NoPing /\ s_events' = <<SendEv(comp), ReceivedEv(p)>>
    BY <2>9, ServerOut
  <2>11. s_sess' = Session(s_sess.store, s_sess.qos2_publish_handled \ {p.pid})
    <3> DEFINE st == s_sess.store
               hd == s_sess.qos2_publish_handled
               h2 == hd \ {p.pid}
    <3>1. s_sess = Session(st, hd)
      BY <2>1, ServerSession
    <3>2. s_sess' = [s_sess EXCEPT !.qos2_publish_handled = h2]
      BY <2>4
    <3> HIDE DEF st, hd, h2
    <3>3. s_sess' = Session(st, h2)
      BY <3>1, <3>2 DEF Session
    <3> QED BY <3>3 DEF st, hd, h2
  <2>12. s_flow' = NoFlow(s_flow'.recv)
    <3> DEFINE rc == s_flow.recv
               rc2 == rc \ {comp.pid}
    <3>1. s_flow = NoFlow(rc)
      BY <2>1 DEF Plain, flow
    <3>2. s_flow' = s_flow \/ s_flow' = [s_flow EXCEPT !.recv = rc2]
      BY <2>4 DEF S!flow_after_ack
    <3> HIDE DEF rc, rc2
    <3>3. s_flow' = NoFlow(rc) \/ s_flow' = NoFlow(rc2)
      BY <3>1, <3>2 DEF NoFlow
    <3> QED BY <3>3 DEF NoFlow
  <2> QED BY <2>4, <2>5, <2>10, <2>11, <2>12, <1>2
        DEF Frame, alias, lim, ping, opts, link, flow, events, ids, sess, store, handled
<1> QED BY <1>1, <1>2 DEF Sides

\* The response a PUBLISH awaits.
LEMMA PublishResponse ==
  ASSUME NEW p, p.type = "publish"
  PROVE  /\ p.qos = 1 => C!response_packet(p) = "puback"
         /\ p.qos = 2 => C!response_packet(p) = "pubrec"
BY DEF C!response_packet

\* recv() of PUBLISH: handed to the application unless its id is handled, and answered.
LEMMA RecvPublish ==
  ASSUME NEW side \in Sides, Plain(side), status(side) = "Connected", opts(side).auto_pub_response,
         NEW m \in Messages, NEW pid, NEW p, p = Publish(m, pid), recv(side, p)
  PROVE  LET ack == C!Ack(C!response_packet(p), pid)
             again == p.qos = 2 /\ pid \in handled(side)
         IN  /\ ids(side)' = ids(side)
             /\ sess(side)' = Session(store(side), handled(side) \cup (IF p.qos = 2 THEN {pid} ELSE {}))
             /\ Frame(side) /\ flow(side)' = NoFlow(flow(side)'.recv)
             /\ again => events(side)' = <<SendEv(ack)>>
             /\ ~again => events(side)' = <<SendEv(ack), ReceivedEv(p)>>
<1> DEFINE ack == C!Ack(C!response_packet(p), pid)
<1>0. /\ p.type = "publish" /\ p.size = C!AckSize /\ p.qos \in {1, 2} /\ p.pid = pid
      /\ p.topic # "" /\ p.alias = 0
  BY LinkAssumption DEF Publish
<1>01. /\ ack.size = C!AckSize /\ ack.pid = pid
       /\ p.qos = 1 => ack = C!Ack("puback", pid)
       /\ p.qos = 2 => ack = C!Ack("pubrec", pid)
  <2> DEFINE response == C!response_packet(p)
  <2>1. /\ p.qos = 1 => response = "puback"
        /\ p.qos = 2 => response = "pubrec"
    BY <1>0, PublishResponse
  <2>2. ack = C!Ack(response, pid)
    OBVIOUS
  <2> HIDE DEF response
  <2> QED BY <2>1, <2>2 DEF C!Ack, C!AckSize
<1>1. CASE side = "client"
  <2>1. Plain("client") /\ c_link.status = "Connected" /\ C!recv(p) /\ c_opts.auto_pub_response
    BY <1>1 DEF status, link, recv, opts
  <2>2. C!accepts(p) /\ ~C!recv_refused(p)
    BY <1>0, <2>1, ClientAccepts DEF Requests
  <2>3. C!process_recv_publish(p)
    BY <1>0, <2>1, <2>2, ClientRecv
  <2> DEFINE noted == IF C!V5 /\ p.qos > 0 THEN [c_flow EXCEPT !.recv = @ \cup {p.pid}] ELSE c_flow
             again == p.qos = 2 /\ pid \in c_sess.qos2_publish_handled
             refreshed == C!refresh_pingreq_recv(C!send_response(C!self, ack))
  <2>4. ~C!receive_maximum_exceeded(p)
    BY <2>1 DEF C!receive_maximum_exceeded, Plain, flow, NoFlow, C!None, C!None
  <2>5. C!recv_alias_valid(p) /\ p.topic # C!NoTopic
    BY <1>0 DEF C!recv_alias_valid, C!NoTopic
  <2>6. C!Ack(IF p.qos = 1 THEN "puback" ELSE "pubrec", p.pid) = ack
    BY <1>0, <1>01 DEF C!Ack, C!Ack, C!AckSize, C!AckSize
  <2> HIDE DEF ack
  <2>7. /\ c_sess' = IF p.qos = 2 THEN [c_sess EXCEPT !.qos2_publish_handled = @ \cup {p.pid}] ELSE c_sess
        /\ c_alias' = c_alias
        /\ c_flow' = IF p.qos = 1 THEN C!flow_after_ack(C!self, ack, noted) ELSE noted
        /\ C!Out(IF again THEN refreshed ELSE C!NotifyReceived(refreshed, p))
        /\ UNCHANGED <<c_ids, c_lim, c_opts>>
    BY <1>0, <2>1, <2>3, <2>4, <2>5, <2>6 DEF C!process_recv_publish
  <2>8. refreshed = St(c_link, <<SendEv(ack)>>)
    <3>1. C!self = St(c_link, <<>>)
      BY <2>1, ClientHelpers
    <3>2. C!send_response(C!self, ack) = St(c_link, <<SendEv(ack)>>)
      BY <1>01, <2>1, <3>1, ClientResponse
    <3>3. C!refresh_pingreq_recv(St(c_link, <<SendEv(ack)>>)) = St(c_link, <<SendEv(ack)>>)
      BY <2>1, ClientHelpers
    <3> QED BY <3>2, <3>3, Zenon
  <2>9. C!NotifyReceived(St(c_link, <<SendEv(ack)>>), p) = St(c_link, <<SendEv(ack), ReceivedEv(p)>>)
    <3>1. C!NotifyReceived(St(c_link, <<SendEv(ack)>>), p) = St(c_link, Append(<<SendEv(ack)>>, ReceivedEv(p)))
      BY ClientNotifyReceived
    <3>2. Append(<<SendEv(ack)>>, ReceivedEv(p)) = <<SendEv(ack), ReceivedEv(p)>>
      BY Appends
    <3> QED BY <3>1, <3>2, Zenon
  <2>10. /\ again => C!Out(St(c_link, <<SendEv(ack)>>))
         /\ ~again => C!Out(St(c_link, <<SendEv(ack), ReceivedEv(p)>>))
    <3> HIDE DEF again, refreshed
    <3> QED BY <2>7, <2>8, <2>9
  <2>11. /\ c_link' = c_link /\ c_ping' = NoPing
         /\ again => c_events' = <<SendEv(ack)>>
         /\ ~again => c_events' = <<SendEv(ack), ReceivedEv(p)>>
    <3> HIDE DEF again
    <3>1. CASE again
      BY <2>10, <3>1, ClientOut
    <3>2. CASE ~again
      BY <2>10, <3>2, ClientOut
    <3> QED BY <3>1, <3>2
  <2>12. c_sess' = Session(c_sess.store, c_sess.qos2_publish_handled \cup (IF p.qos = 2 THEN {pid} ELSE {}))
    <3> DEFINE st == c_sess.store
               hd == c_sess.qos2_publish_handled
               h2 == hd \cup {pid}
    <3>1. c_sess = Session(st, hd)
      BY <2>1, ClientSession
    <3>2. c_sess' = IF p.qos = 2 THEN [c_sess EXCEPT !.qos2_publish_handled = h2] ELSE c_sess
      BY <1>0, <2>7
    <3>3. hd \cup {} = hd
      OBVIOUS
    <3> HIDE DEF st, hd, h2
    <3>4. CASE p.qos = 2
      <4>1. c_sess' = Session(st, h2)
        BY <3>1, <3>2, <3>4 DEF Session
      <4> QED BY <4>1, <3>4 DEF st, hd, h2
    <3>5. CASE p.qos # 2
      <4>1. c_sess' = Session(st, hd)
        BY <3>1, <3>2, <3>5
      <4> QED BY <4>1, <3>3, <3>5 DEF st, hd, h2
    <3> QED BY <3>4, <3>5
  <2>13. c_flow' = NoFlow(c_flow'.recv)
    <3> DEFINE rc == c_flow.recv
               rc1 == rc \cup {pid}
               rc2 == rc1 \ {ack.pid}
               rc3 == rc \ {ack.pid}
    <3>1. c_flow = NoFlow(rc)
      BY <2>1 DEF Plain, flow
    <3>2. noted = c_flow \/ noted = [c_flow EXCEPT !.recv = rc1]
      BY <1>0
    <3>3. c_flow' = noted \/ c_flow' = [noted EXCEPT !.recv = @ \ {ack.pid}]
      <4> HIDE DEF noted
      <4> QED BY <2>7 DEF C!flow_after_ack
    <3> HIDE DEF rc, rc1, noted
    <3>4. noted = NoFlow(rc) \/ noted = NoFlow(rc1)
      BY <3>1, <3>2 DEF NoFlow
    <3>5. noted.recv = rc \/ noted.recv = rc1
      BY <3>4 DEF NoFlow
    <3>6. c_flow' = noted \/ c_flow' = [noted EXCEPT !.recv = rc2] \/ c_flow' = [noted EXCEPT !.recv = rc3]
      BY <3>3, <3>5
    <3> HIDE DEF rc2, rc3
    <3>7. c_flow' = NoFlow(rc) \/ c_flow' = NoFlow(rc1) \/ c_flow' = NoFlow(rc2) \/ c_flow' = NoFlow(rc3)
      BY <3>4, <3>6 DEF NoFlow
    <3> QED BY <3>7 DEF NoFlow
  <2> HIDE DEF noted, refreshed
  <2> QED BY <2>7, <2>11, <2>12, <2>13, <1>1
        DEF Frame, alias, lim, ping, opts, link, flow, events, ids, sess, store, handled, ack
<1>2. CASE side = "server"
  <2>1. Plain("server") /\ s_link.status = "Connected" /\ S!recv(p) /\ s_opts.auto_pub_response
    BY <1>2 DEF status, link, recv, opts
  <2>2. S!accepts(p) /\ ~S!recv_refused(p)
    BY <1>0, <2>1, ServerAccepts DEF Requests
  <2>3. S!process_recv_publish(p)
    BY <1>0, <2>1, <2>2, ServerRecv
  <2> DEFINE noted == IF S!V5 /\ p.qos > 0 THEN [s_flow EXCEPT !.recv = @ \cup {p.pid}] ELSE s_flow
             again == p.qos = 2 /\ pid \in s_sess.qos2_publish_handled
             refreshed == S!refresh_pingreq_recv(S!send_response(S!self, ack))
  <2>4. ~S!receive_maximum_exceeded(p)
    BY <2>1 DEF S!receive_maximum_exceeded, Plain, flow, NoFlow, C!None, S!None
  <2>5. S!recv_alias_valid(p) /\ p.topic # S!NoTopic
    BY <1>0 DEF S!recv_alias_valid, S!NoTopic
  <2>6. S!Ack(IF p.qos = 1 THEN "puback" ELSE "pubrec", p.pid) = ack
    BY <1>0, <1>01 DEF S!Ack, C!Ack, S!AckSize, C!AckSize
  <2> HIDE DEF ack
  <2>7. /\ s_sess' = IF p.qos = 2 THEN [s_sess EXCEPT !.qos2_publish_handled = @ \cup {p.pid}] ELSE s_sess
        /\ s_alias' = s_alias
        /\ s_flow' = IF p.qos = 1 THEN S!flow_after_ack(S!self, ack, noted) ELSE noted
        /\ S!Out(IF again THEN refreshed ELSE S!NotifyReceived(refreshed, p))
        /\ UNCHANGED <<s_ids, s_lim, s_opts>>
    BY <1>0, <2>1, <2>3, <2>4, <2>5, <2>6 DEF S!process_recv_publish
  <2>8. refreshed = St(s_link, <<SendEv(ack)>>)
    <3>1. S!self = St(s_link, <<>>)
      BY <2>1, ServerHelpers
    <3>2. S!send_response(S!self, ack) = St(s_link, <<SendEv(ack)>>)
      BY <1>01, <2>1, <3>1, ServerResponse
    <3>3. S!refresh_pingreq_recv(St(s_link, <<SendEv(ack)>>)) = St(s_link, <<SendEv(ack)>>)
      BY <2>1, ServerHelpers
    <3> QED BY <3>2, <3>3, Zenon
  <2>9. S!NotifyReceived(St(s_link, <<SendEv(ack)>>), p) = St(s_link, <<SendEv(ack), ReceivedEv(p)>>)
    <3>1. S!NotifyReceived(St(s_link, <<SendEv(ack)>>), p) = St(s_link, Append(<<SendEv(ack)>>, ReceivedEv(p)))
      BY ServerNotifyReceived
    <3>2. Append(<<SendEv(ack)>>, ReceivedEv(p)) = <<SendEv(ack), ReceivedEv(p)>>
      BY Appends
    <3> QED BY <3>1, <3>2, Zenon
  <2>10. /\ again => S!Out(St(s_link, <<SendEv(ack)>>))
         /\ ~again => S!Out(St(s_link, <<SendEv(ack), ReceivedEv(p)>>))
    <3> HIDE DEF again, refreshed
    <3> QED BY <2>7, <2>8, <2>9
  <2>11. /\ s_link' = s_link /\ s_ping' = NoPing
         /\ again => s_events' = <<SendEv(ack)>>
         /\ ~again => s_events' = <<SendEv(ack), ReceivedEv(p)>>
    <3> HIDE DEF again
    <3>1. CASE again
      BY <2>10, <3>1, ServerOut
    <3>2. CASE ~again
      BY <2>10, <3>2, ServerOut
    <3> QED BY <3>1, <3>2
  <2>12. s_sess' = Session(s_sess.store, s_sess.qos2_publish_handled \cup (IF p.qos = 2 THEN {pid} ELSE {}))
    <3> DEFINE st == s_sess.store
               hd == s_sess.qos2_publish_handled
               h2 == hd \cup {pid}
    <3>1. s_sess = Session(st, hd)
      BY <2>1, ServerSession
    <3>2. s_sess' = IF p.qos = 2 THEN [s_sess EXCEPT !.qos2_publish_handled = h2] ELSE s_sess
      BY <1>0, <2>7
    <3>3. hd \cup {} = hd
      OBVIOUS
    <3> HIDE DEF st, hd, h2
    <3>4. CASE p.qos = 2
      <4>1. s_sess' = Session(st, h2)
        BY <3>1, <3>2, <3>4 DEF Session
      <4> QED BY <4>1, <3>4 DEF st, hd, h2
    <3>5. CASE p.qos # 2
      <4>1. s_sess' = Session(st, hd)
        BY <3>1, <3>2, <3>5
      <4> QED BY <4>1, <3>3, <3>5 DEF st, hd, h2
    <3> QED BY <3>4, <3>5
  <2>13. s_flow' = NoFlow(s_flow'.recv)
    <3> DEFINE rc == s_flow.recv
               rc1 == rc \cup {pid}
               rc2 == rc1 \ {ack.pid}
               rc3 == rc \ {ack.pid}
    <3>1. s_flow = NoFlow(rc)
      BY <2>1 DEF Plain, flow
    <3>2. noted = s_flow \/ noted = [s_flow EXCEPT !.recv = rc1]
      BY <1>0
    <3>3. s_flow' = noted \/ s_flow' = [noted EXCEPT !.recv = @ \ {ack.pid}]
      <4> HIDE DEF noted
      <4> QED BY <2>7 DEF S!flow_after_ack
    <3> HIDE DEF rc, rc1, noted
    <3>4. noted = NoFlow(rc) \/ noted = NoFlow(rc1)
      BY <3>1, <3>2 DEF NoFlow
    <3>5. noted.recv = rc \/ noted.recv = rc1
      BY <3>4 DEF NoFlow
    <3>6. s_flow' = noted \/ s_flow' = [noted EXCEPT !.recv = rc2] \/ s_flow' = [noted EXCEPT !.recv = rc3]
      BY <3>3, <3>5
    <3> HIDE DEF rc2, rc3
    <3>7. s_flow' = NoFlow(rc) \/ s_flow' = NoFlow(rc1) \/ s_flow' = NoFlow(rc2) \/ s_flow' = NoFlow(rc3)
      BY <3>4, <3>6 DEF NoFlow
    <3> QED BY <3>7 DEF NoFlow
  <2> HIDE DEF noted, refreshed
  <2> QED BY <2>7, <2>11, <2>12, <2>13, <1>2
        DEF Frame, alias, lim, ping, opts, link, flow, events, ids, sess, store, handled, ack
<1> QED BY <1>1, <1>2 DEF Sides

-------------------------------------------------------------------------------
\* What send() does with a PUBLISH.

\* A PUBLISH with its topic and no alias.
Unaliased(p) == p.topic # "" /\ p.alias = 0

\* send() of a packet the role and the version allow.
LEMMA ClientSend ==
  ASSUME NEW p, C!send(p), C!may_send(p)
  PROVE  /\ p.type = "connect" => C!process_send_connect(p)
         /\ p.type = "connack" => C!process_send_connack(p)
         /\ p.type = "publish" => C!process_send_publish(p)
<1>0. ~C!send_refused(p)
  BY DEF C!send_refused
<1>1. CASE p.type = "connect"
  BY <1>0, <1>1 DEF C!send
<1>2. CASE p.type = "connack"
  BY <1>0, <1>2 DEF C!send
<1>3. CASE p.type = "publish"
  BY <1>0, <1>3 DEF C!send
<1> QED BY <1>1, <1>2, <1>3

\* There are no aliases to put in the place of a topic.
LEMMA ClientNoAlias ==
  ASSUME Plain("client"), NEW p, Unaliased(p)
  PROVE  /\ C!alias_usable(p) /\ C!wire_publish(p) = p
         /\ [c_alias EXCEPT !.send = C!alias_after_publish(p)] = c_alias
<1>1. c_alias = NoAlias
  BY DEF Plain, alias
<1>2. p.topic # C!NoTopic
  BY DEF C!NoTopic, Unaliased
<1>3. c_alias.send.max = 0
  BY <1>1 DEF NoAlias, C!NoTopicAliasSend, C!TopicAliasSend
<1>4. C!alias_usable(p)
  BY <1>2 DEF C!alias_usable, Unaliased
<1>5. C!auto_alias(p) = 0
  <2>1. ~(0 > 0)
    OBVIOUS
  <2> QED BY <1>3, <2>1 DEF C!auto_alias
<1>6. C!wire_publish(p) = p
  BY <1>5 DEF C!wire_publish
<1>7. C!alias_after_publish(p) = c_alias.send
  BY <1>2, <1>5 DEF C!alias_after_publish, Unaliased
<1>8. [c_alias EXCEPT !.send = C!alias_after_publish(p)] = c_alias
  <2> DEFINE a == C!NoTopicAliasSend
             b == C!NoTopicAliasRecv
             v == C!alias_after_publish(p)
  <2>1. c_alias = [send |-> a, recv |-> b] /\ v = a
    BY <1>1, <1>7 DEF NoAlias
  <2> HIDE DEF a, b, v
  <2>2. ASSUME NEW y, y = [c_alias EXCEPT !.send = a] PROVE y = [send |-> a, recv |-> b]
    BY <2>1, <2>2
  <2>3. [c_alias EXCEPT !.send = v] = c_alias
    BY <2>1, <2>2, Zenon
  <2> QED BY <2>3 DEF v
<1> QED BY <1>4, <1>6, <1>8
\* send() of a packet the role and the version allow.
LEMMA ServerSend ==
  ASSUME NEW p, S!send(p), S!may_send(p)
  PROVE  /\ p.type = "connect" => S!process_send_connect(p)
         /\ p.type = "connack" => S!process_send_connack(p)
         /\ p.type = "publish" => S!process_send_publish(p)
<1>0. ~S!send_refused(p)
  BY DEF S!send_refused
<1>1. CASE p.type = "connect"
  BY <1>0, <1>1 DEF S!send
<1>2. CASE p.type = "connack"
  BY <1>0, <1>2 DEF S!send
<1>3. CASE p.type = "publish"
  BY <1>0, <1>3 DEF S!send
<1> QED BY <1>1, <1>2, <1>3

\* There are no aliases to put in the place of a topic.
LEMMA ServerNoAlias ==
  ASSUME Plain("server"), NEW p, Unaliased(p)
  PROVE  /\ S!alias_usable(p) /\ S!wire_publish(p) = p
         /\ [s_alias EXCEPT !.send = S!alias_after_publish(p)] = s_alias
<1>1. s_alias = NoAlias
  BY DEF Plain, alias
<1>2. p.topic # S!NoTopic
  BY DEF S!NoTopic, Unaliased
<1>3. s_alias.send.max = 0
  BY <1>1 DEF NoAlias, C!NoTopicAliasSend, C!TopicAliasSend
<1>4. S!alias_usable(p)
  BY <1>2 DEF S!alias_usable, Unaliased
<1>5. S!auto_alias(p) = 0
  <2>1. ~(0 > 0)
    OBVIOUS
  <2> QED BY <1>3, <2>1 DEF S!auto_alias
<1>6. S!wire_publish(p) = p
  BY <1>5 DEF S!wire_publish
<1>7. S!alias_after_publish(p) = s_alias.send
  BY <1>2, <1>5 DEF S!alias_after_publish, Unaliased
<1>8. [s_alias EXCEPT !.send = S!alias_after_publish(p)] = s_alias
  <2> DEFINE a == C!NoTopicAliasSend
             b == C!NoTopicAliasRecv
             v == S!alias_after_publish(p)
  <2>1. s_alias = [send |-> a, recv |-> b] /\ v = a
    BY <1>1, <1>7 DEF NoAlias
  <2> HIDE DEF a, b, v
  <2>2. ASSUME NEW y, y = [s_alias EXCEPT !.send = a] PROVE y = [send |-> a, recv |-> b]
    BY <2>1, <2>2
  <2>3. [s_alias EXCEPT !.send = v] = s_alias
    BY <2>1, <2>2, Zenon
  <2> QED BY <2>3 DEF v
<1> QED BY <1>4, <1>6, <1>8

\* send() of PUBLISH: stored under its id, whose response is awaited from now on.
LEMMA SendPublish ==
  ASSUME NEW side \in Sides, Plain(side), sess(side).need_store,
         status(side) # "Disconnected" \/ opts(side).offline_publish,
         link(side).protocol_version # "Undetermined",
         NEW m \in Messages, NEW pid \in ids(side).man, \A q \in Stored(side) : q.pid # pid,
         NEW p, p = Publish(m, pid), send(side, p)
  PROVE  /\ ids(side)' = [ids(side) EXCEPT !.puback = IF m.qos = 1 THEN @ \cup {pid} ELSE @,
                                           !.pubrec = IF m.qos = 2 THEN @ \cup {pid} ELSE @]
         /\ sess(side)' = Session(Append(store(side), p), handled(side))
         /\ Frame(side) /\ flow(side)' = flow(side)
         /\ status(side) = "Connected" => events(side)' = <<SendEv(p)>>
         /\ status(side) # "Connected" => events(side)' = <<>>
<1>0. /\ p.type = "publish" /\ p.size = C!AckSize /\ p.qos \in {1, 2} /\ p.pid = pid
      /\ p.topic # "" /\ p.alias = 0 /\ p.qos = m.qos /\ p.qos > 0 /\ p.qos # 0
  <2>1. m.qos \in {1, 2} /\ m.name # ""
    BY LinkAssumption
  <2>2. /\ p.type = "publish" /\ p.size = C!AckSize /\ p.qos = m.qos /\ p.pid = pid
        /\ p.topic = m.name /\ p.alias = 0
    BY DEF Publish
  <2>3. p.qos \in {1, 2} => p.qos > 0 /\ p.qos # 0
    OBVIOUS
  <2> QED BY <2>1, <2>2, <2>3, Zenon
<1>1. CASE side = "client"
  <2>1. /\ Plain("client") /\ C!send(p) /\ c_sess.need_store
        /\ c_link.status # "Disconnected" \/ c_opts.offline_publish
        /\ c_link.protocol_version # "Undetermined" /\ pid \in c_ids.man
    BY <1>1 DEF status, link, send, opts, sess, ids
  <2>2. C!may_send(p)
    BY <1>0, <2>1 DEF C!may_send, C!wrong_version
  <2>3. C!process_send_publish(p)
    BY <1>0, <2>1, <2>2, ClientSend
  <2>4. ~C!TooLarge(p.size)
    BY <1>0, <2>1, ClientHelpers
  <2>5. C!stores_publish(p)
    BY <1>0, <2>1 DEF C!stores_publish
  <2>6. C!publish_accepted(p) /\ UNCHANGED <<c_lim, c_opts>>
    BY <1>0, <2>1, <2>3, <2>4 DEF C!process_send_publish
  <2>7. ~C!in_store(c_sess.store, p.pid)
    BY <1>0, <1>1 DEF C!in_store, Stored, store, sess, C!ToSet
  <2>8. p.topic # C!NoTopic
    BY <1>0 DEF C!NoTopic
  <2>9. C!StoredPublish(p, p.topic) = p
    <3>1. p = [type |-> "publish", qos |-> p.qos, pid |-> p.pid, size |-> p.size, topic |-> p.topic, alias |-> 0]
      BY DEF Publish
    <3> QED BY <3>1 DEF C!StoredPublish
  <2>10. c_sess' = [c_sess EXCEPT !.store = Append(@, p)] /\ C!publish_attached(p)
    BY <2>5, <2>6, <2>7, <2>8, <2>9 DEF C!publish_accepted
  <2>11. ~C!limited(p)
    BY <2>1 DEF C!limited, Plain, flow, NoFlow, C!None, C!None
  <2>12. /\ C!alias_usable(p) /\ C!wire_publish(p) = p
         /\ [c_alias EXCEPT !.send = C!alias_after_publish(p)] = c_alias
    <3>1. Unaliased(p)
      BY <1>0 DEF Unaliased
    <3> QED BY <2>1, <3>1, ClientNoAlias
  <2>13. /\ c_alias' = c_alias /\ c_ids' = C!attach_publish(p) /\ c_flow' = c_flow
         /\ C!OutUnless(FALSE,
              IF c_link.status # "Connected" THEN C!self
              ELSE C!send_post_process(C!RequestSend(C!self, p, 0)))
    BY <1>0, <2>5, <2>10, <2>11, <2>12 DEF C!publish_attached
  <2>14. C!self = St(c_link, <<>>)
    BY <2>1, ClientHelpers
  <2>15. C!send_post_process(C!RequestSend(C!self, p, 0)) = St(c_link, <<SendEv(p)>>)
    <3>1. C!RequestSend(St(c_link, <<>>), p, 0) = St(c_link, Append(<<>>, SendEv(p)))
      BY ClientRequestSend
    <3>2. Append(<<>>, SendEv(p)) = <<SendEv(p)>>
      BY Appends
    <3>3. C!send_post_process(St(c_link, <<SendEv(p)>>)) = St(c_link, <<SendEv(p)>>)
      BY <2>1, ClientHelpers
    <3> QED BY <2>14, <3>1, <3>2, <3>3, Zenon
  <2>16. /\ c_link' = c_link /\ c_ping' = NoPing
         /\ c_link.status = "Connected" => c_events' = <<SendEv(p)>>
         /\ c_link.status # "Connected" => c_events' = <<>>
    <3>1. CASE c_link.status = "Connected"
      <4>1. C!OutUnless(FALSE, St(c_link, <<SendEv(p)>>))
        BY <2>13, <2>15, <3>1
      <4> QED BY <3>1, <4>1, ClientOut
    <3>2. CASE c_link.status # "Connected"
      <4>1. C!OutUnless(FALSE, St(c_link, <<>>))
        BY <2>13, <2>14, <3>2
      <4> QED BY <3>2, <4>1, ClientOut
    <3> QED BY <3>1, <3>2
  <2>17. c_sess' = Session(Append(c_sess.store, p), c_sess.qos2_publish_handled)
    <3> DEFINE st == c_sess.store
               hd == c_sess.qos2_publish_handled
               a == Append(st, p)
    <3>1. PICK n \in BOOLEAN : c_sess = [need_store |-> n, store |-> st, qos2_publish_handled |-> hd]
      BY <2>1 DEF Plain, sess, store, handled
    <3>2. c_sess = Session(st, hd)
      <4>1. n = TRUE
        BY <2>1, <3>1
      <4> QED BY <3>1, <4>1 DEF Session
    <3>3. c_sess' = [c_sess EXCEPT !.store = a]
      BY <2>10
    <3> HIDE DEF st, hd, a
    <3>4. c_sess' = Session(a, hd)
      BY <3>2, <3>3 DEF Session
    <3> QED BY <3>4 DEF st, hd, a
  <2>18. c_ids' = [c_ids EXCEPT !.puback = IF m.qos = 1 THEN @ \cup {pid} ELSE @,
                                !.pubrec = IF m.qos = 2 THEN @ \cup {pid} ELSE @]
    BY <1>0, <2>13 DEF C!attach_publish
  <2> QED BY <2>6, <2>13, <2>16, <2>17, <2>18, <1>1
        DEF Frame, alias, lim, ping, opts, link, flow, events, ids, sess, store, handled, status
<1>2. CASE side = "server"
  <2>1. /\ Plain("server") /\ S!send(p) /\ s_sess.need_store
        /\ s_link.status # "Disconnected" \/ s_opts.offline_publish
        /\ s_link.protocol_version # "Undetermined" /\ pid \in s_ids.man
    BY <1>2 DEF status, link, send, opts, sess, ids
  <2>2. S!may_send(p)
    BY <1>0, <2>1 DEF S!may_send, S!wrong_version
  <2>3. S!process_send_publish(p)
    BY <1>0, <2>1, <2>2, ServerSend
  <2>4. ~S!TooLarge(p.size)
    BY <1>0, <2>1, ServerHelpers
  <2>5. S!stores_publish(p)
    BY <1>0, <2>1 DEF S!stores_publish
  <2>6. S!publish_accepted(p) /\ UNCHANGED <<s_lim, s_opts>>
    BY <1>0, <2>1, <2>3, <2>4 DEF S!process_send_publish
  <2>7. ~S!in_store(s_sess.store, p.pid)
    BY <1>0, <1>2 DEF S!in_store, Stored, store, sess, C!ToSet
  <2>8. p.topic # S!NoTopic
    BY <1>0 DEF S!NoTopic
  <2>9. S!StoredPublish(p, p.topic) = p
    <3>1. p = [type |-> "publish", qos |-> p.qos, pid |-> p.pid, size |-> p.size, topic |-> p.topic, alias |-> 0]
      BY DEF Publish
    <3> QED BY <3>1 DEF S!StoredPublish
  <2>10. s_sess' = [s_sess EXCEPT !.store = Append(@, p)] /\ S!publish_attached(p)
    BY <2>5, <2>6, <2>7, <2>8, <2>9 DEF S!publish_accepted
  <2>11. ~S!limited(p)
    BY <2>1 DEF S!limited, Plain, flow, NoFlow, C!None, S!None
  <2>12. /\ S!alias_usable(p) /\ S!wire_publish(p) = p
         /\ [s_alias EXCEPT !.send = S!alias_after_publish(p)] = s_alias
    <3>1. Unaliased(p)
      BY <1>0 DEF Unaliased
    <3> QED BY <2>1, <3>1, ServerNoAlias
  <2>13. /\ s_alias' = s_alias /\ s_ids' = S!attach_publish(p) /\ s_flow' = s_flow
         /\ S!OutUnless(FALSE,
              IF s_link.status # "Connected" THEN S!self
              ELSE S!send_post_process(S!RequestSend(S!self, p, 0)))
    BY <1>0, <2>5, <2>10, <2>11, <2>12 DEF S!publish_attached
  <2>14. S!self = St(s_link, <<>>)
    BY <2>1, ServerHelpers
  <2>15. S!send_post_process(S!RequestSend(S!self, p, 0)) = St(s_link, <<SendEv(p)>>)
    <3>1. S!RequestSend(St(s_link, <<>>), p, 0) = St(s_link, Append(<<>>, SendEv(p)))
      BY ServerRequestSend
    <3>2. Append(<<>>, SendEv(p)) = <<SendEv(p)>>
      BY Appends
    <3>3. S!send_post_process(St(s_link, <<SendEv(p)>>)) = St(s_link, <<SendEv(p)>>)
      BY <2>1, ServerHelpers
    <3> QED BY <2>14, <3>1, <3>2, <3>3, Zenon
  <2>16. /\ s_link' = s_link /\ s_ping' = NoPing
         /\ s_link.status = "Connected" => s_events' = <<SendEv(p)>>
         /\ s_link.status # "Connected" => s_events' = <<>>
    <3>1. CASE s_link.status = "Connected"
      <4>1. S!OutUnless(FALSE, St(s_link, <<SendEv(p)>>))
        BY <2>13, <2>15, <3>1
      <4> QED BY <3>1, <4>1, ServerOut
    <3>2. CASE s_link.status # "Connected"
      <4>1. S!OutUnless(FALSE, St(s_link, <<>>))
        BY <2>13, <2>14, <3>2
      <4> QED BY <3>2, <4>1, ServerOut
    <3> QED BY <3>1, <3>2
  <2>17. s_sess' = Session(Append(s_sess.store, p), s_sess.qos2_publish_handled)
    <3> DEFINE st == s_sess.store
               hd == s_sess.qos2_publish_handled
               a == Append(st, p)
    <3>1. PICK n \in BOOLEAN : s_sess = [need_store |-> n, store |-> st, qos2_publish_handled |-> hd]
      BY <2>1 DEF Plain, sess, store, handled
    <3>2. s_sess = Session(st, hd)
      <4>1. n = TRUE
        BY <2>1, <3>1
      <4> QED BY <3>1, <4>1 DEF Session
    <3>3. s_sess' = [s_sess EXCEPT !.store = a]
      BY <2>10
    <3> HIDE DEF st, hd, a
    <3>4. s_sess' = Session(a, hd)
      BY <3>2, <3>3 DEF Session
    <3> QED BY <3>4 DEF st, hd, a
  <2>18. s_ids' = [s_ids EXCEPT !.puback = IF m.qos = 1 THEN @ \cup {pid} ELSE @,
                                !.pubrec = IF m.qos = 2 THEN @ \cup {pid} ELSE @]
    BY <1>0, <2>13 DEF S!attach_publish
  <2> QED BY <2>6, <2>13, <2>16, <2>17, <2>18, <1>2
        DEF Frame, alias, lim, ping, opts, link, flow, events, ids, sess, store, handled, status
<1> QED BY <1>1, <1>2 DEF Sides

-------------------------------------------------------------------------------
\* The calls that leave a connection plain.

\* The record of a connection's link.
LinkRec(s, i, v) == [status |-> s, is_client |-> i, protocol_version |-> v]

\* What a call leaves of a side's session and settings.
Kept(side) == /\ Plain(side)' /\ opts(side)' = opts(side)
              /\ store(side)' = store(side) /\ handled(side)' = handled(side)

\* The fields of a link record.
LEMMA LinkRecords ==
  ASSUME NEW s, NEW i, NEW v, NEW l, l = LinkRec(s, i, v)
  PROVE  /\ l.status = s /\ l.protocol_version = v
         /\ \A x : [l EXCEPT !.status = x] = LinkRec(x, i, v)
         /\ \A x : [l EXCEPT !.is_client = x] = LinkRec(s, x, v)
         /\ \A x : [l EXCEPT !.protocol_version = x] = LinkRec(s, i, x)
BY DEF LinkRec

\* A plain connection has no timers.
LEMMA PingRecords ==
  ASSUME NEW g, g = NoPing
  PROVE  /\ [g EXCEPT !.pingreq_keep_alive_ms = 0] = NoPing
         /\ [g EXCEPT !.pingreq_server_keep_alive_ms = C!None] = NoPing
         /\ [g EXCEPT !.pingreq_recv_timeout_ms = 0] = NoPing
<1> DEFINE none == C!None
<1>1. g = [pingreq_keep_alive_ms |-> 0, pingreq_server_keep_alive_ms |-> none,
           pingreq_recv_timeout_ms |-> 0, armed |-> {}]
  BY DEF NoPing
<1> HIDE DEF none
<1>2. /\ [g EXCEPT !.pingreq_keep_alive_ms = 0] = g
      /\ [g EXCEPT !.pingreq_server_keep_alive_ms = none] = g
      /\ [g EXCEPT !.pingreq_recv_timeout_ms = 0] = g
  BY <1>1
<1> QED BY <1>2 DEF none

\* The record of a plain side's link.
LEMMA LinkOf ==
  ASSUME NEW side, Plain(side)
  PROVE  \E i \in BOOLEAN, v \in {Version, "Undetermined"} :
           /\ link(side) = LinkRec(status(side), i, v) /\ link(side).protocol_version = v
           /\ status(side) # "Disconnected" \/ side = "client" => v = Version
<1>1. PICK s \in C!Statuses, i \in BOOLEAN, v \in {Version, "Undetermined"} :
        link(side) = [status |-> s, is_client |-> i, protocol_version |-> v]
  BY DEF Plain
<1>2. link(side) = LinkRec(s, i, v) /\ s = status(side) /\ v = link(side).protocol_version
  BY <1>1 DEF LinkRec, status
<1>3. status(side) # "Disconnected" \/ side = "client" => link(side).protocol_version = Version
  BY DEF Plain
<1> QED BY <1>2, <1>3

\* What makes a connection plain after a call.
LEMMA PlainIntro ==
  ASSUME NEW side,
         alias(side)' = NoAlias, lim(side)' = NoLimits, ping(side)' = NoPing,
         flow(side)' = NoFlow(flow(side)'.recv),
         \E offline, auto \in BOOLEAN : opts(side)' = Options(offline, auto),
         NEW s \in C!Statuses, NEW i \in BOOLEAN, NEW v \in {Version, "Undetermined"},
         link(side)' = LinkRec(s, i, v),
         NEW n \in BOOLEAN, sess(side)' = [need_store |-> n, store |-> store(side)',
                                           qos2_publish_handled |-> handled(side)'],
         (opts(side)').offline_publish \/ s # "Disconnected" => n = TRUE,
         s # "Disconnected" \/ side = "client" => v = Version
  PROVE  Plain(side)' /\ status(side)' = s
<1>1. status(side)' = s /\ (link(side)').protocol_version = v
  BY DEF status, LinkRec
<1>2. link(side)' = [status |-> s, is_client |-> i, protocol_version |-> v]
  BY DEF LinkRec
<1>3. (sess(side)').need_store = n
  OBVIOUS
<1> QED BY <1>1, <1>2, <1>3 DEF Plain

\* The exchanges leave a connection plain.
LEMMA PlainFrame ==
  ASSUME NEW side, Plain(side), Frame(side), flow(side)' = NoFlow(flow(side)'.recv),
         NEW st, NEW pids, sess(side)' = Session(st, pids)
  PROVE  /\ Plain(side)' /\ status(side)' = status(side) /\ opts(side)' = opts(side)
         /\ store(side)' = st /\ handled(side)' = pids
<1>1. store(side)' = st /\ handled(side)' = pids
  BY DEF store, handled, Session
<1>2. PICK i \in BOOLEAN, v \in {Version, "Undetermined"} :
           /\ link(side) = LinkRec(status(side), i, v) /\ link(side).protocol_version = v
           /\ status(side) # "Disconnected" \/ side = "client" => v = Version
  BY LinkOf
<1>3. status(side) \in C!Statuses
  BY DEF Plain, status
<1>4. sess(side)' = [need_store |-> TRUE, store |-> store(side)', qos2_publish_handled |-> handled(side)']
  BY <1>1 DEF Session
<1>5. /\ alias(side)' = NoAlias /\ lim(side)' = NoLimits /\ ping(side)' = NoPing
      /\ \E offline, auto \in BOOLEAN : opts(side)' = Options(offline, auto)
      /\ link(side)' = LinkRec(status(side), i, v) /\ opts(side)' = opts(side)
  BY <1>2 DEF Plain, Frame
<1>6. Plain(side)' /\ status(side)' = status(side)
  BY <1>2, <1>3, <1>4, <1>5, PlainIntro
<1> QED BY <1>1, <1>5, <1>6

\* notify_closed keeps the session of a plain connection.
LEMMA Closed ==
  ASSUME NEW side \in Sides, Plain(side), status(side) # "Disconnected", ids(side) \in IdsType,
         notify_closed(side)
  PROVE  /\ Kept(side) /\ status(side)' = "Disconnected" /\ ids(side)' = ids(side)
         /\ events(side)' = <<>>
<1>0. PICK i \in BOOLEAN, v \in {Version, "Undetermined"} :
        link(side) = LinkRec(status(side), i, v) /\ v = Version
  BY LinkOf
<1> DEFINE Facts == /\ alias(side)' = NoAlias /\ lim(side)' = NoLimits /\ ping(side)' = NoPing
                   /\ flow(side)' = flow(side) /\ opts(side)' = opts(side) /\ ids(side)' = ids(side)
                   /\ link(side)' = LinkRec("Disconnected", i, v) /\ sess(side)' = sess(side)
                   /\ events(side)' = <<>>
<1>1. ASSUME side = "client" PROVE Facts
  <2>1. /\ Plain("client") /\ C!notify_closed /\ c_sess.need_store /\ c_ids \in IdsType
        /\ c_link = LinkRec(c_link.status, i, v)
    BY <1>0, <1>1 DEF status, link, sess, ids, notify_closed, Plain
  <2> DEFINE requests == c_ids.suback \cup c_ids.unsuback
             exchanges == IF c_sess.need_store THEN {} ELSE c_ids.puback \cup c_ids.pubrec \cup c_ids.pubcomp
             released == (requests \cup exchanges) \cap c_ids.man
             drained == [c_ids EXCEPT !.man = @ \ released, !.suback = {}, !.unsuback = {}]
  <2>2. released = {}
    BY <2>1 DEF IdsType
  <2>3. drained = c_ids
    <3> HIDE DEF released
    <3>1. c_ids.man \ released = c_ids.man
      BY <2>2
    <3>2. drained = [c_ids EXCEPT !.man = c_ids.man, !.suback = {}, !.unsuback = {}]
      BY <3>1
    <3> QED BY <2>1, <3>2 DEF IdsType
  <2>4. /\ c_lim' = NoLimits /\ c_alias' = NoAlias /\ c_ids' = c_ids /\ c_sess' = c_sess
        /\ C!Out(C!cancel_timers(C!NotifyReleased(C!Status(C!self, "Disconnected"), released)))
        /\ UNCHANGED <<c_flow, c_opts>>
    BY <2>1, <2>3 DEF C!notify_closed, NoLimits, NoAlias, C!NoLimit, C!NoTopicAliasSend, C!NoTopicAliasRecv,
         C!NoLimit, C!NoTopicAliasSend, C!NoTopicAliasRecv, C!TopicAliasSend, C!TopicAliasRecv,
         C!TopicAliasSend, C!TopicAliasRecv, C!MIN_ALIAS, C!MIN_ALIAS, C!NoTopic, C!NoTopic
  <2>5. C!Status(C!self, "Disconnected") = St(LinkRec("Disconnected", i, v), <<>>)
    <3>1. C!self = St(c_link, <<>>)
      BY <2>1, ClientHelpers
    <3> QED BY <2>1, <3>1 DEF C!Status, St, LinkRec
  <2>6. C!NotifyReleased(C!Status(C!self, "Disconnected"), released) = St(LinkRec("Disconnected", i, v), <<>>)
    <3> HIDE DEF released
    <3> QED BY <2>2, <2>5 DEF C!NotifyReleased
  <2> HIDE DEF released
  <2>7. C!cancel_timers(St(LinkRec("Disconnected", i, v), <<>>)) = St(LinkRec("Disconnected", i, v), <<>>)
    BY <2>1, ClientHelpers
  <2>8. C!Out(St(LinkRec("Disconnected", i, v), <<>>))
    BY <2>4, <2>6, <2>7, Zenon
  <2>9. c_link' = LinkRec("Disconnected", i, v) /\ c_ping' = NoPing /\ c_events' = <<>>
    BY <2>8, ClientOut
  <2> QED BY <1>1, <2>4, <2>9 DEF alias, lim, ping, opts, link, flow, events, ids, sess
<1>2. ASSUME side = "server" PROVE Facts
  <2>1. /\ Plain("server") /\ S!notify_closed /\ s_sess.need_store /\ s_ids \in IdsType
        /\ s_link = LinkRec(s_link.status, i, v)
    BY <1>0, <1>2 DEF status, link, sess, ids, notify_closed, Plain
  <2> DEFINE requests == s_ids.suback \cup s_ids.unsuback
             exchanges == IF s_sess.need_store THEN {} ELSE s_ids.puback \cup s_ids.pubrec \cup s_ids.pubcomp
             released == (requests \cup exchanges) \cap s_ids.man
             drained == [s_ids EXCEPT !.man = @ \ released, !.suback = {}, !.unsuback = {}]
  <2>2. released = {}
    BY <2>1 DEF IdsType
  <2>3. drained = s_ids
    <3> HIDE DEF released
    <3>1. s_ids.man \ released = s_ids.man
      BY <2>2
    <3>2. drained = [s_ids EXCEPT !.man = s_ids.man, !.suback = {}, !.unsuback = {}]
      BY <3>1
    <3> QED BY <2>1, <3>2 DEF IdsType
  <2>4. /\ s_lim' = NoLimits /\ s_alias' = NoAlias /\ s_ids' = s_ids /\ s_sess' = s_sess
        /\ S!Out(S!cancel_timers(S!NotifyReleased(S!Status(S!self, "Disconnected"), released)))
        /\ UNCHANGED <<s_flow, s_opts>>
    BY <2>1, <2>3 DEF S!notify_closed, NoLimits, NoAlias, C!NoLimit, C!NoTopicAliasSend, C!NoTopicAliasRecv,
         S!NoLimit, S!NoTopicAliasSend, S!NoTopicAliasRecv, C!TopicAliasSend, C!TopicAliasRecv,
         S!TopicAliasSend, S!TopicAliasRecv, C!MIN_ALIAS, S!MIN_ALIAS, C!NoTopic, S!NoTopic
  <2>5. S!Status(S!self, "Disconnected") = St(LinkRec("Disconnected", i, v), <<>>)
    <3>1. S!self = St(s_link, <<>>)
      BY <2>1, ServerHelpers
    <3> QED BY <2>1, <3>1 DEF S!Status, St, LinkRec
  <2>6. S!NotifyReleased(S!Status(S!self, "Disconnected"), released) = St(LinkRec("Disconnected", i, v), <<>>)
    <3> HIDE DEF released
    <3> QED BY <2>2, <2>5 DEF S!NotifyReleased
  <2> HIDE DEF released
  <2>7. S!cancel_timers(St(LinkRec("Disconnected", i, v), <<>>)) = St(LinkRec("Disconnected", i, v), <<>>)
    BY <2>1, ServerHelpers
  <2>8. S!Out(St(LinkRec("Disconnected", i, v), <<>>))
    BY <2>4, <2>6, <2>7, Zenon
  <2>9. s_link' = LinkRec("Disconnected", i, v) /\ s_ping' = NoPing /\ s_events' = <<>>
    BY <2>8, ServerOut
  <2> QED BY <1>2, <2>4, <2>9 DEF alias, lim, ping, opts, link, flow, events, ids, sess
<1>3. Facts
  BY <1>1, <1>2 DEF Sides
<1>4. store(side)' = store(side) /\ handled(side)' = handled(side)
  BY <1>3 DEF store, handled
<1>5. PICK n \in BOOLEAN : sess(side) = [need_store |-> n, store |-> store(side),
                                         qos2_publish_handled |-> handled(side)]
  BY DEF Plain
<1>6. n = TRUE
  <2>1. sess(side).need_store
    BY DEF Plain
  <2> QED BY <1>5, <2>1
<1>7. Plain(side)' /\ status(side)' = "Disconnected"
  <2>1. /\ flow(side)' = NoFlow(flow(side)'.recv)
        /\ \E offline, auto \in BOOLEAN : opts(side)' = Options(offline, auto)
    BY <1>3 DEF Plain
  <2>2. sess(side)' = [need_store |-> TRUE, store |-> store(side)', qos2_publish_handled |-> handled(side)']
    BY <1>3, <1>4, <1>5, <1>6
  <2>3. "Disconnected" \in C!Statuses
    BY DEF C!Statuses
  <2> QED BY <1>0, <1>3, <2>1, <2>2, <2>3, PlainIntro
<1> QED BY <1>3, <1>4, <1>7 DEF Kept

\* set_auto_pub_response and set_offline_publish.
LEMMA Settings ==
  ASSUME NEW side \in Sides, Plain(side), set_auto_pub_response(side) \/ set_offline_publish(side)
  PROVE  /\ Plain(side)' /\ status(side)' = status(side) /\ ids(side)' = ids(side)
         /\ store(side)' = store(side) /\ handled(side)' = handled(side) /\ events(side)' = <<>>
<1> DEFINE Facts ==
      /\ alias(side)' = NoAlias /\ lim(side)' = NoLimits /\ ping(side)' = NoPing
      /\ flow(side)' = flow(side) /\ ids(side)' = ids(side) /\ link(side)' = link(side)
      /\ events(side)' = <<>>
      /\ \/ /\ opts(side)' = [opts(side) EXCEPT !.auto_pub_response = TRUE] /\ sess(side)' = sess(side)
         \/ /\ opts(side)' = [opts(side) EXCEPT !.offline_publish = TRUE]
            /\ sess(side)' = [sess(side) EXCEPT !.need_store = TRUE]
<1>1. ASSUME side = "client" PROVE Facts
  <2>1. Plain("client") /\ c_alias = NoAlias /\ c_lim = NoLimits
    BY <1>1 DEF Plain, alias, lim
  <2>2. C!set_option("auto_pub_response", TRUE) \/ C!set_offline_publish(TRUE)
    BY <1>1 DEF set_auto_pub_response, set_offline_publish
  <2>3. /\ \/ c_opts' = [c_opts EXCEPT !.auto_pub_response = TRUE] /\ c_sess' = c_sess
           \/ /\ c_opts' = [c_opts EXCEPT !.offline_publish = TRUE]
              /\ c_sess' = [c_sess EXCEPT !.need_store = TRUE]
        /\ C!Out(C!self) /\ UNCHANGED <<c_ids, c_flow, c_lim, c_alias>>
    BY <2>2 DEF C!set_option, C!set_offline_publish
  <2>4. C!self = St(c_link, <<>>)
    BY <2>1, ClientHelpers
  <2>5. c_link' = c_link /\ c_ping' = NoPing /\ c_events' = <<>>
    BY <2>3, <2>4, ClientOut
  <2> QED BY <1>1, <2>1, <2>3, <2>5 DEF alias, lim, ping, opts, link, flow, events, ids, sess
<1>2. ASSUME side = "server" PROVE Facts
  <2>1. Plain("server") /\ s_alias = NoAlias /\ s_lim = NoLimits
    BY <1>2 DEF Plain, alias, lim
  <2>2. S!set_option("auto_pub_response", TRUE) \/ S!set_offline_publish(TRUE)
    BY <1>2 DEF set_auto_pub_response, set_offline_publish
  <2>3. /\ \/ s_opts' = [s_opts EXCEPT !.auto_pub_response = TRUE] /\ s_sess' = s_sess
           \/ /\ s_opts' = [s_opts EXCEPT !.offline_publish = TRUE]
              /\ s_sess' = [s_sess EXCEPT !.need_store = TRUE]
        /\ S!Out(S!self) /\ UNCHANGED <<s_ids, s_flow, s_lim, s_alias>>
    BY <2>2 DEF S!set_option, S!set_offline_publish
  <2>4. S!self = St(s_link, <<>>)
    BY <2>1, ServerHelpers
  <2>5. s_link' = s_link /\ s_ping' = NoPing /\ s_events' = <<>>
    BY <2>3, <2>4, ServerOut
  <2> QED BY <1>2, <2>1, <2>3, <2>5 DEF alias, lim, ping, opts, link, flow, events, ids, sess
<1>3. Facts
  BY <1>1, <1>2 DEF Sides
<1> HIDE DEF Facts
<1>4. PICK i \in BOOLEAN, v \in {Version, "Undetermined"} :
           /\ link(side) = LinkRec(status(side), i, v) /\ link(side).protocol_version = v
           /\ status(side) # "Disconnected" \/ side = "client" => v = Version
  BY LinkOf
<1>5. PICK n \in BOOLEAN : sess(side) = [need_store |-> n, store |-> store(side),
                                         qos2_publish_handled |-> handled(side)]
  BY DEF Plain
<1>6. PICK offline \in BOOLEAN, auto \in BOOLEAN : opts(side) = Options(offline, auto)
  BY DEF Plain
<1>7. /\ status(side) \in C!Statuses
      /\ offline \/ status(side) # "Disconnected" => n = TRUE
      /\ flow(side) = NoFlow(flow(side).recv)
  <2>1. opts(side).offline_publish = offline /\ sess(side).need_store = n
    BY <1>5, <1>6 DEF Options
  <2> QED BY <2>1 DEF Plain, status
<1>8. /\ status(side)' = status(side) /\ store(side)' = store(side) /\ handled(side)' = handled(side)
      /\ \/ opts(side)' = Options(offline, TRUE) /\ sess(side)' = sess(side)
         \/ /\ opts(side)' = Options(TRUE, auto)
            /\ sess(side)' = [need_store |-> TRUE, store |-> store(side), qos2_publish_handled |-> handled(side)]
  <2>1. status(side)' = status(side)
    BY <1>3 DEF Facts, status
  <2> DEFINE st == store(side)
             hd == handled(side)
             os == opts(side)
             ss == sess(side)
             none == C!None
  <2>2. /\ ss = [need_store |-> n, store |-> st, qos2_publish_handled |-> hd]
        /\ os = [offline_publish |-> offline, auto_pub_response |-> auto,
                 auto_ping_response |-> FALSE, auto_map_topic_alias_send |-> FALSE,
                 auto_replace_topic_alias_send |-> FALSE,
                 pingreq_user_send_interval_ms |-> none, pingresp_recv_timeout_ms |-> 0]
    BY <1>5, <1>6 DEF Options
  <2>3. CASE opts(side)' = [os EXCEPT !.auto_pub_response = TRUE] /\ sess(side)' = ss
    <3>1. ASSUME NEW y, y = [os EXCEPT !.auto_pub_response = TRUE] PROVE y = Options(offline, TRUE)
      <4> HIDE DEF os, st, hd, ss, none
      <4>1. y = [offline_publish |-> offline, auto_pub_response |-> TRUE,
                 auto_ping_response |-> FALSE, auto_map_topic_alias_send |-> FALSE,
                 auto_replace_topic_alias_send |-> FALSE,
                 pingreq_user_send_interval_ms |-> none, pingresp_recv_timeout_ms |-> 0]
        BY <2>2, <3>1
      <4> QED BY <4>1 DEF Options, none
    <3>2. store(side)' = store(side) /\ handled(side)' = handled(side)
      BY <2>3 DEF store, handled
    <3> QED BY <2>1, <2>3, <3>1, <3>2
  <2>4. CASE opts(side)' = [os EXCEPT !.offline_publish = TRUE] /\ sess(side)' = [ss EXCEPT !.need_store = TRUE]
    <3>1. ASSUME NEW y, y = [os EXCEPT !.offline_publish = TRUE] PROVE y = Options(TRUE, auto)
      <4> HIDE DEF os, st, hd, ss, none
      <4>1. y = [offline_publish |-> TRUE, auto_pub_response |-> auto,
                 auto_ping_response |-> FALSE, auto_map_topic_alias_send |-> FALSE,
                 auto_replace_topic_alias_send |-> FALSE,
                 pingreq_user_send_interval_ms |-> none, pingresp_recv_timeout_ms |-> 0]
        BY <2>2, <3>1
      <4> QED BY <4>1 DEF Options, none
    <3>2. ASSUME NEW y, y = [ss EXCEPT !.need_store = TRUE]
          PROVE  y = [need_store |-> TRUE, store |-> st, qos2_publish_handled |-> hd]
      <4> HIDE DEF os, st, hd, ss, none
      <4> QED BY <2>2, <3>2
    <3>3. sess(side)' = [need_store |-> TRUE, store |-> st, qos2_publish_handled |-> hd]
      BY <2>4, <3>2
    <3>4. store(side)' = store(side) /\ handled(side)' = handled(side)
      <4>1. (sess(side)').store = st /\ (sess(side)').qos2_publish_handled = hd
        BY <3>3
      <4> QED BY <4>1 DEF store, handled
    <3> QED BY <2>1, <2>4, <3>1, <3>3, <3>4
  <2> QED BY <1>3, <2>3, <2>4 DEF Facts
<1>9. /\ \E o, a \in BOOLEAN : opts(side)' = Options(o, a)
      /\ \E k \in BOOLEAN : /\ sess(side)' = [need_store |-> k, store |-> store(side)',
                                              qos2_publish_handled |-> handled(side)']
                            /\ (opts(side)').offline_publish \/ status(side) # "Disconnected" => k = TRUE
  <2>1. CASE opts(side)' = Options(offline, TRUE) /\ sess(side)' = sess(side)
    <3>1. (opts(side)').offline_publish = offline
      BY <2>1 DEF Options
    <3> QED BY <1>5, <1>7, <1>8, <2>1, <3>1
  <2>2. CASE /\ opts(side)' = Options(TRUE, auto)
             /\ sess(side)' = [need_store |-> TRUE, store |-> store(side), qos2_publish_handled |-> handled(side)]
    BY <1>8, <2>2
  <2> QED BY <1>8, <2>1, <2>2
<1>10. Plain(side)'
  <2>1. PICK k \in BOOLEAN : /\ sess(side)' = [need_store |-> k, store |-> store(side)',
                                               qos2_publish_handled |-> handled(side)']
                             /\ (opts(side)').offline_publish \/ status(side) # "Disconnected" => k = TRUE
    BY <1>9
  <2>2. /\ alias(side)' = NoAlias /\ lim(side)' = NoLimits /\ ping(side)' = NoPing
        /\ flow(side)' = NoFlow(flow(side)'.recv) /\ link(side)' = LinkRec(status(side), i, v)
    BY <1>3, <1>4, <1>7 DEF Facts
  <2>3. \E o, a \in BOOLEAN : opts(side)' = Options(o, a)
    BY <1>9
  <2> QED BY <1>4, <1>7, <2>1, <2>2, <2>3, PlainIntro
<1> QED BY <1>3, <1>8, <1>10 DEF Facts

\* acquire_packet_id takes a free id.
LEMMA Acquired ==
  ASSUME NEW side \in Sides, Plain(side), NEW pid, acquire_packet_id(side, pid)
  PROVE  /\ pid \in C!PacketIds \ ids(side).man /\ ids(side)' = [ids(side) EXCEPT !.man = @ \cup {pid}]
         /\ Kept(side) /\ status(side)' = status(side) /\ events(side)' = <<>>
<1> DEFINE Facts ==
      /\ alias(side)' = NoAlias /\ lim(side)' = NoLimits /\ ping(side)' = NoPing
      /\ flow(side)' = flow(side) /\ link(side)' = link(side)
      /\ sess(side)' = sess(side) /\ opts(side)' = opts(side) /\ events(side)' = <<>>
      /\ pid \in C!PacketIds \ ids(side).man /\ ids(side)' = [ids(side) EXCEPT !.man = @ \cup {pid}]
<1>1. ASSUME side = "client" PROVE Facts
  <2>1. Plain("client") /\ c_alias = NoAlias /\ c_lim = NoLimits /\ C!acquire_packet_id(pid)
    BY <1>1 DEF Plain, alias, lim, acquire_packet_id
  <2>2. /\ pid \in C!PacketIds \ c_ids.man /\ c_ids' = [c_ids EXCEPT !.man = @ \cup {pid}]
        /\ C!Out(C!self) /\ UNCHANGED <<c_sess, c_flow, c_lim, c_alias, c_opts>>
    BY <2>1 DEF C!acquire_packet_id, C!free_ids, C!PacketIds, C!PacketIds
  <2>3. C!self = St(c_link, <<>>)
    BY <2>1, ClientHelpers
  <2>4. c_link' = c_link /\ c_ping' = NoPing /\ c_events' = <<>>
    BY <2>2, <2>3, ClientOut
  <2> QED BY <1>1, <2>1, <2>2, <2>4 DEF alias, lim, ping, opts, link, flow, events, ids, sess
<1>2. ASSUME side = "server" PROVE Facts
  <2>1. Plain("server") /\ s_alias = NoAlias /\ s_lim = NoLimits /\ S!acquire_packet_id(pid)
    BY <1>2 DEF Plain, alias, lim, acquire_packet_id
  <2>2. /\ pid \in C!PacketIds \ s_ids.man /\ s_ids' = [s_ids EXCEPT !.man = @ \cup {pid}]
        /\ S!Out(S!self) /\ UNCHANGED <<s_sess, s_flow, s_lim, s_alias, s_opts>>
    BY <2>1 DEF S!acquire_packet_id, S!free_ids, C!PacketIds, S!PacketIds
  <2>3. S!self = St(s_link, <<>>)
    BY <2>1, ServerHelpers
  <2>4. s_link' = s_link /\ s_ping' = NoPing /\ s_events' = <<>>
    BY <2>2, <2>3, ServerOut
  <2> QED BY <1>2, <2>1, <2>2, <2>4 DEF alias, lim, ping, opts, link, flow, events, ids, sess
<1>3. Facts
  BY <1>1, <1>2 DEF Sides
<1>4. status(side)' = status(side) /\ store(side)' = store(side) /\ handled(side)' = handled(side)
  BY <1>3 DEF status, store, handled
<1>5. Plain(side)'
  BY <1>3, <1>4 DEF Plain
<1> QED BY <1>3, <1>4, <1>5 DEF Kept

\* restore_packets and restore_qos2_publish_handled in a new connection bring back the session.
LEMMA Restored ==
  ASSUME NEW side \in Sides, Plain(side), restore(side)
  PROVE  /\ ids(side)' = C!restored_ids(store(side))
         /\ Kept(side) /\ status(side)' = "Disconnected" /\ events(side)' = <<>>
<1> DEFINE v == IF side = "client" THEN Version ELSE "Undetermined"
           Facts ==
      /\ alias(side)' = NoAlias /\ lim(side)' = NoLimits /\ ping(side)' = NoPing
      /\ flow(side)' = NoFlow({}) /\ link(side)' = LinkRec("Disconnected", FALSE, v)
      /\ sess(side)' = [need_store |-> opts(side).offline_publish, store |-> store(side),
                        qos2_publish_handled |-> handled(side)]
      /\ opts(side)' = opts(side) /\ events(side)' = <<>> /\ ids(side)' = C!restored_ids(store(side))
<1>1. ASSUME side = "client" PROVE Facts
  <2>1. C!restore(c_sess.store, c_sess.qos2_publish_handled)
    BY <1>1 DEF restore
  <2>2. c_lim' = NoLimits /\ c_alias' = NoAlias /\ c_ping' = NoPing /\ c_flow' = NoFlow({})
    BY <2>1 DEF C!restore, NoLimits, NoAlias, NoPing, NoFlow, C!NoLimit, C!NoTopicAliasSend, C!NoTopicAliasRecv,
         C!NoLimit, C!NoTopicAliasSend, C!NoTopicAliasRecv, C!TopicAliasSend, C!TopicAliasRecv,
         C!TopicAliasSend, C!TopicAliasRecv, C!MIN_ALIAS, C!MIN_ALIAS, C!NoTopic, C!NoTopic,
         C!None, C!None, C!initialize_flow
  <2>3. \A s : C!restored_ids(s) = C!restored_ids(s)
    BY DEF C!restored_ids, C!restored_ids, C!NoIds, C!NoIds, C!response_packet, C!response_packet
  <2>4. c_link' = LinkRec("Disconnected", FALSE, v)
    BY <1>1, <2>1 DEF C!restore, LinkRec
  <2>5. /\ c_ids' = C!restored_ids(c_sess.store) /\ c_opts' = c_opts /\ c_events' = <<>>
        /\ c_sess' = [need_store |-> c_opts.offline_publish, store |-> c_sess.store,
                      qos2_publish_handled |-> c_sess.qos2_publish_handled]
    BY <2>1, <2>3 DEF C!restore
  <2> HIDE DEF v
  <2> QED BY <1>1, <2>2, <2>4, <2>5
        DEF alias, lim, ping, opts, link, flow, events, ids, sess, store, handled
<1>2. ASSUME side = "server" PROVE Facts
  <2>1. S!restore(s_sess.store, s_sess.qos2_publish_handled)
    BY <1>2 DEF restore
  <2>2. s_lim' = NoLimits /\ s_alias' = NoAlias /\ s_ping' = NoPing /\ s_flow' = NoFlow({})
    BY <2>1 DEF S!restore, NoLimits, NoAlias, NoPing, NoFlow, C!NoLimit, C!NoTopicAliasSend, C!NoTopicAliasRecv,
         S!NoLimit, S!NoTopicAliasSend, S!NoTopicAliasRecv, C!TopicAliasSend, C!TopicAliasRecv,
         S!TopicAliasSend, S!TopicAliasRecv, C!MIN_ALIAS, S!MIN_ALIAS, C!NoTopic, S!NoTopic,
         C!None, S!None, S!initialize_flow
  <2>3. \A s : S!restored_ids(s) = C!restored_ids(s)
    BY DEF S!restored_ids, C!restored_ids, S!NoIds, C!NoIds, S!response_packet, C!response_packet
  <2>4. s_link' = LinkRec("Disconnected", FALSE, v)
    BY <1>2, <2>1 DEF S!restore, LinkRec
  <2>5. /\ s_ids' = C!restored_ids(s_sess.store) /\ s_opts' = s_opts /\ s_events' = <<>>
        /\ s_sess' = [need_store |-> s_opts.offline_publish, store |-> s_sess.store,
                      qos2_publish_handled |-> s_sess.qos2_publish_handled]
    BY <2>1, <2>3 DEF S!restore
  <2> HIDE DEF v
  <2> QED BY <1>2, <2>2, <2>4, <2>5
        DEF alias, lim, ping, opts, link, flow, events, ids, sess, store, handled
<1>3. Facts
  BY <1>1, <1>2 DEF Sides
<1>4. store(side)' = store(side) /\ handled(side)' = handled(side)
  <2>1. (sess(side)').store = store(side) /\ (sess(side)').qos2_publish_handled = handled(side)
    BY <1>3
  <2> QED BY <2>1 DEF store, handled
<1>5. PICK offline, auto \in BOOLEAN : opts(side) = Options(offline, auto)
  BY DEF Plain
<1>6. opts(side).offline_publish = offline
  BY <1>5 DEF Options
<1>7. Plain(side)' /\ status(side)' = "Disconnected"
  <2>1. /\ v \in {Version, "Undetermined"} /\ "Disconnected" \in C!Statuses
        /\ side = "client" => v = Version
    BY DEF C!Statuses
  <2>2. flow(side)' = NoFlow(flow(side)'.recv)
    <3>1. (flow(side)').recv = {}
      BY <1>3 DEF NoFlow
    <3> QED BY <1>3, <3>1
  <2>3. \E o, a \in BOOLEAN : opts(side)' = Options(o, a)
    BY <1>3, <1>5
  <2>4. sess(side)' = [need_store |-> offline, store |-> store(side)', qos2_publish_handled |-> handled(side)']
    BY <1>3, <1>4, <1>6
  <2>5. (opts(side)').offline_publish \/ "Disconnected" # "Disconnected" => offline = TRUE
    BY <1>3, <1>6
  <2> HIDE DEF v
  <2> QED BY <1>3, <2>1, <2>2, <2>3, <2>4, <2>5, PlainIntro
<1> QED BY <1>3, <1>4, <1>7 DEF Kept

-------------------------------------------------------------------------------
\* CONNECT and CONNACK, sent and received.

\* initialize leaves the ids of a session alone.
LEMMA SameIds ==
  ASSUME NEW i \in IdsType
  PROVE  /\ C!initialize_ids(i) = i /\ S!initialize_ids(i) = i
         /\ \A pids : pids = {} => [i EXCEPT !.man = @ \ pids] = i
<1>1. C!initialize_ids(i) = i
  BY DEF C!initialize_ids, IdsType
<1>2. S!initialize_ids(i) = i
  BY DEF S!initialize_ids, IdsType
<1>3. ASSUME NEW pids, pids = {} PROVE [i EXCEPT !.man = @ \ pids] = i
  <2>1. i.man \ pids = i.man
    BY <1>3
  <2>2. [i EXCEPT !.man = i.man \ pids] = [i EXCEPT !.man = i.man]
    BY <2>1
  <2> QED BY <2>2 DEF IdsType
<1> QED BY <1>1, <1>2, <1>3

\* What CONNECT asks for.
LEMMA ConnectFields ==
  /\ Connect.type = "connect" /\ Connect.version = Version /\ Connect.clean = FALSE
  /\ Connect.keep_alive = 0 /\ Connect.ta_max = C!None /\ Connect.recv_max = C!None
  /\ Connect.max_size = C!None /\ Connect.size = C!AckSize
  /\ Version = "V5" => Connect.expiry = 1
BY DEF Connect

\* What CONNACK sets: no limits.
LEMMA ConnackFields ==
  ASSUME NEW sp
  PROVE  /\ Connack(sp).type = "connack" /\ Connack(sp).ok = TRUE /\ Connack(sp).session_present = sp
         /\ Connack(sp).ta_max = C!None /\ Connack(sp).recv_max = C!None /\ Connack(sp).max_size = C!None
         /\ Connack(sp).server_keep_alive = C!None /\ Connack(sp).size = C!AckSize
BY DEF Connack

\* Properties that are absent.
LEMMA NoProps ==
  /\ C!None = S!None /\ S!None = C!None /\ C!None # 0 /\ C!None # 1
  /\ \A x : C!Prop(C!None, x) = x /\ S!Prop(C!None, x) = x
  /\ \A x : C!Prop(1, x) = 1 /\ S!Prop(1, x) = 1
  /\ C!TopicAliasRecv(0) = C!NoTopicAliasRecv /\ S!TopicAliasSend(0) = S!NoTopicAliasSend
  /\ S!NoTopicAliasSend = C!NoTopicAliasSend /\ S!NoTopicAliasRecv = C!NoTopicAliasRecv
<1>1. C!None = S!None /\ C!None # 0 /\ C!None # 1
  BY DEF C!None, S!None
<1>2. \A x : C!Prop(C!None, x) = x /\ S!Prop(C!None, x) = x
  BY DEF C!Prop, S!Prop, C!None, S!None
<1>3. \A x : C!Prop(1, x) = 1 /\ S!Prop(1, x) = 1
  BY DEF C!Prop, S!Prop, C!None, S!None
<1>4. C!TopicAliasRecv(0) = C!NoTopicAliasRecv /\ S!TopicAliasSend(0) = S!NoTopicAliasSend
  BY DEF C!NoTopicAliasRecv, S!NoTopicAliasSend
<1>5. S!NoTopicAliasSend = C!NoTopicAliasSend /\ S!NoTopicAliasRecv = C!NoTopicAliasRecv
  BY DEF C!NoTopicAliasSend, C!NoTopicAliasRecv, S!NoTopicAliasSend, S!NoTopicAliasRecv,
         C!TopicAliasSend, C!TopicAliasRecv, S!TopicAliasSend, S!TopicAliasRecv,
         C!MIN_ALIAS, S!MIN_ALIAS, C!NoTopic, S!NoTopic
<1> QED BY <1>1, <1>2, <1>3, <1>4, <1>5

\* The session record of a connection that stores.
LEMMA NeedStore ==
  ASSUME NEW x, NEW s, NEW h, NEW n \in BOOLEAN,
         x = [need_store |-> n, store |-> s, qos2_publish_handled |-> h],
         NEW y, y = [x EXCEPT !.need_store = TRUE, !.store = s]
  PROVE  y = Session(s, h)
BY DEF Session

\* Limits that are not set.
LEMMA LimitRecord ==
  ASSUME NEW x, x = NoLimits, NEW y
  PROVE  /\ y = [x EXCEPT !.recv = x.recv] => y = NoLimits
         /\ y = [x EXCEPT !.send = x.send] => y = NoLimits
<1> DEFINE n == C!NoLimit
<1>1. x = [send |-> n, recv |-> n]
  BY DEF NoLimits
<1> HIDE DEF n
<1>2. ASSUME y = [x EXCEPT !.recv = x.recv] PROVE y = x
  BY <1>1, <1>2
<1>3. ASSUME y = [x EXCEPT !.send = x.send] PROVE y = x
  BY <1>1, <1>3
<1> QED BY <1>2, <1>3

\* A connection whose records are these is plain.
LEMMA PlainConnection ==
  ASSUME NEW side \in Sides, Plain(side),
         alias(side)' = NoAlias, lim(side)' = NoLimits, ping(side)' = NoPing,
         NEW pids, flow(side)' = NoFlow(pids), opts(side)' = opts(side),
         NEW s \in C!Statuses, NEW i \in BOOLEAN, link(side)' = LinkRec(s, i, Version),
         sess(side)' = Session(store(side), handled(side))
  PROVE  Kept(side) /\ status(side)' = s
<1>1. store(side)' = store(side) /\ handled(side)' = handled(side)
  <2>1. (sess(side)').store = store(side) /\ (sess(side)').qos2_publish_handled = handled(side)
    BY DEF Session
  <2> QED BY <2>1 DEF store, handled
<1>2. flow(side)' = NoFlow(flow(side)'.recv)
  <2>1. (flow(side)').recv = pids
    BY DEF NoFlow
  <2> QED BY <2>1
<1>3. \E o, a \in BOOLEAN : opts(side)' = Options(o, a)
  BY DEF Plain
<1>4. sess(side)' = [need_store |-> TRUE, store |-> store(side)', qos2_publish_handled |-> handled(side)']
  BY <1>1 DEF Session
<1>5. Plain(side)' /\ status(side)' = s
  BY <1>2, <1>3, <1>4, PlainIntro
<1> QED BY <1>1, <1>5 DEF Kept

\* The assignments to self in the calls that set up a connection.
SetKeepAlive(x, v)   == [x EXCEPT !.ping.pingreq_keep_alive_ms = v]
SetServerAlive(x, v) == [x EXCEPT !.ping.pingreq_server_keep_alive_ms = v]
SetTimeout(x, v)     == [x EXCEPT !.ping.pingreq_recv_timeout_ms = v]

\* The timer fields of self between the helpers.
LEMMA PingOfSelf ==
  ASSUME NEW l, NEW e
  PROVE  /\ SetKeepAlive(St(l, e), 0) = St(l, e) /\ SetServerAlive(St(l, e), C!None) = St(l, e)
         /\ SetTimeout(St(l, e), 0) = St(l, e)
<1> DEFINE g == NoPing
           x == St(l, e)
<1>1. x = [link |-> l, ping |-> g, ev |-> e]
  BY DEF St
<1>2. /\ [g EXCEPT !.pingreq_keep_alive_ms = 0] = g
      /\ [g EXCEPT !.pingreq_server_keep_alive_ms = C!None] = g
      /\ [g EXCEPT !.pingreq_recv_timeout_ms = 0] = g
  BY PingRecords
<1> HIDE DEF g, x
<1>3. /\ SetKeepAlive(x, 0) = [x EXCEPT !.ping = [g EXCEPT !.pingreq_keep_alive_ms = 0]]
      /\ SetServerAlive(x, C!None) = [x EXCEPT !.ping = [g EXCEPT !.pingreq_server_keep_alive_ms = C!None]]
      /\ SetTimeout(x, 0) = [x EXCEPT !.ping = [g EXCEPT !.pingreq_recv_timeout_ms = 0]]
  <2>1. SetKeepAlive(x, 0) = [x EXCEPT !.ping = [g EXCEPT !.pingreq_keep_alive_ms = 0]]
    BY <1>1 DEF SetKeepAlive
  <2>2. ASSUME NEW none
        PROVE  SetServerAlive(x, none) = [x EXCEPT !.ping = [g EXCEPT !.pingreq_server_keep_alive_ms = none]]
    BY <1>1 DEF SetServerAlive
  <2>3. SetTimeout(x, 0) = [x EXCEPT !.ping = [g EXCEPT !.pingreq_recv_timeout_ms = 0]]
    BY <1>1 DEF SetTimeout
  <2> QED BY <2>1, <2>2, <2>3, Zenon
<1>4. [x EXCEPT !.ping = g] = x
  BY <1>1
<1>5. SetKeepAlive(x, 0) = x /\ SetServerAlive(x, C!None) = x /\ SetTimeout(x, 0) = x
  BY <1>2, <1>3, <1>4, Zenon
<1> QED BY <1>5 DEF x

\* The link field of self between the helpers.
LEMMA LinkOfSelf ==
  ASSUME NEW s, NEW i, NEW v, NEW e, NEW x, x = St(LinkRec(s, i, v), e), NEW t, NEW y
  PROVE  /\ y = [x EXCEPT !.link.status = t] => y = St(LinkRec(t, i, v), e)
         /\ y = [x EXCEPT !.link.is_client = t] => y = St(LinkRec(s, t, v), e)
         /\ y = [x EXCEPT !.link.protocol_version = t] => y = St(LinkRec(s, i, t), e)
<1> DEFINE g == NoPing
           l == LinkRec(s, i, v)
<1>1. x = [link |-> l, ping |-> g, ev |-> e] /\ \A k : St(k, e) = [link |-> k, ping |-> g, ev |-> e]
  BY DEF St
<1>2. l = LinkRec(s, i, v)
  OBVIOUS
<1> HIDE DEF g, l
<1>3. ASSUME y = [x EXCEPT !.link.status = t] PROVE y = St(LinkRec(t, i, v), e)
  <2>1. y = [x EXCEPT !.link = [l EXCEPT !.status = t]]
    BY <1>1, <1>3
  <2>2. [l EXCEPT !.status = t] = LinkRec(t, i, v)
    BY <1>2 DEF LinkRec
  <2> DEFINE k == LinkRec(t, i, v)
  <2>3. y = [x EXCEPT !.link = k]
    BY <2>1, <2>2
  <2> HIDE DEF k
  <2>4. y = [link |-> k, ping |-> g, ev |-> e]
    BY <1>1, <2>3
  <2> QED BY <1>1, <2>4 DEF k
<1>4. ASSUME y = [x EXCEPT !.link.is_client = t] PROVE y = St(LinkRec(s, t, v), e)
  <2>1. y = [x EXCEPT !.link = [l EXCEPT !.is_client = t]]
    BY <1>1, <1>4
  <2>2. [l EXCEPT !.is_client = t] = LinkRec(s, t, v)
    BY <1>2 DEF LinkRec
  <2> DEFINE k == LinkRec(s, t, v)
  <2>3. y = [x EXCEPT !.link = k]
    BY <2>1, <2>2
  <2> HIDE DEF k
  <2>4. y = [link |-> k, ping |-> g, ev |-> e]
    BY <1>1, <2>3
  <2> QED BY <1>1, <2>4 DEF k
<1>5. ASSUME y = [x EXCEPT !.link.protocol_version = t] PROVE y = St(LinkRec(s, i, t), e)
  <2>1. y = [x EXCEPT !.link = [l EXCEPT !.protocol_version = t]]
    BY <1>1, <1>5
  <2>2. [l EXCEPT !.protocol_version = t] = LinkRec(s, i, t)
    BY <1>2 DEF LinkRec
  <2> DEFINE k == LinkRec(s, i, t)
  <2>3. y = [x EXCEPT !.link = k]
    BY <2>1, <2>2
  <2> HIDE DEF k
  <2>4. y = [link |-> k, ping |-> g, ev |-> e]
    BY <1>1, <2>3
  <2> QED BY <1>1, <2>4 DEF k
<1> QED BY <1>3, <1>4, <1>5

SetVersion(x, v) == [x EXCEPT !.link.protocol_version = v]

\* The version field of self between the helpers.
LEMMA VersionOfSelf ==
  ASSUME NEW s, NEW i, NEW v, NEW e, NEW t
  PROVE  SetVersion(St(LinkRec(s, i, v), e), t) = St(LinkRec(s, i, t), e)
<1> DEFINE x == St(LinkRec(s, i, v), e)
           y == SetVersion(x, t)
<1>1. y = [x EXCEPT !.link.protocol_version = t] /\ x = St(LinkRec(s, i, v), e)
  BY DEF SetVersion
<1> HIDE DEF x, y
<1>2. y = St(LinkRec(s, i, t), e)
  BY <1>1, LinkOfSelf
<1> QED BY <1>2 DEF x, y

\* The status field of self.
LEMMA ClientStatus ==
  ASSUME NEW s, NEW i, NEW v, NEW e, NEW t
  PROVE  C!Status(St(LinkRec(s, i, v), e), t) = St(LinkRec(t, i, v), e)
<1> DEFINE x == St(LinkRec(s, i, v), e)
           y == C!Status(x, t)
<1>1. y = [x EXCEPT !.link.status = t] /\ x = St(LinkRec(s, i, v), e)
  BY DEF C!Status
<1> HIDE DEF x, y
<1>2. y = St(LinkRec(t, i, v), e)
  BY <1>1, LinkOfSelf
<1> QED BY <1>2 DEF x, y

\* initialize() of a plain connection.
LEMMA ClientInitialize ==
  ASSUME NEW s, NEW i, NEW v, NEW e, NEW t
  PROVE  C!initialize_self(St(LinkRec(s, i, v), e), t) = St(LinkRec(s, t, v), e)
<1> DEFINE x == St(LinkRec(s, i, v), e)
           y == [x EXCEPT !.link.is_client = t]
           z == [y EXCEPT !.ping.pingreq_keep_alive_ms = 0]
           w == [z EXCEPT !.ping.pingreq_server_keep_alive_ms = C!None]
<1>1. C!initialize_self(x, t) = w
  BY DEF C!initialize_self
<1>2. /\ x = St(LinkRec(s, i, v), e) /\ y = [x EXCEPT !.link.is_client = t]
      /\ z = SetKeepAlive(y, 0) /\ w = SetServerAlive(z, C!None)
  BY DEF C!None, C!None, SetKeepAlive, SetServerAlive
<1> HIDE DEF x, y, z, w
<1>3. y = St(LinkRec(s, t, v), e)
  BY <1>2, LinkOfSelf
<1> DEFINE l == LinkRec(s, t, v)
<1>31. y = St(l, e)
  BY <1>3
<1> HIDE DEF l
<1>4. z = y
  BY <1>2, <1>31, PingOfSelf
<1>5. w = z
  BY <1>2, <1>31, <1>4, PingOfSelf
<1>6. C!initialize_self(x, t) = St(LinkRec(s, t, v), e)
  BY <1>1, <1>3, <1>4, <1>5
<1> QED BY <1>6 DEF x
\* The status field of self.
LEMMA ServerStatus ==
  ASSUME NEW s, NEW i, NEW v, NEW e, NEW t
  PROVE  S!Status(St(LinkRec(s, i, v), e), t) = St(LinkRec(t, i, v), e)
<1> DEFINE x == St(LinkRec(s, i, v), e)
           y == S!Status(x, t)
<1>1. y = [x EXCEPT !.link.status = t] /\ x = St(LinkRec(s, i, v), e)
  BY DEF S!Status
<1> HIDE DEF x, y
<1>2. y = St(LinkRec(t, i, v), e)
  BY <1>1, LinkOfSelf
<1> QED BY <1>2 DEF x, y

\* initialize() of a plain connection.
LEMMA ServerInitialize ==
  ASSUME NEW s, NEW i, NEW v, NEW e, NEW t
  PROVE  S!initialize_self(St(LinkRec(s, i, v), e), t) = St(LinkRec(s, t, v), e)
<1> DEFINE x == St(LinkRec(s, i, v), e)
           y == [x EXCEPT !.link.is_client = t]
           z == [y EXCEPT !.ping.pingreq_keep_alive_ms = 0]
           w == [z EXCEPT !.ping.pingreq_server_keep_alive_ms = S!None]
<1>1. S!initialize_self(x, t) = w
  BY DEF S!initialize_self
<1>2. /\ x = St(LinkRec(s, i, v), e) /\ y = [x EXCEPT !.link.is_client = t]
      /\ z = SetKeepAlive(y, 0) /\ w = SetServerAlive(z, C!None)
  BY DEF S!None, C!None, SetKeepAlive, SetServerAlive
<1> HIDE DEF x, y, z, w
<1>3. y = St(LinkRec(s, t, v), e)
  BY <1>2, LinkOfSelf
<1> DEFINE l == LinkRec(s, t, v)
<1>31. y = St(l, e)
  BY <1>3
<1> HIDE DEF l
<1>4. z = y
  BY <1>2, <1>31, PingOfSelf
<1>5. w = z
  BY <1>2, <1>31, <1>4, PingOfSelf
<1>6. S!initialize_self(x, t) = St(LinkRec(s, t, v), e)
  BY <1>1, <1>3, <1>4, <1>5
<1> QED BY <1>6 DEF x

\* The client sends CONNECT.
LEMMA ClientConnects ==
  ASSUME Plain("client"), status("client") = "Disconnected", ids("client") \in IdsType,
         send("client", Connect)
  PROVE  /\ Kept("client") /\ status("client")' = "Connecting" /\ ids("client")' = ids("client")
         /\ events("client")' = <<SendEv(Connect)>>
<1>1. PICK i \in BOOLEAN : c_link = LinkRec("Disconnected", i, Version)
  <2>1. PICK i \in BOOLEAN, v \in {Version, "Undetermined"} :
           /\ link("client") = LinkRec(status("client"), i, v) /\ v = Version
    BY LinkOf
  <2> QED BY <2>1 DEF link
<1>2. c_link.status = "Disconnected" /\ c_link.protocol_version = Version
  BY <1>1 DEF LinkRec
<1>3. C!V5 <=> Version = "V5"
  BY <1>2 DEF C!V5
<1>4. C!may_send(Connect)
  <2>1. Version # "Undetermined" /\ Connect.type = "connect" /\ Connect.version = Version
    BY LinkAssumption, ConnectFields
  <2> QED BY <1>2, <2>1 DEF C!may_send, C!wrong_version
<1>5. C!process_send_connect(Connect)
  <2>1. C!send(Connect)
    BY DEF send
  <2> QED BY <1>4, <2>1, ConnectFields, ClientSend
<1>6. ~C!TooLarge(Connect.size)
  BY ConnectFields, ClientHelpers
<1>7. (IF C!V5 THEN C!Prop(Connect.expiry, 0) # 0 ELSE ~Connect.clean) = TRUE
  <2>1. CASE C!V5
    <3>1. C!Prop(Connect.expiry, 0) = 1
      BY <1>3, <2>1, ConnectFields, NoProps
    <3> QED BY <2>1, <3>1
  <2>2. CASE ~C!V5
    BY <2>2, ConnectFields
  <2> QED BY <2>1, <2>2
<1> DEFINE started == C!Status(C!initialize_self(C!self, TRUE), "Connecting")
<1>8. /\ c_ids' = C!initialize_ids(c_ids)
      /\ c_sess' = [c_sess EXCEPT !.need_store = TRUE, !.store = @]
      /\ c_flow' = [C!initialize_flow EXCEPT !.recv_max = C!None]
      /\ c_lim' = [c_lim EXCEPT !.recv = @]
      /\ c_alias' = [send |-> C!NoTopicAliasSend, recv |-> C!NoTopicAliasRecv]
      /\ C!Out(C!send_post_process(C!RequestSend(
                 [started EXCEPT !.ping.pingreq_keep_alive_ms = 0], Connect, 0)))
      /\ c_opts' = c_opts
  <2> DEFINE n == IF C!V5 THEN C!Prop(Connect.expiry, 0) # 0 ELSE ~Connect.clean
  <2>1. /\ c_ids' = IF Connect.clean THEN C!clear_ids(C!initialize_ids(c_ids)) ELSE C!initialize_ids(c_ids)
        /\ c_sess' = [c_sess EXCEPT !.need_store = n, !.store = IF Connect.clean THEN <<>> ELSE @]
        /\ c_flow' = [C!initialize_flow EXCEPT !.recv_max = Connect.recv_max]
        /\ c_lim' = [c_lim EXCEPT !.recv = C!Prop(Connect.max_size, @)]
        /\ c_alias' = [send |-> C!NoTopicAliasSend, recv |-> C!TopicAliasRecv(C!Prop(Connect.ta_max, 0))]
        /\ C!Out(C!send_post_process(C!RequestSend(
                   [started EXCEPT !.ping.pingreq_keep_alive_ms = Connect.keep_alive], Connect, 0)))
        /\ c_opts' = c_opts
    BY <1>2, <1>5, <1>6 DEF C!process_send_connect
  <2>2. n = TRUE
    BY <1>7
  <2> HIDE DEF n, started
  <2> QED BY <2>1, <2>2, ConnectFields, NoProps
<1>9. c_lim' = NoLimits /\ c_alias' = NoAlias /\ c_flow' = NoFlow({}) /\ c_ids' = c_ids
  <2>1. c_lim = NoLimits /\ c_ids \in IdsType
    BY DEF Plain, lim, ids
  <2>2. c_lim' = [c_lim EXCEPT !.recv = c_lim.recv]
    BY <1>8
  <2>3. c_lim' = NoLimits
    BY <2>1, <2>2, LimitRecord
  <2>4. c_flow' = NoFlow({})
    BY <1>8 DEF C!initialize_flow, NoFlow, C!None
  <2> QED BY <1>8, <2>1, <2>3, <2>4, SameIds DEF NoAlias
<1>10. c_sess' = Session(store("client"), handled("client"))
  <2>1. PICK n \in BOOLEAN : sess("client") = [need_store |-> n, store |-> store("client"),
                                               qos2_publish_handled |-> handled("client")]
    BY DEF Plain
  <2> DEFINE s == store("client")
             h == handled("client")
  <2>2. c_sess = [need_store |-> n, store |-> s, qos2_publish_handled |-> h] /\ c_sess.store = s
    BY <2>1 DEF sess, store
  <2>3. c_sess' = [c_sess EXCEPT !.need_store = TRUE, !.store = s]
    BY <1>8, <2>2
  <2> HIDE DEF s, h
  <2>4. c_sess' = Session(s, h)
    BY <2>2, <2>3 DEF Session
  <2> QED BY <2>4 DEF s, h
<1> DEFINE l == LinkRec("Connecting", TRUE, Version)
<1>11. [started EXCEPT !.ping.pingreq_keep_alive_ms = 0] = St(l, <<>>)
  <2> DEFINE yes == TRUE
  <2>1. C!self = St(LinkRec("Disconnected", i, Version), <<>>)
    BY <1>1, ClientHelpers
  <2>2. /\ started = C!Status(C!initialize_self(C!self, yes), "Connecting")
        /\ l = LinkRec("Connecting", yes, Version)
    OBVIOUS
  <2> HIDE DEF yes, started, l
  <2>3. C!initialize_self(St(LinkRec("Disconnected", i, Version), <<>>), yes)
          = St(LinkRec("Disconnected", yes, Version), <<>>)
    BY ClientInitialize
  <2>4. C!Status(St(LinkRec("Disconnected", yes, Version), <<>>), "Connecting")
          = St(LinkRec("Connecting", yes, Version), <<>>)
    BY ClientStatus
  <2>5. started = St(l, <<>>)
    BY <2>1, <2>2, <2>3, <2>4, Zenon
  <2>6. SetKeepAlive(started, 0) = St(l, <<>>)
    BY <2>5, PingOfSelf
  <2> QED BY <2>6 DEF SetKeepAlive
<1>12. C!Out(St(l, <<SendEv(Connect)>>))
  <2> HIDE DEF started, l
  <2>1. C!RequestSend(St(l, <<>>), Connect, 0) = St(l, Append(<<>>, SendEv(Connect)))
    BY ClientRequestSend
  <2>2. Append(<<>>, SendEv(Connect)) = <<SendEv(Connect)>>
    BY Appends
  <2>3. C!send_post_process(St(l, <<SendEv(Connect)>>)) = St(l, <<SendEv(Connect)>>)
    BY ClientHelpers
  <2> QED BY <1>8, <1>11, <2>1, <2>2, <2>3, Zenon
<1>13. c_link' = l /\ c_ping' = NoPing /\ c_events' = <<SendEv(Connect)>>
  BY <1>12, ClientOut
<1>14. "Connecting" \in C!Statuses /\ "client" \in Sides /\ TRUE \in BOOLEAN
  BY DEF C!Statuses, Sides
<1>15. Kept("client") /\ status("client")' = "Connecting"
  <2>1. /\ alias("client")' = NoAlias /\ lim("client")' = NoLimits /\ ping("client")' = NoPing
        /\ flow("client")' = NoFlow({}) /\ opts("client")' = opts("client")
        /\ link("client")' = LinkRec("Connecting", TRUE, Version)
        /\ sess("client")' = Session(store("client"), handled("client"))
    BY <1>8, <1>9, <1>10, <1>13 DEF alias, lim, ping, flow, opts, link, sess
  <2> QED BY <1>14, <2>1, PlainConnection
<1> QED BY <1>9, <1>13, <1>15 DEF ids, events

\* The server receives CONNECT.
LEMMA ServerConnects ==
  ASSUME Plain("server"), status("server") = "Disconnected", ids("server") \in IdsType,
         recv("server", Connect)
  PROVE  /\ Kept("server") /\ status("server")' = "Connecting" /\ ids("server")' = ids("server")
         /\ events("server")' = <<ReceivedEv(Connect)>>
<1>1. PICK i \in BOOLEAN, v \in {Version, "Undetermined"} :
        s_link = LinkRec("Disconnected", i, v)
  <2>1. PICK i \in BOOLEAN, v \in {Version, "Undetermined"} :
           link("server") = LinkRec(status("server"), i, v)
    BY LinkOf
  <2> QED BY <2>1 DEF link
<1>2. s_link.status = "Disconnected" /\ s_link.protocol_version = v
  BY <1>1 DEF LinkRec
<1>3. Version \in {"V3", "V5"} /\ v \in {"V3", "V5", "Undetermined"}
  BY LinkAssumption
<1>4. S!accepts(Connect) /\ ~S!recv_refused(Connect)
  <2>1. Connect.size <= s_lim.recv
    BY ConnectFields, ServerHelpers
  <2>2. ~(Connect.size > s_lim.recv)
    <3>1. s_lim.recv = 9 /\ Connect.size = 1
      BY ConnectFields DEF Plain, lim, NoLimits, C!NoLimit, C!AckSize
    <3> QED BY <3>1
  <2>3. S!can_receive(Connect.type)
    BY ConnectFields DEF S!can_receive
  <2>4. S!handled_type(Connect.type)
    BY <1>2, <1>3, ConnectFields DEF S!handled_type
  <2> QED BY <2>1, <2>2, <2>3, <2>4 DEF S!accepts, S!recv_refused
<1>5. S!process_recv_connect(Connect)
  <2>1. S!recv(Connect)
    BY DEF recv
  <2> QED BY <1>4, <2>1, ConnectFields, ServerRecv
<1>7. (IF Connect.version = "V5" THEN S!Prop(Connect.expiry, 0) # 0 ELSE ~Connect.clean) = TRUE
  <2>1. CASE Version = "V5"
    <3>1. S!Prop(Connect.expiry, 0) = 1
      BY <2>1, ConnectFields, NoProps
    <3> QED BY <2>1, <3>1, ConnectFields
  <2>2. CASE Version # "V5"
    BY <2>2, ConnectFields
  <2> QED BY <2>1, <2>2
<1> DEFINE decided == IF s_link.protocol_version = "Undetermined"
                      THEN [S!self EXCEPT !.link.protocol_version = Version] ELSE S!self
           started == S!initialize_self(S!Status(decided, "Connecting"), FALSE)
<1>8. /\ s_ids' = S!initialize_ids(s_ids)
      /\ s_sess' = [s_sess EXCEPT !.need_store = TRUE, !.store = @]
      /\ s_flow' = [S!initialize_flow EXCEPT !.send_max = C!None]
      /\ s_lim' = [s_lim EXCEPT !.send = @]
      /\ s_alias' = [send |-> C!NoTopicAliasSend, recv |-> C!NoTopicAliasRecv]
      /\ S!Out(S!NotifyReceived(S!refresh_pingreq_recv(started), Connect))
      /\ s_opts' = s_opts
  <2> DEFINE n == IF Connect.version = "V5" THEN S!Prop(Connect.expiry, 0) # 0 ELSE ~Connect.clean
             dec == IF s_link.protocol_version = "Undetermined"
                    THEN [S!self EXCEPT !.link.protocol_version = Connect.version] ELSE S!self
             start == S!initialize_self(S!Status(dec, "Connecting"), FALSE)
  <2>1. Connect.version \in {"V3", "V5"} /\ ~(Connect.version = "V5" /\ Connect.ta_max = 0)
    BY <1>3, ConnectFields, NoProps
  <2>2. /\ s_ids' = IF Connect.clean THEN S!clear_ids(S!initialize_ids(s_ids)) ELSE S!initialize_ids(s_ids)
        /\ s_sess' = [s_sess EXCEPT !.need_store = n, !.store = IF Connect.clean THEN <<>> ELSE @]
        /\ s_flow' = [S!initialize_flow EXCEPT !.send_max = Connect.recv_max]
        /\ s_lim' = [s_lim EXCEPT !.send = S!Prop(Connect.max_size, @)]
        /\ s_alias' = [send |-> S!TopicAliasSend(S!Prop(Connect.ta_max, 0)), recv |-> S!NoTopicAliasRecv]
        /\ S!Out(S!NotifyReceived(S!refresh_pingreq_recv(
                   IF Connect.keep_alive = 0 THEN start
                   ELSE [start EXCEPT !.ping.pingreq_recv_timeout_ms = Connect.keep_alive]), Connect))
        /\ s_opts' = s_opts
    BY <1>2, <1>5, <2>1 DEF S!process_recv_connect
  <2>3. n = TRUE
    BY <1>7
  <2>4. start = started
    BY ConnectFields
  <2> HIDE DEF n, started, start
  <2> QED BY <2>2, <2>3, <2>4, ConnectFields, NoProps
<1>9. s_lim' = NoLimits /\ s_alias' = NoAlias /\ s_flow' = NoFlow({}) /\ s_ids' = s_ids
  <2>1. s_lim = NoLimits /\ s_ids \in IdsType
    BY DEF Plain, lim, ids
  <2>2. s_lim' = [s_lim EXCEPT !.send = s_lim.send]
    BY <1>8
  <2>3. s_lim' = NoLimits
    BY <2>1, <2>2, LimitRecord
  <2>4. s_flow' = NoFlow({})
    BY <1>8 DEF S!initialize_flow, NoFlow, C!None, S!None
  <2> QED BY <1>8, <2>1, <2>3, <2>4, SameIds DEF NoAlias
<1>10. s_sess' = Session(store("server"), handled("server"))
  <2>1. PICK n \in BOOLEAN : sess("server") = [need_store |-> n, store |-> store("server"),
                                               qos2_publish_handled |-> handled("server")]
    BY DEF Plain
  <2> DEFINE s == store("server")
             h == handled("server")
  <2>2. s_sess = [need_store |-> n, store |-> s, qos2_publish_handled |-> h] /\ s_sess.store = s
    BY <2>1 DEF sess, store
  <2>3. s_sess' = [s_sess EXCEPT !.need_store = TRUE, !.store = s]
    BY <1>8, <2>2
  <2> HIDE DEF s, h
  <2>4. s_sess' = Session(s, h)
    BY <2>2, <2>3 DEF Session
  <2> QED BY <2>4 DEF s, h
<1> DEFINE l == LinkRec("Connecting", FALSE, Version)
<1>11. started = St(l, <<>>)
  <2> DEFINE no == FALSE
  <2>1. S!self = St(LinkRec("Disconnected", i, v), <<>>)
    BY <1>1, ServerHelpers
  <2>2. decided = St(LinkRec("Disconnected", i, Version), <<>>)
    <3> DEFINE x == S!self
               y == [x EXCEPT !.link.protocol_version = Version]
    <3>1. x = St(LinkRec("Disconnected", i, v), <<>>) /\ y = SetVersion(x, Version)
      BY <2>1 DEF SetVersion
    <3>2. decided = IF v = "Undetermined" THEN y ELSE x
      BY <1>2
    <3> HIDE DEF x, y, decided
    <3>3. y = St(LinkRec("Disconnected", i, Version), <<>>)
      BY <3>1, VersionOfSelf
    <3>4. v # "Undetermined" => v = Version
      BY <1>1
    <3> QED BY <3>1, <3>2, <3>3, <3>4
  <2>3. /\ started = S!initialize_self(S!Status(decided, "Connecting"), no)
        /\ l = LinkRec("Connecting", no, Version)
    OBVIOUS
  <2> HIDE DEF no, started, l, decided
  <2>4. S!Status(St(LinkRec("Disconnected", i, Version), <<>>), "Connecting")
          = St(LinkRec("Connecting", i, Version), <<>>)
    BY ServerStatus
  <2>5. S!initialize_self(St(LinkRec("Connecting", i, Version), <<>>), no)
          = St(LinkRec("Connecting", no, Version), <<>>)
    BY ServerInitialize
  <2> QED BY <2>2, <2>3, <2>4, <2>5, Zenon
<1>12. S!Out(St(l, <<ReceivedEv(Connect)>>))
  <2> HIDE DEF started, l
  <2>1. S!NotifyReceived(St(l, <<>>), Connect) = St(l, Append(<<>>, ReceivedEv(Connect)))
    BY ServerNotifyReceived
  <2>2. Append(<<>>, ReceivedEv(Connect)) = <<ReceivedEv(Connect)>>
    BY Appends
  <2>3. S!refresh_pingreq_recv(St(l, <<>>)) = St(l, <<>>)
    BY ServerHelpers
  <2> QED BY <1>8, <1>11, <2>1, <2>2, <2>3, Zenon
<1>13. s_link' = l /\ s_ping' = NoPing /\ s_events' = <<ReceivedEv(Connect)>>
  BY <1>12, ServerOut
<1>14. "Connecting" \in C!Statuses /\ "server" \in Sides /\ FALSE \in BOOLEAN
  BY DEF C!Statuses, Sides
<1>15. Kept("server") /\ status("server")' = "Connecting"
  <2>1. /\ alias("server")' = NoAlias /\ lim("server")' = NoLimits /\ ping("server")' = NoPing
        /\ flow("server")' = NoFlow({}) /\ opts("server")' = opts("server")
        /\ link("server")' = LinkRec("Connecting", FALSE, Version)
        /\ sess("server")' = Session(store("server"), handled("server"))
    BY <1>8, <1>9, <1>10, <1>13 DEF alias, lim, ping, flow, opts, link, sess
  <2> QED BY <1>14, <2>1, PlainConnection
<1> QED BY <1>9, <1>13, <1>15 DEF ids, events

\* The answer to CONNECT goes before the stored packets.
LEMMA SendAllCons ==
  ASSUME NEW s, List(s), NEW e
  PROVE  /\ <<SendEv(e)>> \o SendAll(s) = SendAll(<<e>> \o s)
         /\ <<>> \o SendAll(s) = SendAll(s)
<1> DEFINE S1 == {SendEv(s[k]) : k \in DOMAIN s} \cup {SendEv(e)}
           n == Len(s)
           a == SendAll(s)
           x == <<SendEv(e)>>
           w == <<e>> \o s
           j == x \o a
<1>1. n \in Nat /\ DOMAIN s = 1..n
  BY ListFacts
<1>2. a \in Seq(S1) /\ Len(a) = n /\ \A k \in 1..n : a[k] = SendEv(s[k])
  <2>1. a = [k \in 1..n |-> SendEv(s[k])]
    BY <1>1 DEF SendAll
  <2>2. \A k \in 1..n : SendEv(s[k]) \in S1
    BY <1>1
  <2> HIDE DEF S1, n, a
  <2> QED BY <1>1, <2>1, <2>2
<1>3. x \in Seq(S1) /\ Len(x) = 1 /\ x[1] = SendEv(e)
  <2>1. SendEv(e) \in S1
    OBVIOUS
  <2> HIDE DEF S1
  <2> QED BY <2>1
<1>4. DOMAIN w = 1..(n + 1) /\ w[1] = e /\ \A k \in 1..n : w[k + 1] = s[k]
  <2>1. List(w) /\ Len(w) = n + 1 /\ w[1] = e /\ \A k \in 1..n : w[k + 1] = s[k]
    BY ConsList
  <2>2. DOMAIN w = 1..Len(w)
    BY <2>1, ListFacts
  <2> QED BY <2>1, <2>2
<1> HIDE DEF S1, a, x, w, n
<1>5. j \in Seq(S1) /\ Len(j) = n + 1 /\ j[1] = SendEv(e) /\ \A k \in 2..(n + 1) : j[k] = SendEv(s[k - 1])
  <2>1. /\ j \in Seq(S1) /\ Len(j) = 1 + n
        /\ \A k \in 1..(1 + n) : j[k] = IF k <= 1 THEN x[k] ELSE a[k - 1]
    <3>1. /\ x \o a \in Seq(S1) /\ Len(x \o a) = Len(x) + Len(a)
          /\ \A k \in 1..(Len(x) + Len(a)) : (x \o a)[k] = IF k <= Len(x) THEN x[k] ELSE a[k - Len(x)]
      BY <1>2, <1>3, ConcatProperties
    <3> QED BY <1>2, <1>3, <3>1
  <2> HIDE DEF j
  <2>2. j[1] = x[1]
    BY <1>1, <2>1
  <2>3. ASSUME NEW k \in 2..(n + 1) PROVE j[k] = SendEv(s[k - 1])
    <3>1. k - 1 \in 1..n /\ k \in 1..(1 + n) /\ ~(k <= 1)
      BY <1>1
    <3> QED BY <1>2, <2>1, <3>1
  <2> QED BY <1>1, <1>3, <2>1, <2>2, <2>3
<1> HIDE DEF j
<1>6. j = [k \in 1..(n + 1) |-> SendEv(w[k])]
  <2>1. ASSUME NEW k \in 1..(n + 1) PROVE j[k] = SendEv(w[k])
    <3>1. CASE k = 1
      BY <1>4, <1>5, <3>1
    <3>2. CASE k # 1
      <4>1. k \in 2..(n + 1) /\ k - 1 \in 1..n /\ (k - 1) + 1 = k
        BY <1>1, <3>2
      <4>2. w[(k - 1) + 1] = s[k - 1]
        BY <1>4, <4>1
      <4> QED BY <1>5, <4>1, <4>2
    <3> QED BY <3>1, <3>2
  <2>2. DOMAIN j = 1..(n + 1) /\ j = [k \in 1..(n + 1) |-> j[k]]
    BY <1>1, <1>5
  <2> QED BY <2>1, <2>2
<1>7. SendAll(w) = [k \in 1..(n + 1) |-> SendEv(w[k])]
  BY <1>4 DEF SendAll
<1>8. j = SendAll(w)
  BY <1>6, <1>7
<1>9. <<>> \o a = a
  BY <1>2
<1> QED BY <1>8, <1>9 DEF j, x, a, w

\* Nothing stored is too large for a peer without a limit.
LEMMA ClientStored ==
  ASSUME \A q \in C!ToSet(c_sess.store) : q.size = C!AckSize
  PROVE  /\ C!kept_store(C!NoLimit) = c_sess.store /\ C!dropped_ids(C!NoLimit) = {}
         /\ \A l, e : C!send_stored(St(l, e), C!NoLimit) = St(l, e \o SendAll(c_sess.store))
<1>1. C!oversize(C!NoLimit) = {}
  <2>1. ASSUME NEW k \in DOMAIN c_sess.store PROVE ~(c_sess.store[k].size > C!NoLimit)
    <3>1. c_sess.store[k].size = 1
      BY DEF C!AckSize, C!ToSet
    <3>2. ~(1 > 9)
      OBVIOUS
    <3> QED BY <3>1, <3>2 DEF C!NoLimit
  <2> QED BY <2>1 DEF C!oversize
<1>2. C!kept_store(C!NoLimit) = c_sess.store
  BY <1>1 DEF C!kept_store
<1>3. C!dropped_ids(C!NoLimit) = {}
  BY <1>1 DEF C!dropped_ids
<1>4. ASSUME NEW l, NEW e
      PROVE  C!send_stored(St(l, e), C!NoLimit) = St(l, e \o SendAll(c_sess.store))
  <2> DEFINE x == St(l, e)
             a == SendAll(c_sess.store)
             b == [k \in DOMAIN c_sess.store |->
                     IF k \in C!oversize(C!NoLimit) THEN C!ReleasedEvent({c_sess.store[k].pid})
                     ELSE C!SendEvent(c_sess.store[k], 0)]
             g == NoPing
  <2>1. b = a
    BY <1>1 DEF SendAll, SendEv, C!SendEvent
  <2>2. C!send_stored(x, C!NoLimit) = [x EXCEPT !.ev = @ \o b]
    BY DEF C!send_stored
  <2>3. x = [link |-> l, ping |-> g, ev |-> e] /\ St(l, e \o a) = [link |-> l, ping |-> g, ev |-> e \o a]
    BY DEF St
  <2> HIDE DEF x, a, b, g
  <2>4. C!send_stored(x, C!NoLimit) = [x EXCEPT !.ev = e \o a]
    BY <2>1, <2>2, <2>3
  <2> DEFINE c == e \o a
  <2> HIDE DEF c
  <2>5. [x EXCEPT !.ev = c] = [link |-> l, ping |-> g, ev |-> c]
    BY <2>3
  <2>6. C!send_stored(x, C!NoLimit) = St(l, e \o a)
    BY <2>3, <2>4, <2>5 DEF c
  <2> QED BY <2>6 DEF x, a
<1> QED BY <1>2, <1>3, <1>4
\* Nothing stored is too large for a peer without a limit.
LEMMA ServerStored ==
  ASSUME \A q \in C!ToSet(s_sess.store) : q.size = C!AckSize
  PROVE  /\ S!kept_store(C!NoLimit) = s_sess.store /\ S!dropped_ids(C!NoLimit) = {}
         /\ \A l, e : S!send_stored(St(l, e), C!NoLimit) = St(l, e \o SendAll(s_sess.store))
<1>1. S!oversize(C!NoLimit) = {}
  <2>1. ASSUME NEW k \in DOMAIN s_sess.store PROVE ~(s_sess.store[k].size > C!NoLimit)
    <3>1. s_sess.store[k].size = 1
      BY DEF C!AckSize, C!ToSet
    <3>2. ~(1 > 9)
      OBVIOUS
    <3> QED BY <3>1, <3>2 DEF C!NoLimit
  <2> QED BY <2>1 DEF S!oversize
<1>2. S!kept_store(C!NoLimit) = s_sess.store
  BY <1>1 DEF S!kept_store
<1>3. S!dropped_ids(C!NoLimit) = {}
  BY <1>1 DEF S!dropped_ids
<1>4. ASSUME NEW l, NEW e
      PROVE  S!send_stored(St(l, e), C!NoLimit) = St(l, e \o SendAll(s_sess.store))
  <2> DEFINE x == St(l, e)
             a == SendAll(s_sess.store)
             b == [k \in DOMAIN s_sess.store |->
                     IF k \in S!oversize(C!NoLimit) THEN S!ReleasedEvent({s_sess.store[k].pid})
                     ELSE S!SendEvent(s_sess.store[k], 0)]
             g == NoPing
  <2>1. b = a
    BY <1>1 DEF SendAll, SendEv, S!SendEvent
  <2>2. S!send_stored(x, C!NoLimit) = [x EXCEPT !.ev = @ \o b]
    BY DEF S!send_stored
  <2>3. x = [link |-> l, ping |-> g, ev |-> e] /\ St(l, e \o a) = [link |-> l, ping |-> g, ev |-> e \o a]
    BY DEF St
  <2> HIDE DEF x, a, b, g
  <2>4. S!send_stored(x, C!NoLimit) = [x EXCEPT !.ev = e \o a]
    BY <2>1, <2>2, <2>3
  <2> DEFINE c == e \o a
  <2> HIDE DEF c
  <2>5. [x EXCEPT !.ev = c] = [link |-> l, ping |-> g, ev |-> c]
    BY <2>3
  <2>6. S!send_stored(x, C!NoLimit) = St(l, e \o a)
    BY <2>3, <2>4, <2>5 DEF c
  <2> QED BY <2>6 DEF x, a
<1> QED BY <1>2, <1>3, <1>4

\* Flow control that is not set.
LEMMA FlowRecord ==
  ASSUME NEW pids, NEW x, x = NoFlow(pids), NEW y
  PROVE  /\ y = [x EXCEPT !.recv_max = x.recv_max] => y = x
         /\ y = [x EXCEPT !.send_max = x.send_max] => y = x
<1> DEFINE none == C!None
<1>1. x = [send_max |-> none, send_count |-> 0, recv_max |-> none, recv |-> pids]
  BY DEF NoFlow
<1> HIDE DEF none
<1>2. ASSUME y = [x EXCEPT !.recv_max = x.recv_max] PROVE y = x
  BY <1>1, <1>2
<1>3. ASSUME y = [x EXCEPT !.send_max = x.send_max] PROVE y = x
  BY <1>1, <1>3
<1> QED BY <1>2, <1>3

\* The server sends CONNACK, and its store when the session is present.
LEMMA ServerAnswers ==
  ASSUME Plain("server"), status("server") = "Connecting", ids("server") \in IdsType,
         List(store("server")), \A q \in Stored("server") : q.size = C!AckSize,
         NEW sp \in BOOLEAN, send("server", Connack(sp))
  PROVE  /\ Kept("server") /\ status("server")' = "Connected" /\ ids("server")' = ids("server")
         /\ events("server")' = SendAll(<<Connack(sp)>> \o store("server"))
<1> DEFINE p == Connack(sp)
<1>0. /\ p.type = "connack" /\ p.ok = TRUE
      /\ p.ta_max = C!None /\ p.recv_max = C!None /\ p.max_size = C!None
      /\ p.server_keep_alive = C!None /\ p.size = C!AckSize
  BY ConnackFields
<1>00. S!send(p)
  BY DEF send
<1> HIDE DEF p
<1>1. PICK i \in BOOLEAN : s_link = LinkRec("Connecting", i, Version)
  <2>1. PICK i \in BOOLEAN, v \in {Version, "Undetermined"} :
           link("server") = LinkRec(status("server"), i, v) /\ v = Version
    BY LinkOf
  <2> QED BY <2>1 DEF link
<1>2. s_link.status = "Connecting" /\ s_link.protocol_version = Version
  BY <1>1 DEF LinkRec
<1>3. S!process_send_connack(p)
  <2>1. S!may_send(p)
    <3>1. Version # "Undetermined"
      BY LinkAssumption
    <3> QED BY <1>0, <1>2, <3>1 DEF S!may_send, S!wrong_version
  <2> QED BY <1>0, <1>00, <2>1, ServerSend
<1>4. ~S!TooLarge(p.size)
  BY <1>0, ServerHelpers
<1>5. s_lim = NoLimits /\ s_lim.send = C!NoLimit /\ s_ping = NoPing /\ s_ping.pingreq_recv_timeout_ms = 0
  BY DEF Plain, lim, ping, NoLimits, NoPing
<1>6. /\ S!kept_store(C!NoLimit) = s_sess.store /\ S!dropped_ids(C!NoLimit) = {}
      /\ \A l, e : S!send_stored(St(l, e), C!NoLimit) = St(l, e \o SendAll(s_sess.store))
  <2>1. \A q \in C!ToSet(s_sess.store) : q.size = C!AckSize
    BY DEF Stored, store, sess
  <2> QED BY <2>1, ServerStored
<1> DEFINE timed == [S!self EXCEPT !.ping.pingreq_recv_timeout_ms = 0]
<1>7. /\ s_alias' = s_alias
      /\ s_flow' = [s_flow EXCEPT !.recv_max = @] /\ s_lim' = [s_lim EXCEPT !.recv = @]
      /\ s_ids' = [s_ids EXCEPT !.man = @ \ S!dropped_ids(C!NoLimit)]
      /\ s_sess' = [s_sess EXCEPT !.store = S!kept_store(C!NoLimit)]
      /\ S!OutUnless(S!release_overflows(C!NoLimit),
           S!send_post_process(S!send_stored(
             S!Status(S!RequestSend(timed, p, 0), "Connected"), C!NoLimit)))
      /\ s_opts' = s_opts
  <2> DEFINE timeout == IF p.server_keep_alive = S!None THEN s_ping.pingreq_recv_timeout_ms ELSE p.server_keep_alive
             tm == [S!self EXCEPT !.ping.pingreq_recv_timeout_ms = timeout]
             armed == IF p.server_keep_alive = S!None THEN tm
                      ELSE IF p.server_keep_alive = 0 THEN S!cancel(tm, "PingreqRecv")
                      ELSE S!reset(tm, "PingreqRecv", timeout)
  <2>1. /\ s_alias' = IF S!Prop(p.ta_max, 0) = 0 THEN s_alias
                      ELSE [s_alias EXCEPT !.recv = S!TopicAliasRecv(p.ta_max)]
        /\ s_flow' = [s_flow EXCEPT !.recv_max = S!Prop(p.recv_max, @)]
        /\ s_lim' = [s_lim EXCEPT !.recv = S!Prop(p.max_size, @)]
        /\ s_ids' = [s_ids EXCEPT !.man = @ \ S!dropped_ids(s_lim.send)]
        /\ s_sess' = [s_sess EXCEPT !.store = S!kept_store(s_lim.send)]
        /\ S!OutUnless(S!release_overflows(s_lim.send),
             S!send_post_process(S!send_stored(
               S!Status(S!RequestSend(armed, p, 0), "Connected"), s_lim.send)))
        /\ s_opts' = s_opts
    BY <1>0, <1>2, <1>3, <1>4 DEF S!process_send_connack
  <2>2. timeout = 0 /\ p.server_keep_alive = S!None
    BY <1>0, <1>5, NoProps
  <2>3. armed = timed
    BY <2>2
  <2> HIDE DEF armed, timed
  <2> QED BY <1>0, <1>5, <2>1, <2>3, NoProps
<1>8. s_lim' = NoLimits /\ s_flow' = s_flow /\ s_ids' = s_ids
  <2>1. s_lim' = [s_lim EXCEPT !.recv = s_lim.recv] /\ s_flow' = [s_flow EXCEPT !.recv_max = s_flow.recv_max]
    BY <1>7
  <2>2. s_lim' = NoLimits
    BY <1>5, <2>1, LimitRecord
  <2>3. s_flow = NoFlow(s_flow.recv)
    BY DEF Plain, flow
  <2>4. s_flow' = s_flow
    BY <2>1, <2>3, FlowRecord
  <2>5. s_ids \in IdsType
    BY DEF ids
  <2>6. s_ids' = s_ids
    BY <1>6, <1>7, <2>5, SameIds
  <2> QED BY <2>2, <2>4, <2>6
<1>9. s_sess' = Session(store("server"), handled("server"))
  <2> DEFINE st == s_sess.store
             hd == s_sess.qos2_publish_handled
  <2>1. s_sess = Session(st, hd)
    BY <1>2, ServerSession
  <2>2. s_sess' = [s_sess EXCEPT !.store = st]
    BY <1>6, <1>7
  <2> HIDE DEF st, hd
  <2>3. s_sess' = Session(st, hd)
    BY <2>1, <2>2 DEF Session
  <2> QED BY <2>3 DEF st, hd, store, handled, sess
<1> DEFINE l == LinkRec("Connected", i, Version)
           evs == SendAll(<<p>> \o s_sess.store)
<1>10. S!send_post_process(S!send_stored(S!Status(S!RequestSend(timed, p, 0), "Connected"), C!NoLimit)) = St(l, evs)
  <2> DEFINE l0 == LinkRec("Connecting", i, Version)
  <2>1. timed = St(l0, <<>>)
    <3>1. S!self = St(l0, <<>>)
      BY <1>1, ServerHelpers
    <3>2. timed = SetTimeout(S!self, 0)
      BY DEF SetTimeout
    <3> HIDE DEF l0, timed
    <3> QED BY <3>1, <3>2, PingOfSelf
  <2>2. S!RequestSend(St(l0, <<>>), p, 0) = St(l0, <<SendEv(p)>>)
    <3> HIDE DEF l0
    <3>1. S!RequestSend(St(l0, <<>>), p, 0) = St(l0, Append(<<>>, SendEv(p)))
      BY ServerRequestSend
    <3>2. Append(<<>>, SendEv(p)) = <<SendEv(p)>>
      BY Appends
    <3> QED BY <3>1, <3>2, Zenon
  <2>3. S!Status(St(l0, <<SendEv(p)>>), "Connected") = St(l, <<SendEv(p)>>)
    BY ServerStatus
  <2> HIDE DEF l, l0, timed, evs
  <2>4. S!send_stored(St(l, <<SendEv(p)>>), C!NoLimit) = St(l, <<SendEv(p)>> \o SendAll(s_sess.store))
    BY <1>6
  <2>5. <<SendEv(p)>> \o SendAll(s_sess.store) = evs
    <3>1. List(s_sess.store)
      BY DEF store, sess
    <3> QED BY <3>1, SendAllCons DEF evs
  <2>6. S!send_post_process(St(l, evs)) = St(l, evs)
    BY ServerHelpers
  <2> QED BY <2>1, <2>2, <2>3, <2>4, <2>5, <2>6, Zenon
<1>11. s_link' = l /\ s_ping' = NoPing /\ s_events' = evs
  <2> HIDE DEF l, evs, timed
  <2>1. \E b : S!OutUnless(b, St(l, evs))
    <3>1. S!OutUnless(S!release_overflows(C!NoLimit), St(l, evs))
      BY <1>7, <1>10, Zenon
    <3> QED BY <3>1
  <2> QED BY <2>1, ServerOut
<1>12. "Connected" \in C!Statuses /\ "server" \in Sides
  BY DEF C!Statuses, Sides
<1>13. Kept("server") /\ status("server")' = "Connected"
  <2>1. /\ alias("server")' = NoAlias /\ lim("server")' = NoLimits /\ ping("server")' = NoPing
        /\ flow("server")' = NoFlow(s_flow.recv) /\ opts("server")' = opts("server")
        /\ link("server")' = LinkRec("Connected", i, Version)
        /\ sess("server")' = Session(store("server"), handled("server"))
    BY <1>7, <1>8, <1>9, <1>11 DEF alias, lim, ping, flow, opts, link, sess, Plain
  <2> QED BY <1>12, <2>1, PlainConnection
<1> QED BY <1>8, <1>11, <1>13 DEF ids, events, p, store, sess

\* The client receives CONNACK, and sends its store when the session is present.
LEMMA ClientAnswered ==
  ASSUME Plain("client"), status("client") = "Connecting", ids("client") \in IdsType,
         List(store("client")), \A q \in Stored("client") : q.size = C!AckSize,
         NEW sp \in BOOLEAN,
         ~sp => store("client") = <<>> /\ C!clear_ids(ids("client")) = ids("client"),
         recv("client", Connack(sp))
  PROVE  /\ Kept("client") /\ status("client")' = "Connected" /\ ids("client")' = ids("client")
         /\ events("client")' = Append(SendAll(store("client")), ReceivedEv(Connack(sp)))
<1> DEFINE p == Connack(sp)
<1>0. /\ p.type = "connack" /\ p.ok = TRUE /\ p.session_present = sp
      /\ p.ta_max = C!None /\ p.recv_max = C!None /\ p.max_size = C!None
      /\ p.server_keep_alive = C!None /\ p.size = C!AckSize
  BY ConnackFields
<1>00. C!recv(p)
  BY DEF recv
<1> HIDE DEF p
<1>1. PICK i \in BOOLEAN : c_link = LinkRec("Connecting", i, Version)
  <2>1. PICK i \in BOOLEAN, v \in {Version, "Undetermined"} :
           link("client") = LinkRec(status("client"), i, v) /\ v = Version
    BY LinkOf
  <2> QED BY <2>1 DEF link
<1>2. c_link.status = "Connecting" /\ c_link.protocol_version = Version
  BY <1>1 DEF LinkRec
<1>3. C!process_recv_connack(p)
  <2>1. p.size <= c_lim.recv
    BY <1>0, ClientHelpers
  <2>2. ~(p.size > c_lim.recv)
    <3>1. c_lim.recv = 9 /\ p.size = 1
      BY <1>0 DEF Plain, lim, NoLimits, C!NoLimit, C!AckSize
    <3> QED BY <3>1
  <2>3. C!can_receive(p.type)
    BY <1>0 DEF C!can_receive
  <2>4. C!handled_type(p.type)
    <3>1. c_link.protocol_version \in {"V3", "V5"}
      BY <1>2, LinkAssumption
    <3> QED BY <1>0, <3>1 DEF C!handled_type
  <2>5. ~C!recv_refused(p)
    BY <2>1, <2>2, <2>3, <2>4 DEF C!recv_refused
  <2> QED BY <1>0, <1>00, <2>5, ClientRecv
<1>5. c_lim = NoLimits /\ c_lim.send = C!NoLimit /\ c_ping = NoPing
  BY DEF Plain, lim, ping, NoLimits
<1>6. /\ C!kept_store(C!NoLimit) = c_sess.store /\ C!dropped_ids(C!NoLimit) = {}
      /\ \A l, e : C!send_stored(St(l, e), C!NoLimit) = St(l, e \o SendAll(c_sess.store))
  <2>1. \A q \in C!ToSet(c_sess.store) : q.size = C!AckSize
    BY DEF Stored, store, sess
  <2> QED BY <2>1, ClientStored
<1> DEFINE l == LinkRec("Connected", i, Version)
           connected == [C!Status(C!self, "Connected") EXCEPT
                           !.ping.pingreq_server_keep_alive_ms = C!Prop(p.server_keep_alive, @)]
           timed == IF p.server_keep_alive = C!None
                          \/ c_opts.pingreq_user_send_interval_ms # C!None THEN connected
                    ELSE IF p.server_keep_alive = 0 THEN C!cancel(connected, "PingreqSend")
                    ELSE C!reset(connected, "PingreqSend", p.server_keep_alive)
<1>61. timed = St(l, <<>>)
  <2> DEFINE l0 == LinkRec("Connecting", i, Version)
             x == C!Status(C!self, "Connected")
  <2>1. C!self = St(l0, <<>>)
    BY <1>1, ClientHelpers
  <2>2. C!Status(St(l0, <<>>), "Connected") = St(l, <<>>)
    BY ClientStatus
  <2>3. x = St(l, <<>>)
    <3> HIDE DEF l, l0
    <3> QED BY <2>1, <2>2
  <2>4. timed = connected
    BY <1>0
  <2> HIDE DEF x, l
  <2>5. x.ping.pingreq_server_keep_alive_ms = C!None
    BY <2>3 DEF St, NoPing
  <2>6. connected = SetServerAlive(x, C!None)
    <3>1. connected = [x EXCEPT !.ping.pingreq_server_keep_alive_ms = C!Prop(p.server_keep_alive, @)]
      BY DEF x
    <3>2. C!Prop(p.server_keep_alive, x.ping.pingreq_server_keep_alive_ms) = C!None
      BY <1>0, <2>5, NoProps
    <3> HIDE DEF connected
    <3> QED BY <3>1, <3>2 DEF SetServerAlive
  <2> HIDE DEF connected, timed
  <2> QED BY <2>3, <2>4, <2>6, PingOfSelf
<1> HIDE DEF timed, connected
<1>7. /\ c_alias' = c_alias
      /\ c_flow' = [c_flow EXCEPT !.send_max = @] /\ c_lim' = [c_lim EXCEPT !.send = c_lim.send]
      /\ c_opts' = c_opts
      /\ \/ /\ sp
            /\ c_ids' = [c_ids EXCEPT !.man = @ \ C!dropped_ids(C!NoLimit)]
            /\ c_sess' = [c_sess EXCEPT !.store = C!kept_store(C!NoLimit)]
            /\ C!OutUnless(C!release_overflows(C!NoLimit),
                           C!NotifyReceived(C!send_stored(timed, C!NoLimit), p))
         \/ /\ ~sp
            /\ c_ids' = C!clear_ids(c_ids) /\ c_sess' = [c_sess EXCEPT !.store = <<>>]
            /\ C!Out(C!NotifyReceived(timed, p))
  <2> DEFINE max == C!Prop(p.max_size, c_lim.send)
  <2>1. /\ c_alias' = IF C!Prop(p.ta_max, 0) = 0 THEN c_alias
                      ELSE [c_alias EXCEPT !.send = C!TopicAliasSend(p.ta_max)]
        /\ c_flow' = [c_flow EXCEPT !.send_max = C!Prop(p.recv_max, @)]
        /\ c_lim' = [c_lim EXCEPT !.send = max]
        /\ \/ /\ p.session_present
              /\ c_ids'  = [c_ids EXCEPT !.man = @ \ C!dropped_ids(max)]
              /\ c_sess' = [c_sess EXCEPT !.store = C!kept_store(max)]
              /\ C!OutUnless(C!release_overflows(max), C!NotifyReceived(C!send_stored(timed, max), p))
           \/ /\ ~p.session_present
              /\ c_ids'  = C!clear_ids(c_ids)
              /\ c_sess' = [c_sess EXCEPT !.store = <<>>]
              /\ C!Out(C!NotifyReceived(timed, p))
        /\ c_opts' = c_opts
    BY <1>0, <1>3 DEF C!process_recv_connack, timed, connected
  <2>2. max = C!NoLimit /\ max = c_lim.send
    BY <1>0, <1>5, NoProps
  <2> HIDE DEF max
  <2> QED BY <1>0, <2>1, <2>2, NoProps
<1>8. c_lim' = NoLimits /\ c_flow' = c_flow /\ c_ids' = c_ids
  <2>1. c_lim' = [c_lim EXCEPT !.send = c_lim.send] /\ c_flow' = [c_flow EXCEPT !.send_max = c_flow.send_max]
    BY <1>7
  <2>2. c_lim' = NoLimits
    BY <1>5, <2>1, LimitRecord
  <2>3. c_flow = NoFlow(c_flow.recv)
    BY DEF Plain, flow
  <2>4. c_flow' = c_flow
    BY <2>1, <2>3, FlowRecord
  <2>5. c_ids \in IdsType /\ (~sp => C!clear_ids(c_ids) = c_ids)
    BY DEF ids
  <2>6. c_ids' = c_ids
    BY <1>6, <1>7, <2>5, SameIds
  <2> QED BY <2>2, <2>4, <2>6
<1>9. c_sess' = Session(store("client"), handled("client"))
  <2> DEFINE st == c_sess.store
             hd == c_sess.qos2_publish_handled
  <2>1. c_sess = Session(st, hd)
    BY <1>2, ClientSession
  <2>2. c_sess' = [c_sess EXCEPT !.store = st]
    <3>1. ~sp => c_sess.store = <<>>
      BY DEF store, sess
    <3> QED BY <1>6, <1>7, <3>1
  <2> HIDE DEF st, hd
  <2>3. c_sess' = Session(st, hd)
    BY <2>1, <2>2 DEF Session
  <2> QED BY <2>3 DEF st, hd, store, handled, sess
<1> DEFINE evs == Append(SendAll(c_sess.store), ReceivedEv(p))
<1>10. \E b : C!OutUnless(b, St(l, evs))
  <2> HIDE DEF l
  <2>1. C!NotifyReceived(St(l, SendAll(c_sess.store)), p) = St(l, evs)
    BY ClientNotifyReceived
  <2> HIDE DEF evs
  <2>2. CASE sp
    <3>1. C!send_stored(St(l, <<>>), C!NoLimit) = St(l, <<>> \o SendAll(c_sess.store))
      BY <1>6
    <3>2. <<>> \o SendAll(c_sess.store) = SendAll(c_sess.store)
      <4>1. List(c_sess.store)
        BY DEF store, sess
      <4> QED BY <4>1, SendAllCons
    <3>3. C!OutUnless(C!release_overflows(C!NoLimit), C!NotifyReceived(C!send_stored(timed, C!NoLimit), p))
      BY <1>7, <2>2
    <3>4. C!OutUnless(C!release_overflows(C!NoLimit), St(l, evs))
      BY <1>61, <2>1, <3>1, <3>2, <3>3, Zenon
    <3> QED BY <3>4
  <2>3. CASE ~sp
    <3>1. C!Out(C!NotifyReceived(timed, p))
      BY <1>7, <2>3
    <3>2. SendAll(c_sess.store) = <<>>
      <4>1. c_sess.store = <<>>
        BY <2>3 DEF store, sess
      <4> QED BY <4>1, SendNone
    <3>3. C!Out(St(l, evs))
      BY <1>61, <2>1, <3>1, <3>2, Zenon
    <3>4. C!OutUnless(FALSE, St(l, evs))
      BY <3>3 DEF C!Out, C!OutUnless
    <3> QED BY <3>4
  <2> QED BY <2>2, <2>3
<1>11. c_link' = l /\ c_ping' = NoPing /\ c_events' = evs
  <2> HIDE DEF l, evs
  <2> QED BY <1>10, ClientOut
<1>12. "Connected" \in C!Statuses /\ "client" \in Sides
  BY DEF C!Statuses, Sides
<1>13. Kept("client") /\ status("client")' = "Connected"
  <2>1. /\ alias("client")' = NoAlias /\ lim("client")' = NoLimits /\ ping("client")' = NoPing
        /\ flow("client")' = NoFlow(c_flow.recv) /\ opts("client")' = opts("client")
        /\ link("client")' = LinkRec("Connected", i, Version)
        /\ sess("client")' = Session(store("client"), handled("client"))
    BY <1>7, <1>8, <1>9, <1>11 DEF alias, lim, ping, flow, opts, link, sess, Plain
  <2> QED BY <1>12, <2>1, PlainConnection
<1> QED BY <1>8, <1>11, <1>13 DEF ids, events, p, store, sess

-------------------------------------------------------------------------------
\* The steps of the link: each keeps LinkInv, and is a step of Delivery or a stutter.

\* A side that makes no call.
Stays(side) == /\ Kept(side) /\ status(side)' = status(side) /\ ids(side)' = ids(side)
               /\ events(side)' = <<>>

\* Each side has one other.
LEMMA Others ==
  ASSUME NEW side \in Sides
  PROVE  /\ Other(side) \in Sides /\ Other(side) # side /\ Other(Other(side)) = side
         /\ Sides = {side, Other(side)}
BY DEF Sides, Other

\* A side that makes no call keeps its state.
LEMMA IdleStays ==
  ASSUME NEW side \in Sides, Plain(side), Idle(side)
  PROVE  Stays(side)
<1>1. /\ alias(side)' = alias(side) /\ lim(side)' = lim(side) /\ ping(side)' = ping(side)
      /\ flow(side)' = flow(side) /\ opts(side)' = opts(side) /\ link(side)' = link(side)
      /\ sess(side)' = sess(side) /\ ids(side)' = ids(side) /\ events(side)' = <<>>
  <2>1. CASE side = "client"
    BY <2>1 DEF Idle, c_kept, alias, lim, ping, flow, opts, link, sess, ids, events
  <2>2. CASE side = "server"
    BY <2>2 DEF Idle, s_kept, alias, lim, ping, flow, opts, link, sess, ids, events
  <2> QED BY <2>1, <2>2 DEF Sides
<1>2. status(side)' = status(side) /\ store(side)' = store(side) /\ handled(side)' = handled(side)
  BY <1>1 DEF status, store, handled
<1>3. Plain(side)'
  BY <1>1, <1>2 DEF Plain
<1> QED BY <1>1, <1>2, <1>3 DEF Stays, Kept

\* No events: nothing sent, nothing reported.
LEMMA NoEvents ==
  /\ Sent(<<>>) = <<>> /\ Released(<<>>) = {} /\ \A t : Notified(<<>>, t) = {}
  /\ Of(<<>>, "RequestClose") = {} /\ Of(<<>>, "NotifyError") = {}
BY EmptyList, SendNone, EventsSent

\* StoreInv of a side that keeps its store, its ids and what the application holds.
LEMMA StoreSame ==
  ASSUME NEW side \in Sides, StoreInv(side), store(side)' = store(side), ids(side)' = ids(side),
         held'[side] = held[side]
  PROVE  StoreInv(side)'
BY DEF StoreInv, Stored

\* ExchangeInv of a side whose exchanges no packet of the step is part of.
LEMMA ExchangeSame ==
  ASSUME NEW side \in Sides, ExchangeInv(side), MessagesInv, accepted' \subseteq Messages,
         store(side)' = store(side), handled(Other(side))' = handled(Other(side)),
         owner'[side] = owner[side],
         \A m \in Messages : m.from = side =>
           delivered'[m] = delivered[m] /\ (m \in accepted' \ settled' <=> m \in accepted \ settled),
         Asked(side)' \subseteq Asked(side), Answered(side)' \subseteq Answered(side)
  PROVE  ExchangeInv(side)'
<1> DEFINE Q == Stored(side)
           A == Asked(side)
           R == Answered(side)
           H == handled(Other(side))
           own == owner[side]
           live == accepted \ settled
           live2 == accepted' \ settled'
           A2 == Asked(side)'
           R2 == Answered(side)'
           dlv2 == delivered'
<1>1. Books(side, Q, own, live, delivered) /\ InStep(Q, A, R, H, own, delivered)
  BY DEF ExchangeInv
<1>2. live \subseteq Messages /\ live2 \in SUBSET Messages
  BY DEF MessagesInv
<1>3. \A m \in Messages : m.from = side => dlv2[m] = delivered[m] /\ (m \in live2 <=> m \in live)
  OBVIOUS
<1>4. A2 \in SUBSET A /\ R2 \in SUBSET R
  OBVIOUS
<1>5. Stored(side)' = Q /\ handled(Other(side))' = H /\ owner'[side] = own
  BY DEF Stored
<1> HIDE DEF Q, A, R, H, own, live, live2, A2, R2, dlv2
<1>6. Books(side, Q, own, live2, dlv2) /\ InStep(Q, A, R, H, own, dlv2)
  BY <1>1, <1>2, <1>3, OthersMessages
<1>7. InStep(Q, A2, R2, H, own, dlv2)
  BY <1>4, <1>6, LostPackets
<1> QED BY <1>5, <1>6, <1>7 DEF ExchangeInv, A2, R2, dlv2, live2

\* The messages as they were.
QuietMessages == UNCHANGED <<owner, accepted, delivered, settled>>

\* ExchangeInv when no message changes.
LEMMA QuietExchange ==
  ASSUME NEW side \in Sides, ExchangeInv(side), MessagesInv, QuietMessages,
         store(side)' = store(side), handled(Other(side))' = handled(Other(side)),
         Asked(side)' \subseteq Asked(side), Answered(side)' \subseteq Answered(side)
  PROVE  ExchangeInv(side)'
<1>1. /\ owner' = owner /\ accepted' = accepted /\ delivered' = delivered /\ settled' = settled
      /\ accepted \subseteq Messages
  BY DEF QuietMessages, MessagesInv
<1> QED BY <1>1, ExchangeSame

\* MessagesInv when no message changes.
LEMMA QuietMessagesInv ==
  ASSUME MessagesInv, QuietMessages, DOMAIN held' = Sides
  PROVE  MessagesInv'
BY DEF MessagesInv, QuietMessages

\* What is asked and answered by fewer packets.
LEMMA FewerPackets ==
  ASSUME NEW side \in Sides, On(side)' \subseteq On(side), On(Other(side))' \subseteq On(Other(side))
  PROVE  Asked(side)' \subseteq Asked(side) /\ Answered(side)' \subseteq Answered(side)
BY DEF Asked, Answered

\* The two directions are lists on which no packet is twice.
LEMMA Wires ==
  ASSUME NEW side \in Sides, DOMAIN wire = Sides, NEW a, NEW b,
         wire' = [wire EXCEPT ![side] = a, ![Other(side)] = b]
  PROVE  DOMAIN wire' = Sides /\ wire'[side] = a /\ wire'[Other(side)] = b
BY Others

\* What Transmits leaves on the way.
LEMMA Transmitted ==
  ASSUME NEW side \in Sides, DOMAIN wire = Sides, NEW inbound, Transmits(side, inbound),
         open \in BOOLEAN, Of(events(side)', "RequestClose") = {}
  PROVE  /\ open' = open /\ DOMAIN wire' = Sides /\ wire'[side] = inbound
         /\ wire'[Other(side)] = IF open THEN wire[Other(side)] \o Sent(events(side)')
                                 ELSE wire[Other(side)]
<1> DEFINE b == IF open THEN wire[Other(side)] \o Sent(events(side)') ELSE wire[Other(side)]
<1>1. open' = open
  BY DEF Transmits
<1>2. wire' = [wire EXCEPT ![side] = inbound, ![Other(side)] = b]
  BY Others DEF Transmits
<1> HIDE DEF b
<1>3. DOMAIN wire' = Sides /\ wire'[side] = inbound /\ wire'[Other(side)] = b
  BY <1>2, Wires
<1> QED BY <1>1, <1>3 DEF b

\* A call whose events hand nothing on changes no message.
LEMMA NothingReported ==
  ASSUME NEW side \in Sides, MessagesInv, Reports(side),
         Released(events(side)') = {}, Notified(events(side)', "publish") = {}
  PROVE  delivered' = delivered /\ settled' = settled
<1>1. {p.topic : p \in Notified(events(side)', "publish")} = {}
  OBVIOUS
<1>2. delivered' = [m \in Messages |-> delivered[m]]
  BY <1>1 DEF Reports
<1>3. delivered = [m \in Messages |-> delivered[m]]
  BY DEF MessagesInv
<1>4. settled' = settled
  BY DEF Reports
<1> QED BY <1>2, <1>3, <1>4

\* What a step means for the abstract specification.
Abstractly == D!Next \/ UNCHANGED <<accepted, delivered, settled>>

\* A step that changes no store, no handled ids and no message.
LEMMA QuietStep ==
  ASSUME LinkInv, QuietMessages,
         \A side \in Sides :
           /\ Plain(side)' /\ store(side)' = store(side) /\ handled(side)' = handled(side)
           /\ StoreInv(side)' /\ Of(events(side)', "NotifyError") = {}
           /\ Asked(side)' \subseteq Asked(side) /\ Answered(side)' \subseteq Answered(side),
         DOMAIN held' = Sides, TransportInv', HandshakeInv', SessionInv'
  PROVE  LinkInv' /\ Abstractly
<1>1. ASSUME NEW side \in Sides PROVE ExchangeInv(side)'
  <2>1. ExchangeInv(side) /\ MessagesInv
    BY DEF LinkInv
  <2>2. store(side)' = store(side) /\ handled(Other(side))' = handled(Other(side))
    BY Others
  <2> QED BY <2>1, <2>2, QuietExchange
<1>2. MessagesInv'
  BY QuietMessagesInv DEF LinkInv
<1>3. Abstractly
  BY DEF Abstractly, QuietMessages
<1>4. NoError'
  BY DEF NoError
<1> QED BY <1>1, <1>2, <1>3, <1>4 DEF LinkInv

\* A transport opens.
LEMMA OpenStep ==
  ASSUME LinkInv, Open
  PROVE  LinkInv' /\ Abstractly
<1>1. \A side \in Sides : Stays(side)
  BY IdleStays DEF LinkInv, Open, Sides
<1>2. /\ open' = TRUE /\ attached' = Sides /\ wire' = [side \in Sides |-> <<>>] /\ attached = {}
      /\ session' = session /\ held' = held /\ QuietMessages
  BY DEF Open, appVars, QuietMessages
<1>3. \A side \in Sides : wire'[side] = <<>> /\ wire[side] = <<>> /\ status(side) = "Disconnected"
  BY <1>2 DEF LinkInv, TransportInv
<1>4. \A side \in Sides : On(side)' = {} /\ Asked(side)' = {} /\ Answered(side)' = {}
  BY <1>3, EmptyList, Others DEF On, Asked, Answered
<1>5. \A side \in Sides : StoreInv(side)'
  BY <1>1, <1>2, StoreSame DEF LinkInv, Stays, Kept
<1>6. \A side \in Sides : Configured(side)'
  BY <1>1 DEF Open, Configured, Stays, Kept
<1>7. TransportInv'
  <2>1. \A side \in Sides : wire'[side] \in Seq((On(side))') /\ Once(wire'[side])
    BY <1>3, <1>4, EmptyList DEF List
  <2> QED BY <1>2, <1>6, <2>1 DEF TransportInv
<1>8. HandshakeInv'
  BY <1>1, <1>3 DEF HandshakeInv, Stays, Sides
<1>9. SessionInv'
  <2>1. Connack(FALSE) \notin On("client")' /\ wire'["client"] = <<>>
    BY <1>3, <1>4 DEF Sides
  <2> QED BY <1>1, <1>2, <2>1 DEF LinkInv, SessionInv, Stays, Kept
<1> QED BY <1>1, <1>2, <1>4, <1>5, <1>7, <1>8, <1>9, QuietStep, NoEvents
     DEF Stays, Kept, LinkInv, MessagesInv

\* A transport breaks, and the end of what was on the way is lost.
LEMMA BreakStep ==
  ASSUME LinkInv, Break
  PROVE  LinkInv' /\ Abstractly
<1>1. \A side \in Sides : Stays(side)
  BY IdleStays DEF LinkInv, Break, Sides
<1>2. /\ open' = FALSE /\ attached' = attached /\ open
      /\ session' = session /\ held' = held /\ QuietMessages
  BY DEF Break, appVars, QuietMessages
<1>3. PICK in \in Prefixes(wire["client"]), out \in Prefixes(wire["server"]) :
        wire' = [client |-> in, server |-> out]
  BY DEF Break
<1>4. /\ DOMAIN wire' = Sides /\ wire'["client"] = in /\ wire'["server"] = out
      /\ \A side \in Sides : wire'[side] \in Prefixes(wire[side]) /\ List(wire[side]) /\ Once(wire[side])
  BY <1>3 DEF Sides, LinkInv, TransportInv, List, On
<1>5. \A side \in Sides : List(wire'[side]) /\ Once(wire'[side]) /\ On(side)' \subseteq On(side)
  BY <1>4, PrefixList DEF On
<1>6. \A side \in Sides : Asked(side)' \subseteq Asked(side) /\ Answered(side)' \subseteq Answered(side)
  BY <1>5, FewerPackets, Others
<1>7. \A side \in Sides : StoreInv(side)'
  BY <1>1, <1>2, StoreSame DEF LinkInv, Stays, Kept
<1>8. \A side \in Sides : Configured(side) <=> Configured(side)'
  BY <1>1 DEF Configured, Stays, Kept
<1>9. \A side \in Sides : wire[side] = <<>> => wire'[side] = <<>>
  BY <1>4, PrefixList
<1>10. TransportInv'
  <2>1. attached = Sides
    BY <1>2 DEF LinkInv, TransportInv
  <2> QED BY <1>2, <1>4, <1>5, <1>8, <2>1 DEF LinkInv, TransportInv, List, On
<1>11. /\ wire["server"] \in {<<>>, <<Connect>>} => wire'["server"] \in {<<>>, <<Connect>>}
       /\ \A side \in Sides : Exchanges(wire[side]) => Exchanges(wire'[side])
       /\ wire["client"] = <<>> \/ ConnackThenRequests(wire["client"]) =>
            wire'["client"] = <<>> \/ ConnackThenRequests(wire'["client"])
  <2>1. \A side \in Sides : /\ DOMAIN wire'[side] \subseteq DOMAIN wire[side]
                            /\ \A i \in DOMAIN wire'[side] : wire'[side][i] = wire[side][i]
                            /\ wire'[side] # <<>> => wire[side] # <<>> /\ 1 \in DOMAIN wire'[side]
                            /\ wire[side] \in {<<>>, <<Connect>>} => wire'[side] \in {<<>>, <<Connect>>}
    BY <1>4, PrefixList
  <2> QED BY <2>1 DEF Exchanges, ConnackThenRequests, Sides
<1>12. HandshakeInv'
  <2> USE DEF Sides
  <2>1. /\ status("client")' = "Disconnected" =>
             /\ wire'["client"] = <<>>
             /\ "client" \in attached' => wire'["server"] = <<>> /\ status("server")' = "Disconnected"
        /\ status("client")' = "Connecting" =>
             /\ wire'["server"] \in {<<>>, <<Connect>>}
             /\ wire'["client"] = <<>> \/ ConnackThenRequests(wire'["client"])
        /\ status("client")' = "Connected" => Exchanges(wire'["client"])
    BY <1>1, <1>2, <1>9, <1>11 DEF LinkInv, HandshakeInv, Stays
  <2>2. /\ status("server")' = "Disconnected" => wire'["server"] \in {<<>>, <<Connect>>}
        /\ status("server")' = "Connecting" => wire'["server"] = <<>>
        /\ status("server")' = "Connected" => Exchanges(wire'["server"])
    BY <1>1, <1>9, <1>11 DEF LinkInv, HandshakeInv, Stays
  <2> QED BY <1>2, <2>1, <2>2 DEF HandshakeInv
<1>13. SessionInv'
  <2>1. Connack(FALSE) \in On("client")' => Connack(FALSE) \in On("client")
    BY <1>5 DEF Sides
  <2>2. wire'["client"] # <<>> => wire["client"] # <<>>
    BY <1>9 DEF Sides
  <2> QED BY <1>1, <1>2, <2>1, <2>2 DEF LinkInv, SessionInv, Stays, Kept
<1> QED BY <1>1, <1>2, <1>6, <1>7, <1>10, <1>12, <1>13, QuietStep, NoEvents
     DEF Stays, Kept, LinkInv, MessagesInv

\* Ids are never 0.
LEMMA Numbers == 0 \in 0..MaxId /\ \A pid \in C!PacketIds : pid # 0 /\ pid \in 0..MaxId
<1>1. MaxId \in Nat \ {0}
  BY LinkAssumption, Zenon
<1> QED BY <1>1 DEF C!PacketIds

\* The beginning of what was on the way, the rest of which is lost.
Cut(v, w) == /\ List(v) /\ Once(v) /\ C!ToSet(v) \subseteq C!ToSet(w) /\ (w = <<>> => v = <<>>)
             /\ w \in {<<>>, <<Connect>>} => v \in {<<>>, <<Connect>>}
             /\ Exchanges(w) => Exchanges(v)
             /\ w = <<>> \/ ConnackThenRequests(w) => v = <<>> \/ ConnackThenRequests(v)

\* A cut keeps the order, and loses packets only.
LEMMA Cuts ==
  ASSUME NEW w, List(w), Once(w)
  PROVE  /\ Cut(w, w) /\ Cut(<<>>, w)
         /\ \A v \in Prefixes(w) : Cut(v, w)
<1>1. Cut(w, w)
  BY DEF Cut
<1>2. Cut(<<>>, w)
  BY EmptyList DEF Cut, Exchanges
<1>3. ASSUME NEW v \in Prefixes(w) PROVE Cut(v, w)
  <2>1. /\ List(v) /\ C!ToSet(v) \subseteq C!ToSet(w)
        /\ DOMAIN v \subseteq DOMAIN w /\ \A i \in DOMAIN v : v[i] = w[i]
        /\ v # <<>> => w # <<>> /\ 1 \in DOMAIN v
        /\ Once(v)
        /\ w \in {<<>>, <<Connect>>} => v \in {<<>>, <<Connect>>}
    BY PrefixList
  <2>2. Exchanges(w) => Exchanges(v)
    BY <2>1 DEF Exchanges
  <2>3. w = <<>> \/ ConnackThenRequests(w) => v = <<>> \/ ConnackThenRequests(v)
    BY <2>1 DEF ConnackThenRequests
  <2> QED BY <2>1, <2>2, <2>3 DEF Cut
<1> QED BY <1>1, <1>2, <1>3

\* A side that learns of the end of the transport, or dies.
LEMMA Detached ==
  ASSUME LinkInv, QuietMessages, NEW side \in Sides,
         Kept(side), status(side)' = "Disconnected", StoreInv(side)',
         events(side)' = <<>>, Stays(Other(side)),
         open' = FALSE, attached' = attached \ {side}, session' = session,
         DOMAIN held' = Sides, held'[Other(side)] = held[Other(side)],
         held'[side] \in {0, held[side]},
         DOMAIN wire' = Sides, wire'[side] = <<>>, Cut(wire'[Other(side)], wire[Other(side)])
  PROVE  LinkInv' /\ Abstractly
<1>1. Other(side) \in Sides /\ Sides = {side, Other(side)} /\ Other(side) # side
  BY Others
<1>2. \A s \in Sides : List(wire[s]) /\ Once(wire[s])
  BY DEF LinkInv, TransportInv, List, On
<1>3. \A s \in Sides : Cut(wire'[s], wire[s])
  BY <1>1, <1>2, Cuts
<1>4. \A s \in Sides : Kept(s) /\ events(s)' = <<>>
  BY <1>1 DEF Stays
<1>5. \A s \in Sides : On(s)' \subseteq On(s) /\ List(wire'[s])
  BY <1>3 DEF Cut, On
<1>6. \A s \in Sides : Asked(s)' \subseteq Asked(s) /\ Answered(s)' \subseteq Answered(s)
  BY <1>5, FewerPackets, Others
<1>7. \A s \in Sides : StoreInv(s)'
  BY <1>1, StoreSame DEF LinkInv, Stays, Kept
<1>8. \A s \in Sides : Configured(s) <=> Configured(s)'
  BY <1>4 DEF Configured, Kept
<1>9. \A s \in Sides : wire[s] = <<>> => wire'[s] = <<>>
  BY <1>3 DEF Cut
<1>10. \A s \in Sides : status(s)' = status(s) \/ s = side
  BY <1>1 DEF Stays
<1>11. TransportInv'
  <2>1. \A s \in Sides : wire'[s] \in Seq((On(s))') /\ Once(wire'[s])
    BY <1>3 DEF Cut, List, On
  <2>2. ASSUME NEW s \in Sides
        PROVE IF s \in attached' THEN Configured(s)'
              ELSE status(s)' = "Disconnected" /\ wire'[s] = <<>>
    BY <1>1, <1>8, <1>9, <1>10 DEF LinkInv, TransportInv
  <2>3. attached' \subseteq Sides
    BY DEF LinkInv, TransportInv
  <2> QED BY <2>1, <2>2, <2>3 DEF TransportInv
<1>12. HandshakeInv'
  <2>1. /\ wire["server"] \in {<<>>, <<Connect>>} => wire'["server"] \in {<<>>, <<Connect>>}
        /\ Exchanges(wire["server"]) => Exchanges(wire'["server"])
        /\ Exchanges(wire["client"]) => Exchanges(wire'["client"])
        /\ wire["client"] = <<>> \/ ConnackThenRequests(wire["client"]) =>
             wire'["client"] = <<>> \/ ConnackThenRequests(wire'["client"])
        /\ wire["server"] = <<>> => wire'["server"] = <<>>
        /\ wire["client"] = <<>> => wire'["client"] = <<>>
    BY <1>3 DEF Cut, Sides
  <2>2. HandshakeInv
    BY DEF LinkInv
  <2>3. CASE side = "client"
    <3>1. /\ status("client")' = "Disconnected" /\ wire'["client"] = <<>> /\ "client" \notin attached'
          /\ status("server")' = status("server")
      BY <2>3, <1>10 DEF Sides
    <3> QED BY <2>1, <2>2, <3>1 DEF HandshakeInv
  <2>4. CASE side = "server"
    <3>1. /\ status("server")' = "Disconnected" /\ wire'["server"] = <<>>
          /\ status("client")' = status("client")
      BY <2>4, <1>10 DEF Sides
    <3> QED BY <2>1, <2>2, <3>1 DEF HandshakeInv
  <2> QED BY <2>3, <2>4 DEF Sides
<1>13. SessionInv'
  <2>1. Connack(FALSE) \in On("client")' => Connack(FALSE) \in On("client")
    BY <1>5 DEF Sides
  <2>2. wire'["client"] # <<>> => wire["client"] # <<>>
    BY <1>9 DEF Sides
  <2>3. \A s \in Sides : /\ store(s)' = store(s) /\ (held[s] = 0 => held'[s] = 0)
                         /\ (status(s) # "Connected" => status(s)' # "Connected")
    BY <1>1, <1>4, <1>10 DEF Kept
  <2> QED BY <2>1, <2>2, <2>3 DEF LinkInv, SessionInv
<1> QED BY <1>4, <1>6, <1>7, <1>11, <1>12, <1>13, QuietStep, NoEvents DEF Kept

\* A side learns that the transport is gone.
LEMMA CloseStep ==
  ASSUME LinkInv, CarefulSides, NEW side \in Sides, Close(side)
  PROVE  LinkInv' /\ Abstractly
<1>1. Other(side) \in Sides /\ Sides = {side, Other(side)} /\ Other(side) # side
  BY Others
<1>2. /\ Plain(side) /\ Plain(Other(side)) /\ StoreInv(side) /\ ids(side) \in IdsType /\ MessagesInv
      /\ DOMAIN wire = Sides /\ List(wire[Other(side)]) /\ Once(wire[Other(side)])
      /\ open \in BOOLEAN
  BY <1>1 DEF LinkInv, StoreInv, Awaited, TransportInv, List, On
<1>3. /\ Kept(side) /\ status(side)' = "Disconnected" /\ ids(side)' = ids(side)
      /\ events(side)' = <<>> /\ Idle(Other(side))
  <2>1. CASE status(side) # "Disconnected"
    <3>1. notify_closed(side)
      BY <2>1 DEF Close, status
    <3> QED BY <1>2, <2>1, <3>1, Closed DEF notify_closed
  <2>2. CASE status(side) = "Disconnected"
    <3>1. Idle("client") /\ Idle("server")
      BY <2>2 DEF Close, status, CarefulSides
    <3>2. Idle(side) /\ Idle(Other(side))
      BY <3>1, <1>1 DEF Sides
    <3> QED BY <1>2, <2>2, <3>2, IdleStays DEF Stays
  <2> QED BY <2>1, <2>2
<1>4. Stays(Other(side))
  BY <1>1, <1>2, <1>3, IdleStays
<1>5. /\ open' = FALSE /\ attached' = attached \ {side} /\ session' = session /\ held' = held
      /\ wire' = [wire EXCEPT ![side] = <<>>] /\ owner' = owner /\ accepted' = accepted
  BY <1>2 DEF Close
<1>6. DOMAIN wire' = Sides /\ wire'[side] = <<>> /\ wire'[Other(side)] = wire[Other(side)]
  BY <1>1, <1>2, <1>5
<1>7. Cut(wire'[Other(side)], wire[Other(side)])
  BY <1>2, <1>6, Cuts
<1>8. delivered' = delivered /\ settled' = settled
  <2>1. Reports(side)
    BY DEF Close
  <2> QED BY <1>2, <1>3, <2>1, NoEvents, NothingReported
<1>9. QuietMessages
  BY <1>5, <1>8 DEF QuietMessages
<1>10. StoreInv(side)'
  BY <1>2, <1>3, <1>5, StoreSame DEF Kept
<1> QED BY <1>3, <1>4, <1>5, <1>6, <1>7, <1>9, <1>10, Detached DEF LinkInv, MessagesInv

\* A side dies, and its successor restores the session.
LEMMA CrashStep ==
  ASSUME LinkInv, NEW side \in Sides, Crash(side)
  PROVE  LinkInv' /\ Abstractly
<1>1. Other(side) \in Sides /\ Sides = {side, Other(side)} /\ Other(side) # side
  BY Others
<1>2. /\ Plain(side) /\ Plain(Other(side)) /\ StoreInv(side) /\ ExchangeInv(side)
      /\ DOMAIN wire = Sides /\ List(wire[Other(side)]) /\ Once(wire[Other(side)])
      /\ DOMAIN held = Sides
  BY <1>1 DEF LinkInv, MessagesInv, TransportInv, List, On
<1>3. /\ restore(side) /\ open' = FALSE /\ attached' = attached \ {side} /\ session' = session
      /\ held' = [held EXCEPT ![side] = 0] /\ QuietMessages
  BY DEF Crash, QuietMessages
<1>4. /\ ids(side)' = C!restored_ids(store(side)) /\ Kept(side)
      /\ status(side)' = "Disconnected" /\ events(side)' = <<>>
  BY <1>2, <1>3, Restored
<1>5. Stays(Other(side))
  BY <1>1, <1>2, <1>3, IdleStays DEF restore
<1>6. PICK rest \in Prefixes(wire[Other(side)]) :
        wire' = [wire EXCEPT ![side] = <<>>, ![Other(side)] = rest]
  BY DEF Crash
<1>7. DOMAIN wire' = Sides /\ wire'[side] = <<>> /\ wire'[Other(side)] = rest
  BY <1>2, <1>6, Wires
<1>8. Cut(wire'[Other(side)], wire[Other(side)])
  BY <1>2, <1>7, Cuts
<1>9. DOMAIN held' = Sides /\ held'[side] = 0 /\ held'[Other(side)] = held[Other(side)]
  BY <1>1, <1>2, <1>3
<1>10. StoreInv(side)'
  <2>1. \A q \in C!ToSet(store(side)) : q.pid \in C!PacketIds
    BY <1>2 DEF ExchangeInv, Books, Stored
  <2>2. Awaited(ids(side)', C!ToSet(store(side)), 0)
    BY <1>4, <2>1, RestoredIds
  <2>3. \A q \in Stored(side) : q.pid # 0
    BY <2>1 DEF Stored, C!PacketIds
  <2>4. 0 \in 0..MaxId
    BY Numbers
  <2> QED BY <1>2, <1>4, <1>9, <2>2, <2>3, <2>4 DEF StoreInv, Stored, Kept
<1> QED BY <1>3, <1>4, <1>5, <1>7, <1>8, <1>9, <1>10, Detached

\* A step of one side that the transport has no part in.
LEMMA AsideStep ==
  ASSUME LinkInv, QuietMessages, NEW side \in Sides, Stays(Other(side)),
         Plain(side)', store(side)' = store(side), handled(side)' = handled(side),
         status(side)' = status(side), events(side)' = <<>>, StoreInv(side)',
         UNCHANGED netVars, session' = session,
         side \in attached => Configured(side)',
         DOMAIN held' = Sides, held'[Other(side)] = held[Other(side)],
         side \notin session => held'[side] = held[side]
  PROVE  LinkInv' /\ Abstractly
<1>1. Other(side) \in Sides /\ Sides = {side, Other(side)} /\ Other(side) # side
  BY Others
<1>2. wire' = wire /\ open' = open /\ attached' = attached
  BY DEF netVars
<1>3. /\ \A s \in Sides : status(s)' = status(s) /\ store(s)' = store(s) /\ events(s)' = <<>>
      /\ \A s \in Sides : handled(s)' = handled(s) /\ Plain(s)'
  BY <1>1 DEF Stays, Kept
<1>4. \A s : On(s)' = On(s)
  BY <1>2 DEF On
<1>5. \A s \in Sides : Asked(s)' \subseteq Asked(s) /\ Answered(s)' \subseteq Answered(s)
  BY <1>4, FewerPackets, Others
<1>6. \A s \in Sides : StoreInv(s)'
  BY <1>1, StoreSame DEF LinkInv, Stays, Kept
<1>7. TransportInv'
  <2>1. \A s \in Sides : s \in attached => Configured(s)'
    BY <1>1 DEF LinkInv, TransportInv, Configured, Stays, Kept
  <2> QED BY <1>2, <1>3, <1>4, <2>1 DEF LinkInv, TransportInv
<1>8. HandshakeInv'
  <2>1. status("client")' = status("client") /\ status("server")' = status("server") /\ HandshakeInv
    BY <1>3 DEF Sides, LinkInv
  <2> QED BY <1>2, <2>1 DEF HandshakeInv
<1>9. SessionInv'
  <2>1. \A s \in Sides : s \notin session => held'[s] = held[s]
    BY <1>1
  <2> QED BY <1>2, <1>3, <1>4, <2>1 DEF LinkInv, SessionInv
<1> QED BY <1>3, <1>5, <1>6, <1>7, <1>8, <1>9, QuietStep, NoEvents

\* A side changes its settings.
LEMMA ConfigureStep ==
  ASSUME LinkInv, NEW side \in Sides, Configure(side)
  PROVE  LinkInv' /\ Abstractly
<1>1. Other(side) \in Sides
  BY Others
<1>2. set_auto_pub_response(side) \/ set_offline_publish(side)
  BY DEF Configure
<1>3. ~Configured(side)
  BY DEF Configure, Configured
<1>4. /\ UNCHANGED netVars /\ session' = session /\ held' = held /\ QuietMessages
  BY DEF Configure, appVars, QuietMessages
<1>5. Plain(side) /\ Plain(Other(side)) /\ StoreInv(side) /\ DOMAIN held = Sides
  BY <1>1 DEF LinkInv, MessagesInv
<1>6. /\ Plain(side)' /\ status(side)' = status(side) /\ ids(side)' = ids(side)
      /\ store(side)' = store(side) /\ handled(side)' = handled(side) /\ events(side)' = <<>>
  BY <1>2, <1>5, Settings
<1>7. Stays(Other(side))
  BY <1>1, <1>2, <1>5, IdleStays DEF set_auto_pub_response, set_offline_publish
<1>8. side \notin attached
  BY <1>3 DEF LinkInv, TransportInv
<1>9. StoreInv(side)'
  BY <1>4, <1>5, <1>6, StoreSame
<1> QED BY <1>4, <1>5, <1>6, <1>7, <1>8, <1>9, AsideStep

\* The application takes an id.
LEMMA AcquireStep ==
  ASSUME LinkInv, CarefulSides, NEW side \in Sides, NEW pid \in C!PacketIds, Acquire(side, pid)
  PROVE  LinkInv' /\ Abstractly
<1>1. Other(side) \in Sides /\ Other(side) # side
  BY Others
<1>2. /\ acquire_packet_id(side, pid) /\ held[side] = 0 /\ MayPublish(side)
      /\ held' = [held EXCEPT ![side] = pid]
      /\ UNCHANGED netVars /\ session' = session /\ QuietMessages
  BY DEF Acquire, QuietMessages
<1>3. side \in session /\ Configured(side)
  BY <1>2 DEF MayPublish, CarefulSides
<1>4. Plain(side) /\ Plain(Other(side)) /\ StoreInv(side) /\ DOMAIN held = Sides
  BY <1>1 DEF LinkInv, MessagesInv
<1>5. /\ pid \in C!PacketIds \ ids(side).man /\ ids(side)' = [ids(side) EXCEPT !.man = @ \cup {pid}]
      /\ Kept(side) /\ status(side)' = status(side) /\ events(side)' = <<>>
  BY <1>2, <1>4, Acquired
<1>6. Stays(Other(side))
  BY <1>1, <1>2, <1>4, IdleStays DEF acquire_packet_id
<1>7. DOMAIN held' = Sides /\ held'[side] = pid /\ held'[Other(side)] = held[Other(side)]
  BY <1>1, <1>2, <1>4
<1>8. StoreInv(side)'
  <2>1. pid # 0 /\ pid \in 0..MaxId
    BY Numbers
  <2>2. Awaited(ids(side), Stored(side), 0)
    BY <1>2, <1>4 DEF StoreInv
  <2>3. Awaited(ids(side)', Stored(side), pid)
    BY <1>5, <2>1, <2>2, AwaitedHold
  <2>4. \A q \in Stored(side) : q.pid # pid
    BY <1>5, <2>2, AwaitedIff
  <2>5. store(side)' = store(side) /\ Stored(side)' = Stored(side)
    BY <1>5 DEF Kept, Stored
  <2> QED BY <1>4, <1>7, <2>1, <2>3, <2>4, <2>5 DEF StoreInv
<1>9. Configured(side)'
  BY <1>3, <1>5 DEF Configured, Kept
<1> QED BY <1>2, <1>3, <1>5, <1>6, <1>7, <1>8, <1>9, AsideStep DEF Kept

\* The client sends CONNECT.
LEMMA SendConnectStep ==
  ASSUME LinkInv, SendConnect
  PROVE  LinkInv' /\ Abstractly
<1>1. /\ send("client", Connect) /\ Transmits("client", wire["client"]) /\ status("client") = "Disconnected"
      /\ "client" \in attached /\ attached' = attached /\ session' = session /\ held' = held
      /\ QuietMessages
  BY DEF SendConnect, appVars, QuietMessages, status, link
<1>2. /\ Plain("client") /\ Plain("server") /\ StoreInv("client") /\ StoreInv("server")
      /\ ids("client") \in IdsType /\ DOMAIN held = Sides /\ DOMAIN wire = Sides /\ open \in BOOLEAN
      /\ "client" \in Sides /\ "server" \in Sides
  BY DEF LinkInv, MessagesInv, TransportInv, Sides, StoreInv, Awaited
<1>3. Other("client") = "server"
  BY DEF Other
<1>4. wire["client"] = <<>> /\ wire["server"] = <<>> /\ status("server") = "Disconnected"
  BY <1>1 DEF LinkInv, HandshakeInv
<1>5. /\ Kept("client") /\ status("client")' = "Connecting" /\ ids("client")' = ids("client")
      /\ events("client")' = <<SendEv(Connect)>>
  BY <1>1, <1>2, ClientConnects
<1>6. Stays("server")
  BY <1>1, <1>2, <1>3, IdleStays DEF send
<1>7. /\ Sent(events("client")') = <<Connect>> /\ Of(events("client")', "RequestClose") = {}
      /\ Of(events("client")', "NotifyError") = {}
  <2>1. events("client")' = SendAll(<<Connect>>)
    BY <1>5, SendOne
  <2> QED BY <2>1, OneList, EventsSent
<1>8. /\ open' = open /\ DOMAIN wire' = Sides /\ wire'["client"] = <<>>
      /\ wire'["server"] = IF open THEN wire["server"] \o <<Connect>> ELSE wire["server"]
  <2>1. /\ open' = open /\ DOMAIN wire' = Sides /\ wire'["client"] = wire["client"]
        /\ wire'["server"] = IF open THEN wire["server"] \o Sent(events("client")') ELSE wire["server"]
    BY <1>1, <1>2, <1>3, <1>7, Transmitted
  <2> QED BY <1>4, <1>7, <2>1
<1>9. wire'["server"] \in {<<>>, <<Connect>>}
  <2>1. <<>> \o <<Connect>> = <<Connect>>
    BY OneList, JoinList
  <2> QED BY <1>4, <1>8, <2>1
<1>10. \A s \in Sides : List(wire'[s]) /\ Once(wire'[s]) /\ On(s)' \subseteq {Connect}
  BY <1>8, <1>9, EmptyList, OneList DEF On, Sides
<1>11. \A s \in Sides : Asked(s)' \subseteq Asked(s) /\ Answered(s)' \subseteq Answered(s)
  <2>1. Connect.type \notin Requests \cup Responses
    BY DEF Connect, Requests, Responses
  <2> QED BY <1>10, <2>1, Others DEF Asked, Answered
<1>12. \A s \in Sides : Kept(s)
  BY <1>5, <1>6 DEF Stays, Sides
<1>13. \A s \in Sides : StoreInv(s)'
  BY <1>1, <1>2, <1>5, <1>6, StoreSame DEF Stays, Kept, Sides
<1>14. \A s \in Sides : Configured(s) <=> Configured(s)'
  BY <1>12 DEF Configured, Kept
<1>15. TransportInv'
  <2>1. \A s \in Sides : wire'[s] \in Seq((On(s))') /\ Once(wire'[s])
    BY <1>10 DEF List, On
  <2>2. "server" \notin attached => wire'["server"] = <<>> /\ status("server")' = "Disconnected"
    BY <1>4, <1>6, <1>8 DEF LinkInv, TransportInv, Sides, Stays
  <2> QED BY <1>1, <1>8, <1>14, <2>1, <2>2 DEF LinkInv, TransportInv, Sides
<1>16. HandshakeInv'
  BY <1>4, <1>5, <1>6, <1>8, <1>9 DEF HandshakeInv, Stays
<1>17. SessionInv'
  <2>1. Connack(FALSE) \notin On("client")'
    BY <1>8, EmptyList DEF On
  <2>2. \A s \in Sides : status(s)' # "Connected"
    BY <1>4, <1>5, <1>6 DEF Stays, Sides
  <2> QED BY <1>1, <1>8, <1>12, <2>1, <2>2 DEF LinkInv, SessionInv, Kept
<1>18. \A s \in Sides : Of(events(s)', "NotifyError") = {}
  BY <1>6, <1>7, NoEvents DEF Sides, Stays
<1> QED BY <1>1, <1>2, <1>11, <1>12, <1>13, <1>15, <1>16, <1>17, <1>18, QuietStep DEF Kept

\* A step that changes no message.
LEMMA QuietLink ==
  ASSUME LinkInv, QuietMessages,
         \A side \in Sides :
           /\ Plain(side)' /\ StoreInv(side)' /\ ExchangeInv(side)'
           /\ Of(events(side)', "NotifyError") = {},
         DOMAIN held' = Sides, TransportInv', HandshakeInv', SessionInv'
  PROVE  LinkInv' /\ Abstractly
<1>1. MessagesInv'
  BY QuietMessagesInv DEF LinkInv
<1>2. Abstractly
  BY DEF Abstractly, QuietMessages
<1>3. NoError'
  BY DEF NoError
<1> QED BY <1>1, <1>2, <1>3 DEF LinkInv

\* The stored packets of a side are requests with different ids.
LEMMA StoredRequests ==
  ASSUME NEW side \in Sides, ExchangeInv(side)
  PROVE  \A q \in Stored(side) : /\ q.type \in Requests /\ q.pid \in C!PacketIds
                                 /\ q.size = C!AckSize /\ q.type \notin Responses
<1>1. Books(side, Stored(side), owner[side], accepted \ settled, delivered)
  BY DEF ExchangeInv
<1>2. \A q \in Stored(side) : q.type \in Requests /\ q.pid \in C!PacketIds /\ q.size = C!AckSize
  BY <1>1, Types
<1> QED BY <1>2 DEF Requests, Responses

\* The store is sent after a resumed session, and nothing else is on the way.
LEMMA ResentExchange ==
  ASSUME NEW side \in Sides, ExchangeInv(side), QuietMessages,
         store(side)' = store(side), handled(Other(side))' = handled(Other(side)),
         Asked(side)' \subseteq Stored(side), Answered(side)' = {}
  PROVE  ExchangeInv(side)'
<1> DEFINE Q == Stored(side)
           A == Asked(side)
           R == Answered(side)
           H == handled(Other(side))
           own == owner[side]
           A2 == Asked(side)'
<1>1. Books(side, Q, own, accepted \ settled, delivered) /\ InStep(Q, A, R, H, own, delivered)
  BY DEF ExchangeInv
<1>2. Stored(side)' = Q /\ handled(Other(side))' = H /\ owner'[side] = own
  BY DEF Stored, QuietMessages
<1>3. accepted' = accepted /\ settled' = settled /\ delivered' = delivered
  BY DEF QuietMessages
<1>4. A2 \in SUBSET Q /\ Answered(side)' = {}
  OBVIOUS
<1> HIDE DEF Q, A, R, H, own, A2
<1>5. InStep(Q, Q, {}, H, own, delivered)
  BY <1>1, SentAgain
<1>6. InStep(Q, A2, {}, H, own, delivered)
  BY <1>4, <1>5, LostPackets
<1> QED BY <1>1, <1>2, <1>3, <1>4, <1>6 DEF ExchangeInv, A2

\* The stored packets, alone or after a CONNACK, are on the way once.
LEMMA StoreOnce ==
  ASSUME NEW s, List(s), DistinctIds(s), \A q \in C!ToSet(s) : q.type \in Requests,
         NEW sp \in BOOLEAN
  PROVE  /\ Once(s) /\ Exchanges(s)
         /\ List(<<Connack(sp)>> \o s) /\ C!ToSet(<<Connack(sp)>> \o s) = {Connack(sp)} \cup C!ToSet(s)
         /\ Once(<<Connack(sp)>> \o s) /\ ConnackThenRequests(<<Connack(sp)>> \o s)
<1> DEFINE k == Connack(sp)
           w == <<k>> \o s
<1>1. \A i \in DOMAIN s : s[i] \in C!ToSet(s)
  BY ListFacts
<1>2. Once(s) /\ Exchanges(s)
  BY <1>1 DEF Once, Exchanges, DistinctIds, Alike
<1>3. k.type \notin Requests /\ k.type \notin Responses /\ k \in {Connack(TRUE), Connack(FALSE)}
  BY DEF Connack, Requests, Responses
<1> HIDE DEF k
<1>4. /\ List(w) /\ C!ToSet(w) = {k} \cup C!ToSet(s)
      /\ w # <<>> /\ w[1] = k
      /\ \A i \in DOMAIN w : i # 1 => i - 1 \in 1..Len(s) /\ w[i] = s[i - 1]
  BY ConsList
<1>5. Len(s) \in Nat /\ DOMAIN s = 1..Len(s)
  BY ListFacts
<1>a. DOMAIN w \subseteq Nat
  BY <1>4, ListFacts
<1> HIDE DEF w
<1>6. \A i \in DOMAIN w : i # 1 => w[i].type \in Requests
  BY <1>1, <1>4, <1>5
<1>7. Once(w)
  <2> SUFFICES ASSUME NEW i \in DOMAIN w, NEW j \in DOMAIN w, Alike(w[i], w[j])
               PROVE  i = j
    BY DEF Once
  <2>1. i # 1 /\ j # 1
    BY <1>3, <1>4 DEF Alike
  <2>2. w[i].pid = w[j].pid
    BY DEF Alike
  <2>3. i - 1 \in DOMAIN s /\ j - 1 \in DOMAIN s /\ s[i - 1].pid = s[j - 1].pid
    BY <1>4, <1>5, <2>1, <2>2
  <2>4. i - 1 = j - 1
    BY <2>3 DEF DistinctIds
  <2> QED BY <1>a, <2>4
<1>8. ConnackThenRequests(w)
  BY <1>3, <1>4, <1>6 DEF ConnackThenRequests
<1> QED BY <1>2, <1>4, <1>7, <1>8 DEF k, w

\* What LinkInv says of the client and of the server, and the transport.
LEMMA BothSides ==
  ASSUME LinkInv, NEW side \in Sides
  PROVE  /\ Plain(side) /\ StoreInv(side) /\ ExchangeInv(side) /\ ids(side) \in IdsType
         /\ List(store(side)) /\ DistinctIds(store(side)) /\ List(wire[side]) /\ Once(wire[side])
         /\ DOMAIN held = Sides /\ DOMAIN wire = Sides /\ open \in BOOLEAN
         /\ open => attached = Sides
         /\ \A q \in Stored(side) : /\ q.type \in Requests /\ q.pid \in C!PacketIds
                                    /\ q.size = C!AckSize /\ q.type \notin Responses
         /\ status(side) \in {"Disconnected", "Connecting", "Connected"}
         /\ side \in attached => Configured(side)
<1>1. Plain(side) /\ StoreInv(side) /\ ExchangeInv(side)
  BY DEF LinkInv
<1>2. /\ List(wire[side]) /\ Once(wire[side]) /\ DOMAIN wire = Sides /\ open \in BOOLEAN
      /\ open => attached = Sides
      /\ side \in attached => Configured(side)
  BY DEF LinkInv, TransportInv, List, On
<1>3. ids(side) \in IdsType /\ List(store(side)) /\ DistinctIds(store(side))
  BY <1>1 DEF StoreInv, Awaited, List, Stored
<1>4. status(side) \in {"Disconnected", "Connecting", "Connected"}
  BY <1>1 DEF Plain, status, C!Statuses
<1>5. DOMAIN held = Sides
  BY DEF LinkInv, MessagesInv
<1> QED BY <1>1, <1>2, <1>3, <1>4, <1>5, StoredRequests

\* The client and the server.
LEMMA TwoSides == "client" \in Sides /\ "server" \in Sides /\ Other("client") = "server" /\ Other("server") = "client"
BY DEF Sides, Other

\* The server answers CONNECT.
LEMMA SendConnackStep ==
  ASSUME LinkInv, SendConnack
  PROVE  LinkInv' /\ Abstractly
<1> DEFINE sp == "server" \in session
           out == <<Connack(sp)>> \o store("server")
<1>1. /\ send("server", Connack(sp)) /\ Transmits("server", wire["server"])
      /\ status("server") = "Connecting" /\ "server" \in attached
      /\ attached' = attached /\ session' = session \cup {"server"} /\ held' = held /\ QuietMessages
  BY DEF SendConnack, QuietMessages, status, link
<1>2. sp \in BOOLEAN
  OBVIOUS
<1> HIDE DEF sp
<1>3. /\ Kept("server") /\ status("server")' = "Connected" /\ ids("server")' = ids("server")
      /\ events("server")' = SendAll(out)
  BY <1>1, <1>2, BothSides, TwoSides, ServerAnswers
<1>4. Stays("client")
  BY <1>1, BothSides, TwoSides, IdleStays DEF send
<1>5. /\ List(out) /\ C!ToSet(out) = {Connack(sp)} \cup Stored("server")
      /\ Once(out) /\ ConnackThenRequests(out)
  BY <1>2, BothSides, TwoSides, StoreOnce DEF Stored
<1> HIDE DEF out
<1>6. /\ Sent(events("server")') = out /\ Of(events("server")', "RequestClose") = {}
      /\ Of(events("server")', "NotifyError") = {}
  BY <1>3, <1>5, EventsSent
<1>7. wire["server"] = <<>> /\ (open => wire["client"] = <<>> /\ status("client") = "Connecting")
  BY <1>1 DEF LinkInv, HandshakeInv
<1>8. /\ open' = open /\ DOMAIN wire' = Sides /\ wire'["server"] = <<>>
      /\ wire'["client"] = IF open THEN out ELSE wire["client"]
  <2>1. /\ open' = open /\ DOMAIN wire' = Sides /\ wire'["server"] = wire["server"]
        /\ wire'["client"] = IF open THEN wire["client"] \o Sent(events("server")') ELSE wire["client"]
    BY <1>1, <1>6, BothSides, TwoSides, Transmitted
  <2>2. <<>> \o out = out
    BY <1>5, JoinList
  <2> QED BY <1>6, <1>7, <2>1, <2>2
<1>9. On("server")' = {} /\ On("client")' = IF open THEN {Connack(sp)} \cup Stored("server") ELSE On("client")
  BY <1>5, <1>8, EmptyList DEF On
<1>10. Connack(sp).type \notin Requests \cup Responses
  BY DEF Connack, Requests, Responses
<1>11. ExchangeInv("server")'
  <2>1. Answered("server")' = {}
    BY <1>9 DEF Answered
  <2>2. Asked("server")' \subseteq Stored("server")
    <3>1. Asked("server") \subseteq Stored("server")
      BY BothSides, TwoSides DEF ExchangeInv, InStep
    <3> QED BY <1>9, <1>10, <3>1, TwoSides DEF Asked
  <2> QED BY <1>1, <1>3, <1>4, <2>1, <2>2, BothSides, TwoSides, ResentExchange DEF Kept, Stays
<1>12. ExchangeInv("client")'
  <2>1. Asked("client")' = {}
    BY <1>9, TwoSides DEF Asked
  <2>2. Answered("client")' \subseteq Answered("client")
    BY <1>9, <1>10, BothSides, TwoSides DEF Answered
  <2>3. MessagesInv
    BY DEF LinkInv
  <2> QED BY <1>1, <1>3, <1>4, <2>1, <2>2, <2>3, BothSides, TwoSides, QuietExchange DEF Kept, Stays
<1>13. \A s \in Sides : Kept(s) /\ StoreInv(s)' /\ ExchangeInv(s)' /\ Of(events(s)', "NotifyError") = {}
  <2>1. StoreInv("client")' /\ StoreInv("server")'
    BY <1>1, <1>3, <1>4, BothSides, TwoSides, StoreSame DEF Kept, Stays
  <2> QED BY <1>3, <1>4, <1>6, <1>11, <1>12, <2>1, NoEvents DEF Sides, Stays
<1>14. TransportInv'
  <2>1. \A s \in Sides : wire'[s] \in Seq((On(s))') /\ Once(wire'[s])
    BY <1>5, <1>8, BothSides, TwoSides, EmptyList DEF Sides, On, List
  <2>2. \A s \in Sides : Configured(s) <=> Configured(s)'
    BY <1>13 DEF Configured, Kept
  <2>3. "client" \notin attached => status("client")' = "Disconnected" /\ wire'["client"] = <<>>
    BY <1>4, <1>8, TwoSides DEF LinkInv, TransportInv, Stays
  <2> QED BY <1>1, <1>8, <2>1, <2>2, <2>3 DEF LinkInv, TransportInv, Sides
<1>15. HandshakeInv'
  <2>1. status("client")' = status("client") /\ status("server")' = "Connected"
    BY <1>3, <1>4 DEF Stays
  <2>2. Exchanges(wire'["server"]) /\ (open => wire'["client"] # <<>>)
    BY <1>5, <1>8, EmptyList DEF Exchanges, ConnackThenRequests
  <2>3. status("client") = "Disconnected" => wire'["client"] = <<>> /\ "client" \notin attached
    BY <1>1, <1>7, <1>8 DEF LinkInv, HandshakeInv
  <2>4. status("client") = "Connecting" => wire'["client"] = <<>> \/ ConnackThenRequests(wire'["client"])
    BY <1>5, <1>8 DEF LinkInv, HandshakeInv
  <2>5. status("client") = "Connected" => Exchanges(wire'["client"])
    BY <1>7, <1>8 DEF LinkInv, HandshakeInv
  <2>6. open' => status("client") # "Disconnected"
    BY <1>7, <1>8
  <2> QED BY <1>1, <1>8, <2>1, <2>2, <2>3, <2>4, <2>5, <2>6 DEF HandshakeInv
<1>16. SessionInv'
  <2>1. session \in {{}, {"server"}, Sides}
    BY DEF LinkInv, SessionInv
  <2>2. session' \in {{"server"}, Sides} /\ "server" \in session'
    BY <1>1, <2>1 DEF Sides
  <2>3. "client" \notin session' => store("client")' = <<>> /\ held'["client"] = 0 /\ status("client")' # "Connected"
    BY <1>1, <1>4, TwoSides DEF LinkInv, SessionInv, Stays, Kept
  <2>4. ASSUME Connack(FALSE) \in On("client")' PROVE "client" \notin session'
    <3>1. CASE open
      <4>1. Connack(FALSE).type \notin Requests
        BY DEF Connack, Requests
      <4>2. Connack(FALSE) = Connack(sp)
        BY <1>9, <2>4, <3>1, <4>1, BothSides, TwoSides
      <4>3. Connack(FALSE).session_present = FALSE /\ Connack(sp).session_present = sp
        BY DEF Connack
      <4>4. sp = FALSE
        BY <4>2, <4>3
      <4> QED BY <1>1, <2>1, <4>4 DEF Sides, sp
    <3>2. CASE ~open
      BY <1>1, <1>9, <2>4, <3>2 DEF LinkInv, SessionInv
    <3> QED BY <3>1, <3>2
  <2> QED BY <2>2, <2>3, <2>4 DEF SessionInv, Sides
<1> QED BY <1>1, <1>13, <1>14, <1>15, <1>16, BothSides, TwoSides, QuietLink DEF Kept

\* What Receive does, whatever arrives.
LEMMA Received ==
  ASSUME LinkInv, NEW side \in Sides, Receive(side)
  PROVE  /\ side \in attached /\ wire[side] # <<>> /\ Configured(side) /\ attached' = attached
         /\ recv(side, Head(wire[side])) /\ Transmits(side, Tail(wire[side])) /\ Reports(side)
         /\ Stays(Other(side)) /\ held' = held /\ owner' = owner /\ accepted' = accepted
         /\ session' = IF Notified(events(side)', "connack") # {} THEN session \cup {side} ELSE session
         /\ Head(wire[side]) = wire[side][1] /\ 1 \in DOMAIN wire[side] /\ Head(wire[side]) \in On(side)
         /\ List(Tail(wire[side])) /\ C!ToSet(Tail(wire[side])) \subseteq On(side) /\ Once(Tail(wire[side]))
         /\ \A x \in C!ToSet(Tail(wire[side])) : ~Alike(Head(wire[side]), x)
<1>1. /\ side \in attached /\ wire[side] # <<>> /\ attached' = attached
      /\ recv(side, Head(wire[side])) /\ Transmits(side, Tail(wire[side])) /\ Reports(side)
      /\ held' = held /\ owner' = owner /\ accepted' = accepted
      /\ session' = IF Notified(events(side)', "connack") # {} THEN session \cup {side} ELSE session
  BY DEF Receive
<1>2. Stays(Other(side))
  BY <1>1, BothSides, Others, IdleStays DEF recv
<1> QED BY <1>1, <1>2, BothSides, TailList DEF On

\* CONNECT arrives.
LEMMA ConnectArrives ==
  ASSUME LinkInv, Receive("server"), status("server") = "Disconnected"
  PROVE  LinkInv' /\ Abstractly
<1>1. wire["server"] = <<Connect>>
  BY Received, TwoSides DEF LinkInv, HandshakeInv
<1>2. Head(wire["server"]) = Connect /\ Tail(wire["server"]) = <<>>
  BY <1>1
<1>3. /\ recv("server", Connect) /\ Transmits("server", <<>>) /\ Reports("server") /\ Stays("client")
      /\ held' = held /\ owner' = owner /\ accepted' = accepted /\ attached' = attached
  BY <1>2, Received, TwoSides
<1>4. /\ Kept("server") /\ status("server")' = "Connecting" /\ ids("server")' = ids("server")
      /\ events("server")' = <<ReceivedEv(Connect)>>
  BY <1>3, BothSides, TwoSides, ServerConnects
<1>5. /\ Sent(events("server")') = <<>> /\ Released(events("server")') = {}
      /\ Notified(events("server")', "publish") = {} /\ Notified(events("server")', "connack") = {}
      /\ Of(events("server")', "RequestClose") = {} /\ Of(events("server")', "NotifyError") = {}
  <2>1. events("server")' = Append(SendAll(<<>>), ReceivedEv(Connect))
    BY <1>4, SendNone, Appends
  <2>2. Connect.type # "publish" /\ Connect.type # "connack"
    BY DEF Connect
  <2> QED BY <2>1, <2>2, EmptyList, EventsReceived
<1>6. /\ open' = open /\ DOMAIN wire' = Sides /\ wire'["server"] = <<>> /\ wire'["client"] = wire["client"]
  <2>1. /\ open' = open /\ DOMAIN wire' = Sides /\ wire'["server"] = <<>>
        /\ wire'["client"] = IF open THEN wire["client"] \o <<>> ELSE wire["client"]
    BY <1>3, <1>5, BothSides, TwoSides, Transmitted
  <2>2. wire["client"] \o <<>> = wire["client"]
    BY BothSides, TwoSides, JoinList
  <2> QED BY <2>1, <2>2
<1>7. session' = session
  BY <1>5, Received, TwoSides
<1>8. QuietMessages
  BY <1>3, <1>5, NothingReported, TwoSides DEF LinkInv, QuietMessages
<1>9. \A s \in Sides : On(s)' \subseteq On(s) /\ List(wire'[s]) /\ Once(wire'[s])
  BY <1>6, EmptyList, BothSides, TwoSides DEF On, Sides
<1>10. \A s \in Sides : Asked(s)' \subseteq Asked(s) /\ Answered(s)' \subseteq Answered(s)
  BY <1>9, FewerPackets, Others
<1>11. \A s \in Sides : Kept(s) /\ StoreInv(s)' /\ Of(events(s)', "NotifyError") = {}
  <2>1. StoreInv("client")' /\ StoreInv("server")'
    BY <1>3, <1>4, BothSides, TwoSides, StoreSame DEF Kept, Stays
  <2> QED BY <1>3, <1>4, <1>5, <2>1, NoEvents DEF Sides, Stays
<1>12. TransportInv'
  <2>1. \A s \in Sides : wire'[s] \in Seq((On(s))') /\ Once(wire'[s])
    BY <1>9 DEF On, List
  <2>2. \A s \in Sides : Configured(s) <=> Configured(s)'
    BY <1>11 DEF Configured, Kept
  <2>3. "client" \notin attached => status("client")' = "Disconnected" /\ wire'["client"] = <<>>
    BY <1>3, <1>6, TwoSides DEF LinkInv, TransportInv, Stays
  <2>4. "server" \in attached
    BY Received, TwoSides
  <2> QED BY <1>3, <1>6, <2>1, <2>2, <2>3, <2>4 DEF LinkInv, TransportInv, Sides
<1>13. HandshakeInv'
  <2>1. status("client")' = status("client") /\ status("server")' = "Connecting"
    BY <1>3, <1>4 DEF Stays
  <2>2. wire["server"] # <<>>
    BY <1>1
  <2>3. HandshakeInv
    BY DEF LinkInv
  <2>4. status("client") = "Disconnected" => "client" \notin attached
    BY <2>2, <2>3 DEF HandshakeInv
  <2>5. open => wire["client"] = <<>> /\ status("client") = "Connecting"
    <3>1. open => "client" \in attached
      BY BothSides, TwoSides
    <3> QED BY <2>3, <2>4, <3>1, BothSides, TwoSides DEF HandshakeInv
  <2> QED BY <1>3, <1>6, <2>1, <2>3, <2>4, <2>5 DEF HandshakeInv
<1>14. SessionInv'
  <2>1. On("client")' = On("client")
    BY <1>6 DEF On
  <2>2. \A s \in Sides : /\ store(s)' = store(s)
                         /\ (status(s) # "Connected" => status(s)' # "Connected")
    BY <1>3, <1>4 DEF Sides, Kept, Stays
  <2> QED BY <1>3, <1>6, <1>7, <2>1, <2>2 DEF LinkInv, SessionInv
<1> QED BY <1>3, <1>8, <1>10, <1>11, <1>12, <1>13, <1>14, BothSides, TwoSides, QuietStep DEF Kept

\* A client that is not in the session has no ids to lose.
LEMMA NothingToClear ==
  ASSUME NEW i, Awaited(i, {}, 0)
  PROVE  C!clear_ids(i) = i
<1>1. /\ i \in IdsType /\ i.man = {} /\ i.puback = {} /\ i.pubrec = {} /\ i.pubcomp = {}
  BY AwaitedIff
<1> QED BY <1>1 DEF C!clear_ids, IdsType

\* CONNACK arrives.
LEMMA ConnackArrives ==
  ASSUME LinkInv, Receive("client"), status("client") = "Connecting"
  PROVE  LinkInv' /\ Abstractly
<1> DEFINE w == wire["client"]
           st == store("client")
<1>1. ConnackThenRequests(w) /\ HandshakeInv
  BY Received, TwoSides DEF LinkInv, HandshakeInv
<1>2. PICK sp \in BOOLEAN : Head(w) = Connack(sp)
  BY <1>1, Received, TwoSides DEF ConnackThenRequests
<1>3. /\ recv("client", Connack(sp)) /\ Transmits("client", Tail(w)) /\ Reports("client") /\ Stays("server")
      /\ held' = held /\ owner' = owner /\ accepted' = accepted /\ attached' = attached
      /\ Connack(sp) \in On("client") /\ w # <<>>
      /\ List(Tail(w)) /\ Once(Tail(w)) /\ C!ToSet(Tail(w)) \subseteq On("client")
  BY <1>2, Received, TwoSides
<1>4. ~sp => st = <<>> /\ C!clear_ids(ids("client")) = ids("client")
  <2> HAVE ~sp
  <2>1. Connack(FALSE) \in On("client")
    BY <1>3
  <2>2. st = <<>> /\ held["client"] = 0
    BY <2>1, TwoSides DEF LinkInv, SessionInv
  <2>3. Awaited(ids("client"), {}, 0)
    BY <2>2, BothSides, TwoSides, EmptyList DEF StoreInv, Stored
  <2> QED BY <2>2, <2>3, NothingToClear
<1>5. /\ Kept("client") /\ status("client")' = "Connected" /\ ids("client")' = ids("client")
      /\ events("client")' = Append(SendAll(st), ReceivedEv(Connack(sp)))
  BY <1>3, <1>4, BothSides, TwoSides, ClientAnswered
<1>6. List(st) /\ Once(st) /\ Exchanges(st)
  BY BothSides, TwoSides, StoreOnce DEF Stored
<1>7. /\ Sent(events("client")') = st /\ Released(events("client")') = {}
      /\ Notified(events("client")', "publish") = {} /\ Notified(events("client")', "connack") # {}
      /\ Of(events("client")', "RequestClose") = {} /\ Of(events("client")', "NotifyError") = {}
  <2> DEFINE k == Connack(sp)
  <2>1. k.type = "connack"
    BY DEF Connack
  <2>2. List(st) /\ events("client")' = Append(SendAll(st), ReceivedEv(k))
    BY <1>5, <1>6
  <2> HIDE DEF st, k
  <2>3. /\ Sent(events("client")') = st /\ Released(events("client")') = {}
        /\ \A t : Notified(events("client")', t) = IF k.type = t THEN {k} ELSE {}
        /\ Of(events("client")', "RequestClose") = {} /\ Of(events("client")', "NotifyError") = {}
    BY <2>2, EventsReceived
  <2> QED BY <2>1, <2>3
<1>8. session' = Sides
  <2>1. session' = session \cup {"client"}
    BY <1>7, Received, TwoSides
  <2>2. "server" \in session /\ session \subseteq Sides
    BY <1>3 DEF LinkInv, SessionInv, Sides
  <2> QED BY <2>1, <2>2 DEF Sides
<1>9. QuietMessages
  BY <1>3, <1>7, NothingReported, TwoSides DEF LinkInv, QuietMessages
<1>10. \A i \in DOMAIN Tail(w) : Tail(w)[i].type \in Requests
  BY <1>1, <1>3, BothSides, TwoSides, TailList DEF ConnackThenRequests
<1>11. \A x \in C!ToSet(Tail(w)) : x.type \in Requests
  <2> DEFINE t == Tail(w)
  <2>1. List(t) /\ \A i \in DOMAIN t : t[i].type \in Requests
    BY <1>3, <1>10
  <2> HIDE DEF t
  <2>2. \A x \in C!ToSet(t) : x.type \in Requests
    BY <2>1, ListFacts
  <2> QED BY <2>2 DEF t
<1>12. open => status("server") = "Connected" /\ wire["server"] = <<>>
  <2> HAVE open
  <2>1. status("server") = "Connected"
    BY <1>1, <1>3, BothSides, TwoSides DEF HandshakeInv
  <2>2. Exchanges(wire["server"]) /\ wire["server"] \in {<<>>, <<Connect>>}
    BY <1>1, <2>1 DEF HandshakeInv
  <2>3. ~Exchanges(<<Connect>>)
    <3>1. Connect.type \notin Requests \cup Responses
      BY DEF Connect, Requests, Responses
    <3> QED BY <3>1, OneList DEF Exchanges
  <2> QED BY <2>1, <2>2, <2>3
<1>13. /\ open' = open /\ DOMAIN wire' = Sides /\ wire'["client"] = Tail(w)
       /\ wire'["server"] = IF open THEN st ELSE wire["server"]
  <2>1. /\ open' = open /\ DOMAIN wire' = Sides /\ wire'["client"] = Tail(w)
        /\ wire'["server"] = IF open THEN wire["server"] \o st ELSE wire["server"]
    BY <1>3, <1>7, BothSides, TwoSides, Transmitted
  <2>2. <<>> \o st = st
    BY <1>6, JoinList
  <2> QED BY <1>12, <2>1, <2>2
<1>14. On("client")' = C!ToSet(Tail(w)) /\ On("server")' = IF open THEN Stored("client") ELSE On("server")
  BY <1>13 DEF On, Stored
<1>15. ExchangeInv("client")'
  <2>1. Answered("client")' = {}
    BY <1>11, <1>14 DEF Answered, Requests, Responses
  <2>2. Asked("client")' \subseteq Stored("client")
    <3>1. Asked("client") \subseteq Stored("client")
      BY BothSides, TwoSides DEF ExchangeInv, InStep
    <3> QED BY <1>14, <3>1, TwoSides DEF Asked
  <2> QED BY <1>3, <1>5, <1>9, <2>1, <2>2, BothSides, TwoSides, ResentExchange DEF Kept, Stays
<1>16. ExchangeInv("server")'
  <2>1. Asked("server")' \subseteq Asked("server")
    BY <1>3, <1>14, TwoSides DEF Asked
  <2>2. Answered("server")' \subseteq Answered("server")
    BY <1>14, BothSides, TwoSides DEF Answered
  <2>3. MessagesInv
    BY DEF LinkInv
  <2> QED BY <1>3, <1>5, <1>9, <2>1, <2>2, <2>3, BothSides, TwoSides, QuietExchange DEF Kept, Stays
<1>17. \A s \in Sides : Kept(s) /\ StoreInv(s)' /\ ExchangeInv(s)' /\ Of(events(s)', "NotifyError") = {}
  <2>1. StoreInv("client")' /\ StoreInv("server")'
    BY <1>3, <1>5, BothSides, TwoSides, StoreSame DEF Kept, Stays
  <2> QED BY <1>3, <1>5, <1>7, <1>15, <1>16, <2>1, NoEvents DEF Sides, Stays
<1>18. TransportInv'
  <2>1. \A s \in Sides : wire'[s] \in Seq((On(s))') /\ Once(wire'[s])
    BY <1>3, <1>6, <1>13, BothSides, TwoSides DEF Sides, On, List
  <2>2. \A s \in Sides : Configured(s) <=> Configured(s)'
    BY <1>17 DEF Configured, Kept
  <2>3. "server" \notin attached => status("server")' = "Disconnected" /\ wire'["server"] = <<>>
    BY <1>3, <1>12, <1>13, BothSides, TwoSides DEF LinkInv, TransportInv, Stays
  <2>4. "client" \in attached
    BY Received, TwoSides
  <2> QED BY <1>3, <1>13, <2>1, <2>2, <2>3, <2>4 DEF LinkInv, TransportInv, Sides
<1>19. HandshakeInv'
  <2>1. status("server")' = status("server") /\ status("client")' = "Connected"
    BY <1>3, <1>5 DEF Stays
  <2>2. Exchanges(wire'["client"])
    BY <1>10, <1>13 DEF Exchanges
  <2>3. ~open => wire'["server"] = wire["server"]
    BY <1>13
  <2>4. open => status("server")' = "Connected" /\ Exchanges(wire'["server"])
    BY <1>6, <1>12, <1>13, <2>1
  <2>5. CASE open
    BY <1>13, <2>1, <2>2, <2>4, <2>5 DEF HandshakeInv
  <2>6. CASE ~open
    BY <1>1, <1>13, <2>1, <2>2, <2>3, <2>6 DEF HandshakeInv
  <2> QED BY <2>5, <2>6
<1>20. SessionInv'
  <2>1. Connack(FALSE).type \notin Requests
    BY DEF Connack, Requests
  <2>2. Connack(FALSE) \notin On("client")'
    BY <1>11, <1>14, <2>1
  <2> QED BY <1>8, <2>2, TwoSides DEF SessionInv
<1> QED BY <1>3, <1>9, <1>17, <1>18, <1>19, <1>20, BothSides, TwoSides, QuietLink DEF Kept

\* A packet of an exchange at the end of those on the way.
LEMMA AppendExchanges ==
  ASSUME NEW w, List(w), NEW p
  PROVE  /\ Exchanges(w) /\ p.type \in Requests \cup Responses => Exchanges(Append(w, p))
         /\ ConnackThenRequests(w) /\ p.type \in Requests => ConnackThenRequests(Append(w, p))
<1> DEFINE v == Append(w, p)
<1>1. /\ DOMAIN v = DOMAIN w \cup {Len(w) + 1}
      /\ \A i \in DOMAIN w : v[i] = w[i]
      /\ v[Len(w) + 1] = p /\ v # <<>>
      /\ (w # <<>>) => (v[1] = w[1] /\ Len(w) + 1 # 1)
  BY AppendList
<1> HIDE DEF v
<1> QED BY <1>1 DEF Exchanges, ConnackThenRequests, v

\* A connected side goes on while the other can read what it sends.
LEMMA HandshakeGoesOn ==
  ASSUME LinkInv, NEW side \in Sides, status(side) = "Connected",
         \A s \in Sides : status(s)' = status(s), open' = open, attached' = attached,
         Exchanges(wire'[side]), wire[side] = <<>> => wire'[side] = <<>>,
         ~open => wire'[Other(side)] = wire[Other(side)],
         open => \/ status(Other(side)) = "Connected" /\ Exchanges(wire'[Other(side)])
                 \/ side = "server" /\ status("client") = "Connecting"
                    /\ ConnackThenRequests(wire'["client"])
  PROVE  HandshakeInv'
<1>1. HandshakeInv /\ status("client")' = status("client") /\ status("server")' = status("server")
  BY TwoSides DEF LinkInv
<1>2. CASE side = "client"
  <2>1. /\ status("client") = "Connected" /\ Exchanges(wire'["client"])
        /\ ~open => wire'["server"] = wire["server"]
        /\ open => status("server") = "Connected" /\ Exchanges(wire'["server"])
    BY <1>2, TwoSides
  <2> QED BY <1>1, <2>1 DEF HandshakeInv
<1>3. CASE side = "server"
  <2>1. /\ status("server") = "Connected" /\ Exchanges(wire'["server"])
        /\ wire["server"] = <<>> => wire'["server"] = <<>>
        /\ ~open => wire'["client"] = wire["client"]
        /\ open => \/ status("client") = "Connected" /\ Exchanges(wire'["client"])
                   \/ status("client") = "Connecting" /\ ConnackThenRequests(wire'["client"])
    BY <1>3, TwoSides
  <2>2. status("client") = "Connecting" => wire'["server"] = <<>>
    <3>1. Connect.type \notin Requests \cup Responses
      BY DEF Connect, Requests, Responses
    <3>2. ~Exchanges(<<Connect>>)
      BY <3>1, OneList DEF Exchanges
    <3> QED BY <1>1, <2>1, <3>2 DEF HandshakeInv
  <2>3. ConnackThenRequests(wire'["client"]) => wire'["client"] # <<>>
    BY DEF ConnackThenRequests
  <2> QED BY <1>1, <2>1, <2>2, <2>3 DEF HandshakeInv
<1> QED BY <1>2, <1>3 DEF Sides

\* HandshakeInv depends on the states of the sides and of the transport only.
LEMMA SameHandshake ==
  ASSUME LinkInv, \A s \in Sides : status(s)' = status(s) /\ wire'[s] = wire[s],
         open' = open, attached' = attached
  PROVE  HandshakeInv'
<1>1. /\ status("client")' = status("client") /\ status("server")' = status("server")
      /\ wire'["client"] = wire["client"] /\ wire'["server"] = wire["server"] /\ HandshakeInv
  BY TwoSides DEF LinkInv
<1> QED BY <1>1 DEF HandshakeInv

\* The fields of a PUBLISH.
LEMMA PublishFields ==
  ASSUME NEW m, NEW pid, NEW p, p = Publish(m, pid)
  PROVE  /\ p.type = "publish" /\ p.pid = pid /\ p.qos = m.qos /\ p.topic = m.name /\ p.size = C!AckSize
         /\ p.type \in Requests /\ p.type \notin Responses
<1>1. p.type = "publish" /\ p.pid = pid /\ p.qos = m.qos /\ p.topic = m.name /\ p.size = C!AckSize
  BY DEF Publish
<1>2. p.type \in Requests /\ p.type \notin Responses
  BY <1>1 DEF Requests, Responses
<1> QED BY <1>1, <1>2

\* The application publishes.
LEMMA AppPublishStep ==
  ASSUME LinkInv, CarefulSides, NEW m \in Messages, AppPublish(m)
  PROVE  LinkInv' /\ Abstractly
<1> DEFINE side == m.from
           o == Other(side)
           pid == held[side]
           p == Publish(m, pid)
           goes == open /\ status(side) = "Connected"
<1>1. /\ side \in Sides /\ o \in Sides /\ o # side /\ Sides = {side, o} /\ Other(o) = side
      /\ m.qos \in {1, 2}
  <2>1. side \in Sides /\ m.qos \in {1, 2}
    BY LinkAssumption
  <2> HIDE DEF side
  <2> QED BY <2>1, Others
<1>2. /\ m \notin accepted /\ pid # 0 /\ MayPublish(side) /\ send(side, p) /\ Transmits(side, wire[side])
      /\ held' = [held EXCEPT ![side] = 0] /\ attached' = attached /\ session' = session
      /\ delivered' = delivered /\ settled' = settled
  BY DEF AppPublish
<1>3. IF Of(events(side)', "NotifyError") = {}
      THEN accepted' = accepted \cup {m} /\ owner' = [owner EXCEPT ![side][pid] = m]
      ELSE UNCHANGED <<accepted, owner>>
  BY DEF AppPublish
<1>5. p = Publish(m, pid)
  OBVIOUS
<1> HIDE DEF side, o, p
<1>4. p.pid = pid /\ p.type = "publish" /\ p.type \in Requests /\ p.type \notin Responses /\ p # Connack(FALSE)
  <2>1. p.pid = pid /\ p.type = "publish" /\ p.type \in Requests /\ p.type \notin Responses
    BY <1>5, PublishFields
  <2>2. Connack(FALSE).type = "connack"
    BY DEF Connack
  <2> QED BY <2>1, <2>2
<1>6. /\ Configured(side) /\ side \in session
      /\ status(side) # "Disconnected" \/ opts(side).offline_publish
      /\ link(side).protocol_version # "Undetermined"
  BY <1>2 DEF MayPublish, CarefulSides, Configured, status
<1>7. Plain(side) /\ Plain(o) /\ StoreInv(side) /\ StoreInv(o) /\ ExchangeInv(side) /\ ExchangeInv(o) /\ MessagesInv
  BY <1>1 DEF LinkInv
<1>8. sess(side).need_store
  BY <1>6, <1>7 DEF Plain
<1>9. pid \in ids(side).man /\ (\A q \in Stored(side) : q.pid # pid) /\ pid \in C!PacketIds
  <2>1. Awaited(ids(side), Stored(side), pid)
    BY <1>7 DEF StoreInv
  <2>2. pid \in ids(side).man /\ ids(side) \in IdsType
    BY <1>2, <2>1, AwaitedIff
  <2> QED BY <1>7, <2>2 DEF StoreInv, IdsType
<1> HIDE DEF pid
<1>10. /\ ids(side)' = [ids(side) EXCEPT !.puback = IF m.qos = 1 THEN @ \cup {pid} ELSE @,
                                         !.pubrec = IF m.qos = 2 THEN @ \cup {pid} ELSE @]
       /\ sess(side)' = Session(Append(store(side), p), handled(side))
       /\ Frame(side) /\ flow(side)' = flow(side)
       /\ status(side) = "Connected" => events(side)' = <<SendEv(p)>>
       /\ status(side) # "Connected" => events(side)' = <<>>
  <2>1. /\ side \in Sides /\ Plain(side) /\ sess(side).need_store
        /\ status(side) # "Disconnected" \/ opts(side).offline_publish
        /\ link(side).protocol_version # "Undetermined"
        /\ pid \in ids(side).man /\ (\A q \in Stored(side) : q.pid # pid)
        /\ p = Publish(m, pid) /\ send(side, p)
    BY <1>1, <1>2, <1>5, <1>6, <1>7, <1>8, <1>9 DEF pid
  <2> QED BY <2>1, SendPublish, ZenonT(60)
<1>11. /\ Plain(side)' /\ status(side)' = status(side) /\ opts(side)' = opts(side)
       /\ store(side)' = Append(store(side), p) /\ handled(side)' = handled(side)
  <2>1. flow(side)' = NoFlow(flow(side)'.recv)
    BY <1>7, <1>10 DEF Plain
  <2> QED BY <1>7, <1>10, <2>1, PlainFrame
<1>12. Stays(o)
  BY <1>1, <1>2, <1>7, IdleStays DEF send, o
<1>13. /\ Of(events(side)', "NotifyError") = {} /\ Of(events(side)', "RequestClose") = {}
       /\ Sent(events(side)') = IF status(side) = "Connected" THEN <<p>> ELSE <<>>
  <2>1. CASE status(side) = "Connected"
    <3>1. events(side)' = SendAll(<<p>>)
      BY <1>10, <2>1, SendOne
    <3> QED BY <2>1, <3>1, OneList, EventsSent
  <2>2. CASE status(side) # "Connected"
    BY <1>10, <2>2, NoEvents
  <2> QED BY <2>1, <2>2
<1>14. accepted' = accepted \cup {m} /\ owner' = [owner EXCEPT ![side][pid] = m]
  BY <1>3, <1>13 DEF pid
<1>15. /\ open' = open /\ DOMAIN wire' = Sides /\ wire'[side] = wire[side]
       /\ wire'[o] = IF goes THEN Append(wire[o], p) ELSE wire[o]
  <2>1. DOMAIN wire = Sides /\ open \in BOOLEAN /\ List(wire[o])
    BY <1>1, BothSides
  <2>2. /\ open' = open /\ DOMAIN wire' = Sides /\ wire'[side] = wire[side]
        /\ wire'[o] = IF open THEN wire[o] \o Sent(events(side)') ELSE wire[o]
    BY <1>1, <1>2, <1>13, <2>1, Transmitted DEF o
  <2>3. wire[o] \o <<>> = wire[o] /\ wire[o] \o <<p>> = Append(wire[o], p)
    BY <2>1, JoinList
  <2> QED BY <1>13, <2>2, <2>3
<1>16. On(side)' = On(side) /\ On(o)' = IF goes THEN On(o) \cup {p} ELSE On(o)
  <2>1. C!ToSet(Append(wire[o], p)) = C!ToSet(wire[o]) \cup {p}
    BY <1>1, BothSides, AppendList
  <2> QED BY <1>15, <2>1 DEF On
<1> HIDE DEF goes
<1>17. Stored(side)' = Stored(side) \cup {p} /\ List(store(side)') /\ DistinctIds(store(side)')
  BY <1>1, <1>4, <1>9, <1>11, BothSides, AppendList, AppendDistinct DEF Stored
<1>18. DOMAIN held' = Sides /\ held'[side] = 0 /\ held'[o] = held[o]
  BY <1>1, <1>2, BothSides
<1>19. StoreInv(side)' /\ StoreInv(o)'
  <2>1. Awaited(ids(side), Stored(side), pid)
    BY <1>7 DEF StoreInv, pid
  <2>2. Awaited(ids(side)', Stored(side)', 0)
    <3>1. Awaited(ids(side)', Stored(side) \cup {Publish(m, pid)}, 0)
      <4> DEFINE i == ids(side)
                 j == ids(side)'
      <4>1. /\ Awaited(i, Stored(side), pid) /\ m.qos \in {1, 2} /\ pid \in C!PacketIds
            /\ j = Awaiting(i, m, pid)
        BY <1>1, <1>9, <1>10, <2>1 DEF Awaiting
      <4> HIDE DEF i, j
      <4>2. Awaited(j, Stored(side) \cup {Publish(m, pid)}, 0)
        BY <4>1, AwaitedAdd
      <4> QED BY <4>2 DEF j
    <3> QED BY <1>5, <1>17, <3>1
  <2>3. \A q \in Stored(side)' : q.pid # 0
    BY <1>1, <1>4, <1>9, <1>17, BothSides, Numbers
  <2>4. StoreInv(side)'
    BY <1>17, <1>18, <2>2, <2>3, Numbers DEF StoreInv, List, Stored
  <2>5. StoreInv(o)'
    BY <1>1, <1>7, <1>12, <1>18, StoreSame DEF Stays, Kept
  <2> QED BY <2>4, <2>5
<1>20. /\ accepted \subseteq Messages /\ settled \subseteq accepted /\ delivered[m] = 0
       /\ owner \in [Sides -> [C!PacketIds -> Messages \cup {NoMessage}]]
  BY <1>2, <1>7 DEF MessagesInv
<1>21. /\ owner'[side] = [owner[side] EXCEPT ![pid] = m] /\ owner'[o] = owner[o]
       /\ owner' \in [Sides -> [C!PacketIds -> Messages \cup {NoMessage}]]
  BY <1>1, <1>9, <1>14, <1>20
<1>22. ExchangeInv(side)'
  <2> DEFINE Q == Stored(side)
             A == Asked(side)
             R == Answered(side)
             H == handled(o)
             own == owner[side]
             live == accepted \ settled
             A2 == Asked(side)'
  <2>1. Books(side, Q, own, live, delivered) /\ InStep(Q, A, R, H, own, delivered)
    BY <1>7 DEF ExchangeInv, o
  <2>2. A2 \in SUBSET (A \cup {Publish(m, pid)})
    BY <1>5, <1>16 DEF Asked, o
  <2>3. Answered(side)' = R
    BY <1>16 DEF Answered
  <2>4. handled(o)' = H
    BY <1>12 DEF Stays, Kept
  <2>5. accepted' \ settled' = live \cup {m} /\ m \notin live
    BY <1>2, <1>14, <1>20
  <2>6. own \in [C!PacketIds -> Messages \cup {NoMessage}]
    BY <1>1, <1>20
  <2>7. m.from = side /\ \A q \in Q : q.pid # pid
    BY <1>9 DEF side
  <2> HIDE DEF Q, A, R, H, own, live, A2
  <2>8. /\ Books(side, Q \cup {Publish(m, pid)}, [own EXCEPT ![pid] = m], live \cup {m}, delivered)
        /\ InStep(Q \cup {Publish(m, pid)}, A2, R, H, [own EXCEPT ![pid] = m], delivered)
    BY <1>1, <1>9, <1>20, <2>1, <2>2, <2>5, <2>6, <2>7, NewMessage
  <2>9. Stored(side)' = Q \cup {Publish(m, pid)} /\ owner'[side] = [own EXCEPT ![pid] = m]
    BY <1>5, <1>17, <1>21 DEF Q, own
  <2> QED BY <1>2, <2>3, <2>4, <2>5, <2>8, <2>9 DEF ExchangeInv, A2, o
<1>23. ExchangeInv(o)'
  <2>1. accepted' \subseteq Messages /\ owner'[o] = owner[o]
    BY <1>14, <1>20, <1>21
  <2>2. store(o)' = store(o) /\ handled(Other(o))' = handled(Other(o))
    BY <1>1, <1>11, <1>12 DEF Stays, Kept
  <2>3. \A n \in Messages : n.from = o =>
          delivered'[n] = delivered[n] /\ (n \in accepted' \ settled' <=> n \in accepted \ settled)
    BY <1>1, <1>2, <1>14 DEF side
  <2>4. Asked(o)' \subseteq Asked(o) /\ Answered(o)' \subseteq Answered(o)
    BY <1>1, <1>4, <1>16 DEF Asked, Answered
  <2> QED BY <1>1, <1>7, <2>1, <2>2, <2>3, <2>4, ExchangeSame
<1>24. MessagesInv'
  <2>1. accepted' \subseteq Messages /\ settled' \subseteq accepted' /\ delivered' \in [Messages -> 0..2]
    BY <1>2, <1>7, <1>14 DEF MessagesInv
  <2>2. \A n \in Messages \ accepted' : delivered'[n] = 0
    BY <1>2, <1>7, <1>14 DEF MessagesInv
  <2> QED BY <1>18, <1>21, <2>1, <2>2 DEF MessagesInv
<1>25. \A s \in Sides : status(s)' = status(s) /\ opts(s)' = opts(s) /\ Of(events(s)', "NotifyError") = {}
  BY <1>1, <1>11, <1>12, <1>13, NoEvents DEF Stays, Kept
<1>26. TransportInv'
  <2>1. List(wire'[side]) /\ Once(wire'[side])
    BY <1>1, <1>15, BothSides
  <2>2. List(wire'[o]) /\ Once(wire'[o])
    <3>1. List(wire[o]) /\ Once(wire[o])
      BY <1>1, BothSides
    <3>2. \A x \in C!ToSet(wire[o]) : ~Alike(x, p)
      <4>1. Asked(side) \subseteq Stored(side)
        BY <1>7 DEF ExchangeInv, InStep
      <4>2. \A x \in C!ToSet(wire[o]) : x.type \in Requests => x.pid # pid
        BY <1>9, <4>1 DEF Asked, On, o
      <4> QED BY <1>4, <4>2 DEF Alike
    <3>3. List(Append(wire[o], p)) /\ Once(Append(wire[o], p))
      BY <3>1, <3>2, AppendList, AppendOnce
    <3> QED BY <1>15, <3>1, <3>3
  <2>3. \A s \in Sides : wire'[s] \in Seq((On(s))') /\ Once(wire'[s])
    BY <1>1, <2>1, <2>2 DEF List, On
  <2>4. \A s \in Sides : Configured(s)' <=> Configured(s)
    BY <1>25 DEF Configured
  <2>5. o \notin attached => ~goes
    BY <1>1, BothSides DEF goes
  <2>6. \A s \in Sides \ attached : status(s)' = "Disconnected" /\ wire'[s] = <<>>
    BY <1>1, <1>15, <1>25, <2>5 DEF LinkInv, TransportInv
  <2> QED BY <1>2, <1>15, <2>3, <2>4, <2>6 DEF LinkInv, TransportInv
<1>27. HandshakeInv'
  <2>1. CASE ~goes
    BY <1>1, <1>2, <1>15, <1>25, <2>1, SameHandshake
  <2>2. CASE goes
    <3>1. open /\ status(side) = "Connected" /\ HandshakeInv /\ wire'[o] = Append(wire[o], p) /\ List(wire[o])
      BY <1>1, <1>15, <2>2, BothSides DEF goes, LinkInv
    <3>2. Exchanges(wire'[side])
      BY <1>1, <1>15, <3>1 DEF HandshakeInv, Sides
    <3>3. \/ status(o) = "Connected" /\ Exchanges(wire[o])
          \/ side = "server" /\ status("client") = "Connecting" /\ ConnackThenRequests(wire["client"])
      <4>1. CASE side = "client"
        <5>1. o = "server" /\ status("server") \in {"Disconnected", "Connecting", "Connected"}
          BY <4>1, TwoSides, BothSides DEF o
        <5> QED BY <3>1, <4>1, <5>1 DEF HandshakeInv
      <4>2. CASE side = "server"
        <5>1. o = "client" /\ status("client") \in {"Disconnected", "Connecting", "Connected"}
          BY <4>2, TwoSides, BothSides DEF o
        <5> QED BY <3>1, <4>2, <5>1 DEF HandshakeInv
      <4> QED BY <1>1, <4>1, <4>2 DEF Sides
    <3>4. \/ status(o) = "Connected" /\ Exchanges(wire'[o])
          \/ side = "server" /\ status("client") = "Connecting" /\ ConnackThenRequests(wire'["client"])
      BY <1>4, <3>1, <3>3, TwoSides, AppendExchanges DEF o
    <3> QED BY <1>1, <1>2, <1>15, <1>25, <3>1, <3>2, <3>4, HandshakeGoesOn DEF o
  <2> QED BY <2>1, <2>2
<1>28. SessionInv'
  <2>1. \A s \in Sides : s \notin session => store(s)' = store(s) /\ held'[s] = held[s] /\ status(s)' = status(s)
    BY <1>1, <1>6, <1>12, <1>18, <1>25 DEF Stays, Kept
  <2>2. Connack(FALSE) \in On("client")' => Connack(FALSE) \in On("client")
    BY <1>1, <1>4, <1>16 DEF Sides
  <2>3. wire'["client"] # <<>> => wire["client"] # <<>> \/ side = "server"
    BY <1>1, <1>15 DEF Sides
  <2>4. wire'["client"] # <<>> => "server" \in session
    BY <1>6, <2>3 DEF LinkInv, SessionInv
  <2> QED BY <1>2, <2>1, <2>2, <2>4 DEF LinkInv, SessionInv
<1>29. D!Next
  <2>1. D!Accept(m)
    BY <1>2, <1>14 DEF D!Accept
  <2> QED BY <2>1 DEF D!Next
<1>30. \A s \in Sides : Plain(s)' /\ StoreInv(s)' /\ ExchangeInv(s)'
  BY <1>1, <1>11, <1>12, <1>19, <1>22, <1>23 DEF Stays, Kept
<1>31. NoError'
  BY <1>25 DEF NoError
<1> QED BY <1>24, <1>26, <1>27, <1>28, <1>29, <1>30, <1>31 DEF LinkInv, Abstractly

\* While the transport carries packets, a side that reads an exchange has a connected peer.
LEMMA PeerConnected ==
  ASSUME LinkInv, NEW side \in Sides, status(side) = "Connected", wire[side] # <<>>, open
  PROVE  status(Other(side)) = "Connected"
<1>1. HandshakeInv
  BY DEF LinkInv
<1>2. CASE side = "client"
  <2>1. status("server") \in {"Disconnected", "Connecting", "Connected"} /\ Other(side) = "server"
    BY <1>2, BothSides, TwoSides
  <2> QED BY <1>1, <1>2, <2>1 DEF HandshakeInv
<1>3. CASE side = "server"
  <2>1. status("client") \in {"Disconnected", "Connecting", "Connected"} /\ Other(side) = "client"
    BY <1>3, BothSides, TwoSides
  <2>2. ~Exchanges(<<Connect>>)
    <3>1. Connect.type \notin Requests \cup Responses
      BY DEF Connect, Requests, Responses
    <3> QED BY <3>1, OneList DEF Exchanges
  <2> QED BY <1>1, <1>3, <2>1, <2>2 DEF HandshakeInv
<1> QED BY <1>2, <1>3 DEF Sides

\* Nothing is sent, or one packet of an exchange that none on the way is like.
Replies(side, x) ==
  /\ \/ Sent(events(side)') = <<>>
     \/ /\ Sent(events(side)') = <<x>> /\ x.type \in Requests \cup Responses
        /\ \A y \in On(Other(side)) : ~Alike(y, x)
  /\ Of(events(side)', "RequestClose") = {} /\ Of(events(side)', "NotifyError") = {}
  /\ Notified(events(side)', "connack") = {}

\* The transport after a reply.
LEMMA ReplyWires ==
  ASSUME LinkInv, NEW side \in Sides, Receive(side), status(side) = "Connected",
         NEW x, Replies(side, x)
  PROVE  /\ open' = open /\ DOMAIN wire' = Sides /\ wire'[side] = Tail(wire[side])
         /\ \A s \in Sides : List(wire'[s]) /\ Once(wire'[s])
         /\ On(side)' \subseteq On(side) /\ On(Other(side))' \subseteq On(Other(side)) \cup C!ToSet(Sent(events(side)'))
         /\ \A y \in On(side)' : ~Alike(Head(wire[side]), y)
         /\ ~open => wire'[Other(side)] = wire[Other(side)]
         /\ open => Exchanges(wire'[Other(side)]) /\ status(Other(side)) = "Connected"
         /\ Exchanges(wire'[side]) /\ session' = session
         /\ \A y \in On(Other(side))' \ On(Other(side)) : y.type \in Requests \cup Responses
<1> DEFINE o == Other(side)
           w == wire[o]
           sent == Sent(events(side)')
<1>1. /\ o \in Sides /\ o # side /\ Sides = {side, o} /\ List(w) /\ Once(w) /\ DOMAIN wire = Sides
      /\ open \in BOOLEAN
  BY Others, BothSides
<1>2. /\ Transmits(side, Tail(wire[side])) /\ wire[side] # <<>>
      /\ List(Tail(wire[side])) /\ C!ToSet(Tail(wire[side])) \subseteq On(side) /\ Once(Tail(wire[side]))
      /\ \A y \in C!ToSet(Tail(wire[side])) : ~Alike(Head(wire[side]), y)
      /\ session' = IF Notified(events(side)', "connack") # {} THEN session \cup {side} ELSE session
  BY Received
<1>3. /\ open' = open /\ DOMAIN wire' = Sides /\ wire'[side] = Tail(wire[side])
      /\ wire'[o] = IF open THEN w \o sent ELSE w
  BY <1>1, <1>2, Transmitted DEF Replies
<1>4. On(side)' = C!ToSet(Tail(wire[side]))
  BY <1>3 DEF On
<1>5. /\ List(w \o sent) /\ Once(w \o sent) /\ C!ToSet(w \o sent) = C!ToSet(w) \cup C!ToSet(sent)
      /\ Exchanges(w) => Exchanges(w \o sent)
      /\ \A y \in C!ToSet(sent) : y.type \in Requests \cup Responses
  <2>1. CASE sent = <<>>
    BY <1>1, <2>1, JoinList, EmptyList
  <2>2. CASE sent # <<>>
    <3>1. sent = <<x>> /\ x.type \in Requests \cup Responses /\ \A y \in C!ToSet(w) : ~Alike(y, x)
      BY <2>2 DEF Replies, On
    <3> HIDE DEF w, sent
    <3>2. w \o sent = Append(w, x)
      BY <1>1, <3>1, JoinList
    <3>3. List(Append(w, x)) /\ Once(Append(w, x)) /\ C!ToSet(Append(w, x)) = C!ToSet(w) \cup {x}
      BY <1>1, <3>1, AppendList, AppendOnce
    <3>4. Exchanges(w) => Exchanges(Append(w, x))
      BY <1>1, <3>1, AppendExchanges
    <3>5. C!ToSet(sent) = {x}
      BY <3>1, OneList
    <3> QED BY <3>1, <3>2, <3>3, <3>4, <3>5
  <2> QED BY <2>1, <2>2
<1>6. On(o)' \subseteq On(o) \cup C!ToSet(sent) /\ \A y \in On(o)' \ On(o) : y.type \in Requests \cup Responses
  BY <1>3, <1>5 DEF On
<1>7. open => status(o) = "Connected" /\ Exchanges(w)
  <2> HAVE open
  <2>1. status(o) = "Connected"
    BY <1>2, PeerConnected
  <2> QED BY <1>1, <2>1 DEF LinkInv, HandshakeInv, Sides
<1>8. Exchanges(Tail(wire[side]))
  <2>1. Exchanges(wire[side])
    BY DEF LinkInv, HandshakeInv, Sides
  <2> QED BY <1>1, <1>2, <2>1, BothSides, TailList DEF Exchanges
<1>9. session' = session
  BY <1>2 DEF Replies
<1> QED BY <1>1, <1>2, <1>3, <1>4, <1>5, <1>6, <1>7, <1>8, <1>9

\* A step of a connected side that reads one packet and replies keeps what LinkInv says of
\* the transport, the handshake and the session.
LEMMA ReplyStep ==
  ASSUME LinkInv, NEW side \in Sides, Receive(side), status(side) = "Connected",
         NEW x, Replies(side, x),
         Plain(side)', status(side)' = status(side), opts(side)' = opts(side),
         StoreInv(side)', ExchangeInv(side)', ExchangeInv(Other(side))', MessagesInv'
  PROVE  LinkInv'
<1> DEFINE o == Other(side)
<1>1. o \in Sides /\ o # side /\ Sides = {side, o}
  BY Others
<1> HIDE DEF o
<1>2. Stays(o) /\ attached' = attached /\ held' = held /\ side \in attached /\ wire[side] # <<>>
  BY Received DEF o
<1>3. /\ open' = open /\ DOMAIN wire' = Sides
      /\ \A s \in Sides : List(wire'[s]) /\ Once(wire'[s])
      /\ ~open => wire'[o] = wire[o]
      /\ open => Exchanges(wire'[o]) /\ status(o) = "Connected"
      /\ Exchanges(wire'[side]) /\ session' = session
      /\ On(side)' \subseteq On(side)
      /\ \A y \in On(o)' \ On(o) : y.type \in Requests \cup Responses
  BY ReplyWires DEF o
<1>4. /\ \A s \in Sides : status(s)' = status(s) /\ opts(s)' = opts(s) /\ Of(events(s)', "NotifyError") = {}
  BY <1>1, <1>2, NoEvents DEF Stays, Kept, Replies
<1>5. TransportInv'
  <2>1. \A s \in Sides : wire'[s] \in Seq((On(s))') /\ Once(wire'[s])
    BY <1>3 DEF List, On
  <2>2. \A s \in Sides : Configured(s)' <=> Configured(s)
    BY <1>4 DEF Configured
  <2>3. o \notin attached => ~open
    BY <1>1, BothSides
  <2>4. \A s \in Sides \ attached : status(s)' = "Disconnected" /\ wire'[s] = <<>>
    BY <1>1, <1>2, <1>3, <1>4, <2>3 DEF LinkInv, TransportInv
  <2> QED BY <1>2, <1>3, <2>1, <2>2, <2>4 DEF LinkInv, TransportInv
<1>6. HandshakeInv'
  BY <1>2, <1>3, <1>4, HandshakeGoesOn DEF o
<1>7. SessionInv'
  <2>1. side \in session
    BY DEF LinkInv, SessionInv
  <2>2. \A s \in Sides : s \notin session => store(s)' = store(s) /\ held'[s] = held[s] /\ status(s)' = status(s)
    BY <1>1, <1>2, <2>1 DEF Stays, Kept
  <2>3. Connack(FALSE) \in On("client")' => Connack(FALSE) \in On("client")
    <3>1. Connack(FALSE).type \notin Requests \cup Responses
      BY DEF Connack, Requests, Responses
    <3> QED BY <1>1, <1>3, <3>1 DEF Sides
  <2>4. wire'["client"] # <<>> => "server" \in session
    <3>1. session \in {{}, {"server"}, Sides}
      BY DEF LinkInv, SessionInv
    <3> QED BY <2>1, <3>1 DEF Sides
  <2> QED BY <1>3, <2>2, <2>3, <2>4 DEF LinkInv, SessionInv
<1>8. \A s \in Sides : Plain(s)' /\ StoreInv(s)' /\ ExchangeInv(s)'
  <2>1. StoreInv(o)'
    BY <1>1, <1>2, BothSides, StoreSame DEF Stays, Kept
  <2> QED BY <1>1, <1>2, <2>1 DEF Stays, Kept, o
<1>9. NoError'
  BY <1>4 DEF NoError
<1> QED BY <1>5, <1>6, <1>7, <1>8, <1>9 DEF LinkInv

\* PUBLISH arrives.
LEMMA PublishStep ==
  ASSUME LinkInv, NEW side \in Sides, Receive(side), status(side) = "Connected",
         Head(wire[side]).type = "publish"
  PROVE  LinkInv' /\ Abstractly
<1> DEFINE o == Other(side)
           p == Head(wire[side])
           pid == p.pid
           m == owner[o][pid]
           ack == C!Ack(C!response_packet(p), pid)
           again == p.qos = 2 /\ pid \in handled(side)
           Q == Stored(o)
           A == Asked(o)
           R == Answered(o)
           H == handled(side)
           own == owner[o]
           live == accepted \ settled
<1>1. o \in Sides /\ o # side /\ Sides = {side, o} /\ Other(o) = side
  BY Others
<1>2. /\ Plain(side) /\ StoreInv(side) /\ ExchangeInv(side) /\ ExchangeInv(o) /\ MessagesInv
      /\ Stays(o) /\ held' = held /\ owner' = owner /\ accepted' = accepted
      /\ recv(side, p) /\ Reports(side) /\ p \in On(side) /\ opts(side).auto_pub_response
  BY <1>1, Received DEF LinkInv, Configured
<1>3. Books(o, Q, own, live, delivered) /\ InStep(Q, A, R, H, own, delivered)
  BY <1>1, <1>2 DEF ExchangeInv
<1>4. p \in A /\ p \in Q /\ p.type = "publish"
  BY <1>1, <1>2, <1>3 DEF Asked, Requests, InStep
<1>5. /\ p = Publish(m, pid) /\ m \in live /\ m.from = o /\ m \in Messages /\ m.qos \in {1, 2}
      /\ C!response_packet(p) \in Responses
  <2>1. /\ C!response_packet(p) = "pubcomp" => p = C!Ack("pubrel", pid)
        /\ C!response_packet(p) # "pubcomp" => p = Publish(m, pid)
        /\ m \in live /\ m.from = o /\ C!response_packet(p) \in Responses
    BY <1>1, <1>3, <1>4, Types
  <2>2. C!Ack("pubrel", pid).type = "pubrel"
    BY DEF C!Ack
  <2>3. p = Publish(m, pid)
    BY <1>4, <2>1, <2>2
  <2>4. m \in Messages
    BY <1>2, <2>1 DEF MessagesInv
  <2>5. m.qos \in {1, 2}
    BY <2>4, LinkAssumption
  <2> QED BY <2>1, <2>3, <2>4, <2>5
<1> HIDE DEF o, p, m
<1>6. p.pid = pid /\ p.qos = m.qos /\ p.topic = m.name
  BY <1>5, PublishFields
<1> HIDE DEF pid
<1>7. /\ ids(side)' = ids(side)
      /\ sess(side)' = Session(store(side), handled(side) \cup (IF p.qos = 2 THEN {pid} ELSE {}))
      /\ Frame(side) /\ flow(side)' = NoFlow(flow(side)'.recv)
      /\ again => events(side)' = <<SendEv(ack)>>
      /\ ~again => events(side)' = <<SendEv(ack), ReceivedEv(p)>>
  BY <1>2, <1>5, RecvPublish
<1>8. /\ Plain(side)' /\ status(side)' = status(side) /\ opts(side)' = opts(side)
      /\ store(side)' = store(side) /\ handled(side)' = handled(side) \cup (IF p.qos = 2 THEN {pid} ELSE {})
  BY <1>2, <1>7, PlainFrame
<1>9. ack.type \in Responses /\ ack.type \notin Requests /\ ack.pid = pid
  BY <1>5 DEF C!Ack, Requests, Responses
<1> HIDE DEF ack
<1>10. /\ Sent(events(side)') = <<ack>> /\ Released(events(side)') = {}
       /\ Notified(events(side)', "publish") = IF again THEN {} ELSE {p}
       /\ Notified(events(side)', "connack") = {}
       /\ Of(events(side)', "RequestClose") = {} /\ Of(events(side)', "NotifyError") = {}
  <2>1. CASE again
    <3>1. events(side)' = SendAll(<<ack>>)
      BY <1>7, <2>1, SendOne
    <3> QED BY <2>1, <3>1, OneList, EventsSent
  <2>2. CASE ~again
    <3>1. events(side)' = Append(SendAll(<<ack>>), ReceivedEv(p))
      BY <1>7, <2>2, SendOne, Appends
    <3> QED BY <1>4, <2>2, <3>1, OneList, EventsReceived, ZenonT(60)
  <2> QED BY <2>1, <2>2
<1>11. Replies(side, ack)
  <2>1. \A y \in On(o) : ~Alike(y, ack)
    <3>1. \A y \in On(o) : y.type \in Responses => y.pid # p.pid
      BY <1>1, <1>3, <1>4 DEF InStep, Answered
    <3> QED BY <1>6, <1>9, <3>1 DEF Alike
  <2> QED BY <1>9, <1>10, <2>1 DEF Replies, o
<1>12. /\ On(side)' \subseteq On(side) /\ On(o)' \subseteq On(o) \cup {ack}
       /\ \A y \in On(side)' : ~Alike(p, y)
  BY <1>10, <1>11, ReplyWires, OneList DEF o, p
<1>13. settled' = settled /\ delivered \in [Messages -> 0..2]
  BY <1>2, <1>10 DEF Reports, MessagesInv
<1>14. /\ delivered' \in [Messages -> 0..2]
       /\ \A n \in Messages : n # m => delivered'[n] = delivered[n]
       /\ delivered'[m] = IF again THEN delivered[m] ELSE D!Again(delivered[m])
       /\ again => delivered' = delivered
       /\ ~again => delivered' = [delivered EXCEPT ![m] = D!Again(@)]
  <2>1. CASE again
    BY <1>2, <1>10, <1>13, <2>1, NothingReported
  <2>2. CASE ~again
    <3>1. {q.topic : q \in Notified(events(side)', "publish")} = {m.name}
      BY <1>6, <1>10, <2>2
    <3>2. delivered' = [n \in Messages |-> IF n.name \in {m.name} THEN D!Again(delivered[n]) ELSE delivered[n]]
      BY <1>2, <3>1 DEF Reports
    <3>3. \A n \in Messages : n.name \in {m.name} <=> n = m
      BY <1>5, LinkAssumption
    <3>4. delivered' = [n \in Messages |-> IF n = m THEN D!Again(delivered[n]) ELSE delivered[n]]
      BY <3>2, <3>3
    <3>5. \A k \in 0..2 : D!Again(k) \in 0..2
      BY DEF D!Again
    <3>6. delivered' = [delivered EXCEPT ![m] = D!Again(@)]
      BY <1>13, <3>4
    <3>7. delivered' \in [Messages -> 0..2]
      BY <1>13, <3>4, <3>5
    <3>8. /\ \A n \in Messages : n # m => delivered'[n] = delivered[n]
          /\ delivered'[m] = D!Again(delivered[m])
      BY <1>5, <3>4
    <3> QED BY <2>2, <3>6, <3>7, <3>8
  <2> QED BY <2>1, <2>2
<1>15. ExchangeInv(o)'
  <2> DEFINE A2 == Asked(o)'
             R2 == Answered(o)'
             H2 == handled(side)'
             dlv2 == delivered'
  <2>1. A2 \in SUBSET A /\ \A y \in A2 : y.pid # p.pid
    <3>1. A2 \subseteq A
      BY <1>1, <1>12 DEF Asked
    <3>2. \A y \in A2 : y.pid # p.pid
      BY <1>1, <1>4, <1>12 DEF Asked, Alike, Requests
    <3> QED BY <3>1, <3>2
  <2>2. R2 \in SUBSET (R \cup {ack})
    BY <1>12 DEF Answered
  <2>3. H2 = IF p.qos = 2 THEN H \cup {p.pid} ELSE H
    BY <1>6, <1>8
  <2>4. ack = C!Ack(C!response_packet(p), p.pid)
    BY <1>6 DEF ack
  <2>5. live \subseteq Messages /\ dlv2 \in [Messages -> 0..2]
    BY <1>2, <1>14 DEF MessagesInv
  <2>6. /\ \A n \in Messages : n # own[p.pid] => dlv2[n] = delivered[n]
        /\ dlv2[own[p.pid]] = IF p.qos = 2 /\ p.pid \in H THEN delivered[own[p.pid]]
                              ELSE D!Again(delivered[own[p.pid]])
    BY <1>6, <1>14 DEF m
  <2>7. Stored(o)' = Q /\ owner'[o] = own /\ accepted' \ settled' = live
    BY <1>2, <1>13 DEF Stays, Kept, Stored
  <2> HIDE DEF Q, A, R, H, own, live, A2, R2, H2, dlv2
  <2>8. Books(o, Q, own, live, dlv2) /\ InStep(Q, A2, R2, H2, own, dlv2)
    BY <1>1, <1>3, <1>4, <1>13, <2>1, <2>2, <2>3, <2>4, <2>5, <2>6, PublishArrives, SMTT(30)
  <2> QED BY <1>1, <2>7, <2>8 DEF ExchangeInv, A2, R2, H2, dlv2
<1>16. ExchangeInv(side)'
  <2>1. store(side)' = store(side) /\ handled(Other(side))' = handled(Other(side)) /\ owner'[side] = owner[side]
    BY <1>2, <1>8 DEF Stays, Kept, o
  <2>2. \A n \in Messages : n.from = side =>
          delivered'[n] = delivered[n] /\ (n \in accepted' \ settled' <=> n \in accepted \ settled)
    BY <1>1, <1>2, <1>5, <1>13, <1>14
  <2>3. Asked(side)' \subseteq Asked(side) /\ Answered(side)' \subseteq Answered(side)
    BY <1>9, <1>12 DEF Asked, Answered, o
  <2>4. accepted' \subseteq Messages
    BY <1>2 DEF MessagesInv
  <2> QED BY <1>2, <2>1, <2>2, <2>3, <2>4, ExchangeSame
<1>17. MessagesInv'
  <2>1. \A n \in Messages \ accepted' : delivered'[n] = 0
    BY <1>2, <1>5, <1>14 DEF MessagesInv
  <2> QED BY <1>2, <1>13, <1>14, <2>1 DEF MessagesInv
<1>18. StoreInv(side)'
  BY <1>2, <1>7, <1>8, StoreSame
<1>19. LinkInv'
  BY <1>8, <1>11, <1>15, <1>16, <1>17, <1>18, ReplyStep DEF o
<1>20. Abstractly
  <2>1. CASE again
    BY <1>2, <1>13, <1>14, <2>1 DEF Abstractly
  <2>2. CASE ~again
    <3>1. [n \in Messages |-> n.qos][m] = m.qos
      BY <1>5
    <3>2. m.qos = 2 => delivered[m] = 0
      <4> HAVE m.qos = 2
      <4>1. C!response_packet(p) = "pubrec"
        BY <1>4, <1>6, PublishResponse
      <4>2. delivered[own[p.pid]] = IF p.pid \in H THEN 1 ELSE 0
        BY <1>3, <1>4, <4>1 DEF InStep
      <4> QED BY <1>6, <2>2, <4>2 DEF m
    <3>3. D!Deliver(m)
      BY <1>2, <1>5, <1>13, <1>14, <2>2, <3>1, <3>2 DEF D!Deliver
    <3> QED BY <1>5, <3>3 DEF D!Next, Abstractly
  <2> QED BY <2>1, <2>2
<1> QED BY <1>19, <1>20

\* One packet is sent and one is handed to the application.
LEMMA SentAndReceived ==
  ASSUME NEW x, NEW r, r.type \notin {"publish", "connack"}, NEW evs, evs = <<SendEv(x), ReceivedEv(r)>>
  PROVE  /\ Sent(evs) = <<x>> /\ Released(evs) = {}
         /\ Notified(evs, "publish") = {} /\ Notified(evs, "connack") = {}
         /\ Of(evs, "RequestClose") = {} /\ Of(evs, "NotifyError") = {}
<1>1. evs = Append(SendAll(<<x>>), ReceivedEv(r))
  BY SendOne, Appends
<1>2. /\ Sent(evs) = <<x>> /\ Released(evs) = {}
      /\ \A t : Notified(evs, t) = IF r.type = t THEN {r} ELSE {}
      /\ Of(evs, "RequestClose") = {} /\ Of(evs, "NotifyError") = {}
  BY <1>1, OneList, EventsReceived
<1> QED BY <1>2

\* PUBREL arrives.
LEMMA PubrelStep ==
  ASSUME LinkInv, NEW side \in Sides, Receive(side), status(side) = "Connected",
         Head(wire[side]).type = "pubrel"
  PROVE  LinkInv' /\ Abstractly
<1> DEFINE o == Other(side)
           p == Head(wire[side])
           Q == Stored(o)
           A == Asked(o)
           R == Answered(o)
           H == handled(side)
           own == owner[o]
           live == accepted \ settled
<1>1. o \in Sides /\ o # side /\ Sides = {side, o} /\ Other(o) = side
  BY Others
<1>2. /\ Plain(side) /\ StoreInv(side) /\ ExchangeInv(side) /\ ExchangeInv(o) /\ MessagesInv
      /\ Stays(o) /\ held' = held /\ owner' = owner /\ accepted' = accepted
      /\ recv(side, p) /\ Reports(side) /\ p \in On(side) /\ opts(side).auto_pub_response
  BY <1>1, Received DEF LinkInv, Configured
<1>3. Books(o, Q, own, live, delivered) /\ InStep(Q, A, R, H, own, delivered)
  BY <1>1, <1>2 DEF ExchangeInv
<1>4. p \in A /\ p \in Q /\ p.type = "pubrel"
  BY <1>1, <1>2, <1>3 DEF Asked, Requests, InStep
<1>5. p.size = C!AckSize
  BY <1>1, <1>3, <1>4, Types
<1> HIDE DEF o, p
<1>6. /\ ids(side)' = ids(side)
      /\ sess(side)' = Session(store(side), handled(side) \ {p.pid})
      /\ Frame(side) /\ flow(side)' = NoFlow(flow(side)'.recv)
      /\ \E ok \in BOOLEAN :
           events(side)' = <<SendEv([type |-> "pubcomp", pid |-> p.pid, ok |-> ok, size |-> C!AckSize]),
                             ReceivedEv(p)>>
  BY <1>2, <1>4, <1>5, RecvPubrel
<1>7. PICK ok \in BOOLEAN :
        events(side)' = <<SendEv([type |-> "pubcomp", pid |-> p.pid, ok |-> ok, size |-> C!AckSize]),
                          ReceivedEv(p)>>
  BY <1>6
<1> DEFINE ack == [type |-> "pubcomp", pid |-> p.pid, ok |-> ok, size |-> C!AckSize]
<1>8. /\ Plain(side)' /\ status(side)' = status(side) /\ opts(side)' = opts(side)
      /\ store(side)' = store(side) /\ handled(side)' = handled(side) \ {p.pid}
  BY <1>2, <1>6, PlainFrame
<1>9. ack.type \in Responses /\ ack.type \notin Requests /\ ack.pid = p.pid
  BY DEF Requests, Responses
<1>10. events(side)' = <<SendEv(ack), ReceivedEv(p)>>
  BY <1>7
<1> HIDE DEF ack
<1>11. /\ Sent(events(side)') = <<ack>> /\ Released(events(side)') = {}
       /\ Notified(events(side)', "publish") = {} /\ Notified(events(side)', "connack") = {}
       /\ Of(events(side)', "RequestClose") = {} /\ Of(events(side)', "NotifyError") = {}
  BY <1>4, <1>10, SentAndReceived
<1>12. Replies(side, ack)
  <2>1. \A y \in On(o) : ~Alike(y, ack)
    <3>1. \A y \in On(o) : y.type \in Responses => y.pid # p.pid
      BY <1>1, <1>3, <1>4 DEF InStep, Answered
    <3> QED BY <1>9, <3>1 DEF Alike
  <2> QED BY <1>9, <1>11, <2>1 DEF Replies, o
<1>13. /\ On(side)' \subseteq On(side) /\ On(o)' \subseteq On(o) \cup {ack}
       /\ \A y \in On(side)' : ~Alike(p, y)
  BY <1>11, <1>12, ReplyWires, OneList DEF o, p
<1>14. QuietMessages
  BY <1>2, <1>11, NothingReported DEF QuietMessages
<1>15. ExchangeInv(o)'
  <2> DEFINE A2 == Asked(o)'
             R2 == Answered(o)'
             H2 == handled(side)'
  <2>1. A2 \in SUBSET A /\ \A y \in A2 : y.pid # p.pid
    <3>1. A2 \subseteq A
      BY <1>1, <1>13 DEF Asked
    <3>2. \A y \in A2 : y.pid # p.pid
      BY <1>1, <1>4, <1>13 DEF Asked, Alike, Requests
    <3> QED BY <3>1, <3>2
  <2>2. R2 \in SUBSET (R \cup {ack})
    BY <1>13 DEF Answered
  <2>3. H2 = H \ {p.pid}
    BY <1>8
  <2>4. ack = [type |-> "pubcomp", pid |-> p.pid, ok |-> ok, size |-> C!AckSize]
    BY DEF ack
  <2>5. /\ Stored(o)' = Q /\ owner'[o] = own /\ accepted' \ settled' = live /\ delivered' = delivered
    BY <1>2, <1>14 DEF Stays, Kept, Stored, QuietMessages
  <2> HIDE DEF Q, A, R, H, own, live, A2, R2, H2
  <2>6. InStep(Q, A2, R2, H2, own, delivered)
    BY <1>1, <1>3, <1>4, <2>1, <2>2, <2>3, <2>4, PubrelArrives
  <2> QED BY <1>1, <1>3, <2>5, <2>6 DEF ExchangeInv, A2, R2, H2
<1>16. ExchangeInv(side)'
  <2>1. store(side)' = store(side) /\ handled(Other(side))' = handled(Other(side))
    BY <1>2, <1>8 DEF Stays, Kept, o
  <2>2. Asked(side)' \subseteq Asked(side) /\ Answered(side)' \subseteq Answered(side)
    BY <1>9, <1>13 DEF Asked, Answered, o
  <2> QED BY <1>2, <1>14, <2>1, <2>2, QuietExchange
<1>17. MessagesInv'
  BY <1>2, <1>14, QuietMessagesInv DEF MessagesInv
<1>18. StoreInv(side)'
  BY <1>2, <1>6, <1>8, StoreSame
<1>19. LinkInv'
  BY <1>8, <1>12, <1>15, <1>16, <1>17, <1>18, ReplyStep DEF o
<1>20. Abstractly
  BY <1>14 DEF Abstractly, QuietMessages
<1> QED BY <1>19, <1>20

\* What a response finds at the sender.
LEMMA ResponseFound ==
  ASSUME LinkInv, NEW side \in Sides, NEW r \in On(side), r.type \in Responses
  PROVE  /\ r \in Answered(side) /\ r.size = C!AckSize
         /\ r.pid \in ids(side)[r.type] /\ r.pid \in ids(side).man
         /\ \E q \in Stored(side) :
              /\ q.pid = r.pid /\ C!response_packet(q) = r.type /\ q.pid \in C!PacketIds
              /\ \A y \in Stored(side) : y.pid = q.pid => y = q
<1>1. r \in Answered(side)
  BY DEF Answered
<1>2. PICK q \in Stored(side) : Answers(r, q, handled(Other(side)), owner[side], delivered)
  BY <1>1 DEF LinkInv, ExchangeInv, InStep
<1>3. /\ q.pid = r.pid /\ C!response_packet(q) = r.type
      /\ r = [type |-> r.type, pid |-> r.pid, ok |-> r.ok, size |-> C!AckSize]
  BY <1>2 DEF Answers
<1>4. r.size = C!AckSize
  BY <1>3
<1>5. /\ \A y \in Stored(side) : y.pid = q.pid => y = q
      /\ q.pid \in C!PacketIds
  BY DEF LinkInv, ExchangeInv, Books
<1>6. Awaited(ids(side), Stored(side), held[side])
  BY DEF LinkInv, StoreInv
<1>7. r.pid \in ids(side).man
  BY <1>3, <1>6 DEF Awaited
<1>8. r.pid \in ids(side)[r.type]
  BY <1>3, <1>6 DEF Awaited
<1> QED BY <1>1, <1>3, <1>4, <1>5, <1>7, <1>8

\* PUBACK or PUBCOMP arrives: the message is settled.
LEMMA EndStep ==
  ASSUME LinkInv, NEW side \in Sides, Receive(side), status(side) = "Connected",
         Head(wire[side]).type \in {"puback", "pubcomp"}
  PROVE  LinkInv' /\ Abstractly
<1> DEFINE o == Other(side)
           r == Head(wire[side])
           m == owner[side][r.pid]
           Q == Stored(side)
           A == Asked(side)
           R == Answered(side)
           H == handled(o)
           own == owner[side]
           live == accepted \ settled
<1>1. o \in Sides /\ o # side /\ Sides = {side, o} /\ Other(o) = side
  BY Others
<1>2. /\ Plain(side) /\ StoreInv(side) /\ ExchangeInv(side) /\ ExchangeInv(o) /\ MessagesInv
      /\ Stays(o) /\ held' = held /\ owner' = owner /\ accepted' = accepted
      /\ recv(side, r) /\ Reports(side) /\ r \in On(side)
  BY <1>1, Received DEF LinkInv
<1>3. Books(side, Q, own, live, delivered) /\ InStep(Q, A, R, H, own, delivered)
  BY <1>2 DEF ExchangeInv
<1>4. /\ r.type \in {"puback", "pubcomp"} /\ r.type \in Responses
      /\ r.type \notin {"publish", "connack"} /\ r.type \notin Requests
  BY DEF Responses, Requests
<1> HIDE DEF o, r
<1>5. /\ r \in R /\ r.size = C!AckSize /\ r.pid \in ids(side)[r.type] /\ r.pid \in ids(side).man
      /\ \E q \in Q : /\ q.pid = r.pid /\ C!response_packet(q) = r.type /\ q.pid \in C!PacketIds
                      /\ \A y \in Q : y.pid = q.pid => y = q
  BY <1>2, <1>4, ResponseFound
<1>6. PICK q \in Q : /\ q.pid = r.pid /\ C!response_packet(q) = r.type /\ q.pid \in C!PacketIds
                     /\ \A y \in Q : y.pid = q.pid => y = q
  BY <1>5
<1>7. /\ ids(side)' = Freed(ids(side), r)
      /\ sess(side)' = Session(C!erase(store(side), r.type, r.pid), handled(side))
      /\ Frame(side) /\ flow(side)' = flow(side)
      /\ events(side)' = <<ReleasedEv({r.pid}), ReceivedEv(r)>>
  <2>1. Ending(r) /\ Expected(ids(side), r)
    BY <1>4, <1>5 DEF Ending, Expected
  <2> QED BY <1>2, <1>5, <2>1, RecvEnds
<1>8. /\ Plain(side)' /\ status(side)' = status(side) /\ opts(side)' = opts(side)
      /\ store(side)' = C!erase(store(side), r.type, r.pid) /\ handled(side)' = handled(side)
  <2>1. flow(side)' = NoFlow(flow(side)'.recv)
    BY <1>2, <1>7 DEF Plain
  <2> QED BY <1>2, <1>7, <2>1, PlainFrame
<1>9. /\ Sent(events(side)') = <<>> /\ Released(events(side)') = {r.pid}
      /\ Notified(events(side)', "publish") = {} /\ Notified(events(side)', "connack") = {}
      /\ Of(events(side)', "RequestClose") = {} /\ Of(events(side)', "NotifyError") = {}
  <2>1. /\ Sent(events(side)') = <<>> /\ Released(events(side)') = {r.pid}
        /\ \A t : Notified(events(side)', t) = IF r.type = t THEN {r} ELSE {}
        /\ Of(events(side)', "RequestClose") = {} /\ Of(events(side)', "NotifyError") = {}
    BY <1>7, EventsReleased
  <2> QED BY <1>4, <2>1
<1>10. Replies(side, r)
  BY <1>9 DEF Replies
<1>11. /\ On(side)' \subseteq On(side) /\ On(o)' \subseteq On(o)
       /\ \A y \in On(side)' : ~Alike(r, y)
  BY <1>9, <1>10, ReplyWires, EmptyList DEF o, r
<1>12. /\ List(store(side)') /\ Stored(side)' = Q \ {q} /\ DistinctIds(store(side)')
  <2>1. LET e == C!erase(store(side), C!response_packet(q), q.pid)
        IN  List(e) /\ C!ToSet(e) = C!ToSet(store(side)) \ {q} /\ DistinctIds(e)
    BY BothSides, EraseList DEF Stored
  <2> QED BY <1>6, <1>8, <2>1 DEF Stored
<1>13. StoreInv(side)'
  <2> DEFINE i == ids(side)
             j == ids(side)'
             h == held[side]
  <2>1. Awaited(i, Q, h) /\ h # q.pid /\ h \in 0..MaxId /\ \A y \in Q : y.pid # h
    BY <1>2, <1>6 DEF StoreInv
  <2>2. \/ /\ C!response_packet(q) = "puback"
           /\ j = [[i EXCEPT !.puback = @ \ {q.pid}] EXCEPT !.man = @ \ {q.pid}]
        \/ /\ C!response_packet(q) = "pubcomp"
           /\ j = [[i EXCEPT !.pubcomp = @ \ {q.pid}] EXCEPT !.man = @ \ {q.pid}]
    BY <1>4, <1>6, <1>7 DEF Freed
  <2>3. Stored(side)' = Q \ {q}
    BY <1>12, SMTT(30)
  <2> HIDE DEF i, j, h, Q
  <2>4. Awaited(j, Q \ {q}, h)
    BY <1>6, <2>1, <2>2, AwaitedEnd
  <2> QED BY <1>2, <1>12, <2>1, <2>3, <2>4 DEF StoreInv, List, Stored, j, h
<1>14. delivered' = delivered
  <2>1. {p.topic : p \in Notified(events(side)', "publish")} = {}
    BY <1>9
  <2>2. delivered' = [n \in Messages |-> delivered[n]]
    BY <1>2, <2>1 DEF Reports
  <2> QED BY <1>2, <2>2 DEF MessagesInv
<1>15. /\ Books(side, Q \ {q}, own, live \ {m}, delivered)
       /\ InStep(Q \ {q}, Asked(side)', Answered(side)', H, own, delivered)
       /\ Handed(delivered, m) /\ m \in live /\ m.from = side
  <2> DEFINE A2 == Asked(side)'
             R2 == Answered(side)'
  <2>1. A2 \in SUBSET A
    BY <1>11 DEF Asked, o
  <2>2. R2 \in SUBSET R /\ \A y \in R2 : y.pid # r.pid
    BY <1>4, <1>11 DEF Answered, Alike
  <2> HIDE DEF Q, A, R, H, own, live, A2, R2
  <2>3. /\ Books(side, Q \ {q}, own, live \ {own[r.pid]}, delivered)
        /\ InStep(Q \ {q}, A, R2, H, own, delivered)
        /\ Handed(delivered, own[r.pid]) /\ own[r.pid] \in live /\ own[r.pid].from = side
    <3>1. Ending(r) /\ EndOf(Q, R, R2, r, q)
      BY <1>4, <1>5, <1>6, <2>2 DEF Ending, EndOf
    <3> QED BY <1>3, <3>1, ExchangeEnds
  <2>4. InStep(Q \ {q}, A2, R2, H, own, delivered)
    BY <2>1, <2>3, LostPackets
  <2> QED BY <2>3, <2>4 DEF own, A2, R2
<1>16. settled' = settled \cup {m} /\ m \in Messages /\ accepted' \ settled' = live \ {m}
  <2>1. m \in Messages
    BY <1>2, <1>15 DEF MessagesInv
  <2>2. settled' = settled \cup ({owner[side][pid] : pid \in {r.pid}} \cap Messages)
    BY <1>2, <1>9 DEF Reports
  <2>3. {owner[side][pid] : pid \in {r.pid}} = {m}
    OBVIOUS
  <2> QED BY <1>2, <2>1, <2>2, <2>3
<1>17. ExchangeInv(side)'
  <2>1. handled(o)' = H /\ owner'[side] = own
    BY <1>2 DEF Stays, Kept
  <2> QED BY <1>12, <1>14, <1>15, <1>16, <2>1 DEF ExchangeInv, o
<1>18. ExchangeInv(o)'
  <2>1. store(o)' = store(o) /\ handled(Other(o))' = handled(Other(o)) /\ owner'[o] = owner[o]
    BY <1>1, <1>2, <1>8 DEF Stays, Kept
  <2>2. \A n \in Messages : n.from = o =>
          delivered'[n] = delivered[n] /\ (n \in accepted' \ settled' <=> n \in accepted \ settled)
    BY <1>1, <1>14, <1>15, <1>16
  <2>3. Asked(o)' \subseteq Asked(o) /\ Answered(o)' \subseteq Answered(o)
    BY <1>1, <1>11 DEF Asked, Answered
  <2>4. accepted' \subseteq Messages
    BY <1>2 DEF MessagesInv
  <2> QED BY <1>1, <1>2, <2>1, <2>2, <2>3, <2>4, ExchangeSame
<1>19. MessagesInv'
  <2>1. settled' \subseteq accepted'
    BY <1>2, <1>15, <1>16 DEF MessagesInv
  <2> QED BY <1>2, <1>14, <2>1 DEF MessagesInv
<1>20. LinkInv'
  BY <1>8, <1>10, <1>13, <1>17, <1>18, <1>19, ReplyStep DEF o
<1>21. Abstractly
  <2>1. D!Settle(m)
    BY <1>2, <1>14, <1>15, <1>16 DEF D!Settle, Handed
  <2> QED BY <1>16, <2>1 DEF D!Next, Abstractly
<1> QED BY <1>20, <1>21

\* PUBREC arrives.
LEMMA PubrecStep ==
  ASSUME LinkInv, NEW side \in Sides, Receive(side), status(side) = "Connected",
         Head(wire[side]).type = "pubrec"
  PROVE  LinkInv' /\ Abstractly
<1> DEFINE o == Other(side)
           r == Head(wire[side])
           rel == C!Ack("pubrel", r.pid)
           Q == Stored(side)
           A == Asked(side)
           R == Answered(side)
           H == handled(o)
           own == owner[side]
           live == accepted \ settled
<1>1. o \in Sides /\ o # side /\ Sides = {side, o} /\ Other(o) = side
  BY Others
<1>2. /\ Plain(side) /\ StoreInv(side) /\ ExchangeInv(side) /\ ExchangeInv(o) /\ MessagesInv
      /\ Stays(o) /\ held' = held /\ owner' = owner /\ accepted' = accepted
      /\ recv(side, r) /\ Reports(side) /\ r \in On(side) /\ opts(side).auto_pub_response
  BY <1>1, Received DEF LinkInv, Configured
<1>3. Books(side, Q, own, live, delivered) /\ InStep(Q, A, R, H, own, delivered)
  BY <1>2 DEF ExchangeInv
<1>4. r.type = "pubrec" /\ r.type \in Responses /\ r.type \notin {"publish", "connack"} /\ r.type \notin Requests
  BY DEF Responses, Requests
<1> HIDE DEF o, r
<1>5. /\ r \in R /\ r.size = C!AckSize /\ r.pid \in ids(side)[r.type] /\ r.pid \in ids(side).man
      /\ \E q \in Q : /\ q.pid = r.pid /\ C!response_packet(q) = r.type /\ q.pid \in C!PacketIds
                      /\ \A y \in Q : y.pid = q.pid => y = q
  BY <1>2, <1>4, ResponseFound
<1>6. PICK q \in Q : /\ q.pid = r.pid /\ C!response_packet(q) = "pubrec" /\ q.pid \in C!PacketIds
                     /\ \A y \in Q : y.pid = q.pid => y = q
  BY <1>4, <1>5
<1>7. r.pid \in ids(side).pubrec /\ ids(side) \in IdsType
  BY <1>4, <1>5, BothSides
<1>8. LET e == C!erase(store(side), "pubrec", r.pid)
      IN  List(e) /\ C!ToSet(e) = Q \ {q} /\ DistinctIds(e)
  <2>1. LET e == C!erase(store(side), C!response_packet(q), q.pid)
        IN  List(e) /\ C!ToSet(e) = C!ToSet(store(side)) \ {q} /\ DistinctIds(e)
    BY BothSides, EraseList DEF Stored
  <2> QED BY <1>6, <2>1 DEF Stored
<1> DEFINE rest == C!erase(store(side), "pubrec", r.pid)
<1>9. List(rest) /\ C!ToSet(rest) = Q \ {q} /\ DistinctIds(rest)
  BY <1>8
<1>10. \A y \in C!ToSet(rest) : y.pid # r.pid
  BY <1>6, <1>9
<1>11. r.ok = TRUE
  BY <1>3, <1>4, <1>5 DEF InStep, Answers
<1>12. /\ ids(side)' = [[ids(side) EXCEPT !.pubrec = @ \ {r.pid}] EXCEPT !.pubcomp = @ \cup {r.pid}]
       /\ sess(side)' = Session(Append(rest, rel), handled(side))
       /\ Frame(side) /\ flow(side)' = flow(side)
       /\ events(side)' = <<SendEv(rel), ReceivedEv(r)>>
  BY <1>2, <1>4, <1>5, <1>7, <1>10, <1>11, RecvPubrec
<1>13. rel.pid = r.pid /\ rel.type = "pubrel" /\ rel.type \in Requests /\ rel.type \notin Responses
  BY DEF C!Ack, Requests, Responses
<1> HIDE DEF rest, rel
<1>14. /\ Plain(side)' /\ status(side)' = status(side) /\ opts(side)' = opts(side)
       /\ store(side)' = Append(rest, rel) /\ handled(side)' = handled(side)
  <2>1. flow(side)' = NoFlow(flow(side)'.recv)
    BY <1>2, <1>12 DEF Plain
  <2> QED BY <1>2, <1>12, <2>1, PlainFrame
<1>15. /\ Sent(events(side)') = <<rel>> /\ Released(events(side)') = {}
       /\ Notified(events(side)', "publish") = {} /\ Notified(events(side)', "connack") = {}
       /\ Of(events(side)', "RequestClose") = {} /\ Of(events(side)', "NotifyError") = {}
  BY <1>4, <1>12, SentAndReceived
<1>16. Replies(side, rel)
  <2>1. \A y \in On(o) : ~Alike(y, rel)
    <3>1. \A y \in On(o) : y.type \in Requests => y.pid # r.pid
      BY <1>3, <1>5 DEF InStep, Asked, o
    <3> QED BY <1>13, <3>1 DEF Alike
  <2> QED BY <1>13, <1>15, <2>1 DEF Replies, o
<1>17. /\ On(side)' \subseteq On(side) /\ On(o)' \subseteq On(o) \cup {rel}
       /\ \A y \in On(side)' : ~Alike(r, y)
  BY <1>15, <1>16, ReplyWires, OneList DEF o, r
<1>18. QuietMessages
  BY <1>2, <1>15, NothingReported DEF QuietMessages
<1>19. List(store(side)') /\ Stored(side)' = (Q \ {q}) \cup {rel} /\ DistinctIds(store(side)')
  BY <1>9, <1>10, <1>13, <1>14, AppendList, AppendDistinct DEF Stored
<1>20. StoreInv(side)'
  <2> DEFINE i == ids(side)
             j == ids(side)'
             h == held[side]
  <2>1. Awaited(i, Q, h) /\ h \in 0..MaxId /\ \A y \in Q : y.pid # h
    BY <1>2 DEF StoreInv
  <2>2. j = [[i EXCEPT !.pubrec = @ \ {q.pid}] EXCEPT !.pubcomp = @ \cup {q.pid}]
    BY <1>6, <1>12
  <2>3. Stored(side)' = (Q \ {q}) \cup {C!Ack("pubrel", q.pid)}
    BY <1>6, <1>19 DEF rel
  <2>4. \A y \in Stored(side)' : y.pid # h
    BY <1>6, <1>13, <1>19, <2>1
  <2> HIDE DEF i, j, h, Q
  <2>5. Awaited(j, (Q \ {q}) \cup {C!Ack("pubrel", q.pid)}, h)
    BY <1>6, <2>1, <2>2, AwaitedPubrec
  <2> QED BY <1>2, <1>19, <2>1, <2>3, <2>4, <2>5 DEF StoreInv, List, Stored, j, h
<1>21. ExchangeInv(side)'
  <2> DEFINE A2 == Asked(side)'
             R2 == Answered(side)'
  <2>1. A2 \in SUBSET (A \cup {rel})
    BY <1>17 DEF Asked, o
  <2>2. R2 \in SUBSET R /\ \A y \in R2 : y.pid # r.pid
    BY <1>4, <1>17 DEF Answered, Alike
  <2>3. /\ handled(o)' = H /\ owner'[side] = own /\ Stored(side)' = (Q \ {q}) \cup {rel}
        /\ delivered' = delivered /\ accepted' \ settled' = live
    BY <1>2, <1>18, <1>19 DEF Stays, Kept, QuietMessages
  <2>4. rel = C!Ack("pubrel", r.pid) /\ live \subseteq Messages
    BY <1>2 DEF rel, MessagesInv
  <2> HIDE DEF Q, A, R, H, own, live, A2, R2
  <2>5. /\ Books(side, (Q \ {q}) \cup {rel}, own, live, delivered)
        /\ InStep((Q \ {q}) \cup {rel}, A2, R2, H, own, delivered)
    <3>1. EndOf(Q, R, R2, r, q)
      BY <1>5, <1>6, <2>2 DEF EndOf
    <3> QED BY <1>3, <1>4, <2>1, <2>4, <3>1, PubrecArrives
  <2> QED BY <2>3, <2>5 DEF ExchangeInv, A2, R2, o
<1>22. ExchangeInv(o)'
  <2>1. store(o)' = store(o) /\ handled(Other(o))' = handled(Other(o))
    BY <1>1, <1>2, <1>14 DEF Stays, Kept
  <2>2. Asked(o)' \subseteq Asked(o) /\ Answered(o)' \subseteq Answered(o)
    BY <1>1, <1>13, <1>17 DEF Asked, Answered
  <2> QED BY <1>1, <1>2, <1>18, <2>1, <2>2, QuietExchange
<1>23. MessagesInv'
  BY <1>2, <1>18, QuietMessagesInv DEF MessagesInv
<1>24. LinkInv'
  BY <1>14, <1>16, <1>20, <1>21, <1>22, <1>23, ReplyStep DEF o
<1>25. Abstractly
  BY <1>18 DEF Abstractly, QuietMessages
<1> QED BY <1>24, <1>25

-------------------------------------------------------------------------------
\* All steps together, and the initial state.

\* Whatever arrives.
LEMMA ReceiveStep ==
  ASSUME LinkInv, NEW side \in Sides, Receive(side)
  PROVE  LinkInv' /\ Abstractly
<1>1. wire[side] # <<>> /\ Head(wire[side]) = wire[side][1] /\ 1 \in DOMAIN wire[side]
  BY Received
<1>2. CASE status(side) = "Disconnected"
  <2>1. side = "server"
    BY <1>1, <1>2 DEF LinkInv, HandshakeInv, Sides
  <2> QED BY <1>2, <2>1, ConnectArrives
<1>3. CASE status(side) = "Connecting"
  <2>1. side = "client"
    BY <1>1, <1>3 DEF LinkInv, HandshakeInv, Sides
  <2> QED BY <1>3, <2>1, ConnackArrives
<1>4. CASE status(side) = "Connected"
  <2>1. Exchanges(wire[side])
    BY <1>4 DEF LinkInv, HandshakeInv, Sides
  <2>2. Head(wire[side]).type \in {"publish", "pubrel", "puback", "pubcomp", "pubrec"}
    BY <1>1, <2>1 DEF Exchanges, Requests, Responses
  <2> QED BY <1>4, <2>2, PublishStep, PubrelStep, EndStep, PubrecStep
<1> QED BY <1>2, <1>3, <1>4, BothSides

\* Every step of the link.
LEMMA NextStep ==
  ASSUME LinkInv, CarefulSides, Next
  PROVE  LinkInv' /\ Abstractly
<1>1. CASE Open \/ SendConnect \/ SendConnack \/ Break
  BY <1>1, OpenStep, SendConnectStep, SendConnackStep, BreakStep
<1>2. CASE \E side \in Sides : Configure(side) \/ Receive(side) \/ Close(side) \/ Crash(side)
  BY <1>2, ConfigureStep, ReceiveStep, CloseStep, CrashStep
<1>3. CASE \E side \in Sides, pid \in C!PacketIds : Acquire(side, pid)
  BY <1>3, AcquireStep
<1>4. CASE \E m \in Messages : AppPublish(m)
  BY <1>4, AppPublishStep
<1> QED BY <1>1, <1>2, <1>3, <1>4 DEF Next

\* No step at all.
LEMMA StutterStep ==
  ASSUME LinkInv, UNCHANGED vars
  PROVE  LinkInv' /\ Abstractly
<1>1. /\ wire' = wire /\ open' = open /\ attached' = attached
      /\ session' = session /\ held' = held /\ owner' = owner
      /\ accepted' = accepted /\ delivered' = delivered /\ settled' = settled
  BY DEF vars, netVars, appVars
<1>2. \A side : /\ alias(side)' = alias(side) /\ lim(side)' = lim(side) /\ ping(side)' = ping(side)
                /\ flow(side)' = flow(side) /\ opts(side)' = opts(side) /\ link(side)' = link(side)
                /\ sess(side)' = sess(side) /\ ids(side)' = ids(side) /\ events(side)' = events(side)
  BY DEF vars, c_kept, s_kept, alias, lim, ping, flow, opts, link, sess, ids, events
<1>3. \A side : /\ status(side)' = status(side) /\ store(side)' = store(side)
                /\ handled(side)' = handled(side) /\ Stored(side)' = Stored(side) /\ On(side)' = On(side)
                /\ Configured(side)' = Configured(side)
  BY <1>1, <1>2 DEF status, store, handled, Stored, On, Configured
<1>4. \A side \in Sides : Plain(side)' /\ StoreInv(side)' /\ ExchangeInv(side)'
  <2> SUFFICES ASSUME NEW side \in Sides PROVE Plain(side)' /\ StoreInv(side)' /\ ExchangeInv(side)'
    OBVIOUS
  <2>1. Plain(side) /\ StoreInv(side) /\ ExchangeInv(side)
    BY DEF LinkInv
  <2>2. Plain(side)'
    BY <1>2, <1>3, <2>1 DEF Plain
  <2>3. StoreInv(side)'
    BY <1>1, <1>2, <1>3, <2>1 DEF StoreInv
  <2>4. Asked(side)' = Asked(side) /\ Answered(side)' = Answered(side)
    BY <1>3 DEF Asked, Answered
  <2>5. ExchangeInv(side)'
    BY <1>1, <1>3, <2>1, <2>4 DEF ExchangeInv
  <2> QED BY <2>2, <2>3, <2>5
<1>5. TransportInv'
  BY <1>1, <1>3 DEF LinkInv, TransportInv
<1>6. HandshakeInv'
  BY <1>1, <1>3 DEF LinkInv, HandshakeInv
<1>7. SessionInv' /\ MessagesInv'
  BY <1>1, <1>3 DEF LinkInv, SessionInv, MessagesInv
<1>8. NoError'
  BY <1>2 DEF LinkInv, NoError
<1> QED BY <1>1, <1>4, <1>5, <1>6, <1>7, <1>8 DEF LinkInv, Abstractly

\* A connection as it is created, for a version.
Fresh(side, version) ==
  /\ link(side) = [status |-> "Disconnected", is_client |-> FALSE, protocol_version |-> version]
  /\ ids(side) = C!NoIds /\ sess(side) = [need_store |-> FALSE, store |-> <<>>, qos2_publish_handled |-> {}]
  /\ flow(side) = NoFlow({}) /\ lim(side) = NoLimits /\ alias(side) = NoAlias /\ ping(side) = NoPing
  /\ opts(side) = Options(FALSE, FALSE) /\ events(side) = <<>>

\* A fresh connection is plain and holds nothing.
LEMMA FreshSide ==
  ASSUME NEW side \in Sides, NEW version \in {Version, "Undetermined"}, Fresh(side, version),
         side = "client" => version = Version
  PROVE  /\ status(side) = "Disconnected" /\ store(side) = <<>> /\ handled(side) = {}
         /\ Stored(side) = {} /\ Plain(side) /\ ids(side) = C!NoIds /\ events(side) = <<>>
<1>1. status(side) = "Disconnected" /\ link(side).protocol_version = version
  BY DEF Fresh, status
<1>2. store(side) = <<>> /\ handled(side) = {}
  BY DEF Fresh, store, handled
<1>3. Stored(side) = {}
  BY <1>2, EmptyList DEF Stored
<1>4. flow(side) = NoFlow(flow(side).recv)
  BY DEF Fresh, NoFlow
<1>5. /\ \E offline, auto \in BOOLEAN : opts(side) = Options(offline, auto)
      /\ ~opts(side).offline_publish
  <2>1. \E offline, auto \in BOOLEAN : opts(side) = Options(offline, auto)
    BY Zenon DEF Fresh
  <2>2. opts(side).offline_publish = FALSE
    BY DEF Fresh, Options
  <2> QED BY <2>1, <2>2
<1>6. \E s \in C!Statuses, i \in BOOLEAN, v \in {Version, "Undetermined"} :
        link(side) = [status |-> s, is_client |-> i, protocol_version |-> v]
  BY DEF Fresh, C!Statuses
<1>7. \E n \in BOOLEAN : sess(side) = [need_store |-> n, store |-> store(side), qos2_publish_handled |-> handled(side)]
  BY <1>2 DEF Fresh
<1>8. Plain(side)
  BY <1>1, <1>4, <1>5, <1>6, <1>7 DEF Fresh, Plain
<1> QED BY <1>1, <1>2, <1>3, <1>8 DEF Fresh

\* LinkInv holds when both connections have been created.
LEMMA InitialLink ==
  ASSUME Init
  PROVE  LinkInv
<1>1. /\ wire = [side \in Sides |-> <<>>] /\ open = FALSE /\ attached = {} /\ session = {}
      /\ held = [side \in Sides |-> 0]
      /\ owner = [side \in Sides |-> [pid \in C!PacketIds |-> NoMessage]]
      /\ accepted = {} /\ delivered = [m \in Messages |-> 0] /\ settled = {}
  BY DEF Init
<1>2. \A side \in Sides : wire[side] = <<>> /\ held[side] = 0 /\ On(side) = {}
  BY <1>1, EmptyList DEF On
<1>3. /\ Fresh("client", Version) /\ Fresh("server", "Undetermined")
  <2>1. Fresh("client", Version)
    BY DEF Init, C!ConnInit, Fresh, link, ids, sess, flow, lim, alias, ping, opts, events,
           NoFlow, NoLimits, NoAlias, NoPing, Options
  <2>2. Fresh("server", "Undetermined")
    <3>1. S!NoIds = C!NoIds /\ S!None = C!None /\ S!NoLimit = C!NoLimit
      BY DEF S!NoIds, C!NoIds, S!None, C!None, S!NoLimit, C!NoLimit
    <3>2. S!NoTopicAliasSend = C!NoTopicAliasSend /\ S!NoTopicAliasRecv = C!NoTopicAliasRecv
      BY NoProps
    <3> QED BY <3>1, <3>2 DEF Init, S!ConnInit, Fresh, link, ids, sess, flow, lim, alias, ping, opts, events,
           NoFlow, NoLimits, NoAlias, NoPing, Options
  <2> QED BY <2>1, <2>2
<1>4. \A side \in Sides : /\ status(side) = "Disconnected" /\ store(side) = <<>> /\ handled(side) = {}
                         /\ Stored(side) = {} /\ Plain(side) /\ ids(side) = C!NoIds /\ events(side) = <<>>
  BY <1>3, FreshSide DEF Sides
<1>6. \A side \in Sides : StoreInv(side)
  <2>1. Awaited(C!NoIds, {}, 0)
    BY DEF Awaited, C!NoIds, IdsType, Responses
  <2> QED BY <1>2, <1>4, <2>1, EmptyList, Numbers DEF StoreInv, List
<1>7. \A side \in Sides : ExchangeInv(side)
  <2> SUFFICES ASSUME NEW side \in Sides PROVE ExchangeInv(side)
    OBVIOUS
  <2>1. Asked(side) = {} /\ Answered(side) = {} /\ handled(Other(side)) = {}
    BY <1>2, <1>4, Others DEF Asked, Answered
  <2>2. accepted \ settled = {}
    BY <1>1
  <2> QED BY <1>4, <2>1, <2>2 DEF ExchangeInv, Books, InStep
<1>8. TransportInv
  BY <1>1, <1>2, <1>4, EmptyList DEF TransportInv, List, On
<1>9. HandshakeInv
  BY <1>1, <1>2, <1>4 DEF HandshakeInv, Sides
<1>10. SessionInv
  BY <1>1, <1>2, <1>4 DEF SessionInv, Sides
<1>11. MessagesInv
  BY <1>1 DEF MessagesInv
<1>12. NoError
  BY <1>4, NoEvents DEF NoError
<1> QED BY <1>4, <1>6, <1>7, <1>8, <1>9, <1>10, <1>11, <1>12 DEF LinkInv

\* For any ids, messages and number of faults, two endpoints whose applications publish once
\* they know the session, and report no close before CONNECT (CarefulSides), keep LinkInv: a
\* side's store and id sets, the packets on the way and the other side's
\* qos2_publish_handled always agree on how far each exchange has come, whatever the
\* transport loses and whichever process dies.
THEOREM LinkInvHolds ==
  ASSUME CarefulSides
  PROVE  Spec => []LinkInv
<1>1. Init => LinkInv
  BY InitialLink
<1>2. LinkInv /\ [Next]_vars => LinkInv'
  BY NextStep, StutterStep
<1> QED BY <1>1, <1>2, PTL DEF Spec

\* Between two endpoints running this code no call ever reports NotifyError: nothing that
\* process_recv_packet receives from its peer is refused as a protocol error, as an
\* unexpected response or as an id in use, across lost transports, crashes and resumed sessions.
THEOREM NoErrorHolds ==
  ASSUME CarefulSides
  PROVE  Spec => []NoError
<1>1. LinkInv => NoError
  BY DEF LinkInv
<1>2. Spec => []LinkInv
  BY LinkInvHolds
<1> QED BY <1>1, <1>2, PTL

\* Whatever is lost on the way, an accepted message that is not settled is still in its
\* sender's store (process_send_v3_1_1_publish, process_send_v5_0_publish): as the PUBLISH, or
\* as the PUBREL that took its place, and then it has been delivered.
THEOREM NothingLostHolds ==
  ASSUME CarefulSides
  PROVE  Spec => []NothingLost
<1>1. LinkInv => NothingLost
  <2> SUFFICES ASSUME LinkInv, NEW m \in accepted \ settled
               PROVE  \E p \in {sess(m.from).store[i] : i \in DOMAIN sess(m.from).store} :
                        \/ p.type = "publish" /\ p.topic = m.name
                        \/ p.type = "pubrel" /\ owner[m.from][p.pid] = m /\ delivered[m] > 0
    BY DEF NothingLost
  <2>1. m \in Messages
    BY DEF LinkInv, MessagesInv
  <2> DEFINE side == m.from
  <2>2. side \in Sides
    BY <2>1, LinkAssumption
  <2>3. Books(side, Stored(side), owner[side], accepted \ settled, delivered)
    BY <2>2 DEF LinkInv, ExchangeInv
  <2>4. PICK q \in Stored(side) : owner[side][q.pid] = m
    BY <2>3 DEF Books
  <2>5. \/ q = Publish(m, q.pid)
        \/ q = C!Ack("pubrel", q.pid) /\ delivered[m] > 0
    BY <2>3, <2>4 DEF Books
  <2>6. \/ q.type = "publish" /\ q.topic = m.name
        \/ q.type = "pubrel" /\ delivered[m] > 0
    BY <2>5 DEF Publish, C!Ack
  <2>7. q \in {sess(side).store[i] : i \in DOMAIN sess(side).store}
    BY DEF Stored, store, C!ToSet
  <2> QED BY <2>4, <2>6, <2>7
<1>2. Spec => []LinkInv
  BY LinkInvHolds
<1> QED BY <1>1, <1>2, PTL

\* An id in one side's qos2_publish_handled is an id the other side has in use, for a QoS 2
\* message it has not settled: the set that process_recv_v3_1_1_publish consults before it
\* delivers never holds an id that its peer is free to give to a new message.
THEOREM HandledInUseHolds ==
  ASSUME CarefulSides
  PROVE  Spec => []HandledInUse
<1>1. LinkInv => HandledInUse
  <2> SUFFICES ASSUME LinkInv, NEW side \in Sides, NEW pid \in handled(Other(side))
               PROVE  /\ pid \in ids(side).man
                      /\ owner[side][pid].qos = 2 /\ owner[side][pid] \in accepted \ settled
    BY DEF HandledInUse, handled
  <2>1. /\ Books(side, Stored(side), owner[side], accepted \ settled, delivered)
        /\ InStep(Stored(side), Asked(side), Answered(side), handled(Other(side)), owner[side], delivered)
        /\ Awaited(ids(side), Stored(side), held[side])
    BY DEF LinkInv, ExchangeInv, StoreInv
  <2>2. PICK q \in Stored(side) : q.pid = pid /\ C!response_packet(q) # "puback"
    BY <2>1 DEF InStep
  <2>3. pid \in ids(side).man
    BY <2>1, <2>2, AwaitedIff
  <2>4. /\ owner[side][pid] \in accepted \ settled
        /\ \/ q = Publish(owner[side][pid], pid)
           \/ owner[side][pid].qos = 2
    BY <2>1, <2>2 DEF Books
  <2>5. owner[side][pid].qos \in {1, 2}
    <3>1. owner[side][pid] \in Messages
      BY <2>4 DEF LinkInv, MessagesInv
    <3> QED BY <3>1, LinkAssumption
  <2>6. q = Publish(owner[side][pid], pid) => owner[side][pid].qos # 1
    <3> HAVE q = Publish(owner[side][pid], pid)
    <3>1. q.type = "publish" /\ q.qos = owner[side][pid].qos
      BY PublishFields
    <3> QED BY <2>2, <3>1, PublishResponse
  <2> QED BY <2>3, <2>4, <2>5, <2>6
<1>2. Spec => []LinkInv
  BY LinkInvHolds
<1> QED BY <1>1, <1>2, PTL

\* Two endpoints over a lossy transport implement Delivery: a QoS 2 message is delivered at
\* most once and a QoS 1 message at least once before it is settled, for every number of
\* ids, any messages, and any sequence of crashes, lost transports and resumed sessions.
THEOREM LinkImplementsDelivery ==
  ASSUME CarefulSides
  PROVE  Spec => DeliverySpec
<1>1. Init => D!Init
  BY DEF Init, D!Init
<1>2. LinkInv /\ [Next]_vars => [D!Next]_(D!vars)
  <2> SUFFICES ASSUME LinkInv, [Next]_vars PROVE [D!Next]_(D!vars)
    OBVIOUS
  <2>1. Abstractly
    BY NextStep, StutterStep
  <2> QED BY <2>1 DEF Abstractly, D!vars
<1>3. Spec => []LinkInv
  BY LinkInvHolds
<1> QED BY <1>1, <1>2, <1>3, PTL DEF Spec, DeliverySpec, D!Spec

====
