---------------------------- MODULE AliasProofs -----------------------------
(***************************************************************************)
(* The alias table of TopicAliasSend stays consistent for an endpoint of   *)
(* any role, and a client's table agrees with what its server knows.       *)
(***************************************************************************)
EXTENDS AnyRoleProofs, WellFoundedInduction

LEMMA IntervalSize ==
  ASSUME NEW n \in Nat
  PROVE  IsFiniteSet(1..n) /\ Cardinality(1..n) = n
<1>1. IsFiniteSet(1..n) /\ Cardinality(1..n) = IF 1 > n THEN 0 ELSE n - 1 + 1
  BY FS_Interval
<1> QED BY <1>1

\* retain and shift_remove: an element that occurs once is taken out, and the rest
\* keep their order.
LEMMA WithoutSeq ==
  ASSUME NEW S, NEW s \in Seq(S), IsInjective(s), NEW a
  PROVE  /\ Without(s, a) \in Seq(S)
         /\ IsInjective(Without(s, a))
         /\ ToSet(Without(s, a)) = ToSet(s) \ {a}
<1> DEFINE n == Len(s)
           kept == {i \in DOMAIN s : s[i] # a}
           upto(i) == {j \in kept : j <= i}
           nth(k) == CHOOSE i \in kept : Cardinality(upto(i)) = k
           w == [k \in 1..Cardinality(kept) |-> s[nth(k)]]
<1>1. n \in Nat /\ DOMAIN s = 1..n /\ \A i \in 1..n : s[i] \in S
  OBVIOUS
<1>2. Without(s, a) = w
  BY DEF Without
<1>3. \A i, j \in 1..n : s[i] = s[j] => i = j
  BY <1>1 DEF IsInjective
<1> HIDE DEF n
<1>4. CASE a \notin ToSet(s)
  <2>1. kept = 1..n
    BY <1>1, <1>4 DEF ToSet
  <2>2. \A i \in 1..n : upto(i) = 1..i
    BY <1>1, <2>1
  <2>3. \A i \in 1..n : Cardinality(upto(i)) = i
    <3> TAKE i \in 1..n
    <3>1. i \in Nat
      BY <1>1
    <3> QED BY <2>2, <3>1, IntervalSize
  <2> HIDE DEF upto
  <2>4. \A k \in 1..n : nth(k) = k
    BY <1>1, <2>1, <2>3
  <2>5. Cardinality(kept) = n
    BY <1>1, <2>1, IntervalSize
  <2> HIDE DEF kept, nth
  <2>6. w = [k \in 1..n |-> s[k]]
    BY <2>4, <2>5
  <2> HIDE DEF w
  <2>7. w = s
    <3>1. s = [k \in 1..n |-> s[k]]
      BY <1>1
    <3> QED BY <2>6, <3>1
  <2> QED BY <1>2, <1>4, <2>7
<1>5. CASE a \in ToSet(s)
  <2>1. PICK m \in 1..n : s[m] = a
    BY <1>1, <1>5 DEF ToSet
  <2>2. kept = (1..n) \ {m}
    BY <1>1, <1>3, <2>1
  <2>3. \A i \in 1..n : i < m => upto(i) = 1..i
    BY <1>1, <2>1, <2>2
  <2>4. \A i \in 1..n : i > m => upto(i) = (1..i) \ {m}
    BY <1>1, <2>1, <2>2
  <2>5. \A i \in 1..n : i > m => Cardinality((1..i) \ {m}) = i - 1
    <3> TAKE i \in 1..n
    <3> HAVE i > m
    <3>1. i \in Nat /\ m \in 1..i
      BY <1>1, <2>1
    <3>2. IsFiniteSet(1..i) /\ Cardinality(1..i) = i
      BY <3>1, IntervalSize
    <3> QED BY <3>1, <3>2, FS_RemoveElement
  <2>6. \A i \in kept : Cardinality(upto(i)) = IF i < m THEN i ELSE i - 1
    <3> TAKE i \in kept
    <3>1. i \in 1..n /\ i # m /\ m \in Nat /\ i \in Nat
      BY <1>1, <2>1, <2>2
    <3>2. i < m => Cardinality(upto(i)) = i
      BY <2>3, <3>1, IntervalSize
    <3>3. i > m => Cardinality(upto(i)) = i - 1
      BY <2>4, <2>5, <3>1
    <3> HIDE DEF upto
    <3> QED BY <3>1, <3>2, <3>3
  <2>7. IsFiniteSet(kept) /\ Cardinality(kept) = n - 1
    BY <1>1, <2>1, <2>2, IntervalSize, FS_RemoveElement
  <2> HIDE DEF upto
  <2> DEFINE at(k) == IF k < m THEN k ELSE k + 1
  <2>8. ASSUME NEW k \in 1..(n - 1)
        PROVE  nth(k) = at(k) /\ at(k) \in kept
    <3>1. at(k) \in kept
      BY <1>1, <2>1, <2>2
    <3>2. Cardinality(upto(at(k))) = k
      BY <1>1, <2>1, <2>6, <3>1
    <3>3. \A i \in kept : Cardinality(upto(i)) = k => i = at(k)
      BY <1>1, <2>1, <2>2, <2>6
    <3> HIDE DEF at
    <3> QED BY <3>1, <3>2, <3>3
  <2>9. \A i \in kept : \E k \in 1..(n - 1) : i = at(k)
    <3> TAKE i \in kept
    <3>1. i \in 1..n /\ i # m
      BY <2>2
    <3>2. CASE i < m
      <4>1. i \in 1..(n - 1) /\ at(i) = i
        BY <1>1, <2>1, <3>1, <3>2
      <4> QED BY <4>1
    <3>3. CASE ~(i < m)
      <4>1. i - 1 \in 1..(n - 1) /\ at(i - 1) = i
        BY <1>1, <2>1, <3>1, <3>3
      <4> QED BY <4>1
    <3> QED BY <3>2, <3>3
  <2>10. \A k, l \in 1..(n - 1) : at(k) = at(l) => k = l
    BY <1>1, <2>1
  <2> HIDE DEF nth, at
  <2>11. w = [k \in 1..(n - 1) |-> s[at(k)]]
    BY <2>7, <2>8
  <2>12. \A k \in 1..(n - 1) : at(k) \in 1..n /\ s[at(k)] \in S /\ s[at(k)] # a
    BY <1>1, <2>8
  <2>13. n - 1 \in Nat
    BY <1>1, <2>1
  <2> HIDE DEF w
  <2>14. w \in Seq(S)
    BY <2>11, <2>12, <2>13
  <2>15. IsInjective(w)
    BY <1>3, <2>10, <2>11, <2>12 DEF IsInjective
  <2>16. ToSet(w) = {s[at(k)] : k \in 1..(n - 1)}
    BY <2>11 DEF ToSet
  <2>17. {s[at(k)] : k \in 1..(n - 1)} = {s[i] : i \in kept}
    BY <2>8, <2>9
  <2>18. {s[i] : i \in kept} = ToSet(s) \ {a}
    BY DEF ToSet
  <2> QED BY <1>2, <2>14, <2>15, <2>16, <2>17, <2>18
<1> QED BY <1>4, <1>5

\* A set of natural numbers has a least element.
LEMMA LeastElement ==
  ASSUME NEW T, T \subseteq Nat, T # {}
  PROVE  \E x \in T : \A y \in T : x <= y
<1>1. IsWellFoundedOn(OpToRel(<, Nat), Nat)
  BY NatLessThanWellFounded
<1>2. PICK x \in T : \A y \in T : ~ (<<y, x>> \in OpToRel(<, Nat))
  BY <1>1, WFMin
<1>3. \A y \in T : ~(y < x)
  BY <1>2 DEF OpToRel
<1> QED BY <1>3

LEMMA AppendSeq ==
  ASSUME NEW S, NEW s \in Seq(S), IsInjective(s), NEW a \in S, a \notin ToSet(s)
  PROVE  /\ Append(s, a) \in Seq(S) /\ IsInjective(Append(s, a))
         /\ ToSet(Append(s, a)) = ToSet(s) \cup {a}
<1> DEFINE n == Len(s)
           w == Append(s, a)
<1>1. /\ n \in Nat /\ DOMAIN s = 1..n /\ w \in Seq(S) /\ DOMAIN w = 1..(n + 1)
      /\ w[n + 1] = a /\ \A i \in 1..n : w[i] = s[i]
  OBVIOUS
<1>2. \A i \in 1..n : s[i] # a
  BY <1>1 DEF ToSet
<1>3. \A i, j \in 1..n : s[i] = s[j] => i = j
  BY <1>1 DEF IsInjective
<1>4. ToSet(w) = {w[i] : i \in 1..(n + 1)} /\ ToSet(s) = {s[i] : i \in 1..n}
  BY <1>1 DEF ToSet
<1> HIDE DEF n, w
<1>5. \A i \in 1..(n + 1) : i \in 1..n \/ i = n + 1
  BY <1>1
<1>6. \A i \in 1..n : i \in 1..(n + 1)
  BY <1>1
<1>7. n + 1 \in 1..(n + 1)
  BY <1>1
<1>8. IsInjective(w)
  BY <1>1, <1>2, <1>3, <1>5 DEF IsInjective
<1>9. {w[i] : i \in 1..(n + 1)} = {s[i] : i \in 1..n} \cup {a}
  BY <1>1, <1>5, <1>6, <1>7
<1> QED BY <1>1, <1>4, <1>8, <1>9 DEF w

-----------------------------------------------------------------------------
(***************************************************************************)
(* The operations of TopicAliasSend.                                       *)
(***************************************************************************)
LEMMA NewTable ==
  ASSUME NEW n \in Nat
  PROVE  TableOK(TopicAliasSend(n)) /\ TopicAliasSend(n).max = n
           /\ TopicAliasSend(n).used = {}
<1> DEFINE t == TopicAliasSend(n)
<1>1. t = [max |-> n, used |-> {}, order |-> <<>>, topic |-> [a \in 1..n |-> NoTopic],
           aliases |-> [u \in Topics |-> <<>>]]
  BY DEF TopicAliasSend, MIN_ALIAS
<1>2. \A S : <<>> \in Seq(S)
  BY SMT
<1>3. DOMAIN <<>> = {}
  BY SMT
<1>4. ToSet(<<>>) = {} /\ IsInjective(<<>>)
  BY <1>3 DEF ToSet, IsInjective
<1> HIDE DEF t
<1>5. TableShape(t)
  BY <1>1, <1>2 DEF TableShape
<1>6. /\ t.max = n /\ t.used = {} /\ t.order = <<>>
      /\ \A a \in 1..n : t.topic[a] = NoTopic
      /\ \A u \in Topics : t.aliases[u] = <<>>
  BY <1>1
<1> QED BY <1>4, <1>5, <1>6 DEF TableOK, t

\* What insert_or_update does to the topics, and that the table stays consistent.
LEMMA InsertKeeps ==
  ASSUME NEW t, TableOK(t), NEW u \in Topics, u # NoTopic, NEW a \in 1..t.max
  PROVE  LET f == insert_or_update(t, u, a)
         IN  /\ TableOK(f) /\ f.max = t.max /\ f.used = t.used \cup {a}
             /\ f.topic = [t.topic EXCEPT ![a] = u]
<1> DEFINE f == insert_or_update(t, u, a)
           old == t.topic[a]
           known == a \in t.used
           base == IF known THEN Without(t.order, a) ELSE t.order
           kept == IF known /\ old # NoTopic
                   THEN [t.aliases EXCEPT ![old] = Without(@, a)] ELSE t.aliases
           lists == [kept EXCEPT ![u] = Append(@, a)]
           S == 1..t.max
<1>1. f = [max |-> t.max, used |-> t.used \cup {a}, order |-> Append(base, a),
           topic |-> [t.topic EXCEPT ![a] = u], aliases |-> lists]
  <2>1. f = [t EXCEPT !.used = @ \cup {a}, !.order = Append(base, a), !.topic[a] = u,
                      !.aliases = lists]
    BY DEF insert_or_update
  <2>2. t = [max |-> t.max, used |-> t.used, order |-> t.order, topic |-> t.topic,
             aliases |-> t.aliases]
    BY DEF TableOK, TableShape
  <2> HIDE DEF f, base, lists
  <2> QED BY <2>1, <2>2
<1>2. /\ t.max \in Nat /\ t.order \in Seq(S) /\ t.topic \in [S -> Topics \cup {NoTopic}]
      /\ t.aliases \in [Topics -> Seq(S)]
  BY DEF TableOK, TableShape
<1>3. /\ t.used = ToSet(t.order) /\ IsInjective(t.order)
      /\ \A b \in S : t.topic[b] # NoTopic <=> b \in t.used
      /\ \A v \in Topics : /\ ToSet(t.aliases[v]) = {b \in t.used : t.topic[b] = v}
                           /\ IsInjective(t.aliases[v])
  BY DEF TableOK
<1>4. t.used \subseteq S
  BY <1>2, <1>3 DEF ToSet
<1>5. base \in Seq(S) /\ IsInjective(base) /\ ToSet(base) = t.used \ {a}
  BY <1>2, <1>3, WithoutSeq
<1>6. ASSUME NEW v \in Topics
      PROVE  /\ kept[v] \in Seq(S) /\ IsInjective(kept[v])
             /\ ToSet(kept[v]) = {b \in t.used : t.topic[b] = v} \ {a}
  <2>1. CASE known /\ v = old
    <3>1. old # NoTopic /\ old \in Topics
      BY <1>2, <1>3, <2>1
    <3>2. kept[v] = Without(t.aliases[v], a)
      BY <1>2, <2>1, <3>1
    <3> HIDE DEF kept
    <3>3. t.aliases[v] \in Seq(S) /\ IsInjective(t.aliases[v])
      BY <1>2, <1>3
    <3>4. ToSet(Without(t.aliases[v], a)) = ToSet(t.aliases[v]) \ {a}
      BY <3>3, WithoutSeq
    <3>5. Without(t.aliases[v], a) \in Seq(S) /\ IsInjective(Without(t.aliases[v], a))
      BY <3>3, WithoutSeq
    <3> QED BY <1>3, <3>2, <3>4, <3>5
  <2>2. CASE ~(known /\ v = old)
    <3>1. kept[v] = t.aliases[v]
      BY <1>2, <2>2
    <3>2. a \notin {b \in t.used : t.topic[b] = v}
      BY <2>2
    <3> HIDE DEF kept
    <3> QED BY <1>2, <1>3, <3>1, <3>2
  <2> QED BY <2>1, <2>2
<1>7. kept \in [Topics -> Seq(S)]
  <2>1. Without(t.aliases[old], a) \in Seq(S) \/ ~(known /\ old # NoTopic)
    BY <1>2, <1>3, WithoutSeq
  <2> QED BY <1>2, <2>1
<1> HIDE DEF kept
<1>8. ASSUME NEW v \in Topics
      PROVE  /\ lists[v] \in Seq(S) /\ IsInjective(lists[v])
             /\ ToSet(lists[v]) = {b \in t.used \cup {a} : f.topic[b] = v}
  <2>1. f.topic = [t.topic EXCEPT ![a] = u]
    BY <1>1
  <2>2. \A b \in t.used \cup {a} : f.topic[b] = IF b = a THEN u ELSE t.topic[b]
    BY <1>2, <1>4, <2>1
  <2>3. CASE v = u
    <3>1. lists[v] = Append(kept[v], a)
      BY <1>7, <2>3
    <3>2. a \notin ToSet(kept[v])
      BY <1>6
    <3>3. /\ Append(kept[v], a) \in Seq(S) /\ IsInjective(Append(kept[v], a))
          /\ ToSet(Append(kept[v], a)) = ToSet(kept[v]) \cup {a}
      <4>1. a \in S
        OBVIOUS
      <4> HIDE DEF S
      <4> QED BY <1>6, <3>2, <4>1, AppendSeq
    <3> HIDE DEF lists, f
    <3>4. {b \in t.used \cup {a} : f.topic[b] = v}
            = ({b \in t.used : t.topic[b] = v} \ {a}) \cup {a}
      BY <2>2, <2>3
    <3>5. ToSet(kept[v]) = {b \in t.used : t.topic[b] = v} \ {a}
      BY <1>6
    <3> QED BY <3>1, <3>3, <3>4, <3>5
  <2>4. CASE v # u
    <3>1. lists[v] = kept[v]
      BY <1>7, <2>4
    <3> HIDE DEF lists, f
    <3>4. {b \in t.used \cup {a} : f.topic[b] = v}
            = {b \in t.used : t.topic[b] = v} \ {a}
      BY <2>2, <2>4
    <3> QED BY <1>6, <3>1, <3>4
  <2> QED BY <2>3, <2>4
<1>9. lists \in [Topics -> Seq(S)]
  <2>1. Append(kept[u], a) \in Seq(S)
    BY <1>6
  <2> QED BY <1>7, <2>1
<1>10. /\ Append(base, a) \in Seq(S) /\ IsInjective(Append(base, a))
       /\ ToSet(Append(base, a)) = t.used \cup {a}
  <2>1. a \notin ToSet(base)
    BY <1>5
  <2>2. (t.used \ {a}) \cup {a} = t.used \cup {a}
    OBVIOUS
  <2>3. a \in S
    OBVIOUS
  <2> HIDE DEF base, S
  <2> QED BY <1>5, <2>1, <2>2, <2>3, AppendSeq
<1>11. [t.topic EXCEPT ![a] = u] \in [S -> Topics \cup {NoTopic}]
  BY <1>2
<1>12. \A b \in S : [t.topic EXCEPT ![a] = u][b] = IF b = a THEN u ELSE t.topic[b]
  BY <1>2
<1> HIDE DEF lists, base, f
<1>13. /\ f.max = t.max /\ f.used = t.used \cup {a} /\ f.order = Append(base, a)
       /\ f.topic = [t.topic EXCEPT ![a] = u] /\ f.aliases = lists
  BY <1>1
<1>14. TableShape(f)
  BY <1>1, <1>2, <1>9, <1>10, <1>11, <1>13 DEF TableShape
<1>15. \A b \in S : f.topic[b] # NoTopic <=> b \in f.used
  BY <1>3, <1>12, <1>13
<1>16. TableOK(f)
  BY <1>8, <1>10, <1>13, <1>14, <1>15 DEF TableOK
<1> QED BY <1>13, <1>16 DEF f

\* get of a known alias moves it to the end of the order and does no more.
LEMMA TouchKeeps ==
  ASSUME NEW t, TableOK(t), NEW a
  PROVE  LET f == touch(t, a)
         IN  /\ TableOK(f) /\ f.max = t.max /\ f.used = t.used /\ f.topic = t.topic
<1> DEFINE f == touch(t, a)
           S == 1..t.max
<1>1. CASE ~has_alias(t, a)
  BY <1>1 DEF touch
<1>2. CASE has_alias(t, a)
  <2> DEFINE w == Append(Without(t.order, a), a)
  <2>1. f = [max |-> t.max, used |-> t.used, order |-> w, topic |-> t.topic,
             aliases |-> t.aliases]
    BY <1>2 DEF touch, TableOK, TableShape
  <2>2. a \in S /\ a \in t.used
    BY <1>2 DEF has_alias, TableOK, MIN_ALIAS
  <2>3. t.order \in Seq(S) /\ IsInjective(t.order) /\ ToSet(t.order) = t.used
    BY DEF TableOK, TableShape
  <2>4. /\ Without(t.order, a) \in Seq(S) /\ IsInjective(Without(t.order, a))
        /\ ToSet(Without(t.order, a)) = t.used \ {a}
    BY <2>3, WithoutSeq
  <2>5. a \notin ToSet(Without(t.order, a))
    BY <2>4
  <2>6. w \in Seq(S) /\ IsInjective(w) /\ ToSet(w) = (t.used \ {a}) \cup {a}
    <3> HIDE DEF S
    <3> QED BY <2>2, <2>4, <2>5, AppendSeq
  <2>7. ToSet(w) = t.used
    BY <2>2, <2>6
  <2> HIDE DEF w, f
  <2>8. /\ f.max = t.max /\ f.used = t.used /\ f.order = w /\ f.topic = t.topic
        /\ f.aliases = t.aliases
    BY <2>1
  <2>9. TableShape(f)
    BY <2>1, <2>6, <2>8 DEF TableShape, TableOK
  <2>10. TableOK(f)
    BY <2>6, <2>7, <2>8, <2>9 DEF TableOK
  <2> QED BY <2>8, <2>10 DEF f
<1> QED BY <1>1, <1>2

\* find_by_topic finds an alias that means the topic; get_lru_alias one in range.
LEMMA FindAlias ==
  ASSUME NEW t, TableOK(t), NEW u \in Topics, find_by_topic(t, u) # 0
  PROVE  find_by_topic(t, u) \in t.used /\ t.topic[find_by_topic(t, u)] = u
<1>1. t.aliases[u] # <<>> /\ find_by_topic(t, u) = Head(t.aliases[u])
  BY DEF find_by_topic
<1>2. t.aliases[u] \in Seq(1..t.max)
  BY DEF TableOK, TableShape
<1>3. Head(t.aliases[u]) = t.aliases[u][1] /\ 1 \in DOMAIN t.aliases[u]
  BY <1>1, <1>2
<1>4. Head(t.aliases[u]) \in ToSet(t.aliases[u])
  BY <1>3 DEF ToSet
<1> QED BY <1>1, <1>4 DEF TableOK

LEMMA LruAlias ==
  ASSUME NEW t, TableOK(t), t.max > 0
  PROVE  get_lru_alias(t) \in 1..t.max
<1> DEFINE vacant == (1..t.max) \ t.used
<1>1. t.max \in Nat /\ t.order \in Seq(1..t.max)
  BY DEF TableOK, TableShape
<1>2. get_lru_alias(t) = IF vacant # {} THEN CHOOSE a \in vacant : \A b \in vacant : a <= b
                         ELSE IF t.order # <<>> THEN Head(t.order) ELSE 1
  BY DEF get_lru_alias, MIN_ALIAS
<1>3. CASE vacant # {}
  <2>1. vacant \subseteq Nat
    BY <1>1
  <2>2. \E a \in vacant : \A b \in vacant : a <= b
    BY <1>3, <2>1, LeastElement
  <2>3. get_lru_alias(t) \in vacant
    BY <1>2, <1>3, <2>2
  <2> QED BY <2>3
<1>4. CASE vacant = {} /\ t.order # <<>>
  <2>1. Head(t.order) \in 1..t.max
    BY <1>1, <1>4
  <2> QED BY <1>2, <1>4, <2>1
<1>5. CASE vacant = {} /\ t.order = <<>>
  BY <1>1, <1>2, <1>5
<1> QED BY <1>3, <1>4, <1>5

-----------------------------------------------------------------------------
(***************************************************************************)
(* The table of the connection.                                            *)
(***************************************************************************)
\* The application's PUBLISHes have a topic name or none, and an alias or no topic
\* only in v5.0; a topic alias maximum is a number.
AliasPackets ==
  /\ NoTopic \notin Topics
  /\ \A p \in Publishes \cup {q \in AppPackets : q.type = "publish"} :
       /\ {"type", "topic", "alias"} \subseteq DOMAIN p
       /\ p.topic \in Topics \cup {NoTopic}
       /\ InitVersion = "V5" \/ (p.topic # NoTopic /\ p.alias = 0)
  /\ \A p \in PeerPackets : p.type \in {"connect", "connack"} => p.ta_max \in Nat \cup {None}

\* The table is consistent, and a connection made for v5.0 stays one.
AliasInv ==
  /\ {"send", "recv"} \subseteq DOMAIN alias
  /\ TableOK(alias.send)
  /\ InitVersion = "V5" => V5

AliasDomain == {"send", "recv"} \subseteq DOMAIN alias
SameTable   == AliasDomain' /\ alias'.send = alias.send
NewTableOf(n) == AliasDomain' /\ alias'.send = TopicAliasSend(n)
Uses(p)     == AliasDomain' /\ alias_usable(p) /\ alias'.send = alias_after_publish(p)

LEMMA SameCore == ASSUME AliasDomain, UNCHANGED core \/ UNCHANGED alias PROVE SameTable
BY DEF AliasDomain, SameTable, core

\* Only CONNECT and PUBLISH change the table on sending.
LEMMA SendAlias ==
  ASSUME AliasDomain, NEW p, send(p)
  PROVE  \/ SameTable
         \/ p.type = "connect" /\ NewTableOf(0) /\ process_send_connect(p)
         \/ p.type = "publish" /\ Uses(p) /\ process_send_publish(p)
<1>1. CASE send_refused(p)
  BY <1>1, SameCore DEF send_refused
<1>2. CASE p.type = "connect" /\ process_send_connect(p)
  <2>1. UNCHANGED core \/ alias' = [send |-> NoTopicAliasSend,
                                    recv |-> TopicAliasRecv(Prop(p.ta_max, 0))]
    BY <1>2 DEF process_send_connect
  <2> QED BY <1>2, <2>1, SameCore DEF NewTableOf, NoTopicAliasSend, AliasDomain
<1>3. CASE process_send_connack(p)
  <2>1. UNCHANGED core \/ UNCHANGED alias
          \/ alias' = [alias EXCEPT !.recv = TopicAliasRecv(p.ta_max)]
    BY <1>3 DEF process_send_connack
  <2> QED BY <2>1, SameCore DEF SameTable, AliasDomain
<1>4. CASE p.type = "publish" /\ process_send_publish(p)
  <2>1. UNCHANGED alias \/ publish_accepted(p)
    BY <1>4 DEF process_send_publish
  <2>2. UNCHANGED alias \/ Panic \/ publish_attached(p)
    BY <2>1 DEF publish_accepted
  <2>3. \/ UNCHANGED alias \/ Panic
        \/ alias_usable(p) /\ alias' = [alias EXCEPT !.send = alias_after_publish(p)]
    BY <2>2 DEF publish_attached
  <2> QED BY <1>4, <2>3, SameCore DEF Panic, Uses, AliasDomain
<1>5. CASE process_send_pubrel(p)
  <2>1. Panic \/ UNCHANGED alias
    BY <1>5 DEF process_send_pubrel
  <2> QED BY <2>1, SameCore DEF Panic
<1>6. CASE \/ process_send_puback(p) \/ process_send_pubcomp(p) \/ process_send_pubrec(p)
           \/ process_send_subscribe(p) \/ process_send_unsubscribe(p)
  BY <1>6, SameCore DEF process_send_puback, process_send_pubcomp, process_send_pubrec,
       process_send_subscribe, process_send_unsubscribe, send_request
<1>7. CASE \/ process_send_suback(p) \/ process_send_unsuback(p) \/ process_send_pingreq(p)
           \/ process_send_pingresp(p) \/ process_send_disconnect(p) \/ process_send_auth(p)
  BY <1>7, SameCore DEF process_send_suback, process_send_unsuback, process_send_pingreq,
       process_send_pingresp, process_send_disconnect, process_send_auth
<1> QED BY <1>1, <1>2, <1>3, <1>4, <1>5, <1>6, <1>7 DEF send

\* CONNECT and CONNACK bring a new table, with the peer's maximum.
LEMMA RecvAlias ==
  ASSUME AliasDomain, NEW p, recv(p)
  PROVE  \/ SameTable
         \/ p.type \in {"connect", "connack"} /\ NewTableOf(Prop(p.ta_max, 0))
<1>1. CASE recv_refused(p)
  BY <1>1, SameCore DEF recv_refused
<1>2. CASE p.type = "connect" /\ process_recv_connect(p)
  <2>1. UNCHANGED core \/ Panic
          \/ alias' = [send |-> TopicAliasSend(Prop(p.ta_max, 0)), recv |-> NoTopicAliasRecv]
    BY <1>2 DEF process_recv_connect
  <2> QED BY <1>2, <2>1, SameCore DEF Panic, NewTableOf, AliasDomain
<1>3. CASE p.type = "connack" /\ process_recv_connack(p)
  <2>1. \/ UNCHANGED core \/ UNCHANGED alias
        \/ /\ Prop(p.ta_max, 0) # 0
           /\ alias' = [alias EXCEPT !.send = TopicAliasSend(p.ta_max)]
    BY <1>3 DEF process_recv_connack
  <2>2. Prop(p.ta_max, 0) # 0 => Prop(p.ta_max, 0) = p.ta_max
    BY DEF Prop
  <2> QED BY <1>3, <2>1, <2>2, SameCore DEF NewTableOf, AliasDomain
<1>4. CASE process_recv_publish(p)
  <2>1. UNCHANGED core \/ UNCHANGED alias \/ \E r : alias' = [alias EXCEPT !.recv = r]
    BY <1>4 DEF process_recv_publish
  <2> QED BY <2>1, SameCore DEF SameTable, AliasDomain
<1>5. ASSUME NEW i, NEW c, response_ends(p, i, c) \/ unexpected_response PROVE SameTable
  BY <1>5, SameCore DEF response_ends, unexpected_response
<1>6. CASE \/ process_recv_puback(p) \/ process_recv_pubcomp(p) \/ process_recv_suback(p)
           \/ process_recv_unsuback(p)
  BY <1>5, <1>6 DEF process_recv_puback, process_recv_pubcomp, process_recv_suback,
       process_recv_unsuback
<1>7. CASE process_recv_pubrec(p)
  <2>1. \/ unexpected_response \/ Panic \/ UNCHANGED alias
        \/ response_ends(p, [ids EXCEPT !.pubrec = @ \ {p.pid}], TRUE)
    BY <1>7 DEF process_recv_pubrec
  <2> QED BY <1>5, <2>1, SameCore DEF Panic
<1>8. CASE process_recv_pubrel(p)
  BY <1>8, SameCore DEF process_recv_pubrel
<1>9. CASE \/ process_recv_notified(p) \/ process_recv_pingreq(p)
           \/ process_recv_pingresp(p) \/ process_recv_disconnect(p)
  BY <1>9, SameCore DEF process_recv_notified, process_recv_pingreq, process_recv_pingresp,
       process_recv_disconnect
<1> QED BY <1>1, <1>2, <1>3, <1>4, <1>6, <1>7, <1>8, <1>9 DEF recv

\* What a PUBLISH that passes the checks does to the table.
LEMMA AfterPublish ==
  ASSUME TableOK(alias.send), NoTopic \notin Topics, NEW p, p.topic \in Topics \cup {NoTopic},
         alias_usable(p), V5 \/ (p.topic # NoTopic /\ p.alias = 0)
  PROVE  TableOK(alias_after_publish(p))
<1>1. CASE p.topic = NoTopic
  <2>1. alias_after_publish(p) = touch(alias.send, p.alias)
    BY <1>1 DEF alias_after_publish
  <2> QED BY <2>1, TouchKeeps
<1>2. CASE p.topic # NoTopic /\ p.alias # 0
  <2>1. alias_after_publish(p) = insert_or_update(alias.send, p.topic, p.alias)
    BY <1>2 DEF alias_after_publish
  <2>2. p.topic \in Topics /\ p.alias \in 1..alias.send.max
    BY <1>2 DEF alias_usable, MIN_ALIAS
  <2>3. TableOK(insert_or_update(alias.send, p.topic, p.alias))
    BY <1>2, <2>2, InsertKeeps, Zenon
  <2> QED BY <2>1, <2>3
<1>3. CASE p.topic # NoTopic /\ p.alias = 0
  <2>1. alias_after_publish(p) =
          IF auto_alias(p) # 0 /\ find_by_topic(alias.send, p.topic) = 0
          THEN insert_or_update(alias.send, p.topic, auto_alias(p)) ELSE alias.send
    BY <1>3 DEF alias_after_publish
  <2>2. CASE auto_alias(p) # 0 /\ find_by_topic(alias.send, p.topic) = 0
    <3>1. auto_alias(p) = get_lru_alias(alias.send) /\ alias.send.max > 0
      BY <2>2 DEF auto_alias
    <3>2. auto_alias(p) \in 1..alias.send.max
      BY <3>1, LruAlias
    <3>3. p.topic \in Topics
      BY <1>3
    <3>4. TableOK(insert_or_update(alias.send, p.topic, auto_alias(p)))
      BY <1>3, <3>2, <3>3, InsertKeeps, Zenon
    <3> QED BY <2>1, <2>2, <3>4
  <2> QED BY <2>1, <2>2
<1> QED BY <1>1, <1>2, <1>3

-----------------------------------------------------------------------------
\* A call leaves the link as it found it, or disconnected.
LEMMA LinkOf ==
  ASSUME NEW b, Pushes(b) \/ \E q : Arrives(b, q)
  PROVE  link' \in {b.link, Down(b.link)}
<1>1. PICK o : Follows(b, o) /\ (Returns(o) \/ \E q : Returns(NotifyReceived(o, q)))
  BY DEF Pushes, Arrives
<1>2. Call(o) /\ o.link \in {b.link, Down(b.link)}
  BY <1>1 DEF Follows
<1>3. \A q : NotifyReceived(o, q).link = o.link
  BY <1>2, ReceivedCall
<1> QED BY <1>1, <1>2, <1>3 DEF Returns

\* How the link changes: it stays or is disconnected; CONNECT sent or received, and a
\* malformed one, begins a connection; CONNACK sent or received establishes it.
Stays       == link' \in {link, Down(link)}
Starts      == /\ link.status = "Disconnected"
               /\ link' = [[link EXCEPT !.is_client = TRUE] EXCEPT !.status = "Connecting"]
Establishes == link' = [link EXCEPT !.status = "Connected"]
Serves      == /\ link'.status = "Connecting"
               /\ link.protocol_version # "Undetermined" =>
                    link'.protocol_version = link.protocol_version
Fumbles     == \E v : /\ link.protocol_version \in {v, "Undetermined"}
                       /\ link' \in {Fumbled(link, v), Down(Fumbled(link, v))}

LEMMA SendLink ==
  ASSUME ConnShape, NEW p, send(p)
  PROVE  \/ Stays
         \/ p.type = "connect" /\ process_send_connect(p) /\ Starts
         \/ p.type = "connack" /\ may_send(p) /\ Establishes /\ link.status = "Connecting"
<1>0. self.link = link
  BY SelfBase
<1>1. CASE Pushes(self)
  BY <1>0, <1>1, LinkOf DEF Stays
<1>2. CASE send_refused(p)
  BY <1>1, <1>2, PlainReturns DEF send_refused
<1>3. CASE p.type \notin {"connect", "connack"}
  BY <1>1, <1>3, SendPushes
<1>4. CASE p.type = "connect" /\ process_send_connect(p)
  BY <1>1, <1>4, SendConnect DEF Starts
<1>5. CASE p.type = "connack" /\ may_send(p) /\ process_send_connack(p)
  BY <1>1, <1>5, SendConnack DEF Establishes
<1> QED BY <1>2, <1>3, <1>4, <1>5 DEF send

LEMMA RecvLink ==
  ASSUME ConnShape, NEW p, recv(p)
  PROVE  \/ Stays
         \/ p.type = "connect" /\ process_recv_connect(p) /\ Serves
         \/ p.type = "connack" /\ Establishes
<1>0. self.link = link
  BY SelfBase
<1>1. CASE Pushes(self) \/ \E q : Arrives(self, q)
  BY <1>0, <1>1, LinkOf DEF Stays
<1>2. CASE recv_refused(p)
  BY <1>1, <1>2, RefusedPushes
<1>3. CASE p.type \notin {"connect", "connack", "publish", "disconnect"}
  BY <1>1, <1>3, RecvOther
<1>4. CASE process_recv_publish(p)
  BY <1>1, <1>4, RecvPublish
<1>5. CASE p.type = "disconnect" /\ process_recv_disconnect(p)
  BY <1>1, <1>5, RecvDisconnect
<1>6. CASE p.type = "connect" /\ process_recv_connect(p)
  BY <1>1, <1>6, RecvConnect DEF Serves
<1>7. CASE p.type = "connack" /\ process_recv_connack(p)
  BY <1>1, <1>7, RecvConnack DEF Establishes
<1> QED BY <1>2, <1>3, <1>4, <1>5, <1>6, <1>7 DEF recv

\* The actions that neither send nor receive.
LEMMA OtherLink ==
  ASSUME ConnShape
  PROVE  /\ \A pid : Release(pid) \/ Register(pid) => Stays
         /\ Acquire \/ AcquireFails \/ SendError => Stays
         /\ \A name, val : Sets(name, val) => Stays
         /\ \A ms : SetsInterval(ms) => Stays
         /\ \A kind \in TimerKind : TimerFires(kind) => Stays
         /\ Open \/ Close \/ CloseUnused => Stays
         /\ \A p : PeerSendsMalformed(p) =>
              Stays \/ (Fumbles /\ p.type = "connect" /\ accepts(p))
<1>0. self.link = link /\ Call(self)
  BY SelfBase
<1>1. ASSUME Pushes(self) PROVE Stays
  BY <1>0, <1>1, LinkOf DEF Stays
<1>2. ASSUME UNCHANGED link PROVE Stays
  BY <1>2 DEF Stays
<1>3. ASSUME NEW pid, Release(pid) \/ Register(pid) PROVE Stays
  BY <1>1, <1>3, PlainReturns DEF Release, Register, release_packet_id, register_packet_id
<1>4. ASSUME Acquire \/ AcquireFails \/ SendError PROVE Stays
  BY <1>1, <1>4, PlainReturns DEF Acquire, AcquireFails, SendError, acquire_packet_id,
       acquire_fails, release_packet_id
<1>5. ASSUME NEW name, NEW val, Sets(name, val) PROVE Stays
  BY <1>1, <1>5, PlainReturns DEF Sets, set_offline_publish, set_option
<1>6. ASSUME NEW ms, SetsInterval(ms) PROVE Stays
  BY <1>1, <1>6, IntervalPushes DEF SetsInterval
<1>7. ASSUME NEW kind \in TimerKind, TimerFires(kind) PROVE Stays
  <2>1. notify_timer_fired(kind)
    BY <1>7 DEF TimerFires
  <2>2. PICK b, o : Disarms(b, kind) /\ Leads(b, o) /\ Returns(o)
    BY <2>1, FiredPushes
  <2>3. Pushes(b) /\ b.link = link
    BY <2>2 DEF Disarms, Leads, Pushes
  <2> QED BY <2>3, LinkOf DEF Stays
<1>8. ASSUME Open \/ Close \/ CloseUnused PROVE Stays
  <2>1. CASE Close
    <3>1. notify_closed
      BY <2>1 DEF Close
    <3> QED BY <3>1, ClosedPushes DEF Stays
  <2> QED BY <1>2, <1>8, <2>1 DEF Open, CloseUnused
<1>9. ASSUME NEW p, PeerSendsMalformed(p)
      PROVE  Stays \/ (Fumbles /\ p.type = "connect" /\ accepts(p))
  <2>1. CASE recv_framing_error
    BY <1>1, <2>1, FramingPushes
  <2>2. CASE recv_malformed(p) /\ p.type = "connect"
    <3>1. accepts(p)
      BY <2>2 DEF recv_malformed
    <3>2. ASSUME NEW b, NEW v, Base(b), Pushes(b), b.link = Fumbled(link, v),
                 link.protocol_version \in {v, "Undetermined"}
          PROVE  Fumbles
      BY <3>2, LinkOf DEF Fumbles
    <3> QED BY <1>1, <2>2, <3>1, <3>2, MalformedPushes
  <2>3. CASE recv_malformed(p) /\ p.type # "connect"
    <3>1. \E e : Out(handle_error(self, e)) \/ Out(NotifyError(self, e))
      BY <2>3 DEF recv_malformed, accepts, handled_type
    <3> QED BY <1>0, <1>1, <3>1, ErrorLeads, CallReturns, PlainReturns
  <2> QED BY <1>9, <2>1, <2>2, <2>3 DEF PeerSendsMalformed
<1> QED BY <1>3, <1>4, <1>5, <1>6, <1>7, <1>8, <1>9

\* A version that is decided stays.
LEMMA SameVersion ==
  ASSUME ConnShape, V5, Stays \/ Starts \/ Establishes \/ Serves \/ Fumbles
  PROVE  V5'
<1>1. link \in LinkRecord /\ link.protocol_version = "V5"
  BY DEF ConnShape, V5
<1> QED BY <1>1 DEF Stays, Starts, Establishes, Serves, Fumbles, Fumbled, Down, LinkRecord, V5

\* What a packet of the application must be for the table.
Fits(p) == /\ p.topic \in Topics \cup {NoTopic}
           /\ InitVersion = "V5" \/ (p.topic # NoTopic /\ p.alias = 0)

LEMMA NextAlias ==
  ASSUME AliasPackets, TimerInv, AliasDomain, InitVersion = "V5" => V5, Next
  PROVE  /\ InitVersion = "V5" => V5'
         /\ SameTable \/ (\E n \in Nat : NewTableOf(n)) \/ (\E p : Fits(p) /\ Uses(p))
<1> DEFINE Changes == SameTable \/ (\E n \in Nat : NewTableOf(n)) \/ (\E p : Fits(p) /\ Uses(p))
           Turns == Stays \/ Starts \/ Establishes \/ Serves \/ Fumbles
<1>0. ConnShape
  BY DEF TimerInv
<1>1. ASSUME NEW p, send(p), p.type = "publish" => Fits(p) PROVE Turns /\ Changes
  <2>1. Turns
    BY <1>0, <1>1, SendLink
  <2>2. CASE p.type = "connect" /\ NewTableOf(0)
    <3>1. 0 \in Nat
      OBVIOUS
    <3> QED BY <2>1, <2>2, <3>1
  <2>3. CASE p.type = "publish" /\ Uses(p)
    BY <1>1, <2>1, <2>3
  <2> QED BY <1>1, <2>1, <2>2, <2>3, SendAlias
<1>2. ASSUME NEW p \in AppPackets, AppConnect(p) \/ AppSend(p) PROVE Turns /\ Changes
  <2>1. send(p)
    BY <1>2 DEF AppConnect, AppSend
  <2>2. p.type = "publish" => Fits(p)
    BY DEF AliasPackets, Fits
  <2> QED BY <1>1, <2>1, <2>2
<1>3. ASSUME NEW p \in Publishes, NEW pid, AppPublish(p, pid) PROVE Turns /\ Changes
  <2> DEFINE q == [p EXCEPT !.pid = pid]
  <2>1. send(q)
    BY <1>3 DEF AppPublish
  <2>2. q.topic = p.topic /\ q.alias = p.alias
    BY DEF AliasPackets
  <2>3. Fits(q)
    BY <2>2 DEF AliasPackets, Fits
  <2> HIDE DEF q
  <2> QED BY <1>1, <2>1, <2>3
<1>4. ASSUME NEW type \in Requests, NEW pid, AppRequest(type, pid) PROVE Turns /\ Changes
  <2>1. Ack(type, pid).type # "publish"
    BY EndpointAssumption DEF Ack
  <2> QED BY <1>1, <1>4, <2>1 DEF AppRequest
<1>5. ASSUME NEW pid, AppPubrel(pid) PROVE Turns /\ Changes
  <2>1. Ack("pubrel", pid).type # "publish"
    BY DEF Ack
  <2> QED BY <1>1, <1>5, <2>1 DEF AppPubrel
<1>6. ASSUME NEW p \in PeerPackets, PeerSend(p) PROVE Turns /\ Changes
  <2>1. recv(p)
    BY <1>6 DEF PeerSend
  <2>2. Turns
    BY <1>0, <2>1, RecvLink
  <2>3. p.type \in {"connect", "connack"} => Prop(p.ta_max, 0) \in Nat
    BY DEF AliasPackets, Prop
  <2>4. Changes
    BY <2>1, <2>3, RecvAlias
  <2> QED BY <2>2, <2>4
<1>7. ASSUME UNCHANGED alias \/ UNCHANGED core PROVE Changes
  BY <1>7, SameCore
<1>8. ASSUME NEW pid, Release(pid) \/ Register(pid) PROVE Turns /\ Changes
  <2>1. UNCHANGED alias
    BY <1>8 DEF Release, Register, release_packet_id, register_packet_id
  <2> QED BY <1>0, <1>7, <1>8, <2>1, OtherLink
<1>9. ASSUME Acquire \/ AcquireFails \/ SendError PROVE Turns /\ Changes
  <2>1. UNCHANGED alias \/ UNCHANGED core
    BY <1>9 DEF Acquire, AcquireFails, SendError, acquire_packet_id, acquire_fails,
         release_packet_id
  <2> QED BY <1>0, <1>7, <1>9, <2>1, OtherLink
<1>10. ASSUME NEW name, NEW val, Sets(name, val) PROVE Turns /\ Changes
  <2>1. UNCHANGED alias
    BY <1>10 DEF Sets, set_offline_publish, set_option
  <2> QED BY <1>0, <1>7, <1>10, <2>1, OtherLink
<1>11. ASSUME NEW ms, SetsInterval(ms) PROVE Turns /\ Changes
  <2>1. UNCHANGED alias
    BY <1>11 DEF SetsInterval, set_pingreq_send_interval
  <2> QED BY <1>0, <1>7, <1>11, <2>1, OtherLink
<1>12. ASSUME NEW kind \in TimerKind, TimerFires(kind) PROVE Turns /\ Changes
  <2>1. UNCHANGED core
    BY <1>12 DEF TimerFires, notify_timer_fired
  <2> QED BY <1>0, <1>7, <1>12, <2>1, OtherLink
<1>13. ASSUME alias' = [send |-> NoTopicAliasSend, recv |-> NoTopicAliasRecv] PROVE Changes
  <2>1. NewTableOf(0)
    BY <1>13 DEF NewTableOf, NoTopicAliasSend, AliasDomain
  <2>2. 0 \in Nat
    OBVIOUS
  <2> QED BY <2>1, <2>2
<1>14. ASSUME Open \/ Close \/ CloseUnused PROVE Turns /\ Changes
  <2>1. UNCHANGED core \/ alias' = [send |-> NoTopicAliasSend, recv |-> NoTopicAliasRecv]
    BY <1>14 DEF Open, Close, CloseUnused, notify_closed
  <2>2. Changes
    BY <1>7, <1>13, <2>1
  <2>3. Turns
    BY <1>0, <1>14, OtherLink
  <2> QED BY <2>2, <2>3
<1>15. ASSUME NEW p, PeerSendsMalformed(p) PROVE Turns /\ Changes
  <2>1. UNCHANGED core
    BY <1>15 DEF PeerSendsMalformed, recv_malformed, recv_framing_error
  <2> QED BY <1>0, <1>7, <1>15, <2>1, OtherLink
<1>16. ASSUME Restart PROVE Changes /\ (InitVersion = "V5" => V5')
  <2>1. alias' = [send |-> NoTopicAliasSend, recv |-> NoTopicAliasRecv]
    BY <1>16 DEF Restart, restore
  <2>2. link'.protocol_version = InitVersion
    BY <1>16 DEF Restart, restore
  <2> QED BY <1>13, <2>1, <2>2 DEF V5
<1> HIDE DEF Changes, Turns
<1>17. Restart \/ (Turns /\ Changes)
  BY <1>2, <1>3, <1>4, <1>5, <1>6, <1>8, <1>9, <1>10, <1>11, <1>12, <1>14, <1>15
     DEF Next, App, Network
<1>18. Turns /\ InitVersion = "V5" => V5'
  BY <1>0, SameVersion DEF Turns
<1>19. Changes /\ (InitVersion = "V5" => V5')
  BY <1>16, <1>17, <1>18
<1> QED BY <1>19 DEF Changes

\* AliasInv is inductive.
LEMMA AliasSafe == ASSUME AliasPackets PROVE Spec => []AliasInv
<1>1. Init => AliasInv
  <2> SUFFICES ASSUME Init PROVE AliasInv
    OBVIOUS
  <2>1. alias = [send |-> NoTopicAliasSend, recv |-> NoTopicAliasRecv]
    BY DEF Init, ConnInit
  <2>2. 0 \in Nat
    OBVIOUS
  <2>3. TableOK(NoTopicAliasSend)
    BY <2>2, NewTable DEF NoTopicAliasSend
  <2>4. link.protocol_version = InitVersion
    BY DEF Init, ConnInit
  <2> QED BY <2>1, <2>3, <2>4 DEF AliasInv, V5
<1>2. TimerInv /\ AliasInv /\ [Next]_vars => AliasInv'
  <2> SUFFICES ASSUME TimerInv, AliasInv, [Next]_vars PROVE AliasInv'
    OBVIOUS
  <2>1. AliasDomain /\ TableOK(alias.send) /\ (InitVersion = "V5" => V5)
    BY DEF AliasInv, AliasDomain
  <2>2. CASE Next
    <3>1. /\ InitVersion = "V5" => V5'
          /\ SameTable \/ (\E n \in Nat : NewTableOf(n)) \/ (\E p : Fits(p) /\ Uses(p))
      BY <2>1, <2>2, NextAlias
    <3>2. CASE SameTable
      BY <2>1, <3>1, <3>2 DEF SameTable, AliasDomain, AliasInv
    <3>3. ASSUME NEW n \in Nat, NewTableOf(n) PROVE AliasInv'
      BY <3>1, <3>3, NewTable DEF NewTableOf, AliasDomain, AliasInv
    <3>4. ASSUME NEW p, Fits(p), Uses(p) PROVE AliasInv'
      <4>1. TableOK(alias_after_publish(p))
        BY <2>1, <3>4, AfterPublish DEF Fits, Uses, AliasPackets
      <4> QED BY <3>1, <3>4, <4>1 DEF Uses, AliasDomain, AliasInv
    <3> QED BY <3>1, <3>2, <3>3, <3>4
  <2>3. CASE UNCHANGED vars
    BY <2>3 DEF vars, connVars, AliasInv, V5
  <2> QED BY <2>2, <2>3
<1> QED BY <1>1, <1>2, TimerInvHolds, PTL DEF Spec

\* Whatever the application publishes, with or without aliases and under auto map and
\* auto replace, and however connections end, alias_to_topic and topic_to_aliases stay
\* inverse to each other and the order of use lists every alias in use once.
THEOREM AliasTableAlwaysOK == ASSUME AliasPackets PROVE Spec => []AliasTableOK
<1>1. AliasInv => AliasTableOK
  <2> SUFFICES ASSUME AliasInv PROVE AliasTableOK
    OBVIOUS
  <2>1. TableOK(alias.send)
    BY DEF AliasInv
  <2>2. \A a \in 1..alias.send.max :
          (alias.send.topic[a] # NoTopic) = (a \in alias.send.used)
    BY <2>1 DEF TableOK
  <2> QED BY <2>1, <2>2 DEF TableOK, AliasTableOK, MIN_ALIAS
<1> QED BY <1>1, AliasSafe, PTL

-----------------------------------------------------------------------------
(***************************************************************************)
(* What the peer knows of the aliases of a client.                         *)
(***************************************************************************)
\* A client that leaves auto map off and, for QoS 1 and 2, asks for the vacancy: a
\* PUBLISH refused for the receive maximum has registered its alias.  A CONNACK that
\* leaves the table as it is comes once per CONNECT.
ResolvingClient ==
  /\ Role = "Client" /\ AliasPackets
  /\ \A p \in AppPackets : p.type # "publish"
  /\ \A p \in Publishes : "qos" \in DOMAIN p /\ (p.qos > 0 => ChecksVacancy)
  /\ \A s \in Settings : s[1] # "auto_map_topic_alias_send"
  /\ \A p \in PeerPackets : p.type = "connack" =>
       p.recv_max \in Nat \cup {None} /\ (OneConnack \/ Prop(p.ta_max, 0) # 0)

\* One topic for an alias.
Learnt(w) == /\ \A u \in w : u = [alias |-> u.alias, topic |-> u.topic]
             /\ \A u, v \in w : u.alias = v.alias => u = v

LEMMA OnWire ==
  ASSUME NEW w, Learnt(w)
  PROVE  /\ \A u \in w : TopicOnWire(w, u.alias) = u.topic
         /\ \A a : (\A u \in w : u.alias # a) => TopicOnWire(w, a) = NoTopic
<1>1. ASSUME NEW u \in w PROVE TopicOnWire(w, u.alias) = u.topic
  <2>1. (CHOOSE v \in w : v.alias = u.alias) = u
    BY <1>1 DEF Learnt
  <2> QED BY <1>1, <2>1 DEF TopicOnWire
<1> QED BY <1>1 DEF TopicOnWire

\* A PUBLISH with an alias says what the alias means, and nothing of the others.
LEMMA UseOnWire ==
  ASSUME Learnt(wire), NEW p, NEW topic
  PROVE  LET w == AliasUse(p, topic)
         IN  /\ Learnt(w) /\ TopicOnWire(w, p.alias) = topic
             /\ \A b : b # p.alias => TopicOnWire(w, b) = TopicOnWire(wire, b)
<1> DEFINE w == AliasUse(p, topic)
           new == [alias |-> p.alias, topic |-> topic]
<1>1. new.alias = p.alias /\ new.topic = topic
  OBVIOUS
<1>2. \A u : u \in w <=> (u \in wire /\ u.alias # p.alias) \/ u = new
  BY DEF AliasUse
<1>3. new = [alias |-> new.alias, topic |-> new.topic]
  OBVIOUS
<1> HIDE DEF w, new
<1>4. Learnt(w)
  BY <1>1, <1>2, <1>3 DEF Learnt
<1>5. TopicOnWire(w, p.alias) = topic
  BY <1>1, <1>2, <1>4, OnWire
<1>6. ASSUME NEW b, b # p.alias PROVE TopicOnWire(w, b) = TopicOnWire(wire, b)
  <2>1. CASE \E u \in wire : u.alias = b
    <3>1. PICK u \in wire : u.alias = b
      BY <2>1
    <3>2. u \in w
      BY <1>2, <1>6, <3>1
    <3> QED BY <1>4, <3>1, <3>2, OnWire
  <2>2. CASE \A u \in wire : u.alias # b
    <3>1. \A u \in w : u.alias # b
      BY <1>1, <1>2, <1>6, <2>2
    <3> QED BY <1>4, <2>2, <3>1, OnWire
  <2> QED BY <2>1, <2>2
<1> QED BY <1>4, <1>5, <1>6 DEF w

\* What the peer makes of the packet q.
Told(q) == IF q.alias = 0 THEN wire
           ELSE AliasUse(q, IF q.topic # NoTopic THEN q.topic ELSE TopicOnWire(wire, q.alias))

\* The peer knows the aliases of table t.
Resolved(w, t) == \A a \in t.used : TopicOnWire(w, a) = t.topic[a]

LEMMA PublishResolves ==
  ASSUME TableOK(alias.send), NoTopic \notin Topics, Learnt(wire), Resolved(wire, alias.send),
         opts.auto_map_topic_alias_send = FALSE,
         NEW p, {"topic", "alias"} \subseteq DOMAIN p, p.topic \in Topics \cup {NoTopic},
         alias_usable(p), V5 \/ (p.topic # NoTopic /\ p.alias = 0)
  PROVE  Learnt(Told(wire_publish(p))) /\ Resolved(Told(wire_publish(p)), alias_after_publish(p))
<1> DEFINE t == alias.send
           f == alias_after_publish(p)
<1>0. t.max \in Nat /\ t.topic \in [1..t.max -> Topics \cup {NoTopic}]
      /\ \A a \in 1..t.max : t.topic[a] # NoTopic <=> a \in t.used
      /\ t.used \subseteq 1..t.max
  <2>1. TableShape(t) /\ t.used = ToSet(t.order)
    BY DEF TableOK
  <2>2. t.order \in Seq(1..t.max)
    BY <2>1 DEF TableShape
  <2>3. ToSet(t.order) \subseteq 1..t.max
    <3>1. \A S : \A s \in Seq(S) : \A i \in DOMAIN s : s[i] \in S
      OBVIOUS
    <3>2. \A i \in DOMAIN t.order : t.order[i] \in 1..t.max
      BY <2>2, <3>1, Zenon
    <3> QED BY <3>2 DEF ToSet
  <2>4. t.max \in Nat /\ t.topic \in [1..t.max -> Topics \cup {NoTopic}]
    BY <2>1 DEF TableShape
  <2>5. \A a \in 1..t.max : t.topic[a] # NoTopic <=> a \in t.used
    BY DEF TableOK
  <2> QED BY <2>1, <2>3, <2>4, <2>5
<1>1. CASE p.topic = NoTopic
  <2>1. p.alias \in 1..t.max /\ t.topic[p.alias] # NoTopic
    BY <1>1 DEF alias_usable, has_alias, MIN_ALIAS
  <2>2. p.alias \in t.used /\ p.alias # 0
    BY <1>0, <2>1
  <2>3. wire_publish(p) = p
    BY <1>1 DEF wire_publish, auto_alias
  <2>4. Told(p) = AliasUse(p, TopicOnWire(wire, p.alias))
    BY <1>1, <2>2 DEF Told
  <2>5. f = touch(t, p.alias)
    BY <1>1 DEF alias_after_publish
  <2>6. f.used = t.used /\ f.topic = t.topic
    BY <2>5, TouchKeeps
  <2> HIDE DEF f
  <2>7. Learnt(Told(p)) /\ \A b : TopicOnWire(Told(p), b) = TopicOnWire(wire, b)
    BY <2>4, UseOnWire
  <2>8. Resolved(Told(p), f)
    BY <2>6, <2>7 DEF Resolved
  <2> QED BY <2>3, <2>7, <2>8 DEF f
<1>2. CASE p.topic # NoTopic /\ p.alias # 0
  <2>1. wire_publish(p) = p
    BY <1>2 DEF wire_publish, auto_alias
  <2>2. Told(p) = AliasUse(p, p.topic)
    BY <1>2 DEF Told
  <2>3. f = insert_or_update(t, p.topic, p.alias)
    BY <1>2 DEF alias_after_publish
  <2>4. p.topic \in Topics /\ p.alias \in 1..t.max
    BY <1>2 DEF alias_usable, MIN_ALIAS
  <2>5. f.used = t.used \cup {p.alias} /\ f.topic = [t.topic EXCEPT ![p.alias] = p.topic]
    <3>1. TableOK(t)
      OBVIOUS
    <3> HIDE DEF f, t
    <3> DEFINE g == insert_or_update(t, p.topic, p.alias)
    <3>2. ASSUME NEW u \in Topics, u # NoTopic, NEW a \in 1..t.max
          PROVE  LET h == insert_or_update(t, u, a)
                 IN  h.used = t.used \cup {a} /\ h.topic = [t.topic EXCEPT ![a] = u]
      BY <3>1, <3>2, InsertKeeps
    <3>3. g.used = t.used \cup {p.alias} /\ g.topic = [t.topic EXCEPT ![p.alias] = p.topic]
      BY <1>2, <2>4, <3>2
    <3> QED BY <2>3, <3>3
  <2>6. /\ Learnt(Told(p)) /\ TopicOnWire(Told(p), p.alias) = p.topic
        /\ \A b : b # p.alias => TopicOnWire(Told(p), b) = TopicOnWire(wire, b)
    BY <2>2, UseOnWire
  <2> HIDE DEF f
  <2>7. f.topic[p.alias] = p.topic /\ \A a \in t.used \ {p.alias} : f.topic[a] = t.topic[a]
    BY <1>0, <2>4, <2>5
  <2>8. Resolved(Told(p), f)
    BY <2>5, <2>6, <2>7 DEF Resolved
  <2> QED BY <2>1, <2>6, <2>8 DEF f
<1>3. CASE p.topic # NoTopic /\ p.alias = 0
  <2>1. auto_alias(p) # 0 => auto_alias(p) = find_by_topic(t, p.topic)
    BY DEF auto_alias
  <2>2. f = t
    <3>1. f = IF auto_alias(p) # 0 /\ find_by_topic(t, p.topic) = 0
              THEN insert_or_update(t, p.topic, auto_alias(p)) ELSE t
      BY <1>3 DEF alias_after_publish
    <3> QED BY <2>1, <3>1
  <2> HIDE DEF f
  <2>3. CASE auto_alias(p) = 0
    <3>1. Told(wire_publish(p)) = wire
      BY <1>3, <2>3 DEF Told, wire_publish
    <3> QED BY <2>2, <3>1 DEF f
  <2>4. CASE auto_alias(p) # 0
    <3> DEFINE q == wire_publish(p)
    <3>1. q = [p EXCEPT !.topic = NoTopic, !.alias = auto_alias(p)]
      BY <2>4 DEF wire_publish
    <3>2. q.topic = NoTopic /\ q.alias = auto_alias(p)
      BY <3>1
    <3> HIDE DEF q
    <3>3. Told(q) = AliasUse(q, TopicOnWire(wire, q.alias))
      BY <2>4, <3>2 DEF Told
    <3>4. Learnt(Told(q)) /\ \A b : TopicOnWire(Told(q), b) = TopicOnWire(wire, b)
      BY <3>3, UseOnWire
    <3>5. Resolved(Told(q), t)
      BY <3>4 DEF Resolved
    <3> QED BY <2>2, <3>4, <3>5 DEF q, f
  <2> QED BY <2>3, <2>4
<1> QED BY <1>1, <1>2, <1>3

-----------------------------------------------------------------------------
\* The packets that a list of events sends.
SentBy(ev) == {ev[i].packet : i \in {j \in DOMAIN ev : ev[j].event = "RequestSendPacket"}}

LEMMA SentAppend ==
  ASSUME NEW ev, IsList(ev), NEW e
  PROVE  SentBy(Append(ev, e)) =
           IF e.event = "RequestSendPacket" THEN SentBy(ev) \cup {e.packet} ELSE SentBy(ev)
<1> DEFINE w == Append(ev, e)
           n == Len(ev)
<1>1. /\ n \in Nat /\ DOMAIN ev = 1..n /\ DOMAIN w = 1..(n + 1)
      /\ \A k \in 1..n : w[k] = ev[k]
      /\ w[n + 1] = e
  BY ListFacts
<1> HIDE DEF w, n
<1>2. \A i : i \in DOMAIN w <=> i \in DOMAIN ev \/ i = n + 1
  BY <1>1
<1>3. \A k \in DOMAIN ev : w[k] = ev[k]
  BY <1>1
<1>4. SentBy(w) = IF e.event = "RequestSendPacket" THEN SentBy(ev) \cup {e.packet} ELSE SentBy(ev)
  BY ONLY <1>1, <1>2, <1>3, Zenon DEF SentBy
<1> QED BY <1>4 DEF w

\* The answers to a PUBLISH: nothing is sent, or the packet is.
LEMMA PublishSent ==
  ASSUME ConnShape
  PROVE  /\ SentBy(<<>>) = {}
         /\ \A e : SentBy(NotifyError(self, e).ev) = {}
         /\ \A e, pids : SentBy(NotifyReleased(NotifyError(self, e), pids).ev) = {}
         /\ \A q, r : SentBy(send_post_process(RequestSend(self, q, r)).ev) = {q}
<1>1. SentBy(<<>>) = {}
  BY DEF SentBy
<1>2. Call(self) /\ self.ev = <<>>
  BY SelfBase DEF self
<1>3. ASSUME NEW o, Call(o), NEW e
      PROVE  /\ Push(o, e).ev = Append(o.ev, e) /\ IsList(o.ev)
             /\ SentBy(Push(o, e).ev) =
                  IF e.event = "RequestSendPacket" THEN SentBy(o.ev) \cup {e.packet}
                  ELSE SentBy(o.ev)
  <2>1. o = [link |-> o.link, ping |-> o.ping, ev |-> o.ev] /\ IsList(o.ev)
    BY <1>3 DEF Call
  <2>2. Push(o, e).ev = Append(o.ev, e)
    BY <2>1 DEF Push
  <2> QED BY <2>1, <2>2, SentAppend
<1>4. ASSUME NEW e PROVE Call(NotifyError(self, e)) /\ SentBy(NotifyError(self, e).ev) = {}
  <2>1. Call(NotifyError(self, e))
    BY <1>2, EventLeads, LeadsCall
  <2> DEFINE x == [event |-> "NotifyError", error |-> e]
  <2>2. x.event # "RequestSendPacket"
    OBVIOUS
  <2> HIDE DEF x
  <2>3. SentBy(Push(self, x).ev) = {}
    BY <1>1, <1>2, <1>3, <2>2
  <2> QED BY <2>1, <2>3 DEF NotifyError, x
<1>5. ASSUME NEW e, NEW pids PROVE SentBy(NotifyReleased(NotifyError(self, e), pids).ev) = {}
  <2> DEFINE o == NotifyError(self, e)
             x == ReleasedEvent(pids)
  <2>1. x.event # "RequestSendPacket"
    BY DEF ReleasedEvent
  <2>2. Call(o) /\ SentBy(o.ev) = {}
    BY <1>4
  <2> HIDE DEF o, x
  <2>3. SentBy(Push(o, x).ev) = {}
    BY <1>3, <2>1, <2>2
  <2>4. NotifyReleased(o, pids) \in {o, Push(o, x)}
    BY DEF NotifyReleased, x
  <2> QED BY <2>2, <2>3, <2>4 DEF o
<1>6. ASSUME NEW q, NEW r PROVE SentBy(send_post_process(RequestSend(self, q, r)).ev) = {q}
  <2> DEFINE x == SendEvent(q, r)
             o == RequestSend(self, q, r)
  <2>1. x.event = "RequestSendPacket" /\ x.packet = q
    BY DEF SendEvent
  <2>2. o = Push(self, x)
    BY DEF RequestSend
  <2>3. Call(o)
    BY <1>2, EventLeads, LeadsCall
  <2> HIDE DEF x
  <2>4. SentBy(Push(self, x).ev) = {q}
    BY <1>1, <1>2, <1>3, <2>1
  <2> HIDE DEF o
  <2>5. ASSUME NEW ms PROVE SentBy(reset(o, "PingreqSend", ms).ev) = {q}
    <3> DEFINE g == [o.ping EXCEPT !.armed = @ \cup {"PingreqSend"}]
               b == [o EXCEPT !.ping.armed = @ \cup {"PingreqSend"}]
               y == [event |-> "RequestTimerReset", kind |-> "PingreqSend", duration_ms |-> ms]
    <3>1. y.event # "RequestSendPacket"
      OBVIOUS
    <3>2. o = [link |-> o.link, ping |-> o.ping, ev |-> o.ev] /\ IsList(o.ev)
      BY <2>3 DEF Call
    <3>3. b = [o EXCEPT !.ping = g]
      OBVIOUS
    <3> HIDE DEF g, b
    <3>4. b = [link |-> o.link, ping |-> g, ev |-> o.ev]
      BY <3>2, <3>3
    <3>5. b.ev = o.ev
      BY <3>4
    <3> HIDE DEF y
    <3>6. Push(b, y).ev = Append(o.ev, y)
      BY <3>4, <3>5 DEF Push
    <3>7. SentBy(Append(o.ev, y)) = {q}
      BY <2>2, <2>4, <3>1, <3>2, SentAppend
    <3> QED BY <3>6, <3>7 DEF reset, b, y
  <2>6. SentBy(o.ev) = {q}
    BY <2>2, <2>4
  <2>7. send_post_process(o) = o \/ \E ms : send_post_process(o) = reset(o, "PingreqSend", ms)
    BY DEF send_post_process
  <2> QED BY <2>5, <2>6, <2>7 DEF o
<1> QED BY <1>1, <1>4, <1>5, <1>6

\* What the peer learns of a PUBLISH: nothing unless it was sent.
LEMMA PublishWire ==
  ASSUME ConnShape, AliasDomain, NEW p, process_send_publish(p), Announces,
         {"type", "topic", "alias"} \subseteq DOMAIN p, p.type = "publish",
         limited(p) => flow.send_count # flow.send_max
  PROVE  \/ SameTable /\ wire' = wire
         \/ link.status # "Connected" /\ Uses(p) /\ wire' = wire
         \/ link.status = "Connected" /\ Uses(p) /\ wire' = Told(wire_publish(p))
<1> DEFINE q == wire_publish(p)
           r == IF p.qos > 0 /\ ~stores_publish(p) THEN p.pid ELSE 0
<1>1. SentBy(events') = {} => wire' = wire
  <2>1. SentBy(events') = {} => {x \in SentBy(events') : x.type = "publish" /\ x.alias # 0} = {}
    OBVIOUS
  <2> QED BY <2>1 DEF Announces, SentBy
<1>2. SentBy(events') = {q} => wire' = Told(q)
  <2>1. q.type = "publish"
    BY DEF wire_publish
  <2> HIDE DEF q
  <2> SUFFICES ASSUME SentBy(events') = {q} PROVE wire' = Told(q)
    OBVIOUS
  <2> DEFINE aliased == {x \in SentBy(events') : x.type = "publish" /\ x.alias # 0}
  <2>2. wire' = IF aliased = {} THEN wire
                ELSE LET x == CHOOSE y \in aliased : TRUE
                     IN  AliasUse(x, IF x.topic # NoTopic THEN x.topic
                                     ELSE TopicOnWire(wire, x.alias))
    BY DEF Announces, SentBy
  <2>3. CASE q.alias = 0
    <3>1. aliased = {}
      BY <2>3
    <3> QED BY <2>2, <2>3, <3>1 DEF Told
  <2>4. CASE q.alias # 0
    <3>1. aliased = {q}
      BY <2>1, <2>4
    <3>2. (CHOOSE y \in aliased : TRUE) = q /\ aliased # {}
      BY <3>1
    <3> HIDE DEF aliased
    <3> QED BY <2>2, <2>4, <3>2 DEF Told
  <2> QED BY <2>3, <2>4
<1>3. ASSUME NEW i, NEW e, NEW pid, refuse_and_release(i, e, pid) PROVE wire' = wire
  <2>1. events' = NotifyReleased(NotifyError(self, e), {pid} \cap i.man).ev
    BY <1>3 DEF refuse_and_release, Out
  <2> QED BY <1>1, <2>1, PublishSent
<1>4. ASSUME NEW e, Out(NotifyError(self, e)) PROVE wire' = wire
  BY <1>1, <1>4, PublishSent DEF Out
<1>5. ASSUME Panic PROVE SameTable /\ wire' = wire
  <2>1. events' = <<>> /\ UNCHANGED core
    BY <1>5 DEF Panic
  <2> QED BY <1>1, <2>1, PublishSent, SameCore
<1>6. ASSUME UNCHANGED alias PROVE SameTable
  BY <1>6, SameCore
<1>7. ASSUME publish_attached(p)
      PROVE  \/ SameTable /\ wire' = wire
             \/ link.status # "Connected" /\ Uses(p) /\ wire' = wire
             \/ link.status = "Connected" /\ Uses(p) /\ wire' = Told(q)
  <2>1. \/ UNCHANGED alias /\ \E i, e, pid : refuse_and_release(i, e, pid)
        \/ /\ alias_usable(p) /\ alias' = [alias EXCEPT !.send = alias_after_publish(p)]
           /\ \E b : OutUnless(b, IF link.status # "Connected" THEN self
                                  ELSE send_post_process(RequestSend(self, q, r)))
    BY <1>7 DEF publish_attached
  <2>2. ASSUME alias_usable(p), alias' = [alias EXCEPT !.send = alias_after_publish(p)]
        PROVE  Uses(p)
    BY <2>2 DEF Uses, AliasDomain
  <2>3. ASSUME NEW b, link.status # "Connected", OutUnless(b, self) PROVE wire' = wire
    BY <1>1, <2>3, PublishSent DEF OutUnless, self
  <2>4. ASSUME NEW b, OutUnless(b, send_post_process(RequestSend(self, q, r)))
        PROVE  wire' = Told(q)
    <3>1. events' = send_post_process(RequestSend(self, q, r)).ev
      BY <2>4 DEF OutUnless
    <3> HIDE DEF q, r
    <3>2. SentBy(events') = {q}
      BY <3>1, PublishSent
    <3> QED BY <1>2, <3>2
  <2> HIDE DEF q, r
  <2> QED BY <1>3, <1>6, <2>1, <2>2, <2>3, <2>4
<1> HIDE DEF q, r
<1>8. ASSUME publish_accepted(p)
      PROVE  \/ SameTable /\ wire' = wire
             \/ link.status # "Connected" /\ Uses(p) /\ wire' = wire
             \/ link.status = "Connected" /\ Uses(p) /\ wire' = Told(q)
  <2>1. \/ publish_attached(p) \/ Panic
        \/ UNCHANGED alias /\ \E i, e, pid : refuse_and_release(i, e, pid)
    BY <1>8 DEF publish_accepted
  <2> QED BY <1>3, <1>5, <1>6, <1>7, <2>1
<1>9. \/ publish_accepted(p)
      \/ UNCHANGED alias /\ \E i, e, pid : refuse_and_release(i, e, pid)
      \/ UNCHANGED alias /\ \E e : Out(NotifyError(self, e))
  BY DEF process_send_publish
<1> QED BY <1>3, <1>4, <1>6, <1>8, <1>9 DEF q

-----------------------------------------------------------------------------
\* The two halves of WireInv: what the peer knows, and what the application settled.
Known == /\ Learnt(wire)
         /\ link.status = "Connecting" => alias.send.max = 0
         /\ AliasResolves
Settled == /\ "auto_map_topic_alias_send" \in DOMAIN opts
           /\ opts.auto_map_topic_alias_send = FALSE
           /\ "send_max" \in DOMAIN flow /\ flow.send_max \in Int

\* The ways the table, the link and what the peer knows change together.
KeepsAliases == /\ SameTable /\ wire' = wire
                /\ Stays \/ (Establishes /\ link.status = "Connecting")
NewAliases   == /\ wire' \in {wire, {}}
                /\ \E n \in Nat : NewTableOf(n) /\ (n = 0 \/ link'.status # "Connecting")
EndsAliases  == wire' \in {wire, {}} /\ link'.status = "Disconnected"
UsesAlias(p) == /\ Fits(p) /\ {"topic", "alias"} \subseteq DOMAIN p /\ Uses(p) /\ Stays
                /\ \/ link.status = "Connected" /\ wire' = Told(wire_publish(p))
                   \/ link.status # "Connected" /\ wire' = wire

LEMMA LearntNothing == Learnt({})
BY DEF Learnt

\* Each of them leaves the peer knowing the table.
LEMMA WireStepKeeps ==
  ASSUME AliasPackets, ConnShape, AliasInv, Known, Settled,
         KeepsAliases \/ NewAliases \/ EndsAliases \/ \E p : UsesAlias(p)
  PROVE  Known'
<1>0. TableOK(alias.send) /\ NoTopic \notin Topics
  BY DEF AliasInv, AliasPackets
<1>1. link.status = "Connecting" => alias.send.max = 0 /\ alias.send.used = {}
  <2> SUFFICES ASSUME link.status = "Connecting"
               PROVE  alias.send.max = 0 /\ alias.send.used = {}
    OBVIOUS
  <2>1. alias.send.max = 0
    BY DEF Known
  <2>2. alias.send.order \in Seq(1..0) /\ alias.send.used = ToSet(alias.send.order)
    BY <1>0, <2>1 DEF TableOK, TableShape
  <2>3. \A S : \A s \in Seq(S) : \A i \in DOMAIN s : s[i] \in S
    OBVIOUS
  <2>4. \A i \in DOMAIN alias.send.order : alias.send.order[i] \in 1..0
    BY <2>2, <2>3, Zenon
  <2>5. 1..0 = {}
    OBVIOUS
  <2>6. ToSet(alias.send.order) = {}
    BY <2>4, <2>5 DEF ToSet
  <2> QED BY <2>1, <2>2, <2>6
<1>2. link \in LinkRecord /\ Down(link).status = "Disconnected"
  BY DEF ConnShape, Down, LinkRecord
<1>3. CASE KeepsAliases
  <2>1. alias'.send = alias.send /\ wire' = wire
    BY <1>3 DEF KeepsAliases, SameTable
  <2>2. CASE Stays
    <3>1. link'.status = link.status \/ link'.status = "Disconnected"
      BY <1>2, <2>2 DEF Stays
    <3> QED BY <2>1, <3>1 DEF Known, AliasResolves
  <2>3. CASE Establishes /\ link.status = "Connecting"
    <3>1. link'.status = "Connected" /\ link.status = "Connecting"
      BY <1>2, <2>3 DEF Establishes, LinkRecord
    <3>2. alias'.send.used = {}
      BY <1>1, <2>1, <3>1
    <3> QED BY <2>1, <3>1, <3>2 DEF Known, AliasResolves
  <2> QED BY <1>3, <2>2, <2>3 DEF KeepsAliases
<1>4. CASE NewAliases
  <2>1. PICK n \in Nat : NewTableOf(n) /\ (n = 0 \/ link'.status # "Connecting")
    BY <1>4 DEF NewAliases
  <2>2. alias'.send = TopicAliasSend(n)
    BY <2>1 DEF NewTableOf
  <2>3. alias'.send.max = n /\ alias'.send.used = {}
    BY <2>2, NewTable
  <2>4. Learnt(wire')
    BY <1>4, LearntNothing DEF NewAliases, Known
  <2>5. AliasResolves'
    BY <2>3 DEF AliasResolves
  <2> QED BY <2>1, <2>3, <2>4, <2>5 DEF Known
<1>5. CASE EndsAliases
  <2>1. Learnt(wire')
    BY <1>5, LearntNothing DEF EndsAliases, Known
  <2> QED BY <1>5, <2>1 DEF EndsAliases, Known, AliasResolves
<1>6. ASSUME NEW p, UsesAlias(p) PROVE Known'
  <2>1. /\ p.topic \in Topics \cup {NoTopic} /\ alias_usable(p)
        /\ V5 \/ (p.topic # NoTopic /\ p.alias = 0)
        /\ alias'.send = alias_after_publish(p) /\ {"topic", "alias"} \subseteq DOMAIN p
    BY <1>6 DEF UsesAlias, Fits, Uses, AliasInv
  <2>2. link'.status = link.status \/ link'.status = "Disconnected"
    BY <1>2, <1>6 DEF UsesAlias, Stays
  <2>3. CASE link.status = "Connected"
    <3>1. wire' = Told(wire_publish(p))
      BY <1>6, <2>3 DEF UsesAlias
    <3>2. Learnt(wire) /\ Resolved(wire, alias.send)
      BY <2>3 DEF Known, AliasResolves, Resolved
    <3>3. opts.auto_map_topic_alias_send = FALSE
      BY DEF Settled
    <3>4. Learnt(wire') /\ Resolved(wire', alias'.send)
      BY <1>0, <2>1, <3>1, <3>2, <3>3, PublishResolves
    <3> QED BY <2>2, <2>3, <3>4 DEF Known, AliasResolves, Resolved
  <2>4. CASE link.status = "Connecting"
    <3>1. ~has_alias(alias.send, p.alias) /\ 1..alias.send.max = {}
      BY <1>1, <2>4 DEF has_alias, MIN_ALIAS
    <3>2. p.topic # NoTopic /\ p.alias = 0
      BY <2>1, <3>1 DEF alias_usable, MIN_ALIAS
    <3>3. auto_alias(p) = 0
      BY <2>4 DEF auto_alias
    <3>4. alias_after_publish(p) = alias.send
      BY <3>2, <3>3 DEF alias_after_publish
    <3>5. wire' = wire
      BY <1>6, <2>4 DEF UsesAlias
    <3> QED BY <2>1, <2>2, <2>4, <3>4, <3>5 DEF Known, AliasResolves
  <2>5. CASE link.status = "Disconnected"
    <3>1. wire' = wire
      BY <1>6, <2>5 DEF UsesAlias
    <3> QED BY <2>2, <2>5, <3>1 DEF Known, AliasResolves
  <2>6. link.status \in Statuses
    BY <1>2 DEF LinkRecord
  <2> QED BY <2>3, <2>4, <2>5, <2>6 DEF Statuses
<1> QED BY <1>3, <1>4, <1>5, <1>6

-----------------------------------------------------------------------------
\* The calls leave the options alone, and the send maximum a number or None.
LEMMA SettledSame == ASSUME Settled, UNCHANGED <<flow, opts>> \/ UNCHANGED core PROVE Settled'
BY DEF Settled, core

LEMMA SendSettled ==
  ASSUME Role = "Client", Settled, NEW p, send(p)
  PROVE  Settled'
<1> DEFINE Keeps == /\ opts' = opts
                    /\ \/ flow' = flow \/ (\E x : flow' = [flow EXCEPT !.recv = x])
                       \/ (\E x : flow' = [flow EXCEPT !.send_count = x])
<1>0. ASSUME Keeps PROVE Settled'
  BY <1>0 DEF Settled
<1>1. CASE send_refused(p)
  BY <1>1, SettledSame DEF send_refused
<1>2. CASE process_send_connect(p)
  <2>1. UNCHANGED core \/ (flow' = [initialize_flow EXCEPT !.recv_max = p.recv_max] /\ opts' = opts)
    BY <1>2 DEF process_send_connect
  <2>2. CASE flow' = [initialize_flow EXCEPT !.recv_max = p.recv_max] /\ opts' = opts
    <3>1. "send_max" \in DOMAIN flow' /\ flow'.send_max = None
      BY <2>2 DEF initialize_flow
    <3>2. None \in Int
      BY DEF None
    <3> QED BY <2>2, <3>1, <3>2 DEF Settled
  <2> QED BY <2>1, <2>2, SettledSame
<1>3. ASSUME p.type = "connack" /\ may_send(p) PROVE FALSE
  BY <1>3 DEF may_send, wrong_version
<1>4. CASE process_send_publish(p)
  <2>1. opts' = opts /\ (UNCHANGED flow \/ publish_accepted(p))
    BY <1>4 DEF process_send_publish
  <2>2. UNCHANGED flow \/ Panic \/ publish_attached(p)
    BY <2>1 DEF publish_accepted
  <2>3. UNCHANGED flow \/ Panic \/ flow' = add_count(1)
    BY <2>2 DEF publish_attached
  <2>4. Panic => UNCHANGED core
    BY DEF Panic
  <2>5. flow' = add_count(1) => Keeps
    BY <2>1 DEF add_count
  <2> QED BY <1>0, <2>1, <2>3, <2>4, <2>5, SettledSame
<1>5. CASE process_send_pubrel(p)
  <2>1. Panic \/ UNCHANGED <<flow, opts>>
    BY <1>5 DEF process_send_pubrel
  <2> QED BY <2>1, SettledSame DEF Panic
<1>6. CASE process_send_puback(p) \/ process_send_pubcomp(p) \/ process_send_pubrec(p)
  <2>1. Keeps
    BY <1>6 DEF process_send_puback, process_send_pubcomp, process_send_pubrec, flow_after_ack
  <2> QED BY <1>0, <2>1
<1>7. CASE process_send_subscribe(p) \/ process_send_unsubscribe(p)
  BY <1>7, SettledSame DEF process_send_subscribe, process_send_unsubscribe, send_request
<1>8. CASE \/ process_send_suback(p) \/ process_send_unsuback(p) \/ process_send_pingreq(p)
           \/ process_send_pingresp(p) \/ process_send_disconnect(p) \/ process_send_auth(p)
  BY <1>8, SettledSame DEF process_send_suback, process_send_unsuback, process_send_pingreq,
       process_send_pingresp, process_send_disconnect, process_send_auth
<1> HIDE DEF Keeps
<1> QED BY <1>1, <1>2, <1>3, <1>4, <1>5, <1>6, <1>7, <1>8 DEF send

LEMMA RecvSettled ==
  ASSUME Role = "Client", Settled, NEW p, recv(p),
         p.type = "connack" => p.recv_max \in Nat \cup {None}
  PROVE  Settled'
<1> DEFINE Keeps == /\ opts' = opts
                    /\ \/ flow' = flow \/ (\E x : flow' = [flow EXCEPT !.recv = x])
                       \/ (\E x : flow' = [flow EXCEPT !.send_count = x])
<1>0. ASSUME Keeps PROVE Settled'
  BY <1>0 DEF Settled
<1>1. CASE recv_refused(p)
  BY <1>1, SettledSame DEF recv_refused
<1>2. ASSUME p.type = "connect", process_recv_connect(p) PROVE FALSE
  BY <1>2 DEF process_recv_connect, accepts, can_receive
<1>3. CASE p.type = "connack" /\ process_recv_connack(p)
  <2>1. UNCHANGED core \/ (flow' = [flow EXCEPT !.send_max = Prop(p.recv_max, @)] /\ opts' = opts)
    BY <1>3 DEF process_recv_connack
  <2>2. Prop(p.recv_max, flow.send_max) \in Int
    BY <1>3 DEF Prop, None, Settled
  <2> QED BY <2>1, <2>2, SettledSame DEF Settled
<1>4. CASE process_recv_publish(p)
  <2> DEFINE noted == IF V5 /\ p.qos > 0 THEN [flow EXCEPT !.recv = @ \cup {p.pid}] ELSE flow
             ack == Ack(IF p.qos = 1 THEN "puback" ELSE "pubrec", p.pid)
  <2>1. opts' = opts /\ (flow' = flow \/ flow' = noted \/ flow' = flow_after_ack(self, ack, noted))
    BY <1>4 DEF process_recv_publish
  <2>2. "send_max" \in DOMAIN noted /\ noted.send_max = flow.send_max
    BY DEF Settled
  <2> HIDE DEF noted, ack
  <2>3. \/ flow_after_ack(self, ack, noted) = noted
        \/ flow_after_ack(self, ack, noted) = [noted EXCEPT !.recv = @ \ {ack.pid}]
    BY DEF flow_after_ack
  <2> QED BY <2>1, <2>2, <2>3 DEF Settled
<1>5. ASSUME NEW i, NEW c, response_ends(p, i, c) \/ unexpected_response PROVE Settled'
  <2>1. UNCHANGED core \/ (opts' = opts /\ (flow' = flow \/ flow' = add_count(-1)))
    BY <1>5 DEF response_ends, unexpected_response
  <2>2. opts' = opts /\ flow' = add_count(-1) => Keeps
    BY DEF add_count
  <2> QED BY <1>0, <2>1, <2>2, SettledSame
<1>6. CASE \/ process_recv_puback(p) \/ process_recv_pubcomp(p) \/ process_recv_suback(p)
           \/ process_recv_unsuback(p)
  BY <1>5, <1>6 DEF process_recv_puback, process_recv_pubcomp, process_recv_suback,
       process_recv_unsuback
<1>7. CASE process_recv_pubrec(p)
  <2>1. \/ unexpected_response \/ Panic \/ UNCHANGED <<flow, opts>>
        \/ response_ends(p, [ids EXCEPT !.pubrec = @ \ {p.pid}], TRUE)
    BY <1>7 DEF process_recv_pubrec
  <2> QED BY <1>5, <2>1, SettledSame DEF Panic
<1>8. CASE process_recv_pubrel(p)
  <2>1. opts' = opts /\ (flow' = flow \/ \E a : flow' = flow_after_ack(self, a, flow))
    BY <1>8 DEF process_recv_pubrel
  <2>2. Keeps
    BY <2>1 DEF flow_after_ack
  <2> QED BY <1>0, <2>2
<1>9. CASE \/ process_recv_notified(p) \/ process_recv_pingreq(p)
           \/ process_recv_pingresp(p) \/ process_recv_disconnect(p)
  BY <1>9, SettledSame DEF process_recv_notified, process_recv_pingreq, process_recv_pingresp,
       process_recv_disconnect
<1> HIDE DEF Keeps
<1> QED BY <1>1, <1>2, <1>3, <1>4, <1>6, <1>7, <1>8, <1>9 DEF recv

-----------------------------------------------------------------------------
\* Sending a packet that is no PUBLISH, and receiving any.
LEMMA SendWire ==
  ASSUME Role = "Client", ConnShape, AliasDomain, NEW p, send(p), p.type # "publish", wire' = wire
  PROVE  KeepsAliases \/ NewAliases
<1>1. 0 \in Nat
  OBVIOUS
<1>2. NewTableOf(0) => NewAliases
  BY <1>1 DEF NewAliases
<1>3. CASE Stays
  BY <1>2, <1>3, SendAlias DEF KeepsAliases
<1>4. CASE p.type = "connect" /\ process_send_connect(p) /\ Starts
  <2>1. link' # link
    BY <1>4 DEF Starts, ConnShape, LinkRecord
  <2>2. \A e : ~Out(NotifyError(self, e))
    BY <2>1, OutPing
  <2>3. alias' = [send |-> NoTopicAliasSend, recv |-> TopicAliasRecv(Prop(p.ta_max, 0))]
    BY <1>4, <2>2 DEF process_send_connect
  <2>4. NewTableOf(0)
    BY <2>3 DEF NewTableOf, NoTopicAliasSend, AliasDomain
  <2> QED BY <1>2, <2>4
<1>5. ASSUME p.type = "connack", may_send(p) PROVE FALSE
  BY <1>5 DEF may_send, wrong_version
<1> QED BY <1>3, <1>4, <1>5, SendLink

LEMMA RecvWire ==
  ASSUME Role = "Client", ConnShape, AliasDomain, NEW p, recv(p), wire' = wire,
         p.type = "connack" => Prop(p.ta_max, 0) \in Nat,
         p.type = "connack" => link.status = "Connecting" \/ Prop(p.ta_max, 0) # 0
  PROVE  KeepsAliases \/ NewAliases
<1>1. CASE UNCHANGED core /\ Stays
  BY <1>1, SameCore DEF KeepsAliases
<1>2. CASE recv_refused(p)
  <2>1. Pushes(self) /\ UNCHANGED core
    BY <1>2, RefusedPushes DEF recv_refused
  <2>2. Stays
    BY <2>1, SelfBase, LinkOf DEF Stays
  <2> QED BY <1>1, <2>1, <2>2
<1>3. ASSUME p.type = "connect", process_recv_connect(p) PROVE FALSE
  BY <1>3 DEF process_recv_connect, accepts, can_receive
<1>4. CASE p.type = "connack" /\ process_recv_connack(p)
  <2>1. CASE ~p.ok
    <3>1. Out(NotifyReceived(self, p)) /\ UNCHANGED core
      BY <1>4, <2>1 DEF process_recv_connack
    <3>2. NotifyReceived(self, p).link = link
      BY SelfBase, ReceivedCall
    <3> QED BY <1>1, <3>1, <3>2 DEF Out, Stays
  <2>2. CASE p.ok
    <3>1. CASE Arrives(self, p) /\ UNCHANGED core
      <4>1. Stays
        BY <3>1, SelfBase, LinkOf DEF Stays
      <4> QED BY <1>1, <3>1, <4>1
    <3>2. CASE link' = [link EXCEPT !.status = "Connected"]
      <4>1. link'.status = "Connected"
        BY <3>2 DEF ConnShape, LinkRecord
      <4>2. CASE Prop(p.ta_max, 0) = 0
        <5>1. SameTable
          BY <1>4, <2>2, <4>2, SameCore DEF process_recv_connack
        <5> QED BY <1>4, <3>2, <4>2, <5>1 DEF KeepsAliases, Establishes
      <4>3. CASE Prop(p.ta_max, 0) # 0
        <5>1. alias' = [alias EXCEPT !.send = TopicAliasSend(p.ta_max)]
          BY <1>4, <2>2, <4>3 DEF process_recv_connack
        <5>2. Prop(p.ta_max, 0) = p.ta_max
          BY <4>3 DEF Prop
        <5>3. NewTableOf(Prop(p.ta_max, 0))
          BY <5>1, <5>2 DEF NewTableOf, AliasDomain
        <5> QED BY <1>4, <4>1, <5>3 DEF NewAliases
      <4> QED BY <4>2, <4>3
    <3> QED BY <1>4, <3>1, <3>2, RecvConnack
  <2> QED BY <2>1, <2>2
<1>5. CASE p.type \notin {"connect", "connack"}
  <2>1. SameTable /\ Stays
    BY <1>5, RecvAlias, RecvLink
  <2> QED BY <2>1 DEF KeepsAliases
<1> QED BY <1>2, <1>3, <1>4, <1>5 DEF recv

\* A PUBLISH of the application.
LEMMA PublishStep ==
  ASSUME ResolvingClient, ConnShape, AliasDomain, Settled, NEW p \in Publishes, NEW pid,
         AppPublish(p, pid)
  PROVE  KeepsAliases \/ \E q : UsesAlias(q)
<1> DEFINE q == [p EXCEPT !.pid = pid]
<1>1. /\ {"type", "topic", "alias", "qos"} \subseteq DOMAIN p /\ p.type = "publish"
      /\ p.topic \in Topics \cup {NoTopic}
      /\ InitVersion = "V5" \/ (p.topic # NoTopic /\ p.alias = 0)
      /\ p.qos > 0 => ChecksVacancy
  BY EndpointAssumption DEF ResolvingClient, AliasPackets
<1>2. /\ {"type", "topic", "alias"} \subseteq DOMAIN q /\ q.type = "publish"
      /\ q.topic = p.topic /\ q.alias = p.alias /\ q.qos = p.qos
  BY <1>1
<1>3. send(q) /\ Announces /\ (ChecksVacancy /\ p.qos > 0 => vacancy # 0)
  BY DEF AppPublish
<1> HIDE DEF q
<1>4. Fits(q)
  BY <1>1, <1>2 DEF Fits
<1>5. Stays
  <2>1. Pushes(self)
    BY <1>2, <1>3, SendPushes
  <2> QED BY <2>1, SelfBase, LinkOf DEF Stays
<1>6. limited(q) => flow.send_count # flow.send_max
  <2> SUFFICES ASSUME limited(q), flow.send_count = flow.send_max PROVE FALSE
    OBVIOUS
  <2>1. vacancy # 0 /\ flow.send_max # None
    BY <1>1, <1>2, <1>3 DEF limited
  <2>2. flow.send_max \in Int
    BY DEF Settled
  <2>3. vacancy = 0
    BY <2>1, <2>2 DEF vacancy
  <2> QED BY <2>1, <2>3
<1>7. CASE send_refused(q)
  <2>1. UNCHANGED core /\ \E e : Out(NotifyError(self, e))
    BY <1>7 DEF send_refused
  <2>2. SentBy(events') = {}
    BY <2>1, PublishSent DEF Out
  <2>3. wire' = wire
    <3>1. {x \in SentBy(events') : x.type = "publish" /\ x.alias # 0} = {}
      BY <2>2
    <3> QED BY <1>3, <3>1 DEF Announces, SentBy
  <2> QED BY <1>5, <2>1, <2>3, SameCore DEF KeepsAliases
<1>8. CASE process_send_publish(q)
  <2>1. \/ SameTable /\ wire' = wire
        \/ link.status # "Connected" /\ Uses(q) /\ wire' = wire
        \/ link.status = "Connected" /\ Uses(q) /\ wire' = Told(wire_publish(q))
    BY <1>2, <1>3, <1>6, <1>8, PublishWire
  <2>2. SameTable /\ wire' = wire => KeepsAliases
    BY <1>5 DEF KeepsAliases
  <2>3. \/ link.status # "Connected" /\ Uses(q) /\ wire' = wire
        \/ link.status = "Connected" /\ Uses(q) /\ wire' = Told(wire_publish(q))
        => UsesAlias(q)
    BY <1>2, <1>4, <1>5 DEF UsesAlias
  <2> QED BY <2>1, <2>2, <2>3
<1> QED BY <1>2, <1>3, <1>7, <1>8 DEF send

LEMMA NextWire ==
  ASSUME ResolvingClient, TimerInv, AliasDomain, Settled, Next
  PROVE  /\ Settled'
         /\ KeepsAliases \/ NewAliases \/ EndsAliases \/ \E p : UsesAlias(p)
<1> DEFINE Changes == KeepsAliases \/ NewAliases \/ EndsAliases \/ \E p : UsesAlias(p)
<1>0. ConnShape /\ Role = "Client" /\ AliasPackets
  BY DEF TimerInv, ResolvingClient
<1>1. ASSUME NEW p, send(p), p.type # "publish", wire' = wire PROVE Settled' /\ Changes
  BY <1>0, <1>1, SendSettled, SendWire
<1>2. ASSUME NEW p \in AppPackets, AppConnect(p) \/ AppSend(p) PROVE Settled' /\ Changes
  <2>1. send(p) /\ wire' = wire
    BY <1>2 DEF AppConnect, AppSend
  <2>2. p.type # "publish"
    BY DEF ResolvingClient
  <2> QED BY <1>1, <2>1, <2>2
<1>3. ASSUME NEW p \in Publishes, NEW pid, AppPublish(p, pid) PROVE Settled' /\ Changes
  <2>1. send([p EXCEPT !.pid = pid])
    BY <1>3 DEF AppPublish
  <2>2. Settled'
    BY <1>0, <2>1, SendSettled
  <2>3. KeepsAliases \/ \E q : UsesAlias(q)
    BY <1>0, <1>3, PublishStep
  <2> QED BY <2>2, <2>3
<1>4. ASSUME NEW type \in Requests, NEW pid, AppRequest(type, pid) PROVE Settled' /\ Changes
  <2>1. Ack(type, pid).type # "publish"
    BY EndpointAssumption DEF Ack
  <2> QED BY <1>1, <1>4, <2>1 DEF AppRequest
<1>5. ASSUME NEW pid, AppPubrel(pid) PROVE Settled' /\ Changes
  <2>1. Ack("pubrel", pid).type # "publish"
    BY DEF Ack
  <2> QED BY <1>1, <1>5, <2>1 DEF AppPubrel
<1>6. ASSUME NEW p \in PeerPackets, PeerSend(p) PROVE Settled' /\ Changes
  <2>1. recv(p) /\ wire' = wire
    BY <1>6 DEF PeerSend
  <2>1a. p.type = "connack" => link.status = "Connecting" \/ Prop(p.ta_max, 0) # 0
    BY <1>6 DEF PeerSend, ResolvingClient
  <2>2. p.type = "connack" => Prop(p.ta_max, 0) \in Nat
    BY <1>0 DEF AliasPackets, Prop
  <2>3. p.type = "connack" => p.recv_max \in Nat \cup {None}
    BY DEF ResolvingClient
  <2>4. KeepsAliases \/ NewAliases
    BY <1>0, <2>1, <2>1a, <2>2, RecvWire
  <2>5. Settled'
    BY <1>0, <2>1, <2>3, RecvSettled
  <2> QED BY <2>4, <2>5
<1>7. ASSUME UNCHANGED alias \/ UNCHANGED core, Stays, wire' = wire PROVE Changes
  BY <1>7, SameCore DEF KeepsAliases
<1>8. ASSUME NEW pid, Release(pid) \/ Register(pid) PROVE Settled' /\ Changes
  <2>1. UNCHANGED <<alias, flow, opts, wire>>
    BY <1>8 DEF Release, Register, release_packet_id, register_packet_id
  <2> QED BY <1>0, <1>7, <1>8, <2>1, OtherLink, SettledSame
<1>9. ASSUME Acquire \/ AcquireFails \/ SendError PROVE Settled' /\ Changes
  <2>1. UNCHANGED <<alias, flow, opts, wire>>
    BY <1>9 DEF Acquire, AcquireFails, SendError, acquire_packet_id, acquire_fails,
         release_packet_id, core
  <2> QED BY <1>0, <1>7, <1>9, <2>1, OtherLink, SettledSame
<1>10. ASSUME NEW s \in Settings, Sets(s[1], s[2]) PROVE Settled' /\ Changes
  <2>1. UNCHANGED <<alias, flow, wire>>
    BY <1>10 DEF Sets, set_offline_publish, set_option
  <2>2. \E x : x # "auto_map_topic_alias_send" /\ opts' = [opts EXCEPT ![x] = s[2]]
    <3>1. s[1] # "auto_map_topic_alias_send"
      BY DEF ResolvingClient
    <3> QED BY <1>10, <3>1 DEF Sets, set_offline_publish, set_option
  <2>3. Settled'
    BY <2>1, <2>2 DEF Settled
  <2> QED BY <1>0, <1>7, <1>10, <2>1, <2>3, OtherLink
<1>11. ASSUME NEW ms, SetsInterval(ms) PROVE Settled' /\ Changes
  <2>1. /\ UNCHANGED <<alias, flow, wire>>
        /\ opts' = [opts EXCEPT !.pingreq_user_send_interval_ms = ms]
    BY <1>11 DEF SetsInterval, set_pingreq_send_interval
  <2>2. Settled'
    BY <2>1 DEF Settled
  <2> QED BY <1>0, <1>7, <1>11, <2>1, <2>2, OtherLink
<1>12. ASSUME NEW kind \in TimerKind, TimerFires(kind) PROVE Settled' /\ Changes
  <2>1. UNCHANGED core /\ wire' = wire
    BY <1>12 DEF TimerFires, notify_timer_fired
  <2> QED BY <1>0, <1>7, <1>12, <2>1, OtherLink, SettledSame
<1>13. ASSUME Open PROVE Settled' /\ Changes
  <2>1. UNCHANGED core /\ UNCHANGED link /\ wire' = {} /\ net = "closed"
    BY <1>13 DEF Open
  <2>2. EndsAliases
    BY <2>1 DEF EndsAliases, TimerInv, Silent
  <2> QED BY <2>1, <2>2, SettledSame
<1>14. ASSUME CloseUnused PROVE Settled' /\ Changes
  <2>1. UNCHANGED core /\ wire' = wire
    BY <1>14 DEF CloseUnused
  <2> QED BY <1>0, <1>7, <1>14, <2>1, OtherLink, SettledSame
<1>15. ASSUME Close PROVE Settled' /\ Changes
  <2>1. UNCHANGED <<flow, opts, wire>> /\ notify_closed
    BY <1>15 DEF Close, notify_closed
  <2>2. link' = Down(link)
    BY <1>0, <2>1, ClosedPushes
  <2>3. link'.status = "Disconnected"
    BY <1>0, <2>2 DEF Down, ConnShape, LinkRecord
  <2> QED BY <2>1, <2>3, SettledSame DEF EndsAliases
<1>16. ASSUME NEW p, PeerSendsMalformed(p) PROVE Settled' /\ Changes
  <2>1. UNCHANGED core /\ wire' = wire
    BY <1>16 DEF PeerSendsMalformed, recv_malformed, recv_framing_error
  <2>2. ~(p.type = "connect" /\ accepts(p))
    BY <1>0 DEF accepts, can_receive
  <2> QED BY <1>0, <1>7, <1>16, <2>1, <2>2, OtherLink, SettledSame
<1>17. ASSUME Restart PROVE Settled' /\ Changes
  <2>1. flow' = initialize_flow /\ opts' = opts /\ link'.status = "Disconnected" /\ wire' = {}
    BY <1>17 DEF Restart, restore
  <2>2. "send_max" \in DOMAIN flow' /\ flow'.send_max = None
    BY <2>1 DEF initialize_flow
  <2>3. None \in Int
    BY DEF None
  <2>4. Settled'
    BY <2>1, <2>2, <2>3 DEF Settled
  <2> QED BY <2>1, <2>4 DEF EndsAliases
<1> HIDE DEF Changes
<1>18. Settled' /\ Changes
  BY <1>2, <1>3, <1>4, <1>5, <1>6, <1>8, <1>9, <1>10, <1>11, <1>12, <1>13, <1>14, <1>15, <1>16,
     <1>17 DEF Next, App, Network
<1> QED BY <1>18 DEF Changes

\* The peer learnt one topic for each alias, and what the sending table holds is what
\* it learnt (WireInv): the table is made anew by CONNACK, and an alias is sent
\* together with the topic that the table then has for it.
THEOREM WireInvHolds == ASSUME ResolvingClient PROVE Spec => []WireInv
<1>0. WireInv <=> Known /\ Settled
  BY DEF WireInv, Known, Settled, Learnt
<1>1. Init => WireInv
  <2> SUFFICES ASSUME Init PROVE WireInv
    OBVIOUS
  <2>1. /\ alias = [send |-> NoTopicAliasSend, recv |-> NoTopicAliasRecv]
        /\ link.status = "Disconnected" /\ wire = {}
        /\ flow = [send_max |-> None, send_count |-> 0, recv_max |-> None, recv |-> {}]
        /\ "auto_map_topic_alias_send" \in DOMAIN opts /\ opts.auto_map_topic_alias_send = FALSE
    BY DEF Init, ConnInit
  <2>2. None \in Int
    BY DEF None
  <2>3. Settled
    BY <2>1, <2>2 DEF Settled
  <2>4. Known
    BY <2>1, LearntNothing DEF Known, AliasResolves
  <2> QED BY <1>0, <2>3, <2>4
<1>2. TimerInv /\ AliasInv /\ WireInv /\ [Next]_vars => WireInv'
  <2> SUFFICES ASSUME TimerInv, AliasInv, WireInv, [Next]_vars PROVE WireInv'
    OBVIOUS
  <2>1. CASE Next
    <3>1. AliasDomain /\ ConnShape /\ AliasPackets
      BY DEF AliasInv, AliasDomain, TimerInv, ResolvingClient
    <3>2. /\ Settled'
          /\ KeepsAliases \/ NewAliases \/ EndsAliases \/ \E p : UsesAlias(p)
      BY <1>0, <2>1, <3>1, NextWire
    <3>3. Known'
      BY <1>0, <3>1, <3>2, WireStepKeeps
    <3> QED BY <3>2, <3>3 DEF WireInv, Known, Settled, Learnt
  <2>2. CASE UNCHANGED vars
    BY <2>2 DEF vars, connVars, envVars, WireInv, AliasResolves
  <2> QED BY <2>1, <2>2
<1>3. ResolvingClient => AliasPackets
  BY DEF ResolvingClient
<1> QED BY <1>1, <1>2, <1>3, TimerInvHolds, AliasSafe, PTL DEF Spec

\* A client that leaves auto map off and publishes within the peer's receive maximum
\* never uses an alias that the server takes for another topic or does not know: by
\* hand or under auto replace, whatever is overwritten, over reconnects and restarts.
THEOREM AliasAlwaysResolves == ASSUME ResolvingClient PROVE Spec => []AliasResolves
<1>1. WireInv => AliasResolves
  BY DEF WireInv
<1> QED BY <1>1, WireInvHolds, PTL
=============================================================================
