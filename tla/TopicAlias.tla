----------------------------- MODULE TopicAlias -----------------------------
(***************************************************************************)
(* packet/topic_alias_send.rs and packet/topic_alias_recv.rs as operators  *)
(* on records.  The allocator inside TopicAliasSend is the set of aliases  *)
(* in use, which ValueAllocator is shown to implement.  An Option that is  *)
(* None is the record with max = 0: the code never keeps one with max 0.   *)
(***************************************************************************)
EXTENDS Integers, Sequences, FiniteSets

CONSTANT Topics   \* the topic names, none of them NoTopic

NoTopic == ""     \* the empty topic name
MIN_ALIAS == 1

\* The elements of s other than a, in their order.
Without(s, a) ==
  LET kept   == {i \in DOMAIN s : s[i] # a}
      nth(k) == CHOOSE i \in kept : Cardinality({j \in kept : j <= i}) = k
  IN  [k \in 1..Cardinality(kept) |-> s[nth(k)]]

-----------------------------------------------------------------------------
\* TopicAliasSend: alias_to_topic is an IndexMap, its keys in `order` and its
\* values in `topic`; topic_to_aliases is `aliases`, an empty list for a topic
\* that has no entry; value_allocator is `used`.
TopicAliasSend(max) ==
  [max |-> max, used |-> {}, order |-> <<>>,
   topic |-> [a \in MIN_ALIAS..max |-> NoTopic],
   aliases |-> [t \in Topics |-> <<>>]]

NoTopicAliasSend == TopicAliasSend(0)

\* Mutant: the alias stays listed under its former topic.
insert_or_update_KeepsOld(tas, topic, alias) ==
  [tas EXCEPT !.used = @ \cup {alias},
              !.order = Append(IF alias \in tas.used THEN Without(@, alias) ELSE @, alias),
              !.topic[alias] = topic,
              !.aliases = [@ EXCEPT ![topic] = Append(@, alias)]]

\* Called with MIN_ALIAS <= alias <= max and a topic: the code asserts it.
insert_or_update(tas, topic, alias) ==
  LET known == alias \in tas.used
      kept  == IF known /\ tas.topic[alias] # NoTopic
               THEN [tas.aliases EXCEPT ![tas.topic[alias]] = Without(@, alias)]
               ELSE tas.aliases
  IN  [tas EXCEPT !.used = @ \cup {alias},
                  !.order = Append(IF known THEN Without(@, alias) ELSE @, alias),
                  !.topic[alias] = topic,
                  !.aliases = [kept EXCEPT ![topic] = Append(@, alias)]]

has_alias(tas, alias) ==
  alias \in MIN_ALIAS..tas.max /\ tas.topic[alias] # NoTopic

\* get: a hit moves the alias to the end of the LRU order.
touch(tas, alias) ==
  IF has_alias(tas, alias)
  THEN [tas EXCEPT !.order = Append(Without(@, alias), alias)] ELSE tas

peek(tas, alias) == IF has_alias(tas, alias) THEN tas.topic[alias] ELSE NoTopic

\* The first alias registered for the topic, 0 when there is none.
find_by_topic(tas, topic) ==
  IF tas.aliases[topic] = <<>> THEN 0 ELSE Head(tas.aliases[topic])

\* The lowest vacant alias, or else the first of the LRU order.
get_lru_alias(tas) ==
  LET vacant == (MIN_ALIAS..tas.max) \ tas.used
  IN  IF vacant # {} THEN CHOOSE a \in vacant : \A b \in vacant : a <= b
      ELSE IF tas.order # <<>> THEN Head(tas.order) ELSE MIN_ALIAS

-----------------------------------------------------------------------------
\* TopicAliasRecv: a map from alias to topic.
TopicAliasRecv(max) ==
  [max |-> max, topic |-> [a \in MIN_ALIAS..max |-> NoTopic]]

NoTopicAliasRecv == TopicAliasRecv(0)

recv_insert_or_update(tar, topic, alias) == [tar EXCEPT !.topic[alias] = topic]

recv_get(tar, alias) ==
  IF alias \in MIN_ALIAS..tar.max THEN tar.topic[alias] ELSE NoTopic
=============================================================================
