--------------------------- MODULE ValueAllocator ---------------------------
(***************************************************************************)
(* common/value_allocator.rs: the free values kept as a BTreeSet of        *)
(* intervals, ordered so that overlapping intervals compare equal.  Any    *)
(* value of the integer type may be passed in, freed ones included.        *)
(***************************************************************************)
EXTENDS Integers

CONSTANTS lowest, highest,  \* the values managed, both ends included
          MaxT              \* the greatest value of the integer type T

\* PacketIdManager and TopicAliasSend both start at 1.  With lowest = 0 a
\* release build would damage the pool when the greatest value of the type is
\* freed twice: value + 1 wraps to 0 and looks like the right neighbour's low.
ASSUME RangeAssumption == /\ lowest \in Nat \ {0} /\ highest \in Nat /\ MaxT \in Nat
                          /\ lowest <= highest /\ highest <= MaxT

VARIABLES pool,     \* the free intervals
          ret,      \* what the last call returned: a value, or NoValue
          panicked  \* the last call ended in a panic

vars == <<pool, ret, panicked>>

NoValue == -1
ValueInterval == [low : 0..MaxT, high : 0..MaxT]

new_range(l, h)  == [low |-> l, high |-> h]
contains(iv, v)  == iv.low <= v /\ v <= iv.high

\* Ord for ValueInterval: Less; neither less nor greater is Equal.
Less(a, b) == a.high < b.low

\* BTreeSet::insert does nothing when an Equal element is present.
Insert(p, iv) ==
  IF \A o \in p : Less(o, iv) \/ Less(iv, o) THEN p \cup {iv} ELSE p

\* pool.iter().next(), as a set of at most one element.
First(p) == {iv \in p : \A o \in p : iv.low <= o.low}

\* pool.range(new_single(v)..).next() and pool.range(..new_single(v)).next_back().
Right(p, v) == {r \in p : ~Less(r, new_range(v, v)) /\
                   \A o \in p : Less(o, new_range(v, v)) \/ r.low <= o.low}
Left(p, v)  == {l \in p : Less(l, new_range(v, v)) /\
                   \A o \in p : Less(o, new_range(v, v)) => o.low <= l.low}

\* value + T::one(): wraps in a release build, panics in a debug build.
PlusOne(v) == IF v = MaxT THEN 0 ELSE v + 1

\* No free interval contains the value.
is_used(v) == \A iv \in pool : ~contains(iv, v)

-----------------------------------------------------------------------------
Init == /\ pool = {new_range(lowest, highest)}
        /\ ret = NoValue
        /\ panicked = FALSE

allocate ==
  /\ \/ \E iv \in First(pool) :
          /\ ret' = iv.low
          /\ pool' = LET rest == pool \ {iv} IN
                     IF iv.low < iv.high
                     THEN Insert(rest, new_range(iv.low + 1, iv.high)) ELSE rest
     \/ pool = {} /\ ret' = NoValue /\ pool' = pool
  /\ UNCHANGED panicked

\* Mutant: the freed value is not merged with the interval on its right.
Deallocated_LeftOnly(p, v) ==
  LET ls == {l \in Left(p, v)  : l.high + 1 = v}
      low  == IF ls = {} THEN v ELSE (CHOOSE l \in ls : TRUE).low
  IN  Insert(p \ ls, new_range(low, v))

\* The pool after `value` is freed: it is merged with the neighbours it touches.
Deallocated(p, v) ==
  LET ls == {l \in Left(p, v)  : l.high + 1 = v}
      rs == {r \in Right(p, v) : PlusOne(v) = r.low}
      low  == IF ls = {} THEN v ELSE (CHOOSE l \in ls : TRUE).low
      high == IF rs = {} THEN v ELSE (CHOOSE r \in rs : TRUE).high
  IN  Insert((p \ ls) \ rs, new_range(low, high))

deallocate(v) ==
  /\ ret' = NoValue
  /\ \/ /\ lowest <= v /\ v <= highest
        /\ pool' = Deallocated(pool, v) /\ UNCHANGED panicked
     \/ \* value + T::one() overflows: evaluated only when `right` is Some
        /\ lowest <= v /\ v <= highest /\ v = MaxT /\ Right(pool, v) # {}
        /\ panicked' = TRUE /\ UNCHANGED pool
     \/ \* the assertion on the range
        /\ ~(lowest <= v /\ v <= highest)
        /\ panicked' = TRUE /\ UNCHANGED pool

\* Mutant: the part of the interval above the value is lost.
use_value_LosesTail(v) ==
  /\ \/ \E iv \in pool :
          /\ contains(iv, v)
          /\ pool' = IF iv.low < v
                     THEN Insert(pool \ {iv}, new_range(iv.low, v - 1))
                     ELSE pool \ {iv}
          /\ ret' = v
     \/ is_used(v) /\ ret' = NoValue /\ pool' = pool
  /\ UNCHANGED panicked

use_value(v) ==
  /\ \/ \E iv \in pool :
          /\ contains(iv, v)
          /\ pool' = LET rest == pool \ {iv}
                         left == IF iv.low < v
                                 THEN Insert(rest, new_range(iv.low, v - 1)) ELSE rest
                     IN  IF v < iv.high
                         THEN Insert(left, new_range(v + 1, iv.high)) ELSE left
          /\ ret' = v
     \/ is_used(v) /\ ret' = NoValue /\ pool' = pool
  /\ UNCHANGED panicked

clear == /\ pool' = {new_range(lowest, highest)}
         /\ ret' = NoValue /\ UNCHANGED panicked

Next == /\ ~panicked
        /\ \/ allocate
           \/ clear
           \/ \E v \in 0..MaxT : use_value(v) \/ deallocate(v)

Spec == Init /\ [][Next]_vars

-----------------------------------------------------------------------------
\* The pool holds intervals of the type's values and `ret` a value or none.
TypeOK == /\ pool \subseteq ValueInterval
          /\ ret \in 0..MaxT \cup {NoValue}
          /\ panicked \in BOOLEAN

\* Every free interval is within the managed range and not empty.
InRange == \A iv \in pool : /\ lowest <= iv.low /\ iv.low <= iv.high
                            /\ iv.high <= highest

\* Two free intervals never overlap and never touch: deallocate has merged
\* them.  The BTreeSet's order is total on the pool only because of this.
Coalesced == \A a, b \in pool : a # b => a.high + 1 < b.low \/ b.high + 1 < a.low

\* The strengthening that is inductive.
WellFormed == TypeOK /\ InRange /\ Coalesced

\* The interval pool implements the set of used values of IdPool.
Used == {v \in lowest..highest : is_used(v)}
Pool == INSTANCE IdPool WITH used <- Used
PoolSpec == Pool!PoolSpec
=============================================================================
