------------------------ MODULE ValueAllocatorProofs ------------------------
(***************************************************************************)
(* The interval pool stays well formed whatever the calls, and implements  *)
(* IdPool, for every range and every integer type.                         *)
(***************************************************************************)
EXTENDS ValueAllocator, TLAPS

USE RangeAssumption

\* Two intervals with at least one value between them.
Apart(a, b) == a.high + 1 < b.low \/ b.high + 1 < a.low

\* What WellFormed says of a pool, for pools that are not the state's.
WF(p) == /\ p \subseteq ValueInterval
         /\ \A iv \in p : lowest <= iv.low /\ iv.low <= iv.high /\ iv.high <= highest
         /\ \A a, b \in p : a # b => Apart(a, b)

\* The free values of a pool.
FreeIn(p) == {v \in lowest..highest : \E iv \in p : contains(iv, v)}

\* new_range builds an interval with the given bounds.
LEMMA NewRange ==
  ASSUME NEW l \in 0..MaxT, NEW h \in 0..MaxT
  PROVE  /\ new_range(l, h) \in ValueInterval
         /\ new_range(l, h).low = l
         /\ new_range(l, h).high = h
  BY DEF new_range, ValueInterval

\* Intervals are integers' intervals: what SMT needs to compare their bounds.
LEMMA IntervalBounds ==
  ASSUME NEW iv \in ValueInterval
  PROVE  /\ iv.low \in Int /\ iv.high \in Int
         /\ 0 <= iv.low /\ iv.low <= MaxT /\ 0 <= iv.high /\ iv.high <= MaxT
  BY DEF ValueInterval

\* Inserting an interval that is apart from the rest keeps a pool well formed
\* and adds exactly its values.
LEMMA InsertApart ==
  ASSUME NEW p, WF(p), NEW iv \in ValueInterval,
         lowest <= iv.low, iv.low <= iv.high, iv.high <= highest,
         \A o \in p : Apart(o, iv)
  PROVE  /\ Insert(p, iv) = p \cup {iv}
         /\ WF(Insert(p, iv))
         /\ FreeIn(Insert(p, iv)) = FreeIn(p) \cup (iv.low .. iv.high)
<1>1. \A o \in p : o \in ValueInterval
  BY DEF WF
<1>2. \A o \in p : Less(o, iv) \/ Less(iv, o)
  BY <1>1, IntervalBounds DEF Apart, Less
<1>3. Insert(p, iv) = p \cup {iv}
  BY <1>2 DEF Insert
<1>4. WF(p \cup {iv})
  BY <1>1, IntervalBounds DEF WF, Apart
<1>5. FreeIn(p \cup {iv}) = FreeIn(p) \cup (iv.low .. iv.high)
  BY IntervalBounds DEF FreeIn, contains
<1> QED BY <1>3, <1>4, <1>5

\* A part of a well-formed pool is well formed, and an interval's values are
\* what its removal takes away.
LEMMA RemoveOne ==
  ASSUME NEW p, WF(p), NEW iv \in p
  PROVE  /\ WF(p \ {iv})
         /\ FreeIn(p \ {iv}) = FreeIn(p) \ (iv.low .. iv.high)
<1>1. WF(p \ {iv})
  BY DEF WF
<1>2. \A o \in p : o \in ValueInterval
  BY DEF WF
<1>3. FreeIn(p \ {iv}) = FreeIn(p) \ (iv.low .. iv.high)
  BY <1>2, IntervalBounds DEF WF, FreeIn, contains, Apart
<1> QED BY <1>1, <1>3

-----------------------------------------------------------------------------
\* allocate's new pool: the first interval loses its lowest value, which is
\* the lowest free one.
LEMMA AllocatePool ==
  ASSUME NEW p, WF(p), NEW iv \in First(p)
  PROVE  LET rest == p \ {iv}
             q == IF iv.low < iv.high
                  THEN Insert(rest, new_range(iv.low + 1, iv.high)) ELSE rest
         IN  /\ WF(q)
             /\ FreeIn(q) = FreeIn(p) \ {iv.low}
             /\ iv.low \in FreeIn(p)
             /\ \A w \in FreeIn(p) : iv.low <= w
<1> DEFINE rest == p \ {iv}
           n == new_range(iv.low + 1, iv.high)
<1>1. iv \in p /\ \A o \in p : o \in ValueInterval /\ iv.low <= o.low
  BY DEF First, WF
<1>2. /\ iv.low \in Int /\ iv.high \in Int /\ 0 <= iv.low
      /\ lowest <= iv.low /\ iv.low <= iv.high /\ iv.high <= highest
  BY <1>1, IntervalBounds DEF WF
<1>3. iv.low \in FreeIn(p)
  BY <1>1, <1>2 DEF FreeIn, contains
<1>4. \A w \in FreeIn(p) : iv.low <= w
  BY <1>1, <1>2, IntervalBounds DEF FreeIn, contains
<1>5. WF(rest) /\ FreeIn(rest) = FreeIn(p) \ (iv.low .. iv.high)
  BY <1>1, RemoveOne
<1>6. iv.low .. iv.high \subseteq FreeIn(p)
  BY <1>1, <1>2 DEF FreeIn, contains
<1>7. CASE iv.low < iv.high
  <2>1. n \in ValueInterval /\ n.low = iv.low + 1 /\ n.high = iv.high
    BY <1>2, <1>7, NewRange
  <2>2. \A o \in rest : Apart(o, n)
    BY <1>1, <1>2, <1>7, <2>1, IntervalBounds DEF WF, Apart
  <2> HIDE DEF rest, n
  <2>3. WF(Insert(rest, n)) /\ FreeIn(Insert(rest, n)) = FreeIn(rest) \cup (n.low .. n.high)
    BY <1>2, <1>5, <1>7, <2>1, <2>2, InsertApart
  <2>4. FreeIn(Insert(rest, n)) = FreeIn(p) \ {iv.low}
    <3>1. FreeIn(Insert(rest, n)) = (FreeIn(p) \ (iv.low .. iv.high)) \cup ((iv.low + 1) .. iv.high)
      BY <1>5, <2>1, <2>3
    <3>2. FreeIn(p) \subseteq Int
      BY DEF FreeIn
    <3> QED BY <1>2, <1>6, <3>1, <3>2
  <2> QED BY <1>3, <1>4, <1>7, <2>3, <2>4 DEF rest, n
<1>8. CASE ~(iv.low < iv.high)
  <2>1. FreeIn(rest) = FreeIn(p) \ {iv.low}
    BY <1>2, <1>5, <1>8
  <2> QED BY <1>3, <1>4, <1>5, <1>8, <2>1
<1> QED BY <1>7, <1>8

\* use_value's new pool: the interval around the value is split around it.
LEMMA UsePool ==
  ASSUME NEW p, WF(p), NEW v \in 0..MaxT, NEW iv \in p, contains(iv, v)
  PROVE  LET rest == p \ {iv}
             left == IF iv.low < v THEN Insert(rest, new_range(iv.low, v - 1)) ELSE rest
             q == IF v < iv.high THEN Insert(left, new_range(v + 1, iv.high)) ELSE left
         IN  /\ WF(q)
             /\ FreeIn(q) = FreeIn(p) \ {v}
             /\ v \in FreeIn(p)
<1> DEFINE rest == p \ {iv}
           nl == new_range(iv.low, v - 1)
           left == IF iv.low < v THEN Insert(rest, nl) ELSE rest
           nr == new_range(v + 1, iv.high)
           q == IF v < iv.high THEN Insert(left, nr) ELSE left
<1>1. \A o \in p : o \in ValueInterval
  BY DEF WF
<1>2. /\ iv.low \in Int /\ iv.high \in Int /\ 0 <= iv.low
      /\ lowest <= iv.low /\ iv.low <= v /\ v <= iv.high /\ iv.high <= highest
  BY <1>1, IntervalBounds DEF WF, contains
<1>3. v \in FreeIn(p) /\ iv.low .. iv.high \subseteq FreeIn(p)
  BY <1>2 DEF FreeIn, contains
<1>4. WF(rest) /\ FreeIn(rest) = FreeIn(p) \ (iv.low .. iv.high)
  BY RemoveOne
<1>5. \A o \in rest : o.high + 1 < iv.low \/ iv.high + 1 < o.low
  BY DEF WF, Apart
<1>6. /\ WF(left)
      /\ FreeIn(left) = FreeIn(rest) \cup (iv.low .. (v - 1))
      /\ \A o \in left : o.high < v \/ iv.high + 1 < o.low
  <2>1. CASE iv.low < v
    <3>1. nl \in ValueInterval /\ nl.low = iv.low /\ nl.high = v - 1
      BY <1>2, <2>1, NewRange
    <3>2. \A o \in rest : Apart(o, nl)
      BY <1>1, <1>2, <1>5, <2>1, <3>1, IntervalBounds DEF Apart
    <3> HIDE DEF rest, nl
    <3>3. /\ Insert(rest, nl) = rest \cup {nl}
          /\ WF(Insert(rest, nl))
          /\ FreeIn(Insert(rest, nl)) = FreeIn(rest) \cup (nl.low .. nl.high)
      BY <1>2, <1>4, <2>1, <3>1, <3>2, InsertApart
    <3>4. \A o \in Insert(rest, nl) : o.high < v \/ iv.high + 1 < o.low
      <4>1. \A o \in rest : o \in ValueInterval
        BY <1>1 DEF rest
      <4> QED BY <1>2, <1>5, <3>1, <3>3, <4>1, IntervalBounds
    <3> QED BY <2>1, <3>1, <3>3, <3>4
  <2>2. CASE ~(iv.low < v)
    <3>1. iv.low .. (v - 1) = {}
      BY <1>2, <2>2
    <3>2. \A o \in rest : o.high < v \/ iv.high + 1 < o.low
      BY <1>1, <1>2, <1>5, IntervalBounds
    <3> QED BY <1>4, <2>2, <3>1, <3>2
  <2> QED BY <2>1, <2>2
<1>7. WF(q) /\ FreeIn(q) = FreeIn(left) \cup ((v + 1) .. iv.high)
  <2>1. CASE v < iv.high
    <3>1. nr \in ValueInterval /\ nr.low = v + 1 /\ nr.high = iv.high
      BY <1>2, <2>1, NewRange
    <3> HIDE DEF left, nr, rest
    <3>2. \A o \in left : o \in ValueInterval
      BY <1>6 DEF WF
    <3>3. \A o \in left : Apart(o, nr)
      BY <1>2, <1>6, <2>1, <3>1, <3>2, IntervalBounds DEF Apart
    <3>4. lowest <= nr.low /\ nr.low <= nr.high /\ nr.high <= highest
      BY <1>2, <2>1, <3>1
    <3>5. WF(Insert(left, nr)) /\ FreeIn(Insert(left, nr)) = FreeIn(left) \cup (nr.low .. nr.high)
      BY <1>6, <3>1, <3>3, <3>4, InsertApart
    <3> QED BY <2>1, <3>1, <3>5
  <2>2. CASE ~(v < iv.high)
    <3>1. (v + 1) .. iv.high = {}
      BY <1>2, <2>2
    <3> QED BY <1>6, <2>2, <3>1
  <2> QED BY <2>1, <2>2
<1>8. FreeIn(q) = FreeIn(p) \ {v}
  <2> HIDE DEF q, left, rest
  <2>1. FreeIn(q) = ((FreeIn(p) \ (iv.low .. iv.high)) \cup (iv.low .. (v - 1)))
                       \cup ((v + 1) .. iv.high)
    BY <1>4, <1>6, <1>7
  <2>2. FreeIn(p) \subseteq Int
    BY DEF FreeIn
  <2> QED BY <1>2, <1>3, <2>1, <2>2
<1> QED BY <1>3, <1>7, <1>8

\* deallocate's new pool: the value is free, and its neighbours are merged.
\* Freeing a free value changes nothing, because the interval that contains
\* it is the Equal element that BTreeSet::insert finds.
LEMMA DeallocatePool ==
  ASSUME NEW p, WF(p), NEW v \in lowest..highest
  PROVE  /\ WF(Deallocated(p, v))
         /\ FreeIn(Deallocated(p, v)) = FreeIn(p) \cup {v}
<1> DEFINE ls == {l \in Left(p, v)  : l.high + 1 = v}
           rs == {r \in Right(p, v) : PlusOne(v) = r.low}
           low  == IF ls = {} THEN v ELSE (CHOOSE l \in ls : TRUE).low
           high == IF rs = {} THEN v ELSE (CHOOSE r \in rs : TRUE).high
           rest == (p \ ls) \ rs
           n == new_range(low, high)
<1>0. v \in Int /\ 0 <= v /\ v <= MaxT /\ lowest <= v /\ v <= highest
  OBVIOUS
<1>1. \A o \in p : /\ o \in ValueInterval /\ o.low \in Int /\ o.high \in Int
                   /\ 0 <= o.low /\ o.high <= MaxT
                   /\ lowest <= o.low /\ o.low <= o.high /\ o.high <= highest
  BY IntervalBounds DEF WF
<1>2. \A a, b \in p : a # b => a.high + 1 < b.low \/ b.high + 1 < a.low
  BY DEF WF, Apart
<1>3. new_range(v, v).low = v /\ new_range(v, v).high = v
  BY DEF new_range
<1>4. Deallocated(p, v) = Insert(rest, n)
  BY DEF Deallocated
<1>5. CASE v \in FreeIn(p)
  <2>1. PICK c \in p : c.low <= v /\ v <= c.high
    BY <1>5 DEF FreeIn, contains
  <2>2. ls = {}
    BY <1>0, <1>1, <1>2, <2>1 DEF Left
  <2>3. rs = {}
    <3> SUFFICES ASSUME NEW r \in Right(p, v), PlusOne(v) = r.low PROVE FALSE
      OBVIOUS
    <3>1. r \in p /\ r.high >= v /\ r.low <= c.low
      BY <1>0, <1>1, <1>3, <2>1 DEF Right, Less
    <3>2. CASE v = MaxT
      BY <1>0, <1>1, <1>2, <2>1, <3>1, <3>2 DEF PlusOne
    <3>3. CASE v # MaxT
      BY <1>0, <1>1, <1>2, <2>1, <3>1, <3>3 DEF PlusOne
    <3> QED BY <3>2, <3>3
  <2>4. rest = p /\ n = new_range(v, v)
    BY <2>2, <2>3
  <2> HIDE DEF ls, rs, rest, n
  <2>5. Insert(p, new_range(v, v)) = p
    BY <1>0, <1>1, <1>3, <2>1 DEF Insert, Less
  <2>6. FreeIn(p) = FreeIn(p) \cup {v}
    BY <1>5
  <2> QED BY <1>4, <2>4, <2>5, <2>6
<1>6. CASE v \notin FreeIn(p)
  <2>1. \A o \in p : o.high < v \/ v < o.low
    BY <1>0, <1>1, <1>6 DEF FreeIn, contains
  <2>2. \A l \in ls : l \in p /\ l.high + 1 = v
    BY DEF Left
  <2>3. \A r \in rs : r \in p /\ r.low = v + 1
    BY <1>0, <1>1, <2>1 DEF Right, PlusOne, Less, new_range
  <2>4. \A o \in p : o.high + 1 = v => o \in ls
    <3> SUFFICES ASSUME NEW o \in p, o.high + 1 = v PROVE o \in Left(p, v)
      OBVIOUS
    <3>1. Less(o, new_range(v, v))
      BY <1>0, <1>1, <1>3 DEF Less
    <3>2. \A w \in p : Less(w, new_range(v, v)) => w.low <= o.low
      BY <1>0, <1>1, <1>2, <1>3 DEF Less
    <3> QED BY <3>1, <3>2 DEF Left
  <2>5. \A o \in p : o.low = v + 1 => o \in rs
    <3> SUFFICES ASSUME NEW o \in p, o.low = v + 1 
                 PROVE o \in Right(p, v) /\ PlusOne(v) = o.low
      OBVIOUS
    <3>1. ~Less(o, new_range(v, v))
      BY <1>0, <1>1, <1>3 DEF Less
    <3>2. \A w \in p : Less(w, new_range(v, v)) \/ o.low <= w.low
      BY <1>0, <1>1, <1>3, <2>1 DEF Less
    <3>3. PlusOne(v) = v + 1
      BY <1>0, <1>1 DEF PlusOne
    <3> QED BY <3>1, <3>2, <3>3 DEF Right
  <2>6. \A a, b \in ls : a = b
    BY <1>1, <1>2, <2>2
  <2>7. \A a, b \in rs : a = b
    BY <1>1, <1>2, <2>3
  <2>8. /\ low \in Int /\ lowest <= low /\ low <= v
        /\ ls = {} => low = v
        /\ \A l \in ls : low = l.low
    BY <1>0, <1>1, <2>2, <2>6
  <2>9. /\ high \in Int /\ high <= highest /\ v <= high
        /\ rs = {} => high = v
        /\ \A r \in rs : high = r.high
    BY <1>0, <1>1, <2>3, <2>7
  <2>10. n \in ValueInterval /\ n.low = low /\ n.high = high
    <3>1. low \in 0..MaxT /\ high \in 0..MaxT
      BY <1>0, <2>8, <2>9
    <3> HIDE DEF low, high
    <3> QED BY <3>1, NewRange
  <2> HIDE DEF ls, rs, low, high, n
  <2>11. \A o \in rest : o \in p /\ o.high + 1 # v /\ o.low # v + 1
    BY <2>4, <2>5
  <2>12. \A o \in rest : Apart(o, n)
    <3> SUFFICES ASSUME NEW o \in rest PROVE o.high + 1 < low \/ high + 1 < o.low
      BY <2>10 DEF Apart
    <3>1. CASE o.high < v
      <4>1. CASE ls = {}
        BY <1>0, <1>1, <2>8, <2>11, <3>1, <4>1
      <4>2. CASE ls # {}
        <5>1. PICK l \in ls : TRUE
          BY <4>2
        <5> QED BY <1>0, <1>1, <1>2, <2>2, <2>8, <2>11, <3>1, <5>1
      <4> QED BY <4>1, <4>2
    <3>2. CASE v < o.low
      <4>1. CASE rs = {}
        BY <1>0, <1>1, <2>9, <2>11, <3>2, <4>1
      <4>2. CASE rs # {}
        <5>1. PICK r \in rs : TRUE
          BY <4>2
        <5> QED BY <1>0, <1>1, <1>2, <2>3, <2>9, <2>11, <3>2, <5>1
      <4> QED BY <4>1, <4>2
    <3> QED BY <2>1, <2>11, <3>1, <3>2
  <2>13. WF(rest)
    BY DEF WF
  <2>14. lowest <= n.low /\ n.low <= n.high /\ n.high <= highest
    BY <1>0, <2>8, <2>9, <2>10
  <2>15. FreeIn(p) \cup {v} = FreeIn(rest) \cup (low .. high)
    <3>1. \A w \in FreeIn(p) : w \in FreeIn(rest) \cup (low .. high)
      <4> SUFFICES ASSUME NEW w \in FreeIn(p) PROVE w \in FreeIn(rest) \cup (low .. high)
        OBVIOUS
      <4>1. PICK c \in p : c.low <= w /\ w <= c.high
        BY DEF FreeIn, contains
      <4>2. w \in lowest..highest
        BY DEF FreeIn
      <4>3. CASE c \in rest
        BY <4>1, <4>2, <4>3 DEF FreeIn, contains
      <4>4. CASE c \in ls
        BY <1>0, <1>1, <2>2, <2>8, <2>9, <4>1, <4>2, <4>4
      <4>5. CASE c \in rs
        BY <1>0, <1>1, <2>3, <2>8, <2>9, <4>1, <4>2, <4>5
      <4> QED BY <4>3, <4>4, <4>5
    <3>2. FreeIn(rest) \subseteq FreeIn(p)
      BY DEF FreeIn
    <3>3. \A w \in low .. (v - 1) : w \in FreeIn(p)
      BY <1>0, <1>1, <2>2, <2>8 DEF FreeIn, contains
    <3>4. \A w \in (v + 1) .. high : w \in FreeIn(p)
      BY <1>0, <1>1, <2>3, <2>9 DEF FreeIn, contains
    <3>5. v \in low .. high
      BY <1>0, <2>8, <2>9
    <3>6. \A w \in low .. high : w = v \/ w \in low .. (v - 1) \/ w \in (v + 1) .. high
      BY <1>0, <2>8, <2>9
    <3> QED BY <3>1, <3>2, <3>3, <3>4, <3>5, <3>6
  <2> HIDE DEF rest
  <2>16. WF(Insert(rest, n)) /\ FreeIn(Insert(rest, n)) = FreeIn(rest) \cup (n.low .. n.high)
    BY <2>10, <2>12, <2>13, <2>14, InsertApart
  <2> QED BY <1>4, <2>10, <2>15, <2>16
<1> QED BY <1>5, <1>6

-----------------------------------------------------------------------------
\* WellFormed is WF of the pool with the types of the other variables.
LEMMA WellFormedPool ==
  WellFormed <=> WF(pool) /\ ret \in 0..MaxT \cup {NoValue} /\ panicked \in BOOLEAN
  BY DEF WellFormed, TypeOK, InRange, Coalesced, WF, Apart

\* The pool of a new or cleared allocator: everything is free.
LEMMA FullPool ==
  WF({new_range(lowest, highest)}) /\ FreeIn({new_range(lowest, highest)}) = lowest..highest
<1>1. /\ new_range(lowest, highest) \in ValueInterval
      /\ new_range(lowest, highest).low = lowest
      /\ new_range(lowest, highest).high = highest
  BY NewRange
<1> QED BY <1>1 DEF WF, FreeIn, contains

\* Used, the refinement mapping, is the complement of the free values.
LEMMA UsedIsNotFree ==
  /\ Used = (lowest..highest) \ FreeIn(pool)
  /\ Pool!Free = FreeIn(pool)
  /\ \A v : is_used(v) => v \notin FreeIn(pool)
<1>1. Used = (lowest..highest) \ FreeIn(pool)
  BY DEF Used, FreeIn, is_used
<1>2. Pool!Free = FreeIn(pool)
  BY <1>1 DEF Pool!Free, Pool!Values, FreeIn
<1> QED BY <1>1, <1>2 DEF is_used, FreeIn

\* Each step keeps the pool well formed and is a step of IdPool.
LEMMA StepOfPool ==
  ASSUME WellFormed, [Next]_vars
  PROVE  WellFormed' /\ [Pool!PoolNext]_(Pool!poolVars)
<1> USE DEF NoValue, Pool!NoValue
<1>0. WF(pool) /\ ret \in 0..MaxT \cup {NoValue} /\ panicked \in BOOLEAN
  BY WellFormedPool
<1>a. /\ Used = (lowest..highest) \ FreeIn(pool)
      /\ Pool!Free = FreeIn(pool)
      /\ FreeIn(pool) \subseteq lowest..highest
  BY UsedIsNotFree DEF FreeIn
<1>b. Used' = (lowest..highest) \ FreeIn(pool')
  BY DEF Used, FreeIn, is_used
<1>w. ASSUME WF(pool'), ret' \in 0..MaxT \cup {NoValue}, panicked' \in BOOLEAN
      PROVE  WellFormed'
  BY <1>w DEF WellFormed, TypeOK, InRange, Coalesced, WF, Apart
<1>1. ASSUME ~panicked, allocate PROVE WellFormed' /\ Pool!PoolAllocate
  <2>1. ASSUME NEW iv \in First(pool), ret' = iv.low,
               pool' = LET rest == pool \ {iv} IN
                       IF iv.low < iv.high
                       THEN Insert(rest, new_range(iv.low + 1, iv.high)) ELSE rest
        PROVE  WellFormed' /\ Pool!PoolAllocate
    <3>1. /\ WF(pool') /\ FreeIn(pool') = FreeIn(pool) \ {iv.low}
          /\ iv.low \in FreeIn(pool) /\ \A w \in FreeIn(pool) : iv.low <= w
      BY <1>0, <2>1, AllocatePool
    <3>2. iv.low \in lowest..highest
      BY <1>a, <3>1
    <3>3. Used' = Used \cup {iv.low}
      BY <1>a, <1>b, <3>1, <3>2
    <3>4. WellFormed'
      BY <1>0, <1>1, <1>w, <2>1, <3>1, <3>2 DEF allocate
    <3> QED BY <1>1, <1>a, <2>1, <3>1, <3>3, <3>4 DEF Pool!PoolAllocate, allocate
  <2>2. CASE pool = {} /\ ret' = NoValue /\ pool' = pool
    <3>1. FreeIn(pool) = {}
      BY <2>2 DEF FreeIn
    <3>2. Used' = Used
      BY <1>a, <1>b, <2>2
    <3>3. WellFormed'
      BY <1>0, <1>1, <1>w, <2>2 DEF allocate
    <3> QED BY <1>1, <1>a, <2>2, <3>1, <3>2, <3>3 DEF Pool!PoolAllocate, allocate
  <2> QED BY <1>1, <2>1, <2>2 DEF allocate
<1>2. ASSUME ~panicked, clear PROVE WellFormed' /\ Pool!PoolClear
  <2>1. WF(pool') /\ FreeIn(pool') = lowest..highest
    BY <1>2, FullPool DEF clear
  <2>2. Used' = {}
    BY <1>b, <2>1
  <2> QED BY <1>0, <1>2, <1>w, <2>1, <2>2 DEF clear, Pool!PoolClear
<1>3. ASSUME ~panicked, NEW v \in 0..MaxT, use_value(v) PROVE WellFormed' /\ Pool!PoolUse(v)
  <2>1. ASSUME NEW iv \in pool, contains(iv, v), ret' = v,
               pool' = LET rest == pool \ {iv}
                           left == IF iv.low < v
                                   THEN Insert(rest, new_range(iv.low, v - 1)) ELSE rest
                       IN  IF v < iv.high
                           THEN Insert(left, new_range(v + 1, iv.high)) ELSE left
        PROVE  WellFormed' /\ Pool!PoolUse(v)
    <3>1. WF(pool') /\ FreeIn(pool') = FreeIn(pool) \ {v} /\ v \in FreeIn(pool)
      BY <1>0, <2>1, UsePool
    <3>2. Used' = Used \cup {v}
      BY <1>a, <1>b, <3>1
    <3>3. WellFormed'
      BY <1>0, <1>3, <1>w, <2>1, <3>1 DEF use_value
    <3> QED BY <1>3, <1>a, <2>1, <3>1, <3>2, <3>3 DEF Pool!PoolUse, use_value
  <2>2. CASE is_used(v) /\ ret' = NoValue /\ pool' = pool
    <3>1. v \notin FreeIn(pool)
      BY <2>2, UsedIsNotFree
    <3>2. Used' = Used
      BY <1>a, <1>b, <2>2
    <3>3. WellFormed'
      BY <1>0, <1>3, <1>w, <2>2 DEF use_value
    <3> QED BY <1>3, <1>a, <2>2, <3>1, <3>2, <3>3 DEF Pool!PoolUse, use_value
  <2> QED BY <1>3, <2>1, <2>2 DEF use_value
<1>4. ASSUME ~panicked, NEW v \in 0..MaxT, deallocate(v) PROVE WellFormed' /\ Pool!PoolDeallocate(v)
  <2> USE DEF Pool!Values
  <2>1. CASE lowest <= v /\ v <= highest /\ pool' = Deallocated(pool, v) /\ UNCHANGED panicked
    <3>1. v \in lowest..highest
      BY <2>1
    <3>2. WF(pool') /\ FreeIn(pool') = FreeIn(pool) \cup {v}
      BY <1>0, <2>1, <3>1, DeallocatePool
    <3>3. Used' = Used \ {v}
      BY <1>a, <1>b, <3>2
    <3>4. WellFormed'
      BY <1>0, <1>4, <1>w, <2>1, <3>2 DEF deallocate
    <3> QED BY <1>4, <2>1, <3>1, <3>3, <3>4 DEF Pool!PoolDeallocate, deallocate
  <2>2. CASE lowest <= v /\ v <= highest /\ v = MaxT /\ Right(pool, v) # {}
             /\ panicked' = TRUE /\ UNCHANGED pool
    <3>1. v \in FreeIn(pool)
      <4>1. PICK r \in pool : ~(r.high < v)
        BY <2>2 DEF Right, Less, new_range
      <4>2. r.low <= v /\ v <= r.high
        BY <1>0, <2>2, <4>1, IntervalBounds DEF WF
      <4> QED BY <2>2, <4>2 DEF FreeIn, contains
    <3>2. Used' = Used
      BY <1>a, <1>b, <2>2
    <3>3. WellFormed'
      BY <1>0, <1>4, <1>w, <2>2 DEF deallocate
    <3> QED BY <1>4, <1>a, <2>2, <3>1, <3>2, <3>3 DEF Pool!PoolDeallocate, deallocate
  <2>3. CASE ~(lowest <= v /\ v <= highest) /\ panicked' = TRUE /\ UNCHANGED pool
    <3>1. v \notin lowest..highest
      BY <2>3
    <3>2. Used' = Used
      BY <1>a, <1>b, <2>3
    <3>3. WellFormed'
      BY <1>0, <1>4, <1>w, <2>3 DEF deallocate
    <3> QED BY <1>4, <2>3, <3>1, <3>2, <3>3 DEF Pool!PoolDeallocate, deallocate
  <2> QED BY <1>4, <2>1, <2>2, <2>3 DEF deallocate
<1>5. CASE UNCHANGED vars
  BY <1>0, <1>a, <1>b, <1>5, <1>w DEF vars, Pool!poolVars
<1> QED BY <1>1, <1>2, <1>3, <1>4, <1>5 DEF Next, Pool!PoolNext

\* For every managed range and integer type, whatever sequence of calls is
\* made, the free intervals stay in range, disjoint and coalesced.
THEOREM PoolWellFormed == Spec => []WellFormed
<1>1. Init => WellFormed
  BY FullPool, WellFormedPool DEF Init, NoValue
<1>2. WellFormed /\ [Next]_vars => WellFormed'
  BY StepOfPool
<1> QED BY <1>1, <1>2, PTL DEF Spec

\* The interval pool of value_allocator.rs implements a set of used values:
\* the lowest free value is handed out, none twice, double frees are no-ops.
THEOREM ImplementsIdPool == Spec => PoolSpec
<1>1. Init => Pool!PoolInit
  BY FullPool, UsedIsNotFree DEF Init, Pool!PoolInit, NoValue, Pool!NoValue
<1>2. WellFormed /\ [Next]_vars => [Pool!PoolNext]_(Pool!poolVars)
  BY StepOfPool
<1> QED BY <1>1, <1>2, PoolWellFormed, PTL DEF Spec, PoolSpec, Pool!PoolSpec
=============================================================================
