------------------------------- MODULE IdPool -------------------------------
(***************************************************************************)
(* What a value allocator promises its users, PacketIdManager and          *)
(* TopicAliasSend: a set of values in use, the lowest free value handed    *)
(* out first, a value never handed out twice, and freeing a free value     *)
(* harmless.  ValueAllocator implements this with a set of intervals.      *)
(***************************************************************************)
EXTENDS Integers

CONSTANTS lowest, highest,  \* the values managed, both ends included
          MaxT              \* the greatest value of the integer type T

VARIABLES used,     \* the values in use
          ret,      \* what the last call returned: a value, or NoValue
          panicked  \* the last call ended in a panic

poolVars == <<used, ret, panicked>>

NoValue == -1
Values  == lowest..highest
Free    == Values \ used

PoolInit == used = {} /\ ret = NoValue /\ panicked = FALSE

\* The lowest free value becomes used, or nothing is free.
PoolAllocate ==
  /\ \/ \E v \in Free : /\ \A w \in Free : v <= w
                        /\ used' = used \cup {v} /\ ret' = v
     \/ Free = {} /\ ret' = NoValue /\ used' = used
  /\ UNCHANGED panicked

\* A given value becomes used, unless it already is or is not managed.
PoolUse(v) ==
  /\ \/ v \in Free /\ used' = used \cup {v} /\ ret' = v
     \/ v \notin Free /\ ret' = NoValue /\ used' = used
  /\ UNCHANGED panicked

\* A managed value becomes free.  A value outside the range panics; so may
\* the greatest value of the type, when it is already free.
PoolDeallocate(v) ==
  /\ ret' = NoValue
  /\ \/ v \in Values /\ used' = used \ {v} /\ UNCHANGED panicked
     \/ v \in Free \cap {MaxT} /\ UNCHANGED used /\ panicked' = TRUE
     \/ v \notin Values /\ UNCHANGED used /\ panicked' = TRUE

PoolClear == used' = {} /\ ret' = NoValue /\ UNCHANGED panicked

PoolNext == /\ ~panicked
            /\ \/ PoolAllocate
               \/ PoolClear
               \/ \E v \in 0..MaxT : PoolUse(v) \/ PoolDeallocate(v)

PoolSpec == PoolInit /\ [][PoolNext]_poolVars
=============================================================================
