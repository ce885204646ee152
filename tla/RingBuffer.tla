------------------------------- MODULE RingBuffer -------------------------------
(***************************************************************************)
(* A RingBuffer under either of the two disciplines its interface allows:  *)
(* the threads call try_push, try_pop and size freely (SpscRing), or the   *)
(* producer may overwrite and the threads keep their calls apart           *)
(* (OverwriteRing with Exclusive).  The callers choose once.               *)
(***************************************************************************)
EXTENDS OverwriteRing

VARIABLE overwrites     \* whether the callers chose the second discipline

ringVars == <<overwriteVars, overwrites>>

RingInit == OverwriteInit /\ overwrites \in BOOLEAN

RingNext ==
    /\ IF overwrites THEN OverwriteNext ELSE Next /\ UNCHANGED <<ptail, ctail>>
    /\ UNCHANGED overwrites

RingSpec == RingInit /\ [][RingNext]_ringVars

--------------------------------------------------------------------------------
\* Under both disciplines the ring is a linearisable bounded queue of Capacity - 1 items:
\* no item is lost, duplicated or reordered, "full" is answered only when it is full and
\* "empty" only when it is empty; only push_overwrite drops the oldest item, and only of
\* a full ring.
LinearisableQueue ==
    /\ Lossy!Init
    /\ [][IF overwrites THEN Lossy!LossyNext ELSE Lossy!Next]_(Lossy!fifoVars)
================================================================================
