------------------------------ MODULE OverwriteRing ------------------------------
(***************************************************************************)
(* RingBuffer<T> when its producer also calls push_overwrite, which moves  *)
(* tail_ itself when the ring overflows.  tail_ then has two writers, so   *)
(* every load keeps its value in a local and try_pop loads the two indices *)
(* in two steps.  With Exclusive the callers keep the calls of the two     *)
(* threads apart (an external lock); without it they only respect "one     *)
(* producer, one consumer".                                                *)
(***************************************************************************)
EXTENDS SpscRing

CONSTANT Exclusive      \* whether no call of one thread overlaps a call of the other

ASSUME ExclusiveAssumption == Exclusive \in BOOLEAN

VARIABLES
    ptail,      \* the tail_ that push_overwrite loaded
    ctail       \* the tail_ that try_pop loaded

overwriteVars == <<vars, ptail, ctail>>

\* A call may start: no other call is under way, when the callers exclude each other.
MayStartPush == Exclusive => cpc = "idle"
MayStartPop == Exclusive => ppc = "idle"

OverwriteTypeOK ==
    /\ buffer \in [Slot -> Item \cup {Vacant}]
    /\ {head, tail, ptail, ctail} \subseteq Slot
    /\ ppc \in {"idle", "write", "publish", "overwrite", "advance", "check", "bump"}
    /\ cpc \in {"idle", "compare", "read", "release"}
    /\ {pitem, citem, popped} \subseteq Item \cup {Vacant}
    /\ pushed \in BOOLEAN

OverwriteInit ==
    /\ Init
    /\ ptail = 0
    /\ ctail = 0

--------------------------------------------------------------------------------
(* try_push, unchanged *)

TryPush ==
    /\ \/ MayStartPush /\ PushFull
       \/ MayStartPush /\ \E item \in Item : PushBegin(item)
       \/ PushWrite
       \/ PushPublish
    /\ UNCHANGED <<ptail, ctail>>

(* push_overwrite *)

\* head = head_.load(): the call starts.
OverwriteBegin(item) ==
    /\ ppc = "idle"
    /\ MayStartPush
    /\ pitem' = item
    /\ ppc' = "overwrite"
    /\ UNCHANGED <<buffer, head, tail, pushed, proom, consumerVars, ptail, ctail>>

\* buffer_[head] = item, whatever the ring holds
OverwriteWrite ==
    /\ ppc = "overwrite"
    /\ buffer' = [buffer EXCEPT ![head] = pitem]
    /\ ppc' = "advance"
    /\ UNCHANGED <<head, tail, pitem, pushed, proom, consumerVars, ptail, ctail>>

\* head_.store(next_head): on a full ring head_ now equals tail_, as if it were empty.
OverwriteAdvance ==
    /\ ppc = "advance"
    /\ head' = Succ(head)
    /\ ppc' = "check"
    /\ pushed' = TRUE
    /\ UNCHANGED <<buffer, tail, pitem, proom, consumerVars, ptail, ctail>>

\* Mutant: an overflow is never noticed.
Bug_OverwriteCheckNever ==
    /\ ppc = "check"
    /\ ptail' = tail
    /\ ppc' = "idle"
    /\ UNCHANGED <<buffer, head, tail, pitem, pushed, proom, consumerVars, ctail>>

\* tail = tail_.load(): did the push overflow tail?
OverwriteCheck ==
    /\ ppc = "check"
    /\ ptail' = tail
    /\ ppc' = IF head = tail THEN "bump" ELSE "idle"
    /\ UNCHANGED <<buffer, head, tail, pitem, pushed, proom, consumerVars, ctail>>

\* tail_.store(tail + 1): the oldest item is dropped.
OverwriteBump ==
    /\ ppc = "bump"
    /\ tail' = Succ(ptail)
    /\ ppc' = "idle"
    /\ UNCHANGED <<buffer, head, pitem, pushed, proom, consumerVars, ptail, ctail>>

PushOverwrite ==
    \/ \E item \in Item : OverwriteBegin(item)
    \/ OverwriteWrite
    \/ OverwriteAdvance
    \/ OverwriteCheck
    \/ OverwriteBump

--------------------------------------------------------------------------------
(* try_pop, with the tail_ it loaded kept in a local *)

PopLoadTail ==
    /\ cpc = "idle"
    /\ MayStartPop
    /\ ctail' = tail
    /\ cpc' = "compare"
    /\ UNCHANGED <<buffer, head, tail, producerVars, citem, popped, cready, ptail>>

\* tail == head_.load(): return false
PopNothing ==
    /\ cpc = "compare"
    /\ ctail = head
    /\ popped' = Vacant
    /\ cpc' = "idle"
    /\ UNCHANGED <<buffer, head, tail, producerVars, citem, cready, ptail, ctail>>

PopSomething ==
    /\ cpc = "compare"
    /\ ctail # head
    /\ cpc' = "read"
    /\ UNCHANGED <<buffer, head, tail, producerVars, citem, popped, cready, ptail, ctail>>

PopMove ==
    /\ cpc = "read"
    /\ citem' = buffer[ctail]
    /\ buffer' = [buffer EXCEPT ![ctail] = Vacant]
    /\ cpc' = "release"
    /\ UNCHANGED <<head, tail, producerVars, popped, cready, ptail, ctail>>

\* tail_.store(tail + 1), from the local: it may undo a bump made meanwhile.
PopStoreTail ==
    /\ cpc = "release"
    /\ tail' = Succ(ctail)
    /\ popped' = citem
    /\ cpc' = "idle"
    /\ UNCHANGED <<buffer, head, producerVars, citem, cready, ptail, ctail>>

TryPop == PopLoadTail \/ PopNothing \/ PopSomething \/ PopMove \/ PopStoreTail

--------------------------------------------------------------------------------
OverwriteNext == TryPush \/ PushOverwrite \/ TryPop

OverwriteSpec == OverwriteInit /\ [][OverwriteNext]_overwriteVars

--------------------------------------------------------------------------------
(* Properties *)

\* No slot is written by the producer while the consumer moves its item out.
NoOverwriteRace ==
    ~(ppc \in {"write", "overwrite"} /\ cpc = "read" /\ ctail = head)

\* Between the store of head_ and the bump of tail_ a full ring looks empty: it then
\* holds the Capacity - 1 items after the one about to be dropped.
Overflowed == ppc \in {"check", "bump"} /\ head = tail

\* The slot of the oldest item.
Oldest == IF Overflowed THEN Succ(tail) ELSE tail

LossyContents ==
    [i \in 1..Distance(Oldest, head) |->
        IF i = 1 /\ cpc = "release" THEN citem ELSE buffer[At(Oldest, i)]]

\* The bounded queue the ring stands for, which may drop its oldest item.
Lossy == INSTANCE BoundedFifo
            WITH queue <- LossyContents, Nothing <- Vacant, Bound <- Capacity - 1
================================================================================
