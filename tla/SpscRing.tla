-------------------------------- MODULE SpscRing --------------------------------
(***************************************************************************)
(* RingBuffer<T> of shared/util/ring_buffer.hpp, used as its comment says: *)
(* one producer thread calls try_push and size, one consumer thread calls  *)
(* try_pop and size.  Each shared access is a step of its own.  head_ is   *)
(* written only by the producer and tail_ only by the consumer, so a       *)
(* thread's load of its own index is merged with its load of the other's;  *)
(* release stores and acquire loads make the slot accesses before a store  *)
(* visible to the thread that loads it, so states are sequentially         *)
(* consistent.  push_overwrite, which also writes tail_, is in             *)
(* OverwriteRing.                                                          *)
(***************************************************************************)
EXTENDS Naturals, Sequences

CONSTANTS
    Capacity,   \* capacity_, after the constructor rounded it up
    Item,       \* the values of T that callers push
    Vacant      \* a default-constructed or moved-from T

ASSUME CapacityAssumption ==
    /\ Capacity \in Nat \ {0}
    /\ \E k \in 0..Capacity : Capacity = 2^k
ASSUME VacantAssumption == Vacant \notin Item

VARIABLES
    buffer,     \* buffer_
    head,       \* head_: the slot the next push writes
    tail,       \* tail_: the slot the next pop reads
    ppc,        \* where the producer is in try_push
    pitem,      \* the item it is pushing
    pushed,     \* the answer of its last try_push
    proom,      \* pushes its last size() says will succeed, fewer those done since
    cpc,        \* where the consumer is in try_pop
    citem,      \* the caller's item, filled by try_pop
    popped,     \* what its last try_pop answered: an item, or Vacant for false
    cready      \* pops its last size() says will succeed, fewer those done since

producerVars == <<ppc, pitem, pushed, proom>>
consumerVars == <<cpc, citem, popped, cready>>
vars == <<buffer, head, tail, producerVars, consumerVars>>

Slot == 0..(Capacity - 1)

\* The constructor's capacity_: the smallest power of two that is >= requested (1 for 0).
RoundedCapacity(requested) ==
    LET powers == {2^k : k \in 0..requested}
    IN  CHOOSE c \in powers :
            /\ c >= requested
            /\ \A d \in powers : d >= requested => c <= d

\* (index + 1) & mask_
Succ(index) == IF index = Capacity - 1 THEN 0 ELSE index + 1

\* size() for one pair of loaded indices.
Distance(from, to) == IF to >= from THEN to - from ELSE Capacity - from + to

--------------------------------------------------------------------------------
TypeOK ==
    /\ buffer \in [Slot -> Item \cup {Vacant}]
    /\ head \in Slot
    /\ tail \in Slot
    /\ ppc \in {"idle", "write", "publish"}
    /\ pitem \in Item \cup {Vacant}
    /\ pushed \in BOOLEAN
    /\ proom \in Nat
    /\ cpc \in {"idle", "read", "release"}
    /\ citem \in Item \cup {Vacant}
    /\ popped \in Item \cup {Vacant}
    /\ cready \in Nat

Init ==
    /\ buffer = [s \in Slot |-> Vacant]
    /\ head = 0
    /\ tail = 0
    /\ ppc = "idle"
    /\ pitem = Vacant
    /\ pushed = FALSE
    /\ proom = 0
    /\ cpc = "idle"
    /\ citem = Vacant
    /\ popped = Vacant
    /\ cready = 0

--------------------------------------------------------------------------------
(* The producer *)

\* try_push loads head_ and tail_ and returns false: full.
PushFull ==
    /\ ppc = "idle"
    /\ Succ(head) = tail
    /\ pushed' = FALSE
    /\ UNCHANGED <<buffer, head, tail, ppc, pitem, proom, consumerVars>>

\* Mutant: full detected only when the push is published over the oldest item.
Bug_PushBeginUnchecked(item) ==
    /\ ppc = "idle"
    /\ ppc' = "write"
    /\ pitem' = item
    /\ UNCHANGED <<buffer, head, tail, pushed, proom, consumerVars>>

\* try_push loads head_ and tail_ and goes on: there is room.
PushBegin(item) ==
    /\ ppc = "idle"
    /\ Succ(head) # tail
    /\ ppc' = "write"
    /\ pitem' = item
    /\ UNCHANGED <<buffer, head, tail, pushed, proom, consumerVars>>

\* buffer_[head] = item
PushWrite ==
    /\ ppc = "write"
    /\ buffer' = [buffer EXCEPT ![head] = pitem]
    /\ ppc' = "publish"
    /\ UNCHANGED <<head, tail, pitem, pushed, proom, consumerVars>>

\* head_.store(next_head); return true
PushPublish ==
    /\ ppc = "publish"
    /\ head' = Succ(head)
    /\ ppc' = "idle"
    /\ pushed' = TRUE
    /\ proom' = IF proom > 0 THEN proom - 1 ELSE 0
    /\ UNCHANGED <<buffer, tail, pitem, consumerVars>>

\* Mutant: the slot that always stays free is counted as room.
Bug_ProducerSizeOffByOne ==
    /\ ppc = "idle"
    /\ proom' = Capacity - Distance(tail, head)
    /\ UNCHANGED <<buffer, head, tail, ppc, pitem, pushed, consumerVars>>

\* size() called by the producer between its pushes.
ProducerSize ==
    /\ ppc = "idle"
    /\ proom' = (Capacity - 1) - Distance(tail, head)
    /\ UNCHANGED <<buffer, head, tail, ppc, pitem, pushed, consumerVars>>

--------------------------------------------------------------------------------
(* The consumer *)

\* try_pop loads tail_ and head_ and returns false: empty.
PopEmpty ==
    /\ cpc = "idle"
    /\ tail = head
    /\ popped' = Vacant
    /\ UNCHANGED <<buffer, head, tail, producerVars, cpc, citem, cready>>

\* try_pop loads tail_ and head_ and goes on: there is an item.
PopBegin ==
    /\ cpc = "idle"
    /\ tail # head
    /\ cpc' = "read"
    /\ UNCHANGED <<buffer, head, tail, producerVars, citem, popped, cready>>

\* item = std::move(buffer_[tail]): the slot is left in the moved-from state.
PopRead ==
    /\ cpc = "read"
    /\ citem' = buffer[tail]
    /\ buffer' = [buffer EXCEPT ![tail] = Vacant]
    /\ cpc' = "release"
    /\ UNCHANGED <<head, tail, producerVars, popped, cready>>

\* tail_.store(tail + 1); return true
PopRelease ==
    /\ cpc = "release"
    /\ tail' = Succ(tail)
    /\ cpc' = "idle"
    /\ popped' = citem
    /\ cready' = IF cready > 0 THEN cready - 1 ELSE 0
    /\ UNCHANGED <<buffer, head, producerVars, citem>>

\* size() called by the consumer between its pops.
ConsumerSize ==
    /\ cpc = "idle"
    /\ cready' = Distance(tail, head)
    /\ UNCHANGED <<buffer, head, tail, producerVars, cpc, citem, popped>>

--------------------------------------------------------------------------------
ProducerNext ==
    \/ PushFull
    \/ \E item \in Item : PushBegin(item)
    \/ PushWrite
    \/ PushPublish
    \/ ProducerSize

ConsumerNext ==
    \/ PopEmpty
    \/ PopBegin
    \/ PopRead
    \/ PopRelease
    \/ ConsumerSize

Next == ProducerNext \/ ConsumerNext

Spec == Init /\ [][Next]_vars

--------------------------------------------------------------------------------
(* Properties *)

\* The two threads are never both about to access the same slot: the index protocol of
\* try_push and try_pop keeps the write of buffer_[head] and the move out of
\* buffer_[tail] apart, so neither is a data race.
NoSlotRace == ~(ppc = "write" /\ cpc = "read" /\ head = tail)

\* What size() told a thread stays true until it acts: the producer can still push the
\* number of items it computed as free, and the consumer can still pop the number it was
\* told is stored, whatever the other thread did meanwhile.
SizeStaysTrue ==
    /\ proom <= (Capacity - 1) - Distance(tail, head)
    /\ cready <= Distance(tail, head)

\* The argument behind both: room seen by the producer and items seen by the consumer
\* cannot be taken away by the other thread.
RoomWhilePushing == ppc # "idle" => Distance(tail, head) < Capacity - 1
ItemWhilePopping == cpc # "idle" => Distance(tail, head) > 0

Inv ==
    /\ TypeOK
    /\ RoomWhilePushing
    /\ ItemWhilePopping
    /\ SizeStaysTrue

\* The slot of the i-th item from the index t.
At(t, i) == IF t + i - 1 < Capacity THEN t + i - 1 ELSE t + i - 1 - Capacity

\* The i-th item stored; the consumer may already have moved out the first one without
\* having released its slot.
Stored(i) == IF i = 1 /\ cpc = "release" THEN citem ELSE buffer[At(tail, i)]

Contents == [i \in 1..Distance(tail, head) |-> Stored(i)]

\* The ring is a linearisable bounded queue of Capacity - 1 items: no item is lost,
\* duplicated or reordered, "full" is answered only when it is full and "empty" only
\* when it is empty.
Fifo == INSTANCE BoundedFifo
            WITH queue <- Contents, Nothing <- Vacant, Bound <- Capacity - 1

ImplementsFifo == Fifo!Spec
================================================================================
