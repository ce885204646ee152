------------------------------ MODULE BoundedFifo ------------------------------
(***************************************************************************)
(* What a ring buffer promises to its two users: a first-in first-out      *)
(* queue of at most Bound items, whose operations take effect at one       *)
(* instant.  RingBuffer implements it: with try_push alone its steps are   *)
(* those of Next, with push_overwrite those of LossyNext, where a push may *)
(* also drop the oldest item.                                              *)
(***************************************************************************)
EXTENDS Naturals, Sequences

CONSTANTS
    Item,       \* what callers store
    Nothing,    \* the answer of a pop that found the queue empty
    Bound       \* how many items fit: a natural number

\* Nothing is not an item: the modules that instantiate this one assume it of theirs.

VARIABLES
    queue,      \* the items stored, oldest first
    pushed,     \* the answer of the last push: TRUE iff it stored its item
    popped      \* the answer of the last pop: an item or Nothing

fifoVars == <<queue, pushed, popped>>

TypeOK ==
    /\ queue \in Seq(Item)
    /\ Len(queue) <= Bound
    /\ pushed \in BOOLEAN
    /\ popped \in Item \cup {Nothing}

Init ==
    /\ queue = <<>>
    /\ pushed = FALSE
    /\ popped = Nothing

\* A push that finds room.
Push(item) ==
    /\ Len(queue) < Bound
    /\ queue' = Append(queue, item)
    /\ pushed' = TRUE
    /\ UNCHANGED popped

\* A push that is refused: only when the queue is full.
PushFull ==
    /\ Len(queue) = Bound
    /\ pushed' = FALSE
    /\ UNCHANGED <<queue, popped>>

\* A pop answers the oldest item ...
Pop ==
    /\ queue # <<>>
    /\ popped' = Head(queue)
    /\ queue' = Tail(queue)
    /\ UNCHANGED pushed

\* ... and nothing only when there is none.
PopEmpty ==
    /\ queue = <<>>
    /\ popped' = Nothing
    /\ UNCHANGED <<queue, pushed>>

\* A push that always succeeds: the oldest item makes room when the queue is full.
PushDropOldest(item) ==
    /\ queue' = IF Len(queue) < Bound
                THEN Append(queue, item)
                ELSE Tail(Append(queue, item))
    /\ pushed' = TRUE
    /\ UNCHANGED popped

Next ==
    \/ \E item \in Item : Push(item)
    \/ PushFull
    \/ Pop
    \/ PopEmpty

LossyNext == Next \/ \E item \in Item : PushDropOldest(item)

Spec == Init /\ [][Next]_fifoVars
================================================================================
