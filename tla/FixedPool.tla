------------------------------- MODULE FixedPool -------------------------------
(***************************************************************************)
(* What a memory pool promises: a fixed set of blocks, each of them either *)
(* available or given out to exactly one caller; an allocation fails only  *)
(* when nothing is available.                                              *)
(***************************************************************************)
CONSTANTS Node, Thread, Null

VARIABLES
    available,  \* the blocks nobody owns
    result      \* the answer of each thread's last alloc: a block, or Null

poolVars == <<available, result>>

Init ==
    /\ available = Node
    /\ result = [t \in Thread |-> Null]

Alloc(t) ==
    \E n \in available :
        /\ available' = available \ {n}
        /\ result' = [result EXCEPT ![t] = n]

Exhausted(t) ==
    /\ available = {}
    /\ result' = [result EXCEPT ![t] = Null]
    /\ UNCHANGED available

Release ==
    \E n \in Node \ available :
        /\ available' = available \cup {n}
        /\ UNCHANGED result

Next == Release \/ \E t \in Thread : Alloc(t) \/ Exhausted(t)

Spec == Init /\ [][Next]_poolVars
================================================================================
