------------------------------- MODULE MCContainers -------------------------------
(***************************************************************************)
(* The two containers of shared/util, a ring asked to hold 3 items         *)
(* (rounded to 4 slots) and a pool with three threads.  They share         *)
(* nothing, so one of them, chosen in the initial state, runs and the      *)
(* other stays as its constructor left it.                                 *)
(***************************************************************************)
EXTENDS RingBuffer, Pool, TLC

CONSTANTS Requested, t1, t2, t3

VARIABLE container      \* the one that runs: "ring" or "pool"

containersVars == <<container, ringVars, poolVars>>

MCCapacity == RoundedCapacity(Requested)

\* Which of the threads allocate is up to the configuration.
Threads == {t1, t2, t3}
OnlyOne == {t1}

\* Threads that only release blocks are interchangeable.
Releasers == Permutations(Threads \ Allocators)

--------------------------------------------------------------------------------
ContainersInit ==
    /\ container \in {"ring", "pool"}
    /\ RingInit /\ (container = "pool" => ~overwrites)
    /\ PoolInit

ContainersNext ==
    \/ container = "ring" /\ RingNext /\ UNCHANGED <<container, poolVars>>
    \/ container = "pool" /\ PoolNext /\ UNCHANGED <<container, ringVars>>

ContainersSpec == ContainersInit /\ [][ContainersNext]_containersVars
================================================================================
