---------------------------------- MODULE Pool ----------------------------------
(***************************************************************************)
(* Pool<T> and PoolPtr<T> of shared/util/pool.hpp: a lock-free free list   *)
(* threaded through the blocks themselves.  Every thread keeps one PoolPtr *)
(* and may assign a fresh allocation to it, move another thread's PoolPtr  *)
(* into it, or let it go.  A step is one access to shared memory.  The     *)
(* link of a block shares its bytes with the T built there (the union in   *)
(* Node), so it reads as Garbage while the block is in use.                *)
(***************************************************************************)
EXTENDS Naturals, FiniteSets

CONSTANTS
    PoolSize,       \* the number of blocks
    Thread,         \* the threads that use the pool
    Allocators,     \* those that call alloc
    Null,           \* nullptr
    Garbage         \* bytes of a T read as a link

ASSUME PoolAssumption ==
    /\ PoolSize \in Nat \ {0}
    /\ Allocators \subseteq Thread
    /\ Null \notin 1..PoolSize
    /\ Garbage \notin 1..PoolSize \cup {Null}

Node == 1..PoolSize

VARIABLES
    freeHead,   \* head_
    next,       \* the link of each block
    pc,         \* where each thread is
    cur,        \* current_head of its alloc or free
    succ,       \* the current_head->next it read for the exchange
    result,     \* the block its last alloc took, Null when exhausted
    ptr,        \* ptr_ of its PoolPtr
    incoming    \* the pointer operator= will store in it

poolVars == <<freeHead, next, pc, cur, succ, result, ptr, incoming>>

PoolTypeOK ==
    /\ freeHead \in Node \cup {Null}
    /\ next \in [Node -> Node \cup {Null, Garbage}]
    /\ pc \in [Thread -> {"idle", "readNext", "exchange", "construct", "assign",
                          "destroy", "link", "push"}]
    /\ cur \in [Thread -> Node \cup {Null}]
    /\ succ \in [Thread -> Node \cup {Null, Garbage}]
    /\ result \in [Thread -> Node \cup {Null}]
    /\ ptr \in [Thread -> Node \cup {Null}]
    /\ incoming \in [Thread -> Node \cup {Null}]

\* The constructor links the blocks in order.
PoolInit ==
    /\ freeHead = 1
    /\ next = [n \in Node |-> IF n < PoolSize THEN n + 1 ELSE Null]
    /\ pc = [t \in Thread |-> "idle"]
    /\ cur = [t \in Thread |-> Null]
    /\ succ = [t \in Thread |-> Null]
    /\ result = [t \in Thread |-> Null]
    /\ ptr = [t \in Thread |-> Null]
    /\ incoming = [t \in Thread |-> Null]

--------------------------------------------------------------------------------
(* alloc *)

\* current_head holds the head_ just loaded: the loop goes on, or the pool is exhausted.
Examine(t) ==
    /\ cur' = [cur EXCEPT ![t] = freeHead]
    /\ IF freeHead # Null
       THEN /\ pc' = [pc EXCEPT ![t] = "readNext"]
            /\ UNCHANGED <<result, incoming>>
       ELSE /\ pc' = [pc EXCEPT ![t] = "assign"]
            /\ result' = [result EXCEPT ![t] = Null]
            /\ incoming' = [incoming EXCEPT ![t] = Null]

AllocBegin(t) ==
    /\ t \in Allocators
    /\ pc[t] = "idle"
    /\ Examine(t)
    /\ UNCHANGED <<freeHead, next, succ, ptr>>

\* current_head->next, read while another thread may own the block already
AllocReadNext(t) ==
    /\ pc[t] = "readNext"
    /\ cur[t] \in Node
    /\ succ' = [succ EXCEPT ![t] = next[cur[t]]]
    /\ pc' = [pc EXCEPT ![t] = "exchange"]
    /\ UNCHANGED <<freeHead, next, cur, result, ptr, incoming>>

\* The exchange succeeds: the block is ours.
AllocTake(t) ==
    /\ pc[t] = "exchange"
    /\ freeHead = cur[t]
    /\ freeHead' = succ[t]
    /\ result' = [result EXCEPT ![t] = cur[t]]
    /\ pc' = [pc EXCEPT ![t] = "construct"]
    /\ UNCHANGED <<next, cur, succ, ptr, incoming>>

\* The exchange fails, really or spuriously (it is the weak form), and reloads head_.
AllocRetry(t) ==
    /\ pc[t] = "exchange"
    /\ Examine(t)
    /\ UNCHANGED <<freeHead, next, succ, ptr>>

\* new (&current_head->data) T(): the link is overwritten.
AllocConstruct(t) ==
    /\ pc[t] = "construct"
    /\ next' = [next EXCEPT ![result[t]] = Garbage]
    /\ incoming' = [incoming EXCEPT ![t] = result[t]]
    /\ pc' = [pc EXCEPT ![t] = "assign"]
    /\ UNCHANGED <<freeHead, cur, succ, result, ptr>>

--------------------------------------------------------------------------------
(* PoolPtr *)

\* Mutant: the moved-from PoolPtr keeps its pointer.
Bug_MoveFromKeepsSource(t, other) ==
    /\ t # other
    /\ pc[t] = "idle"
    /\ pc[other] = "idle"
    /\ ptr[other] # Null
    /\ incoming' = [incoming EXCEPT ![t] = ptr[other]]
    /\ pc' = [pc EXCEPT ![t] = "assign"]
    /\ UNCHANGED <<freeHead, next, cur, succ, result, ptr>>

\* operator=(PoolPtr&&) from another thread's PoolPtr; the two threads have
\* synchronised, so the source is not in use and is emptied at once.
MoveFrom(t, other) ==
    /\ t # other
    /\ pc[t] = "idle"
    /\ pc[other] = "idle"
    /\ ptr[other] # Null
    /\ incoming' = [incoming EXCEPT ![t] = ptr[other]]
    /\ ptr' = [ptr EXCEPT ![other] = Null]
    /\ pc' = [pc EXCEPT ![t] = "assign"]
    /\ UNCHANGED <<freeHead, next, cur, succ, result>>

\* ~PoolPtr of a pointer that holds a block
Drop(t) ==
    /\ pc[t] = "idle"
    /\ ptr[t] # Null
    /\ pc' = [pc EXCEPT ![t] = "destroy"]
    /\ incoming' = [incoming EXCEPT ![t] = Null]
    /\ UNCHANGED <<freeHead, next, cur, succ, result, ptr>>

\* Mutant: operator= overwrites the old pointer without freeing its block.
Bug_AssignLeaks(t) ==
    /\ pc[t] = "assign"
    /\ pc' = [pc EXCEPT ![t] = "idle"]
    /\ ptr' = [ptr EXCEPT ![t] = incoming[t]]
    /\ incoming' = [incoming EXCEPT ![t] = Null]
    /\ UNCHANGED <<freeHead, next, cur, succ, result>>

\* operator= frees the block it held before it stores the incoming one.
Assign(t) ==
    /\ pc[t] = "assign"
    /\ IF ptr[t] # Null
       THEN /\ pc' = [pc EXCEPT ![t] = "destroy"]
            /\ UNCHANGED <<ptr, incoming>>
       ELSE /\ pc' = [pc EXCEPT ![t] = "idle"]
            /\ ptr' = [ptr EXCEPT ![t] = incoming[t]]
            /\ incoming' = [incoming EXCEPT ![t] = Null]
    /\ UNCHANGED <<freeHead, next, cur, succ, result>>

--------------------------------------------------------------------------------
(* free *)

\* ~T, then current_head = head_.load()
FreeBegin(t) ==
    /\ pc[t] = "destroy"
    /\ cur' = [cur EXCEPT ![t] = freeHead]
    /\ pc' = [pc EXCEPT ![t] = "link"]
    /\ UNCHANGED <<freeHead, next, succ, result, ptr, incoming>>

\* node->next = current_head
FreeLink(t) ==
    /\ pc[t] = "link"
    /\ next' = [next EXCEPT ![ptr[t]] = cur[t]]
    /\ pc' = [pc EXCEPT ![t] = "push"]
    /\ UNCHANGED <<freeHead, cur, succ, result, ptr, incoming>>

\* The exchange succeeds: the block is back in the list, and the PoolPtr that gave it up
\* gets the incoming pointer (Null in its destructor).
FreePush(t) ==
    /\ pc[t] = "push"
    /\ freeHead = cur[t]
    /\ freeHead' = ptr[t]
    /\ ptr' = [ptr EXCEPT ![t] = incoming[t]]
    /\ incoming' = [incoming EXCEPT ![t] = Null]
    /\ pc' = [pc EXCEPT ![t] = "idle"]
    /\ UNCHANGED <<next, cur, succ, result>>

\* Mutant: after a failed exchange the link is not written again.
Bug_FreeRetryKeepsLink(t) ==
    /\ pc[t] = "push"
    /\ cur' = [cur EXCEPT ![t] = freeHead]
    /\ UNCHANGED <<freeHead, next, pc, succ, result, ptr, incoming>>

\* The exchange fails, really or spuriously, and reloads head_.
FreeRetry(t) ==
    /\ pc[t] = "push"
    /\ cur' = [cur EXCEPT ![t] = freeHead]
    /\ pc' = [pc EXCEPT ![t] = "link"]
    /\ UNCHANGED <<freeHead, next, succ, result, ptr, incoming>>

--------------------------------------------------------------------------------
PoolNext ==
    \E t \in Thread :
        \/ AllocBegin(t) \/ AllocReadNext(t) \/ AllocTake(t) \/ AllocRetry(t)
        \/ AllocConstruct(t)
        \/ \E other \in Thread : MoveFrom(t, other)
        \/ Drop(t) \/ Assign(t)
        \/ FreeBegin(t) \/ FreeLink(t) \/ FreePush(t) \/ FreeRetry(t)

PoolSpec == PoolInit /\ [][PoolNext]_poolVars

--------------------------------------------------------------------------------
(* Properties *)

\* What the links of nx lead to from h: the least set of blocks that has h in it and with
\* a block the one its link names.
Linked(h, nx) ==
    {n \in Node :
        \A S \in SUBSET Node :
            (h \in Node => h \in S) /\ (\A m \in S : nx[m] \in Node => nx[m] \in S)
                => n \in S}

\* The free list
FreeNodes == Linked(freeHead, next)

\* The blocks a thread answers for: what its PoolPtr holds, what operator= is about to
\* store, and what alloc took and has not returned yet.
Owned(t) ==
    ({ptr[t], incoming[t]} \cup (IF pc[t] = "construct" THEN {result[t]} ELSE {}))
        \cap Node

\* A block is never owned by two threads, nor owned while it is in the free list: two
\* PoolPtrs never free or use the same memory, which is why PoolPtr cannot be copied.
UniqueOwner ==
    \A t \in Thread :
        /\ Owned(t) \cap FreeNodes = {}
        /\ \A u \in Thread \ {t} : Owned(t) \cap Owned(u) = {}
        /\ ptr[t] # Null => ptr[t] # incoming[t]

\* No block is lost: each one is in the free list or owned.
NoLeak == Node = FreeNodes \cup UNION {Owned(t) : t \in Thread}

\* The pool is linearisable: alloc takes an available block, fails only when there is
\* none, and free makes its block available again.
Blocks == INSTANCE FixedPool WITH available <- FreeNodes

ImplementsFixedPool == Blocks!Spec
================================================================================
