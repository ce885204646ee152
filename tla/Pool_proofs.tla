------------------------------- MODULE Pool_proofs -------------------------------
(***************************************************************************)
(* For every capacity and any number of threads of which one allocates, no *)
(* block of a Pool has two owners, none is lost, and the pool is one of    *)
(* FixedPool.  With two allocators this is false: between the read of a    *)
(* link and the exchange the block can be taken, its successor with it,    *)
(* and the block given back.  While only one thread removes blocks, the    *)
(* block it looks at stays in the list and its link stays what was read.   *)
(***************************************************************************)
EXTENDS Pool, FiniteSetTheorems, WellFoundedInduction, TLAPS

\* One thread calls alloc; the others get their blocks by moves.
OneAllocator == \A t, u \in Allocators : t = u

\* No block of the free list is met again behind itself.
Acyclic == \A n \in FreeNodes : n \notin Linked(next[n], next)

\* A block in the list has a link, not the bytes of a T.
LinksIntact == \A n \in FreeNodes : next[n] \in Node \cup {Null}

\* What alloc knows between its steps: the block it looks at is in the list, and the link
\* it has read is still the link of that block.
AllocKnows ==
    \A t \in Thread :
        /\ pc[t] \in {"readNext", "exchange"} =>
               t \in Allocators /\ cur[t] \in FreeNodes /\ incoming[t] = Null
        /\ pc[t] = "exchange" => succ[t] = next[cur[t]]
        /\ pc[t] = "construct" =>
               /\ t \in Allocators /\ incoming[t] = Null
               /\ result[t] \in Node /\ result[t] # ptr[t]

\* What PoolPtr and free know: nothing is about to be stored while the thread is idle, free
\* has a block, and it pushes it with the link it has just written.
FreeKnows ==
    \A t \in Thread :
        /\ pc[t] = "idle" => incoming[t] = Null
        /\ pc[t] \in {"destroy", "link", "push"} => ptr[t] \in Node
        /\ pc[t] = "push" => next[ptr[t]] = cur[t]

PoolInv ==
    /\ PoolTypeOK
    /\ Acyclic /\ LinksIntact
    /\ AllocKnows /\ FreeKnows
    /\ UniqueOwner /\ NoLeak

--------------------------------------------------------------------------------
(* The least number of a set *)

\* A set of natural numbers has a least one: the intervals that end in its members are
\* finite sets, and inclusion is well-founded on those.
LEMMA LeastNumber ==
    ASSUME NEW T \in SUBSET Nat, T # {}
    PROVE  \E m \in T : \A n \in T : m <= n
<1> DEFINE U == {1..n : n \in T}
           R == StrictSubsetOrdering(Nat)
<1>1. U \subseteq FiniteSubsetsOf(Nat)
  <2> SUFFICES ASSUME NEW n \in T
               PROVE  1..n \in FiniteSubsetsOf(Nat)
    OBVIOUS
  <2>1. IsFiniteSet(1..n)
    BY FS_Interval
  <2> QED
    BY <2>1 DEF FiniteSubsetsOf
<1>2. IsWellFoundedOn(R, FiniteSubsetsOf(Nat))
  BY FS_StrictSubsetOrderingWellFounded
<1>3. U # {}
  OBVIOUS
<1>4. PICK x \in U : \A y \in U : ~(<<y, x>> \in R)
  <2> HIDE DEF U, R
  <2> QED
    BY <1>1, <1>2, <1>3, WFMin
<1>5. PICK m \in T : x = 1..m
  OBVIOUS
<1>6. ASSUME NEW n \in T, n < m
      PROVE  FALSE
  <2>1. 1..n \subseteq 1..m /\ m \in 1..m /\ m \notin 1..n
    BY <1>6
  <2>2. <<1..n, 1..m>> \in R
    BY <2>1 DEF StrictSubsetOrdering
  <2> QED
    BY <1>4, <1>5, <2>2
<1> QED
  BY <1>6

--------------------------------------------------------------------------------
(* Lists of blocks *)

\* A set that contains h and every successor contains all that h leads to.
LEMMA LinkedLeast ==
    ASSUME NEW h, NEW nx, NEW S \in SUBSET Node,
           h \in Node => h \in S,
           \A m \in S : nx[m] \in Node => nx[m] \in S
    PROVE  Linked(h, nx) \subseteq S
  BY DEF Linked

\* What h leads to contains h and every successor.
LEMMA LinkedClosed ==
    ASSUME NEW h, NEW nx
    PROVE  /\ Linked(h, nx) \subseteq Node
           /\ h \in Node => h \in Linked(h, nx)
           /\ \A m \in Linked(h, nx) : nx[m] \in Node => nx[m] \in Linked(h, nx)
  BY DEF Linked

\* A pointer that is no block leads nowhere.
LEMMA LinkedEmpty == ASSUME NEW h, NEW nx, h \notin Node PROVE Linked(h, nx) = {}
<1>1. Linked(h, nx) \subseteq {}
  <2>1. {} \in SUBSET Node
    OBVIOUS
  <2> QED
    BY <2>1, LinkedLeast
<1> QED
  BY <1>1

\* A block leads to itself and to what its link leads to.
LEMMA LinkedUnfolds ==
    ASSUME NEW h \in Node, NEW nx
    PROVE  Linked(h, nx) = {h} \cup Linked(nx[h], nx)
<1> DEFINE rest == Linked(nx[h], nx)
           all == Linked(h, nx)
<1>1. /\ rest \subseteq Node /\ (nx[h] \in Node => nx[h] \in rest)
      /\ \A m \in rest : nx[m] \in Node => nx[m] \in rest
  BY LinkedClosed
<1>2. /\ all \subseteq Node /\ h \in all
      /\ \A m \in all : nx[m] \in Node => nx[m] \in all
  BY LinkedClosed
<1> HIDE DEF rest, all
<1>3. all \subseteq {h} \cup rest
  <2>1. {h} \cup rest \in SUBSET Node
    BY <1>1
  <2>2. \A m \in {h} \cup rest : nx[m] \in Node => nx[m] \in {h} \cup rest
    BY <1>1
  <2> QED
    BY <2>1, <2>2, LinkedLeast DEF all
<1>4. rest \subseteq all
  BY <1>2, LinkedLeast DEF rest
<1> QED
  BY <1>2, <1>3, <1>4 DEF rest, all

\* Links of other blocks do not matter.
LEMMA LinkedFrame ==
    ASSUME NEW h, NEW nx, NEW ny, \A m \in Linked(h, nx) : ny[m] = nx[m]
    PROVE  Linked(h, ny) = Linked(h, nx)
<1> DEFINE old == Linked(h, nx)
           new == Linked(h, ny)
<1>1. /\ old \subseteq Node /\ (h \in Node => h \in old)
      /\ \A m \in old : nx[m] \in Node => nx[m] \in old
  BY LinkedClosed
<1>2. /\ new \subseteq Node /\ (h \in Node => h \in new)
      /\ \A m \in new : ny[m] \in Node => ny[m] \in new
  BY LinkedClosed
<1>3. \A m \in old : ny[m] = nx[m]
  OBVIOUS
<1> HIDE DEF old, new
<1>4. new \subseteq old
  BY <1>1, <1>3, LinkedLeast DEF new
<1>5. old \subseteq old \cap new
  <2>1. \A m \in old \cap new : nx[m] \in Node => nx[m] \in old \cap new
    BY <1>1, <1>2, <1>3
  <2>2. old \cap new \in SUBSET Node
    BY <1>1
  <2> QED
    BY <1>1, <1>2, <2>1, <2>2, LinkedLeast DEF old
<1> QED
  BY <1>4, <1>5 DEF old, new

\* The list can lose its first block ...
LEMMA ListLosesFirst ==
    ASSUME NEW h \in Node, NEW nx,
           \A n \in Linked(h, nx) : n \notin Linked(nx[n], nx)
    PROVE  /\ Linked(nx[h], nx) = Linked(h, nx) \ {h}
           /\ \A n \in Linked(nx[h], nx) : n \notin Linked(nx[n], nx)
  BY LinkedUnfolds, LinkedClosed

\* ... and get a new one that links to the old.
LEMMA ListGetsFirst ==
    ASSUME NEW h \in Node, NEW nx, h \notin Linked(nx[h], nx),
           \A n \in Linked(nx[h], nx) : n \notin Linked(nx[n], nx)
    PROVE  /\ Linked(h, nx) = Linked(nx[h], nx) \cup {h}
           /\ \A n \in Linked(h, nx) : n \notin Linked(nx[n], nx)
  BY LinkedUnfolds

\* When the links of the list stay, the list does, and it is acyclic still.
LEMMA ListStays ==
    ASSUME NEW h, NEW nx, NEW ny, \A m \in Linked(h, nx) : ny[m] = nx[m]
    PROVE  /\ Linked(h, ny) = Linked(h, nx)
           /\ (\A n \in Linked(h, nx) : n \notin Linked(nx[n], nx))
                  => \A n \in Linked(h, ny) : n \notin Linked(ny[n], ny)
<1>1. Linked(h, ny) = Linked(h, nx)
  BY LinkedFrame
<1>2. ASSUME NEW n \in Linked(h, nx)
      PROVE  Linked(ny[n], ny) = Linked(nx[n], nx)
  <2>1. Linked(nx[n], nx) \subseteq Linked(h, nx)
    BY LinkedClosed, LinkedLeast
  <2>2. Linked(nx[n], ny) = Linked(nx[n], nx)
    BY <2>1, LinkedFrame
  <2> QED
    BY <2>2
<1> QED
  BY <1>1, <1>2

--------------------------------------------------------------------------------
(* Types and initial states *)

\* The constructor links all blocks, in order.
LEMMA AllFreeAtFirst ==
    ASSUME NEW nx, nx = [n \in Node |-> IF n < PoolSize THEN n + 1 ELSE Null]
    PROVE  /\ Linked(1, nx) = Node
           /\ \A n \in Node : n \notin Linked(nx[n], nx)
<1>1. PoolSize \in Nat \ {0} /\ Null \notin Node /\ 1 \in Node
  BY PoolAssumption DEF Node
<1>2. Node \subseteq Linked(1, nx)
  <2> DEFINE T == Node \ Linked(1, nx)
  <2>1. CASE T # {}
    <3>0. T \in SUBSET Nat
      BY DEF Node
    <3>1. PICK m \in T : \A n \in T : m <= n
      <4> HIDE DEF T
      <4> QED
        BY <2>1, <3>0, LeastNumber
    <3>2. 1 \in Linked(1, nx)
      BY <1>1, LinkedClosed
    <3>3. m - 1 \in Node /\ nx[m - 1] = m /\ ~(m <= m - 1)
      BY <1>1, <3>1, <3>2 DEF Node
    <3>4. m - 1 \in Linked(1, nx)
      BY <3>1, <3>3
    <3>5. m \in Linked(1, nx)
      BY <3>1, <3>3, <3>4, LinkedClosed
    <3> QED
      BY <3>1, <3>5
  <2> QED
    BY <2>1
<1>3. ASSUME NEW n \in Node
      PROVE  n \notin Linked(nx[n], nx)
  <2>1. CASE n < PoolSize
    <3> DEFINE S == (n + 1)..PoolSize
    <3>1. nx[n] \in S /\ S \in SUBSET Node /\ n \notin S
      BY <1>1, <2>1 DEF Node
    <3>2. \A m \in S : nx[m] \in Node => nx[m] \in S
      BY <1>1, <3>1 DEF Node
    <3> HIDE DEF S
    <3> QED
      BY <3>1, <3>2, LinkedLeast
  <2>2. CASE ~(n < PoolSize)
    BY <1>1, <2>2, LinkedEmpty
  <2> QED
    BY <2>1, <2>2
<1> QED
  BY <1>2, <1>3, LinkedClosed

LEMMA PoolInitially == PoolInit => PoolInv
<1> SUFFICES ASSUME PoolInit
             PROVE  PoolInv
  OBVIOUS
<1>1. PoolSize \in Nat \ {0} /\ Null \notin Node /\ 1 \in Node
  BY PoolAssumption DEF Node
<1>2. FreeNodes = Node /\ Acyclic
  BY AllFreeAtFirst DEF PoolInit, FreeNodes, Acyclic
<1>3. PoolTypeOK /\ LinksIntact
  BY <1>1, <1>2 DEF PoolInit, PoolTypeOK, LinksIntact, Node
<1>4. AllocKnows /\ FreeKnows
  BY DEF PoolInit, AllocKnows, FreeKnows
<1>5. \A t \in Thread : Owned(t) = {}
  BY <1>1 DEF PoolInit, Owned
<1>6. UniqueOwner /\ NoLeak
  BY <1>2, <1>5 DEF PoolInit, UniqueOwner, NoLeak
<1> QED
  BY <1>2, <1>3, <1>4, <1>6 DEF PoolInv

\* The link alloc has read is a link, so head_ never holds the bytes of a T.
LEMMA TypeStep ==
    ASSUME PoolInv, [PoolNext]_poolVars
    PROVE  PoolTypeOK'
<1> USE DEF PoolInv
<1>0. \A t \in Thread : pc[t] = "exchange" => succ[t] \in Node \cup {Null}
  BY DEF AllocKnows, LinksIntact
<1>1. ASSUME NEW t \in Thread, AllocBegin(t) \/ AllocRetry(t)
      PROVE  PoolTypeOK'
  BY <1>1 DEF AllocBegin, AllocRetry, Examine, PoolTypeOK
<1>2. ASSUME NEW t \in Thread, AllocReadNext(t)
      PROVE  PoolTypeOK'
  BY <1>2 DEF AllocReadNext, PoolTypeOK
<1>3. ASSUME NEW t \in Thread, AllocTake(t)
      PROVE  PoolTypeOK'
  BY <1>0, <1>3 DEF AllocTake, PoolTypeOK
<1>4. ASSUME NEW t \in Thread, AllocConstruct(t)
      PROVE  PoolTypeOK'
  BY <1>4 DEF AllocConstruct, PoolTypeOK
<1>5. ASSUME NEW t \in Thread, NEW other \in Thread, MoveFrom(t, other)
      PROVE  PoolTypeOK'
  BY <1>5 DEF MoveFrom, PoolTypeOK
<1>6. ASSUME NEW t \in Thread, Drop(t) \/ Assign(t)
      PROVE  PoolTypeOK'
  BY <1>6 DEF Drop, Assign, PoolTypeOK
<1>7. ASSUME NEW t \in Thread, FreeBegin(t) \/ FreeRetry(t)
      PROVE  PoolTypeOK'
  BY <1>7 DEF FreeBegin, FreeRetry, PoolTypeOK
<1>8. ASSUME NEW t \in Thread, FreeLink(t)
      PROVE  PoolTypeOK'
  BY <1>8 DEF FreeLink, PoolTypeOK
<1>9. ASSUME NEW t \in Thread, FreePush(t)
      PROVE  PoolTypeOK'
  BY <1>9 DEF FreePush, PoolTypeOK, FreeKnows
<1>10. CASE UNCHANGED poolVars
  BY <1>10 DEF poolVars, PoolTypeOK
<1> QED
  BY <1>1, <1>2, <1>3, <1>4, <1>5, <1>6, <1>7, <1>8, <1>9, <1>10 DEF PoolNext

--------------------------------------------------------------------------------
(* What a step does to the list and to the owners *)

LEMMA ListUnchanged ==
    ASSUME PoolInv, UNCHANGED <<freeHead, next>>
    PROVE  FreeNodes' = FreeNodes /\ Acyclic' /\ LinksIntact'
  BY DEF PoolInv, FreeNodes, Acyclic, LinksIntact

\* A write to a block outside the list leaves the list alone.
LEMMA ListUntouched ==
    ASSUME PoolInv, NEW b \in Node \ FreeNodes, NEW v,
           next' = [next EXCEPT ![b] = v], freeHead' = freeHead
    PROVE  FreeNodes' = FreeNodes /\ Acyclic' /\ LinksIntact'
<1>1. \A m \in FreeNodes : next'[m] = next[m]
  BY DEF PoolInv, PoolTypeOK
<1>2. \A m \in Linked(freeHead, next) : next'[m] = next[m]
  BY <1>1 DEF FreeNodes
<1>3. \A n \in Linked(freeHead, next) : n \notin Linked(next[n], next)
  BY DEF PoolInv, Acyclic, FreeNodes
<1>4. /\ Linked(freeHead, next') = Linked(freeHead, next)
      /\ \A n \in Linked(freeHead, next') : n \notin Linked(next'[n], next')
  <2> DEFINE ny == next'
  <2>1. \A m \in Linked(freeHead, next) : ny[m] = next[m]
    BY <1>2
  <2> HIDE DEF ny
  <2>2. Linked(freeHead, ny) = Linked(freeHead, next)
    BY <2>1, ListStays
  <2>3. \A n \in Linked(freeHead, ny) : n \notin Linked(ny[n], ny)
    BY <2>1, <1>3, ListStays
  <2> QED
    BY <2>2, <2>3 DEF ny
<1>5. FreeNodes' = FreeNodes /\ Acyclic'
  BY <1>4 DEF Acyclic, FreeNodes
<1> QED
  BY <1>1, <1>5 DEF PoolInv, LinksIntact

\* What a thread has just lost or given up it owns alone.
LEMMA OwnedIsNotFree ==
    ASSUME PoolInv, NEW t \in Thread
    PROVE  /\ pc[t] \in {"destroy", "link", "push"} => ptr[t] \in Node \ FreeNodes
           /\ pc[t] = "construct" => result[t] \in Node \ FreeNodes
           /\ pc[t] = "idle" /\ ptr[t] # Null => ptr[t] \in Node \ FreeNodes
<1> USE DEF PoolInv
<1>1. Owned(t) \cap FreeNodes = {}
  BY DEF UniqueOwner
<1>2. /\ pc[t] \in {"destroy", "link", "push"} => ptr[t] \in Owned(t)
      /\ pc[t] = "construct" => result[t] \in Owned(t)
      /\ ptr[t] # Null => ptr[t] \in Owned(t)
      /\ Owned(t) \subseteq Node
  BY DEF Owned, AllocKnows, FreeKnows, PoolTypeOK
<1> QED
  BY <1>1, <1>2

\* alloc takes the first block: what it has read is still the second.
LEMMA TakeRemoves ==
    ASSUME PoolInv, NEW t \in Thread, AllocTake(t)
    PROVE  /\ cur[t] \in FreeNodes /\ FreeNodes' = FreeNodes \ {cur[t]}
           /\ Acyclic' /\ LinksIntact'
<1> USE DEF PoolInv
<1>1. freeHead = cur[t] /\ cur[t] \in FreeNodes /\ freeHead' = next[cur[t]] /\ next' = next
  BY DEF AllocTake, AllocKnows
<1>2. freeHead \in Node
  BY <1>1, LinkedClosed DEF FreeNodes
<1>3. /\ Linked(next[freeHead], next) = Linked(freeHead, next) \ {freeHead}
      /\ \A n \in Linked(next[freeHead], next) : n \notin Linked(next[n], next)
  BY <1>2, ListLosesFirst DEF Acyclic, FreeNodes
<1> QED
  BY <1>1, <1>3 DEF Acyclic, FreeNodes, LinksIntact

\* free puts its block first: its link is the head_ that the exchange has found.
LEMMA PushAdds ==
    ASSUME PoolInv, NEW t \in Thread, FreePush(t)
    PROVE  /\ ptr[t] \in Node \ FreeNodes /\ FreeNodes' = FreeNodes \cup {ptr[t]}
           /\ Acyclic' /\ LinksIntact'
<1> USE DEF PoolInv
<1>1. ptr[t] \in Node \ FreeNodes
  BY OwnedIsNotFree DEF FreePush
<1>2. next[ptr[t]] = freeHead /\ freeHead' = ptr[t] /\ next' = next
  BY DEF FreePush, FreeKnows
<1>3. /\ Linked(ptr[t], next) = Linked(freeHead, next) \cup {ptr[t]}
      /\ \A n \in Linked(ptr[t], next) : n \notin Linked(next[n], next)
  BY <1>1, <1>2, ListGetsFirst DEF Acyclic, FreeNodes
<1>4. freeHead \in Node \cup {Null}
  BY DEF PoolTypeOK
<1> QED
  BY <1>1, <1>2, <1>3, <1>4 DEF Acyclic, FreeNodes, LinksIntact

\* A step after which the list and every thread have the blocks they had.
LEMMA OwnersStay ==
    ASSUME PoolInv, FreeNodes' = FreeNodes, \A u \in Thread : Owned(u)' = Owned(u),
           \A u \in Thread : ptr'[u] # Null => ptr'[u] # incoming'[u]
    PROVE  UniqueOwner' /\ NoLeak'
  BY DEF PoolInv, UniqueOwner, NoLeak

\* A step that moves a block from the list to a thread.
LEMMA OwnerGets ==
    ASSUME PoolInv, NEW t \in Thread, NEW b \in FreeNodes, FreeNodes' = FreeNodes \ {b},
           Owned(t)' = Owned(t) \cup {b}, \A u \in Thread \ {t} : Owned(u)' = Owned(u),
           \A u \in Thread : ptr'[u] # Null => ptr'[u] # incoming'[u]
    PROVE  UniqueOwner' /\ NoLeak'
  BY DEF PoolInv, UniqueOwner, NoLeak

\* A step that moves a block from a thread to the list.
LEMMA OwnerGives ==
    ASSUME PoolInv, NEW t \in Thread, NEW b \in Owned(t), FreeNodes' = FreeNodes \cup {b},
           Owned(t)' = Owned(t) \ {b}, \A u \in Thread \ {t} : Owned(u)' = Owned(u),
           \A u \in Thread : ptr'[u] # Null => ptr'[u] # incoming'[u]
    PROVE  UniqueOwner' /\ NoLeak'
  BY DEF PoolInv, UniqueOwner, NoLeak

\* A step that moves a block from one thread to another.
LEMMA OwnersExchange ==
    ASSUME PoolInv, NEW t \in Thread, NEW other \in Thread \ {t}, NEW b \in Owned(other),
           FreeNodes' = FreeNodes,
           Owned(t)' = Owned(t) \cup {b}, Owned(other)' = Owned(other) \ {b},
           \A u \in Thread \ {t, other} : Owned(u)' = Owned(u),
           \A u \in Thread : ptr'[u] # Null => ptr'[u] # incoming'[u]
    PROVE  UniqueOwner' /\ NoLeak'
  BY DEF PoolInv, UniqueOwner, NoLeak

--------------------------------------------------------------------------------
(* Each step keeps the invariant *)

\* Steps of one thread that touch neither the list nor its owners.
LEMMA QuietStep ==
    ASSUME PoolInv, NEW t \in Thread, UNCHANGED <<freeHead, next>>, PoolTypeOK',
           \/ AllocBegin(t) \/ AllocReadNext(t) \/ AllocRetry(t)
           \/ Drop(t) \/ Assign(t) \/ FreeBegin(t) \/ FreeRetry(t)
    PROVE  PoolInv'
<1> USE DEF PoolInv
<1>1. FreeNodes' = FreeNodes /\ Acyclic' /\ LinksIntact'
  BY ListUnchanged
<1>2. freeHead \in FreeNodes \/ freeHead = Null
  BY LinkedClosed DEF PoolTypeOK, FreeNodes
<1>3. CASE AllocBegin(t) \/ AllocRetry(t)
  <2>1. /\ t \in Allocators /\ incoming[t] = Null /\ incoming'[t] = Null
        /\ pc[t] \in {"idle", "exchange"} /\ pc'[t] \in {"readNext", "assign"}
        /\ pc'[t] = "readNext" => freeHead # Null /\ cur'[t] = freeHead
        /\ UNCHANGED <<next, ptr>>
    BY <1>3 DEF AllocBegin, AllocRetry, Examine, AllocKnows, FreeKnows, PoolTypeOK
  <2>2. \A u \in Thread \ {t} :
            /\ pc'[u] = pc[u] /\ cur'[u] = cur[u] /\ succ'[u] = succ[u]
            /\ incoming'[u] = incoming[u] /\ result'[u] = result[u]
    BY <1>3 DEF AllocBegin, AllocRetry, Examine, PoolTypeOK
  <2>3. AllocKnows' /\ FreeKnows'
    BY <1>1, <1>2, <2>1, <2>2 DEF AllocKnows, FreeKnows
  <2>4. \A u \in Thread : Owned(u)' = Owned(u)
    BY <2>1, <2>2 DEF Owned
  <2>5. \A u \in Thread : ptr'[u] # Null => ptr'[u] # incoming'[u]
    BY <2>1, <2>2 DEF UniqueOwner
  <2> QED
    BY <1>1, <2>3, <2>4, <2>5, OwnersStay
<1>4. CASE AllocReadNext(t)
  <2>1. /\ pc[t] = "readNext" /\ pc'[t] = "exchange" /\ succ'[t] = next[cur[t]]
        /\ UNCHANGED <<next, cur, result, ptr, incoming>>
    BY <1>4 DEF AllocReadNext, PoolTypeOK
  <2>2. \A u \in Thread \ {t} : pc'[u] = pc[u] /\ succ'[u] = succ[u]
    BY <1>4 DEF AllocReadNext, PoolTypeOK
  <2>3. AllocKnows' /\ FreeKnows'
    BY <1>1, <2>1, <2>2 DEF AllocKnows, FreeKnows
  <2>4. \A u \in Thread : Owned(u)' = Owned(u)
    BY <2>1, <2>2 DEF Owned
  <2>5. \A u \in Thread : ptr'[u] # Null => ptr'[u] # incoming'[u]
    BY <2>1 DEF UniqueOwner
  <2> QED
    BY <1>1, <2>3, <2>4, <2>5, OwnersStay
<1>5. CASE Drop(t) \/ Assign(t)
  <2>1. /\ pc[t] \in {"idle", "assign"} /\ pc'[t] \in {"idle", "destroy"}
        /\ pc'[t] = "idle" => incoming'[t] = Null
        /\ pc'[t] = "destroy" => ptr'[t] = ptr[t] /\ ptr[t] \in Node
        /\ {ptr'[t], incoming'[t]} \cap Node = {ptr[t], incoming[t]} \cap Node
        /\ ptr'[t] # Null => ptr'[t] # incoming'[t]
        /\ UNCHANGED <<next, cur, succ, result>>
    <3>1. Null \notin Node
      BY PoolAssumption DEF Node
    <3>2. ptr[t] # Null => ptr[t] # incoming[t]
      BY DEF UniqueOwner
    <3>3. CASE Drop(t)
      BY <3>1, <3>2, <3>3 DEF Drop, FreeKnows, PoolTypeOK
    <3>4. CASE Assign(t)
      BY <3>1, <3>2, <3>4 DEF Assign, PoolTypeOK
    <3> QED
      BY <1>5, <3>3, <3>4
  <2>2. \A u \in Thread \ {t} :
            pc'[u] = pc[u] /\ ptr'[u] = ptr[u] /\ incoming'[u] = incoming[u]
    BY <1>5 DEF Drop, Assign, PoolTypeOK
  <2>3. AllocKnows' /\ FreeKnows'
    BY <1>1, <2>1, <2>2 DEF AllocKnows, FreeKnows
  <2>4. \A u \in Thread : Owned(u)' = Owned(u)
    BY <2>1, <2>2 DEF Owned
  <2>5. \A u \in Thread : ptr'[u] # Null => ptr'[u] # incoming'[u]
    BY <2>1, <2>2 DEF UniqueOwner
  <2> QED
    BY <1>1, <2>3, <2>4, <2>5, OwnersStay
<1>6. CASE FreeBegin(t) \/ FreeRetry(t)
  <2>1. /\ pc[t] \in {"destroy", "push"} /\ pc'[t] = "link"
        /\ UNCHANGED <<next, succ, result, ptr, incoming>>
    BY <1>6 DEF FreeBegin, FreeRetry, PoolTypeOK
  <2>2. \A u \in Thread \ {t} : pc'[u] = pc[u] /\ cur'[u] = cur[u]
    BY <1>6 DEF FreeBegin, FreeRetry, PoolTypeOK
  <2>3. AllocKnows' /\ FreeKnows'
    BY <1>1, <2>1, <2>2 DEF AllocKnows, FreeKnows
  <2>4. \A u \in Thread : Owned(u)' = Owned(u)
    BY <2>1, <2>2 DEF Owned
  <2>5. \A u \in Thread : ptr'[u] # Null => ptr'[u] # incoming'[u]
    BY <2>1 DEF UniqueOwner
  <2> QED
    BY <1>1, <2>3, <2>4, <2>5, OwnersStay
<1> QED
  BY <1>3, <1>4, <1>5, <1>6

\* A write to a block that the thread owns.
LEMMA WriteStep ==
    ASSUME PoolInv, NEW t \in Thread, PoolTypeOK', AllocConstruct(t) \/ FreeLink(t)
    PROVE  PoolInv'
<1> USE DEF PoolInv
<1> DEFINE b == IF AllocConstruct(t) THEN result[t] ELSE ptr[t]
<1>1. b \in Node \ FreeNodes
  BY OwnedIsNotFree DEF AllocConstruct, FreeLink
<1>2. freeHead' = freeHead /\ \E v : next' = [next EXCEPT ![b] = v]
  BY DEF AllocConstruct, FreeLink
<1>3. FreeNodes' = FreeNodes /\ Acyclic' /\ LinksIntact'
  <2> HIDE DEF b
  <2> QED
    BY <1>1, <1>2, ListUntouched
<1>4. \A n \in Node \ {b} : next'[n] = next[n]
  BY <1>2 DEF PoolTypeOK
<1>5. \A u \in Thread \ {t} : pc'[u] = pc[u] /\ incoming'[u] = incoming[u]
  BY DEF AllocConstruct, FreeLink, PoolTypeOK
<1>6. UNCHANGED <<cur, succ, result, ptr>>
  BY DEF AllocConstruct, FreeLink
<1>7. b \in Owned(t)
  BY <1>1 DEF AllocConstruct, FreeLink, Owned
<1>8. \A u \in Thread \ {t} : pc[u] = "push" => ptr[u] \in Node \ {b}
  <2> HIDE DEF b
  <2> SUFFICES ASSUME NEW u \in Thread \ {t}, pc[u] = "push"
               PROVE  ptr[u] \in Node \ {b}
    OBVIOUS
  <2>1. ptr[u] \in Node /\ ptr[u] \in Owned(u)
    BY DEF FreeKnows, Owned
  <2>2. Owned(t) \cap Owned(u) = {}
    BY DEF UniqueOwner
  <2> QED
    BY <1>7, <2>1, <2>2
<1>9. \A n \in FreeNodes : next'[n] = next[n]
  <2> HIDE DEF b
  <2> QED
    BY <1>1, <1>4, LinkedClosed DEF FreeNodes
<1>10. /\ pc'[t] \in {"assign", "push"}
       /\ pc'[t] = "push" => ptr[t] \in Node /\ next'[ptr[t]] = cur[t]
       /\ pc[t] = "construct" => incoming'[t] = result[t] /\ incoming[t] = Null
       /\ pc[t] # "construct" => incoming'[t] = incoming[t]
       /\ ptr[t] # Null => ptr[t] # incoming'[t]
       /\ pc[t] \in {"construct", "link"}
  BY DEF AllocConstruct, FreeLink, AllocKnows, FreeKnows, PoolTypeOK, UniqueOwner
<1> HIDE DEF b
<1>11. AllocKnows'
  BY <1>3, <1>5, <1>6, <1>9, <1>10 DEF AllocKnows
<1>12. FreeKnows'
  BY <1>4, <1>5, <1>6, <1>8, <1>10 DEF FreeKnows
<1>13. \A u \in Thread : Owned(u)' = Owned(u)
  <2>1. Null \notin Node
    BY PoolAssumption DEF Node
  <2> QED
    BY <1>5, <1>6, <1>10, <2>1 DEF Owned
<1>14. \A u \in Thread : ptr'[u] # Null => ptr'[u] # incoming'[u]
  BY <1>5, <1>6, <1>10 DEF UniqueOwner
<1> QED
  BY <1>3, <1>11, <1>12, <1>13, <1>14, OwnersStay

\* The exchange of alloc: here it matters that no other thread allocates.
LEMMA TakeStep ==
    ASSUME OneAllocator, PoolInv, NEW t \in Thread, PoolTypeOK', AllocTake(t)
    PROVE  PoolInv'
<1> USE DEF PoolInv
<1>1. /\ cur[t] \in FreeNodes /\ FreeNodes' = FreeNodes \ {cur[t]}
      /\ Acyclic' /\ LinksIntact'
  BY TakeRemoves
<1>2. /\ t \in Allocators /\ pc[t] = "exchange" /\ pc'[t] = "construct"
      /\ incoming[t] = Null /\ result'[t] = cur[t] /\ cur[t] \in Node
      /\ UNCHANGED <<next, cur, succ, ptr, incoming>>
  BY <1>1, LinkedClosed DEF AllocTake, AllocKnows, PoolTypeOK, FreeNodes
<1>3. \A u \in Thread \ {t} : pc'[u] = pc[u] /\ result'[u] = result[u]
  BY DEF AllocTake, PoolTypeOK
<1>4. ptr[t] # cur[t]
  BY <1>1 DEF UniqueOwner, Owned, AllocKnows, FreeNodes, Linked
<1>5. \A u \in Thread \ {t} : pc[u] \notin {"readNext", "exchange"}
  BY <1>2 DEF OneAllocator, AllocKnows
<1>6. AllocKnows'
  BY <1>2, <1>3, <1>4, <1>5 DEF AllocKnows
<1>7. FreeKnows'
  BY <1>2, <1>3 DEF FreeKnows
<1>8. Owned(t)' = Owned(t) \cup {cur[t]} /\ \A u \in Thread \ {t} : Owned(u)' = Owned(u)
  BY <1>2, <1>3 DEF Owned
<1>9. \A u \in Thread : ptr'[u] # Null => ptr'[u] # incoming'[u]
  BY <1>2 DEF UniqueOwner
<1> QED
  BY <1>1, <1>6, <1>7, <1>8, <1>9, OwnerGets

\* The exchange of free.
LEMMA PushStep ==
    ASSUME PoolInv, NEW t \in Thread, PoolTypeOK', FreePush(t)
    PROVE  PoolInv'
<1> USE DEF PoolInv
<1>1. /\ ptr[t] \in Node \ FreeNodes /\ FreeNodes' = FreeNodes \cup {ptr[t]}
      /\ Acyclic' /\ LinksIntact'
  BY PushAdds
<1>2. /\ pc[t] = "push" /\ pc'[t] = "idle" /\ incoming'[t] = Null /\ ptr'[t] = incoming[t]
      /\ UNCHANGED <<next, cur, succ, result>>
  BY DEF FreePush, PoolTypeOK
<1>3. \A u \in Thread \ {t} :
          pc'[u] = pc[u] /\ ptr'[u] = ptr[u] /\ incoming'[u] = incoming[u]
  BY DEF FreePush, PoolTypeOK
<1>4. Null \notin Node /\ ptr[t] # Null /\ ptr[t] # incoming[t]
  BY <1>1, PoolAssumption DEF Node, UniqueOwner
<1>5. AllocKnows'
  BY <1>1, <1>2, <1>3 DEF AllocKnows
<1>6. FreeKnows'
  BY <1>2, <1>3 DEF FreeKnows
<1>7. /\ ptr[t] \in Owned(t) /\ Owned(t)' = Owned(t) \ {ptr[t]}
      /\ \A u \in Thread \ {t} : Owned(u)' = Owned(u)
  BY <1>1, <1>2, <1>3, <1>4 DEF Owned
<1>8. \A u \in Thread : ptr'[u] # Null => ptr'[u] # incoming'[u]
  BY <1>2, <1>3 DEF UniqueOwner
<1> QED
  BY <1>1, <1>5, <1>6, <1>7, <1>8, OwnerGives

\* A move between two PoolPtrs.
LEMMA MoveStep ==
    ASSUME PoolInv, NEW t \in Thread, NEW other \in Thread, PoolTypeOK', MoveFrom(t, other)
    PROVE  PoolInv'
<1> USE DEF PoolInv
<1>1. FreeNodes' = FreeNodes /\ Acyclic' /\ LinksIntact'
  BY ListUnchanged DEF MoveFrom
<1>2. /\ t # other /\ pc[t] = "idle" /\ pc[other] = "idle" /\ ptr[other] # Null
      /\ pc'[t] = "assign" /\ incoming'[t] = ptr[other] /\ ptr'[other] = Null
      /\ UNCHANGED <<next, cur, succ, result>>
  BY DEF MoveFrom, PoolTypeOK
<1>3. /\ \A u \in Thread \ {t} : pc'[u] = pc[u] /\ incoming'[u] = incoming[u]
      /\ \A u \in Thread \ {other} : ptr'[u] = ptr[u]
  BY DEF MoveFrom, PoolTypeOK
<1>4. Null \notin Node /\ incoming[t] = Null /\ incoming[other] = Null /\ ptr[other] \in Node
  BY <1>2, PoolAssumption DEF Node, FreeKnows, PoolTypeOK
<1>5. AllocKnows'
  BY <1>1, <1>2, <1>3 DEF AllocKnows
<1>6. FreeKnows'
  BY <1>2, <1>3 DEF FreeKnows
<1>7. /\ ptr[other] \in Owned(other)
      /\ Owned(t)' = Owned(t) \cup {ptr[other]} /\ Owned(other)' = Owned(other) \ {ptr[other]}
      /\ \A u \in Thread \ {t, other} : Owned(u)' = Owned(u)
  BY <1>2, <1>3, <1>4 DEF Owned
<1>8. ptr[t] # ptr[other]
  BY <1>2, <1>4, <1>7 DEF UniqueOwner, Owned
<1>9. \A u \in Thread : ptr'[u] # Null => ptr'[u] # incoming'[u]
  BY <1>2, <1>3, <1>8 DEF UniqueOwner
<1> QED
  BY <1>1, <1>2, <1>5, <1>6, <1>7, <1>9, OwnersExchange

LEMMA PoolStep == OneAllocator /\ PoolInv /\ [PoolNext]_poolVars => PoolInv'
<1> SUFFICES ASSUME OneAllocator, PoolInv, [PoolNext]_poolVars
             PROVE  PoolInv'
  OBVIOUS
<1>0. PoolTypeOK'
  BY TypeStep
<1>1. ASSUME NEW t \in Thread,
             \/ AllocBegin(t) \/ AllocReadNext(t) \/ AllocRetry(t)
             \/ Drop(t) \/ Assign(t) \/ FreeBegin(t) \/ FreeRetry(t)
      PROVE  PoolInv'
  <2>1. UNCHANGED <<freeHead, next>>
    BY <1>1 DEF AllocBegin, AllocReadNext, AllocRetry, Drop, Assign, FreeBegin, FreeRetry
  <2> QED
    BY <1>0, <1>1, <2>1, QuietStep
<1>2. ASSUME NEW t \in Thread, AllocConstruct(t) \/ FreeLink(t)
      PROVE  PoolInv'
  BY <1>0, <1>2, WriteStep
<1>3. ASSUME NEW t \in Thread, AllocTake(t)
      PROVE  PoolInv'
  BY <1>0, <1>3, TakeStep
<1>4. ASSUME NEW t \in Thread, FreePush(t)
      PROVE  PoolInv'
  BY <1>0, <1>4, PushStep
<1>5. ASSUME NEW t \in Thread, NEW other \in Thread, MoveFrom(t, other)
      PROVE  PoolInv'
  BY <1>0, <1>5, MoveStep
<1>6. CASE UNCHANGED poolVars
  <2>1. PoolTypeOK' /\ FreeKnows'
    BY <1>0, <1>6 DEF poolVars, PoolInv, PoolTypeOK, FreeKnows
  <2>2. FreeNodes' = FreeNodes
    BY <1>6 DEF poolVars, FreeNodes
  <2>3. Acyclic' /\ LinksIntact' /\ AllocKnows'
    BY <1>0, <1>6, <2>2 DEF poolVars, PoolInv, Acyclic, LinksIntact, AllocKnows
  <2>4. UniqueOwner' /\ NoLeak'
    BY <1>0, <1>6, <2>2 DEF poolVars, PoolInv, UniqueOwner, NoLeak, Owned
  <2> QED
    BY <2>1, <2>3, <2>4 DEF PoolInv
<1> QED
  BY <1>1, <1>2, <1>3, <1>4, <1>5, <1>6 DEF PoolNext

--------------------------------------------------------------------------------
(* Theorems *)

\* The invariant holds in every behaviour of a pool with one allocating thread.
THEOREM PoolInvariant ==
    ASSUME OneAllocator
    PROVE  PoolSpec => []PoolInv
<1>1. PoolInv /\ [PoolNext]_poolVars => PoolInv'
  BY PoolStep
<1> QED
  BY <1>1, PoolInitially, PTL DEF PoolSpec

\* No block is ever held by two PoolPtrs, or by one while it is in the free list, for any
\* capacity and any number of threads, provided that one of them allocates.
THEOREM BlocksHaveOneOwner ==
    ASSUME OneAllocator
    PROVE  PoolSpec => []UniqueOwner
<1>1. PoolInv => UniqueOwner
  BY DEF PoolInv
<1>2. PoolSpec => []PoolInv
  BY PoolInvariant
<1> QED
  BY <1>1, <1>2, PTL

\* No retry of alloc or free, no move and no assignment loses a block.
THEOREM BlocksAreKept ==
    ASSUME OneAllocator
    PROVE  PoolSpec => []NoLeak
<1>1. PoolInv => NoLeak
  BY DEF PoolInv
<1>2. PoolSpec => []PoolInv
  BY PoolInvariant
<1> QED
  BY <1>1, <1>2, PTL

\* A step of the pool is one of FixedPool or leaves free list and results alone.
LEMMA StepIsAbstract ==
    ASSUME OneAllocator, PoolInv, [PoolNext]_poolVars
    PROVE  [Blocks!Next]_(Blocks!poolVars)
<1> USE DEF PoolInv
<1>1. ASSUME NEW t \in Thread, AllocBegin(t) \/ AllocRetry(t)
      PROVE  [Blocks!Next]_(Blocks!poolVars)
  <2>1. FreeNodes' = FreeNodes
    BY <1>1, ListUnchanged DEF AllocBegin, AllocRetry
  <2>2. CASE freeHead = Null
    <3>1. FreeNodes = {}
      BY <2>2, LinkedEmpty, PoolAssumption DEF FreeNodes, Node
    <3>2. result' = [result EXCEPT ![t] = Null]
      BY <1>1, <2>2 DEF AllocBegin, AllocRetry, Examine
    <3> QED
      BY <2>1, <3>1, <3>2 DEF Blocks!Next, Blocks!Exhausted
  <2>3. CASE freeHead # Null
    BY <1>1, <2>1, <2>3 DEF AllocBegin, AllocRetry, Examine, Blocks!poolVars
  <2> QED
    BY <2>2, <2>3
<1>2. ASSUME NEW t \in Thread, AllocTake(t)
      PROVE  Blocks!Next
  <2>1. cur[t] \in FreeNodes /\ FreeNodes' = FreeNodes \ {cur[t]}
    BY <1>2, TakeRemoves
  <2>2. result' = [result EXCEPT ![t] = cur[t]]
    BY <1>2 DEF AllocTake
  <2> QED
    BY <2>1, <2>2 DEF Blocks!Next, Blocks!Alloc
<1>3. ASSUME NEW t \in Thread, FreePush(t)
      PROVE  Blocks!Next
  <2>1. ptr[t] \in Node \ FreeNodes /\ FreeNodes' = FreeNodes \cup {ptr[t]}
    BY <1>3, PushAdds
  <2>2. result' = result
    BY <1>3 DEF FreePush
  <2> QED
    BY <2>1, <2>2 DEF Blocks!Next, Blocks!Release
<1>4. ASSUME NEW t \in Thread, AllocConstruct(t) \/ FreeLink(t)
      PROVE  UNCHANGED Blocks!poolVars
  <2> DEFINE b == IF AllocConstruct(t) THEN result[t] ELSE ptr[t]
  <2>1. b \in Node \ FreeNodes
    BY <1>4, OwnedIsNotFree DEF AllocConstruct, FreeLink
  <2>2. freeHead' = freeHead /\ \E v : next' = [next EXCEPT ![b] = v]
    BY <1>4 DEF AllocConstruct, FreeLink
  <2> HIDE DEF b
  <2>3. FreeNodes' = FreeNodes
    BY <2>1, <2>2, ListUntouched
  <2> QED
    BY <1>4, <2>3 DEF AllocConstruct, FreeLink, Blocks!poolVars
<1>5. ASSUME UNCHANGED <<freeHead, next, result>>
      PROVE  UNCHANGED Blocks!poolVars
  BY <1>5, ListUnchanged DEF Blocks!poolVars
<1>6. ASSUME NEW t \in Thread,
             \/ AllocReadNext(t) \/ Drop(t) \/ Assign(t) \/ FreeBegin(t) \/ FreeRetry(t)
             \/ \E other \in Thread : MoveFrom(t, other)
      PROVE  UNCHANGED <<freeHead, next, result>>
  BY <1>6 DEF AllocReadNext, Drop, Assign, FreeBegin, FreeRetry, MoveFrom
<1>7. CASE UNCHANGED poolVars
  BY <1>5, <1>7 DEF poolVars
<1> QED
  BY <1>1, <1>2, <1>3, <1>4, <1>5, <1>6, <1>7 DEF PoolNext

\* The pool is linearisable: the exchange of alloc takes an available block, an alloc that
\* fails has found none, and the exchange of free makes the block available again.
THEOREM PoolIsFixedPool ==
    ASSUME OneAllocator
    PROVE  PoolSpec => ImplementsFixedPool
<1>1. PoolInit => Blocks!Init
  BY AllFreeAtFirst DEF PoolInit, Blocks!Init, FreeNodes
<1>2. PoolInv /\ [PoolNext]_poolVars => [Blocks!Next]_(Blocks!poolVars)
  BY StepIsAbstract
<1>3. PoolSpec => []PoolInv
  BY PoolInvariant
<1> QED
  BY <1>1, <1>2, <1>3, PTL DEF PoolSpec, ImplementsFixedPool, Blocks!Spec

==================================================================================
