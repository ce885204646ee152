--------------------------- MODULE RingBuffer_proofs ---------------------------
(***************************************************************************)
(* For every capacity and every set of items, about the ring under both of *)
(* its disciplines.                                                        *)
(*                                                                         *)
(* SpscRing: the two threads never touch the same slot at once, and what   *)
(* size() told a thread stays true.  Inv is inductive: the two facts about *)
(* a thread inside its operation (room for the producer, an item for the   *)
(* consumer) are what makes the step of the other thread harmless.         *)
(*                                                                         *)
(* RingBuffer: it is a queue of Capacity - 1 items, also when the producer *)
(* overwrites and the callers keep their calls apart.  A ring that has     *)
(* overflowed looks empty until tail_ is bumped; its contents are read off *)
(* from the slot after tail_ then, and all lemmas about slots apply.       *)
(***************************************************************************)
EXTENDS RingBuffer, TLAPS

\* An index stays inside the buffer when it is advanced.
LEMMA SuccInSlot == \A i \in Slot : Succ(i) \in Slot
  BY CapacityAssumption DEF Slot, Succ

\* The number of stored items is between 0 and Capacity - 1.
LEMMA DistanceRange == \A i, j \in Slot : Distance(i, j) \in 0..(Capacity - 1)
  BY CapacityAssumption DEF Slot, Distance

\* The distance is zero exactly when the indices coincide.
LEMMA DistanceZero == \A i, j \in Slot : Distance(i, j) = 0 <=> i = j
  BY CapacityAssumption DEF Slot, Distance

\* Publishing an item into a ring that is not full makes it one longer.
LEMMA DistanceGrows ==
    \A i, j \in Slot :
        Distance(i, j) < Capacity - 1 => Distance(i, Succ(j)) = Distance(i, j) + 1
  BY CapacityAssumption DEF Slot, Distance, Succ

\* Releasing an item of a ring that is not empty makes it one shorter.
LEMMA DistanceShrinks ==
    \A i, j \in Slot :
        Distance(i, j) > 0 => Distance(Succ(i), j) = Distance(i, j) - 1
  BY CapacityAssumption DEF Slot, Distance, Succ

\* The full test of try_push: next_head differs from tail_ exactly when there is room.
LEMMA RoomTest ==
    \A i, j \in Slot : Succ(j) # i => Distance(i, j) < Capacity - 1
  BY CapacityAssumption DEF Slot, Distance, Succ

\* The types and the three inductive facts hold of a ring just constructed.
LEMMA InitInv == Init => Inv
<1> SUFFICES ASSUME Init PROVE Inv
  OBVIOUS
<1>1. 0 \in Slot
  BY CapacityAssumption DEF Slot
<1>2. TypeOK
  BY <1>1 DEF Init, TypeOK
<1>3. Distance(tail, head) = 0
  BY <1>1, DistanceZero DEF Init
<1>4. RoomWhilePushing /\ ItemWhilePopping
  BY DEF Init, RoomWhilePushing, ItemWhilePopping
<1>5. SizeStaysTrue
  BY <1>3, CapacityAssumption DEF Init, SizeStaysTrue
<1> QED
  BY <1>2, <1>4, <1>5 DEF Inv

\* Every step of either thread keeps the types and the three inductive facts.
LEMMA StepInv == Inv /\ [Next]_vars => Inv'
<1> SUFFICES ASSUME Inv, [Next]_vars PROVE Inv'
  OBVIOUS
<1> USE DEF producerVars, consumerVars
<1>a. TypeOK /\ RoomWhilePushing /\ ItemWhilePopping /\ SizeStaysTrue
  BY DEF Inv
<1>t. /\ head \in Slot /\ tail \in Slot
      /\ Succ(head) \in Slot /\ Succ(tail) \in Slot
      /\ proom \in Nat /\ cready \in Nat
      /\ Distance(tail, head) \in 0..(Capacity - 1)
      /\ Capacity - 1 \in Nat
  BY <1>a, SuccInSlot, DistanceRange, CapacityAssumption DEF TypeOK
<1>1. CASE PushFull
  BY <1>1, <1>a DEF PushFull, Inv, TypeOK, RoomWhilePushing, ItemWhilePopping, SizeStaysTrue
<1>2. ASSUME NEW item \in Item, PushBegin(item) PROVE Inv'
  <2>1. Distance(tail, head) < Capacity - 1
    BY <1>2, <1>t, RoomTest DEF PushBegin
  <2>2. TypeOK'
    BY <1>2, <1>a DEF PushBegin, TypeOK
  <2>3. RoomWhilePushing'
    BY <1>2, <2>1 DEF PushBegin, RoomWhilePushing
  <2>4. ItemWhilePopping' /\ SizeStaysTrue'
    BY <1>2, <1>a DEF PushBegin, ItemWhilePopping, SizeStaysTrue
  <2> QED
    BY <2>2, <2>3, <2>4 DEF Inv
<1>3. CASE PushWrite
  BY <1>3, <1>a, <1>t DEF PushWrite, Inv, TypeOK, RoomWhilePushing, ItemWhilePopping, SizeStaysTrue
<1>4. CASE PushPublish
  <2>1. Distance(tail, head) < Capacity - 1
    BY <1>4, <1>a DEF PushPublish, RoomWhilePushing
  <2>2. Distance(tail', head') = Distance(tail, head) + 1
    BY <1>4, <2>1, <1>t, DistanceGrows DEF PushPublish
  <2>3. TypeOK'
    BY <1>4, <1>a, <1>t DEF PushPublish, TypeOK
  <2>4. RoomWhilePushing' /\ ItemWhilePopping'
    BY <1>4, <1>a, <1>t, <2>2 DEF PushPublish, RoomWhilePushing, ItemWhilePopping
  <2>5. SizeStaysTrue'
    BY <1>4, <1>a, <1>t, <2>1, <2>2 DEF PushPublish, SizeStaysTrue
  <2> QED
    BY <2>3, <2>4, <2>5 DEF Inv
<1>5. CASE ProducerSize
  BY <1>5, <1>a, <1>t DEF ProducerSize, Inv, TypeOK, RoomWhilePushing, ItemWhilePopping, SizeStaysTrue
<1>6. CASE PopEmpty
  BY <1>6, <1>a DEF PopEmpty, Inv, TypeOK, RoomWhilePushing, ItemWhilePopping, SizeStaysTrue
<1>7. CASE PopBegin
  <2>1. Distance(tail, head) > 0
    BY <1>7, <1>t, DistanceZero DEF PopBegin
  <2>2. TypeOK'
    BY <1>7, <1>a DEF PopBegin, TypeOK
  <2>3. ItemWhilePopping'
    BY <1>7, <2>1 DEF PopBegin, ItemWhilePopping
  <2>4. RoomWhilePushing' /\ SizeStaysTrue'
    BY <1>7, <1>a DEF PopBegin, RoomWhilePushing, SizeStaysTrue
  <2> QED
    BY <2>2, <2>3, <2>4 DEF Inv
<1>8. CASE PopRead
  BY <1>8, <1>a, <1>t DEF PopRead, Inv, TypeOK, RoomWhilePushing, ItemWhilePopping, SizeStaysTrue
<1>9. CASE PopRelease
  <2>1. Distance(tail, head) > 0
    BY <1>9, <1>a DEF PopRelease, ItemWhilePopping
  <2>2. Distance(tail', head') = Distance(tail, head) - 1
    BY <1>9, <2>1, <1>t, DistanceShrinks DEF PopRelease
  <2>3. TypeOK'
    BY <1>9, <1>a, <1>t DEF PopRelease, TypeOK
  <2>4. RoomWhilePushing' /\ ItemWhilePopping'
    BY <1>9, <1>a, <1>t, <2>2 DEF PopRelease, RoomWhilePushing, ItemWhilePopping
  <2>5. SizeStaysTrue'
    BY <1>9, <1>a, <1>t, <2>1, <2>2 DEF PopRelease, SizeStaysTrue
  <2> QED
    BY <2>3, <2>4, <2>5 DEF Inv
<1>10. CASE ConsumerSize
  BY <1>10, <1>a, <1>t DEF ConsumerSize, Inv, TypeOK, RoomWhilePushing, ItemWhilePopping, SizeStaysTrue
<1>11. CASE UNCHANGED vars
  BY <1>11, <1>a DEF vars, Inv, TypeOK, RoomWhilePushing, ItemWhilePopping, SizeStaysTrue
<1> QED
  BY <1>1, <1>2, <1>3, <1>4, <1>5, <1>6, <1>7, <1>8, <1>9, <1>10, <1>11
     DEF Next, ProducerNext, ConsumerNext

\* The inductive invariant holds in every reachable state.
THEOREM InvHolds == Spec => []Inv
  BY InitInv, StepInv, PTL DEF Spec

\* The state of the ring and of both calls is always well typed.
THEOREM TypeCorrect == Spec => []TypeOK
<1>1. Inv => TypeOK
  BY DEF Inv
<1> QED
  BY <1>1, InvHolds, PTL

\* An item being read has a slot the producer has no room to write.
LEMMA NoRaceInInv == Inv => NoSlotRace
<1> SUFFICES ASSUME Inv, ppc = "write", cpc = "read", head = tail PROVE FALSE
  BY DEF NoSlotRace
<1>1. Distance(tail, head) > 0
  BY DEF Inv, ItemWhilePopping
<1>2. Distance(tail, head) = 0
  BY DistanceZero DEF Inv, TypeOK
<1> QED
  BY <1>1, <1>2

\* try_push and try_pop never access the same slot at the same time, so a pop never
\* reads a half-written item.
THEOREM SlotsNeverRace == Spec => []NoSlotRace
  BY NoRaceInInv, InvHolds, PTL

\* What size() reported to the producer or to the consumer is never invalidated by the
\* other thread.
THEOREM SizesStayTrue == Spec => []SizeStaysTrue
<1>1. Inv => SizeStaysTrue
  BY DEF Inv
<1> QED
  BY <1>1, InvHolds, PTL

--------------------------------------------------------------------------------
(* The ring is a queue *)

\* What the producer is pushing is an item, and once it is written it stays in its slot.
PushStands ==
    /\ ppc # "idle" => pitem \in Item
    /\ ppc = "publish" => buffer[head] = pitem

\* The slots of the stored items are slots of the buffer; none of them is the one the
\* next push writes, and only the first is the one the next pop reads.
LEMMA StoredSlots ==
    \A t, h \in Slot : \A i \in 1..Distance(t, h) :
        At(t, i) \in Slot /\ At(t, i) # h /\ (At(t, i) = t <=> i = 1)
  BY CapacityAssumption DEF Slot, Distance, At

\* The item published next comes after the last.
LEMMA NextSlot == \A t, h \in Slot : At(t, Distance(t, h) + 1) = h
  BY CapacityAssumption DEF Slot, Distance, At

\* When the first item is released, each of the others moves up by one.
LEMMA SlotsMoveUp ==
    \A t, h \in Slot : \A i \in 1..(Distance(t, h) - 1) : At(Succ(t), i) = At(t, i + 1)
  BY CapacityAssumption DEF Slot, Distance, At, Succ

\* A ring that has room for nobody holds Capacity - 1 items.
LEMMA FullRing == \A i, j \in Slot : Succ(j) = i => Distance(i, j) = Capacity - 1
  BY CapacityAssumption DEF Slot, Distance, Succ

\* A function on 1..n is a sequence of n elements.
LEMMA FunctionIsSequence ==
    ASSUME NEW S, NEW n \in Nat, NEW f \in [1..n -> S]
    PROVE  f \in Seq(S) /\ Len(f) = n
  OBVIOUS

\* In a typed state the contents are a sequence of as many items as the indices are apart.
LEMMA ContentsSequence ==
    ASSUME TypeOK
    PROVE  /\ Contents \in Seq(Item \cup {Vacant})
           /\ Len(Contents) = Distance(tail, head)
           /\ \A i \in 1..Distance(tail, head) :
                 Contents[i] = IF i = 1 /\ cpc = "release" THEN citem ELSE buffer[At(tail, i)]
<1> DEFINE n == Distance(tail, head)
<1>1. n \in Nat
  BY DistanceRange, CapacityAssumption DEF TypeOK
<1>2. ASSUME NEW i \in 1..n
      PROVE  Stored(i) \in Item \cup {Vacant}
  <2>1. At(tail, i) \in Slot
    BY StoredSlots DEF TypeOK
  <2>2. buffer[At(tail, i)] \in Item \cup {Vacant} /\ citem \in Item \cup {Vacant}
    BY <2>1 DEF TypeOK
  <2> QED
    BY <2>2 DEF Stored
<1>3. Contents = [i \in 1..n |-> Stored(i)]
  BY DEF Contents
<1> HIDE DEF n
<1>4. Contents \in [1..n -> Item \cup {Vacant}]
  BY <1>2, <1>3
<1>5. Contents \in Seq(Item \cup {Vacant}) /\ Len(Contents) = n
  BY <1>1, <1>4, FunctionIsSequence
<1>6. \A i \in 1..n : Contents[i] = Stored(i)
  BY <1>3
<1> QED
  BY <1>5, <1>6 DEF n, Stored

\* The same of the state after a step.
LEMMA ContentsSequenceNext ==
    ASSUME TypeOK'
    PROVE  /\ Contents' \in Seq(Item \cup {Vacant})
           /\ Len(Contents') = Distance(tail', head')
           /\ \A i \in 1..Distance(tail', head') :
                 Contents'[i] = IF i = 1 /\ cpc' = "release" THEN citem' ELSE buffer'[At(tail', i)]
<1> DEFINE n == Distance(tail', head')
           stored(i) == IF i = 1 /\ cpc' = "release" THEN citem' ELSE buffer'[At(tail', i)]
<1>1. n \in Nat
  BY DistanceRange, CapacityAssumption DEF TypeOK
<1>2. ASSUME NEW i \in 1..n
      PROVE  stored(i) \in Item \cup {Vacant}
  <2>1. At(tail', i) \in Slot
    BY StoredSlots DEF TypeOK
  <2>2. buffer'[At(tail', i)] \in Item \cup {Vacant} /\ citem' \in Item \cup {Vacant}
    BY <2>1 DEF TypeOK
  <2> QED
    BY <2>2
<1>3. Contents' = [i \in 1..n |-> stored(i)]
  BY DEF Contents, Stored
<1> HIDE DEF n, stored
<1>4. Contents' \in [1..n -> Item \cup {Vacant}]
  BY <1>2, <1>3
<1>5. Contents' \in Seq(Item \cup {Vacant}) /\ Len(Contents') = n
  BY <1>1, <1>4, FunctionIsSequence
<1>6. \A i \in 1..n : Contents'[i] = stored(i)
  BY <1>3
<1> QED
  BY <1>5, <1>6 DEF n, stored

\* A sequence is determined by its length and its elements.
LEMMA SameSequence ==
    ASSUME NEW S, NEW p \in Seq(S), NEW q \in Seq(S), Len(p) = Len(q),
           \A i \in 1..Len(p) : p[i] = q[i]
    PROVE  p = q
  OBVIOUS

\* The producer's item stays what it is and where it is.
LEMMA PushStandsInv ==
    /\ Init => PushStands
    /\ Inv /\ PushStands /\ [Next]_vars => PushStands'
<1>1. Init => PushStands
  BY DEF Init, PushStands
<1>2. ASSUME Inv, PushStands, [Next]_vars
      PROVE  PushStands'
  <2> USE DEF producerVars, consumerVars
  <2>0. head \in Slot /\ tail \in Slot /\ buffer \in [Slot -> Item \cup {Vacant}]
    BY <1>2 DEF Inv, TypeOK
  <2>1. CASE PushFull \/ ProducerSize \/ PopEmpty \/ PopBegin \/ ConsumerSize \/ UNCHANGED vars
    BY <1>2, <2>1 DEF PushStands, PushFull, ProducerSize, PopEmpty, PopBegin, ConsumerSize, vars
  <2>2. CASE \E item \in Item : PushBegin(item)
    BY <1>2, <2>2 DEF PushStands, PushBegin
  <2>3. CASE PushWrite
    BY <1>2, <2>0, <2>3 DEF PushStands, PushWrite
  <2>4. CASE PushPublish
    BY <1>2, <2>4 DEF PushStands, PushPublish
  <2>5. CASE PopRead
    <3>1. head # tail
      BY <1>2, <2>0, <2>5, DistanceZero DEF PopRead, Inv, ItemWhilePopping
    <3> QED
      BY <1>2, <2>0, <2>5, <3>1 DEF PushStands, PopRead
  <2>6. CASE PopRelease
    BY <1>2, <2>6 DEF PushStands, PopRelease
  <2> QED
    BY <1>2, <2>1, <2>2, <2>3, <2>4, <2>5, <2>6 DEF Next, ProducerNext, ConsumerNext
<1> QED
  BY <1>1, <1>2

\* Each step of the two threads is a step of the queue, or none of its business.
LEMMA QueueStep ==
    ASSUME Inv, PushStands, [Next]_vars, TypeOK'
    PROVE  [Fifo!Next]_Fifo!fifoVars
<1> USE DEF producerVars, consumerVars
<1> DEFINE n == Distance(tail, head)
<1>0. /\ head \in Slot /\ tail \in Slot /\ n \in 0..(Capacity - 1) /\ Capacity - 1 \in Nat
      /\ buffer \in [Slot -> Item \cup {Vacant}]
  BY DistanceRange, CapacityAssumption DEF Inv, TypeOK
<1>1. /\ Contents \in Seq(Item \cup {Vacant}) /\ Len(Contents) = n
      /\ \A i \in 1..n :
            Contents[i] = IF i = 1 /\ cpc = "release" THEN citem ELSE buffer[At(tail, i)]
  BY ContentsSequence DEF Inv
<1>2. /\ Contents' \in Seq(Item \cup {Vacant}) /\ Len(Contents') = Distance(tail', head')
      /\ \A i \in 1..Distance(tail', head') :
            Contents'[i] = IF i = 1 /\ cpc' = "release" THEN citem' ELSE buffer'[At(tail', i)]
  BY ContentsSequenceNext
<1>3. \A i \in 1..n : At(tail, i) \in Slot /\ At(tail, i) # head /\ (At(tail, i) = tail <=> i = 1)
  BY <1>0, StoredSlots
<1> HIDE DEF n
<1>4. ASSUME UNCHANGED <<head, tail>>,
             \A i \in 1..n : Contents'[i] = Contents[i]
      PROVE  Contents' = Contents
  <2>1. Len(Contents') = n
    BY <1>2, <1>4 DEF n
  <2> QED
    BY <1>1, <1>2, <1>4, <2>1, SameSequence
<1>5. CASE PushFull
  <2>1. Contents' = Contents
    BY <1>1, <1>2, <1>4, <1>5 DEF PushFull, n
  <2>2. Len(Contents) = Capacity - 1
    BY <1>0, <1>1, <1>5, FullRing DEF PushFull, n
  <2> QED
    BY <1>5, <2>1, <2>2 DEF PushFull, Fifo!Next, Fifo!PushFull
<1>6. CASE PopEmpty
  <2>1. Contents' = Contents
    BY <1>1, <1>2, <1>4, <1>6 DEF PopEmpty, n
  <2>2. Contents = <<>>
    <3>1. n = 0
      BY <1>0, <1>6, DistanceZero DEF PopEmpty, n
    <3> QED
      BY <1>1, <3>1
  <2> QED
    BY <1>6, <2>1, <2>2 DEF PopEmpty, Fifo!Next, Fifo!PopEmpty
<1>7. CASE \/ ProducerSize \/ PopBegin \/ ConsumerSize \/ UNCHANGED vars
           \/ \E item \in Item : PushBegin(item)
  <2>1. /\ UNCHANGED <<buffer, head, tail, citem, pushed, popped>>
        /\ cpc' = "release" <=> cpc = "release"
    BY <1>7 DEF ProducerSize, PopBegin, ConsumerSize, PushBegin, vars
  <2>2. Contents' = Contents
    BY <1>1, <1>2, <1>4, <2>1 DEF n
  <2> QED
    BY <2>1, <2>2 DEF Fifo!fifoVars
<1>8. CASE PushWrite
  <2>1. buffer' = [buffer EXCEPT ![head] = pitem] /\ UNCHANGED <<head, tail, cpc, citem, pushed, popped>>
    BY <1>8 DEF PushWrite
  <2>2. \A i \in 1..n : buffer'[At(tail, i)] = buffer[At(tail, i)]
    BY <1>0, <1>3, <2>1
  <2>3. Contents' = Contents
    BY <1>1, <1>2, <1>4, <2>1, <2>2 DEF n
  <2> QED
    BY <2>1, <2>3 DEF Fifo!fifoVars
<1>9. CASE PopRead
  <2>1. /\ buffer' = [buffer EXCEPT ![tail] = Vacant] /\ citem' = buffer[tail]
        /\ cpc = "read" /\ cpc' = "release"
        /\ UNCHANGED <<head, tail, pushed, popped>>
    BY <1>9 DEF PopRead
  <2>2. \A i \in 1..n : i # 1 => buffer'[At(tail, i)] = buffer[At(tail, i)]
    BY <1>0, <1>3, <2>1
  <2>3. \A i \in 1..n : i = 1 => citem' = buffer[At(tail, i)]
    BY <1>3, <2>1
  <2>4. Contents' = Contents
    BY <1>1, <1>2, <1>4, <2>1, <2>2, <2>3 DEF n
  <2> QED
    BY <2>1, <2>4 DEF Fifo!fifoVars
<1>10. CASE PushPublish
  <2>1. /\ ppc = "publish" /\ head' = Succ(head) /\ pushed' = TRUE
        /\ UNCHANGED <<buffer, tail, cpc, citem, popped>>
    BY <1>10 DEF PushPublish
  <2>2. n < Capacity - 1 /\ Distance(tail', head') = n + 1
    BY <1>0, <2>1, DistanceGrows DEF Inv, RoomWhilePushing, n
  <2>3. pitem \in Item /\ buffer[At(tail, n + 1)] = pitem
    BY <1>0, <2>1, NextSlot DEF PushStands, n
  <2>4. n + 1 = 1 => cpc # "release"
    BY <1>0 DEF Inv, ItemWhilePopping, n
  <2>5. Contents' = Append(Contents, pitem)
    <3>1. Append(Contents, pitem) \in Seq(Item \cup {Vacant}) /\ Len(Append(Contents, pitem)) = n + 1
      BY <1>1, <2>3
    <3>2. \A i \in 1..(n + 1) : Contents'[i] = Append(Contents, pitem)[i]
      <4> TAKE i \in 1..(n + 1)
      <4>0. Contents'[i] = IF i = 1 /\ cpc = "release" THEN citem ELSE buffer[At(tail, i)]
        BY <1>2, <2>1, <2>2
      <4>1. CASE i \in 1..n
        <5>1. Append(Contents, pitem)[i] = Contents[i]
          BY <1>1, <2>3, <4>1
        <5> QED
          BY <1>1, <4>0, <4>1, <5>1
      <4>2. CASE i = n + 1
        <5>1. Append(Contents, pitem)[i] = pitem
          BY <1>1, <2>3, <4>2
        <5> QED
          BY <2>3, <2>4, <4>0, <4>2, <5>1
      <4>3. i \in 1..n \/ i = n + 1
        BY <1>0
      <4> QED
        BY <4>1, <4>2, <4>3
    <3> QED
      BY <1>2, <2>2, <3>1, <3>2, SameSequence
  <2>6. Fifo!Push(pitem)
    BY <1>1, <2>1, <2>2, <2>5 DEF Fifo!Push
  <2> QED
    BY <2>3, <2>6 DEF Fifo!Next
<1>11. CASE PopRelease
  <2>1. /\ cpc = "release" /\ cpc' = "idle" /\ tail' = Succ(tail) /\ popped' = citem
        /\ UNCHANGED <<buffer, head, pushed>>
    BY <1>11 DEF PopRelease
  <2>2. n > 0 /\ Distance(tail', head') = n - 1
    BY <1>0, <2>1, DistanceShrinks DEF Inv, ItemWhilePopping, n
  <2>3. Contents # <<>> /\ Head(Contents) = citem
    BY <1>0, <1>1, <2>1, <2>2
  <2>4. Contents' = Tail(Contents)
    <3>1. /\ Tail(Contents) \in Seq(Item \cup {Vacant}) /\ Len(Tail(Contents)) = n - 1
          /\ \A i \in 1..(n - 1) : Tail(Contents)[i] = Contents[i + 1]
      BY <1>0, <1>1, <2>2, <2>3
    <3>2. \A i \in 1..(n - 1) : Contents'[i] = buffer[At(tail, i + 1)]
      BY <1>0, <1>2, <2>1, <2>2, SlotsMoveUp DEF n
    <3>3. \A i \in 1..(n - 1) : i + 1 \in 1..n /\ Contents[i + 1] = buffer[At(tail, i + 1)]
      BY <1>0, <1>1
    <3> QED
      BY <1>2, <2>2, <3>1, <3>2, <3>3, SameSequence
  <2> QED
    BY <2>1, <2>3, <2>4 DEF Fifo!Next, Fifo!Pop
<1> QED
  BY <1>5, <1>6, <1>7, <1>8, <1>9, <1>10, <1>11 DEF Next, ProducerNext, ConsumerNext

\* The ring is a linearisable bounded queue of Capacity - 1 items, for every capacity:
\* the abstract push takes effect at the store of head_, the abstract pop at the store of
\* tail_.
THEOREM RingIsFifo == Spec => ImplementsFifo
<1>1. Init => Fifo!Init
  <2> SUFFICES ASSUME Init
               PROVE  Fifo!Init
    OBVIOUS
  <2>1. TypeOK /\ Distance(tail, head) = 0
    BY InitInv, DistanceZero DEF Inv, TypeOK, Init
  <2>2. Contents = <<>>
    <3>1. \A i \in 1..0 : FALSE
      OBVIOUS
    <3> QED
      BY <2>1, <3>1 DEF Contents
  <2> QED
    BY <2>2 DEF Init, Fifo!Init
<1>2. Inv /\ Inv' /\ PushStands /\ [Next]_vars => [Fifo!Next]_Fifo!fifoVars
  BY QueueStep DEF Inv
<1> QED
  BY <1>1, <1>2, InvHolds, PushStandsInv, PTL DEF Spec, ImplementsFifo, Fifo!Spec

--------------------------------------------------------------------------------
(* The ring whose producer may overwrite *)

\* What holds while the callers keep the calls of the two threads apart.
OverwriteInv ==
    /\ OverwriteTypeOK
    /\ proom = 0 /\ cready = 0
    /\ ppc = "idle" \/ cpc = "idle"
    /\ ppc # "idle" => pitem \in Item
    /\ ppc \in {"write", "publish"} => Succ(head) # tail
    /\ ppc \in {"publish", "advance"} => buffer[head] = pitem
    /\ ppc = "bump" => ptail = tail /\ head = tail
    /\ cpc # "idle" => ctail = tail
    /\ cpc \in {"read", "release"} => tail # head

LEMMA OverwriteInitInv == OverwriteInit => OverwriteInv
<1> SUFFICES ASSUME OverwriteInit
             PROVE  OverwriteInv
  OBVIOUS
<1>1. 0 \in Slot
  BY CapacityAssumption DEF Slot
<1> QED
  BY <1>1 DEF OverwriteInit, Init, OverwriteInv, OverwriteTypeOK

LEMMA OverwriteStepInv ==
    ASSUME Exclusive, OverwriteInv, [OverwriteNext]_overwriteVars
    PROVE  OverwriteInv'
<1> USE DEF producerVars, consumerVars
<1>0. /\ buffer \in [Slot -> Item \cup {Vacant}]
      /\ head \in Slot /\ tail \in Slot /\ ptail \in Slot /\ ctail \in Slot
      /\ Succ(head) \in Slot /\ Succ(ptail) \in Slot /\ Succ(ctail) \in Slot
      /\ Succ(tail) \in Slot
  BY SuccInSlot DEF OverwriteInv, OverwriteTypeOK
<1> USE DEF OverwriteInv, OverwriteTypeOK
<1>1. CASE MayStartPush /\ PushFull /\ UNCHANGED <<ptail, ctail>>
  BY <1>1 DEF PushFull
<1>2. ASSUME NEW item \in Item, MayStartPush, PushBegin(item), UNCHANGED <<ptail, ctail>>
      PROVE  OverwriteInv'
  BY <1>2 DEF PushBegin, MayStartPush
<1>3. CASE PushWrite /\ UNCHANGED <<ptail, ctail>>
  BY <1>0, <1>3 DEF PushWrite
<1>4. CASE PushPublish /\ UNCHANGED <<ptail, ctail>>
  BY <1>0, <1>4 DEF PushPublish
<1>5. ASSUME NEW item \in Item, OverwriteBegin(item)
      PROVE  OverwriteInv'
  BY <1>5 DEF OverwriteBegin, MayStartPush
<1>6. CASE OverwriteWrite
  BY <1>0, <1>6 DEF OverwriteWrite
<1>7. CASE OverwriteAdvance
  BY <1>0, <1>7 DEF OverwriteAdvance
<1>8. CASE OverwriteCheck
  BY <1>0, <1>8 DEF OverwriteCheck
<1>9. CASE OverwriteBump
  BY <1>0, <1>9 DEF OverwriteBump
<1>10. CASE PopLoadTail
  BY <1>0, <1>10 DEF PopLoadTail, MayStartPop
<1>11. CASE PopNothing \/ PopSomething
  BY <1>0, <1>11 DEF PopNothing, PopSomething
<1>12. CASE PopMove
  BY <1>0, <1>12 DEF PopMove
<1>13. CASE PopStoreTail
  BY <1>0, <1>13 DEF PopStoreTail
<1>14. CASE UNCHANGED overwriteVars
  BY <1>14 DEF overwriteVars, vars
<1> HIDE DEF OverwriteInv, OverwriteTypeOK
<1> QED
  BY <1>1, <1>2, <1>3, <1>4, <1>5, <1>6, <1>7, <1>8, <1>9, <1>10, <1>11, <1>12, <1>13, <1>14
     DEF OverwriteNext, TryPush, PushOverwrite, TryPop

\* What a ring holds whose oldest item is in slot t and whose next one goes to slot h,
\* and the same when the oldest one has been moved out and is x.
Listed(t, h, b) == [i \in 1..Distance(t, h) |-> b[At(t, i)]]
Opened(t, h, x, b) == [i \in 1..Distance(t, h) |-> IF i = 1 THEN x ELSE b[At(t, i)]]

RingOf(S, t, h, b) == t \in Slot /\ h \in Slot /\ b \in [Slot -> S]

LEMMA ListedSequence ==
    ASSUME NEW S, NEW t, NEW h, NEW b, RingOf(S, t, h, b)
    PROVE  /\ Listed(t, h, b) \in Seq(S)
           /\ Len(Listed(t, h, b)) = Distance(t, h)
           /\ \A i \in 1..Distance(t, h) : Listed(t, h, b)[i] = b[At(t, i)]
<1> DEFINE n == Distance(t, h)
<1>1. t \in Slot /\ h \in Slot /\ b \in [Slot -> S]
  BY DEF RingOf
<1>2. n \in Nat
  BY <1>1, DistanceRange, CapacityAssumption
<1>3. \A i \in 1..n : b[At(t, i)] \in S
  BY <1>1, StoredSlots
<1>4. Listed(t, h, b) = [i \in 1..n |-> b[At(t, i)]]
  BY DEF Listed
<1> HIDE DEF n
<1>5. Listed(t, h, b) \in [1..n -> S] /\ \A i \in 1..n : Listed(t, h, b)[i] = b[At(t, i)]
  BY <1>3, <1>4
<1>6. Listed(t, h, b) \in Seq(S) /\ Len(Listed(t, h, b)) = n
  BY <1>2, <1>5, FunctionIsSequence
<1> QED
  BY <1>5, <1>6 DEF n

LEMMA OpenedSequence ==
    ASSUME NEW S, NEW t, NEW h, NEW x \in S, NEW b, RingOf(S, t, h, b)
    PROVE  /\ Opened(t, h, x, b) \in Seq(S)
           /\ Len(Opened(t, h, x, b)) = Distance(t, h)
           /\ \A i \in 1..Distance(t, h) :
                 Opened(t, h, x, b)[i] = IF i = 1 THEN x ELSE b[At(t, i)]
<1> DEFINE n == Distance(t, h)
           item(i) == IF i = 1 THEN x ELSE b[At(t, i)]
<1>1. t \in Slot /\ h \in Slot /\ b \in [Slot -> S]
  BY DEF RingOf
<1>2. n \in Nat
  BY <1>1, DistanceRange, CapacityAssumption
<1>3. \A i \in 1..n : item(i) \in S
  BY <1>1, StoredSlots
<1>4. Opened(t, h, x, b) = [i \in 1..n |-> item(i)]
  BY DEF Opened
<1> HIDE DEF n, item
<1>5. Opened(t, h, x, b) \in [1..n -> S] /\ \A i \in 1..n : Opened(t, h, x, b)[i] = item(i)
  BY <1>3, <1>4
<1>6. Opened(t, h, x, b) \in Seq(S) /\ Len(Opened(t, h, x, b)) = n
  BY <1>2, <1>5, FunctionIsSequence
<1> QED
  BY <1>5, <1>6 DEF n, item

\* An item more, where there is room.
LEMMA ListedGrows ==
    ASSUME NEW S, NEW t, NEW h, NEW b, RingOf(S, t, h, b), Succ(h) # t
    PROVE  Listed(t, Succ(h), b) = Append(Listed(t, h, b), b[h])
<1> DEFINE n == Distance(t, h)
           old == Listed(t, h, b)
           new == Listed(t, Succ(h), b)
<1>0. t \in Slot /\ h \in Slot /\ b[h] \in S
  BY DEF RingOf
<1>1. Succ(h) \in Slot /\ n \in Nat /\ Distance(t, Succ(h)) = n + 1 /\ At(t, n + 1) = h
  BY <1>0, SuccInSlot, DistanceRange, RoomTest, DistanceGrows, NextSlot, CapacityAssumption
<1>2. old \in Seq(S) /\ Len(old) = n /\ \A i \in 1..n : old[i] = b[At(t, i)]
  BY ListedSequence
<1>3. /\ new \in Seq(S) /\ Len(new) = Distance(t, Succ(h))
      /\ \A i \in 1..Distance(t, Succ(h)) : new[i] = b[At(t, i)]
  <2>1. RingOf(S, t, Succ(h), b)
    BY <1>0, SuccInSlot DEF RingOf
  <2> QED
    BY <2>1, ListedSequence
<1> HIDE DEF n, old, new
<1>4. /\ Append(old, b[h]) \in Seq(S) /\ Len(Append(old, b[h])) = n + 1
      /\ Append(old, b[h])[n + 1] = b[h]
      /\ \A i \in 1..n : Append(old, b[h])[i] = old[i]
  BY <1>0, <1>2
<1>5. \A i \in 1..(n + 1) : i \in 1..n \/ i = n + 1
  BY <1>1
<1>6. \A i \in 1..(n + 1) : new[i] = Append(old, b[h])[i]
  BY <1>1, <1>2, <1>3, <1>4, <1>5
<1> QED
  BY <1>1, <1>3, <1>4, <1>6, SameSequence DEF old, new

\* Advancing an index moves every slot counted from it.
LEMMA SlotsShift ==
    \A t \in Slot : \A i \in 1..(Capacity - 1) : At(Succ(t), i) = At(t, i + 1)
  BY CapacityAssumption DEF Slot, At, Succ

\* A ring with as many items as fit.
Brimful(t, h) == Distance(t, h) = Capacity - 1

\* An item more than fits: the oldest has gone.
LEMMA ListedOverflows ==
    ASSUME NEW S, NEW t, NEW h, NEW g, NEW b,
           RingOf(S, t, h, b), g \in Slot, Brimful(t, h), Brimful(Succ(t), g)
    PROVE  Listed(Succ(t), g, b) = Tail(Append(Listed(t, h, b), b[h]))
<1> DEFINE n == Capacity - 1
           old == Listed(t, h, b)
           new == Listed(Succ(t), g, b)
<1>1. t \in Slot /\ h \in Slot /\ Succ(t) \in Slot /\ b[h] \in S
  BY SuccInSlot DEF RingOf
<1>2. /\ old \in Seq(S) /\ Len(old) = Distance(t, h)
      /\ \A i \in 1..Distance(t, h) : old[i] = b[At(t, i)]
  BY ListedSequence
<1>3. /\ new \in Seq(S) /\ Len(new) = Distance(Succ(t), g)
      /\ \A i \in 1..Distance(Succ(t), g) : new[i] = b[At(Succ(t), i)]
  <2>1. RingOf(S, Succ(t), g, b)
    BY <1>1 DEF RingOf
  <2> QED
    BY <2>1, ListedSequence
<1>4. /\ n \in Nat /\ At(t, n + 1) = h
      /\ \A i \in 1..n : At(Succ(t), i) = At(t, i + 1)
      /\ Distance(t, h) = n /\ Distance(Succ(t), g) = n
  BY <1>1, NextSlot, SlotsShift, CapacityAssumption DEF Brimful
<1> HIDE DEF n, old, new
<1> DEFINE more == Append(old, b[h])
<1>5. /\ more \in Seq(S) /\ Len(more) = n + 1
      /\ more[n + 1] = b[h]
      /\ \A i \in 1..n : more[i] = old[i]
  BY <1>1, <1>2, <1>4
<1>6. \A i \in 1..n : i + 1 \in 1..n \/ i + 1 = n + 1
  BY <1>4
<1>7. \A i \in 1..n : more[i + 1] = b[At(t, i + 1)]
  BY <1>2, <1>4, <1>5, <1>6
<1> HIDE DEF more
<1>8. Tail(more) \in Seq(S) /\ Len(Tail(more)) = n /\ \A i \in 1..n : Tail(more)[i] = more[i + 1]
  BY <1>4, <1>5
<1>9. \A i \in 1..n : new[i] = Tail(more)[i]
  BY <1>3, <1>4, <1>7, <1>8
<1>10. new = Tail(more)
  BY <1>3, <1>4, <1>8, <1>9, SameSequence
<1> QED
  BY <1>10 DEF new, old, more

\* The oldest item taken.
LEMMA OpenedShrinks ==
    ASSUME NEW S, NEW t, NEW h, NEW x \in S, NEW b, RingOf(S, t, h, b), t # h
    PROVE  /\ Opened(t, h, x, b) # <<>>
           /\ Head(Opened(t, h, x, b)) = x
           /\ Listed(Succ(t), h, b) = Tail(Opened(t, h, x, b))
<1> DEFINE n == Distance(t, h)
           old == Opened(t, h, x, b)
           new == Listed(Succ(t), h, b)
<1>0. t \in Slot /\ h \in Slot
  BY DEF RingOf
<1>1. Succ(t) \in Slot /\ n \in Nat \ {0} /\ Distance(Succ(t), h) = n - 1
  BY <1>0, SuccInSlot, DistanceRange, DistanceZero, DistanceShrinks, CapacityAssumption
<1>2. /\ old \in Seq(S) /\ Len(old) = n
      /\ \A i \in 1..n : old[i] = IF i = 1 THEN x ELSE b[At(t, i)]
  BY OpenedSequence
<1>3. /\ new \in Seq(S) /\ Len(new) = Distance(Succ(t), h)
      /\ \A i \in 1..Distance(Succ(t), h) : new[i] = b[At(Succ(t), i)]
  <2>1. RingOf(S, Succ(t), h, b)
    BY SuccInSlot DEF RingOf
  <2> QED
    BY <2>1, ListedSequence
<1>4. \A i \in 1..(n - 1) : At(Succ(t), i) = At(t, i + 1)
  BY <1>0, SlotsMoveUp
<1> HIDE DEF n, old, new
<1>5. old # <<>> /\ Head(old) = x
  BY <1>1, <1>2
<1>6. /\ Tail(old) \in Seq(S) /\ Len(Tail(old)) = n - 1
      /\ \A i \in 1..(n - 1) : Tail(old)[i] = old[i + 1]
  BY <1>1, <1>2, <1>5
<1>7. \A i \in 1..(n - 1) : i + 1 \in 1..n /\ i + 1 # 1
  BY <1>1
<1>8. \A i \in 1..(n - 1) : new[i] = Tail(old)[i]
  BY <1>1, <1>2, <1>3, <1>4, <1>6, <1>7
<1>9. new = Tail(old)
  BY <1>1, <1>3, <1>6, <1>8, SameSequence
<1> QED
  BY <1>5, <1>9 DEF old, new


--------------------------------------------------------------------------------
(* Either discipline implements the queue *)

\* The contents are read off from the oldest slot on.
LEMMA LossyListed ==
    /\ cpc # "release" => LossyContents = Listed(Oldest, head, buffer)
    /\ cpc = "release" => LossyContents = Opened(Oldest, head, citem, buffer)
    /\ cpc' # "release" => LossyContents' = Listed(Oldest', head', buffer')
    /\ cpc' = "release" => LossyContents' = Opened(Oldest', head', citem', buffer')
  BY DEF LossyContents, Listed, Opened

\* Each step of an overwriting ring is a step of the queue that may drop its oldest item,
\* or none of its business.
LEMMA LossyStep ==
    ASSUME Exclusive, OverwriteInv, OverwriteInv', [OverwriteNext]_overwriteVars
    PROVE  [Lossy!LossyNext]_Lossy!fifoVars
<1> DEFINE S == Item \cup {Vacant}
<1>0. /\ buffer \in [Slot -> S] /\ buffer' \in [Slot -> S]
      /\ head \in Slot /\ tail \in Slot /\ head' \in Slot /\ tail' \in Slot
      /\ Succ(head) \in Slot /\ Succ(tail) \in Slot
      /\ citem \in S /\ citem' \in S
  BY SuccInSlot DEF OverwriteInv, OverwriteTypeOK
<1> HIDE DEF S
<1>1. RingOf(S, tail, head, buffer)
  BY <1>0 DEF RingOf
<1>2. CASE MayStartPush /\ PushFull /\ UNCHANGED <<ptail, ctail>>
  <2>1. /\ Succ(head) = tail /\ pushed' = FALSE /\ ppc = "idle" /\ cpc = "idle" /\ ppc' = ppc
        /\ UNCHANGED <<buffer, head, tail, cpc, citem, popped>>
    BY <1>2 DEF PushFull, MayStartPush, consumerVars
  <2>2. Oldest = tail /\ Oldest' = tail
    BY <2>1 DEF Oldest, Overflowed
  <2>3. LossyContents' = LossyContents
    BY <2>1, <2>2, LossyListed
  <2>4. Len(LossyContents) = Capacity - 1
    <3>1. Len(Listed(tail, head, buffer)) = Distance(tail, head)
      BY <1>1, ListedSequence
    <3>2. Distance(tail, head) = Capacity - 1
      BY <1>0, <2>1, FullRing
    <3> QED
      BY <2>1, <2>2, <3>1, <3>2, LossyListed
  <2> QED
    BY <2>1, <2>3, <2>4 DEF Lossy!LossyNext, Lossy!Next, Lossy!PushFull
<1>3. CASE \/ MayStartPush /\ (\E item \in Item : PushBegin(item)) /\ UNCHANGED <<ptail, ctail>>
           \/ \E item \in Item : OverwriteBegin(item)
           \/ PopLoadTail \/ PopSomething
           \/ UNCHANGED overwriteVars
  <2>1. /\ UNCHANGED <<buffer, head, tail, citem, pushed, popped>>
        /\ cpc' = "release" <=> cpc = "release"
        /\ ppc' \in {"check", "bump"} <=> ppc \in {"check", "bump"}
    BY <1>3 DEF PushBegin, OverwriteBegin, PopLoadTail, PopSomething, overwriteVars, vars,
                producerVars, consumerVars
  <2>2. LossyContents' = LossyContents
    <3>1. Oldest' = Oldest
      BY <2>1 DEF Oldest, Overflowed
    <3> QED
      BY <2>1, <3>1 DEF LossyContents
  <2> QED
    BY <2>1, <2>2 DEF Lossy!fifoVars
<1>4. CASE PushWrite \/ OverwriteWrite
  <2>1. /\ buffer' = [buffer EXCEPT ![head] = pitem]
        /\ UNCHANGED <<head, tail, cpc, citem, pushed, popped>>
        /\ ppc \in {"write", "overwrite"} /\ ppc' \in {"publish", "advance"}
        /\ cpc = "idle"
    BY <1>4 DEF PushWrite, OverwriteWrite, consumerVars, OverwriteInv
  <2>2. Oldest = tail /\ Oldest' = tail
    BY <2>1 DEF Oldest, Overflowed
  <2>3. \A i \in 1..Distance(tail, head) : buffer'[At(tail, i)] = buffer[At(tail, i)]
    BY <1>0, <2>1, StoredSlots
  <2>4. Listed(tail, head, buffer') = Listed(tail, head, buffer)
    BY <2>3 DEF Listed
  <2>5. LossyContents' = LossyContents
    BY <2>1, <2>2, <2>4, LossyListed
  <2> QED
    BY <2>1, <2>5 DEF Lossy!fifoVars
<1>5. CASE PushPublish \/ OverwriteAdvance
  <2>1. /\ head' = Succ(head) /\ pushed' = TRUE
        /\ UNCHANGED <<buffer, tail, cpc, citem, popped>>
        /\ ppc \in {"publish", "advance"}
        /\ ppc = "publish" => ppc' = "idle"
        /\ ppc = "advance" => ppc' = "check"
    BY <1>5 DEF PushPublish, OverwriteAdvance, consumerVars
  <2>2. /\ Oldest = tail /\ cpc = "idle" /\ pitem \in Item /\ buffer[head] = pitem
        /\ ppc = "publish" => Succ(head) # tail
    BY <2>1 DEF Oldest, Overflowed, OverwriteInv
  <2>3. LossyContents = Listed(tail, head, buffer)
    BY <2>2, LossyListed
  <2>4. Len(LossyContents) = Distance(tail, head)
    <3>1. Len(Listed(tail, head, buffer)) = Distance(tail, head)
      BY <1>1, ListedSequence
    <3> QED
      BY <2>3, <3>1
  <2>5. CASE Succ(head) # tail
    <3>1. Oldest' = tail
      BY <2>1, <2>5 DEF Oldest, Overflowed
    <3>2. LossyContents' = Listed(tail, Succ(head), buffer)
      BY <2>1, <2>2, <3>1, LossyListed
    <3>3. Listed(tail, Succ(head), buffer) = Append(Listed(tail, head, buffer), buffer[head])
      BY <1>1, <2>5, ListedGrows
    <3>4. LossyContents' = Append(LossyContents, pitem)
      BY <2>2, <2>3, <3>2, <3>3
    <3>5. Len(LossyContents) < Capacity - 1
      <4>1. Distance(tail, head) < Capacity - 1
        BY <1>0, <2>5, RoomTest
      <4> QED
        BY <2>4, <4>1
    <3> QED
      BY <2>1, <2>2, <3>4, <3>5 DEF Lossy!LossyNext, Lossy!PushDropOldest
  <2>6. CASE Succ(head) = tail
    <3>1. ppc' = "check" /\ Oldest' = Succ(tail) /\ head' = tail
      BY <2>1, <2>2, <2>6 DEF Oldest, Overflowed
    <3>2. Brimful(tail, head) /\ Brimful(Succ(tail), tail)
      BY <1>0, <2>6, FullRing DEF Brimful
    <3>3. LossyContents' = Listed(Succ(tail), tail, buffer)
      BY <2>1, <2>2, <3>1, LossyListed
    <3>4. Listed(Succ(tail), tail, buffer) = Tail(Append(Listed(tail, head, buffer), buffer[head]))
      BY <1>0, <1>1, <3>2, ListedOverflows
    <3>5. LossyContents' = Tail(Append(LossyContents, pitem))
      BY <2>2, <2>3, <3>3, <3>4
    <3>6. ~(Len(LossyContents) < Capacity - 1)
      BY <2>4, <3>2, CapacityAssumption DEF Brimful
    <3> QED
      BY <2>1, <2>2, <3>5, <3>6 DEF Lossy!LossyNext, Lossy!PushDropOldest
  <2> QED
    BY <2>5, <2>6
<1>6. CASE OverwriteCheck
  <2>1. /\ UNCHANGED <<buffer, head, tail, cpc, citem, pushed, popped>>
        /\ ppc = "check" /\ ppc' = IF head = tail THEN "bump" ELSE "idle"
    BY <1>6 DEF OverwriteCheck, consumerVars
  <2>2. Oldest' = Oldest
    BY <2>1 DEF Oldest, Overflowed
  <2>3. LossyContents' = LossyContents
    BY <2>1, <2>2, LossyListed
  <2> QED
    BY <2>1, <2>3 DEF Lossy!fifoVars
<1>7. CASE OverwriteBump
  <2>1. /\ UNCHANGED <<buffer, head, cpc, citem, pushed, popped>>
        /\ ppc = "bump" /\ ppc' = "idle" /\ tail' = Succ(ptail)
    BY <1>7 DEF OverwriteBump, consumerVars
  <2>2. Oldest' = Oldest
    BY <2>1 DEF Oldest, Overflowed, OverwriteInv
  <2>3. LossyContents' = LossyContents
    BY <2>1, <2>2, LossyListed
  <2> QED
    BY <2>1, <2>3 DEF Lossy!fifoVars
<1>8. CASE PopNothing
  <2>1. /\ ctail = head /\ popped' = Vacant /\ cpc = "compare" /\ cpc' = "idle"
        /\ UNCHANGED <<buffer, head, tail, ppc, citem, pushed>>
    BY <1>8 DEF PopNothing, producerVars
  <2>2. tail = head /\ ppc = "idle" /\ Oldest = tail /\ Oldest' = tail
    BY <2>1 DEF Oldest, Overflowed, OverwriteInv
  <2>3. LossyContents' = LossyContents /\ LossyContents = Listed(tail, head, buffer)
    BY <2>1, <2>2, LossyListed
  <2>4. LossyContents = <<>>
    <3>1. Listed(tail, head, buffer) \in Seq(S) /\ Len(Listed(tail, head, buffer)) = Distance(tail, head)
      BY <1>1, ListedSequence
    <3>2. Distance(tail, head) = 0
      BY <1>0, <2>2, DistanceZero
    <3> QED
      BY <2>3, <3>1, <3>2
  <2> QED
    BY <2>1, <2>3, <2>4 DEF Lossy!LossyNext, Lossy!Next, Lossy!PopEmpty
<1>9. CASE PopMove
  <2>1. /\ buffer' = [buffer EXCEPT ![tail] = Vacant] /\ citem' = buffer[tail]
        /\ cpc = "read" /\ cpc' = "release"
        /\ UNCHANGED <<head, tail, ppc, pushed, popped>>
    BY <1>9 DEF PopMove, producerVars, OverwriteInv
  <2>2. ppc = "idle" /\ Oldest = tail /\ Oldest' = tail
    BY <2>1 DEF Oldest, Overflowed, OverwriteInv
  <2>3. \A i \in 1..Distance(tail, head) :
            (IF i = 1 THEN citem' ELSE buffer'[At(tail, i)]) = buffer[At(tail, i)]
    BY <1>0, <2>1, StoredSlots
  <2>4. Opened(tail, head, citem', buffer') = Listed(tail, head, buffer)
    BY <2>3 DEF Listed, Opened
  <2>5. LossyContents' = LossyContents
    BY <2>1, <2>2, <2>4, LossyListed
  <2> QED
    BY <2>1, <2>5 DEF Lossy!fifoVars
<1>10. CASE PopStoreTail
  <2>1. /\ cpc = "release" /\ cpc' = "idle" /\ tail' = Succ(tail) /\ popped' = citem
        /\ tail # head
        /\ UNCHANGED <<buffer, head, ppc, citem, pushed>>
    BY <1>10 DEF PopStoreTail, producerVars, OverwriteInv
  <2>2. ppc = "idle" /\ Oldest = tail /\ Oldest' = Succ(tail)
    BY <2>1 DEF Oldest, Overflowed, OverwriteInv
  <2>3. /\ LossyContents = Opened(tail, head, citem, buffer)
        /\ LossyContents' = Listed(Succ(tail), head, buffer)
    BY <2>1, <2>2, LossyListed
  <2>4. /\ Opened(tail, head, citem, buffer) # <<>>
        /\ Head(Opened(tail, head, citem, buffer)) = citem
        /\ Listed(Succ(tail), head, buffer) = Tail(Opened(tail, head, citem, buffer))
    <3>1. citem \in S
      BY <1>0
    <3>2. tail # head
      BY <2>1
    <3> QED
      BY <1>1, <3>1, <3>2, OpenedShrinks
  <2> QED
    BY <2>1, <2>3, <2>4 DEF Lossy!LossyNext, Lossy!Next, Lossy!Pop
<1> QED
  BY <1>2, <1>3, <1>4, <1>5, <1>6, <1>7, <1>8, <1>9, <1>10
     DEF OverwriteNext, TryPush, PushOverwrite, TryPop

\* Under the first discipline no push overflows: both readings of the ring agree.
LEMMA NeverOverflows ==
    /\ TypeOK => LossyContents = Contents
    /\ TypeOK' => LossyContents' = Contents'
<1>1. TypeOK => ~Overflowed
  BY DEF TypeOK, Overflowed
<1>2. TypeOK' => ~Overflowed'
  BY DEF TypeOK, Overflowed
<1> QED
  BY <1>1, <1>2 DEF LossyContents, Oldest, Contents, Stored

\* What holds under the discipline the callers have chosen.
RingInv == IF overwrites THEN OverwriteInv ELSE Inv /\ PushStands

LEMMA RingStepInv ==
    ASSUME Exclusive, RingInv, [RingNext]_ringVars
    PROVE  RingInv' /\ overwrites' = overwrites
<1>1. overwrites' = overwrites
  BY DEF RingNext, ringVars
<1>2. CASE overwrites
  <2>1. [OverwriteNext]_overwriteVars
    BY <1>2 DEF RingNext, ringVars
  <2> QED
    BY <1>1, <1>2, <2>1, OverwriteStepInv DEF RingInv
<1>3. CASE ~overwrites
  <2>1. [Next]_vars
    BY <1>3 DEF RingNext, ringVars, overwriteVars
  <2> QED
    BY <1>1, <1>3, <2>1, StepInv, PushStandsInv DEF RingInv
<1> QED
  BY <1>2, <1>3

LEMMA RingInitInv == RingInit => RingInv
  BY OverwriteInitInv, InitInv, PushStandsInv DEF RingInit, OverwriteInit, RingInv

LEMMA RingInvariant ==
    ASSUME Exclusive
    PROVE  RingSpec => []RingInv
<1>1. RingInv /\ [RingNext]_ringVars => RingInv'
  BY RingStepInv
<1> QED
  BY <1>1, RingInitInv, PTL DEF RingSpec

\* Under both disciplines no slot is written while its item is moved out, and what size()
\* told a thread stays true until it acts.
THEOREM RingStaysSafe ==
    ASSUME Exclusive
    PROVE  RingSpec => [](NoSlotRace /\ SizeStaysTrue)
<1>1. RingInv => NoSlotRace /\ SizeStaysTrue
  <2>1. OverwriteInv => NoSlotRace
    BY DEF OverwriteInv, NoSlotRace
  <2>2. OverwriteInv => SizeStaysTrue
    <3> SUFFICES ASSUME OverwriteInv
                 PROVE  SizeStaysTrue
      OBVIOUS
    <3>1. proom = 0 /\ cready = 0 /\ tail \in Slot /\ head \in Slot
      BY DEF OverwriteInv, OverwriteTypeOK
    <3>2. Distance(tail, head) \in 0..(Capacity - 1)
      BY <3>1, DistanceRange
    <3> QED
      BY <3>1, <3>2, CapacityAssumption DEF SizeStaysTrue
  <2>3. Inv => NoSlotRace /\ SizeStaysTrue
    BY NoRaceInInv DEF Inv
  <2> QED
    BY <2>1, <2>2, <2>3 DEF RingInv
<1> QED
  BY <1>1, RingInvariant, PTL

\* Under both disciplines, callers that overwrite keeping their calls apart: a ring of any
\* capacity is a linearisable bounded queue, which only a push_overwrite into a full one
\* makes drop an item, the oldest.
THEOREM RingIsLinearisable ==
    ASSUME Exclusive
    PROVE  RingSpec => LinearisableQueue
<1>1. RingInit => Lossy!Init
  <2> SUFFICES ASSUME RingInit
               PROVE  Lossy!Init
    OBVIOUS
  <2>1. Init /\ 0 \in Slot
    BY CapacityAssumption DEF RingInit, OverwriteInit, Slot
  <2>2. TypeOK /\ Distance(tail, head) = 0
    BY <2>1, InitInv, DistanceZero DEF Inv, TypeOK, Init
  <2>3. Contents = <<>>
    <3>1. \A i \in 1..0 : FALSE
      OBVIOUS
    <3> QED
      BY <2>2, <3>1 DEF Contents
  <2> QED
    BY <2>1, <2>2, <2>3, NeverOverflows DEF Init, Lossy!Init
<1>2. RingInv /\ RingInv' /\ [RingNext]_ringVars =>
          [IF overwrites THEN Lossy!LossyNext ELSE Lossy!Next]_Lossy!fifoVars
  <2> SUFFICES ASSUME RingInv, RingInv', [RingNext]_ringVars
               PROVE  [IF overwrites THEN Lossy!LossyNext ELSE Lossy!Next]_Lossy!fifoVars
    OBVIOUS
  <2>0. overwrites' = overwrites
    BY DEF RingNext, ringVars
  <2>1. CASE overwrites
    <3>1. [OverwriteNext]_overwriteVars /\ OverwriteInv /\ OverwriteInv'
      BY <2>0, <2>1 DEF RingNext, ringVars, RingInv
    <3>2. [Lossy!LossyNext]_Lossy!fifoVars
      BY <3>1, LossyStep
    <3> QED
      BY <2>1, <3>2
  <2>2. CASE ~overwrites
    <3>1. [Next]_vars /\ Inv /\ PushStands /\ TypeOK /\ TypeOK'
      BY <2>0, <2>2 DEF RingNext, ringVars, overwriteVars, RingInv, Inv
    <3>2. [Fifo!Next]_Fifo!fifoVars
      BY <3>1, QueueStep
    <3>3. LossyContents = Contents /\ LossyContents' = Contents'
      BY <3>1, NeverOverflows
    <3>4. [Lossy!Next]_Lossy!fifoVars
      BY <3>2, <3>3
         DEF Fifo!Next, Fifo!Push, Fifo!PushFull, Fifo!Pop, Fifo!PopEmpty, Fifo!fifoVars,
             Lossy!Next, Lossy!Push, Lossy!PushFull, Lossy!Pop, Lossy!PopEmpty, Lossy!fifoVars
    <3> QED
      BY <2>2, <3>4
  <2> QED
    BY <2>1, <2>2
<1> QED
  BY <1>1, <1>2, RingInvariant, PTL DEF RingSpec, LinearisableQueue
================================================================================
