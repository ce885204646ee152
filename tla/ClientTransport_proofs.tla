-------------------------- MODULE ClientTransport_proofs --------------------------
(***************************************************************************)
(* For any ring and any number of datagrams, sends and failed reads.  As   *)
(* long as nothing was sent the poll thread has at most one read under     *)
(* way, be it a submission, a request or a completion, so the one buffer   *)
(* is stable while it is copied and payloads are answered in order with    *)
(* none skipped.  Sends void that, but an answer is never older than the   *)
(* one before, since the kernel fills the buffer in order.                 *)
(***************************************************************************)
EXTENDS ClientTransport, TLAPS

ThreadTypes ==
    /\ pc \in [poll : {"none", "loop", "wait", "copy", "get", "advance", "prep", "submit",
                       "exited"},
               send : {"idle", "advance", "prep", "submit"}]
    /\ slot \in [{"poll", "send"} -> Index]
    /\ sqes \in [0..(Entries - 1) -> {"nop", "readv", "send"}]
    /\ sqTail \in Index /\ published \in Index /\ consumed \in Index
    /\ reads \in Nat /\ writes \in Nat /\ outgoing \in Nat
    /\ cqes \in Seq(BOOLEAN)

PayloadTypes ==
    /\ rxq \in Seq(Nat) /\ socket \in Seq(Nat)
    /\ last \in Nat /\ buffer \in Nat /\ accepted \in Nat

\* The poll thread has taken a completion and not yet published the next read.
Busy == pc.poll \in {"copy", "get", "advance", "prep", "submit"}

\* As long as nothing was sent, the read is in one place at most: with the poll thread,
\* published, requested or completed.
OneRead ==
    outgoing = 0 =>
        /\ pc.send = "idle" /\ writes = 0
        /\ \A i \in 0..(Entries - 1) : sqes[i] # "send"
        /\ life = "new" => /\ pc.poll = "none" /\ consumed = 0 /\ published = 0
                           /\ reads = 0 /\ cqes = <<>>
        /\ Busy => reads = 0 /\ cqes = <<>> /\ consumed = published
        /\ consumed # published => reads = 0 /\ cqes = <<>> /\ published = Plus(consumed, 1)
        /\ reads # 0 => reads = 1 /\ cqes = <<>>
        /\ Len(cqes) <= 1
        /\ sqTail = IF pc.poll \in {"prep", "submit"} THEN Plus(published, 1) ELSE published
        /\ pc.poll = "advance" => slot["poll"] = sqTail

\* The buffer holds a datagram that has still to be queued.
Unqueued == pc.poll = "copy" \/ (cqes # <<>> /\ Head(cqes))

\* Until then every datagram is on its way exactly once: queued, in the buffer, or in the
\* socket.
EachOnce ==
    (outgoing = 0 /\ life # "gone") =>
        /\ buffer = last + Len(rxq) + (IF Unqueued THEN 1 ELSE 0)
        /\ \A i \in 1..Len(rxq) : rxq[i] = last + i
        /\ \A i \in 1..Len(socket) : socket[i] = buffer + i
        /\ accepted = buffer + Len(socket)

RingInv == ThreadTypes /\ OneRead

\* Whatever is sent, the queue, the buffer and the socket are each no older than what
\* comes before.
Rises(s) == \A i, j \in 1..Len(s) : i < j => s[i] <= s[j]

NoneOlder ==
    /\ Rises(rxq) /\ Rises(socket)
    /\ last <= buffer /\ buffer <= accepted
    /\ \A i \in 1..Len(rxq) : last <= rxq[i] /\ rxq[i] <= buffer
    /\ \A i \in 1..Len(socket) : buffer <= socket[i] /\ socket[i] <= accepted

--------------------------------------------------------------------------------
(* The ring and the poll thread *)

LEMMA Indices ==
    /\ Entries \in Nat \ {0} /\ Plus(0, 1) = 1
    /\ 0 \in Index /\ 1 \in Index
    /\ \A i \in Index : Plus(i, 1) \in Index /\ i % Entries \in 0..(Entries - 1)
  BY ClientTransportAssumption DEF Plus, Index

LEMMA ThreadInit == Init => ThreadTypes /\ OneRead
<1> SUFFICES ASSUME Init
             PROVE  ThreadTypes /\ OneRead
  OBVIOUS
<1>1. ThreadTypes
  BY Indices DEF Init, ThreadTypes
<1>2. Len(cqes) = 0
  BY DEF Init
<1> QED
  BY <1>1, <1>2 DEF Init, OneRead, Busy

\* Types are kept by every step.
LEMMA ThreadStep == ThreadTypes /\ [Next]_vars => ThreadTypes'
<1> SUFFICES ASSUME ThreadTypes, [Next]_vars
             PROVE  ThreadTypes'
  OBVIOUS
<1>c. \A b \in BOOLEAN : Append(cqes, b) \in Seq(BOOLEAN)
  BY DEF ThreadTypes
<1>d. cqes # <<>> => Tail(cqes) \in Seq(BOOLEAN)
  BY DEF ThreadTypes
<1>e. <<>> \in Seq(BOOLEAN)
  OBVIOUS
<1> USE DEF ThreadTypes, Goto, ringVars, kernelVars, threadVars, ownerVars
<1>1. CASE InitFails \/ DtorStops \/ DtorExitsUnsetRing
  BY <1>1 DEF InitFails, DtorStops, DtorExitsUnsetRing
<1>2. CASE InitSucceeds
  BY <1>2, Indices DEF InitSucceeds
<1>3. CASE DtorCloses
  BY <1>3, <1>e DEF DtorCloses
<1>4. CASE PollLoop \/ PollTimesOut \/ PollQueues \/ PollGets
  BY <1>4 DEF PollLoop, PollTimesOut, PollQueues, PollGets, LoadTail
<1>5. CASE PollTakes
  <2>1. cqes' \in Seq(BOOLEAN)
    BY <1>5, <1>d DEF PollTakes
  <2>2. UNCHANGED <<slot, sqes, sqTail, published, consumed, reads, writes, outgoing>>
    BY <1>5 DEF PollTakes
  <2>3. pc' = [pc EXCEPT !["poll"] = "copy"] \/ pc' = [pc EXCEPT !["poll"] = "get"]
    BY <1>5 DEF PollTakes
  <2> QED
    BY <2>1, <2>2, <2>3
<1>6. ASSUME NEW thread \in {"poll", "send"}, Advance(thread) \/ Prep(thread) \/ Submit(thread)
      PROVE  ThreadTypes'
  <2>1. CASE Advance(thread)
    BY <2>1, Indices DEF Advance
  <2>2. CASE Prep(thread)
    <3>1. slot[thread] % Entries \in 0..(Entries - 1)
      BY Indices
    <3>2. \E request \in {"readv", "send"} :
              sqes' = [sqes EXCEPT ![slot[thread] % Entries] = request]
      BY <2>2 DEF Prep
    <3>3. /\ pc' = [pc EXCEPT ![thread] = "submit"]
          /\ UNCHANGED <<slot, sqTail, published, consumed, reads, writes, outgoing, cqes>>
      BY <2>2 DEF Prep
    <3> QED
      BY <3>1, <3>2, <3>3
  <2>3. CASE Submit(thread)
    BY <2>3 DEF Submit
  <2> QED
    BY <1>6, <2>1, <2>2, <2>3
<1>7. CASE SendBegins
  BY <1>7 DEF SendBegins, LoadTail
<1>8. CASE ReceiveCall \/ Arrives
  BY <1>8 DEF ReceiveCall, Arrives
<1>9. CASE Execute
  <2>1. cqes' = cqes \/ cqes' = Append(cqes, FALSE)
    BY <1>9 DEF Execute
  <2>2. cqes' \in Seq(BOOLEAN)
    BY <1>c, <2>1
  <2>3. /\ reads' \in {reads, reads + 1} /\ writes' \in {writes, writes + 1}
        /\ consumed' = Plus(consumed, 1)
        /\ UNCHANGED <<pc, slot, sqes, sqTail, published, outgoing>>
    BY <1>9 DEF Execute
  <2> QED
    BY <2>2, <2>3, Indices
<1>10. CASE ReadCompletes \/ ReadFails \/ ShutdownEndsRead \/ WriteCompletes
  <2>1. \E b \in BOOLEAN : cqes' = Append(cqes, b)
    BY <1>10 DEF ReadCompletes, ReadFails, ShutdownEndsRead, WriteCompletes
  <2>2. cqes' \in Seq(BOOLEAN)
    BY <1>c, <2>1
  <2>3. /\ reads' = reads \/ (reads > 0 /\ reads' = reads - 1)
        /\ writes' = writes \/ (writes > 0 /\ writes' = writes - 1)
        /\ UNCHANGED <<pc, slot, sqes, sqTail, published, consumed, outgoing>>
    BY <1>10 DEF ReadCompletes, ReadFails, ShutdownEndsRead, WriteCompletes
  <2> QED
    BY <2>2, <2>3
<1>11. CASE UNCHANGED vars
  BY <1>11 DEF vars
<1> QED
  BY <1>1, <1>2, <1>3, <1>4, <1>5, <1>6, <1>7, <1>8, <1>9, <1>10, <1>11
  DEF Next, Owner, Poll, Send, Kernel

\* What has been sent stays sent.
LEMMA NothingSent == ThreadTypes /\ [Next]_vars /\ outgoing' = 0 => outgoing = 0
<1>1. ThreadTypes /\ SendBegins => outgoing' # 0
  BY DEF SendBegins, ThreadTypes
<1> QED
  BY <1>1
  DEF Next, Owner, InitFails, InitSucceeds, DtorStops, DtorCloses,
      DtorExitsUnsetRing, Poll, PollLoop, PollTimesOut, PollTakes, PollQueues, PollGets, Advance, Prep, Submit, Send,
      ReceiveCall, Kernel, Execute, Arrives, ReadCompletes, ReadFails, ShutdownEndsRead,
      WriteCompletes, vars

\* So is the place of the one read.
LEMMA OneReadStep == RingInv /\ [Next]_vars => OneRead'
<1> SUFFICES ASSUME RingInv, [Next]_vars, outgoing' = 0
             PROVE  OneRead'
  BY DEF OneRead
<1>0. ThreadTypes /\ OneRead /\ ThreadTypes'
  BY ThreadStep DEF RingInv
<1>a. outgoing = 0
  BY <1>0, NothingSent
<1>b. Len(cqes) = 0 <=> cqes = <<>>
  BY <1>0 DEF ThreadTypes
<1>c. \A b \in BOOLEAN : cqes = <<>> => Len(Append(cqes, b)) = 1
  BY <1>0 DEF ThreadTypes
<1>d. cqes # <<>> /\ Len(cqes) <= 1 => Tail(cqes) = <<>>
  BY <1>0 DEF ThreadTypes
<1>e. Len(<<>>) = 0
  OBVIOUS
<1> USE DEF OneRead, Busy, Goto, kernelVars, threadVars, ownerVars, ringVars
<1>1. CASE InitFails \/ DtorStops \/ DtorExitsUnsetRing
  BY <1>0, <1>1, <1>a DEF InitFails, DtorStops, DtorExitsUnsetRing
<1>2. CASE InitSucceeds
  BY <1>0, <1>2, <1>a, Indices DEF InitSucceeds, ThreadTypes
<1>3. CASE DtorCloses
  BY <1>0, <1>3, <1>a, <1>e DEF DtorCloses, ThreadTypes
<1>4. CASE PollLoop \/ PollTimesOut \/ PollQueues
  BY <1>0, <1>4, <1>a DEF PollLoop, PollTimesOut, PollQueues, ThreadTypes
<1>5. CASE PollTakes
  <2>1. /\ cqes # <<>> /\ pc.poll = "wait" /\ cqes' = Tail(cqes)
        /\ UNCHANGED <<life, slot, sqes, sqTail, published, consumed, reads, writes>>
    BY <1>5 DEF PollTakes
  <2>2. cqes' = <<>>
    BY <1>0, <1>a, <1>d, <2>1
  <2>3. pc' = [pc EXCEPT !["poll"] = "copy"] \/ pc' = [pc EXCEPT !["poll"] = "get"]
    BY <1>5 DEF PollTakes
  <2>4. pc'.poll \in {"copy", "get"} /\ pc'.send = pc.send
    BY <1>0, <2>3 DEF ThreadTypes
  <2>5. Len(cqes') = 0
    BY <1>e, <2>2
  <2> QED
    BY <1>0, <1>a, <2>1, <2>2, <2>4, <2>5
<1>6. CASE PollGets
  BY <1>0, <1>6, <1>a DEF PollGets, ThreadTypes, LoadTail
<1>7. CASE Advance("poll") \/ Prep("poll") \/ Submit("poll")
  BY <1>0, <1>7, <1>a DEF Advance, Prep, Submit, ThreadTypes
<1>8. CASE Send
  BY <1>0, <1>8, <1>a DEF Send, SendBegins, Advance, Prep, Submit, ThreadTypes
<1>9. CASE ReceiveCall \/ Arrives
  BY <1>0, <1>9, <1>a DEF ReceiveCall, Arrives
<1>10. CASE Execute
  <2>1. /\ life \in {"open", "stopping"} /\ consumed # published
        /\ consumed' = Plus(consumed, 1)
        /\ UNCHANGED <<life, pc, slot, sqes, sqTail, published>>
    BY <1>10 DEF Execute
  <2>2. consumed' = published /\ reads = 0 /\ cqes = <<>> /\ ~Busy
    BY <1>0, <1>a, <2>1
  <2>3. sqes[consumed % Entries] # "send"
    BY <1>0, <1>a, Indices DEF ThreadTypes
  <2>4. /\ writes' = writes /\ reads' \in {reads, reads + 1}
        /\ cqes' = cqes \/ (cqes' = Append(cqes, FALSE) /\ reads' = reads)
    <3> DEFINE request == sqes[consumed % Entries]
    <3>1. /\ reads' = IF request = "readv" THEN reads + 1 ELSE reads
          /\ writes' = IF request = "send" THEN writes + 1 ELSE writes
          /\ cqes' = IF request = "nop" THEN Append(cqes, FALSE) ELSE cqes
      BY <1>10 DEF Execute
    <3>2. request # "send"
      BY <2>3
    <3> HIDE DEF request
    <3> QED
      BY <3>1, <3>2
  <2>5. Len(Append(cqes, FALSE)) = 1 /\ Len(cqes) = 0
    BY <1>b, <1>c, <2>2
  <2>6. writes' = 0 /\ reads' \in {0, 1}
    BY <1>0, <1>a, <2>2, <2>4
  <2>7. reads' # 0 => cqes' = <<>>
    BY <2>2, <2>4
  <2>8. Len(cqes') <= 1
    <3>1. Len(cqes') = 0 \/ Len(cqes') = 1
      BY <2>4, <2>5, Zenon
    <3>2. 0 <= 1 /\ 1 <= 1
      OBVIOUS
    <3> QED
      BY <3>1, <3>2, Zenon
  <2> QED
    BY <1>0, <1>a, <2>1, <2>2, <2>6, <2>7, <2>8
<1>11. CASE ReadCompletes \/ ReadFails \/ ShutdownEndsRead
  <2>1. /\ reads > 0 /\ reads' = reads - 1
        /\ \E b \in BOOLEAN : cqes' = Append(cqes, b)
        /\ UNCHANGED <<life, pc, slot, sqes, sqTail, published, consumed, writes>>
    BY <1>11 DEF ReadCompletes, ReadFails, ShutdownEndsRead
  <2>2. reads = 1 /\ cqes = <<>>
    BY <1>0, <1>a, <2>1 DEF ThreadTypes
  <2>3. reads' = 0 /\ Len(cqes') = 1
    BY <1>c, <2>1, <2>2
  <2>4. ~Busy /\ life # "new" /\ consumed = published
    BY <1>0, <1>a, <2>2
  <2> QED
    BY <1>0, <1>a, <2>1, <2>3, <2>4
<1>12. CASE WriteCompletes
  BY <1>0, <1>12, <1>a DEF WriteCompletes, ThreadTypes
<1>13. CASE UNCHANGED vars
  BY <1>0, <1>13, <1>a DEF vars
<1> QED
  BY <1>1, <1>2, <1>3, <1>4, <1>5, <1>6, <1>7, <1>8, <1>9, <1>10, <1>11, <1>12, <1>13
  DEF Next, Owner, Poll, Kernel

\* The place of the one read in every behaviour.
THEOREM RingInvariant == Spec => []RingInv
<1>1. RingInv /\ [Next]_vars => RingInv'
  BY ThreadStep, OneReadStep DEF RingInv
<1> QED
  BY ThreadInit, <1>1, PTL DEF Spec, RingInv

\* While the poll thread copies iovecs_[0] the kernel holds no read that could write it,
\* as long as nothing was sent: nothing is torn, for a ring of any size.
THEOREM BufferIsStable == Spec => []BufferStable
<1>1. RingInv => BufferStable
  BY DEF RingInv, OneRead, Busy, BufferStable
<1> QED
  BY <1>1, RingInvariant, PTL

--------------------------------------------------------------------------------
(* The payloads *)

\* One number more at the end of a sequence, and the first taken away.
LEMMA AppendFacts ==
    ASSUME NEW s \in Seq(Nat), NEW x \in Nat
    PROVE  /\ Append(s, x) \in Seq(Nat) /\ Len(s) \in Nat /\ Len(Append(s, x)) = Len(s) + 1
           /\ \A i \in 1..Len(s) : s[i] \in Nat /\ Append(s, x)[i] = s[i]
           /\ Append(s, x)[Len(s) + 1] = x
  OBVIOUS

LEMMA TailFacts ==
    ASSUME NEW s \in Seq(Nat), s # <<>>
    PROVE  /\ Tail(s) \in Seq(Nat) /\ Len(s) \in Nat \ {0} /\ Len(Tail(s)) = Len(s) - 1
           /\ \A i \in 1..Len(s) : s[i] \in Nat
           /\ \A i \in 1..(Len(s) - 1) : Tail(s)[i] = s[i + 1]
           /\ Head(s) = s[1]
  OBVIOUS

LEMMA NoPayload == <<>> \in Seq(Nat) /\ Len(<<>>) = 0 /\ \A i \in 1..0 : FALSE
  OBVIOUS

\* The steps by which a payload moves on, or all that are under way are given up ...
PayloadStep ==
    \/ Arrives \/ ReadCompletes \/ PollQueues \/ DtorCloses
    \/ ReceiveCall /\ Take

\* ... and what the others leave alone.
LEMMA OtherSteps ==
    [Next]_vars => PayloadStep \/ UNCHANGED <<rxq, last, answers, buffer, socket, accepted>>
  BY DEF Next, vars, queueVars, kernelVars, PayloadStep, Owner, InitFails, InitSucceeds,
         DtorStops, DtorExitsUnsetRing, Poll, PollLoop, PollTimesOut, PollTakes, PollGets, Advance, Prep, Submit,
         Send, SendBegins, ReceiveCall, Receive, Wait, TimeOut, Kernel, Execute, ReadFails,
         ShutdownEndsRead, WriteCompletes

\* What each of them does to the payloads.
LEMMA ArrivesMoves ==
    ASSUME PayloadTypes, Arrives
    PROVE  /\ accepted' = accepted + 1 /\ UNCHANGED <<rxq, last, buffer>>
           /\ socket' \in Seq(Nat) /\ Len(socket) \in Nat /\ Len(socket') = Len(socket) + 1
           /\ \A i \in 1..Len(socket) : socket[i] \in Nat /\ socket'[i] = socket[i]
           /\ socket'[Len(socket) + 1] = accepted + 1
<1>1. /\ accepted' = accepted + 1 /\ UNCHANGED <<rxq, last, buffer>>
      /\ socket' = Append(socket, accepted + 1)
  BY DEF Arrives, queueVars
<1>2. socket \in Seq(Nat) /\ accepted + 1 \in Nat
  BY DEF PayloadTypes
<1> QED
  BY <1>1, <1>2, AppendFacts, Zenon

LEMMA ReadMoves ==
    ASSUME PayloadTypes, ReadCompletes
    PROVE  /\ buffer' = socket[1] /\ UNCHANGED <<rxq, last, accepted>>
           /\ socket' \in Seq(Nat) /\ Len(socket) \in Nat \ {0}
           /\ Len(socket') = Len(socket) - 1
           /\ \A i \in 1..Len(socket) : socket[i] \in Nat
           /\ \A i \in 1..(Len(socket) - 1) : socket'[i] = socket[i + 1]
<1>1. /\ buffer' = Head(socket) /\ UNCHANGED <<rxq, last, accepted>>
      /\ socket # <<>> /\ socket' = Tail(socket)
  BY DEF ReadCompletes, queueVars
<1>2. socket \in Seq(Nat)
  BY DEF PayloadTypes
<1> QED
  BY <1>1, <1>2, TailFacts, Zenon

LEMMA QueueMoves ==
    ASSUME PayloadTypes, PollQueues
    PROVE  /\ UNCHANGED <<last, buffer, socket, accepted>>
           /\ rxq' \in Seq(Nat) /\ Len(rxq) \in Nat /\ Len(rxq') = Len(rxq) + 1
           /\ \A i \in 1..Len(rxq) : rxq[i] \in Nat /\ rxq'[i] = rxq[i]
           /\ rxq'[Len(rxq) + 1] = buffer
<1>1. UNCHANGED <<last, buffer, socket, accepted>> /\ rxq' = Append(rxq, buffer)
  BY DEF PollQueues, Enqueue, kernelVars
<1>2. rxq \in Seq(Nat) /\ buffer \in Nat
  BY DEF PayloadTypes
<1> QED
  BY <1>1, <1>2, AppendFacts, Zenon

LEMMA TakeMoves ==
    ASSUME PayloadTypes, ReceiveCall, Take
    PROVE  /\ last' = rxq[1] /\ UNCHANGED <<buffer, socket, accepted>>
           /\ rxq' \in Seq(Nat) /\ Len(rxq) \in Nat \ {0} /\ Len(rxq') = Len(rxq) - 1
           /\ \A i \in 1..Len(rxq) : rxq[i] \in Nat
           /\ \A i \in 1..(Len(rxq) - 1) : rxq'[i] = rxq[i + 1]
<1>1. /\ last' = Head(rxq) /\ UNCHANGED <<buffer, socket, accepted>>
      /\ rxq # <<>> /\ rxq' = Tail(rxq)
  BY DEF ReceiveCall, Take, kernelVars
<1>2. rxq \in Seq(Nat)
  BY DEF PayloadTypes
<1> QED
  BY <1>1, <1>2, TailFacts, Zenon

LEMMA CloseMoves ==
    DtorCloses => rxq' = <<>> /\ socket' = <<>> /\ UNCHANGED <<last, buffer, accepted>>
  BY DEF DtorCloses

\* A rising sequence stays one when something no smaller is put at its end, or when its
\* first element is taken away.
LEMMA RisesAppend ==
    ASSUME NEW s, NEW t, NEW x \in Nat, Len(s) \in Nat, Len(t) = Len(s) + 1, Rises(s),
           \A i \in 1..Len(s) : s[i] \in Nat /\ t[i] = s[i] /\ s[i] <= x,
           t[Len(s) + 1] = x
    PROVE  Rises(t)
<1> DEFINE n == Len(s)
<1> HIDE DEF n
<1>1. SUFFICES ASSUME NEW i \in 1..(n + 1), NEW j \in 1..(n + 1), i < j
               PROVE  t[i] <= t[j]
  BY DEF Rises, n
<1>2. n \in Nat /\ i \in 1..n /\ (j \in 1..n \/ j = n + 1)
  BY <1>1 DEF n
<1>3. t[i] = s[i] /\ s[i] <= x
  BY <1>2 DEF n
<1>4. CASE j \in 1..n
  BY <1>1, <1>2, <1>3, <1>4 DEF Rises, n
<1>5. CASE j = n + 1
  BY <1>3, <1>5 DEF n
<1> QED
  BY <1>2, <1>4, <1>5

LEMMA RisesTail ==
    ASSUME NEW s, NEW t, Len(s) \in Nat \ {0}, Len(t) = Len(s) - 1, Rises(s),
           \A i \in 1..(Len(s) - 1) : t[i] = s[i + 1]
    PROVE  Rises(t) /\ \A i \in 1..Len(t) : s[1] <= t[i] /\ i + 1 \in 1..Len(s) /\ t[i] = s[i + 1]
<1>1. \A i \in 1..Len(t) : i + 1 \in 1..Len(s) /\ t[i] = s[i + 1] /\ 1 \in 1..Len(s) /\ 1 < i + 1
  OBVIOUS
<1>2. \A i \in 1..Len(t) : s[1] <= t[i]
  BY <1>1 DEF Rises
<1>3. ASSUME NEW i \in 1..Len(t), NEW j \in 1..Len(t), i < j
      PROVE  t[i] <= t[j]
  <2>1. i + 1 < j + 1
    BY <1>3
  <2> QED
    BY <1>1, <2>1 DEF Rises
<1> QED
  BY <1>1, <1>2, <1>3 DEF Rises

LEMMA PayloadInit == Init => PayloadTypes /\ NoneOlder /\ EachOnce
<1> SUFFICES ASSUME Init
             PROVE  PayloadTypes /\ NoneOlder /\ EachOnce
  OBVIOUS
<1>1. /\ rxq = <<>> /\ socket = <<>> /\ last = 0 /\ buffer = 0 /\ accepted = 0
      /\ pc.poll = "none" /\ cqes = <<>>
  BY DEF Init, QueueInit
<1>2. PayloadTypes
  BY <1>1 DEF PayloadTypes
<1>3. NoneOlder
  BY <1>1, NoPayload DEF NoneOlder, Rises
<1>4. EachOnce
  <2>1. ~Unqueued /\ Len(rxq) = 0 /\ Len(socket) = 0
    BY <1>1, NoPayload DEF Unqueued
  <2> QED
    BY <1>1, <2>1, NoPayload DEF EachOnce
<1> QED
  BY <1>2, <1>3, <1>4

LEMMA PayloadTypesStep == PayloadTypes /\ [Next]_vars => PayloadTypes'
<1> SUFFICES ASSUME PayloadTypes, [Next]_vars
             PROVE  PayloadTypes'
  OBVIOUS
<1>1. CASE Arrives
  BY <1>1, ArrivesMoves DEF PayloadTypes
<1>2. CASE ReadCompletes
  BY <1>2, ReadMoves DEF PayloadTypes
<1>3. CASE PollQueues
  BY <1>3, QueueMoves DEF PayloadTypes
<1>4. CASE DtorCloses
  BY <1>4, CloseMoves, NoPayload DEF PayloadTypes
<1>5. CASE ReceiveCall /\ Take
  <2>1. 1 \in 1..Len(rxq)
    BY <1>5, TakeMoves
  <2> QED
    BY <1>5, <2>1, TakeMoves DEF PayloadTypes
<1> QED
  BY <1>1, <1>2, <1>3, <1>4, <1>5, OtherSteps DEF PayloadStep, PayloadTypes

\* Whatever was sent, payloads stay in the order of their arrival.
LEMMA NoneOlderStep == PayloadTypes /\ NoneOlder /\ [Next]_vars => NoneOlder'
<1> SUFFICES ASSUME PayloadTypes, NoneOlder, [Next]_vars
             PROVE  NoneOlder'
  OBVIOUS
<1>0. /\ \A i \in 1..Len(rxq) : rxq[i] \in Nat
      /\ \A i \in 1..Len(socket) : socket[i] \in Nat
      /\ last \in Nat /\ buffer \in Nat /\ accepted \in Nat
  BY DEF PayloadTypes
<1>1. CASE Arrives
  <2>1. Rises(socket')
    <3>1. \A i \in 1..Len(socket) : socket[i] <= accepted + 1
      BY <1>0 DEF NoneOlder
    <3>2. /\ Len(socket) \in Nat /\ Len(socket') = Len(socket) + 1 /\ Rises(socket)
          /\ \A i \in 1..Len(socket) : socket'[i] = socket[i]
          /\ socket'[Len(socket) + 1] = accepted + 1
      BY <1>1, ArrivesMoves DEF NoneOlder
    <3>3. accepted + 1 \in Nat
      BY <1>0
    <3> QED
      BY <1>0, <3>1, <3>2, <3>3, RisesAppend, Zenon
  <2>2. \A i \in 1..Len(socket') : buffer' <= socket'[i] /\ socket'[i] <= accepted'
    <3>1. \A i \in 1..(Len(socket) + 1) : i \in 1..Len(socket) \/ i = Len(socket) + 1
      BY <1>1, ArrivesMoves
    <3>2. ASSUME NEW i \in 1..Len(socket)
          PROVE  buffer' <= socket'[i] /\ socket'[i] <= accepted'
      <4>1. socket'[i] = socket[i] /\ buffer' = buffer /\ accepted' = accepted + 1
        BY <1>1, ArrivesMoves
      <4>2. buffer <= socket[i] /\ socket[i] <= accepted
        BY DEF NoneOlder
      <4> QED
        BY <1>0, <4>1, <4>2
    <3>3. buffer' <= accepted' /\ socket'[Len(socket) + 1] = accepted'
      BY <1>0, <1>1, ArrivesMoves DEF NoneOlder
    <3>4. accepted' \in Nat /\ Len(socket') = Len(socket) + 1
      BY <1>0, <1>1, ArrivesMoves
    <3> QED
      BY <3>1, <3>2, <3>3, <3>4
  <2> QED
    BY <1>0, <1>1, <2>1, <2>2, ArrivesMoves DEF NoneOlder
<1>2. CASE ReadCompletes
  <2>1. 1 \in 1..Len(socket) /\ socket[1] \in Nat
    BY <1>2, ReadMoves
  <2>2. Rises(socket') /\ \A i \in 1..Len(socket') :
            buffer' <= socket'[i] /\ i + 1 \in 1..Len(socket) /\ socket'[i] = socket[i + 1]
    <3>1. /\ Len(socket) \in Nat \ {0} /\ Len(socket') = Len(socket) - 1 /\ Rises(socket)
          /\ \A i \in 1..(Len(socket) - 1) : socket'[i] = socket[i + 1]
          /\ buffer' = socket[1]
      BY <1>2, ReadMoves DEF NoneOlder
    <3> QED
      BY <3>1, RisesTail, Zenon
  <2>3. buffer <= buffer' /\ buffer' <= accepted'
    BY <1>2, <2>1, ReadMoves DEF NoneOlder
  <2> QED
    BY <1>0, <1>2, <2>1, <2>2, <2>3, ReadMoves DEF NoneOlder
<1>3. CASE PollQueues
  <2>1. Rises(rxq')
    BY <1>0, <1>3, QueueMoves, RisesAppend DEF NoneOlder
  <2>2. \A i \in 1..Len(rxq') : last' <= rxq'[i] /\ rxq'[i] <= buffer'
    <3>1. \A i \in 1..(Len(rxq) + 1) : i \in 1..Len(rxq) \/ i = Len(rxq) + 1
      BY <1>3, QueueMoves
    <3>2. ASSUME NEW i \in 1..Len(rxq)
          PROVE  last' <= rxq'[i] /\ rxq'[i] <= buffer'
      BY <1>3, <3>2, QueueMoves DEF NoneOlder
    <3>3. /\ last' <= buffer' /\ buffer' <= buffer' /\ rxq'[Len(rxq) + 1] = buffer'
          /\ Len(rxq') = Len(rxq) + 1
      BY <1>0, <1>3, QueueMoves DEF NoneOlder
    <3> QED
      BY <3>1, <3>2, <3>3
  <2> QED
    BY <1>0, <1>3, <2>1, <2>2, QueueMoves DEF NoneOlder
<1>4. CASE DtorCloses
  BY <1>0, <1>4, CloseMoves, NoPayload DEF NoneOlder, Rises
<1>5. CASE ReceiveCall /\ Take
  <2>1. 1 \in 1..Len(rxq) /\ rxq[1] \in Nat
    BY <1>5, TakeMoves
  <2>2. Rises(rxq') /\ \A i \in 1..Len(rxq') :
            last' <= rxq'[i] /\ i + 1 \in 1..Len(rxq) /\ rxq'[i] = rxq[i + 1]
    <3>1. /\ Len(rxq) \in Nat \ {0} /\ Len(rxq') = Len(rxq) - 1 /\ Rises(rxq)
          /\ \A i \in 1..(Len(rxq) - 1) : rxq'[i] = rxq[i + 1]
          /\ last' = rxq[1]
      BY <1>5, TakeMoves DEF NoneOlder
    <3> QED
      BY <3>1, RisesTail, Zenon
  <2> QED
    BY <1>0, <1>5, <2>1, <2>2, TakeMoves DEF NoneOlder
<1> QED
  BY <1>1, <1>2, <1>3, <1>4, <1>5, OtherSteps DEF PayloadStep, NoneOlder, Rises

\* Sends may make receive answer a datagram again, but never one older than the last, on
\* a ring of any size and with any number of sends and failed reads.
THEOREM NeverAnOlderPayload == Spec => NeverGoesBack
<1> DEFINE I == PayloadTypes /\ NoneOlder
<1>1. I /\ [Next]_vars => I'
  BY PayloadTypesStep, NoneOlderStep
<1>2. I /\ [Next]_vars => [last' >= last]_vars
  <2> SUFFICES ASSUME PayloadTypes, NoneOlder, [Next]_vars
               PROVE  last' >= last
    OBVIOUS
  <2>1. CASE ReceiveCall /\ Take
    <3>1. last' = rxq[1] /\ 1 \in 1..Len(rxq)
      BY <2>1, TakeMoves
    <3> QED
      BY <2>1, <3>1, TakeMoves DEF NoneOlder, PayloadTypes
  <2>2. CASE last' = last
    BY <2>2 DEF PayloadTypes
  <2> QED
    BY <2>1, <2>2, OtherSteps, ArrivesMoves, ReadMoves, QueueMoves, CloseMoves DEF PayloadStep
<1> QED
  BY PayloadInit, <1>1, <1>2, PTL DEF Spec, NeverGoesBack

--------------------------------------------------------------------------------
(* As long as nothing is sent *)

\* A completed read fills the buffer when it holds nothing that waits, and the poll thread
\* empties it; no other step does either.
LEMMA UnqueuedStep ==
    ASSUME RingInv, [Next]_vars, outgoing' = 0, life' # "gone"
    PROVE  \/ ReadCompletes /\ ~Unqueued /\ Unqueued'
           \/ PollQueues /\ Unqueued /\ ~Unqueued'
           \/ /\ Unqueued' <=> Unqueued
              /\ \/ Arrives \/ (ReceiveCall /\ Take)
                 \/ UNCHANGED <<rxq, last, buffer, socket, accepted>>
<1>0. ThreadTypes /\ OneRead /\ outgoing = 0
  BY NothingSent DEF RingInv
<1>a. cqes # <<>> /\ Len(cqes) <= 1 => Tail(cqes) = <<>>
  BY <1>0 DEF ThreadTypes
<1>b. cqes = <<>> => \A b \in BOOLEAN : Append(cqes, b) # <<>> /\ Head(Append(cqes, b)) = b
  BY <1>0 DEF ThreadTypes
<1> USE DEF Goto, Unqueued
<1>1. CASE \/ InitFails \/ InitSucceeds \/ DtorStops \/ DtorExitsUnsetRing
           \/ PollLoop \/ PollTimesOut \/ PollGets
           \/ Advance("poll") \/ Prep("poll") \/ Submit("poll")
  <2>1. cqes' = cqes /\ UNCHANGED <<rxq, last, buffer, socket, accepted>>
    BY <1>1 DEF InitFails, InitSucceeds, DtorStops, DtorExitsUnsetRing, PollLoop,
                PollTimesOut, PollGets, Advance, Prep, Submit, queueVars, kernelVars
  <2>2. (pc.poll # "copy" /\ pc'.poll # "copy") \/ pc' = pc
    BY <1>0, <1>1 DEF InitFails, InitSucceeds, DtorStops, DtorExitsUnsetRing, PollLoop,
                      PollTimesOut, PollGets, Advance, Prep, Submit, threadVars, ThreadTypes, OneRead
  <2> QED
    BY <2>1, <2>2
<1>2. CASE PollTakes
  <2>1. /\ pc.poll = "wait" /\ cqes # <<>> /\ cqes' = Tail(cqes)
        /\ UNCHANGED <<rxq, last, buffer, socket, accepted>>
    BY <1>2 DEF PollTakes, queueVars
  <2>2. cqes' = <<>>
    BY <1>0, <1>a, <2>1 DEF OneRead
  <2>3. pc'.poll = IF Head(cqes) THEN "copy" ELSE "get"
    BY <1>0, <1>2 DEF PollTakes, ThreadTypes
  <2> QED
    BY <2>1, <2>2, <2>3
<1>3. CASE PollQueues
  <2>1. pc.poll = "copy" /\ pc' = [pc EXCEPT !["poll"] = "get"] /\ cqes' = cqes
    BY <1>3 DEF PollQueues, kernelVars
  <2>2. cqes = <<>> /\ pc'.poll = "get"
    BY <1>0, <2>1 DEF OneRead, Busy, ThreadTypes
  <2> QED
    BY <1>3, <2>1, <2>2
<1>4. CASE Send
  <2>1. pc.send = "idle" /\ outgoing + 1 # 0
    BY <1>0 DEF OneRead
  <2> QED
    BY <1>4, <2>1 DEF Send, SendBegins, Advance, Prep, Submit
<1>5. CASE Arrives \/ ReceiveCall
  <2>1. pc' = pc /\ cqes' = cqes
    BY <1>5 DEF Arrives, ReceiveCall, kernelVars, threadVars
  <2>2. ReceiveCall /\ ~Take => UNCHANGED <<rxq, last, buffer, socket, accepted>>
    BY DEF ReceiveCall, Receive, Wait, TimeOut, kernelVars
  <2> QED
    BY <1>5, <2>1, <2>2
<1>6. CASE Execute
  <2>1. /\ consumed # published /\ (cqes' = cqes \/ cqes' = Append(cqes, FALSE))
        /\ pc' = pc /\ UNCHANGED <<rxq, last, buffer, socket, accepted>>
    BY <1>6 DEF Execute, queueVars, threadVars
  <2>2. cqes = <<>> /\ pc.poll # "copy"
    BY <1>0, <2>1 DEF OneRead, Busy
  <2> QED
    BY <1>b, <2>1, <2>2
<1>7. CASE ReadCompletes \/ ReadFails \/ ShutdownEndsRead
  <2>1. reads > 0 /\ pc' = pc
    BY <1>7 DEF ReadCompletes, ReadFails, ShutdownEndsRead, threadVars
  <2>2. cqes = <<>> /\ pc.poll # "copy"
    BY <1>0, <2>1 DEF OneRead, Busy, ThreadTypes
  <2>3. CASE ReadCompletes
    BY <1>b, <2>1, <2>2, <2>3 DEF ReadCompletes
  <2>4. CASE ReadFails \/ ShutdownEndsRead
    <3>1. cqes' = Append(cqes, FALSE) /\ UNCHANGED <<rxq, last, buffer, socket, accepted>>
      BY <2>4 DEF ReadFails, ShutdownEndsRead, queueVars
    <3> QED
      BY <1>b, <2>1, <2>2, <3>1
  <2> QED
    BY <1>7, <2>3, <2>4
<1>8. CASE WriteCompletes
  <2>1. writes = 0
    BY <1>0 DEF OneRead
  <2>2. writes > 0
    BY <1>8 DEF WriteCompletes
  <2>3. FALSE
    BY <2>1, <2>2
  <2> QED
    BY <2>3
<1>9. CASE DtorCloses
  BY <1>9 DEF DtorCloses
<1>10. CASE UNCHANGED vars
  BY <1>10 DEF vars, queueVars, kernelVars, threadVars
<1> QED
  BY <1>1, <1>2, <1>3, <1>4, <1>5, <1>6, <1>7, <1>8, <1>9, <1>10 DEF Next, Owner, Poll, Kernel

\* Every datagram stays on its way exactly once.
LEMMA EachOnceStep == RingInv /\ PayloadTypes /\ EachOnce /\ [Next]_vars => EachOnce'
<1> SUFFICES ASSUME RingInv, PayloadTypes, EachOnce, [Next]_vars,
                    outgoing' = 0, life' # "gone"
             PROVE  EachOnce'
  BY DEF EachOnce
<1>1. outgoing = 0
  BY NothingSent DEF RingInv
<1>2. life # "gone"
  BY DEF Next, vars, Owner, InitFails, InitSucceeds, DtorStops, DtorCloses,
         DtorExitsUnsetRing, Poll, PollLoop, PollTimesOut, PollTakes, PollQueues, PollGets, Advance, Prep, Submit, Send, SendBegins,
         ReceiveCall, Kernel, Execute, Arrives, ReadCompletes, ReadFails, ShutdownEndsRead,
         WriteCompletes, ownerVars
<1>3. /\ buffer = last + Len(rxq) + (IF Unqueued THEN 1 ELSE 0)
      /\ \A i \in 1..Len(rxq) : rxq[i] = last + i
      /\ \A i \in 1..Len(socket) : socket[i] = buffer + i
      /\ accepted = buffer + Len(socket)
      /\ last \in Nat /\ buffer \in Nat /\ accepted \in Nat
      /\ Len(rxq) \in Nat /\ Len(socket) \in Nat
  BY <1>1, <1>2 DEF EachOnce, PayloadTypes
<1>4. CASE ReadCompletes /\ ~Unqueued /\ Unqueued'
  <2>1. buffer' = buffer + 1
    <3>1. 1 \in 1..Len(socket)
      BY <1>4, ReadMoves
    <3> QED
      BY <1>3, <1>4, <3>1, ReadMoves
  <2>2. \A i \in 1..Len(socket') : i + 1 \in 1..Len(socket) /\ socket'[i] = socket[i + 1]
    BY <1>4, ReadMoves
  <2>3. \A i \in 1..Len(socket') : socket'[i] = buffer' + i
    BY <1>3, <2>1, <2>2
  <2> QED
    BY <1>3, <1>4, <2>1, <2>3, ReadMoves DEF EachOnce
<1>5. CASE PollQueues /\ Unqueued /\ ~Unqueued'
  <2>1. \A i \in 1..(Len(rxq) + 1) : i \in 1..Len(rxq) \/ i = Len(rxq) + 1
    BY <1>3
  <2>2. \A i \in 1..Len(rxq') : rxq'[i] = last + i
    <3>1. /\ Len(rxq') = Len(rxq) + 1 /\ rxq'[Len(rxq) + 1] = last + (Len(rxq) + 1)
          /\ \A i \in 1..Len(rxq) : rxq'[i] = rxq[i]
      BY <1>3, <1>5, QueueMoves
    <3> QED
      BY <1>3, <2>1, <3>1
  <2> QED
    BY <1>3, <1>5, <2>2, QueueMoves DEF EachOnce
<1>6. CASE Arrives /\ (Unqueued' <=> Unqueued)
  <2>1. \A i \in 1..(Len(socket) + 1) : i \in 1..Len(socket) \/ i = Len(socket) + 1
    BY <1>3
  <2>2. \A i \in 1..Len(socket') : socket'[i] = buffer + i
    <3>1. /\ Len(socket') = Len(socket) + 1
          /\ socket'[Len(socket) + 1] = buffer + (Len(socket) + 1)
          /\ \A i \in 1..Len(socket) : socket'[i] = socket[i]
      BY <1>3, <1>6, ArrivesMoves
    <3> QED
      BY <1>3, <2>1, <3>1
  <2> QED
    BY <1>3, <1>6, <2>2, ArrivesMoves DEF EachOnce
<1>7. CASE ReceiveCall /\ Take /\ (Unqueued' <=> Unqueued)
  <2>1. last' = last + 1
    <3>1. 1 \in 1..Len(rxq)
      BY <1>7, TakeMoves
    <3> QED
      BY <1>3, <1>7, <3>1, TakeMoves
  <2>2. \A i \in 1..Len(rxq') : i + 1 \in 1..Len(rxq) /\ rxq'[i] = rxq[i + 1]
    BY <1>7, TakeMoves
  <2>3. \A i \in 1..Len(rxq') : rxq'[i] = last' + i
    BY <1>3, <2>1, <2>2
  <2>4. Len(rxq') = Len(rxq) - 1 /\ UNCHANGED <<buffer, socket, accepted>>
    BY <1>7, TakeMoves
  <2>5. buffer' = last' + Len(rxq') + (IF Unqueued' THEN 1 ELSE 0)
    BY <1>3, <1>7, <2>1, <2>4
  <2> QED
    BY <1>3, <2>3, <2>4, <2>5 DEF EachOnce
<1>8. CASE UNCHANGED <<rxq, last, buffer, socket, accepted>> /\ (Unqueued' <=> Unqueued)
  BY <1>3, <1>8 DEF EachOnce
<1> QED
  BY <1>4, <1>5, <1>6, <1>7, <1>8, UnqueuedStep

\* As long as nothing was sent, answers are in order and none is skipped or repeated, on a
\* ring of any size and through any number of failed reads.
THEOREM NothingSkippedUntilSend == Spec => InOrderUntilSend
<1> DEFINE I == RingInv /\ PayloadTypes /\ EachOnce
<1>1. Init => I
  BY ThreadInit, PayloadInit DEF RingInv
<1>2. I /\ [Next]_vars => I'
  BY ThreadStep, OneReadStep, PayloadTypesStep, EachOnceStep DEF RingInv
<1>3. I /\ [Next]_vars =>
        [outgoing' = 0 => (Stream!Accept \/ (Stream!Answer /\ last' = last + 1))]_streamVars
  <2> SUFFICES ASSUME RingInv, PayloadTypes, EachOnce, [Next]_vars, outgoing' = 0,
                      ~UNCHANGED streamVars
               PROVE  Stream!Accept \/ (Stream!Answer /\ last' = last + 1)
    OBVIOUS
  <2>1. outgoing = 0
    BY NothingSent DEF RingInv
  <2>2. CASE Arrives
    BY <2>2 DEF Arrives, queueVars, Stream!Accept
  <2>3. CASE ReceiveCall /\ Take
    <3>1. life # "gone"
      BY <2>3 DEF ReceiveCall
    <3>2. /\ buffer >= last + Len(rxq) /\ accepted >= buffer
          /\ \A i \in 1..Len(rxq) : rxq[i] = last + i
      BY <2>1, <3>1 DEF EachOnce, PayloadTypes
    <3>3. Len(rxq) \in Nat \ {0} /\ 1 \in 1..Len(rxq) /\ last' = rxq[1]
      BY <2>3, TakeMoves
    <3>4. last' = last + 1 /\ last + 1 \in (last + 1)..accepted
      BY <3>2, <3>3 DEF PayloadTypes
    <3>5. answers' = answers + 1 /\ accepted' = accepted
      BY <2>3 DEF Take, ReceiveCall, kernelVars
    <3> QED
      BY <3>4, <3>5 DEF Stream!Answer
  <2>4. ~(ReadCompletes \/ PollQueues \/ DtorCloses)
    BY DEF streamVars, ReadCompletes, PollQueues, DtorCloses, queueVars, kernelVars
  <2> QED
    BY <2>2, <2>3, <2>4, OtherSteps DEF PayloadStep, streamVars
<1> QED
  BY <1>1, <1>2, <1>3, PTL DEF Spec, InOrderUntilSend
================================================================================
