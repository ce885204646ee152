----------------------------- MODULE ClientTransport -----------------------------
(***************************************************************************)
(* ClientTransport of client/network/client_transport.cpp: reads and       *)
(* writes of a UDP socket through one io_uring with kernel-side polling    *)
(* (SQPOLL).  The poll thread takes completions and submits the next read; *)
(* the thread that calls send submits writes on the same ring without a    *)
(* lock.  Payloads reach receive through ReceiveQueue.                     *)
(*                                                                         *)
(* liburing and the kernel are external: get_sqe loads the ring's tail,    *)
(* stores it plus one and answers a slot; prep fills the slot; submit      *)
(* publishes the tail; the kernel executes every published slot and posts  *)
(* a completion for each.                                                  *)
(***************************************************************************)
EXTENDS ReceiveQueue

CONSTANTS
    Entries,        \* bound: slots of the submission ring (256 in the code)
    MaxDatagrams,   \* bound: datagrams that arrive
    MaxSends,       \* bound: calls of send
    MaxFaults       \* bound: reads that fail or find an empty datagram

ASSUME ClientTransportAssumption ==
    /\ Entries \in Nat \ {0}
    /\ {MaxDatagrams, MaxSends, MaxFaults} \subseteq Nat

VARIABLES
    life,       \* what the owner is doing with the transport
    running,    \* running_
    ringSet,    \* whether io_uring_queue_init has set ring_ up, which no initialiser does
    pc,         \* where the poll thread and the sending thread are
    slot,       \* the ring tail each of them loaded in get_sqe
    sqes,       \* the submission slots
    sqTail,     \* the ring's tail in user memory
    published,  \* the tail submit published to the kernel
    consumed,   \* the kernel's head
    reads,      \* readv requests the kernel holds
    writes,     \* send requests the kernel holds
    cqes,       \* completions: whether res > 0, in order
    buffer,     \* what iovecs_[0] holds: a datagram's number, 0 at first
    socket,     \* datagrams in the socket's receive buffer
    accepted,   \* datagrams accepted so far
    faults,     \* reads failed so far
    outgoing    \* calls of send so far

ringVars == <<sqes, sqTail, published, consumed>>
kernelVars == <<reads, writes, cqes, buffer, socket, accepted, faults>>
threadVars == <<pc, slot>>
ownerVars == <<life, running, ringSet>>
vars == <<queueVars, ringVars, kernelVars, threadVars, ownerVars, outgoing>>

\* Ring indices run freely and are masked on use; twice the ring tells full from empty.
Index == 0..(2 * Entries - 1)
Plus(i, n) == (i + n) % (2 * Entries)
Pending(from, to) == (to - from) % (2 * Entries)

TypeOK ==
    /\ QueueTypeOK
    /\ life \in {"new", "failed", "open", "stopping", "gone", "crashed"}
    /\ {running, ringSet} \subseteq BOOLEAN
    /\ pc.poll \in {"none", "loop", "wait", "copy", "get", "advance", "prep", "submit",
                    "exited"}
    /\ pc.send \in {"idle", "advance", "prep", "submit"}
    /\ slot \in [{"poll", "send"} -> Index]
    /\ sqes \in [0..(Entries - 1) -> {"nop", "readv", "send"}]
    /\ {sqTail, published, consumed} \subseteq Index
    /\ {reads, writes, accepted, faults} \subseteq Nat
    /\ cqes \in Seq(BOOLEAN)
    /\ buffer \in 0..MaxDatagrams
    /\ socket \in Seq(1..MaxDatagrams)
    /\ outgoing \in 0..MaxSends

Init ==
    /\ QueueInit
    /\ life = "new"
    /\ running = FALSE /\ ringSet = FALSE
    /\ pc = [poll |-> "none", send |-> "idle"]
    /\ slot = [poll |-> 0, send |-> 0]
    /\ sqes = [i \in 0..(Entries - 1) |-> "nop"]
    /\ sqTail = 0 /\ published = 0 /\ consumed = 0
    /\ reads = 0 /\ writes = 0
    /\ cqes = <<>>
    /\ buffer = 0
    /\ socket = <<>>
    /\ accepted = 0
    /\ faults = 0
    /\ outgoing = 0

Goto(thread, label) == pc' = [pc EXCEPT ![thread] = label]

--------------------------------------------------------------------------------
(* The owner *)

\* The socket, the bind or the ring fails, or the registering of the buffers after it.
InitFails ==
    /\ life = "new"
    /\ life' = "failed"
    /\ ringSet' \in BOOLEAN
    /\ UNCHANGED <<queueVars, ringVars, kernelVars, threadVars, running, outgoing>>

\* Mutant: two reads are submitted at once, into the one buffer they share.
Bug_InitSubmitsTwoReads ==
    /\ life = "new"
    /\ life' = "open"
    /\ running' = TRUE /\ ringSet' = TRUE
    /\ sqes' = [i \in 0..(Entries - 1) |-> "readv"]
    /\ sqTail' = 2
    /\ published' = 2
    /\ Goto("poll", "loop")
    /\ UNCHANGED <<queueVars, consumed, kernelVars, slot, outgoing>>

\* setup_uring submits the first read before the poll thread starts.
InitSucceeds ==
    /\ life = "new"
    /\ life' = "open"
    /\ running' = TRUE /\ ringSet' = TRUE
    /\ sqes' = [sqes EXCEPT ![0] = "readv"]
    /\ sqTail' = 1
    /\ published' = 1
    /\ Goto("poll", "loop")
    /\ UNCHANGED <<queueVars, consumed, kernelVars, slot, outgoing>>

\* ~ClientTransport: running_ = false, and shutdown of the socket
DtorStops ==
    /\ life \in {"new", "failed", "open"}
    /\ caller = "idle"
    /\ pc.send = "idle"
    /\ life' = "stopping"
    /\ running' = FALSE
    /\ UNCHANGED <<queueVars, ringVars, kernelVars, threadVars, ringSet, outgoing>>

\* The poll thread is joined; the socket, the ring and the queue are destroyed.
DtorCloses ==
    /\ life = "stopping"
    /\ ringSet
    /\ pc.poll \in {"none", "exited"}
    /\ life' = "gone"
    /\ reads' = 0
    /\ writes' = 0
    /\ cqes' = <<>>
    /\ socket' = <<>>
    /\ rxq' = <<>>
    /\ UNCHANGED <<caller, last, answers, ringVars, buffer, accepted, faults,
                   threadVars, running, ringSet, outgoing>>

\* After an init that failed before the ring, or was never called, io_uring_queue_exit is
\* given a ring_ nobody wrote, which is undefined: it unmaps and closes what the memory
\* happens to name, and returns or crashes.  What it damages belongs to others.
DtorExitsUnsetRing ==
    /\ life = "stopping"
    /\ ~ringSet
    /\ pc.poll = "none"
    /\ life' \in {"gone", "crashed"}
    /\ UNCHANGED <<queueVars, ringVars, kernelVars, threadVars, running, ringSet, outgoing>>

--------------------------------------------------------------------------------
(* Submission: the same calls from both threads *)

\* get_sqe loads the tail; there is no slot while the ring is full.
RoomInRing == Pending(consumed, sqTail) < Entries

LoadTail(thread) == slot' = [slot EXCEPT ![thread] = sqTail]

\* get_sqe stores the tail plus one.
Advance(thread) ==
    /\ pc[thread] = "advance"
    /\ sqTail' = Plus(slot[thread], 1)
    /\ Goto(thread, "prep")
    /\ UNCHANGED <<queueVars, sqes, published, consumed, kernelVars, slot, ownerVars,
                   outgoing>>

\* io_uring_prep_readv by the poll thread, io_uring_prep_send by the sender
Prep(thread) ==
    /\ pc[thread] = "prep"
    /\ sqes' = [sqes EXCEPT ![slot[thread] % Entries] =
                    IF thread = "poll" THEN "readv" ELSE "send"]
    /\ Goto(thread, "submit")
    /\ UNCHANGED <<queueVars, sqTail, published, consumed, kernelVars, slot, ownerVars,
                   outgoing>>

\* io_uring_submit publishes whatever the tail is now, the other thread's slots included.
Submit(thread) ==
    /\ pc[thread] = "submit"
    /\ published' = sqTail
    /\ Goto(thread, IF thread = "poll" THEN "loop" ELSE "idle")
    /\ UNCHANGED <<queueVars, sqes, sqTail, consumed, kernelVars, slot, ownerVars, outgoing>>

--------------------------------------------------------------------------------
(* The poll thread *)

\* while (running_)
PollLoop ==
    /\ pc.poll = "loop"
    /\ Goto("poll", IF running THEN "wait" ELSE "exited")
    /\ UNCHANGED <<queueVars, ringVars, kernelVars, slot, ownerVars, outgoing>>

\* Mutant: the wait has no time limit.
Bug_PollWaitsForever ==
    /\ FALSE
    /\ UNCHANGED vars

\* io_uring_wait_cqe_timeout gives up after 100 ms: continue, without a new read.
PollTimesOut ==
    /\ pc.poll = "wait"
    /\ cqes = <<>>
    /\ Goto("poll", "loop")
    /\ UNCHANGED <<queueVars, ringVars, kernelVars, slot, ownerVars, outgoing>>

\* Mutant: res is not looked at.
Bug_PollTakesAnyResult ==
    /\ pc.poll = "wait"
    /\ cqes # <<>>
    /\ Goto("poll", "copy")
    /\ cqes' = Tail(cqes)
    /\ UNCHANGED <<queueVars, ringVars, reads, writes, buffer, socket, accepted, faults, slot, ownerVars, outgoing>>

\* Mutant: after a failed read no other read is submitted.
Bug_PollTakesNoRetry ==
    /\ pc.poll = "wait"
    /\ cqes # <<>>
    /\ Goto("poll", IF Head(cqes) THEN "copy" ELSE "loop")
    /\ cqes' = Tail(cqes)
    /\ UNCHANGED <<queueVars, ringVars, reads, writes, buffer, socket, accepted, faults, slot, ownerVars, outgoing>>

\* A completion: with res > 0 it is taken for a datagram, whichever request it ends.
PollTakes ==
    /\ pc.poll = "wait"
    /\ cqes # <<>>
    /\ Goto("poll", IF Head(cqes) THEN "copy" ELSE "get")
    /\ cqes' = Tail(cqes)
    /\ UNCHANGED <<queueVars, ringVars, reads, writes, buffer, socket, accepted, faults, slot, ownerVars, outgoing>>

\* The bytes of iovecs_[0] are copied and pushed under the queue's lock.
PollQueues ==
    /\ pc.poll = "copy"
    /\ Enqueue(buffer)
    /\ Goto("poll", "get")
    /\ UNCHANGED <<caller, last, answers, ringVars, kernelVars, slot, ownerVars, outgoing>>

\* submit_recv_multishot: get a slot for the next read, or return without one.
PollGets ==
    /\ pc.poll = "get"
    /\ IF RoomInRing
       THEN LoadTail("poll") /\ Goto("poll", "advance")
       ELSE UNCHANGED slot /\ Goto("poll", "loop")
    /\ UNCHANGED <<queueVars, ringVars, kernelVars, ownerVars, outgoing>>

Poll ==
    \/ PollLoop \/ PollTimesOut \/ PollTakes \/ PollQueues \/ PollGets
    \/ Advance("poll") \/ Prep("poll") \/ Submit("poll")

--------------------------------------------------------------------------------
(* The sending and the receiving thread *)

\* send of the next payload, put in the same buffer as the one before; without a slot it
\* answers "SQE queue full", which changes nothing.
SendBegins ==
    /\ life = "open"
    /\ pc.send = "idle"
    /\ outgoing < MaxSends
    /\ RoomInRing
    /\ outgoing' = outgoing + 1
    /\ LoadTail("send")
    /\ Goto("send", "advance")
    /\ UNCHANGED <<queueVars, ringVars, kernelVars, ownerVars>>

Send == SendBegins \/ Advance("send") \/ Prep("send") \/ Submit("send")

ReceiveCall ==
    /\ life = "open"
    /\ Receive
    /\ UNCHANGED <<ringVars, kernelVars, threadVars, ownerVars, outgoing>>

--------------------------------------------------------------------------------
(* The kernel *)

\* The poller takes the next published slot: a readv and a send are started, and an
\* empty slot completes with 0.
Execute ==
    /\ life \in {"open", "stopping"}
    /\ consumed # published
    /\ consumed' = Plus(consumed, 1)
    /\ LET request == sqes[consumed % Entries] IN
          /\ reads' = IF request = "readv" THEN reads + 1 ELSE reads
          /\ writes' = IF request = "send" THEN writes + 1 ELSE writes
          /\ cqes' = IF request = "nop" THEN Append(cqes, FALSE) ELSE cqes
    /\ UNCHANGED <<queueVars, sqes, sqTail, published, buffer, socket, accepted, faults,
                   threadVars, ownerVars, outgoing>>

Arrives ==
    /\ life = "open"
    /\ accepted < MaxDatagrams
    /\ accepted' = accepted + 1
    /\ socket' = Append(socket, accepted + 1)
    /\ UNCHANGED <<queueVars, ringVars, reads, writes, cqes, buffer, faults,
                   threadVars, ownerVars, outgoing>>

\* A readv takes the oldest datagram into iovecs_[0], which every readv names.
ReadCompletes ==
    /\ reads > 0
    /\ socket # <<>>
    /\ reads' = reads - 1
    /\ buffer' = Head(socket)
    /\ socket' = Tail(socket)
    /\ cqes' = Append(cqes, TRUE)
    /\ UNCHANGED <<queueVars, ringVars, writes, accepted, faults, threadVars,
                   ownerVars, outgoing>>

\* A readv fails, or takes an empty datagram: res <= 0.
ReadFails ==
    /\ reads > 0
    /\ faults < MaxFaults
    /\ faults' = faults + 1
    /\ reads' = reads - 1
    /\ cqes' = Append(cqes, FALSE)
    /\ UNCHANGED <<queueVars, ringVars, writes, buffer, socket, accepted,
                   threadVars, ownerVars, outgoing>>

\* The shutdown of the socket ends a pending readv with 0.
ShutdownEndsRead ==
    /\ life = "stopping"
    /\ reads > 0
    /\ reads' = reads - 1
    /\ cqes' = Append(cqes, FALSE)
    /\ UNCHANGED <<queueVars, ringVars, writes, buffer, socket, accepted, faults,
                   threadVars, ownerVars, outgoing>>

\* A send completes with the number of bytes sent.
WriteCompletes ==
    /\ writes > 0
    /\ writes' = writes - 1
    /\ cqes' = Append(cqes, TRUE)
    /\ UNCHANGED <<queueVars, ringVars, reads, buffer, socket, accepted, faults,
                   threadVars, ownerVars, outgoing>>

Kernel ==
    \/ Execute \/ Arrives
    \/ ReadCompletes \/ ReadFails \/ ShutdownEndsRead \/ WriteCompletes

Owner == InitFails \/ InitSucceeds \/ DtorStops \/ DtorCloses \/ DtorExitsUnsetRing

Next == Owner \/ Poll \/ Send \/ ReceiveCall \/ Kernel

\* Threads and kernel make progress and the receiving thread keeps calling receive;
\* nothing has to arrive, be sent or be destroyed.
Fairness ==
    /\ WF_vars(Poll)
    /\ WF_vars(Advance("send") \/ Prep("send") \/ Submit("send"))
    /\ WF_vars(Execute)
    /\ WF_vars(ReadCompletes)
    /\ WF_vars(WriteCompletes)
    /\ WF_vars(DtorCloses \/ DtorExitsUnsetRing)
    /\ WF_vars(ReceiveCall)

Spec == Init /\ [][Next]_vars
FairSpec == Spec /\ Fairness

--------------------------------------------------------------------------------
(* Properties *)

\* receive answers datagrams that arrived, in their order, each at most once.
Stream == INSTANCE DatagramStream
streamVars == <<accepted, last, answers>>
ImplementsStream == Stream!Spec

\* As long as nothing was sent, answers are in order and none is skipped or repeated.
InOrderUntilSend ==
    [][outgoing' = 0 => (Stream!Accept \/ (Stream!Answer /\ last' = last + 1))]_streamVars

\* Sends may make receive answer a datagram again, but never one older than the last.
NeverGoesBack == [][last' >= last]_vars

\* While the poll thread copies iovecs_[0] the kernel holds no read that could write it,
\* as long as nothing was sent.
BufferStable == (pc.poll = "copy" /\ outgoing = 0) => reads = 0

\* Every datagram that reaches the socket is answered, unless something was sent or the
\* transport is destroyed first: a failed read does not end reception.
EveryPayloadReceived ==
    \A d \in 1..MaxDatagrams :
        accepted >= d ~> (answers >= d \/ ~running \/ outgoing > 0)

\* The destructor returns, whatever the two threads did to the ring before, if there is a
\* ring; without one, io_uring_queue_exit is given a ring_ nobody wrote.
DestructorReturns == life = "stopping" ~> (life = "gone" \/ ~ringSet)

\* What the interface promises, "Receive next available payload.", whether something was
\* sent or not: a datagram that arrived is answered as long as the transport lives.  A send
\* that loads the ring's tail beside the poll thread takes the slot of the next read.
ReceptionSurvivesSends ==
    \A d \in 1..MaxDatagrams : accepted >= d ~> (last >= d \/ ~running)
================================================================================
