----------------------------- MODULE ServerTransport -----------------------------
(***************************************************************************)
(* ServerTransport of server/network/server_transport.cpp: overlapped      *)
(* reads and writes on a UDP socket, their completions dequeued by one     *)
(* worker thread from an I/O completion port, payloads handed to receive   *)
(* through ReceiveQueue.  Threads: the worker, the thread that calls send, *)
(* the thread that calls receive, and the owner that runs init and the     *)
(* destructor (when no other call is under way).  Every overlapped request *)
(* carries an IoContext of its own.                                        *)
(***************************************************************************)
EXTENDS ReceiveQueue, FiniteSets

CONSTANTS
    MaxDatagrams,   \* bound: datagrams with a payload that arrive
    MaxSends,       \* bound: calls of send
    MaxFaults,      \* bound: failed reads
    EmptyDatagrams  \* bound: zero-length datagrams that arrive

ASSUME ServerTransportAssumption ==
    {MaxDatagrams, MaxSends, MaxFaults, EmptyDatagrams} \subseteq Nat

VARIABLES
    life,       \* what the owner is doing with the transport
    running,    \* running_
    wpc,        \* where the worker is
    item,       \* the completion it dequeued
    posted,     \* reads the kernel holds
    sending,    \* writes the kernel holds
    iocp,       \* completions not yet dequeued, in order
    contexts,   \* IoContexts allocated and not deleted
    socket,     \* datagrams in the socket's receive buffer: a number, or 0 if empty
    accepted,   \* datagrams with a payload accepted so far
    sends,      \* calls of send so far
    faults,     \* failed reads so far
    empties     \* zero-length datagrams so far

kernelVars == <<posted, sending, iocp, socket, accepted, faults, empties>>
workerVars == <<wpc, item>>
ownerVars == <<life, running>>
vars == <<queueVars, kernelVars, workerVars, ownerVars, contexts, sends>>

Completion ==
    [op : {"read", "send", "wake"}, ok : BOOLEAN, data : 0..MaxDatagrams]
Wake == [op |-> "wake", ok |-> TRUE, data |-> 0]

TypeOK ==
    /\ QueueTypeOK
    /\ life \in {"new", "failed", "starting", "open", "stopping", "joining", "gone"}
    /\ running \in BOOLEAN
    /\ wpc \in {"none", "loop", "wait", "queue", "repost", "exited"}
    /\ item \in Completion
    /\ {posted, sending, contexts, accepted, sends, faults, empties} \subseteq Nat
    /\ iocp \in Seq(Completion)
    /\ socket \in Seq(0..MaxDatagrams)

Init ==
    /\ QueueInit
    /\ life = "new"
    /\ running = FALSE
    /\ wpc = "none"
    /\ item = Wake
    /\ posted = 0
    /\ sending = 0
    /\ iocp = <<>>
    /\ contexts = 0
    /\ socket = <<>>
    /\ accepted = 0
    /\ sends = 0
    /\ faults = 0
    /\ empties = 0

--------------------------------------------------------------------------------
(* The owner: init and the destructor *)

\* init cannot create or bind the socket, or the completion port: no worker is started.
InitFails ==
    /\ life = "new"
    /\ life' = "failed"
    /\ UNCHANGED <<queueVars, kernelVars, workerVars, running, contexts, sends>>

\* init starts the worker before the first read is posted.
InitStartsWorker ==
    /\ life = "new"
    /\ life' = "starting"
    /\ running' = TRUE
    /\ wpc' = "loop"
    /\ UNCHANGED <<queueVars, kernelVars, item, contexts, sends>>

\* post_receive: WSARecv keeps a fresh context, or fails and the context is deleted.
PostReceive ==
    \/ posted' = posted + 1 /\ contexts' = contexts + 1 /\ UNCHANGED faults
    \/ faults < MaxFaults /\ faults' = faults + 1 /\ UNCHANGED <<posted, contexts>>

InitPostsReceive ==
    /\ life = "starting"
    /\ PostReceive
    /\ life' = "open"
    /\ UNCHANGED <<queueVars, workerVars, running, sending, iocp, socket, accepted,
                   empties, sends>>

\* ~ServerTransport: running_ = false
DtorStops ==
    /\ life \in {"new", "failed", "open"}
    /\ caller = "idle"
    /\ life' = "stopping"
    /\ running' = FALSE
    /\ UNCHANGED <<queueVars, kernelVars, workerVars, contexts, sends>>

\* Mutant: the worker is not woken.
Bug_DtorWakesNobody ==
    /\ life = "stopping"
    /\ life' = "joining"
    /\ UNCHANGED <<queueVars, kernelVars, workerVars, running, contexts, sends>>

\* PostQueuedCompletionStatus(nullptr), when the completion port was created
DtorWakes ==
    /\ life = "stopping"
    /\ life' = "joining"
    /\ iocp' = IF wpc = "none" THEN iocp ELSE Append(iocp, Wake)
    /\ UNCHANGED <<queueVars, posted, sending, socket, accepted, faults, empties,
                   workerVars, running, contexts, sends>>

\* The worker is joined, the socket and the port closed (the requests the kernel still
\* holds are cancelled and nobody dequeues them) and the queue destroyed.
DtorCloses ==
    /\ life = "joining"
    /\ wpc \in {"none", "exited"}
    /\ life' = "gone"
    /\ posted' = 0
    /\ sending' = 0
    /\ iocp' = <<>>
    /\ socket' = <<>>
    /\ rxq' = <<>>
    /\ UNCHANGED <<caller, last, answers, accepted, faults, empties, workerVars,
                   running, contexts, sends>>

--------------------------------------------------------------------------------
(* The worker thread *)

\* while (running_)
WorkerLoop ==
    /\ wpc = "loop"
    /\ wpc' = IF running THEN "wait" ELSE "exited"
    /\ UNCHANGED <<queueVars, kernelVars, item, ownerVars, contexts, sends>>

\* GetQueuedCompletionStatus returns the oldest completion.
Dequeue ==
    /\ wpc = "wait"
    /\ iocp # <<>>
    /\ item' = Head(iocp)
    /\ iocp' = Tail(iocp)
    /\ UNCHANGED <<queueVars, posted, sending, socket, accepted, faults, empties,
                   ownerVars, sends>>

\* if (!running_) break: a context that came with the completion is not deleted.
WorkerBreaks ==
    /\ Dequeue
    /\ ~running
    /\ wpc' = "exited"
    /\ UNCHANGED contexts

\* A completion that carries a payload read from the network.
CarriesPayload(c) == c.op = "read" /\ c.ok /\ c.data > 0

WorkerReads ==
    /\ Dequeue
    /\ running
    /\ CarriesPayload(Head(iocp))
    /\ wpc' = "queue"
    /\ UNCHANGED contexts

\* A failed request, a finished write or an empty datagram: its context is deleted, and
\* no other read is posted.
WorkerDiscards ==
    /\ Dequeue
    /\ running
    /\ ~CarriesPayload(Head(iocp))
    /\ contexts' = IF Head(iocp).op = "wake" THEN contexts ELSE contexts - 1
    /\ wpc' = "loop"

WorkerQueues ==
    /\ wpc = "queue"
    /\ Enqueue(item.data)
    /\ wpc' = "repost"
    /\ UNCHANGED <<caller, last, answers, kernelVars, item, ownerVars, contexts, sends>>

\* Mutant: the next read is never posted.
Bug_WorkerForgetsRepost ==
    /\ wpc = "repost"
    /\ contexts' = contexts - 1
    /\ wpc' = "loop"
    /\ UNCHANGED <<queueVars, kernelVars, item, ownerVars, sends>>

\* Mutant: the context of the finished read is not deleted.
Bug_WorkerLeaksContext ==
    /\ wpc = "repost"
    /\ PostReceive
    /\ wpc' = "loop"
    /\ UNCHANGED <<queueVars, sending, iocp, socket, accepted, empties, item, ownerVars,
                   sends>>

\* post_receive() for the next datagram, then delete ctx
WorkerReposts ==
    /\ wpc = "repost"
    /\ \/ posted' = posted + 1 /\ UNCHANGED <<contexts, faults>>
       \/ /\ faults < MaxFaults
          /\ faults' = faults + 1
          /\ contexts' = contexts - 1
          /\ UNCHANGED posted
    /\ wpc' = "loop"
    /\ UNCHANGED <<queueVars, sending, iocp, socket, accepted, empties, item, ownerVars,
                   sends>>

Worker ==
    \/ WorkerLoop \/ WorkerBreaks \/ WorkerReads \/ WorkerDiscards
    \/ WorkerQueues \/ WorkerReposts

--------------------------------------------------------------------------------
(* The thread that calls send and the one that calls receive *)

\* WSASend takes the context (or fails at once, which changes nothing).
Send ==
    /\ life = "open"
    /\ sends < MaxSends
    /\ sends' = sends + 1
    /\ sending' = sending + 1
    /\ contexts' = contexts + 1
    /\ UNCHANGED <<queueVars, posted, iocp, socket, accepted, faults, empties,
                   workerVars, ownerVars>>

ReceiveCall ==
    /\ life = "open"
    /\ Receive
    /\ UNCHANGED <<kernelVars, workerVars, ownerVars, contexts, sends>>

--------------------------------------------------------------------------------
(* The kernel: datagrams arrive, requests complete *)

Bound == life \in {"starting", "open", "stopping", "joining"} /\ wpc # "none"

Arrives ==
    /\ Bound
    /\ accepted < MaxDatagrams
    /\ accepted' = accepted + 1
    /\ socket' = Append(socket, accepted + 1)
    /\ UNCHANGED <<queueVars, posted, sending, iocp, faults, empties, workerVars,
                   ownerVars, contexts, sends>>

EmptyArrives ==
    /\ Bound
    /\ empties < EmptyDatagrams
    /\ empties' = empties + 1
    /\ socket' = Append(socket, 0)
    /\ UNCHANGED <<queueVars, posted, sending, iocp, accepted, faults, workerVars,
                   ownerVars, contexts, sends>>

\* A posted read takes the oldest datagram.
ReadCompletes ==
    /\ posted > 0
    /\ socket # <<>>
    /\ posted' = posted - 1
    /\ socket' = Tail(socket)
    /\ iocp' = Append(iocp, [op |-> "read", ok |-> TRUE, data |-> Head(socket)])
    /\ UNCHANGED <<queueVars, sending, accepted, faults, empties, workerVars, ownerVars,
                   contexts, sends>>

\* A posted read fails (a port-unreachable answer to an earlier send, for one).
ReadFails ==
    /\ posted > 0
    /\ faults < MaxFaults
    /\ faults' = faults + 1
    /\ posted' = posted - 1
    /\ iocp' = Append(iocp, [op |-> "read", ok |-> FALSE, data |-> 0])
    /\ UNCHANGED <<queueVars, sending, socket, accepted, empties, workerVars, ownerVars,
                   contexts, sends>>

\* A write finishes, well or not.
SendCompletes ==
    /\ sending > 0
    /\ sending' = sending - 1
    /\ \E ok \in BOOLEAN : iocp' = Append(iocp, [op |-> "send", ok |-> ok, data |-> 0])
    /\ UNCHANGED <<queueVars, posted, socket, accepted, faults, empties, workerVars,
                   ownerVars, contexts, sends>>

Kernel == Arrives \/ EmptyArrives \/ ReadCompletes \/ ReadFails \/ SendCompletes

Owner ==
    \/ InitFails \/ InitStartsWorker \/ InitPostsReceive
    \/ DtorStops \/ DtorWakes \/ DtorCloses

Next == Owner \/ Worker \/ Send \/ ReceiveCall \/ Kernel

\* The worker and the kernel make progress, calls that were begun end, and the receiving
\* thread keeps calling receive; nothing has to arrive, be sent or be destroyed.
Fairness ==
    /\ WF_vars(Worker)
    /\ WF_vars(ReadCompletes)
    /\ WF_vars(InitPostsReceive)
    /\ WF_vars(DtorWakes)
    /\ WF_vars(DtorCloses)
    /\ WF_vars(ReceiveCall)

Spec == Init /\ [][Next]_vars
FairSpec == Spec /\ Fairness

--------------------------------------------------------------------------------
(* Properties *)

\* receive answers datagrams that arrived, in their order, each at most once, through
\* any mix of failed reads, empty datagrams and sends.
Stream == INSTANCE DatagramStream
ImplementsStream == Stream!Spec

\* The completions that are not the wake-up of the destructor.
Requests(q) == {i \in DOMAIN q : q[i].op # "wake"}

\* Every live IoContext belongs to exactly one request: held by the kernel, waiting in
\* the completion port, or being handled by the worker.  None is deleted twice or
\* forgotten until the worker ends, the destructor's first steps included.
ContextsAccounted ==
    (life # "gone" /\ wpc # "exited") =>
        contexts = posted + sending + Cardinality(Requests(iocp))
                       + (IF wpc \in {"queue", "repost"} THEN 1 ELSE 0)

\* The destructor returns: the worker cannot sleep through running_ = false.
DestructorReturns == life = "stopping" ~> life = "gone"

\* Every payload that reaches the socket is answered by receive, unless the transport is
\* destroyed first.
EveryPayloadReceived ==
    \A d \in 1..MaxDatagrams : accepted >= d ~> (answers >= d \/ ~running)

\* The same as long as no read has failed and no datagram was empty: sends, however they
\* complete, and the wake-up of the destructor do not end reception.
SoundReception ==
    \A d \in 1..MaxDatagrams :
        accepted >= d ~> (answers >= d \/ ~running \/ faults + empties > 0)
================================================================================
