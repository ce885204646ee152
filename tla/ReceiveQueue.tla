------------------------------ MODULE ReceiveQueue ------------------------------
(***************************************************************************)
(* The queue between a transport's I/O thread and the thread that calls    *)
(* receive: ClientState of client/network/client_transport.cpp and         *)
(* ServerState of server/network/server_transport.cpp, which are the same  *)
(* code.  The mutex makes each part of receive between two waits one step. *)
(* A payload is the number of its datagram.                                *)
(***************************************************************************)
EXTENDS Naturals, Sequences

VARIABLES
    rxq,        \* state.queue
    caller,     \* where the receiving thread is: "idle" or "waiting" on the cv
    last,       \* the payload receive answered last (current_span_buffer)
    answers     \* how many payloads receive has answered

queueVars == <<rxq, caller, last, answers>>

QueueTypeOK ==
    /\ rxq \in Seq(Nat)
    /\ caller \in {"idle", "waiting"}
    /\ last \in Nat
    /\ answers \in Nat

QueueInit ==
    /\ rxq = <<>>
    /\ caller = "idle"
    /\ last = 0
    /\ answers = 0

\* The I/O thread: state.queue.push(data) under the lock.
Enqueue(payload) == rxq' = Append(rxq, payload)

\* Mutant: the newest payload is taken first.
Bug_TakeNewest ==
    /\ rxq # <<>>
    /\ last' = rxq[Len(rxq)]
    /\ rxq' = SubSeq(rxq, 1, Len(rxq) - 1)
    /\ answers' = answers + 1
    /\ caller' = "idle"

\* receive moves the front into current_span_buffer and answers a span over it: at once,
\* or when its wait ends with something in the queue.
Take ==
    /\ rxq # <<>>
    /\ last' = Head(rxq)
    /\ rxq' = Tail(rxq)
    /\ answers' = answers + 1
    /\ caller' = "idle"

\* receive finds nothing and waits on the condition variable ...
Wait ==
    /\ caller = "idle"
    /\ rxq = <<>>
    /\ caller' = "waiting"
    /\ UNCHANGED <<rxq, last, answers>>

\* ... and answers Timeout when there is still nothing at the end.
TimeOut ==
    /\ caller = "waiting"
    /\ rxq = <<>>
    /\ caller' = "idle"
    /\ UNCHANGED <<rxq, last, answers>>

Receive == Take \/ Wait \/ TimeOut
=================================================================================
