-------------------------- MODULE ServerTransport_proofs --------------------------
(***************************************************************************)
(* For any number of datagrams, sends, failed reads and empty datagrams:   *)
(* ServerTransport implements DatagramStream.  A payload passes from the   *)
(* socket through the completion port and the worker to the queue; the     *)
(* invariant says that along the way payloads stay in the order of their   *)
(* arrival, that none is in two places, and that all come after the one    *)
(* receive answered last.                                                  *)
(*                                                                         *)
(* And every IoContext is that of one request, from the WSARecv or WSASend *)
(* that posts it to the worker that deletes it.                            *)
(***************************************************************************)
EXTENDS ServerTransport, FiniteSetTheorems, TLAPS

\* The payloads in a sequence of numbers, where 0 stands for none.
In(s) == {s[i] : i \in DOMAIN s} \ {0}

\* They are in the order in which they arrived.
Rising(s) == \A i, j \in DOMAIN s : i < j /\ s[i] # 0 /\ s[j] # 0 => s[i] < s[j]

\* All payloads of S arrived before those of T.
Below(S, T) == \A x \in S, y \in T : x < y

\* What the completions in the port carry, and what the worker is about to queue.
Carried(q) == [i \in DOMAIN q |-> IF CarriesPayload(q[i]) THEN q[i].data ELSE 0]
Handled == IF wpc = "queue" THEN {item.data} \ {0} ELSE {}

TransitTypes ==
    /\ rxq \in Seq(Nat \ {0})
    /\ iocp \in Seq(Completion)
    /\ socket \in Seq(0..MaxDatagrams)
    /\ item \in Completion
    /\ wpc = "queue" => item.data # 0
    /\ accepted \in Nat
    /\ last \in Nat /\ last <= accepted
    /\ answers \in Nat

InOrder ==
    /\ Rising(rxq) /\ Rising(Carried(iocp)) /\ Rising(socket)
    /\ Below(In(rxq), Handled)
    /\ Below(In(rxq), In(Carried(iocp)))
    /\ Below(In(rxq), In(socket))
    /\ Below(Handled, In(Carried(iocp)))
    /\ Below(Handled, In(socket))
    /\ Below(In(Carried(iocp)), In(socket))

InTransit == In(rxq) \cup Handled \cup In(Carried(iocp)) \cup In(socket)

StreamInv ==
    /\ TransitTypes
    /\ InOrder
    /\ \A x \in InTransit : last < x /\ x <= accepted

--------------------------------------------------------------------------------
(* Sequences of payloads *)

\* One more payload, or none, at the end.
LEMMA InAppend ==
    ASSUME NEW s \in Seq(Nat), NEW x \in Nat
    PROVE  In(Append(s, x)) = In(s) \cup ({x} \ {0})
<1> DEFINE t == Append(s, x)
<1>1. /\ Len(s) \in Nat /\ DOMAIN s = 1..Len(s) /\ DOMAIN t = 1..(Len(s) + 1)
      /\ \A i \in 1..Len(s) : t[i] = s[i]
      /\ t[Len(s) + 1] = x
  OBVIOUS
<1> HIDE DEF t
<1>2. ASSUME NEW y
      PROVE  (\E i \in DOMAIN t : t[i] = y) <=> (\E i \in DOMAIN s : s[i] = y) \/ y = x
  <2>1. ASSUME NEW i \in DOMAIN t
        PROVE  i \in DOMAIN s \/ i = Len(s) + 1
    BY <1>1
  <2>2. DOMAIN s \subseteq DOMAIN t /\ Len(s) + 1 \in DOMAIN t
    BY <1>1
  <2> QED
    BY <1>1, <2>1, <2>2
<1> QED
  BY <1>2 DEF In, t

LEMMA RisingAppend ==
    ASSUME NEW s \in Seq(Nat), NEW x \in Nat, Rising(s), Below(In(s), {x} \ {0})
    PROVE  Rising(Append(s, x))
<1> SUFFICES ASSUME NEW i \in 1..(Len(s) + 1), NEW j \in 1..(Len(s) + 1), i < j,
                    Append(s, x)[i] # 0, Append(s, x)[j] # 0
             PROVE  Append(s, x)[i] < Append(s, x)[j]
  BY DEF Rising
<1>1. i \in 1..Len(s) /\ Append(s, x)[i] = s[i]
  OBVIOUS
<1>2. CASE j \in 1..Len(s)
  BY <1>1, <1>2 DEF Rising
<1>3. CASE j = Len(s) + 1
  <2>1. s[i] \in In(s) /\ x \in {x} \ {0}
    BY <1>1, <1>3 DEF In
  <2> QED
    BY <1>1, <1>3, <2>1 DEF Below
<1> QED
  BY <1>2, <1>3

\* The first one taken away.
LEMMA TailOf ==
    ASSUME NEW s \in Seq(Nat), s # <<>>, Rising(s)
    PROVE  /\ Tail(s) \in Seq(Nat)
           /\ Rising(Tail(s))
           /\ In(Tail(s)) \subseteq In(s)
           /\ {Head(s)} \ {0} \subseteq In(s)
           /\ Below({Head(s)} \ {0}, In(Tail(s)))
<1>1. /\ Len(s) \in Nat \ {0} /\ Tail(s) \in Seq(Nat) /\ Len(Tail(s)) = Len(s) - 1
      /\ \A i \in 1..(Len(s) - 1) : i + 1 \in 1..Len(s) /\ Tail(s)[i] = s[i + 1]
      /\ Head(s) = s[1] /\ 1 \in DOMAIN s
  OBVIOUS
<1>2. Rising(Tail(s))
  BY <1>1 DEF Rising
<1>3. In(Tail(s)) \subseteq In(s)
  BY <1>1 DEF In
<1>4. {Head(s)} \ {0} \subseteq In(s)
  BY <1>1 DEF In
<1>5. Below({Head(s)} \ {0}, In(Tail(s)))
  BY <1>1 DEF Rising, In, Below
<1> QED
  BY <1>1, <1>2, <1>3, <1>4, <1>5

\* The completion port.
LEMMA CarriedType == \A q \in Seq(Completion) : Carried(q) \in Seq(Nat)
<1> SUFFICES ASSUME NEW q \in Seq(Completion)
             PROVE  Carried(q) \in Seq(Nat)
  OBVIOUS
<1>1. Len(q) \in Nat /\ DOMAIN q = 1..Len(q)
  OBVIOUS
<1>2. ASSUME NEW i \in DOMAIN q
      PROVE  q[i].data \in Nat
  <2>1. q[i] \in Completion
    OBVIOUS
  <2> QED
    BY <2>1, ServerTransportAssumption DEF Completion
<1>3. Carried(q) \in [1..Len(q) -> Nat]
  BY <1>1, <1>2 DEF Carried
<1> QED
  BY <1>1, <1>3

LEMMA CarriedAppend ==
    ASSUME NEW q \in Seq(Completion), NEW c \in Completion
    PROVE  Carried(Append(q, c))
             = Append(Carried(q), IF CarriesPayload(c) THEN c.data ELSE 0)
  BY DEF Carried

LEMMA CarriedTail ==
    ASSUME NEW q \in Seq(Completion), q # <<>>
    PROVE  /\ Carried(Tail(q)) = Tail(Carried(q))
           /\ Carried(q) # <<>>
           /\ Head(Carried(q)) = IF CarriesPayload(Head(q)) THEN Head(q).data ELSE 0
  BY DEF Carried

\* Order is kept by whatever is between the two.
LEMMA BelowParts ==
    \A S, T, U, V : Below(S, T) /\ U \subseteq S /\ V \subseteq T => Below(U, V)
  BY DEF Below

--------------------------------------------------------------------------------
(* The invariant *)

\* Nothing is under way at first.
LEMMA StreamInitInv == Init => StreamInv
<1> SUFFICES ASSUME Init
             PROVE  StreamInv
  OBVIOUS
<1>1. rxq = <<>> /\ iocp = <<>> /\ socket = <<>> /\ last = 0 /\ accepted = 0 /\ answers = 0
      /\ wpc = "none" /\ item = Wake
  BY DEF Init, QueueInit
<1>2. TransitTypes
  BY <1>1, ServerTransportAssumption DEF TransitTypes, Wake, Completion
<1>3. Carried(iocp) = <<>> /\ In(<<>>) = {} /\ Handled = {} /\ Rising(<<>>)
  BY <1>1 DEF Carried, In, Handled, Rising
<1> QED
  BY <1>1, <1>2, <1>3 DEF StreamInv, InOrder, InTransit, Below

\* A step that adds no payload anywhere, and lets receive answer none, keeps the order of
\* those that stay.
LEMMA FewerPayloads ==
    ASSUME StreamInv, TransitTypes', last' = last, accepted' = accepted,
           Rising(rxq'), In(rxq') \subseteq In(rxq),
           Rising(Carried(iocp')), In(Carried(iocp')) \subseteq In(Carried(iocp)),
           Rising(socket'), In(socket') \subseteq In(socket),
           Handled' \subseteq Handled
    PROVE  StreamInv'
<1>1. InOrder'
  BY BelowParts DEF StreamInv, InOrder
<1>2. \A x \in InTransit' : last' < x /\ x <= accepted'
  BY DEF StreamInv, InTransit
<1> QED
  BY <1>1, <1>2 DEF StreamInv

\* The owner and the sender, and the worker where it has no payload.
LEMMA QuietStep ==
    ASSUME StreamInv, UNCHANGED <<rxq, iocp, socket, last, accepted, answers, item>>,
           wpc' = wpc \/ wpc' # "queue"
    PROVE  StreamInv'
<1>1. TransitTypes'
  BY DEF StreamInv, TransitTypes
<1>2. Handled' \subseteq Handled
  BY DEF Handled
<1> QED
  BY <1>1, <1>2, FewerPayloads DEF StreamInv, InOrder

\* A completion without a payload.
LEMMA PortGrows ==
    ASSUME StreamInv, UNCHANGED <<rxq, last, accepted, answers, item, wpc>>,
           socket' \in Seq(0..MaxDatagrams), Rising(socket'), In(socket') \subseteq In(socket),
           NEW c \in Completion, ~CarriesPayload(c), iocp' = Append(iocp, c)
    PROVE  StreamInv'
<1>1. iocp \in Seq(Completion) /\ Carried(iocp) \in Seq(Nat)
  BY CarriedType DEF StreamInv, TransitTypes
<1>2. Carried(iocp') = Append(Carried(iocp), 0)
  BY <1>1, CarriedAppend
<1>3. In(Carried(iocp')) = In(Carried(iocp))
  <2>1. In(Carried(iocp')) = In(Carried(iocp)) \cup ({0} \ {0})
    BY <1>1, <1>2, InAppend
  <2> QED
    BY <2>1
<1>4. Rising(Carried(iocp'))
  <2>1. Below(In(Carried(iocp)), {0} \ {0})
    BY DEF Below
  <2> QED
    BY <1>1, <1>2, <2>1, RisingAppend DEF StreamInv, InOrder
<1>5. TransitTypes'
  BY <1>1 DEF StreamInv, TransitTypes
<1>6. Handled' = Handled
  BY DEF Handled
<1> QED
  BY <1>3, <1>4, <1>5, <1>6, FewerPayloads DEF StreamInv, InOrder

\* Every step keeps the invariant.
LEMMA StreamStepInv == StreamInv /\ [Next]_vars => StreamInv'
<1> SUFFICES ASSUME StreamInv, [Next]_vars
             PROVE  StreamInv'
  OBVIOUS
<1> DEFINE port == Carried(iocp)
<1>0. /\ TransitTypes /\ InOrder
      /\ \A x \in InTransit : last < x /\ x <= accepted
      /\ rxq \in Seq(Nat) /\ iocp \in Seq(Completion) /\ socket \in Seq(Nat) /\ port \in Seq(Nat)
      /\ socket \in Seq(0..MaxDatagrams) /\ MaxDatagrams \in Nat
      /\ rxq \in Seq(Nat \ {0})
      /\ accepted \in Nat /\ last \in Nat /\ last <= accepted /\ answers \in Nat
  BY CarriedType, ServerTransportAssumption DEF StreamInv, TransitTypes
<1>a. InTransit \subseteq Nat
  <2>1. \A s \in Seq(Nat) : In(s) \subseteq Nat
    BY DEF In
  <2>2. item.data \in Nat
    BY <1>0 DEF TransitTypes, Completion
  <2> QED
    BY <1>0, <2>1, <2>2 DEF InTransit, Handled
<1>b. In(<<>>) = {} /\ Rising(<<>>) /\ Carried(<<>>) = <<>> /\ {0} \ {0} = {}
  BY DEF In, Rising, Carried
<1>c. \A S : Below(S, {}) /\ Below({}, S)
  BY DEF Below
<1> HIDE DEF port
<1>1. CASE Arrives
  <2>1. /\ accepted < MaxDatagrams /\ accepted' = accepted + 1
        /\ socket' = Append(socket, accepted + 1)
        /\ UNCHANGED <<rxq, last, answers, iocp, item, wpc>>
    BY <1>1 DEF Arrives, queueVars, workerVars
  <2>2. In(socket') = In(socket) \cup {accepted + 1}
    <3>1. In(socket') = In(socket) \cup ({accepted + 1} \ {0})
      BY <1>0, <2>1, InAppend
    <3> QED
      BY <1>0, <3>1
  <2>3. \A x \in InTransit : x < accepted + 1
    BY <1>0, <1>a
  <2>4. Rising(socket')
    <3>1. Below(In(socket), {accepted + 1} \ {0})
      BY <2>3 DEF Below, InTransit
    <3> QED
      BY <1>0, <2>1, <3>1, RisingAppend DEF InOrder
  <2>5. TransitTypes'
    BY <1>0, <2>1 DEF TransitTypes
  <2>6. Handled' = Handled
    BY <2>1 DEF Handled
  <2>7. InOrder'
    BY <1>0, <2>1, <2>2, <2>3, <2>4, <2>6 DEF InOrder, InTransit, Below
  <2>8. \A x \in InTransit' : last' < x /\ x <= accepted'
    <3>1. InTransit' = InTransit \cup {accepted + 1}
      BY <2>1, <2>2, <2>6 DEF InTransit
    <3> QED
      BY <1>0, <1>a, <2>1, <3>1
  <2> QED
    BY <2>5, <2>7, <2>8 DEF StreamInv
<1>2. CASE EmptyArrives
  <2>1. socket' = Append(socket, 0) /\ UNCHANGED <<rxq, last, answers, accepted, iocp, item, wpc>>
    BY <1>2 DEF EmptyArrives, queueVars, workerVars
  <2>2. In(socket') \subseteq In(socket)
    BY <1>0, <1>b, <2>1, InAppend
  <2>3. Rising(socket')
    BY <1>0, <1>b, <1>c, <2>1, RisingAppend DEF InOrder
  <2>4. TransitTypes'
    BY <1>0, <2>1 DEF TransitTypes
  <2>5. Handled' = Handled
    BY <2>1 DEF Handled
  <2> QED
    BY <1>0, <2>1, <2>2, <2>3, <2>4, <2>5, FewerPayloads DEF InOrder
<1>3. CASE ReadCompletes
  <2> DEFINE d == Head(socket)
             c == [op |-> "read", ok |-> TRUE, data |-> d]
  <2>1. /\ socket # <<>> /\ socket' = Tail(socket) /\ iocp' = Append(iocp, c)
        /\ UNCHANGED <<rxq, last, answers, accepted, item, wpc>>
    BY <1>3 DEF ReadCompletes, queueVars, workerVars
  <2>2. d \in 0..MaxDatagrams /\ d \in Nat /\ c \in Completion /\ socket' \in Seq(0..MaxDatagrams)
    BY <1>0, <2>1 DEF Completion
  <2>3. (IF CarriesPayload(c) THEN c.data ELSE 0) = d
    BY <2>2 DEF CarriesPayload
  <2> HIDE DEF d
  <2>4. /\ Rising(socket') /\ In(socket') \subseteq In(socket)
        /\ {d} \ {0} \subseteq In(socket) /\ Below({d} \ {0}, In(socket'))
    BY <1>0, <2>1, TailOf DEF InOrder, d
  <2>5. Carried(iocp') = Append(port, d)
    BY <1>0, <2>1, <2>2, <2>3, CarriedAppend DEF port
  <2> HIDE DEF c
  <2>6. In(Carried(iocp')) = In(port) \cup ({d} \ {0})
    BY <1>0, <2>2, <2>5, InAppend
  <2>7. Rising(Carried(iocp'))
    <3>1. Below(In(port), {d} \ {0})
      BY <1>0, <2>4 DEF InOrder, Below, port
    <3> QED
      BY <1>0, <2>2, <2>5, <3>1, RisingAppend DEF InOrder, port
  <2>8. TransitTypes'
    BY <1>0, <2>1, <2>2 DEF TransitTypes
  <2>9. Handled' = Handled
    BY <2>1 DEF Handled
  <2>10. InOrder'
    BY <1>0, <2>1, <2>4, <2>6, <2>7, <2>9 DEF InOrder, Below, port
  <2>11. \A x \in InTransit' : last' < x /\ x <= accepted'
    BY <1>0, <2>1, <2>4, <2>6, <2>9 DEF InTransit, port
  <2> QED
    BY <2>8, <2>10, <2>11 DEF StreamInv
<1>4. CASE ReadFails \/ SendCompletes
  <2>1. /\ UNCHANGED <<rxq, last, answers, accepted, item, wpc, socket>>
        /\ \E ok \in BOOLEAN :
              \/ iocp' = Append(iocp, [op |-> "read", ok |-> FALSE, data |-> 0])
              \/ iocp' = Append(iocp, [op |-> "send", ok |-> ok, data |-> 0])
    BY <1>4 DEF ReadFails, SendCompletes, queueVars, workerVars
  <2>2. \A ok \in BOOLEAN, op \in {"read", "send"} :
           LET c == [op |-> op, ok |-> ok, data |-> 0]
           IN  c \in Completion /\ ~CarriesPayload(c)
    BY <1>0 DEF Completion, CarriesPayload
  <2> QED
    BY <1>0, <2>1, <2>2, PortGrows DEF InOrder
<1>5. CASE InitFails \/ InitStartsWorker \/ InitPostsReceive \/ DtorStops
           \/ WorkerLoop \/ WorkerReposts \/ Send
  <2>1. UNCHANGED <<rxq, iocp, socket, last, accepted, answers, item>>
    BY <1>5 DEF InitFails, InitStartsWorker, InitPostsReceive, DtorStops, WorkerLoop,
                WorkerReposts, Send, queueVars, kernelVars, workerVars, PostReceive
  <2>2. wpc' = wpc \/ wpc' # "queue"
    BY <1>5 DEF InitFails, InitStartsWorker, InitPostsReceive, DtorStops, WorkerLoop,
                WorkerReposts, Send, workerVars
  <2> QED
    BY <2>1, <2>2, QuietStep
<1>6. CASE DtorWakes
  <2>1. /\ UNCHANGED <<rxq, socket, last, answers, accepted, item, wpc>>
        /\ iocp' = iocp \/ iocp' = Append(iocp, Wake)
    BY <1>6 DEF DtorWakes, queueVars, workerVars
  <2>2. Wake \in Completion /\ ~CarriesPayload(Wake)
    BY <1>0 DEF Wake, Completion, CarriesPayload
  <2> QED
    BY <1>0, <2>1, <2>2, PortGrows, QuietStep DEF InOrder
<1>7. CASE DtorCloses
  <2>1. /\ iocp' = <<>> /\ socket' = <<>> /\ rxq' = <<>>
        /\ UNCHANGED <<last, answers, accepted, item, wpc>>
    BY <1>7 DEF DtorCloses, workerVars
  <2>2. TransitTypes'
    BY <1>0, <2>1 DEF TransitTypes
  <2>3. Handled' = Handled
    BY <2>1 DEF Handled
  <2> QED
    BY <1>b, <2>1, <2>2, <2>3, FewerPayloads
<1>8. CASE Dequeue /\ (WorkerBreaks \/ WorkerReads \/ WorkerDiscards)
  <2> DEFINE d == Head(port)
  <2>1. /\ wpc = "wait" /\ iocp # <<>> /\ item' = Head(iocp) /\ iocp' = Tail(iocp)
        /\ UNCHANGED <<rxq, last, answers, accepted, socket>>
    BY <1>8 DEF Dequeue, queueVars
  <2>2. /\ Carried(iocp') = Tail(port) /\ port # <<>>
        /\ d = IF CarriesPayload(Head(iocp)) THEN Head(iocp).data ELSE 0
    BY <1>0, <2>1, CarriedTail DEF port
  <2> HIDE DEF d
  <2>3. /\ Rising(Carried(iocp')) /\ In(Carried(iocp')) \subseteq In(port)
        /\ {d} \ {0} \subseteq In(port) /\ Below({d} \ {0}, In(Carried(iocp')))
    BY <1>0, <2>2, TailOf DEF InOrder, port, d
  <2>4. /\ wpc' \in {"queue", "loop", "exited"}
        /\ wpc' = "queue" => item'.data = d /\ d # 0
    BY <1>8, <2>1, <2>2 DEF WorkerBreaks, WorkerReads, WorkerDiscards, CarriesPayload
  <2>5. Handled' \subseteq {d} \ {0}
    BY <2>4 DEF Handled
  <2>6. TransitTypes'
    <3>1. item' \in Completion /\ iocp' \in Seq(Completion)
      BY <1>0, <2>1
    <3> QED
      BY <1>0, <2>1, <2>4, <3>1 DEF TransitTypes
  <2>7. InOrder'
    BY <1>0, <2>1, <2>3, <2>5 DEF InOrder, Below, port
  <2>8. \A x \in InTransit' : last' < x /\ x <= accepted'
    BY <1>0, <2>1, <2>3, <2>5 DEF InTransit, port
  <2> QED
    BY <2>6, <2>7, <2>8 DEF StreamInv
<1>9. CASE WorkerQueues
  <2> DEFINE d == item.data
  <2>1. /\ wpc = "queue" /\ rxq' = Append(rxq, d) /\ wpc' = "repost"
        /\ UNCHANGED <<last, answers, accepted, socket, iocp, item>>
    BY <1>9 DEF WorkerQueues, Enqueue, kernelVars
  <2>2. d \in Nat \ {0} /\ Handled = {d} /\ Handled' = {}
    BY <1>0, <2>1 DEF TransitTypes, Completion, Handled
  <2> HIDE DEF d
  <2>3. In(rxq') = In(rxq) \cup {d}
    <3>1. In(rxq') = In(rxq) \cup ({d} \ {0})
      BY <1>0, <2>1, <2>2, InAppend
    <3> QED
      BY <2>2, <3>1
  <2>4. Rising(rxq')
    <3>1. Below(In(rxq), {d} \ {0})
      BY <1>0, <2>2 DEF InOrder, Below
    <3> QED
      BY <1>0, <2>1, <2>2, <3>1, RisingAppend DEF InOrder
  <2>5. TransitTypes'
    BY <1>0, <2>1, <2>2 DEF TransitTypes
  <2>6. InOrder'
    BY <1>0, <2>1, <2>2, <2>3, <2>4 DEF InOrder, Below
  <2>7. \A x \in InTransit' : last' < x /\ x <= accepted'
    BY <1>0, <2>1, <2>2, <2>3 DEF InTransit
  <2> QED
    BY <2>5, <2>6, <2>7 DEF StreamInv
<1>10. CASE ReceiveCall
  <2>1. UNCHANGED <<accepted, socket, iocp, item, wpc>>
    BY <1>10 DEF ReceiveCall, kernelVars, workerVars
  <2>2. CASE Wait \/ TimeOut
    BY <2>1, <2>2, QuietStep DEF Wait, TimeOut
  <2>3. CASE Take
    <3> DEFINE d == Head(rxq)
    <3>1. rxq # <<>> /\ rxq' = Tail(rxq) /\ last' = d /\ answers' = answers + 1
      BY <2>3 DEF Take
    <3>2. d \in Nat \ {0} /\ rxq' \in Seq(Nat \ {0})
      BY <1>0, <3>1
    <3> HIDE DEF d
    <3>3. /\ Rising(rxq') /\ In(rxq') \subseteq In(rxq)
          /\ {d} \ {0} \subseteq In(rxq) /\ Below({d} \ {0}, In(rxq'))
      BY <1>0, <3>1, TailOf DEF InOrder, d
    <3>4. d \in In(rxq) /\ d <= accepted
      BY <1>0, <3>2, <3>3 DEF InTransit
    <3>5. Handled' = Handled
      BY <2>1 DEF Handled
    <3>6. TransitTypes'
      BY <1>0, <2>1, <3>1, <3>2, <3>4 DEF TransitTypes
    <3>7. InOrder'
      BY <1>0, <2>1, <3>3, <3>5 DEF InOrder, Below
    <3>8. \A x \in InTransit' : last' < x /\ x <= accepted'
      <4>1. \A x \in In(rxq') : d < x
        BY <3>2, <3>3 DEF Below
      <4>2. \A x \in Handled \cup In(port) \cup In(socket) : d < x
        BY <1>0, <3>4 DEF InOrder, Below, port
      <4> QED
        BY <1>0, <2>1, <3>1, <3>3, <3>5, <4>1, <4>2 DEF InTransit, port
    <3> QED
      BY <3>6, <3>7, <3>8 DEF StreamInv
  <2> QED
    BY <1>10, <2>2, <2>3 DEF ReceiveCall, Receive
<1>11. CASE UNCHANGED vars
  BY <1>11, QuietStep DEF vars, queueVars, kernelVars, workerVars
<1> QED
  BY <1>1, <1>2, <1>3, <1>4, <1>5, <1>6, <1>7, <1>8, <1>9, <1>10, <1>11
  DEF Next, Owner, Worker, Kernel, WorkerBreaks, WorkerReads, WorkerDiscards

\* The invariant holds in every behaviour of ServerTransport.
THEOREM StreamInvariant == Spec => []StreamInv
  BY StreamInitInv, StreamStepInv, PTL DEF Spec

\* receive answers payloads that arrived, in their order, each at most once, through any
\* mix of failed reads, empty datagrams, sends and the destructor: the transport
\* implements DatagramStream.
THEOREM TransportIsStream == Spec => ImplementsStream
<1>1. Init => Stream!Init
  BY DEF Init, QueueInit, Stream!Init
<1>2. StreamInv /\ [Next]_vars => [Stream!Accept \/ Stream!Answer]_Stream!streamVars
  <2> SUFFICES ASSUME StreamInv, [Next]_vars
               PROVE  [Stream!Accept \/ Stream!Answer]_Stream!streamVars
    OBVIOUS
  <2>1. CASE Arrives
    BY <2>1 DEF Arrives, queueVars, Stream!Accept
  <2>2. CASE ReceiveCall /\ Take
    <3>1. /\ rxq \in Seq(Nat \ {0}) /\ rxq # <<>> /\ last \in Nat /\ accepted \in Nat
          /\ last' = Head(rxq) /\ answers' = answers + 1 /\ accepted' = accepted
      BY <2>2 DEF StreamInv, TransitTypes, ReceiveCall, Take, kernelVars
    <3>2. Head(rxq) \in In(rxq) /\ Head(rxq) \in Nat
      BY <3>1 DEF In
    <3>3. Head(rxq) \in (last + 1)..accepted
      BY <3>1, <3>2 DEF StreamInv, InTransit
    <3> QED
      BY <3>1, <3>3 DEF Stream!Answer
  <2>3. CASE UNCHANGED <<accepted, last, answers>>
    BY <2>3 DEF Stream!streamVars
  <2> QED
    BY <2>1, <2>2, <2>3
    DEF Next, Owner, Worker, Kernel, vars, queueVars, kernelVars, ReceiveCall, Receive, Wait,
        TimeOut, InitFails, InitStartsWorker, InitPostsReceive, PostReceive, DtorStops,
        DtorWakes, DtorCloses, WorkerLoop, WorkerBreaks, WorkerReads, WorkerDiscards, Dequeue,
        WorkerQueues, WorkerReposts, Send, EmptyArrives, ReadCompletes, ReadFails,
        SendCompletes
<1> QED
  BY <1>1, <1>2, StreamInvariant, PTL DEF Spec, ImplementsStream, Stream!Spec
--------------------------------------------------------------------------------
(* The contexts of requests *)

LEMMA RequestsFinite ==
    ASSUME NEW q \in Seq(Completion)
    PROVE  IsFiniteSet(Requests(q)) /\ Cardinality(Requests(q)) \in Nat
<1>1. Requests(q) \subseteq 1..Len(q) /\ Len(q) \in Nat
  BY DEF Requests
<1>2. IsFiniteSet(1..Len(q))
  BY <1>1, FS_Interval
<1> QED
  BY <1>1, <1>2, FS_Subset, FS_CardinalityType

\* One more completion.
LEMMA RequestsAppend ==
    ASSUME NEW q \in Seq(Completion), NEW c \in Completion
    PROVE  Cardinality(Requests(Append(q, c)))
           = Cardinality(Requests(q)) + (IF c.op = "wake" THEN 0 ELSE 1)
<1> DEFINE n == Len(q) + 1
<1>1. /\ Len(q) \in Nat /\ DOMAIN q = 1..Len(q) /\ DOMAIN Append(q, c) = 1..n
      /\ \A i \in 1..Len(q) : Append(q, c)[i] = q[i]
      /\ Append(q, c)[n] = c
  OBVIOUS
<1>2. n \notin DOMAIN q /\ DOMAIN Append(q, c) = DOMAIN q \cup {n}
  BY <1>1
<1>3. Requests(Append(q, c)) = Requests(q) \cup (IF c.op = "wake" THEN {} ELSE {n})
  <2> HIDE DEF n
  <2> QED
    BY <1>1, <1>2 DEF Requests
<1>4. n \notin Requests(q)
  BY <1>2 DEF Requests
<1> HIDE DEF n
<1>5. Cardinality(Requests(q) \cup {n}) = Cardinality(Requests(q)) + 1
  BY <1>4, RequestsFinite, FS_AddElement
<1>6. CASE c.op = "wake"
  <2>1. Requests(Append(q, c)) = Requests(q)
    BY <1>3, <1>6
  <2> QED
    BY <1>6, <2>1, RequestsFinite
<1>7. CASE c.op # "wake"
  <2>1. Requests(Append(q, c)) = Requests(q) \cup {n}
    BY <1>3, <1>7
  <2> QED
    BY <1>5, <1>7, <2>1
<1> QED
  BY <1>6, <1>7

\* The oldest completion taken: the others move up by one.
LEMMA RequestsTail ==
    ASSUME NEW q \in Seq(Completion), q # <<>>
    PROVE  Cardinality(Requests(q))
           = Cardinality(Requests(Tail(q))) + (IF Head(q).op = "wake" THEN 0 ELSE 1)
<1> DEFINE shift == [i \in Requests(Tail(q)) |-> i + 1]
           rest == Requests(q) \ {1}
<1>1. /\ Len(q) \in Nat \ {0} /\ Tail(q) \in Seq(Completion) /\ Head(q) = q[1]
      /\ DOMAIN q = 1..Len(q) /\ DOMAIN Tail(q) = 1..(Len(q) - 1)
      /\ \A i \in 1..(Len(q) - 1) : Tail(q)[i] = q[i + 1]
  OBVIOUS
<1>2. Requests(Tail(q)) = {i \in 1..(Len(q) - 1) : q[i + 1].op # "wake"}
  BY <1>1 DEF Requests
<1>3. Requests(q) = {i \in 1..Len(q) : q[i].op # "wake"}
  BY <1>1 DEF Requests
<1>4. shift \in Bijection(Requests(Tail(q)), rest)
  <2>1. shift \in [Requests(Tail(q)) -> rest]
    BY <1>1, <1>2, <1>3
  <2>2. \A i, j \in Requests(Tail(q)) : shift[i] = shift[j] => i = j
    BY <1>1, <1>2
  <2>3. ASSUME NEW k \in rest
        PROVE  \E i \in Requests(Tail(q)) : shift[i] = k
    <3>1. k - 1 \in Requests(Tail(q)) /\ (k - 1) + 1 = k
      BY <1>1, <1>2, <1>3
    <3> QED
      BY <3>1
  <2>6. shift \in [Requests(Tail(q)) -> rest] /\ DOMAIN shift = Requests(Tail(q))
    BY <2>1
  <2> HIDE DEF shift, rest
  <2>4. shift \in Injection(Requests(Tail(q)), rest)
    BY <2>1, <2>2 DEF Injection, IsInjective
  <2>5. shift \in Surjection(Requests(Tail(q)), rest)
    BY <2>1, <2>3 DEF Surjection
  <2> QED
    BY <2>4, <2>5 DEF Bijection
<1>5. ExistsBijection(Requests(Tail(q)), rest)
  BY <1>4 DEF ExistsBijection
<1>6. Cardinality(rest) = Cardinality(Requests(Tail(q))) /\ Cardinality(rest) \in Nat
  <2>1. IsFiniteSet(Requests(Tail(q))) /\ Cardinality(Requests(Tail(q))) \in Nat
    BY <1>1, RequestsFinite
  <2> HIDE DEF rest
  <2> QED
    BY <1>5, <2>1, FS_Bijection
<1>7. 1 \in Requests(q) <=> Head(q).op # "wake"
  BY <1>1, <1>3
<1>8. IsFiniteSet(Requests(q)) /\ Cardinality(Requests(q)) \in Nat
  BY RequestsFinite
<1> HIDE DEF rest, shift
<1>9. CASE Head(q).op = "wake"
  <2>1. rest = Requests(q)
    BY <1>7, <1>9 DEF rest
  <2> QED
    BY <1>6, <1>8, <1>9, <2>1
<1>10. CASE Head(q).op # "wake"
  <2>1. Cardinality(rest) = Cardinality(Requests(q)) - 1
    BY <1>7, <1>8, <1>10, FS_RemoveElement DEF rest
  <2> QED
    BY <1>6, <1>8, <1>10, <2>1
<1> QED
  BY <1>9, <1>10

\* Nothing is allocated before init, and the worker runs from init until it has seen
\* running_ cleared.  In between, each context is that of one request.
ContextsInv ==
    /\ TypeOK
    /\ life = "new" =>
          contexts = 0 /\ posted = 0 /\ sending = 0 /\ iocp = <<>> /\ wpc = "none"
    /\ life = "gone" => wpc \in {"none", "exited"}
    /\ ContextsAccounted

\* The requests whose completion waits, and the one the worker handles.
Waiting == Cardinality(Requests(iocp))
Held == IF wpc \in {"queue", "repost"} THEN 1 ELSE 0

LEMMA HeadAndTail ==
    ASSUME NEW S, NEW s \in Seq(S), s # <<>>
    PROVE  Head(s) \in S /\ Tail(s) \in Seq(S)
OBVIOUS

LEMMA ContextsInit == Init => ContextsInv
<1> SUFFICES ASSUME Init
             PROVE  ContextsInv
  OBVIOUS
<1>1. Requests(<<>>) = {}
  BY DEF Requests
<1>2. Cardinality({}) = 0
  BY FS_EmptySet
<1>3. TypeOK
  <2>1. Wake \in Completion
    BY ServerTransportAssumption DEF Wake, Completion
  <2>2. <<>> \in Seq(Nat) /\ <<>> \in Seq(Completion) /\ <<>> \in Seq(0..MaxDatagrams)
    OBVIOUS
  <2>3. QueueTypeOK
    BY <2>2 DEF Init, QueueInit, QueueTypeOK
  <2>4. iocp \in Seq(Completion) /\ socket \in Seq(0..MaxDatagrams)
    BY <2>2 DEF Init
  <2>5. {posted, sending, contexts, accepted, sends, faults, empties} \subseteq Nat
    BY DEF Init
  <2> QED
    BY <2>1, <2>3, <2>4, <2>5 DEF Init, TypeOK
<1>4. contexts = 0 /\ posted = 0 /\ sending = 0 /\ Waiting = 0 /\ Held = 0
  BY <1>1, <1>2 DEF Init, Waiting, Held
<1>5. ContextsAccounted
  BY <1>4 DEF ContextsAccounted, Waiting, Held
<1> QED
  BY <1>3, <1>5 DEF Init, ContextsInv

\* Steps that touch neither the requests nor the completion the worker handles.
LEMMA ContextsStay ==
    ASSUME ContextsInv, UNCHANGED <<posted, sending, iocp, contexts, wpc>>, TypeOK',
           life' # life => life' \notin {"new", "gone"} /\ life # "gone"
    PROVE  ContextsInv'
BY DEF ContextsInv, ContextsAccounted

\* One completion more in the port, of a request the kernel held.
LEMMA ContextsCompleted ==
    ASSUME ContextsInv, NEW c \in Completion, c.op # "wake", iocp' = Append(iocp, c),
           UNCHANGED <<contexts, wpc, life>>, TypeOK',
           posted + sending = (posted' + sending') + 1, posted' + sending' \in Nat
    PROVE  ContextsInv'
<1>1. iocp \in Seq(Completion)
  BY DEF ContextsInv, TypeOK
<1>2. Waiting' = Waiting + 1
  BY <1>1, RequestsAppend DEF Waiting
<1>3. Waiting \in Nat
  BY <1>1, RequestsFinite DEF Waiting
<1>4. life # "new"
  <2>1. life = "new" => posted + sending = 0
    BY DEF ContextsInv
  <2> QED
    BY <2>1
<1>5. ContextsAccounted'
  <2> SUFFICES ASSUME life # "gone", wpc # "exited"
               PROVE  contexts' = posted' + sending' + Waiting' + Held'
    BY DEF ContextsAccounted, Held, Waiting
  <2>1. contexts = posted + sending + Waiting + Held /\ Held \in Nat
    BY DEF ContextsInv, ContextsAccounted, Held, Waiting
  <2>2. Held' = Held /\ contexts' = contexts
    BY DEF Held
  <2> QED
    BY <1>2, <1>3, <2>1, <2>2
<1> QED
  BY <1>4, <1>5 DEF ContextsInv

LEMMA ContextsStep == ContextsInv /\ [Next]_vars => ContextsInv'
<1> SUFFICES ASSUME ContextsInv, [Next]_vars
             PROVE  ContextsInv'
  OBVIOUS
<1>0. /\ TypeOK /\ QueueTypeOK
      /\ {posted, sending, contexts, accepted, sends, faults, empties} \subseteq Nat
      /\ iocp \in Seq(Completion) /\ socket \in Seq(0..MaxDatagrams)
      /\ MaxDatagrams \in Nat /\ MaxFaults \in Nat
  BY ServerTransportAssumption DEF ContextsInv, TypeOK
<1>n. /\ posted \in Nat /\ sending \in Nat /\ contexts \in Nat /\ sends \in Nat
      /\ accepted \in Nat /\ faults \in Nat /\ empties \in Nat
  BY <1>0
<1>w. Waiting \in Nat
  BY <1>0, RequestsFinite DEF Waiting
<1>h. Held \in Nat /\ (life # "gone" /\ wpc # "exited" =>
          contexts = posted + sending + Waiting + Held)
  BY DEF ContextsInv, ContextsAccounted, Held, Waiting
<1>1. CASE InitFails \/ DtorStops
  <2>1. /\ UNCHANGED <<queueVars, kernelVars, workerVars, contexts, sends>>
        /\ life' \in {"failed", "stopping"} /\ running' \in {running, FALSE}
        /\ life \in {"new", "failed", "open"}
    BY <1>1 DEF InitFails, DtorStops
  <2>2. TypeOK'
    BY <1>0, <2>1 DEF TypeOK, QueueTypeOK, queueVars, kernelVars, workerVars
  <2> QED
    BY <2>1, <2>2, ContextsStay DEF kernelVars, workerVars
<1>2. CASE InitStartsWorker
  <2>1. /\ UNCHANGED <<queueVars, kernelVars, item, contexts, sends>> /\ life = "new"
        /\ life' = "starting" /\ running' = TRUE /\ wpc' = "loop"
    BY <1>2 DEF InitStartsWorker
  <2>2. TypeOK'
    BY <1>0, <2>1 DEF TypeOK, QueueTypeOK, queueVars, kernelVars
  <2> QED
    BY <2>1, <2>2 DEF ContextsInv, ContextsAccounted, kernelVars
<1>3. CASE InitPostsReceive
  <2>1. /\ UNCHANGED <<queueVars, workerVars, running, sending, iocp, socket, accepted, empties,
                       sends>>
        /\ life = "starting" /\ life' = "open" /\ faults' \in {faults, faults + 1}
        /\ \/ posted' = posted + 1 /\ contexts' = contexts + 1
           \/ posted' = posted /\ contexts' = contexts
    BY <1>3 DEF InitPostsReceive, PostReceive
  <2>2. TypeOK'
    BY <1>0, <2>1 DEF TypeOK, QueueTypeOK, queueVars, workerVars
  <2>3. ContextsAccounted'
    <3>1. Held' = Held
      BY <2>1 DEF Held, workerVars
    <3> SUFFICES ASSUME wpc # "exited"
                 PROVE  contexts' = posted' + sending' + Waiting' + Held'
      BY <2>1 DEF ContextsAccounted, Held, Waiting, workerVars
    <3>2. Waiting' = Waiting
      BY <2>1 DEF Waiting
    <3> QED
      BY <1>n, <1>w, <1>h, <2>1, <3>1, <3>2
  <2> QED
    BY <2>1, <2>2, <2>3 DEF ContextsInv
<1>4. CASE DtorWakes
  <2>1. /\ UNCHANGED <<queueVars, posted, sending, socket, accepted, faults, empties,
                       workerVars, running, contexts, sends>>
        /\ life = "stopping" /\ life' = "joining"
        /\ iocp' = iocp \/ iocp' = Append(iocp, Wake)
    BY <1>4 DEF DtorWakes
  <2>2. Wake \in Completion /\ Wake.op = "wake"
    BY <1>0 DEF Wake, Completion
  <2>3. iocp' \in Seq(Completion)
    <3>1. Append(iocp, Wake) \in Seq(Completion)
      BY <1>0, <2>2
    <3> QED
      BY <1>0, <2>1, <3>1
  <2>4. TypeOK'
    BY <1>0, <2>1, <2>3 DEF TypeOK, QueueTypeOK, queueVars, workerVars
  <2>5. Waiting' = Waiting
    <3>1. Cardinality(Requests(Append(iocp, Wake))) = Waiting + 0
      BY <1>0, <2>2, RequestsAppend DEF Waiting
    <3>2. Waiting + 0 = Waiting
      BY <1>w
    <3> QED
      BY <2>1, <3>1, <3>2 DEF Waiting
  <2> QED
    BY <2>1, <2>4, <2>5 DEF ContextsInv, ContextsAccounted, Waiting, workerVars
<1>5. CASE DtorCloses
  <2>1. /\ life' = "gone" /\ posted' = 0 /\ sending' = 0 /\ iocp' = <<>> /\ socket' = <<>>
        /\ rxq' = <<>> /\ wpc \in {"none", "exited"}
        /\ UNCHANGED <<caller, last, answers, accepted, faults, empties, workerVars, running,
                       contexts, sends>>
    BY <1>5 DEF DtorCloses
  <2>2. TypeOK'
    BY <1>0, <2>1 DEF TypeOK, QueueTypeOK, workerVars
  <2> QED
    BY <2>1, <2>2 DEF ContextsInv, ContextsAccounted, workerVars
<1>6. CASE WorkerLoop
  <2>1. /\ UNCHANGED <<queueVars, kernelVars, item, ownerVars, contexts, sends>>
        /\ wpc = "loop" /\ wpc' \in {"wait", "exited"}
    BY <1>6 DEF WorkerLoop
  <2>2. TypeOK'
    BY <1>0, <2>1 DEF TypeOK, QueueTypeOK, queueVars, kernelVars, ownerVars
  <2> QED
    BY <2>1, <2>2 DEF ContextsInv, ContextsAccounted, kernelVars, ownerVars
<1>7. CASE WorkerBreaks \/ WorkerReads \/ WorkerDiscards
  <2>1. /\ wpc = "wait" /\ iocp # <<>> /\ item' = Head(iocp) /\ iocp' = Tail(iocp)
        /\ UNCHANGED <<queueVars, posted, sending, socket, accepted, faults, empties,
                       ownerVars, sends>>
    BY <1>7 DEF WorkerBreaks, WorkerReads, WorkerDiscards, Dequeue
  <2>2. Head(iocp) \in Completion /\ Tail(iocp) \in Seq(Completion)
    BY <1>0, <2>1
  <2>3. Waiting = Waiting' + (IF Head(iocp).op = "wake" THEN 0 ELSE 1)
    BY <1>0, <2>1, RequestsTail DEF Waiting
  <2>4. Waiting' \in Nat
    BY <2>1, <2>2, RequestsFinite DEF Waiting
  <2>5. life # "gone" /\ life # "new" /\ Held = 0 /\ life' = life
    BY <2>1 DEF ContextsInv, Held, ownerVars
  <2>6. CASE WorkerBreaks
    <3>1. wpc' = "exited" /\ contexts' = contexts
      BY <2>6 DEF WorkerBreaks
    <3>2. TypeOK'
      BY <1>0, <2>1, <2>2, <3>1 DEF TypeOK, QueueTypeOK, queueVars, ownerVars
    <3> QED
      BY <2>5, <3>1, <3>2 DEF ContextsInv, ContextsAccounted
  <2>7. CASE WorkerReads
    <3>1. wpc' = "queue" /\ contexts' = contexts /\ Head(iocp).op = "read"
      BY <2>7 DEF WorkerReads, CarriesPayload
    <3>2. TypeOK'
      BY <1>0, <2>1, <2>2, <3>1 DEF TypeOK, QueueTypeOK, queueVars, ownerVars
    <3>3. contexts' = posted' + sending' + Waiting' + 1
      BY <1>n, <1>h, <2>1, <2>3, <2>4, <2>5, <3>1
    <3> QED
      BY <2>5, <3>1, <3>2, <3>3 DEF ContextsInv, ContextsAccounted, Waiting
  <2>8. CASE WorkerDiscards
    <3>1. /\ wpc' = "loop"
          /\ contexts' = IF Head(iocp).op = "wake" THEN contexts ELSE contexts - 1
      BY <2>8 DEF WorkerDiscards
    <3>2. contexts' = posted' + sending' + Waiting'
      BY <1>n, <1>h, <2>1, <2>3, <2>4, <2>5, <3>1
    <3>3. contexts' \in Nat
      BY <1>0, <2>1, <2>4, <3>2
    <3>4. TypeOK'
      BY <1>0, <2>1, <2>2, <3>1, <3>3 DEF TypeOK, QueueTypeOK, queueVars, ownerVars
    <3>5. posted' + sending' + Waiting'
          = posted' + sending' + Waiting' + 0
      BY <1>0, <2>1, <2>4
    <3> QED
      BY <2>5, <3>1, <3>2, <3>4, <3>5 DEF ContextsInv, ContextsAccounted, Waiting
  <2> QED
    BY <1>7, <2>6, <2>7, <2>8
<1>8. CASE WorkerQueues
  <2>1. /\ wpc = "queue" /\ wpc' = "repost" /\ rxq' = Append(rxq, item.data)
        /\ UNCHANGED <<caller, last, answers, kernelVars, item, ownerVars, contexts, sends>>
    BY <1>8 DEF WorkerQueues, Enqueue
  <2>2. item.data \in Nat
    BY <1>0 DEF TypeOK, Completion
  <2>3. TypeOK'
    BY <1>0, <2>1, <2>2 DEF TypeOK, QueueTypeOK, kernelVars, ownerVars
  <2> QED
    BY <2>1, <2>3 DEF ContextsInv, ContextsAccounted, kernelVars, ownerVars
<1>9. CASE WorkerReposts
  <2>1. /\ wpc = "repost" /\ wpc' = "loop" /\ faults' \in {faults, faults + 1}
        /\ \/ posted' = posted + 1 /\ contexts' = contexts
           \/ posted' = posted /\ contexts' = contexts - 1
        /\ UNCHANGED <<queueVars, sending, iocp, socket, accepted, empties, item, ownerVars,
                       sends>>
    BY <1>9 DEF WorkerReposts
  <2>2. life # "gone" /\ life # "new" /\ Held = 1 /\ life' = life
    BY <2>1 DEF ContextsInv, Held, ownerVars
  <2>3. Waiting' = Waiting
    BY <2>1 DEF Waiting
  <2>4. contexts' = posted' + sending' + Waiting' + 0
    BY <1>n, <1>w, <1>h, <2>1, <2>2, <2>3
  <2>5. contexts' \in Nat /\ posted' \in Nat
    <3>1. posted' \in Nat
      BY <1>n, <2>1
    <3>2. contexts = posted + sending + Waiting + 1
      BY <1>h, <2>1, <2>2
    <3>3. contexts - 1 \in Nat
      BY <1>n, <1>w, <3>2
    <3> QED
      BY <1>n, <2>1, <3>1, <3>3
  <2>6. TypeOK'
    BY <1>0, <2>1, <2>5 DEF TypeOK, QueueTypeOK, queueVars, ownerVars
  <2> QED
    BY <2>1, <2>2, <2>4, <2>6 DEF ContextsInv, ContextsAccounted, Waiting
<1>10. CASE Send
  <2>1. /\ life = "open" /\ sends' = sends + 1 /\ sending' = sending + 1
        /\ contexts' = contexts + 1
        /\ UNCHANGED <<queueVars, posted, iocp, socket, accepted, faults, empties, workerVars,
                       ownerVars>>
    BY <1>10 DEF Send
  <2>2. sends' \in Nat /\ sending' \in Nat /\ contexts' \in Nat
    BY <1>n, <2>1
  <2>3. TypeOK'
    BY <1>0, <1>n, <2>1, <2>2 DEF TypeOK, QueueTypeOK, queueVars, workerVars, ownerVars
  <2>4. Held' = Held
    BY <2>1 DEF Held, workerVars
  <2>5. Waiting' = Waiting
    BY <2>1 DEF Waiting
  <2>6. wpc # "exited" => contexts' = posted' + sending' + Waiting' + Held'
    <3> SUFFICES ASSUME wpc # "exited"
                 PROVE  contexts' = posted' + sending' + Waiting' + Held'
      OBVIOUS
    <3>1. contexts = posted + sending + Waiting + Held
      BY <1>h, <2>1
    <3>2. posted \in Nat /\ sending \in Nat /\ Waiting \in Nat /\ Held \in Nat
      BY <1>0, <1>w, <1>h
    <3>3. posted' = posted /\ sending' = sending + 1 /\ contexts' = contexts + 1
      BY <2>1
    <3> QED
      BY <2>4, <2>5, <3>1, <3>2, <3>3
  <2> QED
    BY <2>1, <2>3, <2>6 DEF ContextsInv, ContextsAccounted, Held, Waiting, workerVars, ownerVars
<1>11. CASE ReceiveCall
  <2>1. UNCHANGED <<kernelVars, workerVars, ownerVars, contexts, sends>>
    BY <1>11 DEF ReceiveCall
  <2>2. QueueTypeOK'
    <3>1. CASE Take
      <4>1. /\ rxq # <<>> /\ last' = Head(rxq) /\ rxq' = Tail(rxq) /\ answers' = answers + 1
            /\ caller' = "idle" /\ rxq \in Seq(Nat) /\ answers \in Nat
        BY <1>0, <3>1 DEF Take, QueueTypeOK
      <4>2. Head(rxq) \in Nat /\ Tail(rxq) \in Seq(Nat)
        BY <4>1
      <4> QED
        BY <4>1, <4>2 DEF QueueTypeOK
    <3>2. CASE Wait \/ TimeOut
      BY <1>0, <3>2 DEF Wait, TimeOut, QueueTypeOK
    <3> QED
      BY <1>11, <3>1, <3>2 DEF ReceiveCall, Receive
  <2>3. TypeOK'
    BY <1>0, <2>1, <2>2 DEF TypeOK, kernelVars, workerVars, ownerVars
  <2> QED
    BY <2>1, <2>3, ContextsStay DEF kernelVars, workerVars, ownerVars
<1>12. CASE Arrives \/ EmptyArrives
  <2>1. /\ UNCHANGED <<queueVars, posted, sending, iocp, faults, workerVars, ownerVars, contexts,
                       sends>>
        /\ \/ accepted < MaxDatagrams /\ accepted' = accepted + 1 /\ empties' = empties
              /\ socket' = Append(socket, accepted + 1)
           \/ empties' = empties + 1 /\ accepted' = accepted /\ socket' = Append(socket, 0)
    BY <1>12 DEF Arrives, EmptyArrives
  <2>2. accepted' \in Nat /\ empties' \in Nat
    BY <1>0, <2>1
  <2>3. socket' \in Seq(0..MaxDatagrams)
    <3>1. ASSUME NEW x \in 0..MaxDatagrams
          PROVE  Append(socket, x) \in Seq(0..MaxDatagrams)
      BY <1>0
    <3>2. CASE accepted < MaxDatagrams /\ socket' = Append(socket, accepted + 1)
      <4>1. accepted + 1 \in 0..MaxDatagrams
        BY <1>0, <3>2
      <4> QED
        BY <3>1, <3>2, <4>1
    <3>3. CASE socket' = Append(socket, 0)
      <4>1. 0 \in 0..MaxDatagrams
        BY <1>0
      <4> QED
        BY <3>1, <3>3, <4>1
    <3> QED
      BY <2>1, <3>2, <3>3
  <2>4. TypeOK'
    BY <1>0, <2>1, <2>2, <2>3 DEF TypeOK, QueueTypeOK, queueVars, workerVars, ownerVars
  <2> QED
    BY <2>1, <2>4, ContextsStay DEF workerVars, ownerVars
<1>13. CASE ReadCompletes
  <2> DEFINE c == [op |-> "read", ok |-> TRUE, data |-> Head(socket)]
  <2>1. /\ posted > 0 /\ socket # <<>> /\ posted' = posted - 1 /\ socket' = Tail(socket)
        /\ iocp' = Append(iocp, c)
        /\ UNCHANGED <<queueVars, sending, accepted, faults, empties, workerVars, ownerVars,
                       contexts, sends>>
    BY <1>13 DEF ReadCompletes
  <2>2. c \in Completion /\ c.op = "read" /\ Tail(socket) \in Seq(0..MaxDatagrams)
    <3>1. Head(socket) \in 0..MaxDatagrams /\ Tail(socket) \in Seq(0..MaxDatagrams)
      BY <1>0, <2>1, HeadAndTail
    <3> QED
      BY <3>1 DEF Completion
  <2> HIDE DEF c
  <2>3. iocp' \in Seq(Completion) /\ posted' \in Nat
    BY <1>0, <2>1, <2>2
  <2>4. TypeOK'
    BY <1>0, <2>1, <2>2, <2>3 DEF TypeOK, QueueTypeOK, queueVars, workerVars, ownerVars
  <2>5. posted + sending = (posted' + sending') + 1 /\ posted' + sending' \in Nat
    BY <1>n, <2>1
  <2> QED
    BY <2>1, <2>2, <2>4, <2>5, ContextsCompleted DEF workerVars, ownerVars
<1>14. CASE ReadFails
  <2> DEFINE c == [op |-> "read", ok |-> FALSE, data |-> 0]
  <2>1. /\ posted > 0 /\ posted' = posted - 1 /\ faults' = faults + 1
        /\ iocp' = Append(iocp, c)
        /\ UNCHANGED <<queueVars, sending, socket, accepted, empties, workerVars, ownerVars,
                       contexts, sends>>
    BY <1>14 DEF ReadFails
  <2>2. c \in Completion /\ c.op = "read"
    BY <1>0 DEF Completion
  <2> HIDE DEF c
  <2>3. iocp' \in Seq(Completion) /\ posted' \in Nat
    BY <1>0, <2>1, <2>2
  <2>4. TypeOK'
    BY <1>0, <2>1, <2>3 DEF TypeOK, QueueTypeOK, queueVars, workerVars, ownerVars
  <2>5. posted + sending = (posted' + sending') + 1 /\ posted' + sending' \in Nat
    BY <1>n, <2>1
  <2> QED
    BY <2>1, <2>2, <2>4, <2>5, ContextsCompleted DEF workerVars, ownerVars
<1>15. CASE SendCompletes
  <2>1. PICK ok \in BOOLEAN : iocp' = Append(iocp, [op |-> "send", ok |-> ok, data |-> 0])
    BY <1>15 DEF SendCompletes
  <2> DEFINE c == [op |-> "send", ok |-> ok, data |-> 0]
  <2>2. /\ sending > 0 /\ sending' = sending - 1 /\ iocp' = Append(iocp, c)
        /\ UNCHANGED <<queueVars, posted, socket, accepted, faults, empties, workerVars,
                       ownerVars, contexts, sends>>
    BY <1>15, <2>1 DEF SendCompletes
  <2>3. c \in Completion /\ c.op = "send"
    BY <1>0 DEF Completion
  <2> HIDE DEF c
  <2>4. iocp' \in Seq(Completion) /\ sending' \in Nat
    BY <1>0, <2>2, <2>3
  <2>5. TypeOK'
    BY <1>0, <2>2, <2>4 DEF TypeOK, QueueTypeOK, queueVars, workerVars, ownerVars
  <2>6. posted + sending = (posted' + sending') + 1 /\ posted' + sending' \in Nat
    BY <1>n, <2>2
  <2> QED
    BY <2>2, <2>3, <2>5, <2>6, ContextsCompleted DEF workerVars, ownerVars
<1>16. CASE UNCHANGED vars
  <2>1. TypeOK'
    BY <1>0, <1>16 DEF vars, TypeOK, QueueTypeOK, queueVars, kernelVars, workerVars, ownerVars
  <2> QED
    BY <1>16, <2>1, ContextsStay DEF vars, kernelVars, workerVars, ownerVars
<1> QED
  BY <1>1, <1>2, <1>3, <1>4, <1>5, <1>6, <1>7, <1>8, <1>9, <1>10, <1>11, <1>12, <1>13, <1>14,
     <1>15, <1>16 DEF Next, Owner, Worker, Kernel

\* Until the worker ends, as many contexts are live as there are requests that the kernel
\* holds, completions that wait, and payloads the worker has in hand: for any number of
\* datagrams, sends and faults, and in whatever order they complete, none is deleted twice
\* (the count would be below) and none forgotten (it would be above).
THEOREM ContextsAlwaysAccounted == Spec => []ContextsAccounted
<1>1. ContextsInv => ContextsAccounted
  BY DEF ContextsInv
<1> QED
  BY <1>1, ContextsInit, ContextsStep, PTL DEF Spec
================================================================================
