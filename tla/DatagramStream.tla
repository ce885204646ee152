----------------------------- MODULE DatagramStream -----------------------------
(***************************************************************************)
(* What ITransport::receive promises (shared/transport/transport.hpp): it  *)
(* answers the next available payload.  Datagrams are numbered in the      *)
(* order the network accepted them; some may be lost, but each is answered *)
(* at most once, in order, and nothing is answered that never arrived.     *)
(***************************************************************************)
EXTENDS Naturals

VARIABLES
    accepted,   \* how many datagrams have arrived
    last,       \* the datagram receive answered last, 0 before the first
    answers     \* how many times receive answered one

streamVars == <<accepted, last, answers>>

Init == accepted = 0 /\ last = 0 /\ answers = 0

Accept ==
    /\ accepted' = accepted + 1
    /\ UNCHANGED <<last, answers>>

Answer ==
    /\ \E d \in (last + 1)..accepted : last' = d
    /\ answers' = answers + 1
    /\ UNCHANGED accepted

Spec == Init /\ [][Accept \/ Answer]_streamVars
=================================================================================
