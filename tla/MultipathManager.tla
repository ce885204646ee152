---------------------------- MODULE MultipathManager ----------------------------
(***************************************************************************)
(* MultipathManager of shared/transport/multipath.cpp: paths are added one *)
(* by one, the one of the lowest score is active, and receive waits on it  *)
(* before it asks the others.  Of a transport there is the number of       *)
(* payloads it holds and the delay it reports (the transports of the       *)
(* repository always report 0).  All calls come from one thread.           *)
(***************************************************************************)
EXTENDS Integers, Sequences

CONSTANTS
    MaxPaths,   \* bound: paths added
    Delays,     \* round trip and loss of a path in one number, in ms
    PerPath     \* bound: payloads that arrive on each path

ASSUME PathsAssumption ==
    /\ {MaxPaths, PerPath} \subseteq Nat
    /\ Delays \subseteq Nat

VARIABLES
    paths,      \* paths_: whether each is wireless
    active,     \* active_path_idx_
    arrived,    \* payloads that have arrived on each path
    held,       \* of them those not received yet
    receiving   \* whether receive waits on the active path

pathVars == <<paths, active, arrived, held, receiving>>

PathsTypeOK ==
    /\ paths \in Seq(BOOLEAN)
    /\ active \in 1..MaxPaths
    /\ {arrived, held} \subseteq [1..MaxPaths -> 0..PerPath]
    /\ receiving \in BOOLEAN

PathsInit ==
    /\ paths = <<>>
    /\ active = 1
    /\ arrived = [p \in 1..MaxPaths |-> 0]
    /\ held = [p \in 1..MaxPaths |-> 0]
    /\ receiving = FALSE

--------------------------------------------------------------------------------
\* evaluate_paths: the first path of the lowest score, which calculate_score makes of the
\* delay and 2 ms for a wireless path.
Evaluates ==
    \E delay \in [DOMAIN paths' -> Delays] :
        LET score == [p \in DOMAIN paths' |-> delay[p] + (IF paths'[p] THEN 2 ELSE 0)]
        IN  active' \in {p \in DOMAIN paths' :
                /\ \A q \in DOMAIN paths' : score[p] <= score[q]
                /\ \A q \in 1..(p - 1) : score[p] < score[q]}

\* add_path evaluates all paths.
AddPath ==
    /\ ~receiving
    /\ Len(paths) < MaxPaths
    /\ \E wireless \in BOOLEAN : paths' = Append(paths, wireless)
    /\ Evaluates
    /\ UNCHANGED <<arrived, held, receiving>>

EvaluatePaths ==
    /\ ~receiving
    /\ paths # <<>>
    /\ UNCHANGED paths
    /\ Evaluates
    /\ UNCHANGED <<arrived, held, receiving>>

\* A payload arrives on a path there is.
PayloadArrives ==
    /\ \E p \in DOMAIN paths :
          /\ arrived[p] < PerPath
          /\ arrived' = [arrived EXCEPT ![p] = @ + 1]
          /\ held' = [held EXCEPT ![p] = @ + 1]
    /\ UNCHANGED <<paths, active, receiving>>

\* receive answers an error without a path, or waits on the active one ...
ReceiveBegins ==
    /\ ~receiving
    /\ paths # <<>>
    /\ receiving' = TRUE
    /\ UNCHANGED <<paths, active, arrived, held>>

Answers(p) == held' = [held EXCEPT ![p] = @ - 1]

\* ... returns what it has ...
ReceiveActive ==
    /\ receiving
    /\ held[active] > 0
    /\ Answers(active)
    /\ receiving' = FALSE
    /\ UNCHANGED <<paths, active, arrived>>

\* Mutant: only the paths before the active one are asked.
Bug_ReceiveOtherStops ==
    /\ receiving
    /\ held[active] = 0
    /\ IF \E p \in 1..(active - 1) : held[p] > 0
       THEN \E p \in 1..(active - 1) :
               held[p] > 0 /\ (\A q \in 1..(p - 1) : held[q] = 0) /\ Answers(p)
       ELSE UNCHANGED held
    /\ receiving' = FALSE
    /\ UNCHANGED <<paths, active, arrived>>

\* ... or, at the timeout, what the first of the others has, or the timeout.
ReceiveOther ==
    /\ receiving
    /\ held[active] = 0
    /\ IF \E p \in DOMAIN paths : held[p] > 0
       THEN \E p \in DOMAIN paths :
               held[p] > 0 /\ (\A q \in 1..(p - 1) : held[q] = 0) /\ Answers(p)
       ELSE UNCHANGED held
    /\ receiving' = FALSE
    /\ UNCHANGED <<paths, active, arrived>>

PathsNext ==
    \/ AddPath \/ EvaluatePaths \/ PayloadArrives
    \/ ReceiveBegins \/ ReceiveActive \/ ReceiveOther

PathsSpec == PathsInit /\ [][PathsNext]_pathVars

--------------------------------------------------------------------------------
(* Properties *)

\* What arrives on a path is received although another is active, was made active while
\* it waited or joined later; only a stream of payloads on the active path without end
\* could hold it up.
EveryPathHeard == \A p \in 1..MaxPaths : held[p] > 0 ~> held[p] = 0
================================================================================
