------------------------------ MODULE TrayApp_proofs ------------------------------
(***************************************************************************)
(* Discovery and the TrayApp over it, for any set of clients and any       *)
(* intervals: a callback hears of every change of the list; during a scan  *)
(* a client that answers is kept although answers are lost; and no scan    *)
(* thread is left when the window has gone.  TrayApp uses Discovery only   *)
(* as an application may, so what holds of Discovery holds under it.       *)
(***************************************************************************)
EXTENDS TrayApp, FiniteSetTheorems, TLAPS

--------------------------------------------------------------------------------
(* Discovery: types *)

LEMMA SizeType == Size \in 0..Cardinality(Client)
<1> DEFINE S == {c \in Client : entry[c] # Absent}
<1>1. S \subseteq Client
  OBVIOUS
<1>2. IsFiniteSet(S) /\ Cardinality(S) <= Cardinality(Client)
  BY <1>1, DiscoveryAssumption, FS_Subset
<1>3. Cardinality(S) \in Nat /\ Cardinality(Client) \in Nat
  BY <1>2, DiscoveryAssumption, FS_CardinalityType
<1> QED
  BY <1>2, <1>3 DEF Size

LEMMA InitTypes == Init => TypeOK
<1> SUFFICES ASSUME Init
             PROVE  TypeOK
  OBVIOUS
<1>1. AnyProfile \in Profile
  <2>1. PICK n \in Name, k \in Key : TRUE
    BY DiscoveryAssumption
  <2>2. [name |-> n, key |-> k] \in Profile
    BY DEF Profile
  <2> QED
    BY <2>2 DEF AnyProfile
<1>2. message \in [ip : Client, profile : Profile]
  BY <1>1, DiscoveryAssumption DEF Init
<1>3. oldSize \in 0..Cardinality(Client)
  BY DiscoveryAssumption, FS_CardinalityType DEF Init
<1>4. entry \in [Client -> Profile \cup {Absent}] /\ told \in [Client -> Profile \cup {Absent}]
  BY DEF Init, Nobody
<1>5. /\ age \in [Client -> 0..(StaleTimeout + 1)] /\ sinceQuery \in 0..QueryInterval
      /\ lost \in [Client -> 0..MaxLosses] /\ starts \in 0..MaxStarts
  BY DiscoveryAssumption DEF Init
<1>6. profile \in [Client -> Profile \cup {Absent}] /\ answer \in [Client -> 0..2]
  BY <1>1 DEF Init
<1> QED
  BY <1>2, <1>3, <1>4, <1>5, <1>6 DEF Init, TypeOK

LEMMA TypesStep == TypeOK /\ [Next]_vars => TypeOK'
<1> SUFFICES ASSUME TypeOK, [Next]_vars
             PROVE  TypeOK'
  OBVIOUS
<1>1. CASE StartScan
  <2>1. starts' \in 0..MaxStarts
    BY <1>1, DiscoveryAssumption DEF StartScan, TypeOK
  <2>2. running' \in BOOLEAN /\ spc' \in {spc, "open"}
    BY <1>1 DEF StartScan, TypeOK, scanVars
  <2>3. UNCHANGED <<after, message, oldSize, sinceQuery, listVars, upc, netVars>>
    BY <1>1 DEF StartScan, scanVars
  <2> QED
    BY <2>1, <2>2, <2>3 DEF TypeOK, listVars, netVars
<1>2. CASE StopBegins \/ StopJoins \/ GetBegins \/ GetReturns
  BY <1>2 DEF StopBegins, StopJoins, GetBegins, GetReturns, TypeOK, scanVars, listVars, netVars
<1>3. CASE SetCallback
  BY <1>3 DEF SetCallback, TypeOK, scanVars, appVars, netVars
<1>4. CASE ScanOpens
  BY <1>4, DiscoveryAssumption DEF ScanOpens, TypeOK, listVars, appVars, netVars
<1>5. CASE ScanLoop
  <2>1. sinceQuery' \in 0..QueryInterval /\ answer' \in [Client -> 0..2]
    <3>1. CASE running /\ sinceQuery >= QueryInterval
      BY <1>5, <3>1, DiscoveryAssumption DEF ScanLoop, TypeOK
    <3>2. CASE ~(running /\ sinceQuery >= QueryInterval)
      BY <1>5, <3>2 DEF ScanLoop, TypeOK
    <3> QED
      BY <3>1, <3>2
  <2>2. /\ spc' \in {"recv", "ended"}
        /\ UNCHANGED <<after, message, oldSize, listVars, appVars, profile, lost>>
    BY <1>5 DEF ScanLoop
  <2> QED
    BY <2>1, <2>2 DEF TypeOK, listVars, appVars
<1>6. CASE ScanGetsNothing
  BY <1>6 DEF ScanGetsNothing, TypeOK, listVars, appVars, netVars
<1>7. ASSUME NEW c \in Client, ScanReceives(c)
      PROVE  TypeOK'
  <2>1. answer' \in [Client -> 0..2] /\ lost' \in [Client -> 0..MaxLosses]
    BY <1>7, DiscoveryAssumption DEF ScanReceives, TypeOK
  <2>2. message' \in [ip : Client, profile : Profile]
    BY <1>7 DEF ScanReceives, TypeOK
  <2>3. /\ spc' = "update"
        /\ UNCHANGED <<after, oldSize, sinceQuery, listVars, appVars, profile>>
    BY <1>7 DEF ScanReceives
  <2> QED
    BY <2>1, <2>2, <2>3 DEF TypeOK, listVars, appVars
<1>8. CASE ScanUpdates
  <2>1. entry' \in [Client -> Profile \cup {Absent}] /\ spc' \in {"size", "notify"}
    <3> DEFINE known == entry[message.ip] # Absent /\ entry[message.ip].name = message.profile.name
    <3>1. /\ entry' = IF known THEN entry ELSE [entry EXCEPT ![message.ip] = message.profile]
          /\ spc' = IF known THEN "size" ELSE "notify"
      BY <1>8 DEF ScanUpdates
    <3>2. message.profile \in Profile /\ entry \in [Client -> Profile \cup {Absent}]
      BY DEF TypeOK
    <3> HIDE DEF known
    <3> QED
      BY <3>1, <3>2
  <2>2. age' \in [Client -> 0..(StaleTimeout + 1)]
    BY <1>8, DiscoveryAssumption DEF ScanUpdates, TypeOK
  <2>3. UNCHANGED <<after, message, oldSize, sinceQuery, locked, callback, told, appVars, netVars>>
    BY <1>8 DEF ScanUpdates
  <2> QED
    BY <2>1, <2>2, <2>3 DEF TypeOK, appVars, netVars
<1>9. CASE ScanNotifies \/ ScanCompares
  <2>1. /\ UNCHANGED <<message, oldSize, sinceQuery, entry, age, callback, appVars, netVars>>
        /\ spc' \in {"callback", "size", "loop"} /\ after' \in {after, "size", "loop"}
        /\ locked' \in {locked, TRUE} /\ told' \in {told, entry}
    BY <1>9 DEF ScanNotifies, ScanCompares, Notify
  <2> QED
    BY <2>1 DEF TypeOK, appVars, netVars
<1>10. CASE CallbackReturns
  BY <1>10 DEF CallbackReturns, TypeOK, appVars, netVars
<1>11. CASE ScanSizes
  BY <1>11, SizeType DEF ScanSizes, TypeOK, listVars, appVars, netVars
<1>12. CASE ScanPrunes
  <2>1. entry' \in [Client -> Profile \cup {Absent}]
    BY <1>12 DEF ScanPrunes, TypeOK
  <2> QED
    BY <1>12, <2>1 DEF ScanPrunes, TypeOK, appVars, netVars
<1>13. CASE Tick
  <2>1. age' \in [Client -> 0..(StaleTimeout + 1)]
    BY <1>13, DiscoveryAssumption DEF Tick, TypeOK, Older
  <2>2. sinceQuery' \in 0..QueryInterval
    BY <1>13, DiscoveryAssumption DEF Tick, TypeOK, Older
  <2>3. answer' \in [Client -> 0..2]
    BY <1>13 DEF Tick, TypeOK
  <2>4. /\ spc' \in {"size", spc}
        /\ UNCHANGED <<after, message, oldSize, entry, locked, callback, told, appVars, profile, lost>>
    BY <1>13 DEF Tick
  <2> QED
    BY <2>1, <2>2, <2>3, <2>4 DEF TypeOK, appVars
<1>14. ASSUME NEW c \in Client, Announce(c)
       PROVE  TypeOK'
  BY <1>14 DEF Announce, TypeOK, scanVars, listVars, appVars
<1>15. ASSUME NEW c \in Client, Lose(c)
       PROVE  TypeOK'
  <2>1. answer' \in [Client -> 0..2]
    BY <1>15 DEF Lose, TypeOK
  <2>2. lost' \in [Client -> 0..MaxLosses]
    BY <1>15, DiscoveryAssumption DEF Lose, TypeOK
  <2> QED
    BY <1>15, <2>1, <2>2 DEF Lose, TypeOK, scanVars, listVars, appVars
<1>16. CASE UNCHANGED vars
  BY <1>16 DEF vars, TypeOK, scanVars, listVars, appVars, netVars
<1> QED
  BY <1>1, <1>2, <1>3, <1>4, <1>5, <1>6, <1>7, <1>8, <1>9, <1>10, <1>11, <1>12, <1>13, <1>14,
     <1>15, <1>16 DEF Next, App, Scan, Network

LEMMA DiscoveryTypes == Spec => []TypeOK
BY InitTypes, TypesStep, PTL DEF Spec

--------------------------------------------------------------------------------
(* Discovery: the callback *)

\* What the callback was told last is the list, except between a change and the report of
\* it.  A pruning is noticed by the size alone: until they are compared, oldSize is the
\* size before it.  A scan thread is started only when there is none, so a start cannot cut
\* a report short.
ToldInv ==
    /\ entry = [c \in Client |-> entry[c]]
    /\ ~running /\ upc # "joining" => spc = "none"
    /\ spc = "callback" => after \in {"size", "loop"}
    /\ spc = "erase" => oldSize = Size
    /\ callback # "none" =>
           /\ spc \notin {"notify", "compare"} => told = entry
           /\ spc = "compare" /\ Size = oldSize => told = entry

\* A pruning that leaves the size leaves the list: it only takes entries away, and a proper
\* subset of a finite set is smaller.
LEMMA PruningShows ==
    ASSUME entry = [c \in Client |-> entry[c]], ScanPrunes, Size' = Size
    PROVE  entry' = entry
<1> DEFINE S == {c \in Client : entry[c] # Absent}
           T == {c \in Client : entry'[c] # Absent}
<1>1. entry' = [c \in Client |-> IF age[c] > StaleTimeout THEN Absent ELSE entry[c]]
  BY DEF ScanPrunes
<1>2. T \subseteq S
  BY <1>1
<1>3. IsFiniteSet(S)
  BY DiscoveryAssumption, FS_Subset
<1>4. Cardinality(S) = Cardinality(T)
  BY DEF Size
<1>5. S = T
  <2> HIDE DEF S, T
  <2> QED
    BY <1>2, <1>3, <1>4, FS_Subset
<1>6. \A c \in Client : entry'[c] = entry[c]
  BY <1>1, <1>5
<1> QED
  BY <1>1, <1>6

\* Steps that neither write the list nor record or compare its size.
LEMMA ToldStays ==
    ASSUME ToldInv, UNCHANGED <<entry, oldSize, callback, told>>,
           ~running' /\ upc' # "joining" => spc' = "none",
           \/ spc' = spc /\ after' = after
           \/ /\ spc' \in {"none", "open", "loop", "recv", "update", "size", "ended"}
              /\ spc \notin {"notify", "compare"}
    PROVE  ToldInv'
<1>1. Size' = Size
  BY DEF Size
<1> QED
  BY <1>1 DEF ToldInv

LEMMA ToldStep == ToldInv /\ [Next]_vars => ToldInv'
<1> SUFFICES ASSUME ToldInv, [Next]_vars
             PROVE  ToldInv'
  OBVIOUS
<1>1. CASE StartScan
  <2>1. /\ UNCHANGED <<entry, oldSize, callback, told>> /\ upc' = upc /\ upc = "idle"
        /\ after' = after
    BY <1>1 DEF StartScan, scanVars, listVars
  <2>2. (running' = running /\ spc' = spc) \/ (~running /\ running' /\ spc' = "open")
    BY <1>1 DEF StartScan, scanVars
  <2> QED
    BY <2>1, <2>2, ToldStays DEF ToldInv
<1>2. CASE StopBegins \/ StopJoins \/ GetBegins \/ GetReturns
  <2>1. UNCHANGED <<entry, oldSize, callback, told, after>>
    BY <1>2 DEF StopBegins, StopJoins, GetBegins, GetReturns, scanVars, listVars
  <2>2. \/ spc' = spc /\ (upc' = "joining" \/ (running' = running /\ upc # "joining"))
        \/ spc \in {"none", "ended"} /\ spc' = "none"
    BY <1>2 DEF StopBegins, StopJoins, GetBegins, GetReturns, scanVars
  <2> QED
    BY <2>1, <2>2, ToldStays DEF ToldInv
<1>3. CASE SetCallback
  <2>1. /\ entry' = entry /\ spc' = spc /\ oldSize' = oldSize /\ told' = entry
        /\ after' = after /\ running' = running /\ upc' = upc
    BY <1>3 DEF SetCallback, scanVars, appVars
  <2>2. Size' = Size
    BY <2>1 DEF Size
  <2> QED
    BY <2>1, <2>2 DEF ToldInv
<1>4. CASE ScanOpens \/ ScanLoop \/ ScanGetsNothing \/ \E c \in Client : ScanReceives(c)
  <2>1. UNCHANGED <<entry, oldSize, callback, told, running, upc>>
    BY <1>4 DEF ScanOpens, ScanLoop, ScanGetsNothing, ScanReceives, listVars, appVars
  <2>2. spc' \in {"loop", "ended", "recv", "update", "size"} /\ spc \in {"open", "loop", "recv"}
    BY <1>4 DEF ScanOpens, ScanLoop, ScanGetsNothing, ScanReceives
  <2> QED
    BY <2>1, <2>2, ToldStays DEF ToldInv
<1>5. CASE ScanUpdates
  <2>1. UNCHANGED <<callback, told, running, upc>> /\ spc = "update"
    BY <1>5 DEF ScanUpdates, appVars
  <2>2. \/ entry' = entry /\ spc' = "size"
        \/ entry' = [c \in Client |-> entry'[c]] /\ spc' = "notify"
    <3> DEFINE c == message.ip
    <3>1. CASE entry[c] # Absent /\ entry[c].name = message.profile.name
      BY <1>5, <3>1 DEF ScanUpdates
    <3>2. CASE ~(entry[c] # Absent /\ entry[c].name = message.profile.name)
      <4>1. entry' = [entry EXCEPT ![c] = message.profile] /\ spc' = "notify"
        BY <1>5, <3>2 DEF ScanUpdates
      <4> QED
        BY <4>1 DEF ToldInv
    <3> QED
      BY <3>1, <3>2
  <2> QED
    BY <2>1, <2>2 DEF ToldInv
<1>6. CASE ScanNotifies
  <2>1. UNCHANGED <<oldSize, entry, callback, running, upc>> /\ spc = "notify"
    BY <1>6 DEF ScanNotifies, appVars
  <2>2. \/ callback # "none" /\ spc' = "callback" /\ after' = "size" /\ told' = entry
        \/ callback = "none" /\ spc' = "size"
    BY <1>6 DEF ScanNotifies, Notify
  <2> QED
    BY <2>1, <2>2 DEF ToldInv
<1>7. CASE CallbackReturns
  <2>1. /\ UNCHANGED <<entry, oldSize, callback, told, running, upc>>
        /\ spc = "callback" /\ spc' = after
    BY <1>7 DEF CallbackReturns, appVars
  <2> QED
    BY <2>1, ToldStays DEF ToldInv
<1>8. CASE ScanSizes
  <2>1. /\ UNCHANGED <<entry, callback, told, running, upc>> /\ spc = "size"
        /\ spc' = "erase" /\ oldSize' = Size
    BY <1>8 DEF ScanSizes, listVars, appVars
  <2>2. Size' = Size
    BY <2>1 DEF Size
  <2> QED
    BY <2>1, <2>2 DEF ToldInv
<1>9. CASE ScanPrunes
  <2>1. entry' = [c \in Client |-> entry'[c]]
    BY <1>9 DEF ScanPrunes
  <2>2. /\ UNCHANGED <<oldSize, callback, told, running, upc>>
        /\ spc = "erase" /\ spc' = "compare"
    BY <1>9 DEF ScanPrunes, appVars
  <2>3. Size' = Size => entry' = entry
    BY <1>9, PruningShows DEF ToldInv
  <2> QED
    BY <2>1, <2>2, <2>3 DEF ToldInv
<1>10. CASE ScanCompares
  <2>1. UNCHANGED <<oldSize, entry, callback, running, upc>> /\ spc = "compare"
    BY <1>10 DEF ScanCompares, appVars
  <2>2. \/ callback # "none" /\ spc' = "callback" /\ after' = "loop" /\ told' = entry
        \/ callback = "none" /\ spc' = "loop"
        \/ Size = oldSize /\ spc' = "loop" /\ told' = told
    BY <1>10 DEF ScanCompares, Notify
  <2> QED
    BY <2>1, <2>2 DEF ToldInv
<1>11. CASE Tick
  <2>1. UNCHANGED <<entry, oldSize, callback, told, running, upc, after>>
    BY <1>11 DEF Tick, appVars
  <2>2. (spc = "recv" /\ spc' = "size") \/ spc' = spc
    BY <1>11 DEF Tick
  <2> QED
    BY <2>1, <2>2, ToldStays DEF ToldInv
<1>12. CASE Network \/ UNCHANGED vars
  <2>1. UNCHANGED <<spc, after, oldSize, entry, callback, told, running, upc>>
    BY <1>12 DEF Network, Announce, Lose, vars, scanVars, listVars, appVars
  <2> QED
    BY <2>1, ToldStays DEF ToldInv
<1> QED
  BY <1>1, <1>2, <1>3, <1>4, <1>5, <1>6, <1>7, <1>8, <1>9, <1>10, <1>11, <1>12
     DEF Next, App, Scan

\* Whatever is added, renamed or dropped while the network is read, pruned and compared,
\* and whenever the callback was installed, the callback has heard of it before the scan
\* thread waits again.
THEOREM CallbackHearsAll == Spec => []NotifiedOfEveryChange
<1>1. Init => ToldInv
  BY DEF Init, ToldInv, Nobody
<1>2. ToldInv => NotifiedOfEveryChange
  BY DEF ToldInv, NotifiedOfEveryChange
<1> QED
  BY <1>1, <1>2, ToldStep, PTL DEF Spec

--------------------------------------------------------------------------------
(* Discovery: a client that answers stays listed *)

\* The age of a client that the losses of its answers, and an answer on its way, explain.
Excuse(c) == QueryInterval * (lost[c] + (IF answer[c] = 0 THEN 0 ELSE 1))

\* An answer is on its way only in the second of its query or the next; and a client is
\* older than the query by what its losses explain, except between the arrival of its
\* answer and the update.
Excused(c) ==
    /\ answer[c] = 1 => sinceQuery = 0
    /\ answer[c] = 2 => sinceQuery = 1
    /\ \/ entry[c] = Absent
       \/ spc = "update" /\ message.ip = c
       \/ age[c] <= sinceQuery + Excuse(c)

Scanning == spc \notin {"none", "open", "ended"}

\* Before the first scan nobody is listed; during it every steady client is excused.
SteadyInv ==
    /\ starts = 0 => spc = "none" /\ ~running
    /\ starts = 0 \/ spc = "open" => \A c \in Client : entry[c] = Absent /\ answer[c] = 0
    /\ spc = "update" => message.profile # Absent
    /\ spc = "recv" => sinceQuery < QueryInterval
    /\ \A c \in Steady : profile[c] # Absent /\ (Scanning => Excused(c))

LEMMA ExcuseIsNat == ASSUME TypeOK, NEW c \in Client PROVE Excuse(c) \in Nat
<1>1. lost[c] \in Nat /\ QueryInterval \in Nat
  BY DiscoveryAssumption DEF TypeOK
<1>2. \A q, n \in Nat : q * n \in Nat /\ q * (n + 1) \in Nat
  OBVIOUS
<1> QED
  BY <1>1, <1>2 DEF Excuse

\* Steps that send, lose and receive no answer, and read no clock.
LEMMA SteadyStays ==
    ASSUME SteadyInv, UNCHANGED <<sinceQuery, age, netVars>>,
           starts' = starts /\ UNCHANGED <<running, message>>,
           \A c \in Client : entry[c] = Absent => entry'[c] = Absent,
           spc' # spc => spc' \in {"loop", "size", "notify", "callback", "erase", "compare"},
           spc' # spc => Scanning /\ spc # "update"
    PROVE  SteadyInv'
<1>1. \A c : Excuse(c)' = Excuse(c)
  BY DEF Excuse, netVars
<1>2. ASSUME NEW c \in Steady
      PROVE  profile'[c] # Absent /\ (Scanning' => Excused(c)')
  <2>1. Scanning' => Scanning
    BY DEF Scanning
  <2>2. c \in Client
    BY DiscoveryAssumption
  <2> QED
    BY <1>1, <2>1, <2>2 DEF SteadyInv, Excused, netVars
<1>3. (starts' = 0 \/ spc' = "open") => (starts = 0 \/ spc = "open")
  OBVIOUS
<1>4. starts' = 0 => spc' = "none" /\ ~running'
  BY DEF SteadyInv, Scanning
<1> QED
  BY <1>2, <1>3, <1>4 DEF SteadyInv, netVars

LEMMA SteadyStep ==
    ASSUME MaxStarts <= 1, QueryInterval >= 2, TypeOK, SteadyInv, [Next]_vars
    PROVE  SteadyInv'
<1>0. Steady \subseteq Client /\ QueryInterval \in Nat
  BY DiscoveryAssumption
<1>1. CASE StartScan
  <2>1. starts = 0 /\ starts' = 1
    BY <1>1, DiscoveryAssumption DEF StartScan, TypeOK
  <2>2. spc' = "open" /\ UNCHANGED <<sinceQuery, listVars, netVars>>
    BY <1>1, <2>1 DEF StartScan, SteadyInv
  <2> QED
    BY <2>1, <2>2 DEF SteadyInv, Scanning, listVars, netVars
<1>2. CASE StopBegins \/ StopJoins \/ GetBegins \/ GetReturns
  <2>1. /\ UNCHANGED <<after, message, oldSize, sinceQuery, listVars, starts, netVars>>
        /\ spc' \in {spc, "none"} /\ (running' => running)
    BY <1>2 DEF StopBegins, StopJoins, GetBegins, GetReturns, scanVars
  <2>2. ASSUME NEW c \in Steady, spc' = spc, Excused(c)
        PROVE  Excused(c)'
    BY <2>1, <2>2 DEF Excused, Excuse, listVars, netVars
  <2>3. /\ UNCHANGED <<profile, entry, answer, message, sinceQuery, starts>>
        /\ spc' \in {spc, "none"} /\ (running' => running)
    BY <2>1 DEF listVars, netVars
  <2>4. \A c \in Steady : profile'[c] # Absent /\ (Scanning' => Excused(c)')
    <3> TAKE c \in Steady
    <3>1. Scanning' => spc' = spc /\ Scanning
      BY <2>3 DEF Scanning
    <3> QED
      BY <3>1, <2>2, <2>3 DEF SteadyInv
  <2> QED
    BY <2>3, <2>4 DEF SteadyInv
<1>3. CASE SetCallback
  BY <1>3, SteadyStays DEF SetCallback, scanVars, appVars
<1>4. CASE ScanOpens
  <2>1. /\ spc = "open" /\ spc' \in {"loop", "ended"}
        /\ UNCHANGED <<listVars, appVars, netVars>>
    BY <1>4 DEF ScanOpens
  <2>2. \A c \in Steady : Excused(c)'
    BY <2>1, <1>0 DEF SteadyInv, Excused, listVars, netVars
  <2> QED
    BY <2>1, <2>2 DEF SteadyInv, listVars, appVars, netVars
<1>5. CASE ScanLoop
  <2>1. /\ spc = "loop" /\ spc' \in {"recv", "ended"}
        /\ UNCHANGED <<message, entry, age, running, starts, profile, lost>>
    BY <1>5 DEF ScanLoop, listVars, appVars
  <2>2. CASE running /\ sinceQuery >= QueryInterval
    <3>1. /\ sinceQuery = QueryInterval /\ sinceQuery' = 0 /\ spc' = "recv"
          /\ answer' = [c \in Client |-> IF profile[c] # Absent THEN 1 ELSE answer[c]]
      BY <1>5, <2>2, <1>0 DEF ScanLoop, TypeOK
    <3>2. ASSUME NEW c \in Steady
          PROVE  Excused(c)'
      <4>1. answer'[c] = 1 /\ Excused(c) /\ answer[c] \in 0..2 /\ lost[c] \in Nat
        BY <3>1, <2>1, <1>0, DiscoveryAssumption DEF SteadyInv, Scanning, TypeOK
      <4>2. answer[c] = 0
        BY <4>1, <3>1, <1>0 DEF Excused
      <4>3. Excuse(c) = QueryInterval * lost[c]
        BY <4>2, <4>1, <1>0 DEF Excuse
      <4>4. Excuse(c)' = QueryInterval * (lost[c] + 1)
        BY <4>1, <2>1 DEF Excuse
      <4>5. QueryInterval * (lost[c] + 1) = QueryInterval + QueryInterval * lost[c]
        BY <4>1, <1>0
      <4>6. entry[c] = Absent \/ age[c] <= QueryInterval + QueryInterval * lost[c]
        BY <4>1, <4>3, <3>1, <2>1 DEF Excused
      <4>7. QueryInterval * (lost[c] + 1) \in Nat
        BY <4>1, <1>0
      <4> QED
        BY <4>1, <4>4, <4>5, <4>6, <4>7, <3>1, <2>1 DEF Excused
    <3> QED
      BY <3>1, <3>2, <2>1, <1>0 DEF SteadyInv
  <2>3. CASE ~(running /\ sinceQuery >= QueryInterval)
    <3>1. /\ UNCHANGED <<sinceQuery, answer>>
          /\ spc' = "recv" => sinceQuery < QueryInterval
      BY <1>5, <2>3, <1>0 DEF ScanLoop, TypeOK
    <3> QED
      BY <3>1, <2>1, <1>0 DEF SteadyInv, Scanning, Excused, Excuse
  <2> QED
    BY <2>2, <2>3
<1>6. CASE ScanGetsNothing \/ ScanSizes
  BY <1>6, SteadyStays DEF ScanGetsNothing, ScanSizes, Scanning, listVars, appVars
<1>7. ASSUME NEW d \in Client, ScanReceives(d)
      PROVE  SteadyInv'
  <2>1. /\ spc = "recv" /\ spc' = "update" /\ message' = [ip |-> d, profile |-> profile[d]]
        /\ answer' = [answer EXCEPT ![d] = 0] /\ lost' = [lost EXCEPT ![d] = 0]
        /\ UNCHANGED <<sinceQuery, entry, age, running, starts, profile>>
        /\ profile[d] # Absent
    BY <1>7 DEF ScanReceives, listVars, appVars
  <2>2. ASSUME NEW c \in Steady
        PROVE  Excused(c)'
    <3>1. Excused(c) /\ c \in Client
      BY <2>1, <1>0 DEF SteadyInv, Scanning
    <3>2. CASE c = d
      BY <3>1, <3>2, <2>1 DEF Excused, TypeOK
    <3>3. CASE c # d
      <4>1. answer'[c] = answer[c] /\ lost'[c] = lost[c]
        BY <3>1, <3>3, <2>1 DEF TypeOK
      <4> QED
        BY <4>1, <3>1, <2>1 DEF Excused, Excuse
    <3> QED
      BY <3>2, <3>3
  <2> QED
    BY <2>1, <2>2 DEF SteadyInv
<1>8. CASE ScanUpdates
  <2>1. /\ spc = "update" /\ spc' \in {"size", "notify"}
        /\ age' = [age EXCEPT ![message.ip] = 0]
        /\ UNCHANGED <<sinceQuery, running, starts, profile, answer, lost>>
    BY <1>8 DEF ScanUpdates, appVars, netVars
  <2>2. message.ip \in Client
    BY DEF TypeOK
  <2>3. ASSUME NEW c \in Client, c # message.ip
        PROVE  entry'[c] = entry[c]
    BY <1>8, <2>2, <2>3 DEF ScanUpdates, TypeOK
  <2>4. ASSUME NEW c \in Steady
        PROVE  Excused(c)'
    <3>1. Excused(c) /\ c \in Client /\ Excuse(c)' = Excuse(c) /\ Excuse(c) \in Nat
      BY <2>1, <1>0, ExcuseIsNat DEF SteadyInv, Scanning, Excuse
    <3>2. CASE c = message.ip
      <4>1. age'[c] = 0 /\ sinceQuery \in Nat
        BY <2>1, <2>2, <3>2, <1>0 DEF TypeOK
      <4>2. age'[c] <= sinceQuery' + Excuse(c)'
        BY <4>1, <3>1, <2>1
      <4> QED
        BY <4>2, <3>1, <2>1 DEF Excused
    <3>3. CASE c # message.ip
      <4>1. age'[c] = age[c]
        BY <2>1, <2>2, <3>1, <3>3 DEF TypeOK
      <4> QED
        BY <4>1, <2>3, <3>1, <3>3, <2>1 DEF Excused
    <3> QED
      BY <3>2, <3>3
  <2> QED
    BY <2>1, <2>4 DEF SteadyInv
<1>9. CASE ScanNotifies \/ ScanCompares
  <2>1. /\ UNCHANGED <<message, sinceQuery, entry, age, appVars, netVars>>
        /\ spc \in {"notify", "compare"} /\ spc' \in {"callback", "size", "loop"}
    BY <1>9 DEF ScanNotifies, ScanCompares, Notify
  <2> QED
    BY <2>1, SteadyStays DEF Scanning, appVars
<1>10. CASE CallbackReturns
  <2>1. spc = "callback" /\ spc' \in {"size", "loop"}
    BY <1>10 DEF CallbackReturns, TypeOK
  <2> QED
    BY <1>10, <2>1, SteadyStays DEF CallbackReturns, Scanning, appVars
<1>11. CASE ScanPrunes
  <2>1. \A c \in Client : entry[c] = Absent => entry'[c] = Absent
    BY <1>11 DEF ScanPrunes
  <2> QED
    BY <1>11, <2>1, SteadyStays DEF ScanPrunes, Scanning, appVars
<1>12. CASE Tick
  <2>1. /\ spc \in {"recv", "none", "ended"} /\ spc' = IF spc = "recv" THEN "size" ELSE spc
        /\ answer' = [c \in Client |-> IF answer[c] = 1 /\ spc = "recv" THEN 2 ELSE 0]
        /\ UNCHANGED <<message, entry, running, starts, profile, lost>>
        /\ spc = "recv" => \A c \in Steady : answer[c] < 2
    BY <1>12 DEF Tick, appVars
  <2>2. CASE spc = "recv"
    <3>1. sinceQuery' = sinceQuery + 1
      BY <1>12, <2>2, <1>0 DEF Tick, Older, SteadyInv
    <3>2. ASSUME NEW c \in Steady
          PROVE  Excused(c)'
      <4>1. /\ Excused(c) /\ c \in Client /\ answer[c] \in 0..1 /\ age[c] \in Nat
            /\ sinceQuery \in Nat
        BY <2>1, <2>2, <1>0 DEF SteadyInv, Scanning, TypeOK
      <4>2. age'[c] <= age[c] + 1 /\ age'[c] \in Nat
        BY <1>12, <4>1, DiscoveryAssumption DEF Tick, Older, TypeOK
      <4>3. answer'[c] = IF answer[c] = 0 THEN 0 ELSE 2
        BY <2>1, <2>2, <4>1
      <4>4. Excuse(c)' = Excuse(c) /\ Excuse(c) \in Nat
        BY <4>3, <4>1, <2>1, ExcuseIsNat DEF Excuse
      <4>5. entry[c] = Absent \/ age[c] <= sinceQuery + Excuse(c)
        BY <4>1, <2>2 DEF Excused
      <4>6. entry[c] = Absent \/ age'[c] <= sinceQuery' + Excuse(c)'
        BY <4>5, <4>4, <4>2, <4>1, <3>1
      <4> QED
        BY <4>6, <4>3, <4>1, <3>1, <2>1 DEF Excused
    <3> QED
      BY <3>2, <2>1, <2>2 DEF SteadyInv
  <2>3. CASE spc # "recv"
    BY <2>1, <2>3 DEF SteadyInv, Scanning
  <2> QED
    BY <2>2, <2>3
<1>13. ASSUME NEW d \in Client, Announce(d)
       PROVE  SteadyInv'
  <2>1. UNCHANGED <<scanVars, listVars, appVars, answer, lost>>
    BY <1>13 DEF Announce
  <2>2. \A c \in Steady : profile'[c] = profile[c]
    BY <1>13, <1>0 DEF Announce, TypeOK
  <2> QED
    BY <2>1, <2>2 DEF SteadyInv, Scanning, Excused, Excuse, scanVars, listVars, appVars
<1>14. ASSUME NEW d \in Client, Lose(d)
       PROVE  SteadyInv'
  <2>1. /\ UNCHANGED <<scanVars, listVars, appVars, profile>> /\ answer[d] > 0
        /\ answer' = [answer EXCEPT ![d] = 0]
        /\ lost' = IF d \in Steady THEN [lost EXCEPT ![d] = lost[d] + 1] ELSE lost
    BY <1>14 DEF Lose
  <2>2. UNCHANGED <<spc, message, sinceQuery, entry, age, running, starts>>
    BY <2>1 DEF scanVars, listVars, appVars
  <2>3. ASSUME NEW c \in Steady, Excused(c)
        PROVE  Excused(c)'
    <3>1. c \in Client /\ answer[c] \in 0..2 /\ lost[c] \in Nat
      BY <1>0, DiscoveryAssumption DEF TypeOK
    <3>2. CASE c = d
      <4>1. answer'[c] = 0 /\ lost'[c] = lost[c] + 1 /\ answer[c] # 0
        BY <2>1, <3>1, <3>2 DEF TypeOK
      <4>2. Excuse(c)' = QueryInterval * ((lost[c] + 1) + 0)
        BY <4>1 DEF Excuse
      <4>3. Excuse(c) = QueryInterval * (lost[c] + 1)
        BY <4>1 DEF Excuse
      <4>4. (lost[c] + 1) + 0 = lost[c] + 1
        BY <3>1
      <4> QED
        BY <4>1, <4>2, <4>3, <4>4, <2>2, <2>3 DEF Excused
    <3>3. CASE c # d
      <4>1. answer'[c] = answer[c] /\ lost'[c] = lost[c]
        BY <2>1, <3>1, <3>3 DEF TypeOK
      <4> QED
        BY <4>1, <2>2, <2>3 DEF Excused, Excuse
    <3> QED
      BY <3>2, <3>3
  <2>4. \A c \in Client : answer[c] = 0 => answer'[c] = 0
    BY <2>1 DEF TypeOK
  <2> QED
    BY <2>1, <2>2, <2>3, <2>4 DEF SteadyInv, Scanning
<1>15. CASE UNCHANGED vars
  BY <1>15, SteadyStays DEF vars, scanVars, listVars, appVars
<1> QED
  BY <1>1, <1>2, <1>3, <1>4, <1>5, <1>6, <1>7, <1>8, <1>9, <1>10, <1>11, <1>12, <1>13, <1>14,
     <1>15 DEF Next, App, Scan, Network

\* Nothing but the pruning of an entry older than StaleTimeout takes a client off the list,
\* and a steady client is never that old: its answers come every QueryInterval, each within
\* a second of the next, and at most MaxLosses of them in a row are lost.  It holds from the
\* first scan to its end; a second scan begins with the ages of the pause.
THEOREM SteadyStaysListed ==
    ASSUME MaxStarts <= 1, QueryInterval >= 2,
           QueryInterval * (MaxLosses + 1) + 1 <= StaleTimeout
    PROVE  Spec => SteadyClientKept
<1>1. Init => SteadyInv
  BY DiscoveryAssumption, InitTypes DEF Init, SteadyInv, Nobody, Scanning, TypeOK, AnyProfile, Profile
<1>2. TypeOK /\ SteadyInv /\ [Next]_vars => SteadyInv'
  BY SteadyStep
<1>3. ASSUME TypeOK, SteadyInv, [Next]_vars, NEW c \in Steady, entry[c] # Absent
      PROVE  entry'[c] # Absent
  <2>1. c \in Client
    BY DiscoveryAssumption
  <2>2. CASE ScanPrunes
    <3>1. entry'[c] = IF age[c] > StaleTimeout THEN Absent ELSE entry[c]
      BY <2>1, <2>2 DEF ScanPrunes
    <3>2. Excused(c) /\ spc = "erase"
      BY <1>3, <2>2 DEF ScanPrunes, SteadyInv, Scanning
    <3>3. age[c] <= sinceQuery + Excuse(c)
      BY <1>3, <3>2 DEF Excused
    <3>4. /\ answer[c] \in 0..2 /\ lost[c] \in 0..MaxLosses /\ age[c] \in Nat
          /\ sinceQuery \in 0..QueryInterval
          /\ QueryInterval \in Nat /\ StaleTimeout \in Nat /\ MaxLosses \in Nat
      BY <1>3, <2>1, DiscoveryAssumption DEF TypeOK
    <3>5. QueryInterval * lost[c] <= QueryInterval * MaxLosses
      BY <3>4
    <3>6. /\ QueryInterval * (lost[c] + 1) = QueryInterval * lost[c] + QueryInterval
          /\ QueryInterval * (MaxLosses + 1) = QueryInterval * MaxLosses + QueryInterval
          /\ QueryInterval * lost[c] \in Nat /\ QueryInterval * MaxLosses \in Nat
      BY <3>4
    <3>7. CASE answer[c] = 0
      <4>1. Excuse(c) = QueryInterval * lost[c]
        BY <3>4, <3>7 DEF Excuse
      <4> QED
        BY <4>1, <3>1, <3>3, <3>4, <3>5, <3>6, <1>3
    <3>8. CASE answer[c] # 0
      <4>1. Excuse(c) = QueryInterval * (lost[c] + 1)
        BY <3>8 DEF Excuse
      <4>2. sinceQuery <= 1
        BY <3>2, <3>4, <3>8 DEF Excused
      <4> QED
        BY <4>1, <4>2, <3>1, <3>3, <3>4, <3>5, <3>6, <1>3
    <3> QED
      BY <3>7, <3>8
  <2>3. CASE ScanUpdates
    <3>1. entry' \in {entry, [entry EXCEPT ![message.ip] = message.profile]}
      BY <2>3 DEF ScanUpdates
    <3>2. message.profile # Absent /\ message.ip \in Client
      BY <1>3, <2>3 DEF ScanUpdates, SteadyInv, TypeOK
    <3> QED
      BY <1>3, <2>1, <3>1, <3>2 DEF TypeOK
  <2>4. CASE ~ScanPrunes /\ ~ScanUpdates
    BY <1>3, <2>4 DEF Next, App, StartScan, StopBegins, StopJoins, GetBegins, GetReturns, SetCallback,
           Scan, ScanOpens, ScanLoop, ScanGetsNothing, ScanReceives, ScanNotifies,
           CallbackReturns, ScanSizes, ScanCompares, Notify, Tick, Network, Announce, Lose,
           listVars, vars
  <2> QED
    BY <2>2, <2>3, <2>4
<1>4. TypeOK /\ SteadyInv /\ [Next]_vars
        => [\A c \in Steady : entry[c] # Absent => entry'[c] # Absent]_vars
  BY <1>3
<1> QED
  BY <1>1, <1>2, <1>4, DiscoveryTypes, PTL DEF Spec, SteadyClientKept

--------------------------------------------------------------------------------
(* TrayApp: an application of Discovery *)

\* A step of the window procedure is one of the calls an application makes, or none.
LEMMA GuiStep == Gui => [App]_vars
BY DEF Gui, AppInit, ShowOrHide, TabChanged, ScanPressed, ScanStopped, ScanStarted,
       RefreshBegins, RefreshEnds, ExitChosen, DestroyEnds, App

LEMMA TrayStep == [TrayNext]_trayVars => [Next]_vars
BY GuiStep DEF TrayNext, Next, trayVars

\* TrayApp uses Discovery only as Discovery may be used, so what is proved of Discovery,
\* whatever an application does, holds under the window procedure.
THEOREM TrayUsesDiscovery == TraySpec => Spec
<1>1. TrayInit => Init
  BY DEF TrayInit
<1> QED
  BY <1>1, TrayStep, PTL DEF TraySpec, Spec

\* How the handler under way and the call of Discovery it waits in go together, and which
\* threads there can be: a scan thread that runs while no call is under way has running_
\* set, and after the window no handler is left to start one.
TrayInv ==
    /\ ~running /\ upc # "joining" => spc = "none"
    /\ upc = "joining" => ~running
    /\ handling = "nothing" => upc = "idle"
    /\ handling = "refresh" => upc = "reading"
    /\ handling = "scan" => upc \in {"joining", "idle"} /\ ~running
    /\ handling = "destroy" => upc = "joining"
    /\ handling # "nothing" => window \in {"hidden", "shown"}
    /\ window = "destroyed" => handling = "nothing" /\ ~running /\ ~icon

LEMMA TrayInvStep == TrayInv /\ [TrayNext]_trayVars => TrayInv'
<1> SUFFICES ASSUME TrayInv, [TrayNext]_trayVars
             PROVE  TrayInv'
  OBVIOUS
<1>1. CASE AppInit \/ ShowOrHide \/ TabChanged
  BY <1>1 DEF TrayInv, AppInit, ShowOrHide, TabChanged, Ready, vars, scanVars, appVars
<1>2. CASE ScanPressed \/ ExitChosen
  BY <1>2 DEF TrayInv, ScanPressed, ExitChosen, Ready, StopBegins, scanVars
<1>3. CASE ScanStopped
  BY <1>3 DEF TrayInv, ScanStopped, StopJoins, guiVars
<1>4. CASE ScanStarted
  BY <1>4 DEF TrayInv, ScanStarted, StartScan
<1>5. CASE RefreshBegins \/ RefreshEnds
  BY <1>5 DEF TrayInv, RefreshBegins, RefreshEnds, Ready, GetBegins, GetReturns, scanVars
<1>6. CASE DestroyEnds
  BY <1>6 DEF TrayInv, DestroyEnds, StopJoins
<1>7. CASE Scan /\ UNCHANGED guiVars
  <2>1. UNCHANGED <<running, upc, window, icon, handling>>
    BY <1>7 DEF guiVars, Scan, ScanOpens, ScanLoop, ScanGetsNothing, ScanReceives, ScanUpdates,
                ScanNotifies, CallbackReturns, ScanSizes, ScanPrunes, ScanCompares, appVars
  <2>2. spc # "none"
    BY <1>7 DEF Scan, ScanOpens, ScanLoop, ScanGetsNothing, ScanReceives, ScanUpdates,
                ScanNotifies, CallbackReturns, ScanSizes, ScanPrunes, ScanCompares
  <2> QED
    BY <2>1, <2>2 DEF TrayInv
<1>8. CASE (Tick \/ Network) /\ UNCHANGED guiVars
  <2>1. UNCHANGED <<running, upc, window, icon, handling>> /\ (spc' = spc \/ spc = "recv")
    BY <1>8 DEF Tick, Network, Announce, Lose, guiVars, appVars, scanVars
  <2> QED
    BY <2>1 DEF TrayInv
<1>9. CASE UNCHANGED trayVars
  BY <1>9 DEF TrayInv, trayVars, guiVars, vars, scanVars, appVars
<1> QED
  BY <1>1, <1>2, <1>3, <1>4, <1>5, <1>6, <1>7, <1>8, <1>9 DEF TrayNext, Gui

LEMMA TrayInvariant == TraySpec => []TrayInv
<1>1. TrayInit => TrayInv
  BY DEF TrayInit, Init, TrayInv
<1> QED
  BY <1>1, TrayInvStep, PTL DEF TraySpec

\* Exit waits for the scan thread before the window and the icon go, and no message that
\* could start another is handled afterwards.
THEOREM ExitLeavesNoThread == TraySpec => []NoThreadAfterExit
<1>1. TrayInv => NoThreadAfterExit
  BY DEF TrayInv, NoThreadAfterExit
<1> QED
  BY <1>1, TrayInvariant, PTL

\* The Scan button finds running_ clear and no thread when it starts one, so a start is
\* never the start_scan that returns at once.
THEOREM ScanButtonAlwaysSpawns == TraySpec => ScanButtonSpawns
<1>1. TrayInv /\ [TrayNext]_trayVars => [starts' # starts => spc' = "open"]_trayVars
  <2> SUFFICES ASSUME TrayInv, TrayNext, starts' # starts
               PROVE  spc' = "open"
    OBVIOUS
  <2>1. CASE ScanStarted
    BY <2>1 DEF TrayInv, ScanStarted, StartScan
  <2>2. CASE Gui /\ ~ScanStarted
    BY <2>2 DEF Gui, AppInit, ShowOrHide, TabChanged, ScanPressed, ScanStopped, RefreshBegins,
                RefreshEnds, ExitChosen, DestroyEnds, StopBegins, StopJoins, GetBegins,
                GetReturns, vars, appVars
  <2>3. CASE Scan
    BY <2>3 DEF Scan, ScanOpens, ScanLoop, ScanGetsNothing, ScanReceives, ScanUpdates,
                ScanNotifies, CallbackReturns, ScanSizes, ScanPrunes, ScanCompares, appVars
  <2>4. CASE Tick \/ Network
    BY <2>4 DEF Tick, Network, Announce, Lose, appVars
  <2> QED
    BY <2>1, <2>2, <2>3, <2>4 DEF TrayNext
<1> QED
  BY <1>1, TrayInvariant, PTL DEF TraySpec, ScanButtonSpawns
==================================================================================
