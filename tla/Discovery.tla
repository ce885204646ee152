-------------------------------- MODULE Discovery --------------------------------
(***************************************************************************)
(* Discovery of server/gui/discovery.cpp: a scan thread asks the network   *)
(* for clients every QueryInterval, keeps a list of those that answered,   *)
(* drops the ones silent for more than StaleTimeout and tells a callback.  *)
(* The application thread starts and stops the scan, reads the list and    *)
(* installs the callback.  mutex_ is held for single steps, except around  *)
(* the callback; the list is a function from address to profile, since     *)
(* nothing depends on the order of the vector.  Time passes in seconds,    *)
(* while the scan thread waits for a datagram or does not run.             *)
(***************************************************************************)
EXTENDS Naturals, FiniteSets

CONSTANTS
    Client,         \* the addresses that may answer
    Steady,         \* those that answer every query
    Name,           \* what the name and port of a client may be
    Key,            \* what its fingerprint may be
    Absent,         \* no entry
    Callbacks,      \* what the application may install: "posts", or "reads"
    QueryInterval,  \* QUERY_INTERVAL in seconds
    StaleTimeout,   \* STALE_TIMEOUT in seconds
    MaxLosses,      \* bound: answers of a steady client lost in a row
    MaxStarts       \* bound: calls of start_scan

ASSUME DiscoveryAssumption ==
    /\ IsFiniteSet(Client) /\ Client # {} /\ Steady \subseteq Client
    /\ Name # {} /\ Key # {} /\ Absent \notin [name : Name, key : Key]
    /\ Callbacks \subseteq {"posts", "reads"}
    /\ QueryInterval \in Nat \ {0} /\ StaleTimeout \in Nat \ {0}
    /\ MaxLosses \in Nat /\ MaxStarts \in Nat

Profile == [name : Name, key : Key]

VARIABLES
    running,    \* running_
    spc,        \* where the scan thread is; "ended" until it is joined, "none" after
    after,      \* where it goes on after the callback
    message,    \* the response it parsed
    oldSize,    \* old_size
    sinceQuery, \* seconds since last_query
    entry,      \* clients_: the profile of each address, or Absent
    age,        \* seconds since last_seen, counted up to StaleTimeout + 1
    locked,     \* whether the scan thread holds mutex_ around the callback
    callback,   \* callback_
    told,       \* the list as it was when the callback last ran (or was installed)
    upc,        \* what the application thread is doing
    starts,     \* calls of start_scan so far
    profile,    \* what each client announces now, Absent while it is off
    answer,     \* an answer on its way: 0 none, 1 sent, 2 a second old
    lost        \* answers of each client lost in a row

scanVars == <<spc, after, message, oldSize, sinceQuery>>
listVars == <<entry, age, locked, callback, told>>
appVars == <<running, upc, starts>>
netVars == <<profile, answer, lost>>
vars == <<scanVars, listVars, appVars, netVars>>

TypeOK ==
    /\ running \in BOOLEAN
    /\ spc \in {"none", "open", "loop", "recv", "update", "notify", "callback", "size",
                "erase", "compare", "ended"}
    /\ after \in {"size", "loop"}
    /\ message \in [ip : Client, profile : Profile]
    /\ oldSize \in 0..Cardinality(Client)
    /\ sinceQuery \in 0..QueryInterval
    /\ entry \in [Client -> Profile \cup {Absent}]
    /\ age \in [Client -> 0..(StaleTimeout + 1)]
    /\ locked \in BOOLEAN
    /\ callback \in Callbacks \cup {"none"}
    /\ told \in [Client -> Profile \cup {Absent}]
    /\ upc \in {"idle", "joining", "reading"}
    /\ starts \in 0..MaxStarts
    /\ profile \in [Client -> Profile \cup {Absent}]
    /\ answer \in [Client -> 0..2]
    /\ lost \in [Client -> 0..MaxLosses]

Nobody == [c \in Client |-> Absent]
AnyProfile == CHOOSE p \in Profile : TRUE
Size == Cardinality({c \in Client : entry[c] # Absent})

Init ==
    /\ running = FALSE
    /\ spc = "none"
    /\ after = "loop"
    /\ message = [ip |-> CHOOSE c \in Client : TRUE, profile |-> AnyProfile]
    /\ oldSize = 0
    /\ sinceQuery = QueryInterval
    /\ entry = Nobody
    /\ age = [c \in Client |-> 0]
    /\ locked = FALSE
    /\ callback = "none"
    /\ told = Nobody
    /\ upc = "idle"
    /\ starts = 0
    /\ profile = [c \in Client |-> IF c \in Steady THEN AnyProfile ELSE Absent]
    /\ answer = [c \in Client |-> 0]
    /\ lost = [c \in Client |-> 0]

--------------------------------------------------------------------------------
(* The application thread *)

\* start_scan: nothing when running_ is set, else a new scan thread.
StartScan ==
    /\ upc = "idle"
    /\ starts < MaxStarts
    /\ starts' = starts + 1
    /\ IF running
       THEN UNCHANGED <<running, scanVars>>
       ELSE /\ running' = TRUE
            /\ spc' = "open"
            /\ UNCHANGED <<after, message, oldSize, sinceQuery>>
    /\ UNCHANGED <<listVars, upc, netVars>>

\* stop_scan clears running_ ...
StopBegins ==
    /\ upc = "idle"
    /\ running' = FALSE
    /\ upc' = "joining"
    /\ UNCHANGED <<scanVars, listVars, starts, netVars>>

\* ... and joins the thread, if there is one.
StopJoins ==
    /\ upc = "joining"
    /\ spc \in {"none", "ended"}
    /\ spc' = "none"
    /\ upc' = "idle"
    /\ UNCHANGED <<after, message, oldSize, sinceQuery, listVars, running, starts, netVars>>

\* get_clients takes mutex_, copies the list and returns the copy.
GetBegins ==
    /\ upc = "idle"
    /\ upc' = "reading"
    /\ UNCHANGED <<scanVars, listVars, running, starts, netVars>>

GetReturns ==
    /\ upc = "reading"
    /\ ~locked
    /\ upc' = "idle"
    /\ UNCHANGED <<scanVars, listVars, running, starts, netVars>>

SetCallback ==
    /\ upc = "idle"
    /\ ~locked
    /\ callback' \in Callbacks \ {callback}
    /\ told' = entry
    /\ UNCHANGED <<scanVars, entry, age, locked, appVars, netVars>>

App == StartScan \/ StopBegins \/ StopJoins \/ GetBegins \/ GetReturns \/ SetCallback

--------------------------------------------------------------------------------
(* The scan thread *)

\* The socket is opened and bound, or the thread returns with running_ still set.
ScanOpens ==
    /\ spc = "open"
    /\ spc' \in {"loop", "ended"}
    /\ sinceQuery' = QueryInterval
    /\ UNCHANGED <<after, message, oldSize, listVars, appVars, netVars>>

\* Mutant: running_ is read only once a list change was reported.
Bug_ScanLoopIgnoresStop ==
    /\ spc = "loop"
    /\ spc' = "recv"
    /\ sinceQuery' = 0
    /\ answer' = [c \in Client |-> IF profile[c] # Absent THEN 1 ELSE answer[c]]
    /\ UNCHANGED <<after, message, oldSize, listVars, appVars, profile, lost>>

\* while (running_), and a query every QueryInterval, which every client that is on answers
ScanLoop ==
    /\ spc = "loop"
    /\ spc' = IF running THEN "recv" ELSE "ended"
    /\ IF running /\ sinceQuery >= QueryInterval
       THEN /\ sinceQuery' = 0
            /\ answer' = [c \in Client |-> IF profile[c] # Absent THEN 1 ELSE answer[c]]
       ELSE UNCHANGED <<sinceQuery, answer>>
    /\ UNCHANGED <<after, message, oldSize, listVars, appVars, profile, lost>>

\* recvfrom gives up, or returns a datagram that is not a response of a client.
ScanGetsNothing ==
    /\ spc = "recv"
    /\ spc' = "size"
    /\ UNCHANGED <<after, message, oldSize, sinceQuery, listVars, appVars, netVars>>

\* recvfrom returns the answer of a client, which is parsed.
ScanReceives(c) ==
    /\ spc = "recv"
    /\ answer[c] > 0
    /\ profile[c] # Absent
    /\ message' = [ip |-> c, profile |-> profile[c]]
    /\ answer' = [answer EXCEPT ![c] = 0]
    /\ lost' = [lost EXCEPT ![c] = 0]
    /\ spc' = "update"
    /\ UNCHANGED <<after, oldSize, sinceQuery, listVars, appVars, profile>>

\* Mutant: last_seen of a known client is refreshed only when the entry changes.
Bug_ScanUpdatesKeepsLastSeen ==
    LET c == message.ip
        known == entry[c] # Absent /\ entry[c].name = message.profile.name
    IN  /\ spc = "update"
        /\ entry' = IF known THEN entry ELSE [entry EXCEPT ![c] = message.profile]
        /\ age' = IF known THEN age ELSE [age EXCEPT ![c] = 0]
        /\ spc' = IF known THEN "size" ELSE "notify"
        /\ UNCHANGED <<after, message, oldSize, sinceQuery, locked, callback, told, appVars,
                       netVars>>

\* Mutant: a change of name or port is stored but not reported.
Bug_ScanUpdatesQuietly ==
    LET c == message.ip
    IN  /\ spc = "update"
        /\ entry' = [entry EXCEPT ![c] = message.profile]
        /\ age' = [age EXCEPT ![c] = 0]
        /\ spc' = IF entry[c] # Absent THEN "size" ELSE "notify"
        /\ UNCHANGED <<after, message, oldSize, sinceQuery, locked, callback, told, appVars,
                       netVars>>

\* The entry of the address is refreshed, replaced (when the name or port differs; a new
\* fingerprint alone is not looked at) or added.
ScanUpdates ==
    LET c == message.ip
        known == entry[c] # Absent /\ entry[c].name = message.profile.name
    IN  /\ spc = "update"
        /\ age' = [age EXCEPT ![c] = 0]
        /\ entry' = IF known THEN entry ELSE [entry EXCEPT ![c] = message.profile]
        /\ spc' = IF known THEN "size" ELSE "notify"
        /\ UNCHANGED <<after, message, oldSize, sinceQuery, locked, callback, told, appVars,
                       netVars>>

\* The callback is called with mutex_ held, if there is one.
Notify(next) ==
    IF callback # "none"
    THEN /\ spc' = "callback"
         /\ after' = next
         /\ locked' = TRUE
         /\ told' = entry
    ELSE /\ spc' = next
         /\ UNCHANGED <<after, locked, told>>

ScanNotifies ==
    /\ spc = "notify"
    /\ Notify("size")
    /\ UNCHANGED <<message, oldSize, sinceQuery, entry, age, callback, appVars, netVars>>

\* A callback that posts a message returns; one that calls get_clients waits for mutex_,
\* which its own thread holds.
CallbackReturns ==
    /\ spc = "callback"
    /\ callback = "reads" => ~locked
    /\ locked' = FALSE
    /\ spc' = after
    /\ UNCHANGED <<after, message, oldSize, sinceQuery, entry, age, callback, told, appVars,
                   netVars>>

ScanSizes ==
    /\ spc = "size"
    /\ oldSize' = Size
    /\ spc' = "erase"
    /\ UNCHANGED <<after, message, sinceQuery, listVars, appVars, netVars>>

\* Mutant: stale entries stay.
Bug_ScanPrunesNothing ==
    /\ spc = "erase"
    /\ spc' = "compare"
    /\ UNCHANGED <<after, message, oldSize, sinceQuery, listVars, appVars, netVars>>

\* prune_stale_clients
ScanPrunes ==
    /\ spc = "erase"
    /\ entry' = [c \in Client |-> IF age[c] > StaleTimeout THEN Absent ELSE entry[c]]
    /\ spc' = "compare"
    /\ UNCHANGED <<after, message, oldSize, sinceQuery, age, locked, callback, told, appVars,
                   netVars>>

\* The callback hears of the pruning when the size changed.
ScanCompares ==
    /\ spc = "compare"
    /\ IF Size # oldSize
       THEN Notify("loop")
       ELSE spc' = "loop" /\ UNCHANGED <<after, locked, told>>
    /\ UNCHANGED <<message, oldSize, sinceQuery, entry, age, callback, appVars, netVars>>

Scan ==
    \/ ScanOpens \/ ScanLoop \/ ScanGetsNothing \/ \E c \in Client : ScanReceives(c)
    \/ ScanUpdates \/ ScanNotifies \/ CallbackReturns
    \/ ScanSizes \/ ScanPrunes \/ ScanCompares

--------------------------------------------------------------------------------
(* Time and the network *)

Older(a, cap) == IF a < cap THEN a + 1 ELSE cap

\* A second passes, while recvfrom waits (which then gives up) or while nothing scans.
\* An answer of a steady client takes less than two seconds or is lost.
Tick ==
    /\ spc \in {"recv", "none", "ended"}
    /\ spc = "recv" => \A c \in Steady : answer[c] < 2
    /\ spc' = IF spc = "recv" THEN "size" ELSE spc
    /\ age' = [c \in Client |-> Older(age[c], StaleTimeout + 1)]
    /\ sinceQuery' = Older(sinceQuery, QueryInterval)
    /\ answer' = [c \in Client |-> IF answer[c] = 1 /\ spc = "recv" THEN 2 ELSE 0]
    /\ UNCHANGED <<after, message, oldSize, entry, locked, callback, told, appVars, profile,
                   lost>>

\* A client is switched on, renamed, given a new key, or switched off.
Announce(c) ==
    /\ c \notin Steady
    /\ profile' \in {[profile EXCEPT ![c] = p] : p \in Profile \cup {Absent}}
    /\ UNCHANGED <<scanVars, listVars, appVars, answer, lost>>

\* An answer is lost, of a steady client not too often in a row.
Lose(c) ==
    /\ answer[c] > 0
    /\ c \in Steady => lost[c] < MaxLosses
    /\ answer' = [answer EXCEPT ![c] = 0]
    /\ lost' = IF c \in Steady THEN [lost EXCEPT ![c] = lost[c] + 1] ELSE lost
    /\ UNCHANGED <<scanVars, listVars, appVars, profile>>

Network == \E c \in Client : Announce(c) \/ Lose(c)

Next == App \/ Scan \/ Tick \/ Network

\* Both threads keep running, calls that were begun end, time passes, and an answer of a
\* steady client arrives or is lost.
Fairness ==
    /\ WF_vars(Scan)
    /\ SF_vars(Tick)
    /\ \A c \in Steady : SF_vars(ScanReceives(c) \/ Lose(c))
    /\ WF_vars(StopJoins)
    /\ SF_vars(GetReturns)

Spec == Init /\ [][Next]_vars
FairSpec == Spec /\ Fairness

--------------------------------------------------------------------------------
(* Properties *)

\* Whenever the scan thread is back at waiting for the network, an installed callback has
\* been called since the last change of the list, additions, renames and removals alike.
NotifiedOfEveryChange == (spc = "recv" /\ callback # "none") => told = entry

\* A listed client that answers every query is not dropped while it is scanned for, as
\* long as at most MaxLosses of its answers in a row are lost.
SteadyClientKept ==
    [][\A c \in Steady : entry[c] # Absent => entry'[c] # Absent]_vars

\* A client that stays off is dropped from the list, unless the scan is stopped.
SilentClientForgotten ==
    \A c \in Client :
        (profile[c] = Absent /\ running /\ spc = "loop")
            ~> (entry[c] = Absent \/ profile[c] # Absent \/ ~running)

\* stop_scan and get_clients return.
CallsReturn == upc # "idle" ~> upc = "idle"
================================================================================
