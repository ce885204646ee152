--------------------------------- MODULE Screens ---------------------------------
(***************************************************************************)
(* The state of the client's terminal interface: TuiApp (client/tui/       *)
(* app.cpp), the network list of WifiScreen and the server list of         *)
(* DiscoveryScreen (client/tui/screens), driven by the one thread of the   *)
(* event loop.  A WifiScreen is held by whoever uses its class, or dropped *)
(* by TuiApp::init, which keeps its component and not the object the       *)
(* component's functions work on.  Nothing creates a DiscoveryScreen.      *)
(* Lists are counted from 0 and entries are left out; rendering and        *)
(* wpa_supplicant too.                                                     *)
(***************************************************************************)
EXTENDS Integers

CONSTANTS
    MaxFound,       \* bound: networks a scan finds
    MaxServers      \* bound: servers added

ASSUME ScreensAssumption == {MaxFound, MaxServers} \subseteq Nat

VARIABLES
    overlay,        \* is_overlay_mode_
    screen,         \* current_screen_
    wifi,           \* the WifiScreen: "held", "dropped", or "crashed" after use
    networks,       \* length of networks_
    placeholder,    \* networks_ holds the line that there are none
    highlighted,    \* WifiScreen::selected_index_
    joined,         \* history: entry and length of the list when connect_to_network ran
    servers,        \* length of servers_
    selected,       \* DiscoveryScreen::selected_index_
    attempted       \* history: entry and length of the list when the callback ran

wifiVars == <<wifi, networks, placeholder, highlighted, joined>>
serverVars == <<servers, selected, attempted>>
screensVars == <<overlay, screen, wifiVars, serverVars>>

ScreenID == {"Home", "Settings", "Diagnostics", "Wifi", "Pairing", "Overlay"}
NoEntry == [entry |-> 0, of |-> 1]

ScreensTypeOK ==
    /\ {overlay, placeholder} \subseteq BOOLEAN
    /\ screen \in ScreenID
    /\ wifi \in {"held", "dropped", "crashed"}
    /\ {networks, highlighted, servers, selected} \subseteq Nat
    /\ {joined, attempted} \subseteq [entry : Nat, of : Nat]

--------------------------------------------------------------------------------
(* WifiScreen *)

\* Mutant: the selection survives a scan.
Bug_ScanNetworksKeepsSelection ==
    /\ \E found \in 0..MaxFound :
          /\ networks' = (IF found = 0 THEN 1 ELSE found)
          /\ placeholder' = (found = 0)
    /\ highlighted' = highlighted
    /\ UNCHANGED joined

\* scan_networks: different names, or the one line.
ScanNetworks ==
    /\ \E found \in 0..MaxFound :
          /\ networks' = (IF found = 0 THEN 1 ELSE found)
          /\ placeholder' = (found = 0)
    /\ highlighted' = 0
    /\ UNCHANGED joined

WifiUp ==
    /\ highlighted > 0
    /\ highlighted' = highlighted - 1
    /\ UNCHANGED <<networks, placeholder, joined>>

WifiDown ==
    /\ highlighted < networks - 1
    /\ highlighted' = highlighted + 1
    /\ UNCHANGED <<networks, placeholder, joined>>

ConnectPressed ==
    /\ ~placeholder
    /\ joined' = [entry |-> highlighted, of |-> networks]
    /\ UNCHANGED <<networks, placeholder, highlighted>>

\* A function of the component of a dropped WifiScreen works on an object that is gone,
\* which is undefined: what becomes of the list nobody can say and connect_to_network may be
\* passed any entry of a list of any length, or the program crashes.
WifiDangles ==
    /\ \/ wifi' = "crashed" /\ UNCHANGED joined
       \/ wifi' = wifi /\ joined' \in [entry : 0..MaxFound, of : 0..MaxFound]
    /\ UNCHANGED <<networks, placeholder, highlighted>>

WifiStep ==
    \/ wifi = "held" /\ UNCHANGED wifi
                     /\ (ScanNetworks \/ WifiUp \/ WifiDown \/ ConnectPressed)
    \/ wifi = "dropped" /\ WifiDangles

--------------------------------------------------------------------------------
(* DiscoveryScreen *)

AddServer ==
    /\ servers < MaxServers
    /\ servers' = servers + 1
    /\ UNCHANGED <<selected, attempted>>

ServerUp ==
    /\ servers > 0
    /\ selected > 0
    /\ selected' = selected - 1
    /\ UNCHANGED <<servers, attempted>>

ServerDown ==
    /\ servers > 0
    /\ selected < servers - 1
    /\ selected' = selected + 1
    /\ UNCHANGED <<servers, attempted>>

ServerReturn ==
    /\ servers > 0
    /\ attempted' = [entry |-> selected, of |-> servers]
    /\ UNCHANGED <<servers, selected>>

ServerStep == AddServer \/ ServerUp \/ ServerDown \/ ServerReturn

--------------------------------------------------------------------------------
(* TuiApp *)

SetOverlayMode(on) ==
    /\ overlay' = on
    /\ screen' = IF on THEN "Overlay" ELSE "Home"

NavigateTo(s) ==
    /\ screen' = IF overlay THEN screen ELSE s
    /\ UNCHANGED overlay

KeyF1 == SetOverlayMode(~overlay)
KeyF3 == NavigateTo("Wifi")
KeyEscape == ~overlay /\ NavigateTo("Home")

\* The functions offered to the rest of the client, and the keys.
AppStep ==
    \/ \E on \in BOOLEAN : SetOverlayMode(on)
    \/ \E s \in ScreenID : NavigateTo(s)
    \/ KeyF1 \/ KeyF3 \/ KeyEscape

--------------------------------------------------------------------------------
\* The constructors; that of WifiScreen scans.  Its object is held or, by TuiApp::init, not.
ScreensInit ==
    /\ overlay = FALSE
    /\ screen = "Wifi"
    /\ wifi \in {"held", "dropped"}
    /\ networks \in 1..MaxFound \cup {1}
    /\ placeholder \in BOOLEAN
    /\ placeholder => networks = 1
    /\ highlighted = 0
    /\ joined = NoEntry
    /\ servers = 0
    /\ selected = 0
    /\ attempted = NoEntry

ScreensNext ==
    /\ wifi # "crashed"
    /\ \/ WifiStep /\ UNCHANGED <<overlay, screen, serverVars>>
       \/ ServerStep /\ UNCHANGED <<overlay, screen, wifiVars>>
       \/ AppStep /\ UNCHANGED <<wifiVars, serverVars>>

ScreensSpec == ScreensInit /\ [][ScreensNext]_screensVars

--------------------------------------------------------------------------------
(* Properties *)

\* What Connect (of a WifiScreen that is held) and Enter pass on is an entry the list has at
\* that moment, whatever scans have made the list shorter and servers have made it longer
\* since it was selected; and while the overlay is on, no navigation leaves another screen
\* behind it.  navigate_to(Overlay) sets that screen with the flag off.
EntriesExist ==
    /\ wifi = "held" => joined.entry < joined.of
    /\ attempted.entry < attempted.of
    /\ overlay => screen = "Overlay"

\* Promised and false, "Try connecting to the selected network" of connect_to_network: what
\* it gets is an entry of the list, also in the program, where TuiApp::init drops the object.
ConnectsToListed == joined.entry < joined.of
================================================================================
