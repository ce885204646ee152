--------------------------------- MODULE TrayApp ---------------------------------
(***************************************************************************)
(* TrayApp of server/gui/tray_app.cpp over Discovery: the window procedure *)
(* runs one message at a time on the application thread, which Discovery   *)
(* blocks while it joins the scan thread or waits for mutex_.  Only the    *)
(* Scan button starts a scan, and no callback is installed.  Settings, the *)
(* placeholder statistics and the look of the window are left out.         *)
(***************************************************************************)
EXTENDS Discovery, Integers

CONSTANT Tabs       \* the pages of the tab control; 0 is Devices

ASSUME TabsAssumption == 0 \in Tabs

VARIABLES
    window,     \* the main window: "none", "hidden", "shown" or "destroyed"
    tab,        \* current_tab_
    pages,      \* the pages whose controls are shown
    rows,       \* the device list: what each row shows
    icon,       \* whether the tray icon is there
    handling    \* the handler that waits for Discovery: "nothing", "scan", "refresh", "destroy"

guiVars == <<window, tab, pages, rows, icon, handling>>
trayVars == <<vars, guiVars>>

GuiTypeOK ==
    /\ window \in {"none", "hidden", "shown", "destroyed"}
    /\ tab \in Tabs
    /\ pages \subseteq Tabs
    /\ rows \in [Client -> Profile \cup {Absent}]
    /\ icon \in BOOLEAN
    /\ handling \in {"nothing", "scan", "refresh", "destroy"}

TrayInit ==
    /\ Init
    /\ window = "none"
    /\ tab = 0
    /\ pages = {}
    /\ rows = Nobody
    /\ icon = FALSE
    /\ handling = "nothing"

--------------------------------------------------------------------------------
\* The message loop runs and no handler is under way.
Ready == window \in {"hidden", "shown"} /\ handling = "nothing"

\* init creates the window hidden, with the first tab's controls shown, and the icon.
AppInit ==
    /\ window = "none"
    /\ window' = "hidden"
    /\ pages' = {0}
    /\ icon' = TRUE
    /\ UNCHANGED <<vars, tab, rows, handling>>

\* WM_CLOSE hides the window; the tray icon or its Open command shows it.
ShowOrHide ==
    /\ Ready
    /\ window' \in {"hidden", "shown"}
    /\ UNCHANGED <<vars, tab, pages, rows, icon, handling>>

\* on_tab_changed
TabChanged ==
    /\ Ready
    /\ window = "shown"
    /\ \E new \in Tabs \ {tab} :
        /\ pages' = (pages \ {tab}) \cup {new}
        /\ tab' = new
    /\ UNCHANGED <<vars, window, rows, icon, handling>>

ListVisible == window = "shown" /\ 0 \in pages

\* Mutant: the Scan button only starts.
Bug_ScanPressedOnlyStarts ==
    /\ Ready
    /\ ListVisible
    /\ StartScan
    /\ UNCHANGED <<window, tab, pages, rows, icon, handling>>

\* The Scan button stops a scan ...
ScanPressed ==
    /\ Ready
    /\ ListVisible
    /\ starts < MaxStarts
    /\ StopBegins
    /\ handling' = "scan"
    /\ UNCHANGED <<window, tab, pages, rows, icon>>

ScanStopped ==
    /\ handling = "scan"
    /\ StopJoins
    /\ UNCHANGED guiVars

\* ... and starts another.
ScanStarted ==
    /\ handling = "scan"
    /\ StartScan
    /\ handling' = "nothing"
    /\ UNCHANGED <<window, tab, pages, rows, icon>>

\* WM_TIMER: update_device_list gets the clients ...
RefreshBegins ==
    /\ Ready
    /\ GetBegins
    /\ handling' = "refresh"
    /\ UNCHANGED <<window, tab, pages, rows, icon>>

\* Mutant: rows are added to those already there.
Bug_RefreshAdds ==
    /\ handling = "refresh"
    /\ GetReturns
    /\ rows' = IF ListVisible
               THEN [c \in Client |-> IF entry[c] # Absent THEN entry[c] ELSE rows[c]]
               ELSE rows
    /\ handling' = "nothing"
    /\ UNCHANGED <<window, tab, pages, icon>>

\* ... and fills the list anew, when it is shown.
RefreshEnds ==
    /\ handling = "refresh"
    /\ GetReturns
    /\ rows' = IF ListVisible THEN entry ELSE rows
    /\ handling' = "nothing"
    /\ UNCHANGED <<window, tab, pages, icon>>

\* The Exit command destroys the window: WM_DESTROY stops the scan ...
ExitChosen ==
    /\ Ready
    /\ StopBegins
    /\ handling' = "destroy"
    /\ UNCHANGED <<window, tab, pages, rows, icon>>

\* Mutant: the window goes without waiting for the scan thread.
Bug_DestroyEndsUnjoined ==
    /\ handling = "destroy"
    /\ window' = "destroyed"
    /\ icon' = FALSE
    /\ handling' = "nothing"
    /\ upc' = "idle"
    /\ UNCHANGED <<scanVars, listVars, running, starts, netVars, tab, pages, rows>>

\* ... and removes the icon before the message loop ends.
DestroyEnds ==
    /\ handling = "destroy"
    /\ StopJoins
    /\ window' = "destroyed"
    /\ icon' = FALSE
    /\ handling' = "nothing"
    /\ UNCHANGED <<tab, pages, rows>>

Gui ==
    \/ AppInit \/ ShowOrHide \/ TabChanged
    \/ ScanPressed \/ ScanStopped \/ ScanStarted
    \/ RefreshBegins \/ RefreshEnds
    \/ ExitChosen \/ DestroyEnds

TrayNext ==
    \/ Gui
    \/ (Scan \/ Tick \/ Network) /\ UNCHANGED guiVars

\* Both threads keep running, time passes, and the refresh timer keeps firing.
TrayFairness ==
    /\ WF_trayVars(Scan /\ UNCHANGED guiVars)
    /\ SF_trayVars(Tick /\ UNCHANGED guiVars)
    /\ SF_trayVars(RefreshBegins)
    /\ WF_trayVars(RefreshEnds)
    /\ WF_trayVars(ScanStopped)
    /\ WF_trayVars(ScanStarted)
    /\ WF_trayVars(DestroyEnds)

TraySpec == TrayInit /\ [][TrayNext]_trayVars
FairTraySpec == TraySpec /\ TrayFairness

--------------------------------------------------------------------------------
(* Properties *)

\* Once the window is destroyed and the icon gone, no scan thread is left that could
\* outlive the application.
NoThreadAfterExit == window = "destroyed" => spc = "none" /\ ~running /\ ~icon

\* The Scan button always leaves a fresh scan thread behind, also after a scan that
\* ended by itself and left running_ set (stop_scan comes before start_scan).
ScanButtonSpawns == [][starts' # starts => spc' = "open"]_trayVars

\* A client that stays off leaves the list the user looks at.
RowsForgetSilent ==
    \A c \in Client :
        (rows[c] # Absent /\ profile[c] = Absent /\ running /\ spc = "loop" /\ ListVisible)
            ~> (rows[c] = Absent \/ profile[c] # Absent \/ ~running \/ ~ListVisible)
================================================================================
