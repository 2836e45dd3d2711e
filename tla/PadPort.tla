------------------------------ MODULE PadPort -------------------------------
(***************************************************************************)
(* The wired port (src/pad.cpp): the boot opens it and sets the controller *)
(* up before the menu is shown, and the menu rebuilds the pad library      *)
(* after a driver was loaded onto the bus it shares.  Each step of the     *)
(* setting up waits for the controller to be ready; a port without one     *)
(* must hold up neither (MenuAnswers in Controllers).  The port is         *)
(* external: controllers come, go and are busy when they like, the         *)
(* driver's answers are its state.                                         *)
(***************************************************************************)
EXTENDS Naturals

CONSTANTS
    MaxTicks,         \* one second, the bound of a wait
    MaxReinits        \* bound: rebuilds the menu asks for

VARIABLES
    port,             \* "none" or "error"; "busy"; "digital" or "dual", which are stable
    open,             \* the port is open
    at,               \* the main thread: "boot", "reopen", "wait", "step" or "menu"
    wait,             \* which of initializePad's waits
    ticks,            \* time spent in this wait
    reinits

vars == <<port, open, at, wait, ticks, reinits>>

Stable == port \in {"digital", "dual"}

Init ==
    /\ port \in {"none", "busy", "dual"}
    /\ open = FALSE /\ at = "boot" /\ wait = 0 /\ ticks = 0 /\ reinits = 0

(* Controllers are plugged in and out, and get busy. *)
PortChanges ==
    /\ \E s \in {"none", "error", "busy", "digital", "dual"} : port' = s
    /\ UNCHANGED <<open, at, wait, ticks, reinits>>

(* The rebuild: the port is closed and the library ended first. *)
Reinit ==
    /\ at = "menu" /\ reinits < MaxReinits
    /\ reinits' = reinits + 1
    /\ at' = "reopen" /\ open' = FALSE
    /\ UNCHANGED <<port, wait, ticks>>

(* padPortOpen: if it fails the caller goes on without a controller. *)
OpenPort ==
    /\ at \in {"boot", "reopen"}
    /\ \/ open' = TRUE /\ at' = "wait" /\ wait' = 1 /\ ticks' = 0
       \/ at' = "menu" /\ UNCHANGED <<open, wait, ticks>>
    /\ UNCHANGED <<port, reinits>>

GiveUp == at' = "menu" /\ wait' = 0 /\ ticks' = 0

(* waitPadReady: a look at the port.  Ready ends the wait, no controller and
   an error give up, and so does a second without an answer. *)
WaitPadReady ==
    /\ at = "wait"
    /\ \/ Stable /\ at' = "step" /\ ticks' = 0 /\ UNCHANGED wait
       \/ port \in {"none", "error"} /\ GiveUp
       \/ port = "busy" /\ ticks >= MaxTicks /\ GiveUp
       \/ port = "busy" /\ ticks < MaxTicks /\ ticks' = ticks + 1 /\ UNCHANGED <<at, wait>>
    /\ UNCHANGED <<port, open, reinits>>

(* initializePad between its waits: a controller without a DualShock mode is
   left as it is; the others are put in that mode (1), asked about pressure
   (2), put in pressure mode (3), asked for their motors (4) and given them
   (5), if any; each leaves the controller busy. *)
InitializePad ==
    /\ at = "step"
    /\ \/ (wait = 6 \/ (wait = 1 /\ port # "dual")) /\ GiveUp /\ UNCHANGED port
       \/ wait = 1 /\ port = "dual" /\ wait' = 2 /\ at' = "wait" /\ port' = "busy" /\ UNCHANGED ticks
       \/ /\ wait \in 2..5 /\ at' = "wait" /\ UNCHANGED ticks
          /\ wait' = wait + 1 /\ port' \in {port, "busy"}
       \/ wait = 4 /\ at' = "wait" /\ wait' = 6 /\ UNCHANGED <<port, ticks>>
    /\ UNCHANGED <<open, reinits>>

Main == OpenPort \/ WaitPadReady \/ InitializePad
Next == PortChanges \/ Reinit \/ Main
Spec == Init /\ [][Next]_vars /\ WF_vars(Main)

TypeOK ==
    /\ port \in {"none", "error", "busy", "digital", "dual"} /\ open \in BOOLEAN
    /\ at \in {"boot", "reopen", "wait", "step", "menu"} /\ wait \in 0..6
    /\ ticks \in 0..MaxTicks /\ reinits \in 0..MaxReinits
=============================================================================
