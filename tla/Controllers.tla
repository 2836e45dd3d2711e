---------------------------- MODULE Controllers -----------------------------
(***************************************************************************)
(* The wired port and the controllers' servers as the menu uses them: the   *)
(* boot loads the two IOP modules and binds to their servers, then sets up  *)
(* the port; the menu rebuilds the port, and in between calls the USB       *)
(* module's server and waits for its answer (luacontrols.cpp, Pads.get; the *)
(* Bluetooth module's server is asked the same way, before).                *)
(***************************************************************************)
EXTENDS Ds34Usb

CONSTANTS MaxTicks, MaxReinits

ASSUME BoundsAssumption == MaxTicks \in Nat \ {0} /\ MaxReinits \in Nat

VARIABLES
    stayed,           \* the modules that stayed in memory, which nobody asks
    servers,          \* the servers whose thread has registered them
    bound,            \* the servers the menu's side is bound to (ds34usb_inited, ds34bt_inited)
    port, open, at, wait, ticks, reinits
padVars == <<port, open, at, wait, ticks, reinits>>
Pad == INSTANCE PadPort

(* Both import usbd, whose load may have failed, and either may run out of memory. *)
InitAll ==
    /\ UsbInit /\ Pad!Init /\ servers = {} /\ bound = {}
    /\ stayed \in SUBSET {"usb", "bt"}

(* rpc_thread: a module's load returns before its server is registered. *)
ServerUp ==
    /\ \E m \in stayed \ servers : servers' = servers \union {m}
    /\ UNCHANGED <<usbVars, padVars, stayed, bound>>

(* ds34usb_init, then ds34bt_init: bound again and again until there is a server. *)
NextServer == IF "usb" \in bound THEN "bt" ELSE "usb"
Bind ==
    /\ bound # {"usb", "bt"} /\ NextServer \in servers
    /\ bound' = bound \union {NextServer}
    /\ UNCHANGED <<usbVars, padVars, stayed, servers>>

(* One frame of the menu: the port is read, then the USB server is asked. *)
Booted == bound = {"usb", "bt"} /\ UNCHANGED <<stayed, servers, bound>>
GetPad == Booted /\ at = "menu" /\ UsbGetStatus /\ UNCHANGED padVars
ReinitPad == Booted /\ rpc = "idle" /\ Pad!Reinit /\ UNCHANGED usbVars
PadMain == Booted /\ Pad!Main /\ UNCHANGED usbVars
PortChanges == Pad!PortChanges /\ UNCHANGED <<usbVars, stayed, servers, bound>>
Server == Status \/ StatusDone \/ UsbGetData \/ Send \/ TransferWait \/ ReadData \/ Copy
Driver == PlugIn \/ UsbConnect \/ PlugOut \/ Configured \/ LedSent \/ UsbSetUp \/ DataCb \/ Timeout

NextAll ==
    \/ ServerUp \/ Bind
    \/ GetPad \/ ReinitPad \/ PadMain \/ PortChanges
    \/ (Server \/ ("usb" \in stayed /\ Driver)) /\ UNCHANGED <<padVars, stayed, servers, bound>>

allVars == <<usbVars, padVars, stayed, servers, bound>>
SpecAll ==
    /\ InitAll /\ [][NextAll]_allVars /\ Fair
    /\ WF_allVars(ServerUp) /\ WF_allVars(Bind) /\ WF_allVars(PadMain)

(* The boot binds to the server of a module that did not stay: SifBindRpc answers that it
   asked, there is no server, and so it asks again. *)
BindsForEver == bound # {"usb", "bt"} /\ NextServer \notin stayed

(* The menu comes up, whatever is in the port and however late a server is registered, and
   answers: every call it makes returns (UsbCallsReturn), and so does every rebuild of the
   port ("An empty port must not hold either path hostage", waitPadReady).  The one
   exception is named: after a load that failed it never comes up, although main.cpp (at
   usbd's load) wants the user to read the failure's codes on the menu's USB page. *)
MenuAnswers == UsbCallsReturn /\ (at # "menu" ~> at = "menu" \/ BindsForEver)
=============================================================================
