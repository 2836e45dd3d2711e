------------------------------- MODULE Ds34Bt -------------------------------
(***************************************************************************)
(* The Bluetooth controllers (modules/ds34bt): an IOP module that brings   *)
(* up a USB Bluetooth dongle, lets DualShock 3 and 4 controllers in, and   *)
(* keeps for each pad slot the buttons last reported, which the menu polls *)
(* with two remote calls (luacontrols.cpp: the status, then the data).     *)
(*                                                                         *)
(* The module's two transfer callbacks are the actors: HciEvent for the    *)
(* dongle's events, in the order they were queued, and L2capEvent for the  *)
(* data of the links, which comes over another endpoint, in no order with  *)
(* the events.  A slot knows its controller by address (until the link is  *)
(* up) and by handle (after), and the two are set by different events.     *)
(*                                                                         *)
(* The dongle and the controllers are external: the dongle works off the   *)
(* commands it was given (jobs) and queues events; a controller answers    *)
(* what it was sent (frame), asks for a link, or drops it, whenever it     *)
(* likes.  A connection handle is written as the controller it belongs to. *)
(***************************************************************************)
EXTENDS Naturals, Sequences, FiniteSets

CONSTANTS
    Ds3, Ds4,         \* the controllers about, by type
    Pads,             \* the slots of the driver (MAX_PADS)
    Enabled,          \* the slots the load argument enables (main.cpp: slot 0)
    None,
    MaxEvents         \* bound: events the dongle holds back

ASSUME ControllersAssumption == Ds3 \cap Ds4 = {} /\ {None, "request"} \cap (Ds3 \cup Ds4) = {}
ASSUME PadsAssumption == Pads \subseteq Nat /\ Enabled \subseteq Pads /\ MaxEvents \in Nat

VARIABLES
    dongle,           \* "out", "set" (authorized, configuration asked for) or "in"
    configured,       \* DS34BT_STATE_USB_CONFIGURED
    pads,             \* ds34pad
    jobs,             \* commands the dongle was given and has not finished
    events,           \* hci events queued, oldest first
    link,             \* each controller's link, as the dongle has it
    live,             \* the channels a controller reports on: None until it was set up
    frame,            \* what a controller sent last and was not yet read
    polled            \* the slot whose status the menu read as running, or None

vars == <<dongle, configured, pads, jobs, events, link, live, frame, polled>>

Ctrls == Ds3 \cup Ds4
TypeOf(c) == IF c \in Ds4 THEN "ds4" ELSE "ds3"
NoFrame == [kind |-> "none", chan |-> "ds3"]
Neutral == None       \* no button held; otherwise data is whose buttons they are

(* ds34pad_clear: handle 0x0FFF, no address, neutral data, type 0 (DS3). *)
Cleared == [addr |-> None, handle |-> None, connected |-> FALSE, running |-> FALSE,
            disconnecting |-> FALSE, type |-> "ds3", data |-> Neutral]

(* The slot an address or a handle belongs to: the first that matches. *)
First(P(_)) == {p \in Pads : P(p) /\ \A q \in Pads : P(q) => p <= q}
PadAt(c) == LET P(p) == pads[p].addr = c IN First(P)
PadOf(c) == LET P(p) == pads[p].handle = c IN First(P)

Init ==
    /\ dongle = "out" /\ configured = FALSE
    /\ pads = [p \in Pads |-> Cleared]
    /\ jobs = {} /\ events = <<>>
    /\ link = [c \in Ctrls |-> "off"] /\ live = [c \in Ctrls |-> None]
    /\ frame = [c \in Ctrls |-> NoFrame]
    /\ polled = None

-----------------------------------------------------------------------------
(* The dongle is plugged in and pulled out *)

(* A dongle that lacks an endpoint is refused with nothing kept: a stutter. *)
Plug ==
    /\ dongle = "out"
    /\ dongle' = "set" /\ configured' = FALSE
    /\ UNCHANGED <<pads, jobs, events, link, live, frame, polled>>

(* The configuration is set: the transfers are armed, the slots start over,
   and the bring-up begins with a reset. *)
ConfigSet ==
    /\ dongle = "set"
    /\ dongle' = "in"
    /\ pads' = [p \in Pads |-> Cleared]
    /\ jobs' = {[op |-> "reset"]}
    /\ UNCHANGED <<configured, events, link, live, frame, polled>>

(* Everything the dongle knew is gone with it. *)
Unplug ==
    /\ dongle # "out"
    /\ dongle' = "out" /\ configured' = FALSE
    /\ pads' = [p \in Pads |-> Cleared]
    /\ jobs' = {} /\ events' = <<>>
    /\ link' = [c \in Ctrls |-> "off"] /\ live' = [c \in Ctrls |-> None]
    /\ frame' = [c \in Ctrls |-> NoFrame]
    /\ UNCHANGED <<polled>>

-----------------------------------------------------------------------------
(* The dongle and the controllers *)

Room == Len(events) < MaxEvents

(* A command completes.  Only a step of the bring-up may fail (a remote name
   that is not got leaves its slot waiting, as no event at all would). *)
JobDone(j) ==
    /\ j \in jobs /\ Room
    /\ jobs' = jobs \ {j}
    /\ \/ /\ j.op \in {"reset", "bdaddr", "version", "features", "scan"}
          /\ \E ok \in BOOLEAN :
                events' = Append(events, [kind |-> "complete", op |-> j.op, ok |-> ok])
          /\ UNCHANGED <<link, live, frame>>
       \/ /\ j.op = "accept" /\ link[j.c] = "asking"
          /\ \E up \in BOOLEAN :
                /\ link' = [link EXCEPT ![j.c] = IF up THEN "up" ELSE "off"]
                /\ frame' = [frame EXCEPT ![j.c] =
                      IF up /\ j.c \in Ds3 THEN [kind |-> "connReqC", chan |-> "ds3"] ELSE NoFrame]
                /\ events' = Append(events, [kind |-> "connDone", c |-> j.c, ok |-> up])
          /\ live' = [live EXCEPT ![j.c] = None]
       \/ /\ j.op = "name"
          /\ events' = Append(events, [kind |-> "name", c |-> j.c, ok |-> link[j.c] = "up"])
          /\ UNCHANGED <<link, live, frame>>
    /\ UNCHANGED <<dongle, configured, pads, polled>>

(* A controller is switched on: it pages a dongle that listens. *)
Ask(c) ==
    /\ configured /\ link[c] = "off" /\ Room
    /\ \A j \in jobs : j.op # "accept" \/ j.c # c
    /\ link' = [link EXCEPT ![c] = "asking"]
    /\ events' = Append(events, [kind |-> "connReq", c |-> c])
    /\ UNCHANGED <<dongle, configured, pads, jobs, live, frame, polled>>

(* A link ends: the controller goes, or the dongle was told to drop it.  What
   it sent last may still be on its way over the data endpoint. *)
LinkDown(c) ==
    /\ link[c] \in {"up", "dropping"} /\ Room
    /\ link' = [link EXCEPT ![c] = "off"]
    /\ live' = [live EXCEPT ![c] = None]
    /\ events' = Append(events, [kind |-> "disc", c |-> c])
    /\ UNCHANGED <<dongle, configured, pads, jobs, frame, polled>>

(* A controller that was set up reports, or asks to close a channel. *)
Report(c) ==
    /\ live[c] # None /\ frame[c] = NoFrame   \* the reports hold a button
    /\ \E k \in {"report", "dreq"} :
          frame' = [frame EXCEPT ![c] = [kind |-> k, chan |-> live[c]]]
    /\ UNCHANGED <<dongle, configured, pads, jobs, events, link, live, polled>>

-----------------------------------------------------------------------------
(* hci_event_cb *)

(* The bring-up: each step that went well starts the next, one that failed
   starts it over. *)
NextStep(op) ==
    CASE op = "reset" -> "bdaddr" [] op = "bdaddr" -> "version"
      [] op = "version" -> "features" [] op = "features" -> "scan"
CommandComplete(e) ==
    /\ configured' = (configured \/ (e.op = "scan" /\ e.ok))
    /\ jobs' = IF ~e.ok THEN jobs \cup {[op |-> "reset"]}
               ELSE IF e.op = "scan" THEN jobs ELSE jobs \cup {[op |-> NextStep(e.op)]}
    /\ UNCHANGED <<pads, link>>

(* The slot that waits for this address gets the handle; a link no slot waits
   for is left as it is. *)
ConnectComplete(e) ==
    /\ IF e.ok /\ PadAt(e.c) # {}
       THEN \E p \in PadAt(e.c) :
               /\ pads' = [pads EXCEPT ![p].handle = e.c, ![p].connected = TRUE]
               /\ jobs' = jobs \cup {[op |-> "name", c |-> e.c]}
       ELSE UNCHANGED <<pads, jobs>>
    /\ UNCHANGED <<configured, link>>

DisconnComplete_IfConnected(e) ==
    /\ pads' = [p \in Pads |-> IF p \in PadOf(e.c) /\ pads[p].connected THEN Cleared ELSE pads[p]]
    /\ UNCHANGED <<configured, jobs, link>>
DisconnComplete_KeepsData(e) ==
    /\ pads' = [p \in Pads |-> IF p \in PadOf(e.c) THEN [Cleared EXCEPT !.data = pads[p].data] ELSE pads[p]]
    /\ UNCHANGED <<configured, jobs, link>>
DisconnComplete(e) ==
    /\ pads' = [p \in Pads |-> IF p \in PadOf(e.c) THEN Cleared ELSE pads[p]]
    /\ UNCHANGED <<configured, jobs, link>>

(* hci_disconnect: only a link that is up can be dropped.  The command is sent
   in the background from hci_cmd_buf, which the next command overwrites, and
   nobody looks at its result: it may be lost. *)
Drop(h) == {link, [c \in Ctrls |-> IF c = h /\ link[c] = "up" THEN "dropping" ELSE link[c]]}

(* What a controller answers to what it is sent, if its link is up.  To a
   request for the interrupt channel it may answer with its own. *)
Answer(c, kinds, chan) ==
    IF link[c] \in {"up", "dropping"}
    THEN \E k \in kinds : frame' = [frame EXCEPT ![c] = [kind |-> k, chan |-> chan]]
    ELSE UNCHANGED frame

(* The name tells the type; a DualShock 4 is asked for its control channel. *)
NameComplete(e) ==
    /\ pads' = [p \in Pads |-> IF e.ok /\ p \in PadAt(e.c)
                               THEN [pads[p] EXCEPT !.type = TypeOf(e.c)] ELSE pads[p]]
    /\ IF e.ok /\ e.c \in Ds4 /\ \E p \in PadAt(e.c) : pads[p].handle = e.c
       THEN Answer(e.c, {"connRspC"}, "ds4") ELSE UNCHANGED frame
    /\ UNCHANGED <<configured, jobs, link>>

(* The first enabled slot nobody plays on is taken, whoever is being set up on
   it; a slot whose link is known to be closing is left to its event. *)
Takeable_Running(p) == p \in Enabled /\ ~(pads[p].connected /\ pads[p].disconnecting)
Takeable(p) ==
    /\ p \in Enabled /\ ~pads[p].running
    /\ ~(pads[p].connected /\ pads[p].disconnecting)
ConnectRequest(e) ==
    LET free == First(Takeable) IN
    /\ IF free = {}
       THEN link' = [link EXCEPT ![e.c] = "off"] /\ UNCHANGED <<pads, jobs>>
       ELSE \E p \in free :
               /\ link' \in IF pads[p].connected THEN Drop(pads[p].handle) ELSE {link}
               /\ pads' = [pads EXCEPT ![p].addr = e.c, ![p].connected = FALSE,
                                       ![p].running = FALSE, ![p].disconnecting = FALSE]
               /\ jobs' = jobs \cup {[op |-> "accept", c |-> e.c]}
    /\ UNCHANGED configured

(* A transfer that failed is looked at by nobody and armed again, a stutter:
   the dongle keeps an event until it is fetched. *)
HciEvent ==
    /\ dongle = "in" /\ events # <<>>
    /\ LET e == Head(events) IN
       \/ e.kind = "complete" /\ CommandComplete(e) /\ UNCHANGED frame
       \/ e.kind = "connDone" /\ ConnectComplete(e) /\ UNCHANGED frame
       \/ e.kind = "disc" /\ DisconnComplete(e) /\ UNCHANGED frame
       \/ e.kind = "name" /\ NameComplete(e)
       \/ e.kind = "connReq" /\ ConnectRequest(e) /\ UNCHANGED frame
    /\ events' = Tail(events)
    /\ UNCHANGED <<dongle, live, polled>>

-----------------------------------------------------------------------------
(* l2cap_event_cb *)

(* hid_initDS34 and hid_LEDRumble: both channels are there, the controller is
   told to report, in the words of the slot's type, and the slot runs.  Nobody
   looks at what became of the two commands; one over a link that ended since
   is lost. *)
SetUp(p, c) ==
    /\ pads' = [pads EXCEPT ![p].running = TRUE]
    /\ live' = [live EXCEPT ![c] = IF link[c] = "off" THEN None ELSE pads[p].type]

(* hid_readReport: the slot's buttons are now the controller's. *)
ReadReport(p, c) == pads' = [pads EXCEPT ![p].data = c]

(* One frame of the controller that slot p has by its handle.  Channels are
   numbered by the slot's type when they were opened: a frame on a channel of
   another type matches no case, and nothing is sent back.  (A controller's own
   configuration request is answered on the way and changes nothing here.) *)
L2capTask(p, c, f) ==
    LET t == pads[p].type
        ours == f.chan = t
        Reply(kinds) == Answer(c, kinds, t) /\ UNCHANGED <<pads, live>>
        Silent == frame' = [frame EXCEPT ![c] = NoFrame] IN
    \/ f.kind = "connReqC" /\ Reply({"cfgRspC"})
    \/ f.kind = "connReqI" /\ Reply({"cfgRspI"})
    \/ f.kind = "connRspC" /\ ours /\ Reply({"cfgRspC"})
    \/ f.kind = "connRspI" /\ ours /\ Reply({"cfgRspI"})
    \/ f.kind = "cfgRspC" /\ ours /\ Reply({"connRspI", "connReqI"})
    \/ /\ f.kind = "cfgRspI" /\ ours
       /\ SetUp(p, c)
       /\ Silent
    \/ /\ f.kind = "dreq" /\ ours
       /\ pads' = [pads EXCEPT ![p].disconnecting = TRUE]
       /\ live' = [live EXCEPT ![c] = None]
       /\ Silent
    \/ /\ f.kind = "report" /\ ours
       /\ ReadReport(p, c)
       /\ Silent /\ UNCHANGED live
    \/ ~ours /\ f.kind \notin {"connReqC", "connReqI"} /\ Silent /\ UNCHANGED <<pads, live>>

L2capEvent(c) ==
    /\ dongle = "in" /\ frame[c] # NoFrame
    /\ \/ \E p \in PadOf(c) : L2capTask(p, c, frame[c])
       \/ PadOf(c) = {} /\ frame' = [frame EXCEPT ![c] = NoFrame] /\ UNCHANGED <<pads, live>>
    /\ UNCHANGED <<dongle, configured, jobs, events, link, polled>>

(* A transfer that failed: the task gives -1, which is below MAX_PADS, and the
   callback looks at the slot before the first.  What lies there may send
   nothing, or a disconnection to any handle. *)
L2capError ==
    /\ dongle = "in"
    /\ \E h \in Ctrls \cup {None} : link' \in Drop(h)
    /\ UNCHANGED <<dongle, configured, pads, jobs, events, live, frame, polled>>

-----------------------------------------------------------------------------
(* The menu: Pads.get asks for the status, then for the data *)

GetStatus(p) ==
    /\ polled = None /\ dongle # "out" /\ pads[p].running
    /\ polled' = p
    /\ UNCHANGED <<dongle, configured, pads, jobs, events, link, live, frame>>

(* rpc_sf: one buffer holds the request and the answer of every call, so that
   a call that writes nothing, as this one does without a dongle, answers with
   the request and what is left of an earlier answer. *)
Answered(p) == IF dongle = "out" THEN "request" ELSE pads[p].data

(* The data is read whatever became of the slot since. *)
GetData ==
    /\ polled # None
    /\ polled' = None
    /\ UNCHANGED <<dongle, configured, pads, jobs, events, link, live, frame>>

(* The buttons that GetData hands the menu at this moment. *)
Held == IF polled = None THEN Neutral ELSE Answered(polled)

Next ==
    \/ Plug \/ ConfigSet \/ Unplug
    \/ \E j \in jobs : JobDone(j)
    \/ \E c \in Ctrls : Ask(c) \/ LinkDown(c) \/ Report(c)
    \/ HciEvent
    \/ \E c \in Ctrls : L2capEvent(c)
    \/ L2capError
    \/ \E p \in Pads : GetStatus(p)
    \/ GetData

Spec == Init /\ [][Next]_vars
-----------------------------------------------------------------------------
TypeOK ==
    /\ dongle \in {"out", "set", "in"} /\ configured \in BOOLEAN
    /\ \A p \in Pads : /\ pads[p].addr \in Ctrls \cup {None} /\ pads[p].handle \in Ctrls \cup {None}
                       /\ pads[p].data \in Ctrls \cup {None} /\ pads[p].type \in {"ds3", "ds4"}
                       /\ {pads[p].connected, pads[p].running, pads[p].disconnecting} \subseteq BOOLEAN
    /\ \A c \in Ctrls : /\ link[c] \in {"off", "asking", "up", "dropping"}
                        /\ live[c] \in {None, "ds3", "ds4"}
    /\ Len(events) <= MaxEvents /\ polled \in Pads \cup {None}

Leaving(c) == \E i \in DOMAIN events : events[i].kind = "disc" /\ events[i].c = c

(* A slot that says connected or running has the handle of a link that is
   there, or whose end is on its way to the driver: address and handle are set
   by two events, another controller may take the slot between them, and the
   end of the first one's link may be told before or after the second's
   beginning (HCI_event_task). *)
PadsFollowTheirLinks ==
    \A p \in Pads : pads[p].connected \/ pads[p].running =>
        \E c \in Ctrls : /\ pads[p].handle = c
                         /\ link[c] \in {"up", "dropping"} \/ Leaving(c)

(* A player is not thrown out: while the controller of a running slot keeps its
   link, and the dongle is in, no event of another controller and no late event
   of an earlier link makes the driver drop the link, or takes or clears the
   slot.  The exceptions are what a failed transfer does through the slot before
   the first, and a slot that another controller was promised before this one
   was set up (its address is the other's): the first link's disconnection was
   lost, and the other's Connect Complete takes the slot from who plays there. *)
PlayerKeepsThePad ==
    [][~L2capError => \A p \in Pads, c \in Ctrls :
          pads[p].running /\ pads[p].handle = c /\ pads[p].addr = c
          /\ link[c] = "up" /\ link'[c] # "off"
          => link'[c] = "up" /\ pads'[p].running /\ pads'[p].handle = c /\ pads'[p].addr = c]_vars

(* The menu reads a slot in two calls, and a slot may be cleared or taken
   between them: a button it is told of is one that a controller held on a slot
   that was still running when the data was read (lua_getpad, ds34bt_get_data,
   ds34pad_clear); or the dongle was pulled out between the two calls, and the
   request comes back as buttons (ds34bt.c:1524). *)
PressOnlyFromRunningPad ==
    Held # Neutral => \/ Held \in Ctrls /\ pads[polled].running
                      \/ Held = "request" /\ dongle = "out"
=============================================================================
