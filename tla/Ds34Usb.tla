------------------------------ MODULE Ds34Usb -------------------------------
(***************************************************************************)
(* The wired controllers (modules/ds34usb): an IOP module that attaches a  *)
(* DualShock 3 or 4 to the slot the menu enabled, and reads it when the    *)
(* menu asks.  Two threads work on the slot: the USB driver's, which runs  *)
(* the callbacks (and sleeps in one of them), and the one that serves the  *)
(* menu's calls, which waits for a transfer or an alarm.                   *)
(*                                                                         *)
(* One semaphore is both the slot's lock and what a transfer's end is      *)
(* signalled on.  The callbacks take it with PollSema, whose answer nobody *)
(* looks at, and the alarm that bounds a wait is cancelled under another   *)
(* argument than it was set with, so that it always goes off, whoever      *)
(* holds the semaphore then.  One buffer serves the reports read and the   *)
(* commands sent, and what was last read out of it is what the menu is     *)
(* told until something else is, whatever became of the controller.        *)
(***************************************************************************)
EXTENDS Naturals

CONSTANT
    MaxTransfers      \* bound: reports asked for and not yet answered

ASSUME TransfersAssumption == MaxTransfers \in Nat

VARIABLES
    plug,             \* the controller: "out", "in" (not looked at yet), "held" or "refused"
    devId,            \* the slot has a device
    running,          \* DS34USB_STATE_RUNNING
    config,           \* the driver's configuration callback: "none", "due", "init", "led"
    sema,             \* ds34pad[pad].sema: 0 or 1
    alarms,           \* alarms set on it and not gone off
    transfers,        \* reports asked for and not yet answered
    buf,              \* usb_buf: a "report" of the controller in the slot, an "old" one of a
                      \* controller that is gone, a "command", or what begins with a "zero"
    data,             \* ds34pad[pad].data: the same, or "neutral" before anything was read
    result,           \* usb_resulCode: 0 is a report that came
    rpc               \* the thread that serves the menu

usbVars == <<plug, devId, running, config, sema, alarms, transfers, buf, data, result, rpc>>

(* CreateMutex: the semaphore counts to one, so that a signal too many is lost. *)
Signal == sema' = 1

(* The result of the last transfer is a static that starts as "a report came". *)
UsbInit ==
    /\ plug = "out" /\ devId = FALSE /\ running = FALSE /\ config = "none"
    /\ sema = 1 /\ alarms = 0 /\ transfers = 0
    /\ buf = "zero" /\ data = "neutral" /\ result = 0 /\ rpc = "idle"

-----------------------------------------------------------------------------
(* The USB driver's thread: its callbacks do not interleave with one another *)

PlugIn ==
    /\ plug = "out"
    /\ plug' = "in"
    /\ UNCHANGED <<devId, running, config, sema, alarms, transfers, buf, data, result, rpc>>

(* usb_release: the endpoints are closed and what was asked of them is
   dropped; the slot's last buttons and what is in the buffer are kept. *)
Release ==
    /\ devId' = FALSE /\ running' = FALSE /\ transfers' = 0
    /\ buf' = IF buf = "report" THEN "old" ELSE buf
    /\ data' = IF data = "report" THEN "old" ELSE data
    /\ Signal

(* usb_probe and usb_connect: a device that lacks an endpoint is let go. *)
UsbConnect ==
    /\ plug = "in" /\ ~devId
    /\ \/ /\ plug' = "held" /\ devId' = TRUE /\ config' = "due"
          /\ Signal /\ UNCHANGED <<running, transfers, buf, data>>
       \/ plug' = "refused" /\ Release /\ UNCHANGED config
    /\ UNCHANGED <<alarms, result, rpc>>

(* usb_disconnect: not while the thread sleeps in the configuration callback. *)
PlugOut ==
    /\ plug # "out" /\ config \in {"none", "due"}
    /\ plug' = "out" /\ config' = "none"
    /\ IF devId THEN Release ELSE UNCHANGED <<devId, running, transfers, sema, buf, data>>
    /\ UNCHANGED <<alarms, result, rpc>>

(* usb_config_set, whatever the result: a DualShock 3 is initialised first,
   and the thread sleeps, while a DualShock 4 is sent its LED command at once. *)
Configured ==
    /\ config = "due"
    /\ sema' = 0
    /\ config' \in {"init", "led"} /\ buf' = "command"
    /\ UNCHANGED <<plug, devId, running, alarms, transfers, data, result, rpc>>

(* Then a DualShock 3 is sent its own, which begins with a zero, and the
   thread sleeps again; then the slot runs. *)
LedSent ==
    /\ config = "init"
    /\ config' = "led" /\ buf' = "zero"
    /\ UNCHANGED <<plug, devId, running, sema, alarms, transfers, data, result, rpc>>

UsbSetUp ==
    /\ config = "led"
    /\ config' = "none" /\ running' = TRUE
    /\ Signal
    /\ UNCHANGED <<plug, devId, alarms, transfers, buf, data, result, rpc>>

(* usb_data_cb: a transfer ends, with a report in the buffer or an error. *)
DataCb ==
    /\ transfers > 0 /\ config \in {"none", "due"}
    /\ transfers' = transfers - 1
    /\ \/ buf' = "report" /\ result' = 0
       \/ UNCHANGED buf /\ result' = 1
    /\ Signal
    /\ UNCHANGED <<plug, devId, running, config, alarms, data, rpc>>

(* timeout: the alarm's interrupt. *)
Timeout ==
    /\ alarms > 0
    /\ alarms' = alarms - 1
    /\ Signal
    /\ UNCHANGED <<plug, devId, running, config, transfers, buf, data, result, rpc>>

-----------------------------------------------------------------------------
(* The thread that serves the menu: ds34usb_get_status, and ds34usb_get_data
   if that said running (lua_getpad) *)

WaitSema == sema = 1 /\ sema' = 0

UsbGetStatus ==
    /\ rpc = "idle"
    /\ rpc' = "lock"
    /\ UNCHANGED <<plug, devId, running, config, sema, alarms, transfers, buf, data, result>>

Status ==
    /\ rpc = "lock" /\ WaitSema
    /\ rpc' = "status"
    /\ UNCHANGED <<plug, devId, running, config, alarms, transfers, buf, data, result>>

StatusDone ==
    /\ rpc = "status"
    /\ rpc' = IF running THEN "data" ELSE "idle"
    /\ Signal
    /\ UNCHANGED <<plug, devId, running, config, alarms, transfers, buf, data, result>>

UsbGetData ==
    /\ rpc = "data" /\ WaitSema
    /\ rpc' = "send"
    /\ UNCHANGED <<plug, devId, running, config, alarms, transfers, buf, data, result>>

(* A report is asked for: refused when the endpoint is gone, or by the driver.
   The wait is skipped when the alarm is refused, as one that is still set for
   the same semaphore may make it. *)
Send_NoAlarm ==
    /\ rpc = "send"
    /\ sema' = 0
    /\ \/ /\ devId /\ transfers < MaxTransfers
          /\ transfers' = transfers + 1 /\ rpc' = "wait"
       \/ rpc' = "copy" /\ UNCHANGED transfers
    /\ UNCHANGED <<plug, devId, running, config, alarms, buf, data, result>>
Send ==
    /\ rpc = "send"
    /\ sema' = 0
    /\ \/ /\ devId /\ transfers < MaxTransfers
          /\ transfers' = transfers + 1
          /\ \/ alarms = 0 /\ alarms' = 1 /\ rpc' = "wait"
             \/ alarms = 1 /\ alarms' = 2 /\ rpc' = "wait"
             \/ alarms > 0 /\ UNCHANGED alarms /\ rpc' = "read"
       \/ rpc' = "copy" /\ UNCHANGED <<transfers, alarms>>
    /\ UNCHANGED <<plug, devId, running, config, buf, data, result>>

TransferWait ==
    /\ rpc = "wait" /\ WaitSema
    /\ rpc' = "read"
    /\ UNCHANGED <<plug, devId, running, config, alarms, transfers, buf, data, result>>

(* If the last transfer's result is that a report came, readReport takes what
   is in the buffer for one, also a command, unless it begins with a zero. *)
Taken == result = 0 /\ buf # "zero"

(* Mutant: the result is left as it is, for a transfer that ends to set. *)
ReadData_KeepsResult ==
    /\ rpc = "read"
    /\ data' = IF Taken THEN buf ELSE data
    /\ rpc' = "copy"
    /\ UNCHANGED <<plug, devId, running, config, sema, alarms, transfers, buf, result>>
ReadData ==
    /\ rpc = "read"
    /\ data' = IF Taken THEN buf ELSE data
    /\ rpc' = "copy" /\ result' = 1
    /\ UNCHANGED <<plug, devId, running, config, sema, alarms, transfers, buf>>

(* The menu is told "data", whether a report was read, or none came, or none
   could be asked for. *)
Copy ==
    /\ rpc = "copy"
    /\ rpc' = "idle"
    /\ Signal
    /\ UNCHANGED <<plug, devId, running, config, alarms, transfers, buf, data, result>>

UsbNext ==
    \/ PlugIn \/ UsbConnect \/ PlugOut \/ Configured \/ LedSent \/ UsbSetUp \/ DataCb \/ Timeout
    \/ UsbGetStatus \/ Status \/ StatusDone \/ UsbGetData \/ Send \/ TransferWait \/ ReadData \/ Copy

(* Threads that can run do, alarms go off, and a semaphore's signal wakes the
   thread that waits on it.  No transfer ever has to end. *)
Fair ==
    /\ WF_usbVars(LedSent) /\ WF_usbVars(UsbSetUp) /\ WF_usbVars(Timeout)
    /\ WF_usbVars(StatusDone) /\ WF_usbVars(Send) /\ WF_usbVars(ReadData) /\ WF_usbVars(Copy)
    /\ SF_usbVars(Status) /\ SF_usbVars(UsbGetData) /\ SF_usbVars(TransferWait)
UsbSpec == UsbInit /\ [][UsbNext]_usbVars /\ Fair

-----------------------------------------------------------------------------
UsbTypeOK ==
    /\ plug \in {"out", "in", "held", "refused"} /\ devId \in BOOLEAN /\ running \in BOOLEAN
    /\ config \in {"none", "due", "init", "led"}
    /\ sema \in {0, 1} /\ alarms \in 0..2 /\ transfers \in 0..MaxTransfers
    /\ buf \in {"zero", "command", "report", "old"} /\ data \in {"neutral", "command", "report", "old"}
    /\ result \in {0, 1}
    /\ rpc \in {"idle", "lock", "status", "data", "send", "wait", "read", "copy"}

(* Once the menu was told what the controller in the slot holds, it is told nothing else
   until that one is pulled out: no command that went out through the same buffer, and no
   report of another, although a wait may end by an alarm set for an earlier one, the
   result is that of any transfer, and a call may be under way from before the controller
   was set up.  Until its first report the code promises less: "data" is kept over
   usb_release, so that the buttons of the one before stay held, and a command may have
   been taken for a report (usb_resulCode is 0 from the start, and after a transfer that
   ended when nobody waited any more). *)
OnlyItsReportsAreTold == [][data = "report" /\ running' => data' = "report"]_usbVars

(* The menu's calls return, and the menu with them: also when the controller is
   pulled out, set up, or says nothing while they wait.  Every callback gives
   the semaphore back, whoever it took it from. *)
UsbCallsReturn == (rpc # "idle") ~> (rpc = "idle")
=============================================================================
