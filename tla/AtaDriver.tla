------------------------------ MODULE AtaDriver ------------------------------
(***************************************************************************)
(* ata_bd (src/iop/ata_bd_fast/ps2atad.c), the IOP driver of the internal  *)
(* drive: how it finds the drive, how it sends a command and waits for its *)
(* end, and how a block request is cut into commands.                      *)
(*                                                                         *)
(* There is one command state, one event flag and one alarm for the whole  *)
(* driver, and no lock: Clients are the threads that use it, _start's      *)
(* among them, BDM's mount thread, which bdm_connect_bd wakes, and those of *)
(* ps2hdd and ps2fs once they are loaded.  The drive may answer late, with  *)
(* an error, or not at all.                                                *)
(***************************************************************************)
EXTENDS Naturals, Sequences, FiniteSets

CONSTANTS
  Others,      \* the threads of ps2hdd and ps2fs, which use the atad library too
  Max28,       \* sectors of one 28-bit command, 256 in the code
  Max48,       \* sectors of one 48-bit command, 65536: what a u16 wraps at
  Capacity28,  \* where a DVRP's 28-bit addresses end
  Sectors,     \* bound: sectors of the drive that requests are about
  Retries      \* tries of a command that ends with a CRC error, 3

ASSUME AtaAssumption ==
  /\ Max28 \in Nat \ {0} /\ Max48 \in Nat \ {0} /\ Retries \in Nat \ {0}
  /\ Capacity28 \in Nat /\ Sectors \in Nat \ {0}
  /\ Others \cap {"start", "mount", "none"} = {}

Clients == {"start", "mount"} \union Others
Devices == {0, 1}

VARIABLES
  world,       \* what the adapter is: a DVRP, with a slave, a drive with 48-bit addresses
  apa,         \* ps2hdd is loaded
  clash,       \* history: two threads were in the driver at once
  exists,      \* atad_devinfo[].exists
  connected,   \* the devices handed to BDM
  plan,        \* what is left of ata_init_devices
  state,       \* atad_cmd_state
  flag,        \* ata_evflg
  waiter,      \* the thread in WaitEventFlag
  alarm,       \* the thread whose alarm is set
  irq,         \* the interrupts SPD lets through
  drive,
  pc,
  cmd,         \* the command a thread is at
  req,         \* the block request it is for
  res,         \* what the last command or request returned
  served       \* of the current request, the sectors the drive confirmed to a command that waits

hw == <<flag, alarm, irq, drive, served>>
users == <<apa, clash>>
ataVars == <<world, users, exists, connected, plan, state, hw, waiter, pc, cmd, req, res>>

Results == {"ok", "nodev", "notready", "timeout", "io", "icrc", "nodata", "alarm", "spd"}
NoCmd == [kind |-> "nodata", dev |-> 0, at |-> 0, len |-> 0]
NoReq == [op |-> "none", at |-> 0, n |-> 0, tries |-> 0, first |-> 0, last |-> 0]
Quiet == [busy |-> FALSE, by |-> "start", kind |-> "nodata", at |-> 0, n |-> 0,
          left |-> 0, fifo |-> 0, intrq |-> FALSE, err |-> "ok"]

InWait == {"flag", "dma", "dmawait", "dmaend", "endwait", "pio", "settle"}
Waiting == {"wait", "finish"} \union InWait
InCommand == {"exec", "select", "issue"} \union Waiting
Labels == InCommand \union {"reset", "soft", "probe", "decide", "plan", "idle", "chunk", "after", "done"}

(* A retail adapter has no slave, whatever its registers read.              *)
Worlds == {w \in [dvrp : BOOLEAN, slave : BOOLEAN, lba48 : BOOLEAN] : w.slave => w.dvrp}

AtaTypeOK ==
  /\ world \in Worlds /\ apa \in BOOLEAN /\ clash \in BOOLEAN
  /\ exists \in [Devices -> BOOLEAN] /\ connected \in SUBSET Devices
  /\ plan \in Seq(Devices \X {"identify", "mode", "smart", "idle", "connect"})
  /\ state \in [kind : {"none", "nodata", "pio", "dma"}, n : 0 .. Max48]
  /\ flag \in SUBSET {"complete", "timeout"} /\ irq \in SUBSET {"cmd", "fifo"}
  /\ waiter \in Clients \union {"none"} /\ alarm \in Clients \union {"none"}
  /\ pc \in [Clients -> Labels] /\ res \in [Clients -> Results]
  /\ served \in [Clients -> SUBSET (0 .. Sectors)]

AtaInit ==
  /\ world \in Worlds /\ apa = FALSE /\ clash = FALSE
  /\ exists = [i \in Devices |-> FALSE] /\ connected = {} /\ plan = <<>>
  /\ state = [kind |-> "none", n |-> 0]
  /\ flag = {} /\ waiter = "none" /\ alarm = "none" /\ irq = {}
  /\ drive = Quiet
  /\ pc = [t \in Clients |-> IF t = "start" THEN "reset" ELSE "idle"]
  /\ cmd = [t \in Clients |-> NoCmd] /\ req = [t \in Clients |-> NoReq]
  /\ res = [t \in Clients |-> "ok"] /\ served = [t \in Clients |-> {}]

Goto(t, l) == pc' = [pc EXCEPT ![t] = l]

(* Back in the code that sent the command.                                  *)
Return(t, r) ==
  /\ res' = [res EXCEPT ![t] = r]
  /\ Goto(t, IF t = "start" THEN "plan" ELSE "after")

-----------------------------------------------------------------------------
(* ata_init_devices.                                                        *)

InitFails ==
  /\ Goto("start", "done")
  /\ UNCHANGED <<world, users, connected, plan, state, hw, waiter, cmd, req, res>>

(* The resets wait for the drive on the busy ladder, and it may run out.    *)
Reset ==
  /\ pc["start"] \in {"reset", "soft"}
  /\ \/ /\ Goto("start", IF pc["start"] = "reset" THEN "soft" ELSE "probe")
        /\ UNCHANGED <<world, users, connected, plan, state, hw, waiter, cmd, req, res>>
     \/ InitFails
  /\ UNCHANGED exists

(* A device register that floats reads as a device that is there.           *)
Probe ==
  /\ pc["start"] = "probe"
  /\ exists' \in {e \in [Devices -> BOOLEAN] : world.dvrp => ~ e[1]}
  /\ Goto("start", "decide")
  /\ UNCHANGED <<world, users, connected, plan, state, hw, waiter, cmd, req, res>>

Config(i) == <<<<i, "identify">>, <<i, "mode">>, <<i, "smart">>, <<i, "idle">>, <<i, "connect">>>>

(* There is no slave on the bus, whatever the probe read (1302); a DVRP is   *)
(* asked for one after that.                                                *)
Slaves_AsProbed == {exists[1]}

Slaves == {world.slave}

Decide ==
  /\ pc["start"] = "decide"
  /\ \/ /\ exists[0]
        /\ \E slave \in Slaves :
             /\ exists' = [exists EXCEPT ![1] = slave]
             /\ plan' = Config(0) \o (IF slave THEN Config(1) ELSE <<>>)
        /\ Goto("start", "plan") /\ res' = [res EXCEPT !["start"] = "ok"]
        /\ UNCHANGED <<world, users, connected, state, hw, waiter, cmd, req>>
     \/ /\ ~ exists[0] \/ world.dvrp
        /\ InitFails
        /\ exists' = [exists EXCEPT ![1] = FALSE]

(* What one step of the configuration leaves behind: a device that does not  *)
(* identify itself is dropped, a packet device is not set up, and the        *)
(* results of the other commands are not looked at.                         *)
Identified(i) ==
  \E packet \in BOOLEAN :
    /\ exists' = [exists EXCEPT ![i] = res["start"] = "ok"]
    /\ plan' = IF exists'[i] /\ ~ packet THEN Tail(plan)
               ELSE SubSeq(plan, Len(Config(i)) + 1, Len(plan))   \* on to the other device

Command(t, kind, d, at, n) ==
  /\ clash' = (clash \/ \E x \in Clients \ {t} : pc[x] \in InCommand)
  /\ cmd' = [cmd EXCEPT ![t] = [kind |-> kind, dev |-> d, at |-> at, len |-> n]]
  /\ Goto(t, "exec")

(* The head of the plan is the step that runs: first its command, then what  *)
(* becomes of the result.  A device that is neither a disk nor a packet      *)
(* device (has_packet = 2) stays as it was probed and is not set up.        *)
Configure ==
  /\ pc["start"] = "plan" /\ plan # <<>> /\ Head(plan)[2] # "connect"
  /\ \E i \in {Head(plan)[1]} :
       \/ /\ req["start"].op = "none"
          /\ req' = [req EXCEPT !["start"].op = "configure"]
          /\ Command("start", IF Head(plan)[2] = "identify" THEN "pio" ELSE "nodata", i, 0, 1)
          /\ UNCHANGED <<exists, plan, res>>
       \/ /\ req["start"].op = "none" /\ Head(plan)[2] = "identify"
          /\ plan' = SubSeq(plan, Len(Config(i)) + 1, Len(plan))
          /\ UNCHANGED <<clash, exists, pc, cmd, req, res>>
       \/ /\ req["start"].op = "configure"
          /\ req' = [req EXCEPT !["start"].op = "none"]
          /\ IF Head(plan)[2] = "identify" THEN Identified(i) ELSE plan' = Tail(plan) /\ UNCHANGED exists
          /\ res' = [res EXCEPT !["start"] = "ok"] /\ cmd' = [cmd EXCEPT !["start"] = NoCmd]
          /\ UNCHANGED <<clash, pc>>
  /\ UNCHANGED <<world, apa, connected, state, hw, waiter>>

Connect ==
  /\ pc["start"] = "plan" /\ plan # <<>> /\ Head(plan)[2] = "connect"
  /\ connected' = connected \union {Head(plan)[1]}     \* bdm_connect_bd
  /\ plan' = Tail(plan)
  /\ UNCHANGED <<world, users, exists, state, hw, waiter, pc, cmd, req, res>>

Resident ==
  /\ pc["start"] = "plan" /\ plan = <<>>
  /\ Goto("start", "done")
  /\ UNCHANGED <<world, users, exists, connected, plan, state, hw, waiter, cmd, req, res>>

-----------------------------------------------------------------------------
(* sceAtaExecCmd.                                                           *)

Exec(t) ==
  /\ pc[t] = "exec"
  /\ flag' = {}                                        \* ClearEventFlag
  /\ IF exists[cmd[t].dev] THEN Goto(t, "select") /\ UNCHANGED res
     ELSE Return(t, "nodev")
  /\ UNCHANGED <<world, users, exists, connected, plan, state, alarm, irq, drive, served, waiter, cmd, req>>

(* ata_device_select: the bus falls idle, or the ladder runs out.           *)
Select(t) ==
  /\ pc[t] = "select"
  /\ \/ ~ drive.busy /\ Goto(t, "issue") /\ UNCHANGED res
     \/ drive.busy /\ Return(t, "timeout")
  /\ UNCHANGED <<world, users, exists, connected, plan, state, hw, waiter, cmd, req>>

Timed_NoData(kind) == kind = "nodata"

Timed(kind) == kind \in {"nodata", "dma"}

(* The kernel sets an alarm once for one callback.                          *)
Issue(t) ==
  /\ pc[t] = "issue"
  /\ state' = [kind |-> cmd[t].kind, n |-> cmd[t].len]
  /\ \/ Return(t, "notready") /\ UNCHANGED <<alarm, irq, drive>>
     \/ Timed(cmd[t].kind) /\ alarm # "none" /\ Return(t, "alarm") /\ UNCHANGED <<alarm, irq, drive>>
     \/ /\ ~ (Timed(cmd[t].kind) /\ alarm # "none")
        /\ alarm' = IF Timed(cmd[t].kind) THEN t ELSE alarm
        /\ irq' = IF cmd[t].kind = "nodata" THEN irq \union {"cmd"} ELSE irq
        /\ drive' = [Quiet EXCEPT !.busy = TRUE, !.by = t, !.kind = cmd[t].kind, !.at = cmd[t].at,
                                  !.n = cmd[t].len, !.left = IF cmd[t].kind = "dma" THEN cmd[t].len ELSE 0]
        /\ Goto(t, "wait") /\ UNCHANGED res
  /\ UNCHANGED <<world, users, exists, connected, plan, flag, served, waiter, cmd, req>>

-----------------------------------------------------------------------------
(* sceAtaWaitResult.                                                        *)

Stays == UNCHANGED <<world, users, exists, connected, plan, state, req>>

(* It waits for the command of the shared state, whoever's that is now.     *)
Wait(t) ==
  /\ pc[t] = "wait"
  /\ cmd' = [cmd EXCEPT ![t].kind = state.kind, ![t].len = state.n]
  /\ Goto(t, CASE state.kind = "nodata" -> "flag" [] state.kind = "dma" -> "dma" [] OTHER -> "pio")
  /\ Stays /\ UNCHANGED <<hw, waiter, res>>

(* WaitEventFlag on a flag of one waiter: a second thread is refused, and    *)
(* the bits it then looks at are whatever was on its stack.                  *)
Bits(t, bits) ==
  \/ /\ waiter \in {"none", t} /\ flag # {}
     /\ bits = flag /\ flag' = {} /\ waiter' = "none"
  \/ /\ waiter \notin {"none", t}
     /\ bits \in SUBSET {"complete", "timeout"} /\ UNCHANGED <<flag, waiter>>

Sleep(t) ==
  /\ pc[t] \in {"flag", "dmawait", "endwait"} /\ flag = {} /\ waiter = "none"
  /\ waiter' = t
  /\ Stays /\ UNCHANGED <<hw, pc, cmd, res>>

(* A command without data that timed out returns at once.                   *)
Flag(t) ==
  /\ pc[t] = "flag"
  /\ \E bits \in SUBSET {"complete", "timeout"} :
       /\ Bits(t, bits)
       /\ IF "timeout" \in bits THEN Return(t, "timeout") ELSE Goto(t, "settle") /\ UNCHANGED res
  /\ Stays /\ UNCHANGED <<alarm, irq, drive, served, cmd>>

Finish(t, r) == res' = [res EXCEPT ![t] = r] /\ Goto(t, "finish")

(* ata_dma_complete: a block the FIFO holds is moved, or SpdDmaTransfer      *)
(* fails; without one, the thread waits for an interrupt, which may be the   *)
(* command's own.                                                           *)
Dma(t) ==
  /\ pc[t] = "dma"
  /\ \/ /\ cmd[t].len = 0
        /\ Goto(t, "dmaend") /\ UNCHANGED <<irq, drive, cmd, res>>
     \/ /\ cmd[t].len > 0 /\ drive.fifo > 0
        /\ cmd' = [cmd EXCEPT ![t].len = @ - 1]
        /\ drive' = [drive EXCEPT !.fifo = @ - 1]
        /\ UNCHANGED <<irq, pc, res>>
     \/ /\ cmd[t].len > 0 /\ drive.fifo > 0
        /\ Finish(t, "spd") /\ UNCHANGED <<irq, drive, cmd>>
     \/ /\ cmd[t].len > 0 /\ drive.fifo = 0
        /\ irq' = {"cmd", "fifo"}
        /\ Goto(t, "dmawait") /\ UNCHANGED <<drive, cmd, res>>
  /\ Stays /\ UNCHANGED <<flag, alarm, served, waiter>>

DmaWait(t) ==
  /\ pc[t] = "dmawait"
  /\ \E bits \in SUBSET {"complete", "timeout"} :
       /\ Bits(t, bits)
       /\ IF "timeout" \in bits THEN Finish(t, "timeout")
          ELSE IF drive.fifo = 0 /\ drive.err # "ok" THEN Finish(t, drive.err)
          ELSE Goto(t, "dma") /\ UNCHANGED res
  /\ Stays /\ UNCHANGED <<alarm, irq, drive, served, cmd>>

(* The blocks are through; the command's own interrupt is still to come.     *)
DmaEnd(t) ==
  /\ pc[t] = "dmaend"
  /\ IF drive.intrq THEN Goto(t, "settle") /\ UNCHANGED irq
     ELSE Goto(t, "endwait") /\ irq' = irq \union {"cmd"}
  /\ Stays /\ UNCHANGED <<flag, alarm, drive, served, waiter, cmd, res>>

EndWait(t) ==
  /\ pc[t] = "endwait"
  /\ \E bits \in SUBSET {"complete", "timeout"} :
       /\ Bits(t, bits)
       /\ IF "timeout" \in bits THEN Finish(t, "timeout") ELSE Goto(t, "settle") /\ UNCHANGED res
  /\ Stays /\ UNCHANGED <<alarm, irq, drive, served, cmd>>

(* A PIO block: wait for the drive, look at its status, move it.            *)
Pio(t) ==
  /\ pc[t] = "pio"
  /\ \/ drive.busy /\ Finish(t, "timeout")
     \/ ~ drive.busy /\ drive.err # "ok" /\ Finish(t, "io")
     \/ ~ drive.busy /\ drive.err = "ok" /\ Finish(t, "nodata")
     \/ ~ drive.busy /\ drive.err = "ok" /\ Goto(t, "settle") /\ UNCHANGED res
  /\ Stays /\ UNCHANGED <<hw, waiter, cmd>>

Settle_AtOnce(t) ==
  /\ pc[t] = "settle"
  /\ Finish(t, drive.err) /\ drive' = [drive EXCEPT !.intrq = FALSE]
  /\ Stays /\ UNCHANGED <<flag, alarm, irq, served, waiter, cmd>>

(* The drive must have let go, whatever woke the thread; reading its status  *)
(* takes the interrupt back.                                                *)
Settle(t) ==
  /\ pc[t] = "settle"
  /\ \/ drive.busy /\ Finish(t, "timeout") /\ UNCHANGED drive
     \/ ~ drive.busy /\ Finish(t, drive.err) /\ drive' = [drive EXCEPT !.intrq = FALSE]
  /\ Stays /\ UNCHANGED <<flag, alarm, irq, served, waiter, cmd>>

End(t) ==
  /\ pc[t] = "finish"
  /\ alarm' = "none"                                   \* CancelAlarm
  /\ Return(t, res[t])
  /\ Stays /\ UNCHANGED <<flag, irq, drive, served, waiter, cmd>>

-----------------------------------------------------------------------------
(* ata_device_sector_io64, and the block device's other operations.         *)

(* What BDM asks for: count is a u16; a flush and a stop are one command.    *)
Begin(t, op, at, n) ==
  /\ pc[t] = "idle"
  /\ IF t = "mount" THEN connected # {} ELSE apa
  /\ req' = [req EXCEPT ![t] = [op |-> op, at |-> at, n |-> n, tries |-> 0, first |-> at, last |-> at + n]]
  /\ served' = [served EXCEPT ![t] = {}]
  /\ res' = [res EXCEPT ![t] = "ok"]
  /\ Goto(t, "chunk")
  /\ UNCHANGED <<world, users, exists, connected, plan, state, flag, alarm, irq, drive, waiter, cmd>>

(* LoadHDDModules: ata_bd serves ps2hdd and ps2fs as well.                   *)
LoadPs2hdd ==
  /\ pc["start"] = "done" /\ ~ apa /\ Others # {}
  /\ apa' = TRUE
  /\ UNCHANGED <<world, clash, exists, connected, plan, state, hw, waiter, pc, cmd, req, res>>

Transfer(t) == \E at \in 0 .. Sectors - 1 : \E n \in 1 .. Sectors - at : n < Max48 /\ Begin(t, "io", at, n)
Flush(t) == Begin(t, "flush", 0, 0)
Stop(t) == Begin(t, "stop", 0, 0)

Least(a, b) == IF a < b THEN a ELSE b

(* len is a u16, and 0 is how a 48-bit command says 65536.                  *)
Len16(r) ==
  IF world.lba48 /\ (world.dvrp => r.at >= Capacity28)
  THEN Least(r.n, Max48) % Max48
  ELSE Least(r.n, Max28)

Chunk(t) ==
  /\ pc[t] = "chunk"
  /\ IF req[t].op # "io"
     THEN Command(t, "nodata", 0, 0, 1) /\ UNCHANGED req
     ELSE /\ Command(t, "dma", 0, req[t].at, Len16(req[t]))
          /\ req' = [req EXCEPT ![t].tries = Retries]
  /\ UNCHANGED <<world, apa, exists, connected, plan, state, hw, waiter, res>>

(* The caller has its answer; what it was is kept only of a transfer that    *)
(* went well.                                                               *)
Replied(t) ==
  /\ Goto(t, "idle") /\ cmd' = [cmd EXCEPT ![t] = NoCmd] /\ UNCHANGED clash
  /\ IF req[t].op = "io" /\ res[t] = "ok" THEN UNCHANGED <<res, served>>
     ELSE res' = [res EXCEPT ![t] = "ok"] /\ served' = [served EXCEPT ![t] = {}]

Retried(t) == req[t].op = "io" /\ res[t] = "icrc" /\ req[t].tries > 1

(* A CRC error is tried again; the chunk is counted off whatever came of     *)
(* its last try, and the request goes on only after a good one.              *)
After(t) ==
  /\ pc[t] = "after"
  /\ \/ /\ Retried(t)
        /\ req' = [req EXCEPT ![t].tries = @ - 1]
        /\ Command(t, "dma", 0, req[t].at, Len16(req[t])) /\ UNCHANGED <<res, served>>
     \/ /\ req[t].op = "io" /\ res[t] = "ok" /\ req[t].n > Len16(req[t])
        /\ req' = [req EXCEPT ![t].at = @ + Len16(req[t]), ![t].n = @ - Len16(req[t]), ![t].tries = 0]
        /\ Goto(t, "chunk") /\ cmd' = [cmd EXCEPT ![t] = NoCmd] /\ UNCHANGED <<clash, res, served>>
     \/ /\ req[t].op = "io" /\ res[t] = "ok" /\ req[t].n <= Len16(req[t])
        /\ req' = [req EXCEPT ![t].at = @ + Len16(req[t]), ![t].n = 0, ![t].tries = 0]
        /\ Replied(t)
     \/ /\ (req[t].op # "io" \/ res[t] # "ok") /\ ~ Retried(t)
        /\ req' = [req EXCEPT ![t] = NoReq]
        /\ Replied(t)
  /\ UNCHANGED <<world, apa, exists, connected, plan, state, flag, alarm, irq, drive, waiter>>

-----------------------------------------------------------------------------
(* The drive and the interrupts.                                            *)

Around == UNCHANGED <<world, users, connected, plan, state, waiter, pc, cmd, req, res>>

DriveOffers ==
  /\ drive.busy /\ drive.left > 0 /\ drive.fifo = 0
  /\ drive' = [drive EXCEPT !.left = @ - 1, !.fifo = 1]
  /\ Around /\ UNCHANGED <<exists, flag, alarm, irq, served>>

DriveEnds ==
  /\ drive.busy
  /\ \E err \in {"ok", "io", "icrc"} :
       /\ err = "ok" => drive.left = 0 /\ drive.fifo = 0
       /\ drive' = [drive EXCEPT !.busy = FALSE, !.intrq = drive.kind # "pio", !.err = err, !.left = 0]
       /\ served' = IF err = "ok" /\ drive.kind = "dma" /\ pc[drive.by] \in Waiting
                    THEN [served EXCEPT ![drive.by] = @ \union (drive.at .. drive.at + drive.n - 1)]
                    ELSE served
  /\ Around /\ UNCHANGED <<exists, flag, alarm, irq>>

(* ata_intr_cb: an enabled interrupt that is asserted sets the flag, once.   *)
Interrupt ==
  /\ ("cmd" \in irq /\ drive.intrq) \/ ("fifo" \in irq /\ drive.fifo > 0)
  /\ flag' = flag \union {"complete"} /\ irq' = {}
  /\ Around /\ UNCHANGED <<exists, alarm, drive, served>>

NewCard ==
  /\ pc["start"] = "done"
  /\ exists' = [i \in Devices |-> FALSE]
  /\ Around /\ UNCHANGED hw

AlarmFires ==
  /\ alarm # "none"
  /\ flag' = flag \union {"timeout"} /\ alarm' = "none"
  /\ Around /\ UNCHANGED <<exists, irq, drive, served>>

InitStep == Reset \/ Probe \/ Decide \/ Configure \/ Connect \/ Resident
CommandStep(t) ==
  \/ Exec(t) \/ Select(t) \/ Issue(t) \/ Wait(t) \/ Sleep(t) \/ Flag(t) \/ Dma(t) \/ DmaWait(t)
  \/ DmaEnd(t) \/ EndWait(t) \/ Pio(t) \/ Settle(t) \/ End(t)
RequestStep(t) == Chunk(t) \/ After(t)
Asks == \E t \in Clients \ {"start"} : Transfer(t) \/ Flush(t) \/ Stop(t)

AtaNext ==
  \/ InitStep
  \/ \E t \in Clients : CommandStep(t) \/ RequestStep(t)
  \/ LoadPs2hdd \/ Asks \/ DriveOffers \/ DriveEnds \/ Interrupt \/ AlarmFires \/ NewCard

(* The IOP runs its threads and its timer; the drive owes nothing.          *)
AtaFairness ==
  /\ WF_ataVars(InitStep) /\ WF_ataVars(AlarmFires) /\ WF_ataVars(Interrupt)
  /\ \A t \in Clients : WF_ataVars(CommandStep(t) \/ RequestStep(t))

AtaSpec == AtaInit /\ [][AtaNext]_ataVars /\ AtaFairness

(* Bounds: where two threads have met, a run of the model ends: nothing is   *)
(* said of what they do to each other.  Beside a slave BDM only flushes, and  *)
(* ps2hdd comes to a drive with 48-bit addresses and flushes it.             *)
Explored ==
  /\ ~ clash
  /\ world.slave => req["mount"].op \in {"none", "flush"}
  /\ apa => world.lba48 /\ ~ world.dvrp
  /\ \A t \in Others : req[t].op \in {"none", "flush"}

-----------------------------------------------------------------------------
(* A request that is reported as done was done: of every command of it the   *)
(* drive has moved and confirmed all sectors, whatever interrupt or alarm of *)
(* an earlier command woke the driver in between, and whoever's that was; so *)
(* long as no two threads were ever in the driver at once.                  *)
OkMeansServed ==
  ~ clash => \A t \in Clients \ {"start"} :
    pc[t] = "idle" /\ req[t].op = "io" /\ res[t] = "ok"
      => served[t] = req[t].first .. req[t].last - 1

(* The state, the flag and the alarm have no lock, and need none "after the  *)
(* connect" of the only device (ps2atad.c:1286): BDM's mount thread and      *)
(* _start never meet in the driver.  Two threads do meet when ps2hdd is      *)
(* loaded (luaHDD.cpp:229), or when a DVRP has a slave, and only then.       *)
Using == {t \in Clients : pc[t] \in InCommand}
OneConsumer == clash \/ Cardinality(Using) > 1 => apa \/ world.slave

(* Every call returns, on a drive that stops answering too, unless two       *)
(* threads have met in the driver.                                          *)
CallsReturn == \A t \in Clients \ {"start"} : (pc[t] # "idle" ~> pc[t] = "idle" \/ clash)
=============================================================================
