----------------------------- MODULE ElfHandoff -----------------------------
(***************************************************************************)
(* Starting another program: what Lua prepares for each kind of launch     *)
(* (system.lua, ui.lua), the bindings (luasystem.cpp), the launch routines *)
(* of the parent (elf_loader/src/elf.c) and the small child loader they    *)
(* copy to low memory, which wipes the user memory and loads the program   *)
(* (elf_loader/src/loader/src/loader.c).  A routine that returns comes     *)
(* back to the menu; once the child runs there is no way back.             *)
(*                                                                         *)
(* The PFS slots here are those of the file server: who mounts what before *)
(* a launch is the subject of PfsMounts, here anything may be mounted.     *)
(* Arguments are names; how much room they take is a number of KB.         *)
(***************************************************************************)
EXTENDS Integers, Sequences, FiniteSets

CONSTANTS
  Parts,       \* partitions of the hard drive
  NoPart,
  ParentRoom,  \* launch_arg_storage of elf.c: 2 KB
  ChildRoom,   \* target_arg_storage of loader.c: 1 KB
  Sizes        \* bound: the KB of arguments a launch of the menu brings

ASSUME HandoffAssumption ==
  /\ NoPart \notin Parts /\ Sizes \subseteq Nat
  /\ ParentRoom \in Nat /\ ChildRoom \in Nat /\ ChildRoom <= ParentRoom

Slots    == 0 .. 3
Stores   == {"card", "mass", "smb"}
BootSlot == 1
Tools    == {"popstarter", "dkwdrv", "boot", "ember"}

\* Paths: pfsN:/file is on the partition that was mounted on N when Lua looked; hdd0:PART:.. names it.
Paths ==
  [dev : Stores, slot : {0}, part : {NoPart}]
    \union [dev : {"pfs", "hdd"}, slot : Slots, part : Parts]
OnDrive(p) == p.dev \in {"pfs", "hdd"}
Pfs(s, p)  == [dev |-> "pfs", slot |-> s, part |-> p]

VARIABLES
  has,     \* where the program's file is
  boot,    \* the partition POPSLoader runs from
  hdd,     \* PLDR.HDD.LOADSTATE is not 0
  mount,   \* the PFS slots
  mask,    \* s_exec_keep_pfs_mask
  pc, job, asked,
  rpc, iop, memory,
  why      \* how the last launch ended

vars == <<has, boot, hdd, mount, mask, pc, job, asked, rpc, iop, memory, why>>

Jobs ==
  [tool : Tools, path : Paths, ctx : Parts \union {NoPart}, argv : Seq({"", "selector", "path", "name"}),
   size : Nat, child : BOOLEAN]

TypeOK ==
  /\ has \subseteq Stores \union Parts
  /\ boot \in Parts \union {NoPart} /\ hdd \in BOOLEAN
  /\ mount \in [Slots -> Parts \union {NoPart}] /\ mask \subseteq Slots
  /\ pc \in {"menu", "back", "execps2", "file", "keepiop", "reboot", "hddback", "embedded", "reset",
             "child", "load", "loaded", "target", "dead"}
  /\ job \in Jobs /\ asked \in Jobs
  /\ rpc \in {"up", "down"} /\ iop \in {"live", "reset"} /\ memory \in {"whole", "wiped"}
  /\ why \in {"none", "argv", "missing", "media", "room", "mount"}

Machine == <<rpc, iop, memory>>
World   == <<has, boot, hdd>>

Place(p)    == IF OnDrive(p) THEN p.part ELSE p.dev
Mounted(p)  == p.dev = "pfs" => mount[p.slot] = p.part
Readable(p) == Place(p) \in has /\ Mounted(p)
HasArgv0(argv) == argv # <<>> /\ argv[1] # ""

-----------------------------------------------------------------------------
(* Lua: the mounts before, and what is prepared for a launch.              *)

Mount(s, p) ==
  /\ pc = "menu" /\ hdd
  /\ mount[s] = NoPart /\ \A t \in Slots : mount[t] # p
  /\ mount' = [mount EXCEPT ![s] = p]
  /\ UNCHANGED <<World, mask, pc, job, asked, Machine, why>>

Unmount(s) ==
  /\ pc = "menu" /\ mount[s] # NoPart
  /\ mount' = [mount EXCEPT ![s] = NoPart]
  /\ UNCHANGED <<World, mask, pc, job, asked, Machine, why>>

OpenHddPage ==
  /\ pc = "menu" /\ ~hdd /\ hdd' = TRUE
  /\ UNCHANGED <<has, boot, mount, mask, pc, job, asked, Machine, why>>

\* PrepareForColdExternalELFLaunch.
Cold == mask' = {} /\ mount' = [s \in Slots |-> NoPart]

\* The slots the boot paths name: pfs1, and pfs0 when argv[0] says "pfs:".
BootKeeps(p) == IF boot # NoPart /\ ~OnDrive(p) THEN {0, BootSlot} ELSE {}

\* PrepareForExternalELFLaunch.
Warm(p) ==
  LET keep == (IF OnDrive(p) THEN {p.slot} ELSE {}) \union BootKeeps(p)
  IN mask' = keep /\ mount' = [s \in Slots |-> IF s \in keep THEN mount[s] ELSE NoPart]

\* A binding called with a program, its arguments and a partition: the call of C it makes.
Call(to, tool, p, ctx, argv) ==
  \E n \in Sizes :
    /\ job' = [tool |-> tool, path |-> p, ctx |-> ctx, argv |-> argv, size |-> n, child |-> FALSE]
    /\ asked' = job' /\ pc' = to
    /\ UNCHANGED <<World, Machine, why>>

Asking == pc = "menu"
Stored == {p \in Paths : ~OnDrive(p)}
Driven == {p \in Paths : OnDrive(p) /\ Mounted(p) /\ hdd}

\* LaunchEngine: POPSTARTER beside the games, or from the hard drive with or without its partition.
LaunchPopstarter ==
  /\ Asking
  /\ \/ \E p \in Stored : Warm(p) /\ Call("execps2", "popstarter", p, NoPart, <<"selector">>)
     \/ \E p \in Stored : Warm(p) /\ Call("keepiop", "popstarter", p, NoPart, <<"selector">>)
     \/ \E p \in Driven : p.dev = "pfs" /\ Cold /\ Call("reboot", "popstarter", p, p.part, <<"selector">>)
     \/ \E p \in Driven : p.dev = "pfs" /\ Warm(p) /\ Call("reboot", "popstarter", p, NoPart, <<"selector">>)

\* Mutant: where POPSLoader was booted from does not matter to a program on a card.
LaunchDkwdrv_Reboot ==
  /\ Asking
  /\ \/ \E p \in Stored : Warm(p) /\ Call("reboot", "dkwdrv", p, NoPart, <<"path">>)
     \/ \E p \in Driven : Cold /\ Call("reboot", "dkwdrv", [p EXCEPT !.dev = "pfs"], p.part, <<"path">>)

\* OpenDKWDRV: with the drive in use nothing resets the IOP under its mounts.
LaunchDkwdrv ==
  /\ Asking
  /\ \/ \E p \in Stored : hdd /\ Cold /\ Call("execps2", "dkwdrv", p, NoPart, <<"path">>)
     \/ \E p \in Driven : Cold /\ Call("reboot", "dkwdrv", [p EXCEPT !.dev = "pfs"], p.part, <<"path">>)
     \/ \E p \in Driven : Warm(p) /\ Call("execps2", "dkwdrv", p, NoPart, <<"path">>)
     \/ \E p \in Stored : ~hdd /\ Warm(p) /\ Call("reboot", "dkwdrv", p, NoPart, <<"path">>)

\* LaunchBootElf, from a memory card.
LaunchBootElf ==
  /\ Asking
  /\ \E p \in Stored :
       p.dev = "card" /\ (IF hdd THEN Cold ELSE Warm(p)) /\ Call("file", "boot", p, NoPart, <<>>)

\* EmberLaunch: the game's partition stays mounted, read and write.
LaunchEmber ==
  /\ Asking
  /\ \/ \E p \in Stored : Call("keepiop", "ember", p, NoPart, <<"path", "name">>) /\ UNCHANGED <<mount, mask>>
     \/ \E p \in Driven :
          /\ p.dev = "pfs" /\ p.slot \in {0, 1} /\ mask' = {p.slot} /\ UNCHANGED mount
          /\ Call("keepiop", "ember", p, NoPart, <<"path", "name">>)

\* The menu after a launch that returned; Ember's partition is released.
Back ==
  /\ pc = "back" /\ pc' = "menu"
  /\ mount' = IF asked.tool = "ember" /\ OnDrive(asked.path)
              THEN [mount EXCEPT ![asked.path.slot] = NoPart] ELSE mount
  /\ UNCHANGED <<World, mask, job, asked, Machine, why>>

-----------------------------------------------------------------------------
(* elf.c: the parent.  The binding clears the mask after a return.         *)

Return(w) ==
  /\ pc' = "back" /\ mask' = {} /\ why' = w
  /\ UNCHANGED <<World, job, asked, Machine>>

Run == pc' = "target" /\ UNCHANGED <<World, mask, asked, rpc, memory, why>>

GoTo(p, j) == pc' = p /\ job' = j /\ UNCHANGED <<World, mask, asked, Machine, why>>

\* LoadELFFromFileExecPS2: the program is loaded in place, nothing is torn down.
ExecPS2Direct ==
  /\ pc = "execps2" /\ UNCHANGED mount
  /\ IF ~HasArgv0(job.argv) THEN Return("argv")
     ELSE IF ~Readable(job.path) THEN Return("missing")
     ELSE Return("media") \/ (Run /\ UNCHANGED <<iop, job>>)

\* is_dkwdrv_elf_path, and the two paths of BOOT.ELF.
BesideItself == job.tool = "dkwdrv" \/ (job.tool = "boot" /\ job.path.dev = "card")

\* LoadELFFromFileWithPartition: a program that expects its own path, or LoadExecPS2.
FromFile ==
  /\ pc = "file" /\ UNCHANGED mount
  /\ IF ~Readable(job.path) THEN Return("missing")
     ELSE IF BesideItself THEN GoTo("embedded", [job EXCEPT !.argv = <<"path">>])
     ELSE Return("media") \/ (Run /\ UNCHANGED <<iop, job>>)

\* LoadELFFromFileKeepIOP.
KeepIOP ==
  /\ pc = "keepiop" /\ UNCHANGED mount
  /\ IF ~Readable(job.path) THEN Return("missing") ELSE GoTo("embedded", job)

\* unmount_pfs_slots_for_exec.
UnmountForExec == mount' = [s \in Slots |-> IF s \in mask THEN mount[s] ELSE NoPart]

\* LoadELFFromFileExecPS2RebootIOPWithPartition.
RebootIOP ==
  /\ pc = "reboot"
  /\ IF job.ctx # NoPart /\ OnDrive(job.path) THEN GoTo("hddback", job) /\ UNCHANGED mount
     ELSE IF ~Readable(job.path) THEN Return("missing") /\ UNCHANGED mount
     ELSE IF OnDrive(job.path) THEN GoTo("hddback", job) /\ UNCHANGED mount
     ELSE \/ Return("media") /\ UNCHANGED mount
          \/ GoTo("reset", job) /\ UnmountForExec

\* SifIopReset, and the memory card's modules again.
ResetAndRun ==
  /\ pc = "reset" /\ iop' = "reset"
  /\ job' = [job EXCEPT !.argv = IF job.tool = "dkwdrv" THEN <<"path">> ELSE @]
  /\ Run /\ UNCHANGED mount

\* mount_hdd_exec_partition: a second try after the slot was emptied.
Free(p, s)  == \A t \in Slots \ {s} : mount[t] # p
MountForExec(p, s, ok) ==
  mount' = [mount EXCEPT ![s] = IF ok /\ Free(p, s) THEN p ELSE NoPart]

\* Mutant: that the file is on the partition is left to the child.
HddBacked_NotOpened ==
  /\ pc = "hddback"
  /\ LET part == IF job.ctx = NoPart /\ job.path.dev = "hdd" THEN job.path.part ELSE job.ctx
         there == Pfs(0, part)
     IN IF ~HasArgv0(job.argv) THEN Return("argv") /\ UNCHANGED mount
        ELSE IF part = NoPart THEN GoTo("embedded", job) /\ UNCHANGED mount
        ELSE \E ok \in BOOLEAN :
               /\ MountForExec(part, 0, ok)
               /\ IF mount'[0] # part THEN Return("mount")
                  ELSE GoTo("embedded", [job EXCEPT !.ctx = part, !.path = there])

\* ExecuteHddBackedViaEmbeddedLoader: the partition is mounted on pfs0 by name and the file
\* opened there.  The mask it adds to is put back when the child did not start.
HddBacked ==
  /\ pc = "hddback"
  /\ LET part == IF job.ctx = NoPart /\ job.path.dev = "hdd" THEN job.path.part ELSE job.ctx
         there == Pfs(0, part)
     IN IF ~HasArgv0(job.argv) THEN Return("argv") /\ UNCHANGED mount
        ELSE IF part = NoPart THEN GoTo("embedded", job) /\ UNCHANGED mount
        ELSE \E ok \in BOOLEAN :
               /\ MountForExec(part, 0, ok)
               /\ IF mount'[0] # part THEN Return("mount")
                  ELSE IF part \notin has THEN Return("missing")
                  ELSE \/ Return("media")
                       \/ GoTo("embedded", [job EXCEPT !.ctx = part, !.path = there])

\* ExecuteViaEmbeddedLoader: what it can refuse it refuses before RPC goes down.
Embedded ==
  /\ pc = "embedded" /\ UNCHANGED mount
  /\ IF job.argv # <<>> /\ ~HasArgv0(job.argv) THEN Return("argv")
     ELSE IF job.size > ParentRoom THEN Return("room")
     ELSE /\ pc' = "child" /\ rpc' = "down" /\ job' = [job EXCEPT !.child = TRUE]
          /\ UNCHANGED <<World, mask, asked, iop, memory, why>>

-----------------------------------------------------------------------------
(* loader.c: the child.                                                    *)

Die(w) == pc' = "dead" /\ why' = w /\ UNCHANGED <<World, mask, job, asked, iop>>

\* main: the arguments are copied, then the user memory is wiped.
ChildMain ==
  /\ pc = "child" /\ UNCHANGED mount
  /\ IF job.argv # <<>> /\ job.size > ChildRoom THEN Die("room") /\ UNCHANGED <<rpc, memory>>
     ELSE /\ pc' = "load" /\ rpc' = "up" /\ memory' = "wiped"
          /\ job' = [job EXCEPT !.argv = IF @ = <<>> THEN <<"path">> ELSE @]
          /\ UNCHANGED <<World, mask, asked, iop, why>>

\* SifLoadElf, or load_elf_via_filexio for a path of the drive without a partition.
ChildLoad ==
  /\ pc = "load" /\ UNCHANGED <<mount, memory>>
  /\ IF ~Readable(job.path) THEN Die("missing") /\ rpc' = "down"
     ELSE \/ Die("media") /\ rpc' = "down"
          \/ pc' = "loaded" /\ UNCHANGED <<World, mask, job, asked, rpc, iop, why>>

\* Mutant: the mount is closed for every program of the drive.
ChildRun_AlwaysUnmounts ==
  /\ pc = "loaded"
  /\ mount' = IF OnDrive(job.path) THEN [mount EXCEPT ![job.path.slot] = NoPart] ELSE mount
  /\ pc' = "target" /\ rpc' = "down" /\ UNCHANGED <<World, mask, job, asked, iop, memory, why>>

\* should_use_filexio_direct_load: such a program keeps the mount it came from; with a partition
\* the slot is closed before the program starts.
ChildRun ==
  /\ pc = "loaded"
  /\ mount' = IF job.ctx # NoPart THEN [mount EXCEPT ![job.path.slot] = NoPart] ELSE mount
  /\ pc' = "target" /\ rpc' = "down" /\ UNCHANGED <<World, mask, job, asked, iop, memory, why>>

-----------------------------------------------------------------------------
Init ==
  /\ has \in SUBSET (Stores \union Parts)
  /\ boot \in Parts \union {NoPart} /\ hdd = (boot # NoPart)
  /\ mount = [s \in Slots |-> IF s = BootSlot THEN boot ELSE NoPart]
  /\ mask = {} /\ pc = "menu"
  /\ job = [tool |-> "boot", path |-> [dev |-> "card", slot |-> 0, part |-> NoPart], ctx |-> NoPart,
            argv |-> <<>>, size |-> 0, child |-> FALSE]
  /\ asked = job
  /\ rpc = "up" /\ iop = "live" /\ memory = "whole" /\ why = "none"

Launch == LaunchPopstarter \/ LaunchDkwdrv \/ LaunchBootElf \/ LaunchEmber
Parent == ExecPS2Direct \/ FromFile \/ KeepIOP \/ RebootIOP \/ ResetAndRun \/ HddBacked \/ Embedded
Child  == ChildMain \/ ChildLoad \/ ChildRun

Next ==
  \/ \E s \in Slots, p \in Parts : Mount(s, p)
  \/ \E s \in Slots : Unmount(s)
  \/ OpenHddPage \/ Launch \/ Parent \/ Child \/ Back

Spec == Init /\ [][Next]_vars

-----------------------------------------------------------------------------
(* The IOP is never reset over a mounted partition: SifIopReset hangs on the *)
(* server thread of a slot that is still open (elf.c:659), whoever mounted   *)
(* it and whatever the keep mask of this launch says.                       *)
NothingMountedAtReset == pc = "reset" => \A s \in Slots : mount[s] = NoPart

(* What the parent lets through only the medium can still stop: when the    *)
(* child gives up, which nothing comes back from, its file was there, its   *)
(* slot mounted and its arguments fitted.                                   *)
DoomedOnlyByMedia == pc = "dead" => why = "media"

(* A program starts as its launch promised.  With a partition of the drive  *)
(* every slot is free for it to mount; loaded from a slot without one, it   *)
(* finds that slot mounted; and it is told the name Lua chose for it, or    *)
(* its own path when Lua chose none.                                        *)
StartedAsPromised ==
  pc = "target" =>
    /\ job.child /\ OnDrive(job.path) =>
         IF job.ctx # NoPart THEN \A s \in Slots : mount[s] = NoPart
         ELSE mount[job.path.slot] = job.path.part
    /\ job.argv = IF asked.argv = <<>> THEN <<"path">> ELSE asked.argv
=============================================================================
