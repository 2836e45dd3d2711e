----------------------------- MODULE PfsMounts -----------------------------
(***************************************************************************)
(* The four PFS mount slots of the hard drive and everybody who wants one: *)
(* the partition POPSLoader was booted from (pfs1), the scan for games,    *)
(* cover art on __common, files on game partitions, the settings file, the *)
(* search for POPSTARTER.ELF and the launch that follows it                *)
(* (src/bin/POPSLDR/system.lua, ui.lua, src/src/luaHDD.cpp, elf.c).        *)
(*                                                                         *)
(* The file server mounts a partition once: a mount on a slot in use, or   *)
(* of a partition mounted elsewhere, fails.  A failed mount empties its    *)
(* slot (luaHDD.cpp).  Lua keeps its own record of what is mounted where.  *)
(* Every handler of the Lua thread is one action; "bad" is the set of      *)
(* mounts that the drive fails during that handler.  What a handler uses   *)
(* often is bound by \E over a singleton, for TLC to evaluate it once.     *)
(* POPSTARTER Path is Automatic and POPSLoader is not installed on a       *)
(* partition of games.                                                     *)
(***************************************************************************)
EXTENDS Integers, FiniteSets

CONSTANTS
  Games,      \* partitions of games: __.POPS, __.POPS0, ...
  Ember,      \* partitions of Ember games
  Common,     \* hdd0:__common
  Apps,       \* other partitions POPSLoader may be installed on: +OPL
  NoPart,
  Faulty      \* bound: partitions the drive may fail to mount

Parts  == Games \union Ember \union {Common} \union Apps
Played == Games \union Ember

ASSUME PfsAssumption ==
  /\ NoPart \notin Parts
  /\ ({Common} \union Apps) \intersect Played = {}
  /\ Faulty \subseteq Parts

Slots     == 0 .. 3
NoSlot    == -1
BootSlot  == 1      \* BOOT_HDD_MOUNT_SLOT, and HDD_SLOT_GAME
ArtSlot   == 2      \* HDD_SLOT_COMMON
ToolSlot  == 3      \* HDD_SLOT_POPSTARTER
RO == FALSE
RW == TRUE

VARIABLES
  boot,      \* the partition POPSLoader runs from, NoPart when not on the drive
  homes,     \* where on the drive POPSTARTER.ELF is: on __common, beside POPSLOADER.ELF
  hdd,       \* the slots and what Lua knows of them
  bootRW,    \* BOOT_PARTITION_RW
  task,
  gamepath,  \* PLDR.GAMEPATH names a slot of the drive
  todo,      \* game partitions the scan has still to visit
  avail,     \* PLDR.HDD.AVAILABLE
  art,       \* the slots of the picture paths just handed to the cover cache
  keepMask,  \* the slots the next program finds mounted
  outcome    \* how the last handler ended

vars == <<boot, homes, gamepath, hdd, bootRW, task, todo, avail, art, keepMask, outcome>>

Homes == {"common", "cwd"}
Mounts ==
  [at : [Slots -> Parts \union {NoPart}],          \* the file server
   rw : SUBSET Slots,
   slots : [Slots -> Parts \union {NoPart}],       \* HDD_MOUNT_STATE.slots
   partitions : [Parts -> Slots \union {NoSlot}],  \* HDD_MOUNT_STATE.partitions
   warm : BOOLEAN,                                 \* hdd_spinup_waited
   gameSlot : (0 .. 2) \union {NoSlot}]            \* PLDR.HDD.GAME_SLOT

TypeOK ==
  /\ boot \in {Common, NoPart} \union Apps
  /\ homes \in SUBSET Homes
  /\ hdd \in Mounts
  /\ bootRW \in BOOLEAN /\ gamepath \in BOOLEAN
  /\ task \in {"start", "menu", "check", "build", "gone"}
  /\ todo \in SUBSET Games /\ avail \in SUBSET Games
  /\ art \in SUBSET Slots /\ keepMask \in SUBSET Slots
  /\ outcome \in {"none", "picked", "refused", "missing", "exit", "popstarter", "ember"}

-----------------------------------------------------------------------------
(* luaHDD.cpp: the file server's mounts.                                   *)

Umount(h, s) == [h EXCEPT !.at[s] = NoPart, !.rw = @ \ {s}]

Fits(h, p, s, mode, bad) ==
  h.at[s] = NoPart /\ (\A t \in Slots : h.at[t] # p) /\ <<p, mode>> \notin bad

Put(h, p, s, mode) ==
  [h EXCEPT !.at[s] = p, !.rw = IF mode = RW THEN @ \union {s} ELSE @ \ {s}, !.warm = TRUE]

\* mnt: the slot is emptied by a mount that fails, and only a drive that has not spun up yet
\* is given more than one try.
Mnt(h, p, s, mode, bad) ==
  IF Fits(h, p, s, mode, bad) THEN Put(h, p, s, mode)
  ELSE IF ~h.warm /\ Fits(Umount(h, s), p, s, mode, bad) THEN Put(Umount(h, s), p, s, mode)
  ELSE [Umount(h, s) EXCEPT !.warm = TRUE]

(* system.lua: the record of them.                                         *)

\* ForgetRecordedHddMountSlot.
Forget(h, s) ==
  LET p == h.slots[s]
  IN [h EXCEPT !.slots[s] = NoPart,
               !.partitions = [q \in Parts |->
                  IF q = p /\ h.partitions[q] = s THEN NoSlot ELSE h.partitions[q]]]

\* RememberRecordedHddMount.
Remember(h, p, s) == [Forget(h, s) EXCEPT !.slots[s] = p, !.partitions[p] = s]

\* Mutant: a slot that has a record keeps it.
MountTracked_Kept(h, p, s, mode, bad) ==
  LET g == Mnt(h, p, s, mode, bad)
  IN IF g.at[s] = p /\ g.slots[s] = NoPart THEN Remember(g, p, s) ELSE g

\* MountHddPartitionTracked.
MountTracked(h, p, s, mode, bad) ==
  LET g == Mnt(h, p, s, mode, bad) IN IF g.at[s] = p THEN Remember(g, p, s) ELSE g

\* UMountHddPartitionTracked: an empty slot cannot be unmounted, and its record stays.
UMountTracked(h, s) == IF h.at[s] = NoPart THEN h ELSE Forget(Umount(h, s), s)

\* The file of partition p is read through slot s; has: p has it.
Probe(h, s, p, has) == s # NoSlot /\ has /\ h.at[s] = p

\* ResolveHddPartitionReadablePath: the path's own slot, the recorded slot, a new mount, which
\* stays whether or not the file is there.
Resolve(h, p, has, hint, slot, bad) ==
  IF Probe(h, hint, p, has) THEN Remember(h, p, hint)
  ELSE IF Probe(h, h.partitions[p], p, has) THEN h
  ELSE MountTracked(h, p, slot, RO, bad)

\* The slot it answers with.
FoundAt(h, p, has) == IF Probe(h, h.partitions[p], p, has) THEN h.partitions[p] ELSE NoSlot

-----------------------------------------------------------------------------
(* Game partitions: mounted for one purpose, and released.                 *)

\* Mutant: the boot partition's slot is offered too.
GameSlots_AnySlot(h) == IF h.gameSlot = 0 THEN <<0, 1>> ELSE <<1, 0>>

\* GetHddGameSlotCandidates.
GameSlots(h) ==
  IF boot # NoPart THEN <<0, ArtSlot>>
  ELSE IF h.gameSlot = 0 THEN <<0, 1>> ELSE <<1, 0>>

\* MountHddGamePartitionTracked.
GameMount(h, p, mode, bad) ==
  LET c == GameSlots(h)
      first == MountTracked(h, p, c[1], mode, bad)
      second == MountTracked(first, p, c[2], mode, bad)
  IN IF first.at[c[1]] = p THEN [first EXCEPT !.gameSlot = c[1]]
     ELSE IF second.at[c[2]] = p THEN [second EXCEPT !.gameSlot = c[2]]
     ELSE second

GameMounted(h, p) == h.gameSlot # NoSlot /\ h.at[h.gameSlot] = p

Release(h, p) == IF GameMounted(h, p) THEN UMountTracked(h, h.gameSlot) ELSE h

\* Every way to fail the mounts of these partitions.
Failing(ps, modes) == SUBSET ((ps \intersect Faulty) \X modes)

-----------------------------------------------------------------------------
(* POPSTARTER.ELF beside POPSLOADER.ELF, and the search for it.            *)

InCwd == "cwd" \in homes

\* ResolveHddReadablePath of <boot>:pfs:/<dir>/POPSTARTER.ELF, which names pfs0.
ResolveCwd(h, bad) == Resolve(h, boot, InCwd, 0, ToolSlot, bad)
CwdSlot(h) == IF Probe(h, BootSlot, boot, InCwd) THEN BootSlot ELSE FoundAt(h, boot, InCwd)

\* ResolveHddBootSidecarPopstarter: through pfs1, then twice by the partition's name.
Sidecar(h, bad) ==
  IF boot = NoPart \/ Probe(h, BootSlot, boot, InCwd) THEN h
  ELSE LET g == ResolveCwd(h, bad)
       IN IF CwdSlot(g) # NoSlot THEN g ELSE ResolveCwd(g, bad)

\* A path: the partition POPSTARTER was found on and through which slot; NoPart: a file that
\* is not on the drive, or none.
Path(h, p, s) == [hdd |-> h, on |-> p, slot |-> s]

\* ResolvePopstarterPath(""): beside POPSLOADER.ELF, or wherever else.
ResolvePopstarterPath(h, bad) ==
  LET g == Sidecar(h, bad)
      k == IF CwdSlot(g) # NoSlot THEN g ELSE ResolveCwd(g, bad)
  IN IF boot = NoPart THEN Path(h, NoPart, NoSlot)
     ELSE IF CwdSlot(k) # NoSlot THEN Path(k, boot, CwdSlot(k)) ELSE Path(k, NoPart, NoSlot)

\* ResolveLaunchPopstarterPath, for a game on the drive, on a device with a POPSTARTER.ELF of
\* its own beside it, or on another device.
ResolveLaunch(h, place, bad) ==
  LET has == "common" \in homes
      g == Resolve(h, Common, has, 0, ToolSlot, bad)
  IN IF place = "beside" THEN Path(h, NoPart, NoSlot)
     ELSE IF place = "device" THEN ResolvePopstarterPath(h, bad)
     ELSE IF FoundAt(g, Common, has) # NoSlot THEN Path(g, Common, FoundAt(g, Common, has))
     ELSE ResolvePopstarterPath(UMountTracked(g, ToolSlot), bad)

\* ResolveHddBootSidecarSourceContext.
SourceContext(h, bad) ==
  IF boot = NoPart THEN h
  ELSE LET g == ResolveCwd(h, bad) IN IF CwdSlot(g) # NoSlot THEN g ELSE ResolveCwd(g, bad)

\* ResolvePopstarterPartitionContext: the partition the loader will mount.
ContextOf(h, slot) == IF boot # NoPart /\ CwdSlot(h) # NoSlot THEN boot ELSE h.slots[slot]

\* ValidateHddPopstarterExecGate mounts that partition where nobody recorded it.
Gate(h, context, bad) ==
  IF context \in Parts /\ h.partitions[context] = NoSlot
    THEN MountTracked(h, context, 0, RO, bad) ELSE h
GateOpen(h, context, on) == context \in Parts /\ Probe(h, h.partitions[context], on, TRUE)

\* PrepareForColdExternalELFLaunch.
ColdPrep(h) == UMountTracked(UMountTracked(UMountTracked(UMountTracked(h, 0), 1), 2), 3)

\* PrepareForExternalELFLaunch, for a program that is not on the drive.
KeptWarm == IF boot = NoPart THEN {} ELSE {0, BootSlot}
WarmPrep(h) ==
  LET upper == UMountTracked(UMountTracked(h, 2), 3)
  IN IF boot = NoPart THEN UMountTracked(UMountTracked(upper, 0), 1) ELSE upper

\* elf.c mount_hdd_exec_partition, behind Lua's back.
LoaderMount(h, p, bad) ==
  LET empty == Umount(h, 0)
  IN IF Fits(h, p, 0, RO, bad) THEN [h EXCEPT !.at[0] = p, !.rw = @ \ {0}]
     ELSE IF Fits(empty, p, 0, RO, bad) THEN [empty EXCEPT !.at[0] = p] ELSE empty

-----------------------------------------------------------------------------
EmptyMounts ==
  [at |-> [s \in Slots |-> NoPart], rw |-> {}, slots |-> [s \in Slots |-> NoPart],
   partitions |-> [p \in Parts |-> NoSlot], warm |-> FALSE, gameSlot |-> NoSlot]

\* boot.lua has mounted the boot partition on pfs1, and its mount is on record.
Init ==
  /\ boot \in {Common, NoPart} \union Apps
  /\ homes \in SUBSET Homes
  /\ hdd = IF boot = NoPart THEN EmptyMounts
           ELSE Remember(Put(EmptyMounts, boot, BootSlot, RO), boot, BootSlot)
  /\ bootRW = FALSE /\ gamepath = FALSE
  /\ task = "start" /\ todo = {} /\ avail = {}
  /\ art = {} /\ keepMask = {} /\ outcome = "none"

Ends(t, o) == task' = t /\ outcome' = o
Stays == UNCHANGED <<boot, homes, gamepath>>
NotScanning == UNCHANGED <<todo, avail>>
NoHandoff == UNCHANGED keepMask

\* EnsureBootHddMountReady: pfs1 is mounted again, which takes two tries.
EnsureBootMount(h, bad) ==
  LET g == MountTracked(Remember(h, boot, BootSlot), boot, BootSlot, RO, bad)
  IN IF g.at[BootSlot] = boot THEN g ELSE MountTracked(g, boot, BootSlot, RO, bad)

\* AutoInitStartupBackends.
Startup ==
  /\ task = "start"
  /\ \E bad \in Failing({boot} \ {NoPart}, {RO}) :
       /\ hdd' = IF boot = NoPart THEN hdd ELSE Sidecar(EnsureBootMount(hdd, bad), bad)
       /\ Ends("menu", "none")
  /\ Stays /\ NotScanning /\ NoHandoff /\ art' = {} /\ UNCHANGED bootRW

(* The scan for games: EnsureGameList.                                     *)

Refresh ==
  /\ task = "menu"
  /\ todo' = Games /\ avail' = {}
  /\ hdd' = [hdd EXCEPT !.gameSlot = NoSlot]
  /\ Ends("check", "none")
  /\ Stays /\ NoHandoff /\ art' = {} /\ UNCHANGED bootRW

\* CheckAvailableHddPopsParts, one partition; DiscoverPartitionGames checks the same way.
CheckPartition ==
  /\ task = "check" /\ todo # {}
  /\ \E p \in todo : \E bad \in Failing({p}, {RO}) :
       LET g == GameMount(hdd, p, RO, bad)
       IN /\ hdd' = Release(g, p)
          /\ avail' = IF GameMounted(g, p) THEN avail \union {p} ELSE avail
          /\ todo' = todo \ {p}
          /\ Ends("check", "none")
  /\ Stays /\ NoHandoff /\ art' = {} /\ UNCHANGED bootRW

CheckDone ==
  /\ task = "check" /\ todo = {}
  /\ todo' = avail /\ avail' = {}     \* which nothing reads again
  /\ gamepath' = TRUE
  /\ Ends("build", "none")
  /\ UNCHANGED <<boot, homes>> /\ NoHandoff /\ art' = {} /\ UNCHANGED <<hdd, bootRW>>

\* BuildGameList, one partition: two tries, and a listing that may fault.
BuildPartition ==
  /\ task = "build" /\ todo # {}
  /\ \E p \in todo : \E bad, bad2 \in Failing({p}, {RO}) :
       LET once == GameMount(hdd, p, RO, bad)
           g == IF GameMounted(once, p) THEN once ELSE GameMount(once, p, RO, bad2)
       IN /\ hdd' = Release(g, p)
          /\ todo' = todo \ {p}
          /\ Ends("build", "none")
  /\ Stays /\ NoHandoff /\ art' = {} /\ UNCHANGED <<bootRW, avail>>

\* Mutant: the slot is not released.
AfterFault_Left(h) == h

\* EnsureGameList, the listing having faulted: the active game slot is released.
AfterFault(h) ==
  IF h.gameSlot # NoSlot /\ ~(boot # NoPart /\ h.gameSlot = BootSlot)
    THEN UMountTracked(h, h.gameSlot) ELSE h

BuildFaults ==
  /\ task = "build"
  /\ \E p \in todo :
       LET g == GameMount(hdd, p, RO, {})
       IN GameMounted(g, p) /\ hdd' = AfterFault(g)
  /\ todo' = {}
  /\ Ends("menu", "none")
  /\ Stays /\ NoHandoff /\ art' = {} /\ UNCHANGED <<bootRW, avail>>

\* The page of another device: the list of the drive stays in memory, and on disk.
OtherDevice ==
  /\ task = "menu"
  /\ gamepath' = FALSE
  /\ Ends("menu", "none")
  /\ UNCHANGED <<boot, homes, hdd, bootRW>> /\ NotScanning /\ NoHandoff /\ art' = {}

(* The boot partition, taken over for writing.                             *)

Taken(h, rw) == [hdd |-> h, bootRW |-> rw]

\* EnsureBootPartitionWritable: no record is kept of either mount.
EnsureBootWritable(h, isRW, bad) ==
  IF isRW /\ h.at[BootSlot] = boot THEN Taken(h, TRUE)
  ELSE LET g == Mnt(Umount(h, BootSlot), boot, BootSlot, RW, bad)
       IN IF g.at[BootSlot] = boot THEN Taken(g, TRUE)
          ELSE Taken(Mnt(g, boot, BootSlot, RO, bad), FALSE)

\* The list is complete; CreateCache may write it.
BuildDone ==
  /\ task = "build" /\ todo = {}
  /\ \E cache \in BOOLEAN, bad \in Failing({boot} \ {NoPart}, {RO, RW}) :
       LET taken == IF cache /\ boot # NoPart THEN EnsureBootWritable(hdd, bootRW, bad)
                    ELSE Taken(hdd, bootRW)
       IN /\ hdd' = taken.hdd /\ bootRW' = taken.bootRW
          /\ Ends("menu", "none")
  /\ Stays /\ NotScanning /\ NoHandoff /\ art' = {}

\* SaveSettingsAtomic on the boot partition: written through the mount there is, or after
\* the takeover.
SaveSettings ==
  /\ task = "menu" /\ boot # NoPart
  /\ \E bad \in Failing({boot}, {RO, RW}) :
       LET direct == hdd.at[BootSlot] = boot /\ BootSlot \in hdd.rw
           taken == IF direct THEN Taken(hdd, bootRW) ELSE EnsureBootWritable(hdd, bootRW, bad)
       IN hdd' = taken.hdd /\ bootRW' = taken.bootRW
  /\ Ends("menu", "none")
  /\ Stays /\ NotScanning /\ NoHandoff /\ art' = {}

(* One file on a game partition: hide markers, Ember settings, the Ember   *)
(* scan, the write probe.                                                  *)

UseGamePartition ==
  /\ task = "menu"
  /\ \E p \in Played, mode \in BOOLEAN : \E bad \in Failing({p}, {mode}) :
       /\ hdd' = Release(GameMount(hdd, p, mode, bad), p)
       /\ Ends("menu", "none")
  /\ Stays /\ NotScanning /\ NoHandoff /\ art' = {} /\ UNCHANGED bootRW

(* A title is selected: its cover, its icon and its details on __common.   *)

\* UpdateSelection; "has" says which of the three files there are.
UpdateSelection ==
  /\ task = "menu"
  /\ \E has \in SUBSET {"cover", "icon", "text"}, details \in BOOLEAN,
        bad \in Failing({Common}, {RO}) :
       LET Find(h, f) == Resolve(h, Common, f \in has, NoSlot, ArtSlot, bad)
       IN \E g \in {Find(hdd, "cover")} : \E k \in {Find(g, "icon")} :
          /\ hdd' = IF details THEN Find(k, "text") ELSE k
          /\ art' = {FoundAt(g, Common, "cover" \in has), FoundAt(k, Common, "icon" \in has)}
                    \ {NoSlot}
          /\ Ends("menu", "picked")
  /\ Stays /\ NotScanning /\ NoHandoff /\ UNCHANGED bootRW

-----------------------------------------------------------------------------
(* The launch: the list looks for POPSTARTER, RunPOPStarterGame again, and *)
(* LaunchEngine hands over.                                                *)

IsThere(path, place, card) == path.on # NoPart \/ place = "beside" \/ card

LaunchFails(first, isHdd) ==
  hdd' = first.hdd /\ keepMask' = {} /\ Ends("menu", IF isHdd THEN "missing" ELSE "none")

\* The game or its drivers stop the launch before anything is unmounted.
LaunchCancelled(placed) ==
  hdd' = placed /\ keepMask' = {} /\ Ends("menu", "none")

\* POPSTARTER on the drive: the gate, a cold start, the loader's own mount.
LaunchCold(path, placed, bad) ==
  LET context == ContextOf(placed, path.slot)
      gated == Gate(placed, context, bad)
      open == GateOpen(gated, context, path.on) /\ Probe(gated, path.slot, path.on, TRUE)
      loaded == LoaderMount(ColdPrep(gated), context, bad)
  IN /\ path.on # NoPart
     /\ \/ ~open /\ hdd' = gated /\ keepMask' = {} /\ Ends("menu", "refused")
        \/ open /\ hdd' \in {gated, loaded} /\ keepMask' = {} /\ Ends("menu", "none")
        \/ /\ open /\ Probe(loaded, 0, path.on, TRUE)
           /\ hdd' = loaded /\ keepMask' = {0} /\ Ends("gone", "popstarter")

\* POPSTARTER elsewhere: the boot mount may stay.
LaunchWarm(path, place, card) ==
  /\ path.on = NoPart /\ IsThere(path, place, card)
  /\ hdd' = WarmPrep(path.hdd)
  /\ \/ keepMask' = {} /\ Ends("menu", "none")
     \/ keepMask' = KeptWarm /\ Ends("gone", "popstarter")

\* The list's own search (first) goes by the path of the list that was built last, the
\* launch's by the page the game is on; "found" is what the device of that path has, "card"
\* whether a memory card with POPSTARTER.ELF is in.
Launch ==
  /\ task = "menu"
  /\ \E isHdd, card \in BOOLEAN, found \in {"device", "beside"},
        bad \in Failing({Common, boot} \ {NoPart}, {RO}) :
       LET listed == IF isHdd /\ gamepath THEN "drive" ELSE found
           place == IF isHdd THEN "drive" ELSE found
       IN \E first \in {ResolveLaunch(hdd, listed, bad)} :
          \E path \in {ResolveLaunch(first.hdd, place, bad)} :
          \E placed \in {IF path.on = NoPart THEN path.hdd ELSE SourceContext(path.hdd, bad)} :
            IF ~IsThere(first, listed, card) THEN LaunchFails(first, isHdd)
            ELSE \/ LaunchCancelled(placed)
                 \/ LaunchCold(path, placed, bad)
                 \/ LaunchWarm(path, place, card)
  /\ Stays /\ NotScanning /\ art' = {} /\ UNCHANGED bootRW

\* EmberLaunch: the game's partition stays mounted for writing while Ember runs.
EmberLaunch ==
  /\ task = "menu"
  /\ \E p \in Ember : \E bad \in Failing({p}, {RW}) :
       LET g == GameMount(hdd, p, RW, bad)
       IN \/ hdd' = Release(g, p) /\ keepMask' = {} /\ Ends("menu", "none")
          \/ /\ GameMounted(g, p)
             /\ hdd' = g /\ keepMask' = {g.gameSlot} /\ Ends("gone", "ember")
  /\ Stays /\ NotScanning /\ art' = {} /\ UNCHANGED bootRW

\* ConfirmExit, BOOT.ELF, DKWDRV on a memory card.
ColdExternal ==
  /\ task = "menu"
  /\ hdd' = ColdPrep(hdd) /\ keepMask' = {}
  /\ \/ Ends("gone", "exit")
     \/ Ends("menu", "none")
  /\ Stays /\ NotScanning /\ art' = {} /\ UNCHANGED bootRW

Gone == task = "gone" /\ UNCHANGED vars

Next ==
  \/ Startup \/ Refresh \/ CheckPartition \/ CheckDone \/ BuildPartition \/ BuildFaults
  \/ OtherDevice \/ BuildDone \/ SaveSettings \/ UseGamePartition \/ UpdateSelection
  \/ Launch \/ EmberLaunch \/ ColdExternal \/ Gone

Spec == Init /\ [][Next]_vars

-----------------------------------------------------------------------------
(* Properties.                                                             *)

\* On a drive boot pfs1 holds the boot partition or nothing, whoever was given slots since:
\* "NEVER USE IT FOR ANYTHING ELSE" (boot.lua).
BootSlotIsBoots == boot # NoPart => hdd.at[BootSlot] \in {boot, NoPart}

\* What Lua has on record for a slot is what is mounted there, or nothing is: a path built from
\* the record never reads another partition's file. The loader's pfs0 is the exception.
RecordNeverLies ==
  \A s \in Slots \ {0} : hdd.slots[s] # NoPart => hdd.at[s] \in {hdd.slots[s], NoPart}

\* No game partition stays mounted once the handler that wanted it is over, however it ended:
\* a left mount would make the next one of that partition, or of that slot, fail.
GameMountsReleased == task # "gone" => \A s \in Slots : hdd.at[s] \notin Played

\* The takeover flag is believed without another mount: it is on only while a live pfs1 is
\* writable.
BootRWIsTrue == bootRW /\ hdd.at[BootSlot] # NoPart => BootSlot \in hdd.rw

\* What the next program finds mounted is what it was promised: nothing after an exit, pfs0 and
\* the boot partition at most for POPSTARTER, the game's partition, writable, for Ember.
HandoffMounts ==
  task = "gone" =>
    /\ outcome = "exit" => \A s \in Slots : hdd.at[s] = NoPart
    /\ outcome = "popstarter" => \A s \in Slots : hdd.at[s] # NoPart => s \in keepMask
    /\ outcome = "ember" =>
         \E s \in keepMask : keepMask = {s} /\ hdd.at[s] \in Ember /\ s \in hdd.rw
=============================================================================
