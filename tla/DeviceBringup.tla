---------------------------- MODULE DeviceBringup ----------------------------
(***************************************************************************)
(* The storage drivers POPSLoader starts on the IOP: at boot (main.cpp),   *)
(* on first use from the menu (luasystem.cpp) and for the APA partitions   *)
(* (luaHDD.cpp), each kept to one start by a latch on the EE; and the      *)
(* bounded sweep of the exFAT page, which takes the latch of ata_bd back   *)
(* when it finds no drive (system.lua).                                    *)
(*                                                                         *)
(* A driver's start fails, stays, or leaves: it returns 1 and is unloaded, *)
(* which LoadIrxCheckedBuffer takes for a success.  A drive may still be   *)
(* coming up when its driver starts; and a second ata_bd resets the bus    *)
(* and takes the interrupts over before it finds that it has to leave.     *)
(***************************************************************************)
EXTENDS Naturals, Sequences

CONSTANTS
  MaxPasses,   \* bound: passes of the sweep, 10 in the code
  MaxFails,    \* bound: module loads that fail in one session
  MaxErrors    \* bound: errors that end the script

ASSUME BringupAssumption == MaxPasses \in Nat \ {0} /\ MaxFails \in Nat /\ MaxErrors \in Nat

(* What an Ensure function loads, in order; a latched module is passed over. *)
UsbChain  == <<"bdm", "bdmfs", "usbmass">>
Mx4Chain  == UsbChain \o <<"mx4sio">>
AtaChain  == <<"dev9", "bdm", "bdmfs", "ata">>
HddChain  == AtaChain \o <<"ps2hdd", "ps2fs">>
MmceChain == <<"mmceman">>
UsbStart  == <<"usbd", "dev9">> \o UsbChain
BootChain == <<"iomanX", "fileXio", "mmceman">> \o UsbStart
Chains == {UsbChain, Mx4Chain, AtaChain, HddChain, MmceChain, BootChain}
Drivers == UNION {{c[i] : i \in 1 .. Len(c)} : c \in Chains}

VARIABLES
  copies,      \* how many instances of each driver run on the IOP: 0, 1 or 2
  latched,     \* the drivers whose latch on the EE is set
  taken,       \* a second ata_bd has started beside the first, and left
  disk,        \* the internal drive
  unit,        \* the drive as BDM has it: a block device, a mass unit
  hdd,         \* HDDLOADSTATE
  exec,        \* HDD_EXEC_INIT_DONE
  loadstate,   \* PLDR.HDD.LOADSTATE
  step,
  todo,        \* the modules the current operation still has to load
  for,         \* the operation
  passes,
  page,        \* what the last sweep of the exFAT page found
  fails,
  errors

lua == <<exec, loadstate, page>>
iop == <<copies, taken, disk, unit>>
bringupVars == <<iop, latched, hdd, lua, step, todo, for, passes, fails, errors>>

Drives == {"absent", "cold", "spinning", "exfat", "apa"}
Ops == {"boot", "mmce", "usb", "mx4sio", "page", "atainit", "apa", "exec"}

BringupTypeOK ==
  /\ copies \in [Drivers -> 0 .. 2] /\ taken \in BOOLEAN /\ latched \in SUBSET Drivers
  /\ disk \in Drives /\ unit \in {"none", "device", "mass"}
  /\ hdd \in {"not_loaded", "loaded", "failed"}
  /\ exec \in BOOLEAN /\ loadstate \in {"new", "ready", "bad"} /\ page \in {"unknown", "found", "nothing"}
  /\ step \in {"load", "menu", "sweep", "status"}
  /\ for \in Ops /\ todo \in Seq(Drivers) /\ Len(todo) <= Len(BootChain)
  /\ passes \in 0 .. MaxPasses /\ fails \in 0 .. MaxFails /\ errors \in 0 .. MaxErrors

(* _ps2sdk_memory_init: whatever program ran before, the IOP it left is      *)
(* reset until it comes up with none of the drivers.                         *)
FreshIop == copies = [m \in Drivers |-> 0] /\ taken = FALSE /\ unit = "none"

(* runScript: every run of boot.lua has a Lua state of its own; what it knew *)
(* of the drivers is gone, what the C side latched is not.                   *)
FreshLua(e, l, p) == e = FALSE /\ l = "new" /\ p = "unknown"

BringupInit ==
  /\ FreshIop /\ FreshLua(exec, loadstate, page)
  /\ latched = {} /\ hdd = "not_loaded"
  /\ disk \in Drives
  /\ step = "load" /\ for = "boot"
  /\ todo \in {BootChain, <<"iomanX", "fileXio">> \o UsbStart}   \* boot_device_hint
  /\ passes = 0 /\ fails = 0 /\ errors = 0

-----------------------------------------------------------------------------
(* How a driver's start ends, given what is there.                          *)

Ready == disk \in {"exfat", "apa"}

StaysLoaded(m) ==
  CASE m = "ata" -> copies["dev9"] > 0 /\ disk \notin {"absent", "cold"} /\ copies["ata"] = 0
    [] m \in {"ps2hdd", "ps2fs"} -> copies["ata"] > 0
    [] m = "dev9" -> copies[m] = 0
    [] OTHER -> TRUE      \* a second copy may stay beside the first

Leaves(m) ==
  CASE m = "ata" -> copies["dev9"] > 0 /\ (disk \in {"absent", "cold"} \/ copies["ata"] > 0)
    [] m = "dev9" -> disk = "absent" \/ copies["dev9"] > 0
    [] m \in {"ps2hdd", "ps2fs"} -> copies["ata"] > 0
    [] OTHER -> copies[m] > 0

(* An import that nothing provides fails the load at any time.               *)
MustFail(m) == ~StaysLoaded(m) /\ ~Leaves(m)

(* ata_init_devices hands over the drive that is ready, of a copy that will  *)
(* not stay too (ps2atad.c:374).                                            *)
HandsOver == unit' = IF Ready /\ unit = "none" THEN "device" ELSE unit

Start(m) ==
  /\ copies' = [copies EXCEPT ![m] = IF @ < 2 THEN @ + 1 ELSE @]
  /\ IF m = "ata" THEN HandsOver ELSE UNCHANGED unit
  /\ UNCHANGED <<taken, disk>>

(* A second ata_bd finds out last of all that the library is registered: the *)
(* interrupts, and what BDM was given, are from now on those of freed memory. *)
Leave(m) ==
  /\ IF m = "ata" /\ disk \notin {"absent", "cold"}
     THEN taken' = TRUE /\ HandsOver
     ELSE UNCHANGED <<taken, unit>>
  /\ UNCHANGED <<copies, disk>>

-----------------------------------------------------------------------------
(* One module of the chain.                                                *)

(* Boot goes on with the next family of modules, the others give up.        *)
Rest(m) ==
  IF for # "boot" THEN <<>>
  ELSE IF m \in {"iomanX", "fileXio"} THEN UsbStart
  ELSE IF m \in {"bdm", "bdmfs"} THEN <<>>
  ELSE Tail(todo)

Skip ==
  /\ step = "load" /\ todo # <<>> /\ Head(todo) \in latched
  /\ todo' = Tail(todo)
  /\ UNCHANGED <<iop, latched, hdd, lua, step, for, passes, fails>>

(* PS2HDD and PS2FS have no latch, and a 1 they return is an error.          *)
Checked(m) == m \in {"ps2hdd", "ps2fs"}

Latch_EagerForgotten(m) ==
  latched \union (IF m \in {"ps2hdd", "ps2fs"} \/ (m = "mmceman" /\ for = "boot") THEN {} ELSE {m})

(* MarkMmcemanLoaded is what tells the lazy path about the boot's load.      *)
Latch(m) == latched \union (IF m \in {"ps2hdd", "ps2fs"} THEN {} ELSE {m})

LoadFails(m) ==
  /\ todo' = Rest(m)
  /\ hdd' = IF for \in {"apa", "exec"} THEN "failed" ELSE hdd
  /\ IF for = "apa" THEN loadstate' = "bad" ELSE UNCHANGED loadstate
  /\ IF todo' = <<>> THEN step' = "menu" ELSE UNCHANGED step
  /\ UNCHANGED <<iop, latched, exec, page, for, passes>>

Load ==
  /\ step = "load" /\ todo # <<>> /\ Head(todo) \notin latched
  /\ \E m \in {Head(todo)} :
       \/ /\ fails < MaxFails \/ MustFail(m)
          /\ fails' = IF fails < MaxFails THEN fails + 1 ELSE fails
          /\ LoadFails(m)
       \/ /\ StaysLoaded(m)
          /\ Start(m)
          /\ latched' = Latch(m)
          /\ todo' = Tail(todo)
          /\ UNCHANGED <<hdd, lua, step, for, passes, fails>>
       \/ /\ Leaves(m)
          /\ IF Checked(m) THEN LoadFails(m)
             ELSE /\ Leave(m)
                  /\ latched' = Latch(m)
                  /\ todo' = Tail(todo)
                  /\ UNCHANGED <<hdd, lua, step, for, passes>>
          /\ UNCHANGED fails

(* The chain is through: what the operation that asked for it does next.    *)
Loaded ==
  /\ step = "load" /\ todo = <<>>
  /\ step' = CASE for = "page" -> "sweep" [] for = "apa" -> "status" [] OTHER -> "menu"
  /\ hdd' = IF for \in {"apa", "exec"} THEN "loaded" ELSE hdd
  /\ exec' = IF for \in {"apa", "exec"} THEN TRUE ELSE exec
  /\ passes' = 0
  /\ UNCHANGED <<iop, latched, loadstate, page, todo, for, fails>>

-----------------------------------------------------------------------------
(* What the menu asks for.                                                 *)

BeginLoad(o, chain) ==
  /\ step = "menu"
  /\ for' = o /\ todo' = chain /\ step' = "load"
  /\ UNCHANGED <<iop, latched, hdd, lua, passes, fails>>

EnsureMmceman == BeginLoad("mmce", MmceChain)
EnsureUsbMass == "usbmass" \notin latched /\ BeginLoad("usb", UsbChain)
InitMX4SIO    == BeginLoad("mx4sio", IF "usbmass" \in latched THEN <<"mx4sio">> ELSE Mx4Chain)
InitATA       == BeginLoad("atainit", AtaChain)
EnterExfat    == BeginLoad("page", AtaChain)

(* HDD.Initialize: a stack that failed once is not loaded again, and its     *)
(* failure is what every later call is told.                                 *)
InitializeHdd(o) ==
  /\ step = "menu"
  /\ CASE hdd = "not_loaded" ->
            for' = o /\ todo' = HddChain /\ step' = "load" /\ UNCHANGED <<exec, loadstate>>
       [] hdd = "loaded" ->
            /\ exec' = TRUE /\ for' = o
            /\ step' = IF o = "apa" THEN "status" ELSE "menu"
            /\ UNCHANGED <<todo, loadstate>>
       [] hdd = "failed" ->
            /\ IF o = "apa" THEN loadstate' = "bad" ELSE UNCHANGED loadstate
            /\ UNCHANGED <<exec, for, todo, step>>
  /\ UNCHANGED <<iop, latched, hdd, page, passes, fails>>

EnterApa   == loadstate = "new" /\ InitializeHdd("apa")
EnsureExec == ~exec /\ InitializeHdd("exec")

(* What the drive is said to be; a driver whose interrupts were taken may    *)
(* answer yet or not.                                                       *)
DriveStatus == IF disk # "apa" THEN {"bad"} ELSE IF taken THEN {"ready", "bad"} ELSE {"ready"}

(* A page that was not ready once only asks for the status again.            *)
ReprobeApa ==
  /\ step = "menu" /\ loadstate = "bad" /\ exec
  /\ loadstate' \in DriveStatus
  /\ UNCHANGED <<iop, latched, hdd, exec, page, step, todo, for, passes, fails>>

GetHDDStatus ==
  /\ step = "status"
  /\ loadstate' \in DriveStatus
  /\ step' = "menu"
  /\ UNCHANGED <<iop, latched, hdd, exec, page, todo, for, passes, fails>>

-----------------------------------------------------------------------------
(* BuildBoundedIdentityDeferred("ata").                                     *)

(* lua_get_mass_mount_driver: a unit counts once its file system is mounted  *)
(* and names the driver that serves it.                                      *)
UnitIsAta == unit = "mass"

Pass_KeepsLatch ==
  /\ step = "sweep"
  /\ \/ UnitIsAta /\ page' = "found" /\ step' = "menu" /\ UNCHANGED <<passes, latched>>
     \/ /\ ~UnitIsAta /\ passes + 1 < MaxPasses
        /\ passes' = passes + 1
        /\ UNCHANGED <<page, step, latched>>
     \/ /\ ~UnitIsAta /\ passes + 1 = MaxPasses
        /\ page' = "nothing" /\ step' = "menu"
        /\ UNCHANGED <<passes, latched>>
  /\ UNCHANGED <<iop, hdd, exec, loadstate, todo, for, fails>>

Pass ==
  /\ step = "sweep"
  /\ \/ UnitIsAta /\ page' = "found" /\ step' = "menu" /\ UNCHANGED <<passes, latched>>
     \/ /\ ~UnitIsAta /\ passes + 1 < MaxPasses
        /\ passes' = passes + 1
        /\ UNCHANGED <<page, step, latched>>
     \/ /\ ~UnitIsAta /\ passes + 1 = MaxPasses
        /\ page' = "nothing" /\ step' = "menu"
        /\ latched' = latched \ {"ata"}         \* System.clearATA
        /\ UNCHANGED passes
  /\ UNCHANGED <<iop, hdd, exec, loadstate, todo, for, fails>>

-----------------------------------------------------------------------------
(* Around the program.                                                      *)

(* The drive comes up, and BDM mounts what it can read.                      *)
ComesUp ==
  /\ \/ disk = "cold" /\ disk' = "spinning"
     \/ disk = "spinning" /\ disk' \in {"exfat", "apa"}
  /\ UNCHANGED <<copies, taken, unit, latched, hdd, lua, step, todo, for, passes, fails>>

Mounts ==
  /\ unit = "device" /\ disk = "exfat"
  /\ unit' = "mass"
  /\ UNCHANGED <<copies, taken, disk, latched, hdd, lua, step, todo, for, passes, fails>>

(* A Lua error: main() runs boot.lua again on the IOP as it is.              *)
ScriptRestarts ==
  /\ step # "load" /\ errors < MaxErrors
  /\ errors' = errors + 1
  /\ FreshLua(exec', loadstate', page')
  /\ step' = "menu"
  /\ UNCHANGED <<iop, latched, hdd, todo, for, passes, fails>>

Loading == (Skip \/ Load \/ Loaded \/ GetHDDStatus \/ Pass) /\ UNCHANGED errors
Asked   == (EnsureMmceman \/ EnsureUsbMass \/ InitMX4SIO \/ InitATA \/ EnterExfat
              \/ EnterApa \/ EnsureExec \/ ReprobeApa) /\ UNCHANGED errors
Drive   == (ComesUp \/ Mounts) /\ UNCHANGED errors
BringupNext == Loading \/ Asked \/ Drive \/ ScriptRestarts

(* The one EE thread runs on, the drive comes up, BDM mounts it (by chance,  *)
(* once the interrupts are taken); and the user keeps opening the exFAT page,*)
(* which SlowDriveIsFound is about.                                         *)
BringupFairness ==
  /\ WF_bringupVars(Loading) /\ WF_bringupVars(~taken /\ Drive)
  /\ SF_bringupVars(EnterExfat /\ UNCHANGED errors)

BringupSpec == BringupInit /\ [][BringupNext]_bringupVars /\ BringupFairness

-----------------------------------------------------------------------------
(* However the paths to a driver cross, the boot's, the menu's, a retry      *)
(* after a failure and a restarted script's, one copy of it stays, and no    *)
(* runtime is reported up half loaded: to a launch or to the page, which has *)
(* a formatted drive besides (Load_HDD_IRX), not by a later call either.     *)
StackIsSound ==
  /\ \A m \in Drivers : copies[m] <= 1
  /\ exec \/ loadstate = "ready" => \A m \in {"ata", "ps2hdd", "ps2fs"} : copies[m] > 0
  /\ loadstate = "ready" => disk = "apa"

(* An exFAT drive is found in the end by a user who keeps opening the page,  *)
(* however late it came up, and although its driver left when it started too *)
(* early (luasystem.cpp:2458).  Not so where the driver stayed: a sweep that  *)
(* ran out forgets that copy too, and the next one takes its interrupts.     *)
SlowDriveIsFound == []<>(disk = "exfat") => <>(page = "found") \/ <>taken
=============================================================================
