---------------------------- MODULE DriverProofs ----------------------------
(***************************************************************************)
(* Proofs about the drivers on the IOP.                                    *)
(***************************************************************************)
EXTENDS DeviceBringup, AtaDriver, Ds34Bt, Controllers, SequenceTheorems, FiniteSetTheorems, TLAPS

-----------------------------------------------------------------------------
(* DeviceBringup                                                           *)

Runtime == {"ata", "ps2hdd", "ps2fs"}

(* A driver that runs has its latch, so that nobody starts it again; ata_bd *)
(* may lose its latch and ps2hdd and ps2fs never had one.                   *)
Once ==
  /\ copies \in [Drivers -> 0 .. 2]
  /\ \A m \in Drivers \ Runtime : copies[m] = 0 \/ (copies[m] = 1 /\ m \in latched)
  /\ "ps2hdd" \notin latched /\ "ps2fs" \notin latched

Whole == \A m \in Runtime : copies[m] > 0

(* How far the chain of the APA runtime is: what it has passed over runs,   *)
(* since ps2hdd would not have started without ata_bd.                      *)
Names == {"dev9", "bdm", "bdmfs", "ata", "ps2hdd", "ps2fs"}
Climbing ==
  /\ todo \in Seq(Names) /\ Len(todo) <= 6
  /\ \A i \in 1 .. Len(todo) : todo[i] = HddChain[6 - Len(todo) + i]
  /\ Len(todo) <= 1 => copies["ata"] > 0 /\ copies["ps2hdd"] > 0
  /\ todo = <<>> => Whole

Ladder ==
  /\ hdd \in {"not_loaded", "loaded", "failed"}
  /\ hdd = "loaded" => Whole
  /\ exec => hdd = "loaded"
  /\ step = "status" => hdd = "loaded"
  /\ loadstate = "ready" => hdd = "loaded" /\ disk = "apa"
  /\ step = "load" /\ for \in {"apa", "exec"} => hdd = "not_loaded" /\ Climbing

BringupInv == Once /\ Ladder

LEMMA HddChainIs ==
  /\ HddChain \in Seq(Names) /\ Len(HddChain) = 6
  /\ HddChain[5] = "ps2hdd" /\ HddChain[6] = "ps2fs"
  /\ \A i \in 1 .. 4 : HddChain[i] \notin {"ps2hdd", "ps2fs"}
  /\ Runtime \subseteq Drivers
<1> DEFINE a == <<"dev9", "bdm", "bdmfs", "ata">>
           b == <<"ps2hdd", "ps2fs">>
<1>1. a \in Seq(Names) /\ b \in Seq(Names)
  <2>1. a \in Seq(Names) BY DEF Names
  <2>2. b \in Seq(Names) BY DEF Names
  <2> QED BY <2>1, <2>2
<1>2. Len(a) = 4 /\ a[4] = "ata" /\ Len(b) = 2 /\ b[1] = "ps2hdd" /\ b[2] = "ps2fs"
      /\ \A i \in 1 .. 4 : a[i] \notin {"ps2hdd", "ps2fs"}
  OBVIOUS
<1>3. HddChain = a \o b BY DEF HddChain, AtaChain
<1> HIDE DEF a, b
<1>4. /\ HddChain \in Seq(Names) /\ Len(HddChain) = 6
      /\ HddChain[4] = "ata" /\ HddChain[5] = "ps2hdd" /\ HddChain[6] = "ps2fs"
  <2>1. /\ a \o b \in Seq(Names) /\ Len(a \o b) = Len(a) + Len(b)
        /\ \A i \in 1 .. Len(a) + Len(b) : (a \o b)[i] = IF i <= Len(a) THEN a[i] ELSE b[i - Len(a)]
    BY <1>1, ConcatProperties
  <2>2. (a \o b)[4] = a[4] BY <1>2, <2>1
  <2>3. (a \o b)[5] = b[1] BY <1>2, <2>1
  <2>4. (a \o b)[6] = b[2] BY <1>2, <2>1
  <2> QED BY <1>2, <1>3, <2>1, <2>2, <2>3, <2>4
<1>6. \A i \in 1 .. 4 : HddChain[i] \notin {"ps2hdd", "ps2fs"}
  <2>1. ASSUME NEW i \in 1 .. 4 PROVE (a \o b)[i] = a[i]
    <3>1. i \in 1 .. Len(a) + Len(b) /\ i <= Len(a) BY <1>2
    <3> QED BY <1>1, <3>1, ConcatProperties
  <2> QED BY <1>2, <1>3, <2>1
<1>5. \A i \in 1 .. 6 : HddChain[i] \in Drivers
  <2>1. HddChain \in Chains BY DEF Chains
  <2>2. {HddChain[i] : i \in 1 .. Len(HddChain)} \subseteq Drivers BY <2>1 DEF Drivers
  <2> QED BY <2>2, <1>4
<1> QED BY <1>4, <1>5, <1>6 DEF Runtime

LEMMA BringupStarts == BringupInit => BringupInv
BY HddChainIs DEF BringupInit, BringupInv, FreshIop, FreshLua, Once, Ladder

(* A module that loads was not running, unless it is one that may start over *)
(* itself; nothing that runs goes away.                                     *)
LEMMA StartKeeps ==
  ASSUME Once, NEW m, m \notin latched, Start(m), latched' = Latch(m)
  PROVE  /\ Once'
         /\ \A x \in Runtime : copies[x] > 0 => copies'[x] > 0
         /\ m \in Runtime => copies'[m] > 0
<1>1. copies' \in [Drivers -> 0 .. 2]
  <2>1. copies[m] \in 0 .. 2 => (IF copies[m] < 2 THEN copies[m] + 1 ELSE copies[m]) \in 0 .. 2
    OBVIOUS
  <2> QED BY <2>1 DEF Once, Start
<1>2. ASSUME NEW x \in Drivers \ Runtime
      PROVE  copies'[x] = 0 \/ (copies'[x] = 1 /\ x \in latched')
  BY <1>2 DEF Once, Start, Latch, Runtime
<1>3. "ps2hdd" \notin latched' /\ "ps2fs" \notin latched' BY DEF Once, Latch
<1>4. ASSUME NEW x \in Runtime
      PROVE  (copies[x] > 0 => copies'[x] > 0) /\ (x = m => copies'[x] > 0)
  <2>1. x \in Drivers /\ copies[x] \in 0 .. 2 BY HddChainIs DEF Once
  <2> QED BY <2>1 DEF Start, Once
<1> QED BY <1>1, <1>2, <1>3, <1>4 DEF Once

LEMMA FailKeeps ==
  ASSUME BringupInv, NEW m, step = "load", LoadFails(m)
  PROVE  BringupInv'
<1>1. Once' BY DEF BringupInv, Once, LoadFails, iop
<1>2. CASE for \in {"apa", "exec"}
  <2>1. todo' = <<>> /\ step' = "menu" /\ hdd' = "failed" /\ hdd = "not_loaded" BY <1>2 DEF LoadFails, Rest, BringupInv, Ladder
  <2> QED BY <1>1, <1>2, <2>1 DEF LoadFails, BringupInv, Ladder
<1>3. CASE for \notin {"apa", "exec"}
  <2>1. step' # "status" BY DEF LoadFails
  <2> QED BY <1>1, <1>3, <2>1 DEF LoadFails, BringupInv, Ladder, Whole, iop
<1> QED BY <1>2, <1>3

LEMMA TailKeeps ==
  ASSUME Climbing, todo # <<>>, todo' = Tail(todo),
         \A x \in Runtime : copies[x] > 0 => copies'[x] > 0,
         Head(todo) \in {"ps2hdd", "ps2fs"} => copies'[Head(todo)] > 0 /\ copies["ata"] > 0
  PROVE  Climbing'
<1>1. todo' \in Seq(Names) /\ Len(todo') = Len(todo) - 1 /\ Len(todo) > 0
  BY DEF Climbing
<1>2. \A i \in 1 .. Len(todo') : todo'[i] = todo[i + 1] BY <1>1 DEF Climbing
<1>3. \A i \in 1 .. Len(todo') : todo'[i] = HddChain[6 - Len(todo') + i]
  BY <1>1, <1>2 DEF Climbing
<1>4. Head(todo) = HddChain[7 - Len(todo)] BY <1>1 DEF Climbing
<1>5. Len(todo') <= 1 => copies'["ata"] > 0 /\ copies'["ps2hdd"] > 0
  <2>1. CASE Len(todo) = 2 BY <1>4, <2>1, HddChainIs DEF Runtime
  <2>2. CASE Len(todo) <= 1 BY <2>2 DEF Climbing, Runtime
  <2> QED BY <1>1, <2>1, <2>2 DEF Climbing
<1>6. todo' = <<>> => Whole'
  <2>1. CASE Len(todo) = 1
    <3>1. Head(todo) = "ps2fs" BY <1>4, <2>1, HddChainIs
    <3>2. copies'["ps2fs"] > 0 BY <3>1
    <3>3. copies'["ata"] > 0 /\ copies'["ps2hdd"] > 0 BY <1>1, <1>5, <2>1
    <3> QED BY <3>2, <3>3 DEF Runtime, Whole
  <2>2. todo' = <<>> => Len(todo') = 0 OBVIOUS
  <2> QED BY <1>1, <2>1, <2>2
<1> QED BY <1>1, <1>3, <1>5, <1>6 DEF Climbing

LEMMA SkipKeeps == BringupInv /\ Skip => BringupInv'
<1> SUFFICES ASSUME BringupInv, Skip PROVE BringupInv' OBVIOUS
<1>1. Once' BY DEF BringupInv, Once, Skip, iop
<1>2. for \in {"apa", "exec"} => Climbing'
  <2>1. Head(todo) \notin {"ps2hdd", "ps2fs"} BY DEF Skip, BringupInv, Once
  <2> QED BY <2>1, TailKeeps DEF Skip, BringupInv, Ladder, iop
<1> QED BY <1>1, <1>2 DEF Skip, BringupInv, Ladder, Whole, iop, lua

LEMMA LoadKeeps == BringupInv /\ Load => BringupInv'
<1> SUFFICES ASSUME BringupInv, Load PROVE BringupInv' OBVIOUS
<1> DEFINE m == Head(todo)
<1>0. step = "load" /\ todo # <<>> /\ m \notin latched BY DEF Load
<1>1. CASE LoadFails(m) BY <1>0, <1>1, FailKeeps
<1>2. CASE StaysLoaded(m) /\ Start(m) /\ latched' = Latch(m) /\ todo' = Tail(todo)
            /\ UNCHANGED <<hdd, lua, step, for, passes, fails>>
  <2>1. Once' /\ (\A x \in Runtime : copies[x] > 0 => copies'[x] > 0) /\ (m \in Runtime => copies'[m] > 0)
    BY <1>0, <1>2, StartKeeps DEF BringupInv
  <2>2. m \in {"ps2hdd", "ps2fs"} => copies["ata"] > 0 BY <1>2 DEF StaysLoaded
  <2>3. for \in {"apa", "exec"} => Climbing'
    BY <1>0, <1>2, <2>1, <2>2, TailKeeps DEF BringupInv, Ladder, Runtime
  <2>4. Whole => Whole' BY <2>1 DEF Whole
  <2> QED BY <1>0, <1>2, <2>1, <2>3, <2>4 DEF BringupInv, Ladder, Start, lua
<1>3. CASE ~Checked(m) /\ latched' = Latch(m) /\ todo' = Tail(todo)
            /\ Leave(m) /\ UNCHANGED <<hdd, lua, step, for, passes>>
  <2>0. copies' = copies /\ disk' = disk BY <1>3 DEF Leave
  <2>1. Once' BY <1>3, <2>0 DEF BringupInv, Once, Latch
  <2>2. for \in {"apa", "exec"} => Climbing'
    BY <1>0, <1>3, <2>0, TailKeeps DEF BringupInv, Ladder, Checked
  <2> QED BY <1>0, <1>3, <2>0, <2>1, <2>2 DEF BringupInv, Ladder, Whole, lua
<1> QED BY <1>1, <1>2, <1>3 DEF Load

LEMMA LoadedKeeps == BringupInv /\ Loaded => BringupInv'
BY DEF BringupInv, Loaded, Once, Ladder, Climbing, Whole, iop

LEMMA BeginLoadKeeps ==
  ASSUME BringupInv, NEW o, NEW c, o \notin {"apa", "exec"}, BeginLoad(o, c)
  PROVE  BringupInv'
BY DEF BringupInv, BeginLoad, Once, Ladder, Whole, iop, lua

LEMMA InitializeHddKeeps ==
  ASSUME BringupInv, NEW o, InitializeHdd(o)
  PROVE  BringupInv'
<1>1. Once' BY DEF BringupInv, Once, InitializeHdd, iop
<1>2. CASE hdd = "not_loaded"
  <2>1. todo' = HddChain BY <1>2 DEF InitializeHdd
  <2>2. HddChain # <<>> /\ ~ (Len(HddChain) <= 1)
    <3>1. Len(HddChain) = 6 BY HddChainIs
    <3>2. Len(<<>>) = 0 OBVIOUS
    <3>3. HddChain # <<>> BY <3>1, <3>2
    <3> QED BY <3>1, <3>3
  <2>3. Climbing' BY <2>1, <2>2, HddChainIs DEF Climbing
  <2> QED BY <1>1, <1>2, <2>3 DEF InitializeHdd, BringupInv, Ladder, iop
<1>3. CASE hdd # "not_loaded"
  BY <1>1, <1>3 DEF InitializeHdd, BringupInv, Ladder, Whole, iop
<1> QED BY <1>2, <1>3

LEMMA StatusIs == DriveStatus \subseteq {"ready", "bad"} /\ ("ready" \in DriveStatus => disk = "apa")
BY DEF DriveStatus

LEMMA AskedKeeps == BringupInv /\ Asked => BringupInv'
<1> SUFFICES ASSUME BringupInv, Asked PROVE BringupInv' OBVIOUS
<1>1. CASE EnsureMmceman BY <1>1, BeginLoadKeeps DEF EnsureMmceman
<1>2. CASE EnsureUsbMass BY <1>2, BeginLoadKeeps DEF EnsureUsbMass
<1>3. CASE InitMX4SIO BY <1>3, BeginLoadKeeps DEF InitMX4SIO
<1>4. CASE InitATA BY <1>4, BeginLoadKeeps DEF InitATA
<1>5. CASE EnterExfat BY <1>5, BeginLoadKeeps DEF EnterExfat
<1>6. CASE EnterApa BY <1>6, InitializeHddKeeps DEF EnterApa
<1>7. CASE EnsureExec BY <1>7, InitializeHddKeeps DEF EnsureExec
<1>8. CASE ReprobeApa BY <1>8, StatusIs DEF ReprobeApa, BringupInv, Once, Ladder, Whole, iop
<1> QED BY <1>1, <1>2, <1>3, <1>4, <1>5, <1>6, <1>7, <1>8 DEF Asked

LEMMA StatusKeeps == BringupInv /\ GetHDDStatus => BringupInv'
BY StatusIs DEF GetHDDStatus, BringupInv, Once, Ladder, Whole, iop

LEMMA PassKeeps == BringupInv /\ Pass => BringupInv'
<1> SUFFICES ASSUME BringupInv, Pass PROVE BringupInv' OBVIOUS
<1>1. Once' BY DEF BringupInv, Once, Pass, iop, Runtime
<1> QED BY <1>1 DEF Pass, BringupInv, Ladder, Whole, iop

(* What the page has reported, a drive with partitions, stays one.          *)
LEMMA DriveKeeps == BringupInv /\ Drive => BringupInv'
BY DEF Drive, ComesUp, Mounts, BringupInv, Once, Ladder, Climbing, Whole, lua

LEMMA RestartKeeps == BringupInv /\ ScriptRestarts => BringupInv'
BY DEF ScriptRestarts, FreshLua, BringupInv, Once, Ladder, Whole, iop

LEMMA BringupSame == BringupInv /\ UNCHANGED bringupVars => BringupInv'
BY DEF bringupVars, iop, lua, BringupInv, Once, Ladder, Climbing, Whole

LEMMA BringupKept == BringupSpec => []BringupInv
<1>1. BringupInv /\ [BringupNext]_bringupVars => BringupInv'
  BY SkipKeeps, LoadKeeps, LoadedKeeps, StatusKeeps, PassKeeps, AskedKeeps, DriveKeeps, RestartKeeps,
     BringupSame DEF BringupNext, Loading
<1> QED BY <1>1, BringupStarts, PTL DEF BringupSpec

(* The runtime of the APA page is started once too: ata_bd does not stay a  *)
(* second time, and only the one climb that hdd allows reaches the others.  *)
Plain == {"iomanX", "fileXio", "mmceman", "usbd", "dev9", "bdm", "bdmfs", "usbmass", "mx4sio", "ata"}

Near(n) == step = "load" /\ for \in {"apa", "exec"} /\ Len(todo) <= n

Single ==
  /\ \A m \in Runtime : copies[m] <= 1
  /\ step = "load" /\ for \notin {"apa", "exec"} => todo \in Seq(Plain)
  /\ hdd = "not_loaded" => /\ copies["ps2hdd"] = 0 \/ Near(1)
                           /\ copies["ps2fs"] = 0 \/ Near(0)

LEMMA PlainChains ==
  /\ UsbChain \in Seq(Plain) /\ Mx4Chain \in Seq(Plain) /\ <<"mx4sio">> \in Seq(Plain)
  /\ AtaChain \in Seq(Plain) /\ MmceChain \in Seq(Plain) /\ UsbStart \in Seq(Plain)
  /\ BootChain \in Seq(Plain) /\ <<"iomanX", "fileXio">> \o UsbStart \in Seq(Plain)
<1>1. UsbChain \in Seq(Plain) BY DEF UsbChain, Plain
<1>2. AtaChain \in Seq(Plain) BY DEF AtaChain, Plain
<1>3. MmceChain \in Seq(Plain) BY DEF MmceChain, Plain
<1>4. <<"mx4sio">> \in Seq(Plain) BY DEF Plain
<1>5. <<"usbd", "dev9">> \in Seq(Plain) BY DEF Plain
<1>6. <<"iomanX", "fileXio", "mmceman">> \in Seq(Plain) BY DEF Plain
<1>7. <<"iomanX", "fileXio">> \in Seq(Plain) BY DEF Plain
<1>8. UsbStart \in Seq(Plain) BY <1>1, <1>5, ConcatProperties DEF UsbStart
<1>9. Mx4Chain \in Seq(Plain) BY <1>1, <1>4, ConcatProperties DEF Mx4Chain
<1>10. BootChain \in Seq(Plain) BY <1>6, <1>8, ConcatProperties DEF BootChain
<1>11. <<"iomanX", "fileXio">> \o UsbStart \in Seq(Plain) BY <1>7, <1>8, ConcatProperties
<1> QED BY <1>1, <1>2, <1>3, <1>4, <1>8, <1>9, <1>10, <1>11

LEMMA SingleStart == BringupInit => Single
<1> SUFFICES ASSUME BringupInit PROVE Single OBVIOUS
<1>1. todo \in Seq(Plain) BY PlainChains DEF BringupInit
<1>2. \A m \in Runtime : copies[m] = 0 BY HddChainIs DEF BringupInit, FreshIop
<1> QED BY <1>1, <1>2 DEF Single, Runtime

(* Where the climb is when one of the last two is next.                     *)
LEMMA NextOfClimb ==
  ASSUME Climbing, todo # <<>>
  PROVE  /\ Len(todo) \in 1 .. 6 /\ Len(Tail(todo)) = Len(todo) - 1
         /\ Head(todo) = "ps2hdd" <=> Len(todo) = 2
         /\ Head(todo) = "ps2fs" <=> Len(todo) = 1
<1>0. todo \in Seq(Names) /\ Len(todo) <= 6 BY DEF Climbing
<1>1. Len(todo) \in 1 .. 6 /\ Len(Tail(todo)) = Len(todo) - 1
  <2>1. Len(todo) \in Nat /\ Len(todo) # 0 BY <1>0
  <2>2. Len(Tail(todo)) = Len(todo) - 1 BY <1>0
  <2>3. Len(todo) <= 6 BY <1>0
  <2>4. \A n \in Nat \ {0} : n <= 6 => n \in 1 .. 6 OBVIOUS
  <2> QED BY <2>1, <2>2, <2>3, <2>4, Zenon
<1>2. Head(todo) = HddChain[7 - Len(todo)] BY <1>1 DEF Climbing
<1>4. Len(todo) = 2 => 7 - Len(todo) = 5 OBVIOUS
<1>5. Len(todo) = 1 => 7 - Len(todo) = 6 OBVIOUS
<1>6. Len(todo) \notin {1, 2} => 7 - Len(todo) \in 1 .. 4
  <2>1. \A n \in 1 .. 6 : n \notin {1, 2} => 7 - n \in 1 .. 4 OBVIOUS
  <2> QED BY <1>1, <2>1
<1> QED BY <1>1, <1>2, <1>4, <1>5, <1>6, HddChainIs

LEMMA LoadSingle == BringupInv /\ Single /\ Load => Single'
<1> SUFFICES ASSUME BringupInv, Single, Load PROVE Single' OBVIOUS
<1> DEFINE m == Head(todo)
<1>0. step = "load" /\ todo # <<>> /\ m \notin latched BY DEF Load
<1>1. for \notin {"apa", "exec"} => Tail(todo) \in Seq(Plain) /\ m \in Plain BY <1>0 DEF Single
<1>2. for \in {"apa", "exec"} =>
        /\ hdd = "not_loaded" /\ Len(todo) \in 1 .. 6 /\ Len(Tail(todo)) = Len(todo) - 1
        /\ m = "ps2hdd" <=> Len(todo) = 2
        /\ m = "ps2fs" <=> Len(todo) = 1
  BY <1>0, NextOfClimb DEF BringupInv, Ladder
<1>3. Runtime \subseteq Drivers /\ \A x \in Runtime : copies[x] \in 0 .. 1
  BY HddChainIs DEF BringupInv, Once, Single
<1> HIDE DEF m
<1>4. CASE LoadFails(m)
  <2>1. UNCHANGED copies BY <1>4 DEF LoadFails, iop
  <2>2. CASE for \in {"apa", "exec"}
    <3>1. hdd' = "failed" /\ for' = for BY <1>4, <2>2 DEF LoadFails
    <3> QED BY <2>1, <2>2, <3>1 DEF Single
  <2>3. CASE for \notin {"apa", "exec"}
    <3>1. Rest(m) \in Seq(Plain) BY <1>1, PlainChains DEF Rest
    <3>2. hdd' = hdd /\ for' = for /\ todo' = Rest(m) BY <1>4, <2>3 DEF LoadFails
    <3>3. ~Near(1) /\ ~Near(0) BY <2>3 DEF Near
    <3> QED BY <2>1, <2>3, <3>1, <3>2, <3>3 DEF Single
  <2> QED BY <2>2, <2>3
<1>5. ASSUME copies' = copies \/ (Start(m) /\ StaysLoaded(m)), todo' = Tail(todo), UNCHANGED <<hdd, step, for>>
      PROVE  Single'
  <2>1. CASE for \in {"apa", "exec"}
    <3>1. /\ hdd = "not_loaded" => /\ Len(todo) >= 2 => copies["ps2hdd"] = 0
                                   /\ Len(todo) >= 1 => copies["ps2fs"] = 0
      BY <1>2, <2>1 DEF Single, Near
    <3>2. \A x \in Runtime : copies'[x] <= 1
      <4>1. m \in Runtime /\ StaysLoaded(m) => copies[m] = 0
        <5>1. m = "ata" => (StaysLoaded(m) => copies[m] = 0) BY DEF StaysLoaded
        <5>2. m \in {"ps2hdd", "ps2fs"} => copies[m] = 0 BY <1>2, <2>1, <3>1
        <5> QED BY <5>1, <5>2 DEF Runtime
      <4> QED BY <1>3, <1>5, <4>1 DEF Start, BringupInv, Once
    <3>3. /\ Len(todo) > 2 => copies'["ps2hdd"] = 0
          /\ Len(todo) > 1 => copies'["ps2fs"] = 0
      BY <1>2, <1>3, <1>5, <2>1, <3>1 DEF Start, Runtime, BringupInv, Once
    <3> QED BY <1>0, <1>2, <1>5, <2>1, <3>2, <3>3 DEF Single, Near
  <2>2. CASE for \notin {"apa", "exec"}
    <3>1. m \notin {"ps2hdd", "ps2fs"} BY <1>1, <2>2 DEF Plain
    <3>2. copies'["ps2hdd"] = copies["ps2hdd"] /\ copies'["ps2fs"] = copies["ps2fs"]
      BY <1>5, <3>1, <1>3 DEF Start, BringupInv, Once, Runtime
    <3>3. copies'["ata"] <= 1
      BY <1>5, <1>3 DEF Start, StaysLoaded, BringupInv, Once, Runtime
    <3>4. ~Near(1) /\ ~Near(0) BY <2>2 DEF Near
    <3> QED BY <1>1, <1>3, <1>5, <2>2, <3>2, <3>3, <3>4 DEF Single, Runtime
  <2> QED BY <2>1, <2>2
<1>6. CASE StaysLoaded(m) /\ Start(m) /\ todo' = Tail(todo) /\ UNCHANGED <<hdd, step, for>>
  BY <1>5, <1>6
<1>7. CASE Leave(m) /\ todo' = Tail(todo) /\ UNCHANGED <<hdd, step, for>>
  BY <1>5, <1>7 DEF Leave
<1> QED BY <1>4, <1>6, <1>7 DEF Load, m

LEMMA SkipSingle == BringupInv /\ Single /\ Skip => Single'
<1> SUFFICES ASSUME BringupInv, Single, Skip PROVE Single' OBVIOUS
<1>1. copies' = copies BY DEF Skip, iop
<1>2. for \in {"apa", "exec"} => Len(Tail(todo)) = Len(todo) - 1 /\ Len(todo) \in 1 .. 6
  BY NextOfClimb DEF Skip, BringupInv, Ladder
<1>3. for \notin {"apa", "exec"} => Tail(todo) \in Seq(Plain) BY DEF Skip, Single
<1> QED BY <1>1, <1>2, <1>3 DEF Skip, Single, Near

LEMMA RestSingle ==
  BringupInv /\ Single /\ (Loaded \/ GetHDDStatus \/ Pass \/ Asked \/ Drive \/ ScriptRestarts) => Single'
<1> SUFFICES ASSUME BringupInv, Single, Loaded \/ GetHDDStatus \/ Pass \/ Asked \/ Drive \/ ScriptRestarts
             PROVE  Single'
  OBVIOUS
<1>1. CASE Loaded
  <2>1. copies' = copies /\ step' # "load" /\ hdd' = (IF for \in {"apa", "exec"} THEN "loaded" ELSE hdd)
    BY <1>1 DEF Loaded, iop
  <2> QED BY <2>1 DEF Single, Near
<1>2. CASE GetHDDStatus BY <1>2 DEF GetHDDStatus, Single, Near, iop
<1>3. CASE Pass
  <2>1. copies' = copies /\ step' # "load" /\ hdd' = hdd /\ step = "sweep" BY <1>3 DEF Pass, iop
  <2> QED BY <2>1 DEF Single, Near
<1>4. CASE Drive
  <2>1. UNCHANGED <<copies, step, hdd, for, todo>> BY <1>4 DEF Drive, ComesUp, Mounts
  <2> QED BY <2>1 DEF Single, Near
<1>5. CASE ScriptRestarts BY <1>5 DEF ScriptRestarts, Single, Near, iop
<1>6. CASE Asked
  <2>1. ASSUME NEW o, NEW c \in Seq(Plain), o \notin {"apa", "exec"}, BeginLoad(o, c) PROVE Single'
    BY <2>1 DEF BeginLoad, Single, Near, iop
  <2>2. ASSUME NEW o, InitializeHdd(o), o \in {"apa", "exec"} PROVE Single'
    <3>1. copies' = copies /\ hdd' = hdd /\ step = "menu" BY <2>2 DEF InitializeHdd, iop
    <3>2. ~Near(1) /\ ~Near(0) BY <3>1 DEF Near
    <3>3. step' = "load" => for' = o BY <3>1, <2>2 DEF InitializeHdd, BringupInv, Ladder
    <3> QED BY <2>2, <3>1, <3>2, <3>3 DEF Single
  <2>3. CASE EnsureMmceman BY <2>1, <2>3, PlainChains DEF EnsureMmceman
  <2>4. CASE EnsureUsbMass BY <2>1, <2>4, PlainChains DEF EnsureUsbMass
  <2>5. CASE InitMX4SIO BY <2>1, <2>5, PlainChains DEF InitMX4SIO
  <2>6. CASE InitATA BY <2>1, <2>6, PlainChains DEF InitATA
  <2>7. CASE EnterExfat BY <2>1, <2>7, PlainChains DEF EnterExfat
  <2>8. CASE EnterApa BY <2>2, <2>8 DEF EnterApa
  <2>9. CASE EnsureExec BY <2>2, <2>9 DEF EnsureExec
  <2>10. CASE ReprobeApa BY <2>10 DEF ReprobeApa, Single, Near, iop
  <2> QED BY <1>6, <2>3, <2>4, <2>5, <2>6, <2>7, <2>8, <2>9, <2>10 DEF Asked
<1> QED BY <1>1, <1>2, <1>3, <1>4, <1>5, <1>6

LEMMA SingleKept == BringupSpec => []Single
<1>1. BringupInv /\ Single /\ [BringupNext]_bringupVars => Single'
  <2>1. Single /\ UNCHANGED bringupVars => Single' BY DEF Single, Near, bringupVars, iop
  <2> QED BY <2>1, LoadSingle, SkipSingle, RestSingle DEF BringupNext, Loading, Asked, Drive
<1> QED BY <1>1, SingleStart, BringupKept, PTL DEF BringupSpec

\* One copy of a driver stays, whoever starts it again, and no runtime is reported up half
\* loaded, for any number of failures, passes and restarts of the script (luasystem.cpp,
\* luaHDD.cpp:Load_HDD_IRX, system.lua).
THEOREM StacksAreSound == BringupSpec => []StackIsSound
<1>1. BringupInv /\ Single => StackIsSound
  BY DEF BringupInv, Once, Ladder, Whole, Runtime, Single, StackIsSound
<1> QED BY <1>1, BringupKept, SingleKept, PTL

(* The types.  A chain names drivers only, and none is longer than the      *)
(* boot's.                                                                  *)
Short(c) == c \in Seq(Drivers) /\ Len(c) <= 8

AllNames == {"iomanX", "fileXio", "mmceman", "usbd", "dev9", "bdm", "bdmfs", "usbmass", "mx4sio",
             "ata", "ps2hdd", "ps2fs"}

LEMMA ChainIsShort ==
  ASSUME NEW c \in Chains, c \in Seq(AllNames), Len(c) <= 8
  PROVE  Short(c)
<1>1. {c[i] : i \in 1 .. Len(c)} \subseteq Drivers BY DEF Drivers
<1>2. \A i \in 1 .. Len(c) : c[i] \in Drivers BY <1>1
<1> QED BY <1>2 DEF Short

LEMMA StepIsDriver ==
  ASSUME NEW c, Short(c), NEW i \in 1 .. Len(c)
  PROVE  c[i] \in Drivers
BY DEF Short

LEMMA JoinIs ==
  ASSUME NEW S, NEW a \in Seq(S), NEW b \in Seq(S)
  PROVE  /\ a \o b \in Seq(S) /\ Len(a \o b) = Len(a) + Len(b)
         /\ \A i \in 1 .. Len(b) : (a \o b)[Len(a) + i] = b[i]
         /\ \A i \in 1 .. Len(a) : (a \o b)[i] = a[i]
<1>1. Len(a) \in Nat /\ Len(b) \in Nat OBVIOUS
<1> QED BY <1>1, ConcatProperties

LEMMA ChainsAreShort ==
  /\ Short(UsbChain) /\ Short(Mx4Chain) /\ Short(<<"mx4sio">>) /\ Short(MmceChain)
  /\ Short(AtaChain) /\ Short(HddChain)
  /\ Short(BootChain) /\ Short(UsbStart) /\ Short(<<"iomanX", "fileXio">> \o UsbStart)
  /\ Len(BootChain) = 8
<1> DEFINE mx   == <<"mx4sio">>
           pfsx == <<"ps2hdd", "ps2fs">>
           usb  == <<"usbd", "dev9">>
           io   == <<"iomanX", "fileXio", "mmceman">>
           io2  == <<"iomanX", "fileXio">>
<1>1. /\ UsbChain \in Seq(AllNames) /\ Len(UsbChain) = 3
      /\ AtaChain \in Seq(AllNames) /\ Len(AtaChain) = 4
      /\ MmceChain \in Seq(AllNames) /\ Len(MmceChain) = 1
  <2>1. UsbChain \in Seq(AllNames) BY DEF UsbChain, AllNames
  <2>2. AtaChain \in Seq(AllNames) BY DEF AtaChain, AllNames
  <2>3. MmceChain \in Seq(AllNames) BY DEF MmceChain, AllNames
  <2> QED BY <2>1, <2>2, <2>3 DEF UsbChain, AtaChain, MmceChain
<1>2. /\ mx \in Seq(AllNames) /\ Len(mx) = 1 /\ mx[1] = "mx4sio"
      /\ pfsx \in Seq(AllNames) /\ Len(pfsx) = 2 /\ usb \in Seq(AllNames) /\ Len(usb) = 2
  <2>1. mx \in Seq(AllNames) BY DEF AllNames
  <2>2. pfsx \in Seq(AllNames) BY DEF AllNames
  <2>3. usb \in Seq(AllNames) BY DEF AllNames
  <2> QED BY <2>1, <2>2, <2>3
<1>3. /\ io \in Seq(AllNames) /\ Len(io) = 3 /\ io[1] = "iomanX" /\ io[2] = "fileXio"
      /\ io2 \in Seq({"iomanX", "fileXio"}) /\ Len(io2) = 2
  <2>1. io \in Seq(AllNames) BY DEF AllNames
  <2> QED BY <2>1
<1>4. /\ Mx4Chain = UsbChain \o mx /\ HddChain = AtaChain \o pfsx /\ UsbStart = usb \o UsbChain
      /\ BootChain = io \o UsbStart
  BY DEF Mx4Chain, HddChain, UsbStart, BootChain
<1> HIDE DEF mx, pfsx, usb, io, io2
<1>5. Mx4Chain \in Seq(AllNames) /\ Len(Mx4Chain) = 4 /\ Mx4Chain[4] = "mx4sio"
  <2>1. /\ UsbChain \o mx \in Seq(AllNames) /\ Len(UsbChain \o mx) = Len(UsbChain) + Len(mx)
        /\ \A i \in 1 .. Len(UsbChain) + Len(mx) :
             (UsbChain \o mx)[i] = IF i <= Len(UsbChain) THEN UsbChain[i] ELSE mx[i - Len(UsbChain)]
    BY <1>1, <1>2, ConcatProperties
  <2>2. (UsbChain \o mx)[4] = mx[1] BY <1>1, <1>2, <2>1
  <2> QED BY <1>1, <1>2, <1>4, <2>1, <2>2
<1>6. HddChain \in Seq(AllNames) /\ Len(HddChain) = 6
  <2>1. AtaChain \o pfsx \in Seq(AllNames) /\ Len(AtaChain \o pfsx) = Len(AtaChain) + Len(pfsx)
    BY <1>1, <1>2, JoinIs
  <2> QED BY <1>1, <1>2, <1>4, <2>1
<1>7. UsbStart \in Seq(AllNames) /\ Len(UsbStart) = 5
  <2>1. usb \o UsbChain \in Seq(AllNames) /\ Len(usb \o UsbChain) = Len(usb) + Len(UsbChain)
    BY <1>1, <1>2, JoinIs
  <2> QED BY <1>1, <1>2, <1>4, <2>1
<1>8. /\ BootChain \in Seq(AllNames) /\ Len(BootChain) = 8
      /\ BootChain[1] = "iomanX" /\ BootChain[2] = "fileXio"
      /\ \A i \in 1 .. 5 : BootChain[3 + i] = UsbStart[i]
  <2>1. /\ io \o UsbStart \in Seq(AllNames) /\ Len(io \o UsbStart) = Len(io) + Len(UsbStart)
        /\ \A i \in 1 .. Len(UsbStart) : (io \o UsbStart)[Len(io) + i] = UsbStart[i]
        /\ \A i \in 1 .. Len(io) : (io \o UsbStart)[i] = io[i]
    BY <1>3, <1>7, JoinIs
  <2>2. (io \o UsbStart)[1] = io[1] /\ (io \o UsbStart)[2] = io[2] BY <1>3, <2>1
  <2>3. ASSUME NEW i \in 1 .. 5 PROVE (io \o UsbStart)[3 + i] = UsbStart[i]
    <3>1. i \in 1 .. Len(UsbStart) BY <1>7
    <3>2. (io \o UsbStart)[Len(io) + i] = UsbStart[i] BY <2>1, <3>1
    <3> QED BY <1>3, <3>2
  <2>4. Len(io \o UsbStart) = 8 BY <1>3, <1>7, <2>1
  <2> QED BY <1>3, <1>4, <2>1, <2>2, <2>3, <2>4
<1>9. Short(UsbChain) /\ Short(Mx4Chain) /\ Short(MmceChain) /\ Short(AtaChain) /\ Short(HddChain)
      /\ Short(BootChain)
  <2>1. /\ UsbChain \in Chains /\ Mx4Chain \in Chains /\ MmceChain \in Chains
        /\ AtaChain \in Chains /\ HddChain \in Chains /\ BootChain \in Chains
    BY DEF Chains
  <2>8. /\ Len(UsbChain) <= 8 /\ Len(Mx4Chain) <= 8 /\ Len(MmceChain) <= 8
        /\ Len(AtaChain) <= 8 /\ Len(HddChain) <= 8 /\ Len(BootChain) <= 8
    BY <1>1, <1>5, <1>6, <1>8
  <2>2. Short(UsbChain) BY <1>1, <2>1, <2>8, ChainIsShort
  <2>3. Short(Mx4Chain) BY <1>5, <2>1, <2>8, ChainIsShort
  <2>4. Short(MmceChain) BY <1>1, <2>1, <2>8, ChainIsShort
  <2>5. Short(AtaChain) BY <1>1, <2>1, <2>8, ChainIsShort
  <2>6. Short(HddChain) BY <1>6, <2>1, <2>8, ChainIsShort
  <2>7. Short(BootChain) BY <1>8, <2>1, <2>8, ChainIsShort
  <2> QED BY <2>2, <2>3, <2>4, <2>5, <2>6, <2>7
<1>10. "mx4sio" \in Drivers
  <2>1. 4 \in 1 .. Len(Mx4Chain) BY <1>5
  <2>2. Mx4Chain[4] \in Drivers BY <1>9, <2>1, StepIsDriver
  <2> QED BY <1>5, <2>2
<1>11. \A i \in 1 .. 8 : BootChain[i] \in Drivers BY <1>8, <1>9, StepIsDriver
<1>12. \A i \in 1 .. 5 : UsbStart[i] \in Drivers
  <2> SUFFICES ASSUME NEW i \in 1 .. 5 PROVE UsbStart[i] \in Drivers OBVIOUS
  <2>1. BootChain[3 + i] = UsbStart[i] /\ 3 + i \in 1 .. 8 BY <1>8
  <2> QED BY <1>11, <2>1
<1>13. UsbStart \in Seq(Drivers)
  <2>1. \A i \in 1 .. Len(UsbStart) : UsbStart[i] \in Drivers BY <1>7, <1>12
  <2>2. UsbStart \in Seq(AllNames) BY <1>7
  <2> QED BY <2>1, <2>2
<1>14. {"iomanX", "fileXio"} \subseteq Drivers BY <1>8, <1>11
<1>15. Short(<<"mx4sio">>) BY <1>10 DEF Short
<1>16. io2 \in Seq(Drivers) BY <1>3, <1>14
<1>17. Short(io2 \o UsbStart)
  <2>1. io2 \o UsbStart \in Seq(Drivers) /\ Len(io2 \o UsbStart) = Len(io2) + Len(UsbStart)
    BY <1>13, <1>16, JoinIs
  <2>2. Len(io2 \o UsbStart) = 7 BY <1>3, <1>7, <2>1
  <2> QED BY <2>1, <2>2 DEF Short
<1> QED BY <1>7, <1>8, <1>9, <1>13, <1>15, <1>17 DEF Short, io2

BringupTypes ==
  /\ copies \in [Drivers -> 0 .. 2] /\ latched \in SUBSET Drivers
  /\ disk \in Drives /\ unit \in {"none", "device", "mass"}
  /\ hdd \in {"not_loaded", "loaded", "failed"}
  /\ exec \in BOOLEAN /\ loadstate \in {"new", "ready", "bad"} /\ page \in {"unknown", "found", "nothing"}
  /\ step \in {"load", "menu", "sweep", "status"}
  /\ for \in Ops /\ Short(todo)
  /\ passes \in 0 .. MaxPasses - 1 /\ fails \in 0 .. MaxFails /\ errors \in 0 .. MaxErrors

TakenType == taken \in BOOLEAN

LEMMA TypesStart == BringupInit => BringupTypes
<1> SUFFICES ASSUME BringupInit PROVE BringupTypes OBVIOUS
<1>1. exec \in BOOLEAN BY DEF BringupInit, FreshLua
<1>2. passes \in 0 .. MaxPasses - 1 /\ fails \in 0 .. MaxFails /\ errors \in 0 .. MaxErrors
  BY BringupAssumption DEF BringupAssumption, BringupInit
<1>3. Short(todo) BY ChainsAreShort DEF BringupInit
<1>4. copies \in [Drivers -> 0 .. 2] BY DEF BringupInit, FreshIop
<1> QED BY <1>1, <1>2, <1>3, <1>4 DEF BringupInit, BringupTypes, FreshIop, FreshLua, Drives, Ops

LEMMA TailIsShort ==
  ASSUME Short(todo), todo # <<>>
  PROVE  Short(Tail(todo)) /\ Head(todo) \in Drivers
BY DEF Short

LEMMA FailTypes ==
  ASSUME BringupTypes, NEW m, step = "load", todo # <<>>, LoadFails(m), fails' \in 0 .. MaxFails, errors' = errors
  PROVE  BringupTypes'
<1>1. Short(<<>>) BY DEF Short
<1>2. Short(Rest(m)) BY <1>1, ChainsAreShort, TailIsShort DEF Rest, BringupTypes
<1>3. Short(todo') BY <1>2 DEF LoadFails
<1> QED BY <1>3 DEF LoadFails, BringupTypes, iop

LEMMA LoadTypes == BringupTypes /\ Load /\ errors' = errors => BringupTypes'
<1> SUFFICES ASSUME BringupTypes, Load, errors' = errors PROVE BringupTypes' OBVIOUS
<1> DEFINE m == Head(todo)
<1>0. step = "load" /\ todo # <<>> /\ m \notin latched BY DEF Load
<1>1. Short(Tail(todo)) /\ m \in Drivers BY <1>0, TailIsShort DEF BringupTypes
<1>2. Latch(m) \in SUBSET Drivers BY <1>1 DEF Latch, BringupTypes
<1> HIDE DEF m
<1>3. CASE /\ fails < MaxFails \/ MustFail(m)
           /\ fails' = IF fails < MaxFails THEN fails + 1 ELSE fails
           /\ LoadFails(m)
  <2>1. fails' \in 0 .. MaxFails BY <1>3, BringupAssumption DEF BringupTypes, BringupAssumption
  <2> QED BY <1>0, <1>3, <2>1, FailTypes
<1>4. CASE /\ Start(m) /\ latched' = Latch(m) /\ todo' = Tail(todo)
           /\ UNCHANGED <<hdd, lua, step, for, passes, fails>>
  <2>1. copies' \in [Drivers -> 0 .. 2]
    <3>1. copies[m] \in 0 .. 2 BY <1>1 DEF BringupTypes
    <3>2. (IF copies[m] < 2 THEN copies[m] + 1 ELSE copies[m]) \in 0 .. 2 BY <3>1
    <3> QED BY <1>4, <3>2 DEF Start, BringupTypes
  <2>2. unit' \in {"none", "device", "mass"} /\ disk' = disk BY <1>4 DEF Start, HandsOver, BringupTypes
  <2> QED BY <1>1, <1>2, <1>4, <2>1, <2>2 DEF BringupTypes, lua
<1>5. CASE Checked(m) /\ LoadFails(m) /\ UNCHANGED fails
  BY <1>0, <1>5, FailTypes DEF BringupTypes
<1>6. CASE /\ latched' = Latch(m) /\ todo' = Tail(todo)
           /\ Leave(m) /\ UNCHANGED <<hdd, lua, step, for, passes>> /\ UNCHANGED fails
  <2>1. copies' = copies /\ disk' = disk /\ unit' \in {"none", "device", "mass"}
    BY <1>6 DEF Leave, HandsOver, BringupTypes
  <2> QED BY <1>1, <1>2, <1>6, <2>1 DEF BringupTypes, lua
<1> QED BY <1>3, <1>4, <1>5, <1>6 DEF Load, m

LEMMA RestTypes ==
  ASSUME BringupTypes, Skip \/ Loaded \/ GetHDDStatus \/ Pass \/ Asked \/ Drive, errors' = errors
  PROVE  BringupTypes'
<1>1. CASE Skip BY <1>1, TailIsShort DEF Skip, BringupTypes, iop, lua
<1>2. CASE Loaded
  <2>1. exec' \in BOOLEAN BY <1>2, Zenon DEF Loaded, BringupTypes
  <2>2. passes' \in 0 .. MaxPasses - 1 BY <1>2, BringupAssumption DEF Loaded, BringupAssumption
  <2> QED BY <1>2, <2>1, <2>2 DEF Loaded, BringupTypes, iop
<1>3. CASE GetHDDStatus BY <1>3, StatusIs DEF GetHDDStatus, BringupTypes, iop
<1>4. CASE Pass BY <1>4, BringupAssumption DEF Pass, BringupTypes, BringupAssumption, iop
<1>5. CASE Drive BY <1>5 DEF Drive, ComesUp, Mounts, BringupTypes, Drives, lua
<1>6. CASE Asked
  <2>1. ASSUME NEW o \in Ops, NEW c, Short(c), BeginLoad(o, c) PROVE BringupTypes'
    BY <2>1 DEF BeginLoad, BringupTypes, iop, lua
  <2>2. ASSUME NEW o \in Ops, InitializeHdd(o) PROVE BringupTypes'
    BY <2>2, ChainsAreShort DEF InitializeHdd, BringupTypes, iop
  <2>3. CASE EnsureMmceman BY <2>1, <2>3, ChainsAreShort DEF EnsureMmceman, Ops
  <2>4. CASE EnsureUsbMass BY <2>1, <2>4, ChainsAreShort DEF EnsureUsbMass, Ops
  <2>5. CASE InitMX4SIO BY <2>1, <2>5, ChainsAreShort DEF InitMX4SIO, Ops
  <2>6. CASE InitATA \/ EnterExfat BY <2>1, <2>6, ChainsAreShort DEF InitATA, EnterExfat, Ops
  <2>7. CASE EnterApa \/ EnsureExec BY <2>2, <2>7 DEF EnterApa, EnsureExec, Ops
  <2>8. CASE ReprobeApa BY <2>8, StatusIs DEF ReprobeApa, BringupTypes, iop
  <2> QED BY <1>6, <2>3, <2>4, <2>5, <2>6, <2>7, <2>8 DEF Asked
<1> QED BY <1>1, <1>2, <1>3, <1>4, <1>5, <1>6

LEMMA BringupTypesNext == BringupTypes /\ [BringupNext]_bringupVars => BringupTypes'
<1>1. ASSUME BringupTypes, ScriptRestarts PROVE BringupTypes'
  <2>1. exec' \in BOOLEAN BY <1>1 DEF ScriptRestarts, FreshLua
  <2>2. errors' \in 0 .. MaxErrors
    BY <1>1, BringupAssumption DEF BringupAssumption, ScriptRestarts, BringupTypes
  <2> QED BY <1>1, <2>1, <2>2 DEF ScriptRestarts, FreshLua, BringupTypes, iop
<1>2. ASSUME BringupTypes, UNCHANGED bringupVars PROVE BringupTypes'
  BY <1>2 DEF bringupVars, BringupTypes, iop, lua
<1> QED BY <1>1, <1>2, LoadTypes, RestTypes DEF BringupNext, Loading, Asked, Drive

\* The state of the bring-up is well formed, whichever driver fails or leaves (main.cpp,
\* luasystem.cpp): only known drivers are loaded and latched, and no chain grows.
THEOREM BringupTypeCorrect == BringupSpec => []BringupTypeOK
<1>1. BringupTypes /\ TakenType => BringupTypeOK
  BY ChainsAreShort, BringupAssumption DEF BringupAssumption, BringupTypes, BringupTypeOK, TakenType, Short
<1>2. BringupSpec => []TakenType
  <2>1. BringupInit => TakenType BY DEF TakenType, BringupInit, FreshIop
  <2>2. TakenType /\ [BringupNext]_bringupVars => TakenType'
    <3> SUFFICES ASSUME taken \in BOOLEAN, [BringupNext]_bringupVars PROVE taken' = taken \/ taken' = TRUE
      BY Zenon DEF TakenType
    <3>1. CASE Load BY <3>1, Zenon DEF Load, LoadFails, Start, Leave, iop
    <3>2. CASE Skip \/ Loaded \/ GetHDDStatus \/ Pass \/ ScriptRestarts
      BY <3>2 DEF Skip, Loaded, GetHDDStatus, Pass, ScriptRestarts, iop
    <3>3. CASE Asked
      BY <3>3 DEF Asked, EnsureMmceman, EnsureUsbMass, InitMX4SIO, InitATA, EnterExfat, BeginLoad,
         EnterApa, EnsureExec, InitializeHdd, ReprobeApa, iop
    <3>4. CASE Drive BY <3>4 DEF Drive, ComesUp, Mounts
    <3>5. CASE UNCHANGED bringupVars BY <3>5 DEF bringupVars, iop
    <3> QED BY <3>1, <3>2, <3>3, <3>4, <3>5 DEF BringupNext, Loading, Asked, Drive
  <2> QED BY <2>1, <2>2, PTL DEF BringupSpec
<1> QED BY <1>1, <1>2, BringupTypesNext, TypesStart, PTL DEF BringupSpec

(* What an operation still has before it: its chain, then the sweep of the  *)
(* page or the question for the status.                                     *)
StageLeft == CASE step = "load" -> 2 [] step \in {"sweep", "status"} -> 1 [] OTHER -> 0
LeftInIt == CASE step = "load" -> Len(todo) [] step = "sweep" -> MaxPasses - passes [] OTHER -> 0

(* The boot goes on with the USB modules when one of the first two fails;   *)
(* those are fewer than what was to come.                                   *)
UsbNames == {"usbd", "dev9", "bdm", "bdmfs", "usbmass"}
InBootOrder(c) == \A i \in 1 .. Len(c) : c[i] \in {"iomanX", "fileXio"} => i + 5 <= Len(c)

LEMMA BootIsInOrder ==
  /\ InBootOrder(BootChain) /\ InBootOrder(<<"iomanX", "fileXio">> \o UsbStart)
  /\ InBootOrder(UsbStart) /\ Len(UsbStart) = 5 /\ InBootOrder(<<>>)
<1> DEFINE usb == <<"usbd", "dev9">>
           io  == <<"iomanX", "fileXio", "mmceman">>
           io2 == <<"iomanX", "fileXio">>
<1>1. UsbStart \in Seq(UsbNames) /\ Len(UsbStart) = 5
  <2>1. usb \in Seq(UsbNames) /\ Len(usb) = 2 BY DEF UsbNames
  <2>2. UsbChain \in Seq(UsbNames) /\ Len(UsbChain) = 3 BY DEF UsbNames, UsbChain
  <2> HIDE DEF usb
  <2>3. usb \o UsbChain \in Seq(UsbNames) /\ Len(usb \o UsbChain) = Len(usb) + Len(UsbChain)
    BY <2>1, <2>2, JoinIs
  <2>4. UsbStart = usb \o UsbChain BY DEF UsbStart, usb
  <2> QED BY <2>1, <2>2, <2>3, <2>4
<1>2. io \in Seq(AllNames) BY DEF AllNames
<1>11. io2 \in Seq(AllNames) BY DEF AllNames
<1>12. Len(io) = 3 /\ io[3] = "mmceman" /\ Len(io2) = 2 OBVIOUS
<1>10. UsbStart \in Seq(AllNames)
  <2>1. UsbNames \subseteq AllNames BY DEF UsbNames, AllNames
  <2> QED BY <1>1, <2>1
<1>3. \A i \in 1 .. 5 : UsbStart[i] \notin {"iomanX", "fileXio"}
  <2>1. \A i \in 1 .. 5 : UsbStart[i] \in UsbNames BY <1>1, ElementOfSeq
  <2> QED BY <2>1 DEF UsbNames
<1> HIDE DEF usb, io, io2
<1>4. /\ Len(io \o UsbStart) = 8 /\ (\A i \in 1 .. 5 : (io \o UsbStart)[3 + i] = UsbStart[i])
      /\ (io \o UsbStart)[3] = "mmceman"
  <2>1. /\ Len(io \o UsbStart) = Len(io) + Len(UsbStart)
        /\ \A i \in 1 .. Len(UsbStart) : (io \o UsbStart)[Len(io) + i] = UsbStart[i]
        /\ \A i \in 1 .. Len(io) : (io \o UsbStart)[i] = io[i]
    BY <1>2, <1>10, JoinIs
  <2>2. 1 .. Len(UsbStart) = 1 .. 5 /\ Len(io) = 3 /\ 3 \in 1 .. Len(io) BY <1>1, <1>12
  <2>3. \A i \in 1 .. 5 : (io \o UsbStart)[3 + i] = UsbStart[i] BY <2>1, <2>2
  <2>4. (io \o UsbStart)[3] = "mmceman" BY <1>12, <2>1, <2>2
  <2>5. Len(io \o UsbStart) = 8 BY <1>1, <1>12, <2>1
  <2> QED BY <2>3, <2>4, <2>5
<1>5. Len(io2 \o UsbStart) = 7 /\ (\A i \in 1 .. 5 : (io2 \o UsbStart)[2 + i] = UsbStart[i])
  <2>1. /\ Len(io2 \o UsbStart) = Len(io2) + Len(UsbStart)
        /\ \A i \in 1 .. Len(UsbStart) : (io2 \o UsbStart)[Len(io2) + i] = UsbStart[i]
    BY <1>10, <1>11, JoinIs
  <2>2. 1 .. Len(UsbStart) = 1 .. 5 /\ Len(io2) = 2 BY <1>1, <1>12
  <2>3. \A i \in 1 .. 5 : (io2 \o UsbStart)[2 + i] = UsbStart[i] BY <2>1, <2>2
  <2>4. Len(io2 \o UsbStart) = 7 BY <1>1, <1>12, <2>1
  <2> QED BY <2>3, <2>4
<1>6. InBootOrder(io \o UsbStart)
  <2> SUFFICES ASSUME NEW i \in 1 .. 8, (io \o UsbStart)[i] \in {"iomanX", "fileXio"} PROVE i + 5 <= 8
    BY <1>4 DEF InBootOrder
  <2>1. CASE i > 3
    <3>1. i - 3 \in 1 .. 5 /\ 3 + (i - 3) = i BY <2>1
    <3>2. (io \o UsbStart)[i] = UsbStart[i - 3] BY <1>4, <3>1
    <3> QED BY <1>3, <3>1, <3>2
  <2>2. i # 3 BY <1>4
  <2> QED BY <2>1, <2>2
<1>7. InBootOrder(io2 \o UsbStart)
  <2> SUFFICES ASSUME NEW i \in 1 .. 7, (io2 \o UsbStart)[i] \in {"iomanX", "fileXio"} PROVE i + 5 <= 7
    BY <1>5 DEF InBootOrder
  <2>1. CASE i > 2
    <3>1. i - 2 \in 1 .. 5 /\ 2 + (i - 2) = i BY <2>1
    <3>2. (io2 \o UsbStart)[i] = UsbStart[i - 2] BY <1>5, <3>1
    <3> QED BY <1>3, <3>1, <3>2
  <2> QED BY <2>1
<1>8. InBootOrder(UsbStart) BY <1>1, <1>3 DEF InBootOrder
<1>9. InBootOrder(<<>>) BY DEF InBootOrder
<1> QED BY <1>1, <1>6, <1>7, <1>8, <1>9 DEF BootChain, io, io2

OpeningInv == BringupTypes /\ (step = "load" /\ for = "boot" => InBootOrder(todo))

LEMMA TailInBootOrder ==
  ASSUME Short(todo), todo # <<>>
  PROVE  /\ Len(Tail(todo)) = Len(todo) - 1 /\ Len(todo) > 0
         /\ InBootOrder(todo) => InBootOrder(Tail(todo))
<1>1. /\ todo \in Seq(Drivers) /\ Len(todo) \in Nat /\ Len(todo) > 0 /\ Len(Tail(todo)) = Len(todo) - 1
      /\ \A i \in 1 .. Len(todo) - 1 : Tail(todo)[i] = todo[i + 1]
  BY DEF Short
<1>2. ASSUME InBootOrder(todo), NEW i \in 1 .. Len(todo) - 1, Tail(todo)[i] \in {"iomanX", "fileXio"}
      PROVE  i + 5 <= Len(todo) - 1
  <2>1. i + 1 \in 1 .. Len(todo) /\ todo[i + 1] \in {"iomanX", "fileXio"} BY <1>1, <1>2
  <2>2. (i + 1) + 5 <= Len(todo) BY <1>2, <2>1 DEF InBootOrder
  <2> QED BY <1>1, <2>2
<1> QED BY <1>1, <1>2 DEF InBootOrder

\* One module of a chain is passed over, loaded, or given up with what depends on it.
LEMMA ChainCounts ==
  ASSUME OpeningInv, Skip \/ Load
  PROVE  /\ step = "load" /\ step' \in {"load", "menu"} /\ Len(todo') < Len(todo)
         /\ step' = "load" /\ for' = "boot" => InBootOrder(todo')
<1> DEFINE m == Head(todo)
<1>0. step = "load" /\ todo # <<>> /\ Short(todo) /\ Len(todo) \in Nat
  BY DEF Skip, Load, OpeningInv, BringupTypes, Short
<1>1. CASE todo' = Tail(todo) /\ UNCHANGED <<step, for>>
  BY <1>0, <1>1, TailInBootOrder DEF OpeningInv
<1>2. CASE LoadFails(m)
  <2>1. todo' = Rest(m) /\ for' = for /\ step' \in {"load", "menu"} BY <1>0, <1>2 DEF LoadFails
  <2>2. CASE for # "boot" \/ m \in {"bdm", "bdmfs"}
    <3>1. todo' = <<>> BY <2>1, <2>2 DEF Rest
    <3> QED BY <1>0, <2>1, <3>1, TailInBootOrder, BootIsInOrder
  <2>3. CASE for = "boot" /\ m \in {"iomanX", "fileXio"}
    <3>1. todo' = UsbStart BY <2>1, <2>3 DEF Rest
    <3>2. 1 + 5 <= Len(todo)
      <4>1. 1 \in 1 .. Len(todo) /\ todo[1] = m BY <1>0, TailInBootOrder
      <4>2. InBootOrder(todo) BY <1>0, <2>3 DEF OpeningInv
      <4>3. \A i \in 1 .. Len(todo) : todo[i] \in {"iomanX", "fileXio"} => i + 5 <= Len(todo)
        BY <4>2 DEF InBootOrder
      <4>4. todo[1] \in {"iomanX", "fileXio"} BY <2>3, <4>1
      <4> QED BY <4>1, <4>3, <4>4
    <3>3. Len(todo') = 5 BY <3>1, BootIsInOrder
    <3>4. InBootOrder(todo') BY <3>1, BootIsInOrder
    <3>5. Len(todo') < Len(todo) BY <1>0, <3>2, <3>3
    <3> QED BY <1>0, <2>1, <3>4, <3>5
  <2>4. CASE for = "boot" /\ m \notin {"iomanX", "fileXio", "bdm", "bdmfs"}
    <3>1. todo' = Tail(todo) BY <2>1, <2>4 DEF Rest
    <3>2. Len(todo') = Len(todo) - 1 BY <1>0, <3>1, TailInBootOrder
    <3>3. InBootOrder(todo') BY <1>0, <2>4, <3>1, TailInBootOrder DEF OpeningInv
    <3> QED BY <1>0, <2>1, <3>2, <3>3
  <2> QED BY <2>2, <2>3, <2>4
<1> QED BY <1>0, <1>1, <1>2 DEF Skip, Load, lua

\* LoadIrxCheckedBuffer, the ensure functions and BuildBoundedIdentityDeferred: until the menu is
\* back, whatever a driver's start answers brings an operation nearer to its end, and neither
\* the drive nor an error of the script takes it back.
OpeningCounts ==
  step # "menu" =>
    /\ StageLeft' < StageLeft \/ (StageLeft' = StageLeft /\ LeftInIt' <= LeftInIt)
    /\ Loading => StageLeft' < StageLeft \/ LeftInIt' < LeftInIt

LEMMA OpeningStep ==
  ASSUME OpeningInv, BringupTypes', BringupNext
  PROVE  OpeningInv' /\ OpeningCounts
<1>0. /\ Len(todo) \in Nat /\ Len(todo') \in Nat /\ passes \in 0 .. MaxPasses - 1 /\ passes' \in 0 .. MaxPasses - 1
      /\ MaxPasses \in Nat /\ step \in {"load", "menu", "sweep", "status"}
  BY BringupAssumption DEF BringupAssumption, OpeningInv, BringupTypes, Short
<1>1. CASE Skip \/ Load
  <2>1. /\ step = "load" /\ step' \in {"load", "menu"} /\ Len(todo') < Len(todo)
        /\ step' = "load" /\ for' = "boot" => InBootOrder(todo')
    BY <1>1, ChainCounts
  <2> QED BY <1>0, <2>1 DEF OpeningInv, OpeningCounts, StageLeft, LeftInIt
<1>2. CASE Loaded \/ GetHDDStatus
  <2>1. \/ step = "load" /\ step' \in {"sweep", "status", "menu"}
        \/ step = "status" /\ step' = "menu"
    BY <1>2 DEF Loaded, GetHDDStatus
  <2> QED BY <1>0, <2>1 DEF OpeningInv, OpeningCounts, StageLeft
<1>3. CASE Pass
  <2>1. step = "sweep" /\ (step' = "menu" \/ (step' = "sweep" /\ passes' = passes + 1))
    BY <1>3 DEF Pass
  <2>2. passes' = passes + 1 => MaxPasses - passes' < MaxPasses - passes BY <1>0
  <2> QED BY <2>2, <1>0, <2>1 DEF OpeningInv, OpeningCounts, StageLeft, LeftInIt
<1>4. CASE Asked
  <2>1. step = "menu" /\ ~ Loading
    BY <1>4 DEF Asked, EnsureMmceman, EnsureUsbMass, InitMX4SIO, InitATA, EnterExfat, EnterApa, EnsureExec,
       ReprobeApa, BeginLoad, InitializeHdd, Loading, Skip, Load, Loaded, GetHDDStatus, Pass
  <2>2. step' = "load" => for' # "boot"
    <3>0. hdd \in {"not_loaded", "loaded", "failed"} BY DEF OpeningInv, BringupTypes
    <3>1. \/ EnsureMmceman \/ EnsureUsbMass \/ InitMX4SIO \/ InitATA \/ EnterExfat => for' # "boot"
      BY DEF EnsureMmceman, EnsureUsbMass, InitMX4SIO, InitATA, EnterExfat, BeginLoad
    <3>2. EnterApa \/ EnsureExec => for' # "boot" \/ step' = step
      BY <3>0 DEF EnterApa, EnsureExec, InitializeHdd
    <3>3. ReprobeApa => step' = step BY DEF ReprobeApa
    <3> QED BY <1>4, <2>1, <3>1, <3>2, <3>3 DEF Asked
  <2>3. OpeningCounts BY <2>1 DEF OpeningCounts
  <2>4. step' = "load" /\ for' = "boot" => InBootOrder(todo') BY <2>2
  <2> QED BY <2>3, <2>4 DEF OpeningInv
<1>5. CASE Drive /\ ~ Loading
  <2>1. UNCHANGED <<step, todo, for, passes>> BY <1>5 DEF Drive, ComesUp, Mounts
  <2> QED BY <1>0, <1>5, <2>1 DEF OpeningInv, OpeningCounts, StageLeft, LeftInIt
<1>6. CASE ScriptRestarts /\ ~ Loading
  <2>1. step # "load" /\ step' = "menu" BY <1>6 DEF ScriptRestarts
  <2> QED BY <1>0, <1>6, <2>1 DEF OpeningInv, OpeningCounts, StageLeft
<1> QED BY <1>1, <1>2, <1>3, <1>4, <1>5, <1>6 DEF BringupNext, Loading

\* Whatever starts, fails or leaves, the boot and every page come back to the menu: an operation
\* has so many modules and passes, also a boot that skips to the USB modules (main.cpp, system.lua).
THEOREM OpeningsRunOut ==
  BringupSpec => /\ [](StageLeft \in 0 .. 2 /\ LeftInIt \in 0 .. 8 + MaxPasses)
                 /\ [][OpeningCounts]_bringupVars
<1>1. BringupInit => OpeningInv BY TypesStart, BootIsInOrder DEF BringupInit, OpeningInv
<1>2. OpeningInv /\ [BringupNext]_bringupVars => OpeningInv' /\ [OpeningCounts]_bringupVars
  <2>1. ASSUME OpeningInv, UNCHANGED bringupVars PROVE OpeningInv'
    <3>1. BringupTypes' BY <2>1, BringupTypesNext DEF OpeningInv
    <3> QED BY <2>1, <3>1 DEF bringupVars, OpeningInv
  <2> QED BY <2>1, OpeningStep, BringupTypesNext DEF OpeningInv
<1>3. OpeningInv => StageLeft \in 0 .. 2 /\ LeftInIt \in 0 .. 8 + MaxPasses
  BY BringupAssumption DEF BringupAssumption, OpeningInv, BringupTypes, Short, StageLeft, LeftInIt
<1> QED BY <1>1, <1>2, <1>3, PTL DEF BringupSpec

-----------------------------------------------------------------------------
(* AtaDriver: types                                                        *)

Kinds == {"none", "nodata", "pio", "dma"}
PlanSteps == {"identify", "mode", "smart", "idle", "connect"}
Cmds == [kind : Kinds, dev : Devices, at : Nat, len : 0 .. Max48]
Reqs == [op : {"none", "configure", "io", "flush", "stop"}, at : Nat, n : 0 .. Max48, tries : Nat,
         first : Nat, last : Nat]
DriveStates == [busy : BOOLEAN, by : Clients, kind : Kinds, at : Nat, n : 0 .. Max48, left : Nat,
                fifo : Nat, intrq : BOOLEAN, err : {"ok", "io", "icrc"}]

BoardType ==
  /\ world \in Worlds
  /\ exists \in [Devices -> BOOLEAN] /\ connected \in SUBSET Devices
  /\ plan \in Seq(Devices \X PlanSteps)

SharedType ==
  /\ state \in [kind : Kinds, n : 0 .. Max48]
  /\ flag \in SUBSET {"complete", "timeout"} /\ irq \in SUBSET {"cmd", "fifo"}
  /\ waiter \in Clients \union {"none"} /\ alarm \in Clients \union {"none"}
  /\ drive \in DriveStates

ThreadType ==
  /\ pc \in [Clients -> Labels] /\ res \in [Clients -> Results]
  /\ cmd \in [Clients -> Cmds] /\ req \in [Clients -> Reqs]
  /\ served \in [Clients -> SUBSET (0 .. Sectors)]

(* What is asked of the drive lies on it.                                   *)
InRange ==
  /\ drive.kind = "dma" => drive.at + drive.n <= Sectors
  /\ \A t \in Clients :
       /\ pc[t] \in {"exec", "select", "issue"} /\ cmd[t].kind = "dma" => cmd[t].at + cmd[t].len <= Sectors
       /\ req[t].op = "io" => req[t].at + req[t].n <= Sectors

AtaTypes == BoardType /\ SharedType /\ ThreadType /\ InRange

LEMMA AtaStarts == AtaInit => AtaTypes
<1> SUFFICES ASSUME AtaInit PROVE AtaTypes OBVIOUS
<1> USE AtaAssumption DEF AtaAssumption
<1>1. BoardType BY DEF AtaInit, BoardType
<1>2. SharedType BY DEF AtaInit, SharedType, Kinds, DriveStates, Quiet, Clients
<1>3. ThreadType
  <2>1. NoCmd \in Cmds BY DEF NoCmd, Cmds, Kinds, Devices
  <2>2. NoReq \in Reqs BY DEF NoReq, Reqs
  <2> QED BY <2>1, <2>2 DEF AtaInit, ThreadType, Labels, Results
<1>4. InRange BY DEF AtaInit, InRange, Quiet, NoCmd, NoReq
<1> QED BY <1>1, <1>2, <1>3, <1>4 DEF AtaTypes

(* A thread goes to a label, back to the code that called, or to a command. *)
LEMMA GoesOn ==
  ASSUME ThreadType, NEW t \in Clients, NEW l \in Labels, Goto(t, l)
  PROVE  pc' \in [Clients -> Labels] /\ pc'[t] = l /\ \A x \in Clients \ {t} : pc'[x] = pc[x]
BY DEF ThreadType, Goto

LEMMA Returns ==
  ASSUME ThreadType, NEW t \in Clients, NEW r \in Results, Return(t, r)
  PROVE  /\ pc' \in [Clients -> Labels] /\ res' \in [Clients -> Results]
         /\ pc'[t] = IF t = "start" THEN "plan" ELSE "after"
         /\ res'[t] = r
         /\ \A x \in Clients \ {t} : pc'[x] = pc[x] /\ res'[x] = res[x]
BY DEF ThreadType, Goto, Return, Labels

LEMMA Finishes ==
  ASSUME ThreadType, NEW t \in Clients, NEW r \in Results, Finish(t, r)
  PROVE  /\ pc' \in [Clients -> Labels] /\ res' \in [Clients -> Results]
         /\ pc'[t] = "finish" /\ res'[t] = r
         /\ \A x \in Clients \ {t} : pc'[x] = pc[x] /\ res'[x] = res[x]
BY DEF ThreadType, Goto, Finish, Labels, InCommand, Waiting

LEMMA Commands ==
  ASSUME ThreadType, NEW t \in Clients, NEW k \in Kinds, NEW d \in Devices, NEW a \in Nat,
         NEW n \in 0 .. Max48, Command(t, k, d, a, n)
  PROVE  /\ pc' \in [Clients -> Labels] /\ cmd' \in [Clients -> Cmds]
         /\ pc'[t] = "exec" /\ cmd'[t] = [kind |-> k, dev |-> d, at |-> a, len |-> n]
         /\ \A x \in Clients \ {t} : pc'[x] = pc[x] /\ cmd'[x] = cmd[x]
BY DEF ThreadType, Goto, Command, Labels, InCommand, Cmds

(* The length of the next command: something, and no more than is left.     *)
LEMMA Lengths ==
  ASSUME AtaTypes, NEW t \in Clients, req[t].op = "io"
  PROVE  /\ Len16(req[t]) \in 0 .. req[t].n
         /\ req[t].n > 0 /\ req[t].n < Max48 => Len16(req[t]) > 0
<1> USE AtaAssumption DEF AtaAssumption
<1>1. req[t].n \in 0 .. Max48 BY DEF AtaTypes, ThreadType, Reqs
<1>2. CASE req[t].n < Max48
  <2>1. Least(req[t].n, Max48) = req[t].n BY <1>1, <1>2 DEF Least
  <2>2. req[t].n % Max48 = req[t].n BY <1>1, <1>2
  <2>3. Least(req[t].n, Max28) \in 0 .. req[t].n /\ (req[t].n > 0 => Least(req[t].n, Max28) > 0)
    BY <1>1 DEF Least
  <2> QED BY <1>1, <2>1, <2>2, <2>3 DEF Len16
<1>3. CASE req[t].n = Max48
  <2>1. Least(req[t].n, Max48) = Max48 BY <1>3 DEF Least
  <2>2. Max48 % Max48 = 0 OBVIOUS
  <2>3. Least(req[t].n, Max28) \in 0 .. req[t].n BY <1>1 DEF Least
  <2> QED BY <1>1, <1>3, <2>1, <2>2, <2>3 DEF Len16
<1> QED BY <1>1, <1>2, <1>3

-----------------------------------------------------------------------------
(* The steps of _start.                                                    *)

LEMMA InitStepTypes == AtaTypes /\ InitStep => AtaTypes'
<1> SUFFICES ASSUME AtaTypes, InitStep PROVE AtaTypes' OBVIOUS
<1>0. "start" \in Clients BY DEF Clients
<1>1. CASE Reset
  <2>1. pc' \in [Clients -> Labels] /\ pc'["start"] \in {"soft", "probe", "done"}
        /\ \A x \in Clients \ {"start"} : pc'[x] = pc[x]
    <3>1. PICK l \in {"soft", "probe", "done"} : Goto("start", l) BY <1>1 DEF Reset, InitFails
    <3> QED BY <1>0, <3>1, GoesOn DEF AtaTypes, Labels
  <2> QED BY <1>1, <2>1 DEF Reset, InitFails, AtaTypes, BoardType, SharedType, ThreadType, InRange, hw
<1>2. CASE Probe
  <2>1. pc' \in [Clients -> Labels] /\ pc'["start"] = "decide"
        /\ \A x \in Clients \ {"start"} : pc'[x] = pc[x]
    BY <1>0, <1>2, GoesOn DEF Probe, AtaTypes, Labels
  <2> QED BY <1>2, <2>1 DEF Probe, AtaTypes, BoardType, SharedType, ThreadType, InRange, hw
<1>3. CASE Decide
  <2>1. pc' \in [Clients -> Labels] /\ pc'["start"] \in {"plan", "done"}
        /\ \A x \in Clients \ {"start"} : pc'[x] = pc[x]
    <3>1. PICK l \in {"plan", "done"} : Goto("start", l) BY <1>3 DEF Decide, InitFails
    <3> QED BY <1>0, <3>1, GoesOn DEF AtaTypes, Labels
  <2>2. plan' \in Seq(Devices \X PlanSteps)
    <3>1. ASSUME NEW i \in Devices PROVE Config(i) \in Seq(Devices \X PlanSteps)
      BY <3>1 DEF Config, PlanSteps
    <3>2. ASSUME NEW slave \in Slaves
          PROVE  Config(0) \o (IF slave THEN Config(1) ELSE <<>>) \in Seq(Devices \X PlanSteps)
      <4>1. Config(0) \in Seq(Devices \X PlanSteps) /\ Config(1) \in Seq(Devices \X PlanSteps)
        BY <3>1 DEF Devices
      <4>2. (IF slave THEN Config(1) ELSE <<>>) \in Seq(Devices \X PlanSteps) BY <4>1
      <4> QED BY <4>1, <4>2, ConcatProperties
    <3> QED BY <1>3, <3>2 DEF Decide, InitFails, AtaTypes, BoardType
  <2>3. exists' \in [Devices -> BOOLEAN]
    <3>1. \A slave \in Slaves : slave \in BOOLEAN
      BY DEF AtaTypes, BoardType, Worlds, Slaves
    <3> QED BY <1>3, <3>1 DEF Decide, AtaTypes, BoardType, Devices
  <2>4. res' \in [Clients -> Results] BY <1>3 DEF Decide, InitFails, AtaTypes, ThreadType, Results
  <2>5. UNCHANGED <<world, connected, state, hw, waiter, cmd, req>> BY <1>3 DEF Decide, InitFails
  <2> QED BY <2>1, <2>2, <2>3, <2>4, <2>5 DEF AtaTypes, BoardType, SharedType, ThreadType, InRange, hw
<1>4. CASE Configure
  <2>1. PICK i \in {Head(plan)[1]} :
          \/ /\ req["start"].op = "none"
             /\ req' = [req EXCEPT !["start"].op = "configure"]
             /\ Command("start", IF Head(plan)[2] = "identify" THEN "pio" ELSE "nodata", i, 0, 1)
             /\ UNCHANGED <<exists, plan, res>>
          \/ /\ plan' = SubSeq(plan, Len(Config(i)) + 1, Len(plan))
             /\ UNCHANGED <<exists, pc, cmd, req, res>>
          \/ /\ req["start"].op = "configure"
             /\ req' = [req EXCEPT !["start"].op = "none"]
             /\ IF Head(plan)[2] = "identify" THEN Identified(i) ELSE plan' = Tail(plan) /\ UNCHANGED exists
             /\ res' = [res EXCEPT !["start"] = "ok"] /\ cmd' = [cmd EXCEPT !["start"] = NoCmd]
             /\ UNCHANGED pc
    BY <1>4 DEF Configure
  <2>2. plan # <<>> /\ plan \in Seq(Devices \X PlanSteps) BY <1>4 DEF Configure, AtaTypes, BoardType
  <2>3. i \in Devices
    <3>1. Head(plan) \in Devices \X PlanSteps BY <2>2
    <3> QED BY <3>1
  <2>4. UNCHANGED <<world, connected, state, hw, waiter>> BY <1>4 DEF Configure
  <2>10. SubSeq(plan, Len(Config(i)) + 1, Len(plan)) \in Seq(Devices \X PlanSteps)
    <3>1. Len(Config(i)) = 5 BY DEF Config
    <3> QED BY <2>2, <3>1, SubSeqProperties
  <2>11. CASE plan' = SubSeq(plan, Len(Config(i)) + 1, Len(plan)) /\ UNCHANGED <<exists, pc, cmd, req, res>>
    BY <2>4, <2>10, <2>11 DEF AtaTypes, BoardType, SharedType, ThreadType, InRange, hw
  <2> SUFFICES ASSUME ~ UNCHANGED req PROVE AtaTypes'
    <3>1. ASSUME UNCHANGED req PROVE AtaTypes'
      <4>1. req["start"] \in Reqs /\ req \in [Clients -> Reqs] BY <1>0 DEF AtaTypes, ThreadType
      <4>2. \A o : req' = [req EXCEPT !["start"].op = o] => req["start"].op = o
        BY <1>0, <3>1, <4>1 DEF Reqs
      <4> QED BY <2>1, <2>11, <4>2
    <3> QED BY <3>1
  <2>5. req' \in [Clients -> Reqs] /\ req'["start"].op \in {"none", "configure"}
        /\ \A x \in Clients \ {"start"} : req'[x] = req[x]
    <3>1. PICK o \in {"none", "configure"} : req' = [req EXCEPT !["start"].op = o] BY <2>1
    <3>2. req["start"] \in Reqs /\ req \in [Clients -> Reqs] BY <1>0 DEF AtaTypes, ThreadType
    <3>3. [req["start"] EXCEPT !.op = o] \in Reqs BY <3>2 DEF Reqs
    <3>4. req' = [req EXCEPT !["start"] = [req["start"] EXCEPT !.op = o]] BY <3>1
    <3>5. [req["start"] EXCEPT !.op = o].op = o BY <3>2 DEF Reqs
    <3> QED BY <1>0, <3>2, <3>3, <3>4, <3>5
  <2>6. CASE req["start"].op = "none"
    <3>1. Command("start", IF Head(plan)[2] = "identify" THEN "pio" ELSE "nodata", i, 0, 1)
          /\ UNCHANGED <<exists, plan, res>>
      BY <2>1, <2>6
    <3>2. 1 \in 0 .. Max48 BY AtaAssumption DEF AtaAssumption
    <3>3. pc' \in [Clients -> Labels] /\ cmd' \in [Clients -> Cmds] /\ cmd'["start"].kind # "dma"
          /\ \A x \in Clients \ {"start"} : pc'[x] = pc[x] /\ cmd'[x] = cmd[x]
      <4>1. PICK k \in {"pio", "nodata"} : Command("start", k, i, 0, 1) BY <3>1
      <4>2. k \in Kinds /\ 0 \in Nat /\ ThreadType BY DEF Kinds, AtaTypes
      <4>3. /\ pc' \in [Clients -> Labels] /\ cmd' \in [Clients -> Cmds]
            /\ cmd'["start"] = [kind |-> k, dev |-> i, at |-> 0, len |-> 1]
            /\ \A x \in Clients \ {"start"} : pc'[x] = pc[x] /\ cmd'[x] = cmd[x]
        BY <1>0, <2>3, <3>2, <4>1, <4>2, Commands
      <4> QED BY <4>3
    <3>4. BoardType' BY <2>4, <3>1 DEF AtaTypes, BoardType
    <3>5. SharedType' BY <2>4 DEF AtaTypes, SharedType, hw
    <3>6. ThreadType' BY <2>4, <2>5, <3>1, <3>3 DEF AtaTypes, ThreadType, hw
    <3>7. InRange' BY <2>4, <2>5, <3>3 DEF AtaTypes, InRange, hw
    <3> QED BY <3>4, <3>5, <3>6, <3>7 DEF AtaTypes
  <2>7. CASE req["start"].op = "configure"
    <3>1. /\ IF Head(plan)[2] = "identify" THEN Identified(i) ELSE plan' = Tail(plan) /\ UNCHANGED exists
          /\ res' = [res EXCEPT !["start"] = "ok"] /\ cmd' = [cmd EXCEPT !["start"] = NoCmd]
          /\ UNCHANGED pc
      BY <2>1, <2>7
    <3>2. NoCmd \in Cmds /\ NoCmd.kind # "dma" BY AtaAssumption DEF AtaAssumption, NoCmd, Cmds, Kinds, Devices
    <3>3. cmd' \in [Clients -> Cmds] /\ res' \in [Clients -> Results] /\ cmd'["start"] = NoCmd
          /\ \A x \in Clients \ {"start"} : cmd'[x] = cmd[x]
      BY <1>0, <3>1, <3>2 DEF AtaTypes, ThreadType, Results
    <3>4. exists' \in [Devices -> BOOLEAN]
      <4>1. exists' = exists \/ exists' = [exists EXCEPT ![i] = res["start"] = "ok"]
        BY <3>1 DEF Identified
      <4> QED BY <4>1 DEF AtaTypes, BoardType
    <3>5. plan' \in Seq(Devices \X PlanSteps)
      <4>1. Tail(plan) \in Seq(Devices \X PlanSteps) BY <2>2
      <4> QED BY <2>10, <3>1, <4>1 DEF Identified
    <3> QED BY <2>4, <2>5, <3>1, <3>2, <3>3, <3>4, <3>5
            DEF AtaTypes, BoardType, SharedType, ThreadType, InRange, hw
  <2> QED BY <2>1, <2>6, <2>7
<1>5. CASE Connect
  <2>1. plan' \in Seq(Devices \X PlanSteps) /\ connected' \in SUBSET Devices
    <3>1. plan # <<>> /\ plan \in Seq(Devices \X PlanSteps) BY <1>5 DEF Connect, AtaTypes, BoardType
    <3>2. Head(plan) \in Devices \X PlanSteps /\ Tail(plan) \in Seq(Devices \X PlanSteps) BY <3>1
    <3>3. Head(plan)[1] \in Devices BY <3>2
    <3> QED BY <1>5, <3>2, <3>3 DEF Connect, AtaTypes, BoardType
  <2> QED BY <1>5, <2>1 DEF Connect, AtaTypes, BoardType, SharedType, ThreadType, InRange, hw
<1>6. CASE Resident
  <2>1. pc' \in [Clients -> Labels] /\ pc'["start"] = "done"
        /\ \A x \in Clients \ {"start"} : pc'[x] = pc[x]
    BY <1>0, <1>6, GoesOn DEF Resident, AtaTypes, Labels
  <2> QED BY <1>6, <2>1 DEF Resident, AtaTypes, BoardType, SharedType, ThreadType, InRange, hw
<1> QED BY <1>1, <1>2, <1>3, <1>4, <1>5, <1>6 DEF InitStep

-----------------------------------------------------------------------------
(* The steps of a command.                                                 *)

(* A thread moves on in its command, or ends it, and asks nothing new.      *)
Moves(t) ==
  /\ pc' \in [Clients -> Labels] /\ res' \in [Clients -> Results]
  /\ pc'[t] \notin {"exec", "select", "issue"} \/ pc[t] \in {"exec", "select", "issue"}
  /\ \A x \in Clients \ {t} : pc'[x] = pc[x] /\ res'[x] = res[x]

LEMMA BitsType ==
  ASSUME SharedType, NEW t \in Clients, NEW bits, Bits(t, bits)
  PROVE  flag' \in SUBSET {"complete", "timeout"} /\ waiter' \in Clients \union {"none"}
BY DEF SharedType, Bits

LEMMA MovesTypes ==
  ASSUME AtaTypes, NEW t \in Clients, Moves(t), SharedType',
         UNCHANGED <<world, exists, connected, plan, req, served, drive>>,
         \/ UNCHANGED cmd
         \/ /\ cmd' = [cmd EXCEPT ![t].kind = state.kind, ![t].len = state.n]
            /\ pc'[t] \notin {"exec", "select", "issue"}
  PROVE  AtaTypes'
<1>1. BoardType' BY DEF AtaTypes, BoardType
<1>2. cmd' \in [Clients -> Cmds]
  <2>1. CASE UNCHANGED cmd BY <2>1 DEF AtaTypes, ThreadType
  <2>2. CASE cmd' = [cmd EXCEPT ![t].kind = state.kind, ![t].len = state.n]
    <3>1. [cmd[t] EXCEPT !.kind = state.kind, !.len = state.n] \in Cmds
      <4>1. cmd[t] \in Cmds BY DEF AtaTypes, ThreadType
      <4>2. state.kind \in Kinds /\ state.n \in 0 .. Max48 BY DEF AtaTypes, SharedType
      <4> QED BY <4>1, <4>2 DEF Cmds
    <3> QED BY <2>2, <3>1 DEF AtaTypes, ThreadType
  <2> QED BY <2>1, <2>2
<1>3. ThreadType' BY <1>2 DEF AtaTypes, ThreadType, Moves
<1>4. \A x \in Clients : cmd'[x] = cmd[x] \/ (x = t /\ pc'[t] \notin {"exec", "select", "issue"})
  BY DEF AtaTypes, ThreadType
<1>5. InRange' BY <1>4 DEF AtaTypes, InRange, Moves
<1> QED BY <1>1, <1>3, <1>5 DEF AtaTypes

LEMMA PlainMoves ==
  ASSUME ThreadType, NEW t \in Clients
  PROVE  /\ \A l \in Labels : Goto(t, l) /\ UNCHANGED res
                /\ (l \notin {"exec", "select", "issue"} \/ pc[t] \in {"exec", "select", "issue"}) => Moves(t)
         /\ \A r \in Results : Return(t, r) => Moves(t)
         /\ \A r \in Results : Finish(t, r) => Moves(t)
<1>1. ASSUME NEW l \in Labels, Goto(t, l), UNCHANGED res,
             l \notin {"exec", "select", "issue"} \/ pc[t] \in {"exec", "select", "issue"}
      PROVE  Moves(t)
  BY <1>1, GoesOn DEF Moves, ThreadType
<1>2. ASSUME NEW r \in Results, Return(t, r) PROVE Moves(t)
  BY <1>2, Returns DEF Moves
<1>3. ASSUME NEW r \in Results, Finish(t, r) PROVE Moves(t)
  BY <1>3, Finishes DEF Moves
<1> QED BY <1>1, <1>2, <1>3

LEMMA ExecTypes ==
  ASSUME AtaTypes, NEW t \in Clients, Exec(t) \/ Select(t) \/ Wait(t) \/ Sleep(t) \/ Flag(t) \/ DmaEnd(t)
           \/ DmaWait(t) \/ EndWait(t) \/ Pio(t) \/ End(t)
  PROVE  AtaTypes'
<1>0. ThreadType /\ SharedType BY DEF AtaTypes
<1>1. CASE Exec(t)
  <2>1. Moves(t) BY <1>0, <1>1, PlainMoves DEF Exec, Labels, InCommand, Results
  <2>2. SharedType' BY <1>0, <1>1 DEF Exec, SharedType
  <2> QED BY <1>1, <2>1, <2>2, MovesTypes DEF Exec
<1>2. CASE Select(t)
  <2>1. Moves(t) BY <1>0, <1>2, PlainMoves DEF Select, Labels, InCommand, Results
  <2>2. SharedType' BY <1>0, <1>2 DEF Select, SharedType, hw
  <2> QED BY <1>2, <2>1, <2>2, MovesTypes DEF Select, hw
<1>3. CASE Wait(t)
  <2>1. PICK l \in {"flag", "dma", "pio"} : Goto(t, l)
    BY <1>3 DEF Wait
  <2>2. l \in Labels BY DEF Labels, InCommand, Waiting, InWait
  <2>3. Moves(t) BY <1>0, <1>3, <2>1, <2>2, PlainMoves DEF Wait
  <2>4. pc'[t] \notin {"exec", "select", "issue"} BY <1>0, <2>1, <2>2, GoesOn
  <2>5. SharedType' BY <1>0, <1>3 DEF Wait, SharedType, Stays, hw
  <2> QED BY <1>3, <2>3, <2>4, <2>5, MovesTypes DEF Wait, Stays, hw
<1>4. CASE Sleep(t)
  <2>1. Moves(t) BY <1>0, <1>4 DEF Sleep, Moves, ThreadType
  <2>2. SharedType' BY <1>0, <1>4 DEF Sleep, SharedType, Stays, hw
  <2> QED BY <1>4, <2>1, <2>2, MovesTypes DEF Sleep, Stays, hw
<1>5. CASE Flag(t)
  <2>1. PICK bits \in SUBSET {"complete", "timeout"} :
          Bits(t, bits) /\ (Return(t, "timeout") \/ (Goto(t, "settle") /\ UNCHANGED res))
    BY <1>5 DEF Flag
  <2>2. "settle" \in Labels /\ "timeout" \in Results BY DEF Labels, InCommand, Waiting, InWait, Results
  <2>3. Moves(t) BY <1>0, <2>1, <2>2, PlainMoves
  <2>4. SharedType' BY <1>0, <1>5, <2>1, BitsType DEF Flag, SharedType, Stays
  <2> QED BY <1>5, <2>3, <2>4, MovesTypes DEF Flag, Stays
<1>6. CASE DmaEnd(t)
  <2>1. PICK l \in {"settle", "endwait"} : Goto(t, l) BY <1>6 DEF DmaEnd
  <2>2. l \in Labels BY DEF Labels, InCommand, Waiting, InWait
  <2>3. Moves(t) BY <1>0, <1>6, <2>1, <2>2, PlainMoves DEF DmaEnd
  <2>4. SharedType' BY <1>0, <1>6 DEF DmaEnd, SharedType, Stays
  <2> QED BY <1>6, <2>3, <2>4, MovesTypes DEF DmaEnd, Stays
<1>7. CASE DmaWait(t)
  <2>1. PICK bits \in SUBSET {"complete", "timeout"} :
          /\ Bits(t, bits)
          /\ Finish(t, "timeout") \/ Finish(t, drive.err) \/ (Goto(t, "dma") /\ UNCHANGED res)
    BY <1>7 DEF DmaWait
  <2>2. "dma" \in Labels /\ "timeout" \in Results /\ drive.err \in Results
    BY <1>0 DEF Labels, InCommand, Waiting, InWait, Results, SharedType, DriveStates
  <2>3. Moves(t) BY <1>0, <2>1, <2>2, PlainMoves
  <2>4. SharedType' BY <1>0, <1>7, <2>1, BitsType DEF DmaWait, SharedType, Stays
  <2> QED BY <1>7, <2>3, <2>4, MovesTypes DEF DmaWait, Stays
<1>8. CASE EndWait(t)
  <2>1. PICK bits \in SUBSET {"complete", "timeout"} :
          Bits(t, bits) /\ (Finish(t, "timeout") \/ (Goto(t, "settle") /\ UNCHANGED res))
    BY <1>8 DEF EndWait
  <2>2. "settle" \in Labels /\ "timeout" \in Results BY DEF Labels, InCommand, Waiting, InWait, Results
  <2>3. Moves(t) BY <1>0, <2>1, <2>2, PlainMoves
  <2>4. SharedType' BY <1>0, <1>8, <2>1, BitsType DEF EndWait, SharedType, Stays
  <2> QED BY <1>8, <2>3, <2>4, MovesTypes DEF EndWait, Stays
<1>9. CASE Pio(t)
  <2>1. (\E r \in {"timeout", "io", "nodata"} : Finish(t, r)) \/ (Goto(t, "settle") /\ UNCHANGED res)
    BY <1>9 DEF Pio
  <2>2. "settle" \in Labels /\ {"timeout", "io", "nodata"} \subseteq Results
    BY DEF Labels, InCommand, Waiting, InWait, Results
  <2>3. Moves(t) BY <1>0, <2>1, <2>2, PlainMoves
  <2>4. SharedType' BY <1>0, <1>9 DEF Pio, SharedType, Stays, hw
  <2> QED BY <1>9, <2>3, <2>4, MovesTypes DEF Pio, Stays, hw
<1>10. CASE End(t)
  <2>1. res[t] \in Results BY <1>0 DEF ThreadType
  <2>2. Moves(t) BY <1>0, <1>10, <2>1, PlainMoves DEF End
  <2>3. SharedType' BY <1>0, <1>10 DEF End, SharedType, Stays
  <2> QED BY <1>10, <2>2, <2>3, MovesTypes DEF End, Stays
<1> QED BY <1>1, <1>2, <1>3, <1>4, <1>5, <1>6, <1>7, <1>8, <1>9, <1>10

LEMMA IssueTypes ==
  ASSUME AtaTypes, NEW t \in Clients, Issue(t)
  PROVE  AtaTypes'
<1>0. ThreadType /\ SharedType /\ cmd[t] \in Cmds BY DEF AtaTypes, ThreadType
<1>1. pc[t] = "issue" /\ state' = [kind |-> cmd[t].kind, n |-> cmd[t].len]
      /\ UNCHANGED <<world, exists, connected, plan, flag, served, waiter, cmd, req>>
  BY DEF Issue
<1>2. state' \in [kind : Kinds, n : 0 .. Max48] BY <1>0, <1>1 DEF Cmds
<1>3. Moves(t)
  <2>1. {"notready", "alarm"} \subseteq Results /\ "wait" \in Labels
    BY DEF Results, Labels, InCommand, Waiting
  <2>2. (\E r \in {"notready", "alarm"} : Return(t, r)) \/ (Goto(t, "wait") /\ UNCHANGED res)
    BY DEF Issue
  <2> QED BY <1>0, <2>1, <2>2, PlainMoves
<1>4. CASE UNCHANGED <<alarm, irq, drive>>
  <2>1. SharedType' BY <1>0, <1>1, <1>2, <1>4 DEF SharedType
  <2> QED BY <1>1, <1>3, <1>4, <2>1, MovesTypes
<1>5. CASE /\ alarm' \in {t, alarm} /\ irq' \in {irq, irq \union {"cmd"}}
           /\ drive' = [Quiet EXCEPT !.busy = TRUE, !.by = t, !.kind = cmd[t].kind, !.at = cmd[t].at,
                                  !.n = cmd[t].len, !.left = IF cmd[t].kind = "dma" THEN cmd[t].len ELSE 0]
  <2>1. drive' \in DriveStates /\ drive'.kind = cmd[t].kind /\ drive'.at = cmd[t].at /\ drive'.n = cmd[t].len
    <3>1. drive' = [busy |-> TRUE, by |-> t, kind |-> cmd[t].kind, at |-> cmd[t].at, n |-> cmd[t].len,
                    left |-> IF cmd[t].kind = "dma" THEN cmd[t].len ELSE 0, fifo |-> 0, intrq |-> FALSE,
                    err |-> "ok"]
      BY <1>5 DEF Quiet
    <3>2. /\ cmd[t].kind \in Kinds /\ cmd[t].at \in Nat /\ cmd[t].len \in 0 .. Max48
          /\ (IF cmd[t].kind = "dma" THEN cmd[t].len ELSE 0) \in Nat
      BY <1>0 DEF Cmds
    <3>3. drive' \in DriveStates BY <3>1, <3>2, Zenon DEF DriveStates
    <3> QED BY <3>1, <3>3
  <2>2. SharedType' BY <1>0, <1>1, <1>2, <1>5, <2>1 DEF SharedType
  <2>3. BoardType' BY <1>1 DEF AtaTypes, BoardType
  <2>4. ThreadType' BY <1>0, <1>1, <1>3 DEF ThreadType, Moves
  <2>5. InRange' BY <1>1, <1>3, <2>1 DEF AtaTypes, InRange, Moves
  <2> QED BY <2>2, <2>3, <2>4, <2>5 DEF AtaTypes
<1>6. UNCHANGED <<alarm, irq, drive>> \/
           /\ alarm' \in {t, alarm} /\ irq' \in {irq, irq \union {"cmd"}}
           /\ drive' = [Quiet EXCEPT !.busy = TRUE, !.by = t, !.kind = cmd[t].kind, !.at = cmd[t].at,
                                  !.n = cmd[t].len, !.left = IF cmd[t].kind = "dma" THEN cmd[t].len ELSE 0]
  BY DEF Issue
<1> QED BY <1>4, <1>5, <1>6

(* What a step does to the drive leaves the command it has.                 *)
SameJob(d) == d \in DriveStates /\ d.by = drive.by /\ d.kind = drive.kind /\ d.at = drive.at /\ d.n = drive.n

LEMMA SettleTypes ==
  ASSUME AtaTypes, NEW t \in Clients, Settle(t)
  PROVE  AtaTypes' /\ SameJob(drive')
<1>0. ThreadType /\ SharedType /\ drive \in DriveStates BY DEF AtaTypes, SharedType
<1>1. SameJob(drive')
  <2>1. drive' = drive \/ drive' = [drive EXCEPT !.intrq = FALSE] BY DEF Settle
  <2>2. [drive EXCEPT !.intrq = FALSE] \in DriveStates BY <1>0, Zenon DEF DriveStates
  <2> QED BY <1>0, <2>1, <2>2 DEF SameJob, DriveStates
<1>2. Moves(t)
  <2>1. Finish(t, "timeout") \/ Finish(t, drive.err) BY DEF Settle
  <2>2. "timeout" \in Results /\ drive.err \in Results BY <1>0 DEF Results, DriveStates
  <2> QED BY <1>0, <2>1, <2>2, PlainMoves
<1>3. UNCHANGED <<flag, alarm, irq, served, waiter, cmd>> /\ Stays BY DEF Settle
<1>4. SharedType' BY <1>0, <1>1, <1>3 DEF SharedType, Stays, SameJob
<1>5. ThreadType' BY <1>0, <1>2, <1>3 DEF ThreadType, Moves, Stays
<1>6. InRange' BY <1>1, <1>2, <1>3 DEF AtaTypes, InRange, Moves, Stays, SameJob
<1>7. BoardType' BY <1>3 DEF AtaTypes, BoardType, Stays
<1> QED BY <1>1, <1>4, <1>5, <1>6, <1>7 DEF AtaTypes

LEMMA DmaTypes ==
  ASSUME AtaTypes, NEW t \in Clients, Dma(t)
  PROVE  /\ AtaTypes' /\ SameJob(drive') /\ Moves(t)
         /\ pc'[t] \in {"dma", "dmaend", "dmawait"} \/ Finish(t, "spd")
<1>0. ThreadType /\ SharedType /\ drive \in DriveStates /\ pc[t] = "dma" /\ cmd[t] \in Cmds
  BY DEF AtaTypes, SharedType, Dma, ThreadType
<1>1. /\ UNCHANGED <<flag, alarm, served, waiter>> /\ Stays
      /\ irq' \in SUBSET {"cmd", "fifo"}
  BY <1>0 DEF Dma, SharedType
<1>2. SameJob(drive')
  <2>1. drive' = drive \/ (drive.fifo > 0 /\ drive' = [drive EXCEPT !.fifo = @ - 1]) BY DEF Dma
  <2>2. drive.fifo > 0 => drive.fifo - 1 \in Nat BY <1>0 DEF DriveStates
  <2>3. ASSUME drive.fifo - 1 \in Nat PROVE [drive EXCEPT !.fifo = drive.fifo - 1] \in DriveStates
    BY <1>0, <2>3, Zenon DEF DriveStates
  <2> QED BY <1>0, <2>1, <2>2, <2>3 DEF SameJob, DriveStates
<1>3. cmd' \in [Clients -> Cmds] /\ \A x \in Clients : cmd'[x] # cmd[x] => x = t
  <2>1. cmd' = cmd \/ (cmd[t].len > 0 /\ cmd' = [cmd EXCEPT ![t].len = @ - 1]) BY DEF Dma
  <2>2. cmd[t].len > 0 => [cmd[t] EXCEPT !.len = @ - 1] \in Cmds BY <1>0, AtaAssumption DEF Cmds, AtaAssumption
  <2> QED BY <1>0, <2>1, <2>2 DEF ThreadType
<1>4. Moves(t) /\ (pc'[t] \in {"dma", "dmaend", "dmawait"} \/ Finish(t, "spd"))
  <2>1. (UNCHANGED res /\ (UNCHANGED pc \/ Goto(t, "dmaend") \/ Goto(t, "dmawait"))) \/ Finish(t, "spd") BY DEF Dma
  <2>2. "dmaend" \in Labels /\ "dmawait" \in Labels /\ "spd" \in Results
    BY DEF Labels, InCommand, Waiting, InWait, Results
  <2> QED BY <1>0, <2>1, <2>2, PlainMoves, GoesOn DEF Moves, ThreadType
<1>5. SharedType' BY <1>0, <1>1, <1>2 DEF SharedType, Stays, SameJob
<1>6. ThreadType' BY <1>0, <1>1, <1>3, <1>4 DEF ThreadType, Moves, Stays
<1>9. pc'[t] \notin {"exec", "select", "issue"} BY <1>0, <1>4, Finishes DEF Results
<1>7. InRange' BY <1>1, <1>2, <1>3, <1>4, <1>9 DEF AtaTypes, InRange, Moves, Stays, SameJob
<1>8. BoardType' BY <1>1 DEF AtaTypes, BoardType, Stays
<1> QED BY <1>2, <1>4, <1>5, <1>6, <1>7, <1>8 DEF AtaTypes

LEMMA CommandStepTypes ==
  ASSUME AtaTypes, NEW t \in Clients, CommandStep(t)
  PROVE  AtaTypes'
BY ExecTypes, IssueTypes, DmaTypes, SettleTypes DEF CommandStep

-----------------------------------------------------------------------------
(* Requests, and what is around.                                           *)

LEMMA BeginTypes ==
  ASSUME AtaTypes, NEW t \in Clients, NEW o \in {"io", "flush", "stop"}, NEW a \in Nat, NEW n \in 0 .. Max48,
         o = "io" => a + n <= Sectors, Begin(t, o, a, n)
  PROVE  AtaTypes'
<1>0. ThreadType BY DEF AtaTypes
<1>1. UNCHANGED <<world, exists, connected, plan, state, flag, alarm, irq, drive, waiter, cmd>> BY DEF Begin
<1>2. pc' \in [Clients -> Labels] /\ pc'[t] = "chunk" /\ \A x \in Clients \ {t} : pc'[x] = pc[x]
  BY <1>0, GoesOn DEF Begin, Labels
<1>3. req' = [req EXCEPT ![t] = [op |-> o, at |-> a, n |-> n, tries |-> 0, first |-> a, last |-> a + n]]
      /\ served' = [served EXCEPT ![t] = {}] /\ res' = [res EXCEPT ![t] = "ok"]
  BY DEF Begin
<1>4. [op |-> o, at |-> a, n |-> n, tries |-> 0, first |-> a, last |-> a + n] \in Reqs BY DEF Reqs
<1>5. ThreadType' BY <1>0, <1>1, <1>2, <1>3, <1>4 DEF ThreadType, Results
<1>6. InRange' BY <1>0, <1>1, <1>2, <1>3 DEF AtaTypes, InRange, ThreadType
<1> QED BY <1>1, <1>5, <1>6 DEF AtaTypes, BoardType, SharedType

LEMMA AsksTypes == AtaTypes /\ Asks => AtaTypes'
<1> SUFFICES ASSUME AtaTypes, NEW t \in Clients, Transfer(t) \/ Flush(t) \/ Stop(t) PROVE AtaTypes' BY DEF Asks
<1>1. CASE Transfer(t)
  <2>1. PICK a \in 0 .. Sectors - 1, n \in 1 .. Sectors : a + n <= Sectors /\ n < Max48 /\ Begin(t, "io", a, n)
    <3>1. PICK a \in 0 .. Sectors - 1 : \E n \in 1 .. Sectors - a : n < Max48 /\ Begin(t, "io", a, n)
      BY <1>1 DEF Transfer
    <3>2. PICK n \in 1 .. Sectors - a : n < Max48 /\ Begin(t, "io", a, n) BY <3>1
    <3>3. n \in 1 .. Sectors /\ a + n <= Sectors BY AtaAssumption DEF AtaAssumption
    <3> QED BY <3>2, <3>3
  <2>2. a \in Nat /\ n \in 0 .. Max48 BY <2>1, AtaAssumption DEF AtaAssumption
  <2> QED BY <2>1, <2>2, BeginTypes
<1>2. CASE Flush(t) \/ Stop(t)
  <2>1. 0 \in 0 .. Max48 BY AtaAssumption DEF AtaAssumption
  <2> QED BY <1>2, <2>1, BeginTypes DEF Flush, Stop
<1> QED BY <1>1, <1>2

LEMMA ChunkTypes ==
  ASSUME AtaTypes, NEW t \in Clients, Chunk(t)
  PROVE  AtaTypes'
<1>0. ThreadType /\ req[t] \in Reqs BY DEF AtaTypes, ThreadType
<1>1. UNCHANGED <<world, exists, connected, plan, state, hw, waiter, res>> BY DEF Chunk
<1>2. CASE req[t].op # "io"
  <2>1. Command(t, "nodata", 0, 0, 1) /\ UNCHANGED req BY <1>2 DEF Chunk
  <2>2. "nodata" \in Kinds /\ 0 \in Devices /\ 1 \in 0 .. Max48
    BY AtaAssumption DEF AtaAssumption, Kinds, Devices
  <2>3. /\ pc' \in [Clients -> Labels] /\ cmd' \in [Clients -> Cmds]
        /\ cmd'[t].kind # "dma"
        /\ \A x \in Clients \ {t} : pc'[x] = pc[x] /\ cmd'[x] = cmd[x]
    <3>1. 0 \in Nat OBVIOUS
    <3>2. /\ pc' \in [Clients -> Labels] /\ cmd' \in [Clients -> Cmds]
          /\ cmd'[t] = [kind |-> "nodata", dev |-> 0, at |-> 0, len |-> 1]
          /\ \A x \in Clients \ {t} : pc'[x] = pc[x] /\ cmd'[x] = cmd[x]
      BY <1>0, <2>1, <2>2, <3>1, Commands
    <3> QED BY <3>2
  <2>4. ThreadType' BY <1>0, <1>1, <2>1, <2>3 DEF ThreadType, hw
  <2>5. InRange' BY <1>1, <2>1, <2>3 DEF AtaTypes, InRange, hw
  <2> QED BY <1>1, <2>4, <2>5 DEF AtaTypes, BoardType, SharedType, hw
<1>3. CASE req[t].op = "io"
  <2>1. Command(t, "dma", 0, req[t].at, Len16(req[t])) /\ req' = [req EXCEPT ![t].tries = Retries]
    BY <1>3 DEF Chunk
  <2>2. Len16(req[t]) \in 0 .. req[t].n BY <1>3, Lengths
  <2>3. /\ "dma" \in Kinds /\ 0 \in Devices /\ Len16(req[t]) \in 0 .. Max48 /\ req[t].at \in Nat
        /\ req[t].at + Len16(req[t]) <= Sectors
    BY <1>0, <1>3, <2>2, AtaAssumption DEF Reqs, Kinds, Devices, AtaTypes, InRange, AtaAssumption
  <2>4. /\ pc' \in [Clients -> Labels] /\ cmd' \in [Clients -> Cmds]
        /\ cmd'[t] = [kind |-> "dma", dev |-> 0, at |-> req[t].at, len |-> Len16(req[t])]
        /\ \A x \in Clients \ {t} : pc'[x] = pc[x] /\ cmd'[x] = cmd[x]
    BY <1>0, <2>1, <2>3, Commands
  <2>5. /\ req' \in [Clients -> Reqs] /\ \A x \in Clients \ {t} : req'[x] = req[x]
        /\ req'[t].op = "io" /\ req'[t].at = req[t].at /\ req'[t].n = req[t].n
    <3>1. [req[t] EXCEPT !.tries = Retries] \in Reqs BY <1>0, AtaAssumption DEF Reqs, AtaAssumption
    <3> QED BY <1>0, <1>3, <2>1, <3>1 DEF ThreadType, Reqs
  <2>6. ThreadType' BY <1>0, <1>1, <2>4, <2>5 DEF ThreadType, hw
  <2>7. InRange' BY <1>1, <1>3, <2>3, <2>4, <2>5 DEF AtaTypes, InRange, hw
  <2> QED BY <1>1, <2>6, <2>7 DEF AtaTypes, BoardType, SharedType, hw
<1> QED BY <1>2, <1>3

LEMMA RepliedTypes ==
  ASSUME ThreadType, NEW t \in Clients, Replied(t)
  PROVE  /\ pc' \in [Clients -> Labels] /\ pc'[t] = "idle" /\ \A x \in Clients \ {t} : pc'[x] = pc[x]
         /\ cmd' \in [Clients -> Cmds] /\ \A x \in Clients \ {t} : cmd'[x] = cmd[x]
         /\ res' \in [Clients -> Results] /\ served' \in [Clients -> SUBSET (0 .. Sectors)]
<1>1. NoCmd \in Cmds BY AtaAssumption DEF AtaAssumption, NoCmd, Cmds, Kinds, Devices
<1>2. pc' \in [Clients -> Labels] /\ pc'[t] = "idle" /\ \A x \in Clients \ {t} : pc'[x] = pc[x]
  <2>1. Goto(t, "idle") /\ "idle" \in Labels BY DEF Replied, Labels
  <2> QED BY <2>1, GoesOn DEF ThreadType
<1>3. cmd' \in [Clients -> Cmds] /\ \A x \in Clients \ {t} : cmd'[x] = cmd[x]
  BY <1>1 DEF Replied, ThreadType
<1>4. res' \in [Clients -> Results]
  <2>1. res' = res \/ res' = [res EXCEPT ![t] = "ok"] BY DEF Replied
  <2> QED BY <2>1 DEF ThreadType, Results
<1>5. served' \in [Clients -> SUBSET (0 .. Sectors)]
  <2>1. served' = served \/ served' = [served EXCEPT ![t] = {}] BY DEF Replied
  <2> QED BY <2>1 DEF ThreadType
<1> QED BY <1>2, <1>3, <1>4, <1>5

LEMMA AfterTypes ==
  ASSUME AtaTypes, NEW t \in Clients, After(t)
  PROVE  AtaTypes'
<1> DEFINE len == Len16(req[t])
<1>0. ThreadType /\ req[t] \in Reqs /\ req \in [Clients -> Reqs] BY DEF AtaTypes, ThreadType
<1>1. UNCHANGED <<world, exists, connected, plan, state, flag, alarm, irq, drive, waiter>> /\ pc[t] = "after" BY DEF After
<1>2. req[t].op = "io" => len \in 0 .. req[t].n BY Lengths
<1>3. CASE /\ req[t].op = "io" /\ req[t].tries > 1 /\ req' = [req EXCEPT ![t].tries = @ - 1]
           /\ Command(t, "dma", 0, req[t].at, len) /\ UNCHANGED <<res, served>>
  <2>1. /\ "dma" \in Kinds /\ 0 \in Devices /\ len \in 0 .. Max48 /\ req[t].at \in Nat
        /\ req[t].at + len <= Sectors
    BY <1>0, <1>2, <1>3, AtaAssumption DEF Reqs, Kinds, Devices, AtaTypes, InRange, AtaAssumption
  <2>2. /\ pc' \in [Clients -> Labels] /\ cmd' \in [Clients -> Cmds]
        /\ cmd'[t] = [kind |-> "dma", dev |-> 0, at |-> req[t].at, len |-> len]
        /\ \A x \in Clients \ {t} : pc'[x] = pc[x] /\ cmd'[x] = cmd[x]
    BY <1>0, <1>3, <2>1, Commands
  <2>3. /\ req' \in [Clients -> Reqs] /\ \A x \in Clients \ {t} : req'[x] = req[x]
        /\ req'[t].op = "io" /\ req'[t].at = req[t].at /\ req'[t].n = req[t].n
    <3>1. [req[t] EXCEPT !.tries = @ - 1] \in Reqs BY <1>0, <1>3 DEF Reqs
    <3> QED BY <1>0, <1>3, <3>1 DEF Reqs
  <2>4. ThreadType' BY <1>0, <1>3, <2>2, <2>3 DEF ThreadType
  <2>5. InRange' BY <1>1, <1>3, <2>1, <2>2, <2>3 DEF AtaTypes, InRange
  <2> QED BY <1>1, <2>4, <2>5 DEF AtaTypes, BoardType, SharedType
<1>4. CASE /\ req[t].op = "io"
           /\ \/ /\ req' = [req EXCEPT ![t].at = @ + len, ![t].n = @ - len, ![t].tries = 0]
                 /\ Goto(t, "chunk") /\ cmd' = [cmd EXCEPT ![t] = NoCmd] /\ UNCHANGED <<res, served>>
              \/ /\ req' = [req EXCEPT ![t].at = @ + len, ![t].n = 0, ![t].tries = 0]
                 /\ Replied(t)
  <2>1. /\ pc' \in [Clients -> Labels] /\ pc'[t] \in {"chunk", "idle"} /\ \A x \in Clients \ {t} : pc'[x] = pc[x]
        /\ cmd' \in [Clients -> Cmds] /\ \A x \in Clients \ {t} : cmd'[x] = cmd[x]
        /\ res' \in [Clients -> Results] /\ served' \in [Clients -> SUBSET (0 .. Sectors)]
    <3>1. NoCmd \in Cmds BY AtaAssumption DEF AtaAssumption, NoCmd, Cmds, Kinds, Devices
    <3>2. CASE Goto(t, "chunk") /\ cmd' = [cmd EXCEPT ![t] = NoCmd] /\ UNCHANGED <<res, served>>
      BY <1>0, <3>1, <3>2, GoesOn DEF Labels, ThreadType
    <3> QED BY <1>0, <1>4, <3>2, RepliedTypes
  <2>2. PICK m \in {req[t].n - len, 0} :
          req' = [req EXCEPT ![t] = [req[t] EXCEPT !.at = req[t].at + len, !.n = m, !.tries = 0]]
    BY <1>4
  <2> HIDE DEF len
  <2>3. /\ req[t].at + len \in Nat /\ m \in 0 .. Max48 /\ 0 \in Nat
        /\ (req[t].at + len) + m <= req[t].at + req[t].n
    BY <1>0, <1>2, <1>4, AtaAssumption DEF Reqs, AtaAssumption
  <2>4. /\ [req[t] EXCEPT !.at = req[t].at + len, !.n = m, !.tries = 0] \in Reqs
        /\ [req[t] EXCEPT !.at = req[t].at + len, !.n = m, !.tries = 0].at = req[t].at + len
        /\ [req[t] EXCEPT !.at = req[t].at + len, !.n = m, !.tries = 0].n = m
    BY <1>0, <2>3 DEF Reqs
  <2>5. /\ req' \in [Clients -> Reqs] /\ \A x \in Clients \ {t} : req'[x] = req[x]
        /\ req'[t].at = req[t].at + len /\ req'[t].n = m
    BY <1>0, <2>2, <2>4
  <2>6. ThreadType' BY <2>1, <2>5 DEF ThreadType
  <2>7. req[t].at + req[t].n <= Sectors BY <1>4 DEF AtaTypes, InRange
  <2>8. req'[t].at + req'[t].n <= Sectors
    BY <1>0, <2>3, <2>5, <2>7, AtaAssumption DEF Reqs, AtaAssumption
  <2>9. InRange' BY <1>1, <2>1, <2>5, <2>8 DEF AtaTypes, InRange
  <2> QED BY <1>1, <2>6, <2>9 DEF AtaTypes, BoardType, SharedType
<1>5. CASE req' = [req EXCEPT ![t] = NoReq] /\ Replied(t)
  <2>1. NoReq \in Reqs /\ NoReq.op = "none" BY AtaAssumption DEF NoReq, Reqs, AtaAssumption
  <2>2. req' \in [Clients -> Reqs] /\ req'[t].op = "none" /\ \A x \in Clients \ {t} : req'[x] = req[x]
    BY <1>0, <1>5, <2>1
  <2>3. ThreadType' BY <1>0, <1>5, <2>2, RepliedTypes DEF ThreadType
  <2>4. InRange' BY <1>0, <1>1, <1>5, <2>2, RepliedTypes DEF AtaTypes, InRange
  <2> QED BY <1>1, <2>3, <2>4 DEF AtaTypes, BoardType, SharedType
<1> QED BY <1>3, <1>4, <1>5 DEF After, Retried

LEMMA AroundTypes ==
  AtaTypes /\ (DriveOffers \/ DriveEnds \/ Interrupt \/ AlarmFires \/ NewCard) => AtaTypes' /\ SameJob(drive')
<1> SUFFICES ASSUME AtaTypes, DriveOffers \/ DriveEnds \/ Interrupt \/ AlarmFires \/ NewCard
             PROVE  AtaTypes' /\ SameJob(drive')
  OBVIOUS
<1>0. ThreadType /\ SharedType /\ drive \in DriveStates BY DEF AtaTypes, SharedType
<1>1. Around BY DEF DriveOffers, DriveEnds, Interrupt, AlarmFires, NewCard
<1>2. SameJob(drive')
  <2>1. CASE DriveOffers
    <3>1. drive' = [drive EXCEPT !.left = drive.left - 1, !.fifo = 1] /\ drive.left > 0 BY <2>1 DEF DriveOffers
    <3>2. drive.left - 1 \in Nat /\ 1 \in Nat BY <1>0, <3>1 DEF DriveStates
    <3>3. drive' \in DriveStates BY <1>0, <3>1, <3>2, Zenon DEF DriveStates
    <3> QED BY <1>0, <3>1, <3>3 DEF SameJob, DriveStates
  <2>2. CASE DriveEnds
    <3>1. PICK err \in {"ok", "io", "icrc"} :
            drive' = [drive EXCEPT !.busy = FALSE, !.intrq = drive.kind # "pio", !.err = err, !.left = 0]
      BY <2>2 DEF DriveEnds
    <3>2. (drive.kind # "pio") \in BOOLEAN /\ 0 \in Nat OBVIOUS
    <3>3. drive' \in DriveStates BY <1>0, <3>1, <3>2, Zenon DEF DriveStates
    <3> QED BY <1>0, <3>1, <3>3 DEF SameJob, DriveStates
  <2>3. CASE Interrupt \/ AlarmFires \/ NewCard
    BY <1>0, <2>3 DEF Interrupt, AlarmFires, NewCard, SameJob, hw
  <2> QED BY <2>1, <2>2, <2>3
<1>3. served' \in [Clients -> SUBSET (0 .. Sectors)]
  <2>1. CASE UNCHANGED served BY <1>0, <2>1 DEF ThreadType
  <2>2. CASE drive.kind = "dma" /\ served' = [served EXCEPT ![drive.by] = @ \union (drive.at .. drive.at + drive.n - 1)]
    <3>1. drive.at .. drive.at + drive.n - 1 \subseteq 0 .. Sectors
      BY <1>0, <2>2, AtaAssumption DEF AtaTypes, InRange, DriveStates, AtaAssumption
    <3> QED BY <1>0, <2>2, <3>1 DEF ThreadType, DriveStates
  <2> QED BY <2>1, <2>2 DEF DriveOffers, DriveEnds, Interrupt, AlarmFires, NewCard, hw
<1>4. exists' \in [Devices -> BOOLEAN]
  BY DEF AtaTypes, BoardType, DriveOffers, DriveEnds, Interrupt, AlarmFires, NewCard
<1>5. flag' \in SUBSET {"complete", "timeout"} /\ irq' \in SUBSET {"cmd", "fifo"} /\ alarm' \in Clients \union {"none"}
  BY <1>0 DEF SharedType, DriveOffers, DriveEnds, Interrupt, AlarmFires, NewCard, hw
<1>6. SharedType' BY <1>0, <1>1, <1>2, <1>5 DEF SharedType, Around, SameJob
<1>7. ThreadType' BY <1>0, <1>1, <1>3 DEF ThreadType, Around
<1>8. InRange' BY <1>1, <1>2 DEF AtaTypes, InRange, Around, SameJob
<1>9. BoardType' BY <1>1, <1>4 DEF AtaTypes, BoardType, Around
<1> QED BY <1>2, <1>6, <1>7, <1>8, <1>9 DEF AtaTypes

LEMMA AtaTypesNext == AtaTypes /\ [AtaNext]_ataVars => AtaTypes'
<1> SUFFICES ASSUME AtaTypes, [AtaNext]_ataVars PROVE AtaTypes' OBVIOUS
<1>1. CASE InitStep BY <1>1, InitStepTypes
<1>2. ASSUME NEW t \in Clients, CommandStep(t) PROVE AtaTypes' BY <1>2, CommandStepTypes
<1>3. ASSUME NEW t \in Clients, RequestStep(t) PROVE AtaTypes' BY <1>3, ChunkTypes, AfterTypes DEF RequestStep
<1>4. CASE Asks BY <1>4, AsksTypes
<1>5. CASE DriveOffers \/ DriveEnds \/ Interrupt \/ AlarmFires \/ NewCard BY <1>5, AroundTypes
<1>7. CASE LoadPs2hdd
  BY <1>7 DEF LoadPs2hdd, hw, AtaTypes, BoardType, SharedType, ThreadType, InRange
<1>6. CASE UNCHANGED ataVars
  BY <1>6 DEF ataVars, hw, AtaTypes, BoardType, SharedType, ThreadType, InRange
<1> QED BY <1>1, <1>2, <1>3, <1>4, <1>5, <1>6, <1>7 DEF AtaNext

LEMMA AtaTypesKept == AtaSpec => []AtaTypes
BY AtaStarts, AtaTypesNext, PTL DEF AtaSpec

(* Who uses the driver: loaded once, and a meeting is never forgotten.      *)
FlagType == apa \in BOOLEAN /\ clash \in BOOLEAN

LEMMA UsersStep ==
  ASSUME [AtaNext]_ataVars
  PROVE  /\ UNCHANGED apa \/ apa' = TRUE
         /\ UNCHANGED clash \/ \E t \in Clients : \E k, d, a, n : Command(t, k, d, a, n)
<1>1. CASE InitStep
  <2>1. UNCHANGED apa
    BY <1>1 DEF InitStep, Reset, Probe, Decide, Configure, Connect, Resident, InitFails, users
  <2>2. UNCHANGED clash \/ \E k, d, a, n : Command("start", k, d, a, n)
    BY <1>1 DEF InitStep, Reset, Probe, Decide, Configure, Connect, Resident, InitFails, users
  <2>3. "start" \in Clients BY DEF Clients
  <2> QED BY <2>1, <2>2, <2>3
<1>2. ASSUME NEW t \in Clients, CommandStep(t) PROVE UNCHANGED <<apa, clash>>
  BY <1>2 DEF CommandStep, Exec, Select, Issue, Wait, Sleep, Flag, Dma, DmaWait, DmaEnd, EndWait, Pio, Settle, End,
              Stays, users
<1>3. ASSUME NEW t \in Clients, RequestStep(t)
      PROVE  UNCHANGED apa /\ (UNCHANGED clash \/ \E k, d, a, n : Command(t, k, d, a, n))
  BY <1>3 DEF RequestStep, Chunk, After, Replied
<1>4. CASE Asks BY <1>4 DEF Asks, Transfer, Flush, Stop, Begin, users
<1>5. CASE LoadPs2hdd BY <1>5 DEF LoadPs2hdd
<1>6. CASE DriveOffers \/ DriveEnds \/ Interrupt \/ AlarmFires \/ NewCard
  BY <1>6 DEF DriveOffers, DriveEnds, Interrupt, AlarmFires, NewCard, Around, users
<1>7. CASE UNCHANGED ataVars BY <1>7 DEF ataVars, users
<1> QED BY <1>1, <1>2, <1>3, <1>4, <1>5, <1>6, <1>7 DEF AtaNext

\* Every thread of the driver is at one of the code's waits and has been served only sectors of the
\* disk, for a disk of any size and any number of users of the library (ps2atad.c).
THEOREM AtaTypeCorrect == AtaSpec => []AtaTypeOK
<1>1. AtaTypes /\ FlagType => AtaTypeOK
  BY DEF AtaTypes, BoardType, SharedType, ThreadType, AtaTypeOK, Kinds, PlanSteps, FlagType
<1>2. AtaInit => FlagType BY DEF AtaInit, FlagType
<1>3. FlagType /\ [AtaNext]_ataVars => FlagType'
  <2> SUFFICES ASSUME FlagType, [AtaNext]_ataVars PROVE FlagType' BY Zenon
  <2>1. apa' \in BOOLEAN
    <3>1. UNCHANGED apa \/ apa' = TRUE BY UsersStep
    <3> QED BY <3>1, Zenon DEF FlagType
  <2>2. clash' \in BOOLEAN
    <3>1. UNCHANGED clash \/ \E t \in Clients : \E k, d, a, n : Command(t, k, d, a, n) BY UsersStep
    <3>2. CASE UNCHANGED clash BY <3>2, Zenon DEF FlagType
    <3>3. CASE \E t \in Clients : \E k, d, a, n : Command(t, k, d, a, n)
      <4>1. PICK t \in Clients : clash' = (clash \/ \E x \in Clients \ {t} : pc[x] \in InCommand)
        BY <3>3, Zenon DEF Command
      <4> QED BY <4>1, Zenon
    <3> QED BY <3>1, <3>2, <3>3
  <2> QED BY <2>1, <2>2, Zenon DEF FlagType
<1>4. AtaSpec => []FlagType BY <1>2, <1>3, PTL DEF AtaSpec
<1> QED BY <1>1, <1>4, AtaTypesKept, PTL

\* A request cut into commands of the length the drive takes, and tried again after an error, never
\* runs past the end of the disk: neither a command a thread is about to send nor the transfer the
\* drive is at (ata_device_sector_io64), whatever else the threads do at the same time.
THEOREM TransfersStayOnTheDisk == AtaSpec => []InRange
<1>1. AtaTypes => InRange BY DEF AtaTypes
<1> QED BY <1>1, AtaTypesKept, PTL

-----------------------------------------------------------------------------
(* So long as no two threads have met in the driver, one is in it at a      *)
(* time; before ps2hdd is loaded, on an adapter without a slave, none can.  *)

Askers == Clients \ {"start"}

OneIn == ~clash => \A t, x \in Clients : pc[t] \in InCommand /\ pc[x] \in InCommand => t = x

(* The device is handed over in the last step of the plan.                  *)
Starting ==
  /\ pc["start"] \in {"reset", "soft", "probe", "decide"} => plan = <<>> /\ connected = {}
  /\ pc["start"] \in InCommand => plan # <<>> /\ Head(plan)[2] # "connect"
  /\ plan # <<>> => connected = {}
  /\ \A i \in 1 .. Len(plan) : plan[i][2] = "connect" => i = Len(plan)
  /\ pc["mount"] # "idle" => connected # {}

Alone ==
  /\ pc["start"] \notin {"idle", "chunk", "after"}
  /\ ~apa => \A t \in Others : pc[t] = "idle"
  /\ ~apa /\ ~world.slave => Starting /\ ~clash

(* The part of the request that the command of the moment is about.         *)
Now(t) == req[t].at .. req[t].at + Len16(req[t]) - 1
Before(t) == req[t].first .. req[t].at - 1

(* A transfer goes forward through its sectors, whoever else is about.      *)
Asking(t) ==
  req[t].op = "io" =>
    /\ req[t].first <= req[t].at
    /\ req[t].at + req[t].n = req[t].last
    /\ req[t].n < Max48
    /\ pc[t] # "idle" => req[t].n > 0

(* What the drive has confirmed is what lies before the command of the      *)
(* moment, and that command's own sectors when it went well.                *)
Serving(t) ==
  req[t].op = "io" =>
    /\ pc[t] # "idle" => Before(t) \subseteq served[t] /\ served[t] \subseteq Before(t) \union Now(t)
    /\ pc[t] \in {"exec", "select", "issue"} =>
         cmd[t].kind = "dma" /\ cmd[t].at = req[t].at /\ cmd[t].len = Len16(req[t])
    /\ pc[t] \in Waiting =>
         /\ drive.by = t /\ drive.kind = "dma" /\ drive.at = req[t].at /\ drive.n = Len16(req[t])
         /\ ~drive.busy /\ drive.err = "ok" => Now(t) \subseteq served[t]
    /\ pc[t] = "wait" => state.kind = "dma"
    /\ pc[t] \notin {"flag", "pio"}
    /\ pc[t] \in {"finish", "after"} /\ res[t] = "ok" => Now(t) \subseteq served[t]
    /\ pc[t] = "idle" /\ res[t] = "ok" => served[t] = req[t].first .. req[t].last - 1

AtaInv ==
  /\ AtaTypes /\ OneIn /\ Alone
  /\ \A t \in Askers : Asking(t)
  /\ ~clash => \A t \in Askers : Serving(t)

LEMMA ClientNames == "start" \in Clients /\ "mount" \in Clients /\ "mount" \in Askers /\ "none" \notin Clients
               /\ "start" \notin Others /\ "mount" \notin Others
BY AtaAssumption DEF AtaAssumption, Clients, Askers

LEMMA AtaInvStarts == AtaInit => AtaInv
<1> SUFFICES ASSUME AtaInit PROVE AtaInv OBVIOUS
<1>1. AtaTypes BY AtaStarts
<1>2. /\ pc["start"] = "reset" /\ plan = <<>> /\ connected = {} /\ apa = FALSE /\ clash = FALSE
      /\ \A t \in Clients : pc[t] \in {"reset", "idle"} /\ req[t].op = "none"
      /\ \A t \in Askers : pc[t] = "idle"
  BY ClientNames DEF AtaInit, NoReq, Askers
<1>3. OneIn BY <1>2 DEF OneIn, InCommand, Waiting, InWait
<1>4. Starting BY <1>2, ClientNames DEF Starting, InCommand, Waiting, InWait
<1>5. \A t \in Others : pc[t] = "idle" BY <1>2, ClientNames DEF Askers, Clients
<1>6. Alone BY <1>2, <1>4, <1>5 DEF Alone
<1>7. \A t \in Askers : Asking(t) /\ Serving(t) BY <1>2 DEF Asking, Serving, Askers
<1> QED BY <1>1, <1>3, <1>6, <1>7 DEF AtaInv

(* Where a step of a command leads.                                         *)
Back(t) == IF t = "start" THEN "plan" ELSE "after"

LEMMA CommandFrame ==
  ASSUME AtaTypes, NEW t \in Clients, CommandStep(t)
  PROVE  /\ UNCHANGED <<world, users, exists, connected, plan, req, served>>
         /\ pc[t] \in InCommand /\ pc'[t] \in InCommand \union {Back(t)}
         /\ \A x \in Clients \ {t} : pc'[x] = pc[x] /\ res'[x] = res[x] /\ cmd'[x] = cmd[x]
<1>0. ThreadType BY DEF AtaTypes
<1>1. UNCHANGED <<world, users, exists, connected, plan, req, served>>
  BY DEF CommandStep, Exec, Select, Issue, Wait, Sleep, Flag, Dma, DmaWait, DmaEnd, EndWait, Pio, Settle, End,
         Stays, hw
<1>2. pc[t] \in InCommand
  BY DEF CommandStep, Exec, Select, Issue, Wait, Sleep, Flag, Dma, DmaWait, DmaEnd, EndWait, Pio, Settle, End,
         InCommand, Waiting, InWait
<1>3. \/ UNCHANGED <<pc, res>>
      \/ \E l \in InCommand : Goto(t, l) /\ UNCHANGED res
      \/ \E r : Return(t, r)
      \/ \E r : Finish(t, r)
  <2>1. CASE Exec(t) \/ Select(t) BY <2>1 DEF Exec, Select, InCommand
  <2>2. CASE Issue(t) BY <2>2 DEF Issue, InCommand, Waiting
  <2>3. CASE Wait(t) BY <2>3 DEF Wait, InCommand, Waiting, InWait
  <2>4. CASE Sleep(t) BY <2>4 DEF Sleep
  <2>5. CASE Flag(t) BY <2>5 DEF Flag, InCommand, Waiting, InWait
  <2>6. CASE Dma(t) BY <2>6 DEF Dma, InCommand, Waiting, InWait
  <2>7. CASE DmaWait(t) BY <2>7 DEF DmaWait, InCommand, Waiting, InWait
  <2>8. CASE DmaEnd(t) BY <2>8 DEF DmaEnd, InCommand, Waiting, InWait
  <2>9. CASE EndWait(t) BY <2>9 DEF EndWait, InCommand, Waiting, InWait
  <2>10. CASE Pio(t) \/ Settle(t) BY <2>10 DEF Pio, Settle, InCommand, Waiting, InWait
  <2>11. CASE End(t) BY <2>11 DEF End
  <2> QED BY <2>1, <2>2, <2>3, <2>4, <2>5, <2>6, <2>7, <2>8, <2>9, <2>10, <2>11 DEF CommandStep
<1>4. pc'[t] \in InCommand \union {Back(t)} /\ \A x \in Clients \ {t} : pc'[x] = pc[x] /\ res'[x] = res[x]
  BY <1>0, <1>2, <1>3 DEF ThreadType, Goto, Return, Finish, Back, InCommand, Waiting
<1>5. \A x \in Clients \ {t} : cmd'[x] = cmd[x]
  <2>1. UNCHANGED cmd \/ (\E k, n : cmd' = [cmd EXCEPT ![t].kind = k, ![t].len = n]) \/ (\E n : cmd' = [cmd EXCEPT ![t].len = n])
    BY DEF CommandStep, Exec, Select, Issue, Wait, Sleep, Flag, Dma, DmaWait, DmaEnd, EndWait, Pio, Settle, End
  <2> QED BY <1>0, <2>1 DEF ThreadType
<1> QED BY <1>1, <1>2, <1>4, <1>5

(* A step of one thread, seen by another that is not in the driver, and a    *)
(* step that leaves a thread and its command as they are.                   *)
LEMMA ServingOut ==
  ASSUME NEW t, Serving(t), pc[t] \notin InCommand, UNCHANGED world, UNCHANGED <<pc[t], req[t], res[t], served[t]>>
  PROVE  Serving(t)'
<1>1. Len16(req[t])' = Len16(req[t]) /\ Now(t)' = Now(t) /\ Before(t)' = Before(t) BY DEF Len16, Now, Before
<1> QED BY <1>1 DEF Serving, InCommand, Waiting

LEMMA ServingSame ==
  ASSUME NEW t, Serving(t), UNCHANGED <<world, state>>, drive'.by = drive.by, drive'.kind = drive.kind, drive'.at = drive.at,
         drive'.n = drive.n, ~drive'.busy /\ drive'.err = "ok" => ~drive.busy /\ drive.err = "ok",
         UNCHANGED <<pc[t], req[t], res[t], cmd[t], served[t]>>
  PROVE  Serving(t)'
<1>1. Len16(req[t])' = Len16(req[t]) /\ Now(t)' = Now(t) /\ Before(t)' = Before(t) BY DEF Len16, Now, Before
<1> QED BY <1>1 DEF Serving

LEMMA AskingSame ==
  ASSUME NEW t, Asking(t), UNCHANGED req[t], pc'[t] # "idle" => pc[t] # "idle"
  PROVE  Asking(t)'
BY DEF Asking

(* Who is in the driver stays the only one, and who enters it finds nobody.  *)
LEMMA OneInStays ==
  ASSUME OneIn, ThreadType, NEW t \in Clients, clash' = clash, \A x \in Clients \ {t} : pc'[x] = pc[x],
         pc'[t] \in InCommand => pc[t] \in InCommand
  PROVE  OneIn'
BY DEF OneIn

LEMMA OneInEnters ==
  ASSUME OneIn, ThreadType, NEW t \in Clients, NEW k, NEW d, NEW a, NEW n, Command(t, k, d, a, n)
  PROVE  OneIn'
<1>1. \A x \in Clients \ {t} : pc'[x] = pc[x] BY DEF Command, Goto, ThreadType
<1>2. ~clash' => ~clash /\ \A x \in Clients \ {t} : pc[x] \notin InCommand BY DEF Command
<1> QED BY <1>1, <1>2 DEF OneIn

LEMMA OneInCommand ==
  ASSUME AtaInv, ~clash, NEW t \in Clients, pc[t] \in InCommand, NEW x \in Clients \ {t}
  PROVE  pc[x] \notin InCommand
BY DEF AtaInv, OneIn

(* A step of another's leaves Alone as it is.                               *)
LEMMA AloneSame ==
  ASSUME AtaInv, UNCHANGED <<world, users, plan, connected>>, UNCHANGED pc["start"],
         pc'["mount"] # "idle" => pc["mount"] # "idle" \/ connected # {},
         ~apa => \A t \in Others : pc'[t] = "idle"
  PROVE  Alone'
<1>1. ~apa /\ ~world.slave => Starting' BY DEF AtaInv, Alone, Starting
<1> QED BY <1>1 DEF AtaInv, Alone, users

LEMMA StartCommandKeeps ==
  ASSUME AtaInv, CommandStep("start")
  PROVE  Alone'
<1>1. /\ UNCHANGED <<world, users, exists, connected, plan, req, served>>
      /\ pc["start"] \in InCommand /\ pc'["start"] \in InCommand \union {"plan"}
      /\ \A x \in Clients \ {"start"} : pc'[x] = pc[x]
  BY ClientNames, CommandFrame DEF Back, AtaInv
<1>2. \A t \in Others \union {"mount"} : pc'[t] = pc[t] BY <1>1, ClientNames DEF Clients
<1>3. ~apa /\ ~world.slave => Starting'
  BY <1>1, <1>2 DEF AtaInv, Alone, Starting, InCommand, Waiting, InWait
<1> QED BY <1>1, <1>2, <1>3 DEF AtaInv, Alone, users, InCommand, Waiting, InWait

(* _start without a slave: the steps that are left, and the hand-over last.  *)
LEMMA StartingKept ==
  ASSUME AtaTypes, Starting, ~world.slave, InitStep, UNCHANGED pc["mount"]
  PROVE  Starting'
<1>0. "start" \in Clients /\ "mount" \in Clients BY ClientNames
<1>1. pc'["mount"] = pc["mount"] OBVIOUS
<1>3. plan \in Seq(Devices \X PlanSteps) /\ pc \in [Clients -> Labels] BY <1>0 DEF AtaTypes, BoardType, ThreadType
<1>4. CASE Reset \/ Probe
  <2>1. pc'["start"] \in {"soft", "probe", "decide", "done"} /\ UNCHANGED <<plan, connected>>
        /\ pc["start"] \in {"reset", "soft", "probe"}
    BY <1>0, <1>3, <1>4 DEF Reset, Probe, InitFails, Goto
  <2> QED BY <1>1, <2>1 DEF Starting, InCommand, Waiting, InWait
<1>5. CASE Decide
  <2>1. connected = {} /\ connected' = {} /\ plan = <<>> BY <1>5 DEF Decide, InitFails, Starting
  <2>2. pc'["start"] \in {"plan", "done"} BY <1>0, <1>3, <1>5 DEF Decide, InitFails, Goto
  <2>3. plan' = <<>> \/ plan' = Config(0)
    <3>1. Slaves = {FALSE} BY DEF Slaves, AtaTypes, BoardType, Worlds
    <3>2. Config(0) \in Seq(Devices \X PlanSteps) BY DEF Config, Devices, PlanSteps
    <3>3. Config(0) \o <<>> = Config(0) BY <3>2, ConcatEmptySeq
    <3> QED BY <1>5, <2>1, <3>1, <3>3 DEF Decide, InitFails
  <2>4. \A i \in 1 .. Len(plan') : plan'[i][2] = "connect" => i = Len(plan')
    <3>1. Len(Config(0)) = 5 /\ \A i \in 1 .. 5 : Config(0)[i][2] = "connect" => i = 5 BY DEF Config
    <3>2. CASE plan' = <<>> BY <3>2
    <3>3. CASE plan' = Config(0) BY <3>1, <3>3
    <3> QED BY <2>3, <3>2, <3>3
  <2> QED BY <1>1, <2>1, <2>2, <2>4 DEF Starting, InCommand, Waiting, InWait
<1>6. CASE Configure
  <2>1. pc["start"] = "plan" /\ plan # <<>> /\ Head(plan)[2] # "connect" /\ UNCHANGED connected
    BY <1>6 DEF Configure
  <2>2. connected = {} BY <2>1 DEF Starting
  <2>3. \/ pc'["start"] = "exec" /\ UNCHANGED plan
        \/ pc'["start"] = "plan" /\ (plan' = Tail(plan) \/ \E k \in Nat : plan' = SubSeq(plan, k + 1, Len(plan)))
    <3>1. ASSUME NEW i PROVE Len(Config(i)) = 5 BY DEF Config
    <3>2. \/ \E k, i : Command("start", k, i, 0, 1) /\ UNCHANGED plan
          \/ UNCHANGED pc /\ (plan' = Tail(plan) \/ \E i : plan' = SubSeq(plan, Len(Config(i)) + 1, Len(plan)))
      BY <1>6 DEF Configure, Identified
    <3>3. CASE \E k, i : Command("start", k, i, 0, 1) /\ UNCHANGED plan
      BY <1>0, <1>3, <3>3 DEF Command, Goto
    <3>4. CASE UNCHANGED pc /\ (plan' = Tail(plan) \/ \E i : plan' = SubSeq(plan, Len(Config(i)) + 1, Len(plan)))
      <4>1. plan' = Tail(plan) \/ plan' = SubSeq(plan, 5 + 1, Len(plan)) BY <3>1, <3>4
      <4> QED BY <2>1, <3>4, <4>1
    <3> QED BY <3>2, <3>3, <3>4
  <2>4. \A i \in 1 .. Len(plan') : plan'[i][2] = "connect" => i = Len(plan')
    <3>1. CASE UNCHANGED plan BY <3>1 DEF Starting
    <3>2. CASE plan' = Tail(plan)
      <4>1. Len(plan') = Len(plan) - 1 /\ \A i \in 1 .. Len(plan') : plan'[i] = plan[i + 1]
        BY <1>3, <2>1, <3>2
      <4>2. Len(plan) \in Nat BY <1>3
      <4>3. \A i \in 1 .. Len(plan) : plan[i][2] = "connect" => i = Len(plan) BY DEF Starting
      <4>4. ASSUME NEW i \in 1 .. Len(plan'), plan'[i][2] = "connect" PROVE i = Len(plan')
        <5>1. i + 1 \in 1 .. Len(plan) /\ plan[i + 1][2] = "connect" BY <4>1, <4>2, <4>4
        <5>2. i + 1 = Len(plan) BY <4>3, <5>1
        <5> QED BY <4>1, <4>2, <5>2
      <4> QED BY <4>4
    <3>3. ASSUME NEW k \in Nat, plan' = SubSeq(plan, k + 1, Len(plan))
          PROVE  \A i \in 1 .. Len(plan') : plan'[i][2] = "connect" => i = Len(plan')
      <4>1. Len(plan) \in Nat BY <1>3
      <4>2. CASE k <= Len(plan)
        <5>1. Len(plan') = Len(plan) - k /\ \A i \in 1 .. Len(plan') : plan'[i] = plan[i + k]
          BY <1>3, <3>3, <4>1, <4>2, SubSeqProperties
        <5>2. \A i \in 1 .. Len(plan) : plan[i][2] = "connect" => i = Len(plan) BY DEF Starting
        <5>3. \A i \in 1 .. Len(plan') : i + k = Len(plan) => i = Len(plan') BY <3>3, <4>1, <5>1
        <5> QED
          <6> SUFFICES ASSUME NEW i \in 1 .. Len(plan'), plan'[i][2] = "connect" PROVE i = Len(plan')
            OBVIOUS
          <6>1. i + k \in 1 .. Len(plan) /\ plan[i + k][2] = "connect" BY <4>1, <4>2, <5>1
          <6>2. i + k = Len(plan) BY <5>2, <6>1
          <6> QED BY <5>3, <6>2
      <4>3. CASE k > Len(plan)
        <5>1. plan' = <<>> BY <1>3, <3>3, <4>1, <4>3, SubSeqEmpty
        <5> QED BY <5>1
      <4> QED BY <4>1, <4>2, <4>3
    <3> QED BY <2>3, <3>1, <3>2, <3>3
  <2> QED BY <1>1, <2>1, <2>2, <2>3, <2>4 DEF Starting, InCommand, Waiting, InWait
<1>7. CASE Connect
  <2>1. pc'["start"] = "plan" /\ plan # <<>> /\ Head(plan)[2] = "connect" /\ plan' = Tail(plan)
    BY <1>7 DEF Connect
  <2>2. plan[1][2] = "connect" /\ Len(plan) \in Nat \ {0} BY <1>3, <2>1
  <2>3. Len(plan) = 1
    <3>1. \A i \in 1 .. Len(plan) : plan[i][2] = "connect" => i = Len(plan) BY DEF Starting
    <3>2. 1 \in 1 .. Len(plan) BY <2>2
    <3> QED BY <2>2, <3>1, <3>2
  <2>4. plan' = <<>> BY <1>3, <2>1, <2>3
  <2>5. connected' # {} BY <1>7 DEF Connect
  <2> QED BY <1>1, <2>1, <2>4, <2>5 DEF Starting, InCommand, Waiting, InWait
<1>8. CASE Resident
  <2>1. pc'["start"] = "done" /\ UNCHANGED <<plan, connected>> BY <1>0, <1>3, <1>8 DEF Resident, Goto
  <2> QED BY <1>1, <2>1 DEF Starting, InCommand, Waiting, InWait
<1> QED BY <1>4, <1>5, <1>6, <1>7, <1>8 DEF InitStep

LEMMA InitStepKeeps ==
  ASSUME AtaInv, InitStep
  PROVE  /\ OneIn' /\ Alone' /\ (\A t \in Askers : Asking(t)')
         /\ ~clash' => \A t \in Askers : Serving(t)'
<1>0. AtaTypes /\ ThreadType BY DEF AtaInv, AtaTypes
<1>1. /\ UNCHANGED <<world, apa, state, drive, served>>
      /\ clash' = clash \/ \E k, i : Command("start", k, i, 0, 1)
      /\ \A t \in Clients \ {"start"} : UNCHANGED <<pc[t], res[t], cmd[t], req[t]>>
  <2>1. UNCHANGED <<world, apa, state, drive, served>>
    BY DEF InitStep, Reset, Probe, Decide, Configure, Connect, Resident, InitFails, hw, users
  <2>2. UNCHANGED pc \/ \E l : pc' = [pc EXCEPT !["start"] = l]
    BY DEF InitStep, Reset, Probe, Decide, Configure, Connect, Resident, InitFails, Goto, Command
  <2>3. UNCHANGED res \/ \E l : res' = [res EXCEPT !["start"] = l]
    BY DEF InitStep, Reset, Probe, Decide, Configure, Connect, Resident, InitFails, Goto, Command
  <2>4. UNCHANGED cmd \/ \E l : cmd' = [cmd EXCEPT !["start"] = l]
    BY DEF InitStep, Reset, Probe, Decide, Configure, Connect, Resident, InitFails, Goto, Command
  <2>5. UNCHANGED req \/ \E l : req' = [req EXCEPT !["start"].op = l]
    BY DEF InitStep, Reset, Probe, Decide, Configure, Connect, Resident, InitFails, Goto, Command
  <2>6. clash' = clash \/ \E k, i : Command("start", k, i, 0, 1)
    BY DEF InitStep, Reset, Probe, Decide, Configure, Connect, Resident, InitFails, users
  <2>7. \A t \in Clients \ {"start"} : pc'[t] = pc[t] BY <1>0, <2>2 DEF ThreadType
  <2>8. \A t \in Clients \ {"start"} : res'[t] = res[t] BY <1>0, <2>3 DEF ThreadType
  <2>9. \A t \in Clients \ {"start"} : cmd'[t] = cmd[t] BY <1>0, <2>4 DEF ThreadType
  <2>10. \A t \in Clients \ {"start"} : req'[t] = req[t] BY <1>0, <2>5 DEF ThreadType
  <2> QED BY <2>1, <2>6, <2>7, <2>8, <2>9, <2>10
<1>2. \A t \in Askers : Asking(t)' BY <1>1, AskingSame DEF AtaInv, Askers
<1>3. ~clash' => ~clash BY <1>1 DEF Command
<1>4. ASSUME ~clash' PROVE \A t \in Askers : Serving(t)' BY <1>1, <1>3, <1>4, ServingSame DEF AtaInv, Askers
<1>5. \A t \in Others \union {"mount"} : pc'[t] = pc[t] BY <1>1, ClientNames DEF Clients
<1>6. OneIn'
  <2>1. CASE \E k, i : Command("start", k, i, 0, 1) BY <1>0, <2>1, OneInEnters, ClientNames DEF AtaInv
  <2>2. CASE ~ \E k, i : Command("start", k, i, 0, 1)
    <3>1. UNCHANGED pc \/ \E l \in {"soft", "probe", "decide", "plan", "done"} : pc' = [pc EXCEPT !["start"] = l]
      BY <2>2 DEF InitStep, Reset, Probe, Decide, Configure, Connect, Resident, InitFails, Goto
    <3>2. pc'["start"] \in InCommand => pc["start"] \in InCommand
      BY <1>0, <3>1, ClientNames DEF ThreadType, InCommand, Waiting, InWait
    <3> QED BY <1>0, <1>1, <2>2, <3>2, ClientNames, OneInStays DEF AtaInv
  <2> QED BY <2>1, <2>2
<1>7. pc'["start"] \notin {"idle", "chunk", "after"}
  <2>1. UNCHANGED pc \/ \E l \in {"soft", "probe", "decide", "plan", "done", "exec"} : pc' = [pc EXCEPT !["start"] = l]
    BY DEF InitStep, Reset, Probe, Decide, Configure, Connect, Resident, InitFails, Goto, Command
  <2> QED BY <1>0, <2>1, ClientNames DEF ThreadType, AtaInv, Alone
<1> SUFFICES ASSUME ~apa, ~world.slave PROVE Starting' /\ ~clash'
  BY <1>1, <1>2, <1>4, <1>5, <1>6, <1>7 DEF AtaInv, Alone
<1>8. Starting /\ ~clash BY DEF AtaInv, Alone
<1>9. \A t \in Others : pc[t] = "idle" BY DEF AtaInv, Alone
<1>10. ~clash'
  <2>1. CASE clash' = clash BY <1>8, <2>1
  <2>2. CASE clash' # clash /\ \E k, i : Command("start", k, i, 0, 1)
    <3>1. plan # <<>> BY <2>2 DEF InitStep, Reset, Probe, Decide, Configure, Connect, Resident, InitFails, users
    <3>2. pc["mount"] = "idle" BY <1>8, <3>1 DEF Starting
    <3>3. \A x \in Clients \ {"start"} : pc[x] \notin InCommand
      BY <1>9, <3>2, ClientNames DEF Clients, InCommand, Waiting, InWait
    <3> QED BY <1>8, <2>2, <3>3 DEF Command
  <2> QED BY <1>1, <2>1, <2>2
<1>11. Starting' BY <1>0, <1>5, <1>8, StartingKept
<1> QED BY <1>10, <1>11

(* A command goes on, or comes back with what the drive has said.           *)
LEMMA ServingGoesOn ==
  ASSUME NEW t, Serving(t), UNCHANGED <<world, req, served>>, pc[t] \in Waiting,
         pc'[t] \in Waiting \ {"wait", "flag", "pio"},
         drive'.by = drive.by, drive'.kind = drive.kind, drive'.at = drive.at, drive'.n = drive.n,
         ~drive'.busy /\ drive'.err = "ok" => ~drive.busy /\ drive.err = "ok",
         req[t].op = "io" /\ pc'[t] = "finish" /\ res'[t] = "ok" => Now(t) \subseteq served[t]
  PROVE  Serving(t)'
<1>1. Len16(req[t])' = Len16(req[t]) /\ Now(t)' = Now(t) /\ Before(t)' = Before(t) BY DEF Len16, Now, Before
<1> QED BY <1>1 DEF Serving, Waiting, InWait

LEMMA ServingReturns ==
  ASSUME NEW t, Serving(t), UNCHANGED <<world, req, served>>, pc[t] # "idle", pc'[t] = "after",
         req[t].op = "io" /\ res'[t] = "ok" => Now(t) \subseteq served[t]
  PROVE  Serving(t)'
<1>1. Len16(req[t])' = Len16(req[t]) /\ Now(t)' = Now(t) /\ Before(t)' = Before(t) BY DEF Len16, Now, Before
<1> QED BY <1>1 DEF Serving, Waiting, InWait

LEMMA CommandServes ==
  ASSUME AtaTypes, NEW t \in Askers, Serving(t), CommandStep(t)
  PROVE  Serving(t)'
<1>0. t \in Clients BY DEF Askers
<1>1. AtaTypes /\ ThreadType /\ Serving(t) /\ drive \in DriveStates BY DEF AtaTypes, SharedType
<1>2. UNCHANGED <<world, users, exists, connected, plan, req, served>>
      /\ pc[t] \in InCommand /\ pc'[t] \in InCommand \union {"after"}
  BY <1>0, CommandFrame DEF Back, Askers
<1>3. pc[t] # "idle" BY <1>2 DEF InCommand, Waiting, InWait
<1>6. ASSUME NEW r, Return(t, r), req[t].op = "io" /\ r = "ok" => Now(t) \subseteq served[t]
      PROVE  Serving(t)'
  <2>1. pc'[t] = "after" /\ res'[t] = r BY <1>0, <1>1, <1>6 DEF Askers, Return, Goto, ThreadType
  <2> QED BY <1>1, <1>2, <1>3, <1>6, <2>1, ServingReturns
<1>7. ASSUME NEW r, Finish(t, r), pc[t] \in Waiting, SameJob(drive'), drive'.busy = drive.busy, drive'.err = drive.err,
             req[t].op = "io" /\ r = "ok" => Now(t) \subseteq served[t]
      PROVE  Serving(t)'
  <2>1. pc'[t] = "finish" /\ res'[t] = r BY <1>0, <1>1, <1>7 DEF Finish, Goto, ThreadType
  <2>2. "finish" \in Waiting \ {"wait", "flag", "pio"} BY DEF Waiting, InWait
  <2> QED BY <1>1, <1>2, <1>7, <2>1, <2>2, ServingGoesOn DEF SameJob
<1>8. ASSUME NEW l \in {"dma", "dmawait", "dmaend", "endwait", "settle"}, pc'[t] = l, pc[t] \in Waiting,
             SameJob(drive'), drive'.busy = drive.busy, drive'.err = drive.err
      PROVE  Serving(t)'
  <2>1. l \in Waiting \ {"wait", "flag", "pio", "finish"} BY DEF Waiting, InWait
  <2> QED BY <1>1, <1>2, <1>8, <2>1, ServingGoesOn DEF SameJob
<1>9. UNCHANGED drive => SameJob(drive') /\ drive'.busy = drive.busy /\ drive'.err = drive.err
  BY <1>1 DEF SameJob
<1>10. CASE req[t].op # "io" BY <1>2, <1>10 DEF Serving
<1>11. CASE req[t].op = "io" /\ Exec(t)
  <2>1. CASE Return(t, "nodev") BY <1>6, <2>1
  <2>2. CASE Goto(t, "select")
    <3>1. pc'[t] = "select" /\ pc[t] = "exec" /\ cmd' = cmd BY <1>0, <1>1, <1>11, <2>2 DEF Exec, Goto, ThreadType
    <3>2. Len16(req[t])' = Len16(req[t]) /\ Now(t)' = Now(t) /\ Before(t)' = Before(t) BY <1>2 DEF Len16, Now, Before
    <3> QED BY <1>1, <1>2, <3>1, <3>2 DEF Serving, Waiting, InWait
  <2> QED BY <1>11, <2>1, <2>2 DEF Exec
<1>12. CASE req[t].op = "io" /\ Select(t)
  <2>1. CASE Return(t, "timeout") BY <1>6, <2>1
  <2>2. CASE Goto(t, "issue")
    <3>1. pc'[t] = "issue" /\ pc[t] = "select" /\ cmd' = cmd BY <1>0, <1>1, <1>12, <2>2 DEF Select, Goto, ThreadType
    <3>2. Len16(req[t])' = Len16(req[t]) /\ Now(t)' = Now(t) /\ Before(t)' = Before(t) BY <1>2 DEF Len16, Now, Before
    <3> QED BY <1>1, <1>2, <3>1, <3>2 DEF Serving, Waiting, InWait
  <2> QED BY <1>12, <2>1, <2>2 DEF Select
<1>13. CASE req[t].op = "io" /\ Issue(t)
  <2>1. CASE Return(t, "notready") \/ Return(t, "alarm") BY <1>6, <2>1
  <2>2. CASE /\ drive' = [Quiet EXCEPT !.busy = TRUE, !.by = t, !.kind = cmd[t].kind, !.at = cmd[t].at,
                                  !.n = cmd[t].len, !.left = IF cmd[t].kind = "dma" THEN cmd[t].len ELSE 0]
             /\ Goto(t, "wait")
    <3>1. pc'[t] = "wait" /\ pc[t] = "issue" BY <1>0, <1>1, <1>13, <2>2 DEF Issue, Goto, ThreadType
    <3>2. /\ drive'.busy /\ drive'.by = t /\ drive'.kind = cmd[t].kind /\ drive'.at = cmd[t].at
          /\ drive'.n = cmd[t].len
      BY <2>2, Zenon DEF Quiet
    <3>3. state'.kind = cmd[t].kind BY <1>13 DEF Issue
    <3>4. Len16(req[t])' = Len16(req[t]) /\ Now(t)' = Now(t) /\ Before(t)' = Before(t) BY <1>2 DEF Len16, Now, Before
    <3> QED BY <1>1, <1>2, <3>1, <3>2, <3>3, <3>4 DEF Serving, Waiting, InWait
  <2> QED BY <1>13, <2>1, <2>2 DEF Issue
<1>14. CASE req[t].op = "io" /\ Wait(t)
  <2>1. pc[t] = "wait" /\ state.kind = "dma" /\ UNCHANGED drive BY <1>1, <1>14 DEF Wait, Serving, hw
  <2>2. pc'[t] = "dma" BY <1>0, <1>1, <1>14, <2>1 DEF Wait, Goto, ThreadType
  <2> QED BY <1>8, <1>9, <2>1, <2>2 DEF Waiting
<1>15. CASE req[t].op = "io" /\ Sleep(t)
  <2>1. UNCHANGED <<pc, res, cmd, drive, state>> BY <1>15 DEF Sleep, hw, Stays
  <2> QED BY <1>1, <1>2, <2>1, ServingSame
<1>16. CASE req[t].op = "io" /\ (Flag(t) \/ Pio(t)) BY <1>1, <1>16 DEF Serving, Flag, Pio
<1>17. CASE req[t].op = "io" /\ Dma(t)
  <2>1. SameJob(drive') BY <1>0, <1>1, <1>17, DmaTypes
  <2>2. drive'.busy = drive.busy /\ drive'.err = drive.err BY <1>1, <1>17 DEF Dma, DriveStates
  <2>3. pc[t] \in Waiting BY <1>17 DEF Dma, Waiting, InWait
  <2>4. CASE Finish(t, "spd") BY <1>7, <2>1, <2>2, <2>3, <2>4
  <2>5. CASE ~ Finish(t, "spd")
    <3>1. pc'[t] \in {"dma", "dmaend", "dmawait"} BY <1>0, <1>1, <1>17, <2>5 DEF Dma, Goto, ThreadType
    <3> QED BY <1>8, <2>1, <2>2, <2>3, <3>1
  <2> QED BY <2>4, <2>5
<1>18. CASE req[t].op = "io" /\ DmaWait(t)
  <2>1. UNCHANGED drive /\ pc[t] \in Waiting BY <1>18 DEF DmaWait, Waiting, InWait
  <2>2. CASE Finish(t, "timeout") BY <1>7, <1>9, <2>1, <2>2
  <2>3. CASE Finish(t, drive.err) /\ drive.err # "ok" BY <1>7, <1>9, <2>1, <2>3
  <2>4. CASE Goto(t, "dma")
    <3>1. pc'[t] = "dma" BY <1>0, <1>1, <2>4 DEF Goto, ThreadType
    <3> QED BY <1>8, <1>9, <2>1, <3>1
  <2> QED BY <1>18, <2>2, <2>3, <2>4 DEF DmaWait
<1>19. CASE req[t].op = "io" /\ DmaEnd(t)
  <2>1. UNCHANGED drive /\ pc[t] \in Waiting BY <1>19 DEF DmaEnd, Waiting, InWait
  <2>2. pc'[t] \in {"settle", "endwait"} BY <1>0, <1>1, <1>19 DEF DmaEnd, Goto, ThreadType
  <2> QED BY <1>8, <1>9, <2>1, <2>2
<1>20. CASE req[t].op = "io" /\ EndWait(t)
  <2>1. UNCHANGED drive /\ pc[t] \in Waiting BY <1>20 DEF EndWait, Waiting, InWait
  <2>2. CASE Finish(t, "timeout") BY <1>7, <1>9, <2>1, <2>2
  <2>3. CASE Goto(t, "settle")
    <3>1. pc'[t] = "settle" BY <1>0, <1>1, <2>3 DEF Goto, ThreadType
    <3> QED BY <1>8, <1>9, <2>1, <3>1
  <2> QED BY <1>20, <2>2, <2>3 DEF EndWait
<1>21. CASE req[t].op = "io" /\ Settle(t)
  <2>1. SameJob(drive') BY <1>0, <1>1, <1>21, SettleTypes
  <2>2. drive'.busy = drive.busy /\ drive'.err = drive.err BY <1>1, <1>21 DEF Settle, DriveStates
  <2>3. pc[t] \in Waiting BY <1>21 DEF Settle, Waiting, InWait
  <2>4. CASE Finish(t, "timeout") BY <1>7, <2>1, <2>2, <2>3, <2>4
  <2>5. CASE ~drive.busy /\ Finish(t, drive.err)
    <3>1. drive.err = "ok" => Now(t) \subseteq served[t] BY <1>1, <1>21, <2>3, <2>5 DEF Serving
    <3> QED BY <1>7, <2>1, <2>2, <2>3, <2>5, <3>1
  <2> QED BY <1>21, <2>4, <2>5 DEF Settle
<1>22. CASE req[t].op = "io" /\ End(t)
  <2>1. pc[t] = "finish" /\ Return(t, res[t]) BY <1>22 DEF End
  <2>2. res[t] = "ok" => Now(t) \subseteq served[t] BY <1>1, <1>22, <2>1 DEF Serving
  <2> QED BY <1>6, <2>1, <2>2
<1> QED
  BY <1>10, <1>11, <1>12, <1>13, <1>14, <1>15, <1>16, <1>17, <1>18, <1>19, <1>20, <1>21, <1>22 DEF CommandStep

(* What a step of one thread in the driver does to all of them.             *)
LEMMA CommandKeeps ==
  ASSUME AtaInv, NEW t \in Clients, CommandStep(t)
  PROVE  /\ OneIn' /\ Alone' /\ (\A x \in Askers : Asking(x)')
         /\ ~clash' => \A x \in Askers : Serving(x)'
<1>1. AtaTypes /\ ThreadType BY DEF AtaInv, AtaTypes
<1>2. /\ UNCHANGED <<world, users, exists, connected, plan, req, served>>
      /\ pc[t] \in InCommand /\ pc'[t] \in InCommand \union {Back(t)}
      /\ \A x \in Clients \ {t} : pc'[x] = pc[x] /\ res'[x] = res[x] /\ cmd'[x] = cmd[x]
  BY <1>1, CommandFrame
<1>3. UNCHANGED <<world, apa, clash>> BY <1>2 DEF users
<1>4. pc[t] # "idle" BY <1>2 DEF InCommand, Waiting, InWait
<1>5. OneIn' BY <1>1, <1>2, <1>3, OneInStays DEF AtaInv
<1>6. \A x \in Askers : Asking(x)'
  <2> SUFFICES ASSUME NEW x \in Askers PROVE Asking(x)' OBVIOUS
  <2>1. UNCHANGED req[x] /\ (pc'[x] # "idle" => pc[x] # "idle") BY <1>2, <1>4 DEF Askers
  <2> QED BY <2>1, AskingSame DEF AtaInv
<1>7. ASSUME ~clash', NEW x \in Askers PROVE Serving(x)'
  <2>1. Serving(x) BY <1>3, <1>7 DEF AtaInv
  <2>2. CASE x = t BY <1>1, <2>1, <2>2, CommandServes
  <2>3. CASE x # t
    <3>1. x \in Clients \ {t} BY <2>3 DEF Askers
    <3>2. pc[x] \notin InCommand BY <1>2, <1>3, <1>7, <3>1, OneInCommand
    <3>3. UNCHANGED <<pc[x], req[x], res[x], served[x]>> BY <1>2, <3>1
    <3> QED BY <1>3, <2>1, <3>2, <3>3, ServingOut
  <2> QED BY <2>2, <2>3
<1>8. Alone'
  <2>1. CASE t = "start" BY <2>1, StartCommandKeeps
  <2>2. CASE t # "start"
    <3>1. pc'["start"] = pc["start"] /\ (pc'["mount"] # "idle" => pc["mount"] # "idle")
      BY <1>2, <1>4, <2>2, ClientNames
    <3>2. ~apa => \A x \in Others : pc'[x] = "idle"
      <4>1. ~apa => \A x \in Others : pc[x] = "idle" /\ x # t /\ x \in Clients
        BY <1>4 DEF AtaInv, Alone, Clients
      <4> QED BY <1>2, <4>1
    <3> QED BY <1>2, <3>1, <3>2, AloneSame
  <2> QED BY <2>1, <2>2
<1> QED BY <1>5, <1>6, <1>7, <1>8

-----------------------------------------------------------------------------
(* A thread's requests.                                                    *)

(* What a step of one thread between commands leaves of the others.         *)
LEMMA OthersKeep ==
  ASSUME AtaInv, NEW t \in Askers, UNCHANGED <<world, apa, connected, plan, state, drive>>, clash => clash',
         pc[t] \notin InCommand, pc'[t] # "idle" => pc[t] # "idle" \/ IF t = "mount" THEN connected # {} ELSE apa,
         \A x \in Clients \ {t} : UNCHANGED <<pc[x], req[x], res[x], cmd[x], served[x]>>,
         OneIn', ~apa /\ ~world.slave => ~clash', Asking(t)', ~clash' => Serving(t)'
  PROVE  /\ OneIn' /\ Alone' /\ (\A x \in Askers : Asking(x)')
         /\ ~clash' => \A x \in Askers : Serving(x)'
<1>1. \A x \in Askers : Asking(x)'
  <2> SUFFICES ASSUME NEW x \in Askers, x # t PROVE Asking(x)' OBVIOUS
  <2>1. UNCHANGED req[x] /\ (pc'[x] # "idle" => pc[x] # "idle") BY DEF Askers
  <2> QED BY <2>1, AskingSame DEF AtaInv
<1>2. ASSUME ~clash', NEW x \in Askers PROVE Serving(x)'
  <2>1. CASE x = t BY <1>2, <2>1
  <2>2. CASE x # t
    <3>1. Serving(x) /\ UNCHANGED <<pc[x], req[x], res[x], cmd[x], served[x]>>
      BY <1>2, <2>2 DEF AtaInv, Askers
    <3> QED BY <3>1, ServingSame
  <2> QED BY <2>1, <2>2
<1>3. pc'["start"] = pc["start"] BY ClientNames DEF Askers
<1>4. \A x \in Others : ~apa => pc'[x] = "idle"
  <2> SUFFICES ASSUME NEW x \in Others, ~apa PROVE pc'[x] = "idle" OBVIOUS
  <2>1. pc[x] = "idle" /\ x \in Clients /\ x # "mount" BY ClientNames DEF AtaInv, Alone, Clients
  <2> QED BY <2>1
<1>5. pc'["mount"] # "idle" => pc["mount"] # "idle" \/ connected # {} BY ClientNames
<1>6. ~apa /\ ~world.slave => Starting' BY <1>3, <1>5 DEF AtaInv, Alone, Starting
<1>7. Alone' BY <1>3, <1>4, <1>6 DEF AtaInv, Alone
<1> QED BY <1>1, <1>2, <1>7

(* Before ps2hdd, and without a slave, a command finds nobody in the driver. *)
LEMMA NobodyThere ==
  ASSUME AtaInv, ~apa, ~world.slave, NEW t \in Askers, pc[t] # "idle", NEW k, NEW d, NEW a, NEW n, Command(t, k, d, a, n)
  PROVE  ~clash'
<1>1. Starting /\ ~clash /\ \A x \in Others : pc[x] = "idle" BY DEF AtaInv, Alone
<1>2. t = "mount" BY <1>1 DEF Askers, Clients
<1>3. connected # {} BY <1>1, <1>2 DEF Starting
<1>4. pc["start"] \notin InCommand BY <1>1, <1>3 DEF Starting
<1>5. \A x \in Clients \ {t} : pc[x] \notin InCommand
  BY <1>1, <1>2, <1>4 DEF Clients, InCommand, Waiting, InWait
<1> QED BY <1>1, <1>5 DEF Command

LEMMA ServingCommand ==
  ASSUME ThreadType, NEW t \in Askers, req[t].op = "io", UNCHANGED <<world, served, res>>, pc[t] \in {"chunk", "after"},
         pc'[t] = "exec",
         cmd'[t] = [kind |-> "dma", dev |-> 0, at |-> req[t].at, len |-> Len16(req[t])],
         NEW n, req' = [req EXCEPT ![t].tries = n]
  PROVE  (Serving(t) => Serving(t)') /\ (Asking(t) => Asking(t)')
<1>0. req[t] \in Reqs /\ t \in Clients BY DEF ThreadType, Askers
<1>1. /\ req'[t].op = req[t].op /\ req'[t].at = req[t].at /\ req'[t].n = req[t].n
      /\ req'[t].first = req[t].first /\ req'[t].last = req[t].last
  BY <1>0 DEF ThreadType, Reqs
<1>2. Len16(req[t])' = Len16(req[t]) BY <1>1 DEF Len16
<1>3. Now(t)' = Now(t) /\ Before(t)' = Before(t) BY <1>1, <1>2 DEF Now, Before
<1>4. Serving(t) => Serving(t)' BY <1>1, <1>2, <1>3 DEF Serving, Waiting, InWait
<1>5. Asking(t) => Asking(t)' BY <1>1 DEF Asking
<1> QED BY <1>4, <1>5

LEMMA ChunkKeeps ==
  ASSUME AtaInv, NEW t \in Askers, Chunk(t)
  PROVE  /\ OneIn' /\ Alone' /\ (\A x \in Askers : Asking(x)')
         /\ ~clash' => \A x \in Askers : Serving(x)'
<1>0. t \in Clients /\ AtaTypes /\ ThreadType /\ req[t] \in Reqs BY DEF Askers, AtaInv, AtaTypes, ThreadType
<1>1. UNCHANGED <<world, apa, connected, plan, state, drive, served, res>> /\ pc[t] = "chunk" BY DEF Chunk, hw
<1>2. PICK k, a, n : Command(t, k, 0, a, n) BY DEF Chunk
<1>3. pc'[t] = "exec" /\ \A x \in Clients \ {t} : pc'[x] = pc[x] /\ cmd'[x] = cmd[x]
  BY <1>0, <1>2 DEF Command, Goto, ThreadType
<1>4. \A x \in Clients \ {t} : req'[x] = req[x] BY <1>0 DEF Chunk, ThreadType
<1>5. OneIn' BY <1>0, <1>2, OneInEnters DEF AtaInv
<1>6. (clash => clash') /\ (~apa /\ ~world.slave => ~clash') BY <1>1, <1>2, NobodyThere DEF Command
<1>7. Asking(t) /\ (~clash => Serving(t)) BY DEF AtaInv
<1>8. Asking(t)' /\ (~clash' => Serving(t)')
  <2>1. CASE req[t].op # "io"
    <3>1. UNCHANGED req BY <2>1 DEF Chunk
    <3> QED BY <2>1, <3>1 DEF Serving, Asking
  <2>2. CASE req[t].op = "io"
    <3>1. Command(t, "dma", 0, req[t].at, Len16(req[t])) /\ req' = [req EXCEPT ![t].tries = Retries]
      BY <2>2 DEF Chunk
    <3>2. cmd'[t] = [kind |-> "dma", dev |-> 0, at |-> req[t].at, len |-> Len16(req[t])]
      BY <1>0, <3>1 DEF Command, ThreadType
    <3> QED BY <1>0, <1>1, <1>3, <1>6, <1>7, <2>2, <3>1, <3>2, ServingCommand
  <2> QED BY <2>1, <2>2
<1>9. \A x \in Clients \ {t} : UNCHANGED <<pc[x], req[x], res[x], cmd[x], served[x]>> BY <1>1, <1>3, <1>4
<1>10. pc[t] \notin InCommand /\ (pc'[t] # "idle" => pc[t] # "idle") BY <1>1 DEF InCommand, Waiting, InWait
<1> QED BY <1>1, <1>5, <1>6, <1>8, <1>9, <1>10, OthersKeep

(* The chunk is counted off: the request goes on behind it, or was all of it. *)
LEMMA CountedOff ==
  ASSUME AtaTypes, NEW t \in Askers, Asking(t), pc[t] = "after", req[t].op = "io", res[t] = "ok", UNCHANGED <<world, served, res>>,
         \/ /\ req[t].n > Len16(req[t]) /\ pc'[t] = "chunk"
            /\ req' = [req EXCEPT ![t].at = @ + Len16(req[t]), ![t].n = @ - Len16(req[t]), ![t].tries = 0]
         \/ /\ req[t].n <= Len16(req[t]) /\ pc'[t] = "idle"
            /\ req' = [req EXCEPT ![t].at = @ + Len16(req[t]), ![t].n = 0, ![t].tries = 0]
  PROVE  Asking(t)' /\ (Serving(t) => Serving(t)')
<1> DEFINE len == Len16(req[t])
           r == req[t]
           s == req'[t]
<1>0. t \in Clients /\ ThreadType /\ req[t] \in Reqs BY DEF Askers, AtaTypes, ThreadType
<1>1. len \in 0 .. r.n BY <1>0, Lengths
<1>2. r.at \in Nat /\ r.n \in Nat /\ r.first \in Nat /\ r.last \in Nat /\ Max48 \in Nat
  BY <1>0, AtaAssumption DEF Reqs, AtaAssumption
<1>3. s.at = r.at + len /\ s.n = r.n - len /\ s.first = r.first /\ s.last = r.last
  <2>1. PICK m \in {r.n - len, 0} : req' = [req EXCEPT ![t].at = @ + len, ![t].n = m, ![t].tries = 0]
                                    /\ m = r.n - len
    <3>1. r.n <= len => r.n - len = 0 BY <1>1, <1>2
    <3> QED BY <3>1
  <2> HIDE DEF len
  <2> QED BY <1>0, <2>1 DEF ThreadType, Reqs
<1>4. r.first <= r.at /\ r.at + r.n = r.last /\ r.n < Max48 BY DEF Asking
<1>5. /\ pc'[t] \in {"chunk", "idle"}
      /\ pc'[t] = "chunk" => r.n > len
      /\ pc'[t] = "idle" => r.n = len
  BY <1>1, <1>2
<1>6. Before(t)' = r.first .. s.at - 1 /\ Now(t) = r.at .. r.at + len - 1 /\ Before(t) = r.first .. r.at - 1
  BY <1>3 DEF Before, Now
<1> HIDE DEF len
<1>7. Asking(t)'
  <2>1. s.first <= s.at /\ s.at + s.n = s.last /\ s.n < Max48 /\ (pc'[t] = "chunk" => s.n > 0)
    BY <1>1, <1>2, <1>3, <1>4, <1>5
  <2> QED BY <1>5, <2>1 DEF Asking
<1>8. Before(t) \union Now(t) = Before(t)' BY SMTT(30), <1>1, <1>2, <1>3, <1>4, <1>6
<1>9. ASSUME Serving(t) PROVE Serving(t)'
  <2>1. Before(t) \subseteq served[t] /\ served[t] \subseteq Before(t) \union Now(t) /\ Now(t) \subseteq served[t]
    BY <1>9 DEF Serving
  <2>2. served'[t] = Before(t)' BY <1>8, <2>1
  <2>3. CASE pc'[t] = "chunk" BY <2>2, <2>3 DEF Serving, Waiting, InWait
  <2>4. CASE pc'[t] = "idle"
    <3>1. s.at = s.last BY <1>2, <1>3, <1>4, <1>5, <2>4
    <3>2. served'[t] = s.first .. s.last - 1 BY <1>3, <1>6, <2>2, <3>1
    <3> QED BY <2>4, <3>2 DEF Serving, Waiting, InWait
  <2> QED BY <1>5, <2>3, <2>4
<1> QED BY <1>7, <1>9

(* Where After leads, and what it leaves of the others.                     *)
LEMMA AfterFrame ==
  ASSUME AtaTypes, NEW t \in Clients, After(t)
  PROVE  /\ UNCHANGED <<world, apa, connected, plan, state, drive>> /\ pc[t] = "after"
         /\ \A x \in Clients \ {t} : UNCHANGED <<pc[x], req[x], res[x], cmd[x], served[x]>>
         /\ \/ /\ pc'[t] = "exec" /\ UNCHANGED <<res, served>> /\ Retried(t)
               /\ req' = [req EXCEPT ![t].tries = req[t].tries - 1]
               /\ Command(t, "dma", 0, req[t].at, Len16(req[t]))
               /\ cmd'[t] = [kind |-> "dma", dev |-> 0, at |-> req[t].at, len |-> Len16(req[t])]
            \/ /\ req[t].op = "io" /\ res[t] = "ok" /\ UNCHANGED <<clash, res, served>>
               /\ \/ /\ req[t].n > Len16(req[t]) /\ pc'[t] = "chunk"
                     /\ req' = [req EXCEPT ![t].at = @ + Len16(req[t]), ![t].n = @ - Len16(req[t]), ![t].tries = 0]
                  \/ /\ req[t].n <= Len16(req[t]) /\ pc'[t] = "idle"
                     /\ req' = [req EXCEPT ![t].at = @ + Len16(req[t]), ![t].n = 0, ![t].tries = 0]
            \/ pc'[t] = "idle" /\ clash' = clash /\ (req'[t].op # "io" \/ res'[t] # "ok") /\ req'[t] = NoReq
<1>0. ThreadType BY DEF AtaTypes
<1>1. UNCHANGED <<world, apa, connected, plan, state, drive>> /\ pc[t] = "after" BY DEF After
<1>2. CASE /\ Retried(t)
           /\ req' = [req EXCEPT ![t].tries = @ - 1]
           /\ Command(t, "dma", 0, req[t].at, Len16(req[t])) /\ UNCHANGED <<res, served>>
  <2>1. req' = [req EXCEPT ![t].tries = req[t].tries - 1] BY <1>0, <1>2 DEF ThreadType
  <2>2. /\ pc'[t] = "exec" /\ \A x \in Clients \ {t} : pc'[x] = pc[x] /\ cmd'[x] = cmd[x]
        /\ cmd'[t] = [kind |-> "dma", dev |-> 0, at |-> req[t].at, len |-> Len16(req[t])]
    BY <1>0, <1>2 DEF Command, Goto, ThreadType
  <2>3. \A x \in Clients \ {t} : req'[x] = req[x] BY <1>0, <1>2 DEF ThreadType
  <2> QED BY <1>1, <1>2, <2>1, <2>2, <2>3
<1>3. CASE /\ req[t].op = "io" /\ res[t] = "ok" /\ req[t].n > Len16(req[t])
           /\ req' = [req EXCEPT ![t].at = @ + Len16(req[t]), ![t].n = @ - Len16(req[t]), ![t].tries = 0]
           /\ Goto(t, "chunk") /\ cmd' = [cmd EXCEPT ![t] = NoCmd] /\ UNCHANGED <<clash, res, served>>
  <2>1. pc'[t] = "chunk" /\ \A x \in Clients \ {t} : pc'[x] = pc[x] /\ cmd'[x] = cmd[x] /\ req'[x] = req[x]
    BY <1>0, <1>3 DEF Goto, ThreadType
  <2> QED BY <1>1, <1>3, <2>1
<1>4. ASSUME Replied(t)
      PROVE  /\ pc'[t] = "idle" /\ clash' = clash
             /\ \A x \in Clients \ {t} : UNCHANGED <<pc[x], res[x], cmd[x], served[x]>>
  BY <1>0, <1>4 DEF Replied, Goto, ThreadType
<1>5. CASE /\ req[t].op = "io" /\ res[t] = "ok" /\ req[t].n <= Len16(req[t])
           /\ req' = [req EXCEPT ![t].at = @ + Len16(req[t]), ![t].n = 0, ![t].tries = 0]
           /\ Replied(t)
  <2>1. \A x \in Clients \ {t} : req'[x] = req[x] BY <1>0, <1>5 DEF ThreadType
  <2>2. UNCHANGED <<res, served>> BY <1>5 DEF Replied
  <2> QED BY <1>1, <1>4, <1>5, <2>1, <2>2
<1>6. CASE req' = [req EXCEPT ![t] = NoReq] /\ Replied(t)
  <2>1. req'[t] = NoReq /\ req'[t].op # "io" /\ \A x \in Clients \ {t} : req'[x] = req[x]
    BY <1>0, <1>6 DEF ThreadType, NoReq
  <2> QED BY <1>1, <1>4, <1>6, <2>1
<1> QED BY <1>2, <1>3, <1>5, <1>6 DEF After

LEMMA AfterKeeps ==
  ASSUME AtaInv, NEW t \in Askers, After(t)
  PROVE  /\ OneIn' /\ Alone' /\ (\A x \in Askers : Asking(x)')
         /\ ~clash' => \A x \in Askers : Serving(x)'
<1>0. t \in Clients /\ AtaTypes /\ ThreadType /\ Asking(t) /\ (~clash => Serving(t)) BY DEF Askers, AtaInv, AtaTypes
<1>1. /\ UNCHANGED <<world, apa, connected, plan, state, drive>> /\ pc[t] = "after"
      /\ \A x \in Clients \ {t} : UNCHANGED <<pc[x], req[x], res[x], cmd[x], served[x]>>
  BY <1>0, AfterFrame
<1>2. pc[t] \notin InCommand /\ (pc'[t] # "idle" => pc[t] # "idle") BY <1>1 DEF InCommand, Waiting, InWait
<1>3. CASE /\ pc'[t] = "exec" /\ UNCHANGED <<res, served>> /\ Retried(t)
           /\ req' = [req EXCEPT ![t].tries = req[t].tries - 1]
           /\ Command(t, "dma", 0, req[t].at, Len16(req[t]))
           /\ cmd'[t] = [kind |-> "dma", dev |-> 0, at |-> req[t].at, len |-> Len16(req[t])]
  <2>1. OneIn' BY <1>0, <1>3, OneInEnters DEF AtaInv
  <2>2. (clash => clash') /\ (~apa /\ ~world.slave => ~clash') BY <1>1, <1>3, NobodyThere DEF Command
  <2>3. Asking(t)' /\ (~clash' => Serving(t)') BY <1>0, <1>1, <1>3, <2>2, ServingCommand DEF Retried
  <2> QED BY <1>1, <1>2, <2>1, <2>2, <2>3, OthersKeep
<1> SUFFICES ASSUME clash' = clash, pc'[t] \in {"chunk", "idle"}, Asking(t)', ~clash => Serving(t)'
             PROVE  /\ OneIn' /\ Alone' /\ (\A x \in Askers : Asking(x)')
                    /\ ~clash' => \A x \in Askers : Serving(x)'
  <2>1. CASE /\ req[t].op = "io" /\ res[t] = "ok" /\ UNCHANGED <<clash, res, served>>
             /\ \/ /\ req[t].n > Len16(req[t]) /\ pc'[t] = "chunk"
                   /\ req' = [req EXCEPT ![t].at = @ + Len16(req[t]), ![t].n = @ - Len16(req[t]), ![t].tries = 0]
                \/ /\ req[t].n <= Len16(req[t]) /\ pc'[t] = "idle"
                   /\ req' = [req EXCEPT ![t].at = @ + Len16(req[t]), ![t].n = 0, ![t].tries = 0]
    <3>1. Asking(t)' /\ (Serving(t) => Serving(t)') BY <1>0, <1>1, <2>1, CountedOff
    <3> QED BY <1>0, <2>1, <3>1
  <2>2. CASE pc'[t] = "idle" /\ clash' = clash /\ (req'[t].op # "io" \/ res'[t] # "ok") /\ req'[t] = NoReq
    <3>1. Asking(t)' /\ Serving(t)' BY <2>2 DEF Asking, Serving, Waiting, InWait, NoReq
    <3> QED BY <2>2, <3>1
  <2> QED BY <1>0, <1>3, <2>1, <2>2, AfterFrame
<1>4. pc'[t] \notin InCommand BY DEF InCommand, Waiting, InWait
<1>5. OneIn' BY <1>0, <1>1, <1>4, OneInStays DEF AtaInv
<1>6. ~apa /\ ~world.slave => ~clash' BY DEF AtaInv, Alone
<1> QED BY <1>1, <1>2, <1>5, <1>6, OthersKeep

LEMMA AsksKeeps ==
  ASSUME AtaInv, Asks
  PROVE  /\ OneIn' /\ Alone' /\ (\A x \in Askers : Asking(x)')
         /\ ~clash' => \A x \in Askers : Serving(x)'
<1>1. PICK t \in Askers, o \in {"io", "flush", "stop"}, a \in Nat, n \in Nat :
        Begin(t, o, a, n) /\ (o = "io" => n > 0 /\ n < Max48)
  <2>1. PICK t \in Askers : Transfer(t) \/ Flush(t) \/ Stop(t) BY DEF Asks, Askers
  <2>2. CASE Transfer(t)
    <3>1. PICK a \in 0 .. Sectors - 1 : \E n \in 1 .. Sectors - a : n < Max48 /\ Begin(t, "io", a, n)
      BY <2>2 DEF Transfer
    <3>2. PICK n \in 1 .. Sectors - a : n < Max48 /\ Begin(t, "io", a, n) BY <3>1
    <3>3. a \in Nat /\ n \in Nat /\ n > 0 BY AtaAssumption DEF AtaAssumption
    <3> QED BY <3>2, <3>3
  <2>3. CASE Flush(t) \/ Stop(t) BY <2>3 DEF Flush, Stop
  <2> QED BY <2>1, <2>2, <2>3
<1>0. t \in Clients /\ AtaTypes /\ ThreadType BY DEF Askers, AtaInv, AtaTypes
<1>2. /\ UNCHANGED <<world, users, connected, plan, state, drive, cmd>> /\ pc[t] = "idle"
      /\ IF t = "mount" THEN connected # {} ELSE apa
  BY <1>1 DEF Begin
<1>3. pc'[t] = "chunk" /\ \A x \in Clients \ {t} : UNCHANGED <<pc[x], req[x], res[x], cmd[x], served[x]>>
  <2>1. UNCHANGED cmd BY <1>2
  <2> QED BY <1>0, <1>1, <2>1 DEF Begin, Goto, ThreadType
<1>4. /\ req'[t] = [op |-> o, at |-> a, n |-> n, tries |-> 0, first |-> a, last |-> a + n]
      /\ served'[t] = {}
  BY <1>0, <1>1 DEF Begin, ThreadType
<1>5. Before(t)' = {}
  <2>1. Before(t)' = a .. a - 1 BY <1>4 DEF Before
  <2>2. a .. a - 1 = {} BY <1>1
  <2> QED BY <2>1, <2>2
<1>6. Serving(t)' BY <1>1, <1>3, <1>4, <1>5 DEF Serving, Waiting, InWait
<1>7. Asking(t)' BY <1>1, <1>4 DEF Asking
<1>8. UNCHANGED <<apa, clash>> BY <1>2 DEF users
<1>9. pc[t] \notin InCommand /\ pc'[t] \notin InCommand BY <1>2, <1>3 DEF InCommand, Waiting, InWait
<1>10. OneIn' BY <1>0, <1>3, <1>8, <1>9, OneInStays DEF AtaInv
<1>11. ~apa /\ ~world.slave => ~clash' BY <1>8 DEF AtaInv, Alone
<1> QED BY <1>2, <1>3, <1>6, <1>7, <1>8, <1>9, <1>10, <1>11, OthersKeep

LEMMA AroundKeeps ==
  ASSUME AtaInv, DriveOffers \/ DriveEnds \/ Interrupt \/ AlarmFires \/ NewCard
  PROVE  /\ OneIn' /\ Alone' /\ (\A x \in Askers : Asking(x)')
         /\ ~clash' => \A x \in Askers : Serving(x)'
<1>0. AtaTypes /\ SameJob(drive') /\ drive \in DriveStates /\ ThreadType
  BY AroundTypes DEF AtaInv, AtaTypes, SharedType
<1>1. UNCHANGED <<world, apa, clash, connected, plan, state, waiter, pc, cmd, req, res>>
  BY DEF DriveOffers, DriveEnds, Interrupt, AlarmFires, NewCard, Around, users
<1>2. OneIn' BY <1>1 DEF AtaInv, OneIn
<1>3. Alone' BY <1>1 DEF AtaInv, Alone, Starting
<1>4. \A x \in Askers : Asking(x)' BY <1>1 DEF AtaInv, Asking
<1>5. ASSUME ~clash', NEW x \in Askers PROVE Serving(x)'
  <2>0. Serving(x) /\ x \in Clients BY <1>1, <1>5 DEF AtaInv, Askers
  <2>1. CASE DriveOffers \/ Interrupt \/ AlarmFires \/ NewCard
    <3>1. drive'.busy = drive.busy /\ drive'.err = drive.err /\ UNCHANGED served
      BY <1>0, <2>1 DEF DriveOffers, Interrupt, AlarmFires, NewCard, hw, DriveStates
    <3> QED BY <1>0, <1>1, <2>0, <3>1, ServingSame DEF SameJob
  <2>2. CASE DriveEnds
    <3>1. PICK err \in {"ok", "io", "icrc"} :
            /\ drive' = [drive EXCEPT !.busy = FALSE, !.intrq = drive.kind # "pio", !.err = err, !.left = 0]
            /\ served' = IF err = "ok" /\ drive.kind = "dma" /\ pc[drive.by] \in Waiting
                         THEN [served EXCEPT ![drive.by] = @ \union (drive.at .. drive.at + drive.n - 1)]
                         ELSE served
      BY <2>2 DEF DriveEnds
    <3>2. drive'.err = err BY <1>0, <3>1, Zenon DEF DriveStates
    <3>3. Now(x)' = Now(x) /\ Before(x)' = Before(x) /\ Len16(req[x])' = Len16(req[x])
      BY <1>1 DEF Now, Before, Len16
    <3>4. CASE req[x].op = "io" /\ pc[x] \in Waiting
      <4>1. drive.by = x /\ drive.kind = "dma" /\ drive.at .. drive.at + drive.n - 1 = Now(x)
        BY <2>0, <3>4 DEF Serving, Now
      <4>2. served'[x] = served[x] \union (IF err = "ok" THEN Now(x) ELSE {})
        BY <1>0, <2>0, <3>1, <3>4, <4>1 DEF ThreadType
      <4>3. pc[x] # "idle" BY <3>4 DEF Waiting, InWait
      <4> QED BY <1>0, <1>1, <2>0, <3>2, <3>3, <3>4, <4>2, <4>3 DEF Serving, SameJob
    <3>5. CASE req[x].op = "io" /\ pc[x] \notin Waiting
      <4>1. served'[x] = served[x] BY <1>0, <2>0, <3>1, <3>5 DEF ThreadType
      <4> QED BY <1>1, <2>0, <3>3, <3>5, <4>1 DEF Serving
    <3>6. CASE req[x].op # "io" BY <1>1, <3>6 DEF Serving
    <3> QED BY <3>4, <3>5, <3>6
  <2> QED BY <2>1, <2>2
<1> QED BY <1>2, <1>3, <1>4, <1>5

LEMMA LoadPs2hddKeeps ==
  ASSUME AtaInv, LoadPs2hdd
  PROVE  /\ OneIn' /\ Alone' /\ (\A x \in Askers : Asking(x)')
         /\ ~clash' => \A x \in Askers : Serving(x)'
<1>1. UNCHANGED <<world, clash, state, drive, served, pc, cmd, req, res>> /\ apa' = TRUE BY DEF LoadPs2hdd, hw
<1>2. OneIn' /\ \A x \in Askers : Asking(x)' BY <1>1 DEF AtaInv, OneIn, Asking
<1>3. Alone' BY <1>1 DEF AtaInv, Alone
<1>4. ASSUME ~clash', NEW x \in Askers PROVE Serving(x)'
  <2>1. Serving(x) BY <1>1, <1>4 DEF AtaInv
  <2> QED BY <1>1, <2>1, ServingSame
<1> QED BY <1>2, <1>3, <1>4

LEMMA AtaInvNext ==
  ASSUME AtaInv, [AtaNext]_ataVars
  PROVE  AtaInv'
<1>1. AtaTypes' BY AtaTypesNext DEF AtaInv
<1> SUFFICES /\ OneIn' /\ Alone' /\ (\A x \in Askers : Asking(x)')
             /\ ~clash' => \A x \in Askers : Serving(x)'
  BY <1>1 DEF AtaInv
<1>2. CASE InitStep BY <1>2, InitStepKeeps
<1>3. ASSUME NEW t \in Clients, CommandStep(t)
      PROVE  OneIn' /\ Alone' /\ (\A x \in Askers : Asking(x)') /\ (~clash' => \A x \in Askers : Serving(x)')
  BY <1>3, CommandKeeps
<1>4. ASSUME NEW t \in Clients, RequestStep(t)
      PROVE  OneIn' /\ Alone' /\ (\A x \in Askers : Asking(x)') /\ (~clash' => \A x \in Askers : Serving(x)')
  <2>1. t \in Askers BY <1>4 DEF Askers, RequestStep, Chunk, After, AtaInv, Alone
  <2> QED BY <1>4, <2>1, ChunkKeeps, AfterKeeps DEF RequestStep
<1>5. CASE Asks BY <1>5, AsksKeeps
<1>6. CASE LoadPs2hdd BY <1>6, LoadPs2hddKeeps
<1>7. CASE DriveOffers \/ DriveEnds \/ Interrupt \/ AlarmFires \/ NewCard BY <1>7, AroundKeeps
<1>8. CASE UNCHANGED ataVars
  <2>1. UNCHANGED <<world, apa, clash, connected, plan, state, drive, served, pc, cmd, req, res>>
    BY <1>8 DEF ataVars, hw, users
  <2>2. OneIn' /\ (\A x \in Askers : Asking(x)') BY <2>1 DEF AtaInv, OneIn, Asking
  <2>3. Alone' BY <2>1 DEF AtaInv, Alone, Starting
  <2>4. ASSUME ~clash', NEW x \in Askers PROVE Serving(x)'
    <3>1. Serving(x) BY <2>1, <2>4 DEF AtaInv
    <3> QED BY <2>1, <3>1, ServingSame
  <2> QED BY <2>2, <2>3, <2>4
<1> QED BY <1>2, <1>3, <1>4, <1>5, <1>6, <1>7, <1>8 DEF AtaNext

LEMMA AtaKept == AtaSpec => []AtaInv
<1>1. AtaInv /\ [AtaNext]_ataVars => AtaInv' BY AtaInvNext
<1> QED BY <1>1, AtaInvStarts, PTL DEF AtaSpec

\* Two threads are in the driver together only once ps2hdd is loaded (luaHDD.cpp:229), or on a
\* DVRP with a slave; until then, once the device is handed over, only the mount thread is in it:
\* _start, which found it, has no command left to send (ata_init_devices, ps2atad.c:1286).
THEOREM OneThread == AtaSpec => []OneConsumer
<1>1. AtaInv => OneConsumer
  <2> SUFFICES ASSUME AtaInv, ~apa, ~world.slave PROVE ~clash /\ ~ (Cardinality(Using) > 1)
    <3>1. apa \/ world.slave => OneConsumer BY Zenon DEF OneConsumer
    <3>2. ASSUME ~clash, ~ (Cardinality(Using) > 1) PROVE OneConsumer BY <3>2 DEF OneConsumer
    <3> QED BY <3>1, <3>2
  <2>1. ~clash BY DEF AtaInv, Alone
  <2>2. \A t, x \in Using : t = x BY <2>1 DEF AtaInv, OneIn, Using
  <2>3. CASE Using = {}
    <3>1. Cardinality(Using) = 0 BY <2>3, FS_EmptySet
    <3> QED BY <2>1, <3>1
  <2>4. CASE Using # {}
    <3>1. PICK t \in Using : Using = {t} BY <2>2, <2>4
    <3>2. Cardinality(Using) = 1 BY <3>1, FS_Singleton
    <3> QED BY <2>1, <3>2
  <2> QED BY <2>3, <2>4
<1> QED BY <1>1, AtaKept, PTL

\* A transfer that is answered with success has been served, all of it and by the drive, so long
\* as no two threads have met in the driver: for disks of any size, commands of any length, any
\* number of tries, and whoever asked (ata_device_sector_io64, sceAtaWaitResult).
THEOREM OkIsServed == AtaSpec => []OkMeansServed
<1>1. AtaInv => OkMeansServed BY DEF AtaInv, Serving, OkMeansServed, Askers
<1> QED BY <1>1, AtaKept, PTL

-----------------------------------------------------------------------------
(* Who sleeps has an alarm, and a request has so many tries.               *)

Sleepers == {"flag", "dmawait", "endwait"}

(* The alarm and the flag's waiter are those of a thread that waits, and a  *)
(* thread that may yet sleep has its alarm set or its timeout told.         *)
Cared(t) ==
  /\ alarm = t => pc[t] \in Waiting /\ "timeout" \notin flag
  /\ waiter = t => pc[t] \in Sleepers
  /\ pc[t] \in {"select", "issue"} => "timeout" \notin flag
  /\ pc[t] \in Sleepers \union {"dma", "dmaend"} \/ (pc[t] = "wait" /\ Timed(state.kind))
       => alarm = t \/ "timeout" \in flag

AlarmInv == AtaInv /\ (~clash => \A t \in Clients : Cared(t))

(* A command is over: neither the alarm nor the flag is the thread's.       *)
LEMMA Unbound ==
  ASSUME ThreadType, NEW t \in Clients, alarm' # t, waiter' # t,
         \/ \E r : Return(t, r)
         \/ \E r : Finish(t, r)
  PROVE  Cared(t)'
<1>1. pc'[t] \in {"plan", "after", "finish"} BY DEF ThreadType, Return, Finish, Goto
<1> QED BY <1>1 DEF Cared, Sleepers

LEMMA GoesTo ==
  ASSUME ThreadType, NEW t \in Clients, NEW l, Goto(t, l)
  PROVE  pc'[t] = l
BY DEF ThreadType, Goto

LEMMA IssueCares ==
  ASSUME AtaTypes, NEW t \in Clients, Cared(t), Issue(t)
  PROVE  Cared(t)'
<1>0. ThreadType BY DEF AtaTypes
<1>1. alarm # t /\ waiter # t /\ "timeout" \notin flag /\ UNCHANGED <<waiter, flag>>
  BY DEF Issue, Cared, Sleepers, Waiting, InWait
<1>2. CASE UNCHANGED alarm /\ (Return(t, "notready") \/ Return(t, "alarm")) BY <1>0, <1>1, <1>2, Unbound
<1>3. CASE Goto(t, "wait") /\ alarm' = IF Timed(cmd[t].kind) THEN t ELSE alarm
  <2>1. pc'[t] = "wait" /\ state'.kind = cmd[t].kind BY <1>0, <1>3, GoesTo DEF Issue
  <2>2. Timed(state'.kind) => alarm' = t BY <1>3, <2>1
  <2> QED BY <1>1, <2>1, <2>2 DEF Cared, Sleepers, Waiting, Timed
<1> QED BY <1>2, <1>3 DEF Issue

(* Nobody else waits on the flag: what a thread takes from it is what is set. *)
LEMMA WakeCares ==
  ASSUME AtaTypes, NEW t \in Clients, t # "none", waiter \in {"none", t}, Cared(t), Flag(t) \/ DmaWait(t) \/ EndWait(t)
  PROVE  Cared(t)'
<1>0. ThreadType BY DEF AtaTypes
<1>1. PICK bits \in SUBSET {"complete", "timeout"} :
        /\ Bits(t, bits)
        /\ \/ "timeout" \in bits /\ (Return(t, "timeout") \/ Finish(t, "timeout"))
           \/ "timeout" \notin bits /\ DmaWait(t) /\ Finish(t, drive.err)
           \/ "timeout" \notin bits /\ (Goto(t, "settle") \/ Goto(t, "dma"))
  BY DEF Flag, DmaWait, EndWait
<1>2. bits = flag /\ flag' = {} /\ waiter' = "none" BY <1>1 DEF Bits
<1>3. pc[t] \in Sleepers /\ UNCHANGED alarm BY DEF Flag, DmaWait, EndWait, Sleepers
<1>4. CASE "timeout" \in bits
  <2>1. alarm' # t BY <1>2, <1>3, <1>4 DEF Cared
  <2> QED BY <1>0, <1>1, <1>2, <1>4, <2>1, Unbound
<1>5. CASE Finish(t, drive.err)
  <2>1. pc'[t] = "finish" BY <1>0, <1>5, GoesTo DEF Finish
  <2> QED BY <1>2, <2>1 DEF Cared, Sleepers, Waiting
<1>6. CASE "timeout" \notin bits /\ (Goto(t, "settle") \/ Goto(t, "dma"))
  <2>1. pc'[t] \in {"settle", "dma"} BY <1>0, <1>6, GoesTo
  <2>2. alarm' = t BY <1>2, <1>3, <1>6 DEF Cared
  <2> QED BY <1>2, <2>1, <2>2 DEF Cared, Sleepers, Waiting, InWait
<1> QED BY <1>1, <1>4, <1>5, <1>6

LEMMA CommandCares ==
  ASSUME AlarmInv, ~clash, NEW t \in Clients, CommandStep(t)
  PROVE  \A x \in Clients : Cared(x)'
<1>0. AtaTypes /\ ThreadType /\ AtaInv /\ Cared(t) BY DEF AlarmInv, AtaInv, AtaTypes
<1>1. pc[t] \in InCommand /\ \A x \in Clients \ {t} : pc'[x] = pc[x]
  BY <1>0, CommandFrame
<1>2. "none" \notin Clients BY ClientNames
<1>3. \A x \in Clients \ {t} : alarm # x /\ waiter # x /\ pc[x] \notin InCommand
  <2>1. \A x \in Clients \ {t} : pc[x] \notin InCommand BY <1>0, <1>1, OneInCommand
  <2> QED BY <2>1 DEF AlarmInv, Cared, InCommand, Waiting, InWait, Sleepers
<1>4. alarm' \in {alarm, t, "none"} /\ waiter' \in {waiter, t, "none"}
  BY DEF CommandStep, Exec, Select, Issue, Wait, Sleep, Flag, Dma, DmaWait, DmaEnd, EndWait, Pio, Settle, End,
         Stays, Bits, hw
<1>5. \A x \in Clients \ {t} : Cared(x)'
  BY <1>1, <1>2, <1>3, <1>4 DEF Cared, InCommand, Waiting, InWait, Sleepers
<1>6. alarm \in {"none", t} /\ waiter \in {"none", t} /\ t # "none"
  BY <1>0, <1>2, <1>3 DEF AtaTypes, SharedType
<1> SUFFICES Cared(t)' BY <1>5
<1>7. CASE Exec(t) \/ Select(t)
  <2>1. alarm # t /\ waiter # t /\ UNCHANGED <<alarm, waiter>>
    BY <1>0, <1>7 DEF Exec, Select, Cared, Sleepers, Waiting, InWait, hw
  <2>2. CASE Return(t, "nodev") \/ Return(t, "timeout") BY <1>0, <2>1, <2>2, Unbound
  <2>3. CASE Goto(t, "select") \/ Goto(t, "issue")
    <3>1. pc'[t] \in {"select", "issue"} BY <1>0, <2>3, GoesTo
    <3>2. "timeout" \notin flag' BY <1>0, <1>7 DEF Exec, Select, Cared, hw
    <3> QED BY <2>1, <3>1, <3>2 DEF Cared, Sleepers
  <2> QED BY <1>7, <2>2, <2>3 DEF Exec, Select
<1>8. CASE Issue(t) BY <1>0, <1>8, IssueCares
<1>9. CASE Wait(t)
  <2>1. pc[t] = "wait" /\ UNCHANGED <<alarm, waiter, flag>> BY <1>9 DEF Wait, hw
  <2>2. /\ state.kind \in {"nodata", "dma"} => pc'[t] \in {"flag", "dma"}
        /\ state.kind \notin {"nodata", "dma"} => pc'[t] = "pio"
    BY <1>0, <1>9, GoesTo DEF Wait
  <2> QED BY <1>0, <2>1, <2>2 DEF Cared, Sleepers, Waiting, InWait, Timed
<1>10. CASE Sleep(t) BY <1>0, <1>10 DEF Sleep, Stays, hw, Cared, Sleepers
<1>11. CASE Flag(t) \/ DmaWait(t) \/ EndWait(t) BY <1>0, <1>6, <1>11, WakeCares
<1>12. CASE Dma(t) \/ DmaEnd(t)
  <2>1. pc[t] \in {"dma", "dmaend"} /\ UNCHANGED <<alarm, waiter, flag>>
    BY <1>12 DEF Dma, DmaEnd
  <2>2. pc'[t] \in {"dma", "dmaend", "dmawait", "settle", "endwait", "finish"}
    <3>1. UNCHANGED pc \/ \E l \in {"dmaend", "dmawait", "settle", "endwait", "finish"} : Goto(t, l)
      BY <1>12 DEF Dma, DmaEnd, Finish
    <3> QED BY <1>0, <2>1, <3>1, GoesTo
  <2> QED BY <1>0, <2>1, <2>2 DEF Cared, Sleepers, Waiting, InWait, Timed
<1>13. CASE Pio(t) \/ Settle(t)
  <2>1. pc[t] \in {"pio", "settle"} /\ UNCHANGED <<alarm, waiter, flag>> BY <1>13 DEF Pio, Settle, hw
  <2>2. pc'[t] \in {"finish", "settle"}
    BY <1>0, <1>13, GoesTo DEF Pio, Settle, Finish
  <2> QED BY <1>0, <2>1, <2>2 DEF Cared, Sleepers, Waiting, InWait
<1>14. CASE End(t)
  <2>1. alarm' # t /\ waiter' # t BY <1>0, <1>6, <1>14 DEF End, Cared, Sleepers
  <2> QED BY <1>0, <1>14, <2>1, Unbound DEF End
<1> QED BY <1>7, <1>8, <1>9, <1>10, <1>11, <1>12, <1>13, <1>14 DEF CommandStep

LEMMA ClashStays == ASSUME [AtaNext]_ataVars, ~clash' PROVE ~clash
BY UsersStep DEF Command

(* Steps between commands: no thread whose label changes has the alarm.     *)
LEMMA OthersCare ==
  ASSUME AlarmInv, ~clash, UNCHANGED <<state, flag, alarm, waiter>>, NEW t \in Clients,
         pc[t] \notin InCommand, pc'[t] \notin InCommand \ {"exec"},
         \A x \in Clients \ {t} : pc'[x] = pc[x]
  PROVE  \A x \in Clients : Cared(x)'
BY DEF AlarmInv, Cared, InCommand, Waiting, InWait, Sleepers

LEMMA AlarmInvNext ==
  ASSUME AlarmInv, [AtaNext]_ataVars
  PROVE  AlarmInv'
<1>0. AtaInv /\ AtaTypes /\ ThreadType /\ "start" \in Clients
  BY ClientNames DEF AlarmInv, AtaInv, AtaTypes
<1>1. AtaInv' BY <1>0, AtaInvNext
<1> SUFFICES ASSUME ~clash' PROVE \A x \in Clients : Cared(x)' BY <1>1 DEF AlarmInv
<1>9. ~clash BY ClashStays
<1>2. CASE InitStep
  <2>1. UNCHANGED <<state, flag, alarm, waiter>>
    BY <1>2 DEF InitStep, Reset, Probe, Decide, Configure, Connect, Resident, InitFails, hw
  <2>2. pc["start"] \in {"reset", "soft", "probe", "decide", "plan"}
    BY <1>2 DEF InitStep, Reset, Probe, Decide, Configure, Connect, Resident
  <2>3. UNCHANGED pc \/ \E l \in {"soft", "probe", "decide", "plan", "done", "exec"} : pc' = [pc EXCEPT !["start"] = l]
    BY <1>2 DEF InitStep, Reset, Probe, Decide, Configure, Connect, Resident, InitFails, Goto, Command
  <2>4. pc'["start"] \notin InCommand \ {"exec"} /\ \A x \in Clients \ {"start"} : pc'[x] = pc[x]
    BY <1>0, <2>2, <2>3 DEF ThreadType, InCommand, Waiting, InWait
  <2>5. pc["start"] \notin InCommand BY <2>2 DEF InCommand, Waiting, InWait
  <2> QED BY <1>0, <2>1, <2>4, <2>5, OthersCare, <1>9
<1>3. ASSUME NEW t \in Clients, CommandStep(t) PROVE \A x \in Clients : Cared(x)' BY <1>3, <1>9, CommandCares
<1>4. ASSUME NEW t \in Clients, RequestStep(t) PROVE \A x \in Clients : Cared(x)'
  <2>1. UNCHANGED <<state, flag, alarm, waiter>> /\ pc[t] \in {"chunk", "after"}
    BY <1>4 DEF RequestStep, Chunk, After, hw
  <2>2. \E l \in {"exec", "chunk", "idle"} : Goto(t, l)
    BY <1>4 DEF RequestStep, Chunk, After, Command, Replied
  <2>3. pc'[t] \in {"exec", "chunk", "idle"} /\ \A x \in Clients \ {t} : pc'[x] = pc[x]
    BY <1>0, <2>2 DEF Goto, ThreadType
  <2> QED BY <2>1, <2>3, OthersCare, <1>9 DEF InCommand, Waiting, InWait
<1>5. CASE Asks
  <2>1. PICK t \in Clients : \E op, a, n : Begin(t, op, a, n) BY <1>5 DEF Asks, Transfer, Flush, Stop
  <2>2. UNCHANGED <<state, flag, alarm, waiter>> /\ pc[t] = "idle" /\ Goto(t, "chunk") BY <2>1 DEF Begin
  <2>3. pc'[t] = "chunk" /\ \A x \in Clients \ {t} : pc'[x] = pc[x] BY <1>0, <2>2 DEF Goto, ThreadType
  <2> QED BY <2>2, <2>3, OthersCare, <1>9 DEF InCommand, Waiting, InWait
<1>6. CASE DriveOffers \/ DriveEnds \/ NewCard \/ UNCHANGED ataVars
  BY <1>6, <1>9 DEF DriveOffers, DriveEnds, NewCard, Around, ataVars, hw, AlarmInv, Cared
<1>10. CASE LoadPs2hdd BY <1>9, <1>10 DEF LoadPs2hdd, hw, AlarmInv, Cared
<1>7. CASE Interrupt
  <2>1. flag' = flag \union {"complete"} /\ UNCHANGED <<state, alarm, waiter, pc>> BY <1>7 DEF Interrupt, Around
  <2> QED BY <1>9, <2>1 DEF AlarmInv, Cared
<1>8. CASE AlarmFires
  <2>1. /\ flag' = flag \union {"timeout"} /\ alarm' = "none" /\ alarm # "none"
        /\ UNCHANGED <<state, waiter, pc>>
    BY <1>8 DEF AlarmFires, Around
  <2>2. alarm \in Clients /\ pc[alarm] \in Waiting BY <1>0, <1>9, <2>1 DEF AtaTypes, SharedType, AlarmInv, Cared
  <2>3. \A x \in Clients : pc[x] \notin {"select", "issue"}
    <3>1. pc[alarm] \in InCommand BY <2>2 DEF InCommand
    <3>2. \A x \in Clients \ {alarm} : pc[x] \notin InCommand BY <1>0, <1>9, <2>2, <3>1, OneInCommand
    <3> QED BY <2>2, <3>2 DEF InCommand, Waiting, InWait
  <2>4. "none" \notin Clients BY ClientNames
  <2> QED BY <1>9, <2>1, <2>3, <2>4 DEF AlarmInv, Cared
<1> QED BY <1>2, <1>3, <1>4, <1>5, <1>6, <1>7, <1>8, <1>10 DEF AtaNext

LEMMA AlarmKept == AtaSpec => []AlarmInv
<1>1. AtaInit => AlarmInv
  <2> SUFFICES ASSUME AtaInit PROVE AlarmInv OBVIOUS
  <2>1. alarm = "none" /\ waiter = "none" /\ \A t \in Clients : pc[t] \in {"reset", "idle"} BY DEF AtaInit
  <2>2. "none" \notin Clients BY ClientNames
  <2> QED BY <2>1, <2>2, AtaInvStarts DEF AlarmInv, Cared, Sleepers
<1>2. AlarmInv /\ [AtaNext]_ataVars => AlarmInv' BY AlarmInvNext
<1> QED BY <1>1, <1>2, PTL DEF AtaSpec

\* WaitEventFlag: a thread that sleeps on the driver's flag has an alarm that is set and its
\* own, and nobody cancels it but the thread itself, once it is awake; so long as no other thread
\* has come into the driver, whose CancelAlarm it would be.
SleepersHaveAlarms ==
  ~clash => \A t \in Clients : pc[t] \in Sleepers /\ flag = {} => alarm = t

\* A drive that never answers strands no thread: whoever waits for an interrupt that does not
\* come is woken by the alarm of its own command (sceAtaWaitResult, ata_alarm_cb), until two
\* threads meet in the driver.
THEOREM AtaSleepersAreWoken == AtaSpec => []SleepersHaveAlarms
<1>1. AlarmInv => SleepersHaveAlarms BY DEF AlarmInv, Cared, SleepersHaveAlarms
<1> QED BY <1>1, AlarmKept, PTL

(* The tries a chunk of a thread's has before it, or has left.              *)
TriesLeft(t) ==
  IF pc[t] = "chunk" THEN Retries + 1 ELSE IF req[t].op = "io" THEN req[t].tries ELSE 0

\* ata_device_sector_io64: while a request is under way no step of anybody gives it sectors
\* or tries back, and each of its own between two commands takes sectors or a try away.
TriesRunOutFor(t) ==
  pc[t] # "idle" /\ pc'[t] # "idle" =>
    \/ req'[t].n < req[t].n
    \/ /\ req'[t].n = req[t].n /\ TriesLeft(t)' <= TriesLeft(t)
       /\ RequestStep(t) => TriesLeft(t)' < TriesLeft(t)

TriesRunOut == \A t \in Askers : TriesRunOutFor(t)

LEMMA TriesStay ==
  ASSUME AtaTypes, NEW t \in Askers, req'[t] = req[t], pc'[t] = pc[t] \/ pc[t] \in InCommand, ~ RequestStep(t),
         pc'[t] # "chunk" \/ pc[t] = "chunk"
  PROVE  TriesRunOutFor(t)
<1>1. t \in Clients BY DEF Askers
<1>2. req[t].tries \in Nat /\ Retries + 1 \in Nat
  BY <1>1, AtaAssumption DEF AtaAssumption, AtaTypes, ThreadType, Reqs
<1>3. TriesLeft(t)' = TriesLeft(t) BY DEF TriesLeft, InCommand, Waiting, InWait
<1>4. TriesLeft(t) <= TriesLeft(t) BY <1>2 DEF TriesLeft
<1> QED BY <1>3, <1>4 DEF TriesRunOutFor

(* What a retry and the next chunk take from the request.                   *)
LEMMA TriesTaken ==
  ASSUME AtaInv, NEW t \in Askers, RequestStep(t)
  PROVE  TriesRunOutFor(t)
<1> DEFINE r == req[t]
           s == req'[t]
<1>0. /\ t \in Clients /\ AtaTypes /\ ThreadType /\ Asking(t) /\ r \in Reqs
      /\ Retries \in Nat \ {0} /\ r.tries \in Nat /\ r.n \in Nat /\ Max48 \in Nat
  BY AtaAssumption DEF AtaAssumption, Askers, AtaInv, AtaTypes, ThreadType, Reqs
<1>1. CASE Chunk(t)
  <2>1. pc[t] = "chunk" /\ pc'[t] = "exec" BY <1>0, <1>1 DEF Chunk, Command, Goto, ThreadType
  <2>2. s.n = r.n /\ s.op = r.op /\ (r.op = "io" => s.tries = Retries) BY <1>0, <1>1 DEF Chunk, ThreadType, Reqs
  <2>3. TriesLeft(t) = Retries + 1 BY <2>1 DEF TriesLeft
  <2>4. TriesLeft(t)' \in {Retries, 0} BY <2>1, <2>2 DEF TriesLeft
  <2>5. TriesLeft(t)' < TriesLeft(t) /\ TriesLeft(t)' <= TriesLeft(t) BY <1>0, <2>3, <2>4
  <2> QED BY <2>2, <2>5 DEF TriesRunOutFor
<1>2. CASE After(t) /\ pc'[t] = "idle" BY <1>2 DEF TriesRunOutFor
<1>3. CASE After(t) /\ pc'[t] # "idle" /\ Retried(t) /\ pc'[t] = "exec" /\ req' = [req EXCEPT ![t].tries = req[t].tries - 1]
  <2>1. pc[t] = "after" /\ r.op = "io" BY <1>3 DEF After, Retried
  <2>2. s.n = r.n /\ s.op = r.op /\ s.tries = r.tries - 1 BY <1>0, <1>3 DEF ThreadType, Reqs
  <2>3. TriesLeft(t) = r.tries /\ TriesLeft(t)' = r.tries - 1 BY <1>3, <2>1, <2>2 DEF TriesLeft
  <2>4. TriesLeft(t)' < TriesLeft(t) /\ TriesLeft(t)' <= TriesLeft(t) BY <1>0, <2>3
  <2> QED BY <2>2, <2>4 DEF TriesRunOutFor
<1>4. CASE /\ After(t) /\ r.op = "io" /\ r.n > Len16(r) /\ pc'[t] = "chunk"
           /\ req' = [req EXCEPT ![t].at = @ + Len16(r), ![t].n = @ - Len16(r), ![t].tries = 0]
  <2>1. r.n > 0 /\ r.n < Max48 BY <1>0, <1>4 DEF Asking, After
  <2>2. Len16(r) \in 0 .. r.n /\ Len16(r) > 0 BY <1>0, <1>4, <2>1, Lengths
  <2>4. s.n = r.n - Len16(r) BY <1>0, <1>4 DEF ThreadType, Reqs
  <2>5. s.n < r.n BY <1>0, <2>2, <2>4
  <2> QED BY <2>5 DEF TriesRunOutFor
<1>5. After(t) => \/ pc'[t] = "idle"
                  \/ Retried(t) /\ pc'[t] = "exec" /\ req' = [req EXCEPT ![t].tries = req[t].tries - 1]
                  \/ /\ r.op = "io" /\ r.n > Len16(r) /\ pc'[t] = "chunk"
                     /\ req' = [req EXCEPT ![t].at = @ + Len16(r), ![t].n = @ - Len16(r), ![t].tries = 0]
  BY <1>0, AfterFrame
<1> QED BY <1>1, <1>2, <1>3, <1>4, <1>5 DEF RequestStep

\* However often the interface corrupts a transfer, and whoever else is in the driver, a request
\* comes to an end: it has so many sectors, each chunk takes some, and each chunk has so many
\* tries (ata_device_sector_io64).
THEOREM RequestsRunOut == AtaSpec => [][TriesRunOut]_ataVars
<1>1. AtaInv /\ [AtaNext]_ataVars => [TriesRunOut]_ataVars
  <2> SUFFICES ASSUME AtaInv, AtaNext, NEW t \in Askers PROVE TriesRunOutFor(t)
    <3>1. AtaInv /\ AtaNext => TriesRunOut BY Zenon DEF TriesRunOut
    <3> QED BY <3>1
  <2>0. AtaTypes /\ ThreadType /\ t \in Clients /\ t # "start" BY DEF AtaInv, AtaTypes, Askers
  <2>1. CASE RequestStep(t) BY <2>1, TriesTaken
  <2>2. CASE InitStep /\ ~ RequestStep(t)
    <3>1. pc'[t] = pc[t]
      <4>1. UNCHANGED pc \/ \E l : pc' = [pc EXCEPT !["start"] = l]
        BY <2>2 DEF InitStep, Reset, Probe, Decide, Configure, Connect, Resident, InitFails, Goto, Command
      <4> QED BY <2>0, <4>1 DEF ThreadType
    <3>2. req'[t] = req[t]
      <4>1. UNCHANGED req \/ \E l : req' = [req EXCEPT !["start"].op = l]
        BY <2>2 DEF InitStep, Reset, Probe, Decide, Configure, Connect, Resident, InitFails, Goto, Command
      <4> QED BY <2>0, <4>1 DEF ThreadType
    <3> QED BY <2>0, <2>2, <3>1, <3>2, TriesStay
  <2>3. ASSUME NEW x \in Clients, CommandStep(x) PROVE TriesRunOutFor(t)
    <3>1. UNCHANGED req /\ (pc'[t] = pc[t] \/ (pc[t] \in InCommand /\ pc'[t] # "chunk"))
      BY <2>0, <2>3, CommandFrame DEF Back, InCommand, Waiting, InWait
    <3> QED BY <2>0, <2>1, <3>1, TriesStay
  <2>4. ASSUME NEW x \in Clients \ {t}, RequestStep(x) PROVE TriesRunOutFor(t)
    <3>1. CASE Chunk(x)
      <4>1. pc'[t] = pc[t] /\ req'[t] = req[t] BY <2>0, <2>4, <3>1 DEF Chunk, Command, Goto, ThreadType
      <4> QED BY <2>0, <2>1, <4>1, TriesStay
    <3>2. CASE After(x)
      <4>1. pc'[t] = pc[t] /\ req'[t] = req[t] BY <2>0, <2>4, <3>2, AfterFrame
      <4> QED BY <2>0, <2>1, <4>1, TriesStay
    <3> QED BY <2>4, <3>1, <3>2 DEF RequestStep
  <2>5. CASE Asks
    <3>1. PICK x \in Clients : \E o, a, n : Begin(x, o, a, n) BY <2>5 DEF Asks, Transfer, Flush, Stop
    <3>2. CASE x = t BY <3>1, <3>2 DEF Begin, TriesRunOutFor
    <3>3. CASE x # t
      <4>1. pc'[t] = pc[t] /\ req'[t] = req[t] BY <2>0, <3>1, <3>3 DEF Begin, Goto, ThreadType
      <4> QED BY <2>0, <2>1, <4>1, TriesStay
    <3> QED BY <3>2, <3>3
  <2>6. CASE DriveOffers \/ DriveEnds \/ Interrupt \/ AlarmFires \/ NewCard \/ LoadPs2hdd
    <3>1. UNCHANGED <<pc, req>>
      BY <2>6 DEF DriveOffers, DriveEnds, Interrupt, AlarmFires, NewCard, Around, LoadPs2hdd
    <3> QED BY <2>0, <2>1, <3>1, TriesStay
  <2> QED BY <2>1, <2>2, <2>3, <2>4, <2>5, <2>6 DEF AtaNext
<1> QED BY <1>1, AtaKept, PTL DEF AtaSpec

-----------------------------------------------------------------------------
(* Ds34Bt: slots, links and the events that tell of them                   *)

PadStates == [addr : Ctrls \union {None}, handle : Ctrls \union {None}, connected : BOOLEAN,
              running : BOOLEAN, disconnecting : BOOLEAN, type : {"ds3", "ds4"},
              data : Ctrls \union {None}]
Frames == [kind : {"none", "connReqC", "connReqI", "connRspC", "connRspI", "cfgRspC", "cfgRspI",
                   "report", "dreq"}, chan : {"ds3", "ds4"}]
BringUp == {"reset", "bdaddr", "version", "features", "scan"}
Jobs == [op : BringUp] \union [op : {"accept", "name"}, c : Ctrls]
Events == [kind : {"complete"}, op : BringUp, ok : BOOLEAN]
          \union [kind : {"connDone", "name"}, c : Ctrls, ok : BOOLEAN]
          \union [kind : {"connReq", "disc"}, c : Ctrls]

BtTypes ==
  /\ dongle \in {"out", "set", "in"} /\ configured \in BOOLEAN
  /\ pads \in [Pads -> PadStates] /\ jobs \in SUBSET Jobs
  /\ events \in Seq(Events) /\ Len(events) <= MaxEvents
  /\ link \in [Ctrls -> {"off", "asking", "up", "dropping"}]
  /\ live \in [Ctrls -> {None, "ds3", "ds4"}]
  /\ frame \in [Ctrls -> Frames] /\ polled \in Pads \union {None}

(* Nothing is kept of a dongle that is out or not set up.                   *)
Bare ==
  dongle # "in" => /\ ~configured /\ pads = [p \in Pads |-> Cleared] /\ jobs = {} /\ events = <<>>
                   /\ link = [c \in Ctrls |-> "off"] /\ live = [c \in Ctrls |-> None]

(* What the queue tells of a link, in the order it came about: that it is   *)
(* up (or failed), that it ended, that the controller asks for another.     *)
Age == [connDone |-> 1, disc |-> 2, connReq |-> 3]
Tells(i, k, c) == i \in 1 .. Len(events) /\ events[i].kind = k /\ events[i].c = c
Pending(k, c) == \E i \in 1 .. Len(events) : Tells(i, k, c)
Hailed(c) == \E i \in 1 .. Len(events) : Tells(i, "connDone", c) /\ events[i].ok
Accepting(c) == [op |-> "accept", c |-> c] \in jobs

InOrder ==
  \A c \in Ctrls, i, j \in 1 .. Len(events), k, l \in DOMAIN Age :
    i < j /\ Tells(i, k, c) /\ Tells(j, l, c) => Age[k] < Age[l]

LinkIsTold(c) ==
  /\ Accepting(c) => link[c] = "asking" /\ \A k \in DOMAIN Age : ~ Pending(k, c)
  /\ Pending("connReq", c) => link[c] = "asking"
  /\ Pending("disc", c) => link[c] \in {"off", "asking"}
  /\ Pending("connDone", c) => live[c] = None /\ frame[c].kind \in {"none", "connReqC"}
  /\ Hailed(c) => link[c] \in {"up", "dropping"} \/ Pending("disc", c)

(* A slot has the handle of a link the driver knows of, though not always   *)
(* its address, and a controller that reports plays.                        *)
HandleIsLink(p, c) ==
  pads[p].handle = c =>
    /\ ~ Pending("connDone", c)
    /\ link[c] \in {"up", "dropping"} \/ Pending("disc", c)
    /\ live[c] # None \/ frame[c].kind \in {"report", "dreq"} => pads[p].running

OneSlot == \A p, q \in Pads : pads[p].handle \in Ctrls /\ pads[p].handle = pads[q].handle => p = q

SlotInUse(p) ==
  /\ pads[p].connected \/ pads[p].running => pads[p].handle \in Ctrls
  /\ pads[p].data \in Ctrls => pads[p].running

LinksAreTold == \A c \in Ctrls : LinkIsTold(c)
HandlesAreLinks == OneSlot /\ \A p \in Pads, c \in Ctrls : HandleIsLink(p, c)
SlotsInUse == \A p \in Pads : SlotInUse(p)

BtInv == BtTypes /\ Bare /\ InOrder /\ LinksAreTold /\ HandlesAreLinks /\ SlotsInUse

-----------------------------------------------------------------------------
(* Events, jobs and slots                                                  *)

LEMMA EventKinds ==
  ASSUME NEW e \in Events
  PROVE  /\ e.kind \in {"complete", "connDone", "name", "connReq", "disc"}
         /\ e.kind = "complete" => e.op \in BringUp /\ e.ok \in BOOLEAN
         /\ e.kind \in {"connDone", "name"} => e.c \in Ctrls /\ e.ok \in BOOLEAN
         /\ e.kind \in {"connReq", "disc"} => e.c \in Ctrls
<1>1. CASE e \in [kind : {"complete"}, op : BringUp, ok : BOOLEAN] BY <1>1
<1>2. CASE e \in [kind : {"connDone", "name"}, c : Ctrls, ok : BOOLEAN] BY <1>2
<1>3. CASE e \in [kind : {"connReq", "disc"}, c : Ctrls] BY <1>3
<1> QED BY <1>1, <1>2, <1>3 DEF Events

LEMMA JobKinds ==
  ASSUME NEW j \in Jobs
  PROVE  j.op \in BringUp \/ (j.op \in {"accept", "name"} /\ j.c \in Ctrls /\ j = [op |-> j.op, c |-> j.c])
<1>1. CASE j \in [op : BringUp] BY <1>1
<1>2. CASE j \in [op : {"accept", "name"}, c : Ctrls] BY <1>2
<1> QED BY <1>1, <1>2 DEF Jobs

LEMMA Queued ==
  ASSUME BtTypes, NEW e \in Events, events' = Append(events, e)
  PROVE  /\ events' \in Seq(Events) /\ Len(events) \in Nat /\ Len(events') = Len(events) + 1
         /\ events'[Len(events) + 1] = e
         /\ \A i \in 1 .. Len(events) : events'[i] = events[i]
BY AppendProperties DEF BtTypes

LEMMA Dequeued ==
  ASSUME BtTypes, events # <<>>, events' = Tail(events)
  PROVE  /\ events' \in Seq(Events) /\ Len(events) \in Nat \ {0} /\ Len(events') = Len(events) - 1
         /\ \A i \in 1 .. Len(events') : events'[i] = events[i + 1]
         /\ Head(events) = events[1] /\ Head(events) \in Events
<1>1. events \in Seq(Events) BY DEF BtTypes
<1>2. Len(events) \in Nat \ {0} BY <1>1
<1> QED BY <1>1, <1>2

LEMMA ClearedType == Cleared \in PadStates
BY DEF Cleared, PadStates, Neutral

(* The slot of a handle: nobody shares it.                                  *)
LEMMA PadOfIs ==
  ASSUME HandlesAreLinks, NEW c \in Ctrls
  PROVE  PadOf(c) = {p \in Pads : pads[p].handle = c}
<1>1. \A p \in Pads : p <= p BY PadsAssumption DEF PadsAssumption
<1>2. \A p, q \in Pads : pads[p].handle = c /\ pads[q].handle = c => p = q BY DEF HandlesAreLinks, OneSlot
<1> QED BY <1>1, <1>2 DEF PadOf, First

LEMMA PadAtIs ==
  ASSUME NEW c, NEW p \in PadAt(c)
  PROVE  p \in Pads /\ pads[p].addr = c
BY DEF PadAt, First

LEMMA PadOfIn ==
  ASSUME NEW c, NEW p \in PadOf(c)
  PROVE  p \in Pads /\ pads[p].handle = c
BY DEF PadOf, First

LEMMA FreeIs ==
  ASSUME NEW p \in First(Takeable)
  PROVE  p \in Pads /\ ~ pads[p].running
BY DEF First, Takeable

-----------------------------------------------------------------------------
(* Types                                                                   *)

LEMMA BtStarts == Init => BtInv
<1> SUFFICES ASSUME Init PROVE BtInv OBVIOUS
<1>1. BtTypes
  <2>1. pads \in [Pads -> PadStates] BY ClearedType DEF Init
  <2>2. NoFrame \in Frames BY DEF NoFrame, Frames
  <2>3. events \in Seq(Events) /\ Len(events) <= MaxEvents
    BY PadsAssumption DEF Init, PadsAssumption
  <2> QED BY <2>1, <2>2, <2>3 DEF Init, BtTypes
<1>2. \A p \in Pads : pads[p] = Cleared BY DEF Init
<1>3. SlotsInUse
  BY <1>2, ControllersAssumption DEF SlotsInUse, SlotInUse, Cleared, Neutral, ControllersAssumption, Ctrls
<1>4. HandlesAreLinks
  BY <1>2, ControllersAssumption DEF HandlesAreLinks, OneSlot, HandleIsLink, Cleared,
      ControllersAssumption, Ctrls
<1>5. events = <<>> /\ Len(events) = 0 /\ jobs = {} BY DEF Init
<1>6. Bare BY DEF Bare, Init
<1>7. InOrder BY <1>5 DEF InOrder
<1>8. LinksAreTold BY <1>5 DEF LinksAreTold, LinkIsTold, Accepting, Hailed, Pending, Tells
<1> QED BY <1>1, <1>3, <1>4, <1>6, <1>7, <1>8 DEF BtInv

LEMMA PadChange ==
  ASSUME BtTypes, NEW p \in Pads, NEW s \in PadStates, pads' = [pads EXCEPT ![p] = s]
  PROVE  /\ pads' \in [Pads -> PadStates] /\ pads'[p] = s
         /\ \A q \in Pads \ {p} : pads'[q] = pads[q]
BY DEF BtTypes

LEMMA OtherTypes ==
  ASSUME BtTypes, Plug \/ ConfigSet \/ Unplug \/ (\E p \in Pads : GetStatus(p)) \/ GetData
  PROVE  BtTypes'
<1>1. CASE Plug BY <1>1 DEF Plug, BtTypes
<1>2. CASE ConfigSet
  <2>1. pads' \in [Pads -> PadStates] BY <1>2, ClearedType DEF ConfigSet
  <2>2. [op |-> "reset"] \in Jobs BY DEF Jobs, BringUp
  <2> QED BY <1>2, <2>1, <2>2 DEF ConfigSet, BtTypes
<1>3. CASE Unplug
  <2>1. pads' \in [Pads -> PadStates] BY <1>3, ClearedType DEF Unplug
  <2>2. NoFrame \in Frames BY DEF NoFrame, Frames
  <2>3. events' \in Seq(Events) /\ Len(events') <= MaxEvents
    BY <1>3, PadsAssumption DEF Unplug, PadsAssumption
  <2> QED BY <1>3, <2>1, <2>2, <2>3 DEF Unplug, BtTypes
<1>4. CASE \E p \in Pads : GetStatus(p) BY <1>4 DEF GetStatus, BtTypes
<1>5. CASE GetData BY <1>5 DEF GetData, BtTypes
<1> QED BY <1>1, <1>2, <1>3, <1>4, <1>5

LEMMA QueuedTypes ==
  ASSUME BtTypes, Room, NEW e \in Events, events' = Append(events, e)
  PROVE  events' \in Seq(Events) /\ Len(events') <= MaxEvents
BY Queued, PadsAssumption DEF Room, PadsAssumption

LEMMA JobDoneTypes ==
  ASSUME BtTypes, NEW j \in jobs, JobDone(j)
  PROVE  BtTypes'
<1>1. j \in Jobs BY DEF BtTypes
<1>2. Room /\ jobs' \in SUBSET Jobs /\ UNCHANGED <<dongle, configured, pads, polled>>
  BY DEF JobDone, BtTypes
<1>3. CASE j.op \in BringUp /\ UNCHANGED <<link, live, frame>>
           /\ \E ok \in BOOLEAN : events' = Append(events, [kind |-> "complete", op |-> j.op, ok |-> ok])
  <2>1. PICK ok \in BOOLEAN : events' = Append(events, [kind |-> "complete", op |-> j.op, ok |-> ok])
    BY <1>3
  <2>2. [kind |-> "complete", op |-> j.op, ok |-> ok] \in Events BY <1>3 DEF Events
  <2>3. events' \in Seq(Events) /\ Len(events') <= MaxEvents BY <1>2, <2>1, <2>2, QueuedTypes
  <2> QED BY <1>2, <1>3, <2>3 DEF BtTypes
<1>4. CASE j.op = "accept" /\ j.c \in Ctrls
           /\ (\E up \in BOOLEAN :
                 /\ link' = [link EXCEPT ![j.c] = IF up THEN "up" ELSE "off"]
                 /\ frame' = [frame EXCEPT ![j.c] =
                       IF up /\ j.c \in Ds3 THEN [kind |-> "connReqC", chan |-> "ds3"] ELSE NoFrame]
                 /\ events' = Append(events, [kind |-> "connDone", c |-> j.c, ok |-> up]))
           /\ live' = [live EXCEPT ![j.c] = None]
  <2>1. PICK up \in BOOLEAN :
          /\ link' = [link EXCEPT ![j.c] = IF up THEN "up" ELSE "off"]
          /\ frame' = [frame EXCEPT ![j.c] =
                IF up /\ j.c \in Ds3 THEN [kind |-> "connReqC", chan |-> "ds3"] ELSE NoFrame]
          /\ events' = Append(events, [kind |-> "connDone", c |-> j.c, ok |-> up])
    BY <1>4
  <2>2. [kind |-> "connDone", c |-> j.c, ok |-> up] \in Events BY <1>4 DEF Events
  <2>3. events' \in Seq(Events) /\ Len(events') <= MaxEvents BY <1>2, <2>1, <2>2, QueuedTypes
  <2>4. NoFrame \in Frames /\ [kind |-> "connReqC", chan |-> "ds3"] \in Frames BY DEF NoFrame, Frames
  <2> QED BY <1>2, <1>4, <2>1, <2>3, <2>4 DEF BtTypes
<1>5. CASE j.op = "name" /\ j.c \in Ctrls /\ UNCHANGED <<link, live, frame>>
           /\ events' = Append(events, [kind |-> "name", c |-> j.c, ok |-> link[j.c] = "up"])
  <2>1. (link[j.c] = "up") \in BOOLEAN OBVIOUS
  <2>2. [kind |-> "name", c |-> j.c, ok |-> link[j.c] = "up"] \in Events BY <1>5, <2>1 DEF Events
  <2>3. events' \in Seq(Events) /\ Len(events') <= MaxEvents BY <1>2, <1>5, <2>2, QueuedTypes
  <2> QED BY <1>2, <1>5, <2>3 DEF BtTypes
<1> QED BY <1>1, <1>3, <1>4, <1>5, JobKinds DEF JobDone, BringUp

LEMMA CtrlTypes ==
  ASSUME BtTypes, NEW c \in Ctrls, Ask(c) \/ LinkDown(c) \/ Report(c) \/ L2capError
  PROVE  BtTypes'
<1>1. CASE Ask(c)
  <2>1. [kind |-> "connReq", c |-> c] \in Events BY DEF Events
  <2>2. events' \in Seq(Events) /\ Len(events') <= MaxEvents BY <1>1, <2>1, QueuedTypes DEF Ask
  <2> QED BY <1>1, <2>2 DEF Ask, BtTypes
<1>2. CASE LinkDown(c)
  <2>1. [kind |-> "disc", c |-> c] \in Events BY DEF Events
  <2>2. events' \in Seq(Events) /\ Len(events') <= MaxEvents BY <1>2, <2>1, QueuedTypes DEF LinkDown
  <2> QED BY <1>2, <2>2 DEF LinkDown, BtTypes
<1>3. CASE Report(c)
  <2>1. PICK k \in {"report", "dreq"} : frame' = [frame EXCEPT ![c] = [kind |-> k, chan |-> live[c]]]
    BY <1>3 DEF Report
  <2>2. live[c] \in {"ds3", "ds4"} BY <1>3 DEF Report, BtTypes
  <2>3. [kind |-> k, chan |-> live[c]] \in Frames BY <2>2 DEF Frames
  <2> QED BY <1>3, <2>1, <2>3 DEF Report, BtTypes
<1>4. CASE L2capError
  <2>1. PICK h \in Ctrls \cup {None} : link' \in Drop(h) BY <1>4 DEF L2capError
  <2>2. link' \in [Ctrls -> {"off", "asking", "up", "dropping"}] BY <2>1 DEF Drop, BtTypes
  <2> QED BY <1>4, <2>2 DEF L2capError, BtTypes
<1> QED BY <1>1, <1>2, <1>3, <1>4

(* What an event makes of the slots.                                        *)
LEMMA CompleteTypes ==
  ASSUME BtTypes, NEW e \in Events, e.kind = "complete", CommandComplete(e)
  PROVE  configured' \in BOOLEAN /\ jobs' \in SUBSET Jobs
<1>1. e.op \in BringUp /\ e.ok \in BOOLEAN BY EventKinds
<1>2. configured' \in BOOLEAN BY <1>1 DEF CommandComplete, BtTypes
<1>3. [op |-> "reset"] \in Jobs BY DEF Jobs, BringUp
<1>4. e.op # "scan" => [op |-> NextStep(e.op)] \in Jobs BY <1>1 DEF Jobs, BringUp, NextStep
<1> QED BY <1>1, <1>2, <1>3, <1>4 DEF CommandComplete, BtTypes

LEMMA ConnectTypes ==
  ASSUME BtTypes, NEW e \in Events, e.kind = "connDone", ConnectComplete(e)
  PROVE  pads' \in [Pads -> PadStates] /\ jobs' \in SUBSET Jobs
<1>1. e.c \in Ctrls BY EventKinds
<1>2. CASE UNCHANGED <<pads, jobs>> BY <1>2 DEF BtTypes
<1>3. CASE \E p \in PadAt(e.c) :
             /\ pads' = [pads EXCEPT ![p].handle = e.c, ![p].connected = TRUE]
             /\ jobs' = jobs \cup {[op |-> "name", c |-> e.c]}
  <2>1. PICK p \in PadAt(e.c) :
             /\ pads' = [pads EXCEPT ![p].handle = e.c, ![p].connected = TRUE]
             /\ jobs' = jobs \cup {[op |-> "name", c |-> e.c]}
    BY <1>3
  <2>2. p \in Pads BY PadAtIs
  <2>3. pads[p] \in PadStates BY <2>2 DEF BtTypes
  <2>4. [[pads[p] EXCEPT !.handle = e.c] EXCEPT !.connected = TRUE] \in PadStates
    BY <1>1, <2>3 DEF PadStates
  <2>5. [op |-> "name", c |-> e.c] \in Jobs BY <1>1 DEF Jobs
  <2> QED BY <2>1, <2>2, <2>4, <2>5 DEF BtTypes
<1> QED BY <1>2, <1>3 DEF ConnectComplete

LEMMA DisconnTypes ==
  ASSUME BtTypes, NEW e, DisconnComplete(e)
  PROVE  pads' \in [Pads -> PadStates]
BY ClearedType DEF DisconnComplete, BtTypes

LEMMA AnswerTypes ==
  ASSUME BtTypes, NEW c \in Ctrls, NEW chan \in {"ds3", "ds4"},
         NEW kinds, kinds \subseteq {"connReqI", "connRspC", "connRspI", "cfgRspC", "cfgRspI"},
         Answer(c, kinds, chan)
  PROVE  /\ frame' \in [Ctrls -> Frames] /\ \A d \in Ctrls \ {c} : frame'[d] = frame[d]
         /\ frame'[c] = frame[c] \/ frame'[c].kind \notin {"none", "connReqC", "report", "dreq"}
<1>1. CASE UNCHANGED frame BY <1>1 DEF BtTypes
<1>2. CASE \E k \in kinds : frame' = [frame EXCEPT ![c] = [kind |-> k, chan |-> chan]]
  <2>1. PICK k \in kinds : frame' = [frame EXCEPT ![c] = [kind |-> k, chan |-> chan]] BY <1>2
  <2>2. [kind |-> k, chan |-> chan] \in Frames BY DEF Frames
  <2> QED BY <2>1, <2>2 DEF BtTypes
<1> QED BY <1>1, <1>2 DEF Answer

LEMMA NameTypes ==
  ASSUME BtTypes, NEW e \in Events, e.kind = "name", NameComplete(e)
  PROVE  /\ pads' \in [Pads -> PadStates] /\ frame' \in [Ctrls -> Frames]
         /\ \A p \in Pads : pads'[p].addr = pads[p].addr /\ pads'[p].handle = pads[p].handle
                            /\ pads'[p].connected = pads[p].connected
                            /\ pads'[p].running = pads[p].running /\ pads'[p].data = pads[p].data
         /\ \A c \in Ctrls : \/ frame'[c] = frame[c]
                             \/ /\ frame'[c].kind \notin {"none", "connReqC", "report", "dreq"}
                                /\ \E p \in Pads : pads[p].handle = c
<1>1. e.c \in Ctrls BY EventKinds
<1>2. ASSUME NEW p \in Pads
      PROVE  /\ [pads[p] EXCEPT !.type = TypeOf(e.c)] \in PadStates /\ pads[p] \in PadStates
             /\ LET s == [pads[p] EXCEPT !.type = TypeOf(e.c)] IN
                /\ s.addr = pads[p].addr /\ s.handle = pads[p].handle
                /\ s.connected = pads[p].connected
                /\ s.running = pads[p].running /\ s.data = pads[p].data
  <2>1. TypeOf(e.c) \in {"ds3", "ds4"} BY DEF TypeOf
  <2>2. pads[p] \in PadStates BY DEF BtTypes
  <2> QED BY <2>1, <2>2 DEF PadStates
<1>3. pads' = [p \in Pads |-> IF e.ok /\ p \in PadAt(e.c)
                              THEN [pads[p] EXCEPT !.type = TypeOf(e.c)] ELSE pads[p]]
  BY DEF NameComplete
<1>4. CASE UNCHANGED frame BY <1>2, <1>3, <1>4 DEF BtTypes
<1>5. CASE (\E p \in PadAt(e.c) : pads[p].handle = e.c) /\ Answer(e.c, {"connRspC"}, "ds4")
  <2>1. \E p \in Pads : pads[p].handle = e.c BY <1>5, PadAtIs
  <2>2. /\ frame' \in [Ctrls -> Frames] /\ \A d \in Ctrls \ {e.c} : frame'[d] = frame[d]
        /\ frame'[e.c] = frame[e.c] \/ frame'[e.c].kind \notin {"none", "connReqC", "report", "dreq"}
    BY <1>1, <1>5, AnswerTypes
  <2> QED BY <1>2, <1>3, <2>1, <2>2
<1> QED BY <1>4, <1>5 DEF NameComplete

(* A slot is taken: it keeps the handle and the data of the one it had.     *)
LEMMA TakenTypes ==
  ASSUME BtTypes, NEW e \in Events, e.kind = "connReq", ConnectRequest(e)
  PROVE  \/ /\ UNCHANGED <<pads, jobs>> /\ link' = [link EXCEPT ![e.c] = "off"]
            /\ link' \in [Ctrls -> {"off", "asking", "up", "dropping"}]
         \/ \E p \in Pads :
              /\ ~ pads[p].running
              /\ link' \in (IF pads[p].connected THEN Drop(pads[p].handle) ELSE {link})
              /\ link' \in [Ctrls -> {"off", "asking", "up", "dropping"}]
              /\ jobs' = jobs \union {[op |-> "accept", c |-> e.c]} /\ jobs' \in SUBSET Jobs
              /\ pads' \in [Pads -> PadStates] /\ \A q \in Pads \ {p} : pads'[q] = pads[q]
              /\ pads'[p].addr = e.c /\ pads'[p].handle = pads[p].handle
              /\ ~ pads'[p].connected /\ ~ pads'[p].running /\ pads'[p].data = pads[p].data
<1>1. e.c \in Ctrls BY EventKinds
<1>2. CASE link' = [link EXCEPT ![e.c] = "off"] /\ UNCHANGED <<pads, jobs>>
  <2>1. link' \in [Ctrls -> {"off", "asking", "up", "dropping"}] BY <1>2 DEF BtTypes
  <2> QED BY <1>2, <2>1
<1>3. CASE \E p \in First(Takeable) :
               /\ link' \in IF pads[p].connected THEN Drop(pads[p].handle) ELSE {link}
               /\ pads' = [pads EXCEPT ![p].addr = e.c, ![p].connected = FALSE,
                                       ![p].running = FALSE, ![p].disconnecting = FALSE]
               /\ jobs' = jobs \cup {[op |-> "accept", c |-> e.c]}
  <2>1. PICK p \in First(Takeable) :
               /\ link' \in IF pads[p].connected THEN Drop(pads[p].handle) ELSE {link}
               /\ pads' = [pads EXCEPT ![p].addr = e.c, ![p].connected = FALSE,
                                       ![p].running = FALSE, ![p].disconnecting = FALSE]
               /\ jobs' = jobs \cup {[op |-> "accept", c |-> e.c]}
    BY <1>3
  <2>2. p \in Pads /\ ~ pads[p].running BY FreeIs
  <2> DEFINE s == [pads[p] EXCEPT !.addr = e.c, !.connected = FALSE, !.running = FALSE,
                                  !.disconnecting = FALSE]
  <2>3. pads[p] \in PadStates BY <2>2 DEF BtTypes
  <2>4. /\ s \in PadStates /\ s.addr = e.c /\ s.handle = pads[p].handle
        /\ ~ s.connected /\ ~ s.running /\ s.data = pads[p].data
    BY <1>1, <2>3 DEF PadStates
  <2>5. pads' = [pads EXCEPT ![p] = s] BY <2>1, <2>2 DEF BtTypes
  <2> HIDE DEF s
  <2>6. pads' \in [Pads -> PadStates] /\ pads'[p] = s /\ \A q \in Pads \ {p} : pads'[q] = pads[q]
    BY <2>2, <2>4, <2>5, PadChange
  <2>7. link' \in [Ctrls -> {"off", "asking", "up", "dropping"}] BY <2>1 DEF Drop, BtTypes
  <2>8. [op |-> "accept", c |-> e.c] \in Jobs BY <1>1 DEF Jobs
  <2>9. jobs' \in SUBSET Jobs BY <2>1, <2>8 DEF BtTypes
  <2> QED BY <2>1, <2>2, <2>4, <2>6, <2>7, <2>9
<1> QED BY <1>2, <1>3 DEF ConnectRequest

LEMMA HciTypes == BtTypes /\ HciEvent => BtTypes'
<1> SUFFICES ASSUME BtTypes, HciEvent PROVE BtTypes' OBVIOUS
<1> DEFINE e == Head(events)
<1>1. events # <<>> /\ events' = Tail(events) /\ UNCHANGED <<dongle, live, polled>> BY DEF HciEvent
<1>2. events' \in Seq(Events) /\ Len(events') <= MaxEvents /\ e \in Events
  BY <1>1, Dequeued, PadsAssumption DEF BtTypes, PadsAssumption
<1>3. CASE e.kind = "complete" /\ CommandComplete(e) /\ UNCHANGED frame
  BY <1>1, <1>2, <1>3, CompleteTypes DEF CommandComplete, BtTypes
<1>4. CASE e.kind = "connDone" /\ ConnectComplete(e) /\ UNCHANGED frame
  BY <1>1, <1>2, <1>4, ConnectTypes DEF ConnectComplete, BtTypes
<1>5. CASE e.kind = "disc" /\ DisconnComplete(e) /\ UNCHANGED frame
  BY <1>1, <1>2, <1>5, DisconnTypes DEF DisconnComplete, BtTypes
<1>6. CASE e.kind = "name" /\ NameComplete(e)
  BY <1>1, <1>2, <1>6, NameTypes DEF NameComplete, BtTypes
<1>7. CASE e.kind = "connReq" /\ ConnectRequest(e) /\ UNCHANGED frame
  BY <1>1, <1>2, <1>7, TakenTypes DEF ConnectRequest, BtTypes
<1> QED BY <1>3, <1>4, <1>5, <1>6, <1>7 DEF HciEvent

(* What a frame makes of the slot its sender plays on.                      *)
Heard(c) ==
  /\ frame' \in [Ctrls -> Frames] /\ live' \in [Ctrls -> {None, "ds3", "ds4"}]
  /\ pads' \in [Pads -> PadStates]
  /\ \A d \in Ctrls \ {c} : frame'[d] = frame[d] /\ live'[d] = live[d]
  /\ \A q \in Pads : /\ pads'[q].addr = pads[q].addr /\ pads'[q].handle = pads[q].handle
                     /\ pads'[q].connected = pads[q].connected
                     /\ pads[q].running => pads'[q].running
                     /\ pads'[q].running => pads[q].running \/ pads[q].handle = c
                     /\ pads'[q].data = pads[q].data
                        \/ (frame[c].kind = "report" /\ pads[q].handle = c)
  /\ frame'[c].kind \notin {"report", "dreq"}
  /\ frame'[c].kind = "none" \/ \E p \in Pads : pads[p].handle = c
  /\ live'[c] # None => \/ live[c] # None
                        \/ \E p \in Pads : pads[p].handle = c /\ pads'[p].running

LEMMA HeardSilent ==
  ASSUME BtTypes, NEW c \in Ctrls, frame' = [frame EXCEPT ![c] = NoFrame]
  PROVE  /\ frame' \in [Ctrls -> Frames] /\ frame'[c].kind = "none"
         /\ \A d \in Ctrls \ {c} : frame'[d] = frame[d]
<1>1. NoFrame \in Frames /\ NoFrame.kind = "none" BY DEF NoFrame, Frames
<1> QED BY <1>1 DEF BtTypes

LEMMA HeardReply ==
  ASSUME BtTypes, NEW c \in Ctrls, NEW p \in Pads, pads[p].handle = c,
         NEW kinds, kinds \subseteq {"connReqI", "connRspC", "connRspI", "cfgRspC", "cfgRspI"},
         frame[c].kind \notin {"report", "dreq"},
         Answer(c, kinds, pads[p].type), UNCHANGED <<pads, live>>
  PROVE  Heard(c)
<1>1. pads[p].type \in {"ds3", "ds4"} BY DEF BtTypes, PadStates
<1>2. /\ frame' \in [Ctrls -> Frames] /\ \A d \in Ctrls \ {c} : frame'[d] = frame[d]
      /\ frame'[c] = frame[c] \/ frame'[c].kind \notin {"none", "connReqC", "report", "dreq"}
  BY <1>1, AnswerTypes
<1> QED BY <1>2 DEF Heard, BtTypes

LEMMA L2capTypes ==
  ASSUME BtTypes, NEW c \in Ctrls, L2capEvent(c)
  PROVE  Heard(c) /\ UNCHANGED <<dongle, configured, jobs, events, link, polled>>
<1>1. UNCHANGED <<dongle, configured, jobs, events, link, polled>> BY DEF L2capEvent
<1>2. CASE frame' = [frame EXCEPT ![c] = NoFrame] /\ UNCHANGED <<pads, live>>
  BY <1>1, <1>2, HeardSilent DEF Heard, BtTypes
<1>3. CASE \E p \in PadOf(c) : L2capTask(p, c, frame[c])
  <2>1. PICK p \in PadOf(c) : L2capTask(p, c, frame[c]) BY <1>3
  <2>2. p \in Pads /\ pads[p].handle = c BY PadOfIn
  <2>3. pads[p] \in PadStates BY <2>2 DEF BtTypes
  <2> DEFINE f == frame[c]
             t == pads[p].type
  <2>4. t \in {"ds3", "ds4"} BY <2>3 DEF PadStates
  <2>5. CASE \E kinds \in SUBSET {"connReqI", "connRspC", "connRspI", "cfgRspC", "cfgRspI"} :
               f.kind \notin {"report", "dreq"} /\ Answer(c, kinds, t) /\ UNCHANGED <<pads, live>>
    <3>1. PICK kinds \in SUBSET {"connReqI", "connRspC", "connRspI", "cfgRspC", "cfgRspI"} :
               f.kind \notin {"report", "dreq"} /\ Answer(c, kinds, t) /\ UNCHANGED <<pads, live>>
      BY <2>5
    <3> QED BY <1>1, <2>2, <3>1, HeardReply
  <2>6. CASE SetUp(p, c) /\ frame' = [frame EXCEPT ![c] = NoFrame]
    <3>1. [pads[p] EXCEPT !.running = TRUE] \in PadStates BY <2>3 DEF PadStates
    <3>2. pads' = [pads EXCEPT ![p] = [pads[p] EXCEPT !.running = TRUE]] BY <2>2, <2>6 DEF SetUp, BtTypes
    <3>3. /\ pads' \in [Pads -> PadStates] /\ \A q \in Pads \ {p} : pads'[q] = pads[q]
          /\ pads'[p].running /\ pads'[p].addr = pads[p].addr /\ pads'[p].handle = pads[p].handle
          /\ pads'[p].connected = pads[p].connected /\ pads'[p].data = pads[p].data
      BY <2>2, <2>3, <3>1, <3>2, PadChange DEF PadStates
    <3>4. live' \in [Ctrls -> {None, "ds3", "ds4"}] /\ \A d \in Ctrls \ {c} : live'[d] = live[d]
      BY <2>4, <2>6 DEF SetUp, BtTypes
    <3> QED BY <1>1, <2>2, <2>6, <3>3, <3>4, HeardSilent DEF Heard
  <2>7. CASE /\ pads' = [pads EXCEPT ![p].disconnecting = TRUE] /\ live' = [live EXCEPT ![c] = None]
             /\ frame' = [frame EXCEPT ![c] = NoFrame]
    <3>1. [pads[p] EXCEPT !.disconnecting = TRUE] \in PadStates BY <2>3 DEF PadStates
    <3>2. pads' = [pads EXCEPT ![p] = [pads[p] EXCEPT !.disconnecting = TRUE]] BY <2>2, <2>7 DEF BtTypes
    <3>3. /\ pads' \in [Pads -> PadStates] /\ \A q \in Pads \ {p} : pads'[q] = pads[q]
          /\ pads'[p].running = pads[p].running /\ pads'[p].addr = pads[p].addr
          /\ pads'[p].handle = pads[p].handle
          /\ pads'[p].connected = pads[p].connected /\ pads'[p].data = pads[p].data
      BY <2>2, <2>3, <3>1, <3>2, PadChange DEF PadStates
    <3>4. live' \in [Ctrls -> {None, "ds3", "ds4"}] /\ \A d \in Ctrls \ {c} : live'[d] = live[d]
          /\ live'[c] = None
      BY <2>7 DEF BtTypes
    <3> QED BY ZenonT(40), <1>1, <2>2, <2>7, <3>3, <3>4, HeardSilent DEF Heard
  <2>8. CASE /\ f.kind = "report" /\ ReadReport(p, c) /\ UNCHANGED live
             /\ frame' = [frame EXCEPT ![c] = NoFrame]
    <3>1. [pads[p] EXCEPT !.data = c] \in PadStates BY <2>3 DEF PadStates
    <3>2. pads' = [pads EXCEPT ![p] = [pads[p] EXCEPT !.data = c]] BY <2>2, <2>8 DEF ReadReport, BtTypes
    <3>3. /\ pads' \in [Pads -> PadStates] /\ \A q \in Pads \ {p} : pads'[q] = pads[q]
          /\ pads'[p].running = pads[p].running /\ pads'[p].addr = pads[p].addr
          /\ pads'[p].handle = pads[p].handle /\ pads'[p].connected = pads[p].connected
      BY <2>2, <2>3, <3>1, <3>2, PadChange DEF PadStates
    <3> QED BY ZenonT(40), <1>1, <2>2, <2>8, <3>3, HeardSilent DEF Heard, BtTypes
  <2>9. CASE UNCHANGED <<pads, live>> /\ frame' = [frame EXCEPT ![c] = NoFrame]
    BY <1>2, <2>9
  <2> QED
    <3>1. CASE f.kind = "connReqC" /\ Answer(c, {"cfgRspC"}, t) /\ UNCHANGED <<pads, live>>
      BY <2>5, <3>1
    <3>2. CASE f.kind = "connReqI" /\ Answer(c, {"cfgRspI"}, t) /\ UNCHANGED <<pads, live>>
      BY <2>5, <3>2
    <3>3. CASE f.kind = "connRspC" /\ Answer(c, {"cfgRspC"}, t) /\ UNCHANGED <<pads, live>>
      BY <2>5, <3>3
    <3>4. CASE f.kind = "connRspI" /\ Answer(c, {"cfgRspI"}, t) /\ UNCHANGED <<pads, live>>
      BY <2>5, <3>4
    <3>5. CASE f.kind = "cfgRspC" /\ Answer(c, {"connRspI", "connReqI"}, t) /\ UNCHANGED <<pads, live>>
      BY <2>5, <3>5
    <3> HIDE DEF f, t
    <3> QED BY <2>1, <2>6, <2>7, <2>8, <2>9, <3>1, <3>2, <3>3, <3>4, <3>5 DEF L2capTask, f, t
<1> QED BY <1>2, <1>3 DEF L2capEvent

LEMMA BtTypesNext == BtTypes /\ [Next]_vars => BtTypes'
<1> SUFFICES ASSUME BtTypes, [Next]_vars PROVE BtTypes' OBVIOUS
<1>1. ASSUME NEW c \in Ctrls, L2capEvent(c) PROVE BtTypes'
  <2>1. Heard(c) /\ UNCHANGED <<dongle, configured, jobs, events, link, polled>> BY <1>1, L2capTypes
  <2> QED BY <2>1 DEF Heard, BtTypes
<1>2. CASE L2capError BY <1>2 DEF L2capError, Drop, BtTypes
<1>3. CASE UNCHANGED vars BY <1>3 DEF vars, BtTypes
<1> QED BY <1>1, <1>2, <1>3, OtherTypes, JobDoneTypes, CtrlTypes, HciTypes DEF Next

-----------------------------------------------------------------------------
(* What an event added to the queue, or taken from it, changes             *)

Told(c) == (\A k \in DOMAIN Age : Pending(k, c)' <=> Pending(k, c)) /\ (Hailed(c)' => Hailed(c))

LEMMA Ages == DOMAIN Age = {"connDone", "disc", "connReq"}
              /\ Age["connDone"] = 1 /\ Age["disc"] = 2 /\ Age["connReq"] = 3
BY DEF Age

LEMMA AppendTells ==
  ASSUME BtTypes, NEW e \in Events, events' = Append(events, e), NEW c \in Ctrls
  PROVE  /\ \A i \in Nat, k \in DOMAIN Age :
              Tells(i, k, c)' <=> Tells(i, k, c) \/ (i = Len(events) + 1 /\ e.kind = k /\ e.c = c)
         /\ \A k \in DOMAIN Age : Pending(k, c)' <=> Pending(k, c) \/ (e.kind = k /\ e.c = c)
         /\ Hailed(c)' => Hailed(c) \/ (e.kind = "connDone" /\ e.c = c /\ e.ok)
<1>1. /\ Len(events) \in Nat /\ Len(events') = Len(events) + 1 /\ events'[Len(events) + 1] = e
      /\ \A i \in 1 .. Len(events) : events'[i] = events[i]
  BY Queued
<1>2. \A i \in Nat, k \in DOMAIN Age :
        Tells(i, k, c)' <=> Tells(i, k, c) \/ (i = Len(events) + 1 /\ e.kind = k /\ e.c = c)
  BY <1>1 DEF Tells
<1>3. ASSUME NEW k \in DOMAIN Age
      PROVE  Pending(k, c)' <=> Pending(k, c) \/ (e.kind = k /\ e.c = c)
  <2>1. ASSUME Pending(k, c)', ~ (e.kind = k /\ e.c = c) PROVE Pending(k, c)
    <3>1. PICK i \in 1 .. Len(events') : Tells(i, k, c)' BY <2>1 DEF Pending
    <3>2. i \in Nat BY <1>1
    <3>3. Tells(i, k, c) BY <1>2, <2>1, <3>1, <3>2
    <3> QED BY <3>3 DEF Tells, Pending
  <2>2. Pending(k, c) => Pending(k, c)' BY <1>1, <1>2 DEF Pending
  <2>3. e.kind = k /\ e.c = c => Pending(k, c)'
    <3>1. Len(events) + 1 \in 1 .. Len(events') BY <1>1
    <3> QED BY <1>1, <1>2, <3>1 DEF Pending
  <2> QED BY <2>1, <2>2, <2>3
<1>4. ASSUME Hailed(c)', ~ (e.kind = "connDone" /\ e.c = c /\ e.ok) PROVE Hailed(c)
  <2>1. PICK i \in 1 .. Len(events') : Tells(i, "connDone", c)' /\ events'[i].ok BY <1>4 DEF Hailed
  <2>2. i \in Nat BY <1>1
  <2>3. i # Len(events) + 1
    <3>1. SUFFICES ASSUME i = Len(events) + 1 PROVE FALSE OBVIOUS
    <3>2. events'[i] = e BY <1>1, <3>1
    <3> QED BY <1>4, <2>1, <3>2 DEF Tells
  <2>4. Tells(i, "connDone", c) BY <1>2, <2>1, <2>2, <2>3, Ages
  <2>5. i \in 1 .. Len(events) /\ events'[i] = events[i] BY <1>1, <2>4 DEF Tells
  <2> QED BY <2>1, <2>4, <2>5 DEF Hailed
<1> QED BY <1>2, <1>3, <1>4

LEMMA TailTells ==
  ASSUME BtTypes, events # <<>>, events' = Tail(events), NEW c \in Ctrls
  PROVE  /\ \A i \in 1 .. Len(events'), k \in DOMAIN Age : Tells(i, k, c)' => Tells(i + 1, k, c)
         /\ \A k \in DOMAIN Age : /\ Pending(k, c)' => Pending(k, c)
                                  /\ Pending(k, c) => \/ Pending(k, c)'
                                                      \/ Head(events).kind = k /\ Head(events).c = c
         /\ Hailed(c)' => Hailed(c)
<1>1. /\ Len(events) \in Nat \ {0} /\ Len(events') = Len(events) - 1 /\ Head(events) = events[1]
      /\ \A i \in 1 .. Len(events') : events'[i] = events[i + 1]
  BY Dequeued
<1>2. \A i \in 1 .. Len(events') : i + 1 \in 1 .. Len(events) BY <1>1
<1>3. \A i \in 1 .. Len(events'), k \in DOMAIN Age : Tells(i, k, c)' <=> Tells(i + 1, k, c)
  BY <1>1, <1>2 DEF Tells
<1>4. \A k \in DOMAIN Age : Pending(k, c)' => Pending(k, c)
  BY <1>2, <1>3 DEF Pending
<1>5. ASSUME NEW k \in DOMAIN Age, Pending(k, c), ~ (Head(events).kind = k /\ Head(events).c = c)
      PROVE  Pending(k, c)'
  <2>1. PICK i \in 1 .. Len(events) : Tells(i, k, c) BY <1>5 DEF Pending
  <2>2. i # 1 BY <1>1, <1>5, <2>1 DEF Tells
  <2>3. i - 1 \in 1 .. Len(events') /\ (i - 1) + 1 = i BY <1>1, <2>1, <2>2
  <2>4. Tells(i - 1, k, c)' BY <1>3, <2>1, <2>3
  <2> QED BY <2>3, <2>4 DEF Pending
<1>6. Hailed(c)' => Hailed(c)
  <2>1. \A i \in 1 .. Len(events') : Tells(i, "connDone", c)' /\ events'[i].ok
          => Tells(i + 1, "connDone", c) /\ events[i + 1].ok
    BY <1>1, <1>3, Ages
  <2> QED BY <1>2, <2>1 DEF Hailed
<1> QED BY <1>3, <1>4, <1>5, <1>6

LEMMA AppendInOrder ==
  ASSUME BtTypes, InOrder, NEW e \in Events, events' = Append(events, e),
         \A k, l \in DOMAIN Age, c \in Ctrls :
            e.kind = k /\ e.c = c /\ Pending(l, c) => Age[l] < Age[k]
  PROVE  InOrder'
<1>1. Len(events) \in Nat /\ Len(events') = Len(events) + 1 BY Queued
<1> SUFFICES ASSUME NEW c \in Ctrls, NEW i \in 1 .. Len(events'), NEW j \in 1 .. Len(events'),
                    NEW k \in DOMAIN Age, NEW l \in DOMAIN Age,
                    i < j, Tells(i, k, c)', Tells(j, l, c)'
             PROVE  Age[k] < Age[l]
  BY DEF InOrder
<1>2. i \in Nat /\ j \in Nat /\ i \in 1 .. Len(events) BY <1>1
<1>3. \A x \in Nat, m \in DOMAIN Age :
        Tells(x, m, c)' <=> Tells(x, m, c) \/ (x = Len(events) + 1 /\ e.kind = m /\ e.c = c)
  BY AppendTells
<1>4. Tells(i, k, c) BY <1>1, <1>2, <1>3
<1>5. CASE Tells(j, l, c)
  <2>1. j \in 1 .. Len(events) BY <1>5 DEF Tells
  <2> QED BY <1>2, <1>4, <1>5, <2>1 DEF InOrder
<1>6. CASE e.kind = l /\ e.c = c
  <2>1. Pending(k, c) BY <1>2, <1>4 DEF Pending
  <2> QED BY <1>6, <2>1
<1> QED BY <1>2, <1>3, <1>5, <1>6

LEMMA TailInOrder ==
  ASSUME BtTypes, InOrder, events # <<>>, events' = Tail(events)
  PROVE  /\ InOrder'
         /\ \A c \in Ctrls, k, l \in DOMAIN Age :
              Head(events).kind = k /\ Head(events).c = c /\ Pending(l, c)' => Age[k] < Age[l]
<1>1. /\ Len(events) \in Nat \ {0} /\ Len(events') = Len(events) - 1 /\ Head(events) = events[1]
  BY Dequeued
<1>2. \A i \in 1 .. Len(events') : i + 1 \in 1 .. Len(events) /\ 1 < i + 1 BY <1>1
<1>3. \A c \in Ctrls, i \in 1 .. Len(events'), k \in DOMAIN Age : Tells(i, k, c)' => Tells(i + 1, k, c)
  BY TailTells
<1>4. InOrder'
  <2> SUFFICES ASSUME NEW c \in Ctrls, NEW i \in 1 .. Len(events'), NEW j \in 1 .. Len(events'),
                      NEW k \in DOMAIN Age, NEW l \in DOMAIN Age,
                      i < j, Tells(i, k, c)', Tells(j, l, c)'
               PROVE  Age[k] < Age[l]
    BY DEF InOrder
  <2>1. i + 1 < j + 1 OBVIOUS
  <2> QED BY <1>2, <1>3, <2>1 DEF InOrder
<1>5. ASSUME NEW c \in Ctrls, NEW k \in DOMAIN Age, NEW l \in DOMAIN Age,
             Head(events).kind = k, Head(events).c = c, Pending(l, c)'
      PROVE  Age[k] < Age[l]
  <2>1. PICK i \in 1 .. Len(events') : Tells(i, l, c)' BY <1>5 DEF Pending
  <2>2. Tells(1, k, c) /\ 1 \in 1 .. Len(events) BY <1>1, <1>5 DEF Tells
  <2> QED BY <1>2, <1>3, <2>1, <2>2 DEF InOrder
<1> QED BY <1>4, <1>5

-----------------------------------------------------------------------------
(* What the driver knows of a link, kept                                   *)

Tamer(c) == link'[c] = link[c] \/ (link[c] = "up" /\ link'[c] = "dropping")

LEMMA LinkSame ==
  ASSUME NEW c \in Ctrls, LinkIsTold(c), Told(c), Tamer(c), Accepting(c)' => Accepting(c),
         Pending("connDone", c) => live'[c] = None /\ frame'[c].kind \in {"none", "connReqC"}
  PROVE  LinkIsTold(c)'
BY Ages DEF LinkIsTold, Told, Tamer

LEMMA HandleSame ==
  ASSUME NEW c \in Ctrls, NEW p \in Pads, HandleIsLink(p, c),
         pads'[p].handle = c => pads[p].handle = c,
         Pending("connDone", c)' => Pending("connDone", c),
         Pending("disc", c) => Pending("disc", c)', Tamer(c),
         live'[c] # None \/ frame'[c].kind \in {"report", "dreq"} =>
            \/ pads'[p].running
            \/ /\ live[c] # None \/ frame[c].kind \in {"report", "dreq"}
               /\ pads[p].running => pads'[p].running
  PROVE  HandleIsLink(p, c)'
BY DEF HandleIsLink, Tamer

(* A step that leaves the slots alone and tells nothing of a link.          *)
LEMMA AllSame ==
  ASSUME BtInv, UNCHANGED pads, InOrder',
         \A c \in Ctrls : /\ Told(c) /\ Tamer(c) /\ (Accepting(c)' => Accepting(c))
                          /\ live'[c] = live[c] /\ frame'[c] = frame[c]
  PROVE  InOrder' /\ LinksAreTold' /\ HandlesAreLinks' /\ SlotsInUse'
<1>1. LinksAreTold'
  <2> SUFFICES ASSUME NEW c \in Ctrls PROVE LinkIsTold(c)' BY DEF LinksAreTold
  <2>1. LinkIsTold(c) BY DEF BtInv, LinksAreTold
  <2>2. Pending("connDone", c) => live'[c] = None /\ frame'[c].kind \in {"none", "connReqC"}
    BY <2>1 DEF LinkIsTold
  <2> QED BY <2>1, <2>2, LinkSame
<1>2. \A p \in Pads, c \in Ctrls : HandleIsLink(p, c)'
  <2> SUFFICES ASSUME NEW p \in Pads, NEW c \in Ctrls PROVE HandleIsLink(p, c)' OBVIOUS
  <2>1. HandleIsLink(p, c) BY DEF BtInv, HandlesAreLinks
  <2>2. Told(c) /\ Tamer(c) OBVIOUS
  <2> QED BY <2>1, <2>2, HandleSame, Ages DEF Told
<1>3. OneSlot' BY DEF BtInv, HandlesAreLinks, OneSlot
<1>4. SlotsInUse' BY DEF BtInv, SlotsInUse, SlotInUse
<1> QED BY <1>1, <1>2, <1>3, <1>4 DEF HandlesAreLinks

LEMMA ToldSame ==
  ASSUME UNCHANGED events, NEW c \in Ctrls
  PROVE  Told(c)
BY DEF Told, Pending, Hailed, Tells

(* Nobody's link is told of: the module as it starts, or starts over.       *)
LEMMA BareKeeps ==
  ASSUME pads' = [p \in Pads |-> Cleared], events' = <<>>, \A c \in Ctrls : ~ Accepting(c)'
  PROVE  InOrder' /\ LinksAreTold' /\ HandlesAreLinks' /\ SlotsInUse'
<1>1. \A p \in Pads : pads'[p] = Cleared OBVIOUS
<1>2. SlotsInUse'
  BY <1>1, ControllersAssumption DEF SlotsInUse, SlotInUse, Cleared, Neutral, ControllersAssumption, Ctrls
<1>3. HandlesAreLinks'
  BY <1>1, ControllersAssumption DEF HandlesAreLinks, OneSlot, HandleIsLink, Cleared,
     ControllersAssumption, Ctrls
<1>4. Len(events') = 0 OBVIOUS
<1>5. InOrder' BY <1>4 DEF InOrder
<1>6. LinksAreTold' BY <1>4 DEF LinksAreTold, LinkIsTold, Hailed, Pending, Tells
<1> QED BY <1>2, <1>3, <1>5, <1>6

BtRest == Bare /\ InOrder /\ LinksAreTold /\ HandlesAreLinks /\ SlotsInUse

LEMMA OtherKeeps ==
  ASSUME BtInv, \/ Plug \/ ConfigSet \/ Unplug \/ (\E p \in Pads : GetStatus(p)) \/ GetData
                \/ UNCHANGED vars
  PROVE  BtRest'
<1>1. CASE \/ Plug \/ (\E p \in Pads : GetStatus(p)) \/ GetData \/ UNCHANGED vars
  <2>1. UNCHANGED <<pads, jobs, events, link, live, frame>>
    BY <1>1 DEF Plug, GetStatus, GetData, vars
  <2>2. Bare' BY <1>1, <2>1 DEF Plug, GetStatus, GetData, vars, Bare, BtInv
  <2>3. InOrder' BY <2>1 DEF BtInv, InOrder, Tells
  <2>4. \A c \in Ctrls : /\ Told(c) /\ Tamer(c) /\ (Accepting(c)' => Accepting(c))
                         /\ live'[c] = live[c] /\ frame'[c] = frame[c]
    BY <2>1, ToldSame DEF Tamer, Accepting
  <2>5. InOrder' /\ LinksAreTold' /\ HandlesAreLinks' /\ SlotsInUse' BY <2>1, <2>3, <2>4, AllSame
  <2> QED BY <2>2, <2>5 DEF BtRest
<1>2. CASE ConfigSet
  <2>1. pads' = [p \in Pads |-> Cleared] /\ events' = <<>> BY <1>2 DEF ConfigSet, BtInv, Bare
  <2>2. \A c \in Ctrls : ~ Accepting(c)'
    <3> SUFFICES ASSUME NEW c \in Ctrls, Accepting(c)' PROVE FALSE OBVIOUS
    <3>1. [op |-> "accept", c |-> c] = [op |-> "reset"] BY <1>2 DEF ConfigSet, Accepting
    <3>2. [op |-> "accept", c |-> c].op = [op |-> "reset"].op BY <3>1
    <3> QED BY <3>2
  <2>3. Bare' BY <1>2 DEF ConfigSet, Bare
  <2>4. InOrder' /\ LinksAreTold' /\ HandlesAreLinks' /\ SlotsInUse' BY <2>1, <2>2, BareKeeps
  <2> QED BY <2>3, <2>4 DEF BtRest
<1>3. CASE Unplug
  <2>1. pads' = [p \in Pads |-> Cleared] /\ events' = <<>> /\ jobs' = {} BY <1>3 DEF Unplug
  <2>2. \A c \in Ctrls : ~ Accepting(c)' BY <2>1 DEF Accepting
  <2>3. Bare' BY <1>3 DEF Unplug, Bare
  <2>4. InOrder' /\ LinksAreTold' /\ HandlesAreLinks' /\ SlotsInUse' BY <2>1, <2>2, BareKeeps
  <2> QED BY <2>3, <2>4 DEF BtRest
<1> QED BY <1>1, <1>2, <1>3

-----------------------------------------------------------------------------
(* The dongle's and the controllers' steps                                 *)

(* An event that tells nothing of a link.                                   *)
LEMMA PlainKeeps ==
  ASSUME BtInv, NEW e \in Events, e.kind \in {"complete", "name"}, events' = Append(events, e),
         UNCHANGED <<pads, link, live, frame>>, jobs' \subseteq jobs
  PROVE  InOrder' /\ LinksAreTold' /\ HandlesAreLinks' /\ SlotsInUse'
<1>1. BtTypes BY DEF BtInv
<1>2. \A k \in DOMAIN Age : e.kind # k BY Ages
<1>3. InOrder' BY <1>1, <1>2, AppendInOrder DEF BtInv
<1>4. \A c \in Ctrls : Told(c)
  BY <1>1, <1>2, Ages, AppendTells DEF Told
<1>5. \A c \in Ctrls : Tamer(c) /\ (Accepting(c)' => Accepting(c)) BY DEF Tamer, Accepting
<1> QED BY <1>3, <1>4, <1>5, AllSame

LEMMA AcceptKeeps ==
  ASSUME BtInv, NEW c \in Ctrls, NEW up \in BOOLEAN, Accepting(c),
         jobs' = jobs \ {[op |-> "accept", c |-> c]}, UNCHANGED pads,
         link' = [link EXCEPT ![c] = IF up THEN "up" ELSE "off"],
         frame' = [frame EXCEPT ![c] =
            IF up /\ c \in Ds3 THEN [kind |-> "connReqC", chan |-> "ds3"] ELSE NoFrame],
         live' = [live EXCEPT ![c] = None],
         events' = Append(events, [kind |-> "connDone", c |-> c, ok |-> up])
  PROVE  InOrder' /\ LinksAreTold' /\ HandlesAreLinks' /\ SlotsInUse'
<1> DEFINE e == [kind |-> "connDone", c |-> c, ok |-> up]
<1>1. BtTypes /\ e \in Events /\ e.kind = "connDone" /\ e.c = c /\ e.ok = up /\ events' = Append(events, e)
  BY DEF BtInv, Events
<1> HIDE DEF e
<1>2. link[c] = "asking" /\ \A k \in DOMAIN Age : ~ Pending(k, c)
  BY DEF BtInv, LinksAreTold, LinkIsTold
<1>3. InOrder' BY <1>1, <1>2, AppendInOrder DEF BtInv
<1>4. /\ link'[c] = (IF up THEN "up" ELSE "off") /\ live'[c] = None
      /\ frame'[c].kind \in {"none", "connReqC"}
      /\ \A d \in Ctrls \ {c} : link'[d] = link[d] /\ live'[d] = live[d] /\ frame'[d] = frame[d]
  BY DEF BtInv, BtTypes, NoFrame
<1>5. \A d \in Ctrls : Accepting(d)' => d # c /\ Accepting(d) BY DEF Accepting
<1>6. \A d \in Ctrls \ {c} : Told(d) /\ Tamer(d)
  BY <1>1, <1>4, AppendTells, Ages DEF Told, Tamer
<1>7. /\ Pending("connDone", c)' /\ ~ Pending("disc", c)' /\ ~ Pending("connReq", c)'
      /\ (Hailed(c)' => up)
  <2>1. ~ Hailed(c) BY <1>2, Ages DEF Hailed, Pending
  <2> QED BY <1>1, <1>2, <2>1, AppendTells, Ages
<1>8. LinksAreTold'
  <2> SUFFICES ASSUME NEW d \in Ctrls PROVE LinkIsTold(d)' BY DEF LinksAreTold
  <2>1. CASE d = c BY <1>4, <1>5, <1>7, <2>1 DEF LinkIsTold
  <2>2. CASE d # c
    <3>1. LinkIsTold(d) BY DEF BtInv, LinksAreTold
    <3>2. Pending("connDone", d) => live'[d] = None /\ frame'[d].kind \in {"none", "connReqC"}
      BY <1>4, <2>2, <3>1 DEF LinkIsTold
    <3> QED BY <1>5, <1>6, <2>2, <3>1, <3>2, LinkSame
  <2> QED BY <2>1, <2>2
<1>9. \A p \in Pads, d \in Ctrls : HandleIsLink(p, d)'
  <2> SUFFICES ASSUME NEW p \in Pads, NEW d \in Ctrls PROVE HandleIsLink(p, d)' OBVIOUS
  <2>1. HandleIsLink(p, d) BY DEF BtInv, HandlesAreLinks
  <2>2. CASE d = c
    <3>1. pads[p].handle # c BY <1>2, <2>1, <2>2, Ages DEF HandleIsLink
    <3> QED BY <2>2, <3>1 DEF HandleIsLink
  <2>3. CASE d # c BY <1>4, <1>6, <2>1, <2>3, HandleSame, Ages DEF Told
  <2> QED BY <2>2, <2>3
<1> QED BY <1>3, <1>8, <1>9 DEF BtInv, HandlesAreLinks, OneSlot, SlotsInUse, SlotInUse

LEMMA InUse == ASSUME BtInv, jobs # {} \/ configured \/ events # <<>> PROVE dongle = "in"
BY DEF BtInv, Bare

LEMMA JobDoneKeeps == ASSUME BtInv, NEW j \in jobs, JobDone(j) PROVE BtRest'
<1>1. j \in Jobs BY DEF BtInv, BtTypes
<1>2. jobs' = jobs \ {j} /\ UNCHANGED <<dongle, configured, pads, polled>> BY DEF JobDone
<1>3. Bare' BY <1>2, InUse DEF Bare
<1> SUFFICES InOrder' /\ LinksAreTold' /\ HandlesAreLinks' /\ SlotsInUse' BY <1>3 DEF BtRest
<1>4. CASE j.op \in BringUp /\ UNCHANGED <<link, live, frame>>
           /\ \E ok \in BOOLEAN : events' = Append(events, [kind |-> "complete", op |-> j.op, ok |-> ok])
  <2>1. PICK ok \in BOOLEAN : events' = Append(events, [kind |-> "complete", op |-> j.op, ok |-> ok])
    BY <1>4
  <2> DEFINE e == [kind |-> "complete", op |-> j.op, ok |-> ok]
  <2>2. e \in Events /\ e.kind = "complete" BY <1>4 DEF Events
  <2> HIDE DEF e
  <2> QED BY <1>2, <1>4, <2>1, <2>2, PlainKeeps DEF e
<1>5. CASE j.op = "accept" /\ j.c \in Ctrls /\ j = [op |-> "accept", c |-> j.c]
           /\ (\E up \in BOOLEAN :
                 /\ link' = [link EXCEPT ![j.c] = IF up THEN "up" ELSE "off"]
                 /\ frame' = [frame EXCEPT ![j.c] =
                       IF up /\ j.c \in Ds3 THEN [kind |-> "connReqC", chan |-> "ds3"] ELSE NoFrame]
                 /\ events' = Append(events, [kind |-> "connDone", c |-> j.c, ok |-> up]))
           /\ live' = [live EXCEPT ![j.c] = None]
  <2>1. PICK up \in BOOLEAN :
          /\ link' = [link EXCEPT ![j.c] = IF up THEN "up" ELSE "off"]
          /\ frame' = [frame EXCEPT ![j.c] =
                IF up /\ j.c \in Ds3 THEN [kind |-> "connReqC", chan |-> "ds3"] ELSE NoFrame]
          /\ events' = Append(events, [kind |-> "connDone", c |-> j.c, ok |-> up])
    BY <1>5
  <2>2. PICK c \in Ctrls : c = j.c BY <1>5
  <2>3. Accepting(c) /\ jobs' = jobs \ {[op |-> "accept", c |-> c]} BY <1>2, <1>5, <2>2 DEF Accepting
  <2> QED BY <1>2, <1>5, <2>1, <2>2, <2>3, AcceptKeeps
<1>6. CASE j.op = "name" /\ j.c \in Ctrls /\ UNCHANGED <<link, live, frame>>
           /\ events' = Append(events, [kind |-> "name", c |-> j.c, ok |-> link[j.c] = "up"])
  <2> DEFINE e == [kind |-> "name", c |-> j.c, ok |-> link[j.c] = "up"]
  <2>1. (link[j.c] = "up") \in BOOLEAN OBVIOUS
  <2>2. e \in Events /\ e.kind = "name" BY <1>6, <2>1 DEF Events
  <2> HIDE DEF e
  <2> QED BY <1>2, <1>6, <2>2, PlainKeeps DEF e
<1> QED BY <1>1, <1>4, <1>5, <1>6, JobKinds DEF JobDone, BringUp

LEMMA AskKeeps == ASSUME BtInv, NEW c \in Ctrls, Ask(c) PROVE BtRest'
<1> DEFINE e == [kind |-> "connReq", c |-> c]
<1>1. BtTypes /\ e \in Events /\ e.kind = "connReq" /\ e.c = c /\ events' = Append(events, e)
  BY DEF BtInv, Ask, Events
<1> HIDE DEF e
<1>2. /\ link[c] = "off" /\ link'[c] = "asking" /\ \A d \in Ctrls \ {c} : link'[d] = link[d]
      /\ UNCHANGED <<dongle, configured, pads, jobs, live, frame, polled>> /\ dongle = "in"
  BY InUse DEF Ask, BtInv, BtTypes
<1>3. ~ Accepting(c)
  <2> SUFFICES ASSUME Accepting(c) PROVE FALSE OBVIOUS
  <2>1. [op |-> "accept", c |-> c] \in jobs BY DEF Accepting
  <2> QED BY <2>1 DEF Ask
<1>4. LinkIsTold(c) /\ ~ Pending("connReq", c) BY <1>2 DEF BtInv, LinksAreTold, LinkIsTold
<1>5. InOrder' BY <1>1, <1>4, AppendInOrder, Ages DEF BtInv
<1>6. \A d \in Ctrls \ {c} : Told(d) /\ Tamer(d)
  BY <1>1, <1>2, AppendTells DEF Told, Tamer
<1>7. /\ Pending("connDone", c)' <=> Pending("connDone", c)
      /\ Pending("disc", c)' <=> Pending("disc", c)
      /\ Hailed(c)' => Hailed(c)
  BY <1>1, AppendTells, Ages
<1>8. LinksAreTold'
  <2> SUFFICES ASSUME NEW d \in Ctrls PROVE LinkIsTold(d)' BY DEF LinksAreTold
  <2>1. CASE d = c BY <1>2, <1>3, <1>4, <1>7, <2>1 DEF LinkIsTold, Accepting
  <2>2. CASE d # c
    <3>1. LinkIsTold(d) BY DEF BtInv, LinksAreTold
    <3>2. Pending("connDone", d) => live'[d] = None /\ frame'[d].kind \in {"none", "connReqC"}
      BY <1>2, <3>1 DEF LinkIsTold
    <3>3. Accepting(d)' => Accepting(d) BY <1>2 DEF Accepting
    <3> QED BY <1>6, <2>2, <3>1, <3>2, <3>3, LinkSame
  <2> QED BY <2>1, <2>2
<1>9. \A p \in Pads, d \in Ctrls : HandleIsLink(p, d)'
  <2> SUFFICES ASSUME NEW p \in Pads, NEW d \in Ctrls PROVE HandleIsLink(p, d)' OBVIOUS
  <2>1. HandleIsLink(p, d) BY DEF BtInv, HandlesAreLinks
  <2>2. CASE d = c BY <1>2, <1>7, <2>1, <2>2 DEF HandleIsLink
  <2>3. CASE d # c BY <1>2, <1>6, <2>1, <2>3, HandleSame, Ages DEF Told
  <2> QED BY <2>2, <2>3
<1> QED BY <1>2, <1>5, <1>8, <1>9
        DEF Bare, BtInv, BtRest, HandlesAreLinks, OneSlot, SlotsInUse, SlotInUse

LEMMA LinkDownKeeps == ASSUME BtInv, NEW c \in Ctrls, LinkDown(c) PROVE BtRest'
<1> DEFINE e == [kind |-> "disc", c |-> c]
<1>1. BtTypes /\ e \in Events /\ e.kind = "disc" /\ e.c = c /\ events' = Append(events, e)
  BY DEF BtInv, LinkDown, Events
<1> HIDE DEF e
<1>2. /\ link[c] \in {"up", "dropping"} /\ link'[c] = "off" /\ live'[c] = None
      /\ \A d \in Ctrls \ {c} : link'[d] = link[d] /\ live'[d] = live[d]
      /\ UNCHANGED <<dongle, configured, pads, jobs, frame, polled>>
  BY DEF LinkDown, BtInv, BtTypes
<1>3. dongle = "in" BY <1>2 DEF BtInv, Bare
<1>4. LinkIsTold(c) /\ ~ Pending("connReq", c) /\ ~ Pending("disc", c) /\ ~ Accepting(c)
  BY <1>2 DEF BtInv, LinksAreTold, LinkIsTold
<1>5. InOrder' BY <1>1, <1>4, AppendInOrder, Ages DEF BtInv
<1>6. \A d \in Ctrls \ {c} : Told(d) /\ Tamer(d)
  BY <1>1, <1>2, AppendTells DEF Told, Tamer
<1>7. /\ Pending("connDone", c)' <=> Pending("connDone", c)
      /\ Pending("connReq", c)' <=> Pending("connReq", c)
      /\ Pending("disc", c)'
  BY <1>1, AppendTells, Ages
<1>8. LinksAreTold'
  <2> SUFFICES ASSUME NEW d \in Ctrls PROVE LinkIsTold(d)' BY DEF LinksAreTold
  <2>1. CASE d = c BY <1>2, <1>4, <1>7, <2>1 DEF LinkIsTold, Accepting
  <2>2. CASE d # c
    <3>1. LinkIsTold(d) BY DEF BtInv, LinksAreTold
    <3>2. Pending("connDone", d) => live'[d] = None /\ frame'[d].kind \in {"none", "connReqC"}
      BY <1>2, <2>2, <3>1 DEF LinkIsTold
    <3>3. Accepting(d)' => Accepting(d) BY <1>2 DEF Accepting
    <3> QED BY <1>6, <2>2, <3>1, <3>2, <3>3, LinkSame
  <2> QED BY <2>1, <2>2
<1>9. \A p \in Pads, d \in Ctrls : HandleIsLink(p, d)'
  <2> SUFFICES ASSUME NEW p \in Pads, NEW d \in Ctrls PROVE HandleIsLink(p, d)' OBVIOUS
  <2>1. HandleIsLink(p, d) BY DEF BtInv, HandlesAreLinks
  <2>2. CASE d = c BY <1>2, <1>7, <2>1, <2>2 DEF HandleIsLink
  <2>3. CASE d # c BY <1>2, <1>6, <2>1, <2>3, HandleSame, Ages DEF Told
  <2> QED BY <2>2, <2>3
<1> QED BY <1>2, <1>3, <1>5, <1>8, <1>9
        DEF Bare, BtInv, BtRest, HandlesAreLinks, OneSlot, SlotsInUse, SlotInUse

(* A report comes over channels that were set up, of a slot that runs.      *)
LEMMA ReportKeeps == ASSUME BtInv, NEW c \in Ctrls, Report(c) PROVE BtRest'
<1>1. /\ live[c] # None /\ \A d \in Ctrls \ {c} : frame'[d] = frame[d]
      /\ UNCHANGED <<dongle, configured, pads, jobs, events, link, live, polled>>
  BY DEF Report, BtInv, BtTypes
<1>2. \A d \in Ctrls : Told(d) /\ Tamer(d) /\ (Accepting(d)' => Accepting(d))
  BY <1>1, ToldSame DEF Tamer, Accepting
<1>3. InOrder' BY <1>1 DEF BtInv, InOrder, Tells
<1>4. LinksAreTold'
  <2> SUFFICES ASSUME NEW d \in Ctrls PROVE LinkIsTold(d)' BY DEF LinksAreTold
  <2>1. LinkIsTold(d) BY DEF BtInv, LinksAreTold
  <2>2. Pending("connDone", d) => live'[d] = None /\ frame'[d].kind \in {"none", "connReqC"}
    BY <1>1, <2>1 DEF LinkIsTold
  <2> QED BY <1>2, <2>1, <2>2, LinkSame
<1>5. \A p \in Pads, d \in Ctrls : HandleIsLink(p, d)'
  <2> SUFFICES ASSUME NEW p \in Pads, NEW d \in Ctrls PROVE HandleIsLink(p, d)' OBVIOUS
  <2>1. HandleIsLink(p, d) BY DEF BtInv, HandlesAreLinks
  <2>2. live'[d] # None \/ frame'[d].kind \in {"report", "dreq"} =>
          live[d] # None \/ frame[d].kind \in {"report", "dreq"}
    BY <1>1
  <2> QED BY <1>1, <1>2, <2>1, <2>2, HandleSame, Ages DEF Told
<1> QED BY <1>1, <1>3, <1>4, <1>5
        DEF Bare, BtInv, BtRest, HandlesAreLinks, OneSlot, SlotsInUse, SlotInUse

LEMMA DropIsTamer ==
  ASSUME BtTypes, NEW h, link' \in Drop(h)
  PROVE  \A d \in Ctrls : Tamer(d)
BY DEF Drop, Tamer, BtTypes

LEMMA ErrorKeeps == ASSUME BtInv, L2capError PROVE BtRest'
<1>1. PICK h \in Ctrls \cup {None} : link' \in Drop(h) BY DEF L2capError
<1>2. /\ UNCHANGED <<dongle, configured, pads, jobs, events, live, frame, polled>> /\ dongle = "in"
      /\ \A d \in Ctrls : Tamer(d)
  BY <1>1, DropIsTamer DEF L2capError, BtInv
<1>3. \A d \in Ctrls : Told(d) /\ (Accepting(d)' => Accepting(d)) /\ live'[d] = live[d]
                       /\ frame'[d] = frame[d]
  BY <1>2, ToldSame DEF Accepting
<1>4. InOrder' BY <1>2 DEF BtInv, InOrder, Tells
<1>5. InOrder' /\ LinksAreTold' /\ HandlesAreLinks' /\ SlotsInUse' BY <1>2, <1>3, <1>4, AllSame
<1> QED BY <1>2, <1>5 DEF Bare, BtRest

-----------------------------------------------------------------------------
(* hci_event_cb                                                            *)

(* An event that was taken from the queue no longer tells; those of other   *)
(* controllers still do.                                                    *)
LEMMA TakenTold ==
  ASSUME BtInv, events # <<>>, events' = Tail(events)
  PROVE  /\ InOrder' /\ Head(events) \in Events
         /\ \A c \in Ctrls : ~ (Head(events).kind \in DOMAIN Age /\ Head(events).c = c) => Told(c)
         /\ \A c \in Ctrls, k \in DOMAIN Age : Pending(k, c)' => Pending(k, c)
         /\ \A c \in Ctrls : Hailed(c)' => Hailed(c)
         /\ \A c \in Ctrls, k, l \in DOMAIN Age :
              Head(events).kind = k /\ Head(events).c = c =>
                /\ Pending(k, c) /\ (k = "connDone" /\ Head(events).ok => Hailed(c))
                /\ Pending(l, c)' => Age[k] < Age[l]
                /\ l # k => (Pending(l, c)' <=> Pending(l, c))
                /\ Pending(l, c) => l = k \/ Age[k] < Age[l]
<1>1. BtTypes /\ InOrder BY DEF BtInv
<1>2. /\ Len(events) \in Nat \ {0} /\ Head(events) = events[1] /\ Head(events) \in Events BY <1>1, Dequeued
<1>3. 1 \in 1 .. Len(events) BY <1>2
<1>4. /\ \A c \in Ctrls, k \in DOMAIN Age : /\ Pending(k, c)' => Pending(k, c)
                                            /\ Pending(k, c) => \/ Pending(k, c)'
                                                                \/ Head(events).kind = k /\ Head(events).c = c
      /\ \A c \in Ctrls : Hailed(c)' => Hailed(c)
  BY <1>1, TailTells
<1>5. /\ InOrder'
      /\ \A c \in Ctrls, k, l \in DOMAIN Age :
           Head(events).kind = k /\ Head(events).c = c /\ Pending(l, c)' => Age[k] < Age[l]
  BY <1>1, TailInOrder
<1>6. ASSUME NEW c \in Ctrls, NEW k \in DOMAIN Age, Head(events).kind = k, Head(events).c = c
      PROVE  Pending(k, c) /\ (k = "connDone" /\ Head(events).ok => Hailed(c))
  BY <1>2, <1>3, <1>6 DEF Pending, Hailed, Tells
<1> QED BY <1>2, <1>4, <1>5, <1>6 DEF Told

(* An event that tells nothing of a link: the slots may get a type.         *)
LEMMA StepKeeps ==
  ASSUME BtInv, events # <<>>, events' = Tail(events), Head(events).kind \in {"complete", "name"},
         UNCHANGED <<link, live>>, \A c \in Ctrls : Accepting(c)' => Accepting(c),
         \A p \in Pads : /\ pads'[p].addr = pads[p].addr /\ pads'[p].handle = pads[p].handle
                         /\ pads'[p].connected = pads[p].connected
                         /\ pads'[p].running = pads[p].running /\ pads'[p].data = pads[p].data,
         \A c \in Ctrls : \/ frame'[c] = frame[c]
                          \/ /\ frame'[c].kind \notin {"none", "connReqC", "report", "dreq"}
                             /\ \E p \in Pads : pads[p].handle = c
  PROVE  InOrder' /\ LinksAreTold' /\ HandlesAreLinks' /\ SlotsInUse'
<1>1. InOrder' /\ \A c \in Ctrls : Told(c) /\ Tamer(c) BY TakenTold, Ages DEF Tamer
<1>2. LinksAreTold'
  <2> SUFFICES ASSUME NEW c \in Ctrls PROVE LinkIsTold(c)' BY DEF LinksAreTold
  <2>1. LinkIsTold(c) /\ \A p \in Pads : HandleIsLink(p, c) BY DEF BtInv, LinksAreTold, HandlesAreLinks
  <2>2. Pending("connDone", c) => frame'[c] = frame[c] BY <2>1 DEF HandleIsLink
  <2>3. Pending("connDone", c) => live'[c] = None /\ frame'[c].kind \in {"none", "connReqC"}
    BY <2>1, <2>2 DEF LinkIsTold
  <2> QED BY <1>1, <2>1, <2>3, LinkSame
<1>3. \A p \in Pads, c \in Ctrls : HandleIsLink(p, c)'
  <2> SUFFICES ASSUME NEW p \in Pads, NEW c \in Ctrls PROVE HandleIsLink(p, c)' OBVIOUS
  <2>1. HandleIsLink(p, c) BY DEF BtInv, HandlesAreLinks
  <2>2. frame'[c].kind \in {"report", "dreq"} => frame[c].kind \in {"report", "dreq"} OBVIOUS
  <2> QED BY <1>1, <2>1, <2>2, HandleSame, Ages DEF Told
<1>4. OneSlot' /\ SlotsInUse' BY DEF BtInv, HandlesAreLinks, OneSlot, SlotsInUse, SlotInUse
<1> QED BY <1>1, <1>2, <1>3, <1>4 DEF HandlesAreLinks

LEMMA CompleteKeeps ==
  ASSUME BtInv, HciEvent, Head(events).kind = "complete", CommandComplete(Head(events)), UNCHANGED frame
  PROVE  InOrder' /\ LinksAreTold' /\ HandlesAreLinks' /\ SlotsInUse'
<1> DEFINE e == Head(events)
<1>1. events # <<>> /\ events' = Tail(events) /\ UNCHANGED live BY DEF HciEvent
<1>2. UNCHANGED <<pads, link>> BY DEF CommandComplete
<1>3. ASSUME NEW c \in Ctrls, Accepting(c)' PROVE Accepting(c)
  <2>1. \A o : [op |-> "accept", c |-> c] # [op |-> o]
    <3> SUFFICES ASSUME NEW o, [op |-> "accept", c |-> c] = [op |-> o] PROVE FALSE OBVIOUS
    <3>1. DOMAIN [op |-> "accept", c |-> c] = DOMAIN [op |-> o] OBVIOUS
    <3> QED BY <3>1
  <2>2. jobs' = jobs \/ \E o : jobs' = jobs \cup {[op |-> o]} BY DEF CommandComplete
  <2> QED BY <1>3, <2>1, <2>2 DEF Accepting
<1> QED BY <1>1, <1>2, <1>3, StepKeeps

LEMMA NameKeeps ==
  ASSUME BtInv, HciEvent, Head(events).kind = "name", NameComplete(Head(events))
  PROVE  InOrder' /\ LinksAreTold' /\ HandlesAreLinks' /\ SlotsInUse'
<1>1. events # <<>> /\ events' = Tail(events) /\ UNCHANGED live BY DEF HciEvent
<1>2. UNCHANGED <<jobs, link>> BY DEF NameComplete
<1>3. BtTypes /\ Head(events) \in Events BY <1>1, Dequeued DEF BtInv
<1>4. \A c \in Ctrls : Accepting(c)' => Accepting(c) BY <1>2 DEF Accepting
<1> QED BY <1>1, <1>2, <1>3, <1>4, NameTypes, StepKeeps

(* A link is up: the slot that waits for the address has it, and no slot    *)
(* had it before.                                                           *)
LEMMA ConnectKeeps ==
  ASSUME BtInv, HciEvent, Head(events).kind = "connDone", ConnectComplete(Head(events)), UNCHANGED frame
  PROVE  InOrder' /\ LinksAreTold' /\ HandlesAreLinks' /\ SlotsInUse'
<1>1. /\ events # <<>> /\ events' = Tail(events) /\ UNCHANGED <<link, live, frame>>
  BY DEF HciEvent, ConnectComplete
<1>2. BtTypes /\ Head(events) \in Events BY <1>1, Dequeued DEF BtInv
<1>3. PICK c \in Ctrls : c = Head(events).c BY <1>2, EventKinds
<1>4. /\ InOrder' /\ Pending("connDone", c) /\ (Head(events).ok => Hailed(c))
      /\ ~ Pending("connDone", c)' /\ (Pending("disc", c)' <=> Pending("disc", c))
      /\ (Pending("connReq", c)' <=> Pending("connReq", c))
      /\ \A d \in Ctrls \ {c} : Told(d)
  BY <1>1, <1>3, TakenTold, Ages
<1>5. /\ LinkIsTold(c) /\ \A p \in Pads : pads[p].handle # c
      /\ live[c] = None /\ frame[c].kind \in {"none", "connReqC"} /\ ~ Accepting(c)
  BY <1>4, Ages DEF BtInv, LinksAreTold, HandlesAreLinks, LinkIsTold, HandleIsLink
<1>6. \A d \in Ctrls : Accepting(d)' => Accepting(d)
  <2>1. jobs' = jobs \/ jobs' = jobs \cup {[op |-> "name", c |-> c]} BY <1>3 DEF ConnectComplete
  <2>2. \A d : [op |-> "accept", c |-> d] # [op |-> "name", c |-> c] 
    <3> SUFFICES ASSUME NEW d, [op |-> "accept", c |-> d] = [op |-> "name", c |-> c] PROVE FALSE OBVIOUS
    <3>1. [op |-> "accept", c |-> d].op = [op |-> "name", c |-> c].op OBVIOUS
    <3> QED BY <3>1
  <2> QED BY <2>1, <2>2 DEF Accepting
<1>7. LinksAreTold'
  <2> SUFFICES ASSUME NEW d \in Ctrls PROVE LinkIsTold(d)' BY DEF LinksAreTold
  <2>1. CASE d = c
    <3>1. ~ Hailed(c)' BY <1>4, Ages DEF Hailed, Pending
    <3> QED BY <1>1, <1>4, <1>5, <1>6, <2>1, <3>1 DEF LinkIsTold
  <2>2. CASE d # c
    <3>1. LinkIsTold(d) /\ Tamer(d) BY <1>1 DEF BtInv, LinksAreTold, Tamer
    <3>2. Pending("connDone", d) => live'[d] = None /\ frame'[d].kind \in {"none", "connReqC"}
      BY <1>1, <3>1 DEF LinkIsTold
    <3> QED BY <1>4, <1>6, <2>2, <3>1, <3>2, LinkSame
  <2> QED BY <2>1, <2>2
<1>8. CASE UNCHANGED pads
  <2>1. \A p \in Pads, d \in Ctrls : HandleIsLink(p, d)'
    <3> SUFFICES ASSUME NEW p \in Pads, NEW d \in Ctrls PROVE HandleIsLink(p, d)' OBVIOUS
    <3>1. HandleIsLink(p, d) /\ Tamer(d) BY <1>1 DEF BtInv, HandlesAreLinks, Tamer
    <3>2. CASE d = c BY <1>5, <1>8, <3>2 DEF HandleIsLink
    <3>3. CASE d # c BY <1>1, <1>4, <1>8, <3>1, <3>3, HandleSame, Ages DEF Told
    <3> QED BY <3>2, <3>3
  <2> QED BY <1>4, <1>7, <1>8, <2>1 DEF BtInv, HandlesAreLinks, OneSlot, SlotsInUse, SlotInUse
<1>9. CASE Head(events).ok /\ \E p \in PadAt(c) :
             pads' = [pads EXCEPT ![p].handle = c, ![p].connected = TRUE]
  <2>1. PICK p \in PadAt(c) : pads' = [pads EXCEPT ![p].handle = c, ![p].connected = TRUE] BY <1>9
  <2>2. p \in Pads /\ pads[p].addr = c BY PadAtIs
  <2>3. pads[p] \in PadStates BY <1>2, <2>2 DEF BtTypes
  <2> DEFINE s == [pads[p] EXCEPT !.handle = c, !.connected = TRUE]
  <2>4. /\ s \in PadStates /\ s.handle = c /\ s.addr = c /\ s.connected
        /\ s.running = pads[p].running /\ s.data = pads[p].data
    BY <2>2, <2>3 DEF PadStates
  <2>5. pads' = [pads EXCEPT ![p] = s] BY <1>2, <2>1, <2>2 DEF BtTypes
  <2> HIDE DEF s
  <2>6. pads'[p] = s /\ \A q \in Pads \ {p} : pads'[q] = pads[q]
    BY <1>2, <2>2, <2>4, <2>5, PadChange
  <2>7. OneSlot'
    <3>1. OneSlot BY DEF BtInv, HandlesAreLinks
    <3> QED BY <1>5, <2>4, <2>6, <3>1 DEF OneSlot
  <2>8. \A q \in Pads, d \in Ctrls : HandleIsLink(q, d)'
    <3> SUFFICES ASSUME NEW q \in Pads, NEW d \in Ctrls PROVE HandleIsLink(q, d)' OBVIOUS
    <3>1. HandleIsLink(q, d) /\ Tamer(d) BY <1>1 DEF BtInv, HandlesAreLinks, Tamer
    <3>2. CASE q = p /\ d = c
      <4>1. link[c] \in {"up", "dropping"} \/ Pending("disc", c) BY <1>4, <1>5, <1>9 DEF LinkIsTold
      <4> QED BY <1>1, <1>4, <1>5, <2>4, <2>6, <3>2, <4>1 DEF HandleIsLink
    <3>3. CASE q = p /\ d # c BY <2>4, <2>6, <3>3 DEF HandleIsLink
    <3>4. CASE q # p /\ d = c BY <1>5, <2>6, <3>4 DEF HandleIsLink
    <3>5. CASE q # p /\ d # c BY <1>1, <1>4, <2>6, <3>1, <3>5, HandleSame, Ages DEF Told
    <3> QED BY <3>2, <3>3, <3>4, <3>5
  <2>9. SlotsInUse'
    <3> SUFFICES ASSUME NEW q \in Pads PROVE SlotInUse(q)' BY DEF SlotsInUse
    <3>1. SlotInUse(q) BY DEF BtInv, SlotsInUse
    <3> QED BY <2>4, <2>6, <3>1 DEF SlotInUse
  <2> QED BY <1>4, <1>7, <2>7, <2>8, <2>9 DEF HandlesAreLinks
<1> QED BY <1>3, <1>8, <1>9 DEF ConnectComplete

(* A link's end clears the one slot that has its handle.                    *)
LEMMA DisconnKeeps ==
  ASSUME BtInv, HciEvent, Head(events).kind = "disc", DisconnComplete(Head(events)), UNCHANGED frame
  PROVE  InOrder' /\ LinksAreTold' /\ HandlesAreLinks' /\ SlotsInUse'
<1>1. events # <<>> /\ events' = Tail(events) /\ UNCHANGED <<jobs, link, live, frame>>
  BY DEF HciEvent, DisconnComplete
<1>2. BtTypes /\ Head(events) \in Events BY <1>1, Dequeued DEF BtInv
<1>3. PICK c \in Ctrls : c = Head(events).c BY <1>2, EventKinds
<1>4. /\ InOrder' /\ ~ Pending("connDone", c)' /\ ~ Pending("disc", c)'
      /\ (Pending("connReq", c)' => Pending("connReq", c)) /\ Pending("disc", c)
      /\ \A d \in Ctrls \ {c} : Told(d)
  BY <1>1, <1>3, TakenTold, Ages
<1>5. \A p \in Pads : pads'[p] = IF pads[p].handle = c THEN Cleared ELSE pads[p]
  BY <1>2, <1>3, PadOfIs DEF DisconnComplete, BtInv
<1>6. Cleared.handle \notin Ctrls /\ Cleared.data \notin Ctrls /\ ~ Cleared.connected /\ ~ Cleared.running
  BY ControllersAssumption DEF Cleared, Neutral, ControllersAssumption, Ctrls
<1>7. LinksAreTold'
  <2> SUFFICES ASSUME NEW d \in Ctrls PROVE LinkIsTold(d)' BY DEF LinksAreTold
  <2>1. LinkIsTold(d) /\ Tamer(d) /\ (Accepting(d)' => Accepting(d))
    BY <1>1 DEF BtInv, LinksAreTold, Tamer, Accepting
  <2>2. CASE d = c
    <3>1. ~ Hailed(c)' BY <1>4, Ages DEF Hailed, Pending
    <3> QED BY <1>1, <1>4, <2>1, <2>2, <3>1, Ages DEF LinkIsTold
  <2>3. CASE d # c
    <3>1. Pending("connDone", d) => live'[d] = None /\ frame'[d].kind \in {"none", "connReqC"}
      BY <1>1, <2>1 DEF LinkIsTold
    <3> QED BY <1>4, <2>1, <2>3, <3>1, LinkSame
  <2> QED BY <2>2, <2>3
<1>8. \A p \in Pads, d \in Ctrls : HandleIsLink(p, d)'
  <2> SUFFICES ASSUME NEW p \in Pads, NEW d \in Ctrls PROVE HandleIsLink(p, d)' OBVIOUS
  <2>1. HandleIsLink(p, d) /\ Tamer(d) BY <1>1 DEF BtInv, HandlesAreLinks, Tamer
  <2>2. CASE pads[p].handle = c BY <1>5, <1>6, <2>2 DEF HandleIsLink
  <2>3. CASE pads[p].handle # c /\ d # c
    BY <1>1, <1>4, <1>5, <2>1, <2>3, HandleSame, Ages DEF Told
  <2>4. CASE pads[p].handle # c /\ d = c BY <1>5, <2>4 DEF HandleIsLink
  <2> QED BY <2>2, <2>3, <2>4
<1>9. OneSlot' /\ SlotsInUse'
  BY <1>5, <1>6 DEF BtInv, HandlesAreLinks, OneSlot, SlotsInUse, SlotInUse
<1> QED BY <1>4, <1>7, <1>8, <1>9 DEF HandlesAreLinks

(* A controller asks for a link: it is turned away, or given a slot nobody  *)
(* plays on, whose own link is dropped if it was still there.               *)
LEMMA TakenKeeps ==
  ASSUME BtInv, HciEvent, Head(events).kind = "connReq", ConnectRequest(Head(events)), UNCHANGED frame
  PROVE  InOrder' /\ LinksAreTold' /\ HandlesAreLinks' /\ SlotsInUse'
<1>1. events # <<>> /\ events' = Tail(events) /\ UNCHANGED <<live, frame>> BY DEF HciEvent
<1>2. BtTypes /\ Head(events) \in Events BY <1>1, Dequeued DEF BtInv
<1>3. PICK c \in Ctrls : c = Head(events).c BY <1>2, EventKinds
<1>4. /\ InOrder' /\ Pending("connReq", c) /\ \A k \in DOMAIN Age : ~ Pending(k, c)'
      /\ ~ Pending("connDone", c) /\ ~ Pending("disc", c)
      /\ \A d \in Ctrls \ {c} : Told(d)
  BY <1>1, <1>3, TakenTold, Ages
<1>5. link[c] = "asking" /\ ~ Accepting(c) BY <1>4, Ages DEF BtInv, LinksAreTold, LinkIsTold
<1>6. \A p \in Pads : pads[p].handle # c
  BY <1>4, <1>5 DEF BtInv, HandlesAreLinks, HandleIsLink
<1>7. ~ Hailed(c)' BY <1>4, Ages DEF Hailed, Pending
<1>8. CASE UNCHANGED <<pads, jobs>> /\ link' = [link EXCEPT ![c] = "off"]
  <2>1. \A d \in Ctrls \ {c} : link'[d] = link[d] /\ Tamer(d) BY <1>2, <1>8 DEF BtTypes, Tamer
  <2>2. LinksAreTold'
    <3> SUFFICES ASSUME NEW d \in Ctrls PROVE LinkIsTold(d)' BY DEF LinksAreTold
    <3>1. LinkIsTold(d) /\ (Accepting(d)' <=> Accepting(d))
      BY <1>8 DEF BtInv, LinksAreTold, Accepting
    <3>2. CASE d = c BY <1>4, <1>5, <1>7, <3>1, <3>2, Ages DEF LinkIsTold
    <3>3. CASE d # c
      <4>1. Pending("connDone", d) => live'[d] = None /\ frame'[d].kind \in {"none", "connReqC"}
        BY <1>1, <3>1 DEF LinkIsTold
      <4> QED BY <1>4, <2>1, <3>1, <3>3, <4>1, LinkSame
    <3> QED BY <3>2, <3>3
  <2>3. \A p \in Pads, d \in Ctrls : HandleIsLink(p, d)'
    <3> SUFFICES ASSUME NEW p \in Pads, NEW d \in Ctrls PROVE HandleIsLink(p, d)' OBVIOUS
    <3>1. HandleIsLink(p, d) BY DEF BtInv, HandlesAreLinks
    <3>2. CASE d = c BY <1>6, <1>8, <3>2 DEF HandleIsLink
    <3>3. CASE d # c BY <1>1, <1>4, <1>8, <2>1, <3>1, <3>3, HandleSame, Ages DEF Told
    <3> QED BY <3>2, <3>3
  <2> QED BY <1>4, <1>8, <2>2, <2>3 DEF BtInv, HandlesAreLinks, OneSlot, SlotsInUse, SlotInUse
<1>9. ASSUME NEW p \in Pads,
             /\ ~ pads[p].running
             /\ link' \in (IF pads[p].connected THEN Drop(pads[p].handle) ELSE {link})
             /\ jobs' = jobs \union {[op |-> "accept", c |-> c]}
             /\ \A q \in Pads \ {p} : pads'[q] = pads[q]
             /\ pads'[p].addr = c /\ pads'[p].handle = pads[p].handle
             /\ ~ pads'[p].connected /\ ~ pads'[p].running /\ pads'[p].data = pads[p].data
      PROVE  InOrder' /\ LinksAreTold' /\ HandlesAreLinks' /\ SlotsInUse'
  <2>1. \A d \in Ctrls : Tamer(d) BY <1>2, <1>9, DropIsTamer DEF Tamer
  <2>3. \A d \in Ctrls \ {c} : Accepting(d)' => Accepting(d)
    <3> SUFFICES ASSUME NEW d \in Ctrls \ {c}, Accepting(d)' PROVE Accepting(d) OBVIOUS
    <3>1. [op |-> "accept", c |-> d] # [op |-> "accept", c |-> c]
      <4> SUFFICES ASSUME [op |-> "accept", c |-> d] = [op |-> "accept", c |-> c] PROVE FALSE OBVIOUS
      <4>1. [op |-> "accept", c |-> d].c = [op |-> "accept", c |-> c].c OBVIOUS
      <4> QED BY <4>1
    <3> QED BY <1>9, <3>1 DEF Accepting
  <2>4. LinksAreTold'
    <3> SUFFICES ASSUME NEW d \in Ctrls PROVE LinkIsTold(d)' BY DEF LinksAreTold
    <3>1. LinkIsTold(d) BY DEF BtInv, LinksAreTold
    <3>2. CASE d = c
      <4>1. link'[c] = "asking" BY <1>5, <2>1 DEF Tamer
      <4> QED BY <1>4, <1>7, <3>2, <4>1, Ages DEF LinkIsTold
    <3>3. CASE d # c
      <4>1. Pending("connDone", d) => live'[d] = None /\ frame'[d].kind \in {"none", "connReqC"}
        BY <1>1, <3>1 DEF LinkIsTold
      <4> QED BY <1>4, <2>1, <2>3, <3>1, <3>3, <4>1, LinkSame
    <3> QED BY <3>2, <3>3
  <2>5. \A q \in Pads, d \in Ctrls : HandleIsLink(q, d)'
    <3> SUFFICES ASSUME NEW q \in Pads, NEW d \in Ctrls PROVE HandleIsLink(q, d)' OBVIOUS
    <3>1. HandleIsLink(q, d) BY DEF BtInv, HandlesAreLinks
    <3>2. pads'[q].handle = pads[q].handle BY <1>9
    <3>3. CASE d = c BY <1>6, <3>2, <3>3 DEF HandleIsLink
    <3>4. CASE pads[q].handle # d BY <3>2, <3>4 DEF HandleIsLink
    <3>5. CASE d # c /\ pads[q].handle = d
      <4>1. pads[q].running => pads'[q].running BY <1>9
      <4> QED BY <1>1, <1>4, <2>1, <3>1, <3>5, <4>1, HandleSame, Ages DEF Told
    <3> QED BY <3>3, <3>4, <3>5
  <2>6. OneSlot' BY <1>9 DEF BtInv, HandlesAreLinks, OneSlot
  <2>7. SlotsInUse'
    <3> SUFFICES ASSUME NEW q \in Pads PROVE SlotInUse(q)' BY DEF SlotsInUse
    <3>1. SlotInUse(q) BY DEF BtInv, SlotsInUse
    <3> QED BY <1>9, <3>1 DEF SlotInUse
  <2> QED BY <1>4, <2>4, <2>5, <2>6, <2>7 DEF HandlesAreLinks
<1> QED BY <1>2, <1>3, <1>8, <1>9, TakenTypes

LEMMA HciKeeps == ASSUME BtInv, HciEvent PROVE BtRest'
<1>1. dongle = "in" /\ UNCHANGED dongle BY DEF HciEvent
<1>2. Bare' BY <1>1 DEF Bare
<1>3. InOrder' /\ LinksAreTold' /\ HandlesAreLinks' /\ SlotsInUse'
  BY CompleteKeeps, ConnectKeeps, DisconnKeeps, NameKeeps, TakenKeeps DEF HciEvent
<1> QED BY <1>2, <1>3 DEF BtRest

-----------------------------------------------------------------------------
(* l2cap_event_cb                                                          *)

LEMMA L2capKeeps == ASSUME BtInv, NEW c \in Ctrls, L2capEvent(c) PROVE BtRest'
<1>1. Heard(c) /\ UNCHANGED <<dongle, configured, jobs, events, link, polled>>
  BY L2capTypes DEF BtInv
<1>2. dongle = "in" BY DEF L2capEvent
<1>3. \A d \in Ctrls : Told(d) /\ Tamer(d) /\ (Accepting(d)' => Accepting(d))
  BY <1>1, ToldSame DEF Tamer, Accepting
<1>4. InOrder' BY <1>1 DEF BtInv, InOrder, Tells
<1>5. LinksAreTold'
  <2> SUFFICES ASSUME NEW d \in Ctrls PROVE LinkIsTold(d)' BY DEF LinksAreTold
  <2>1. LinkIsTold(d) /\ \A p \in Pads : HandleIsLink(p, d) BY DEF BtInv, LinksAreTold, HandlesAreLinks
  <2>2. Pending("connDone", d) => live'[d] = None /\ frame'[d].kind \in {"none", "connReqC"}
    <3>1. CASE d = c BY <1>1, <2>1, <3>1 DEF Heard, LinkIsTold, HandleIsLink
    <3>2. CASE d # c BY <1>1, <2>1, <3>2 DEF Heard, LinkIsTold
    <3> QED BY <3>1, <3>2
  <2> QED BY <1>3, <2>1, <2>2, LinkSame
<1>6. \A p \in Pads, d \in Ctrls : HandleIsLink(p, d)'
  <2> SUFFICES ASSUME NEW p \in Pads, NEW d \in Ctrls PROVE HandleIsLink(p, d)' OBVIOUS
  <2>1. HandleIsLink(p, d) /\ OneSlot BY DEF BtInv, HandlesAreLinks
  <2>2. pads'[p].addr = pads[p].addr /\ pads'[p].handle = pads[p].handle
        /\ pads'[p].connected = pads[p].connected /\ (pads[p].running => pads'[p].running)
    BY <1>1 DEF Heard
  <2>3. CASE pads[p].handle # d BY <2>2, <2>3 DEF HandleIsLink
  <2>4. CASE pads[p].handle = d /\ d = c
    <3>1. live'[c] # None \/ frame'[c].kind \in {"report", "dreq"} =>
            live[c] # None \/ \E q \in Pads : pads[q].handle = c /\ pads'[q].running
      BY <1>1 DEF Heard
    <3>2. \A q \in Pads : pads[q].handle = c => q = p BY <2>1, <2>4 DEF OneSlot
    <3> QED BY <1>3, <2>1, <2>2, <2>4, <3>1, <3>2, HandleSame, Ages DEF Told
  <2>5. CASE d # c
    <3>1. frame'[d] = frame[d] /\ live'[d] = live[d] BY <1>1, <2>5 DEF Heard
    <3> QED BY <1>3, <2>1, <2>2, <3>1, HandleSame, Ages DEF Told
  <2> QED BY <2>3, <2>4, <2>5
<1>7. OneSlot' BY <1>1 DEF BtInv, HandlesAreLinks, OneSlot, Heard
<1>8. SlotsInUse'
  <2> SUFFICES ASSUME NEW p \in Pads PROVE SlotInUse(p)' BY DEF SlotsInUse
  <2>1. SlotInUse(p) /\ HandleIsLink(p, c) BY DEF BtInv, SlotsInUse, HandlesAreLinks
  <2> QED BY <1>1, <2>1 DEF SlotInUse, HandleIsLink, Heard
<1> QED BY <1>1, <1>2, <1>4, <1>5, <1>6, <1>7, <1>8 DEF Bare, BtRest, HandlesAreLinks

LEMMA BtKept == Spec => []BtInv
<1>1. BtInv /\ [Next]_vars => BtInv'
  <2> SUFFICES ASSUME BtInv, [Next]_vars PROVE BtInv' OBVIOUS
  <2>1. BtTypes' BY BtTypesNext DEF BtInv
  <2>2. BtRest'
    BY OtherKeeps, JobDoneKeeps, AskKeeps, LinkDownKeeps, ReportKeeps, HciKeeps, L2capKeeps, ErrorKeeps
       DEF Next
  <2> QED BY <2>1, <2>2 DEF BtInv, BtRest
<1> QED BY <1>1, BtStarts, PTL DEF Spec

\* The driver's own bookkeeping, and what it last heard of every controller, is always one of the
\* values the code gives it, for any number of slots and controllers (ds34bt.c: ds34pad, ds34pad_clear).
THEOREM Ds34BtTypeCorrect == Spec => []TypeOK
<1>1. BtInv => TypeOK
  <2> SUFFICES ASSUME BtInv PROVE TypeOK OBVIOUS
  <2>1. BtTypes BY DEF BtInv
  <2>2. ASSUME NEW p \in Pads
        PROVE  /\ pads[p].addr \in Ctrls \cup {None} /\ pads[p].handle \in Ctrls \cup {None}
               /\ pads[p].data \in Ctrls \cup {None} /\ pads[p].type \in {"ds3", "ds4"}
               /\ {pads[p].connected, pads[p].running, pads[p].disconnecting} \subseteq BOOLEAN
    <3>1. pads[p] \in PadStates BY <2>1 DEF BtTypes
    <3> QED BY <3>1 DEF PadStates
  <2> QED BY <2>1, <2>2 DEF BtTypes, TypeOK
<1> QED BY <1>1, BtKept, PTL

\* A slot that says connected or running has the handle of a link that is there, or whose end is
\* queued for the driver, for any number of slots and controllers and a queue of any length, in
\* whatever order addresses, handles and ends of links come (HCI_event_task, ds34bt.c).
THEOREM SlotsFollowLinks == Spec => []PadsFollowTheirLinks
<1>1. BtInv => PadsFollowTheirLinks
  <2> SUFFICES ASSUME BtInv, NEW p \in Pads, pads[p].connected \/ pads[p].running
               PROVE  \E c \in Ctrls : /\ pads[p].handle = c
                                       /\ link[c] \in {"up", "dropping"} \/ Leaving(c)
    BY DEF PadsFollowTheirLinks
  <2>1. PICK c \in Ctrls : c = pads[p].handle BY DEF BtInv, SlotsInUse, SlotInUse
  <2>2. link[c] \in {"up", "dropping"} \/ Pending("disc", c)
    BY <2>1 DEF BtInv, HandlesAreLinks, HandleIsLink
  <2>3. DOMAIN events = 1 .. Len(events) BY DEF BtInv, BtTypes
  <2>4. Pending("disc", c) => Leaving(c) BY <2>3 DEF Pending, Tells, Leaving
  <2> QED BY <2>1, <2>2, <2>4
<1> QED BY <1>1, BtKept, PTL

\* Between the two calls of a poll the slot may be cleared, taken or set up again: the buttons of the
\* second call are still neutral, or those of a controller on a slot that runs (lua_getpad,
\* ds34bt_get_data), whatever was lost or late before; unless the dongle was pulled out in between,
\* which is the only way that the menu is told of a button nobody holds.
THEOREM PressesAreHeld == Spec => []PressOnlyFromRunningPad
<1>1. BtInv => PressOnlyFromRunningPad
  <2> SUFFICES ASSUME BtInv, Held # Neutral
               PROVE  \/ Held \in Ctrls /\ pads[polled].running
                      \/ Held = "request" /\ dongle = "out"
    BY DEF PressOnlyFromRunningPad
  <2>1. polled # None /\ polled \in Pads /\ Held = Answered(polled) BY DEF Held, BtInv, BtTypes
  <2>2. CASE dongle = "out" BY <2>1, <2>2 DEF Answered
  <2>3. CASE dongle # "out"
    <3>1. Held = pads[polled].data BY <2>1, <2>3 DEF Answered
    <3>2. pads[polled] \in PadStates BY <2>1 DEF BtInv, BtTypes
    <3>3. Held \in Ctrls BY <3>1, <3>2 DEF PadStates, Neutral
    <3> QED BY <2>1, <3>1, <3>3 DEF BtInv, SlotsInUse, SlotInUse
  <2> QED BY <2>2, <2>3
<1> QED BY <1>1, BtKept, PTL

KeepsPlayer == \A p \in Pads, c \in Ctrls :
  pads[p].running /\ pads[p].handle = c /\ pads[p].addr = c /\ link[c] = "up" /\ link'[c] # "off"
    => link'[c] = "up" /\ pads'[p].running /\ pads'[p].handle = c /\ pads'[p].addr = c

\* Whoever plays keeps the pad: no request, name or late event of another controller drops the link
\* of a running slot, or takes or clears it, for any number of slots and controllers
\* (HCI_event_task: the pad of HCI_EVENT_CONN_REQUEST; l2cap_event_cb's failed transfer apart).
THEOREM NobodyIsThrownOut == Spec => PlayerKeepsThePad
<1>1. ASSUME BtInv, [Next]_vars, ~ L2capError PROVE KeepsPlayer
  <2> SUFFICES ASSUME NEW p \in Pads, NEW c \in Ctrls,
                      pads[p].running, pads[p].handle = c, pads[p].addr = c,
                      link[c] = "up", link'[c] # "off"
               PROVE  link'[c] = "up" /\ pads'[p].running /\ pads'[p].handle = c /\ pads'[p].addr = c
    BY <1>1 DEF KeepsPlayer
  <2>1. BtTypes /\ HandleIsLink(p, c) /\ LinkIsTold(c) /\ OneSlot
    BY <1>1 DEF BtInv, HandlesAreLinks, LinksAreTold
  <2>2. ~ Pending("disc", c) /\ ~ Pending("connReq", c) /\ ~ Pending("connDone", c)
        /\ ~ Accepting(c)
    BY <2>1 DEF HandleIsLink, LinkIsTold
  <2>3. dongle = "in"
    <3> SUFFICES ASSUME dongle # "in" PROVE FALSE OBVIOUS
    <3>1. link[c] = "off" BY <1>1 DEF BtInv, Bare
    <3> QED BY <3>1
  <2>4. CASE Plug \/ ConfigSet \/ Unplug BY <2>3, <2>4 DEF Plug, ConfigSet, Unplug
  <2>5. ASSUME NEW j \in jobs, JobDone(j) PROVE link'[c] = "up" /\ UNCHANGED pads
    <3>1. j \in Jobs BY <2>1 DEF BtTypes
    <3>2. j.op = "accept" => j.c # c
      <4> SUFFICES ASSUME j.op = "accept", j.c = c PROVE FALSE OBVIOUS
      <4>1. j = [op |-> "accept", c |-> c] BY <3>1, JobKinds DEF BringUp
      <4> QED BY <2>2, <4>1 DEF Accepting
    <3> QED BY <2>1, <2>5, <3>2 DEF JobDone, BtTypes
  <2>6. ASSUME NEW d \in Ctrls, Ask(d) \/ LinkDown(d) \/ Report(d) PROVE link'[c] = "up" /\ UNCHANGED pads
    BY <2>1, <2>6 DEF Ask, LinkDown, Report, BtTypes
  <2>7. CASE HciEvent
    <3>1. events # <<>> /\ events' = Tail(events) BY <2>7 DEF HciEvent
    <3>2. Head(events) \in Events BY <2>1, <3>1, Dequeued
    <3>3. Head(events).kind \in DOMAIN Age => Head(events).c # c
      <4>1. \A k \in DOMAIN Age : Head(events).kind = k /\ Head(events).c = c => Pending(k, c)
        BY <1>1, <3>1, TakenTold
      <4> QED BY <2>2, <4>1, Ages
    <3>4. CASE Head(events).kind = "complete" /\ CommandComplete(Head(events))
      BY <3>4 DEF CommandComplete
    <3>5. CASE Head(events).kind = "connDone" /\ ConnectComplete(Head(events))
      <4>1. p \notin PadAt(Head(events).c)
        <5>1. Head(events).c # c BY <3>3, <3>5, Ages
        <5> QED BY <2>2, <5>1, PadAtIs
      <4>2. UNCHANGED link /\ (UNCHANGED pads \/ \E q \in PadAt(Head(events).c) :
               pads' = [pads EXCEPT ![q].handle = Head(events).c, ![q].connected = TRUE])
        BY <3>5 DEF ConnectComplete
      <4>3. pads'[p] = pads[p] BY <2>1, <4>1, <4>2 DEF BtTypes
      <4> QED BY <4>2, <4>3
    <3>6. CASE Head(events).kind = "disc" /\ DisconnComplete(Head(events))
      <4>1. p \notin PadOf(Head(events).c)
        <5>1. Head(events).c # c BY <3>3, <3>6, Ages
        <5> QED BY <5>1, PadOfIn
      <4> QED BY <3>6, <4>1 DEF DisconnComplete
    <3>7. CASE Head(events).kind = "name" /\ NameComplete(Head(events))
      <4>1. UNCHANGED link BY <3>7 DEF NameComplete
      <4> QED BY <2>1, <3>2, <3>7, <4>1, NameTypes
    <3>8. CASE Head(events).kind = "connReq" /\ ConnectRequest(Head(events))
      <4>1. CASE UNCHANGED pads /\ link' = [link EXCEPT ![Head(events).c] = "off"]
        <5>1. Head(events).c # c BY <3>3, <3>8, Ages
        <5> QED BY <2>1, <4>1, <5>1 DEF BtTypes
      <4>2. ASSUME NEW q \in Pads, ~ pads[q].running,
                   link' \in (IF pads[q].connected THEN Drop(pads[q].handle) ELSE {link}),
                   \A x \in Pads \ {q} : pads'[x] = pads[x]
            PROVE  link'[c] = "up" /\ pads'[p] = pads[p]
        <5>1. q # p BY <4>2
        <5>2. pads[q].handle # c BY <2>1, <5>1 DEF OneSlot
        <5> QED BY <2>1, <4>2, <5>1, <5>2 DEF Drop, BtTypes
      <4> QED BY <2>1, <3>2, <3>8, <4>1, <4>2, TakenTypes
    <3> QED BY <2>7, <3>4, <3>5, <3>6, <3>7, <3>8 DEF HciEvent
  <2>8. ASSUME NEW d \in Ctrls, L2capEvent(d)
        PROVE  link'[c] = "up" /\ pads'[p].running /\ pads'[p].handle = c /\ pads'[p].addr = c
    <3>1. Heard(d) /\ UNCHANGED link BY <2>1, <2>8, L2capTypes
    <3> QED BY <3>1 DEF Heard
  <2>9. CASE (\E q \in Pads : GetStatus(q)) \/ GetData \/ UNCHANGED vars
    BY <2>9 DEF GetStatus, GetData, vars
  <2> QED BY <1>1, <2>4, <2>5, <2>6, <2>7, <2>8, <2>9 DEF Next
<1>2. BtInv /\ [Next]_vars => [~ L2capError => KeepsPlayer]_vars BY <1>1
<1> QED BY <1>2, BtKept, PTL DEF Spec, PlayerKeepsThePad, KeepsPlayer

-----------------------------------------------------------------------------
(* Controllers: the wired ones                                             *)

UsbTypes ==
  /\ plug \in {"out", "in", "held", "refused"} /\ config \in {"none", "due", "init", "led"}
  /\ sema \in {0, 1} /\ alarms \in 0 .. 2 /\ transfers \in 0 .. MaxTransfers
  /\ buf \in {"zero", "command", "report", "old"} /\ result \in {0, 1}
  /\ data \in {"neutral", "command", "report", "old"}
  /\ rpc \in {"idle", "lock", "status", "data", "send", "wait", "read", "copy"}

UsbFlags == devId \in BOOLEAN /\ running \in BOOLEAN

(* A slot that does not run has no device, or one that is being set up.  Then *)
(* at most one report is asked for, by a call that asked for the status when  *)
(* another controller ran, and once it came nothing is asked for; so that the *)
(* commands are not taken for a report after one was read, nor while the slot *)
(* runs.                                                                      *)
Unused == rpc \notin {"data", "send"}
InTurn ==
  /\ config # "none" => devId /\ ~ running
  /\ ~ devId => ~ running /\ transfers = 0 /\ buf # "report" /\ data # "report"
  /\ ~ running =>
       /\ transfers \in {0, 1}
       /\ transfers = 1 => Unused /\ buf # "report" /\ data # "report"
       /\ buf = "report" => Unused
       /\ data = "report" => Unused /\ result = 1
  /\ data = "report" /\ result = 0 => buf = "report"

(* The semaphore is only away from who waits for it while somebody is about *)
(* to give it back: the callback that sleeps, or an alarm.                  *)
Owned ==
  /\ rpc \in {"idle", "lock", "data"} /\ sema = 0 => config \in {"init", "led"}
  /\ rpc = "wait" /\ sema = 0 => config \in {"init", "led"} \/ alarms > 0

UsbInv == UsbTypes /\ UsbFlags /\ InTurn /\ Owned

LEMMA UsbDriverKeeps == UsbInv /\ Driver => UsbInv'
<1> SUFFICES ASSUME UsbInv, Driver PROVE UsbInv' OBVIOUS
<1> USE DEF UsbInv
<1>1. UsbTypes'
  BY TransfersAssumption DEF TransfersAssumption, UsbTypes, Driver, PlugIn, UsbConnect, PlugOut, Release,
     Signal, Configured, LedSent, UsbSetUp, DataCb, Timeout
<1>2. UsbFlags'
  BY Zenon DEF UsbFlags, Driver, PlugIn, UsbConnect, PlugOut, Release, Configured, LedSent, UsbSetUp,
     DataCb, Timeout
<1>3. InTurn'
  <2>1. CASE PlugIn \/ Timeout BY <2>1 DEF PlugIn, Timeout, InTurn, Unused
  <2>2. CASE UsbConnect BY <2>2 DEF UsbConnect, Release, InTurn, Unused
  <2>3. CASE PlugOut BY <2>3 DEF PlugOut, Release, InTurn, Unused
  <2>4. CASE Configured \/ LedSent BY <2>4 DEF Configured, LedSent, InTurn, Unused
  <2>5. CASE UsbSetUp BY <2>5 DEF UsbSetUp, InTurn, Unused
  <2>6. CASE DataCb
    <3>1. transfers' = transfers - 1 /\ transfers \in Nat
      BY <2>6, TransfersAssumption DEF TransfersAssumption, DataCb, UsbTypes
    <3>2. UNCHANGED <<devId, running, config, rpc, data>> BY <2>6 DEF DataCb
    <3>3. (buf' = "report" /\ result' = 0) \/ (buf' = buf /\ result' = 1) BY <2>6 DEF DataCb
    <3>4. transfers > 0 BY <2>6 DEF DataCb
    <3> QED BY <3>1, <3>2, <3>3, <3>4 DEF InTurn, Unused
  <2> QED BY <2>1, <2>2, <2>3, <2>4, <2>5, <2>6 DEF Driver
<1>4. Owned'
  BY DEF UsbTypes, Owned, Driver, PlugIn, UsbConnect, PlugOut, Release, Signal, Configured, LedSent,
     UsbSetUp, DataCb, Timeout
<1> QED BY <1>1, <1>2, <1>3, <1>4

LEMMA UsbServerKeeps == UsbInv /\ (UsbGetStatus \/ Server) => UsbInv'
<1> SUFFICES ASSUME UsbInv, UsbGetStatus \/ Server PROVE UsbInv' OBVIOUS
<1> USE DEF UsbInv
<1>1. UsbTypes'
  BY TransfersAssumption DEF TransfersAssumption, UsbTypes, Server, UsbGetStatus, Status, StatusDone,
     UsbGetData, Send, TransferWait, ReadData, Copy, Taken, WaitSema, Signal
<1>2. UNCHANGED <<devId, running, config, buf>>
  BY DEF Server, UsbGetStatus, Status, StatusDone, UsbGetData, Send, TransferWait, ReadData, Copy
<1>3. UsbFlags' BY <1>2 DEF UsbFlags
<1>4. InTurn'
  <2>1. CASE UsbGetStatus \/ Status \/ StatusDone \/ UsbGetData \/ TransferWait \/ Copy
    BY <1>2, <2>1 DEF UsbGetStatus, Status, StatusDone, UsbGetData, TransferWait, Copy, InTurn, Unused
  <2>2. CASE Send
    <3>1. transfers \in Nat BY TransfersAssumption DEF TransfersAssumption, UsbTypes
    <3>2. rpc = "send" /\ Unused' /\ UNCHANGED <<data, result>> BY <2>2 DEF Send, Unused
    <3>3. UNCHANGED transfers \/ (devId /\ transfers' = transfers + 1) BY <2>2 DEF Send
    <3> QED BY <1>2, <3>1, <3>2, <3>3 DEF InTurn, Unused
  <2>3. CASE ReadData
    <3>1. result' = 1 /\ Unused' /\ UNCHANGED transfers BY <2>3 DEF ReadData, Unused
    <3>2. data' = "report" => data = "report" \/ buf = "report" BY <2>3 DEF ReadData
    <3> QED BY <1>2, <3>1, <3>2 DEF InTurn, Unused
  <2> QED BY <2>1, <2>2, <2>3 DEF Server
<1>5. Owned'
  BY DEF UsbTypes, Owned, Server, UsbGetStatus, Status, StatusDone, UsbGetData, Send,
     TransferWait, ReadData, Copy, WaitSema, Signal
<1> QED BY <1>1, <1>3, <1>4, <1>5

LEMMA UsbKeeps == UsbInv /\ [NextAll]_allVars => UsbInv'
<1> SUFFICES ASSUME UsbInv, [NextAll]_allVars PROVE UsbInv' OBVIOUS
<1>1. CASE UNCHANGED usbVars
  BY <1>1 DEF usbVars, UsbInv, UsbTypes, UsbFlags, InTurn, Unused, Owned
<1>2. CASE ServerUp \/ Bind \/ ReinitPad \/ PadMain \/ PortChanges
  BY <1>1, <1>2 DEF ServerUp, Bind, ReinitPad, PadMain, PortChanges
<1>3. CASE GetPad BY <1>3, UsbServerKeeps DEF GetPad
<1>4. CASE Server \/ Driver BY <1>4, UsbServerKeeps, UsbDriverKeeps
<1>5. CASE UNCHANGED allVars BY <1>1, <1>5 DEF allVars
<1> QED BY <1>2, <1>3, <1>4, <1>5 DEF NextAll

LEMMA UsbKept == SpecAll => []UsbInv
<1>1. InitAll => UsbInv
  <2>1. InitAll => UsbFlags /\ ~ running BY Zenon DEF InitAll, UsbInit, UsbFlags
  <2>2. InitAll => UsbTypes BY TransfersAssumption DEF TransfersAssumption, InitAll, UsbInit, UsbTypes
  <2>3. InitAll => Owned BY DEF InitAll, UsbInit, Owned
  <2>4. InitAll => config = "none" /\ transfers = 0 /\ buf = "zero" /\ data = "neutral"
    BY DEF InitAll, UsbInit
  <2> QED BY <2>1, <2>2, <2>3, <2>4 DEF UsbInv, InTurn
<1> QED BY <1>1, UsbKeeps, PTL DEF SpecAll

\* usb_buf carries the commands of a controller that is being set up and the reports of the
\* one that runs, usb_resulCode is that of any transfer, and the wait for a report may end by
\* an alarm: all the same, once a controller's report was read, a DualShock 3 or a DualShock 4,
\* ds34usb_get_data tells the menu nothing but its reports until usb_release lets it go.
THEOREM ReportsAreItsOwn == SpecAll => OnlyItsReportsAreTold
<1> DEFINE ToldOn == data = "report" /\ running' => data' = "report"
<1>1. UsbInv /\ [NextAll]_allVars => [ToldOn]_usbVars
  <2> SUFFICES ASSUME UsbInv, [NextAll]_allVars, data = "report", running', ~ UNCHANGED usbVars
      PROVE  data' = "report"
    OBVIOUS
  <2>1. GetPad \/ Server \/ Driver
    BY DEF NextAll, allVars, ServerUp, Bind, ReinitPad, PadMain, PortChanges
  <2>2. CASE GetPad \/ Server
    <3>1. CASE ReadData
      <4>1. Taken => buf = "report" BY DEF UsbInv, InTurn, Taken
      <4> QED BY <3>1, <4>1 DEF ReadData
    <3>2. CASE ~ ReadData
      BY <2>2, <3>2 DEF GetPad, UsbGetStatus, Server, Status, StatusDone, UsbGetData, Send, TransferWait, Copy
    <3> QED BY <3>1, <3>2
  <2>3. CASE Driver
    <3>1. UNCHANGED data \/ Release
      BY <2>3 DEF Driver, PlugIn, UsbConnect, PlugOut, Configured, LedSent, UsbSetUp, DataCb, Timeout
    <3>2. ~ Release BY DEF Release
    <3> QED BY <3>1, <3>2
  <2> QED BY <2>1, <2>2, <2>3
<1>2. SpecAll => [][ToldOn]_usbVars BY <1>1, UsbKept, PTL DEF SpecAll
<1> QED BY <1>2 DEF OnlyItsReportsAreTold

\* TransferWait, WaitSema in ds34usb_get_status and ds34usb_get_data: a call that waits for
\* the slot's semaphore is not forgotten.  It is free, or usb_config_set sleeps and will give
\* it back, or, in the wait for a report, an alarm is set that nobody ever cancels.
NobodyIsStranded ==
  rpc \in {"lock", "data", "wait"} /\ sema = 0 =>
    config \in {"init", "led"} \/ (rpc = "wait" /\ alarms > 0)

\* The wired slot never strands the menu's call, for either controller and any number of
\* transfers that are not answered (ds34usb.c:471-482, 530-556, 657-669).
THEOREM UsbWaitersAreSignalled == SpecAll => [](UsbTypeOK /\ NobodyIsStranded)
<1>1. UsbInv => UsbTypeOK BY DEF UsbInv, UsbTypes, UsbFlags, UsbTypeOK
<1>2. UsbInv => NobodyIsStranded BY DEF UsbInv, Owned, NobodyIsStranded
<1> QED BY <1>1, <1>2, UsbKept, PTL

(* initializePad's waits in their order, and what is done between them: how *)
(* many of these stages are to come.                                        *)
PadLeft ==
  CASE at \in {"boot", "reopen"} -> 13
    [] at = "wait" -> 14 - 2 * wait
    [] at = "step" -> 13 - 2 * wait
    [] OTHER -> 0

PadInv ==
  /\ port \in {"none", "error", "busy", "digital", "dual"}
  /\ at \in {"boot", "reopen", "wait", "step", "menu"} /\ wait \in 0 .. 6 /\ ticks \in 0 .. MaxTicks
  /\ at \in {"wait", "step"} => wait \in 1 .. 6

LEMMA PadMoves ==
  ASSUME PadInv, PadMain
  PROVE  PadInv' /\ (PadLeft' < PadLeft \/ (PadLeft' = PadLeft /\ ticks < ticks'))
<1> USE DEF PadInv
<1>1. PadMain => Pad!OpenPort \/ Pad!WaitPadReady \/ Pad!InitializePad BY DEF PadMain, Pad!Main
<1>2. MaxTicks \in Nat BY BoundsAssumption DEF BoundsAssumption
<1>3. CASE Pad!OpenPort BY <1>2, <1>3 DEF Pad!OpenPort, PadLeft
<1>4. CASE Pad!WaitPadReady BY <1>2, <1>4 DEF Pad!WaitPadReady, Pad!GiveUp, Pad!Stable, PadLeft
<1>5. CASE Pad!InitializePad
  <2>1. PadInv' BY <1>2, <1>5 DEF Pad!InitializePad, Pad!GiveUp
  <2>2. PadLeft' < PadLeft BY <1>5 DEF Pad!InitializePad, Pad!GiveUp, PadLeft
  <2> QED BY <2>1, <2>2
<1> QED BY <1>1, <1>3, <1>4, <1>5

LEMMA PadRests ==
  ASSUME PadInv, [NextAll]_allVars, ~ PadMain
  PROVE  PadInv' /\ (at # "menu" => UNCHANGED <<at, wait, ticks>>)
<1> USE DEF PadInv
<1>1. CASE UNCHANGED padVars BY <1>1 DEF padVars
<1>2. CASE ServerUp \/ Bind \/ GetPad
              \/ ((Server \/ ("usb" \in stayed /\ Driver)) /\ UNCHANGED <<padVars, stayed, servers, bound>>)
  BY <1>1, <1>2 DEF ServerUp, Bind, GetPad
<1>3. CASE ReinitPad BY <1>3 DEF ReinitPad, Pad!Reinit
<1>4. CASE PortChanges BY <1>4 DEF PortChanges, Pad!PortChanges
<1>5. CASE UNCHANGED allVars BY <1>1, <1>5 DEF allVars
<1> QED BY <1>2, <1>3, <1>4, <1>5 DEF NextAll

\* waitPadReady and initializePad: outside the menu every step of the main thread brings the
\* setting up nearer to its end, by a stage or by a tick of a wait that has MaxTicks of them,
\* and nothing that happens to the port meanwhile takes it back.
SetupRunsOut ==
  at # "menu" =>
    /\ PadLeft' < PadLeft \/ (PadLeft' = PadLeft /\ ticks <= ticks')
    /\ PadMain => PadLeft' < PadLeft \/ ticks < ticks'

\* An empty port, or one that is never ready, holds up neither the boot nor a rebuild: the
\* stages left, and the ticks of each wait, are numbers with an end (pad.cpp, waitPadReady).
THEOREM SetupsRunOut ==
  SpecAll => /\ [](PadLeft \in 0 .. 13 /\ (PadLeft = 0 <=> at = "menu") /\ ticks <= MaxTicks)
             /\ [][SetupRunsOut]_allVars
<1>1. InitAll => PadInv
  BY BoundsAssumption DEF BoundsAssumption, InitAll, Pad!Init, PadInv
<1>2. PadInv /\ [NextAll]_allVars => PadInv'
  BY PadMoves, PadRests
<1>3. PadInv /\ [NextAll]_allVars => [SetupRunsOut]_allVars
  <2> SUFFICES ASSUME PadInv, [NextAll]_allVars PROVE SetupRunsOut OBVIOUS
  <2>1. CASE PadMain
    <3>1. PadInv' BY <2>1, PadMoves
    <3>2. MaxTicks \in Nat BY BoundsAssumption DEF BoundsAssumption
    <3>3. ticks \in Nat /\ ticks' \in Nat BY <3>1, <3>2 DEF PadInv
    <3>4. ticks < ticks' => ticks <= ticks' BY <3>3
    <3> QED BY <2>1, <3>4, PadMoves DEF SetupRunsOut
  <2>2. CASE ~ PadMain
    <3>1. at # "menu" => PadLeft' = PadLeft /\ ticks' = ticks BY <2>2, PadRests DEF PadLeft
    <3>2. ticks <= ticks BY BoundsAssumption DEF BoundsAssumption, PadInv
    <3> QED BY <2>2, <3>1, <3>2 DEF SetupRunsOut
  <2> QED BY <2>1, <2>2
<1>4. PadInv => PadLeft \in 0 .. 13 /\ (PadLeft = 0 <=> at = "menu") /\ ticks <= MaxTicks
  BY BoundsAssumption DEF BoundsAssumption, PadInv, PadLeft
<1> QED BY <1>1, <1>2, <1>3, <1>4, PTL DEF SpecAll
=============================================================================
