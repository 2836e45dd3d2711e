------------------------------ MODULE NetStack ------------------------------
(***************************************************************************)
(* The two network stacks of POPSLoader: SMB over netman and ps2ip, and    *)
(* UDPFS over its own ministack (src/src/luasystem.cpp), with the scenes   *)
(* of the menu that start, refresh and leave them (ui.lua, system.lua).    *)
(* Both drive the one network chip, no module is ever unloaded, and any    *)
(* load, link, lease or server answer may fail.                            *)
(*                                                                         *)
(* An IRX load ends in one of three ways: it fails, the module stays, or   *)
(* it returns 1 without staying, which the loader takes for success.       *)
(***************************************************************************)
EXTENDS Naturals, Sequences

CONSTANTS
  Addresses,   \* static addresses of the console that can be configured
  NoAddress,
  MaxTries,    \* bound: passes of SmbWaitNetState, 30 in the code
  MaxRounds    \* bound: share choices in one connection, 3 in the code

ASSUME NetAssumption ==
  /\ NoAddress \notin Addresses
  /\ MaxTries \in Nat \ {0} /\ MaxRounds \in Nat

SmbChain   == <<"dev9", "netman", "SMSUTILS", "smap", "ps2ip", "ps2ips", "rpc", "smbman">>
UdpfsChain == <<"dev9", "udpfs_smap", "ministack", "udpfs_ioman">>
Modules == {SmbChain[i] : i \in 1 .. 8} \union {UdpfsChain[i] : i \in 1 .. 4}

VARIABLES
  loads,       \* how often each module's start was run and taken for a success: 0, 1 or 2
  latched,     \* g_dev9_loaded, net_irx_loaded, smb_irx_loaded, net_stack_attempted,
               \* net_nic_claimed, udpfs_nic_claimed, udpfs_ioman_loaded
  stackIp,     \* the address the ministack was started with
  cfg,         \* PLDR.SMB, as far as it matters here
  linkMode,    \* the link mode SmbApplyLinkMode last set
  session,     \* the SMB session on smb0:
  scene,       \* UI.CURSCENE
  transport,   \* UI.NET_TRANSPORT
  back,        \* UI.SettingsReturnScene
  pc,
  at,          \* next module of the chain, or tries left
  entering,    \* the connection comes from the menu, not from a refresh
  rounds,
  ok           \* what the last connection came to

modules == <<loads, latched, stackIp>>
menu == <<cfg, scene, transport, back>>
flow == <<pc, at, entering, rounds, ok>>
vars == <<modules, menu, flow, linkMode, session>>

Latches == {"dev9", "net", "smb", "attempted", "smap", "udpfs_smap", "udpfs"}
Configs == [ip : Addresses \union {NoAddress}, dhcp : BOOLEAN, share : BOOLEAN, mode : {"auto", "fixed"}]
Busy == {"smb", "link", "mode", "relink", "address", "lease", "logon", "echo", "share", "udpfs"}

(* main() has tried dev9 once before the menu.                              *)
Booted == {{}, {"dev9"}}

TypeOK ==
  /\ loads \in [Modules -> 0 .. 2] /\ latched \in SUBSET Latches
  /\ stackIp \in Addresses \union {NoAddress} /\ cfg \in Configs
  /\ linkMode \in {"auto", "fixed"} /\ session \in {"none", "logged", "open"}
  /\ scene \in {"main", "list", "settings"} /\ transport \in {"none", "SMB", "UDPFS"}
  /\ back \in {"main", "list"} /\ pc \in Busy \union {"menu", "pick"}
  /\ at \in 0 .. 8 + MaxTries /\ entering \in BOOLEAN /\ rounds \in 0 .. MaxRounds
  /\ ok \in BOOLEAN

Init ==
  /\ loads = [m \in Modules |-> 0]
  /\ latched \in Booted
  /\ stackIp = NoAddress
  /\ cfg \in Configs
  /\ linkMode = "auto"
  /\ session = "none"
  /\ scene = "main" /\ transport = "none" /\ back = "main"
  /\ pc = "menu" /\ at = 0 /\ entering = TRUE /\ rounds = 0 /\ ok = FALSE

-----------------------------------------------------------------------------
(* What the C side answers, from its latches alone.                        *)

UdpfsState ==
  CASE "udpfs" \in latched -> "ready"
    [] "udpfs" \notin latched /\ "udpfs_smap" \in latched -> "partial"
    [] latched \intersect {"udpfs", "udpfs_smap"} = {} /\ latched \intersect {"attempted", "smap", "net"} # {} -> "smb"
    [] OTHER -> "idle"

Goto(l, n) == pc' = l /\ at' = n

Loaded(m) == loads' = [loads EXCEPT ![m] = IF @ < 2 THEN @ + 1 ELSE @]

(* The session as disconnectSMB leaves it: it does nothing before smbman.   *)
Disconnected == IF "smb" \in latched THEN "none" ELSE session

(* InitSMBPopsRoot gives up: only a failed connectSMB is followed by        *)
(* disconnectSMB.                                                           *)
GiveUp == Goto("menu", 0) /\ UNCHANGED <<session, entering, rounds, ok>>
GiveUpLoggedOff_StaysOn == GiveUp

GiveUpLoggedOff ==
  /\ Goto("menu", 0)
  /\ session' = Disconnected
  /\ UNCHANGED <<entering, rounds, ok>>

-----------------------------------------------------------------------------
(* The network tile and the list's refresh.                                *)

(* RunNetworkModePicker, SMBv1.                                             *)
OpenSmb ==
  /\ pc = "menu" /\ scene = "main"
  /\ UdpfsState \notin {"ready", "partial"}
  /\ Goto("smb", 0) /\ entering' = TRUE /\ rounds' = 0 /\ ok' = FALSE
  /\ UNCHANGED <<modules, menu, linkMode, session>>

(* RunUdpfsConnectFlow: PLDR.UdpfsStaticIp wants a static address.           *)
OpenUdpfs ==
  /\ pc = "menu" /\ scene = "main"
  /\ UdpfsState \notin {"smb", "partial"}
  /\ ~cfg.dhcp /\ cfg.ip # NoAddress
  /\ Goto("udpfs", 0) /\ entering' = TRUE /\ rounds' = 0 /\ ok' = FALSE
  /\ UNCHANGED <<modules, menu, linkMode, session>>

(* R1 on the network list.                                                  *)
RefreshSmb ==
  /\ pc = "menu" /\ scene = "list" /\ transport # "UDPFS"
  /\ session' = Disconnected
  /\ Goto("smb", 0) /\ entering' = FALSE /\ rounds' = 0 /\ ok' = FALSE
  /\ UNCHANGED <<modules, menu, linkMode>>

RefreshUdpfs ==
  /\ pc = "menu" /\ scene = "list" /\ transport = "UDPFS"
  /\ ~cfg.dhcp /\ cfg.ip # NoAddress
  /\ Goto("udpfs", 0) /\ entering' = FALSE /\ rounds' = 0 /\ ok' = FALSE
  /\ UNCHANGED <<modules, menu, linkMode, session>>

-----------------------------------------------------------------------------
(* EnsureSMB and EnsureNet.                                                *)

(* EnsureDev9 is shared with the drives, and is latched.                    *)
FirstLoad == IF "dev9" \in latched THEN 2 ELSE 1

EnsureNetStart ==
  /\ pc = "smb" /\ at = 0
  /\ IF "udpfs_smap" \in latched THEN GiveUp /\ UNCHANGED modules
     ELSE IF "smb" \in latched THEN Goto("link", MaxTries) /\ UNCHANGED <<modules, session, entering, rounds, ok>>
     ELSE IF "net" \in latched THEN Goto("smb", 8) /\ UNCHANGED <<modules, session, entering, rounds, ok>>
     ELSE /\ latched' = latched \union {"attempted"}
          /\ Goto("smb", FirstLoad)
          /\ UNCHANGED <<loads, stackIp, session, entering, rounds, ok>>
  /\ UNCHANGED <<menu, linkMode>>

(* The latch a module of the SMB chain sets when it has loaded.              *)
LatchOf(m) == CASE m = "dev9" -> {"dev9"} [] m = "smap" -> {"smap"} [] m = "rpc" -> {"net"} [] m = "smbman" -> {"smb"} [] OTHER -> {}

LoadSmb ==
  /\ pc = "smb" /\ at \in 1 .. 8
  /\ \/ GiveUp /\ UNCHANGED modules
     \/ /\ Loaded(SmbChain[at])
        /\ latched' = latched \union LatchOf(SmbChain[at])
        /\ IF at = 8 THEN Goto("link", MaxTries) ELSE Goto("smb", at + 1)
        /\ UNCHANGED <<stackIp, session, entering, rounds, ok>>
  /\ UNCHANGED <<menu, linkMode>>

-----------------------------------------------------------------------------
(* smbNetUp.                                                               *)

Wait_Forever(l, next) ==
  /\ pc = l
  /\ \/ next
     \/ Goto(l, IF at > 1 THEN at - 1 ELSE MaxTries) /\ UNCHANGED <<session, entering, rounds, ok>>
  /\ UNCHANGED <<modules, menu, linkMode>>

(* SmbWaitNetState: the check holds, fails once more, or for the last time. *)
Wait(l, next) ==
  /\ pc = l
  /\ \/ next
     \/ at > 1 /\ Goto(l, at - 1) /\ UNCHANGED <<session, entering, rounds, ok>>
     \/ at = 1 /\ GiveUp
  /\ UNCHANGED <<modules, menu, linkMode>>

On(l) == Goto(l, MaxTries) /\ UNCHANGED <<session, entering, rounds, ok>>

LinkUp == Wait("link", On("mode"))
Relink == Wait("relink", On("address"))
Lease  == Wait("lease", On("logon"))

(* SmbApplyLinkMode: a mode that is set already is not set again.           *)
LinkModeSet ==
  /\ pc = "mode"
  /\ linkMode' = cfg.mode
  /\ Goto("relink", MaxTries)
  /\ UNCHANGED <<modules, menu, session, entering, rounds, ok>>

LinkModeRefused ==
  /\ pc = "mode" /\ linkMode # cfg.mode
  /\ Goto("link", MaxTries)
  /\ UNCHANGED <<modules, menu, linkMode, session, entering, rounds, ok>>

ApplyIPConfig ==
  /\ pc = "address"
  /\ \/ GiveUp
     \/ IF cfg.dhcp THEN On("lease") ELSE On("logon")
  /\ UNCHANGED <<modules, menu, linkMode>>

-----------------------------------------------------------------------------
(* connectSMB.                                                             *)

(* NetBIOS addressing and a refused log-on alike.                           *)
LogonFails ==
  /\ pc = "logon"
  /\ GiveUpLoggedOff
  /\ UNCHANGED <<modules, menu, linkMode>>

Logon ==
  /\ pc = "logon"
  /\ session' = "logged"
  /\ Goto("echo", 0)
  /\ UNCHANGED <<modules, menu, linkMode, entering, rounds, ok>>

Echo ==
  /\ pc = "echo"
  /\ \/ GiveUpLoggedOff
     \/ Goto("share", 0) /\ UNCHANGED <<session, entering, rounds, ok>>
  /\ UNCHANGED <<modules, menu, linkMode>>

(* NO_SHARE: the shares found are offered when the menu asked to connect.   *)
NoShare ==
  /\ pc = "share" /\ ~cfg.share
  /\ session' = Disconnected
  /\ \/ Goto("menu", 0)
     \/ entering /\ rounds < MaxRounds /\ Goto("pick", 0)
  /\ UNCHANGED <<modules, menu, linkMode, entering, rounds, ok>>

OpenShare ==
  /\ pc = "share" /\ cfg.share
  /\ \/ GiveUpLoggedOff /\ UNCHANGED <<transport, scene>>
     \/ /\ session' = "open" /\ ok' = TRUE
        /\ Goto("menu", 0)
        /\ IF entering THEN transport' = "SMB" /\ scene' = "list" ELSE UNCHANGED <<transport, scene>>
        /\ UNCHANGED <<entering, rounds>>
  /\ UNCHANGED <<modules, linkMode, cfg, back>>

(* RunSharePicker: a share is taken, saved and tried, or none is.           *)
PickShare ==
  /\ pc = "pick"
  /\ \/ /\ cfg' = [cfg EXCEPT !.share = TRUE]
        /\ rounds' = rounds + 1
        /\ Goto("smb", 0)
     \/ Goto("menu", 0) /\ UNCHANGED <<cfg, rounds>>
  /\ UNCHANGED <<modules, linkMode, session, scene, transport, back, entering, ok>>

-----------------------------------------------------------------------------
(* initUDPFS.                                                              *)

UdpfsRefused == Goto("menu", 0) /\ UNCHANGED <<transport, scene, ok>>

UdpfsShown ==
  /\ Goto("menu", 0) /\ ok' = TRUE
  /\ IF entering THEN transport' = "UDPFS" /\ scene' = "list" ELSE UNCHANGED <<transport, scene>>

InitUdpfsStart_AnyIp ==
  /\ pc = "udpfs" /\ at = 0
  /\ IF "udpfs" \in latched THEN UdpfsShown
     ELSE IF latched \ {"dev9"} # {} THEN UdpfsRefused
     ELSE Goto("udpfs", FirstLoad) /\ UNCHANGED <<transport, scene, ok>>
  /\ UNCHANGED <<modules, linkMode, session, cfg, back, entering, rounds>>

InitUdpfsStart ==
  /\ pc = "udpfs" /\ at = 0
  /\ IF latched \intersect {"attempted", "smap", "net", "smb"} # {}
     THEN UdpfsRefused     \* NIC_BUSY_SMB
     ELSE IF "udpfs" \in latched
     THEN IF stackIp = cfg.ip THEN UdpfsShown
          ELSE UdpfsRefused \* UDPFS_IP_CHANGED_RESTART
     ELSE IF "udpfs_smap" \in latched
     THEN UdpfsRefused     \* NIC_PARTIAL_RESET
     ELSE Goto("udpfs", FirstLoad) /\ UNCHANGED <<transport, scene, ok>>
  /\ UNCHANGED <<modules, linkMode, session, cfg, back, entering, rounds>>

UdpfsLatchOf_Late(m) ==
  CASE m = "dev9" -> {"dev9"} [] m = "udpfs_ioman" -> {"udpfs", "udpfs_smap"} [] OTHER -> {}

(* The network chip is claimed as soon as the ministack's smap has loaded.   *)
UdpfsLatchOf(m) == CASE m = "dev9" -> {"dev9"} [] m = "udpfs_smap" -> {"udpfs_smap"} [] m = "udpfs_ioman" -> {"udpfs"} [] OTHER -> {}

LoadUdpfs ==
  /\ pc = "udpfs" /\ at \in 1 .. 4
  /\ \/ UdpfsRefused /\ UNCHANGED modules
     \/ /\ Loaded(UdpfsChain[at])
        /\ latched' = latched \union UdpfsLatchOf(UdpfsChain[at])
        /\ stackIp' = IF UdpfsChain[at] = "ministack" THEN cfg.ip ELSE stackIp
        /\ IF at = 4 THEN UdpfsShown ELSE Goto("udpfs", at + 1) /\ UNCHANGED <<transport, scene, ok>>
  /\ UNCHANGED <<linkMode, session, cfg, back, entering, rounds>>

-----------------------------------------------------------------------------
(* The scenes.                                                             *)

(* BACK on the network list.                                                *)
LeaveList ==
  /\ pc = "menu" /\ scene = "list"
  /\ session' = IF transport = "UDPFS" THEN session ELSE Disconnected
  /\ scene' = "main"
  /\ UNCHANGED <<modules, flow, linkMode, cfg, transport, back>>

OpenSettings ==
  /\ pc = "menu" /\ scene \in {"main", "list"}
  /\ back' = scene
  /\ scene' = "settings"
  /\ UNCHANGED <<modules, flow, linkMode, session, cfg, transport>>

(* BACK: discarded, or saved and back to where Settings was opened.         *)
CloseSettings ==
  /\ pc = "menu" /\ scene = "settings"
  /\ scene' = back
  /\ cfg' \in Configs
  /\ UNCHANGED <<modules, flow, linkMode, session, transport, back>>

(* START, Save Changes: to the main menu, wherever Settings was opened.     *)
SaveToMenu ==
  /\ pc = "menu" /\ scene = "settings"
  /\ scene' = "main"
  /\ cfg' \in Configs
  /\ UNCHANGED <<modules, flow, linkMode, session, transport, back>>

(* The IOP is reset: the program starts again.                              *)
Restart ==
  /\ pc = "menu" /\ latched # {}
  /\ loads' = [m \in Modules |-> 0]
  /\ latched' \in Booted
  /\ stackIp' = NoAddress /\ linkMode' = "auto" /\ session' = "none"
  /\ scene' = "main" /\ transport' = "none" /\ back' = "main"
  /\ at' = 0 /\ entering' = TRUE /\ rounds' = 0 /\ ok' = FALSE
  /\ UNCHANGED <<cfg, pc>>

Loads   == EnsureNetStart \/ LoadSmb \/ InitUdpfsStart \/ LoadUdpfs
NetUp   == LinkUp \/ LinkModeSet \/ LinkModeRefused \/ Relink \/ ApplyIPConfig \/ Lease
Connect == LogonFails \/ Logon \/ Echo \/ NoShare \/ OpenShare
Scenes  == OpenSmb \/ OpenUdpfs \/ RefreshSmb \/ RefreshUdpfs \/ PickShare
             \/ LeaveList \/ OpenSettings \/ CloseSettings \/ SaveToMenu \/ Restart

Next == Loads \/ NetUp \/ Connect \/ Scenes

(* The one EE thread runs on.  Nothing says that the driver ever takes the   *)
(* link mode it is asked for.                                               *)
Fairness == WF_vars(Loads \/ NetUp \/ Connect)

Spec == Init /\ [][Next]_vars /\ Fairness

-----------------------------------------------------------------------------
(* The chip is driven by one stack, started once: when a smap of one kind  *)
(* has loaded the other kind never does, and the ministack's modules are     *)
(* not loaded again before a reset, a chain that stopped half way included   *)
(* (EnsureNet, lua_udpfs_init; "its UDP socket is load-once").               *)
OneStackOnTheChip ==
  /\ ~ (loads["smap"] > 0 /\ loads["udpfs_smap"] > 0)
  /\ \A m \in {"udpfs_smap", "ministack", "udpfs_ioman"} : loads[m] <= 1

(* Whatever failed, no connection leaves a session that is logged on        *)
(* without a share behind it (InitSMBPopsRoot).                             *)
NoHalfOpenSession == pc \in {"menu", "pick"} => session # "logged"

(* A list that is opened or read again is served by a connection that fits  *)
(* it, whatever happened since the last time: a UDPFS list by a stack with   *)
(* the address that is configured now, not the one it was started with       *)
(* before Settings changed it (udpfs_initialized_ip), and the refresh of an  *)
(* SMB list by a log-on that is not over its earlier session (ui.lua:4092).  *)
ListsAreServedAfresh ==
  [][/\ pc = "udpfs" /\ ok' /\ ~ok => stackIp' = cfg.ip
     /\ pc = "logon" /\ session' = "logged" /\ ~entering => session = "none"]_vars

(* A connection attempt, however it fails, ends, but for the one loop of     *)
(* smbNetUp that has no bound: a driver that has a link and refuses its mode *)
(* every time keeps the menu for ever, and nothing else does.               *)
RefusedForEver == [](pc \in {"link", "mode"} /\ linkMode # cfg.mode)
ConnectEnds == pc \in Busy ~> pc \in {"menu", "pick"} \/ RefusedForEver
=============================================================================
