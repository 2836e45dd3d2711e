------------------------- MODULE UdpfsConfigProofs -------------------------
(***************************************************************************)
(* The network and the configuration files, proved for any addresses, any  *)
(* number of tries and rounds and any number of mishaps: one stack drives  *)
(* the chip, no session is left half open, lists are served by a           *)
(* connection that fits them, and no launch goes on with a torn file.      *)
(*                                                                         *)
(* The two parts follow one another, so the invariant has two: Network is  *)
(* kept by every step of NetStack and by dropping it, Configs by the steps *)
(* of a launch.                                                            *)
(***************************************************************************)
EXTENDS UdpfsConfig, TLAPS

Ministack == {"udpfs_smap", "ministack", "udpfs_ioman"}

\* The latches tell which modules were started, and only one stack ever has any.
Chip ==
  /\ loads["smap"] > 0 => "smap" \in latched
  /\ latched \cap {"smap", "net", "smb"} # {} => "attempted" \in latched
  /\ \A m \in Ministack : loads[m] <= 1 /\ (loads[m] > 0 => "udpfs_smap" \in latched)
  /\ ~ ("attempted" \in latched /\ "udpfs_smap" \in latched)

\* How far a chain has come: what lies ahead was not started, and nothing of the other stack.
InChain ==
  /\ pc = "smb" => at <= 8 /\ (at > 0 => "attempted" \in latched)
  /\ pc = "udpfs" =>
       /\ at <= 4
       /\ at > 0 => "attempted" \notin latched /\ loads["udpfs_ioman"] = 0
       /\ at \in 1 .. 3 => loads["ministack"] = 0
       /\ at \in 1 .. 2 => loads["udpfs_smap"] = 0
       /\ at > 2 => "udpfs_smap" \in latched
       /\ at = 4 => stackIp = cfg.ip

OverSmb == {"link", "mode", "relink", "address", "lease", "logon", "echo", "share"}

\* A session needs smbman; it is half open only while its connection is going on, and a refresh
\* begins without one.
Session ==
  /\ session = "logged" => pc \in {"echo", "share"}
  /\ session # "none" => "smb" \in latched
  /\ pc \in OverSmb => "smb" \in latched
  /\ ~entering /\ pc \in {"smb"} \cup (OverSmb \ {"echo", "share"}) => session = "none"
  /\ pc = "pick" => entering /\ rounds < MaxRounds

\* TypeOK in three parts: what a connection goes by, and what is kept between connections.
FlowType ==
  /\ pc \in Busy \union {"menu", "pick"} /\ at \in 0 .. 8 + MaxTries
  /\ rounds \in 0 .. MaxRounds
Flags == entering \in BOOLEAN /\ ok \in BOOLEAN
KeptType ==
  /\ loads \in [Modules -> 0 .. 2] /\ latched \in SUBSET Latches
  /\ stackIp \in Addresses \union {NoAddress} /\ cfg \in Configs
  /\ linkMode \in {"auto", "fixed"} /\ session \in {"none", "logged", "open"}
  /\ scene \in {"main", "list", "settings"} /\ transport \in {"none", "SMB", "UDPFS"}
  /\ back \in {"main", "list"}

Network == FlowType /\ Flags /\ KeptType /\ Chip /\ InChain /\ Session

-----------------------------------------------------------------------------
(* The two chains.                                                         *)

LEMMA ModulesAre ==
  /\ \A i \in 1 .. 8 : SmbChain[i] \in Modules /\ SmbChain[i] \notin Ministack
  /\ \A i \in 1 .. 4 : UdpfsChain[i] \in Modules /\ UdpfsChain[i] # "smap"
  /\ Ministack \subseteq Modules /\ "smap" \in Modules
<1>1. \A i \in 1 .. 8 : SmbChain[i] \in Modules /\ SmbChain[i] \notin Ministack
  BY DEF Modules, SmbChain, Ministack
<1>2. \A i \in 1 .. 4 : UdpfsChain[i] \in Modules /\ UdpfsChain[i] # "smap"
  BY DEF Modules, UdpfsChain
<1>3. SmbChain[4] = "smap" /\ UdpfsChain[2] = "udpfs_smap" /\ UdpfsChain[3] = "ministack" /\ UdpfsChain[4] = "udpfs_ioman"
  BY DEF SmbChain, UdpfsChain
<1> QED
  BY <1>1, <1>2, <1>3 DEF Ministack

\* What a module's load latches, and what it does to the counts.
LEMMA LatchOfModule ==
  /\ \A i \in 1 .. 8 :
       /\ LatchOf(SmbChain[i]) \subseteq {"dev9", "smap", "net", "smb"}
       /\ SmbChain[i] = "smap" => "smap" \in LatchOf(SmbChain[i])
  /\ "smb" \in LatchOf(SmbChain[8])
<1>1. \A m : LatchOf(m) \in {{"dev9"}, {"smap"}, {"net"}, {"smb"}, {}}
  BY DEF LatchOf
<1>2. LatchOf("smap") = {"smap"} /\ LatchOf("smbman") = {"smb"} /\ SmbChain[8] = "smbman"
  BY DEF LatchOf, SmbChain
<1> QED
  BY <1>1, <1>2

LEMMA LoadedEffect ==
  ASSUME NEW m \in Modules, loads \in [Modules -> 0 .. 2], Loaded(m)
  PROVE  /\ loads' \in [Modules -> 0 .. 2]
         /\ \A n \in Modules \ {m} : loads'[n] = loads[n]
         /\ loads[m] = 0 => loads'[m] = 1
BY DEF Loaded

LEMMA NetInit == Init => Network
<1> SUFFICES ASSUME Init PROVE Network
  OBVIOUS
<1>1. FlowType
  BY NetAssumption DEF NetAssumption, Init, FlowType, Busy
<1>2. KeptType
  BY DEF Init, KeptType, Booted, Latches
<1>3. Chip
  <2>1. \A m \in Ministack \union {"smap"} : loads[m] = 0
    BY ModulesAre DEF Init
  <2>2. latched \subseteq {"dev9"}
    BY DEF Init, Booted
  <2> QED
    BY <2>1, <2>2 DEF Chip, Ministack
<1>4. InChain
  BY DEF Init, InChain
<1>5. Session
  BY DEF Init, Session, OverSmb
<1>6. Flags
  BY DEF Init, Flags
<1> QED
  BY <1>1, <1>2, <1>3, <1>4, <1>5, <1>6 DEF Network

LEMMA OpenSmbStep == Network /\ OpenSmb => Network'
<1> SUFFICES ASSUME Network, OpenSmb PROVE Network'
  OBVIOUS
<1> USE DEF Network, OpenSmb, Goto, modules, menu, flow
<1>1. FlowType'
  BY NetAssumption DEF NetAssumption, FlowType, KeptType, Session, Busy
<1>2. KeptType'
  BY DEF KeptType, Configs, Latches
<1>3. Chip'
  BY DEF Chip, Ministack
<1>4. InChain'
  BY DEF Chip, KeptType, FlowType, InChain, Ministack
<1>5. Session'
  BY DEF KeptType, Chip, Session, OverSmb
<1>6. Flags'
  BY DEF Flags
<1> QED
  BY <1>1, <1>2, <1>3, <1>4, <1>5, <1>6

LEMMA OpenUdpfsStep == Network /\ OpenUdpfs => Network'
<1> SUFFICES ASSUME Network, OpenUdpfs PROVE Network'
  OBVIOUS
<1> USE DEF Network, OpenUdpfs, Goto, modules, menu, flow
<1>1. FlowType'
  BY NetAssumption DEF NetAssumption, FlowType, KeptType, Session, Busy
<1>2. KeptType'
  BY DEF KeptType, Configs, Latches
<1>3. Chip'
  BY DEF Chip, Ministack
<1>4. InChain'
  BY DEF Chip, KeptType, FlowType, InChain, Ministack
<1>5. Session'
  BY DEF KeptType, Chip, Session, OverSmb
<1>6. Flags'
  BY DEF Flags
<1> QED
  BY <1>1, <1>2, <1>3, <1>4, <1>5, <1>6

LEMMA RefreshSmbStep == Network /\ RefreshSmb => Network'
<1> SUFFICES ASSUME Network, RefreshSmb PROVE Network'
  OBVIOUS
<1> USE DEF Network, RefreshSmb, Goto, Disconnected, modules, menu, flow
<1>1. FlowType'
  BY NetAssumption DEF NetAssumption, FlowType, KeptType, Session, Busy
<1>2. KeptType'
  BY DEF KeptType, Configs, Latches
<1>3. Chip'
  BY DEF Chip, Ministack
<1>4. InChain'
  BY DEF Chip, KeptType, FlowType, InChain, Ministack
<1>5. Session'
  BY DEF KeptType, Chip, Session, OverSmb
<1>6. Flags'
  BY DEF Flags
<1> QED
  BY <1>1, <1>2, <1>3, <1>4, <1>5, <1>6

LEMMA RefreshUdpfsStep == Network /\ RefreshUdpfs => Network'
<1> SUFFICES ASSUME Network, RefreshUdpfs PROVE Network'
  OBVIOUS
<1> USE DEF Network, RefreshUdpfs, Goto, modules, menu, flow
<1>1. FlowType'
  BY NetAssumption DEF NetAssumption, FlowType, KeptType, Session, Busy
<1>2. KeptType'
  BY DEF KeptType, Configs, Latches
<1>3. Chip'
  BY DEF Chip, Ministack
<1>4. InChain'
  BY DEF Chip, KeptType, FlowType, InChain, Ministack
<1>5. Session'
  BY DEF KeptType, Chip, Session, OverSmb
<1>6. Flags'
  BY DEF Flags
<1> QED
  BY <1>1, <1>2, <1>3, <1>4, <1>5, <1>6

LEMMA EnsureNetStartStep == Network /\ EnsureNetStart => Network'
<1> SUFFICES ASSUME Network, EnsureNetStart PROVE Network'
  OBVIOUS
<1> USE DEF Network, EnsureNetStart, GiveUp, Goto, FirstLoad, modules, menu, flow
<1>1. FlowType'
  BY NetAssumption DEF NetAssumption, FlowType, KeptType, Session, Busy
<1>2. KeptType'
  <2>0. KeptType
    OBVIOUS
  <2>1. latched' \subseteq latched \union {"attempted"}
    OBVIOUS
  <2>2. UNCHANGED <<loads, stackIp, cfg, linkMode, scene, transport, back, session>>
    OBVIOUS
  <2> HIDE DEF Network, EnsureNetStart, GiveUp, Goto, FirstLoad, modules, menu, flow
  <2> QED
    BY <2>0, <2>1, <2>2 DEF KeptType, Latches
<1>3. Chip'
  BY DEF Chip, Ministack
<1>4. InChain'
  BY DEF Chip, KeptType, FlowType, InChain, Ministack
<1>5. Session'
  BY DEF KeptType, Chip, Session, OverSmb
<1>6. Flags'
  BY DEF Flags
<1> QED
  BY <1>1, <1>2, <1>3, <1>4, <1>5, <1>6

LEMMA LinkUpStep == Network /\ LinkUp => Network'
<1> SUFFICES ASSUME Network, LinkUp PROVE Network'
  OBVIOUS
<1> USE DEF Network, LinkUp, Wait, On, GiveUp, Goto, modules, menu, flow
<1>1. FlowType'
  BY NetAssumption DEF NetAssumption, FlowType, KeptType, Session, Busy
<1>2. KeptType'
  BY DEF KeptType, Configs, Latches
<1>3. Chip'
  BY DEF Chip, Ministack
<1>4. InChain'
  BY DEF Chip, KeptType, FlowType, InChain, Ministack
<1>5. Session'
  BY DEF KeptType, Chip, Session, OverSmb
<1>6. Flags'
  BY DEF Flags
<1> QED
  BY <1>1, <1>2, <1>3, <1>4, <1>5, <1>6

LEMMA RelinkStep == Network /\ Relink => Network'
<1> SUFFICES ASSUME Network, Relink PROVE Network'
  OBVIOUS
<1> USE DEF Network, Relink, Wait, On, GiveUp, Goto, modules, menu, flow
<1>1. FlowType'
  BY NetAssumption DEF NetAssumption, FlowType, KeptType, Session, Busy
<1>2. KeptType'
  BY DEF KeptType, Configs, Latches
<1>3. Chip'
  BY DEF Chip, Ministack
<1>4. InChain'
  BY DEF Chip, KeptType, FlowType, InChain, Ministack
<1>5. Session'
  BY DEF KeptType, Chip, Session, OverSmb
<1>6. Flags'
  BY DEF Flags
<1> QED
  BY <1>1, <1>2, <1>3, <1>4, <1>5, <1>6

LEMMA LeaseStep == Network /\ Lease => Network'
<1> SUFFICES ASSUME Network, Lease PROVE Network'
  OBVIOUS
<1> USE DEF Network, Lease, Wait, On, GiveUp, Goto, modules, menu, flow
<1>1. FlowType'
  BY NetAssumption DEF NetAssumption, FlowType, KeptType, Session, Busy
<1>2. KeptType'
  BY DEF KeptType, Configs, Latches
<1>3. Chip'
  BY DEF Chip, Ministack
<1>4. InChain'
  BY DEF Chip, KeptType, FlowType, InChain, Ministack
<1>5. Session'
  BY DEF KeptType, Chip, Session, OverSmb
<1>6. Flags'
  BY DEF Flags
<1> QED
  BY <1>1, <1>2, <1>3, <1>4, <1>5, <1>6

LEMMA LinkModeSetStep == Network /\ LinkModeSet => Network'
<1> SUFFICES ASSUME Network, LinkModeSet PROVE Network'
  OBVIOUS
<1> USE DEF Network, LinkModeSet, Goto, modules, menu, flow
<1>1. FlowType'
  BY NetAssumption DEF NetAssumption, FlowType, KeptType, Session, Busy
<1>2. KeptType'
  BY DEF KeptType, Configs, Latches
<1>3. Chip'
  BY DEF Chip, Ministack
<1>4. InChain'
  BY DEF Chip, KeptType, FlowType, InChain, Ministack
<1>5. Session'
  BY DEF KeptType, Chip, Session, OverSmb
<1>6. Flags'
  BY DEF Flags
<1> QED
  BY <1>1, <1>2, <1>3, <1>4, <1>5, <1>6

LEMMA LinkModeRefusedStep == Network /\ LinkModeRefused => Network'
<1> SUFFICES ASSUME Network, LinkModeRefused PROVE Network'
  OBVIOUS
<1> USE DEF Network, LinkModeRefused, Goto, modules, menu, flow
<1>1. FlowType'
  BY NetAssumption DEF NetAssumption, FlowType, KeptType, Session, Busy
<1>2. KeptType'
  BY DEF KeptType, Configs, Latches
<1>3. Chip'
  BY DEF Chip, Ministack
<1>4. InChain'
  BY DEF Chip, KeptType, FlowType, InChain, Ministack
<1>5. Session'
  BY DEF KeptType, Chip, Session, OverSmb
<1>6. Flags'
  BY DEF Flags
<1> QED
  BY <1>1, <1>2, <1>3, <1>4, <1>5, <1>6

LEMMA ApplyIPConfigStep == Network /\ ApplyIPConfig => Network'
<1> SUFFICES ASSUME Network, ApplyIPConfig PROVE Network'
  OBVIOUS
<1> USE DEF Network, ApplyIPConfig, GiveUp, On, Goto, modules, menu, flow
<1>1. FlowType'
  BY NetAssumption DEF NetAssumption, FlowType, KeptType, Session, Busy
<1>2. KeptType'
  BY DEF KeptType, Configs, Latches
<1>3. Chip'
  BY DEF Chip, Ministack
<1>4. InChain'
  BY DEF Chip, KeptType, FlowType, InChain, Ministack
<1>5. Session'
  BY DEF KeptType, Chip, Session, OverSmb
<1>6. Flags'
  BY DEF Flags
<1> QED
  BY <1>1, <1>2, <1>3, <1>4, <1>5, <1>6

LEMMA LogonFailsStep == Network /\ LogonFails => Network'
<1> SUFFICES ASSUME Network, LogonFails PROVE Network'
  OBVIOUS
<1> USE DEF Network, LogonFails, GiveUpLoggedOff, Disconnected, Goto, modules, menu, flow
<1>1. FlowType'
  BY NetAssumption DEF NetAssumption, FlowType, KeptType, Session, Busy
<1>2. KeptType'
  BY DEF KeptType, Configs, Latches
<1>3. Chip'
  BY DEF Chip, Ministack
<1>4. InChain'
  BY DEF Chip, KeptType, FlowType, InChain, Ministack
<1>5. Session'
  BY DEF KeptType, Chip, Session, OverSmb
<1>6. Flags'
  BY DEF Flags
<1> QED
  BY <1>1, <1>2, <1>3, <1>4, <1>5, <1>6

LEMMA LogonStep == Network /\ Logon => Network'
<1> SUFFICES ASSUME Network, Logon PROVE Network'
  OBVIOUS
<1> USE DEF Network, Logon, Goto, modules, menu, flow
<1>1. FlowType'
  BY NetAssumption DEF NetAssumption, FlowType, KeptType, Session, Busy
<1>2. KeptType'
  BY DEF KeptType, Configs, Latches
<1>3. Chip'
  BY DEF Chip, Ministack
<1>4. InChain'
  BY DEF Chip, KeptType, FlowType, InChain, Ministack
<1>5. Session'
  BY DEF KeptType, Chip, Session, OverSmb
<1>6. Flags'
  BY DEF Flags
<1> QED
  BY <1>1, <1>2, <1>3, <1>4, <1>5, <1>6

LEMMA EchoStep == Network /\ Echo => Network'
<1> SUFFICES ASSUME Network, Echo PROVE Network'
  OBVIOUS
<1> USE DEF Network, Echo, GiveUpLoggedOff, Disconnected, Goto, modules, menu, flow
<1>1. FlowType'
  BY NetAssumption DEF NetAssumption, FlowType, KeptType, Session, Busy
<1>2. KeptType'
  BY DEF KeptType, Configs, Latches
<1>3. Chip'
  BY DEF Chip, Ministack
<1>4. InChain'
  BY DEF Chip, KeptType, FlowType, InChain, Ministack
<1>5. Session'
  BY DEF KeptType, Chip, Session, OverSmb
<1>6. Flags'
  BY DEF Flags
<1> QED
  BY <1>1, <1>2, <1>3, <1>4, <1>5, <1>6

LEMMA NoShareStep == Network /\ NoShare => Network'
<1> SUFFICES ASSUME Network, NoShare PROVE Network'
  OBVIOUS
<1> USE DEF Network, NoShare, Disconnected, Goto, modules, menu, flow
<1>1. FlowType'
  BY NetAssumption DEF NetAssumption, FlowType, KeptType, Session, Busy
<1>2. KeptType'
  BY DEF KeptType, Configs, Latches
<1>3. Chip'
  BY DEF Chip, Ministack
<1>4. InChain'
  BY DEF Chip, KeptType, FlowType, InChain, Ministack
<1>5. Session'
  BY DEF KeptType, Chip, Session, OverSmb
<1>6. Flags'
  BY DEF Flags
<1> QED
  BY <1>1, <1>2, <1>3, <1>4, <1>5, <1>6

LEMMA OpenShareStep == Network /\ OpenShare => Network'
<1> SUFFICES ASSUME Network, OpenShare PROVE Network'
  OBVIOUS
<1> USE DEF Network, OpenShare, GiveUpLoggedOff, Disconnected, Goto, modules, menu, flow
<1>1. FlowType'
  BY NetAssumption DEF NetAssumption, FlowType, KeptType, Session, Busy
<1>2. KeptType'
  BY DEF KeptType, Configs, Latches
<1>3. Chip'
  BY DEF Chip, Ministack
<1>4. InChain'
  BY DEF Chip, KeptType, FlowType, InChain, Ministack
<1>5. Session'
  BY DEF KeptType, Chip, Session, OverSmb
<1>6. Flags'
  BY DEF Flags
<1> QED
  BY <1>1, <1>2, <1>3, <1>4, <1>5, <1>6

LEMMA PickShareStep == Network /\ PickShare => Network'
<1> SUFFICES ASSUME Network, PickShare PROVE Network'
  OBVIOUS
<1> USE DEF Network, PickShare, Goto, modules, menu, flow
<1>1. FlowType'
  BY NetAssumption DEF NetAssumption, FlowType, KeptType, Session, Busy
<1>2. KeptType'
  BY DEF KeptType, Configs, Latches
<1>3. Chip'
  BY DEF Chip, Ministack
<1>4. InChain'
  BY DEF Chip, KeptType, FlowType, InChain, Ministack
<1>5. Session'
  BY DEF KeptType, Chip, Session, OverSmb
<1>6. Flags'
  BY DEF Flags
<1> QED
  BY <1>1, <1>2, <1>3, <1>4, <1>5, <1>6

LEMMA LeaveListStep == Network /\ LeaveList => Network'
<1> SUFFICES ASSUME Network, LeaveList PROVE Network'
  OBVIOUS
<1> USE DEF Network, LeaveList, Disconnected, modules, menu, flow
<1>1. FlowType'
  BY NetAssumption DEF NetAssumption, FlowType, KeptType, Session, Busy
<1>2. KeptType'
  BY DEF KeptType, Configs, Latches
<1>3. Chip'
  BY DEF Chip, Ministack
<1>4. InChain'
  BY DEF Chip, KeptType, FlowType, InChain, Ministack
<1>5. Session'
  BY DEF KeptType, Chip, Session, OverSmb
<1>6. Flags'
  BY DEF Flags
<1> QED
  BY <1>1, <1>2, <1>3, <1>4, <1>5, <1>6

LEMMA OpenSettingsStep == Network /\ OpenSettings => Network'
<1> SUFFICES ASSUME Network, OpenSettings PROVE Network'
  OBVIOUS
<1> USE DEF Network, OpenSettings, modules, menu, flow
<1>1. FlowType'
  BY NetAssumption DEF NetAssumption, FlowType, KeptType, Session, Busy
<1>2. KeptType'
  BY DEF KeptType, Configs, Latches
<1>3. Chip'
  BY DEF Chip, Ministack
<1>4. InChain'
  BY DEF Chip, KeptType, FlowType, InChain, Ministack
<1>5. Session'
  BY DEF KeptType, Chip, Session, OverSmb
<1>6. Flags'
  BY DEF Flags
<1> QED
  BY <1>1, <1>2, <1>3, <1>4, <1>5, <1>6

LEMMA CloseSettingsStep == Network /\ CloseSettings => Network'
<1> SUFFICES ASSUME Network, CloseSettings PROVE Network'
  OBVIOUS
<1> USE DEF Network, CloseSettings, modules, menu, flow
<1>1. FlowType'
  BY NetAssumption DEF NetAssumption, FlowType, KeptType, Session, Busy
<1>2. KeptType'
  BY DEF KeptType, Configs, Latches
<1>3. Chip'
  BY DEF Chip, Ministack
<1>4. InChain'
  BY DEF Chip, KeptType, FlowType, InChain, Ministack
<1>5. Session'
  BY DEF KeptType, Chip, Session, OverSmb
<1>6. Flags'
  BY DEF Flags
<1> QED
  BY <1>1, <1>2, <1>3, <1>4, <1>5, <1>6

LEMMA SaveToMenuStep == Network /\ SaveToMenu => Network'
<1> SUFFICES ASSUME Network, SaveToMenu PROVE Network'
  OBVIOUS
<1> USE DEF Network, SaveToMenu, modules, menu, flow
<1>1. FlowType'
  BY NetAssumption DEF NetAssumption, FlowType, KeptType, Session, Busy
<1>2. KeptType'
  BY DEF KeptType, Configs, Latches
<1>3. Chip'
  BY DEF Chip, Ministack
<1>4. InChain'
  BY DEF Chip, KeptType, FlowType, InChain, Ministack
<1>5. Session'
  BY DEF KeptType, Chip, Session, OverSmb
<1>6. Flags'
  BY DEF Flags
<1> QED
  BY <1>1, <1>2, <1>3, <1>4, <1>5, <1>6

LEMMA LoadSmbStep == Network /\ LoadSmb => Network'
<1> SUFFICES ASSUME Network, LoadSmb PROVE Network'
  OBVIOUS
<1> USE DEF Network, LoadSmb, menu
<1>0. SmbChain[at] \in Modules /\ SmbChain[at] \notin Ministack /\ Ministack \subseteq Modules /\ "smap" \in Modules
  BY ModulesAre
<1>1. FlowType'
  BY NetAssumption DEF NetAssumption, FlowType, Busy, GiveUp, Goto
<1>2. Flags'
  BY DEF Flags, GiveUp
<1>3. CASE GiveUp /\ UNCHANGED modules
  BY <1>1, <1>2, <1>3 DEF KeptType, Chip, InChain, Session, OverSmb, GiveUp, Goto, modules
<1>4. CASE ~ (GiveUp /\ UNCHANGED modules)
  <2>1. /\ Loaded(SmbChain[at]) /\ latched' = latched \union LatchOf(SmbChain[at])
        /\ pc' = (IF at = 8 THEN "link" ELSE "smb") /\ at' = (IF at = 8 THEN MaxTries ELSE at + 1)
        /\ UNCHANGED <<stackIp, session, entering, rounds, ok>>
    BY <1>4 DEF Goto
  <2>2. /\ loads' \in [Modules -> 0 .. 2]
        /\ \A n \in Modules \ {SmbChain[at]} : loads'[n] = loads[n]
    BY <2>1, <1>0, LoadedEffect DEF KeptType
  <2>3. /\ LatchOf(SmbChain[at]) \subseteq {"dev9", "smap", "net", "smb"}
        /\ SmbChain[at] = "smap" => "smap" \in LatchOf(SmbChain[at])
        /\ at = 8 => "smb" \in LatchOf(SmbChain[at])
    BY LatchOfModule
  <2>4. at > 0 /\ "attempted" \in latched
    BY DEF InChain
  <2>5. KeptType'
    BY <2>1, <2>2, <2>3 DEF KeptType, Latches
  <2>6. Chip'
    <3>1. loads'["smap"] > 0 => "smap" \in latched'
      BY <1>0, <2>1, <2>2, <2>3 DEF Chip
    <3>2. \A m \in Ministack : loads'[m] = loads[m]
      BY <1>0, <2>2
    <3> QED
      BY <2>1, <2>3, <2>4, <3>1, <3>2 DEF Chip, Ministack
  <2>7. InChain'
    BY <2>1, <2>3, <2>4 DEF InChain
  <2>8. Session'
    <3>1. latched \subseteq latched' /\ (at = 8 => "smb" \in latched')
      BY <2>1, <2>3
    <3> QED
      BY <2>1, <3>1 DEF Session, OverSmb
  <2> QED
    BY <1>1, <1>2, <2>5, <2>6, <2>7, <2>8
<1> QED
  BY <1>3, <1>4

LEMMA InitUdpfsStartStep == Network /\ InitUdpfsStart => Network'
<1> SUFFICES ASSUME Network, InitUdpfsStart PROVE Network'
  OBVIOUS
<1> USE DEF Network, InitUdpfsStart, UdpfsRefused, UdpfsShown, FirstLoad, Goto, modules
<1>1. FlowType'
  BY NetAssumption DEF NetAssumption, FlowType, Busy
<1>2. Flags'
  BY DEF Flags
<1>3. KeptType'
  BY DEF KeptType
<1>4. Chip'
  BY DEF Chip, Ministack
<1>5. InChain'
  <2>1. \/ pc' = "menu"
        \/ /\ pc' = "udpfs" /\ at' \in {1, 2}
           /\ "attempted" \notin latched /\ "udpfs_smap" \notin latched
    <3>1. CASE latched \intersect {"attempted", "smap", "net", "smb"} # {}
      BY <3>1
    <3>2. CASE latched \intersect {"attempted", "smap", "net", "smb"} = {}
      <4>1. "attempted" \notin latched
        BY <3>2
      <4> QED
        BY <3>2, <4>1
    <3> QED
      BY <3>1, <3>2
  <2>2. "udpfs_smap" \notin latched => \A m \in Ministack : loads[m] = 0
    BY ModulesAre DEF Chip, KeptType
  <2> QED
    BY <2>1, <2>2 DEF InChain, Ministack
<1>6. Session'
  BY DEF Session, OverSmb
<1> QED
  BY <1>1, <1>2, <1>3, <1>4, <1>5, <1>6

LEMMA LoadUdpfsStep == Network /\ LoadUdpfs => Network'
<1> SUFFICES ASSUME Network, LoadUdpfs PROVE Network'
  OBVIOUS
<1> USE DEF Network, LoadUdpfs
<1>0. /\ UdpfsChain[at] \in Modules /\ UdpfsChain[at] # "smap" /\ Ministack \subseteq Modules /\ "smap" \in Modules
      /\ at > 0 /\ at <= 4 /\ pc = "udpfs"
  BY ModulesAre
<1>1. FlowType'
  BY NetAssumption DEF NetAssumption, FlowType, Busy, UdpfsRefused, UdpfsShown, Goto
<1>2. Flags'
  BY DEF Flags, UdpfsRefused, UdpfsShown
<1>3. CASE UdpfsRefused /\ UNCHANGED modules
  BY <1>1, <1>2, <1>3 DEF KeptType, Chip, InChain, Session, OverSmb, UdpfsRefused, Goto, modules, Ministack
<1>4. CASE ~ (UdpfsRefused /\ UNCHANGED modules)
  <2>1. /\ Loaded(UdpfsChain[at]) /\ latched' = latched \union UdpfsLatchOf(UdpfsChain[at])
        /\ stackIp' = (IF at = 3 THEN cfg.ip ELSE stackIp)
        /\ \/ at = 4 /\ pc' = "menu" /\ at' = 0
           \/ at # 4 /\ pc' = "udpfs" /\ at' = at + 1
        /\ scene' \in {scene, "list"} /\ transport' \in {transport, "UDPFS"}
        /\ UNCHANGED <<linkMode, session, cfg, back, entering, rounds>>
    BY <1>4 DEF UdpfsShown, Goto, UdpfsChain
  <2>2. /\ loads' \in [Modules -> 0 .. 2]
        /\ \A n \in Modules \ {UdpfsChain[at]} : loads'[n] = loads[n]
        /\ loads[UdpfsChain[at]] = 0 => loads'[UdpfsChain[at]] = 1
    BY <2>1, <1>0, LoadedEffect DEF KeptType
  <2>3. /\ UdpfsLatchOf(UdpfsChain[at]) \subseteq {"dev9", "udpfs_smap", "udpfs"}
        /\ at = 2 => "udpfs_smap" \in UdpfsLatchOf(UdpfsChain[at])
    <3>1. \A m : UdpfsLatchOf(m) \in {{"dev9"}, {"udpfs_smap"}, {"udpfs"}, {}}
      BY DEF UdpfsLatchOf
    <3>2. UdpfsLatchOf("udpfs_smap") = {"udpfs_smap"} /\ UdpfsChain[2] = "udpfs_smap"
      BY DEF UdpfsLatchOf, UdpfsChain
    <3> QED
      BY <3>1, <3>2
  <2>4. "attempted" \notin latched /\ "attempted" \notin latched' /\ latched \subseteq latched'
    BY <1>0, <2>1, <2>3 DEF InChain
  <2>5. KeptType'
    <3>1. cfg.ip \in Addresses \union {NoAddress}
      BY DEF KeptType, Configs
    <3> QED
      BY <2>1, <2>2, <2>3, <3>1 DEF KeptType, Latches
  <2>6. /\ at = 1 => UdpfsChain[at] \notin Ministack
        /\ at = 2 => UdpfsChain[at] = "udpfs_smap"
        /\ at = 3 => UdpfsChain[at] = "ministack"
        /\ at = 4 => UdpfsChain[at] = "udpfs_ioman"
    BY DEF UdpfsChain, Ministack
  <2>7. at \in {1, 2, 3, 4}
    BY <1>0 DEF FlowType
  <2>8. Chip'
    <3>1. loads'["smap"] = loads["smap"]
      BY <1>0, <2>2
    <3>2. ASSUME NEW m \in Ministack
          PROVE  loads'[m] <= 1 /\ (loads'[m] > 0 => "udpfs_smap" \in latched')
      <4>1. CASE m # UdpfsChain[at]
        BY <4>1, <1>0, <2>2, <2>4 DEF Chip
      <4>2. CASE m = UdpfsChain[at]
        <5>1. loads[m] = 0
          BY <4>2, <1>0, <2>6, <2>7 DEF InChain
        <5>2. "udpfs_smap" \in latched'
          BY <4>2, <1>0, <2>1, <2>3, <2>4, <2>6, <2>7 DEF InChain
        <5> QED
          BY <4>2, <5>1, <5>2, <2>2
      <4> QED
        BY <4>1, <4>2
    <3>3. latched' \cap {"smap", "net", "smb"} = latched \cap {"smap", "net", "smb"}
      BY <2>1, <2>3
    <3> QED
      BY <3>1, <3>2, <3>3, <2>4 DEF Chip
  <2>9. InChain'
    <3>1. /\ at < 4 => loads'["udpfs_ioman"] = 0
          /\ at < 3 => loads'["ministack"] = 0
          /\ at < 2 => loads'["udpfs_smap"] = 0
      BY <1>0, <2>2, <2>6, <2>7 DEF InChain, Ministack
    <3>2. at >= 2 => "udpfs_smap" \in latched'
      BY <1>0, <2>1, <2>3, <2>4, <2>7 DEF InChain
    <3> QED
      BY <1>0, <2>1, <2>4, <2>7, <3>1, <3>2 DEF InChain
  <2>10. Session'
    BY <1>0, <2>1, <2>4 DEF Session, OverSmb
  <2> QED
    BY <1>1, <1>2, <2>5, <2>8, <2>9, <2>10
<1> QED
  BY <1>3, <1>4

\* The console starts, or NetStack's part is over.
LEMMA ResetStep ==
  ASSUME loads' = [m \in Modules |-> 0], latched' \in {{}, {"dev9"}}, cfg' \in Configs,
         stackIp' = NoAddress, linkMode' = "auto", session' = "none",
         scene' = "main", transport' = "none", back' = "main",
         pc' = "menu", at' = 0, entering' = TRUE, rounds' = 0, ok' = FALSE
  PROVE  Network'
<1>1. FlowType'
  BY NetAssumption DEF NetAssumption, FlowType
<1>2. Flags'
  BY DEF Flags
<1>3. KeptType'
  BY DEF KeptType, Latches
<1>4. Chip'
  <2>1. \A m \in Ministack \union {"smap"} : loads'[m] = 0
    BY ModulesAre
  <2>2. latched' \subseteq {"dev9"}
    OBVIOUS
  <2> QED
    BY <2>1, <2>2 DEF Chip, Ministack
<1>5. InChain'
  BY DEF InChain
<1>6. Session'
  BY DEF Session, OverSmb
<1> QED
  BY <1>1, <1>2, <1>3, <1>4, <1>5, <1>6 DEF Network

LEMMA RestartStep == Network /\ Restart => Network'
BY ResetStep DEF Network, KeptType, Restart, Booted

LEMMA ForgottenStep == Network /\ pc = "menu" /\ Forgotten => Network'
<1>1. [ip |-> NoAddress, dhcp |-> FALSE, share |-> FALSE, mode |-> "auto"] \in Configs
  BY DEF Configs
<1> QED
  BY <1>1, ResetStep DEF Forgotten

LEMMA StillStep == Network /\ UNCHANGED vars => Network'
BY DEF Network, FlowType, Flags, KeptType, Chip, InChain, Session, vars, modules, menu, flow

LEMMA NextStep == Network /\ Next => Network'
BY EnsureNetStartStep, LoadSmbStep, InitUdpfsStartStep, LoadUdpfsStep, LinkUpStep, LinkModeSetStep,
   LinkModeRefusedStep, RelinkStep, ApplyIPConfigStep, LeaseStep, LogonFailsStep, LogonStep, EchoStep,
   NoShareStep, OpenShareStep, OpenSmbStep, OpenUdpfsStep, RefreshSmbStep, RefreshUdpfsStep, PickShareStep,
   LeaveListStep, OpenSettingsStep, CloseSettingsStep, SaveToMenuStep, RestartStep
   DEF Next, Loads, NetUp, Connect, Scenes

-----------------------------------------------------------------------------
(* The configuration files.                                                *)

FilesType ==
  /\ stage \in {"net", "launch"} /\ home \in Cards /\ static \in Addresses \union {NoAddress}
  /\ file \in [Files -> Addresses \union {"set", "none", "torn"}]
  /\ \A f \in Files : file[f] \in Bodies(f) \union {"none", "torn"}
  /\ found \in Untorn /\ journal \in [Files -> {"none", "torn", "whole"}]
  /\ step \in {"off", "clean", "cleaned", "look", "journal", "write", "finish", "undo", "undone", "go"}
  /\ cur \in Files /\ mishaps \in 0 .. MaxMishaps

\* Before the first launch there is nothing; a launch that got past the clean-up has an address.
Stages ==
  /\ stage = "net" => step = "off" /\ journal = Empty /\ mishaps = 0
  /\ step \in {"look", "journal", "write", "finish", "undo", "undone", "go"} => static \in Addresses

\* A torn file is under a whole journal, and a file with a journal was made by a launch.
Vouched ==
  \A f \in Files :
    /\ file[f] = "torn" => journal[f] = "whole"
    /\ journal[f] # "none" => found[f] = "none"
    /\ found[f] # "none" => file[f] = found[f]

\* The place of a file in the clean-up.
Rank(f) == (IF f[1] = "mc0" THEN 0 ELSE 2) + (IF f[2] = "IPCONFIG" THEN 1 ELSE 2)

\* The journals that are left, by the step: none once both cards are clean, or cur's alone.
Journals ==
  /\ step \in {"clean", "cleaned"} => \A f \in Files : Rank(f) < Rank(cur) => journal[f] = "none"
  /\ step \in {"look", "journal", "go"} => \A f \in Files : journal[f] = "none"
  /\ step \in {"write", "finish"} => \A f \in Files \ {cur} : journal[f] = "none"
  /\ step \in {"write", "finish", "undo", "undone"} => journal[cur] = "whole"
  /\ step \in {"cleaned", "undone"} => file[cur] = "none"

\* What is made, and that the address is right once IPCONFIG.DAT was looked at.
Made ==
  /\ step \in {"journal", "write", "undo", "undone"} => found[cur] = "none"
  /\ step = "cleaned" => found[cur] = "none"
  /\ step \in {"journal", "write"} => \A c \in Cards : file[<<c, cur[2]>>] = "none"
  /\ step = "finish" => file[cur] # "torn" /\ \A c \in Cards : <<c, cur[2]>> # cur => file[<<c, cur[2]>>] = "none"
  /\ step = "finish" /\ cur[2] = "IPCONFIG" => file[cur] = static
  /\ step \in {"look", "journal", "write", "finish"} /\ cur[2] = "UDPFSCONFIG" =>
       file[Effective("IPCONFIG")] = static
  /\ step = "go" => file[Effective("IPCONFIG")] = static

Launching == FilesType /\ Stages /\ Vouched /\ Journals /\ Made

LEMMA FilesAre ==
  /\ Files = {Order[1], Order[2], Order[3], Order[4]}
  /\ Order[1] = <<"mc0", "IPCONFIG">> /\ Order[2] = <<"mc0", "UDPFSCONFIG">>
  /\ Order[3] = <<"mc1", "IPCONFIG">> /\ Order[4] = <<"mc1", "UDPFSCONFIG">>
BY DEF Files, Cards, Names, Order

LEMMA Ranks ==
  /\ \A i \in 1 .. 4 : Rank(Order[i]) = i
  /\ \A f \in Files : Rank(f) \in 1 .. 4 /\ Order[Rank(f)] = f
<1>1. Rank(Order[1]) = 1 /\ Rank(Order[2]) = 2 /\ Rank(Order[3]) = 3 /\ Rank(Order[4]) = 4
  BY DEF Rank, Order
<1> QED
  BY <1>1, FilesAre

\* The next file of the clean-up, or its end.
LEMMA NextFileEffect ==
  cur \in Files /\ NextFile =>
         \/ step' = "clean" /\ cur' \in Files /\ Rank(cur') = Rank(cur) + 1
         \/ static = NoAddress /\ step' = "off" /\ cur' = cur
         \/ static # NoAddress /\ Rank(cur) = 4 /\ step' = "look" /\ cur' = Order[1]
<1> SUFFICES ASSUME cur \in Files, NextFile
             PROVE  \/ step' = "clean" /\ cur' \in Files /\ Rank(cur') = Rank(cur) + 1
                    \/ static = NoAddress /\ step' = "off" /\ cur' = cur
                    \/ static # NoAddress /\ Rank(cur) = 4 /\ step' = "look" /\ cur' = Order[1]
  OBVIOUS
<1> DEFINE i == CHOOSE j \in 1 .. 4 : Order[j] = cur
<1>1. i \in 1 .. 4 /\ Order[i] = cur
  BY Ranks
<1>2. i = Rank(cur)
  BY <1>1, Ranks
<1>3. i < 4 => Order[i + 1] \in Files /\ Rank(Order[i + 1]) = i + 1
  BY <1>1, Ranks, FilesAre
<1>4. \/ i < 4 /\ Call("clean", Order[i + 1])
      \/ i = 4 /\ static = NoAddress /\ Refuse
      \/ i = 4 /\ static # NoAddress /\ Call("look", Order[1])
  BY <1>1 DEF NextFile
<1> QED
  BY <1>2, <1>3, <1>4 DEF Call, Refuse

LEMMA CleanUpStep == Launching /\ CleanUp /\ UNCHANGED <<stage, found, home, static>> => Launching'
<1> SUFFICES ASSUME Launching, CleanUp, UNCHANGED <<stage, found, home, static>> PROVE Launching'
  OBVIOUS
<1> USE DEF Launching, CleanUp, Removed, Stays, Mishap, Call, Refuse
<1>0. NextFile => \/ step' = "clean" /\ cur' \in Files /\ Rank(cur') = Rank(cur) + 1
                  \/ static = NoAddress /\ step' = "off" /\ cur' = cur
                  \/ static # NoAddress /\ Rank(cur) = 4 /\ step' = "look" /\ cur' = Order[1]
  BY NextFileEffect DEF FilesType
<1>1. FilesType'
  BY <1>0, ConfigAssumption, FilesAre DEF ConfigAssumption, FilesType, Bodies, Stages
<1>2. Stages'
  BY <1>0, ConfigAssumption DEF FilesType, Stages
<1>3. Vouched'
  BY <1>0, ConfigAssumption DEF FilesType, Stages, Vouched, Journals, Made
<1>4. Journals'
  BY <1>0, Ranks DEF FilesType, Journals, Made, Vouched
<1>5. Made'
  BY <1>0, ConfigAssumption, FilesAre DEF FilesType, Stages, Vouched, Journals, Made, Effective, Cards
<1> QED
  BY <1>1, <1>2, <1>3, <1>4, <1>5

LEMMA CleanedUpStep == Launching /\ CleanedUp /\ UNCHANGED <<stage, found, home, static>> => Launching'
<1> SUFFICES ASSUME Launching, CleanedUp, UNCHANGED <<stage, found, home, static>> PROVE Launching'
  OBVIOUS
<1> USE DEF Launching, CleanedUp, Removed, Stays, Mishap, Call, Refuse
<1>0. NextFile => \/ step' = "clean" /\ cur' \in Files /\ Rank(cur') = Rank(cur) + 1
                  \/ static = NoAddress /\ step' = "off" /\ cur' = cur
                  \/ static # NoAddress /\ Rank(cur) = 4 /\ step' = "look" /\ cur' = Order[1]
  BY NextFileEffect DEF FilesType
<1>1. FilesType'
  BY <1>0, ConfigAssumption, FilesAre DEF ConfigAssumption, FilesType, Bodies, Stages
<1>2. Stages'
  BY <1>0, ConfigAssumption DEF FilesType, Stages
<1>3. Vouched'
  BY <1>0, ConfigAssumption DEF FilesType, Stages, Vouched, Journals, Made
<1>4. Journals'
  BY <1>0, Ranks DEF FilesType, Journals, Made, Vouched
<1>5. Made'
  BY <1>0, ConfigAssumption, FilesAre DEF FilesType, Stages, Vouched, Journals, Made, Effective, Cards
<1> QED
  BY <1>1, <1>2, <1>3, <1>4, <1>5

LEMMA UseFileStep == Launching /\ UseFile /\ UNCHANGED <<stage, found, home, static>> => Launching'
<1> SUFFICES ASSUME Launching, UseFile, UNCHANGED <<stage, found, home, static>> PROVE Launching'
  OBVIOUS
<1> USE DEF Launching, UseFile, Mishap, NextName, Call, Refuse
<1>1. FilesType'
  BY ConfigAssumption, FilesAre DEF ConfigAssumption, FilesType, Bodies, Stages
<1>2. Stages'
  BY ConfigAssumption DEF FilesType, Stages
<1>3. Vouched'
  BY ConfigAssumption DEF FilesType, Stages, Vouched, Journals, Made
<1>4. Journals'
  BY Ranks DEF FilesType, Journals, Made, Vouched
<1>5. Made'
  BY ConfigAssumption, FilesAre DEF FilesType, Stages, Vouched, Journals, Made, Effective, Cards
<1> QED
  BY <1>1, <1>2, <1>3, <1>4, <1>5

LEMMA MakeFileStep == Launching /\ MakeFile /\ UNCHANGED <<stage, found, home, static>> => Launching'
<1> SUFFICES ASSUME Launching, MakeFile, UNCHANGED <<stage, found, home, static>> PROVE Launching'
  OBVIOUS
<1> USE DEF Launching, MakeFile, NextName, Call, Refuse
<1>1. FilesType'
  BY ConfigAssumption, FilesAre DEF ConfigAssumption, FilesType, Cards, Names, Files, Bodies, Stages
<1>2. Stages'
  BY ConfigAssumption DEF FilesType, Stages
<1>3. Vouched'
  BY ConfigAssumption DEF FilesType, Stages, Vouched, Journals, Made
<1>4. Journals'
  BY Ranks DEF FilesType, Journals, Made, Vouched
<1>5. Made'
  BY ConfigAssumption, FilesAre DEF FilesType, Stages, Vouched, Journals, Made, Effective, Cards
<1> QED
  BY <1>1, <1>2, <1>3, <1>4, <1>5

LEMMA WriteJournalStep == Launching /\ WriteJournal /\ UNCHANGED <<stage, found, home, static>> => Launching'
<1> SUFFICES ASSUME Launching, WriteJournal, UNCHANGED <<stage, found, home, static>> PROVE Launching'
  OBVIOUS
<1> USE DEF Launching, WriteJournal, Written, Botched, Mishap, Call, Refuse
<1>1. FilesType'
  BY ConfigAssumption, FilesAre DEF ConfigAssumption, FilesType, Bodies, Stages
<1>2. Stages'
  BY ConfigAssumption DEF FilesType, Stages
<1>3. Vouched'
  BY ConfigAssumption DEF FilesType, Stages, Vouched, Journals, Made
<1>4. Journals'
  BY Ranks DEF FilesType, Journals, Made, Vouched
<1>5. Made'
  BY ConfigAssumption, FilesAre DEF FilesType, Stages, Vouched, Journals, Made, Effective, Cards
<1> QED
  BY <1>1, <1>2, <1>3, <1>4, <1>5

LEMMA WriteFileStep == Launching /\ WriteFile /\ UNCHANGED <<stage, found, home, static>> => Launching'
<1> SUFFICES ASSUME Launching, WriteFile, UNCHANGED <<stage, found, home, static>> PROVE Launching'
  OBVIOUS
<1> USE DEF Launching, WriteFile, Written, Botched, Mishap, Call, Refuse
<1>1. FilesType'
  BY ConfigAssumption, FilesAre DEF ConfigAssumption, FilesType, Bodies, Stages
<1>2. Stages'
  BY ConfigAssumption DEF FilesType, Stages
<1>3. Vouched'
  BY ConfigAssumption DEF FilesType, Stages, Vouched, Journals, Made
<1>4. Journals'
  BY Ranks DEF FilesType, Journals, Made, Vouched
<1>5. Made'
  BY ConfigAssumption, FilesAre DEF FilesType, Stages, Vouched, Journals, Made, Effective, Cards
<1> QED
  BY <1>1, <1>2, <1>3, <1>4, <1>5

LEMMA FinishStep == Launching /\ Finish /\ UNCHANGED <<stage, found, home, static>> => Launching'
<1> SUFFICES ASSUME Launching, Finish, UNCHANGED <<stage, found, home, static>> PROVE Launching'
  OBVIOUS
<1> USE DEF Launching, Finish, Removed, Stays, Mishap, NextName, Call, Refuse
<1>1. FilesType'
  BY ConfigAssumption, FilesAre DEF ConfigAssumption, FilesType, Bodies, Stages
<1>2. Stages'
  BY ConfigAssumption DEF FilesType, Stages
<1>3. Vouched'
  BY ConfigAssumption DEF FilesType, Stages, Vouched, Journals, Made
<1>4. Journals'
  BY Ranks DEF FilesType, Journals, Made, Vouched
<1>5. Made'
  BY ConfigAssumption, FilesAre DEF FilesType, Stages, Vouched, Journals, Made, Effective, Cards
<1> QED
  BY <1>1, <1>2, <1>3, <1>4, <1>5

LEMMA UndoStep == Launching /\ Undo /\ UNCHANGED <<stage, found, home, static>> => Launching'
<1> SUFFICES ASSUME Launching, Undo, UNCHANGED <<stage, found, home, static>> PROVE Launching'
  OBVIOUS
<1> USE DEF Launching, Undo, Removed, Stays, Mishap, Call, Refuse
<1>1. FilesType'
  BY ConfigAssumption, FilesAre DEF ConfigAssumption, FilesType, Bodies, Stages
<1>2. Stages'
  BY ConfigAssumption DEF FilesType, Stages
<1>3. Vouched'
  BY ConfigAssumption DEF FilesType, Stages, Vouched, Journals, Made
<1>4. Journals'
  BY Ranks DEF FilesType, Journals, Made, Vouched
<1>5. Made'
  BY ConfigAssumption, FilesAre DEF FilesType, Stages, Vouched, Journals, Made, Effective, Cards
<1> QED
  BY <1>1, <1>2, <1>3, <1>4, <1>5

LEMMA UndoneStep == Launching /\ Undone /\ UNCHANGED <<stage, found, home, static>> => Launching'
<1> SUFFICES ASSUME Launching, Undone, UNCHANGED <<stage, found, home, static>> PROVE Launching'
  OBVIOUS
<1> USE DEF Launching, Undone, Removed, Stays, Mishap, Call, Refuse
<1>1. FilesType'
  BY ConfigAssumption, FilesAre DEF ConfigAssumption, FilesType, Bodies, Stages
<1>2. Stages'
  BY ConfigAssumption DEF FilesType, Stages
<1>3. Vouched'
  BY ConfigAssumption DEF FilesType, Stages, Vouched, Journals, Made
<1>4. Journals'
  BY Ranks DEF FilesType, Journals, Made, Vouched
<1>5. Made'
  BY ConfigAssumption, FilesAre DEF FilesType, Stages, Vouched, Journals, Made, Effective, Cards
<1> QED
  BY <1>1, <1>2, <1>3, <1>4, <1>5

LEMMA LaunchedStep == Launching /\ Launched /\ UNCHANGED <<stage, found, home, static>> => Launching'
<1> SUFFICES ASSUME Launching, Launched, UNCHANGED <<stage, found, home, static>> PROVE Launching'
  OBVIOUS
<1> USE DEF Launching, Launched, Call, Refuse
<1>1. FilesType'
  BY ConfigAssumption, FilesAre DEF ConfigAssumption, FilesType, Bodies, Stages
<1>2. Stages'
  BY ConfigAssumption DEF FilesType, Stages
<1>3. Vouched'
  BY ConfigAssumption DEF FilesType, Stages, Vouched, Journals, Made
<1>4. Journals'
  BY Ranks DEF FilesType, Journals, Made, Vouched
<1>5. Made'
  BY ConfigAssumption, FilesAre DEF FilesType, Stages, Vouched, Journals, Made, Effective, Cards
<1> QED
  BY <1>1, <1>2, <1>3, <1>4, <1>5

LEMMA PowerLossStep == Launching /\ PowerLoss /\ UNCHANGED <<stage, found, home, static>> => Launching'
<1> SUFFICES ASSUME Launching, PowerLoss, UNCHANGED <<stage, found, home, static>> PROVE Launching'
  OBVIOUS
<1> USE DEF Launching, PowerLoss, Botched, Mishap, Call, Refuse
<1>1. FilesType'
  BY ConfigAssumption, FilesAre DEF ConfigAssumption, FilesType, Bodies, Stages
<1>2. Stages'
  BY ConfigAssumption DEF FilesType, Stages
<1>3. Vouched'
  BY ConfigAssumption DEF FilesType, Stages, Vouched, Journals, Made
<1>4. Journals'
  BY Ranks DEF FilesType, Journals, Made, Vouched
<1>5. Made'
  BY ConfigAssumption, FilesAre DEF FilesType, Stages, Vouched, Journals, Made, Effective, Cards
<1> QED
  BY <1>1, <1>2, <1>3, <1>4, <1>5

LEMMA PickGameStep == Launching /\ KeptType /\ PickGame => Launching'
<1> SUFFICES ASSUME Launching, KeptType, PickGame PROVE Launching'
  OBVIOUS
<1> USE DEF Launching, PickGame, Call
<1>1. FilesType'
  <2>1. static' \in Addresses \union {NoAddress}
    BY DEF KeptType, Configs
  <2> QED
    BY <2>1, FilesAre DEF FilesType, Untorn, Contents
<1>2. Stages'
  BY DEF Stages
<1>3. Vouched'
  BY DEF FilesType, Stages, Vouched, Untorn, Empty
<1>4. Journals'
  BY DEF FilesType, Stages, Journals, Empty
<1>5. Made'
  BY DEF Made
<1> QED
  BY <1>1, <1>2, <1>3, <1>4, <1>5

LEMMA PickAgainStep == Launching /\ PickAgain => Launching'
<1> SUFFICES ASSUME Launching, PickAgain PROVE Launching'
  OBVIOUS
<1> USE DEF Launching, PickAgain, Call
<1>1. FilesType'
  BY FilesAre DEF FilesType
<1>2. Stages'
  BY DEF Stages
<1>3. Vouched'
  BY DEF FilesType, Vouched
<1>4. Journals'
  BY Ranks DEF FilesType, Journals
<1>5. Made'
  BY DEF Made
<1> QED
  BY <1>1, <1>2, <1>3, <1>4, <1>5

\* Nothing that concerns the files changes.
LEMMA FilesStillStep == Launching /\ UNCHANGED configVars => Launching'
BY DEF Launching, FilesType, Stages, Vouched, Journals, Made, Effective, configVars

LEMMA PrepareStep == Launching /\ Prepare => Launching'
BY CleanUpStep, CleanedUpStep, UseFileStep, MakeFileStep, WriteJournalStep, WriteFileStep, FinishStep,
   UndoStep, UndoneStep, LaunchedStep, PowerLossStep
   DEF Prepare

-----------------------------------------------------------------------------
(* The whole.                                                              *)

IInv == Network /\ Launching

LEMMA InitOK == ConfigInit => IInv
<1> SUFFICES ASSUME ConfigInit PROVE IInv
  OBVIOUS
<1>1. Network
  BY NetInit DEF ConfigInit
<1>2. Empty \in Untorn /\ Empty \in [Files -> {"none", "torn", "whole"}] /\ \A f \in Files : Empty[f] = "none"
  BY DEF Empty, Untorn, Contents, Bodies
<1>3. FilesType
  BY <1>2, FilesAre, ConfigAssumption DEF ConfigAssumption, ConfigInit, FilesType, Untorn, Contents, Cards
<1>4. Stages /\ Vouched /\ Journals /\ Made
  BY <1>2 DEF ConfigInit, Stages, Vouched, Journals, Made
<1> QED
  BY <1>1, <1>3, <1>4 DEF IInv, Launching

LEMMA NextOK == IInv /\ [ConfigNext]_allVars => IInv'
<1> SUFFICES ASSUME IInv, [ConfigNext]_allVars PROVE IInv'
  OBVIOUS
<1>1. CASE stage = "net" /\ Next /\ UNCHANGED configVars
  BY <1>1, NextStep, FilesStillStep DEF IInv
<1>2. CASE PickGame
  BY <1>2, ForgottenStep, PickGameStep DEF IInv, PickGame, Network
<1>3. CASE PickAgain
  BY <1>3, StillStep, PickAgainStep DEF IInv, PickAgain
<1>4. CASE Prepare
  BY <1>4, StillStep, PrepareStep DEF IInv, Prepare
<1>5. CASE UNCHANGED allVars
  BY <1>5, StillStep, FilesStillStep DEF IInv, allVars
<1> QED
  BY <1>1, <1>2, <1>3, <1>4, <1>5 DEF ConfigNext

LEMMA Inductive == ConfigSpec => []IInv
BY InitOK, NextOK, PTL DEF ConfigSpec

-----------------------------------------------------------------------------
(* The theorems.                                                           *)

\* Every variable stays in its type: the files hold what belongs in them or a part of it, and
\* the counts stay in their bounds (luasystem.cpp, PrepareUdpfsConfig).
THEOREM TypeCorrect == ConfigSpec => []ConfigTypeOK
<1>1. IInv => TypeOK
  BY DEF IInv, Network, FlowType, Flags, KeptType, TypeOK
<1>2. IInv => ConfigTypeOK
  BY <1>1 DEF IInv, Launching, FilesType, ConfigTypeOK, Contents, Writing
<1> QED
  BY <1>2, Inductive, PTL

\* Whatever loads, half loads or fails to, one stack drives the chip, and its modules are loaded
\* once (EnsureNet, lua_udpfs_init).
THEOREM OneStack == ConfigSpec => []OneStackOnTheChip
<1>1. IInv => OneStackOnTheChip
  <2> SUFFICES ASSUME IInv PROVE OneStackOnTheChip
    OBVIOUS
  <2>1. loads["smap"] \in Nat /\ loads["udpfs_smap"] \in Nat
    BY ModulesAre DEF IInv, Network, KeptType, Ministack
  <2> QED
    BY <2>1 DEF IInv, Network, Chip, Ministack, OneStackOnTheChip
<1> QED
  BY <1>1, Inductive, PTL

\* A connection that came to nothing leaves no session logged on (InitSMBPopsRoot).
THEOREM SessionsAreClosed == ConfigSpec => []NoHalfOpenSession
<1>1. IInv => NoHalfOpenSession
  BY DEF IInv, Network, Session, NoHalfOpenSession
<1> QED
  BY <1>1, Inductive, PTL

\* A UDPFS list is shown by a stack with the address of now, and a refreshed SMB list by a log-on
\* over no earlier session (initUDPFS, ui.lua:4092).
THEOREM ListsAreFresh == ConfigSpec => ListsAreServedAfresh
<1>1. IInv /\ [ConfigNext]_allVars =>
        [/\ pc = "udpfs" /\ ok' /\ ~ok => stackIp' = cfg.ip
         /\ pc = "logon" /\ session' = "logged" /\ ~entering => session = "none"]_vars
  <2> SUFFICES ASSUME IInv, [ConfigNext]_allVars, vars' # vars
               PROVE  /\ pc = "udpfs" /\ ok' /\ ~ok => stackIp' = cfg.ip
                      /\ pc = "logon" /\ session' = "logged" /\ ~entering => session = "none"
    OBVIOUS
  <2>1. pc = "logon" /\ ~entering => session = "none"
    BY DEF IInv, Network, Session, OverSmb
  <2>2. ASSUME pc = "udpfs", ok', ~ok PROVE stackIp' = cfg.ip
    <3>1. Next
      BY <2>2 DEF ConfigNext, PickGame, PickAgain, Prepare, allVars, vars
    <3>2. InitUdpfsStart \/ LoadUdpfs
      BY <2>2, <3>1 DEF Next, Loads, NetUp, Connect, Scenes, EnsureNetStart, LoadSmb, LinkUp, Relink, Lease, Wait,
         LinkModeSet, LinkModeRefused, ApplyIPConfig, LogonFails, Logon, Echo, NoShare, OpenShare, PickShare,
         OpenSmb, OpenUdpfs, RefreshSmb, RefreshUdpfs, LeaveList, OpenSettings, CloseSettings, SaveToMenu, Restart
    <3>3. CASE InitUdpfsStart
      BY <2>2, <3>3 DEF InitUdpfsStart, UdpfsRefused, modules
    <3>4. CASE LoadUdpfs
      <4>1. at = 4 /\ UdpfsChain[at] # "ministack"
        <5>1. at # 4 => (ok' <=> ok)
          BY <3>4 DEF LoadUdpfs, UdpfsRefused
        <5> QED
          BY <2>2, <5>1 DEF UdpfsChain
      <4> QED
        BY <2>2, <3>4, <4>1 DEF LoadUdpfs, UdpfsRefused, IInv, Network, InChain
    <3> QED
      BY <3>2, <3>3, <3>4
  <2> QED
    BY <2>1, <2>2
<1> QED
  BY <1>1, Inductive, PTL DEF ConfigSpec, ListsAreServedAfresh

\* No torn file is used or left without its journal, none that was found is touched, and a launch
\* that goes on has the menu's address (PrepareUdpfsConfig).
THEOREM FilesAreWhole == ConfigSpec => []ConfigsAreWhole
<1>1. IInv => ConfigsAreWhole
  <2> SUFFICES ASSUME IInv PROVE ConfigsAreWhole
    OBVIOUS
  <2>1. \A n \in Names : Effective(n) \in Files
    BY DEF Effective, Files, Cards
  <2> QED
    BY <2>1 DEF IInv, Launching, Vouched, Journals, Made, ConfigsAreWhole, Names
<1> QED
  BY <1>1, Inductive, PTL

-----------------------------------------------------------------------------
(* A connection's steps are numbered.                                      *)

(* The stages from here to the connection's end.                            *)
StagesLeft ==
  CASE pc = "smb" -> 10 [] pc = "link" -> 9 [] pc = "mode" -> 8 [] pc = "relink" -> 7 [] pc = "address" -> 6
    [] pc = "lease" -> 5 [] pc = "logon" -> 4 [] pc = "echo" -> 3 [] pc = "share" -> 2 [] pc = "udpfs" -> 1
    [] OTHER -> 0

(* The modules or the tries that are left in this one.                      *)
LeftInStage ==
  CASE pc \in {"smb", "udpfs"} -> 8 - at [] pc \in {"link", "relink", "lease"} -> at [] OTHER -> 0

CountsDown ==
  \/ rounds < rounds'
  \/ rounds' = rounds /\ StagesLeft' < StagesLeft
  \/ rounds' = rounds /\ StagesLeft' = StagesLeft /\ LeftInStage' < LeftInStage

\* smbNetUp, connectSMB, initUDPFS and the shares offered after them: until it is back in the
\* menu a connection only goes on, by a round, a stage, a module or a try; the one way back is
\* a link mode that the adapter refuses.
ConnectionCounts == pc # "menu" /\ pc' # "menu" /\ ~ LinkModeRefused => CountsDown

LEMMA LoadsCount ==
  ASSUME Network, Loads, pc' # "menu"
  PROVE  CountsDown
<1>0. at \in Nat BY NetAssumption DEF NetAssumption, Network, FlowType
<1>1. CASE EnsureNetStart
  <2>1. pc = "smb" /\ at = 0 /\ UNCHANGED rounds BY <1>1 DEF EnsureNetStart, GiveUp, Goto
  <2>2. pc' = "link" \/ (pc' = "smb" /\ at' \in {1, 2, 8})
    BY <1>1 DEF EnsureNetStart, GiveUp, Goto, FirstLoad
  <2> QED BY <2>1, <2>2 DEF CountsDown, StagesLeft, LeftInStage
<1>2. CASE LoadSmb
  <2>1. pc = "smb" /\ at \in 1 .. 8 /\ UNCHANGED rounds BY <1>2 DEF LoadSmb, GiveUp, Goto
  <2>2. pc' = "link" \/ (pc' = "smb" /\ at' = at + 1)
    BY <1>2 DEF LoadSmb, GiveUp, Goto
  <2> QED BY <2>1, <2>2 DEF CountsDown, StagesLeft, LeftInStage
<1>3. CASE InitUdpfsStart
  <2>1. pc = "udpfs" /\ at = 0 /\ UNCHANGED rounds BY <1>3 DEF InitUdpfsStart
  <2>2. pc' = "udpfs" /\ at' \in {1, 2}
    BY <1>3 DEF InitUdpfsStart, UdpfsRefused, UdpfsShown, Goto, FirstLoad
  <2> QED BY <2>1, <2>2 DEF CountsDown, StagesLeft, LeftInStage
<1>4. CASE LoadUdpfs
  <2>1. pc = "udpfs" /\ at \in 1 .. 4 /\ UNCHANGED rounds BY <1>4 DEF LoadUdpfs
  <2>2. pc' = "udpfs" /\ at' = at + 1
    BY <1>4 DEF LoadUdpfs, UdpfsRefused, UdpfsShown, Goto
  <2> QED BY <2>1, <2>2 DEF CountsDown, StagesLeft, LeftInStage
<1> QED BY <1>1, <1>2, <1>3, <1>4 DEF Loads

LEMMA NetUpCounts ==
  ASSUME Network, NetUp, ~ LinkModeRefused, pc' # "menu"
  PROVE  CountsDown
<1>0. at \in Nat /\ MaxTries \in Nat BY NetAssumption DEF NetAssumption, Network, FlowType
<1>1. CASE LinkUp \/ Relink \/ Lease
  <2>1. PICK l \in {"link", "relink", "lease"} :
          /\ pc = l /\ UNCHANGED rounds
          /\ \/ l = "link" /\ pc' = "mode"
             \/ l = "relink" /\ pc' = "address"
             \/ l = "lease" /\ pc' = "logon"
             \/ at > 1 /\ pc' = l /\ at' = at - 1
    BY <1>1 DEF LinkUp, Relink, Lease, Wait, On, GiveUp, Goto
  <2> QED BY <1>0, <2>1 DEF CountsDown, StagesLeft, LeftInStage
<1>2. CASE LinkModeSet
  BY <1>2 DEF LinkModeSet, Goto, CountsDown, StagesLeft
<1>3. CASE ApplyIPConfig
  <2>1. pc = "address" /\ pc' \in {"lease", "logon"} /\ UNCHANGED rounds
    BY <1>3 DEF ApplyIPConfig, GiveUp, On, Goto
  <2> QED BY <2>1 DEF CountsDown, StagesLeft
<1> QED BY <1>1, <1>2, <1>3 DEF NetUp

LEMMA SharesCount ==
  ASSUME Network, Connect \/ PickShare, pc' # "menu"
  PROVE  CountsDown
<1>1. CASE Connect
  <2>1. /\ UNCHANGED rounds
        /\ \/ pc = "logon" /\ pc' = "echo"
           \/ pc = "echo" /\ pc' = "share"
           \/ pc = "share" /\ pc' = "pick"
    BY <1>1 DEF Connect, LogonFails, Logon, Echo, NoShare, OpenShare, GiveUpLoggedOff, Goto
  <2> QED BY <2>1 DEF CountsDown, StagesLeft
<1>2. CASE PickShare
  <2>1. rounds' = rounds + 1 /\ rounds \in Nat
    BY <1>2, NetAssumption DEF NetAssumption, PickShare, Goto, Network, FlowType
  <2> QED BY <2>1 DEF CountsDown
<1> QED BY <1>1, <1>2

\* Whatever the link, the server and the loads answer, a connection from the menu or a refresh
\* comes nearer its end: rounds, stages and what is left of one are bounded, and every step of it
\* uses some up, but for a link mode that the driver refuses, after which the link is waited for
\* anew.
THEOREM ConnectionsRunOut ==
  ConfigSpec => /\ [](StagesLeft \in 0 .. 10 /\ LeftInStage \in 0 .. 8 + MaxTries /\ rounds \in 0 .. MaxRounds)
                /\ [][ConnectionCounts]_vars
<1>1. IInv => StagesLeft \in 0 .. 10 /\ LeftInStage \in 0 .. 8 + MaxTries /\ rounds \in 0 .. MaxRounds
  <2> SUFFICES ASSUME IInv
               PROVE  StagesLeft \in 0 .. 10 /\ LeftInStage \in 0 .. 8 + MaxTries /\ rounds \in 0 .. MaxRounds
    OBVIOUS
  <2>1. MaxTries \in Nat BY NetAssumption DEF NetAssumption
  <2>2. at \in 0 .. 8 + MaxTries /\ rounds \in 0 .. MaxRounds /\ (pc \in {"smb", "udpfs"} => at <= 8)
    BY <2>1 DEF IInv, Network, FlowType, InChain
  <2> QED BY <2>1, <2>2 DEF StagesLeft, LeftInStage
<1>2. IInv /\ [ConfigNext]_allVars => [ConnectionCounts]_vars
  <2> SUFFICES ASSUME IInv, [ConfigNext]_allVars, vars' # vars, pc # "menu", pc' # "menu", ~ LinkModeRefused
               PROVE  CountsDown
    BY DEF ConnectionCounts
  <2>1. Next BY DEF ConfigNext, PickGame, PickAgain, Prepare, allVars, vars
  <2>2. Loads \/ NetUp \/ Connect \/ PickShare
    BY <2>1 DEF Next, Scenes, OpenSmb, OpenUdpfs, RefreshSmb, RefreshUdpfs, LeaveList, OpenSettings, CloseSettings,
       SaveToMenu, Restart
  <2> QED BY <2>2, LoadsCount, NetUpCounts, SharesCount DEF IInv
<1> QED BY <1>1, <1>2, Inductive, PTL DEF ConfigSpec
=============================================================================
