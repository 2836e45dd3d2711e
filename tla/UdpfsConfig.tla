---------------------------- MODULE UdpfsConfig ----------------------------
(***************************************************************************)
(* The launch of a game from the UDPFS list (PLDR.PrepareUdpfsConfig,      *)
(* system.lua): POPStarter's own network drivers read two files from       *)
(* SYS-CONF on a memory card, the first card's before the second's.  Files *)
(* that are there are used as they are; a missing one is made, under a     *)
(* journal that is written before it and removed after it, and that the    *)
(* next launch goes by, whatever ended this one.                           *)
(*                                                                         *)
(* A write that fails, or that the power ends, leaves what WriteAtomic can *)
(* leave of a new file: nothing, a part, or all.  Bounds: once a game is   *)
(* launched NetStack's part is over and is dropped; what is on the cards   *)
(* is chosen then; nobody else edits the cards.                            *)
(***************************************************************************)
EXTENDS NetStack

CONSTANT MaxMishaps  \* bound: file calls that fail and power losses

ASSUME ConfigAssumption == MaxMishaps \in Nat /\ {"none", "torn"} \cap Addresses = {}

VARIABLES
  stage,     \* "net", or "launch" once a game of the list was picked
  file,      \* the two files on both cards: the address in it, "set", "torn" or "none"
  journal,   \* each file's .pldr-pending: "none", "torn" or "whole"
  found,     \* history: the files as the console found them
  home,      \* the card with the POPSTARTER folder
  static,    \* what UdpfsStaticIp gives: the address, or NoAddress
  step, cur, \* the file call that is next, and the file it is about
  mishaps

configVars == <<stage, file, journal, found, home, static, step, cur, mishaps>>
allVars == <<vars, configVars>>

Cards == {"mc0", "mc1"}
Names == {"IPCONFIG", "UDPFSCONFIG"}
Files == Cards \X Names
Order == << <<"mc0", "IPCONFIG">>, <<"mc0", "UDPFSCONFIG">>, <<"mc1", "IPCONFIG">>, <<"mc1", "UDPFSCONFIG">> >>
Bodies(f) == IF f[2] = "IPCONFIG" THEN Addresses ELSE {"set"}
Contents == {c \in [Files -> Addresses \union {"set", "none", "torn"}] : \A f \in Files : c[f] \in Bodies(f) \union {"none", "torn"}}
Untorn   == {c \in Contents : \A f \in Files : c[f] # "torn"}
Empty    == [f \in Files |-> "none"]

Writing == {"journal", "write"}

ConfigTypeOK ==
  /\ TypeOK /\ stage \in {"net", "launch"}
  /\ file \in Contents /\ found \in Untorn /\ journal \in [Files -> {"none", "torn", "whole"}]
  /\ home \in Cards /\ static \in Addresses \union {NoAddress}
  /\ step \in Writing \union {"off", "clean", "cleaned", "look", "undo", "undone", "finish", "go"}
  /\ cur \in Files /\ mishaps \in 0 .. MaxMishaps

ConfigInit ==
  /\ Init
  /\ stage = "net" /\ file = Empty /\ journal = Empty /\ found = Empty
  /\ home = "mc0" /\ static = NoAddress /\ step = "off" /\ cur = Order[1] /\ mishaps = 0

(* Each file for itself: the first card's, if there is one.                  *)
Effective(n) == IF file[<<"mc0", n>>] # "none" THEN <<"mc0", n>> ELSE <<"mc1", n>>

-----------------------------------------------------------------------------
(* A game is picked: from the list, and after a refusal or a restart from a  *)
(* list that was opened again, under other settings perhaps.                *)

Forgotten ==
  /\ loads' = [m \in Modules |-> 0] /\ latched' = {} /\ stackIp' = NoAddress
  /\ linkMode' = "auto" /\ session' = "none" /\ scene' = "main" /\ transport' = "none" /\ back' = "main"
  /\ cfg' = [ip |-> NoAddress, dhcp |-> FALSE, share |-> FALSE, mode |-> "auto"]
  /\ pc' = "menu" /\ at' = 0 /\ entering' = TRUE /\ rounds' = 0 /\ ok' = FALSE

Call(s, f) == step' = s /\ cur' = f
Refuse == Call("off", cur)

PickGame ==
  /\ stage = "net" /\ pc = "menu" /\ scene = "list" /\ transport = "UDPFS"
  /\ stage' = "launch" /\ Forgotten
  /\ static' = IF cfg.dhcp THEN NoAddress ELSE cfg.ip
  /\ found' \in Untorn /\ file' = found'
  /\ home' \in Cards
  /\ Call("clean", Order[1])
  /\ UNCHANGED <<journal, mishaps>>

PickAgain ==
  /\ stage = "launch" /\ step = "off"
  /\ static' \in Addresses \union {NoAddress} /\ home' \in Cards
  /\ Call("clean", Order[1])
  /\ UNCHANGED <<vars, stage, file, journal, found, mishaps>>

-----------------------------------------------------------------------------
(* File calls.                                                             *)

Mishap == mishaps < MaxMishaps /\ mishaps' = mishaps + 1

Removed(files) == files' = [files EXCEPT ![cur] = "none"] /\ UNCHANGED mishaps
Stays(files)   == UNCHANGED files /\ Mishap

(* WriteBytesAtomicBounded, of a file that is not there.                     *)
Written(files, body) == files' = [files EXCEPT ![cur] = body] /\ UNCHANGED mishaps
Botched(files, body) == Mishap /\ \E left \in {"none", "torn", body} : files' = [files EXCEPT ![cur] = left]

-----------------------------------------------------------------------------
(* cleanup, on both cards before anything is looked at: a file under a whole *)
(* journal goes, then the journal; a journal that is torn vouches for        *)
(* nothing, and the launch is refused.                                      *)

NextFile ==
  LET i == CHOOSE j \in 1 .. 4 : Order[j] = cur IN
  IF i < 4 THEN Call("clean", Order[i + 1])
  ELSE IF static = NoAddress THEN Refuse
  ELSE Call("look", Order[1])

CleanUp_JournalOnly ==
  /\ step = "clean"
  /\ \/ journal[cur] = "none" /\ NextFile /\ UNCHANGED <<file, mishaps>>
     \/ journal[cur] = "torn" /\ Refuse /\ UNCHANGED <<file, mishaps>>
     \/ journal[cur] = "whole" /\ (Removed(file) \/ Stays(file)) /\ Call("cleaned", cur)
  /\ UNCHANGED journal

CleanUp ==
  /\ step = "clean"
  /\ \/ journal[cur] = "none" /\ NextFile /\ UNCHANGED <<file, mishaps>>
     \/ journal[cur] = "torn" /\ Refuse /\ UNCHANGED <<file, mishaps>>
     \/ journal[cur] = "whole" /\ Removed(file) /\ Call("cleaned", cur)
     \/ journal[cur] = "whole" /\ Stays(file) /\ Refuse
  /\ UNCHANGED journal

CleanedUp ==
  /\ step = "cleaned"
  /\ \/ Removed(journal) /\ NextFile
     \/ Stays(journal) /\ Refuse
  /\ UNCHANGED file

-----------------------------------------------------------------------------
(* One name after the other.                                                *)

NextName == IF cur[2] = "IPCONFIG" THEN Call("look", Order[2]) ELSE Call("go", cur)

(* A file that is there: the address has to be the menu's.  Of a torn one    *)
(* as much may be left as is looked at.                                     *)
UseFile ==
  /\ step = "look" /\ file[Effective(cur[2])] # "none"
  /\ \/ (cur[2] = "IPCONFIG" => file[Effective(cur[2])] \in {static, "torn"}) /\ NextName /\ UNCHANGED mishaps
     \/ cur[2] = "IPCONFIG" /\ file[Effective(cur[2])] # static /\ Refuse /\ UNCHANGED mishaps
     \/ cur[2] = "IPCONFIG" /\ Mishap /\ Refuse     \* it cannot be read
  /\ UNCHANGED <<file, journal>>

(* There is none: IPCONFIG.DAT is made from the settings, UDPFSCONFIG.DAT    *)
(* from the server's, if it has one, and a short one.                       *)
MakeFile ==
  /\ step = "look" /\ file[Effective(cur[2])] = "none"
  /\ \/ Call("journal", <<home, cur[2]>>)
     \/ cur[2] = "UDPFSCONFIG" /\ (NextName \/ Refuse)
  /\ UNCHANGED <<file, journal, mishaps>>

WriteJournal ==
  /\ step = "journal"
  /\ \/ Written(journal, "whole") /\ Call("write", cur)
     \/ Botched(journal, "whole") /\ Refuse
  /\ UNCHANGED file

WriteFile ==
  /\ step = "write"
  /\ \E body \in IF cur[2] = "IPCONFIG" THEN {static} ELSE {"set"} :
       \/ Written(file, body) /\ Call("finish", cur)
       \/ Botched(file, body) /\ Call("undo", cur)
  /\ UNCHANGED journal

Finish ==
  /\ step = "finish"
  /\ \/ Removed(journal) /\ NextName
     \/ Stays(journal) /\ Refuse
  /\ UNCHANGED file

(* cleanup of the file that could not be written; the launch is refused.     *)
Undo ==
  /\ step = "undo"
  /\ \/ Removed(file) /\ Call("undone", cur)
     \/ Stays(file) /\ Refuse
  /\ UNCHANGED journal

Undone ==
  /\ step = "undone" /\ Refuse
  /\ Removed(journal) \/ Stays(journal)
  /\ UNCHANGED file

(* The game starts, or its drivers cannot be staged.                        *)
Launched == step = "go" /\ Refuse /\ UNCHANGED <<file, journal, mishaps>>

PowerLoss ==
  /\ stage = "launch" /\ step # "off" /\ Refuse
  /\ IF step = "journal" THEN Botched(journal, "whole") /\ UNCHANGED file
     ELSE IF step = "write" THEN UNCHANGED journal /\ Botched(file, IF cur[2] = "IPCONFIG" THEN static ELSE "set")
     ELSE Mishap /\ UNCHANGED <<file, journal>>

Prepare ==
  /\ CleanUp \/ CleanedUp \/ UseFile \/ MakeFile \/ WriteJournal \/ WriteFile
       \/ Finish \/ Undo \/ Undone \/ Launched \/ PowerLoss
  /\ UNCHANGED <<vars, stage, found, home, static>>

ConfigNext ==
  \/ stage = "net" /\ Next /\ UNCHANGED configVars
  \/ PickGame \/ PickAgain \/ Prepare

ConfigSpec == ConfigInit /\ [][ConfigNext]_allVars /\ Fairness

-----------------------------------------------------------------------------
(* Whatever write fails and wherever the power goes, a file that is torn is  *)
(* under a whole journal, so that no launch goes on with it; the files the   *)
(* console was found with stay as they are, on either card; and a launch     *)
(* that goes on has the menu's own address in the file that counts           *)
(* (PrepareUdpfsConfig).                                                     *)
ConfigsAreWhole ==
  /\ \A f \in Files :
       /\ file[f] = "torn" => journal[f] = "whole"
       /\ found[f] # "none" => file[f] = found[f]
  /\ step = "go" =>
       /\ file[Effective("IPCONFIG")] = static
       /\ file[Effective("UDPFSCONFIG")] # "torn"
=============================================================================
