----------------------------- MODULE GameLaunch -----------------------------
(***************************************************************************)
(* From the list to the program: a row of a game list is picked            *)
(* (LaunchSelectedGame, ui.lua), the game's id is read and drawn, and the  *)
(* launch is handed off.  The parts follow one another, so what one leaves *)
(* behind is dropped where no later one looks at it, and what the disc and *)
(* the drives hold is chosen when it is first looked at.  Bound: a launch  *)
(* that comes back goes on in the last part.                               *)
(***************************************************************************)
EXTENDS GameList, RetroGem, ElfHandoff

CONSTANT Images  \* bound: the discs that are tried

ASSUME ImagesAssumption == Images \subseteq Discs

VARIABLE stage   \* "boot", "lists", "gem", "leaving", "launch"

launchVars == <<stage, listVars, gemVars, vars>>

LaunchTypeOK ==
  /\ stage \in {"boot", "lists", "gem", "leaving", "launch"} /\ ListTypeOK /\ TypeOK
  /\ stage \in {"boot", "gem"} => GemTypeOK

ForgetLists ==
  /\ room' = {} /\ hides' = {} /\ files' = [p \in Pages |-> NoFile]
  /\ opts' = [hide |-> FALSE, collapse |-> FALSE, cache |-> FALSE]
  /\ live' = FALSE /\ kept' = "none" /\ reveal' = FALSE
  /\ rows' = {} /\ marks' = {} /\ memo' = NoFile /\ memoMarks' = {} /\ rebuild' = FALSE
  /\ scene' = "menu" /\ under' = [hide |-> FALSE, collapse |-> FALSE]
  /\ strayed' = {} /\ lacking' = {}

ForgetGem ==
  /\ gem' = "saved" /\ args' = <<>> /\ step' = "idle" /\ disc' = Nothing /\ titled' = FALSE
  /\ at' = 1 /\ err' = FALSE /\ id' = NoId /\ drawn' = 0

\* What is where, and which partition POPSLoader runs from.
Placed ==
  /\ has' \in SUBSET (Stores \union Parts)
  /\ boot' \in Parts \union {NoPart} /\ hdd' = (boot' # NoPart)
  /\ mount' = [s \in Slots |-> IF s = BootSlot THEN boot' ELSE NoPart]
  /\ UNCHANGED <<mask, pc, job, asked, rpc, iop, memory, why>>

\* Boot: the arguments, then the settings, then the menu.
Boot ==
  /\ stage = "boot" /\ (ReadArgs \/ ReadSettings)
  /\ stage' = IF step = "settings" THEN "lists" ELSE "boot"
  /\ UNCHANGED <<listVars, vars>>

Browse ==
  /\ stage = "lists" /\ ListNext
  /\ UNCHANGED <<stage, gemVars, vars>>

\* A row is picked.
Pick ==
  /\ stage = "lists" /\ scene \in Pages /\ rows # {}
  /\ stage' = "gem" /\ ForgetLists
  /\ UNCHANGED <<gemVars, vars>>

\* With the switch on its image is opened, read, and the id drawn.
ReadAndDraw ==
  /\ stage = "gem"
  /\ \/ step = "idle" /\ \E d \in Images, t \in BOOLEAN : OpenImage(d, t)
     \/ FindVolume \/ WalkRoot \/ ReadCnf \/ ReadStamp \/ TakeName \/ Draw
  /\ UNCHANGED <<stage, listVars, vars>>

\* The launch goes on when that is done or the switch is off.
Drawn ==
  /\ stage = "gem" /\ step \in {"idle", "done"}
  /\ stage' = "leaving" /\ ForgetGem
  /\ UNCHANGED <<listVars, vars>>

\* Another program is started from the menu.
PickTool ==
  /\ stage = "lists"
  /\ stage' = "leaving" /\ ForgetLists
  /\ UNCHANGED <<gemVars, vars>>

HandOff ==
  /\ stage = "leaving" /\ stage' = "launch" /\ Placed
  /\ UNCHANGED <<listVars, gemVars>>

Launching ==
  /\ stage = "launch" /\ Next
  /\ UNCHANGED <<stage, listVars, gemVars>>

LaunchInit ==
  /\ stage = "boot" /\ ListInit /\ GemInit
  /\ has = {} /\ boot = NoPart /\ hdd = FALSE
  /\ mount = [s \in Slots |-> NoPart] /\ mask = {} /\ pc = "menu"
  /\ job = [tool |-> "boot", path |-> [dev |-> "card", slot |-> 0, part |-> NoPart], ctx |-> NoPart,
            argv |-> <<>>, size |-> 0, child |-> FALSE]
  /\ asked = job
  /\ rpc = "up" /\ iop = "live" /\ memory = "whole" /\ why = "none"

LaunchNext == Boot \/ Browse \/ Pick \/ ReadAndDraw \/ Drawn \/ PickTool \/ HandOff \/ Launching

LaunchSpec == LaunchInit /\ [][LaunchNext]_launchVars
=============================================================================
