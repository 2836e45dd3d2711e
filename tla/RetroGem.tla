------------------------------ MODULE RetroGem ------------------------------
(***************************************************************************)
(* The game id for the Retro GEM (retrogem.cpp, ui.lua): it is read from   *)
(* the disc image once, just before a game is launched, and drawn into the *)
(* picture for some frames; the mod reads it off the video output and      *)
(* selects the settings of that game.                                      *)
(*                                                                         *)
(* Sectors are read one by one and each read may fail (a short read, a     *)
(* sector of a mode that carries no data).  A disc is what its sectors     *)
(* hold; an id is where it was taken from.  Bound: images are small enough *)
(* for SYSTEM.CNF to take one sector per line.                             *)
(***************************************************************************)
EXTENDS Integers, Sequences, SequencesExt, FiniteSetsExt

CONSTANTS
  PvdSearch,   \* ISO_PVD_SEARCH, 16
  RootSectors, \* ISO_MAX_ROOT_SECTORS, 64
  Frames,      \* UI.RETROGEM_EMIT_FRAMES, 20
  Tokens       \* bound: the launch arguments there may be

ASSUME GemAssumption == PvdSearch \in Nat /\ RootSectors \in Nat /\ Frames \in Nat \ {0}

NoId == <<>>

\* The volume descriptors from sector 16 on; the sectors of the root directory; the lines of
\* SYSTEM.CNF; whether the creation time is in the table of discs without a name of their own.
Discs ==
  [volume : BoundedSeq({"primary", "other", "end"}, PvdSearch + 1),
   root   : BoundedSeq({"cnf", "files"}, RootSectors + 1),
   cnf    : BoundedSeq({"id", "exe", "other"}, 2),
   stamp  : BOOLEAN]

VARIABLES
  gem,    \* PLDR.RETROGEM_GAMEID: "on", "off", or "saved", whatever the settings file said
  args,   \* what the launcher passed, until it was read
  step, disc,
  titled, \* the file, or the partition for an IMAGE0.VCD, is named after a title id
  at,     \* the sector or line looked at
  err,    \* history: some read failed
  id, drawn

gemVars == <<gem, args, step, disc, titled, at, err, id, drawn>>

Steps == {"args", "settings", "idle", "volume", "root", "cnf", "again", "name", "draw", "done"}
Ids   == {NoId, <<"stamp">>, <<"name">>, <<"none">>} \union ({"boot"} \X Nat)

GemTypeOK ==
  /\ gem \in {"on", "off", "saved"} /\ args \in Seq(Tokens) /\ step \in Steps /\ disc \in Discs /\ titled \in BOOLEAN
  /\ at \in Nat /\ err \in BOOLEAN /\ id \in Ids /\ drawn \in 0 .. Frames

-----------------------------------------------------------------------------
(* The switch.                                                             *)

\* parseLaunchArgs, trimmed tokens: of the arguments for the GEM the last one counts.
LastOf(as) == FoldLeft(LAMBDA old, a : IF a = "-page=" THEN old ELSE a, "", as)

\* system.lua on System.getLaunchArgs: a value that says neither leaves the switch as it is.
ReadArgs ==
  /\ step = "args" /\ step' = "settings" /\ args' = <<>>
  /\ gem' = CASE LastOf(args) \in {"-retrogem", "-retrogem=on"} -> "on"
              [] LastOf(args) \in {"-noretrogem", "-retrogem=off"} -> "off"
              [] OTHER -> gem
  /\ UNCHANGED <<disc, titled, at, err, id, drawn>>

\* LoadSettingsNonFatal runs after that: the default, then what the file says, if it says so.
ReadSettings ==
  /\ step = "settings" /\ step' = "idle"
  /\ gem' = "saved"
  /\ UNCHANGED <<args, disc, titled, at, err, id, drawn>>

-----------------------------------------------------------------------------
(* Reading the image.                                                      *)

Go(s, n)  == step' = s /\ at' = n
Still     == UNCHANGED <<gem, args, disc, titled, drawn>>

\* retrogem_gameid_for_vcd: an image that does not open has only its name left.
OpenImage(d, t) ==
  /\ step = "idle" /\ gem # "off"
  /\ disc' = d /\ titled' = t /\ id' = NoId /\ drawn' = 0
  /\ \/ Go("volume", 1) /\ err' = FALSE
     \/ Go("name", 1) /\ err' = TRUE
  /\ UNCHANGED <<gem, args>>

\* rg_read_sector refused: the walk it was for has failed.
Unread(next) == Go(next, 1) /\ err' = TRUE /\ UNCHANGED id

\* rg_read_pvd: the primary descriptor, before the terminator and within the sectors searched.
Volume(found, without) ==
  LET kind == IF at > Len(disc.volume) THEN "other" ELSE disc.volume[at]
  IN IF at > PvdSearch \/ kind = "end" THEN Go(without, 1) /\ UNCHANGED <<err, id>>
     ELSE IF kind = "primary" THEN found
     ELSE Go(step, at + 1) /\ UNCHANGED <<err, id>>

FindVolume ==
  /\ step = "volume" /\ Still
  /\ Unread("again") \/ Volume(Go("root", 1) /\ UNCHANGED <<err, id>>, "again")

\* rg_read_system_cnf: the records of each sector, directories and records that do not fit passed
\* over; SYSTEM.CNF by name and version.
WalkRoot ==
  /\ step = "root" /\ Still
  /\ IF at > Len(disc.root) \/ at > RootSectors THEN Go("again", 1) /\ UNCHANGED <<err, id>>
     ELSE \/ Unread("again")
          \/ /\ IF disc.root[at] = "cnf" THEN Go("cnf", 1) ELSE Go("root", at + 1)
             /\ UNCHANGED <<err, id>>

\* Mutant: what BOOT names is taken for an id whatever it is.
Boots_Any(line) == line \in {"id", "exe"}

\* rg_id_from_name and rg_is_title_id on the value of a BOOT line: PSX.EXE is no id.
Boots(line) == line = "id"

\* rg_read_file and the lines of what it read: a file that breaks off is used as far as it goes.
ReadCnf ==
  /\ step = "cnf" /\ Still
  /\ IF at > Len(disc.cnf) THEN Go("again", 1) /\ UNCHANGED <<err, id>>
     ELSE \/ Unread("again")
          \/ IF Boots(disc.cnf[at]) THEN Go("draw", 1) /\ id' = <<"boot", at>> /\ UNCHANGED err
             ELSE Go("cnf", at + 1) /\ UNCHANGED <<err, id>>

\* rg_read_pvd_timestamp, after the descriptor was looked for a second time.
ReadStamp ==
  /\ step = "again" /\ Still
  /\ \/ Unread("name")
     \/ Volume(IF disc.stamp THEN Go("draw", 1) /\ id' = <<"stamp">> /\ UNCHANGED err
               ELSE Go("name", 1) /\ UNCHANGED <<err, id>>, "name")

\* Mutant: any name will do.
TakeName_Any ==
  /\ step = "name" /\ Still
  /\ Go("draw", 1) /\ id' = <<"name">>
  /\ UNCHANGED err

\* The last resort: the file name without POPStarter's prefix, or the partition's.
TakeName ==
  /\ step = "name" /\ Still
  /\ IF titled THEN Go("draw", 1) /\ id' = <<"name">> ELSE Go("done", 1) /\ UNCHANGED id
  /\ UNCHANGED err

\* EmitRetroGemGameId: retrogem_draw_gameid and a flip, for each of the frames.
Draw ==
  /\ step = "draw" /\ drawn' = drawn + 1
  /\ Go(IF drawn' = Frames THEN "done" ELSE "draw", 1)
  /\ UNCHANGED <<gem, args, disc, titled, err, id>>

Nothing == [volume |-> <<>>, root |-> <<>>, cnf |-> <<>>, stamp |-> FALSE]

GemInit ==
  /\ gem = "on" /\ args \in BoundedSeq(Tokens, 2) /\ step = "args"
  /\ disc = Nothing /\ titled = FALSE /\ at = 1 /\ err = FALSE /\ id = NoId /\ drawn = 0

GemNext ==
  \/ ReadArgs \/ ReadSettings \/ FindVolume \/ WalkRoot \/ ReadCnf \/ ReadStamp \/ TakeName \/ Draw

-----------------------------------------------------------------------------
(* What the disc says of itself, to a reader that no sector fails.         *)
Positions(s, x) == {i \in DOMAIN s : s[i] = x}

Described(d) ==
  \E i \in Positions(d.volume, "primary") : i <= PvdSearch /\ \A j \in Positions(d.volume, "end") : i < j

Named(d) ==
  Described(d) /\ \E i \in Positions(d.root, "cnf") : i <= RootSectors

OwnId(d) ==
  IF Named(d) /\ Positions(d.cnf, "id") # {} THEN <<"boot", Min(Positions(d.cnf, "id"))>>
  ELSE IF Described(d) /\ d.stamp THEN <<"stamp">> ELSE NoId

(* An id that is drawn is never a guess (ui.lua: a wrong one selects the   *)
(* settings of another game, which is worse than none).  It is the disc's  *)
(* own; with a sector that could not be read it may be the other id of the *)
(* disc, or that of a name of the right form; and a disc that says nothing *)
(* of itself is called what such a name says.                              *)
NeverAGuess ==
  drawn > 0 =>
    \/ id = OwnId(disc)
    \/ err /\ id = <<"stamp">> /\ Described(disc) /\ disc.stamp
    \/ id = <<"name">> /\ titled /\ (err \/ OwnId(disc) = NoId)
=============================================================================
