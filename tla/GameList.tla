------------------------------ MODULE GameList ------------------------------
(***************************************************************************)
(* The game lists and their caches (system.lua) and what the list scene    *)
(* does with them (ui.lua): a page is opened from a cache or by a scan,    *)
(* R1 scans again, R3 shows the hidden games for a while, L3 hides a game  *)
(* or shows it, and Settings changes what a list leaves out.               *)
(*                                                                         *)
(* Two pages stand for the two kinds.  The hard drive's list is kept in    *)
(* memory for the session and, when the option is on, in                   *)
(* hdd_gamecache.txt; every other device only has a .gamecache beside its  *)
(* games, written by WriteAtomic.  The power may go at any moment: what a  *)
(* save can leave then is among its outcomes, and PowerOn follows.         *)
(* Bounds: nobody else edits a device while the console has it, and every  *)
(* game of the drive has a partition of its own.                           *)
(***************************************************************************)
EXTENDS Integers, FiniteSets

CONSTANTS
  DriveGames, CardGames, \* what is on the devices
  Secondary,             \* the second and later discs among them
  NoFile,
  Rooms      \* bound: which devices have room for a cache; the others refuse it

Pages == {"hdd", "card"}

ASSUME ListAssumption ==
  Secondary \subseteq DriveGames \union CardGames /\ Rooms \subseteq SUBSET Pages

Of(p)   == {p} \X (IF p = "hdd" THEN DriveGames ELSE CardGames)
Entries == Of("hdd") \union Of("card")

VARIABLES
  room,
  hides,   \* the games with a .hide file
  files,   \* the cache of each page
  opts,    \* the saved settings: hide, collapse, cache
  live,    \* PLDR.GLOBAL_HIDE
  kept,    \* PLDR._GLOBAL_HIDE_SAVED, "none" while no reveal is on
  reveal,  \* UI.RevealHidden
  rows, marks, \* PLDR.GAMES and PLDR.HIDDEN
  memo, memoMarks, \* PLDR.HDDCACHE and PLDR.HDDCACHE_HIDDEN
  rebuild, \* UI.PendingHideRebuild
  scene,
  under,   \* history: the filters the rows were chosen by
  strayed, \* history: pages whose cache missed a change of a .hide file, or was not written whole
  lacking  \* history: the others whose last list was short, or saved under filters it was not chosen by

listVars == <<room, hides, files, opts, live, kept, reveal, rows, marks, memo, memoMarks, rebuild, scene,
              under, strayed, lacking>>

Filters == [hide : BOOLEAN, collapse : BOOLEAN]
Caches  == [sig : Filters, rows : SUBSET Entries, marks : SUBSET Entries]

ListTypeOK ==
  /\ room \subseteq Pages /\ hides \subseteq Entries /\ files \in [Pages -> Caches \union {NoFile}]
  /\ opts \in [hide : BOOLEAN, collapse : BOOLEAN, cache : BOOLEAN]
  /\ live \in BOOLEAN /\ kept \in {"none", "on", "off"} /\ reveal \in BOOLEAN
  /\ rows \subseteq Entries /\ marks \subseteq Entries
  /\ memo \in (SUBSET Entries) \union {NoFile} /\ memoMarks \subseteq Entries
  /\ rebuild \in BOOLEAN /\ scene \in Pages \union {"menu"}
  /\ under \in Filters /\ strayed \subseteq Pages /\ lacking \subseteq Pages

\* The filters of a scan made now.
Filter(hide) == [hide |-> hide, collapse |-> opts.collapse]

\* Mutant: the signature says nothing of the collapsed discs.
Signature_NoDiscs(hide) == [hide |-> hide, collapse |-> FALSE]

\* GameListCacheSignature.
Signature(hide) == Filter(hide)

Filtered(sig, got) ==
  {e \in got : ~(sig.hide /\ e \in hides) /\ ~(sig.collapse /\ e[2] \in Secondary)}

-----------------------------------------------------------------------------
(* The caches.                                                             *)

Emptied(p) == [files EXCEPT ![p] = NoFile]

\* The removal in WipeCache may fail, and nobody is told.
Wiped(p) == {files, Emptied(p)}

\* What a save that did not go through may leave: lines of the new file and, on the drive, of the old.
\* The drive's is written in place and not cut to its new length (FCREATE has no O_TRUNC), so the end
\* of a longer one stays; a short one is removed, if that works; and without power either is short.
\* (A line cut in two names no game, a mark of a game not listed says nothing, and a file that lists
\* no game is no cache.)
Mixed(p, old, new) ==
  LET was == IF p = "hdd" /\ old # NoFile THEN old ELSE new
  IN {c \in [sig : {new.sig}, rows : SUBSET (new.rows \union was.rows),
                              marks : SUBSET (new.marks \union was.marks)] :
        c.rows # {} /\ c.marks \subseteq c.rows}

\* System.openFile, writeFile, closeFile, removeFile and, on the card, WriteAtomic: refused, whole, a
\* mixture, or no file.
Outcomes(p, old, new) ==
  {old} \union IF p \in room THEN {new, NoFile} \union Mixed(p, old, new) ELSE {}

\* SaveGameListCache and CreateCache: the card's file takes every mark, the drive's those of its rows.
Written(p, hide, rs, ms) ==
  [sig |-> Signature(hide), rows |-> rs, marks |-> IF p = "hdd" THEN ms \intersect rs ELSE ms]

SaveCache(p, base, hide, rs, ms) ==
  IF ~opts.cache THEN files' = base
  ELSE \E c \in Outcomes(p, base[p], Written(p, hide, rs, ms)) : files' = [base EXCEPT ![p] = c]

\* LoadGameListCache and ReadCache: the option, the signature, at least one game.
Accepted(p) ==
  opts.cache /\ files[p] # NoFile /\ files[p].sig = Signature(live) /\ files[p].rows # {}

\* System.listDirectory: every entry, or nil for a directory that does not open.  On the drive each
\* game's partition may fail to mount, twice.
Listing(p) == IF p = "card" THEN {Of(p), {}} ELSE SUBSET Of(p)

\* The cache of p says what the list says, or there is none.
Fresh(p) ==
  files'[p] # NoFile =>
    /\ files'[p].sig = Signature(under'.hide) /\ files'[p].rows = rows'
    /\ files'[p].marks \intersect rows' = marks' \intersect rows'

\* What the scan of p found, from a list that was emptied.
Found(p, hide, got, old) ==
  LET shown == Filtered(Filter(hide), got)
  IN /\ rows' = shown /\ marks' = old \union (shown \intersect hides) /\ under' = Filter(hide)
     /\ strayed' = IF Fresh(p) THEN strayed \ {p}
                   ELSE IF files'[p] = files[p] THEN strayed ELSE strayed \union {p}
     /\ lacking' = (IF got # Of(p) THEN lacking \union {p}
                    ELSE IF Fresh(p) THEN lacking \ {p} ELSE lacking) \ strayed'

\* GetPS1GameLists, BuildMassGameListByType, and the save the page makes of it.
ScanCard(hide, old) ==
  \E got \in Listing("card") :
    LET shown == Filtered(Filter(hide), got)
    IN /\ SaveCache("card", files, hide, shown, old \union (shown \intersect hides))
       /\ Found("card", hide, got, old) /\ UNCHANGED <<memo, memoMarks>>

\* The scan of EnsureGameList: the list is remembered, unless a step of it faulted.
ScanDrive(base, hide) ==
  \E got \in Listing("hdd"), faulted \in BOOLEAN :
    LET shown == Filtered(Filter(hide), got)
    IN /\ IF faulted THEN files' = base ELSE SaveCache("hdd", base, hide, shown, shown \intersect hides)
       /\ Found("hdd", hide, got, {})
       /\ memo' = IF faulted THEN NoFile ELSE shown
       /\ memoMarks' = IF faulted THEN {} ELSE shown \intersect hides

-----------------------------------------------------------------------------
(* Opening a page.                                                         *)

\* Mutant: the marks of the list before stay (the fault CleanupGameList's comment tells of).
Cleanup_Rows == marks

\* CleanupGameList: the marks a scan starts from.
Cleanup == {}

\* ApplyGameListCache and ApplyCachedList: rows and marks as they were kept.
Apply(p, rs, ms) ==
  /\ rows' = rs /\ marks' = ms
  /\ under' = Filter(live) /\ UNCHANGED <<files, strayed, lacking>>

OpenCard ==
  /\ scene = "menu" /\ scene' = "card"
  /\ IF Accepted("card")
     THEN Apply("card", files["card"].rows, files["card"].marks) /\ UNCHANGED <<memo, memoMarks>>
     ELSE ScanCard(live, Cleanup)
  /\ UNCHANGED <<room, hides, opts, live, kept, reveal, rebuild>>

\* No card: the list is emptied and the menu stays.
NoCard ==
  /\ scene = "menu" /\ rows' = {} /\ marks' = Cleanup
  /\ UNCHANGED <<room, hides, files, opts, live, kept, reveal, memo, memoMarks, rebuild, scene, under,
                 strayed, lacking>>

\* EnsureGameList: the session's list, the file, or a scan.
OpenDrive ==
  /\ scene = "menu" /\ scene' = "hdd"
  /\ IF memo # NoFile THEN Apply("hdd", memo, memoMarks) /\ UNCHANGED <<memo, memoMarks>>
     ELSE IF Accepted("hdd")
     THEN /\ Apply("hdd", files["hdd"].rows, files["hdd"].marks)
          /\ memo' = files["hdd"].rows /\ memoMarks' = files["hdd"].marks
     ELSE ScanDrive(files, live)
  /\ UNCHANGED <<room, hides, opts, live, kept, reveal, rebuild>>

-----------------------------------------------------------------------------
(* The list scene.                                                         *)

\* R1, pressed or raised: a scan, whatever is cached; on the drive WipeCache goes first.
Rescan(hide) ==
  IF scene = "hdd" THEN \E base \in Wiped("hdd") : ScanDrive(base, hide) ELSE ScanCard(hide, Cleanup)

Refresh ==
  /\ scene \in Pages /\ Rescan(live) /\ rebuild' = FALSE
  /\ UNCHANGED <<room, hides, opts, live, kept, reveal, scene>>

Real == IF kept = "none" THEN live ELSE kept = "on"

\* R3: only with the hide setting on.  The setting itself is put aside, not changed.
Reveal ==
  /\ scene \in Pages /\ Real
  /\ reveal' = ~reveal /\ kept' = "on" /\ live' = reveal
  /\ Rescan(live') /\ rebuild' = FALSE
  /\ UNCHANGED <<room, hides, opts, scene>>

\* SetGameHidden, SetHddGameHidden: the .hide file, the mark, and the cache written again from the
\* list on the screen; the row itself leaves the list with the next frame (PendingHideDrop).
Toggle(e) ==
  LET p == scene
      Flip(set) == IF e \in marks THEN set \ {e} ELSE set \union {e}
      gone == e \notin marks /\ live /\ ~reveal
      whole == Written(p, live, rows, Flip(marks))
  IN /\ hides' = Flip(hides) /\ marks' = Flip(marks)
     /\ memoMarks' = IF p = "hdd" THEN Flip(memoMarks) ELSE memoMarks
     /\ SaveCache(p, files, live, rows, Flip(marks))
     /\ rows' = IF gone THEN rows \ {e} ELSE rows
     /\ under' = [under EXCEPT !.hide = @ \/ gone]
     /\ strayed' = IF files'[p] \in {NoFile, whole} THEN strayed ELSE strayed \union {p}
     /\ lacking' = (IF files'[p] = whole /\ under # Filter(live) THEN lacking \union {p} ELSE lacking)
                     \ strayed'
     /\ UNCHANGED <<room, opts, live, kept, reveal, memo, rebuild, scene>>

\* L3; a mark under the filter is refused, and a file that cannot be written changes nothing.
Hide ==
  /\ scene \in Pages /\ ~rebuild
  /\ \E e \in rows : ~(live /\ ~reveal /\ e \in marks) /\ Toggle(e)

\* BACK: the setting comes back and the reveal ends with the visit.
Leave ==
  /\ scene \in Pages /\ scene' = "menu"
  /\ live' = Real /\ kept' = "none" /\ reveal' = FALSE
  /\ under' = [hide |-> FALSE, collapse |-> FALSE]
  /\ UNCHANGED <<room, hides, files, opts, rows, marks, memo, memoMarks, rebuild, strayed, lacking>>

\* START and what is saved there (bound: one option a visit).  A reveal is cancelled on the way in,
\* and the list built again on the way back; CommitSettingsChanges wipes the drive's cache when a
\* filter changed, and nothing builds the list on the screen again for that.
Settings ==
  \E new \in {opts, [opts EXCEPT !.hide = ~@], [opts EXCEPT !.collapse = ~@], [opts EXCEPT !.cache = ~@]} :
    LET wiped == new.hide # opts.hide \/ new.collapse # opts.collapse
    IN /\ opts' = new /\ live' = new.hide
       /\ kept' = "none" /\ reveal' = FALSE /\ rebuild' = (rebuild \/ kept # "none")
       /\ files' \in IF wiped THEN Wiped("hdd") ELSE {files}
       /\ memo' = IF wiped THEN NoFile ELSE memo
       /\ memoMarks' = IF wiped THEN {} ELSE memoMarks
       /\ UNCHANGED <<room, hides, rows, marks, scene, under, strayed, lacking>>

\* The console is switched off and on: the settings, the .hide files and the caches stay.
PowerOn ==
  /\ live' = opts.hide /\ kept' = "none" /\ reveal' = FALSE
  /\ rows' = {} /\ marks' = {} /\ memo' = NoFile /\ memoMarks' = {} /\ rebuild' = FALSE
  /\ scene' = "menu" /\ under' = [hide |-> FALSE, collapse |-> FALSE]
  /\ UNCHANGED <<room, hides, files, opts, strayed, lacking>>

-----------------------------------------------------------------------------
ListInit ==
  /\ room \in Rooms /\ hides = {} /\ files = [p \in Pages |-> NoFile]
  /\ opts \in [hide : BOOLEAN, collapse : BOOLEAN, cache : BOOLEAN]
  /\ live = opts.hide /\ kept = "none" /\ reveal = FALSE
  /\ rows = {} /\ marks = {} /\ memo = NoFile /\ memoMarks = {} /\ rebuild = FALSE
  /\ scene = "menu" /\ under = [hide |-> FALSE, collapse |-> FALSE]
  /\ strayed = {} /\ lacking = {}

ListNext ==
  OpenCard \/ NoCard \/ OpenDrive \/ Refresh \/ Reveal \/ Hide \/ Leave \/ Settings \/ PowerOn

ListSpec == ListInit /\ [][ListNext]_listVars

-----------------------------------------------------------------------------
(* The marks of a list are those of its own device: none comes over from   *)
(* the page before (CleanupGameList's comment tells of a list cache with a *)
(* mark for a game that had no .hide file), and for the games listed they  *)
(* agree with the .hide files, whether the list was scanned, kept in       *)
(* memory or read from a cache of any age, also one that could not be      *)
(* wiped.  Left out are a cache that missed a change (a game was hidden    *)
(* while caching was off, or the cache could not be written again) and one *)
(* that was not written whole: cut off by the power, or on the drive the   *)
(* end of a longer one before it, so that a game shown again may keep its  *)
(* mark there.                                                             *)
MarksAreTheirs ==
  scene \in Pages =>
    /\ marks \subseteq Of(scene)
    /\ scene \notin strayed => marks \intersect rows = hides \intersect rows

(* A game that neither filter leaves out is in the list, through every     *)
(* change of the filters, reveal, hide and restart, and past every removal *)
(* of a cache that failed.  Left out, until a whole list was saved whole,  *)
(* are a list that was short when it was scanned, one saved again under    *)
(* filters it was not chosen by, and a cache that was not written whole:   *)
(* LoadGameListCache and ReadCache take one that begins right and names a  *)
(* game, however short it is.                                              *)
NoGameLost ==
  scene \in Pages \ (lacking \union strayed) =>
    Filtered(under, Of(scene)) \subseteq rows
=============================================================================
