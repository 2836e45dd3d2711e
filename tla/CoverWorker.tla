---------------------------- MODULE CoverWorker ----------------------------
(***************************************************************************)
(* Loading cover art off the render thread.                                *)
(*                                                                         *)
(*  - src/src/luagraphics.cpp keeps ONE resident EE thread                 *)
(*    (coverLoadThread), woken by a semaphore, and one request slot shared *)
(*    with the Lua thread through C statics: coverLoadState, -Token,       *)
(*    -Result, -Path, -TextPath, -TextLen/-TextBuf.                        *)
(*  - src/bin/POPSLDR/ui.lua's CoverCache is the only caller.  It decides  *)
(*    what to ask, adopts or drops what comes back, owns the decoded       *)
(*    textures and settles the worker before another ELF is launched.      *)
(*                                                                         *)
(* The worker outranks the Lua thread and blocks in fopen, so it can run   *)
(* between any two C calls of one Lua function: every C call that reads or *)
(* writes the slot is a step of its own (uiPc).                            *)
(***************************************************************************)
EXTENDS Integers, Sequences, FiniteSets, Functions

CONSTANTS
  Games,          \* selectable list rows
  HddGames,       \* those whose art is resolved on hdd0:__common (use_hdd_common_art)
  Covers,         \* [Games -> Seq(path)]: BuildCoverCandidates
  Icons,          \* [Games -> Seq(path)]: BuildIconCandidates
  Sidecar,        \* [Games -> path]: the details .txt
  EmptyPath,      \* "", the image path of a text-only job
  NONE,           \* nil, NULL
  ReadFailed,     \* coverLoadTextLen = -1
  MaxEntries,     \* CoverCache.max (4)
  MaxTextures,    \* bound: textures the EE heap has room for
  MaxRetries,     \* Pump's bound on a refused request (60)
  QuiesceFrames,  \* Quiesce's bound (120)
  TokenBound      \* bound: request ids are reused after TokenBound requests

ArtPaths == UNION {Range(Covers[g]) \union Range(Icons[g]) : g \in Games}
Sidecars == {Sidecar[g] : g \in Games}
Tokens   == 1 .. TokenBound
Textures == 1 .. MaxTextures

\* CoverCache.pending
Requests ==
  [key : Games, cands : Seq(ArtPaths), idx : Nat, token : Tokens,
   desc : Sidecars \union {NONE}, textOnly : BOOLEAN, iconOnly : BOOLEAN,
   started : BOOLEAN, retries : Nat]

ASSUME CoverAssumption ==
  /\ HddGames \subseteq Games
  /\ Covers \in [Games -> Seq(ArtPaths)]
  /\ Icons \in [Games -> Seq(ArtPaths)]
  /\ DOMAIN Sidecar = Games
  /\ NONE \notin ArtPaths \union Sidecars \union Games \union Textures \union Requests
  /\ EmptyPath \notin ArtPaths \union Sidecars \union {NONE}
  /\ ReadFailed \notin Sidecars \union {NONE}
  /\ MaxEntries \in Nat /\ MaxEntries >= 2   \* cover and icon on screen are both kept
  /\ MaxTextures \in Nat
  /\ MaxRetries \in Nat
  /\ QuiesceFrames \in Nat \ {0}
  /\ TokenBound \in Nat \ {0}

VARIABLES
  \* the slot: C statics of luagraphics.cpp
  state, token, result, path, textPath, text, sema, created,
  \* the worker thread: program counter and locals
  wpc, wPath, wText, wTex,
  \* textures alive, each with the path it was decoded from
  heap,
  \* CoverCache
  lastKey, lastImg, lastIcon, lastDesc, iconCands, iconRequested,
  entries, order, failed, pending, lastToken,
  \* the Lua thread: where it is inside a CoverCache call, and the scene
  uiPc, onList, quiesceLeft

slotVars   == <<state, token, result, path, textPath, text, sema, created>>
workerVars == <<wpc, wPath, wText, wTex>>
selVars    == <<lastKey, lastImg, lastIcon, lastDesc, iconCands, iconRequested>>
storeVars  == <<entries, order, failed>>
askVars    == <<pending, lastToken>>
uiVars     == <<uiPc, onList, quiesceLeft>>
vars       == <<slotVars, workerVars, heap, selVars, storeVars, askVars, uiVars>>

Idle == "IDLE"
Busy == "BUSY"
Done == "DONE"

-----------------------------------------------------------------------------
(* State.                                                                  *)

TypeOK ==
  /\ state \in {Idle, Busy, Done}
  /\ token \in Tokens \union {0}
  /\ result \in Textures \union {NONE}
  /\ path \in ArtPaths \union {EmptyPath, NONE}
  /\ textPath \in Sidecars \union {NONE}
  /\ text \in Sidecars \union {ReadFailed, NONE}
  /\ sema \in {0, 1}                   \* max_count: no SignalSema is ever lost
  /\ created \in BOOLEAN
  /\ wpc \in {"wait", "image", "text", "publish"}
  /\ wPath \in ArtPaths \union {EmptyPath, NONE}
  /\ wText \in Sidecars \union {NONE}
  /\ wTex \in Textures \union {NONE}
  /\ heap \in [Textures -> ArtPaths \union {NONE}]
  /\ lastKey \in Games \union {NONE}
  /\ lastImg \in Textures \union {NONE}
  /\ lastIcon \in Textures \union {NONE}
  /\ lastDesc \in Sidecars \union {NONE}
  /\ iconCands \in Seq(ArtPaths)
  /\ iconRequested \in BOOLEAN
  /\ entries \in [ArtPaths -> Textures \union {NONE}]
  /\ order \in Seq(ArtPaths)
  /\ failed \subseteq ArtPaths \union Sidecars
  /\ pending \in Requests \union {NONE}
  /\ lastToken \in Tokens \union {0}
  /\ uiPc \in {"lua", "drain", "text", "begin", "quiesce", "handoff"}
  /\ onList \in BOOLEAN
  /\ quiesceLeft \in 0 .. QuiesceFrames

Init ==
  /\ state = Idle /\ token = 0 /\ result = NONE /\ path = NONE /\ textPath = NONE
  /\ text = NONE /\ sema = 0 /\ created = FALSE
  /\ wpc = "wait" /\ wPath = NONE /\ wText = NONE /\ wTex = NONE
  /\ heap = [t \in Textures |-> NONE]
  /\ lastKey = NONE /\ lastImg = NONE /\ lastIcon = NONE /\ lastDesc = NONE
  /\ iconCands = <<>> /\ iconRequested = FALSE
  /\ entries = [p \in ArtPaths |-> NONE] /\ order = <<>> /\ failed = {}
  /\ pending = NONE /\ lastToken = 0
  /\ uiPc = "lua" /\ onList = FALSE /\ quiesceLeft = 0

-----------------------------------------------------------------------------
(* Helpers.                                                                *)

FreeTextures == {t \in Textures : heap[t] = NONE}
IsFirst(i, S) == i \in S /\ \A j \in S : i <= j
Freed(S) == [t \in Textures |-> IF t \in S THEN NONE ELSE heap[t]]

\* BuildCoverCandidates: the HDD branch returns a path only when the partition
\* resolver has found the file; elsewhere the names are fixed.
CoverCandidates(g) == IF g \in HddGames THEN {<<>>, Covers[g]} ELSE {Covers[g]}
IconCandidates(g)  == IF g \in HddGames THEN {<<>>, Icons[g]} ELSE {Icons[g]}

\* The sidecar the worker is asked for (SHOW_DETAILS may be off, a known miss is not asked again).
SidecarRequests(g) ==
  IF g \in HddGames \/ Sidecar[g] \in failed THEN {NONE} ELSE {NONE, Sidecar[g]}
\* On an HDD row the sidecar is resolved and read on the spot.
SyncDetails(g) == IF g \in HddGames THEN {NONE, Sidecar[g]} ELSE {NONE}

NextToken == (lastToken % TokenBound) + 1
ImagePath(p) == IF p.textOnly THEN EmptyPath ELSE p.cands[p.idx]

NewRequest(g, cands, idx, desc, textOnly, iconOnly) ==
  [key |-> g, cands |-> cands, idx |-> idx, token |-> NextToken, desc |-> desc,
   textOnly |-> textOnly, iconOnly |-> iconOnly, started |-> FALSE, retries |-> 0]

\* self.pending := p, then the C calls from `step` on.
Ask(p, step) ==
  /\ pending' = p
  /\ lastToken' = NextToken
  /\ uiPc' = step
  /\ UNCHANGED <<onList, quiesceLeft>>

\* BeginLoad drains the slot only when nothing is pending.
BeginLoad(p) == Ask(p, IF pending = NONE THEN "drain" ELSE "text")
\* BeginTextOnlyLoad always drains.
BeginTextOnlyLoad(p) == Ask(p, "drain")
AskNothing == UNCHANGED <<askVars, uiVars>>

Pumping == uiPc = "lua" /\ onList

-----------------------------------------------------------------------------
(* The worker thread.                                                      *)

\* WaitSema returns; `path` is latched.
WorkerWake ==
  /\ created /\ wpc = "wait" /\ sema = 1
  /\ sema' = 0
  /\ wPath' = path
  /\ wpc' = "image"
  /\ UNCHANGED <<state, token, result, path, textPath, text, created, wText, wTex,
                 heap, selVars, storeVars, askVars, uiVars>>

\* load_image returns a texture or NULL; the path is freed and the sidecar path latched.
WorkerLoadImage ==
  /\ wpc = "image"
  /\ \/ /\ wTex' = NONE
        /\ UNCHANGED heap
     \/ \E t \in Textures :
          /\ wPath \in ArtPaths /\ IsFirst(t, FreeTextures)
          /\ wTex' = t
          /\ heap' = [heap EXCEPT ![t] = wPath]
  /\ path' = NONE
  /\ wText' = textPath
  /\ wpc' = "text"
  /\ UNCHANGED <<state, token, result, textPath, text, sema, created, wPath,
                 selVars, storeVars, askVars, uiVars>>

\* Mutant: a job without a sidecar leaves the previous job's text in the channel.
WorkerReadText_KeepsText ==
  /\ wpc = "text"
  /\ IF wText = NONE
     THEN UNCHANGED <<text, textPath>>
     ELSE text' \in {NONE, ReadFailed, wText} /\ textPath' = NONE
  /\ wpc' = "publish"
  /\ UNCHANGED <<state, token, result, path, sema, created, wPath, wText, wTex,
                 heap, selVars, storeVars, askVars, uiVars>>

\* ReadSmallTextFile, then the sidecar path is freed.
WorkerReadText ==
  /\ wpc = "text"
  /\ IF wText = NONE
     THEN text' = NONE /\ UNCHANGED textPath
     ELSE text' \in {NONE, ReadFailed, wText} /\ textPath' = NONE   \* NONE: an empty file
  /\ wpc' = "publish"
  /\ UNCHANGED <<state, token, result, path, sema, created, wPath, wText, wTex,
                 heap, selVars, storeVars, askVars, uiVars>>

WorkerPublish ==
  /\ wpc = "publish"
  /\ result' = wTex
  /\ state' = Done
  /\ wPath' = NONE /\ wText' = NONE /\ wTex' = NONE
  /\ wpc' = "wait"
  /\ UNCHANGED <<token, path, textPath, text, sema, created, heap,
                 selVars, storeVars, askVars, uiVars>>

Worker == WorkerWake \/ WorkerLoadImage \/ WorkerReadText \/ WorkerPublish

-----------------------------------------------------------------------------
(* The three C calls at the tail of BeginLoad, BeginTextOnlyLoad and       *)
(* Pump's retry.                                                           *)

\* coverLoadPoll for its side effect: an answer nobody waits for is taken and freed.
DrainOrphan ==
  /\ uiPc = "drain"
  /\ uiPc' = "text"
  /\ IF state = Done
     THEN /\ state' = Idle
          /\ result' = NONE
          /\ heap' = Freed({result})
     ELSE UNCHANGED <<state, result, heap>>
  /\ UNCHANGED <<token, path, textPath, text, sema, created, workerVars,
                 selVars, storeVars, askVars, onList, quiesceLeft>>

\* Mutant: the path is replaced whatever the worker is doing.
CoverLoadTextPath_NoBusyCheck ==
  /\ uiPc = "text"
  /\ uiPc' = "begin"
  /\ textPath' \in {NONE, pending.desc}
  /\ UNCHANGED <<state, token, result, path, text, sema, created, workerVars, heap,
                 selVars, storeVars, askVars, onList, quiesceLeft>>

\* coverLoadTextPath(desc or ""): refused while a job is in flight; malloc may fail.
CoverLoadTextPath ==
  /\ uiPc = "text"
  /\ uiPc' = "begin"
  /\ IF state = Busy
     THEN UNCHANGED textPath
     ELSE textPath' \in {NONE, pending.desc}
  /\ UNCHANGED <<state, token, result, path, text, sema, created, workerVars, heap,
                 selVars, storeVars, askVars, onList, quiesceLeft>>

\* coverLoadBegin(path, token).  It is refused when the slot is not idle, when malloc
\* fails, or when the worker does not exist yet and cannot be created.
CoverLoadBegin ==
  /\ uiPc = "begin"
  /\ uiPc' = "lua"
  /\ \/ /\ state = Idle
        /\ path' = ImagePath(pending)
        /\ result' = NONE
        /\ token' = pending.token
        /\ state' = Busy
        /\ sema' = sema + 1
        /\ created' = TRUE
        /\ pending' = [pending EXCEPT !.started = TRUE]
     \/ /\ pending' = [pending EXCEPT !.started = FALSE]
        /\ UNCHANGED <<state, token, result, path, sema, created>>
  /\ UNCHANGED <<textPath, text, workerVars, heap, selVars, storeVars, lastToken,
                 onList, quiesceLeft>>

-----------------------------------------------------------------------------
(* CoverCache:UpdateSelection.                                             *)

Select(g) ==
  /\ Pumping /\ lastKey # g
  /\ lastKey' = g
  /\ lastIcon' = NONE
  /\ iconRequested' = FALSE
  /\ iconCands' \in IconCandidates(g)
  /\ lastDesc' \in SyncDetails(g)
  /\ \E cands \in CoverCandidates(g), desc \in SidecarRequests(g) :
       LET cached  == {i \in DOMAIN cands : entries[cands[i]] # NONE}
           unknown == {i \in DOMAIN cands : cands[i] \notin failed}
       IN /\ \/ cached = {} /\ lastImg' = NONE
             \/ \E i \in cached : IsFirst(i, cached) /\ lastImg' = entries[cands[i]]
          /\ \/ /\ cached = {}
                /\ \E i \in unknown :
                     /\ IsFirst(i, unknown)
                     /\ BeginLoad(NewRequest(g, cands, i, desc, FALSE, FALSE))
             \/ /\ cached # {} \/ unknown = {}
                /\ desc # NONE
                /\ BeginTextOnlyLoad(NewRequest(g, <<>>, 0, desc, TRUE, FALSE))
             \/ /\ cached # {} \/ unknown = {}
                /\ desc = NONE
                /\ AskNothing
  /\ UNCHANGED <<slotVars, workerVars, heap, storeVars>>

DropSelection ==
  /\ lastKey' = NONE /\ lastImg' = NONE /\ lastIcon' = NONE /\ lastDesc' = NONE
  /\ iconCands' = <<>> /\ iconRequested' = FALSE

\* UpdateSelection(nil): cover art switched off (from any scene) or an empty list.
SelectNothing ==
  /\ uiPc = "lua" /\ lastKey # NONE
  /\ DropSelection
  /\ AskNothing
  /\ UNCHANGED <<slotVars, workerVars, heap, storeVars>>

-----------------------------------------------------------------------------
(* CoverCache:Pump, once per game-list frame.                              *)

\* StartIconLoad: nothing is pending, so the disc icon may use the worker.
PumpIcon ==
  /\ Pumping /\ pending = NONE /\ lastKey # NONE /\ ~iconRequested
  /\ iconRequested' = TRUE
  /\ LET open == {i \in DOMAIN iconCands : \/ entries[iconCands[i]] # NONE
                                           \/ iconCands[i] \notin failed}
     IN \/ /\ open = {}
           /\ AskNothing /\ UNCHANGED lastIcon
        \/ \E i \in open :
             /\ IsFirst(i, open)
             /\ \/ /\ entries[iconCands[i]] # NONE
                   /\ lastIcon' = entries[iconCands[i]]
                   /\ AskNothing
                \/ /\ entries[iconCands[i]] = NONE
                   /\ BeginLoad(NewRequest(lastKey, iconCands, i, NONE, FALSE, TRUE))
                   /\ UNCHANGED lastIcon
  /\ UNCHANGED <<slotVars, workerVars, heap, storeVars, lastKey, lastImg, lastDesc, iconCands>>

\* Mutant: the retry is not bounded.
PumpRetry_Unbounded ==
  /\ Pumping /\ pending # NONE /\ ~pending.started
  /\ uiPc' = "drain"
  /\ UNCHANGED <<slotVars, workerVars, heap, selVars, storeVars, askVars,
                 onList, quiesceLeft>>

\* The worker never accepted the request: try again, a bounded number of frames.
PumpRetry ==
  /\ Pumping /\ pending # NONE /\ ~pending.started
  /\ IF pending.retries < MaxRetries
     THEN /\ pending' = [pending EXCEPT !.retries = @ + 1]
          /\ uiPc' = "drain"
     ELSE /\ pending' = NONE
          /\ UNCHANGED uiPc
  /\ UNCHANGED <<slotVars, workerVars, heap, selVars, storeVars, lastToken,
                 onList, quiesceLeft>>

\* Mutant: only the request id is compared, not the selection.
Stale_TokenOnly(p) == token # p.token

\* An answer belongs to another selection: it is neither shown nor cached.
Stale(p) == token # p.token \/ lastKey # p.key

\* The poll that finds a finished job, and CollectPendingText.
TakeAnswer(p) ==
  /\ Pumping /\ p # NONE /\ p.started /\ state = Done
  /\ state' = Idle
  /\ result' = NONE
  /\ text' = NONE
  /\ lastDesc' = IF p.desc # NONE /\ ~Stale(p) /\ text \in Sidecars /\ lastDesc = NONE
                 THEN text ELSE lastDesc
  /\ UNCHANGED <<token, path, textPath, sema, created, workerVars,
                 lastKey, iconCands, iconRequested>>

TextMiss(p) == IF p.desc # NONE /\ ~Stale(p) /\ text = ReadFailed THEN {p.desc} ELSE {}

NoMoreWork ==
  /\ pending' = NONE
  /\ UNCHANGED <<lastToken, uiVars>>

\* Mutant: the oldest entry goes even when it is on screen.
Evict_Oldest(stored, queue, shown) ==
  IF Len(queue) <= MaxEntries
  THEN entries' = stored /\ order' = queue /\ UNCHANGED heap
  ELSE /\ entries' = [stored EXCEPT ![queue[1]] = NONE]
       /\ order' = Tail(queue)
       /\ heap' = Freed({stored[queue[1]]})

\* EvictIfNeeded: the oldest entry that is not on screen goes; those on screen that were
\* older move to the back of the queue.  With none to evict the loop would not end.
Evict(stored, queue, shown) ==
  IF Len(queue) <= MaxEntries
  THEN entries' = stored /\ order' = queue /\ UNCHANGED heap
  ELSE \E i \in DOMAIN queue :
         /\ IsFirst(i, {j \in DOMAIN queue : stored[queue[j]] \notin shown})
         /\ entries' = [stored EXCEPT ![queue[i]] = NONE]
         /\ order' = SubSeq(queue, i + 1, Len(queue)) \o SubSeq(queue, 1, i - 1)
         /\ heap' = Freed({stored[queue[i]]})

PumpHit ==
  LET p == pending IN
  /\ TakeAnswer(p)
  /\ result # NONE /\ ~Stale(p)
  /\ lastIcon' = IF p.iconOnly THEN result ELSE lastIcon
  /\ lastImg'  = IF p.iconOnly THEN lastImg ELSE result
  /\ Evict([entries EXCEPT ![ImagePath(p)] = result], Append(order, ImagePath(p)),
           {lastImg', lastIcon'} \ {NONE})
  /\ failed' = failed \union TextMiss(p)
  /\ NoMoreWork

PumpStaleHit ==
  LET p == pending IN
  /\ TakeAnswer(p)
  /\ result # NONE /\ Stale(p)
  /\ heap' = Freed({result})
  /\ failed' = failed \union TextMiss(p)
  /\ NoMoreWork
  /\ UNCHANGED <<entries, order, lastImg, lastIcon>>

PumpTextOnly ==
  LET p == pending IN
  /\ TakeAnswer(p)
  /\ result = NONE /\ p.textOnly
  /\ failed' = failed \union TextMiss(p)
  /\ NoMoreWork
  /\ UNCHANGED <<entries, order, lastImg, lastIcon, heap>>

\* A miss.  MemoizeMiss records the path only when the file does not exist (it may exist
\* and not decode); then the next candidate of the same selection is asked for.
PumpMiss ==
  LET p == pending IN
  /\ TakeAnswer(p)
  /\ result = NONE /\ ~p.textOnly
  /\ \E absent \in {{}, {ImagePath(p)}} : failed' = failed \union TextMiss(p) \union absent
  /\ LET next == {i \in DOMAIN p.cands : i > p.idx /\ p.cands[i] \notin failed'}
     IN \/ /\ Stale(p) \/ next = {}
           /\ NoMoreWork
        \/ /\ ~Stale(p)
           /\ \E i \in next :
                /\ IsFirst(i, next)
                /\ BeginLoad(NewRequest(p.key, p.cands, i, NONE, FALSE, p.iconOnly))
  /\ UNCHANGED <<entries, order, lastImg, lastIcon, heap>>

PumpAnswer == PumpHit \/ PumpStaleHit \/ PumpTextOnly \/ PumpMiss
Pump == PumpIcon \/ PumpRetry \/ PumpAnswer

-----------------------------------------------------------------------------
(* Scenes and launches.                                                    *)

Cached == {entries[p] : p \in ArtPaths} \ {NONE}

\* ReleaseTextures and Clear free every cached texture and forget the selection.
ReleaseTextures ==
  /\ heap' = Freed(Cached)
  /\ entries' = [p \in ArtPaths |-> NONE]
  /\ order' = <<>>
  /\ DropSelection

\* OnSceneExit of a game scene: the miss memo AND the pending request are kept.
LeaveList ==
  /\ Pumping
  /\ onList' = FALSE
  /\ ReleaseTextures
  /\ UNCHANGED <<slotVars, workerVars, failed, askVars, uiPc, quiesceLeft>>

EnterList ==
  /\ uiPc = "lua" /\ ~onList
  /\ onList' = TRUE
  /\ UNCHANGED <<slotVars, workerVars, heap, selVars, storeVars, askVars, uiPc, quiesceLeft>>

\* Quiesce begins: the pending request is abandoned and the slot polled, once a frame.
BeginQuiesce ==
  /\ pending' = NONE
  /\ uiPc' = "quiesce"
  /\ quiesceLeft' = QuiesceFrames
  /\ UNCHANGED <<slotVars, workerVars, lastToken, onList>>

\* RunPOPStarterGame clears the cache first; the DKWDRV, BOOT.ELF and Ember launches do not.
LaunchGame ==
  /\ Pumping
  /\ ReleaseTextures
  /\ failed' = {}
  /\ BeginQuiesce

LaunchTool ==
  /\ uiPc = "lua"
  /\ BeginQuiesce
  /\ UNCHANGED <<heap, selVars, storeVars>>

QuiescePoll ==
  /\ uiPc = "quiesce"
  /\ IF state = Done
     THEN /\ state' = Idle
          /\ result' = NONE
          /\ heap' = Freed({result})
          /\ uiPc' = "handoff"
          /\ UNCHANGED quiesceLeft
     ELSE /\ quiesceLeft' = quiesceLeft - 1
          /\ uiPc' = IF quiesceLeft = 1 THEN "handoff" ELSE "quiesce"
          /\ UNCHANGED <<state, result, heap>>
  /\ UNCHANGED <<token, path, textPath, text, sema, created, workerVars,
                 selVars, storeVars, askVars, onList>>

\* At "handoff" the machine is given to the other ELF, and this program is no more, unless
\* the launch is refused and the list comes back.
LaunchRefused ==
  /\ uiPc = "handoff"
  /\ uiPc' = "lua"
  /\ quiesceLeft' = 0
  /\ UNCHANGED <<slotVars, workerVars, heap, selVars, storeVars, askVars, onList>>

-----------------------------------------------------------------------------
CCall == DrainOrphan \/ CoverLoadTextPath \/ CoverLoadBegin
User  == \/ \E g \in Games : Select(g)
         \/ SelectNothing \/ LeaveList \/ EnterList \/ LaunchGame \/ LaunchTool
Lua   == CCall \/ Pump \/ QuiescePoll \/ LaunchRefused \/ User

Next == Worker \/ Lua

\* The card answers (the worker's steps), a C call that was begun returns, and the frame
\* loop of the list keeps calling Pump.  Nothing is assumed of the user.
Fairness ==
  /\ WF_vars(Worker)
  /\ WF_vars(CCall)
  /\ WF_vars(Pump)
  /\ WF_vars(QuiescePoll)

Spec == Init /\ [][Next]_vars /\ Fairness

-----------------------------------------------------------------------------
(* Properties.                                                             *)

\* While the worker is inside load_image or ReadSmallTextFile, the string it reads is
\* still the one the C static points at: coverLoadTextPath and coverLoadBegin, on the Lua
\* thread, never free or replace a path the worker has latched (luagraphics.cpp:198-204).
LatchedPathsAlive ==
  /\ wpc = "image" => path = wPath
  /\ wpc \in {"image", "text"} => state = Busy
  /\ wpc = "text" => textPath = wText

\* Textures are neither leaked nor freed twice: every live texture is held exactly once, by
\* the worker, the slot or the cache, whatever was drained, dropped as stale, evicted or
\* released; the eviction queue lists the cached paths; what is on screen is in the cache.
Holders(t) ==
  (IF wTex = t THEN {"worker"} ELSE {}) \union (IF result = t THEN {"slot"} ELSE {})
    \union {p \in ArtPaths : entries[p] = t}
TexturesHeldOnce ==
  /\ \A t \in Textures : Cardinality(Holders(t)) = IF heap[t] = NONE THEN 0 ELSE 1
  /\ Len(order) <= MaxEntries
  /\ IsInjective(order)
  /\ Range(order) = {p \in ArtPaths : entries[p] # NONE}
  /\ {lastImg, lastIcon} \subseteq Cached \union {NONE}

\* Whatever order results arrive in, the row that is selected shows its own cover, its own
\* disc icon and its own description (ui.lua:718-722: "never show one game's data on
\* another's row").
SelectionShowsItsOwn ==
  /\ lastImg # NONE => lastKey # NONE /\ heap[lastImg] \in Range(Covers[lastKey])
  /\ lastIcon # NONE => lastKey # NONE /\ heap[lastIcon] \in Range(Icons[lastKey])
  /\ lastDesc # NONE => lastKey # NONE /\ lastDesc = Sidecar[lastKey]

\* A request the worker accepted owns the slot until its answer is collected: the answer
\* Pump finds is the answer to self.pending, never that of an abandoned job.
PendingOwnsSlot ==
  pending # NONE /\ pending.started /\ uiPc = "lua" =>
    /\ state # Idle
    /\ token = pending.token
    /\ wpc = "image" => wPath = ImagePath(pending)
    /\ state = Done /\ result # NONE => heap[result] = ImagePath(pending)
    /\ state = Done => text \in {NONE, ReadFailed, pending.desc}

\* When Quiesce ended before its bound, no file operation of the worker is outstanding as
\* the machine is handed to another ELF (ui.lua:762-773).
QuietHandoff ==
  uiPc = "handoff" /\ quiesceLeft > 0 =>
    state = Idle /\ sema = 0 /\ wpc = "wait"

\* No request stays pending for ever while its list is on screen (ui.lua:803-810, the
\* stuck "Loading ART..."): it is answered, given up or replaced.
RequestsSettle ==
  \A t \in Tokens :
    (pending # NONE /\ pending.token = t) ~>
      (pending = NONE \/ pending.token # t \/ ~onList)

\* The C statics and the worker implement the one-slot service of CoverSlot.
Slot == INSTANCE CoverSlot WITH
  Paths  <- ArtPaths \union {EmptyPath},
  phase  <- state,
  job    <- IF state # Busy THEN NONE
            ELSE [token |-> token,
                  path  |-> IF wpc = "wait" THEN path ELSE wPath,
                  text  |-> IF wpc \in {"wait", "image"} THEN textPath ELSE wText],
  answer <- IF state # Done THEN NONE
            ELSE [token |-> token,
                  art   |-> IF result = NONE THEN NONE ELSE heap[result],
                  text  |-> text]
OneSlotService == Slot!Spec
=============================================================================
