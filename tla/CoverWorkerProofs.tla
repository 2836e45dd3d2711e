------------------------- MODULE CoverWorkerProofs -------------------------
(***************************************************************************)
(* Proofs about the cover worker and its caller, for every list, every     *)
(* number of art candidates, every cache size and every bound.             *)
(***************************************************************************)
EXTENDS CoverWorker, SequenceTheorems, FiniteSetTheorems, TLAPS

-----------------------------------------------------------------------------
(* The inductive invariant.                                                *)

\* One job at a time: the slot is busy exactly while the worker has been signalled or is
\* at work, so the Lua thread writes the strings the worker reads only when it is parked.
OneJob ==
  /\ state = Busy => sema = 1 \/ wpc # "wait"
  /\ sema = 1 => state = Busy /\ wpc = "wait"
  /\ wpc # "wait" => state = Busy
  /\ wpc = "image" => path = wPath
  /\ wpc = "text" => textPath = wText

\* Between the decision to ask and coverLoadBegin there is a request to make.
Asking ==
  /\ uiPc \in {"drain", "text", "begin"} => pending # NONE /\ ~pending.started
  /\ pending # NONE /\ ~pending.textOnly => pending.idx \in DOMAIN pending.cands

\* Quiesce counts its polls down, and stops early only on an idle slot.
Settling ==
  /\ uiPc = "quiesce" => quiesceLeft # 0 /\ pending = NONE
  /\ uiPc = "handoff" /\ quiesceLeft > 0 => state = Idle

Control == OneJob /\ Asking /\ Settling

\* The art of the worker and the art of the slot are alive and nobody else's; a cached
\* texture was decoded from the path it is cached under (so no two entries share one).
Held ==
  /\ wTex # NONE =>
       /\ wpc \in {"text", "publish"}
       /\ wPath \in ArtPaths /\ heap[wTex] = wPath
       /\ wTex \notin Cached \union {lastImg, lastIcon}
  /\ result # NONE =>
       /\ state = Done
       /\ heap[result] \in ArtPaths
       /\ result \notin Cached \union {lastImg, lastIcon}
  /\ \A q \in ArtPaths : entries[q] # NONE => heap[entries[q]] = q

\* An accepted request is the job in the slot, at every stage of the job; one that is
\* about to be made finds in an idle slot no sidecar path but its own.
Owned ==
  /\ uiPc = "begin" /\ state = Idle => textPath \in {NONE, pending.desc}
  /\ pending # NONE /\ pending.started =>
       /\ state # Idle
       /\ token = pending.token
       /\ sema = 1 => path = ImagePath(pending)
       /\ wpc # "wait" => wPath = ImagePath(pending)
       /\ sema = 1 \/ wpc = "image" => textPath \in {NONE, pending.desc}
       /\ wpc = "text" => wText \in {NONE, pending.desc}
       /\ wpc = "publish" \/ state = Done => text \in {NONE, ReadFailed, pending.desc}
       /\ result # NONE => heap[result] = ImagePath(pending)

\* What is asked for a row is the row's own.
OwnRow(p) ==
  /\ p.desc \in {NONE, Sidecar[p.key]}
  /\ ~p.textOnly /\ p.iconOnly => Range(p.cands) \subseteq Range(Icons[p.key])
  /\ ~p.textOnly /\ ~p.iconOnly => Range(p.cands) \subseteq Range(Covers[p.key])
Rows ==
  /\ lastKey # NONE => Range(iconCands) \subseteq Range(Icons[lastKey])
  /\ pending # NONE => OwnRow(pending)

IInv == TypeOK /\ Control /\ Held /\ Owned /\ Rows /\ SelectionShowsItsOwn

-----------------------------------------------------------------------------
(* Values.                                                                 *)

LEMMA ArtOfRow ==
  ASSUME NEW g \in Games
  PROVE  Covers[g] \in Seq(ArtPaths) /\ Icons[g] \in Seq(ArtPaths)
BY CoverAssumption

LEMMA NextTokenType ==
  ASSUME lastToken \in Tokens \union {0}
  PROVE  NextToken \in Tokens
BY CoverAssumption DEF NextToken, Tokens

LEMMA NewRequestType ==
  ASSUME NEW g \in Games, NEW cands \in Seq(ArtPaths), NEW idx \in Nat,
         NEW desc \in Sidecars \union {NONE}, NEW textOnly \in BOOLEAN, NEW iconOnly \in BOOLEAN,
         lastToken \in Tokens \union {0}
  PROVE  NewRequest(g, cands, idx, desc, textOnly, iconOnly) \in Requests
BY NextTokenType DEF NewRequest, Requests

LEMMA NewRequestFits ==
  ASSUME NEW g \in Games, NEW cands \in Seq(ArtPaths), NEW idx \in Nat,
         NEW desc \in Sidecars \union {NONE}, NEW textOnly \in BOOLEAN, NEW iconOnly \in BOOLEAN,
         lastToken \in Tokens \union {0}, textOnly \/ idx \in DOMAIN cands
  PROVE  LET q == NewRequest(g, cands, idx, desc, textOnly, iconOnly)
         IN q \in Requests /\ ~q.started /\ (~q.textOnly => q.idx \in DOMAIN q.cands)
<1>1. NewRequest(g, cands, idx, desc, textOnly, iconOnly) \in Requests
  BY NewRequestType
<1>2. /\ ~NewRequest(g, cands, idx, desc, textOnly, iconOnly).started
      /\ NewRequest(g, cands, idx, desc, textOnly, iconOnly).idx = idx
      /\ NewRequest(g, cands, idx, desc, textOnly, iconOnly).cands = cands
  BY DEF NewRequest
<1>3. NewRequest(g, cands, idx, desc, textOnly, iconOnly).textOnly = textOnly
  BY DEF NewRequest
<1>4. CASE idx \in DOMAIN cands
  BY <1>1, <1>2, <1>4
<1>5. CASE textOnly
  BY <1>1, <1>2, <1>3, <1>5
<1> QED BY <1>4, <1>5

LEMMA NewRequestRow ==
  ASSUME NEW g, NEW cands, NEW idx, NEW desc \in {NONE, Sidecar[g]},
         NEW iconOnly \in BOOLEAN,
         iconOnly => Range(cands) \subseteq Range(Icons[g]),
         ~iconOnly => Range(cands) \subseteq Range(Covers[g])
  PROVE  OwnRow(NewRequest(g, cands, idx, desc, FALSE, iconOnly))
<1>1. /\ NewRequest(g, cands, idx, desc, FALSE, iconOnly).key = g
      /\ NewRequest(g, cands, idx, desc, FALSE, iconOnly).desc = desc
      /\ NewRequest(g, cands, idx, desc, FALSE, iconOnly).cands = cands
  BY DEF NewRequest
<1>2. NewRequest(g, cands, idx, desc, FALSE, iconOnly).iconOnly = iconOnly
  BY DEF NewRequest
<1> QED BY <1>1, <1>2 DEF OwnRow

LEMMA NewTextRequestRow ==
  ASSUME NEW g, NEW desc \in {NONE, Sidecar[g]}
  PROVE  OwnRow(NewRequest(g, <<>>, 0, desc, TRUE, FALSE))
<1>1. /\ NewRequest(g, <<>>, 0, desc, TRUE, FALSE).key = g
      /\ NewRequest(g, <<>>, 0, desc, TRUE, FALSE).desc = desc
  BY DEF NewRequest
<1>2. NewRequest(g, <<>>, 0, desc, TRUE, FALSE).textOnly
  BY DEF NewRequest
<1> QED BY <1>1, <1>2 DEF OwnRow

LEMMA NoRequestIsNone == NONE \notin Requests
BY CoverAssumption

LEMMA ArtOfCandidate ==
  ASSUME NEW cands \in Seq(ArtPaths), NEW i \in DOMAIN cands
  PROVE  cands[i] \in ArtPaths /\ i \in Nat
BY ElementOfSeq, LenProperties

LEMMA RequestImage ==
  ASSUME NEW p \in Requests, ~p.textOnly => p.idx \in DOMAIN p.cands
  PROVE  ImagePath(p) \in ArtPaths \union {EmptyPath}
<1>1. p.cands \in Seq(ArtPaths) BY DEF Requests
<1>2. CASE p.textOnly BY <1>2 DEF ImagePath
<1>3. CASE ~p.textOnly BY <1>1, <1>3, ArtOfCandidate DEF ImagePath
<1> QED BY <1>2, <1>3

LEMMA SetStarted ==
  ASSUME NEW p \in Requests, NEW b \in BOOLEAN
  PROVE  LET q == [p EXCEPT !.started = b]
         IN /\ q \in Requests
            /\ q.textOnly = p.textOnly /\ q.idx = p.idx /\ q.cands = p.cands
BY DEF Requests

LEMMA FreedType ==
  ASSUME heap \in [Textures -> ArtPaths \union {NONE}], NEW S
  PROVE  Freed(S) \in [Textures -> ArtPaths \union {NONE}]
BY DEF Freed

LEMMA NothingSelectedType ==
  ASSUME DropSelection
  PROVE  /\ lastKey' \in Games \union {NONE}
         /\ lastImg' \in Textures \union {NONE} /\ lastIcon' \in Textures \union {NONE}
         /\ lastDesc' \in Sidecars \union {NONE}
         /\ iconCands' \in Seq(ArtPaths) /\ iconRequested' \in BOOLEAN
BY EmptySeq DEF DropSelection

LEMMA EmptyCacheType ==
  ASSUME ReleaseTextures, TypeOK
  PROVE  /\ heap' \in [Textures -> ArtPaths \union {NONE}]
         /\ entries' \in [ArtPaths -> Textures \union {NONE}]
         /\ order' \in Seq(ArtPaths)
         /\ DropSelection
BY EmptySeq, FreedType DEF ReleaseTextures, TypeOK

-----------------------------------------------------------------------------
(* Initially.                                                              *)

LEMMA InitTypeControl == Init => TypeOK /\ Control
<1> SUFFICES ASSUME Init PROVE TypeOK /\ Control OBVIOUS
<1>1. TypeOK
  <2>1. iconCands \in Seq(ArtPaths) /\ order \in Seq(ArtPaths)
    BY EmptySeq DEF Init
  <2>2. quiesceLeft \in 0 .. QuiesceFrames
    BY CoverAssumption DEF Init
  <2> QED BY <2>1, <2>2 DEF Init, TypeOK, Idle, Busy, Done
<1>2. Control
  BY CoverAssumption DEF Init, Control, OneJob, Asking, Settling, Idle, Busy, Done
<1> QED BY <1>1, <1>2

-----------------------------------------------------------------------------
(* The worker's steps.                                                     *)

LEMMA WorkerTypeControl ==
  ASSUME TypeOK, Control, Worker
  PROVE  TypeOK' /\ Control'
<1> USE DEF Control, OneJob, Asking, Settling, Idle, Busy, Done,
            slotVars, workerVars, selVars, storeVars, askVars, uiVars
<1>1. CASE WorkerWake
  BY <1>1 DEF TypeOK, WorkerWake
<1>2. CASE WorkerLoadImage
  BY <1>2 DEF TypeOK, WorkerLoadImage, FreeTextures, IsFirst
<1>3. CASE WorkerReadText
  BY <1>3 DEF TypeOK, WorkerReadText
<1>4. CASE WorkerPublish
  BY <1>4 DEF TypeOK, WorkerPublish
<1> QED BY <1>1, <1>2, <1>3, <1>4 DEF Worker

-----------------------------------------------------------------------------
(* The steps of the Lua thread.                                            *)

LEMMA CCallTypeControl ==
  ASSUME TypeOK, Control, CCall
  PROVE  TypeOK' /\ Control'
<1> USE DEF Control, OneJob, Asking, Settling, Idle, Busy, Done,
            slotVars, workerVars, selVars, storeVars, askVars, uiVars
<1>1. CASE DrainOrphan
  <2>1. heap' \in [Textures -> ArtPaths \union {NONE}]
    BY <1>1, FreedType DEF TypeOK, DrainOrphan
  <2> QED BY <1>1, <2>1 DEF TypeOK, DrainOrphan
<1>2. CASE CoverLoadTextPath
  <2>1. pending.desc \in Sidecars \union {NONE}
    BY <1>2 DEF TypeOK, CoverLoadTextPath, Requests
  <2> QED BY <1>2, <2>1 DEF TypeOK, CoverLoadTextPath
<1>3. CASE CoverLoadBegin
  <2>1. pending \in Requests /\ uiPc = "begin" /\ uiPc' = "lua"
    BY <1>3 DEF TypeOK, CoverLoadBegin
  <2>2. ImagePath(pending) \in ArtPaths \union {EmptyPath}
    BY <2>1, RequestImage
  <2>3. pending.token \in Tokens
    BY <2>1 DEF Requests
  <2>4. CASE pending' = [pending EXCEPT !.started = TRUE]
              /\ state = Idle /\ state' = Busy /\ path' = ImagePath(pending)
              /\ result' = NONE /\ token' = pending.token /\ sema' = sema + 1 /\ created' = TRUE
    <3>1. pending' \in Requests /\ (~pending'.textOnly => pending'.idx \in DOMAIN pending'.cands)
      BY <2>1, <2>4, SetStarted
    <3>2. sema = 0 /\ wpc = "wait"
      BY <2>4 DEF TypeOK
    <3> QED BY <1>3, <2>1, <2>2, <2>3, <2>4, <3>1, <3>2 DEF TypeOK, CoverLoadBegin
  <2>5. CASE pending' = [pending EXCEPT !.started = FALSE]
              /\ UNCHANGED <<state, token, result, path, sema, created>>
    <3>1. pending' \in Requests /\ (~pending'.textOnly => pending'.idx \in DOMAIN pending'.cands)
      BY <2>1, <2>5, SetStarted
    <3> QED BY <1>3, <2>1, <2>5, <3>1 DEF TypeOK, CoverLoadBegin
  <2> QED BY <1>3, <2>4, <2>5 DEF CoverLoadBegin
<1> QED BY <1>1, <1>2, <1>3 DEF CCall

LEMMA LaunchTypeControl ==
  ASSUME TypeOK, Control,
         SelectNothing \/ LeaveList \/ EnterList \/ LaunchGame \/ LaunchTool
           \/ QuiescePoll \/ LaunchRefused
  PROVE  TypeOK' /\ Control'
<1> USE CoverAssumption, FreedType, NothingSelectedType, EmptyCacheType
    DEF Control, OneJob, Asking, Settling, Idle, Busy, Done,
        slotVars, workerVars, selVars, storeVars, askVars, uiVars
<1>1. CASE SelectNothing
  BY <1>1 DEF TypeOK, SelectNothing, AskNothing
<1>2. CASE LeaveList
  <2>1. TypeOK'
    <3>1. /\ heap' \in [Textures -> ArtPaths \union {NONE}]
          /\ entries' \in [ArtPaths -> Textures \union {NONE}]
          /\ order' \in Seq(ArtPaths)
          /\ DropSelection
      BY <1>2 DEF LeaveList
    <3>2. UNCHANGED <<slotVars, workerVars, failed, askVars, uiPc, quiesceLeft>> /\ onList' = FALSE
      BY <1>2 DEF LeaveList
    <3>3. /\ lastKey' \in Games \union {NONE}
          /\ lastImg' \in Textures \union {NONE} /\ lastIcon' \in Textures \union {NONE}
          /\ lastDesc' \in Sidecars \union {NONE}
          /\ iconCands' \in Seq(ArtPaths) /\ iconRequested' \in BOOLEAN
      BY <3>1
    <3>4. onList' \in BOOLEAN BY <3>2
    <3>5. failed' \subseteq ArtPaths \union Sidecars BY <3>2 DEF TypeOK
    <3>6. pending' \in Requests \union {NONE} /\ lastToken' \in Tokens \union {0}
      BY <3>2 DEF TypeOK
    <3>7. quiesceLeft' \in 0 .. QuiesceFrames
      BY <3>2 DEF TypeOK
    <3>8. uiPc' = uiPc /\ UNCHANGED <<slotVars, workerVars>> BY <3>2
    <3> QED BY ONLY TypeOK, <3>1, <3>3, <3>4, <3>5, <3>6, <3>7, <3>8
            DEF TypeOK, slotVars, workerVars
  <2>2. Control' BY <1>2 DEF LeaveList
  <2> QED BY <2>1, <2>2
<1>3. CASE EnterList
  BY <1>3 DEF TypeOK, EnterList
<1>4. CASE LaunchGame
  BY <1>4 DEF TypeOK, LaunchGame, BeginQuiesce, Pumping
<1>5. CASE LaunchTool
  BY <1>5 DEF TypeOK, LaunchTool, BeginQuiesce
<1>6. CASE QuiescePoll
  BY <1>6 DEF TypeOK, QuiescePoll
<1>7. CASE LaunchRefused
  BY <1>7 DEF TypeOK, LaunchRefused
<1> QED BY <1>1, <1>2, <1>3, <1>4, <1>5, <1>6, <1>7

-----------------------------------------------------------------------------
(* Selection and Pump: what they ask, and what they keep.                  *)

\* What a step that may ask for something leaves in the request and its program counter.
AskTyped ==
  /\ pending' \in Requests \union {NONE}
  /\ lastToken' \in Tokens \union {0}
  /\ uiPc' \in {"lua", "drain", "text"}
  /\ onList' = onList /\ quiesceLeft' = quiesceLeft
  /\ Asking'

LEMMA AskIsTyped ==
  ASSUME TypeOK, NEW p \in Requests, ~p.started,
         ~p.textOnly => p.idx \in DOMAIN p.cands,
         BeginLoad(p) \/ BeginTextOnlyLoad(p)
  PROVE  AskTyped
<1>1. /\ pending' = p /\ lastToken' = NextToken /\ uiPc' \in {"drain", "text"}
      /\ onList' = onList /\ quiesceLeft' = quiesceLeft
  BY DEF BeginLoad, BeginTextOnlyLoad, Ask
<1>2. NextToken \in Tokens
  BY NextTokenType DEF TypeOK
<1>3. Asking'
  BY <1>1, NoRequestIsNone DEF Asking
<1> QED BY <1>1, <1>2, <1>3 DEF AskTyped

LEMMA AskNothingIsTyped ==
  ASSUME TypeOK, Control, uiPc = "lua", AskNothing
  PROVE  AskTyped
BY DEF TypeOK, Control, Asking, AskNothing, askVars, uiVars, AskTyped

LEMMA NoMoreWorkIsTyped ==
  ASSUME TypeOK, uiPc = "lua", NoMoreWork
  PROVE  AskTyped
BY DEF TypeOK, Asking, NoMoreWork, uiVars, AskTyped

LEMMA SelectTypeControl ==
  ASSUME TypeOK, Control, NEW g \in Games, Select(g)
  PROVE  TypeOK' /\ Control'
<1>1. lastKey' = g /\ lastIcon' = NONE /\ iconRequested' = FALSE /\ uiPc = "lua"
      /\ UNCHANGED <<slotVars, workerVars, heap, storeVars>>
  BY DEF Select, Pumping
<1>2. iconCands' \in Seq(ArtPaths) /\ lastDesc' \in Sidecars \union {NONE}
  BY ArtOfRow, EmptySeq DEF Select, IconCandidates, SyncDetails, Sidecars
<1>3. AskTyped /\ lastImg' \in Textures \union {NONE}
  <2>1. PICK cands \in CoverCandidates(g), desc \in SidecarRequests(g) :
         LET cached  == {i \in DOMAIN cands : entries[cands[i]] # NONE}
             unknown == {i \in DOMAIN cands : cands[i] \notin failed}
         IN /\ \/ cached = {} /\ lastImg' = NONE
               \/ \E i \in cached : IsFirst(i, cached) /\ lastImg' = entries[cands[i]]
            /\ \/ /\ cached = {}
                  /\ \E i \in unknown :
                       /\ IsFirst(i, unknown)
                       /\ BeginLoad(NewRequest(g, cands, i, desc, FALSE, FALSE))
               \/ /\ cached # {} \/ unknown = {}
                  /\ desc # NONE
                  /\ BeginTextOnlyLoad(NewRequest(g, <<>>, 0, desc, TRUE, FALSE))
               \/ /\ cached # {} \/ unknown = {}
                  /\ desc = NONE
                  /\ AskNothing
    BY DEF Select
  <2>2. cands \in Seq(ArtPaths) /\ desc \in Sidecars \union {NONE}
    BY <2>1, ArtOfRow, EmptySeq DEF CoverCandidates, SidecarRequests, Sidecars
  <2>3. lastImg' \in Textures \union {NONE}
    BY <2>1, <2>2, ArtOfCandidate DEF TypeOK
  <2>4. CASE \E i \in DOMAIN cands : BeginLoad(NewRequest(g, cands, i, desc, FALSE, FALSE))
    <3>1. PICK i \in DOMAIN cands : BeginLoad(NewRequest(g, cands, i, desc, FALSE, FALSE))
      BY <2>4
    <3> DEFINE q == NewRequest(g, cands, i, desc, FALSE, FALSE)
    <3>2. q \in Requests /\ ~q.started /\ (~q.textOnly => q.idx \in DOMAIN q.cands)
      BY <2>2, ArtOfCandidate, NewRequestFits DEF TypeOK
    <3> HIDE DEF q
    <3>3. BeginLoad(q) BY <3>1 DEF q
    <3> QED BY <2>3, <3>2, <3>3, AskIsTyped
  <2>5. CASE BeginTextOnlyLoad(NewRequest(g, <<>>, 0, desc, TRUE, FALSE))
    <3> DEFINE q == NewRequest(g, <<>>, 0, desc, TRUE, FALSE)
    <3>1. q \in Requests /\ ~q.started /\ (~q.textOnly => q.idx \in DOMAIN q.cands)
      BY <2>2, EmptySeq, NewRequestFits DEF TypeOK
    <3> HIDE DEF q
    <3>2. BeginTextOnlyLoad(q) BY <2>5 DEF q
    <3> QED BY <2>3, <3>1, <3>2, AskIsTyped
  <2>6. CASE AskNothing
    BY <1>1, <2>3, <2>6, AskNothingIsTyped
  <2> QED BY <2>1, <2>4, <2>5, <2>6
<1>4. TypeOK'
  <2>1. failed' \subseteq ArtPaths \union Sidecars
        /\ heap' \in [Textures -> ArtPaths \union {NONE}]
        /\ entries' \in [ArtPaths -> Textures \union {NONE}] /\ order' \in Seq(ArtPaths)
    BY <1>1 DEF TypeOK, storeVars
  <2>2. /\ pending' \in Requests \union {NONE} /\ lastToken' \in Tokens \union {0}
        /\ uiPc' \in {"lua", "drain", "text"}
        /\ onList' \in BOOLEAN /\ quiesceLeft' \in 0 .. QuiesceFrames
    BY <1>3 DEF TypeOK, AskTyped
  <2>3. lastKey' \in Games /\ lastIcon' = NONE /\ iconRequested' \in BOOLEAN
        /\ UNCHANGED <<slotVars, workerVars>>
    BY <1>1
  <2> QED BY ONLY TypeOK, <1>2, <1>3, <2>1, <2>2, <2>3 DEF TypeOK, slotVars, workerVars
<1>5. Control'
  BY <1>1, <1>3 DEF Control, OneJob, Settling, AskTyped, slotVars, workerVars
<1> QED BY <1>4, <1>5

LEMMA PumpIconTypeControl ==
  ASSUME TypeOK, Control, PumpIcon
  PROVE  TypeOK' /\ Control'
<1>1. /\ uiPc = "lua" /\ pending = NONE /\ lastKey # NONE /\ iconRequested' = TRUE
      /\ UNCHANGED <<slotVars, workerVars, heap, storeVars, lastKey, lastImg, lastDesc, iconCands>>
  BY DEF PumpIcon, Pumping
<1>2. AskTyped /\ lastIcon' \in Textures \union {NONE}
  <2>1. \/ AskNothing /\ UNCHANGED lastIcon
        \/ \E i \in DOMAIN iconCands : lastIcon' = entries[iconCands[i]] /\ AskNothing
        \/ \E i \in DOMAIN iconCands :
             /\ BeginLoad(NewRequest(lastKey, iconCands, i, NONE, FALSE, TRUE))
             /\ UNCHANGED lastIcon
    BY DEF PumpIcon
  <2>2. CASE AskNothing /\ UNCHANGED lastIcon
    BY <1>1, <2>2, AskNothingIsTyped DEF TypeOK
  <2>3. CASE \E i \in DOMAIN iconCands : lastIcon' = entries[iconCands[i]] /\ AskNothing
    <3>1. lastIcon' \in Textures \union {NONE}
      BY <2>3, ArtOfCandidate DEF TypeOK
    <3> QED BY <1>1, <2>3, <3>1, AskNothingIsTyped
  <2>4. CASE \E i \in DOMAIN iconCands :
               /\ BeginLoad(NewRequest(lastKey, iconCands, i, NONE, FALSE, TRUE))
               /\ UNCHANGED lastIcon
    <3>1. PICK i \in DOMAIN iconCands :
            BeginLoad(NewRequest(lastKey, iconCands, i, NONE, FALSE, TRUE))
      BY <2>4
    <3> DEFINE q == NewRequest(lastKey, iconCands, i, NONE, FALSE, TRUE)
    <3>2. q \in Requests /\ ~q.started /\ (~q.textOnly => q.idx \in DOMAIN q.cands)
      BY <1>1, ArtOfCandidate, NewRequestFits DEF TypeOK
    <3> HIDE DEF q
    <3>3. BeginLoad(q) BY <3>1 DEF q
    <3>4. lastIcon' \in Textures \union {NONE} BY <2>4 DEF TypeOK
    <3> QED BY <3>2, <3>3, <3>4, AskIsTyped
  <2> QED BY <2>1, <2>2, <2>3, <2>4
<1>3. TypeOK'
  <2>1. failed' \subseteq ArtPaths \union Sidecars
        /\ heap' \in [Textures -> ArtPaths \union {NONE}]
        /\ entries' \in [ArtPaths -> Textures \union {NONE}] /\ order' \in Seq(ArtPaths)
    BY <1>1 DEF TypeOK, storeVars
  <2>2. /\ pending' \in Requests \union {NONE} /\ lastToken' \in Tokens \union {0}
        /\ uiPc' \in {"lua", "drain", "text"}
        /\ onList' \in BOOLEAN /\ quiesceLeft' \in 0 .. QuiesceFrames
    BY <1>2 DEF TypeOK, AskTyped
  <2>3. iconRequested' \in BOOLEAN
        /\ UNCHANGED <<slotVars, workerVars, lastKey, lastImg, lastDesc, iconCands>>
    BY <1>1
  <2> QED BY ONLY TypeOK, <1>2, <2>1, <2>2, <2>3 DEF TypeOK, slotVars, workerVars
<1>4. Control'
  BY <1>1, <1>2 DEF Control, OneJob, Settling, AskTyped, slotVars, workerVars
<1> QED BY <1>3, <1>4

LEMMA SetRetries ==
  ASSUME NEW p \in Requests
  PROVE  LET q == [p EXCEPT !.retries = @ + 1]
         IN /\ q \in Requests
            /\ q.textOnly = p.textOnly /\ q.idx = p.idx /\ q.cands = p.cands
            /\ q.started = p.started
BY DEF Requests

LEMMA PumpRetryTypeControl ==
  ASSUME TypeOK, Control, PumpRetry
  PROVE  TypeOK' /\ Control'
<1>1. /\ uiPc = "lua" /\ pending \in Requests /\ ~pending.started
      /\ UNCHANGED <<slotVars, workerVars, heap, selVars, storeVars, lastToken, onList, quiesceLeft>>
  BY DEF PumpRetry, Pumping, TypeOK
<1>2. AskTyped
  <2>1. CASE pending' = [pending EXCEPT !.retries = @ + 1] /\ uiPc' = "drain"
    <3>1. /\ pending' \in Requests /\ ~pending'.started
          /\ ~pending'.textOnly => pending'.idx \in DOMAIN pending'.cands
      BY <1>1, <2>1, SetRetries, NoRequestIsNone DEF Control, Asking
    <3> QED BY <1>1, <2>1, <3>1, NoRequestIsNone DEF AskTyped, Asking, TypeOK
  <2>2. CASE pending' = NONE /\ UNCHANGED uiPc
    BY <1>1, <2>2 DEF AskTyped, Asking, TypeOK
  <2> QED BY <2>1, <2>2 DEF PumpRetry
<1>3. TypeOK'
  <2>1. failed' \subseteq ArtPaths \union Sidecars
        /\ heap' \in [Textures -> ArtPaths \union {NONE}]
        /\ entries' \in [ArtPaths -> Textures \union {NONE}] /\ order' \in Seq(ArtPaths)
    BY <1>1 DEF TypeOK, storeVars
  <2>2. /\ pending' \in Requests \union {NONE} /\ lastToken' \in Tokens \union {0}
        /\ uiPc' \in {"lua", "drain", "text"}
        /\ onList' \in BOOLEAN /\ quiesceLeft' \in 0 .. QuiesceFrames
    BY <1>2 DEF TypeOK, AskTyped
  <2>3. UNCHANGED <<slotVars, workerVars, selVars>>
    BY <1>1
  <2> QED BY ONLY TypeOK, <2>1, <2>2, <2>3 DEF TypeOK, slotVars, workerVars, selVars
<1>4. Control'
  BY <1>1, <1>2 DEF Control, OneJob, Settling, AskTyped, slotVars, workerVars
<1> QED BY <1>3, <1>4

-----------------------------------------------------------------------------
(* Collecting an answer.                                                   *)

\* What every answer leaves: the slot is idle, the rest of the slot as it was.
LEMMA AnswerTyped ==
  ASSUME TypeOK, Control, NEW p, p = pending, TakeAnswer(p)
  PROVE  /\ p \in Requests /\ uiPc = "lua" /\ state = Done
         /\ state' = Idle /\ result' = NONE /\ text' = NONE
         /\ UNCHANGED <<token, path, textPath, sema, created, workerVars,
                        lastKey, iconCands, iconRequested>>
         /\ lastDesc' \in Sidecars \union {NONE}
         /\ OneJob' /\ TextMiss(p) \subseteq Sidecars
<1>1. /\ p \in Requests /\ uiPc = "lua" /\ state = Done
      /\ state' = Idle /\ result' = NONE /\ text' = NONE
      /\ UNCHANGED <<token, path, textPath, sema, created, workerVars,
                     lastKey, iconCands, iconRequested>>
  BY DEF TakeAnswer, Pumping, TypeOK
<1>2. lastDesc' \in Sidecars \union {NONE}
  BY DEF TakeAnswer, TypeOK
<1>3. OneJob'
  BY <1>1 DEF Control, OneJob, workerVars, Idle, Busy, Done
<1>4. TextMiss(p) \subseteq Sidecars
  BY <1>1 DEF TextMiss, Requests
<1> QED BY <1>1, <1>2, <1>3, <1>4

LEMMA EvictTyped ==
  ASSUME TypeOK, NEW stored \in [ArtPaths -> Textures \union {NONE}],
         NEW queue \in Seq(ArtPaths), NEW shown, Evict(stored, queue, shown)
  PROVE  /\ entries' \in [ArtPaths -> Textures \union {NONE}]
         /\ order' \in Seq(ArtPaths)
         /\ heap' \in [Textures -> ArtPaths \union {NONE}]
<1>1. CASE entries' = stored /\ order' = queue /\ UNCHANGED heap
  BY <1>1 DEF TypeOK
<1>2. CASE \E i \in DOMAIN queue :
             /\ entries' = [stored EXCEPT ![queue[i]] = NONE]
             /\ order' = SubSeq(queue, i + 1, Len(queue)) \o SubSeq(queue, 1, i - 1)
             /\ heap' = Freed({stored[queue[i]]})
  <2>1. PICK i \in DOMAIN queue :
             /\ entries' = [stored EXCEPT ![queue[i]] = NONE]
             /\ order' = SubSeq(queue, i + 1, Len(queue)) \o SubSeq(queue, 1, i - 1)
             /\ heap' = Freed({stored[queue[i]]})
    BY <1>2
  <2>2. DOMAIN queue = 1 .. Len(queue) /\ Len(queue) \in Nat /\ i \in Int
        /\ \A j \in 1 .. Len(queue) : queue[j] \in ArtPaths
    BY LenProperties, ElementOfSeq
  <2>3. SubSeq(queue, i + 1, Len(queue)) \in Seq(ArtPaths)
    <3>1. \A j \in i + 1 .. Len(queue) : queue[j] \in ArtPaths BY <2>2
    <3> QED BY <2>2, <3>1, SubSeqProperties
  <2>4. SubSeq(queue, 1, i - 1) \in Seq(ArtPaths)
    <3>1. \A j \in 1 .. i - 1 : queue[j] \in ArtPaths BY <2>2
    <3> QED BY <2>2, <3>1, SubSeqProperties
  <2>5. order' \in Seq(ArtPaths)
    BY <2>1, <2>3, <2>4, ConcatProperties
  <2> QED BY <2>1, <2>5, FreedType DEF TypeOK
<1> QED BY <1>1, <1>2 DEF Evict

\* The rest of the state, whatever the answer was.
LEMMA AnswerTypeControl ==
  ASSUME TypeOK, Control, NEW p, p = pending, TakeAnswer(p), AskTyped,
         lastImg' \in Textures \union {NONE}, lastIcon' \in Textures \union {NONE},
         entries' \in [ArtPaths -> Textures \union {NONE}], order' \in Seq(ArtPaths),
         heap' \in [Textures -> ArtPaths \union {NONE}],
         failed' \subseteq ArtPaths \union Sidecars
  PROVE  TypeOK' /\ Control'
<1>1. /\ state' = Idle /\ result' = NONE /\ text' = NONE
      /\ UNCHANGED <<token, path, textPath, sema, created, workerVars,
                     lastKey, iconCands, iconRequested>>
      /\ lastDesc' \in Sidecars \union {NONE} /\ OneJob'
  BY AnswerTyped
<1>2. /\ pending' \in Requests \union {NONE} /\ lastToken' \in Tokens \union {0}
      /\ uiPc' \in {"lua", "drain", "text"} /\ Asking'
      /\ onList' \in BOOLEAN /\ quiesceLeft' \in 0 .. QuiesceFrames
  BY DEF AskTyped, TypeOK
<1>3. TypeOK'
  BY <1>1, <1>2 DEF TypeOK, workerVars
<1>4. Control'
  BY <1>1, <1>2 DEF Control, Settling
<1> QED BY <1>3, <1>4

LEMMA PumpAnswerTypeControl ==
  ASSUME TypeOK, Control, Held, Owned, PumpAnswer
  PROVE  TypeOK' /\ Control'
<1> DEFINE p == pending
<1>1. CASE PumpHit
  <2>1. TakeAnswer(p) /\ result \in Textures /\ uiPc = "lua" /\ p \in Requests
    BY <1>1, AnswerTyped DEF PumpHit, TypeOK
  <2>2. lastImg' \in Textures \union {NONE} /\ lastIcon' \in Textures \union {NONE}
    BY <1>1, <2>1 DEF PumpHit, TypeOK
  <2>3. failed' \subseteq ArtPaths \union Sidecars
    BY <1>1, <2>1, AnswerTyped DEF PumpHit, TypeOK
  <2>4. AskTyped
    BY <1>1, <2>1, NoMoreWorkIsTyped DEF PumpHit
  <2>5. ImagePath(p) \in ArtPaths
    BY <1>1, <2>1, NoRequestIsNone, CoverAssumption DEF PumpHit, TakeAnswer, Held, Owned
  <2>6. /\ entries' \in [ArtPaths -> Textures \union {NONE}]
        /\ order' \in Seq(ArtPaths)
        /\ heap' \in [Textures -> ArtPaths \union {NONE}]
    <3> DEFINE stored == [entries EXCEPT ![ImagePath(p)] = result]
               queue  == Append(order, ImagePath(p))
               shown  == {lastImg', lastIcon'} \ {NONE}
    <3>1. stored \in [ArtPaths -> Textures \union {NONE}]
      BY <2>1 DEF TypeOK
    <3>2. queue \in Seq(ArtPaths)
      BY <2>5, AppendProperties DEF TypeOK
    <3>3. Evict(stored, queue, shown)
      BY <1>1 DEF PumpHit
    <3> HIDE DEF stored, queue, shown
    <3> QED BY <3>1, <3>2, <3>3, EvictTyped
  <2> QED BY <2>1, <2>2, <2>3, <2>4, <2>6, AnswerTypeControl
<1>2. CASE PumpStaleHit
  <2>1. TakeAnswer(p) /\ uiPc = "lua"
    BY <1>2, AnswerTyped DEF PumpStaleHit
  <2>2. /\ failed' \subseteq ArtPaths \union Sidecars
        /\ heap' \in [Textures -> ArtPaths \union {NONE}]
        /\ UNCHANGED <<entries, order, lastImg, lastIcon>>
    BY <1>2, <2>1, AnswerTyped, FreedType DEF PumpStaleHit, TypeOK
  <2>3. AskTyped
    BY <1>2, <2>1, NoMoreWorkIsTyped DEF PumpStaleHit
  <2> QED BY <2>1, <2>2, <2>3, AnswerTypeControl DEF TypeOK
<1>3. CASE PumpTextOnly
  <2>1. TakeAnswer(p) /\ uiPc = "lua"
    BY <1>3, AnswerTyped DEF PumpTextOnly
  <2>2. /\ failed' \subseteq ArtPaths \union Sidecars
        /\ UNCHANGED <<entries, order, lastImg, lastIcon, heap>>
    BY <1>3, <2>1, AnswerTyped DEF PumpTextOnly, TypeOK
  <2>3. AskTyped
    BY <1>3, <2>1, NoMoreWorkIsTyped DEF PumpTextOnly
  <2> QED BY <2>1, <2>2, <2>3, AnswerTypeControl DEF TypeOK
<1>4. CASE PumpMiss
  <2>1. TakeAnswer(p) /\ uiPc = "lua" /\ p \in Requests /\ ~p.textOnly
        /\ UNCHANGED <<entries, order, lastImg, lastIcon, heap>>
    BY <1>4, AnswerTyped DEF PumpMiss
  <2>2. failed' \subseteq ArtPaths \union Sidecars
    <3>1. ImagePath(p) \in ArtPaths
      <4>1. p.idx \in DOMAIN p.cands /\ p.cands \in Seq(ArtPaths)
        BY <2>1, NoRequestIsNone DEF Control, Asking, Requests
      <4> QED BY <2>1, <4>1, ArtOfCandidate DEF ImagePath
    <3> QED BY <1>4, <2>1, <3>1, AnswerTyped DEF PumpMiss, TypeOK
  <2>3. AskTyped
    <3>1. CASE NoMoreWork
      BY <2>1, <3>1, NoMoreWorkIsTyped
    <3>2. CASE \E i \in DOMAIN p.cands :
                 BeginLoad(NewRequest(p.key, p.cands, i, NONE, FALSE, p.iconOnly))
      <4>1. PICK i \in DOMAIN p.cands :
              BeginLoad(NewRequest(p.key, p.cands, i, NONE, FALSE, p.iconOnly))
        BY <3>2
      <4>2. p.key \in Games /\ p.cands \in Seq(ArtPaths) /\ p.iconOnly \in BOOLEAN
        BY <2>1 DEF Requests
      <4> DEFINE q == NewRequest(p.key, p.cands, i, NONE, FALSE, p.iconOnly)
      <4>3. q \in Requests /\ ~q.started /\ (~q.textOnly => q.idx \in DOMAIN q.cands)
        BY <4>2, ArtOfCandidate, NewRequestFits DEF TypeOK
      <4> HIDE DEF q
      <4>4. BeginLoad(q) BY <4>1 DEF q
      <4> QED BY <4>3, <4>4, AskIsTyped
    <3> QED BY <1>4, <3>1, <3>2 DEF PumpMiss
  <2> QED BY <2>1, <2>2, <2>3, AnswerTypeControl DEF TypeOK
<1> QED BY <1>1, <1>2, <1>3, <1>4 DEF PumpAnswer

LEMMA TypeControlStep ==
  ASSUME TypeOK, Control, Held, Owned, Next
  PROVE  TypeOK' /\ Control'
<1>1. CASE Worker BY <1>1, WorkerTypeControl
<1>2. CASE CCall BY <1>2, CCallTypeControl
<1>3. CASE Pump
  BY <1>3, PumpIconTypeControl, PumpRetryTypeControl, PumpAnswerTypeControl DEF Pump
<1>4. CASE \E g \in Games : Select(g) BY <1>4, SelectTypeControl
<1>5. CASE SelectNothing \/ LeaveList \/ EnterList \/ LaunchGame \/ LaunchTool
             \/ QuiescePoll \/ LaunchRefused
  BY <1>5, LaunchTypeControl
<1> QED BY <1>1, <1>2, <1>3, <1>4, <1>5 DEF Next, Lua, User

-----------------------------------------------------------------------------
(* Who holds which texture, and for which row.                             *)

Art == Held /\ Owned /\ Rows /\ SelectionShowsItsOwn

LEMMA InitArt == Init => Art
<1> SUFFICES ASSUME Init PROVE Art OBVIOUS
<1>1. Held BY DEF Init, Held
<1>2. Owned BY DEF Init, Owned
<1>3. Rows BY DEF Init, Rows
<1>4. SelectionShowsItsOwn BY DEF Init, SelectionShowsItsOwn
<1> QED BY <1>1, <1>2, <1>3, <1>4 DEF Art

LEMMA ShownAlive ==
  ASSUME TypeOK, SelectionShowsItsOwn
  PROVE  /\ lastImg # NONE => lastImg \in Textures /\ heap[lastImg] \in ArtPaths
         /\ lastIcon # NONE => lastIcon \in Textures /\ heap[lastIcon] \in ArtPaths
<1>1. \A g \in Games : Range(Covers[g]) \subseteq ArtPaths /\ Range(Icons[g]) \subseteq ArtPaths
  BY DEF ArtPaths
<1> QED BY <1>1 DEF TypeOK, SelectionShowsItsOwn

LEMMA KeepShown ==
  ASSUME SelectionShowsItsOwn, UNCHANGED selVars,
         lastImg # NONE => heap'[lastImg] = heap[lastImg],
         lastIcon # NONE => heap'[lastIcon] = heap[lastIcon]
  PROVE  SelectionShowsItsOwn'
BY DEF SelectionShowsItsOwn, selVars

\* The worker never touches a texture that is cached or on screen.
LEMMA WorkerArt ==
  ASSUME TypeOK, Control, Art, Worker
  PROVE  Art'
<1>0. UNCHANGED <<selVars, storeVars, askVars, uiVars, token>>
  BY DEF Worker, WorkerWake, WorkerLoadImage, WorkerReadText, WorkerPublish
<1>1. Rows'
  BY <1>0 DEF Art, Rows, OwnRow, selVars, askVars
<1>2. CASE WorkerWake
  <2>1. Held' BY <1>0, <1>2 DEF Art, Held, WorkerWake, Cached, selVars, storeVars
  <2>2. Owned'
    BY <1>0, <1>2 DEF Art, Owned, WorkerWake, ImagePath, Control, OneJob, askVars, uiVars,
       Idle, Busy, Done
  <2>3. SelectionShowsItsOwn' BY <1>0, <1>2 DEF Art, SelectionShowsItsOwn, WorkerWake, selVars
  <2> QED BY <1>1, <2>1, <2>2, <2>3 DEF Art
<1>3. CASE WorkerLoadImage
  <2>1. PICK t \in Textures \union {NONE} :
           /\ wTex' = t
           /\ t = NONE => heap' = heap
           /\ t # NONE => wPath \in ArtPaths /\ heap[t] = NONE /\ heap' = [heap EXCEPT ![t] = wPath]
    BY <1>3, CoverAssumption DEF WorkerLoadImage, IsFirst, FreeTextures
  <2>2. \A u \in Textures : heap[u] # NONE => heap'[u] = heap[u]
    BY <2>1 DEF TypeOK
  <2>3. Held'
    <3>1. \A q \in ArtPaths : entries'[q] # NONE => heap'[entries'[q]] = q
      BY <1>0, <2>2, CoverAssumption DEF Art, Held, storeVars, TypeOK
    <3>2. ASSUME wTex' # NONE
          PROVE  wpc' = "text" /\ wPath' \in ArtPaths /\ heap'[wTex'] = wPath'
                 /\ wTex' \notin (Cached \union {lastImg, lastIcon})'
      <4>1. heap[wTex'] = NONE BY <2>1, <3>2
      <4>2. wTex' \notin Cached
        BY <2>1, <3>2, <4>1, CoverAssumption DEF Cached, Art, Held, TypeOK
      <4>3. wTex' \notin {lastImg, lastIcon}
        BY <2>1, <3>2, <4>1, CoverAssumption, ShownAlive DEF Art
      <4> QED BY <1>0, <1>3, <2>1, <3>2, <4>2, <4>3
               DEF WorkerLoadImage, Cached, storeVars, selVars, TypeOK
    <3>3. result' = NONE
      BY <1>3 DEF WorkerLoadImage, Art, Held, Control, OneJob, Busy, Done
    <3> QED BY <3>1, <3>2, <3>3 DEF Held
  <2>4. Owned'
    BY <1>0, <1>3 DEF Art, Owned, Held, WorkerLoadImage, ImagePath, Control, OneJob, askVars, uiVars,
       Idle, Busy, Done
  <2>5. SelectionShowsItsOwn'
    BY <1>0, <2>2, ShownAlive, KeepShown, CoverAssumption DEF Art
  <2> QED BY <1>1, <2>3, <2>4, <2>5 DEF Art
<1>4. CASE WorkerReadText
  <2>1. Held' BY <1>0, <1>4 DEF Art, Held, WorkerReadText, Cached, selVars, storeVars
  <2>2. Owned'
    BY <1>0, <1>4 DEF Art, Owned, Held, WorkerReadText, ImagePath, Control, OneJob, askVars, uiVars,
       Idle, Busy, Done
  <2>3. SelectionShowsItsOwn' BY <1>0, <1>4 DEF Art, SelectionShowsItsOwn, WorkerReadText, selVars
  <2> QED BY <1>1, <2>1, <2>2, <2>3 DEF Art
<1>5. CASE WorkerPublish
  <2>1. Held'
    BY <1>0, <1>5 DEF Art, Held, WorkerPublish, Cached, selVars, storeVars, Done
  <2>2. Owned'
    BY <1>0, <1>5 DEF Art, Owned, Held, WorkerPublish, ImagePath, Control, OneJob, askVars, uiVars,
       Idle, Busy, Done
  <2>3. SelectionShowsItsOwn' BY <1>0, <1>5 DEF Art, SelectionShowsItsOwn, WorkerPublish, selVars
  <2> QED BY <1>1, <2>1, <2>2, <2>3 DEF Art
<1> QED BY <1>2, <1>3, <1>4, <1>5 DEF Worker

\* What a drain, a stale answer, an eviction or a release frees is not what is kept.
LEMMA FreedKeeps ==
  ASSUME NEW S, NEW t \in Textures, t \notin S, heap \in [Textures -> ArtPaths \union {NONE}]
  PROVE  Freed(S)[t] = heap[t]
BY DEF Freed

LEMMA CCallArt ==
  ASSUME TypeOK, Control, Art, CCall
  PROVE  Art'
<1>0. UNCHANGED <<selVars, storeVars, workerVars>>
  BY DEF CCall, DrainOrphan, CoverLoadTextPath, CoverLoadBegin
<1>1. CASE DrainOrphan
  <2>0. uiPc' = "text" /\ pending' = pending /\ pending # NONE /\ ~pending.started
    BY <1>1 DEF DrainOrphan, Control, Asking, askVars
  <2>a. Owned' BY <2>0 DEF Owned
  <2>b. Rows' BY <1>0, <2>0 DEF Art, Rows, OwnRow, selVars
  <2>1. CASE state = Done /\ state' = Idle /\ result' = NONE /\ heap' = Freed({result})
    <3>0. wTex = NONE
      BY <2>1 DEF Art, Held, Control, OneJob, Busy, Done
    <3>1. \A t \in Textures : t # result => heap'[t] = heap[t]
      BY <2>1, FreedKeeps DEF TypeOK
    <3>2. Held'
      <4>1. \A q \in ArtPaths : entries[q] # NONE => entries[q] # result /\ entries[q] \in Textures
        BY DEF Art, Held, Cached, TypeOK
      <4>2. \A q \in ArtPaths : entries'[q] # NONE => heap'[entries'[q]] = q
        BY <1>0, <3>1, <4>1 DEF Art, Held, storeVars
      <4> QED BY <1>0, <2>1, <3>0, <4>2 DEF Held, workerVars
    <3>3. SelectionShowsItsOwn'
      BY <1>0, <3>1, ShownAlive, KeepShown DEF Art, Held
    <3> QED BY <2>a, <2>b, <3>2, <3>3 DEF Art
  <2>2. CASE UNCHANGED <<state, result, heap>>
    <3>1. Held' BY <1>0, <1>1, <2>2 DEF Art, Held, DrainOrphan, Cached, workerVars, storeVars, selVars
    <3>2. SelectionShowsItsOwn' BY <1>0, <2>2 DEF Art, SelectionShowsItsOwn, selVars
    <3> QED BY <2>a, <2>b, <3>1, <3>2 DEF Art
  <2> QED BY <1>1, <2>1, <2>2 DEF DrainOrphan
<1>2. CASE CoverLoadTextPath
  <2>0. UNCHANGED <<state, token, result, path, text, sema, heap, pending>>
    BY <1>2 DEF CoverLoadTextPath, askVars
  <2>1. Held' BY <1>0, <2>0 DEF Art, Held, Cached, workerVars, storeVars, selVars
  <2>2. Owned'
    <3>1. ~pending'.started BY <1>2, <2>0 DEF CoverLoadTextPath, Control, Asking
    <3>2. state' = Idle => textPath' \in {NONE, pending'.desc}
      BY <1>2, <2>0 DEF CoverLoadTextPath, Idle, Busy
    <3> QED BY <3>1, <3>2 DEF Owned
  <2>3. Rows' BY <1>0, <2>0 DEF Art, Rows, OwnRow, selVars
  <2>4. SelectionShowsItsOwn' BY <1>0, <2>0 DEF Art, SelectionShowsItsOwn, selVars
  <2> QED BY <2>1, <2>2, <2>3, <2>4 DEF Art
<1>3. CASE CoverLoadBegin
  <2>1. pending \in Requests /\ uiPc = "begin" /\ uiPc' = "lua"
    BY <1>3 DEF CoverLoadBegin, Control, Asking, TypeOK
  <2>2. \A b \in BOOLEAN : LET q == [pending EXCEPT !.started = b]
          IN /\ q.key = pending.key /\ q.desc = pending.desc /\ q.token = pending.token
             /\ q.textOnly = pending.textOnly /\ q.iconOnly = pending.iconOnly
             /\ q.idx = pending.idx /\ q.cands = pending.cands /\ q.started = b
    BY <2>1 DEF Requests
  <2>3. PICK b \in BOOLEAN : pending' = [pending EXCEPT !.started = b]
    BY <1>3 DEF CoverLoadBegin
  <2>4. /\ pending'.key = pending.key /\ pending'.desc = pending.desc
        /\ pending'.token = pending.token /\ pending'.idx = pending.idx
        /\ pending'.cands = pending.cands
        /\ pending'.textOnly <=> pending.textOnly
        /\ pending'.iconOnly <=> pending.iconOnly
    BY <2>1, <2>3 DEF Requests
  <2>5. ImagePath(pending)' = ImagePath(pending)
    BY <2>4 DEF ImagePath
  <2>6. Rows'
    <3>1. OwnRow(pending)' BY <2>1, <2>4, NoRequestIsNone DEF Art, Rows, OwnRow, OwnRow
    <3> QED BY <1>0, <3>1 DEF Art, Rows, OwnRow, selVars
  <2>7. CASE state = Idle /\ path' = ImagePath(pending) /\ result' = NONE /\ state' = Busy
              /\ token' = pending.token /\ sema' = sema + 1 /\ created' = TRUE
    <3>1. wTex = NONE /\ wpc = "wait" /\ sema = 0
      BY <2>7 DEF Art, Held, Control, OneJob, Idle, Busy, TypeOK
    <3>2. Held'
      BY <1>0, <1>3, <2>7, <3>1 DEF Art, Held, CoverLoadBegin, workerVars, storeVars
    <3>3. textPath \in {NONE, pending.desc}
      BY <2>1, <2>7 DEF Art, Owned
    <3>4. Owned'
      BY <1>0, <1>3, <2>1, <2>4, <2>5, <2>7, <3>1, <3>3
         DEF Owned, CoverLoadBegin, workerVars, Idle, Busy, Done
    <3>5. SelectionShowsItsOwn'
      BY <1>0, <1>3 DEF Art, SelectionShowsItsOwn, selVars, CoverLoadBegin
    <3> QED BY <2>6, <3>2, <3>4, <3>5 DEF Art
  <2>8. CASE UNCHANGED <<state, token, result, path, sema, created>>
              /\ pending' = [pending EXCEPT !.started = FALSE]
    <3>1. ~pending'.started BY <2>1, <2>8 DEF Requests
    <3>2. Owned' BY <2>1, <3>1 DEF Owned
    <3>3. Held'
      BY <1>0, <1>3, <2>8 DEF Art, Held, CoverLoadBegin, Cached, workerVars, storeVars, selVars
    <3>4. SelectionShowsItsOwn'
      BY <1>0, <1>3 DEF Art, SelectionShowsItsOwn, selVars, CoverLoadBegin
    <3> QED BY <2>6, <3>2, <3>3, <3>4 DEF Art
  <2> QED BY <1>3, <2>7, <2>8 DEF CoverLoadBegin
<1> QED BY <1>1, <1>2, <1>3 DEF CCall

\* A step that leaves the slot, the worker and the heap alone, and asks or does not ask.
LEMMA LuaOnlyArt ==
  ASSUME TypeOK, Control, Art, Rows', SelectionShowsItsOwn',
         UNCHANGED <<slotVars, workerVars, heap, entries>>,
         {lastImg', lastIcon'} \subseteq Cached \union {NONE, lastImg, lastIcon},
         \/ pending' = NONE
         \/ pending' \in Requests /\ ~pending'.started
         \/ pending' = pending,
         uiPc' # "begin"
  PROVE  Art'
<1>1. Held' BY DEF Art, Held, Cached, slotVars, workerVars
<1>2. Owned'
  <2>1. CASE pending' = pending
    <3>1. ImagePath(pending)' = ImagePath(pending) BY <2>1 DEF ImagePath
    <3> QED BY <2>1, <3>1 DEF Art, Owned, slotVars, workerVars
  <2>2. CASE pending' = NONE \/ ~pending'.started BY <2>2 DEF Owned
  <2> QED BY <2>1, <2>2
<1> QED BY <1>1, <1>2 DEF Art

\* Everything cached is freed and nothing is selected; the pending request stays or goes.
LEMMA ReleaseArt ==
  ASSUME TypeOK, Control, Art, ReleaseTextures, UNCHANGED <<slotVars, workerVars>>,
         pending' = pending \/ pending' = NONE, uiPc' # "begin"
  PROVE  Art'
<1>1. \A t \in Textures : t \notin Cached => heap'[t] = heap[t]
  BY FreedKeeps DEF ReleaseTextures, TypeOK
<1>2. \A q \in ArtPaths : entries'[q] = NONE BY DEF ReleaseTextures
<1>3. lastKey' = NONE /\ lastImg' = NONE /\ lastIcon' = NONE /\ lastDesc' = NONE
  BY DEF ReleaseTextures, DropSelection
<1>4. Held'
  <2>1. Cached' = {} BY <1>2 DEF Cached
  <2> QED BY <1>1, <1>2, <1>3, <2>1 DEF Art, Held, slotVars, workerVars, TypeOK
<1>5. Owned'
  <2>1. CASE pending' = pending
    <3>1. ImagePath(pending)' = ImagePath(pending) BY <2>1 DEF ImagePath
    <3>2. result # NONE => heap'[result] = heap[result]
      BY <1>1 DEF Art, Held, TypeOK
    <3> QED BY <2>1, <3>1, <3>2 DEF Art, Owned, slotVars, workerVars
  <2>2. CASE pending' = NONE BY <2>2 DEF Owned
  <2> QED BY <2>1, <2>2
<1>6. Rows' BY <1>3 DEF Art, Rows, OwnRow
<1>7. SelectionShowsItsOwn' BY <1>3 DEF SelectionShowsItsOwn
<1> QED BY <1>4, <1>5, <1>6, <1>7 DEF Art

LEMMA LaunchArt ==
  ASSUME TypeOK, Control, Art,
         SelectNothing \/ LeaveList \/ EnterList \/ LaunchGame \/ LaunchTool
           \/ QuiescePoll \/ LaunchRefused
  PROVE  Art'
<1>1. CASE SelectNothing
  <2>1. lastKey' = NONE /\ lastImg' = NONE /\ lastIcon' = NONE /\ lastDesc' = NONE
        /\ pending' = pending /\ uiPc' = "lua"
        /\ UNCHANGED <<slotVars, workerVars, heap, entries>>
    BY <1>1 DEF SelectNothing, DropSelection, AskNothing, askVars, uiVars, storeVars
  <2>2. Rows' BY <2>1 DEF Art, Rows, OwnRow
  <2>3. SelectionShowsItsOwn' BY <2>1 DEF SelectionShowsItsOwn
  <2> QED BY <2>1, <2>2, <2>3, LuaOnlyArt
<1>2. CASE LeaveList
  <2>1. ReleaseTextures /\ pending' = pending /\ uiPc' = "lua" /\ UNCHANGED <<slotVars, workerVars>>
    BY <1>2 DEF LeaveList, Pumping, askVars
  <2> QED BY <2>1, ReleaseArt
<1>3. CASE LaunchGame
  <2>1. ReleaseTextures /\ pending' = NONE /\ uiPc' = "quiesce" /\ UNCHANGED <<slotVars, workerVars>>
    BY <1>3 DEF LaunchGame, BeginQuiesce
  <2> QED BY <2>1, ReleaseArt
<1>4. CASE EnterList \/ LaunchTool \/ LaunchRefused
  <2>1. /\ UNCHANGED <<slotVars, workerVars, heap, selVars, entries>> /\ uiPc' # "begin"
        /\ pending' = pending \/ pending' = NONE
    BY <1>4 DEF EnterList, LaunchTool, LaunchRefused, BeginQuiesce, storeVars, askVars
  <2>2. Rows' BY <2>1 DEF Art, Rows, OwnRow, selVars
  <2>3. SelectionShowsItsOwn' BY <2>1 DEF Art, SelectionShowsItsOwn, selVars
  <2> QED BY <2>1, <2>2, <2>3, LuaOnlyArt DEF selVars
<1>5. CASE QuiescePoll
  <2>0. UNCHANGED <<token, path, textPath, text, sema, created, workerVars, selVars, storeVars, askVars>>
        /\ uiPc' # "begin"
    BY <1>5 DEF QuiescePoll
  <2>1. CASE state = Done /\ state' = Idle /\ result' = NONE /\ heap' = Freed({result})
    <3>1. \A t \in Textures : t # result => heap'[t] = heap[t]
      BY <2>1, FreedKeeps DEF TypeOK
    <3>2. wTex = NONE
      BY <2>1 DEF Art, Held, Control, OneJob, Busy, Done
    <3>3. Held'
      <4>1. \A q \in ArtPaths : entries[q] # NONE => entries[q] # result /\ entries[q] \in Textures
        BY DEF Art, Held, Cached, TypeOK
      <4>2. \A q \in ArtPaths : entries'[q] # NONE => heap'[entries'[q]] = q
        BY <2>0, <3>1, <4>1 DEF Art, Held, storeVars
      <4> QED BY <2>0, <2>1, <3>2, <4>2 DEF Held, workerVars
    <3>4. SelectionShowsItsOwn'
      BY <2>0, <3>1, ShownAlive, KeepShown DEF Art, Held
    <3>5. pending' = NONE
      BY <1>5, <2>0 DEF QuiescePoll, Control, Settling, askVars
    <3>6. Owned' BY <2>0, <3>5 DEF Owned
    <3>7. Rows' BY <2>0, <3>5 DEF Art, Rows, OwnRow, selVars
    <3> QED BY <3>3, <3>4, <3>6, <3>7 DEF Art
  <2>2. CASE UNCHANGED <<state, result, heap>>
    <3>1. Rows' BY <2>0 DEF Art, Rows, OwnRow, selVars, askVars
    <3>2. SelectionShowsItsOwn' BY <2>0, <2>2 DEF Art, SelectionShowsItsOwn, selVars
    <3> QED BY <2>0, <2>2, <3>1, <3>2, LuaOnlyArt DEF slotVars, selVars, storeVars, askVars
  <2> QED BY <1>5, <2>1, <2>2 DEF QuiescePoll
<1> QED BY <1>1, <1>2, <1>3, <1>4, <1>5

\* What is asked is fresh: not yet started, and of its own row.
LEMMA AskedIsFresh ==
  ASSUME NEW p, BeginLoad(p) \/ BeginTextOnlyLoad(p)
  PROVE  pending' = p /\ uiPc' \in {"drain", "text"}
BY DEF BeginLoad, BeginTextOnlyLoad, Ask

LEMMA SelectArt ==
  ASSUME TypeOK, Control, Art, NEW g \in Games, Select(g)
  PROVE  Art'
<1>1. lastKey' = g /\ lastIcon' = NONE /\ uiPc = "lua" /\ g # NONE
      /\ UNCHANGED <<slotVars, workerVars, heap, storeVars>>
  BY CoverAssumption DEF Select, Pumping
<1>2. Range(iconCands') \subseteq Range(Icons[g]) /\ lastDesc' \in {NONE, Sidecar[g]}
  BY DEF Select, IconCandidates, SyncDetails, Range
<1>3. PICK cands \in CoverCandidates(g), desc \in SidecarRequests(g) :
         LET cached  == {i \in DOMAIN cands : entries[cands[i]] # NONE}
             unknown == {i \in DOMAIN cands : cands[i] \notin failed}
         IN /\ \/ cached = {} /\ lastImg' = NONE
               \/ \E i \in cached : IsFirst(i, cached) /\ lastImg' = entries[cands[i]]
            /\ \/ /\ cached = {}
                  /\ \E i \in unknown :
                       /\ IsFirst(i, unknown)
                       /\ BeginLoad(NewRequest(g, cands, i, desc, FALSE, FALSE))
               \/ /\ cached # {} \/ unknown = {}
                  /\ desc # NONE
                  /\ BeginTextOnlyLoad(NewRequest(g, <<>>, 0, desc, TRUE, FALSE))
               \/ /\ cached # {} \/ unknown = {}
                  /\ desc = NONE
                  /\ AskNothing
  BY DEF Select
<1>4. cands \in Seq(ArtPaths) /\ Range(cands) \subseteq Range(Covers[g])
      /\ desc \in {NONE, Sidecar[g]}
  <2>1. cands = <<>> \/ cands = Covers[g]
    BY <1>3 DEF CoverCandidates
  <2>2. Range(cands) \subseteq Range(Covers[g])
    BY <2>1 DEF Range
  <2>3. desc \in {NONE, Sidecar[g]}
    BY <1>3 DEF SidecarRequests
  <2> QED BY <2>1, <2>2, <2>3, ArtOfRow, EmptySeq
<1>5. lastImg' = NONE \/ \E i \in DOMAIN cands : lastImg' = entries[cands[i]] /\ lastImg' # NONE
  BY <1>3
<1>6. lastImg' # NONE => lastImg' \in Cached /\ heap[lastImg'] \in Range(Covers[g])
  <2>1. ASSUME NEW i \in DOMAIN cands, lastImg' = entries[cands[i]], lastImg' # NONE
        PROVE  lastImg' \in Cached /\ heap[lastImg'] \in Range(Covers[g])
    <3>1. cands[i] \in ArtPaths /\ cands[i] \in Range(Covers[g])
      BY <1>4, ArtOfCandidate DEF Range
    <3> QED BY <2>1, <3>1 DEF Art, Held, Cached
  <2> QED BY <1>5, <2>1
<1>7. SelectionShowsItsOwn'
  BY <1>1, <1>2, <1>6 DEF SelectionShowsItsOwn
<1>8. /\ pending' = pending \/ pending' = NONE \/ (pending' \in Requests /\ ~pending'.started)
      /\ pending' # pending => OwnRow(pending)'
      /\ uiPc' # "begin"
  <2>1. CASE \E i \in DOMAIN cands : BeginLoad(NewRequest(g, cands, i, desc, FALSE, FALSE))
    <3>1. PICK i \in DOMAIN cands : BeginLoad(NewRequest(g, cands, i, desc, FALSE, FALSE))
      BY <2>1
    <3> DEFINE q == NewRequest(g, cands, i, desc, FALSE, FALSE)
    <3>2. q \in Requests /\ ~q.started
      BY <1>4, ArtOfCandidate, NewRequestFits DEF TypeOK, Sidecars
    <3>3. OwnRow(q) BY <1>4, NewRequestRow
    <3> HIDE DEF q
    <3>4. pending' = q /\ uiPc' # "begin" BY <3>1, AskedIsFresh DEF q
    <3> QED BY <3>2, <3>3, <3>4 DEF OwnRow
  <2>2. CASE BeginTextOnlyLoad(NewRequest(g, <<>>, 0, desc, TRUE, FALSE))
    <3> DEFINE q == NewRequest(g, <<>>, 0, desc, TRUE, FALSE)
    <3>1. q \in Requests /\ ~q.started
      BY <1>4, EmptySeq, NewRequestFits DEF TypeOK, Sidecars
    <3>2. OwnRow(q) BY <1>4, NewTextRequestRow
    <3> HIDE DEF q
    <3>3. pending' = q /\ uiPc' # "begin" BY <2>2, AskedIsFresh DEF q
    <3> QED BY <3>1, <3>2, <3>3 DEF OwnRow
  <2>3. CASE AskNothing
    BY <1>1, <2>3 DEF AskNothing, askVars, uiVars
  <2> QED BY <1>3, <2>1, <2>2, <2>3
<1>9. Rows'
  BY <1>1, <1>2, <1>8 DEF Art, Rows, OwnRow
<1> QED BY <1>1, <1>6, <1>7, <1>8, <1>9, LuaOnlyArt DEF storeVars

LEMMA PumpIconArt ==
  ASSUME TypeOK, Control, Art, PumpIcon
  PROVE  Art'
<1>1. /\ uiPc = "lua" /\ pending = NONE /\ lastKey \in Games /\ lastKey # NONE
      /\ UNCHANGED <<slotVars, workerVars, heap, storeVars, lastKey, lastImg, lastDesc, iconCands>>
      /\ Range(iconCands) \subseteq Range(Icons[lastKey])
  BY DEF PumpIcon, Pumping, TypeOK, Art, Rows
<1>2. \/ AskNothing /\ UNCHANGED lastIcon
      \/ \E i \in DOMAIN iconCands : /\ entries[iconCands[i]] # NONE
                                     /\ lastIcon' = entries[iconCands[i]] /\ AskNothing
      \/ \E i \in DOMAIN iconCands :
           /\ BeginLoad(NewRequest(lastKey, iconCands, i, NONE, FALSE, TRUE))
           /\ UNCHANGED lastIcon
  BY DEF PumpIcon
<1>3. CASE AskNothing /\ UNCHANGED lastIcon
  <2>1. pending' = pending /\ uiPc' = uiPc
    BY <1>3 DEF AskNothing, askVars, uiVars
  <2>2. Rows' BY <1>1, <2>1 DEF Art, Rows, OwnRow
  <2>3. SelectionShowsItsOwn' BY <1>1, <1>3 DEF Art, SelectionShowsItsOwn
  <2> QED BY <1>1, <1>3, <2>1, <2>2, <2>3, LuaOnlyArt DEF storeVars
<1>4. CASE \E i \in DOMAIN iconCands : /\ entries[iconCands[i]] # NONE
                                      /\ lastIcon' = entries[iconCands[i]] /\ AskNothing
  <2>1. PICK i \in DOMAIN iconCands : /\ entries[iconCands[i]] # NONE
                                     /\ lastIcon' = entries[iconCands[i]] /\ AskNothing
    BY <1>4
  <2>2. iconCands[i] \in ArtPaths /\ iconCands[i] \in Range(Icons[lastKey])
    BY <1>1, ArtOfCandidate DEF TypeOK, Range
  <2>3. lastIcon' \in Cached /\ heap[lastIcon'] \in Range(Icons[lastKey])
    BY <2>1, <2>2 DEF Art, Held, Cached
  <2>4. pending' = pending /\ uiPc' = uiPc
    BY <2>1 DEF AskNothing, askVars, uiVars
  <2>5. Rows' BY <1>1, <2>4 DEF Art, Rows, OwnRow
  <2>6. SelectionShowsItsOwn' BY <1>1, <2>3 DEF Art, SelectionShowsItsOwn
  <2> QED BY <1>1, <2>3, <2>4, <2>5, <2>6, LuaOnlyArt DEF storeVars
<1>5. CASE \E i \in DOMAIN iconCands :
             /\ BeginLoad(NewRequest(lastKey, iconCands, i, NONE, FALSE, TRUE))
             /\ UNCHANGED lastIcon
  <2>1. PICK i \in DOMAIN iconCands :
          BeginLoad(NewRequest(lastKey, iconCands, i, NONE, FALSE, TRUE))
    BY <1>5
  <2> DEFINE q == NewRequest(lastKey, iconCands, i, NONE, FALSE, TRUE)
  <2>2. q \in Requests /\ ~q.started
    BY <1>1, ArtOfCandidate, NewRequestFits DEF TypeOK
  <2>3. OwnRow(q) BY <1>1, NewRequestRow
  <2> HIDE DEF q
  <2>4. pending' = q /\ uiPc' # "begin" BY <2>1, AskedIsFresh DEF q
  <2>5. Rows' BY <1>1, <2>3, <2>4 DEF Art, Rows, OwnRow
  <2>6. SelectionShowsItsOwn' BY <1>1, <1>5 DEF Art, SelectionShowsItsOwn
  <2> QED BY <1>1, <1>5, <2>2, <2>4, <2>5, <2>6, LuaOnlyArt DEF storeVars
<1> QED BY <1>2, <1>3, <1>4, <1>5

LEMMA PumpRetryArt ==
  ASSUME TypeOK, Control, Art, PumpRetry
  PROVE  Art'
<1>1. /\ pending \in Requests /\ ~pending.started /\ pending # NONE
      /\ UNCHANGED <<slotVars, workerVars, heap, selVars, storeVars>>
      /\ uiPc' # "begin"
  BY NoRequestIsNone DEF PumpRetry, Pumping, TypeOK
<1>2. \/ pending' = NONE
      \/ pending' \in Requests /\ ~pending'.started /\ OwnRow(pending)'
  <2>1. CASE pending' = [pending EXCEPT !.retries = @ + 1]
    <3>1. /\ pending'.key = pending.key /\ pending'.desc = pending.desc
          /\ pending'.cands = pending.cands
          /\ pending'.textOnly <=> pending.textOnly
          /\ pending'.iconOnly <=> pending.iconOnly
      BY <1>1, <2>1 DEF Requests
    <3>2. OwnRow(pending)' BY <1>1, <3>1 DEF Art, Rows, OwnRow
    <3> QED BY <1>1, <2>1, <3>2, SetRetries
  <2>2. CASE pending' = NONE BY <2>2
  <2> QED BY <2>1, <2>2 DEF PumpRetry
<1>3. Rows' BY <1>1, <1>2 DEF Art, Rows, OwnRow, selVars
<1>4. SelectionShowsItsOwn' BY <1>1 DEF Art, SelectionShowsItsOwn, selVars
<1> QED BY <1>1, <1>2, <1>3, <1>4, LuaOnlyArt DEF selVars, storeVars

\* What is known when an answer is collected: it answers the pending request.
LEMMA AnswerOwned ==
  ASSUME TypeOK, Control, Art, NEW p, p = pending, TakeAnswer(p)
  PROVE  /\ p \in Requests /\ uiPc = "lua" /\ result' = NONE
         /\ wTex = NONE /\ wTex' = NONE /\ lastKey' = lastKey /\ iconCands' = iconCands
         /\ OwnRow(p)
         /\ result # NONE => result \in Textures /\ ImagePath(p) \in ArtPaths
                            /\ heap[result] = ImagePath(p)
         /\ lastDesc' # NONE => lastKey # NONE /\ lastDesc' = Sidecar[lastKey]
<1>1. p \in Requests /\ uiPc = "lua" /\ state = Done /\ p.started /\ p # NONE
      /\ result' = NONE /\ UNCHANGED <<workerVars, lastKey, iconCands>>
  BY DEF TakeAnswer, Pumping, TypeOK
<1>2. wTex = NONE BY <1>1 DEF Art, Held, Control, OneJob, Busy, Done
<1>3. OwnRow(p) BY <1>1 DEF Art, Rows
<1>4. result # NONE => result \in Textures /\ ImagePath(p) \in ArtPaths
                     /\ heap[result] = ImagePath(p)
  BY <1>1 DEF Art, Held, Owned, TypeOK
<1>5. lastDesc' # NONE => lastKey # NONE /\ lastDesc' = Sidecar[lastKey]
  <2>1. CASE lastDesc' = lastDesc
    BY <2>1 DEF Art, SelectionShowsItsOwn
  <2>2. CASE lastDesc' = text /\ text \in Sidecars /\ ~Stale(p) /\ p.desc # NONE
    <3>1. lastKey = p.key /\ p.key \in Games
      BY <1>1, <2>2 DEF Stale, Requests
    <3>2. text = p.desc
      BY <1>1, <2>2, CoverAssumption DEF Art, Owned
    <3> QED BY <1>3, <2>2, <3>1, <3>2, CoverAssumption DEF OwnRow
  <2> QED BY <2>1, <2>2 DEF TakeAnswer
<1> QED BY <1>1, <1>2, <1>3, <1>4, <1>5 DEF workerVars

\* An answer that shows nothing: what is cached and on screen stays, whatever is freed.
LEMMA AnswerDroppedArt ==
  ASSUME TypeOK, Control, Art, NEW p, p = pending, TakeAnswer(p),
         UNCHANGED <<entries, lastImg, lastIcon>>,
         heap' = heap \/ heap' = Freed({result}),
         \/ pending' = NONE
         \/ pending' \in Requests /\ ~pending'.started /\ OwnRow(pending)',
         uiPc' # "begin"
  PROVE  Art'
<1>1. /\ result' = NONE /\ wTex' = NONE /\ lastKey' = lastKey /\ iconCands' = iconCands
      /\ lastDesc' # NONE => lastKey # NONE /\ lastDesc' = Sidecar[lastKey]
  BY AnswerOwned
<1>2. \A t \in Textures : t # result => heap'[t] = heap[t]
  BY FreedKeeps DEF TypeOK
<1>3. Held'
  <2>1. \A q \in ArtPaths : entries[q] # NONE => entries[q] # result /\ entries[q] \in Textures
    BY DEF Art, Held, Cached, TypeOK
  <2>2. \A q \in ArtPaths : entries'[q] # NONE => heap'[entries'[q]] = q
    BY <1>2, <2>1 DEF Art, Held
  <2> QED BY <1>1, <2>2 DEF Held
<1>4. Owned' BY DEF Owned
<1>5. Rows' BY <1>1 DEF Art, Rows, OwnRow
<1>6. SelectionShowsItsOwn'
  <2>1. /\ lastImg # NONE => heap'[lastImg] = heap[lastImg]
        /\ lastIcon # NONE => heap'[lastIcon] = heap[lastIcon]
    BY <1>2, ShownAlive DEF Art, Held
  <2> QED BY <1>1, <2>1 DEF Art, SelectionShowsItsOwn
<1> QED BY <1>3, <1>4, <1>5, <1>6 DEF Art

LEMMA EvictKeeps ==
  ASSUME TypeOK, NEW stored \in [ArtPaths -> Textures \union {NONE}],
         NEW queue \in Seq(ArtPaths), NEW shown, Evict(stored, queue, shown),
         \A q \in ArtPaths : stored[q] # NONE => heap[stored[q]] = q
  PROVE  /\ \A q \in ArtPaths : entries'[q] # NONE => heap'[entries'[q]] = q
         /\ \A t \in Textures : t \in shown => heap'[t] = heap[t]
<1>1. CASE entries' = stored /\ UNCHANGED heap
  BY <1>1
<1>2. CASE \E i \in DOMAIN queue :
             /\ stored[queue[i]] \notin shown
             /\ entries' = [stored EXCEPT ![queue[i]] = NONE]
             /\ heap' = Freed({stored[queue[i]]})
  <2>1. PICK i \in DOMAIN queue :
             /\ stored[queue[i]] \notin shown
             /\ entries' = [stored EXCEPT ![queue[i]] = NONE]
             /\ heap' = Freed({stored[queue[i]]})
    BY <1>2
  <2> DEFINE victim == queue[i]
  <2>2. victim \in ArtPaths BY ArtOfCandidate
  <2>3. \A t \in Textures : t # stored[victim] => heap'[t] = heap[t]
    BY <2>1, FreedKeeps DEF TypeOK
  <2>4. ASSUME NEW q \in ArtPaths, entries'[q] # NONE
        PROVE  heap'[entries'[q]] = q
    <3>1. q # victim /\ entries'[q] = stored[q] BY <2>1, <2>2, <2>4
    <3>2. stored[q] \in Textures /\ stored[q] # NONE /\ heap[stored[q]] = q BY <2>4, <3>1
    <3>3. stored[victim] # NONE => heap[stored[victim]] = victim BY <2>2
    <3>4. stored[q] # stored[victim]
      <4> HIDE DEF victim
      <4> QED BY <3>1, <3>2, <3>3
    <3> QED BY <2>3, <3>1, <3>2, <3>4
  <2> QED BY <2>1, <2>2, <2>3, <2>4
<1> QED BY <1>1, <1>2 DEF Evict, IsFirst

LEMMA PumpHitArt ==
  ASSUME TypeOK, Control, Art, PumpHit
  PROVE  Art'
<1> DEFINE p == pending
           stored == [entries EXCEPT ![ImagePath(p)] = result]
           queue  == Append(order, ImagePath(p))
           shown  == {lastImg', lastIcon'} \ {NONE}
<1>1. /\ TakeAnswer(p) /\ result # NONE /\ lastKey = p.key /\ pending' = NONE
      /\ uiPc' = uiPc /\ Evict(stored, queue, shown)
      /\ lastIcon' = IF p.iconOnly THEN result ELSE lastIcon
      /\ lastImg'  = IF p.iconOnly THEN lastImg ELSE result
  BY DEF PumpHit, Stale, NoMoreWork, uiVars
<1>2. /\ p \in Requests /\ uiPc = "lua" /\ result' = NONE /\ wTex' = NONE
      /\ lastKey' = lastKey /\ iconCands' = iconCands
      /\ OwnRow(p) /\ result \in Textures /\ ImagePath(p) \in ArtPaths
      /\ heap[result] = ImagePath(p)
      /\ lastDesc' # NONE => lastKey # NONE /\ lastDesc' = Sidecar[lastKey]
  BY <1>1, AnswerOwned
<1>3. stored \in [ArtPaths -> Textures \union {NONE}] BY <1>2 DEF TypeOK
<1>4. queue \in Seq(ArtPaths) BY <1>2, AppendProperties DEF TypeOK
<1>5. \A q \in ArtPaths : stored[q] # NONE => heap[stored[q]] = q
  BY <1>2 DEF Art, Held, TypeOK
<1>6. /\ \A q \in ArtPaths : entries'[q] # NONE => heap'[entries'[q]] = q
      /\ \A t \in Textures : t \in shown => heap'[t] = heap[t]
  <2> HIDE DEF stored, queue, shown
  <2> QED BY <1>1, <1>3, <1>4, <1>5, EvictKeeps
<1>7. Held' BY <1>2, <1>6 DEF Held
<1>8. Owned' /\ Rows'
  BY <1>1, <1>2 DEF Art, Owned, Rows
<1>9. ImagePath(p) \in Range(p.cands) /\ ~p.textOnly
  <2>1. ~p.textOnly BY <1>2, CoverAssumption DEF ImagePath
  <2>2. p.idx \in DOMAIN p.cands BY <1>2, <2>1, NoRequestIsNone DEF Control, Asking
  <2> QED BY <2>1, <2>2 DEF ImagePath, Range
<1>10. lastKey # NONE BY <1>1, <1>2, CoverAssumption DEF Requests
<1>11. heap'[result] = ImagePath(p)
  BY <1>1, <1>2, <1>6, CoverAssumption
<1>12. SelectionShowsItsOwn'
  <2>1. CASE p.iconOnly
    <3>1. lastIcon' = result /\ lastImg' = lastImg BY <1>1, <2>1
    <3>2. heap'[result] \in Range(Icons[lastKey])
      BY <1>1, <1>2, <1>9, <1>11, <2>1 DEF OwnRow
    <3>3. lastImg # NONE => heap'[lastImg] = heap[lastImg]
      BY <1>6, <3>1, ShownAlive DEF Art
    <3> QED BY <1>2, <1>10, <3>1, <3>2, <3>3 DEF Art, SelectionShowsItsOwn
  <2>2. CASE ~p.iconOnly
    <3>1. lastImg' = result /\ lastIcon' = lastIcon BY <1>1, <2>2
    <3>2. heap'[result] \in Range(Covers[lastKey])
      BY <1>1, <1>2, <1>9, <1>11, <2>2 DEF OwnRow
    <3>3. lastIcon # NONE => heap'[lastIcon] = heap[lastIcon]
      BY <1>6, <3>1, ShownAlive DEF Art
    <3> QED BY <1>2, <1>10, <3>1, <3>2, <3>3 DEF Art, SelectionShowsItsOwn
  <2> QED BY <2>1, <2>2
<1> QED BY <1>7, <1>8, <1>12 DEF Art

LEMMA PumpAnswerArt ==
  ASSUME TypeOK, Control, Art, PumpAnswer
  PROVE  Art'
<1> DEFINE p == pending
<1>1. CASE PumpHit BY <1>1, PumpHitArt
<1>2. CASE PumpStaleHit
  <2>1. TakeAnswer(p) /\ pending' = NONE /\ uiPc' = uiPc /\ uiPc = "lua"
        /\ heap' = Freed({result}) /\ UNCHANGED <<entries, lastImg, lastIcon>>
    BY <1>2 DEF PumpStaleHit, NoMoreWork, uiVars, TakeAnswer, Pumping
  <2> QED BY <2>1, AnswerDroppedArt
<1>3. CASE PumpTextOnly
  <2>1. TakeAnswer(p) /\ pending' = NONE /\ uiPc' = uiPc /\ uiPc = "lua"
        /\ heap' = heap /\ UNCHANGED <<entries, lastImg, lastIcon>>
    BY <1>3 DEF PumpTextOnly, NoMoreWork, uiVars, TakeAnswer, Pumping
  <2> QED BY <2>1, AnswerDroppedArt
<1>4. CASE PumpMiss
  <2>1. TakeAnswer(p) /\ uiPc = "lua" /\ heap' = heap /\ ~p.textOnly
        /\ UNCHANGED <<entries, lastImg, lastIcon>>
    BY <1>4 DEF PumpMiss, TakeAnswer, Pumping
  <2>2. p \in Requests /\ OwnRow(p) BY <2>1, AnswerOwned
  <2>3. CASE NoMoreWork
    <3>1. pending' = NONE /\ uiPc' = uiPc BY <2>3 DEF NoMoreWork, uiVars
    <3> QED BY <2>1, <3>1, AnswerDroppedArt
  <2>4. CASE \E i \in DOMAIN p.cands :
               BeginLoad(NewRequest(p.key, p.cands, i, NONE, FALSE, p.iconOnly))
    <3>1. PICK i \in DOMAIN p.cands :
            BeginLoad(NewRequest(p.key, p.cands, i, NONE, FALSE, p.iconOnly))
      BY <2>4
    <3>2. p.key \in Games /\ p.cands \in Seq(ArtPaths) /\ p.iconOnly \in BOOLEAN
      BY <2>2 DEF Requests
    <3> DEFINE q == NewRequest(p.key, p.cands, i, NONE, FALSE, p.iconOnly)
    <3>3. q \in Requests /\ ~q.started
      BY <3>2, ArtOfCandidate, NewRequestFits DEF TypeOK
    <3>4. OwnRow(q)
      <4>1. /\ p.iconOnly => Range(p.cands) \subseteq Range(Icons[p.key])
            /\ ~p.iconOnly => Range(p.cands) \subseteq Range(Covers[p.key])
        BY <2>1, <2>2 DEF OwnRow
      <4> QED BY <3>2, <4>1, NewRequestRow
    <3> HIDE DEF q
    <3>5. pending' = q /\ uiPc' # "begin" BY <3>1, AskedIsFresh DEF q
    <3>6. pending' \in Requests /\ ~pending'.started /\ OwnRow(pending)'
      BY <3>3, <3>4, <3>5 DEF OwnRow
    <3> QED BY <2>1, <3>5, <3>6, AnswerDroppedArt
  <2> QED BY <1>4, <2>3, <2>4 DEF PumpMiss
<1> QED BY <1>1, <1>2, <1>3, <1>4 DEF PumpAnswer

-----------------------------------------------------------------------------
(* Textures are neither leaked nor freed twice.                            *)

\* Every texture that is alive is somebody's.
Kept == \A t \in Textures : heap[t] # NONE => t \in Cached \union {wTex, result}
\* The eviction queue lists what is cached, once.
Queued ==
  /\ Len(order) <= MaxEntries
  /\ IsInjective(order)
  /\ Range(order) = {q \in ArtPaths : entries[q] # NONE}
OnScreen == {lastImg, lastIcon} \subseteq Cached \union {NONE}
\* What is asked for is not in the cache yet, nor is any later candidate.
Unread ==
  pending # NONE /\ ~pending.textOnly =>
    \A j \in DOMAIN pending.cands : j >= pending.idx => entries[pending.cands[j]] = NONE
FewIcons == Len(iconCands) <= 1

Shelf == Kept /\ Queued /\ OnScreen /\ Unread /\ FewIcons

\* The rows of every page but the UDPFS one have at most one disc icon to look for.
OneIcon == \A g \in Games : Len(Icons[g]) <= 1

LEMMA AppendNew ==
  ASSUME NEW S, NEW s \in Seq(S), NEW e \in S, IsInjective(s), e \notin Range(s)
  PROVE  /\ IsInjective(Append(s, e))
         /\ Range(Append(s, e)) = Range(s) \union {e}
         /\ Len(Append(s, e)) = Len(s) + 1
<1> DEFINE r == Append(s, e)
<1>1. /\ r \in Seq(S) /\ Len(r) = Len(s) + 1
      /\ \A i \in 1 .. Len(s) : r[i] = s[i]
      /\ r[Len(s) + 1] = e
  BY AppendProperties
<1>2. DOMAIN s = 1 .. Len(s) /\ DOMAIN r = 1 .. Len(s) + 1 /\ Len(s) \in Nat
  BY <1>1, LenProperties
<1> HIDE DEF r
<1>3. IsInjective(r)
  BY <1>1, <1>2 DEF IsInjective, Range
<1>4. Range(r) = Range(s) \union {e}
  <2>1. ASSUME NEW x \in Range(r) PROVE x \in Range(s) \union {e}
    BY <1>1, <1>2 DEF Range
  <2>2. ASSUME NEW x \in Range(s) PROVE x \in Range(r)
    BY <1>1, <1>2 DEF Range
  <2>3. e \in Range(r)
    BY <1>1, <1>2 DEF Range
  <2> QED BY <2>1, <2>2, <2>3
<1> QED BY <1>1, <1>3, <1>4 DEF r

\* EvictIfNeeded's queue: the entry is gone, those that were passed over are at the back.
LEMMA Rotated ==
  ASSUME NEW S, NEW s \in Seq(S), NEW i \in DOMAIN s, IsInjective(s)
  PROVE  LET r == SubSeq(s, i + 1, Len(s)) \o SubSeq(s, 1, i - 1)
         IN /\ Len(r) = Len(s) - 1
            /\ IsInjective(r)
            /\ Range(r) = Range(s) \ {s[i]}
<1> DEFINE n == Len(s)
           a == SubSeq(s, i + 1, n)
           b == SubSeq(s, 1, i - 1)
           r == a \o b
<1>1. n \in Nat /\ DOMAIN s = 1 .. n /\ i \in 1 .. n /\ \A j \in 1 .. n : s[j] \in S
  BY LenProperties, ElementOfSeq
<1>2. a \in Seq(S) /\ Len(a) = n - i /\ \A j \in 1 .. n - i : a[j] = s[i + j]
  <2>1. \A j \in i + 1 .. n : s[j] \in S BY <1>1
  <2> HIDE DEF n
  <2>2. a \in Seq(S) /\ Len(a) = (IF i + 1 <= n THEN n - (i + 1) + 1 ELSE 0)
        /\ \A j \in 1 .. n - (i + 1) + 1 : a[j] = s[(i + 1) + j - 1]
    BY <1>1, <2>1, SubSeqProperties
  <2> HIDE DEF a
  <2>3. Len(a) = n - i BY <1>1, <2>2
  <2>4. ASSUME NEW j \in 1 .. n - i PROVE a[j] = s[i + j]
    <3>1. j \in 1 .. n - (i + 1) + 1 /\ (i + 1) + j - 1 = i + j BY <1>1, <2>4
    <3> QED BY <2>2, <3>1
  <2> QED BY <2>2, <2>3, <2>4
<1>3. b \in Seq(S) /\ Len(b) = i - 1 /\ \A j \in 1 .. i - 1 : b[j] = s[j]
  <2>1. \A j \in 1 .. i - 1 : s[j] \in S BY <1>1
  <2>2. b \in Seq(S) /\ Len(b) = (IF 1 <= i - 1 THEN (i - 1) - 1 + 1 ELSE 0)
        /\ \A j \in 1 .. (i - 1) - 1 + 1 : b[j] = s[1 + j - 1]
    BY <1>1, <2>1, SubSeqProperties
  <2> HIDE DEF b, n
  <2> QED BY <1>1, <2>2
<1> HIDE DEF a, b, n
<1>4. /\ r \in Seq(S) /\ Len(r) = n - 1
      /\ \A j \in 1 .. n - 1 : r[j] = IF j <= n - i THEN s[i + j] ELSE s[j - (n - i)]
  <2>1. /\ r \in Seq(S) /\ Len(r) = Len(a) + Len(b)
        /\ \A j \in 1 .. Len(a) + Len(b) : r[j] = IF j <= Len(a) THEN a[j] ELSE b[j - Len(a)]
    BY <1>2, <1>3, ConcatProperties
  <2> HIDE DEF r
  <2> QED BY SMTT(30), <1>1, <1>2, <1>3, <2>1
<1> HIDE DEF r
<1>5. DOMAIN r = 1 .. n - 1 BY <1>4, LenProperties
<1> DEFINE from(j) == IF j <= n - i THEN i + j ELSE j - (n - i)
<1>a. ASSUME NEW j \in 1 .. n - 1
      PROVE  r[j] = s[from(j)] /\ from(j) \in 1 .. n /\ from(j) # i
  BY <1>1, <1>4, <1>a
<1>b. ASSUME NEW j \in 1 .. n - 1, NEW k \in 1 .. n - 1, from(j) = from(k)
      PROVE  j = k
  BY <1>1, <1>b
<1> HIDE DEF from
<1>6. IsInjective(r)
  <2> SUFFICES ASSUME NEW j \in 1 .. n - 1, NEW k \in 1 .. n - 1, r[j] = r[k]
               PROVE  j = k
    BY <1>5 DEF IsInjective
  <2>1. s[from(j)] = s[from(k)] /\ from(j) \in DOMAIN s /\ from(k) \in DOMAIN s
    BY <1>1, <1>a
  <2>2. from(j) = from(k) BY <2>1 DEF IsInjective
  <2> QED BY <1>b, <2>2
<1>7. Range(r) = Range(s) \ {s[i]}
  <2>1. ASSUME NEW j \in 1 .. n - 1 PROVE r[j] \in Range(s) \ {s[i]}
    <3>1. r[j] = s[from(j)] /\ from(j) \in DOMAIN s /\ from(j) # i BY <1>1, <1>a
    <3>2. s[from(j)] # s[i] BY <3>1 DEF IsInjective
    <3> QED BY <3>1, <3>2 DEF Range
  <2>2. ASSUME NEW k \in 1 .. n, k # i PROVE s[k] \in Range(r)
    <3>1. CASE k > i
      <4>1. k - i \in 1 .. n - 1 /\ k - i <= n - i /\ i + (k - i) = k BY <1>1, <2>2, <3>1
      <4>2. r[k - i] = s[k] BY <1>4, <4>1
      <4> QED BY <1>5, <4>1, <4>2 DEF Range
    <3>2. CASE k < i
      <4>1. /\ k + (n - i) \in 1 .. n - 1 /\ ~(k + (n - i) <= n - i)
            /\ (k + (n - i)) - (n - i) = k
        BY <1>1, <2>2, <3>2
      <4>2. r[k + (n - i)] = s[k] BY <1>4, <4>1
      <4> QED BY <1>5, <4>1, <4>2 DEF Range
    <3> QED BY <1>1, <2>2, <3>1, <3>2
  <2>3. ASSUME NEW x \in Range(r) PROVE x \in Range(s) \ {s[i]}
    <3>1. PICK j \in 1 .. n - 1 : x = r[j] BY <1>5 DEF Range
    <3> QED BY <2>1, <3>1
  <2>4. ASSUME NEW x \in Range(s) \ {s[i]} PROVE x \in Range(r)
    <3>1. PICK k \in 1 .. n : x = s[k] BY <1>1 DEF Range
    <3> QED BY <2>2, <2>4, <3>1
  <2> QED BY <2>3, <2>4
<1> QED BY <1>4, <1>6, <1>7 DEF n, a, b, r

LEMMA InitShelf == Init => Shelf
<1> SUFFICES ASSUME Init PROVE Shelf OBVIOUS
<1>1. Kept BY DEF Init, Kept
<1>2. Queued
  <2>1. Len(order) = 0 /\ DOMAIN order = {} BY DEF Init
  <2> QED BY <2>1, CoverAssumption DEF Init, Queued, IsInjective, Range
<1>3. OnScreen BY DEF Init, OnScreen
<1>4. Unread BY DEF Init, Unread
<1>5. FewIcons BY DEF Init, FewIcons
<1> QED BY <1>1, <1>2, <1>3, <1>4, <1>5 DEF Shelf

\* A step that leaves the cache, the screen and the request alone.
LEMMA SameShelf ==
  ASSUME Shelf, UNCHANGED <<entries, order, lastImg, lastIcon, iconCands>>, Kept',
         \/ pending' = pending
         \/ pending' = NONE
         \/ /\ pending # NONE
            /\ pending'.cands = pending.cands /\ pending'.idx = pending.idx
            /\ pending'.textOnly <=> pending.textOnly
  PROVE  Shelf'
<1>1. Queued' /\ OnScreen' /\ FewIcons'
  BY DEF Shelf, Queued, OnScreen, FewIcons, Cached
<1>2. Unread'
  BY DEF Shelf, Unread
<1> QED BY <1>1, <1>2 DEF Shelf

LEMMA WorkerShelf ==
  ASSUME TypeOK, Control, Art, Shelf, Worker
  PROVE  Shelf'
<1>0. UNCHANGED <<selVars, storeVars, askVars>>
  BY DEF Worker, WorkerWake, WorkerLoadImage, WorkerReadText, WorkerPublish
<1>1. Cached' = Cached BY <1>0 DEF Cached, storeVars
<1>2. NONE \notin Textures BY CoverAssumption
<1>3. Kept'
  <2>1. CASE WorkerWake
    BY <1>1, <2>1 DEF Shelf, Kept, WorkerWake
  <2>2. CASE WorkerLoadImage
    <3>1. wTex = NONE /\ result' = result
      BY <2>2 DEF WorkerLoadImage, Art, Held
    <3>2. \A t \in Textures : t # wTex' => heap'[t] = heap[t]
      BY <2>2 DEF WorkerLoadImage, TypeOK
    <3> QED BY <1>1, <1>2, <3>1, <3>2 DEF Shelf, Kept
  <2>3. CASE WorkerReadText
    BY <1>1, <2>3 DEF Shelf, Kept, WorkerReadText
  <2>4. CASE WorkerPublish
    <3>1. result = NONE
      BY <2>4 DEF WorkerPublish, Art, Held, Control, OneJob, Busy, Done
    <3> QED BY <1>1, <1>2, <2>4, <3>1 DEF Shelf, Kept, WorkerPublish
  <2> QED BY <2>1, <2>2, <2>3, <2>4 DEF Worker
<1> QED BY <1>0, <1>3, SameShelf DEF selVars, storeVars, askVars

\* The answer in the slot is freed: everything else that was held still is.
LEMMA DrainKeeps ==
  ASSUME TypeOK, Kept, heap' = Freed({result}), UNCHANGED <<wTex, entries>>
  PROVE  Kept'
<1>1. ASSUME NEW t \in Textures, heap'[t] # NONE
      PROVE  t \in (Cached \union {wTex, result})'
  <2>1. t # result /\ heap[t] # NONE BY <1>1 DEF Freed
  <2>2. Cached' = Cached BY DEF Cached
  <2> QED BY <2>1, <2>2 DEF Kept
<1> QED BY <1>1 DEF Kept

LEMMA CCallShelf ==
  ASSUME TypeOK, Control, Art, Shelf, CCall
  PROVE  Shelf'
<1>0. UNCHANGED <<selVars, storeVars, workerVars>>
  BY DEF CCall, DrainOrphan, CoverLoadTextPath, CoverLoadBegin
<1>1. Cached' = Cached BY <1>0 DEF Cached, storeVars
<1>2. CASE DrainOrphan
  <2>1. pending' = pending BY <1>2 DEF DrainOrphan, askVars
  <2>2. Kept'
    <3>1. CASE heap' = Freed({result})
      BY <1>0, <3>1, DrainKeeps DEF Shelf, storeVars, workerVars
    <3>2. CASE UNCHANGED <<result, heap>>
      BY <1>0, <1>1, <3>2 DEF Shelf, Kept, workerVars
    <3> QED BY <1>2, <3>1, <3>2 DEF DrainOrphan
  <2> QED BY <1>0, <2>1, <2>2, SameShelf DEF selVars, storeVars
<1>3. CASE CoverLoadTextPath
  <2>1. pending' = pending /\ UNCHANGED <<result, heap>> BY <1>3 DEF CoverLoadTextPath, askVars
  <2>2. Kept' BY <1>0, <1>1, <2>1 DEF Shelf, Kept, workerVars
  <2> QED BY <1>0, <2>1, <2>2, SameShelf DEF selVars, storeVars
<1>4. CASE CoverLoadBegin
  <2>1. pending \in Requests /\ pending # NONE
    BY <1>4, NoRequestIsNone DEF CoverLoadBegin, Control, Asking, TypeOK
  <2>2. PICK b \in BOOLEAN : pending' = [pending EXCEPT !.started = b]
    BY <1>4 DEF CoverLoadBegin
  <2>3. /\ pending'.cands = pending.cands /\ pending'.idx = pending.idx
        /\ pending'.textOnly <=> pending.textOnly
    BY <2>1, <2>2 DEF Requests
  <2>4. result' = result /\ heap' = heap
    BY <1>4 DEF CoverLoadBegin, Art, Held, Idle, Done
  <2>5. Kept' BY <1>0, <1>1, <2>4 DEF Shelf, Kept, workerVars
  <2> QED BY <1>0, <2>1, <2>3, <2>5, SameShelf DEF selVars, storeVars
<1> QED BY <1>2, <1>3, <1>4 DEF CCall

\* Everything cached is freed; what the worker and the slot hold is not.
LEMMA ReleaseShelf ==
  ASSUME TypeOK, Shelf, ReleaseTextures, UNCHANGED <<slotVars, workerVars>>,
         pending' = pending \/ pending' = NONE
  PROVE  Shelf'
<1>1. \A q \in ArtPaths : entries'[q] = NONE BY DEF ReleaseTextures
<1>2. Kept'
  <2>1. ASSUME NEW t \in Textures, heap'[t] # NONE
        PROVE  t \in {wTex, result}
    <3>1. t \notin Cached /\ heap[t] # NONE BY <2>1 DEF ReleaseTextures, Freed
    <3> QED BY <3>1 DEF Shelf, Kept
  <2> QED BY <2>1 DEF Kept, slotVars, workerVars
<1>3. Queued'
  <2>1. order' = <<>> BY DEF ReleaseTextures
  <2>2. Len(order') = 0 /\ DOMAIN order' = {} BY <2>1
  <2> QED BY <1>1, <2>2, CoverAssumption DEF Queued, IsInjective, Range
<1>4. OnScreen' /\ FewIcons'
  BY DEF ReleaseTextures, DropSelection, OnScreen, FewIcons
<1>5. Unread'
  <2>1. CASE pending' = NONE BY <2>1 DEF Unread
  <2>2. CASE pending' = pending
    <3>1. ASSUME pending # NONE, NEW j \in DOMAIN pending.cands
          PROVE  pending.cands[j] \in ArtPaths
      BY <3>1, ArtOfCandidate DEF TypeOK, Requests
    <3> QED BY <1>1, <2>2, <3>1 DEF Unread
  <2> QED BY <2>1, <2>2
<1> QED BY <1>2, <1>3, <1>4, <1>5 DEF Shelf

LEMMA LaunchShelf ==
  ASSUME TypeOK, Control, Art, Shelf,
         SelectNothing \/ LeaveList \/ EnterList \/ LaunchGame \/ LaunchTool
           \/ QuiescePoll \/ LaunchRefused
  PROVE  Shelf'
<1>1. CASE SelectNothing
  <2>1. UNCHANGED <<slotVars, workerVars, heap, storeVars, pending>> /\ DropSelection
    BY <1>1 DEF SelectNothing, AskNothing, askVars
  <2>2. Kept' BY <2>1 DEF Shelf, Kept, Cached, slotVars, workerVars, storeVars
  <2>3. Queued' BY <2>1 DEF Shelf, Queued, storeVars
  <2>4. OnScreen' /\ FewIcons' BY <2>1 DEF DropSelection, OnScreen, FewIcons
  <2>5. Unread' BY <2>1 DEF Shelf, Unread, storeVars
  <2> QED BY <2>2, <2>3, <2>4, <2>5 DEF Shelf
<1>2. CASE LeaveList
  <2>1. ReleaseTextures /\ pending' = pending /\ UNCHANGED <<slotVars, workerVars>>
    BY <1>2 DEF LeaveList, askVars
  <2> QED BY <2>1, ReleaseShelf
<1>3. CASE LaunchGame
  <2>1. ReleaseTextures /\ pending' = NONE /\ UNCHANGED <<slotVars, workerVars>>
    BY <1>3 DEF LaunchGame, BeginQuiesce
  <2> QED BY <2>1, ReleaseShelf
<1>4. CASE EnterList \/ LaunchTool \/ LaunchRefused
  <2>1. /\ UNCHANGED <<slotVars, workerVars, heap, selVars, storeVars>>
        /\ pending' = pending \/ pending' = NONE
    BY <1>4 DEF EnterList, LaunchTool, LaunchRefused, BeginQuiesce, askVars
  <2>2. Kept' BY <2>1 DEF Shelf, Kept, Cached, slotVars, workerVars, storeVars
  <2> QED BY <2>1, <2>2, SameShelf DEF selVars, storeVars
<1>5. CASE QuiescePoll
  <2>1. UNCHANGED <<workerVars, selVars, storeVars, pending>>
    BY <1>5 DEF QuiescePoll, askVars
  <2>2. Kept'
    <3>1. CASE heap' = Freed({result})
      BY <2>1, <3>1, DrainKeeps DEF Shelf, storeVars, workerVars
    <3>2. CASE UNCHANGED <<result, heap>>
      BY <2>1, <3>2 DEF Shelf, Kept, Cached, workerVars, storeVars
    <3> QED BY <1>5, <3>1, <3>2 DEF QuiescePoll
  <2> QED BY <2>1, <2>2, SameShelf DEF selVars, storeVars
<1> QED BY <1>1, <1>2, <1>3, <1>4, <1>5

LEMMA RequestFields ==
  ASSUME NEW g, NEW cands, NEW i, NEW desc, NEW textOnly \in BOOLEAN, NEW iconOnly
  PROVE  LET q == NewRequest(g, cands, i, desc, textOnly, iconOnly)
         IN q.cands = cands /\ q.idx = i /\ (q.textOnly <=> textOnly)
<1>1. NewRequest(g, cands, i, desc, textOnly, iconOnly).textOnly = textOnly
  BY DEF NewRequest
<1> QED BY <1>1 DEF NewRequest

LEMMA SelectShelf ==
  ASSUME OneIcon, TypeOK, Control, Art, Shelf, NEW g \in Games, Select(g)
  PROVE  Shelf'
<1>1. UNCHANGED <<slotVars, workerVars, heap, storeVars>> /\ lastIcon' = NONE
  BY DEF Select
<1>2. Cached' = Cached BY <1>1 DEF Cached, storeVars
<1>3. Kept' BY <1>1, <1>2 DEF Shelf, Kept, slotVars, workerVars
<1>4. Queued' BY <1>1 DEF Shelf, Queued, storeVars
<1>5. FewIcons'
  <2>1. iconCands' = <<>> \/ iconCands' = Icons[g]
    BY DEF Select, IconCandidates
  <2> QED BY <2>1 DEF FewIcons, OneIcon
<1>6. PICK cands \in CoverCandidates(g), desc \in SidecarRequests(g) :
         LET cached  == {i \in DOMAIN cands : entries[cands[i]] # NONE}
             unknown == {i \in DOMAIN cands : cands[i] \notin failed}
         IN /\ \/ cached = {} /\ lastImg' = NONE
               \/ \E i \in cached : IsFirst(i, cached) /\ lastImg' = entries[cands[i]]
            /\ \/ /\ cached = {}
                  /\ \E i \in unknown :
                       /\ IsFirst(i, unknown)
                       /\ BeginLoad(NewRequest(g, cands, i, desc, FALSE, FALSE))
               \/ /\ cached # {} \/ unknown = {}
                  /\ desc # NONE
                  /\ BeginTextOnlyLoad(NewRequest(g, <<>>, 0, desc, TRUE, FALSE))
               \/ /\ cached # {} \/ unknown = {}
                  /\ desc = NONE
                  /\ AskNothing
  BY DEF Select
<1>7. cands \in Seq(ArtPaths)
  BY <1>6, ArtOfRow, EmptySeq DEF CoverCandidates
<1>8. OnScreen'
  <2>1. CASE lastImg' = NONE BY <1>1, <2>1 DEF OnScreen
  <2>2. CASE \E i \in DOMAIN cands : entries[cands[i]] # NONE /\ lastImg' = entries[cands[i]]
    <3>1. PICK i \in DOMAIN cands : entries[cands[i]] # NONE /\ lastImg' = entries[cands[i]]
      BY <2>2
    <3>2. cands[i] \in ArtPaths BY <1>7, ArtOfCandidate
    <3>3. lastImg' \in Cached BY <3>1, <3>2 DEF Cached
    <3> QED BY <1>1, <1>2, <3>3 DEF OnScreen
  <2> QED BY <1>6, <2>1, <2>2
<1>9. Unread'
  <2>1. CASE /\ \A j \in DOMAIN cands : entries[cands[j]] = NONE
             /\ \E i \in DOMAIN cands : BeginLoad(NewRequest(g, cands, i, desc, FALSE, FALSE))
    <3>1. PICK i \in DOMAIN cands : BeginLoad(NewRequest(g, cands, i, desc, FALSE, FALSE))
      BY <2>1
    <3>2. pending' = NewRequest(g, cands, i, desc, FALSE, FALSE)
      BY <3>1, AskedIsFresh
    <3>3. pending'.cands = cands BY <3>2 DEF NewRequest
    <3> QED BY <1>1, <2>1, <3>3 DEF Unread, storeVars
  <2>2. CASE BeginTextOnlyLoad(NewRequest(g, <<>>, 0, desc, TRUE, FALSE))
    <3>1. pending' = NewRequest(g, <<>>, 0, desc, TRUE, FALSE)
      BY <2>2, AskedIsFresh
    <3>2. pending'.textOnly BY <3>1, RequestFields
    <3> QED BY <3>2 DEF Unread
  <2>3. CASE AskNothing
    BY <1>1, <2>3 DEF Shelf, Unread, AskNothing, askVars, storeVars
  <2> QED BY <1>6, <2>1, <2>2, <2>3
<1> QED BY <1>3, <1>4, <1>5, <1>8, <1>9 DEF Shelf

LEMMA PumpIconShelf ==
  ASSUME TypeOK, Control, Art, Shelf, PumpIcon
  PROVE  Shelf'
<1>1. /\ UNCHANGED <<slotVars, workerVars, heap, storeVars, lastImg, iconCands>>
      /\ pending = NONE /\ iconCands \in Seq(ArtPaths)
  BY DEF PumpIcon, TypeOK
<1>2. Cached' = Cached BY <1>1 DEF Cached, storeVars
<1>3. Kept' BY <1>1, <1>2 DEF Shelf, Kept, slotVars, workerVars
<1>4. Queued' BY <1>1 DEF Shelf, Queued, storeVars
<1>5. FewIcons' BY <1>1 DEF Shelf, FewIcons
<1>6. \/ AskNothing /\ UNCHANGED lastIcon
      \/ \E i \in DOMAIN iconCands : /\ entries[iconCands[i]] # NONE
                                     /\ lastIcon' = entries[iconCands[i]] /\ AskNothing
      \/ \E i \in DOMAIN iconCands :
           /\ entries[iconCands[i]] = NONE
           /\ BeginLoad(NewRequest(lastKey, iconCands, i, NONE, FALSE, TRUE))
           /\ UNCHANGED lastIcon
  BY DEF PumpIcon
<1>7. CASE AskNothing /\ UNCHANGED lastIcon
  <2>1. OnScreen' BY <1>1, <1>2, <1>7 DEF Shelf, OnScreen
  <2>2. Unread' BY <1>1, <1>7 DEF Unread, AskNothing, askVars
  <2> QED BY <1>3, <1>4, <1>5, <2>1, <2>2 DEF Shelf
<1>8. CASE \E i \in DOMAIN iconCands : /\ entries[iconCands[i]] # NONE
                                      /\ lastIcon' = entries[iconCands[i]] /\ AskNothing
  <2>1. PICK i \in DOMAIN iconCands : /\ entries[iconCands[i]] # NONE
                                      /\ lastIcon' = entries[iconCands[i]] /\ AskNothing
    BY <1>8
  <2>2. lastIcon' \in Cached BY <1>1, <2>1, ArtOfCandidate DEF Cached
  <2>3. OnScreen' BY <1>1, <1>2, <2>2 DEF Shelf, OnScreen
  <2>4. Unread' BY <1>1, <2>1 DEF Unread, AskNothing, askVars
  <2> QED BY <1>3, <1>4, <1>5, <2>3, <2>4 DEF Shelf
<1>9. CASE \E i \in DOMAIN iconCands :
             /\ entries[iconCands[i]] = NONE
             /\ BeginLoad(NewRequest(lastKey, iconCands, i, NONE, FALSE, TRUE))
             /\ UNCHANGED lastIcon
  <2>1. PICK i \in DOMAIN iconCands :
             /\ entries[iconCands[i]] = NONE
             /\ BeginLoad(NewRequest(lastKey, iconCands, i, NONE, FALSE, TRUE))
    BY <1>9
  <2>2. pending' = NewRequest(lastKey, iconCands, i, NONE, FALSE, TRUE)
    BY <2>1, AskedIsFresh
  <2>3. pending'.cands = iconCands BY <2>2 DEF NewRequest
  <2>4. \A j \in DOMAIN iconCands : j = i
    <3>1. DOMAIN iconCands = 1 .. Len(iconCands) /\ Len(iconCands) \in Nat
      BY <1>1, LenProperties
    <3> QED BY <2>1, <3>1 DEF Shelf, FewIcons
  <2>5. Unread' BY <1>1, <2>1, <2>3, <2>4 DEF Unread, storeVars
  <2>6. OnScreen' BY <1>1, <1>2, <1>9 DEF Shelf, OnScreen
  <2> QED BY <1>3, <1>4, <1>5, <2>5, <2>6 DEF Shelf
<1> QED BY <1>6, <1>7, <1>8, <1>9

LEMMA PumpRetryShelf ==
  ASSUME TypeOK, Shelf, PumpRetry
  PROVE  Shelf'
<1>1. /\ pending \in Requests /\ pending # NONE
      /\ UNCHANGED <<slotVars, workerVars, heap, selVars, storeVars>>
  BY NoRequestIsNone DEF PumpRetry, TypeOK
<1>2. Kept' BY <1>1 DEF Shelf, Kept, Cached, slotVars, workerVars, storeVars
<1>3. \/ pending' = NONE
      \/ /\ pending'.cands = pending.cands /\ pending'.idx = pending.idx
         /\ pending'.textOnly <=> pending.textOnly
  BY <1>1 DEF PumpRetry, Requests
<1> QED BY <1>1, <1>2, <1>3, SameShelf DEF selVars, storeVars

\* An answer that is not cached: at most the texture in the slot goes.
LEMMA AnswerDroppedShelf ==
  ASSUME TypeOK, Control, Art, Shelf, NEW p, p = pending, TakeAnswer(p),
         UNCHANGED <<entries, order, lastImg, lastIcon>>,
         \/ heap' = Freed({result})
         \/ heap' = heap /\ result = NONE,
         Unread'
  PROVE  Shelf'
<1>1. iconCands' = iconCands /\ wTex' = wTex /\ result' = NONE
  BY DEF TakeAnswer, workerVars
<1>2. Kept'
  <2>1. CASE heap' = Freed({result})
    BY <1>1, <2>1, DrainKeeps DEF Shelf
  <2>2. CASE heap' = heap /\ result = NONE
    BY <1>1, <2>2 DEF Shelf, Kept, Cached
  <2> QED BY <2>1, <2>2
<1>3. Queued' /\ OnScreen' /\ FewIcons'
  BY <1>1 DEF Shelf, Queued, OnScreen, FewIcons, Cached
<1> QED BY <1>2, <1>3 DEF Shelf

\* The eviction frees the texture of the one entry it drops, which is not on screen.
LEMMA EvictShelf ==
  ASSUME TypeOK, NEW stored \in [ArtPaths -> Textures \union {NONE}],
         NEW queue \in Seq(ArtPaths), NEW shown, Evict(stored, queue, shown),
         IsInjective(queue), Range(queue) = {q \in ArtPaths : stored[q] # NONE},
         Len(queue) <= MaxEntries + 1,
         \A t \in Textures : heap[t] # NONE => \E q \in ArtPaths : stored[q] = t,
         \A t \in shown : t # NONE /\ \E q \in ArtPaths : stored[q] = t
  PROVE  /\ Len(order') <= MaxEntries
         /\ IsInjective(order')
         /\ Range(order') = {q \in ArtPaths : entries'[q] # NONE}
         /\ \A t \in Textures : heap'[t] # NONE => \E q \in ArtPaths : entries'[q] = t
         /\ \A t \in shown : \E q \in ArtPaths : entries'[q] = t
<1>1. CASE Len(queue) <= MaxEntries
  BY <1>1 DEF Evict
<1>2. CASE ~(Len(queue) <= MaxEntries)
  <2>1. PICK i \in DOMAIN queue :
             /\ stored[queue[i]] \notin shown
             /\ entries' = [stored EXCEPT ![queue[i]] = NONE]
             /\ order' = SubSeq(queue, i + 1, Len(queue)) \o SubSeq(queue, 1, i - 1)
             /\ heap' = Freed({stored[queue[i]]})
    BY <1>2 DEF Evict, IsFirst
  <2> DEFINE victim == queue[i]
  <2>2. victim \in ArtPaths BY ArtOfCandidate
  <2>3. /\ Len(order') = Len(queue) - 1
        /\ IsInjective(order')
        /\ Range(order') = Range(queue) \ {victim}
    BY <2>1, Rotated
  <2>4. Len(order') <= MaxEntries
    <3>1. Len(queue) \in Nat BY LenProperties
    <3> QED BY <2>3, <3>1, CoverAssumption
  <2> HIDE DEF victim
  <2>5. \A q \in ArtPaths : entries'[q] = IF q = victim THEN NONE ELSE stored[q]
    BY <2>1, <2>2 DEF victim
  <2>6. Range(order') = {q \in ArtPaths : entries'[q] # NONE}
    BY <2>3, <2>5
  <2>7. ASSUME NEW t \in Textures, heap'[t] # NONE
        PROVE  \E q \in ArtPaths : entries'[q] = t
    <3>1. t # stored[victim] /\ heap[t] # NONE BY <2>1, <2>7 DEF Freed, victim
    <3>2. PICK q \in ArtPaths : stored[q] = t BY <3>1
    <3> QED BY <2>5, <3>1, <3>2
  <2>8. ASSUME NEW t \in shown
        PROVE  \E q \in ArtPaths : entries'[q] = t
    <3>1. PICK q \in ArtPaths : stored[q] = t OBVIOUS
    <3>2. q # victim BY <2>1, <2>8, <3>1 DEF victim
    <3> QED BY <2>5, <3>1, <3>2
  <2> QED BY <2>3, <2>4, <2>6, <2>7, <2>8
<1> QED BY <1>1, <1>2

LEMMA PumpHitShelf ==
  ASSUME TypeOK, Control, Art, Shelf, PumpHit
  PROVE  Shelf'
<1> DEFINE p == pending
           stored == [entries EXCEPT ![ImagePath(p)] = result]
           queue  == Append(order, ImagePath(p))
           shown  == {lastImg', lastIcon'} \ {NONE}
<1>1. /\ TakeAnswer(p) /\ result # NONE /\ pending' = NONE
      /\ Evict(stored, queue, shown)
      /\ {lastImg', lastIcon'} \subseteq {result, lastImg, lastIcon}
  BY DEF PumpHit, NoMoreWork
<1>2. /\ p \in Requests /\ result' = NONE /\ wTex' = NONE /\ wTex = NONE
      /\ iconCands' = iconCands
      /\ result \in Textures /\ ImagePath(p) \in ArtPaths
  BY <1>1, AnswerOwned
<1>3. entries[ImagePath(p)] = NONE
  <2>1. ~p.textOnly BY <1>2, CoverAssumption DEF ImagePath
  <2>2. p.idx \in DOMAIN p.cands BY <1>2, <2>1, NoRequestIsNone DEF Control, Asking
  <2>3. p.idx \in Nat BY <1>2 DEF Requests
  <2>4. entries[p.cands[p.idx]] = NONE
    BY <1>2, <2>1, <2>2, <2>3, NoRequestIsNone DEF Shelf, Unread
  <2> QED BY <2>1, <2>4 DEF ImagePath
<1>4. stored \in [ArtPaths -> Textures \union {NONE}] BY <1>2 DEF TypeOK
<1>5. \A q \in ArtPaths : stored[q] = IF q = ImagePath(p) THEN result ELSE entries[q]
  BY <1>2 DEF TypeOK
<1>6. /\ queue \in Seq(ArtPaths) /\ Len(queue) = Len(order) + 1
      /\ IsInjective(queue) /\ Range(queue) = Range(order) \union {ImagePath(p)}
  <2>1. ImagePath(p) \notin Range(order) BY <1>3 DEF Shelf, Queued
  <2> QED BY <1>2, <2>1, AppendNew, AppendProperties DEF TypeOK, Shelf, Queued
<1> HIDE DEF stored, queue
<1>7. Range(queue) = {q \in ArtPaths : stored[q] # NONE}
  BY <1>1, <1>2, <1>5, <1>6 DEF Shelf, Queued
<1>8. Len(queue) <= MaxEntries + 1
  <2>1. Len(order) \in Nat BY LenProperties DEF TypeOK
  <2> QED BY <1>6, <2>1, CoverAssumption DEF Shelf, Queued
<1>9. \A t : t \in Cached => \E q \in ArtPaths : stored[q] = t
  BY <1>3, <1>5 DEF Cached
<1>10. \E q \in ArtPaths : stored[q] = result
  BY <1>2, <1>5
<1>11. \A t \in Textures : heap[t] # NONE => \E q \in ArtPaths : stored[q] = t
  <2>1. NONE \notin Textures BY CoverAssumption
  <2> QED BY <1>2, <1>9, <1>10, <2>1 DEF Shelf, Kept
<1>12. \A t \in shown : t # NONE /\ \E q \in ArtPaths : stored[q] = t
  BY <1>1, <1>9, <1>10 DEF Shelf, OnScreen
<1> HIDE DEF shown
<1>13. /\ Len(order') <= MaxEntries
       /\ IsInjective(order')
       /\ Range(order') = {q \in ArtPaths : entries'[q] # NONE}
       /\ \A t \in Textures : heap'[t] # NONE => \E q \in ArtPaths : entries'[q] = t
       /\ \A t \in shown : \E q \in ArtPaths : entries'[q] = t
  BY <1>1, <1>4, <1>6, <1>7, <1>8, <1>11, <1>12, EvictShelf
<1>14. Kept'
  <2>1. NONE \notin Textures BY CoverAssumption
  <2> QED BY <1>13, <2>1 DEF Kept, Cached
<1>15. OnScreen' BY <1>13 DEF OnScreen, Cached, shown
<1>16. Queued' BY <1>13 DEF Queued
<1>17. Unread' /\ FewIcons' BY <1>1, <1>2 DEF Unread, Shelf, FewIcons
<1> QED BY <1>14, <1>15, <1>16, <1>17 DEF Shelf

LEMMA PumpAnswerShelf ==
  ASSUME TypeOK, Control, Art, Shelf, PumpAnswer
  PROVE  Shelf'
<1> DEFINE p == pending
<1>1. CASE PumpHit BY <1>1, PumpHitShelf
<1>2. CASE PumpStaleHit
  <2>1. TakeAnswer(p) /\ pending' = NONE /\ heap' = Freed({result})
        /\ UNCHANGED <<entries, order, lastImg, lastIcon>>
    BY <1>2 DEF PumpStaleHit, NoMoreWork
  <2>2. Unread' BY <2>1 DEF Unread
  <2> QED BY <2>1, <2>2, AnswerDroppedShelf
<1>3. CASE PumpTextOnly
  <2>1. TakeAnswer(p) /\ pending' = NONE /\ heap' = heap /\ result = NONE
        /\ UNCHANGED <<entries, order, lastImg, lastIcon>>
    BY <1>3 DEF PumpTextOnly, NoMoreWork
  <2>2. Unread' BY <2>1 DEF Unread
  <2> QED BY <2>1, <2>2, AnswerDroppedShelf
<1>4. CASE PumpMiss
  <2>1. TakeAnswer(p) /\ heap' = heap /\ result = NONE /\ ~p.textOnly
        /\ UNCHANGED <<entries, order, lastImg, lastIcon>>
    BY <1>4 DEF PumpMiss
  <2>2. p \in Requests BY <2>1, AnswerOwned
  <2>3. Unread'
    <3>1. CASE NoMoreWork BY <3>1 DEF NoMoreWork, Unread
    <3>2. CASE \E i \in DOMAIN p.cands :
                 i > p.idx /\ BeginLoad(NewRequest(p.key, p.cands, i, NONE, FALSE, p.iconOnly))
      <4>1. PICK i \in DOMAIN p.cands :
              i > p.idx /\ BeginLoad(NewRequest(p.key, p.cands, i, NONE, FALSE, p.iconOnly))
        BY <3>2
      <4>2. pending' = NewRequest(p.key, p.cands, i, NONE, FALSE, p.iconOnly)
        BY <4>1, AskedIsFresh
      <4>3. pending'.cands = p.cands /\ pending'.idx = i BY <4>2 DEF NewRequest
      <4>4. DOMAIN p.cands \subseteq Nat /\ p.idx \in Nat
        BY <2>2, LenProperties DEF Requests
      <4>5. \A j \in DOMAIN p.cands : j >= p.idx => entries[p.cands[j]] = NONE
        BY <2>1, <2>2, NoRequestIsNone DEF Shelf, Unread
      <4>6. \A j \in DOMAIN p.cands : j >= i => j >= p.idx
        BY <4>1, <4>4
      <4> QED BY <2>1, <4>3, <4>5, <4>6 DEF Unread
    <3> QED BY <1>4, <3>1, <3>2 DEF PumpMiss
  <2> QED BY <2>1, <2>3, AnswerDroppedShelf
<1> QED BY <1>1, <1>2, <1>3, <1>4 DEF PumpAnswer

LEMMA ShelfStep ==
  ASSUME OneIcon, IInv, Shelf, [Next]_vars
  PROVE  Shelf'
<1>1. TypeOK /\ Control /\ Art BY DEF IInv, Art
<1>2. CASE Worker BY <1>1, <1>2, WorkerShelf
<1>3. CASE CCall BY <1>1, <1>3, CCallShelf
<1>4. CASE Pump BY <1>1, <1>4, PumpIconShelf, PumpRetryShelf, PumpAnswerShelf DEF Pump
<1>5. CASE \E g \in Games : Select(g) BY <1>1, <1>5, SelectShelf
<1>6. CASE SelectNothing \/ LeaveList \/ EnterList \/ LaunchGame \/ LaunchTool
             \/ QuiescePoll \/ LaunchRefused
  BY <1>1, <1>6, LaunchShelf
<1>7. CASE UNCHANGED vars
  <2>1. UNCHANGED <<entries, order, lastImg, lastIcon, iconCands, pending, heap, wTex, result>>
    BY <1>7 DEF vars, slotVars, workerVars, selVars, storeVars, askVars
  <2>2. Kept' BY <2>1 DEF Shelf, Kept, Cached
  <2> QED BY <2>1, <2>2, SameShelf
<1> QED BY <1>2, <1>3, <1>4, <1>5, <1>6, <1>7 DEF Next, Lua, User

\* A live texture has exactly one holder, a free one none.
LEMMA OneHolder ==
  ASSUME IInv, Shelf
  PROVE  TexturesHeldOnce
<1>1. TypeOK /\ Control /\ Art BY DEF IInv, Art
<1>2. NONE \notin Textures /\ NONE \notin ArtPaths BY CoverAssumption
<1>3. ASSUME NEW t \in Textures, heap[t] = NONE
      PROVE  Cardinality(Holders(t)) = 0
  <2>1. wTex # t /\ result # t /\ \A q \in ArtPaths : entries[q] # t
    BY <1>1, <1>2, <1>3 DEF Art, Held
  <2>2. Holders(t) = {} BY <2>1 DEF Holders
  <2> QED BY <2>2, FS_EmptySet
<1>4. ASSUME NEW t \in Textures, heap[t] # NONE
      PROVE  Cardinality(Holders(t)) = 1
  <2>1. wTex = t => result # t
    BY <1>1, <1>2 DEF Art, Held, Control, OneJob, Busy, Done
  <2>2. wTex = t \/ result = t => t \notin Cached
    BY <1>1, <1>2 DEF Art, Held
  <2>3. \A q \in ArtPaths : entries[q] = t => heap[t] = q
    BY <1>1, <1>2 DEF Art, Held
  <2>4. wTex = t \/ result = t \/ t \in Cached
    BY <1>4 DEF Shelf, Kept
  <2>5. t \in Cached <=> \E q \in ArtPaths : entries[q] = t
    BY <1>2 DEF Cached
  <2>6. \E x : Holders(t) = {x}
    <3>1. CASE wTex = t
      <4>1. Holders(t) = {"worker"} BY <2>1, <2>2, <2>5, <3>1 DEF Holders
      <4> QED BY <4>1
    <3>2. CASE result = t
      <4>1. Holders(t) = {"slot"} BY <2>1, <2>2, <2>5, <3>2 DEF Holders
      <4> QED BY <4>1
    <3>3. CASE wTex # t /\ result # t
      <4>1. PICK q \in ArtPaths : entries[q] = t BY <2>4, <2>5, <3>3
      <4>2. Holders(t) = {q} BY <2>3, <3>3, <4>1 DEF Holders
      <4> QED BY <4>2
    <3> QED BY <3>1, <3>2, <3>3
  <2> QED BY <2>6, FS_Singleton
<1>5. \A t \in Textures : Cardinality(Holders(t)) = IF heap[t] = NONE THEN 0 ELSE 1
  BY <1>3, <1>4
<1> QED BY <1>5 DEF Shelf, Queued, OnScreen, TexturesHeldOnce

-----------------------------------------------------------------------------
(* The statics and the worker implement the one-slot service.              *)

\* What the text channel holds when the worker has read the sidecar it latched.
Said == wpc = "publish" => text \in IF wText = NONE THEN {NONE} ELSE {NONE, ReadFailed, wText}

\* The request in the slot and the answer in it, as CoverSlot sees them.
JobNow ==
  IF state # Busy THEN NONE
  ELSE [token |-> token,
        path  |-> IF wpc = "wait" THEN path ELSE wPath,
        text  |-> IF wpc \in {"wait", "image"} THEN textPath ELSE wText]
AnswerNow ==
  IF state # Done THEN NONE
  ELSE [token |-> token,
        art   |-> IF result = NONE THEN NONE ELSE heap[result],
        text  |-> text]

LEMMA SaidStep ==
  ASSUME TypeOK, Control, Said, [Next]_vars
  PROVE  Said'
<1>1. CASE Worker
  BY <1>1 DEF Worker, WorkerWake, WorkerLoadImage, WorkerReadText, WorkerPublish, Said
<1>2. CASE UNCHANGED <<wpc, wText, text>>
  BY <1>2 DEF Said
<1>3. CASE state = Done /\ UNCHANGED workerVars
  BY <1>3 DEF Said, Control, OneJob, workerVars, Busy, Done
<1>4. CASE CCall \/ SelectNothing \/ LeaveList \/ EnterList \/ LaunchGame \/ LaunchTool
             \/ QuiescePoll \/ LaunchRefused \/ PumpIcon \/ PumpRetry \/ UNCHANGED vars
             \/ \E g \in Games : Select(g)
  BY <1>2, <1>4 DEF CCall, DrainOrphan, CoverLoadTextPath, CoverLoadBegin, SelectNothing,
     LeaveList, EnterList, LaunchGame, LaunchTool, BeginQuiesce, QuiescePoll, LaunchRefused,
     PumpIcon, PumpRetry, Select, vars, slotVars, workerVars
<1>5. CASE PumpAnswer
  BY <1>3, <1>5 DEF PumpAnswer, PumpHit, PumpStaleHit, PumpTextOnly, PumpMiss, TakeAnswer
<1> QED BY <1>1, <1>4, <1>5 DEF Next, Lua, User, Pump

\* Steps the service does not see.
LEMMA Unseen ==
  ASSUME state' = state,
         state = Busy => UNCHANGED <<token, path, textPath, wPath, wText, wpc>>,
         state = Done => /\ UNCHANGED <<token, result, text>>
                         /\ result # NONE => heap'[result] = heap[result]
  PROVE  UNCHANGED <<state, JobNow, AnswerNow>>
<1>1. JobNow' = JobNow BY DEF JobNow
<1>2. AnswerNow' = AnswerNow BY DEF AnswerNow
<1> QED BY <1>1, <1>2

LEMMA WorkerServes ==
  ASSUME TypeOK, Control, Art, Said, Worker
  PROVE  \/ UNCHANGED <<state, JobNow, AnswerNow>>
         \/ /\ state = Busy /\ state' = Done /\ JobNow' = NONE
            /\ AnswerNow' \in Slot!Outcomes(JobNow)
<1>1. CASE WorkerWake
  BY <1>1 DEF WorkerWake, Control, OneJob, JobNow, AnswerNow, Busy, Done
<1>2. CASE WorkerLoadImage
  <2>1. state = Busy BY <1>2 DEF WorkerLoadImage, Control, OneJob
  <2> QED BY <1>2, <2>1 DEF WorkerLoadImage, JobNow, AnswerNow, Busy, Done
<1>3. CASE WorkerReadText
  <2>1. state = Busy BY <1>3 DEF WorkerReadText, Control, OneJob
  <2> QED BY <1>3, <2>1 DEF WorkerReadText, JobNow, AnswerNow, Busy, Done
<1>4. CASE WorkerPublish
  <2>1. state = Busy /\ state' = Done /\ token' = token
    BY <1>4 DEF WorkerPublish, Control, OneJob
  <2>2. JobNow = [token |-> token, path |-> wPath, text |-> wText]
    BY <1>4, <2>1 DEF WorkerPublish, JobNow
  <2>3. JobNow' = NONE BY <2>1 DEF JobNow, Busy, Done
  <2>4. AnswerNow' = [token |-> token, art |-> IF wTex = NONE THEN NONE ELSE heap[wTex],
                      text |-> text]
    BY <1>4, <2>1 DEF WorkerPublish, AnswerNow
  <2>5. wTex # NONE => heap[wTex] = wPath BY DEF Art, Held
  <2>6. text \in IF wText = NONE THEN {NONE} ELSE {NONE, ReadFailed, wText}
    BY <1>4 DEF WorkerPublish, Said
  <2>7. AnswerNow' \in Slot!Outcomes(JobNow)
    BY <2>2, <2>4, <2>5, <2>6 DEF Slot!Outcomes
  <2> QED BY <2>1, <2>3, <2>7
<1> QED BY <1>1, <1>2, <1>3, <1>4 DEF Worker

\* A C call is a request, collects an answer nobody waits for, or is not seen.
LEMMA CCallServes ==
  ASSUME TypeOK, Control, Art, CCall
  PROVE  \/ UNCHANGED <<state, JobNow, AnswerNow>>
         \/ /\ state = Idle /\ state' = Busy /\ AnswerNow' = NONE
            /\ JobNow' \in Slot!Jobs
         \/ /\ state = Done /\ state' = Idle /\ AnswerNow' = NONE /\ JobNow' = JobNow
<1>1. CASE DrainOrphan
  <2>1. CASE state = Done /\ state' = Idle
    BY <2>1 DEF JobNow, AnswerNow, Idle, Busy, Done
  <2>2. CASE UNCHANGED <<state, result, heap>>
    BY <1>1, <2>2, Unseen DEF DrainOrphan, workerVars
  <2> QED BY <1>1, <2>1, <2>2 DEF DrainOrphan
<1>2. CASE CoverLoadTextPath
  <2>1. /\ state' = state
        /\ state = Busy => textPath' = textPath
        /\ UNCHANGED <<token, path, wPath, wText, wpc, result, text, heap>>
    BY <1>2 DEF CoverLoadTextPath, workerVars
  <2> QED BY <2>1, Unseen
<1>3. CASE CoverLoadBegin
  <2>1. CASE state = Idle /\ state' = Busy /\ path' = ImagePath(pending) /\ token' = pending.token
    <3>1. wpc = "wait" /\ wpc' = "wait" /\ textPath' = textPath
      BY <1>3, <2>1 DEF CoverLoadBegin, Control, OneJob, workerVars, Idle, Busy
    <3>2. pending \in Requests
      BY <1>3 DEF CoverLoadBegin, Control, Asking, TypeOK
    <3>3. ImagePath(pending) \in ArtPaths \union {EmptyPath} /\ pending.token \in Tokens
      BY <3>2, NoRequestIsNone, RequestImage DEF Control, Asking, Requests
    <3>4. JobNow' = [token |-> pending.token, path |-> ImagePath(pending), text |-> textPath]
      BY <2>1, <3>1 DEF JobNow
    <3>5. JobNow' \in Slot!Jobs
      BY <3>3, <3>4 DEF Slot!Jobs, TypeOK
    <3>6. AnswerNow' = NONE BY <2>1 DEF AnswerNow, Busy, Done
    <3> QED BY <2>1, <3>5, <3>6
  <2>2. CASE UNCHANGED <<state, token, result, path, sema, created>>
    BY <1>3, <2>2, Unseen DEF CoverLoadBegin, workerVars
  <2> QED BY <1>3, <2>1, <2>2 DEF CoverLoadBegin
<1> QED BY <1>1, <1>2, <1>3 DEF CCall

\* The rest of Lua collects the answer, or is not seen: what it frees is its own.
LEMMA LuaServes ==
  ASSUME TypeOK, Control, Art,
         \/ Pump \/ QuiescePoll \/ LaunchRefused \/ User
         \/ UNCHANGED vars
  PROVE  \/ UNCHANGED <<state, JobNow, AnswerNow>>
         \/ /\ state = Done /\ state' = Idle /\ AnswerNow' = NONE /\ JobNow' = JobNow
<1>1. CASE UNCHANGED <<slotVars, workerVars>> /\ (UNCHANGED heap \/ heap' = Freed(Cached))
  <2>1. result # NONE => heap'[result] = heap[result]
    BY <1>1 DEF Art, Held, Freed, TypeOK
  <2> QED BY <1>1, <2>1, Unseen DEF slotVars, workerVars
<1>2. CASE state = Done /\ state' = Idle
  BY <1>2 DEF JobNow, AnswerNow, Idle, Busy, Done
<1>3. CASE PumpAnswer
  BY <1>2, <1>3 DEF PumpAnswer, PumpHit, PumpStaleHit, PumpTextOnly, PumpMiss, TakeAnswer
<1>4. CASE QuiescePoll
  <2>1. CASE UNCHANGED <<state, result, heap>>
    BY <1>4, <2>1, Unseen DEF QuiescePoll, workerVars
  <2> QED BY <1>2, <1>4, <2>1 DEF QuiescePoll
<1>5. CASE PumpIcon \/ PumpRetry \/ LaunchRefused \/ SelectNothing \/ EnterList \/ LaunchTool
             \/ UNCHANGED vars \/ \E g \in Games : Select(g)
  BY <1>1, <1>5 DEF PumpIcon, PumpRetry, LaunchRefused, SelectNothing, EnterList, LaunchTool,
     BeginQuiesce, Select, vars
<1>6. CASE LeaveList \/ LaunchGame
  BY <1>1, <1>6 DEF LeaveList, LaunchGame, ReleaseTextures, BeginQuiesce
<1> QED BY <1>3, <1>4, <1>5, <1>6 DEF Pump, User

LEMMA InitServes == Init => Slot!Init
BY DEF Init, Slot!Init, Idle, Busy, Done

LEMMA NextServes ==
  ASSUME IInv, Said, [Next]_vars
  PROVE  [Slot!Next]_(Slot!vars)
<1>1. TypeOK /\ Control /\ Art BY DEF IInv, Art
<1>2. Slot!vars = <<state, JobNow, AnswerNow>>
  BY DEF Slot!vars, JobNow, AnswerNow
<1>3. ASSUME UNCHANGED <<state, JobNow, AnswerNow>> PROVE UNCHANGED Slot!vars
  BY <1>3 DEF Slot!vars, JobNow, AnswerNow
<1>4. ASSUME state = Busy, state' = Done, JobNow' = NONE, AnswerNow' \in Slot!Outcomes(JobNow)
      PROVE  Slot!Next
  BY <1>4 DEF Slot!Next, Slot!Answer, JobNow, AnswerNow, Busy, Done
<1>5. ASSUME state = Idle, state' = Busy, AnswerNow' = NONE, JobNow' \in Slot!Jobs
      PROVE  Slot!Next
  BY <1>5 DEF Slot!Next, Slot!Request, JobNow, AnswerNow, Idle, Busy
<1>6. ASSUME state = Done, state' = Idle, AnswerNow' = NONE, JobNow' = JobNow
      PROVE  Slot!Next
  BY <1>6 DEF Slot!Next, Slot!Collect, JobNow, AnswerNow, Idle, Done
<1>7. CASE Worker BY <1>1, <1>3, <1>4, <1>7, WorkerServes
<1>8. CASE CCall BY <1>1, <1>3, <1>5, <1>6, <1>8, CCallServes
<1>9. CASE Pump \/ QuiescePoll \/ LaunchRefused \/ User \/ UNCHANGED vars
  BY <1>1, <1>3, <1>6, <1>9, LuaServes
<1> QED BY <1>7, <1>8, <1>9 DEF Next, Lua

-----------------------------------------------------------------------------
(* What a request has before it is settled.                                *)

\* The candidates that are left to try for a row's art: a details file has one request.
CandidatesLeft == IF pending.textOnly THEN 0 ELSE Len(pending.cands) - pending.idx

\* The C calls of the request that are to come, and what the worker has to do for its job.
CallsLeft == CASE uiPc = "drain" -> 3 [] uiPc = "text" -> 2 [] uiPc = "begin" -> 1 [] OTHER -> 0
WorkLeft ==
  CASE sema = 1 -> 4 [] wpc = "image" -> 3 [] wpc = "text" -> 2 [] wpc = "publish" -> 1 [] OTHER -> 0

Unmoved ==
  /\ UNCHANGED <<CandidatesLeft, CallsLeft, WorkLeft>>
  /\ pending'.retries = pending.retries

CountsDown ==
  \/ CandidatesLeft' < CandidatesLeft /\ CandidatesLeft' >= 0
  \/ /\ CandidatesLeft' = CandidatesLeft
     /\ pending.retries < pending'.retries /\ pending'.retries <= MaxRetries
  \/ /\ CandidatesLeft' = CandidatesLeft /\ pending'.retries = pending.retries
     /\ \/ CallsLeft' < CallsLeft
        \/ CallsLeft' = CallsLeft /\ WorkLeft' < WorkLeft

\* CoverCache:Pump, the C calls and the worker: unless another row is selected a request that
\* stays is brought on by each of their steps, and what else happens does not set it back.
RequestCounts ==
  pending # NONE /\ pending' # NONE /\ ~ (\E g \in Games : Select(g)) =>
    /\ CountsDown \/ Unmoved
    /\ Worker \/ CCall \/ Pump => CountsDown

LEMMA SamePending ==
  ASSUME pending' = pending
  PROVE  CandidatesLeft' = CandidatesLeft /\ pending'.retries = pending.retries
BY DEF CandidatesLeft

LEMMA WorkerCounts ==
  ASSUME TypeOK, Control, Worker
  PROVE  CountsDown
<1>1. pending' = pending /\ uiPc' = uiPc
  BY DEF Worker, WorkerWake, WorkerLoadImage, WorkerReadText, WorkerPublish, askVars, uiVars
<1>2. WorkLeft' < WorkLeft
  <2>1. sema = 1 => wpc = "wait" BY DEF Control, OneJob
  <2>2. sema \in {0, 1} BY DEF TypeOK
  <2> QED BY <2>1, <2>2 DEF Worker, WorkerWake, WorkerLoadImage, WorkerReadText, WorkerPublish, WorkLeft
<1>3. CallsLeft' = CallsLeft BY <1>1 DEF CallsLeft
<1> QED BY <1>1, <1>2, <1>3, SamePending DEF CountsDown

LEMMA CCallCounts ==
  ASSUME TypeOK, pending # NONE, CCall
  PROVE  CountsDown
<1>1. pending \in Requests BY DEF TypeOK
<1>2. CASE DrainOrphan \/ CoverLoadTextPath
  <2>1. pending' = pending BY <1>2 DEF DrainOrphan, CoverLoadTextPath, askVars
  <2>2. CallsLeft' < CallsLeft BY <1>2 DEF DrainOrphan, CoverLoadTextPath, CallsLeft
  <2> QED BY <2>1, <2>2, SamePending DEF CountsDown
<1>3. CASE CoverLoadBegin
  <2>1. PICK b \in BOOLEAN : pending' = [pending EXCEPT !.started = b] BY <1>3 DEF CoverLoadBegin
  <2>2. pending'.textOnly = pending.textOnly BY <1>1, <2>1, Zenon DEF Requests
  <2>3. pending'.cands = pending.cands /\ pending'.idx = pending.idx /\ pending'.retries = pending.retries
    BY <1>1, <2>1 DEF Requests
  <2>4. CandidatesLeft' = CandidatesLeft BY <2>2, <2>3 DEF CandidatesLeft
  <2>5. CallsLeft' < CallsLeft BY <1>3 DEF CoverLoadBegin, CallsLeft
  <2> QED BY <2>3, <2>4, <2>5 DEF CountsDown
<1> QED BY <1>2, <1>3 DEF CCall

LEMMA PumpCounts ==
  ASSUME TypeOK, Control, pending # NONE, pending' # NONE, Pump
  PROVE  CountsDown
<1>1. pending \in Requests BY DEF TypeOK
<1>2. CASE PumpRetry
  <2>1. pending' = [pending EXCEPT !.retries = pending.retries + 1] /\ pending.retries < MaxRetries
    BY <1>1, <1>2 DEF PumpRetry, Requests
  <2>2. pending'.textOnly = pending.textOnly BY <1>1, <2>1, Zenon DEF Requests
  <2>3. pending'.cands = pending.cands /\ pending'.idx = pending.idx /\ pending'.retries = pending.retries + 1
    BY <1>1, <2>1 DEF Requests
  <2>4. CandidatesLeft' = CandidatesLeft BY <2>2, <2>3 DEF CandidatesLeft
  <2>5. pending.retries \in Nat /\ MaxRetries \in Nat BY <1>1, CoverAssumption DEF Requests
  <2> QED BY <2>1, <2>3, <2>4, <2>5 DEF CountsDown
<1>3. CASE PumpMiss
  <2>1. PICK i \in DOMAIN pending.cands :
          /\ i > pending.idx
          /\ pending' = NewRequest(pending.key, pending.cands, i, NONE, FALSE, pending.iconOnly)
    BY <1>3 DEF PumpMiss, NoMoreWork, BeginLoad, Ask
  <2>2. ~pending.textOnly BY <1>3 DEF PumpMiss
  <2>3. ~pending'.textOnly BY <2>1 DEF NewRequest
  <2>4. pending'.cands = pending.cands /\ pending'.idx = i BY <2>1 DEF NewRequest
  <2>5. pending.cands \in Seq(ArtPaths) /\ pending.idx \in Nat BY <1>1 DEF Requests
  <2>6. i \in 1 .. Len(pending.cands) /\ Len(pending.cands) \in Nat BY <2>1, <2>5
  <2>7. CandidatesLeft = Len(pending.cands) - pending.idx BY <2>2 DEF CandidatesLeft
  <2>8. CandidatesLeft' = Len(pending.cands) - i BY <2>3, <2>4 DEF CandidatesLeft
  <2>9. CandidatesLeft' < CandidatesLeft /\ CandidatesLeft' >= 0 BY <2>1, <2>5, <2>6, <2>7, <2>8
  <2> QED BY <2>9 DEF CountsDown
<1>4. CASE PumpIcon \/ PumpHit \/ PumpStaleHit \/ PumpTextOnly
  BY <1>4 DEF PumpIcon, PumpHit, PumpStaleHit, PumpTextOnly, NoMoreWork
<1> QED BY <1>2, <1>3, <1>4 DEF Pump, PumpAnswer

LEMMA SceneUnmoved ==
  ASSUME Control, pending # NONE, pending' # NONE,
         \/ SelectNothing \/ LeaveList \/ EnterList \/ LaunchGame \/ LaunchTool
         \/ QuiescePoll \/ LaunchRefused \/ UNCHANGED vars
  PROVE  Unmoved
<1>1. ~ LaunchGame /\ ~ LaunchTool /\ ~ QuiescePoll
  BY DEF LaunchGame, LaunchTool, BeginQuiesce, QuiescePoll, Control, Settling
<1>2. pending' = pending /\ UNCHANGED <<sema, wpc>> /\ (uiPc' = uiPc \/ (uiPc = "handoff" /\ uiPc' = "lua"))
  BY <1>1 DEF SelectNothing, LeaveList, EnterList, LaunchRefused, AskNothing, vars, slotVars, workerVars, askVars, uiVars
<1>3. CallsLeft' = CallsLeft /\ WorkLeft' = WorkLeft BY <1>2 DEF CallsLeft, WorkLeft
<1> QED BY <1>2, <1>3, SamePending DEF Unmoved

-----------------------------------------------------------------------------
(* The theorems.                                                           *)

LEMMA IInvStep ==
  ASSUME IInv, [Next]_vars
  PROVE  IInv'
<1>1. TypeOK /\ Control /\ Art BY DEF IInv, Art
<1>2. CASE Next
  <2>1. TypeOK' /\ Control' BY <1>1, <1>2, TypeControlStep DEF Art
  <2>2. Art'
    <3>1. CASE Worker BY <1>1, <3>1, WorkerArt
    <3>2. CASE CCall BY <1>1, <3>2, CCallArt
    <3>3. CASE Pump BY <1>1, <3>3, PumpIconArt, PumpRetryArt, PumpAnswerArt DEF Pump
    <3>4. CASE \E g \in Games : Select(g) BY <1>1, <3>4, SelectArt
    <3>5. CASE SelectNothing \/ LeaveList \/ EnterList \/ LaunchGame \/ LaunchTool
                 \/ QuiescePoll \/ LaunchRefused
      BY <1>1, <3>5, LaunchArt
    <3> QED BY <1>2, <3>1, <3>2, <3>3, <3>4, <3>5 DEF Next, Lua, User
  <2> QED BY <2>1, <2>2 DEF IInv, Art
<1>3. CASE UNCHANGED vars
  <2> USE <1>1, <1>3 DEF vars, slotVars, workerVars, selVars, storeVars, askVars, uiVars
  <2>1. TypeOK' BY DEF TypeOK
  <2>2. Control' BY DEF Control, OneJob, Asking, Settling
  <2>3. Rows' BY DEF Art, Rows, OwnRow
  <2>4. SelectionShowsItsOwn' BY DEF Art, SelectionShowsItsOwn
  <2>5. Art'
    <3>1. ImagePath(pending)' = ImagePath(pending) BY DEF ImagePath
    <3>2. Held' BY DEF Art, Held, Cached
    <3>3. Owned' BY <3>1 DEF Art, Owned
    <3> QED BY <2>3, <2>4, <3>2, <3>3 DEF Art
  <2> QED BY <2>1, <2>2, <2>5 DEF IInv, Art
<1> QED BY <1>2, <1>3

LEMMA Invariance == Spec => []IInv
<1>1. Init => IInv BY InitTypeControl, InitArt DEF IInv, Art
<1>2. IInv /\ [Next]_vars => IInv' BY IInvStep
<1> QED BY <1>1, <1>2, PTL DEF Spec

\* Every variable keeps its range: in particular no signal of the worker's semaphore,
\* whose maximum is one, is ever lost.
THEOREM TypeCorrect == Spec => []TypeOK
<1>1. IInv => TypeOK BY DEF IInv
<1> QED BY <1>1, Invariance, PTL

\* The strings the worker reads outlive its reads, for any list and any bound.
THEOREM PathsOutliveReads == Spec => []LatchedPathsAlive
<1>1. IInv => LatchedPathsAlive BY DEF IInv, Control, OneJob, LatchedPathsAlive
<1> QED BY <1>1, Invariance, PTL

\* A row never shows another row's cover, icon or description.
THEOREM RowsShowTheirOwn == Spec => []SelectionShowsItsOwn
<1>1. IInv => SelectionShowsItsOwn BY DEF IInv
<1> QED BY <1>1, Invariance, PTL

\* The answer Pump collects is the answer to the pending request.
THEOREM AnswersMatchRequests == Spec => []PendingOwnsSlot
<1>1. IInv => PendingOwnsSlot
  BY DEF IInv, Control, OneJob, Owned, PendingOwnsSlot
<1> QED BY <1>1, Invariance, PTL

\* A settle that ended early leaves the worker parked, whatever the bound on its frames.
THEOREM HandoffIsQuiet == Spec => []QuietHandoff
<1>1. IInv => QuietHandoff
  BY DEF IInv, TypeOK, Control, OneJob, Settling, QuietHandoff, Idle, Busy, Done
<1> QED BY <1>1, Invariance, PTL

\* Where a row has at most one disc icon to look for, no texture is ever leaked or freed
\* twice, the cache keeps to its size and its queue, and what is on screen stays cached,
\* for any rows, any number of covers, and caches and heaps of any size.
THEOREM TexturesAreHeld ==
  ASSUME OneIcon
  PROVE  Spec => []TexturesHeldOnce
<1>1. Init => Shelf BY InitShelf
<1>2. IInv /\ Shelf /\ [Next]_vars => Shelf' BY ShelfStep
<1>3. IInv /\ Shelf => TexturesHeldOnce BY OneHolder
<1> QED BY <1>1, <1>2, <1>3, Invariance, PTL DEF Spec

\* The statics and the worker thread implement the service CoverCache relies on, step by
\* step: a request is taken in an idle slot only, answered once, with its own art and its
\* own text, under its own token, and the slot is idle again when that is collected.
THEOREM WorkerIsOneSlot == Spec => Slot!Init /\ [][Slot!Next]_(Slot!vars)
<1>1. Init => Said BY DEF Init, Said
<1>2. IInv /\ Said /\ [Next]_vars => Said' BY SaidStep DEF IInv
<1>3. IInv /\ Said /\ [Next]_vars => [Slot!Next]_(Slot!vars) BY NextServes
<1> QED BY <1>1, <1>2, <1>3, InitServes, Invariance, PTL DEF Spec

\* An accepted request is never lost: its answer is there, or the worker is at it, or the
\* worker exists and has been signalled, and has only to wake (coverLoadBegin, WaitSema).
AnswerIsComing ==
  pending # NONE /\ pending.started =>
    \/ state = Done
    \/ state = Busy /\ (wpc # "wait" \/ (sema = 1 /\ created))

\* No wake-up is lost and no request goes round in circles, for any list and any bounds: what
\* is asked of the worker is under way, and its candidates, retries, C calls and the worker's
\* steps are counted down to the answer.
THEOREM RequestsRunOut == Spec => []AnswerIsComing /\ [][RequestCounts]_vars
<1>1. Init => (sema = 1 => created) BY DEF Init
<1>2. TypeOK /\ (sema = 1 => created) /\ [Next]_vars => (sema = 1 => created)'
  <2> SUFFICES ASSUME sema = 1 => created, [Next]_vars, ~ CoverLoadBegin PROVE (sema = 1 => created)'
    BY DEF CoverLoadBegin
  <2>1. created' = created /\ (sema' = sema \/ sema' = 0)
    BY DEF Next, Lua, User, Worker, CCall, Pump, PumpAnswer, WorkerWake, WorkerLoadImage, WorkerReadText, WorkerPublish,
       DrainOrphan, CoverLoadTextPath, PumpIcon, PumpRetry, PumpHit, PumpStaleHit, PumpTextOnly, PumpMiss, TakeAnswer,
       QuiescePoll, LaunchRefused, Select, SelectNothing, LeaveList, EnterList, LaunchGame, LaunchTool, BeginQuiesce,
       vars, slotVars
  <2> QED BY <2>1
<1>3. IInv /\ (sema = 1 => created) => AnswerIsComing
  BY DEF IInv, TypeOK, Control, OneJob, Owned, AnswerIsComing, Idle, Busy, Done
<1>4. IInv /\ [Next]_vars => [RequestCounts]_vars
  <2> SUFFICES ASSUME IInv, [Next]_vars, pending # NONE, pending' # NONE, ~ (\E g \in Games : Select(g))
               PROVE  (CountsDown \/ Unmoved) /\ (Worker \/ CCall \/ Pump => CountsDown)
    BY DEF RequestCounts
  <2>1. TypeOK /\ Control BY DEF IInv
  <2>2. Worker \/ CCall \/ Pump => CountsDown BY <2>1, WorkerCounts, CCallCounts, PumpCounts
  <2>3. ~ (Worker \/ CCall \/ Pump) => Unmoved BY <2>1, SceneUnmoved DEF Next, Lua, User
  <2> QED BY <2>2, <2>3
<1> QED BY <1>1, <1>2, <1>3, <1>4, TypeCorrect, Invariance, PTL DEF Spec
=============================================================================
