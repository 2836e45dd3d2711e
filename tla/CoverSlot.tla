----------------------------- MODULE CoverSlot -----------------------------
(***************************************************************************)
(* What the resident cover worker of src/src/luagraphics.cpp promises its  *)
(* only caller, ui.lua's CoverCache: a service with ONE slot.  A request   *)
(* is taken only when the slot is idle; it is answered exactly once, with  *)
(* the art of the path that was asked (or none) and the sidecar text that  *)
(* was asked (or a read failure), under the token of that request; the     *)
(* slot is free again only when the answer has been collected.             *)
(***************************************************************************)
CONSTANTS Paths,       \* art paths a request may name, the empty path included
          Sidecars,    \* details .txt paths a request may carry
          Tokens,      \* request ids
          NONE,        \* no path, no text, no texture
          ReadFailed   \* the sidecar was asked for and could not be read

VARIABLES phase,   \* coverLoadState: "IDLE" | "BUSY" | "DONE"
          job,     \* the request being served
          answer   \* what the caller will collect

vars == <<phase, job, answer>>

Jobs == [token : Tokens, path : Paths, text : Sidecars \union {NONE}]

Init == phase = "IDLE" /\ job = NONE /\ answer = NONE

Request ==
  /\ phase = "IDLE"
  /\ phase' = "BUSY"
  /\ job' \in Jobs
  /\ answer' = NONE

\* The art is that of the job's own path, the text that of its own sidecar.
Outcomes(j) ==
  [token : {j.token},
   art   : {NONE, j.path},
   text  : IF j.text = NONE THEN {NONE} ELSE {NONE, ReadFailed, j.text}]

Answer ==
  /\ phase = "BUSY"
  /\ phase' = "DONE"
  /\ answer' \in Outcomes(job)
  /\ job' = NONE

Collect ==
  /\ phase = "DONE"
  /\ phase' = "IDLE"
  /\ answer' = NONE
  /\ UNCHANGED job

Next == Request \/ Answer \/ Collect

Spec == Init /\ [][Next]_vars /\ WF_vars(Answer)
=============================================================================
