------------------------------- MODULE Screen -------------------------------
(***************************************************************************)
(* The screen (src/graphics.cpp): two frame buffers, the queue that is      *)
(* drawn into the hidden one, and the vertical blank, whose interrupt       *)
(* signals a semaphore the main thread waits for before it swaps them.  A   *)
(* change of video mode and the start of another program fade to black      *)
(* first.  gsKit is external: drawing and programming the GS end at once.   *)
(***************************************************************************)
EXTENDS Naturals

CONSTANTS
    FadeFrames,       \* 8 in fadeScreenToBlack
    Modes             \* the video modes: size, interlace and field

ASSUME ScreenAssumption == FadeFrames \in Nat \ {0}

VARIABLES
    at,               \* what the main thread does next
    job, flips,       \* what it flips for, and the flips that has had
    after,            \* what the fade is for: a mode, "start", or "none"
    hooked,           \* the interrupt handler is installed
    sema,             \* vsync_sema_id, 0 or 1
    drawn,            \* what the queue leaves on the buffer it is drawn into
    hidden, shown,    \* what is on the buffer drawn into (ActiveBuffer) and on the other:
                      \* "frame", "dim" or "black"
    mode,
    glared            \* the GS was programmed, or a program started, over a picture

screenVars == <<at, job, flips, after, hooked, sema, drawn, hidden, shown, mode, glared>>

ScreenInit ==
    /\ at = "off" /\ job = "boot" /\ flips = 0 /\ after = "none"
    /\ hooked = FALSE /\ sema = 0
    /\ drawn = "nothing" /\ hidden = "black" /\ shown = "black"
    /\ mode \in Modes /\ glared = FALSE

Buffers == <<hooked, sema, hidden, shown, mode, glared>>

-----------------------------------------------------------------------------
(* Mutant: the handler is installed once the screen is up. *)
InitGraphics_Unhooked ==
    /\ at = "off" /\ at' = "exec" /\ drawn' = "black"
    /\ UNCHANGED <<job, flips, after, hooked, sema, hidden, shown, mode, glared>>

(* initGraphics: the semaphore and the handler, then two black frames. *)
InitGraphics ==
    /\ at = "off" /\ at' = "exec" /\ drawn' = "black" /\ hooked' = TRUE
    /\ UNCHANGED <<job, flips, after, sema, hidden, shown, mode, glared>>

(* vsync_handler.  The semaphore counts to one. *)
VBlank ==
    /\ at # "off" /\ hooked /\ sema' = 1
    /\ UNCHANGED <<at, job, flips, after, hooked, drawn, hidden, shown, mode, glared>>

-----------------------------------------------------------------------------
(* The menu draws a frame and flips it (lua_clear, the draw calls, lua_flip). *)
DrawFrame ==
    /\ at = "menu" /\ at' = "exec" /\ job' = "frame" /\ flips' = 0 /\ drawn' = "frame"
    /\ UNCHANGED <<after, Buffers>>

Fade(for) == at' = "fade" /\ job' = "fade" /\ flips' = 0 /\ after' = for

(* lua_loadELF and its kind. *)
StartProgram == at = "menu" /\ Fade("start") /\ UNCHANGED <<drawn, Buffers>>

(* setVideoMode masks the picture if anything the signal depends on changes. *)
SetVideoMode ==
    /\ at = "menu"
    /\ \E m \in Modes :
         IF m # mode THEN Fade(m) ELSE at' = "program" /\ after' = m /\ UNCHANGED <<job, flips>>
    /\ UNCHANGED <<drawn, Buffers>>

(* One frame of fadeScreenToBlack: darker, opaque at the end, then two clears. *)
FadeFrame ==
    /\ at = "fade" /\ flips < FadeFrames + 2
    /\ drawn' = (IF flips + 1 < FadeFrames THEN "dim" ELSE "black")
    /\ at' = "exec"
    /\ UNCHANGED <<job, flips, after, Buffers>>

-----------------------------------------------------------------------------
Over(what, onto) == IF what = "nothing" \/ (what = "dim" /\ onto = "black") THEN onto ELSE what

(* flipScreen.  gsKit_queue_exec draws into the hidden buffer; gsKit_sync waits for the
   semaphore and takes what came meanwhile; gsKit_flip shows the buffer. *)
QueueExec ==
    /\ at = "exec" /\ at' = "wait"
    /\ hidden' = Over(drawn, hidden) /\ drawn' = "nothing"
    /\ UNCHANGED <<job, flips, after, hooked, sema, shown, mode, glared>>

WaitSema ==
    /\ at = "wait" /\ sema = 1 /\ sema' = 0 /\ at' = "drain"
    /\ UNCHANGED <<job, flips, after, hooked, drawn, hidden, shown, mode, glared>>

Drain ==
    /\ at = "drain" /\ at' = "swap" /\ sema' = 0
    /\ UNCHANGED <<job, flips, after, hooked, drawn, hidden, shown, mode, glared>>

(* Mutant: the fade ends with its last blended frame. *)
Flips_OneBufferLess == CASE job = "boot" -> 2 [] job = "frame" -> 1 [] job = "fade" -> FadeFrames

(* The flips a job takes. *)
Flips == CASE job = "boot" -> 2 [] job = "frame" -> 1 [] job = "fade" -> FadeFrames + 2

(* What follows the flip: the next one of the same job, or what the job was for. *)
Swap ==
    /\ at = "swap" /\ hidden' = shown /\ shown' = hidden
    /\ \/ /\ flips + 1 < Flips /\ flips' = flips + 1 /\ UNCHANGED job
          /\ IF job = "boot" THEN at' = "exec" /\ drawn' = "black" ELSE at' = "fade" /\ UNCHANGED drawn
       \/ /\ flips + 1 = Flips /\ flips' = 0 /\ job' = "frame" /\ UNCHANGED drawn
          /\ at' = (IF job # "fade" THEN "menu" ELSE IF after = "start" THEN "start" ELSE "program")
    /\ UNCHANGED <<after, hooked, sema, mode, glared>>

Dark == hidden = "black" /\ shown = "black"

(* The rest of setVideoMode.  The buffers move; gsKit_sync_flip shows nothing of a screen
   nothing was drawn on. *)
ProgramMode ==
    /\ at = "program" /\ at' = "menu" /\ after' = "none"
    /\ glared' = (glared \/ (after # mode /\ ~Dark))
    /\ mode' = after /\ drawn' = "black"
    /\ UNCHANGED <<job, flips, hooked, sema, hidden, shown>>

(* The program that was asked for takes over, or cannot be loaded and the menu goes on. *)
Started ==
    /\ at = "start" /\ at' \in {"gone", "menu"} /\ after' = "none"
    /\ glared' = (glared \/ ~Dark)
    /\ UNCHANGED <<job, flips, hooked, sema, drawn, hidden, shown, mode>>

ScreenOp ==
    \/ InitGraphics \/ DrawFrame \/ StartProgram \/ SetVideoMode \/ FadeFrame
    \/ QueueExec \/ WaitSema \/ Drain \/ Swap \/ ProgramMode \/ Started

-----------------------------------------------------------------------------
(* The GS is programmed anew, and another program is started, with both buffers black
   (graphics.cpp: "Last opaque clears cover both buffers even on a dropped frame", "Mask
   the outgoing picture before the GS reprograms the TV signal"). *)
BlackBeforeReset == ~glared

(* Whatever the main thread flips for, it comes back: a flip is not waited for for ever. *)
FlipsReturn == at \in {"exec", "wait", "drain", "swap", "fade"} ~> at \in {"menu", "start", "program"}
=============================================================================
