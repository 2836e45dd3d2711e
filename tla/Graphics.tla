------------------------------ MODULE Graphics ------------------------------
(***************************************************************************)
(* Drawing, as the menu does it: fonts, images and the screen are calls of  *)
(* the one main thread, a call at a time; the vertical blank interrupts     *)
(* any of them.                                                             *)
(***************************************************************************)
EXTENDS Fonts, ImageDecode, Screen

vars == <<fontVars, imageVars, screenVars>>

Init == FontInit /\ ImageInit /\ ScreenInit

AtMenu == at = "menu" /\ step \in {"none", "done"}

(* The calls of fntsys.cpp.  Fonts and images share nothing: a bound, an image is loaded
   and given back while there are no fonts. *)
FontCall == AtMenu /\ step = "none" /\ FontOp /\ UNCHANGED <<imageVars, screenVars>>

BeginLoad == AtMenu /\ valid = {} /\ (LoadImage \/ NotOpened) /\ UNCHANGED <<fontVars, screenVars>>
DecodeStep == at = "menu" /\ Decode /\ UNCHANGED <<fontVars, screenVars>>
GiveBack == AtMenu /\ FreeImage /\ UNCHANGED <<fontVars, screenVars>>

ScreenCall == step \in {"none", "done"} /\ ScreenOp /\ UNCHANGED <<fontVars, imageVars>>
Interrupt == VBlank /\ UNCHANGED <<fontVars, imageVars>>

Next == FontCall \/ BeginLoad \/ DecodeStep \/ GiveBack \/ ScreenCall \/ Interrupt

(* The television's clock runs, and the main thread ends a call it is in. *)
Spec ==
    /\ Init /\ [][Next]_vars
    /\ WF_vars(Interrupt)
    /\ WF_vars(at # "menu" /\ ScreenCall)
=============================================================================
