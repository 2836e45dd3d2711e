---------------------------- MODULE MCGameLaunch ----------------------------
(***************************************************************************)
(* GameLaunch on small instances: a drive with one game, a card with a     *)
(* game of two discs, and discs that differ in where their id is.          *)
(***************************************************************************)
EXTENDS GameLaunch

MCRooms == {{"hdd"}, {"card"}}

MCTokens == {"-retrogem", "-noretrogem", "-retrogem=on", "-retrogem=off", "-retrogem=x", "-page="}

\* One descriptor more than is searched, and one sector more than is walked.
MCImages ==
  {d \in Discs : Len(d.volume) > 1 /\ Len(d.root) > 0 /\ Len(d.cnf) = 2}
=============================================================================
