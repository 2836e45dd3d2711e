--------------------------- MODULE MCCoverService --------------------------
(* g1 is a row of a UDPFS page: two cover candidates, tried in order, and a *)
(* details file.  g2 is a row whose art the worker is never asked for.      *)
EXTENDS CoverWorker, TLC

CONSTANTS g1, g2, c1, c2, d1, d2

MCCovers  == (g1 :> <<c1, c2>>) @@ (g2 :> <<>>)
MCIcons   == (g1 :> <<>>) @@ (g2 :> <<>>)
MCSidecar == (g1 :> d1) @@ (g2 :> d2)
=============================================================================
