--------------------------- MODULE MCCoverWorker ---------------------------
(* g1 is a row of an HDD page: a cover and a disc icon, found or not by    *)
(* the partition resolver, its details read on the spot.  g2 is a row of a *)
(* mass device: a cover and a details file, both read by the worker.       *)
EXTENDS CoverWorker, TLC

CONSTANTS g1, g2, c1, c2, i1, d1, d2

MCCovers  == (g1 :> <<c1>>) @@ (g2 :> <<c2>>)
MCIcons   == (g1 :> <<i1>>) @@ (g2 :> <<>>)
MCSidecar == (g1 :> d1) @@ (g2 :> d2)
=============================================================================
