----------------------- MODULE MCFlyByWireControlled -----------------------
(* The whole test at its real length over the real data: the aircraft of   *)
(* G18.txt stands still up to sample 635; the later speeds are the file's, *)
(* in ten-thousandths.                                                     *)
EXTENDS FlyByWireControlled

Moving == <<21237, 23274, 24061, 24631, 26841, 27225, 27454, 27719, 27719, 28343>>
MCTrack == [k \in 0 .. Samples - 1 |->
              IF k < 636 THEN 0 ELSE IF k <= 645 THEN Moving[k - 635] ELSE 28343]
=============================================================================
