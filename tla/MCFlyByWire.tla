---------------------------- MODULE MCFlyByWire ----------------------------
(* A short flight over a data file with six fixes. The speeds, in tenths,  *)
(* are 0, 0, 4, 12, 21, 33: a bias on the first two leaves them as they    *)
(* are, it turns 0.4 into 0 and 1.2 into 4.                                *)
EXTENDS FlyByWire

MCTrack == [k \in 0 .. Samples - 1 |-> <<0, 0, 4, 12, 21, 33>>[k + 1]]
=============================================================================
