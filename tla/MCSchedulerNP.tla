---------------------------- MODULE MCSchedulerNP ----------------------------
(* Three workers; two reactions at the first level, which may run side by  *)
(* side and both trigger the one at the second, and one at the last level, *)
(* which a tag can reach with the second level empty.                      *)
EXTENDS SchedulerNP, TLC

CONSTANTS w1, w2, w3, a, b, c, d

MCWorker == {w1, w2, w3}
MCReaction == {a, b, c, d}
MCLevel == (a :> 0) @@ (b :> 0) @@ (c :> 1) @@ (d :> 2)
MCTriggers == (a :> {c, d}) @@ (b :> {c}) @@ (c :> {d}) @@ (d :> {})
=============================================================================
