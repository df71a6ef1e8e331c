------------------------------- MODULE TMRVote -------------------------------
(***************************************************************************)
(* The decisions the Fly-By-Wire benchmark takes about one triple of speed *)
(* messages: the vote of reactor WES (fbw.lf), the vote of the isolated    *)
(* test reactor (wes_lf_behavior_test.lf), and the two decision functions  *)
(* of the C harness (wes_original_behavior_test.c); with them the bias the *)
(* fault generator applies to a transmitted speed (fbw_nav.h).             *)
(*                                                                         *)
(* A speed is a natural number of units, Unit of them to one unit of the   *)
(* program's double (Unit = 10: speeds in tenths), so that rounding, the   *)
(* only arithmetic a vote can tell apart, is modelled by what it does.     *)
(***************************************************************************)
EXTENDS Integers

CONSTANT Unit
ASSUME UnitAssumption == Unit \in Nat \ {0}

PFC == 1..3

\* The statuses of fbw_nav.h. "NONE" stands for a port with no value.
Status == {"OK", "ERROR_PFC1", "ERROR_PFC2", "ERROR_PFC3", "EMERGENCY"}

\* round(): to the nearest integer, halves away from zero (speeds are >= 0).
round(s) == (2 * s + Unit) \div (2 * Unit)

\* apply_bias(): the speed rounded to an int and shifted left by two bits.
apply_bias(s) == 4 * round(s) * Unit

-----------------------------------------------------------------------------
(* m is a triple of messages [counter, speed, valid], has says which of    *)
(* them arrived since the last vote.                                       *)

Valid(m, has, i) == has[i] /\ m[i].valid
SameSample(m, i, j) == m[i].counter = m[j].counter /\ m[i].speed = m[j].speed

\* The decision both LF reactors and expected_tmr share, over a relation
\* match(i, j) that says lanes i and j agree.
PairwiseDecision(match(_, _)) ==
  IF match(1, 2) /\ match(1, 3) THEN "OK"
  ELSE IF match(1, 2) THEN "ERROR_PFC3"
  ELSE IF match(1, 3) THEN "ERROR_PFC2"
  ELSE IF match(2, 3) THEN "ERROR_PFC1"
  ELSE "EMERGENCY"

\* Faulty variant: a lane that sent nothing takes part with its last message.
WESIgnoresValidity(m, has) ==
  PairwiseDecision(LAMBDA i, j : SameSample(m, i, j))
\* Faulty variant: nothing to vote on unless two lanes arrived.
WESNeedsTwo(m, has) ==
  IF \A i, j \in PFC : i # j => ~Valid(m, has, i) \/ ~Valid(m, has, j) THEN "NONE"
  ELSE PairwiseDecision(LAMBDA i, j : /\ Valid(m, has, i)
                                      /\ Valid(m, has, j)
                                      /\ SameSample(m, i, j))
\* reaction(vote_tick) of WES: no status when nothing valid arrived.
WESVote(m, has) ==
  IF \A i \in PFC : ~Valid(m, has, i) THEN "NONE"
  ELSE PairwiseDecision(LAMBDA i, j : /\ Valid(m, has, i)
                                      /\ Valid(m, has, j)
                                      /\ SameSample(m, i, j))

\* reaction(vote_tick) of the test reactor: no status until all three arrived.
IsolatedVote(m, has) ==
  IF \E i \in PFC : ~has[i] THEN "NONE"
  ELSE PairwiseDecision(LAMBDA i, j : SameSample(m, i, j))

\* original_wes(): once PFC1 and PFC2 differ only the counters are compared.
OriginalWES(m) ==
  IF SameSample(m, 1, 2)
  THEN IF SameSample(m, 1, 3) THEN "OK" ELSE "ERROR_PFC3"
  ELSE IF m[1].counter = m[3].counter THEN "ERROR_PFC2"
  ELSE IF m[2].counter = m[3].counter THEN "ERROR_PFC1"
  ELSE "EMERGENCY"

\* expected_tmr(): the symmetric decision the tests hold both programs to.
ExpectedTMR(m) == PairwiseDecision(LAMBDA i, j : SameSample(m, i, j))
=============================================================================
