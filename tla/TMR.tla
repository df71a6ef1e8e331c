-------------------------------- MODULE TMR --------------------------------
(***************************************************************************)
(* What a triple-redundant speed channel promises, without timers, ports   *)
(* or reactions: in every round each lane is in some condition, and the    *)
(* verdict of the round is the right one for those conditions. A killed    *)
(* lane stays missing, at most one lane is corrupt in a round, and an      *)
(* emergency is the last verdict ever given.                               *)
(***************************************************************************)
EXTENDS Naturals

VARIABLES
  lane,     \* lane[i]: the condition of lane i in the latest round
  killed,   \* the lanes that are lost for good
  verdict   \* the verdict of the latest round, "NONE" when nothing was heard

vars == <<lane, killed, verdict>>

Lanes == 1..3
Condition == {"good", "missing", "corrupt"}
Verdict == {"NONE", "OK", "ERROR_PFC1", "ERROR_PFC2", "ERROR_PFC3", "EMERGENCY"}

\* The verdict that names the one faulty lane and never a good one.
Judgement(c) ==
  LET good == {i \in Lanes : c[i] = "good"} IN
  IF \A i \in Lanes : c[i] = "missing" THEN "NONE"
  ELSE IF good = Lanes THEN "OK"
  ELSE IF good = {2, 3} THEN "ERROR_PFC1"
  ELSE IF good = {1, 3} THEN "ERROR_PFC2"
  ELSE IF good = {1, 2} THEN "ERROR_PFC3"
  ELSE "EMERGENCY"

TypeOK == /\ lane \in [Lanes -> Condition]
          /\ killed \subseteq Lanes
          /\ verdict \in Verdict

Init == /\ lane = [i \in Lanes |-> "good"]
        /\ killed = {}
        /\ verdict = "NONE"

Round(c, k) ==
  /\ verdict # "EMERGENCY"
  /\ killed \subseteq k
  /\ \A i \in k : c[i] = "missing"
  /\ \A i, j \in Lanes : c[i] = "corrupt" /\ c[j] = "corrupt" => i = j
  /\ lane' = c
  /\ killed' = k
  /\ verdict' = Judgement(c)

Next == \E c \in [Lanes -> Condition], k \in SUBSET Lanes : Round(c, k)

Spec == Init /\ [][Next]_vars
=============================================================================
