------------------------ MODULE FlyByWireControlled ------------------------
(***************************************************************************)
(* The end-to-end test program fbw_controlled_test.lf: the reactors of     *)
(* FlyByWire with a fault generator that follows a fixed script, STOP then *)
(* CONT of the second computer and one BIAS of the third.                  *)
(***************************************************************************)
EXTENDS FlyByWire

\* Which flag the script raises on which port, by elapsed seconds.
Scripted(t) ==
  CASE t = 5   -> FaultOn(2, [NoFault EXCEPT !.stop = TRUE])
    [] t = 8   -> FaultOn(2, [NoFault EXCEPT !.cont = TRUE])
    [] t = 640 -> FaultOn(3, [NoFault EXCEPT !.bias = TRUE])
    [] OTHER   -> NoFaults

\* reaction(t) -> fault1, fault2, fault3
FollowScript ==
  /\ fault' = Scripted(Sample)
  /\ React(<<"fman", 0>>, FaultReactions(fault'))
  /\ UNCHANGED <<pfc, wes, speed_out, out, status, stop_tag, report>>

ControlledNext == (\E p \in PFC : PFCNext(p)) \/ Rest \/ FollowScript \/ Stopped
ControlledSpec == Init /\ [][ControlledNext]_vars /\ WF_vars(ControlledNext)

\* What check_e2e_faults.py and the README say the log shows: PFC2 discordant
\* from its STOP to its CONT, OK again in the very second of the CONT, PFC3
\* discordant for one second after the BIAS, no other error and no emergency.
ExpectedVerdict(t) == IF t \in 5 .. 7 THEN "ERROR_PFC2"
                      ELSE IF t = 640 THEN "ERROR_PFC3" ELSE "OK"
ScriptedVerdicts ==
  (time % 2 = 1 /\ pending = {} /\ \A p \in PFC : pfc[p].fp = "open") =>
    report.verdict = ExpectedVerdict(Sample)

\* The test runs to its timeout when all three computers found their data.
RunsToTimeout ==
  ~running /\ (\A p \in PFC : pfc[p].fp # "NULL") => time = 2 * Timeout
=============================================================================
