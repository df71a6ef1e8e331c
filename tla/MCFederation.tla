---------------------------- MODULE MCFederation ----------------------------
(***************************************************************************)
(* The federated programs that TLC checks.                                 *)
(***************************************************************************)
EXTENDS Federation

MCNever == -4
Connect(from, to, delay, out, in, always) ==
  [from |-> from, to |-> to, delay |-> delay, out |-> out, in |-> in, always |-> always]

\* The times at which each federate has a timer event.
Timers(t0, t1, t2) == [f \in 0 .. 2 |-> CASE f = 0 -> t0 [] f = 1 -> t1 [] f = 2 -> t2]

\* mpc_fed.lf: Reference (0), Plant (1) and Optimizer (2). Plant and Optimizer
\* form a cycle without delay. The Optimizer may not answer a sample.
MpcFed(reference, mayfail) ==
  [conn |-> {Connect(0, 2, NEVER, 1, 1, TRUE), Connect(1, 2, NEVER, 1, 2, TRUE),
             Connect(2, 1, NEVER, 3, 4, FALSE)},
   timer |-> Timers(reference, {0}, {}), mayfail |-> mayfail]

\* Plant and Optimizer alone; the Plant gets the answer after a delay.
Feedback(delay, mayfail) ==
  [conn |-> {Connect(1, 2, NEVER, 1, 2, TRUE), Connect(2, 1, delay, 3, 4, TRUE)},
   timer |-> Timers({}, {0}, {}), mayfail |-> mayfail]

\* A chain, in which the RTI sends DNET.
Chain ==
  [conn |-> {Connect(0, 1, NEVER, 1, 0, TRUE), Connect(1, 2, NEVER, 1, 2, TRUE)},
   timer |-> Timers({0}, {}, {}), mayfail |-> {}]

MCPrograms == 
  {MpcFed({0, 1}, {}), MpcFed({}, {1}), Feedback(0, {2}), Feedback(1, {}), Chain}

\* A pipeline with a delay on its first connection, whose first two federates
\* have an event at the start tag.
Pipeline ==
  [conn |-> {Connect(0, 1, 1, 1, 1, TRUE), Connect(1, 2, NEVER, 2, 1, TRUE)},
   timer |-> Timers({0}, {0}, {}), mayfail |-> {}]
MCPipeline == {Pipeline}
=============================================================================
