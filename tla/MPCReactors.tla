----------------------------- MODULE MPCReactors -----------------------------
(***************************************************************************)
(* The reactor program mpc.lf: a reference generator, a plant with sensor  *)
(* and actuator, and an optimizer whose reaction to a measurement has a    *)
(* deadline. Time is in milliseconds.                                      *)
(*                                                                         *)
(* One action is one reaction, as in FlyByWire; the reaction that solves   *)
(* is two, the runtime's deadline check with which it begins and the       *)
(* lf_set with which it ends, because physical time goes on in between.    *)
(* A state x, a reference and an input are modelled by where they come     *)
(* from: how many steps the plant had made, which reference was in force,  *)
(* whether the input was solved for or is the brake of the handler.        *)
(***************************************************************************)
EXTENDS Integers

CONSTANTS
  T1, T2,     \* the offsets of timers t1 and t2 of Reference
  Timeout,    \* the target's timeout
  Deadline,   \* of the optimizer's reaction to x_current
  MaxLag      \* bound: physical time runs at most this far ahead of logical

ASSUME MPCAssumption ==
  /\ T1 \in Nat /\ T2 \in Nat /\ T1 < T2
  /\ Timeout \in Nat /\ Deadline \in Nat /\ MaxLag \in Nat

VARIABLES
  time,         \* logical time elapsed
  physical,     \* physical time elapsed
  pending,      \* reactions triggered at this tag that have not completed
  running,
  x_ref,        \* output port of Reference, in tenths
  x,            \* output port of Plant: the plant steps the sample was taken after
  u,            \* output port of Optimizer
  current_ref,  \* state of Optimizer
  solving,      \* what the optimizer is executing: its reaction or the handler
  tick,         \* state of Plant
  plant_x,      \* state of Plant: how many steps it has made
  applied       \* history: the input of the latest plant step

vars == <<time, physical, pending, running, x_ref, x, u, current_ref, solving,
          tick, plant_x, applied>>

Absent == -1
NoInput == [brake |-> TRUE, x0 |-> Absent, xref |-> Absent, set_at |-> Absent]
Input == [brake : BOOLEAN, x0 : Int, xref : Int, set_at : Int]

Reaction == {"reset", "t1", "t2", "sensor", "x_ref_in", "solve", "actuator"}

\* Faulty variant: the optimizer solves before it looks at the reference.
LevelSolveFirst(r) ==
  CASE r \in {"reset", "sensor"} -> 0 [] r = "t1" -> 1 [] r = "t2" -> 2
    [] r = "solve" -> 3 [] r = "x_ref_in" -> 4 [] r = "actuator" -> 5
Level(r) ==
  CASE r \in {"reset", "sensor"} -> 0 [] r = "t1" -> 1 [] r = "t2" -> 2
    [] r = "x_ref_in" -> 3 [] r = "solve" -> 4 [] r = "actuator" -> 5

Ready(r) == r \in pending /\ \A q \in pending : Level(r) <= Level(q)

\* Reaction r completes and triggers the reactions in then.
React(r, then) ==
  /\ Ready(r)
  /\ pending' = (pending \ {r}) \cup then
  /\ UNCHANGED <<time, physical, running>>

-----------------------------------------------------------------------------
(* Reference                                                               *)

\* Faulty variant: t2 sets what t1 sets.
RefOfCopied(r) == IF r = "reset" THEN 0 ELSE 10
RefOf(r) == CASE r = "reset" -> 0 [] r = "t1" -> 10 [] r = "t2" -> 5

\* reaction(startup), reaction(t1), reaction(t2)
SetReference(r) ==
  /\ React(r, {"x_ref_in"})
  /\ x_ref' = RefOf(r)
  /\ UNCHANGED <<x, u, current_ref, solving, tick, plant_x, applied>>

-----------------------------------------------------------------------------
(* Plant                                                                   *)

\* reaction(t) -> x
Sense ==
  /\ React("sensor", {"solve"})
  /\ x' = plant_x
  /\ tick' = tick + 1
  /\ UNCHANGED <<x_ref, u, current_ref, solving, plant_x, applied>>

\* reaction(u)
Actuate ==
  /\ React("actuator", {})
  /\ plant_x' = plant_x + 1
  /\ applied' = u
  /\ UNCHANGED <<x_ref, x, u, current_ref, solving, tick>>

-----------------------------------------------------------------------------
(* Optimizer                                                               *)

\* reaction(x_ref_in)
TakeReference ==
  /\ React("x_ref_in", {})
  /\ current_ref' = x_ref
  /\ UNCHANGED <<x_ref, x, u, solving, tick, plant_x, applied>>

\* Faulty variant: a reaction with a deadline of its own period more.
MissedOneLater == physical > time + Deadline + 1
\* The runtime's check, made once, before the reaction is invoked.
Missed == Deadline = 0 \/ physical > time + Deadline

BeginSolve ==
  /\ Ready("solve") /\ solving = "no"
  /\ solving' = IF Missed THEN "handler" ELSE "reaction"
  /\ UNCHANGED <<time, physical, pending, running, x_ref, x, u, current_ref,
                 tick, plant_x, applied>>

\* Faulty variant: a handler that sets nothing.
BrakeSetsNothing == {}
BrakeTriggers == {"actuator"}

\* lf_set(u_apply, u_seq[0][0])
EndSolve ==
  /\ solving = "reaction"
  /\ React("solve", {"actuator"})
  /\ u' = [brake |-> FALSE, x0 |-> x, xref |-> current_ref, set_at |-> physical]
  /\ solving' = "no"
  /\ UNCHANGED <<x_ref, x, current_ref, tick, plant_x, applied>>

\* deadline(1 msec): lf_set(u_apply, 0.0)
EmergencyBrake ==
  /\ solving = "handler"
  /\ React("solve", BrakeTriggers)
  /\ u' = [NoInput EXCEPT !.set_at = physical]
  /\ solving' = "no"
  /\ UNCHANGED <<x_ref, x, current_ref, tick, plant_x, applied>>

-----------------------------------------------------------------------------
(* Time                                                                    *)

\* A reaction takes any time: the clock may move whenever something runs.
Clock ==
  /\ running /\ physical < time + MaxLag
  /\ physical' = physical + 1
  /\ UNCHANGED <<time, pending, running, x_ref, x, u, current_ref, solving,
                 tick, plant_x, applied>>

TimersAt(t) ==
  {"sensor"} \cup (IF t = T1 THEN {"t1"} ELSE {}) \cup (IF t = T2 THEN {"t2"} ELSE {})

\* Faulty variant: one tag beyond the timeout.
PastTimeout == time <= Timeout
BeforeTimeout == time < Timeout

\* The next tag is started when physical time has reached it.
AdvanceTag ==
  /\ running /\ pending = {} /\ BeforeTimeout
  /\ physical >= time + 1
  /\ time' = time + 1
  /\ pending' = TimersAt(time + 1)
  /\ x_ref' = Absent /\ x' = Absent /\ u' = NoInput
  /\ UNCHANGED <<physical, running, current_ref, solving, tick, plant_x, applied>>

Stop ==
  /\ running /\ pending = {} /\ time = Timeout
  /\ running' = FALSE
  /\ UNCHANGED <<time, physical, pending, x_ref, x, u, current_ref, solving,
                 tick, plant_x, applied>>

Stopped == ~running /\ UNCHANGED vars

-----------------------------------------------------------------------------
Init ==
  /\ time = 0 /\ physical = 0
  /\ pending = {"reset"} \cup TimersAt(0)
  /\ running = TRUE
  /\ x_ref = Absent /\ x = Absent /\ u = NoInput
  /\ current_ref = 0 /\ solving = "no"
  /\ tick = 0 /\ plant_x = 0
  /\ applied = NoInput

Progress ==
  \/ \E r \in {"reset", "t1", "t2"} : SetReference(r)
  \/ Sense \/ Actuate \/ TakeReference \/ BeginSolve \/ EndSolve
  \/ EmergencyBrake \/ AdvanceTag \/ Stop

Next == Progress \/ Clock \/ Stopped

Spec == Init /\ [][Next]_vars

\* Reactions complete, and physical time does not stand still.
FairSpec == Spec /\ WF_vars(Progress) /\ WF_vars(Clock)

-----------------------------------------------------------------------------
(* Properties                                                              *)

\* Every variable has a value of its type.
TypeOK ==
  /\ time \in 0 .. Timeout /\ physical \in Nat
  /\ pending \subseteq Reaction
  /\ running \in BOOLEAN
  /\ x_ref \in {Absent, 0, 5, 10} /\ x \in Nat \cup {Absent}
  /\ u \in Input /\ applied \in Input
  /\ current_ref \in {0, 5, 10}
  /\ solving \in {"no", "reaction", "handler"}
  /\ tick \in Nat /\ plant_x \in Nat

\* The reference the timers have set by logical time t.
RefAt(t) == IF t >= T2 THEN 5 ELSE IF t >= T1 THEN 10 ELSE 0

\* The loop closes in every tick: when a tag is complete the plant has made
\* exactly one step for each measurement, and the input of the latest one was
\* the brake or was solved from this tick's own sample and for the reference
\* in force at this very tick.
LoopCloses ==
  pending = {} =>
    /\ plant_x = time + 1 /\ tick = plant_x
    /\ applied.brake \/ (applied.x0 = time /\ applied.xref = RefAt(time))

\* Lateness does not accumulate: if the input of one tick was set after the
\* deadline of the next one, the next one brakes.
LateThenBrake ==
  [][time' = time /\ applied' # applied /\ applied.set_at > time + Deadline
       => applied'.brake]_vars

\* The control loop runs to the timeout and leaves the last reference in force.
RunEnds == <>(~running /\ current_ref = RefAt(Timeout))

\* "Lingua Franca ... aborted the stale math": an input that is the result of
\* the solve was set within the deadline of its tick.
StaleMathAborted == ~u.brake => u.set_at <= time + Deadline
=============================================================================
