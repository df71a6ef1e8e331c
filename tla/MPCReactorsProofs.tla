-------------------------- MODULE MPCReactorsProofs --------------------------
(***************************************************************************)
(* Proofs about MPCReactors, for every timeout, deadline and reference     *)
(* times. The invariant follows one measurement through the tag: sensor,   *)
(* solve and actuator are pending one after the other, never two of them.  *)
(***************************************************************************)
EXTENDS MPCReactors, TLAPS

Loop == {"sensor", "solve", "actuator"}
Setters == {"reset", "t1", "t2"}

\* The input i is the brake or belongs to this tick.
FromThisTick(i) == i.brake \/ (i.x0 = time /\ i.xref = RefAt(time))

\* Where the measurement of this tick is.
OneInLoop ==
  /\ \A p, q \in Loop : p \in pending /\ q \in pending => p = q
  /\ "sensor" \in pending => plant_x = time /\ tick = time
  /\ "solve" \in pending => plant_x = time /\ tick = time + 1 /\ x = time
  /\ "actuator" \in pending => /\ plant_x = time /\ tick = time + 1
                               /\ pending = {"actuator"}
                               /\ FromThisTick(u)
  /\ pending \cap Loop = {} => /\ pending = {}
                               /\ plant_x = time + 1 /\ tick = plant_x
                               /\ FromThisTick(applied)

\* Where the reference of this tick is.
SettersOnTime ==
  /\ "reset" \in pending => time = 0 /\ (T1 = 0 => "t1" \in pending)
  /\ "t1" \in pending => time = T1
  /\ "t2" \in pending => time = T2
ReferenceInForce ==
  /\ "x_ref_in" \in pending => x_ref # Absent
  /\ pending \cap Setters = {} =>
       IF "x_ref_in" \in pending THEN x_ref = RefAt(time) ELSE current_ref = RefAt(time)

\* What a solve in progress, and the input it leaves, say of the tick before.
InTime ==
  /\ applied.set_at <= physical /\ u.set_at <= physical
  /\ solving # "no" => "solve" \in pending
  /\ solving = "reaction" => applied.set_at <= time + Deadline
  /\ "actuator" \in pending /\ ~u.brake => applied.set_at <= time + Deadline

IInv == TypeOK /\ OneInLoop /\ SettersOnTime /\ ReferenceInForce /\ InTime

-----------------------------------------------------------------------------
(* The steps.                                                              *)

LEMMA LevelsAre ==
  /\ Level("reset") = 0 /\ Level("sensor") = 0 /\ Level("t1") = 1 /\ Level("t2") = 2
  /\ Level("x_ref_in") = 3 /\ Level("solve") = 4 /\ Level("actuator") = 5
BY DEF Level

LEMMA InitIInv == Init => IInv
<1> SUFFICES ASSUME Init PROVE IInv
  OBVIOUS
<1> USE MPCAssumption DEF Init, TimersAt
<1>1. TypeOK
  BY DEF TypeOK, NoInput, Input, Absent, Reaction
<1>2. OneInLoop
  BY DEF OneInLoop, Loop
<1>3. SettersOnTime /\ ReferenceInForce /\ InTime
  BY DEF SettersOnTime, ReferenceInForce, Setters, InTime, NoInput, Absent, RefAt
<1> QED
  BY <1>1, <1>2, <1>3 DEF IInv

\* Every action keeps the types.
LEMMA TypeStep == TypeOK /\ ReferenceInForce /\ [Next]_vars => TypeOK'
<1> SUFFICES ASSUME TypeOK, ReferenceInForce, [Next]_vars PROVE TypeOK'
  OBVIOUS
<1> USE MPCAssumption DEF TypeOK, Absent
<1>1. ASSUME NEW r \in {"reset", "t1", "t2"}, SetReference(r) PROVE TypeOK'
  BY <1>1 DEF SetReference, React, RefOf, Reaction
<1>2. CASE Sense
  BY <1>2 DEF Sense, React, Reaction
<1>3. CASE Actuate
  BY <1>3 DEF Actuate, React
<1>4. CASE TakeReference
  <2>1. x_ref # Absent
    BY <1>4 DEF TakeReference, React, Ready, ReferenceInForce
  <2> QED
    BY <1>4, <2>1 DEF TakeReference, React
<1>5. CASE BeginSolve
  BY <1>5 DEF BeginSolve
<1>6. CASE EndSolve
  BY <1>6 DEF EndSolve, React, Reaction, Input
<1>7. CASE EmergencyBrake
  <2>1. u' = [brake |-> TRUE, x0 |-> -1, xref |-> -1, set_at |-> physical]
    BY <1>7 DEF EmergencyBrake, NoInput
  <2>2. u' \in Input
    BY <2>1 DEF Input
  <2> QED
    BY <1>7, <2>2 DEF EmergencyBrake, React, BrakeTriggers, Reaction
<1>8. CASE AdvanceTag
  BY <1>8 DEF AdvanceTag, BeforeTimeout, TimersAt, Reaction, Input, NoInput
<1>9. CASE Stop
  BY <1>9 DEF Stop
<1>10. CASE Clock
  BY <1>10 DEF Clock
<1>11. CASE UNCHANGED vars
  BY <1>11 DEF vars
<1> QED
  BY <1>1, <1>2, <1>3, <1>4, <1>5, <1>6, <1>7, <1>8, <1>9, <1>10, <1>11
     DEF Next, Progress, Stopped


\* A ready reaction has nothing of a lower level beside it.
LEMMA NothingLower ==
  ASSUME NEW r, Ready(r), NEW q \in pending
  PROVE  r \in pending /\ Level(r) <= Level(q)
BY DEF Ready

\* The loop goes on one reaction at a time.
LEMMA LoopStep == TypeOK /\ OneInLoop /\ ReferenceInForce /\ InTime /\ [Next]_vars => OneInLoop'
<1> SUFFICES ASSUME TypeOK, OneInLoop, ReferenceInForce, InTime, [Next]_vars
             PROVE  OneInLoop'
  OBVIOUS
<1> USE MPCAssumption, LevelsAre DEF Loop
<1>1. ASSUME NEW r \in {"reset", "t1", "t2"}, SetReference(r) PROVE OneInLoop'
  <2>1. "actuator" \notin pending
    BY <1>1 DEF SetReference, React, Ready, OneInLoop
  <2>2. \A p \in Loop : p \in pending' <=> p \in pending
    BY <1>1 DEF SetReference, React
  <2>3. pending \cap Loop # {}
    BY <1>1 DEF SetReference, React, Ready, OneInLoop
  <2> QED
    BY <1>1, <2>1, <2>2, <2>3 DEF SetReference, React, OneInLoop
<1>2. CASE Sense
  <2>1. "sensor" \in pending /\ "solve" \notin pending /\ "actuator" \notin pending
    BY <1>2 DEF Sense, React, Ready, OneInLoop
  <2>2. "sensor" \notin pending' /\ "solve" \in pending' /\ "actuator" \notin pending'
    BY <1>2, <2>1 DEF Sense, React
  <2>3. plant_x' = time' /\ tick' = time' + 1 /\ x' = time'
    BY <1>2, <2>1 DEF Sense, React, OneInLoop
  <2> QED
    BY <2>2, <2>3 DEF OneInLoop
<1>3. CASE Actuate
  <2>1. "actuator" \in pending
    BY <1>3 DEF Actuate, React, Ready
  <2>2. pending' = {}
    BY <1>3, <2>1 DEF Actuate, React, OneInLoop
  <2>3. plant_x' = time' + 1 /\ tick' = plant_x'
    BY <1>3, <2>1 DEF Actuate, React, OneInLoop
  <2>4. FromThisTick(applied)'
    BY <1>3, <2>1 DEF Actuate, React, OneInLoop, FromThisTick, RefAt
  <2> QED
    BY <2>2, <2>3, <2>4 DEF OneInLoop
<1>4. CASE TakeReference
  <2>1. "actuator" \notin pending
    BY <1>4 DEF TakeReference, React, Ready, OneInLoop
  <2>2. \A p \in Loop : p \in pending' <=> p \in pending
    BY <1>4 DEF TakeReference, React
  <2>3. pending \cap Loop # {}
    BY <1>4 DEF TakeReference, React, Ready, OneInLoop
  <2> QED
    BY <1>4, <2>1, <2>2, <2>3 DEF TakeReference, React, OneInLoop
<1>5. CASE BeginSolve
  BY <1>5 DEF BeginSolve, OneInLoop, FromThisTick, RefAt
<1>6. CASE EndSolve \/ EmergencyBrake
  <2>1. Ready("solve") /\ pending' = (pending \ {"solve"}) \cup {"actuator"}
    BY <1>6 DEF EndSolve, EmergencyBrake, React, BrakeTriggers
  <2>2. \A q \in pending : q \in {"solve", "actuator"}
    BY <2>1, NothingLower DEF TypeOK, Reaction
  <2>3. "solve" \in pending /\ "actuator" \notin pending
    BY <2>1 DEF Ready, OneInLoop
  <2>4. pending' = {"actuator"}
    BY <2>1, <2>2, <2>3
  <2>5. plant_x' = time' /\ tick' = time' + 1
    BY <1>6, <2>3 DEF EndSolve, EmergencyBrake, React, OneInLoop
  <2>6. FromThisTick(u)'
    <3>1. CASE EndSolve
      <4>1. x = time
        BY <2>3 DEF OneInLoop
      <4>2. current_ref = RefAt(time)
        BY <2>2 DEF ReferenceInForce, Setters
      <4>3. RefAt(time)' = RefAt(time)
        BY <3>1 DEF EndSolve, React, RefAt
      <4>4. u'.x0 = time' /\ u'.xref = RefAt(time)'
        BY <3>1, <4>1, <4>2, <4>3 DEF EndSolve, React
      <4> QED
        BY <4>4 DEF FromThisTick
    <3>2. CASE EmergencyBrake
      <4>1. u'.brake
        BY <3>2 DEF EmergencyBrake, NoInput
      <4> QED
        BY <4>1 DEF FromThisTick
    <3> QED
      BY <1>6, <3>1, <3>2
  <2> QED
    BY <2>4, <2>5, <2>6 DEF OneInLoop
<1>7. CASE AdvanceTag
  <2>1. plant_x = time + 1 /\ tick = plant_x
    BY <1>7 DEF AdvanceTag, OneInLoop
  <2>2. "sensor" \in pending' /\ "solve" \notin pending' /\ "actuator" \notin pending'
    BY <1>7 DEF AdvanceTag, TimersAt
  <2> QED
    BY <1>7, <2>1, <2>2 DEF AdvanceTag, OneInLoop
<1>8. CASE Stop \/ Clock \/ UNCHANGED vars
  BY <1>8 DEF Stop, Clock, vars, OneInLoop, FromThisTick, RefAt
<1> QED
  BY <1>1, <1>2, <1>3, <1>4, <1>5, <1>6, <1>7, <1>8 DEF Next, Progress, Stopped

\* The reference timers fire at their tags, the earlier reaction first.
LEMMA SettersStep == TypeOK /\ SettersOnTime /\ [Next]_vars => SettersOnTime'
<1> SUFFICES ASSUME TypeOK, SettersOnTime, [Next]_vars PROVE SettersOnTime'
  OBVIOUS
<1> USE MPCAssumption, LevelsAre
<1>1. ASSUME NEW r \in {"reset", "t1", "t2"}, SetReference(r) PROVE SettersOnTime'
  <2>1. "reset" \in pending => r = "reset"
    BY <1>1 DEF SetReference, React, Ready
  <2> QED
    BY <1>1, <2>1 DEF SetReference, React, SettersOnTime
<1>2. CASE Sense
  BY <1>2 DEF Sense, React, SettersOnTime
<1>3. CASE Actuate
  BY <1>3 DEF Actuate, React, SettersOnTime
<1>4. CASE TakeReference
  BY <1>4 DEF TakeReference, React, SettersOnTime
<1>5. CASE EndSolve \/ EmergencyBrake
  BY <1>5 DEF EndSolve, EmergencyBrake, React, BrakeTriggers, SettersOnTime
<1>6. CASE AdvanceTag
  BY <1>6 DEF AdvanceTag, TimersAt, SettersOnTime
<1>7. CASE BeginSolve \/ Stop \/ Clock \/ UNCHANGED vars
  BY <1>7 DEF BeginSolve, Stop, Clock, vars, SettersOnTime
<1> QED
  BY <1>1, <1>2, <1>3, <1>4, <1>5, <1>6, <1>7 DEF Next, Progress, Stopped

\* The reference in force reaches the optimizer within its tag.
LEMMA ReferenceStep ==
  TypeOK /\ SettersOnTime /\ ReferenceInForce /\ [Next]_vars => ReferenceInForce'
<1> SUFFICES ASSUME TypeOK, SettersOnTime, ReferenceInForce, [Next]_vars
             PROVE  ReferenceInForce'
  OBVIOUS
<1> USE MPCAssumption, LevelsAre DEF Setters
<1>1. ASSUME NEW r \in {"reset", "t1", "t2"}, SetReference(r) PROVE ReferenceInForce'
  <2>1. "x_ref_in" \in pending' /\ x_ref' = RefOf(r) /\ time' = time
    BY <1>1 DEF SetReference, React
  <2>2. x_ref' # Absent
    BY <2>1 DEF RefOf, Absent
  <2>3. r \in pending
    BY <1>1 DEF SetReference, React, Ready
  <2>4. ASSUME pending' \cap Setters = {} PROVE RefOf(r) = RefAt(time)
    <3>1. CASE r = "reset"
      BY <1>1, <2>3, <2>4, <3>1 DEF SetReference, React, SettersOnTime, RefOf, RefAt, TypeOK
    <3>2. CASE r = "t1"
      BY <2>3, <3>2 DEF SettersOnTime, RefOf, RefAt
    <3>3. CASE r = "t2"
      BY <2>3, <3>3 DEF SettersOnTime, RefOf, RefAt
    <3> QED
      BY <3>1, <3>2, <3>3
  <2>5. RefAt(time)' = RefAt(time)
    BY <2>1 DEF RefAt
  <2> QED
    BY <2>1, <2>2, <2>4, <2>5 DEF ReferenceInForce
<1>2. CASE Sense
  BY <1>2 DEF Sense, React, ReferenceInForce, RefAt
<1>3. CASE Actuate
  BY <1>3 DEF Actuate, React, ReferenceInForce, RefAt
<1>4. CASE TakeReference
  <2>1. pending \cap Setters = {}
    BY <1>4 DEF TakeReference, React, Ready
  <2>2. "x_ref_in" \in pending
    BY <1>4 DEF TakeReference, React, Ready
  <2>3. current_ref' = RefAt(time)
    BY <1>4, <2>1, <2>2 DEF TakeReference, ReferenceInForce
  <2> QED
    BY <1>4, <2>3 DEF TakeReference, React, ReferenceInForce, RefAt
<1>5. CASE EndSolve \/ EmergencyBrake
  BY <1>5 DEF EndSolve, EmergencyBrake, React, BrakeTriggers, ReferenceInForce, RefAt
<1>6. CASE AdvanceTag
  <2>1. current_ref = RefAt(time)
    BY <1>6 DEF AdvanceTag, ReferenceInForce
  <2>2. "x_ref_in" \notin pending'
    BY <1>6 DEF AdvanceTag, TimersAt
  <2>3. ASSUME pending' \cap Setters = {} PROVE time + 1 # T1 /\ time + 1 # T2
    BY <1>6, <2>3 DEF AdvanceTag, TimersAt
  <2>4. ASSUME time + 1 # T1, time + 1 # T2 PROVE RefAt(time)' = RefAt(time)
    BY <1>6, <2>4 DEF AdvanceTag, RefAt, TypeOK
  <2> QED
    BY <1>6, <2>1, <2>2, <2>3, <2>4 DEF AdvanceTag, ReferenceInForce
<1>7. CASE BeginSolve \/ Stop \/ Clock \/ UNCHANGED vars
  BY <1>7 DEF BeginSolve, Stop, Clock, vars, ReferenceInForce, RefAt
<1> QED
  BY <1>1, <1>2, <1>3, <1>4, <1>5, <1>6, <1>7 DEF Next, Progress, Stopped


\* A solve begins before its deadline, and no input is ahead of the clock.
LEMMA InTimeStep == TypeOK /\ OneInLoop /\ InTime /\ [Next]_vars => InTime'
<1> SUFFICES ASSUME TypeOK, OneInLoop, InTime, [Next]_vars PROVE InTime'
  OBVIOUS
<1> USE MPCAssumption, LevelsAre DEF Loop
<1>0. applied.set_at \in Int /\ u.set_at \in Int /\ physical \in Nat /\ time \in Nat
  BY DEF TypeOK, Input
<1>1. ASSUME NEW r \in {"reset", "t1", "t2"}, SetReference(r) PROVE InTime'
  BY <1>1 DEF SetReference, React, InTime
<1>2. CASE Sense
  BY <1>2 DEF Sense, React, Ready, OneInLoop, InTime
<1>3. CASE Actuate
  BY <1>3 DEF Actuate, React, Ready, OneInLoop, InTime
<1>4. CASE TakeReference
  BY <1>4 DEF TakeReference, React, InTime
<1>5. CASE BeginSolve
  <2>1. "solve" \in pending /\ "actuator" \notin pending
    BY <1>5 DEF BeginSolve, Ready, OneInLoop
  <2>2. ASSUME solving' = "reaction" PROVE applied.set_at <= time + Deadline
    <3>1. physical <= time + Deadline
      BY <1>0, <1>5, <2>2 DEF BeginSolve, Missed
    <3> QED
      BY <1>0, <3>1 DEF InTime
  <2> QED
    BY <1>5, <2>1, <2>2 DEF BeginSolve, InTime
<1>6. CASE EndSolve
  <2>1. u'.set_at = physical
    BY <1>6 DEF EndSolve
  <2>2. applied.set_at <= time + Deadline
    BY <1>6 DEF EndSolve, InTime
  <2> QED
    BY <1>0, <1>6, <2>1, <2>2 DEF EndSolve, React, InTime
<1>7. CASE EmergencyBrake
  <2>1. u' = [brake |-> TRUE, x0 |-> -1, xref |-> -1, set_at |-> physical]
    BY <1>7 DEF EmergencyBrake, NoInput, Absent
  <2>2. u'.brake /\ u'.set_at = physical
    BY <2>1
  <2> QED
    BY <1>0, <1>7, <2>2 DEF EmergencyBrake, React, InTime
<1>8. CASE AdvanceTag
  <2>1. u'.set_at <= physical'
    BY <1>0, <1>8 DEF AdvanceTag, NoInput, Absent
  <2>2. solving = "no" /\ "actuator" \notin pending'
    BY <1>8 DEF AdvanceTag, TimersAt, TypeOK, InTime
  <2> QED
    BY <1>8, <2>1, <2>2 DEF AdvanceTag, InTime
<1>9. CASE Clock
  BY <1>0, <1>9 DEF Clock, InTime
<1>10. CASE Stop \/ UNCHANGED vars
  BY <1>10 DEF Stop, vars, InTime
<1> QED
  BY <1>1, <1>2, <1>3, <1>4, <1>5, <1>6, <1>7, <1>8, <1>9, <1>10
     DEF Next, Progress, Stopped

LEMMA Invariance == Spec => []IInv
<1>1. IInv /\ [Next]_vars => IInv'
  BY TypeStep, LoopStep, SettersStep, ReferenceStep, InTimeStep DEF IInv
<1> QED
  BY InitIInv, <1>1, PTL DEF Spec

-----------------------------------------------------------------------------
(* What follows.                                                           *)

\* Every variable keeps its type, whatever the offsets of the timers are.
THEOREM TypeCorrect == Spec => []TypeOK
<1>1. IInv => TypeOK
  BY DEF IInv
<1> QED
  BY Invariance, <1>1, PTL

\* The loop closes in every tick: the plant has made one step for each
\* measurement, from this tick's sample and for this tick's reference, or
\* under the brake; for every timeout, deadline and pair of reference times.
THEOREM LoopAlwaysCloses == Spec => []LoopCloses
<1>1. IInv => LoopCloses
  BY DEF IInv, OneInLoop, LoopCloses, FromThisTick
<1> QED
  BY Invariance, <1>1, PTL

\* Lateness does not accumulate: an input that was set after the deadline of the
\* next tick is followed by the brake.
THEOREM LatenessBrakes == Spec => LateThenBrake
<1>1. IInv /\ [Next]_vars =>
        [time' = time /\ applied' # applied /\ applied.set_at > time + Deadline
           => applied'.brake]_vars
  <2> SUFFICES ASSUME IInv, Next, time' = time, applied' # applied,
                      applied.set_at > time + Deadline
               PROVE  applied'.brake
    BY DEF vars
  <2>1. Actuate
    BY DEF Next, Progress, Stopped, SetReference, Sense, TakeReference, BeginSolve,
           EndSolve, EmergencyBrake, AdvanceTag, Stop, Clock, vars
  <2>2. "actuator" \in pending /\ applied' = u
    BY <2>1 DEF Actuate, React, Ready
  <2>3. "actuator" \in pending /\ ~u.brake => applied.set_at <= time + Deadline
    BY DEF IInv, InTime
  <2>4. applied.set_at \in Int /\ time + Deadline \in Int
    BY MPCAssumption DEF IInv, TypeOK, Input
  <2>5. u.brake
    BY <2>2, <2>3, <2>4
  <2> QED
    BY <2>2, <2>5
<1> QED
  BY Invariance, <1>1, PTL DEF Spec, LateThenBrake
=============================================================================
