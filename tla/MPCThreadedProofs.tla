-------------------------- MODULE MPCThreadedProofs --------------------------
(***************************************************************************)
(* Proofs about MPCThreaded for every number of ticks: its types, the      *)
(* exclusion the mutex gives, and that neither a measurement nor the       *)
(* shutdown is lost on the prediction thread.                              *)
(***************************************************************************)
EXTENDS MPCThreaded, TLAPS

\* The run ends exactly when the last tick has been counted.
RunningUntilLastTick ==
  /\ running => tick < MAX_TICKS
  /\ ~running => tick = MAX_TICKS

\* The inductive invariant: NoEarlyExit needs the sensor's count, the other
\* parts are inductive together.
IInv == TypeOK /\ Exclusion /\ NoLostWakeup /\ RunningUntilLastTick /\ NoEarlyExit

LEMMA InitInv == Init => IInv
<1> SUFFICES ASSUME Init PROVE IInv
  OBVIOUS
<1> USE MaxTicksAssumption DEF Init
<1>1. TypeOK
  <2>1. loaded \in [{} -> {0, 1}] /\ {} \in SUBSET Component
    BY DEF Component
  <2>2. loaded \in UNION {[D -> {0, 1}] : D \in SUBSET Component}
    BY <2>1
  <2>3. pc \in [Thread -> PC]
    BY DEF PC
  <2>4. x_current \in [Component -> {0, 1}] /\ plant \in [Component -> {0, 1}]
    OBVIOUS
  <2>5. tick \in 0 .. MAX_TICKS
    OBVIOUS
  <2> QED
    BY <2>2, <2>3, <2>4, <2>5 DEF TypeOK, Sequence
<1>2. Exclusion
  BY DEF Exclusion, InCS, Thread
<1>3. NoLostWakeup /\ RunningUntilLastTick /\ NoEarlyExit
  BY DEF NoLostWakeup, RunningUntilLastTick, NoEarlyExit, Thread
<1> QED
  BY <1>1, <1>2, <1>3 DEF IInv

\* A thread that goes somewhere keeps pc a function over the threads.
LEMMA GotoType ==
  ASSUME TypeOK, NEW t \in Thread, NEW l \in PC, Goto(t, l)
  PROVE  /\ pc' \in [Thread -> PC]
         /\ pc'[t] = l
         /\ \A q \in Thread \ {t} : pc'[q] = pc[q]
BY DEF TypeOK, Goto

\* A thread that unlocks and leaves the critical section keeps Exclusion.
LEMMA UnlockExcludes ==
  ASSUME TypeOK, Exclusion, NEW t \in Thread, NEW l \in PC \ InCS,
         pc[t] \in InCS, UnlockTo(t, l)
  PROVE  Exclusion'
<1>1. mutex = t
  BY DEF Exclusion
<1>2. mutex' = "free" /\ Goto(t, l)
  BY DEF UnlockTo
<1>3. \A q \in Thread : pc'[q] \notin InCS
  BY <1>1, <1>2, GotoType DEF Exclusion
<1> QED
  BY <1>2, <1>3 DEF Exclusion, Thread

LEMMA LockInv == ASSUME IInv, NEW t \in Thread, Lock(t) PROVE IInv'
<1>1. PICK l \in {"locked", "locked2"} : Goto(t, l) /\ pc[t] \notin {"waiting", "exited"}
  BY DEF Lock
<1>2. mutex = "free" /\ mutex' = t
  BY DEF Lock, MutexFree
<1>3. /\ pc' \in [Thread -> PC] /\ pc'[t] = l
      /\ \A q \in Thread \ {t} : pc'[q] = pc[q]
  BY <1>1, GotoType DEF IInv, PC
<1>4. TypeOK'
  BY <1>2, <1>3 DEF IInv, TypeOK, Lock, shared
<1>5. Exclusion'
  BY <1>2, <1>3 DEF IInv, Exclusion, InCS, Thread
<1>6. NoLostWakeup' /\ RunningUntilLastTick' /\ NoEarlyExit'
  BY <1>3 DEF IInv, NoLostWakeup, RunningUntilLastTick, NoEarlyExit, Lock,
              shared, Thread
<1> QED
  BY <1>4, <1>5, <1>6 DEF IInv

LEMMA ExitInv == ASSUME IInv, NEW t \in Thread, Exit(t) PROVE IInv'
<1>1. pc[t] \in InCS /\ t # "ref" /\ ~running
  BY DEF Exit, InCS
<1>2. UnlockTo(t, "exited") /\ Goto(t, "exited") /\ "exited" \in PC \ InCS
  BY DEF Exit, UnlockTo, PC, InCS
<1>3. /\ pc' \in [Thread -> PC] /\ pc'[t] = "exited"
      /\ \A q \in Thread \ {t} : pc'[q] = pc[q]
  BY <1>2, GotoType DEF IInv
<1>4. TypeOK'
  BY <1>2, <1>3 DEF IInv, TypeOK, Exit, UnlockTo, shared
<1>5. Exclusion'
  BY <1>1, <1>2, UnlockExcludes DEF IInv
<1>6. NoLostWakeup' /\ RunningUntilLastTick' /\ NoEarlyExit'
  BY <1>1, <1>3 DEF IInv, NoLostWakeup, RunningUntilLastTick, NoEarlyExit, Exit,
                    shared, Thread
<1> QED
  BY <1>4, <1>5, <1>6 DEF IInv

\* One load: the values the sensor has read so far stay those of components.
LEMMA LoadInv == ASSUME IInv, NEW i \in Component, Load(i) PROVE IInv'
<1>1. PICK D \in SUBSET Component : loaded \in [D -> {0, 1}]
  BY DEF IInv, TypeOK
<1>2. plant[i] \in {0, 1}
  BY DEF IInv, TypeOK
<1>3. loaded' \in [D \cup {i} -> {0, 1}] /\ D \cup {i} \in SUBSET Component
  BY <1>1, <1>2 DEF Load
<1>4. loaded' \in UNION {[E -> {0, 1}] : E \in SUBSET Component}
  BY <1>3
<1>5. TypeOK'
  BY <1>4 DEF IInv, TypeOK, Load, shared
<1>6. Exclusion' /\ NoLostWakeup' /\ RunningUntilLastTick' /\ NoEarlyExit'
  BY DEF IInv, Exclusion, NoLostWakeup, RunningUntilLastTick, NoEarlyExit, Load, shared
<1> QED
  BY <1>5, <1>6 DEF IInv

\* The step that counts the tick, ends the run with the last one and wakes the
\* prediction thread in any case.
LEMMA PublishInv == ASSUME IInv, Publish PROVE IInv'
<1> USE MaxTicksAssumption
<1>1. /\ pc' \in [Thread -> PC]
      /\ pc'["sensor"] = "want" /\ pc'["predict"] = Woken(pc["predict"])
      /\ \A q \in Thread \ {"sensor", "predict"} : pc'[q] = pc[q]
  <2>1. Woken(pc["predict"]) \in PC /\ "want" \in PC
    BY DEF IInv, TypeOK, Woken, Thread, PC
  <2> QED
    BY <2>1 DEF IInv, TypeOK, Publish, Thread
<1>2. mutex = "sensor" /\ mutex' = "free"
  BY DEF IInv, Exclusion, Publish, InCS, Thread
<1>3. tick < MAX_TICKS /\ tick' = tick + 1 /\ running' = (tick + 1 < MAX_TICKS)
  BY DEF IInv, RunningUntilLastTick, Publish, GoesOn
<1>4. tick \in Nat /\ tick' \in 0 .. MAX_TICKS
  BY <1>3 DEF IInv, TypeOK
<1>5. TypeOK'
  <2>1. x_current' \in [Component -> {0, 1}]
    BY DEF IInv, TypeOK, Publish
  <2>2. loaded' \in [{} -> {0, 1}] /\ {} \in SUBSET Component
    BY DEF Publish
  <2>3. loaded' \in UNION {[E -> {0, 1}] : E \in SUBSET Component}
    BY <2>2
  <2> QED
    BY <1>1, <1>2, <1>3, <1>4, <2>1, <2>3 DEF IInv, TypeOK, Publish
<1>6. Exclusion'
  <2>1. \A q \in Thread : pc'[q] \notin InCS
    BY <1>1, <1>2 DEF IInv, Exclusion, InCS, Woken, Thread
  <2> QED
    BY <1>2, <2>1 DEF Exclusion, Thread
<1>7. NoLostWakeup'
  BY <1>1 DEF NoLostWakeup, Woken
<1>8. RunningUntilLastTick'
  <2>1. running' <=> tick' < MAX_TICKS
    BY <1>3
  <2>2. ~(tick' < MAX_TICKS) => tick' = MAX_TICKS
    BY <1>4
  <2> QED
    BY <2>1, <2>2 DEF RunningUntilLastTick
<1>9. NoEarlyExit'
  BY <1>1 DEF IInv, NoEarlyExit, Publish, Woken, Thread
<1> QED
  BY <1>5, <1>6, <1>7, <1>8, <1>9 DEF IInv

\* The prediction thread waits, wakes without a signal, or takes a measurement.
LEMMA PredictInv ==
  ASSUME IInv, Wait \/ SpuriousWakeup \/ Snapshot PROVE IInv'
<1> DEFINE t == "predict"
<1>1. t \in Thread
  BY DEF Thread
<1>2. CASE Wait
  <2>1. UnlockTo(t, "waiting") /\ Goto(t, "waiting")
        /\ "waiting" \in PC \ InCS /\ pc[t] \in InCS
    BY <1>2 DEF Wait, UnlockTo, PC, InCS
  <2>2. /\ pc' \in [Thread -> PC] /\ pc'[t] = "waiting"
        /\ \A q \in Thread \ {t} : pc'[q] = pc[q]
    BY <1>1, <2>1, GotoType DEF IInv
  <2>3. TypeOK'
    BY <1>2, <2>1, <2>2 DEF IInv, TypeOK, Wait, UnlockTo, shared
  <2>4. Exclusion'
    BY <1>1, <2>1, UnlockExcludes DEF IInv
  <2>5. NoLostWakeup' /\ RunningUntilLastTick' /\ NoEarlyExit'
    BY <1>2, <2>2 DEF IInv, NoLostWakeup, RunningUntilLastTick, NoEarlyExit, Wait, shared
  <2> QED
    BY <2>3, <2>4, <2>5 DEF IInv
<1>3. CASE SpuriousWakeup
  <2>1. Goto(t, "want") /\ "want" \in PC /\ pc[t] = "waiting"
    BY <1>3 DEF SpuriousWakeup, PC
  <2>2. /\ pc' \in [Thread -> PC] /\ pc'[t] = "want"
        /\ \A q \in Thread \ {t} : pc'[q] = pc[q]
    BY <1>1, <2>1, GotoType DEF IInv
  <2>3. TypeOK'
    BY <1>3, <2>2 DEF IInv, TypeOK, SpuriousWakeup, shared
  <2>4. Exclusion'
    BY <1>3, <2>1, <2>2 DEF IInv, Exclusion, SpuriousWakeup, InCS
  <2>5. NoLostWakeup' /\ RunningUntilLastTick' /\ NoEarlyExit'
    BY <1>3, <2>2 DEF IInv, NoLostWakeup, RunningUntilLastTick, NoEarlyExit,
                      SpuriousWakeup, shared
  <2> QED
    BY <2>3, <2>4, <2>5 DEF IInv
<1>4. CASE Snapshot
  <2>1. UnlockTo(t, "want") /\ Goto(t, "want")
        /\ "want" \in PC \ InCS /\ pc[t] \in InCS
    BY <1>4 DEF Snapshot, UnlockTo, PC, InCS
  <2>2. /\ pc' \in [Thread -> PC] /\ pc'[t] = "want"
        /\ \A q \in Thread \ {t} : pc'[q] = pc[q]
    BY <1>1, <2>1, GotoType DEF IInv
  <2>3. TypeOK'
    BY <1>4, <2>1, <2>2 DEF IInv, TypeOK, Snapshot, UnlockTo
  <2>4. Exclusion'
    BY <1>1, <2>1, UnlockExcludes DEF IInv
  <2>5. NoLostWakeup' /\ RunningUntilLastTick' /\ NoEarlyExit'
    BY <1>4, <2>2 DEF IInv, NoLostWakeup, RunningUntilLastTick, NoEarlyExit, Snapshot
  <2> QED
    BY <2>3, <2>4, <2>5 DEF IInv
<1> QED
  BY <1>2, <1>3, <1>4

\* The optimizer reads and, later, writes under the mutex.
LEMMA OptimizerInv == ASSUME IInv, BeginSolve \/ WriteSolution PROVE IInv'
<1> DEFINE t == "optim"
<1>1. t \in Thread
  BY DEF Thread
<1>2. PICK l \in {"want", "want2"} : UnlockTo(t, l) /\ Goto(t, l) /\ pc[t] \in InCS
  BY DEF BeginSolve, WriteSolution, UnlockTo, InCS
<1>3. l \in PC \ InCS
  BY DEF PC, InCS
<1>4. /\ pc' \in [Thread -> PC] /\ pc'[t] = l
      /\ \A q \in Thread \ {t} : pc'[q] = pc[q]
  BY <1>1, <1>2, <1>3, GotoType DEF IInv
<1>5. TypeOK'
  BY <1>2, <1>4 DEF IInv, TypeOK, BeginSolve, WriteSolution, UnlockTo, shared, Sequence
<1>6. Exclusion'
  BY <1>1, <1>2, <1>3, UnlockExcludes DEF IInv
<1>7. NoLostWakeup' /\ RunningUntilLastTick' /\ NoEarlyExit'
  BY <1>4 DEF IInv, NoLostWakeup, RunningUntilLastTick, NoEarlyExit, BeginSolve,
              WriteSolution, shared, Thread
<1> QED
  BY <1>5, <1>6, <1>7 DEF IInv

LEMMA ApplyInv == ASSUME IInv, Apply PROVE IInv'
<1> DEFINE t == "actuate"
<1>1. t \in Thread
  BY DEF Thread
<1>2. UnlockTo(t, "work") /\ Goto(t, "work") /\ pc[t] \in InCS /\ "work" \in PC \ InCS
  BY DEF Apply, UnlockTo, InCS, PC
<1>3. /\ pc' \in [Thread -> PC] /\ pc'[t] = "work"
      /\ \A q \in Thread \ {t} : pc'[q] = pc[q]
  BY <1>1, <1>2, GotoType DEF IInv
<1>4. TypeOK'
  BY <1>2, <1>3 DEF IInv, TypeOK, Apply, UnlockTo, Sequence
<1>5. Exclusion'
  BY <1>1, <1>2, UnlockExcludes DEF IInv
<1>6. NoLostWakeup' /\ RunningUntilLastTick' /\ NoEarlyExit'
  BY <1>3 DEF IInv, NoLostWakeup, RunningUntilLastTick, NoEarlyExit, Apply, Thread
<1> QED
  BY <1>4, <1>5, <1>6 DEF IInv

\* One store to the plant state, outside the mutex.
LEMMA StoreInv == ASSUME IInv, NEW i \in Component, Store(i) PROVE IInv'
<1> DEFINE t == "actuate"
<1>1. /\ pc' \in [Thread -> PC] /\ pc'[t] \in {"work", "want"}
      /\ \A q \in Thread \ {t} : pc'[q] = pc[q]
  <2>1. CASE UNCHANGED pc
    BY <2>1 DEF IInv, TypeOK, Store
  <2>2. CASE Goto(t, "want")
    BY <2>2, GotoType DEF IInv, PC, Thread
  <2> QED
    BY <2>1, <2>2 DEF Store
<1>2. plant' \in [Component -> {0, 1}]
  <2>1. plant \in [Component -> {0, 1}] /\ plant' = [plant EXCEPT ![i] = 1 - plant[i]]
    BY DEF IInv, TypeOK, Store
  <2>2. 1 - plant[i] \in {0, 1}
    BY <2>1
  <2> QED
    BY <2>1, <2>2
<1>3. TypeOK'
  BY <1>1, <1>2 DEF IInv, TypeOK, Store, shared
<1>4. Exclusion'
  BY <1>1 DEF IInv, Exclusion, Store, InCS, Thread
<1>5. NoLostWakeup' /\ RunningUntilLastTick' /\ NoEarlyExit'
  BY <1>1 DEF IInv, NoLostWakeup, RunningUntilLastTick, NoEarlyExit, Store, shared, Thread
<1> QED
  BY <1>3, <1>4, <1>5 DEF IInv

LEMMA SetReferenceInv == ASSUME IInv, SetReference PROVE IInv'
<1> DEFINE t == "ref"
<1>1. t \in Thread
  BY DEF Thread
<1>2. PICK l \in {"want2", "exited"} : UnlockTo(t, l) /\ Goto(t, l) /\ pc[t] \in InCS
  BY DEF SetReference, UnlockTo, InCS
<1>3. l \in PC \ InCS
  BY DEF PC, InCS
<1>4. /\ pc' \in [Thread -> PC] /\ pc'[t] = l
      /\ \A q \in Thread \ {t} : pc'[q] = pc[q]
  BY <1>1, <1>2, <1>3, GotoType DEF IInv
<1>5. TypeOK'
  BY <1>2, <1>4 DEF IInv, TypeOK, SetReference, UnlockTo
<1>6. Exclusion'
  BY <1>1, <1>2, <1>3, UnlockExcludes DEF IInv
<1>7. NoLostWakeup' /\ RunningUntilLastTick' /\ NoEarlyExit'
  BY <1>4 DEF IInv, NoLostWakeup, RunningUntilLastTick, NoEarlyExit, SetReference, Thread
<1> QED
  BY <1>5, <1>6, <1>7 DEF IInv

\* Every step of the program preserves the inductive invariant.
LEMMA NextInv == IInv /\ [Next]_vars => IInv'
<1> SUFFICES ASSUME IInv, [Next]_vars PROVE IInv'
  OBVIOUS
<1>1. CASE \E t \in Thread : Step(t)
  BY <1>1, ExitInv, LoadInv, PublishInv, PredictInv, OptimizerInv, ApplyInv,
     StoreInv, SetReferenceInv DEF Step
<1>2. CASE \E t \in Thread : Lock(t)
  BY <1>2, LockInv
<1>3. CASE SpuriousWakeup
  BY <1>3, PredictInv
<1>4. CASE JoinAll
  BY <1>4 DEF IInv, TypeOK, Exclusion, NoLostWakeup, RunningUntilLastTick,
              NoEarlyExit, JoinAll, shared
<1>5. CASE UNCHANGED vars
  BY <1>5 DEF IInv, TypeOK, Exclusion, NoLostWakeup, RunningUntilLastTick,
              NoEarlyExit, vars, shared
<1> QED
  BY <1>1, <1>2, <1>3, <1>4, <1>5 DEF Next, Done

LEMMA SpecInv == Spec => []IInv
BY InitInv, NextInv, PTL DEF Spec

-----------------------------------------------------------------------------
(* The invariants of the program, for every number of ticks                *)

\* Every variable keeps its type.
THEOREM TypeCorrect == Spec => []TypeOK
<1>1. IInv => TypeOK
  BY DEF IInv
<1> QED
  BY <1>1, SpecInv, PTL

\* g_mutex excludes: a thread is in a critical section of mpc_threaded.c
\* exactly when it is the holder.
THEOREM MutualExclusion == Spec => []Exclusion
<1>1. IInv => Exclusion
  BY DEF IInv
<1> QED
  BY <1>1, SpecInv, PTL

\* The signal of the sensor thread is never lost on the prediction thread.
THEOREM WakeupsArrive == Spec => []NoLostWakeup
<1>1. IInv => NoLostWakeup
  BY DEF IInv
<1> QED
  BY <1>1, SpecInv, PTL

\* No control thread breaks out of its loop before the last of the MAX_TICKS
\* measurements.
THEOREM NoThreadLeavesEarly == Spec => []NoEarlyExit
<1>1. IInv => NoEarlyExit
  BY DEF IInv
<1> QED
  BY <1>1, SpecInv, PTL
=============================================================================
