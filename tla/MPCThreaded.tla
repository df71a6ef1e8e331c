---------------------------- MODULE MPCThreaded ----------------------------
(***************************************************************************)
(* The POSIX program mpc_threaded.c: five threads around one struct under  *)
(* g_mutex, a condition variable g_cond_meas from the sensor to the        *)
(* prediction thread, and a plant state outside the mutex.                 *)
(*                                                                         *)
(* A critical section that only touches g_state is one action; taking the  *)
(* mutex is an action of its own, and so is every load and store of        *)
(* g_plant_x, which the sensor reads while the actuator may be writing it. *)
(* g_cond_sol and new_solution have a writer and no reader in the program: *)
(* a signal nobody can wait for changes no state.                          *)
(***************************************************************************)
EXTENDS Integers

CONSTANT MAX_TICKS  \* ticks before the sensor ends the run
ASSUME MaxTicksAssumption == MAX_TICKS \in Nat \ {0}

VARIABLES
  pc,               \* where each thread is
  mutex,            \* the holder of g_mutex, or "free"
  running, new_measurement, new_solution, tick, \* of g_state
  x_current,        \* of g_state: which plant state each component is from
  x_reference,      \* of g_state, in tenths
  u_sequence,       \* of g_state: what the stored input sequence is
  u_applied,        \* of g_state: what the sequence last applied was
  plant,            \* g_plant_x: the parity of the plant step of each component
  loaded,           \* components the sensor has loaded, and their values
  stored,           \* components the actuator has stored in this plant_step
  joined            \* main has joined all threads and destroyed the mutex

shared == <<running, new_measurement, new_solution, tick, x_current,
            x_reference, u_sequence, u_applied>>
vars == <<pc, mutex, shared, plant, loaded, stored, joined>>

Thread == {"sensor", "predict", "optim", "actuate", "ref"}
Component == {1, 2}

\* Where a thread holds the mutex.
InCS == {"locked", "locked2"}
PC == {"want", "locked", "waiting", "work", "want2", "locked2", "exited"}

\* The stored sequence is the initial zeros, or a solution that the actuator
\* has not applied yet, or one that it has.
Sequence == {"initial", "fresh", "used"}

Goto(t, l) == pc' = [pc EXCEPT ![t] = l]

-----------------------------------------------------------------------------
(* The mutex. sleep_ms() and the solve delay a thread for any time before  *)
(* it takes the mutex again: a thread in "want" may be doing either.       *)

\* Faulty variant: the mutex does not exclude.
MutexIgnored == TRUE
MutexFree == mutex = "free"

\* pthread_mutex_lock(), and the reacquisition inside pthread_cond_wait()
Lock(t) ==
  /\ MutexFree
  /\ \/ pc[t] = "want" /\ Goto(t, "locked")
     \/ pc[t] = "want2" /\ Goto(t, "locked2")
  /\ mutex' = t
  /\ UNCHANGED <<shared, plant, loaded, stored, joined>>

UnlockTo(t, l) == Goto(t, l) /\ mutex' = "free"

\* Faulty variant: break without unlock.
ExitWithoutUnlock(t) ==
  /\ t # "ref" /\ pc[t] = "locked" /\ ~running
  /\ Goto(t, "exited")
  /\ UNCHANGED <<mutex, shared, plant, loaded, stored, joined>>
\* The shutdown check at the head of every loop: if (!running) unlock, break.
Exit(t) ==
  /\ t # "ref" /\ pc[t] = "locked" /\ ~running
  /\ UnlockTo(t, "exited")
  /\ UNCHANGED <<shared, plant, loaded, stored, joined>>

-----------------------------------------------------------------------------
(* sensor_thread                                                           *)

\* One load of g_plant_x[i]; the compiler may order the two loads.
Load(i) ==
  /\ pc["sensor"] = "locked" /\ running
  /\ i \notin DOMAIN loaded
  /\ loaded' = [j \in DOMAIN loaded \cup {i} |-> IF j = i THEN plant[i] ELSE loaded[j]]
  /\ UNCHANGED <<pc, mutex, shared, plant, stored, joined>>

\* Faulty variant: no signal with the tick that ends the run.
WokenUnlessLast(l) == IF l = "waiting" /\ tick + 1 < MAX_TICKS THEN "want" ELSE l
\* pthread_cond_signal(&g_cond_meas): the prediction thread, if it waits,
\* goes on to reacquire the mutex.
Woken(l) == IF l = "waiting" THEN "want" ELSE l

\* Faulty variants: the check before the increment, and off by one.
GoesOnLate(t) == t < MAX_TICKS
GoesOnEarly(t) == t + 2 < MAX_TICKS
\* The run goes on after the measurement of tick t.
GoesOn(t) == t + 1 < MAX_TICKS

Publish ==
  /\ pc["sensor"] = "locked" /\ running /\ DOMAIN loaded = Component
  /\ x_current' = loaded
  /\ loaded' = [j \in {} |-> 0]
  /\ new_measurement' = TRUE
  /\ tick' = tick + 1
  /\ running' = GoesOn(tick)
  /\ pc' = [pc EXCEPT !["sensor"] = "want", !["predict"] = Woken(@)]
  /\ mutex' = "free"
  /\ UNCHANGED <<new_solution, x_reference, u_sequence, u_applied, plant,
                 stored, joined>>

-----------------------------------------------------------------------------
(* prediction_thread                                                       *)

\* pthread_cond_wait(): release the mutex and wait, in one step.
Wait ==
  /\ pc["predict"] = "locked" /\ ~new_measurement /\ running
  /\ UnlockTo("predict", "waiting")
  /\ UNCHANGED <<shared, plant, loaded, stored, joined>>

\* POSIX allows pthread_cond_wait() to return without a signal.
SpuriousWakeup ==
  /\ pc["predict"] = "waiting"
  /\ Goto("predict", "want")
  /\ UNCHANGED <<mutex, shared, plant, loaded, stored, joined>>

\* Snapshot and unlock; the propagation that follows is local.
Snapshot ==
  /\ pc["predict"] = "locked" /\ new_measurement /\ running
  /\ new_measurement' = FALSE
  /\ UnlockTo("predict", "want")
  /\ UNCHANGED <<running, new_solution, tick, x_current, x_reference,
                 u_sequence, u_applied, plant, loaded, stored, joined>>

-----------------------------------------------------------------------------
(* optimizer_thread                                                        *)

\* Snapshot of x_current and x_reference; the solve follows, outside the mutex.
BeginSolve ==
  /\ pc["optim"] = "locked" /\ running
  /\ UnlockTo("optim", "want2")
  /\ UNCHANGED <<shared, plant, loaded, stored, joined>>

\* The result is written whether or not the run has ended meanwhile.
WriteSolution ==
  /\ pc["optim"] = "locked2"
  /\ u_sequence' = "fresh"
  /\ new_solution' = TRUE
  /\ UnlockTo("optim", "want")
  /\ UNCHANGED <<running, new_measurement, tick, x_current, x_reference,
                 u_applied, plant, loaded, stored, joined>>

-----------------------------------------------------------------------------
(* actuator_thread                                                         *)

\* The best available u[0] is taken; plant_step() follows after the unlock.
Apply ==
  /\ pc["actuate"] = "locked" /\ running
  /\ u_applied' = u_sequence
  /\ u_sequence' = IF u_sequence = "initial" THEN "initial" ELSE "used"
  /\ UnlockTo("actuate", "work")
  /\ UNCHANGED <<running, new_measurement, new_solution, tick, x_current,
                 x_reference, plant, loaded, stored, joined>>

\* One store of plant_step()'s memcpy, in either order; then the loop again.
Store(i) ==
  /\ pc["actuate"] = "work"
  /\ i \notin stored
  /\ plant' = [plant EXCEPT ![i] = 1 - @]
  /\ \/ stored = {} /\ stored' = {i} /\ UNCHANGED pc
     \/ stored # {} /\ stored' = {} /\ Goto("actuate", "want")
  /\ UNCHANGED <<mutex, shared, loaded, joined>>

-----------------------------------------------------------------------------
(* reference_thread, main                                                  *)

SetReference ==
  /\ \/ /\ pc["ref"] = "locked"
        /\ x_reference' = 10
        /\ UnlockTo("ref", "want2")
     \/ /\ pc["ref"] = "locked2"
        /\ x_reference' = 5
        /\ UnlockTo("ref", "exited")
  /\ UNCHANGED <<running, new_measurement, new_solution, tick, x_current,
                 u_sequence, u_applied, plant, loaded, stored, joined>>

\* Five pthread_join(), then the mutex and the condition variables go.
JoinAll ==
  /\ ~joined /\ \A t \in Thread : pc[t] = "exited"
  /\ joined' = TRUE
  /\ UNCHANGED <<pc, mutex, shared, plant, loaded, stored>>

Done == joined /\ UNCHANGED vars

-----------------------------------------------------------------------------
Init ==
  /\ pc = [t \in Thread |-> "want"]
  /\ mutex = "free"
  /\ running = TRUE /\ new_measurement = FALSE /\ new_solution = FALSE
  /\ tick = 0
  /\ x_current = [i \in Component |-> 0] /\ x_reference = 0
  /\ u_sequence = "initial" /\ u_applied = "initial"
  /\ plant = [i \in Component |-> 0]
  /\ loaded = [j \in {} |-> 0] /\ stored = {}
  /\ joined = FALSE

\* What thread t does besides taking the mutex.
Step(t) ==
  \/ Exit(t)
  \/ t = "sensor"  /\ ((\E i \in Component : Load(i)) \/ Publish)
  \/ t = "predict" /\ (Wait \/ Snapshot)
  \/ t = "optim"   /\ (BeginSolve \/ WriteSolution)
  \/ t = "actuate" /\ (Apply \/ \E i \in Component : Store(i))
  \/ t = "ref"     /\ SetReference

Next ==
  \/ \E t \in Thread : Step(t) \/ Lock(t)
  \/ SpuriousWakeup \/ JoinAll \/ Done

Spec == Init /\ [][Next]_vars

\* Every thread keeps running; a mutex that is free again and again is
\* eventually given to a thread that wants it.
Fairness ==
  /\ \A t \in Thread : WF_vars(Step(t)) /\ SF_vars(Lock(t))
  /\ WF_vars(JoinAll)
FairSpec == Spec /\ Fairness

-----------------------------------------------------------------------------
(* Properties                                                              *)

\* Every variable has a value of its type.
TypeOK ==
  /\ pc \in [Thread -> PC]
  /\ mutex \in Thread \cup {"free"}
  /\ running \in BOOLEAN /\ new_measurement \in BOOLEAN /\ new_solution \in BOOLEAN
  /\ tick \in 0 .. MAX_TICKS
  /\ x_current \in [Component -> {0, 1}] /\ x_reference \in {0, 5, 10}
  /\ u_sequence \in Sequence /\ u_applied \in Sequence
  /\ plant \in [Component -> {0, 1}]
  /\ loaded \in UNION {[D -> {0, 1}] : D \in SUBSET Component}
  /\ stored \subseteq Component
  /\ joined \in BOOLEAN

\* The thread inside a critical section is the holder of the mutex, and the
\* mutex is free exactly when there is none.
Exclusion == \A t \in Thread : pc[t] \in InCS <=> mutex = t

\* No lost wakeup: the prediction thread waits only while there is nothing to
\* predict and the run goes on, so neither a measurement nor the shutdown can
\* find it asleep without waking it.
NoLostWakeup == pc["predict"] = "waiting" => running /\ ~new_measurement

\* A control thread leaves only after the last tick, and by then the sensor
\* has measured MAX_TICKS times.
NoEarlyExit ==
  \A t \in Thread \ {"ref"} : pc[t] = "exited" => ~running /\ tick = MAX_TICKS

\* The program ends: the run reaches its last tick, every thread sees it, the
\* waiting one too, and main joins them all.
ProgramEnds == <>joined

\* "true plant state (not shared)": what the sensor publishes is the plant
\* state of one instant.
SensorReadsOneState == x_current[1] = x_current[2]

\* "Waits for a new solution, then applies u[0] every tick": what the actuator
\* applies is a solution it has not applied before.
AppliesNewSolutions == u_applied # "used"
=============================================================================
