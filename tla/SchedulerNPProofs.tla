-------------------------- MODULE SchedulerNPProofs --------------------------
(***************************************************************************)
(* The workers of SchedulerNP implement ReactionOrder and never get in     *)
(* each other's way, for any number of workers, reactions and levels.      *)
(***************************************************************************)
EXTENDS SchedulerNP, FiniteSetTheorems, TLAPS

\* The workers that have gone idle and not been woken, or prepare work alone.
Idle == {w \in Worker : Waiting(w) \/ Alone(w)}

\* A semaphore token stands for a worker that is idle but not counted as idle.
Accounting ==
  ~should_stop => number_of_idle_workers + semaphore = Cardinality(Idle)

Stopping ==
  /\ should_stop => \A w \in Worker : pc[w] \in {"check", "acquire", "exited"}
  /\ \A w \in Worker : pc[w] = "exited" => should_stop

\* Only while the first reactions of a tag are being triggered is no level
\* being executed.
Executing ==
  /\ \A w \in Worker : pc[w] \notin {"acquire", "exited"} /\ (Alone(w) => pc[w] = "advance") =>
       next_reaction_level > 0 \/ should_stop
  /\ semaphore > 0 => next_reaction_level > 0 \/ should_stop
  /\ \A w \in Worker : Alone(w) /\ pc[w] \in {"trigger", "reserve", "insert"} =>
       next_reaction_level = 0

\* What a worker holds, and at which levels.
Local(w) ==
  /\ pc[w] # "fatal"
  /\ inserting[w] # NULL <=> pc[w] \in {"reserve", "insert"}
  /\ reaction[w] # NULL => pc[w] \in {"run", "trigger", "reserve", "insert"}
  /\ pc[w] = "run" => reaction[w] # NULL
  /\ pc[w] \notin {"trigger", "reserve", "insert"} => outputs[w] = {}
  /\ reaction[w] # NULL => /\ Level[reaction[w]] = next_reaction_level - 1
                           /\ outputs[w] \subseteq Triggers[reaction[w]]
  /\ inserting[w] # NULL => Level[inserting[w]] >= next_reaction_level
  /\ pc[w] \in {"pop", "take"} => level[w] = next_reaction_level - 1

\* A queued reaction is in one place: in an entry, being inserted or running.
Stored(r) == \E i \in Slots(Level[r]) : triggered_reactions[Level[r]][i] = r
Entered(l, i) ==
  LET r == triggered_reactions[l][i] IN
  r # NULL => /\ Level[r] = l /\ status[r] = "queued"
              /\ \A j \in Slots(l) : triggered_reactions[l][j] = r => i = j
Inserts(w) ==
  inserting[w] # NULL =>
    /\ status[inserting[w]] = "queued" /\ ~Stored(inserting[w])
    /\ \A v \in Worker : reaction[v] # inserting[w]
    /\ \A v \in Worker : inserting[v] = inserting[w] => v = w
Runs(w) ==
  reaction[w] # NULL =>
    /\ status[reaction[w]] = "queued" /\ ~Stored(reaction[w])
    /\ \A v \in Worker : reaction[v] = reaction[w] => v = w
Placed(r) ==
  status[r] = "queued" => Stored(r) \/ \E w \in Worker : inserting[w] = r \/ reaction[w] = r
Unique ==
  /\ \A l \in Levels : \A i \in Slots(l) : Entered(l, i)
  /\ \A w \in Worker : Inserts(w) /\ Runs(w)
  /\ \A r \in Reaction : Placed(r)

\* Entry i of level l is reserved by w, which will fill it, or claimed by w,
\* which will take what is in it.
Reserved(w, l, i) == pc[w] = "insert" /\ Level[inserting[w]] = l /\ index[w] = i
Claimed(w, i) == pc[w] = "take" /\ index[w] = i

\* A level that is still to be executed fills up from entry 0.
Ahead(l) ==
  /\ 0 <= indexes[l] /\ indexes[l] <= Capacity(l)
  /\ \A i \in Slots(l) :
       (triggered_reactions[l][i] # NULL \/ \E w \in Worker : Reserved(w, l, i)) <=> i < indexes[l]
  /\ \A i \in Slots(l) : \A w \in Worker : Reserved(w, l, i) =>
       /\ triggered_reactions[l][i] = NULL
       /\ \A v \in Worker : Reserved(v, l, i) => v = w

\* The level being executed is emptied from the other end.
Current(l) ==
  /\ indexes[l] <= Capacity(l)
  /\ \A i \in Slots(l) :
       triggered_reactions[l][i] # NULL <=> i < indexes[l] \/ \E w \in Worker : Claimed(w, i)
  /\ \A w \in Worker : pc[w] = "take" =>
       /\ index[w] \in Slots(l) /\ indexes[l] <= index[w]
       /\ \A v \in Worker : Claimed(v, index[w]) => v = w
  /\ \A w \in Worker : pc[w] \in {"idle", "advance"} => indexes[l] < 0
  /\ \A w \in Worker : pc[w] = "distribute" => indexes[l] = 0

Past(l) == indexes[l] = 0 /\ \A i \in Slots(l) : triggered_reactions[l][i] = NULL

Queues ==
  /\ DOMAIN triggered_reactions = Levels
  /\ \A w \in Worker : pc[w] = "insert" => index[w] \in Slots(Level[inserting[w]])
  /\ \A l \in Levels :
       /\ l >= next_reaction_level => Ahead(l)
       /\ l = next_reaction_level - 1 => Current(l)
       /\ l < next_reaction_level - 1 => Past(l)

IInv ==
  /\ TypeOK /\ Accounting /\ AdvancesAlone /\ Stopping /\ Executing
  /\ (\A w \in Worker : Local(w))
  /\ Unique /\ Queues

-----------------------------------------------------------------------------
(* Facts about the constants                                               *)

LEMMA Capacities ==
  ASSUME NEW l \in Levels
  PROVE  /\ Capacity(l) \in Nat /\ 0 < Capacity(l)
         /\ Slots(l) = 0 .. Capacity(l) - 1 /\ 0 \in Slots(l)
<1> DEFINE R == {r \in Reaction : Level[r] = l}
<1>1. IsFiniteSet(R)
  BY SchedulerAssumption, FS_Subset
<1>2. Cardinality(R) \in Nat /\ (Cardinality(R) = 0 <=> R = {})
  BY <1>1, FS_CardinalityType, FS_EmptySet
<1>3. R # {}
  BY SchedulerAssumption DEF Levels
<1> QED  BY <1>2, <1>3 DEF Capacity, Slots

LEMMA Workers == IsFiniteSet(Worker) /\ Cardinality(Worker) \in Nat /\ Cardinality(Worker) > 0
BY SchedulerAssumption, FS_CardinalityType, FS_EmptySet

LEMMA LevelsOfReactions ==
  /\ \A r \in Reaction : Level[r] \in Levels
  /\ Levels \subseteq Int
  /\ \A r \in Reaction : \A s \in Triggers[r] : s \in Reaction /\ Level[r] < Level[s]
BY SchedulerAssumption DEF Levels

LEMMA Idlers ==
  ASSUME AdvancesAlone
  PROVE  /\ IsFiniteSet(Idle) /\ Cardinality(Idle) \in Nat /\ Cardinality(Idle) <= Cardinality(Worker)
         /\ (\E w \in Worker : Alone(w)) => Idle = Worker
<1>1. IsFiniteSet(Idle) /\ Cardinality(Idle) <= Cardinality(Worker)
  BY Workers, FS_Subset DEF Idle
<1>2. Cardinality(Idle) \in Nat
  BY <1>1, FS_CardinalityType
<1>3. ASSUME NEW w \in Worker, Alone(w)
      PROVE  Idle = Worker
  BY <1>3 DEF AdvancesAlone, Idle
<1> QED  BY <1>1, <1>2, <1>3

-----------------------------------------------------------------------------
(* Steps that leave a part of the state alone                              *)

LEMMA PoolFrame ==
  ASSUME Accounting, AdvancesAlone,
         UNCHANGED <<number_of_idle_workers, semaphore, should_stop>>,
         \A v \in Worker : (Alone(v)' <=> Alone(v)) /\ (Waiting(v)' <=> Waiting(v))
  PROVE  Accounting' /\ AdvancesAlone'
<1>1. Idle' = Idle
  BY DEF Idle
<1>2. Accounting'
  BY <1>1 DEF Accounting
<1>3. AdvancesAlone'
  BY DEF AdvancesAlone
<1> QED  BY <1>2, <1>3

LEMMA UniqueFrame ==
  ASSUME Unique, UNCHANGED <<triggered_reactions, status, inserting, reaction>>
  PROVE  Unique'
BY DEF Unique, Entered, Inserts, Runs, Placed, Stored

\* The workers that access entries go on as they are, and nobody newly claims
\* that the level being executed is empty.
LEMMA QueuesFrame ==
  ASSUME Queues, UNCHANGED <<triggered_reactions, indexes, next_reaction_level>>,
         \A v \in Worker :
           /\ pc'[v] = "insert" <=> pc[v] = "insert"
           /\ pc[v] = "insert" => index'[v] = index[v] /\ inserting'[v] = inserting[v]
           /\ pc'[v] = "take" <=> pc[v] = "take"
           /\ pc[v] = "take" => index'[v] = index[v]
           /\ pc'[v] \in {"idle", "advance"} => pc[v] \in {"idle", "advance"}
           /\ pc'[v] = "distribute" => pc[v] = "distribute" \/ next_reaction_level = 0
  PROVE  Queues'
<1>1. ASSUME NEW l \in Levels, Ahead(l)
      PROVE  Ahead(l)'
  BY <1>1 DEF Ahead, Reserved
<1>2. ASSUME NEW l \in Levels, l = next_reaction_level - 1, Current(l)
      PROVE  Current(l)'
  BY <1>2 DEF Current, Claimed, Levels
<1>3. ASSUME NEW l \in Levels, Past(l)
      PROVE  Past(l)'
  BY <1>3 DEF Past
<1> QED  BY <1>1, <1>2, <1>3 DEF Queues

-----------------------------------------------------------------------------
(* The loop of a worker                                                    *)

LEMMA CheckStopStep ==
  ASSUME IInv, NEW w \in Worker, CheckStop(w)
  PROVE  IInv'
<1> USE DEF CheckStop, Goto, queues, pool
<1>1. \A v \in Worker : pc'[v] = IF v = w THEN IF should_stop THEN "exited" ELSE "read" ELSE pc[v]
  BY DEF IInv, TypeOK
<1>2. TypeOK'
  BY DEF IInv, TypeOK, Places
<1>3. Accounting' /\ AdvancesAlone'
  BY <1>1, PoolFrame DEF IInv, Alone, Waiting
<1>4. Stopping'
  BY <1>1 DEF IInv, Stopping
<1>5. Executing'
  BY <1>1 DEF IInv, Executing, Alone
<1>6. \A v \in Worker : Local(v)'
  BY <1>1 DEF IInv, Local
<1>7. Unique'
  BY UniqueFrame DEF IInv
<1>8. Queues'
  BY <1>1, QueuesFrame DEF IInv
<1> QED  BY <1>2, <1>3, <1>4, <1>5, <1>6, <1>7, <1>8 DEF IInv

LEMMA ReadLevelStep ==
  ASSUME IInv, NEW w \in Worker, ReadLevel(w)
  PROVE  IInv'
<1> USE DEF ReadLevel, Goto, queues, pool
<1>1. \A v \in Worker : /\ pc'[v] = IF v = w THEN "pop" ELSE pc[v]
                        /\ level'[v] = IF v = w THEN next_reaction_level - 1 ELSE level[v]
  BY DEF IInv, TypeOK
<1>2. next_reaction_level - 1 \in Levels
  <2>1. next_reaction_level > 0
    BY DEF IInv, Executing, Stopping, Alone
  <2> QED  BY <2>1, SchedulerAssumption DEF IInv, TypeOK, Levels
<1>3. TypeOK'
  BY <1>2 DEF IInv, TypeOK, Places
<1>4. Accounting' /\ AdvancesAlone'
  BY <1>1, PoolFrame DEF IInv, Alone, Waiting
<1>5. Stopping'
  BY <1>1 DEF IInv, Stopping
<1>6. Executing'
  BY <1>1 DEF IInv, Executing, Alone
<1>7. \A v \in Worker : Local(v)'
  BY <1>1 DEF IInv, Local
<1>8. Unique'
  BY UniqueFrame DEF IInv
<1>9. Queues'
  BY <1>1, QueuesFrame DEF IInv
<1> QED  BY <1>3, <1>4, <1>5, <1>6, <1>7, <1>8, <1>9 DEF IInv

LEMMA InvokeStep ==
  ASSUME IInv, NEW w \in Worker, Invoke(w)
  PROVE  IInv'
<1> USE DEF Invoke, Goto, queues, pool
<1>1. PICK T \in SUBSET Triggers[reaction[w]] : outputs' = [outputs EXCEPT ![w] = T]
  OBVIOUS
<1>2. \A v \in Worker : /\ pc'[v] = IF v = w THEN "trigger" ELSE pc[v]
                        /\ outputs'[v] = IF v = w THEN T ELSE outputs[v]
  BY <1>1 DEF IInv, TypeOK
<1>3. reaction[w] # NULL /\ reaction[w] \in Reaction /\ T \subseteq Reaction
  BY LevelsOfReactions DEF IInv, Local, TypeOK
<1>4. TypeOK'
  BY <1>1, <1>3 DEF IInv, TypeOK, Places
<1>5. Accounting' /\ AdvancesAlone'
  BY <1>2, <1>3, PoolFrame DEF IInv, Alone, Waiting
<1>6. Stopping'
  BY <1>2 DEF IInv, Stopping
<1>7. Executing'
  BY <1>2, <1>3 DEF IInv, Executing, Alone
<1>8. \A v \in Worker : Local(v)'
  BY <1>2 DEF IInv, Local
<1>9. Unique'
  BY UniqueFrame DEF IInv
<1>10. Queues'
  BY <1>2, QueuesFrame DEF IInv
<1> QED  BY <1>4, <1>5, <1>6, <1>7, <1>8, <1>9, <1>10 DEF IInv

LEMMA DoneStep ==
  ASSUME IInv, NEW w \in Worker, Done(w)
  PROVE  IInv'
<1> USE DEF Done, Goto, queues, pool
<1> DEFINE r == reaction[w]
<1>1. r \in Reaction /\ r # NULL /\ status[r] = "queued"
  BY DEF IInv, TypeOK, Unique, Runs
<1>2. \A v \in Worker : /\ pc'[v] = IF v = w THEN "check" ELSE pc[v]
                        /\ reaction'[v] = IF v = w THEN NULL ELSE reaction[v]
  BY <1>1 DEF IInv, TypeOK
<1>3. \A s \in Reaction : status'[s] = IF s = r THEN "inactive" ELSE status[s]
  BY <1>1 DEF IInv, TypeOK
<1>4. TypeOK'
  BY <1>1 DEF IInv, TypeOK, Places
<1>5. Accounting' /\ AdvancesAlone'
  BY <1>1, <1>2, PoolFrame DEF IInv, Alone, Waiting
<1>6. Stopping'
  BY <1>2 DEF IInv, Stopping
<1>7. Executing'
  <2>1. next_reaction_level > 0 \/ should_stop
    BY <1>1 DEF IInv, Executing, Alone
  <2> QED  BY <1>1, <1>2, <2>1 DEF IInv, Executing, Alone
<1>8. \A v \in Worker : Local(v)'
  BY <1>1, <1>2 DEF IInv, Local
<1>9. Unique'
  <2>1. \A q \in Reaction : Stored(q)' <=> Stored(q)
    BY DEF Stored
  <2>2. Runs(w) /\ ~Stored(r)
    BY <1>1 DEF IInv, Unique, Runs
  <2>3. ASSUME NEW l \in Levels, NEW i \in Slots(l)
        PROVE  Entered(l, i)'
    <3>1. Entered(l, i) /\ triggered_reactions[l][i] \in Reaction \cup {NULL}
      BY DEF IInv, TypeOK, Unique
    <3>2. triggered_reactions[l][i] # r
      BY <1>1, <2>2, <3>1 DEF Entered, Stored
    <3> QED  BY <1>3, <3>1, <3>2 DEF Entered
  <2>4. ASSUME NEW v \in Worker
        PROVE  Inserts(v)' /\ Runs(v)'
    <3>1. Inserts(v) /\ Runs(v) /\ inserting[v] \in Reaction \cup {NULL}
          /\ reaction[v] \in Reaction \cup {NULL}
      BY DEF IInv, TypeOK, Unique
    <3>2. Inserts(v)'
      BY <1>1, <1>2, <1>3, <2>1, <3>1 DEF Inserts
    <3>3. Runs(v)'
      BY <1>1, <1>2, <1>3, <2>1, <2>2, <3>1 DEF Runs
    <3> QED  BY <3>2, <3>3
  <2>5. ASSUME NEW q \in Reaction
        PROVE  Placed(q)'
    <3>1. Placed(q)
      BY DEF IInv, Unique
    <3> QED  BY <1>2, <1>3, <2>1, <3>1 DEF Placed
  <2> QED  BY <2>3, <2>4, <2>5 DEF Unique
<1>10. Queues'
  BY <1>2, QueuesFrame DEF IInv
<1> QED  BY <1>4, <1>5, <1>6, <1>7, <1>8, <1>9, <1>10 DEF IInv

LEMMA TriggerStep ==
  ASSUME IInv, NEW w \in Worker, NEW s \in Reaction, Trigger(w, s)
  PROVE  IInv'
<1> USE DEF Trigger, Goto, queues, pool
<1>1. \A v \in Worker : outputs'[v] = IF v = w THEN outputs[v] \ {s} ELSE outputs[v]
  BY DEF IInv, TypeOK
<1>2. CASE ~CanQueue(s)
  <2> USE <1>2
  <2>1. UNCHANGED <<pc, status, inserting>>
    OBVIOUS
  <2>2. TypeOK'
    BY <2>1 DEF IInv, TypeOK
  <2>3. Accounting' /\ AdvancesAlone'
    BY <2>1, PoolFrame DEF IInv, Alone, Waiting
  <2>4. Stopping' /\ Executing'
    BY <2>1 DEF IInv, Stopping, Executing, Alone
  <2>5. \A v \in Worker : Local(v)'
    BY <1>1, <2>1 DEF IInv, Local
  <2>6. Unique'
    BY <2>1, UniqueFrame DEF IInv
  <2>7. Queues'
    BY <2>1, QueuesFrame DEF IInv
  <2> QED  BY <2>2, <2>3, <2>4, <2>5, <2>6, <2>7 DEF IInv
<1>3. CASE CanQueue(s)
  <2> USE <1>3 DEF CanQueue
  <2>1. \A v \in Worker : /\ pc'[v] = IF v = w THEN "reserve" ELSE pc[v]
                          /\ inserting'[v] = IF v = w THEN s ELSE inserting[v]
    BY DEF IInv, TypeOK
  <2>2. \A q \in Reaction : status'[q] = IF q = s THEN "queued" ELSE status[q]
    BY DEF IInv, TypeOK
  <2>3. s # NULL /\ inserting[w] = NULL /\ pc[w] = "trigger"
    BY SchedulerAssumption DEF IInv, Local
  <2>4. Level[s] >= next_reaction_level
    <3>1. CASE reaction[w] = NULL
      BY <3>1, <2>3, LevelsOfReactions, SchedulerAssumption
         DEF IInv, Executing, Alone, Levels
    <3>2. CASE reaction[w] # NULL
      <4>1. reaction[w] \in Reaction /\ Level[reaction[w]] = next_reaction_level - 1
            /\ s \in Triggers[reaction[w]]
        BY <3>2 DEF IInv, TypeOK, Local
      <4>2. Level[reaction[w]] < Level[s]
        BY <4>1, LevelsOfReactions
      <4>3. Level[s] \in Int
        BY LevelsOfReactions
      <4>4. next_reaction_level \in Int
        BY SchedulerAssumption DEF IInv, TypeOK
      <4> QED  BY <4>1, <4>2, <4>3, <4>4
    <3> QED  BY <3>1, <3>2
  <2>5. TypeOK'
    BY DEF IInv, TypeOK, Places
  <2>6. Accounting' /\ AdvancesAlone'
    BY <2>1, <2>3, PoolFrame DEF IInv, Alone, Waiting
  <2>7. Stopping'
    BY <2>1, <2>3 DEF IInv, Stopping
  <2>8. Executing'
    BY <2>1, <2>3 DEF IInv, Executing, Alone
  <2>9. \A v \in Worker : Local(v)'
    BY <1>1, <2>1, <2>3, <2>4 DEF IInv, Local
  <2>10. Unique'
    <3>1. \A q \in Reaction : Stored(q)' <=> Stored(q)
      BY DEF Stored
    <3>2. ~Stored(s)
      <4>1. \A i \in Slots(Level[s]) : Entered(Level[s], i)
        BY LevelsOfReactions DEF IInv, Unique
      <4> QED  BY <2>3, <4>1 DEF Entered, Stored
    <3>3. \A v \in Worker : inserting[v] # s /\ reaction[v] # s
      BY <2>3 DEF IInv, Unique, Inserts, Runs
    <3>4. ASSUME NEW l \in Levels, NEW i \in Slots(l)
          PROVE  Entered(l, i)'
      <4>1. Entered(l, i) /\ triggered_reactions[l][i] \in Reaction \cup {NULL}
        BY DEF IInv, TypeOK, Unique
      <4> QED  BY <2>2, <4>1 DEF Entered
    <3>5. ASSUME NEW v \in Worker
          PROVE  Inserts(v)' /\ Runs(v)'
      <4>1. Inserts(v) /\ Runs(v) /\ inserting[v] \in Reaction \cup {NULL}
            /\ reaction[v] \in Reaction \cup {NULL}
        BY DEF IInv, TypeOK, Unique
      <4>2. Inserts(v)'
        BY <2>1, <2>2, <3>1, <3>2, <3>3, <4>1 DEF Inserts
      <4>3. Runs(v)'
        BY <2>2, <3>1, <4>1 DEF Runs
      <4> QED  BY <4>2, <4>3
    <3>6. ASSUME NEW q \in Reaction
          PROVE  Placed(q)'
      <4>1. CASE q = s
        BY <2>1, <4>1 DEF Placed
      <4>2. CASE q # s
        <5>1. Placed(q) /\ \A v \in Worker : inserting[v] = q => inserting'[v] = q
          BY <2>1, <2>3, SchedulerAssumption DEF IInv, Unique
        <5> QED  BY <2>2, <3>1, <4>2, <5>1 DEF Placed
      <4> QED  BY <4>1, <4>2
    <3> QED  BY <3>4, <3>5, <3>6 DEF Unique
  <2>11. Queues'
    BY <2>1, <2>3, QueuesFrame DEF IInv
  <2> QED  BY <2>5, <2>6, <2>7, <2>8, <2>9, <2>10, <2>11 DEF IInv
<1> QED  BY <1>2, <1>3

LEMMA EventsPoppedStep ==
  ASSUME IInv, NEW w \in Worker, EventsPopped(w)
  PROVE  IInv'
<1> USE DEF EventsPopped, Goto, queues, pool
<1>1. \A v \in Worker : pc'[v] = IF v = w THEN "distribute" ELSE pc[v]
  BY DEF IInv, TypeOK
<1>2. next_reaction_level = 0
  BY DEF IInv, Executing, Alone
<1>3. TypeOK'
  BY DEF IInv, TypeOK, Places
<1>4. Accounting' /\ AdvancesAlone'
  BY <1>1, PoolFrame DEF IInv, Alone, Waiting
<1>5. Stopping'
  BY <1>1 DEF IInv, Stopping
<1>6. Executing'
  BY <1>1 DEF IInv, Executing, Alone
<1>7. \A v \in Worker : Local(v)'
  BY <1>1 DEF IInv, Local
<1>8. Unique'
  BY UniqueFrame DEF IInv
<1>9. Queues'
  BY <1>1, <1>2, QueuesFrame DEF IInv
<1> QED  BY <1>3, <1>4, <1>5, <1>6, <1>7, <1>8, <1>9 DEF IInv

-----------------------------------------------------------------------------
(* Going idle and being woken                                              *)

LEMMA GoIdleStep ==
  ASSUME IInv, NEW w \in Worker, GoIdle(w)
  PROVE  IInv'
<1> USE DEF GoIdle, Goto, queues, pool
<1> DEFINE last == number_of_idle_workers + 1 = Cardinality(Worker)
<1>1. \A v \in Worker : pc'[v] = IF v = w THEN IF last THEN "advance" ELSE "acquire" ELSE pc[v]
  BY DEF IInv, TypeOK
<1>2. ~should_stop
  BY DEF IInv, Stopping
<1>3. w \notin Idle /\ IsFiniteSet(Idle) /\ \A v \in Worker : ~Alone(v)
  BY Idlers DEF IInv, Idle, Waiting, Alone, AdvancesAlone
<1>4. Idle' = Idle \cup {w}
  BY <1>1, <1>3 DEF Idle, Waiting, Alone
<1>5. Cardinality(Idle') = Cardinality(Idle) + 1 /\ Cardinality(Idle) \in Nat
  BY <1>3, <1>4, Idlers, FS_AddElement DEF IInv
<1>6. /\ Cardinality(Idle') <= Cardinality(Worker)
      /\ Cardinality(Idle') = Cardinality(Worker) => Idle' = Worker
  <2>1. Idle' \in SUBSET Worker
    BY <1>4 DEF Idle
  <2> QED  BY <2>1, Workers, FS_Subset
<1>7. /\ number_of_idle_workers \in Nat /\ semaphore \in Nat
      /\ number_of_idle_workers + semaphore = Cardinality(Idle)
  BY <1>2, Workers DEF IInv, TypeOK, Accounting
<1>8. TypeOK'
  BY <1>5, <1>6, <1>7, Workers DEF IInv, TypeOK, Places
<1>9. Accounting'
  BY <1>5, <1>7 DEF Accounting
<1>10. AdvancesAlone'
  <2>1. CASE last
    <3>1. semaphore = 0 /\ Idle' = Worker
      BY <1>5, <1>6, <1>7, <2>1, Workers
    <3>2. \A v \in Worker \ {w} : Waiting(v)
      BY <1>3, <1>4, <3>1 DEF Idle
    <3> QED  BY <1>1, <1>3, <2>1, <3>1, <3>2 DEF AdvancesAlone, Alone, Waiting
  <2>2. CASE ~last
    BY <1>1, <1>3, <2>2 DEF AdvancesAlone, Alone
  <2> QED  BY <2>1, <2>2
<1>11. Stopping'
  BY <1>1, <1>2 DEF IInv, Stopping
<1>12. Executing'
  <2>1. next_reaction_level > 0
    BY <1>2 DEF IInv, Executing, Alone
  <2> QED  BY <1>1, <1>3, <2>1 DEF IInv, Executing, Alone
<1>13. \A v \in Worker : Local(v)'
  BY <1>1 DEF IInv, Local
<1>14. Unique'
  BY UniqueFrame DEF IInv
<1>15. Queues'
  BY <1>1, QueuesFrame DEF IInv
<1> QED  BY <1>8, <1>9, <1>10, <1>11, <1>12, <1>13, <1>14, <1>15 DEF IInv

LEMMA AcquireStep ==
  ASSUME IInv, NEW w \in Worker, Acquire(w)
  PROVE  IInv'
<1> USE DEF Acquire, Goto, queues, pool
<1>1. \A v \in Worker : pc'[v] = IF v = w THEN "check" ELSE pc[v]
  BY DEF IInv, TypeOK
<1>2. \A v \in Worker : ~Alone(v)
  BY DEF IInv, TypeOK, AdvancesAlone
<1>3. w \in Idle /\ IsFiniteSet(Idle)
  BY Idlers DEF IInv, Idle, Waiting
<1>4. Idle' = Idle \ {w}
  BY <1>1, <1>2 DEF Idle, Waiting, Alone
<1>5. Cardinality(Idle') = Cardinality(Idle) - 1 /\ Cardinality(Idle) \in Nat
  BY <1>3, <1>4, Idlers, FS_RemoveElement DEF IInv
<1>6. TypeOK'
  BY Workers DEF IInv, TypeOK, Places
<1>7. Accounting'
  BY <1>5, Workers DEF IInv, TypeOK, Accounting
<1>8. AdvancesAlone'
  BY <1>1, <1>2 DEF AdvancesAlone, Alone
<1>9. Stopping'
  BY <1>1 DEF IInv, Stopping
<1>10. Executing'
  BY <1>1, <1>2 DEF IInv, TypeOK, Executing, Alone
<1>11. \A v \in Worker : Local(v)'
  BY <1>1 DEF IInv, Local
<1>12. Unique'
  BY UniqueFrame DEF IInv
<1>13. Queues'
  BY <1>1, QueuesFrame DEF IInv
<1> QED  BY <1>6, <1>7, <1>8, <1>9, <1>10, <1>11, <1>12, <1>13 DEF IInv

-----------------------------------------------------------------------------
(* Taking a reaction                                                       *)

LEMMA CurrentLevel ==
  ASSUME IInv, next_reaction_level > 0
  PROVE  next_reaction_level - 1 \in Levels /\ Current(next_reaction_level - 1)
<1>1. next_reaction_level - 1 \in Levels
  BY SchedulerAssumption DEF IInv, TypeOK, Levels
<1> QED  BY <1>1 DEF IInv, Queues

LEMMA PopStep ==
  ASSUME IInv, NEW w \in Worker, Pop(w)
  PROVE  IInv'
<1> USE DEF Pop, PopIndex, Goto, pool
<1> DEFINE l == next_reaction_level - 1
           n == indexes[l]
<1>1. next_reaction_level > 0 /\ ~should_stop
  BY DEF IInv, Executing, Stopping, Alone
<1>2. /\ level[w] = l /\ l \in Levels /\ Current(l)
      /\ n \in Int /\ Capacity(l) \in Nat /\ Slots(l) = 0 .. Capacity(l) - 1
  BY <1>1, CurrentLevel, Capacities DEF IInv, TypeOK, Local
<1>3. \A v \in Worker : /\ pc'[v] = IF v = w THEN IF n - 1 >= 0 THEN "take" ELSE "idle" ELSE pc[v]
                        /\ index'[v] = IF v = w THEN n - 1 ELSE index[v]
  BY <1>2 DEF IInv, TypeOK
<1>4. \A m \in Levels : indexes'[m] = IF m = l THEN n - 1 ELSE indexes[m]
  BY <1>2 DEF IInv, TypeOK
<1>5. TypeOK'
  BY <1>2 DEF IInv, TypeOK, Places
<1>6. Accounting' /\ AdvancesAlone'
  BY <1>3, PoolFrame DEF IInv, Alone, Waiting
<1>7. Stopping'
  BY <1>1, <1>3 DEF IInv, Stopping
<1>8. Executing'
  BY <1>1, <1>3 DEF IInv, Executing, Alone
<1>9. \A v \in Worker : Local(v)'
  BY <1>3 DEF IInv, Local
<1>10. Unique'
  BY UniqueFrame DEF IInv
<1>11. Queues'
  <2>1. \A v \in Worker : pc[v] # "distribute" /\ pc[v] # "advance"
    BY DEF IInv, AdvancesAlone, Alone, Waiting
  <2>2. ASSUME NEW m \in Levels, m >= next_reaction_level, Ahead(m)
        PROVE  Ahead(m)'
    <3>1. m # l
      BY <2>2, LevelsOfReactions, SchedulerAssumption DEF IInv, TypeOK
    <3>2. indexes'[m] = indexes[m]
      BY <1>4, <3>1
    <3>3. \A i \in Slots(m), v \in Worker : Reserved(v, m, i)' <=> Reserved(v, m, i)
      BY <1>3 DEF Reserved
    <3> QED  BY <2>2, <3>2, <3>3 DEF Ahead
  <2>3. ASSUME NEW m \in Levels, m < l, Past(m)
        PROVE  Past(m)'
    BY <1>2, <1>4, <2>3, LevelsOfReactions DEF Past
  <2>4. Current(l)'
    <3>1. indexes'[l] = n - 1
      BY <1>2, <1>4
    <3>2. \A v \in Worker : pc[v] = "take" => index[v] \in Slots(l) /\ n <= index[v]
      BY <1>2 DEF Current
    <3>3. \A v \in Worker : pc'[v] = "take" =>
            /\ index'[v] \in Slots(l) /\ n - 1 <= index'[v]
            /\ \A u \in Worker : pc'[u] = "take" /\ index'[u] = index'[v] => u = v
      <4>1. ASSUME NEW v \in Worker, pc'[v] = "take"
            PROVE  index'[v] \in Slots(l) /\ n - 1 <= index'[v]
        BY <1>2, <1>3, <3>2, <4>1 DEF Current
      <4>2. ASSUME NEW v \in Worker, NEW u \in Worker, pc'[v] = "take", pc'[u] = "take",
                   index'[u] = index'[v]
            PROVE  u = v
        BY <1>2, <1>3, <3>2, <4>2 DEF Current, Claimed
      <4> QED  BY <4>1, <4>2
    <3>4. ASSUME NEW i \in Slots(l)
          PROVE  (i < n - 1 \/ \E v \in Worker : pc'[v] = "take" /\ index'[v] = i)
                   <=> (i < n \/ \E v \in Worker : pc[v] = "take" /\ index[v] = i)
      <4>1. i \in Int /\ 0 <= i
        BY <1>2
      <4>2. CASE i = n - 1
        BY <1>2, <1>3, <4>1, <4>2
      <4>3. CASE i # n - 1
        <5>1. \A v \in Worker : (pc'[v] = "take" /\ index'[v] = i) <=> (pc[v] = "take" /\ index[v] = i)
          BY <1>3, <4>3
        <5> QED  BY <1>2, <4>1, <4>3, <5>1
      <4> QED  BY <4>2, <4>3
    <3>5. \A i \in Slots(l) : triggered_reactions'[l][i] # NULL
                                <=> i < n - 1 \/ \E v \in Worker : Claimed(v, i)'
      BY <1>2, <3>4 DEF Current, Claimed
    <3>6. \A v \in Worker : pc'[v] \in {"idle", "advance"} => n - 1 < 0
      BY <1>2, <1>3 DEF Current
    <3> QED
      <4>1. \A v \in Worker : pc'[v] # "distribute"
        BY <1>3, <2>1
      <4> QED  BY <1>2, <3>1, <3>3, <3>5, <3>6, <4>1 DEF Current, Claimed
  <2> QED  BY <1>1, <1>2, <1>3, <2>2, <2>3, <2>4 DEF IInv, Queues
<1> QED  BY <1>5, <1>6, <1>7, <1>8, <1>9, <1>10, <1>11 DEF IInv

LEMMA TakeStep ==
  ASSUME IInv, NEW w \in Worker, Take(w)
  PROVE  IInv'
<1> USE DEF Take, EntryTaken, StatusTaken, Goto, pool
<1> DEFINE l == next_reaction_level - 1
           k == index[w]
           r == triggered_reactions[l][k]
<1>1. next_reaction_level > 0 /\ ~should_stop
  BY DEF IInv, Executing, Stopping, Alone
<1>2. l \in Levels /\ Current(l) /\ k \in Slots(l)
  BY <1>1, CurrentLevel DEF Current
<1>3. r \in Reaction /\ r # NULL /\ Entered(l, k) /\ Level[r] = l /\ status[r] = "queued"
  <2>1. r # NULL
    BY <1>2 DEF Current, Claimed
  <2> QED  BY <1>2, <2>1 DEF IInv, TypeOK, Unique, Entered
<1>4. \A v \in Worker : /\ pc'[v] = IF v = w THEN "run" ELSE pc[v]
                        /\ reaction'[v] = IF v = w THEN r ELSE reaction[v]
  BY <1>3 DEF IInv, TypeOK
<1>5. \A m \in Levels : \A i \in Slots(m) :
        triggered_reactions'[m][i] = IF m = l /\ i = k THEN NULL ELSE triggered_reactions[m][i]
  BY <1>2 DEF IInv, TypeOK, Queues
<1>6. TypeOK'
  <2>1. \A m \in Levels : triggered_reactions'[m] \in [Slots(m) -> Reaction \cup {NULL}]
    BY <1>2 DEF IInv, TypeOK, Queues
  <2> QED  BY <1>3, <2>1 DEF IInv, TypeOK, Places
<1>7. reaction[w] = NULL
  BY DEF IInv, Local
<1>8. Accounting' /\ AdvancesAlone'
  BY <1>3, <1>4, PoolFrame DEF IInv, Alone, Waiting
<1>9. Stopping'
  BY <1>1, <1>4 DEF IInv, Stopping
<1>10. Executing'
  BY <1>1, <1>3, <1>4 DEF IInv, Executing, Alone
<1>11. \A v \in Worker : Local(v)'
  BY <1>3, <1>4 DEF IInv, Local
<1>12. Unique'
  <2>1. ASSUME NEW q \in Reaction
        PROVE  Stored(q)' <=> Stored(q) /\ q # r
    <3>1. \A i \in Slots(l) : triggered_reactions[l][i] = r => i = k
      BY <1>2, <1>3 DEF Entered
    <3>2. Level[q] \in Levels
      BY LevelsOfReactions
    <3> QED  BY <1>2, <1>3, <1>5, <3>1, <3>2, SchedulerAssumption DEF Stored
  <2>2. Stored(r)
    BY <1>2, <1>3 DEF Stored
  <2>3. ASSUME NEW m \in Levels, NEW i \in Slots(m)
        PROVE  Entered(m, i)'
    <3>1. Entered(m, i)
      BY DEF IInv, Unique
    <3> QED  BY <1>5, <3>1 DEF Entered
  <2>4. ASSUME NEW v \in Worker
        PROVE  Inserts(v)' /\ Runs(v)'
    <3>1. Inserts(v) /\ Runs(v) /\ inserting[v] \in Reaction \cup {NULL}
          /\ reaction[v] \in Reaction \cup {NULL}
      BY DEF IInv, TypeOK, Unique
    <3>2. Inserts(v)'
      BY <1>4, <2>1, <2>2, <3>1 DEF Inserts
    <3>3. \A u \in Worker : reaction[u] # r
      BY <1>3, <2>2 DEF IInv, Unique, Runs
    <3>4. Runs(v)'
      BY <1>3, <1>4, <2>1, <3>1, <3>3 DEF Runs
    <3> QED  BY <3>2, <3>4
  <2>5. ASSUME NEW q \in Reaction
        PROVE  Placed(q)'
    <3>1. Placed(q)
      BY DEF IInv, Unique
    <3>2. \A v \in Worker : reaction[v] = q => reaction'[v] = q
      BY <1>4, <1>7, SchedulerAssumption
    <3>3. reaction'[w] = r
      BY <1>4
    <3> QED  BY <2>1, <3>1, <3>2, <3>3 DEF Placed
  <2> QED  BY <2>3, <2>4, <2>5 DEF Unique
<1>13. Queues'
  <2>1. ASSUME NEW m \in Levels, m # l
        PROVE  \A i \in Slots(m) : triggered_reactions'[m][i] = triggered_reactions[m][i]
    BY <1>5, <2>1
  <2>2. ASSUME NEW m \in Levels, m >= next_reaction_level, Ahead(m)
        PROVE  Ahead(m)'
    <3>1. m # l
      BY <2>2, LevelsOfReactions, SchedulerAssumption DEF IInv, TypeOK
    <3>2. \A i \in Slots(m), v \in Worker : Reserved(v, m, i)' <=> Reserved(v, m, i)
      BY <1>4 DEF Reserved
    <3> QED  BY <2>1, <2>2, <3>1, <3>2 DEF Ahead
  <2>3. ASSUME NEW m \in Levels, m < l, Past(m)
        PROVE  Past(m)'
    BY <2>1, <2>3 DEF Past
  <2>4. Current(l)'
    <3>1. \A v \in Worker : pc'[v] = "take" <=> pc[v] = "take" /\ v # w
      BY <1>4
    <3>2. \A i \in Slots(l) : triggered_reactions'[l][i] # NULL
                                <=> i < indexes[l] \/ \E v \in Worker : Claimed(v, i)'
      <4>1. ASSUME NEW i \in Slots(l), i # k
            PROVE  (\E v \in Worker : Claimed(v, i)') <=> \E v \in Worker : Claimed(v, i)
        BY <3>1, <4>1 DEF Claimed
      <4>2. ~(k < indexes[l]) /\ ~\E v \in Worker : Claimed(v, k)'
        <5>1. k \in Int /\ indexes[l] \in Int /\ indexes[l] <= k
          BY <1>2, Capacities DEF IInv, TypeOK, Current
        <5> QED  BY <1>2, <3>1, <5>1 DEF Current, Claimed
      <4> QED  BY <1>2, <1>5, <4>1, <4>2 DEF Current
    <3>3. \A v \in Worker : pc'[v] = "take" =>
            /\ index[v] \in Slots(l) /\ indexes[l] <= index[v]
            /\ \A u \in Worker : Claimed(u, index[v])' => u = v
      BY <1>2, <3>1 DEF Current, Claimed
    <3> QED  BY <1>2, <1>4, <3>2, <3>3 DEF Current, Claimed
  <2> QED  BY <1>2, <1>4, <2>2, <2>3, <2>4 DEF IInv, Queues
<1> QED  BY <1>6, <1>8, <1>9, <1>10, <1>11, <1>12, <1>13 DEF IInv

-----------------------------------------------------------------------------
(* Inserting a reaction                                                    *)

\* Whoever reserves an entry finds one: the entries in use hold reactions of
\* the level, all different, and none of them is the one to be inserted.
LEMMA Room ==
  ASSUME IInv, NEW w \in Worker, pc[w] = "reserve"
  PROVE  /\ Level[inserting[w]] \in Levels /\ Level[inserting[w]] >= next_reaction_level
         /\ indexes[Level[inserting[w]]] \in Slots(Level[inserting[w]])
<1> DEFINE s == inserting[w]
           l == Level[s]
           n == indexes[l]
           R == {r \in Reaction : Level[r] = l}
           S == R \ {s}
           Owner(i) == CHOOSE r \in Reaction :
                         \/ triggered_reactions[l][i] = r
                         \/ \E v \in Worker : Reserved(v, l, i) /\ inserting[v] = r
           f == [i \in 0 .. n - 1 |-> Owner(i)]
<1>1. /\ s \in Reaction /\ s # NULL /\ l \in Levels /\ l >= next_reaction_level /\ Ahead(l)
      /\ Inserts(w) /\ ~Stored(s)
  <2>1. s \in Reaction /\ s # NULL
    BY DEF IInv, TypeOK, Local
  <2>2. l \in Levels /\ l >= next_reaction_level
    BY <2>1, LevelsOfReactions DEF IInv, Local
  <2>3. Ahead(l)
    BY <2>2 DEF IInv, Queues
  <2> QED  BY <2>1, <2>2, <2>3 DEF IInv, Unique, Inserts
<1>2. /\ n \in Nat /\ n <= Capacity(l) /\ Capacity(l) \in Nat /\ 0 < Capacity(l)
      /\ Slots(l) = 0 .. Capacity(l) - 1
  BY <1>1, Capacities DEF Ahead, IInv, TypeOK
<1>3. IsFiniteSet(R) /\ Cardinality(R) = Capacity(l)
  BY SchedulerAssumption, FS_Subset DEF Capacity
<1>4. IsFiniteSet(S) /\ Cardinality(S) = Capacity(l) - 1
  BY <1>1, <1>3, FS_RemoveElement
<1>5. ASSUME NEW i \in 0 .. n - 1
      PROVE  /\ i \in Slots(l) /\ Owner(i) \in S
             /\ \/ triggered_reactions[l][i] = Owner(i)
                \/ \E v \in Worker : Reserved(v, l, i) /\ inserting[v] = Owner(i)
  <2>1. i \in Slots(l) /\ i < n
    BY <1>2
  <2>2. triggered_reactions[l][i] # NULL \/ \E v \in Worker : Reserved(v, l, i)
    BY <1>1, <2>1 DEF Ahead
  <2>3. \E r \in Reaction : \/ triggered_reactions[l][i] = r
                            \/ \E v \in Worker : Reserved(v, l, i) /\ inserting[v] = r
    <3>1. CASE triggered_reactions[l][i] # NULL
      BY <1>1, <2>1, <3>1 DEF IInv, TypeOK
    <3>2. ASSUME NEW v \in Worker, Reserved(v, l, i)
          PROVE  inserting[v] \in Reaction
      BY <3>2 DEF IInv, TypeOK, Local, Reserved
    <3> QED  BY <2>2, <3>1, <3>2
  <2>4. /\ Owner(i) \in Reaction
        /\ \/ triggered_reactions[l][i] = Owner(i)
           \/ \E v \in Worker : Reserved(v, l, i) /\ inserting[v] = Owner(i)
    BY <2>3
  <2>5. Level[Owner(i)] = l /\ Owner(i) # s
    <3>1. CASE triggered_reactions[l][i] = Owner(i)
      <4>1. Entered(l, i)
        BY <1>1, <2>1 DEF IInv, Unique
      <4>2. Owner(i) # NULL
        BY <2>4, SchedulerAssumption
      <4> HIDE DEF Owner
      <4> QED  BY <1>1, <2>1, <3>1, <4>1, <4>2 DEF Entered, Stored
    <3>2. ASSUME NEW v \in Worker, Reserved(v, l, i), inserting[v] = Owner(i)
          PROVE  Level[Owner(i)] = l /\ Owner(i) # s
      <4>1. v # w
        BY <3>2 DEF Reserved
      <4>2. inserting[v] # s
        BY <1>1, <4>1 DEF Inserts
      <4> HIDE DEF Owner
      <4> QED  BY <3>2, <4>2 DEF Reserved
    <3> HIDE DEF Owner
    <3> QED  BY <2>4, <3>1, <3>2
  <2> HIDE DEF Owner
  <2> QED  BY <2>1, <2>4, <2>5
<1>6. ASSUME NEW i \in 0 .. n - 1, NEW j \in 0 .. n - 1, Owner(i) = Owner(j)
      PROVE  i = j
  <2> DEFINE r == Owner(i)
  <2>1. /\ i \in Slots(l) /\ r \in S
        /\ \/ triggered_reactions[l][i] = r
           \/ \E v \in Worker : Reserved(v, l, i) /\ inserting[v] = r
    BY <1>5
  <2>2. /\ j \in Slots(l)
        /\ \/ triggered_reactions[l][j] = r
           \/ \E v \in Worker : Reserved(v, l, j) /\ inserting[v] = r
    <3> HIDE DEF Owner
    <3> QED  BY <1>5, <1>6
  <2> HIDE DEF Owner, r
  <2>3. r # NULL /\ Level[r] = l
    BY <2>1, SchedulerAssumption
  <2>4. CASE triggered_reactions[l][i] = r /\ triggered_reactions[l][j] = r
    BY <1>1, <2>1, <2>2, <2>3, <2>4 DEF IInv, Unique, Entered
  <2>5. ASSUME Stored(r), NEW v \in Worker, inserting[v] = r
        PROVE  FALSE
    BY <2>3, <2>5 DEF IInv, Unique, Inserts
  <2>6. CASE triggered_reactions[l][i] = r \/ triggered_reactions[l][j] = r
    BY <2>1, <2>2, <2>3, <2>4, <2>5, <2>6 DEF Stored
  <2>7. ASSUME NEW v \in Worker, Reserved(v, l, i), inserting[v] = r,
               NEW u \in Worker, Reserved(u, l, j), inserting[u] = r
        PROVE  i = j
    <3>1. u = v
      BY <2>3, <2>7 DEF IInv, Unique, Inserts
    <3> QED  BY <2>7, <3>1 DEF Reserved
  <2> QED  BY <2>1, <2>2, <2>6, <2>7
<1>7. f \in Injection(0 .. n - 1, S)
  <2> HIDE DEF Owner, S
  <2> QED  BY <1>5, <1>6 DEF Injection, IsInjective
<1>8. IsFiniteSet(0 .. n - 1) /\ Cardinality(0 .. n - 1) = n
  <2> HIDE DEF n
  <2>1. 0 \in Int /\ n - 1 \in Int
    BY <1>2
  <2>2. /\ IsFiniteSet(0 .. n - 1)
        /\ Cardinality(0 .. n - 1) = IF 0 > n - 1 THEN 0 ELSE (n - 1) - 0 + 1
    BY <2>1, FS_Interval
  <2> QED  BY <1>2, <2>2
<1>9. n <= Capacity(l) - 1
  <2>1. Cardinality(0 .. n - 1) <= Cardinality(S)
    <3> HIDE DEF f, S
    <3> QED  BY <1>4, <1>7, <1>8, FS_Injection
  <2> QED  BY <1>4, <1>8, <2>1
<1> QED  BY <1>1, <1>2, <1>9

LEMMA ReserveStep ==
  ASSUME IInv, NEW w \in Worker, Reserve(w)
  PROVE  IInv'
<1> USE DEF Reserve, Goto, pool
<1> DEFINE s == inserting[w]
           l == Level[s]
           n == indexes[l]
<1>1. /\ l \in Levels /\ l >= next_reaction_level /\ n \in Slots(l) /\ Ahead(l)
      /\ n \in Int /\ Capacity(l) \in Nat /\ Slots(l) = 0 .. Capacity(l) - 1
      /\ s # NULL
  <2>1. l \in Levels /\ l >= next_reaction_level /\ n \in Slots(l)
    BY Room
  <2> QED  BY <2>1, Capacities DEF IInv, TypeOK, Queues, Local
<1>2. \A v \in Worker : /\ pc'[v] = IF v = w THEN "insert" ELSE pc[v]
                        /\ index'[v] = IF v = w THEN n ELSE index[v]
  BY <1>1 DEF IInv, TypeOK
<1>3. \A m \in Levels : indexes'[m] = IF m = l THEN n + 1 ELSE indexes[m]
  BY <1>1 DEF IInv, TypeOK
<1>4. TypeOK'
  BY <1>1 DEF IInv, TypeOK, Places
<1>5. Accounting' /\ AdvancesAlone'
  BY <1>2, PoolFrame DEF IInv, Alone, Waiting
<1>6. Stopping'
  BY <1>2 DEF IInv, Stopping
<1>7. Executing'
  BY <1>2 DEF IInv, Executing, Alone
<1>8. \A v \in Worker : Local(v)'
  BY <1>2 DEF IInv, Local
<1>9. Unique'
  BY UniqueFrame DEF IInv
<1>10. Queues'
  <2>1. \A v \in Worker : pc'[v] = "insert" => index'[v] \in Slots(Level[inserting[v]])
    BY <1>1, <1>2 DEF IInv, Queues
  <2>2. ASSUME NEW m \in Levels, m # l
        PROVE  /\ indexes'[m] = indexes[m]
               /\ \A i \in Slots(m), v \in Worker : Reserved(v, m, i)' <=> Reserved(v, m, i)
    BY <1>2, <1>3, <2>2 DEF Reserved
  <2>3. ASSUME NEW m \in Levels, m >= next_reaction_level, m # l
        PROVE  Ahead(m)'
    <3>1. Ahead(m)
      BY <2>3 DEF IInv, Queues
    <3> QED  BY <2>2, <2>3, <3>1 DEF Ahead
  <2>4. ASSUME NEW m \in Levels, m = next_reaction_level - 1
        PROVE  Current(m)'
    <3>1. Current(m) /\ m # l
      BY <1>1, <2>4, LevelsOfReactions, SchedulerAssumption DEF IInv, TypeOK, Queues
    <3>2. \A v \in Worker : /\ pc'[v] = "take" <=> pc[v] = "take"
                            /\ pc[v] = "take" => index'[v] = index[v]
                            /\ pc'[v] \in {"idle", "advance", "distribute"} => pc'[v] = pc[v]
      BY <1>2
    <3>3. \A i \in Slots(m), v \in Worker : Claimed(v, i)' <=> Claimed(v, i)
      BY <3>2 DEF Claimed
    <3> QED  BY <2>2, <3>1, <3>2, <3>3 DEF Current, Claimed
  <2>5. ASSUME NEW m \in Levels, m < next_reaction_level - 1
        PROVE  Past(m)'
    <3>1. Past(m) /\ m # l
      BY <1>1, <2>5, LevelsOfReactions, SchedulerAssumption DEF IInv, TypeOK, Queues
    <3> QED  BY <2>2, <3>1 DEF Past
  <2>6. Ahead(l)'
    <3>1. \A i \in Slots(l), v \in Worker :
            Reserved(v, l, i)' <=> Reserved(v, l, i) \/ (v = w /\ i = n)
      BY <1>2 DEF Reserved
    <3>2. triggered_reactions[l][n] = NULL /\ \A v \in Worker : ~Reserved(v, l, n)
      BY <1>1 DEF Ahead
    <3>3. indexes'[l] = n + 1 /\ 0 <= n + 1 /\ n + 1 <= Capacity(l)
      BY <1>1, <1>3
    <3>4. ASSUME NEW i \in Slots(l)
          PROVE  (triggered_reactions[l][i] # NULL \/ \E v \in Worker : Reserved(v, l, i)') <=> i < n + 1
      <4>1. (triggered_reactions[l][i] # NULL \/ \E v \in Worker : Reserved(v, l, i)) <=> i < n
        BY <1>1 DEF Ahead
      <4>2. i < n + 1 <=> i < n \/ i = n
        BY <1>1
      <4> QED  BY <3>1, <4>1, <4>2
    <3>5. ASSUME NEW i \in Slots(l), NEW v \in Worker, Reserved(v, l, i)'
          PROVE  /\ triggered_reactions[l][i] = NULL
                 /\ \A u \in Worker : Reserved(u, l, i)' => u = v
      BY <1>1, <3>1, <3>2, <3>5 DEF Ahead
    <3> QED  BY <3>3, <3>4, <3>5 DEF Ahead
  <2> QED  BY <2>1, <2>3, <2>4, <2>5, <2>6 DEF IInv, Queues
<1> QED  BY <1>4, <1>5, <1>6, <1>7, <1>8, <1>9, <1>10 DEF IInv

LEMMA InsertStep ==
  ASSUME IInv, NEW w \in Worker, Insert(w)
  PROVE  IInv'
<1> USE DEF Insert, Goto, pool
<1> DEFINE s == inserting[w]
           l == Level[s]
           k == index[w]
<1>1. /\ s \in Reaction /\ s # NULL /\ l \in Levels /\ l >= next_reaction_level
      /\ k \in Slots(l) /\ Ahead(l) /\ Inserts(w)
  <2>1. s \in Reaction /\ s # NULL
    BY DEF IInv, TypeOK, Local
  <2>2. l \in Levels /\ l >= next_reaction_level
    BY <2>1, LevelsOfReactions DEF IInv, Local
  <2> QED  BY <2>1, <2>2 DEF IInv, Queues, Unique
<1>2. \A v \in Worker : /\ pc'[v] = IF v = w THEN "trigger" ELSE pc[v]
                        /\ inserting'[v] = IF v = w THEN NULL ELSE inserting[v]
  BY DEF IInv, TypeOK
<1>3. \A m \in Levels : \A i \in Slots(m) :
        triggered_reactions'[m][i] = IF m = l /\ i = k THEN s ELSE triggered_reactions[m][i]
  BY <1>1 DEF IInv, TypeOK, Queues
<1>4. TypeOK'
  <2>1. \A m \in Levels : triggered_reactions'[m] \in [Slots(m) -> Reaction \cup {NULL}]
    BY <1>1 DEF IInv, TypeOK, Queues
  <2> QED  BY <1>1, <2>1 DEF IInv, TypeOK, Places
<1>5. Accounting' /\ AdvancesAlone'
  BY <1>2, PoolFrame DEF IInv, Alone, Waiting
<1>6. Stopping'
  BY <1>2 DEF IInv, Stopping
<1>7. Executing'
  BY <1>2 DEF IInv, Executing, Alone
<1>8. \A v \in Worker : Local(v)'
  BY <1>1, <1>2 DEF IInv, Local
<1>9. triggered_reactions[l][k] = NULL
      /\ \A v \in Worker : Reserved(v, l, k) => v = w
  BY <1>1 DEF Ahead, Reserved
<1>10. Unique'
  <2>1. ASSUME NEW q \in Reaction
        PROVE  Stored(q)' <=> Stored(q) \/ q = s
    <3>1. Level[q] \in Levels
      BY LevelsOfReactions
    <3> QED  BY <1>1, <1>3, <1>9, <3>1, SchedulerAssumption DEF Stored
  <2>2. status[s] = "queued" /\ ~Stored(s) /\ (\A v \in Worker : reaction[v] # s)
        /\ \A v \in Worker : inserting[v] = s => v = w
    BY <1>1 DEF Inserts
  <2>3. ASSUME NEW m \in Levels, NEW i \in Slots(m)
        PROVE  Entered(m, i)'
    <3>1. Entered(m, i)
      BY DEF IInv, Unique
    <3>2. CASE m = l /\ i = k
      <4>1. \A j \in Slots(l) : triggered_reactions'[l][j] = s => j = k
        BY <1>1, <1>3, <2>2 DEF Stored
      <4> QED  BY <1>1, <1>3, <2>2, <3>2, <4>1 DEF Entered
    <3>3. CASE ~(m = l /\ i = k)
      <4>1. triggered_reactions'[m][i] = triggered_reactions[m][i]
        BY <1>3, <3>3
      <4>2. triggered_reactions[m][i] # NULL => triggered_reactions[m][i] # s
        BY <2>2, <3>1 DEF Entered, Stored
      <4> QED  BY <1>3, <3>1, <4>1, <4>2 DEF Entered
    <3> QED  BY <3>2, <3>3
  <2>4. ASSUME NEW v \in Worker
        PROVE  Inserts(v)' /\ Runs(v)'
    <3>1. Inserts(v) /\ Runs(v) /\ inserting[v] \in Reaction \cup {NULL}
          /\ reaction[v] \in Reaction \cup {NULL}
      BY DEF IInv, TypeOK, Unique
    <3>2. Inserts(v)'
      BY <1>1, <1>2, <2>1, <2>2, <3>1 DEF Inserts
    <3>3. Runs(v)'
      BY <2>1, <2>2, <3>1 DEF Runs
    <3> QED  BY <3>2, <3>3
  <2>5. ASSUME NEW q \in Reaction
        PROVE  Placed(q)'
    <3>1. Placed(q)
      BY DEF IInv, Unique
    <3>2. \A v \in Worker : inserting[v] = q => inserting'[v] = q \/ q = s
      BY <1>2
    <3> QED  BY <2>1, <3>1, <3>2 DEF Placed
  <2> QED  BY <2>3, <2>4, <2>5 DEF Unique
<1>11. Queues'
  <2>1. \A v \in Worker : pc'[v] = "insert" => index[v] \in Slots(Level[inserting'[v]])
    BY <1>2 DEF IInv, Queues
  <2>2. \A m \in Levels : \A i \in Slots(m), v \in Worker :
          Reserved(v, m, i)' <=> Reserved(v, m, i) /\ v # w
    BY <1>2 DEF Reserved
  <2>3. \A m \in Levels : \A i \in Slots(m) : Reserved(w, m, i) <=> m = l /\ i = k
    BY DEF Reserved
  <2>4. ASSUME NEW m \in Levels, m >= next_reaction_level
        PROVE  Ahead(m)'
    <3>1. Ahead(m)
      BY <2>4 DEF IInv, Queues
    <3>2. ASSUME NEW i \in Slots(m)
          PROVE  (triggered_reactions'[m][i] # NULL \/ \E v \in Worker : Reserved(v, m, i)') <=> i < indexes[m]
      <4>1. (triggered_reactions[m][i] # NULL \/ \E v \in Worker : Reserved(v, m, i)) <=> i < indexes[m]
        BY <3>1 DEF Ahead
      <4>2. CASE m = l /\ i = k
        BY <1>1, <1>3, <2>3, <4>1, <4>2
      <4>3. CASE ~(m = l /\ i = k)
        BY <1>3, <2>2, <2>3, <4>1, <4>3
      <4> QED  BY <4>2, <4>3
    <3>3. ASSUME NEW i \in Slots(m), NEW v \in Worker, Reserved(v, m, i)'
          PROVE  /\ triggered_reactions'[m][i] = NULL
                 /\ \A u \in Worker : Reserved(u, m, i)' => u = v
      <4>1. Reserved(v, m, i) /\ v # w
        BY <2>2, <3>3
      <4>2. ~(m = l /\ i = k)
        BY <1>9, <4>1
      <4> QED  BY <1>3, <2>2, <3>1, <4>1, <4>2 DEF Ahead
    <3> QED  BY <3>1, <3>2, <3>3 DEF Ahead
  <2>5. ASSUME NEW m \in Levels, m < next_reaction_level
        PROVE  \A i \in Slots(m) : triggered_reactions'[m][i] = triggered_reactions[m][i]
    <3>1. m # l
      BY <1>1, <2>5, LevelsOfReactions, SchedulerAssumption DEF IInv, TypeOK
    <3> QED  BY <1>3, <3>1
  <2>6. ASSUME NEW m \in Levels, m = next_reaction_level - 1
        PROVE  Current(m)'
    <3>1. Current(m) /\ m < next_reaction_level
      BY <2>6, LevelsOfReactions, SchedulerAssumption DEF IInv, TypeOK, Queues
    <3>2. \A v \in Worker : /\ pc'[v] = "take" <=> pc[v] = "take"
                            /\ pc'[v] \in {"idle", "advance", "distribute"} => pc'[v] = pc[v]
      BY <1>2
    <3>3. \A i \in Slots(m), v \in Worker : Claimed(v, i)' <=> Claimed(v, i)
      BY <3>2 DEF Claimed
    <3> QED  BY <2>5, <3>1, <3>2, <3>3 DEF Current, Claimed
  <2>7. ASSUME NEW m \in Levels, m < next_reaction_level - 1
        PROVE  Past(m)'
    <3>1. Past(m) /\ m < next_reaction_level
      BY <2>7, LevelsOfReactions, SchedulerAssumption DEF IInv, TypeOK, Queues
    <3> QED  BY <2>5, <3>1 DEF Past
  <2>8. DOMAIN triggered_reactions' = Levels
    BY DEF IInv, Queues
  <2> QED  BY <2>1, <2>4, <2>6, <2>7, <2>8 DEF Queues
<1> QED  BY <1>4, <1>5, <1>6, <1>7, <1>8, <1>10, <1>11 DEF IInv

-----------------------------------------------------------------------------
(* The last worker alone                                                   *)

LEMMA AllAsleep ==
  ASSUME IInv, NEW w \in Worker, pc[w] \in {"advance", "distribute"}
  PROVE  /\ semaphore = 0 /\ ~should_stop /\ number_of_idle_workers = Cardinality(Worker)
         /\ \A v \in Worker : v # w => pc[v] = "acquire"
         /\ \A v \in Worker : reaction[v] = NULL /\ inserting[v] = NULL /\ outputs[v] = {}
<1>1. Alone(w)
  BY DEF Alone
<1>2. semaphore = 0 /\ \A v \in Worker : v # w => pc[v] = "acquire"
  BY <1>1 DEF IInv, AdvancesAlone, Waiting
<1>3. ~should_stop
  BY DEF IInv, Stopping
<1>4. number_of_idle_workers = Cardinality(Worker)
  <2>1. Idle = Worker
    BY <1>1, Idlers DEF IInv
  <2> QED  BY <1>2, <1>3, <2>1, Workers DEF IInv, TypeOK, Accounting
<1>5. \A v \in Worker : reaction[v] = NULL /\ inserting[v] = NULL /\ outputs[v] = {}
  BY <1>2 DEF IInv, Local
<1> QED  BY <1>2, <1>3, <1>4, <1>5

\* What is not ready is empty.
LEMMA NotReady ==
  ASSUME IInv, NEW w \in Worker, pc[w] = "distribute", NEW m \in Levels, m \notin ReadyLevels
  PROVE  Past(m)
<1>1. /\ m \in Int /\ next_reaction_level \in Int /\ indexes[m] \in Int /\ m <= MaxLevel
      /\ MaxLevel \in Int
  BY SchedulerAssumption DEF IInv, TypeOK, Levels
<1>2. \A v \in Worker : pc[v] # "take" /\ pc[v] # "insert"
  BY AllAsleep
<1>3. CASE m >= next_reaction_level
  <2>1. Ahead(m) /\ 0 \in Slots(m) /\ Slots(m) \subseteq Nat
    BY <1>3, Capacities DEF IInv, Queues
  <2>2. triggered_reactions[m][0] = NULL
    BY <1>1, <1>3 DEF ReadyLevels
  <2>3. indexes[m] = 0
    BY <1>1, <1>2, <2>1, <2>2 DEF Ahead, Reserved
  <2> QED  BY <1>2, <2>1, <2>3 DEF Ahead, Past
<1>4. CASE m = next_reaction_level - 1
  <2>1. Current(m) /\ indexes[m] = 0 /\ Slots(m) \subseteq Nat
    BY <1>4, Capacities DEF IInv, Queues, Current
  <2> QED  BY <1>2, <2>1 DEF Current, Claimed, Past
<1>5. CASE m < next_reaction_level - 1
  BY <1>5 DEF IInv, Queues
<1> QED  BY <1>1, <1>3, <1>4, <1>5

LEMMA ResetIndexStep ==
  ASSUME IInv, NEW w \in Worker, ResetIndex(w)
  PROVE  IInv'
<1> USE DEF ResetIndex, CompletedIndex, Goto, pool
<1> DEFINE l == next_reaction_level - 1
<1>1. /\ semaphore = 0 /\ ~should_stop
      /\ \A v \in Worker : v # w => pc[v] = "acquire"
  BY AllAsleep
<1>2. next_reaction_level > 0 /\ l \in Levels /\ Current(l)
  <2>1. next_reaction_level > 0
    BY <1>1 DEF IInv, Executing
  <2> QED  BY <2>1, CurrentLevel
<1>3. \A v \in Worker : pc'[v] = IF v = w THEN "distribute" ELSE pc[v]
  BY DEF IInv, TypeOK
<1>4. \A m \in Levels : indexes'[m] = IF m = l THEN 0 ELSE indexes[m]
  BY <1>2 DEF IInv, TypeOK
<1>5. TypeOK'
  BY <1>2 DEF IInv, TypeOK, Places
<1>6. Accounting' /\ AdvancesAlone'
  BY <1>3, PoolFrame DEF IInv, Alone, Waiting
<1>7. Stopping'
  BY <1>1, <1>3 DEF IInv, Stopping
<1>8. Executing'
  BY <1>1, <1>3 DEF Executing, Alone
<1>9. \A v \in Worker : Local(v)'
  BY <1>3 DEF IInv, Local
<1>10. Unique'
  BY UniqueFrame DEF IInv
<1>11. Queues'
  <2>1. \A v \in Worker : pc'[v] # "insert" /\ pc[v] # "insert" /\ pc'[v] # "take" /\ pc[v] # "take"
    BY <1>1, <1>3
  <2>2. ASSUME NEW m \in Levels, m # l
        PROVE  indexes'[m] = indexes[m] /\ (Ahead(m) => Ahead(m)') /\ (Past(m) => Past(m)')
    <3>1. indexes'[m] = indexes[m]
      BY <1>4, <2>2
    <3> QED  BY <2>1, <3>1 DEF Ahead, Past, Reserved
  <2>3. Current(l)'
    <3>1. Slots(l) \subseteq Nat /\ 0 <= Capacity(l)
      BY <1>2, Capacities
    <3>2. indexes[l] \in Int /\ indexes[l] < 0 /\ indexes'[l] = 0
      BY <1>2, <1>4 DEF IInv, TypeOK, Current
    <3>3. \A i \in Slots(l) : triggered_reactions[l][i] = NULL
      BY <1>2, <2>1, <3>1, <3>2 DEF Current, Claimed
    <3> QED  BY <1>1, <1>3, <2>1, <3>1, <3>2, <3>3 DEF Current, Claimed
  <2>4. \A m \in Levels : /\ m >= next_reaction_level => m # l
                          /\ m < l => m # l
    BY LevelsOfReactions, SchedulerAssumption DEF IInv, TypeOK
  <2> QED  BY <2>1, <2>2, <2>3, <2>4 DEF IInv, Queues
<1> QED  BY <1>5, <1>6, <1>7, <1>8, <1>9, <1>10, <1>11 DEF IInv

LEMMA DistributeStep ==
  ASSUME IInv, NEW w \in Worker, Distribute(w)
  PROVE  IInv'
<1> USE DEF Distribute, Tokens, Goto, queues
<1> DEFINE N == Cardinality(Worker)
<1>1. /\ semaphore = 0 /\ ~should_stop /\ number_of_idle_workers = N /\ N \in Nat /\ N > 0
      /\ \A v \in Worker : v # w => pc[v] = "acquire"
      /\ \A v \in Worker : reaction[v] = NULL /\ inserting[v] = NULL /\ outputs[v] = {}
  BY AllAsleep, Workers
<1>2. PICK l \in ReadyLevels :
        /\ \A m \in ReadyLevels : l <= m
        /\ next_reaction_level' = l + 1
        /\ LET awaken == IF indexes[l] < number_of_idle_workers
                         THEN indexes[l] ELSE number_of_idle_workers IN
           /\ number_of_idle_workers' = number_of_idle_workers - awaken
           /\ semaphore' = semaphore + Tokens(awaken)
  OBVIOUS
<1> DEFINE awaken == IF indexes[l] < N THEN indexes[l] ELSE N
<1>3. /\ l \in Levels /\ l \in Int /\ 0 <= l /\ l <= MaxLevel /\ l >= next_reaction_level
      /\ triggered_reactions[l][0] # NULL /\ next_reaction_level \in Int
  BY SchedulerAssumption DEF IInv, TypeOK, ReadyLevels, Levels
<1>4. Ahead(l) /\ 0 \in Slots(l) /\ Capacity(l) \in Nat
  BY <1>3, Capacities DEF IInv, Queues
<1>5. indexes[l] \in Int /\ indexes[l] > 0
  BY <1>3, <1>4 DEF IInv, TypeOK, Ahead
<1>6. /\ awaken \in 1 .. N
      /\ number_of_idle_workers' = N - awaken /\ semaphore' = awaken - 1
  BY <1>1, <1>2, <1>5
<1>7. \A v \in Worker : pc'[v] = IF v = w THEN "check" ELSE "acquire"
  BY <1>1 DEF IInv, TypeOK
<1>8. \A v \in Worker : ~Alone(v)'
  BY <1>7 DEF Alone
<1>9. TypeOK'
  <2>1. /\ next_reaction_level' \in 0 .. MaxLevel + 1
        /\ number_of_idle_workers' \in 0 .. N /\ semaphore' \in 0 .. N
    BY <1>1, <1>2, <1>3, <1>6, SchedulerAssumption
  <2> QED  BY <2>1 DEF IInv, TypeOK, Places
<1>10. Accounting'
  <2>1. Idle' = Worker \ {w}
    BY <1>7, <1>8 DEF Idle, Waiting
  <2>2. Cardinality(Idle') = N - 1
    BY <2>1, Workers, FS_RemoveElement
  <2> QED  BY <1>1, <1>6, <2>2 DEF Accounting
<1>11. AdvancesAlone'
  BY <1>8 DEF AdvancesAlone
<1>12. Stopping'
  BY <1>1, <1>7 DEF Stopping
<1>13. Executing'
  BY <1>2, <1>3, <1>8 DEF Executing
<1>14. \A v \in Worker : Local(v)'
  BY <1>1, <1>7 DEF Local
<1>15. Unique'
  BY UniqueFrame DEF IInv
<1>16. Queues'
  <2>1. \A v \in Worker : pc[v] # "insert" /\ pc'[v] # "insert" /\ pc'[v] # "take"
    BY <1>1, <1>7
  <2>2. ASSUME NEW m \in Levels, m >= l
        PROVE  Ahead(m)
    BY <1>3, <2>2, LevelsOfReactions DEF IInv, Queues
  <2>3. ASSUME NEW m \in Levels, m >= l + 1
        PROVE  Ahead(m)'
    <3>1. Ahead(m)
      BY <1>3, <2>2, <2>3, LevelsOfReactions
    <3> QED  BY <2>1, <3>1 DEF Ahead, Reserved
  <2>4. Current(l)'
    BY <1>4, <1>7, <2>1 DEF Ahead, Reserved, Current, Claimed
  <2>5. ASSUME NEW m \in Levels, m < l
        PROVE  Past(m)'
    <3>1. m \notin ReadyLevels
      BY <1>2, <1>3, <2>5, LevelsOfReactions
    <3>2. Past(m)
      BY <3>1, NotReady
    <3> QED  BY <3>2 DEF Past
  <2> QED  BY <1>2, <1>3, <2>1, <2>3, <2>4, <2>5 DEF IInv, Queues
<1> QED  BY <1>9, <1>10, <1>11, <1>12, <1>13, <1>14, <1>15, <1>16 DEF IInv

LEMMA AllAhead ==
  ASSUME IInv, NEW w \in Worker, pc[w] = "distribute", ReadyLevels = {},
         UNCHANGED queues, next_reaction_level' = 0,
         \A v \in Worker : pc'[v] # "insert"
  PROVE  Queues'
<1> USE DEF queues
<1>1. ASSUME NEW m \in Levels
      PROVE  Ahead(m)'
  <2>1. Past(m) /\ Slots(m) \subseteq Nat /\ 0 <= Capacity(m)
    BY NotReady, Capacities
  <2> QED  BY <2>1 DEF Past, Ahead, Reserved
<1> QED  BY <1>1 DEF IInv, Queues, Levels

LEMMA NextTagStep ==
  ASSUME IInv, NEW w \in Worker, NextTag(w)
  PROVE  IInv'
<1> USE DEF NextTag, Goto, queues
<1>1. /\ semaphore = 0 /\ ~should_stop
      /\ \A v \in Worker : v # w => pc[v] = "acquire"
      /\ \A v \in Worker : reaction[v] = NULL /\ inserting[v] = NULL /\ outputs[v] = {}
  BY AllAsleep
<1>2. PICK T \in SUBSET Reaction : outputs' = [outputs EXCEPT ![w] = T]
  OBVIOUS
<1>3. \A v \in Worker : /\ pc'[v] = IF v = w THEN "trigger" ELSE "acquire"
                        /\ v # w => outputs'[v] = {}
  BY <1>1, <1>2 DEF IInv, TypeOK
<1>4. TypeOK'
  BY <1>2, SchedulerAssumption DEF IInv, TypeOK, Places
<1>5. Accounting' /\ AdvancesAlone'
  BY <1>1, <1>3, PoolFrame DEF IInv, Alone, Waiting
<1>6. Stopping'
  BY <1>1, <1>3 DEF Stopping
<1>7. Executing'
  BY <1>1, <1>3 DEF Executing, Alone
<1>8. \A v \in Worker : Local(v)'
  BY <1>1, <1>3 DEF Local
<1>9. Unique'
  BY UniqueFrame DEF IInv
<1>10. Queues'
  BY <1>3, AllAhead
<1> QED  BY <1>4, <1>5, <1>6, <1>7, <1>8, <1>9, <1>10 DEF IInv

LEMMA SignalStopStep ==
  ASSUME IInv, NEW w \in Worker, SignalStop(w)
  PROVE  IInv'
<1> USE DEF SignalStop, StopTokens, Goto, queues
<1>1. /\ semaphore = 0 /\ Cardinality(Worker) \in Nat /\ Cardinality(Worker) > 0
      /\ \A v \in Worker : v # w => pc[v] = "acquire"
      /\ \A v \in Worker : reaction[v] = NULL /\ inserting[v] = NULL /\ outputs[v] = {}
  BY AllAsleep, Workers
<1>2. \A v \in Worker : pc'[v] = IF v = w THEN "check" ELSE "acquire"
  BY <1>1 DEF IInv, TypeOK
<1>3. TypeOK'
  BY <1>1, SchedulerAssumption DEF IInv, TypeOK, Places
<1>4. Accounting' /\ Stopping'
  BY <1>2 DEF Accounting, Stopping
<1>5. AdvancesAlone' /\ Executing'
  BY <1>2 DEF AdvancesAlone, Executing, Alone
<1>6. \A v \in Worker : Local(v)'
  BY <1>1, <1>2 DEF Local
<1>7. Unique'
  BY UniqueFrame DEF IInv
<1>8. Queues'
  BY <1>2, AllAhead
<1> QED  BY <1>3, <1>4, <1>5, <1>6, <1>7, <1>8 DEF IInv

-----------------------------------------------------------------------------
(* The first tag                                                           *)

\* All the reactions that are queued at a level are in its array.
LEMMA EntriesComplete ==
  ASSUME NEW T \in SUBSET Reaction, NEW l \in Levels, NEW f \in Entries(l, T),
         NEW r \in T, Level[r] = l
  PROVE  \E i \in Slots(l) : f[i] = r
<1> DEFINE here == {q \in T : Level[q] = l}
           n == Cardinality(here)
           g == [i \in 0 .. n - 1 |-> f[i]]
<1>1. /\ f \in [Slots(l) -> here \cup {NULL}]
      /\ \A i \in Slots(l) : f[i] # NULL <=> i < n
      /\ \A i, j \in Slots(l) : f[i] = f[j] /\ i # j => f[i] = NULL
  BY DEF Entries
<1>2. IsFiniteSet(here) /\ n \in Nat /\ n <= Capacity(l)
  <2>1. here \subseteq {q \in Reaction : Level[q] = l} /\ IsFiniteSet({q \in Reaction : Level[q] = l})
    BY SchedulerAssumption, FS_Subset
  <2> QED  BY <2>1, FS_Subset, FS_CardinalityType DEF Capacity
<1> HIDE DEF n, here
<1>3. \A i \in 0 .. n - 1 : i \in Slots(l) /\ i < n
  BY <1>2, Capacities
<1>4. g \in Injection(0 .. n - 1, here)
  BY <1>1, <1>3 DEF Injection, IsInjective
<1>5. Cardinality(0 .. n - 1) = n
  <2>1. 0 \in Int /\ n - 1 \in Int
    BY <1>2
  <2>2. Cardinality(0 .. n - 1) = IF 0 > n - 1 THEN 0 ELSE (n - 1) - 0 + 1
    BY <2>1, FS_Interval
  <2> QED  BY <1>2, <2>2
<1>6. Cardinality(here) = n
  BY DEF n
<1>7. g \in Surjection(0 .. n - 1, here)
  <2> HIDE DEF g
  <2> QED  BY <1>2, <1>4, <1>5, <1>6, FS_Injection
<1>8. r \in here
  BY DEF here
<1>9. \E i \in 0 .. n - 1 : g[i] = r
  BY <1>7, <1>8 DEF Surjection
<1> QED  BY <1>3, <1>9

LEMMA InitialState ==
  ASSUME Init
  PROVE  IInv
<1>1. PICK T \in SUBSET Reaction :
        /\ status = [r \in Reaction |-> IF r \in T THEN "queued" ELSE "inactive"]
        /\ indexes = [l \in Levels |-> Cardinality({r \in T : Level[r] = l})]
        /\ triggered_reactions \in
             {q \in [Levels -> UNION {Entries(l, T) : l \in Levels}] :
                \A l \in Levels : q[l] \in Entries(l, T)}
  BY DEF Init
<1>2. /\ next_reaction_level = 1 /\ number_of_idle_workers = 0 /\ semaphore = 0
      /\ should_stop = FALSE /\ tags = 1
      /\ pc = [w \in Worker |-> "check"]
      /\ level = [w \in Worker |-> 0] /\ index = [w \in Worker |-> 0]
      /\ reaction = [w \in Worker |-> NULL]
      /\ outputs = [w \in Worker |-> {}]
      /\ inserting = [w \in Worker |-> NULL]
  BY DEF Init
<1>3. ASSUME NEW l \in Levels
      PROVE  /\ indexes[l] \in Nat /\ indexes[l] <= Capacity(l)
             /\ triggered_reactions[l] \in [Slots(l) -> Reaction \cup {NULL}]
             /\ \A i \in Slots(l) : triggered_reactions[l][i] # NULL <=> i < indexes[l]
             /\ \A i \in Slots(l) : triggered_reactions[l][i] # NULL =>
                  triggered_reactions[l][i] \in T /\ Level[triggered_reactions[l][i]] = l
             /\ \A i, j \in Slots(l) :
                  triggered_reactions[l][i] = triggered_reactions[l][j] /\ i # j =>
                  triggered_reactions[l][i] = NULL
  <2> DEFINE here == {q \in T : Level[q] = l}
  <2>1. triggered_reactions[l] \in Entries(l, T) /\ indexes[l] = Cardinality(here)
    BY <1>1
  <2>2. IsFiniteSet(here) /\ Cardinality(here) \in Nat /\ Cardinality(here) <= Capacity(l)
    <3>1. here \subseteq {q \in Reaction : Level[q] = l} /\ IsFiniteSet({q \in Reaction : Level[q] = l})
      BY SchedulerAssumption, FS_Subset
    <3> QED  BY <3>1, FS_Subset, FS_CardinalityType DEF Capacity
  <2>3. /\ triggered_reactions[l] \in [Slots(l) -> here \cup {NULL}]
        /\ \A i \in Slots(l) :
             /\ triggered_reactions[l][i] # NULL <=> i < Cardinality(here)
             /\ \A j \in Slots(l) : triggered_reactions[l][i] = triggered_reactions[l][j] /\ i # j =>
                  triggered_reactions[l][i] = NULL
    BY <2>1 DEF Entries
  <2>4. \A i \in Slots(l) : triggered_reactions[l][i] \in here \cup {NULL}
    BY <2>3
  <2>5. triggered_reactions[l] \in [Slots(l) -> Reaction \cup {NULL}]
    BY <2>3
  <2> QED  BY <2>1, <2>2, <2>3, <2>4, <2>5
<1>4. 0 \in Levels /\ Cardinality(Worker) \in Nat /\ DOMAIN triggered_reactions = Levels
  BY <1>1, SchedulerAssumption, Workers DEF Levels
<1>5. TypeOK
  <2>1. indexes \in [Levels -> Int]
    <3>1. indexes = [l \in Levels |-> Cardinality({r \in T : Level[r] = l})]
      BY <1>1
    <3>2. \A l \in Levels : indexes[l] \in Int
      BY <1>3
    <3> QED  BY <3>1, <3>2
  <2>2. \A l \in Levels : triggered_reactions[l] \in [Slots(l) -> Reaction \cup {NULL}]
    BY <1>3
  <2>3. status \in [Reaction -> {"inactive", "queued"}]
    BY <1>1
  <2>4. /\ next_reaction_level \in 0 .. MaxLevel + 1
        /\ number_of_idle_workers \in 0 .. Cardinality(Worker)
        /\ semaphore \in 0 .. Cardinality(Worker)
        /\ tags \in 0 .. MaxTags + 1
    <3>1. MaxLevel \in Nat /\ MaxTags \in Nat /\ Cardinality(Worker) \in Nat
      BY SchedulerAssumption, <1>4
    <3>2. /\ next_reaction_level = 1 /\ number_of_idle_workers = 0 /\ semaphore = 0
          /\ tags = 1
      BY <1>2
    <3> QED  BY <3>1, <3>2
  <2>5. /\ pc \in [Worker -> Places]
        /\ level \in [Worker -> Levels] /\ index \in [Worker -> Int]
        /\ reaction \in [Worker -> Reaction \cup {NULL}]
        /\ outputs \in [Worker -> SUBSET Reaction]
        /\ inserting \in [Worker -> Reaction \cup {NULL}]
    BY <1>2, <1>4 DEF Places
  <2>6. should_stop \in BOOLEAN
    BY <1>2
  <2> QED  BY <2>1, <2>2, <2>3, <2>4, <2>5, <2>6 DEF TypeOK
<1>6. Accounting
  <2>1. Idle = {}
    BY <1>2 DEF Idle, Waiting, Alone
  <2> QED  BY <1>2, <2>1, FS_EmptySet DEF Accounting
<1>7. AdvancesAlone /\ Stopping /\ Executing
  BY <1>2 DEF AdvancesAlone, Stopping, Executing, Alone
<1>8. \A w \in Worker : Local(w)
  BY <1>2 DEF Local
<1>9. Unique
  <2>1. ASSUME NEW l \in Levels, NEW i \in Slots(l)
        PROVE  Entered(l, i)
    BY <1>1, <1>3 DEF Entered
  <2>2. \A w \in Worker : Inserts(w) /\ Runs(w)
    BY <1>2 DEF Inserts, Runs
  <2>3. ASSUME NEW r \in Reaction
        PROVE  Placed(r)
    <3>1. status[r] = "queued" => r \in T
      BY <1>1
    <3>2. Level[r] \in Levels /\ triggered_reactions[Level[r]] \in Entries(Level[r], T)
      BY <1>1, LevelsOfReactions
    <3> QED  BY <3>1, <3>2, EntriesComplete DEF Placed, Stored
  <2> QED  BY <2>1, <2>2, <2>3 DEF Unique
<1>10. Queues
  <2>1. ASSUME NEW l \in Levels
        PROVE  Ahead(l) /\ Current(l)
    BY <1>2, <1>3 DEF Ahead, Current, Reserved, Claimed
  <2>2. \A l \in Levels : ~(l < next_reaction_level - 1)
    BY <1>2 DEF Levels
  <2> QED  BY <1>2, <1>4, <2>1, <2>2 DEF Queues
<1> QED  BY <1>5, <1>6, <1>7, <1>8, <1>9, <1>10 DEF IInv

-----------------------------------------------------------------------------
(* Theorems                                                                *)

LEMMA Stutter ==
  ASSUME IInv, UNCHANGED vars
  PROVE  IInv'
<1> USE DEF vars, queues, pool
<1>1. TypeOK' /\ Accounting' /\ AdvancesAlone' /\ Stopping' /\ Executing'
  <2>1. Idle' = Idle
    BY DEF Idle, Waiting, Alone
  <2> QED  BY <2>1 DEF IInv, TypeOK, Accounting, AdvancesAlone, Stopping, Executing, Alone, Waiting
<1>2. \A w \in Worker : Local(w)'
  BY DEF IInv, Local
<1>3. Unique'
  BY UniqueFrame DEF IInv
<1>4. Queues'
  BY QueuesFrame DEF IInv
<1> QED  BY <1>1, <1>2, <1>3, <1>4 DEF IInv

\* No step of any worker takes the scheduler out of the invariant.
THEOREM Invariance == Spec => []IInv
<1>1. Init => IInv
  BY InitialState
<1>2. IInv /\ [Next]_vars => IInv'
  <2> SUFFICES ASSUME IInv, [Next]_vars PROVE IInv'
    OBVIOUS
  <2>1. ASSUME NEW w \in Worker, Step(w)
        PROVE  IInv'
    <3>1. CASE CheckStop(w) \/ ReadLevel(w) \/ Pop(w) \/ Take(w)
      BY <3>1, CheckStopStep, ReadLevelStep, PopStep, TakeStep
    <3>2. CASE Invoke(w) \/ (\E s \in Reaction : Trigger(w, s)) \/ Reserve(w) \/ Insert(w)
      BY <3>2, InvokeStep, TriggerStep, ReserveStep, InsertStep
    <3>3. CASE Done(w) \/ GoIdle(w) \/ Acquire(w)
      BY <3>3, DoneStep, GoIdleStep, AcquireStep
    <3>4. CASE ResetIndex(w) \/ Distribute(w) \/ NextTag(w) \/ EventsPopped(w) \/ SignalStop(w)
      BY <3>4, ResetIndexStep, DistributeStep, NextTagStep, EventsPoppedStep, SignalStopStep
    <3> QED  BY <2>1, <3>1, <3>2, <3>3, <3>4 DEF Step
  <2>2. CASE UNCHANGED vars
    BY <2>2, Stutter
  <2> QED  BY <2>1, <2>2 DEF Next, AllExited
<1> QED  BY <1>1, <1>2, PTL DEF Spec

\* Every variable of the scheduler stays in its type; neither counter of the
\* workers exceeds their number.
THEOREM TypeCorrect == Spec => []TypeOK
<1>1. IInv => TypeOK
  BY DEF IInv
<1> QED  BY <1>1, Invariance, PTL

\* No worker takes or inserts a reaction outside the array of its level:
\* scheduler_NP.c checks no index, it counts on a queued reaction being stored
\* once.
THEOREM StaysInBounds == Spec => []InBounds
<1>1. IInv => InBounds
  <2> SUFFICES ASSUME IInv, NEW w \in Worker
               PROVE  /\ pc[w] = "take" => index[w] \in Slots(next_reaction_level - 1)
                      /\ pc[w] = "insert" => index[w] \in Slots(Level[inserting[w]])
    BY DEF InBounds
  <2>1. ASSUME pc[w] = "take"
        PROVE  index[w] \in Slots(next_reaction_level - 1)
    <3>1. next_reaction_level > 0
      BY <2>1 DEF IInv, Executing, Stopping, Alone
    <3> QED  BY <2>1, <3>1, CurrentLevel DEF Current
  <2> QED  BY <2>1 DEF IInv, Queues
<1> QED  BY <1>1, Invariance, PTL

\* The worker that advances the tag or the level does so alone: the last one to
\* become idle needs no lock.
THEOREM LeaderAlone == Spec => []AdvancesAlone
<1>1. IInv => AdvancesAlone
  BY DEF IInv
<1> QED  BY <1>1, Invariance, PTL

\* The level a worker has read is still the one being executed when it uses it.
THEOREM LevelStable == Spec => []ReadsCurrentLevel
<1>1. IInv => ReadsCurrentLevel
  BY DEF IInv, Local, ReadsCurrentLevel
<1> QED  BY <1>1, Invariance, PTL

\* A reaction that completes is always found queued, so that
\* lf_sched_done_with_reaction() never ends the program.
THEOREM StatusAsExpected == Spec => []NeverFatal
<1>1. IInv => NeverFatal
  BY DEF IInv, Local, NeverFatal
<1> QED  BY <1>1, Invariance, PTL

-----------------------------------------------------------------------------
(* The workers keep the promise of ReactionOrder                           *)

\* While some worker is neither waiting nor alone, no event is being popped.
LEMMA NobodyPops ==
  ASSUME IInv, NEW w \in Worker, ~Waiting(w), ~Alone(w)
  PROVE  Popped = {}
<1>1. ASSUME NEW v \in Worker, reaction[v] = NULL
      PROVE  outputs[v] = {}
  <2>1. ~Alone(v)
    BY DEF IInv, AdvancesAlone
  <2> QED  BY <1>1, <2>1 DEF IInv, Local, Alone
<1> QED  BY <1>1 DEF Popped

LEMMA MappedStutter ==
  ASSUME UNCHANGED <<status, reaction, outputs>>
  PROVE  UNCHANGED Order!vars
BY DEF Order!vars, Running, Popped

LEMMA TakeStarts ==
  ASSUME IInv, NEW w \in Worker, Take(w)
  PROVE  Order!Next
<1> USE DEF Take, EntryTaken, StatusTaken
<1> DEFINE l == next_reaction_level - 1
           k == index[w]
           queued == {q \in Reaction : status[q] = "queued"}
<1>1. l \in Levels /\ Current(l) /\ k \in Slots(l) /\ next_reaction_level \in Int
  <2>1. next_reaction_level > 0
    BY DEF IInv, Executing, Stopping, Alone
  <2> QED  BY <2>1, CurrentLevel, SchedulerAssumption DEF Current, IInv, TypeOK
<1>2. PICK r \in Reaction : /\ r = triggered_reactions[l][k]
                           /\ Level[r] = l /\ status[r] = "queued" /\ Stored(r)
  <2>1. triggered_reactions[l][k] # NULL
    BY <1>1 DEF Current, Claimed
  <2>2. Entered(l, k) /\ triggered_reactions[l][k] \in Reaction \cup {NULL}
    BY <1>1 DEF IInv, TypeOK, Unique
  <2> QED  BY <1>1, <2>1, <2>2 DEF Entered, Stored
<1>3. /\ \A v \in Worker : reaction'[v] = IF v = w THEN r ELSE reaction[v]
      /\ reaction[w] = NULL /\ outputs[w] = {} /\ r # NULL
  BY <1>2, SchedulerAssumption DEF IInv, TypeOK, Local
<1>4. r \notin Running
  BY <1>2, <1>3 DEF IInv, Unique, Runs, Running
<1>5. Popped = {} /\ Popped' = {}
  <2>1. Popped = {}
    BY NobodyPops DEF Waiting, Alone
  <2>2. ASSUME NEW v \in Worker, reaction'[v] = NULL
        PROVE  outputs[v] = {}
    <3>1. reaction[v] = NULL
      BY <1>3, <2>2
    <3> QED  BY <2>1, <3>1 DEF Popped
  <2> QED  BY <2>1, <2>2 DEF Popped
<1>6. Running' = Running \cup {r}
  BY <1>2, <1>3 DEF Running
<1>7. ASSUME NEW q \in Reaction, status[q] = "queued" \/ q \in Running
      PROVE  Level[r] <= Level[q]
  <2>1. Level[q] \in Levels /\ Level[q] \in Int
    BY LevelsOfReactions
  <2>2. CASE Stored(q)
    <3>1. ~Past(Level[q])
      BY <2>1, <2>2, SchedulerAssumption DEF Stored, Past
    <3>2. ~(Level[q] < l)
      BY <2>1, <3>1 DEF IInv, Queues
    <3> QED  BY <1>1, <1>2, <2>1, <3>2
  <2>3. ASSUME NEW v \in Worker, inserting[v] = q
        PROVE  Level[r] <= Level[q]
    <3>1. Level[q] >= next_reaction_level
      BY <2>3, SchedulerAssumption DEF IInv, Local
    <3> QED  BY <1>1, <1>2, <2>1, <3>1
  <2>4. ASSUME NEW v \in Worker, reaction[v] = q
        PROVE  Level[r] <= Level[q]
    <3>1. Level[q] = l
      BY <2>4, SchedulerAssumption DEF IInv, Local
    <3> QED  BY <1>1, <1>2, <3>1
  <2>5. Stored(q) \/ \E v \in Worker : inserting[v] = q \/ reaction[v] = q
    BY <1>7 DEF IInv, Unique, Placed, Running
  <2> QED  BY <2>2, <2>3, <2>4, <2>5
<1>8. Running \subseteq Reaction
  BY DEF IInv, TypeOK, Running
<1>9. (queued \ Running') \cup Popped' = ((queued \ Running) \cup Popped) \ {r}
  BY <1>5, <1>6
<1>10. Order!Start(r)
  <2>1. r \in (queued \ Running) \cup Popped
    BY <1>2, <1>4
  <2>2. \A q \in ((queued \ Running) \cup Popped) \cup Running : Level[r] <= Level[q]
    BY <1>5, <1>7, <1>8
  <2> QED  BY <1>6, <1>9, <2>1, <2>2 DEF Order!Start
<1> QED  BY <1>10 DEF Order!Next

LEMMA TriggerTriggers ==
  ASSUME IInv, NEW w \in Worker, NEW s \in Reaction, Trigger(w, s)
  PROVE  Order!Next \/ UNCHANGED Order!vars
<1> USE DEF Trigger, CanQueue
<1> DEFINE queued == {q \in Reaction : status[q] = "queued"}
<1>1. /\ \A v \in Worker : outputs'[v] = IF v = w THEN outputs[w] \ {s} ELSE outputs[v]
      /\ Running' = Running
  BY DEF IInv, TypeOK, Running
<1>2. /\ status[s] = "inactive" => queued' = queued \cup {s} /\ s \notin queued /\ s \notin Running
      /\ status[s] # "inactive" => queued' = queued /\ s \in queued
  <2>1. status[s] = "inactive" => queued' = queued \cup {s} /\ s \notin queued
    BY DEF IInv, TypeOK
  <2>2. status[s] = "inactive" => s \notin Running
    BY SchedulerAssumption DEF IInv, Unique, Runs, Running
  <2>3. status[s] # "inactive" => queued' = queued /\ s \in queued
    BY DEF IInv, TypeOK
  <2> QED  BY <2>1, <2>2, <2>3
<1>3. CASE reaction[w] = NULL
  <2>1. \A v \in Worker : v # w => pc[v] = "acquire"
    BY <1>3 DEF IInv, AdvancesAlone, Alone, Waiting
  <2>2. \A v \in Worker : reaction[v] = NULL /\ (v # w => outputs[v] = {})
    BY <1>3, <2>1 DEF IInv, Local
  <2>3. Running = {} /\ Popped = outputs[w] /\ Popped' = outputs[w] \ {s}
    BY <1>1, <2>2 DEF Running, Popped
  <2>4. (queued' \ Running') \cup Popped' = (queued \ Running) \cup Popped
    BY <1>1, <1>2, <2>3
  <2> QED  BY <1>1, <2>4 DEF Order!vars
<1>4. CASE reaction[w] # NULL
  <2>1. Popped = {} /\ Popped' = {}
    <3>1. Popped = {}
      BY <1>4, NobodyPops DEF Waiting, Alone
    <3> QED  BY <1>1, <1>4, <3>1 DEF Popped
  <2>2. reaction[w] \in Reaction /\ reaction[w] \in Running /\ s \in Triggers[reaction[w]]
    BY <1>4 DEF IInv, TypeOK, Local, Running
  <2>3. CASE status[s] = "inactive"
    <3>1. (queued' \ Running') \cup Popped' = ((queued \ Running) \cup Popped) \cup {s}
      BY <1>1, <1>2, <2>1, <2>3
    <3>2. s \notin ((queued \ Running) \cup Popped) \cup Running
      BY <1>2, <2>1, <2>3
    <3>3. Order!Trigger(reaction[w], s)
      BY <1>1, <2>2, <3>1, <3>2 DEF Order!Trigger
    <3> QED  BY <2>2, <3>3 DEF Order!Next
  <2>4. CASE status[s] # "inactive"
    <3>1. (queued' \ Running') \cup Popped' = (queued \ Running) \cup Popped
      BY <1>1, <1>2, <2>1, <2>4
    <3> QED  BY <1>1, <3>1 DEF Order!vars
  <2> QED  BY <2>3, <2>4
<1> QED  BY <1>3, <1>4

LEMMA DoneCompletes ==
  ASSUME IInv, NEW w \in Worker, Done(w)
  PROVE  Order!Next
<1> USE DEF Done
<1> DEFINE r == reaction[w]
           queued == {q \in Reaction : status[q] = "queued"}
<1>1. r \in Reaction /\ r # NULL /\ r \in Running /\ \A v \in Worker : reaction[v] = r => v = w
  BY DEF IInv, TypeOK, Unique, Runs, Running
<1>2. \A v \in Worker : reaction'[v] = IF v = w THEN NULL ELSE reaction[v]
  BY DEF IInv, TypeOK
<1>3. Running' = Running \ {r}
  BY <1>1, <1>2 DEF Running
<1>4. queued' = queued \ {r}
  BY <1>1 DEF IInv, TypeOK
<1>5. Popped' = Popped
  <2>1. outputs' = outputs /\ outputs[w] = {}
    OBVIOUS
  <2> QED  BY <1>1, <1>2, <2>1 DEF Popped
<1>6. (queued' \ Running') \cup Popped' = (queued \ Running) \cup Popped
  BY <1>1, <1>3, <1>4, <1>5
<1>7. Order!Complete(r)
  BY <1>1, <1>3, <1>6 DEF Order!Complete
<1> QED  BY <1>1, <1>7 DEF Order!Next

LEMMA NextTagBegins ==
  ASSUME IInv, NEW w \in Worker, NextTag(w)
  PROVE  Order!Next
<1> USE DEF NextTag, queues
<1> DEFINE queued == {q \in Reaction : status[q] = "queued"}
<1>1. \A v \in Worker : reaction[v] = NULL /\ inserting[v] = NULL /\ outputs[v] = {}
  BY AllAsleep
<1>2. Running = {} /\ Popped = {}
  BY <1>1 DEF Running, Popped
<1>3. queued = {}
  <2> SUFFICES ASSUME NEW q \in Reaction, status[q] = "queued" PROVE FALSE
    OBVIOUS
  <2>1. Level[q] \in Levels
    BY LevelsOfReactions
  <2>2. Past(Level[q])
    BY <2>1, NotReady
  <2>3. ~Stored(q)
    BY <2>2, SchedulerAssumption DEF Stored, Past
  <2> QED  BY <1>1, <2>3, SchedulerAssumption DEF IInv, Unique, Placed
<1>4. PICK T \in SUBSET Reaction : outputs' = [outputs EXCEPT ![w] = T]
  OBVIOUS
<1>5. \A v \in Worker : outputs'[v] = IF v = w THEN T ELSE {}
  BY <1>1, <1>4 DEF IInv, TypeOK
<1>6. Running' = {} /\ Popped' = T /\ queued' = queued
  BY <1>1, <1>2, <1>5 DEF Running, Popped
<1>7. Order!NewTag(T)
  BY <1>2, <1>3, <1>6 DEF Order!NewTag
<1> QED  BY <1>7 DEF Order!Next

\* Every step of a worker is a step of ReactionOrder or leaves what a program
\* can see of the scheduler alone: reactions run once, in the order of their
\* levels, and a tag begins when the last one is complete.
THEOREM OrderKept == Spec => KeepsReactionOrder
<1>1. Init => Order!Init
  <2> SUFFICES ASSUME Init PROVE Order!Init
    OBVIOUS
  <2>1. Running = {} /\ Popped = {}
    BY DEF Init, Running, Popped
  <2>2. (({r \in Reaction : status[r] = "queued"} \ Running) \cup Popped) \in SUBSET Reaction
    BY <2>1
  <2> QED  BY <2>1, <2>2 DEF Order!Init
<1>2. IInv /\ [Next]_vars => [Order!Next]_Order!vars
  <2> SUFFICES ASSUME IInv, [Next]_vars
               PROVE  Order!Next \/ UNCHANGED Order!vars
    OBVIOUS
  <2>1. ASSUME NEW w \in Worker, Step(w)
        PROVE  Order!Next \/ UNCHANGED Order!vars
    <3>1. CASE CheckStop(w) \/ ReadLevel(w) \/ Pop(w) \/ Reserve(w) \/ Insert(w)
      BY <3>1, MappedStutter DEF CheckStop, ReadLevel, Pop, Reserve, Insert
    <3>2. CASE GoIdle(w) \/ Acquire(w) \/ ResetIndex(w) \/ Distribute(w) \/ EventsPopped(w)
               \/ SignalStop(w)
      BY <3>2, MappedStutter
         DEF GoIdle, Acquire, ResetIndex, Distribute, EventsPopped, SignalStop
    <3>3. CASE Invoke(w)
      <4>1. reaction[w] # NULL /\ UNCHANGED <<status, reaction>>
            /\ \A v \in Worker : v # w => outputs'[v] = outputs[v]
        BY <3>3 DEF Invoke, IInv, TypeOK, Local
      <4>2. Popped' = Popped /\ Running' = Running
        BY <4>1 DEF Popped, Running
      <4> QED  BY <4>1, <4>2 DEF Order!vars
    <3>4. CASE Take(w)
      BY <3>4, TakeStarts
    <3>5. CASE \E s \in Reaction : Trigger(w, s)
      BY <3>5, TriggerTriggers
    <3>6. CASE Done(w)
      BY <3>6, DoneCompletes
    <3>7. CASE NextTag(w)
      BY <3>7, NextTagBegins
    <3> QED  BY <2>1, <3>1, <3>2, <3>3, <3>4, <3>5, <3>6, <3>7 DEF Step
  <2>2. CASE UNCHANGED vars
    BY <2>2, MappedStutter DEF vars
  <2> QED  BY <2>1, <2>2 DEF Next, AllExited
<1> QED  BY <1>1, <1>2, Invariance, PTL DEF Spec, KeepsReactionOrder, Order!Spec
=============================================================================
