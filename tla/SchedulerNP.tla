----------------------------- MODULE SchedulerNP -----------------------------
(***************************************************************************)
(* The non-preemptive scheduler of the threaded runtime (scheduler_NP.c,   *)
(* the build without FEDERATED) and the worker loop that drives it         *)
(* (_lf_worker_do_work in reactor_threaded.c).                             *)
(*                                                                         *)
(* Workers share one counter and one array per level and take no lock.     *)
(* One action is one atomic access to that shared state. The last worker   *)
(* to become idle prepares the next level or the next tag alone; what it   *)
(* does then, up to the release of the semaphore, is one action.           *)
(***************************************************************************)
EXTENDS Integers, FiniteSets

CONSTANTS
  Worker,    \* the worker threads
  Reaction,
  Level,     \* Level[r]: LF_LEVEL(r->index)
  Triggers,  \* Triggers[r]: reactions that the outputs of r may trigger
  MaxLevel,  \* max_reaction_level
  MaxTags,   \* bound: tags processed before the stop tag is reached
  NULL

\* num_reactions_per_level[l]
Capacity(l) == Cardinality({r \in Reaction : Level[r] = l})

ASSUME SchedulerAssumption ==
  /\ IsFiniteSet(Worker) /\ Worker # {}
  /\ IsFiniteSet(Reaction)
  /\ MaxLevel \in Nat /\ MaxTags \in Nat
  /\ Level \in [Reaction -> 0 .. MaxLevel]
  /\ Triggers \in [Reaction -> SUBSET Reaction]
  /\ \A r \in Reaction : \A s \in Triggers[r] : Level[r] < Level[s]
  /\ \A l \in 0 .. MaxLevel : \E r \in Reaction : Level[r] = l
  /\ NULL \notin Reaction

VARIABLES
  next_reaction_level, \* one above the level being executed
  indexes,             \* indexes[l]: number of entries of level l, or below 0
  triggered_reactions, \* triggered_reactions[l][i]: entry i of level l
  status,              \* status[r]: "inactive" or "queued"
  number_of_idle_workers,
  semaphore,           \* workers that may still pass lf_semaphore_acquire
  should_stop,
  tags,                \* tags begun
  pc,                  \* pc[w]: where worker w is
  level,               \* level[w]: the level w last read
  index,               \* index[w]: the index w last obtained from a counter
  reaction,            \* reaction[w]: the reaction w is executing, or NULL
  outputs,             \* outputs[w]: reactions that w has still to trigger
  inserting            \* inserting[w]: the reaction w is inserting, or NULL

queues == <<indexes, triggered_reactions>>
pool == <<next_reaction_level, number_of_idle_workers, semaphore, should_stop, tags>>
vars == <<queues, pool, status, pc, level, index, reaction, outputs, inserting>>

Levels == 0 .. MaxLevel
Slots(l) == 0 .. Capacity(l) - 1

Goto(w, l) == pc' = [pc EXCEPT ![w] = l]

-----------------------------------------------------------------------------
(* lf_sched_get_ready_reaction()                                           *)

\* while (!should_stop)
CheckStop(w) ==
  /\ pc[w] = "check"
  /\ Goto(w, IF should_stop THEN "exited" ELSE "read")
  /\ UNCHANGED <<queues, pool, status, level, index, reaction, outputs, inserting>>

ReadLevel(w) ==
  /\ pc[w] = "read"
  /\ level' = [level EXCEPT ![w] = next_reaction_level - 1]
  /\ Goto(w, "pop")
  /\ UNCHANGED <<queues, pool, status, index, reaction, outputs, inserting>>

\* Faulty variant: the index before the decrement.
PopIndexBefore(w) == indexes[level[w]]
\* lf_atomic_add_fetch(&indexes[level], -1)
PopIndex(w) == indexes[level[w]] - 1

\* A negative index is no reaction.
Pop(w) ==
  /\ pc[w] = "pop"
  /\ indexes' = [indexes EXCEPT ![level[w]] = @ - 1]
  /\ index' = [index EXCEPT ![w] = PopIndex(w)]
  /\ Goto(w, IF PopIndex(w) >= 0 THEN "take" ELSE "idle")
  /\ UNCHANGED <<triggered_reactions, pool, status, level, reaction, outputs, inserting>>

\* Faulty variants: the entry is left in the array; the status is reset when
\* the reaction is taken.
EntryKept(r) == r
StatusReset(r) == [s \in Reaction |-> IF s = r THEN "inactive" ELSE status[s]]
EntryTaken(r) == NULL
\* A reaction stays queued while it runs: triggering it again does nothing.
StatusTaken(r) == status

\* executing_reactions is the array of the level being executed. The entry is
\* read and cleared; an empty entry is no reaction.
Take(w) ==
  LET l == next_reaction_level - 1
      r == triggered_reactions[l][index[w]] IN
  /\ pc[w] = "take"
  /\ triggered_reactions' = [triggered_reactions EXCEPT ![l][index[w]] = EntryTaken(r)]
  /\ reaction' = [reaction EXCEPT ![w] = r]
  /\ status' = StatusTaken(r)
  /\ Goto(w, IF r = NULL THEN "idle" ELSE "run")
  /\ UNCHANGED <<indexes, pool, level, index, outputs, inserting>>

-----------------------------------------------------------------------------
(* _lf_worker_do_work(): invoke, trigger what the outputs trigger, done    *)

\* Every reaction that an output triggers is inserted. The one that
\* schedule_output_reactions() would execute at once (reactor_common.c:845) has
\* a last_enabling_reaction, which the generated mpc.c sets for none.
Invoke(w) ==
  /\ pc[w] = "run"
  /\ \E T \in SUBSET Triggers[reaction[w]] : outputs' = [outputs EXCEPT ![w] = T]
  /\ Goto(w, "trigger")
  /\ UNCHANGED <<queues, pool, status, level, index, reaction, inserting>>

\* Faulty variant: a reaction is inserted whatever its status.
CanQueueAlways(s) == TRUE
CanQueue(s) == status[s] = "inactive"

\* lf_scheduler_trigger_reaction(): only the caller whose compare-and-swap
\* changes the status from inactive to queued inserts the reaction.
Trigger(w, s) ==
  /\ pc[w] = "trigger" /\ s \in outputs[w]
  /\ outputs' = [outputs EXCEPT ![w] = @ \ {s}]
  /\ \/ /\ CanQueue(s)
        /\ status' = [status EXCEPT ![s] = "queued"]
        /\ inserting' = [inserting EXCEPT ![w] = s]
        /\ Goto(w, "reserve")
     \/ /\ ~CanQueue(s)
        /\ UNCHANGED <<status, inserting, pc>>
  /\ UNCHANGED <<queues, pool, level, index, reaction>>

\* _lf_sched_insert_reaction(): lf_atomic_fetch_add(&indexes[level], 1)
Reserve(w) ==
  LET l == Level[inserting[w]] IN
  /\ pc[w] = "reserve"
  /\ index' = [index EXCEPT ![w] = indexes[l]]
  /\ indexes' = [indexes EXCEPT ![l] = @ + 1]
  /\ Goto(w, "insert")
  /\ UNCHANGED <<triggered_reactions, pool, status, level, reaction, outputs, inserting>>

Insert(w) ==
  /\ pc[w] = "insert"
  /\ triggered_reactions' =
       [triggered_reactions EXCEPT ![Level[inserting[w]]][index[w]] = inserting[w]]
  /\ inserting' = [inserting EXCEPT ![w] = NULL]
  /\ Goto(w, "trigger")
  /\ UNCHANGED <<indexes, pool, status, level, index, reaction, outputs>>

\* lf_sched_done_with_reaction(); a status other than queued is fatal.
Done(w) ==
  /\ pc[w] = "trigger" /\ outputs[w] = {} /\ reaction[w] # NULL
  /\ status' = [status EXCEPT ![reaction[w]] = "inactive"]
  /\ reaction' = [reaction EXCEPT ![w] = NULL]
  /\ Goto(w, IF status[reaction[w]] = "queued" THEN "check" ELSE "fatal")
  /\ UNCHANGED <<queues, pool, level, index, outputs, inserting>>

-----------------------------------------------------------------------------
(* _lf_sched_wait_for_work()                                               *)

GoIdle(w) ==
  /\ pc[w] = "idle"
  /\ number_of_idle_workers' = number_of_idle_workers + 1
  /\ Goto(w, IF number_of_idle_workers' = Cardinality(Worker) THEN "advance"
             ELSE "acquire")
  /\ UNCHANGED <<queues, next_reaction_level, semaphore, should_stop, tags,
                 status, level, index, reaction, outputs, inserting>>

\* lf_semaphore_acquire()
Acquire(w) ==
  /\ pc[w] = "acquire" /\ semaphore > 0
  /\ semaphore' = semaphore - 1
  /\ Goto(w, "check")
  /\ UNCHANGED <<queues, next_reaction_level, number_of_idle_workers, should_stop,
                 tags, status, level, index, reaction, outputs, inserting>>

-----------------------------------------------------------------------------
(* _lf_scheduler_try_advance_tag_and_distribute(), by the last idle worker *)

\* Faulty variant: the index of the completed level is left where it is.
KeptIndex(i) == i
CompletedIndex(i) == 0

ResetIndex(w) ==
  /\ pc[w] = "advance"
  /\ indexes' = [indexes EXCEPT ![next_reaction_level - 1] = CompletedIndex(@)]
  /\ Goto(w, "distribute")
  /\ UNCHANGED <<triggered_reactions, pool, status, level, index, reaction,
                 outputs, inserting>>

\* The levels not yet executed at this tag that have a reaction in entry 0.
ReadyLevels == {l \in next_reaction_level .. MaxLevel : triggered_reactions[l][0] # NULL}

\* Faulty variant: as many workers as can be woken, the caller not counted.
TokensForAll(awaken) == awaken
\* The calling worker is one of those that take work.
Tokens(awaken) == awaken - 1

\* _lf_sched_distribute_ready_reactions(), _lf_sched_notify_workers()
Distribute(w) ==
  /\ pc[w] = "distribute"
  /\ \E l \in ReadyLevels :
       LET awaken == IF indexes[l] < number_of_idle_workers
                     THEN indexes[l] ELSE number_of_idle_workers IN
       /\ \A m \in ReadyLevels : l <= m
       /\ next_reaction_level' = l + 1
       /\ number_of_idle_workers' = number_of_idle_workers - awaken
       /\ semaphore' = semaphore + Tokens(awaken)
  /\ Goto(w, "check")
  /\ UNCHANGED <<queues, should_stop, tags, status, level, index, reaction,
                 outputs, inserting>>

\* _lf_sched_advance_tag_locked(): the events of the next tag trigger any set
\* of reactions, through lf_scheduler_trigger_reaction() like any other.
NextTag(w) ==
  /\ pc[w] = "distribute" /\ ReadyLevels = {} /\ tags < MaxTags
  /\ next_reaction_level' = 0
  /\ tags' = tags + 1
  /\ \E T \in SUBSET Reaction : outputs' = [outputs EXCEPT ![w] = T]
  /\ Goto(w, "trigger")
  /\ UNCHANGED <<queues, number_of_idle_workers, semaphore, should_stop, status,
                 level, index, reaction, inserting>>

\* All events of the tag have been popped.
EventsPopped(w) ==
  /\ pc[w] = "trigger" /\ outputs[w] = {} /\ reaction[w] = NULL
  /\ Goto(w, "distribute")
  /\ UNCHANGED <<queues, pool, status, level, index, reaction, outputs, inserting>>

\* Faulty variant: one worker is not woken for the end.
StopTokensShort == Cardinality(Worker) - 2
StopTokens == Cardinality(Worker) - 1

\* The stop tag is complete: _lf_sched_signal_stop().
SignalStop(w) ==
  /\ pc[w] = "distribute" /\ ReadyLevels = {} /\ tags = MaxTags
  /\ next_reaction_level' = 0
  /\ should_stop' = TRUE
  /\ semaphore' = semaphore + StopTokens
  /\ Goto(w, "check")
  /\ UNCHANGED <<queues, number_of_idle_workers, tags, status, level, index,
                 reaction, outputs, inserting>>

-----------------------------------------------------------------------------
\* The entries of level l when the reactions of T are queued in some order.
Entries(l, T) ==
  LET here == {r \in T : Level[r] = l} IN
  {f \in [Slots(l) -> here \cup {NULL}] :
     \A i \in Slots(l) :
       /\ f[i] # NULL <=> i < Cardinality(here)
       /\ \A j \in Slots(l) : f[i] = f[j] /\ i # j => f[i] = NULL}

\* What startup and the timers trigger at the first tag is queued before any
\* worker starts; level 0 is then being executed.
Init ==
  /\ \E T \in SUBSET Reaction :
       /\ status = [r \in Reaction |-> IF r \in T THEN "queued" ELSE "inactive"]
       /\ indexes = [l \in Levels |-> Cardinality({r \in T : Level[r] = l})]
       /\ triggered_reactions \in
            {q \in [Levels -> UNION {Entries(l, T) : l \in Levels}] :
               \A l \in Levels : q[l] \in Entries(l, T)}
  /\ next_reaction_level = 1
  /\ number_of_idle_workers = 0 /\ semaphore = 0
  /\ should_stop = FALSE /\ tags = 1
  /\ pc = [w \in Worker |-> "check"]
  /\ level = [w \in Worker |-> 0] /\ index = [w \in Worker |-> 0]
  /\ reaction = [w \in Worker |-> NULL]
  /\ outputs = [w \in Worker |-> {}]
  /\ inserting = [w \in Worker |-> NULL]

Step(w) ==
  \/ CheckStop(w) \/ ReadLevel(w) \/ Pop(w) \/ Take(w)
  \/ Invoke(w) \/ (\E s \in Reaction : Trigger(w, s)) \/ Reserve(w) \/ Insert(w)
  \/ Done(w) \/ GoIdle(w) \/ Acquire(w)
  \/ ResetIndex(w) \/ Distribute(w) \/ NextTag(w) \/ EventsPopped(w) \/ SignalStop(w)

AllExited == (\A w \in Worker : pc[w] = "exited") /\ UNCHANGED vars

Next == (\E w \in Worker : Step(w)) \/ AllExited

Spec == Init /\ [][Next]_vars
\* Every worker thread keeps running.
FairSpec == Spec /\ \A w \in Worker : WF_vars(Step(w))

-----------------------------------------------------------------------------
(* Properties                                                              *)

Places == {"check", "read", "pop", "take", "run", "trigger", "reserve", "insert",
           "idle", "acquire", "advance", "distribute", "exited", "fatal"}

\* Every variable has a value of its type.
TypeOK ==
  /\ next_reaction_level \in 0 .. MaxLevel + 1
  /\ indexes \in [Levels -> Int]
  /\ \A l \in Levels : triggered_reactions[l] \in [Slots(l) -> Reaction \cup {NULL}]
  /\ status \in [Reaction -> {"inactive", "queued"}]
  /\ number_of_idle_workers \in 0 .. Cardinality(Worker)
  /\ semaphore \in 0 .. Cardinality(Worker)
  /\ should_stop \in BOOLEAN /\ tags \in 0 .. MaxTags + 1
  /\ pc \in [Worker -> Places]
  /\ level \in [Worker -> Levels] /\ index \in [Worker -> Int]
  /\ reaction \in [Worker -> Reaction \cup {NULL}]
  /\ outputs \in [Worker -> SUBSET Reaction]
  /\ inserting \in [Worker -> Reaction \cup {NULL}]

\* No worker reads or writes outside the array of a level, although nothing
\* checks an index against the size the array was allocated with.
InBounds ==
  \A w \in Worker :
    /\ pc[w] = "take" => index[w] \in Slots(next_reaction_level - 1)
    /\ pc[w] = "insert" => index[w] \in Slots(Level[inserting[w]])

\* The tag or the level changes under the hands of one worker only: all the
\* others are at the semaphore, and there is no token left to let one pass.
Waiting(w) == pc[w] = "acquire"
Alone(w) == pc[w] \in {"advance", "distribute"}
            \/ (pc[w] \in {"trigger", "reserve", "insert"} /\ reaction[w] = NULL)
AdvancesAlone ==
  \A w \in Worker : Alone(w) =>
    semaphore = 0 /\ \A v \in Worker \ {w} : Waiting(v)

\* The level a worker is about to pop from is the level being executed.
ReadsCurrentLevel ==
  \A w \in Worker : pc[w] \in {"pop", "take"} => level[w] = next_reaction_level - 1

\* lf_sched_done_with_reaction() never meets an unexpected status.
NeverFatal == \A w \in Worker : pc[w] # "fatal"

\* Every worker gets out of its loop: no token is lost, nobody waits for work
\* that no one will distribute.
AllWorkersExit == <>(\A w \in Worker : pc[w] = "exited")

\* The workers together keep the promise of ReactionOrder: level order within
\* a tag, each reaction once, nothing left over when the tag advances.
Running == {reaction[w] : w \in Worker} \ {NULL}
Popped == UNION {outputs[w] : w \in {v \in Worker : reaction[v] = NULL}}
Order == INSTANCE ReactionOrder WITH
           queued <- ({r \in Reaction : status[r] = "queued"} \ Running) \cup Popped,
           executing <- Running
KeepsReactionOrder == Order!Spec
=============================================================================
