# TLA+ verification of the Lingua Franca benchmarks

The repository holds two benchmarks of cyber-physical systems, each in two forms, and the
generated C of one of them together with the runtime it was compiled with:

* **Fly-By-Wire** (`src/fbw-lf`): three flight computers (PFC), a voter (WES), a disconnect switch
  (PFCDS) and a fault generator (FMAN), written as reactors; C harnesses hold its vote to that of the
  original C program.
* **MPC** (`src/mpc`): a control loop with a sensor, an actuator, a reference and an optimizer,
  once as five POSIX threads (`mpc_threaded.c`), once as reactors (`mpc.lf`).
* **reactor-c** (`src/mpc/mpc-code/mpc-lf-main/src-gen/mpc/core`): the threaded runtime that
  executes reactors: schedulers, event queue, tag advance, tokens, federated execution.

This directory states what makes these programs correct, checks it with TLC on small instances,
and proves the most important part of it with TLAPS for every instance.

## 1. Inventory

| Part | State | Operations | Interacts through | What is hard |
|---|---|---|---|---|
| PFC (`fbw.lf:45`) | file, previous fix, accumulated speed, counter, active, alive, bias, end of file | startup, fault_in, tick (four outcomes), shutdown | ports fault_in, speed_out | several faults in one message at the tag of a tick; a stopped computer must not drift; a pending bias |
| Transducer (`fbw.lf:193`) | none | forward one lane | ports | nothing of its own |
| WES (`fbw.lf:220`) | last message and has-flag of each lane | capture, vote | ports; the vote half a second later | stale captures, missing lanes, equality of doubles, silence |
| PFCDS (`fbw.lf:419`) | none | disconnect | `lf_request_stop()` | the stop takes effect one microstep later |
| FMAN (`fbw.lf:347`) | random numbers | one message per second to one computer | ports | any subset of four faults |
| MPC threads (`mpc_threaded.c`) | `g_state` under `g_mutex`, `g_plant_x` under nothing | sensor, prediction, optimizer, actuator, reference, main | mutex, condition variable, shared memory | interleaving, lost wakeups, shutdown, torn reads |
| MPC reactors (`mpc.lf`) | current reference, plant state, tick | set reference, sense, take reference, solve or brake, actuate | ports; the deadline | order within a tag, lateness, the handler instead of the reaction |
| Scheduler NP (`scheduler_NP.c`) | per-level counters and arrays, next level, idle count, semaphore | pop, insert, done, idle, distribute, advance tag, stop | atomics, semaphore | lock-free access from all workers; one worker alone changes level and tag |
| Tag advance (`reactor_threaded.c`, `reactor_common.c`, `lib/schedule.c`, `tag.c`) | current tag, stop tag, event queue, tag barrier | schedule, next tag, wait, stop | mutex and condition variable of the environment | waiting interrupted by earlier events; the barrier; tags that overflow |
| Tokens (`lf_token.c`) | reference counts, template tokens, recycling bin | new, get, copy, replace, done | shared between ports, actions and queued events | reuse of a value somebody still reads; a count that is one off |
| RTI (`federated/RTI/`) | per federate: next event, completed and granted tags; messages in transit; the stop | handlers of NET, LTC, messages, stop requests and replies, resignation, failure | TCP, a thread per federate under one mutex | grants against messages in transit, cycles without delay, consensus on the stop tag |
| Federates (`federate.c`) | last tag granted, input status, what it has announced | execute a tag, announce, wait; handlers of TAG, PTAG, DNET, messages, stop | TCP; the listener and the workers share a mutex | the listener changes what a waiting worker has read |
| Clock sync, modes, watchdogs, enclaves, other schedulers, containers | own state each | | | not used by a program of the repository |

The properties that make each part correct are in section 4; `PROJECT.json` lists every part with
what is modelled of it, every hazard at its line, and the properties that would catch it.

## 2. Modules

| Module | What it models |
|---|---|
| `TMRVote` | The decisions about one triple of messages: the vote of `fbw.lf`, the vote of the isolated test reactor, `original_wes()`, `expected_tmr()`; `round()` and `apply_bias()` |
| `TMR` | Abstract specification of a triple-redundant channel: rounds, conditions of the lanes, the right verdict |
| `FlyByWire` | `fbw.lf`: one action per reaction and per early return, and the advance of logical time; implements `TMR` |
| `FlyByWireControlled` | `fbw_controlled_test.lf`: the same reactors with the scripted generator |
| `MPCThreaded` | `mpc_threaded.c`: one action per critical section and per unprotected access |
| `MPCReactors` | `mpc.lf` with its deadline, against a physical clock |
| `ReactionOrder` | Abstract specification of what any scheduler owes to reactions |
| `SchedulerNP` | `scheduler_NP.c` and the worker loop: one action per atomic access; implements `ReactionOrder` |
| `Tags` | Tags and the arithmetic of delays of `tag.c`, the candidate of a DNET |
| `TagOrder` | Abstract specification of what coordination promises a federation |
| `Federation` | RTI, federates and the connections between them under centralized coordination: one action per handler under a mutex, per message and per step of a worker; extends `Tags`, implements `TagOrder` |
| `DistributedStop` | `lf_request_stop()` in a federation: the tag barrier, the stop messages and their handlers on both sides |
| `Tokens` | Reference-counted payloads and the event queue that carries them: `lf_token.c`, `lf_schedule_trigger()`, popping, termination; extends `Tags` |
| `MCFlyByWire`, `MCFlyByWireControlled`, `MCSchedulerNP`, `MCFederation`, `MCTokens` | Instances for TLC |
| `FlyByWireProofs`, `MPCThreadedProofs`, `MPCReactorsProofs`, `FederationProofs`, `FederationOrderProofs`, `DistributedStopProofs`, `SchedulerNPProofs`, `TokensProofs` | Theorems and proofs |

How state corresponds to code:

* **Reactors.** A reaction is one action, because a reaction runs to completion and shares state
  with its own reactor only. `pending` holds the reactions the runtime has queued for the current
  tag; `Level` is the level the compiler derives from declaration order and connections (for `mpc.lf`
  it is read off the generated `mpc.c`); a reaction may run when nothing of a lower level is left, and
  reactions of one level run in every order. Ports are variables that are cleared when the tag
  advances. That the scheduler really gives this order is not assumed of thin air: it is what
  `SchedulerNP` is proved to implement (`ReactionOrder`).
* **Fly-By-Wire data.** A speed is a natural number of units (`Unit` to one unit of the double), so
  that `apply_bias` is modelled by what it does: round, then shift by two bits. Parsing and the
  haversine formula are replaced by `Track`, the distance flown up to each fix; it does not decrease,
  which is all a sum of distances guarantees.
* **FlyByWire's report** is a history variable, written when a vote is taken and read by no action:
  the condition each lane really was in, read off the computers, not off the voter. The refinement to
  `TMR` compares the verdict with it.
* **Threads.** Critical sections on `g_state` alone are atomic; taking the mutex is an action of its
  own. `plant` keeps for each component of `g_plant_x` the parity of the step that wrote it, which
  tells old from new as long as the sensor's two reads fall within one step or two adjacent ones.
  `nanosleep` and computation delay a thread for any time.
* **MPC data.** States, references and inputs are modelled by where they come from (which plant step,
  which reference, solved or braked), since no property depends on the value of the gradient descent.

* **Federation.** `node` is the RTI's `scheduling_node_t` per federate, `in_transit` its queue of message
  tags; `up` and `down` are the two directions of each socket, in order. `fed[f]` is a federate: its event
  queue, `known` (the status of its input ports), the last grant, what it has announced, and `pc`, where its
  workers are: waiting for a grant, for physical time, executing a tag, stopping. A handler of the RTI is
  one action, with every grant and DNET it causes, in the code's order; that of an LTC is two, because it
  releases the mutex; so is that of a DNET in the federate, which takes none. A federate's program is what
  the RTI sees of it: connections with delays, the levels of the reactions that send and receive, and the
  times of its timers. A reaction sets its output or not, unless `always` says it does. What generated code
  does (port-absent messages, levels) is taken from how `federate.c` uses it.
* **Status of inputs.** `handle_message_now()` compares a reaction index (deadline and level) with a
  level, so this condition is always true, and `trigger->last_tag` is never assigned. What is left, and
  modelled, is: the message has the current tag and the status of its port was older.
* **Distributed stop.** Tags are natural numbers, `tag + 1` the next microstep. Coordination is left out:
  a federate advances to any event up to its stop tag, so that the agreement is checked against more
  behaviours than coordination allows. `asking` and `asked` are the points at which `lf_request_stop()` and
  the handler of a request give up one mutex and take another.
* **Tokens.** `heap` has the counts and payloads of the tokens, `template` what each port and action holds;
  a token is an address, so a freed token can be allocated again while somebody still refers to it. `event_q`
  is a function from places to events: a reference of the queue is a place in it, which is what the proofs
  count, and the queue's order is that of the events' tags, not of the places. `copies`
  is `_lf_tokens_allocated_in_reactions`. `lost` is a history variable: tokens of which the code has
  lost a reference (section 5). One worker executes reactions.

## 3. Runs and bounds

| Run | Instance | What it shows |
|---|---|---|
| `fly_by_wire` | six seconds, six fixes with speeds 0, 0, 0.4, 1.2, 2.1, 3.3 | all Fly-By-Wire properties below |
| `fly_by_wire_controlled` | 645 seconds, the 1499 fixes of `G18.txt` up to the scripted bias | the script's verdicts |
| `mpc_threaded` | `MAX_TICKS = 3` | all threads properties |
| `mpc_torn_read`, `mpc_reuse` | `MAX_TICKS = 3` | two comments of `mpc_threaded.c` are not what the code does |
| `mpc_reactors` | references at 5 and 15, timeout 25, deadline 1, up to 5 ms of lag | the control loop |
| `mpc_deadline` | the same | the README's statement about late solves is not what the runtime does |
| `scheduler_np` | three workers, four reactions on three levels, two tags | the scheduler |
| `federation` | three federates, five programs: `mpc_fed.lf`, the same when the plant may fail, a feedback loop with a delay of a microstep whose optimizer may fail (with or without a message), one with a delay of 1, a chain; timeout 2 | coordination |
| `federation_start` | a pipeline whose first two federates have an event at the start tag | a wait at the start tag announces the wrong tag |
| `distributed_stop` | three federates, one event besides the start, timeouts 1 and none | the distributed stop |
| `tokens` | a port with one reader or two, an action logical or physical, with no spacing or one of 1 and each policy; four tokens, up to three queued events | reference counts |

Why the bounds are enough:

* Six seconds hold every phase of a fault: stop, a bias scheduled while stopped, a second fault on
  another lane, the resume, the application of the bias, a kill of each lane, the emergency, the
  timeout. The speeds contain one a bias leaves alone (0), one it turns into 0 (0.4), and ones it
  changes. The file has one fix fewer than there are ticks, so its end is reached. All reactions of the
  first two seconds are free of faults because FMAN's timer starts at 2 s.
* Three ticks let the sensor overtake every other thread by one and by two measurements; every thread
  but the sensor has one loop, and its position in it is the whole of its state.
* A lag of 5 ms is five times the deadline: a tag can be late by more than the next ones can absorb,
  and recover. The time of the references (1 s and 3 s) is scaled to 5 and 15 ms, the timeout to 25.
* Three workers are the smallest number with two workers besides the one that advances the tag. The first
  level has two reactions that trigger a common successor, the last level can be reached with the middle
  one empty, and two tags show that nothing of the first tag is left in the second.

* Three federates are a cycle and a node outside it: the RTI must look at both when it gives a provisional
  grant, and at paths, not connections, when it suppresses a NET. A timeout of 2 and two microsteps hold
  the start tag, which is special on both sides, a tag with events, one without, and the stop tag.
  `FOREVER` is 9, out of reach of the sums that occur before the stop; `NEVER` is -4, below every tag
  that subtracting a delay gives.
* Three federates, all of which may ask, reply, time out and resign, are a majority and a minority, which
  is what separates "all have answered" from "enough have". An agreement is one-shot: no federate asks or
  answers twice, so longer runs only repeat the tags.
* A token can be referred to by the template of the port, that of the action, the list of copies and three
  events: four tokens leave one free when three are in use. Events are scheduled one or two time units
  ahead, the run ends at time 2; the queue is bounded when an event is scheduled, and nothing is scheduled
  any more once a reference is lost, because the counts would grow without bound.

Bounds are constants: `Timeout`, `Samples`, `MAX_TICKS`, `MaxLag`, `MaxTags`, `StopTime`, `Event`,
`MaxEvents`, `BinLimit`. In the first two programs, `MPCReactors` and `SchedulerNP` deadlock is checked, and a
program that has ended stutters in an action of its own (`Stopped`, `Done`, `AllExited`). `Federation`,
`DistributedStop` and `Tokens` come to rest when everything has ended and say so with `CHECK_DEADLOCK FALSE`;
`AllResign` and `StopComes` state that they do not rest earlier, but for what section 5 says of lost connections and
of the RTI giving up. Tokens and payloads are symmetric in the run
`tokens`, which checks no liveness.

**Fairness.** Reactor programs: weak fairness of the next-state relation, since the runtime's workers
always execute a ready reaction and time does not stop (`MPCReactors` adds the physical clock).
`MPCThreaded`: weak fairness of every thread's own steps; strong fairness of taking the mutex, because
the sleeping threads give it back again and again, and a thread that waits for a mutex which
is repeatedly released is eventually given it by the kernel. Weak fairness would not be enough, the
other threads may disable the lock between any two looks at it. `SchedulerNP`: weak fairness of every
worker; the semaphore needs no more, because its tokens are released for workers that wait already.
`Federation` and `DistributedStop`: weak fairness of every thread, the RTI's, the workers' and the listeners';
messages arrive, since TCP delivers them or breaks the connection, which the RTI reads as an end of file after
the messages that came before it. That a reaction asks
for a stop, or that a federate fails, is a choice and never fair. `GiveUp` (the RTI's 30 seconds) is fair
and may happen only when no message and no handler is left, which take less than that.

## 4. Properties

Fly-By-Wire (`FlyByWire`):

* `KeepsNavigating`: stop, resume and bias never move a computer off the sample of the current second.
* `VotesOnFreshSamples`: a vote sees the sample of its own second, exactly from the lanes that transmit.
* `OneCorruptLane`: two biases, even ones kept pending in stopped computers, are never
  transmitted in one second. FMAN selects one computer a second; why this suffices, through the stop and
  resume of several lanes, is the argument of `BiasInv` in `FlyByWireProofs`.
* `NoReadAfterClose`, `EmergencyStopsTime`, `NoSilentLoss`, `FlightEnds`.
* `VotesAreRight`: the refinement of `TMR`; a killed lane stays missing, at most one lane is
  corrupt in a round, every verdict is the right one, an emergency is the last.

`NoSilentLoss` is stated for flights in which all three computers found their data file and the file
lasts to the timeout. It holds although the voter is silent when it hears nothing: the emergency of a
single remaining lane comes first, because FMAN addresses one computer a second. A flight in which no
computer finds its file runs to the timeout without a verdict; that is what the code does, and no
document says otherwise.

Controlled test: `ScriptedVerdicts`, `RunsToTimeout`.

MPC threads (`MPCThreaded`): `Exclusion`, `NoLostWakeup`, `NoEarlyExit`, `ProgramEnds`, and the two
refuted statements `SensorReadsOneState` and `AppliesNewSolutions`.

MPC reactors (`MPCReactors`): `LoopCloses` (every tick has one step of the plant, with this tick's
sample and reference or the brake), `LateThenBrake` (lateness does not accumulate unnoticed), `RunEnds`,
and the refuted `StaleMathAborted`.

Scheduler (`SchedulerNP`): `InBounds`, `AdvancesAlone`, `ReadsCurrentLevel`, `NeverFatal`,
`AllWorkersExit`, and `KeepsReactionOrder`, the refinement of `ReactionOrder`.

Federation (`Federation`):

* `NoTardyMessage`: no message reaches a federate at or behind its tag, no provisional grant is behind a
  grant; either is a fatal error in `federate.c`.
* `NextEventSound`: what the RTI takes for a federate's next event is never later than one it executes,
  has before it or has on its way, however NET, LTC, suppressed NETs and messages cross.
* `InLevelOrder`: inputs that arrive while their tag is being executed find that no reaction of a
  higher level has run.
* `GrantKept`: what `net_common.h:406-428` promises of TAG and PTAG; and that messages with the tag of a PTAG come on
  the connections of a cycle without delay only, which is what the test of the strict incoming-message tag is for
  (`rti_common.c:229-235`).
* `InTagOrder`: the refinement of `TagOrder`: tags in increasing order at each federate, no message for a tag
  that is finished.
* `AllResign`: every federate reaches its stop tag and resigns, whichever other one fails, cycles included, unless a
  federate upstream of it was lost: its connection was closed without a message.

Distributed stop (`DistributedStop`): `GrantAhead` (a granted stop tag is never one that its receiver has
passed; the code prints an error then and stops at another tag), `SameStopTag` (all that took part stop at the
same tag, those with an earlier timeout too), `StopComes` (a stop that was asked for comes, or the RTI gives up,
which happens only if a federate has left after it was asked; it states what the code does with a lost answer,
and does not say that the others stop together then).

Tokens (`Tokens`): `Counted` (a count is the number of references, neither freed too early nor too late),
`SharedUnchanged` (a payload that several refer to is not written or replaced).

## 5. Findings

* The sensor thread reads `g_plant_x` under the mutex and the actuator writes it outside
  (`mpc_threaded.c:124` and `:311`): half of a published state may be older than the other half. The comment
  at line 98 calls the variable not shared.
* The actuator "waits for a new solution" according to the comment at line 285. It does not:
  `new_solution` and `g_cond_sol` have a writer and no reader, and a solution is applied for as many ticks
  as the optimizer needs for the next one.
* The README (line 117) says that a solve which exceeds the deadline is aborted. The
  runtime compares the deadline with physical time once, before it invokes the reaction
  (`reactor_threaded.c:664`); a solve that begins in time and ends late is applied. What does hold is
  `LateThenBrake`: the next tick brakes.
* `federation_start`: a federate with upstream federates asks for the grant of its start tag and waits. If a
  message for a later tag arrives meanwhile, the loop takes its tag for the next event and sends a NET of
  it (`federate.c:2328`), although the start tag is still to be executed. The RTI believes that federate to be
  past the start tag and grants a downstream one the tag before; when the first federate sends at the start
  tag, the second exits with "Centralized coordination should not have these types of messages". The programs of the
  run `federation`, that of `mpc_fed.lf` among them, are ones in which this cannot happen: a federate with an
  event of its own at the start tag and an upstream federate whose message comes later, with a third one
  downstream, is what it takes.

Met while modelling, and part of the models rather than findings of a run:

* A federate that resigns after it was asked to stop and before it answered is not counted as stopping
  (`rti_remote.c:504-583` counts those that are gone when the request comes); the RTI gives up on the others
  after 30 seconds. `net_common.h:165-179` speaks of answers "from federates (that are still connected)".
* A federate that has reached its timeout counts as stopping, and the others may agree on an earlier tag
  (`reactor.h:118-125` says all stop at the same tag); `SameStopTag` speaks of those that took part.
* When the connection to a federate is closed without a message (`rti_remote.c:983-994`: it was killed, or its
  machine is gone), the RTI drops it but keeps its `next_event` and visits nobody.
  `earliest_future_incoming_message_tag()` goes on counting that event, so that those downstream wait for ever: with
  the Reference of `mpc_fed.lf` killed, the Plant and the Optimizer. `handle_federate_failed()` (914-929) sets
  `next_event` to `FOREVER_TAG` and visits those downstream. `connection_closed` models it, and `AllResign` says
  that nobody else is held up; a property without the exception for those downstream of a lost federate is violated. The
  code asks for "better error handling here" (line 991) and promises nothing.
* The RTI sets the state of a federate whose connection is closed without taking its mutex (`rti_remote.c:986`).
  `connection_closed` is an action of its own, between handlers: within a handler, the state is tested once for each
  thing that is sent, and what is sent to a federate that is gone is lost either way.
* An LTC is sent only for tags at which a message was received (`federate.c:2115`); `net_common.h:150-155`
  speaks of every tag completed. `Federation` models the code.
* `lf_schedule_value()` and `lf_schedule_int()` on an action that is present reuse its template token when
  nobody else holds it (`lf_token.c:248`), so reactions that read the action later at this tag read the
  value scheduled for the future.
* The spacing policy `update` takes the earlier event from the queue without giving up its token; `replace`
  with the event's own token counts it twice. Both keep a token for ever (`lost`).
* With a spacing of zero an event may be given the tag of another that is queued, or of the current one; left
  out by `TokensAssumption`.

## 6. Proofs

Assumptions are the named ones of the modules: `UnitAssumption` (a unit is a positive number),
`FBWAssumption` (timeout and number of samples are naturals, the track does not decrease),
`MaxTicksAssumption` (at least one tick), `MPCAssumption` (the times of `MPCReactors`), `TagsAssumption` (times between
`NEVER` and `FOREVER`), `StopAssumption` (finitely many federates, events before `FOREVER`), `FederationAssumption`
(finitely many federates; programs of finitely many connections between different federates, of which `NULL`, the mark
of an event that is no message, is none; a stop before `FOREVER`), `TokensAssumption` (finitely many ports and actions, an initial template token of its own for each, delays and a stop that are tags, and no spacing of zero),
`SchedulerAssumption` (finitely many workers and reactions, at least one reaction on each level, and every reaction
which another may trigger on a higher level: both are what the compiler's levels guarantee). TLC evaluates them in every run.

**FlyByWireProofs.** The inductive invariant `IInv` strengthens the properties with what ties the state of
the computers to the timers:

* `Navigates`: `KeepsNavigating`, with the position in the file and the previous fix that make the speed of
  the next tick the true one (a telescoping difference of `Track`);
* `StartsBeforeTick`, `OnSample`, `VotesBetweenTicks`: which reactions may be pending in which half second, so
  that a tick never meets a computer that has ticked in this second already;
* `StopAhead`: the stop tag lies ahead, at a later time or the next microstep, until it is reached;
* `ClosesAtStop`, `NoReadAfterClose`: files are closed at the stop tag only, and a tick pending there comes
  first by its level;
* `EmergencyHeld`: from the verdict to the stop tag the switch's reaction is pending or the stop is
  the next microstep.

`Init => IInv` and `IInv /\ [Next]_vars => IInv'` are proved with one step per action and one per conjunct
the action can disturb. From it: `TypeCorrect`, `NeverOutOfStep` (`KeepsNavigating`), `FilesClosedLast`
(`NoReadAfterClose`) and `EmergencyIsFinal` (`EmergencyStopsTime`), for every timeout, file and track.

The same module holds what is proved about one vote. `TestedVoteIsTheVote`: the isolated tests exercise the
decision the program takes. `OneFaultIsolated`: one fault of any kind is named. `OriginalRightOnEqualSpeeds`: the
original vote and the symmetric one agree whenever lanes at the same counter report the same speed, so that only
a disagreement on speeds can separate them.

The second half of the module leads from a computer that is right to a verdict that is right: the voter decides half a
second later, on messages that have passed two reactors. Three layers of invariants, each proved on top of the
last and of `IInv`:

* `OrderInv`: a tick, the fault message before it, the transducer, the capture and the vote of one second happen
  in this order, by their levels, whatever the runtime picks within a level;
* `MessageInv`: what is under way on each lane (from the computer to the transducer, to the voter, in the voter's
  last message) is the sample of this second, and a lane which is silent has nothing under way;
* `BiasInv`: a bias is pending or transmitted on a lane only if FMAN addressed that lane this second, or
  the computer was stopped when the bias came. That the second case never meets the first is the
  argument about stop and resume: a stopped computer keeps its bias until a message addresses it again, and FMAN
  addresses one computer a second.

Theorems: `VotesFresh` (`VotesOnFreshSamples`), `CorruptLanesAlone` (`OneCorruptLane`), and, with `ReadsOn` (a
computer that found its file reads on until the timeout) and `LosesOne` (at most one lane falls silent
from one vote to the next), `LossNoticed` (`NoSilentLoss`). `LossNoticed` assumes `Timeout <= Samples`: the file
lasts to the timeout, as `G18.txt` does with 1499 fixes for 645 seconds. Without it the statement is false: three
files that end together leave a voter that hears nothing and says nothing. `VotesRefineTMR` is the refinement
`VotesAreRight` of `TMR`: every step is a round, the advance to the next one, or a stutter.

The scripted flight of the end-to-end test is such a flight (`ControlledIsFlight`), so all of this holds of it. Its own
theorems add what the script leaves behind: `ScriptInv` (the computers are up as the script says by the last
second whose fault they have handled, and a lane is spoilt by the scripted bias only), `BiasSent` (from its fault to the
vote the bias is on the third lane) and `VerdictInv` (what a vote said is what the script expects, and PFCDS has been
told nothing else). `ScriptFollowed` (`ScriptedVerdicts`) needs two conditions. `Timeout <= Samples`, as above. And, if the
timeout is later than second 640, `Track[640] > Track[0]`: the bias shifts the rounded speed by two bits, which
changes every speed except zero (`BiasChanges`); with an aircraft that stood still until then the vote would say OK and the log check
fail. `G18.txt` satisfies it narrowly: its aircraft first moves at sample 636. `ScriptRunsOut` (`RunsToTimeout`)
needs neither.

**MPCThreadedProofs.** `IInv` adds to the properties that a thread past its exit has seen `running`
false, and that `running` is `tick < MAX_TICKS`; the rest is the usual argument that only the holder of the
mutex changes what the others rely on. Theorems: `TypeCorrect`, `MutualExclusion`, `WakeupsArrive`,
`NoThreadLeavesEarly`, for every number of ticks.

**MPCReactorsProofs.** `IInv` ties the control loop to the levels:

* `OneInLoop`: exactly one of measurement, solve (or its deadline handler) and actuation is under way, and
  what it will read is this tick's sample;
* `SettersOnTime`: the reactions that change the reference are pending only at their own time;
* `ReferenceInForce`: once nothing of a lower level is pending, the optimizer's reference is that of the tag;
* `InTime`: while a solve is in progress, and until its input is applied, the input in force before it was
  set within this tick's deadline, unless the new one brakes.

The lemma `NothingLower` turns the guard of the runtime (no pending reaction of a lower level) into the facts
the steps need. Theorems: `TypeCorrect`, `LoopAlwaysCloses` (`LoopCloses`), `LatenessBrakes`
(`LateThenBrake`), for all times, deadlines and lags.

**FederationProofs.** Centralized coordination, for every program, number of federates, stop time and range of tags.

Facts about `tag.c` on which it rests: tags are totally ordered (`TagsAreOrdered`); `lf_tag_latest_earlier()` and
`lf_delay_strict()` are immediate predecessors (`LatestEarlierIsPredecessor`, `StrictDelayIsBelow`), so that a
grant just below a message excludes that message and nothing else; `lf_delay_tag()` keeps order
(`DelayKeepsOrder`); `get_dnet_candidate()` is exact (`DnetCandidateIsExact`). The hypotheses name what the code
does not guard against: a delay of 0 wraps the microstep at `UINT_MAX`, and `lf_tag_add()` overflows to
`FOREVER_TAG`. `PathDelaysSettle`: the delays of paths that the RTI computes are fixed points of lessening, hence
those of shortest paths; the proof goes by the number of rounds.

Of every program: `TypesKept` (`TypeOK`); `OnlyGrantedTagsExecute`, a federate with upstream federates executes only
what it was granted; `TagsOnlyIncrease`, the tags of a federate increase and end with the stop tag. Their inductive
invariant, `Orderly`, says of one federate in which order its current tag, the tag it has asked for, its grant and the
events of its queue can be at each `pc`.

`LevelsAreKept` (`InLevelOrder`) is the federate's half of a contract with the RTI, for every program, cycles without
delay and provisional grants included. Its hypotheses are the RTI's half, `GrantKept`, which the run `federation` checks, and `[]StatusFits`: a status of an input that is recorded twice for one tag is incremented
by a microstep, which must not be the last one (`UINT_MAX`, 2^32 - 1). The inductive invariant `LevelInv`:

* `Within`: the grant that a federate has, and those on their way to it, are not later than what the RTI has recorded;
* `Respected`: a message on its way to a federate is later than every TAG and not earlier than every PTAG before it, and
  comes with the tag of a PTAG only on a connection of a cycle without delay (`Follows`);
* `InLevels`: a federate has passed the level of an input only if it need not wait for that input: it knows the status
  of it, or the tag is granted for good.

A message for the tag being executed comes under a provisional grant, on a connection whose status is not known
(`TimelyMessage`); so the workers have not passed its level. For the RTI it matters in which order a handler sends: a
message first, then grants that it has recorded (`Posted`).

**FederationOrderProofs.** Of a message that comes too late the code says "Centralized coordination should not have these
types of messages". That is not true of every program, so that the theorems have two hypotheses:

* `Plain(program)`: no connection has a delay of one microstep (`after 0`) and no cycle is without delay. Such a
  program gets no provisional grants, and its messages have tags of microstep 0. Of the programs of
  `MCFederation`, `Chain`, `Feedback(1, {})` and `Pipeline` are such programs; `mpc_fed.lf` itself has a cycle
  without delay and is only model-checked.
* `[]StartAnnounced`: a federate that waits at the start and has a reaction there has announced no later event. The
  code does not ensure it: `federation_start` is the finding that it announces one, and is then left behind.
  `NothingToStart`, no reaction at time 0 in a federate with upstream federates, is a condition on the program
  that implies it.

Under them: `NoMessageIsTardy` and `NoMessageIsTardyAfterStart` (`NoTardyMessage`), `GrantsAreKept` (`GrantKept`),
`OrderIsKept` (`InTagOrder`, the refinement of `TagOrder`) and `NextEventsAreSound` (`NextEventSound`), with any number of failures and lost connections; `NoMessageIsTardyAfterStart`, `OrderIsKeptAfterStart` and
`NextEventsAreSoundAfterStart` say it of `NothingToStart` programs.

`NextEventsAreSound` needs more than `StartAnnounced`: `[]StartFirst`, that no federate waiting at the start announces a
later event, whether it has a reaction there or not. A message for a later tag can make a federate announce that tag
before it is granted the start (`Wake`); the RTI then takes the later tag for its next event while it executes the
start. With no reaction there this makes no message late, and `NoMessageIsTardy` needs nothing of it. What follows the
start is right in any case: `NextEventsAreSoundAfterStart` is the theorem for `NothingToStart` programs.

The inductive invariant is `CoordInv`. It is needed because a grant says something of messages that nobody has sent
yet, while federates, the RTI and the connections each know a part of it, out of date. Its heart:

* `Triggered(f, x)`: what can still make `f` react at time `x`, as far as it can be told from `f` and what is on
  its way to it. A `Bound` is a time for each federate that is not later than any trigger, nor than what the
  others or the messages on their way can still cause. What the RTI computes with `MinDelays` and the tags it
  knows is one (`PathTriangle` makes it one), so that what a federate will ever be sent is bounded below
  although the RTI knows neither its queue nor what is on its way;
* `Secure(e, n)`: there is a bound for each sender of `e` by which nothing reaches `e` up to time `n`.
  `GrantsSecure` says it of the last grant of every federate. What is a bound stays one as federates act, so that a
  grant stays secure;
* `TriggersAhead`, `MessagesAhead`: the RTI does not take a federate to be beyond a time at which it will still react
  or from which a message of its is still on the way, and will not when it has heard what the federate has
  said so far. An announcement may be later than such a time only if a message of it is in `in_transit`, which is what that
  record is for;
* `GrantsFirst`, `Deliveries`: nothing is confirmed that was not granted, and a message on its way to a federate is
  later than every grant before it; `Silent`: a federate that has left says nothing more but that it has no events.

Each step keeps each part; the handlers of the RTI are composed from one lemma about a single notification
(`notify_advance_grant_if_safe()`), by induction on how many nodes have been notified.

The refinement of `TagOrder` rests on the same invariant. What is on its way to a federate (`Coming`: handed to the RTI,
forwarded, or queued) is later than its grant, hence than the tag it executes (`TagBeforeComing`), so that `Advance` and
`Finish` may be taken when the code advances and completes, and `Send` when a federate sends. Everything else, the
handlers of the RTI among it, moves messages from one place to the next and leaves `inbox` alone: one lemma says
which messages come to whom after a step (`InboxAfter`), one for each step that it is a `Send`, an `Advance`, a
`Finish`, a `Fail` or a stutter. `Consume`, a message for the tag being executed, happens with provisional grants only.
`Idle`, an invariant of its own, says that a federate which ended without having started has no upstream federates, so
that nothing is on its way to one that will execute no tag.

`NextEventSound` speaks also of times at which a federate has nothing to do: the start, the timeout and the tag that it
executes (`Visits`). `VisitsAhead` says of them what `TriggersAhead` says of triggers, and that the federate has not said
that it leaves. It is kept because a step comes to no new time but one that triggers it, and says nothing beyond the times
that it leaves to come (`Visiting`). It is a predicate of a set of times: all of them for `NextEventsAreSound`, all but
the start for `NextEventsAreSoundAfterStart`.

**DistributedStopProofs.** For any number of federates, events and timeouts, `IInv` is type correctness, the
local state of every federate (`Local`) and what the RTI has made of it (`StopTags`). The argument: a federate
that has told the RTI a tag is held below it by its barrier until it hears the grant (`Barrier`, `Pledged`);
the RTI's maximum is at least every tag it was told, and no longer changes once all are counted as stopping
(`CountedAsStopping`, `Leaving`); hence the grant is ahead of everybody who hears it (`Granting`), and each
either stops at the lesser of its timeout and that maximum or had reached its timeout before
(`Stopping`). `Agreement` is `Spec => []IInv`; from it `TypeCorrect`, `GrantsAhead` (`GrantAhead`) and
`StopTogether` (`SameStopTag`). `IInv` is needed because neither property says anything of a federate whose
answer is still on its way.

**SchedulerNPProofs.** The lock-free scheduler for any number of workers, reactions and levels. The parts of `IInv`:

* `Accounting`: idle workers that are counted plus tokens of the semaphore are the workers that have gone idle,
  so that the last one to be counted finds every other asleep and no token left (`AdvancesAlone`, `Stopping`);
* `Executing`, `Local`: while anybody runs there is a level being executed; a running reaction is of that level, and
  one being inserted of a later one;
* `Unique`: a queued reaction is in exactly one place, an entry, the hands of the worker inserting it or the
  hands of the one executing it. This is what the compare-and-swap of `lf_scheduler_trigger_reaction()` buys;
* `Queues`: a level still to come fills up without a gap below its index, apart from entries just reserved
  (`Ahead`); the level being executed is emptied from the other end, a claimed entry belonging to one worker
  (`Current`); a level that is done is empty with index 0 (`Past`).

The lemma `Room` is the heart of it: the entries in use hold different reactions of the level, none of which is
the one being inserted, so by counting (an injection into the other reactions of the level) there is a free
entry, and no index can leave its array. There is one lemma per action, then `Invariance`
(`Spec => []IInv`), and from it `TypeCorrect`, `StaysInBounds` (`InBounds`), `LeaderAlone` (`AdvancesAlone`),
`LevelStable` (`ReadsCurrentLevel`), `StatusAsExpected` (`NeverFatal`) and `OrderKept`: `Spec => KeepsReactionOrder`,
the refinement of `ReactionOrder`, with one lemma per step that is not a stutter.

**TokensProofs.** What refers to a token is the template of a port or action, a place of the event queue, or the
list of copies. `Held` counts these references, and `Accounts(h, R, L, new)` says that the heap `h` pays for the
references `R`: the count of a token is at least its references and, unless it is in `L`, no more; a token in
the recycling bin has count 0; one with count 0 has no payload, unless it is in `new`, made and not referred to
yet. `IInv` is `Accounts` of the state between reactions. Inside a reaction the two sides are out of step, which is
why the lemmas speak of `R` and not of the state: one lemma per operation of `lf_token.c` says what it adds to or
takes from `R` (new, get, replace template, done using), a second group what the same step of the code does to
`Held` (enqueue, dequeue, assign a template, add a copy), and one lemma per action composes them in the order of
the code. `Keeps` and `Unshared` follow the payloads alongside. Freeing the copies, popping all events of a tag and
termination walk over a list; what they have done after `m` elements is proved by induction on `m` (`InductionTo`),
which rests on the library's theorem that inclusion of finite sets is well-founded. Theorems: `Accounting`
(`Spec => []IInv`), `TokensCounted` (`Counted`), `PayloadsStay` (`SharedUnchanged`), and `NothingLeaks`: when the program
has terminated every count is 0, except for the tokens in `lost`, those which the code keeps for ever (section 5).

Only model-checked:

* liveness (`FlightEnds`, `ProgramEnds`, `RunEnds`, `AllWorkersExit`, `AllResign`, `StopComes`): liveness under
  fairness and `ENABLED` are outside what the prover does;
* `NoTardyMessage`, `NextEventSound`, `GrantKept` and `InTagOrder` for programs with a cycle without
  delay, `mpc_fed.lf` among them, or a delay of a microstep; and with them the hypotheses of `LevelsAreKept`. Provisional grants let a federate execute before it is
  certain of its messages, level by level; the argument above, in which a grant is a time below every message to come,
  does not cover them.

No module here declares a RECURSIVE operator. Where a proof needs induction, it is over numbers and goes through
the least counterexample.

## 7. Not modelled

Floating-point rounding (`fbw_c_equiv_validation.lf` exists to test it), the numbers of the gradient descent
and its warm start, parsing of sentences, logging, and the operating-system, network and trace layers. The
federated build of the scheduler (`#ifdef FEDERATED`), mutexes per level included. The execution at once of the
only reaction that an output enables (`reactor_common.c:845-953`): it needs a `last_enabling_reaction`, which the
generated `mpc.c` sets for no reaction. The isolated
single-threaded runtime (`reactor.c`). `PROJECT.json` gives the reason for each part.

Of the federated runtime: a write of the RTI that fails, on which it takes the receiver for disconnected
(`rti_remote.c:78-84`) without handling what it may still read from it; joining a federation and the agreement on its start time, identifiers and
authentication, clock synchronization, decentralized coordination, physical connections and peer-to-peer
sockets, transient federates, and the bounded NET of a federate with physical actions
(`FEDERATE_BOUNDED_NET`). Of tokens: several workers. The counts are plain increments and
`lf_set_token()` takes no mutex, so that two reactions of one level which forward the same token race on its
count; with such a race there is nothing left to check, and `reaction_macros.h` promises more than it can keep.

Modes, watchdogs, enclaves and the schedulers GEDF_NP and adaptive are compiled for programs that ask for
them, and no program of the repository does.

## 8. Plan

What would come next:

1. The start of a federation: joining, start time, and the pending state, in front of `Federation`.
2. The federated build of `SchedulerNP`, composed with the levels that `Federation` blocks.
3. Proofs about `Federation` for programs with a cycle without delay: that the RTI keeps its grants there too
   (`GrantKept`), the hypothesis that `LevelsAreKept` is left with.
4. Watchdogs, modes and GEDF_NP when a program uses them.
