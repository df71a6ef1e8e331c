------------------------------ MODULE FlyByWire ------------------------------
(***************************************************************************)
(* The reactor program fbw.lf: three flight computers (PFC), the           *)
(* Transducer that forwards their speeds, the voter (WES), the disconnect  *)
(* switch (PFCDS) and the fault generator (FMAN).                          *)
(*                                                                         *)
(* One action is one reaction. A tag is a point of logical time: time      *)
(* counts half seconds, because PFC and FMAN tick on whole seconds and WES *)
(* votes half a second later. At each tag the reactions in pending run, a  *)
(* reaction only when none of a lower level is left; reactions of the same *)
(* level run in any order. Logical time moves when pending is empty.       *)
(***************************************************************************)
EXTENDS TMRVote

CONSTANTS
  Timeout,  \* the target's timeout, in seconds
  Samples,  \* how many GPGLL sentences the data file holds
  Track     \* Track[k]: distance flown, in units, up to the k-th GPGLL fix

ASSUME FBWAssumption ==
  /\ Timeout \in Nat
  /\ Samples \in Nat
  /\ Track \in [0 .. Samples - 1 -> Nat]
  /\ \A j \in 1 .. Samples - 1 : Track[j - 1] <= Track[j]

VARIABLES
  pfc,        \* pfc[p]: the state variables of flight computer p
  wes,        \* last_s and has_s of the voter
  fault,      \* the ports fault1..fault3
  speed_out,  \* the output ports of the flight computers
  out,        \* the output ports of the Transducer
  status,     \* the output port of the voter
  time,       \* half seconds of logical time elapsed
  microstep,
  stop_tag,   \* <<time, microstep>> of the last tag
  pending,    \* reactions triggered at this tag that have not run
  running,    \* FALSE once the stop tag has been completed
  report      \* history: what the latest vote was about and what it said

timing == <<time, microstep, running>>
vars == <<pfc, wes, fault, speed_out, out, status, time, microstep, stop_tag,
          pending, running, report>>

-----------------------------------------------------------------------------
(* Messages. An absent port holds the message that is never sent.          *)

FaultMsg == [stop : BOOLEAN, interrupt : BOOLEAN, cont : BOOLEAN, bias : BOOLEAN]
NoFault == [stop |-> FALSE, interrupt |-> FALSE, cont |-> FALSE, bias |-> FALSE]
NoFaults == [p \in PFC |-> NoFault]
SpeedMsg == [counter : Int, speed : Nat, valid : BOOLEAN]
NoSpeed == [counter |-> -1, speed |-> 0, valid |-> FALSE]

(* Reactions, and the levels the declaration order and the connections of  *)
(* the main reactor give them.                                             *)

PFCReaction == {"startup", "fault", "tick", "shutdown", "trans", "capture"}
Reaction == (PFCReaction \X PFC) \cup ({"fman", "vote", "pfcds"} \X {0})

\* reaction(shutdown) is declared after reaction(t) in PFC.
\* Faulty variant: before it.
ShutdownDeclaredFirst == 2
ShutdownLevel == 4

Level(r) ==
  CASE r[1] = "startup" -> 0
    [] r[1] = "fman" -> 1
    [] r[1] = "fault" -> 2
    [] r[1] = "tick" -> 3
    [] r[1] = "shutdown" -> ShutdownLevel
    [] r[1] = "trans" -> 3 + r[2]
    [] r[1] = "capture" -> 4 + r[2]
    [] r[1] = "vote" -> 8
    [] r[1] = "pfcds" -> 9

\* Faulty variant: a reaction waits for its own level too.
ReadyAlone(r) == r \in pending /\ \A q \in pending \ {r} : Level(r) < Level(q)
Ready(r) == r \in pending /\ \A q \in pending : Level(r) <= Level(q)

\* Reaction r runs and triggers the reactions in then.
React(r, then) ==
  /\ Ready(r)
  /\ pending' = (pending \ {r}) \cup then
  /\ UNCHANGED timing

-----------------------------------------------------------------------------
(* PFC                                                                     *)

\* The state of a reactor instance before its startup reaction.
NewPFC == [fp |-> "NULL", line |-> 0, prev_fix |-> -1, has_prev |-> FALSE,
           accumulated_speed |-> 0, counter |-> -1, active |-> TRUE,
           alive |-> TRUE, bias |-> FALSE, eof_reached |-> FALSE]

PFCState == [fp : {"NULL", "open", "closed"}, line : Nat, prev_fix : Int,
             has_prev : BOOLEAN, accumulated_speed : Nat, counter : Int,
             active : BOOLEAN, alive : BOOLEAN, bias : BOOLEAN,
             eof_reached : BOOLEAN]

\* reaction(startup): the file opens under one of its two names, or not.
Startup(p) ==
  /\ React(<<"startup", p>>, {})
  /\ \E found \in {"NULL", "open"} : pfc' = [pfc EXCEPT ![p].fp = found]
  /\ UNCHANGED <<wes, fault, speed_out, out, status, stop_tag, report>>

\* Faulty variant: a CONT revives a killed computer.
FaultedRevives(s, f) ==
  [s EXCEPT !.active = (s.active /\ ~(f.stop /\ s.alive)) \/ f.cont,
            !.alive = (s.alive /\ ~f.interrupt) \/ f.cont,
            !.bias = s.bias \/ (f.bias /\ s.alive)]
\* The flags are looked at in the order STOP, INT, CONT, BIAS.
Faulted(s, f) ==
  LET alive == s.alive /\ ~f.interrupt IN
  [s EXCEPT !.active = (s.active /\ ~(f.stop /\ s.alive)) \/ (f.cont /\ alive),
            !.alive = alive,
            !.bias = s.bias \/ (f.bias /\ alive)]

\* reaction(fault_in)
HandleFault(p) ==
  /\ React(<<"fault", p>>, {})
  /\ pfc' = [pfc EXCEPT ![p] = Faulted(@, fault[p])]
  /\ UNCHANGED <<wes, fault, speed_out, out, status, stop_tag, report>>

\* Faulty variant: the two fixes swapped.
compute_speed_swapped(previous, i, j) == previous + (Track[i] - Track[j])
\* compute_speed(): the haversine distance between two fixes is the distance
\* flown between them.
compute_speed(previous, i, j) == previous + (Track[j] - Track[i])

\* The first early return of reaction(t).
Grounded(s) == ~s.alive \/ s.fp = "NULL" \/ s.eof_reached

TickGrounded(p) ==
  /\ React(<<"tick", p>>, {})
  /\ Grounded(pfc[p])
  /\ UNCHANGED <<pfc, wes, fault, speed_out, out, status, stop_tag, report>>

\* No GPGLL sentence is left in the file.
TickEndOfFile(p) ==
  /\ React(<<"tick", p>>, {})
  /\ ~Grounded(pfc[p])
  /\ pfc[p].line = Samples
  /\ pfc' = [pfc EXCEPT ![p].eof_reached = TRUE]
  /\ UNCHANGED <<wes, fault, speed_out, out, status, stop_tag, report>>

\* The nominal speed at the next fix.
Nominal(s) == IF s.has_prev
              THEN compute_speed(s.accumulated_speed, s.prev_fix, s.line)
              ELSE 0

\* Faulty variant: a stopped computer does not read the file.
AdvancedWhileActive(s) ==
  [s EXCEPT !.line = IF s.active THEN @ + 1 ELSE @,
            !.prev_fix = s.line, !.has_prev = TRUE,
            !.accumulated_speed = Nominal(s), !.counter = s.counter + 1]
\* The navigation state after the next fix was read.
Advanced(s) ==
  [s EXCEPT !.line = @ + 1, !.prev_fix = s.line, !.has_prev = TRUE,
            !.accumulated_speed = Nominal(s), !.counter = s.counter + 1]

\* A stopped computer advances and sends nothing.
TickStopped(p) ==
  /\ React(<<"tick", p>>, {})
  /\ ~Grounded(pfc[p]) /\ pfc[p].line < Samples /\ ~pfc[p].active
  /\ pfc' = [pfc EXCEPT ![p] = Advanced(@)]
  /\ UNCHANGED <<wes, fault, speed_out, out, status, stop_tag, report>>

\* Faulty variant: the bias flag is left set.
StickyBias(s) == s.bias
BiasAfterSend(s) == FALSE

\* An active computer sends its speed, biased once if a bias is scheduled.
TickSend(p) ==
  LET s == pfc[p] IN
  /\ React(<<"tick", p>>, {<<"trans", p>>})
  /\ ~Grounded(s) /\ s.line < Samples /\ s.active
  /\ pfc' = [pfc EXCEPT ![p] = [Advanced(s) EXCEPT !.bias = BiasAfterSend(s)]]
  /\ speed_out' = [speed_out EXCEPT ![p] =
       [counter |-> s.counter + 1,
        speed |-> IF s.bias THEN apply_bias(Nominal(s)) ELSE Nominal(s),
        valid |-> TRUE]]
  /\ UNCHANGED <<wes, fault, out, status, stop_tag, report>>

\* reaction(shutdown)
Shutdown(p) ==
  /\ React(<<"shutdown", p>>, {})
  /\ pfc' = [pfc EXCEPT ![p].fp = IF @ = "NULL" THEN @ ELSE "closed"]
  /\ UNCHANGED <<wes, fault, speed_out, out, status, stop_tag, report>>

-----------------------------------------------------------------------------
(* Transducer and WES                                                      *)

\* reaction(speed1) -> out1, and the same for lanes 2 and 3
Forward(p) ==
  /\ React(<<"trans", p>>, {<<"capture", p>>})
  /\ out' = [out EXCEPT ![p] = speed_out[p]]
  /\ UNCHANGED <<pfc, wes, fault, speed_out, status, stop_tag, report>>

\* reaction(speed1), reaction(speed2), reaction(speed3) of WES
Capture(p) ==
  /\ React(<<"capture", p>>, {})
  /\ wes' = [last |-> [wes.last EXCEPT ![p] = out[p]],
             has |-> [wes.has EXCEPT ![p] = TRUE]]
  /\ UNCHANGED <<pfc, fault, speed_out, out, status, stop_tag, report>>

(* The history variable: the condition each lane really was in, read off   *)
(* the computers themselves, and the verdict. It is written by a vote only *)
(* and read by no action.                                                  *)

TrueSpeed(k) == Track[k] - Track[0]
Sends(s) == ~Grounded(s) /\ s.active
Sample == time \div 2
ConditionOf(p) ==
  IF ~Sends(pfc[p]) THEN "missing"
  ELSE IF wes.last[p].speed = TrueSpeed(Sample) THEN "good" ELSE "corrupt"
Reported(verdict) ==
  [lane |-> [p \in PFC |-> ConditionOf(p)],
   killed |-> {p \in PFC : Grounded(pfc[p])},
   verdict |-> verdict]

\* reaction(vote_tick), when no valid speed has arrived
VoteSilent ==
  /\ React(<<"vote", 0>>, {})
  /\ WESVote(wes.last, wes.has) = "NONE"
  /\ report' = Reported("NONE")
  /\ UNCHANGED <<pfc, wes, fault, speed_out, out, status, stop_tag>>

\* Faulty variant: the has_s flags are not reset.
HasKept(has) == has
HasAfterVote(has) == [p \in PFC |-> FALSE]

\* reaction(vote_tick), when there is something to vote on
Vote ==
  LET result == WESVote(wes.last, wes.has) IN
  /\ React(<<"vote", 0>>, {<<"pfcds", 0>>})
  /\ result # "NONE"
  /\ status' = result
  /\ wes' = [wes EXCEPT !.has = HasAfterVote(@)]
  /\ report' = Reported(result)
  /\ UNCHANGED <<pfc, fault, speed_out, out, stop_tag>>

-----------------------------------------------------------------------------
(* FMAN                                                                    *)

\* What one tick may leave on the fault ports: any subset of the four flags,
\* all of them on the port of one selected computer.
FaultOn(selected, msg) == [NoFaults EXCEPT ![selected] = msg]
FaultPorts == {FaultOn(selected, msg) : selected \in PFC, msg \in FaultMsg}
FaultReactions(ports) == {<<"fault", p>> : p \in {q \in PFC : ports[q] # NoFault}}

\* reaction(t) -> fault1, fault2, fault3
GenerateFaults ==
  /\ fault' \in FaultPorts
  /\ React(<<"fman", 0>>, FaultReactions(fault'))
  /\ UNCHANGED <<pfc, wes, speed_out, out, status, stop_tag, report>>

-----------------------------------------------------------------------------
(* PFCDS                                                                   *)

\* Faulty variant: the stop is requested one tick too late.
LateStopTag == <<time + 1, 0>>
\* lf_request_stop(): the stop tag is the next microstep.
RequestedStopTag == <<time, microstep + 1>>

\* reaction(status_in); STATUS_EXIT is never sent.
Disconnect ==
  /\ React(<<"pfcds", 0>>, {})
  /\ stop_tag' = IF status = "EMERGENCY" THEN RequestedStopTag ELSE stop_tag
  /\ UNCHANGED <<pfc, wes, fault, speed_out, out, status, report>>

-----------------------------------------------------------------------------
(* Tags                                                                    *)

\* The timers that fire h half seconds after the start: PFC (0, 1 s) and FMAN
\* (2 s, 1 s) on the full second, WES (500 ms, 1 s) on the half.
TimersAt(h) ==
  IF h % 2 = 1 THEN {<<"vote", 0>>}
  ELSE ({"tick"} \X PFC)
       \cup (IF h >= 4 THEN {<<"fman", 0>>} ELSE {})

ShutdownsAt(tag) ==
  IF tag = stop_tag THEN {"shutdown"} \X PFC ELSE {}

\* The next tag with an event: the stop tag or the next timer tag.
NextTag == IF stop_tag[1] = time THEN stop_tag ELSE <<time + 1, 0>>

AdvanceTag ==
  /\ running /\ pending = {} /\ <<time, microstep>> # stop_tag
  /\ time' = NextTag[1]
  /\ microstep' = NextTag[2]
  /\ pending' = ShutdownsAt(NextTag)
                \cup (IF NextTag[2] = 0 THEN TimersAt(NextTag[1]) ELSE {})
  /\ fault' = NoFaults
  /\ speed_out' = [p \in PFC |-> NoSpeed]
  /\ out' = [p \in PFC |-> NoSpeed]
  /\ status' = "NONE"
  /\ UNCHANGED <<pfc, wes, stop_tag, running, report>>

\* The stop tag has been completed.
Stop ==
  /\ running /\ pending = {} /\ <<time, microstep>> = stop_tag
  /\ running' = FALSE
  /\ UNCHANGED <<pfc, wes, fault, speed_out, out, status, time, microstep,
                 stop_tag, pending, report>>

Stopped == ~running /\ UNCHANGED vars

-----------------------------------------------------------------------------
Init ==
  /\ pfc = [p \in PFC |-> NewPFC]
  /\ wes = [last |-> [p \in PFC |-> NoSpeed], has |-> [p \in PFC |-> FALSE]]
  /\ fault = NoFaults
  /\ speed_out = [p \in PFC |-> NoSpeed]
  /\ out = [p \in PFC |-> NoSpeed]
  /\ status = "NONE"
  /\ time = 0 /\ microstep = 0
  /\ stop_tag = <<2 * Timeout, 0>>
  /\ pending = ({"startup"} \X PFC) \cup TimersAt(0)
               \cup (IF Timeout = 0 THEN {"shutdown"} \X PFC ELSE {})
  /\ running = TRUE
  /\ report = [lane |-> [p \in PFC |-> "good"], killed |-> {}, verdict |-> "NONE"]

PFCNext(p) ==
  \/ Startup(p) \/ HandleFault(p) \/ TickGrounded(p) \/ TickEndOfFile(p)
  \/ TickStopped(p) \/ TickSend(p) \/ Shutdown(p)

Rest ==
  \/ \E p \in PFC : Forward(p) \/ Capture(p)
  \/ VoteSilent \/ Vote \/ Disconnect \/ AdvanceTag \/ Stop

Next == (\E p \in PFC : PFCNext(p)) \/ Rest \/ GenerateFaults \/ Stopped

Spec == Init /\ [][Next]_vars
FairSpec == Spec /\ WF_vars(Next)

-----------------------------------------------------------------------------
(* Properties                                                              *)

\* Every variable has a value of its type.
TypeOK ==
  /\ pfc \in [PFC -> PFCState]
  /\ wes \in [last : [PFC -> SpeedMsg], has : [PFC -> BOOLEAN]]
  /\ fault \in [PFC -> FaultMsg]
  /\ speed_out \in [PFC -> SpeedMsg] /\ out \in [PFC -> SpeedMsg]
  /\ status \in Status \cup {"NONE"}
  /\ time \in Nat /\ microstep \in Nat /\ stop_tag \in Nat \X Nat
  /\ pending \subseteq Reaction
  /\ running \in BOOLEAN
  /\ report \in [lane : [PFC -> {"good", "missing", "corrupt"}],
                 killed : SUBSET PFC, verdict : Status \cup {"NONE"}]

\* A computer that can still read is at the sample of this second once it has
\* ticked, whatever STOP, CONT and BIAS it went through, and its internal
\* speed is the true one: faults touch only what it transmits.
Ticked(p) == {<<"startup", p>>, <<"tick", p>>} \cap pending = {}
KeepsNavigating ==
  \A p \in PFC :
    ~Grounded(pfc[p]) /\ Ticked(p) =>
      /\ pfc[p].counter = Sample
      /\ pfc[p].accumulated_speed = TrueSpeed(Sample)

\* A vote sees the sample of its own second or nothing: has_s is set exactly
\* for the computers that are transmitting, and never for an older sample.
VotesOnFreshSamples ==
  <<"vote", 0>> \in pending =>
    \A p \in PFC : /\ wes.has[p] <=> Sends(pfc[p])
                   /\ wes.has[p] => wes.last[p].counter = Sample

\* At most one lane is corrupt in a vote: two biases, even one kept pending in
\* a stopped computer, are never transmitted in the same second, so two wrong
\* speeds can never outvote a right one.
OneCorruptLane ==
  <<"vote", 0>> \in pending =>
    \A p, q \in PFC :
      /\ wes.has[p] /\ wes.last[p].speed # TrueSpeed(Sample)
      /\ wes.has[q] /\ wes.last[q].speed # TrueSpeed(Sample)
      => p = q

\* No tick reads a data file that the shutdown reaction has closed.
NoReadAfterClose ==
  \A p \in PFC : <<"tick", p>> \in pending => pfc[p].fp # "closed"

\* After an emergency logical time stands still: PFCDS stops the program
\* before any computer ticks or any lane is voted on again.
EmergencyStopsTime == [][report.verdict = "EMERGENCY" => time' = time]_vars

\* No silent loss: a flight that began with all three computers reading, over a
\* data file that lasts, as G18.txt does, to the timeout, does not lose the
\* last two lanes that agree without an emergency. The voter itself says
\* nothing when it hears nothing; this holds because the emergency of a single
\* remaining lane stops the program before that lane can be lost too.
NoSilentLoss ==
  (time % 2 = 1 /\ pending = {} /\ \A p \in PFC : pfc[p].fp = "open") =>
    \/ report.verdict = "EMERGENCY"
    \/ \E p, q \in PFC : p # q /\ report.lane[p] = "good" /\ report.lane[q] = "good"

\* The program ends: by its timeout or by an emergency.
FlightEnds == <>(~running)

\* Every vote gives the verdict of the conditions the lanes really are in.
Abstract == INSTANCE TMR WITH lane <- report.lane, killed <- report.killed,
                              verdict <- report.verdict
VotesAreRight == Abstract!Spec
=============================================================================
