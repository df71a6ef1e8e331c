--------------------------- MODULE FlyByWireProofs ---------------------------
(***************************************************************************)
(* Proofs about the decisions of TMRVote, for every triple of messages,    *)
(* and about FlyByWire for every timeout, every data file and every        *)
(* sequence of faults: its types, that a computer never loses its place in *)
(* the data, that no closed file is read, and that an emergency is final;  *)
(* then that a vote is about fresh samples of exactly the computers that   *)
(* can send, that at most one lane of it is corrupt and its verdict is the *)
(* right one (the refinement of TMR), and that two computers that agree    *)
(* are not lost without an emergency. The last part applies all this to    *)
(* the scripted flight of FlyByWireControlled.                             *)
(***************************************************************************)
EXTENDS FlyByWireControlled, TLAPS

-----------------------------------------------------------------------------
(* The decisions (TMRVote)                                                 *)

\* The third lane.
Other(p, q) == 6 - p - q
ErrorOf(p) == CASE p = 1 -> "ERROR_PFC1" [] p = 2 -> "ERROR_PFC2" [] p = 3 -> "ERROR_PFC3"

\* What the isolated test shows of the test reactor holds of the voter in
\* fbw.lf: when all three computers sent, both take the decision the harness
\* expects, although only the voter looks at valid and only the test reactor
\* waits for all three.
THEOREM TestedVoteIsTheVote ==
  ASSUME NEW m, NEW has, \A i \in PFC : Valid(m, has, i)
  PROVE  WESVote(m, has) = ExpectedTMR(m) /\ IsolatedVote(m, has) = ExpectedTMR(m)
<1>1. /\ Valid(m, has, 1) /\ Valid(m, has, 2) /\ Valid(m, has, 3)
      /\ has[1] /\ has[2] /\ has[3]
  BY DEF PFC, Valid
<1>2. WESVote(m, has) = ExpectedTMR(m)
  BY <1>1 DEF WESVote, ExpectedTMR, PairwiseDecision, PFC
<1>3. IsolatedVote(m, has) = ExpectedTMR(m)
  BY <1>1 DEF IsolatedVote, ExpectedTMR, PairwiseDecision, PFC
<1> QED
  BY <1>2, <1>3

\* The voter isolates one fault of any kind: when two lanes arrived with the
\* same sample and the third is missing or differs, the third is named.
THEOREM OneFaultIsolated ==
  ASSUME NEW m, NEW has, NEW p \in PFC, NEW q \in PFC, p < q,
         Valid(m, has, p), Valid(m, has, q), SameSample(m, p, q),
         ~Valid(m, has, Other(p, q)) \/ ~SameSample(m, p, Other(p, q))
  PROVE  WESVote(m, has) = ErrorOf(Other(p, q))
<1>1. PFC = {1, 2, 3}
  BY DEF PFC
<1>2. CASE p = 1 /\ q = 2
  BY <1>1, <1>2 DEF WESVote, PairwiseDecision, Other, ErrorOf, SameSample
<1>3. CASE p = 1 /\ q = 3
  BY <1>1, <1>3 DEF WESVote, PairwiseDecision, Other, ErrorOf, SameSample
<1>4. CASE p = 2 /\ q = 3
  BY <1>1, <1>4 DEF WESVote, PairwiseDecision, Other, ErrorOf, SameSample
<1> QED
  BY <1>1, <1>2, <1>3, <1>4

\* The asymmetric decision of the original C program is the symmetric one
\* whenever lanes at the same counter report the same speed: it goes wrong only
\* on a corrupted speed, which it never compares between PFC3 and the others.
THEOREM OriginalRightOnEqualSpeeds ==
  ASSUME NEW m,
         \A i, j \in PFC : m[i].counter = m[j].counter => m[i].speed = m[j].speed
  PROVE  OriginalWES(m) = ExpectedTMR(m)
<1>1. \A i, j \in {1, 2, 3} : m[i].counter = m[j].counter => m[i].speed = m[j].speed
  BY DEF PFC
<1> QED
  BY <1>1 DEF OriginalWES, ExpectedTMR, PairwiseDecision, SameSample

-----------------------------------------------------------------------------
(* The flight: the invariant                                               *)

\* The navigation state of one computer is a function of its place in the file.
Navigates(s) ==
  /\ s.line \in 0 .. Samples
  /\ s.counter = s.line - 1
  /\ s.has_prev <=> s.line > 0
  /\ s.line > 0 => s.prev_fix = s.line - 1
  /\ s.line > 0 => s.accumulated_speed = TrueSpeed(s.line - 1)
  /\ s.line = 0 => s.accumulated_speed = 0

\* A computer that has not started has its first tick before it.
StartsBeforeTick ==
  \A p \in PFC : <<"startup", p>> \in pending =>
                   time = 0 /\ pfc[p].line = 0 /\ <<"tick", p>> \in pending

\* The place in the file follows the time.
OnSample ==
  \A p \in PFC : ~Grounded(pfc[p]) =>
                   pfc[p].line = IF Ticked(p) THEN Sample + 1 ELSE Sample

\* The stop tag is not passed; it is the timeout or was requested at a vote.
StopAhead ==
  /\ time < stop_tag[1] \/ (time = stop_tag[1] /\ microstep <= stop_tag[2])
  /\ stop_tag = <<2 * Timeout, 0>> \/ (stop_tag[1] % 2 = 1 /\ stop_tag[2] > 0)

\* Votes fall between the ticks.
VotesBetweenTicks ==
  <<"vote", 0>> \in pending \/ <<"pfcds", 0>> \in pending => time % 2 = 1 /\ microstep = 0

\* Files are closed at the stop tag only.
ClosesAtStop ==
  \A p \in PFC : <<"shutdown", p>> \in pending \/ pfc[p].fp = "closed" =>
                   <<time, microstep>> = stop_tag

\* From an emergency verdict to the stop at the same time.
EmergencyHeld ==
  report.verdict = "EMERGENCY" =>
    \/ <<"pfcds", 0>> \in pending /\ status = "EMERGENCY"
    \/ stop_tag[1] = time

IInv ==
  /\ TypeOK
  /\ \A p \in PFC : Navigates(pfc[p])
  /\ StartsBeforeTick
  /\ OnSample
  /\ StopAhead
  /\ VotesBetweenTicks
  /\ ClosesAtStop
  /\ NoReadAfterClose
  /\ EmergencyHeld

-----------------------------------------------------------------------------
(* The operators of the model                                              *)

LEMMA LanesAre == PFC = {1, 2, 3}
BY DEF PFC

\* The levels, reaction by reaction.
LEMMA Levels ==
  \A p \in PFC :
    /\ Level(<<"startup", p>>) = 0 /\ Level(<<"fault", p>>) = 2
    /\ Level(<<"tick", p>>) = 3 /\ Level(<<"shutdown", p>>) = 4
    /\ Level(<<"trans", p>>) = 3 + p /\ Level(<<"capture", p>>) = 4 + p
BY DEF Level, ShutdownLevel

\* A rounded speed is a natural number.
LEMMA RoundType == ASSUME NEW s \in Nat PROVE round(s) \in Nat
<1>1. 2 * s + Unit \in Nat /\ 2 * Unit \in Nat \ {0}
  BY UnitAssumption
<1>2. \A a \in Nat, b \in Nat \ {0} : a \div b \in Nat
  OBVIOUS
<1> QED
  BY <1>1, <1>2 DEF round

\* A biased speed is a speed.
LEMMA BiasType == ASSUME NEW s \in Nat PROVE apply_bias(s) \in Nat
<1>1. \A a, b \in Nat : a * b \in Nat
  OBVIOUS
<1>2. 4 * round(s) \in Nat /\ Unit \in Nat
  BY RoundType, UnitAssumption
<1> QED
  BY <1>1, <1>2 DEF apply_bias

\* The next fix gives the nominal speed of the next sample.
LEMMA NominalNavigates ==
  ASSUME NEW s \in PFCState, Navigates(s), s.line < Samples
  PROVE  Nominal(s) \in Nat /\ Nominal(s) = TrueSpeed(s.line)
<1> USE FBWAssumption
<1>1. s.line \in Nat /\ s.line \in 0 .. Samples - 1
  BY DEF Navigates
<1>2. CASE s.line = 0
  <2>1. ~s.has_prev /\ Nominal(s) = 0
    BY <1>2 DEF Navigates, Nominal
  <2>2. Track[0] \in Nat
    BY <1>1, <1>2
  <2> QED
    BY <1>2, <2>1, <2>2 DEF TrueSpeed
<1>3. CASE s.line > 0
  <2> DEFINE k == s.line
  <2>1. /\ k \in 1 .. Samples - 1 /\ k - 1 \in 0 .. Samples - 1 /\ 0 \in 0 .. Samples - 1
        /\ Track[k] \in Nat /\ Track[k - 1] \in Nat /\ Track[0] \in Nat
        /\ Track[k - 1] <= Track[k]
    BY <1>1, <1>3
  <2>2. Nominal(s) = s.accumulated_speed + (Track[k] - Track[k - 1])
    BY <1>3 DEF Navigates, Nominal, compute_speed
  <2>3. s.accumulated_speed \in Nat
    BY DEF PFCState
  <2>4. s.accumulated_speed = Track[k - 1] - Track[0]
    BY <1>3 DEF Navigates, TrueSpeed
  <2>5. Nominal(s) \in Nat
    BY <2>1, <2>2, <2>3, SMTT(30)
  <2>6. Nominal(s) = Track[k] - Track[0]
    BY <2>1, <2>2, <2>4
  <2> QED
    BY <2>5, <2>6 DEF TrueSpeed
<1> QED
  BY <1>1, <1>2, <1>3

\* The five fields a fix updates keep their types.
LEMMA UpdatedType ==
  ASSUME NEW s \in PFCState, NEW l \in Nat, NEW f \in Int, NEW a \in Nat, NEW c \in Int
  PROVE  [s EXCEPT !.line = l, !.prev_fix = f, !.has_prev = TRUE,
                   !.accumulated_speed = a, !.counter = c] \in PFCState
<1> DEFINE t == [s EXCEPT !.line = l, !.prev_fix = f, !.has_prev = TRUE]
<1>1. t \in PFCState
  BY DEF PFCState
<1>2. [t EXCEPT !.accumulated_speed = a, !.counter = c] \in PFCState
  <2> HIDE DEF t
  <2> QED
    BY <1>1 DEF PFCState
<1> QED
  BY <1>2

\* Reading a fix keeps the navigation state a function of the place.
LEMMA AdvancedNavigates ==
  ASSUME NEW s \in PFCState, Navigates(s), s.line < Samples
  PROVE  /\ Advanced(s) \in PFCState /\ Navigates(Advanced(s))
         /\ Advanced(s).line = s.line + 1
         /\ Advanced(s).fp = s.fp /\ Advanced(s).bias = s.bias
         /\ Grounded(Advanced(s)) = Grounded(s)
<1>1. Nominal(s) \in Nat /\ Nominal(s) = TrueSpeed(s.line)
  BY NominalNavigates
<1>2. /\ s.line \in Nat /\ s.line + 1 \in Nat /\ s.line + 1 \in 0 .. Samples
      /\ s.counter = s.line - 1 /\ s.counter + 1 = s.line
  BY FBWAssumption DEF Navigates, PFCState
<1>3. Advanced(s) \in PFCState
  <2> DEFINE l == s.line + 1  f == s.line  a == Nominal(s)  c == s.counter + 1
  <2>1. l \in Nat /\ f \in Int /\ a \in Nat /\ c \in Int
    BY <1>1, <1>2
  <2>2. [s EXCEPT !.line = l, !.prev_fix = f, !.has_prev = TRUE,
                  !.accumulated_speed = a, !.counter = c] \in PFCState
    <3> HIDE DEF l, f, a, c
    <3> QED
      BY <2>1, UpdatedType
  <2> QED
    BY <2>2 DEF Advanced
<1>4. /\ Advanced(s).line = s.line + 1 /\ Advanced(s).counter = s.line
      /\ Advanced(s).has_prev = TRUE /\ Advanced(s).prev_fix = s.line
      /\ Advanced(s).accumulated_speed = TrueSpeed(s.line)
  BY <1>1, <1>2 DEF Advanced, PFCState
<1>5. Navigates(Advanced(s))
  BY <1>2, <1>4 DEF Navigates
<1>6. /\ Advanced(s).fp = s.fp /\ Advanced(s).bias = s.bias
      /\ Grounded(Advanced(s)) = Grounded(s)
  BY DEF Advanced, PFCState, Grounded
<1> QED
  BY <1>3, <1>4, <1>5, <1>6

\* A fault message moves only the flags; a grounded computer stays grounded.
LEMMA FaultedNavigates ==
  ASSUME NEW s \in PFCState, NEW f \in FaultMsg, Navigates(s)
  PROVE  /\ Faulted(s, f) \in PFCState /\ Navigates(Faulted(s, f))
         /\ Faulted(s, f).line = s.line /\ Faulted(s, f).fp = s.fp
         /\ ~Grounded(Faulted(s, f)) => ~Grounded(s)
<1>1. /\ f.stop \in BOOLEAN /\ f.interrupt \in BOOLEAN
      /\ f.cont \in BOOLEAN /\ f.bias \in BOOLEAN
      /\ s.active \in BOOLEAN /\ s.alive \in BOOLEAN /\ s.bias \in BOOLEAN
  BY DEF FaultMsg, PFCState
<1> DEFINE a == (s.active /\ ~(f.stop /\ s.alive)) \/ (f.cont /\ s.alive /\ ~f.interrupt)
           l == s.alive /\ ~f.interrupt
           b == s.bias \/ (f.bias /\ s.alive /\ ~f.interrupt)
<1>2. a \in BOOLEAN /\ l \in BOOLEAN /\ b \in BOOLEAN
  BY <1>1
<1>3. Faulted(s, f) = [s EXCEPT !.active = a, !.alive = l, !.bias = b]
  BY DEF Faulted
<1>4. l => s.alive
  OBVIOUS
<1> HIDE DEF a, l, b
<1>5. Faulted(s, f) \in PFCState
  BY <1>2, <1>3 DEF PFCState
<1>6. /\ Faulted(s, f).line = s.line /\ Faulted(s, f).fp = s.fp
      /\ Faulted(s, f).prev_fix = s.prev_fix /\ Faulted(s, f).has_prev = s.has_prev
      /\ Faulted(s, f).accumulated_speed = s.accumulated_speed
      /\ Faulted(s, f).counter = s.counter /\ Faulted(s, f).alive = l
      /\ Faulted(s, f).eof_reached = s.eof_reached
  BY <1>3 DEF PFCState
<1>7. Navigates(Faulted(s, f))
  BY <1>6 DEF Navigates
<1>8. ~Grounded(Faulted(s, f)) => ~Grounded(s)
  BY <1>4, <1>6 DEF Grounded
<1> QED
  BY <1>5, <1>6, <1>7, <1>8

-----------------------------------------------------------------------------
(* What every reaction leaves alone                                        *)

\* What a reaction may trigger at its own tag.
Triggered == ({"fault", "trans", "capture"} \X PFC) \cup {<<"pfcds", 0>>}

LEMMA ReactionTypes ==
  /\ Triggered \subseteq Reaction
  /\ <<"vote", 0>> \in Reaction /\ <<"fman", 0>> \in Reaction /\ <<"pfcds", 0>> \in Reaction
  /\ \A p \in PFC : /\ <<"startup", p>> \in Reaction /\ <<"fault", p>> \in Reaction
                    /\ <<"tick", p>> \in Reaction /\ <<"shutdown", p>> \in Reaction
                    /\ <<"trans", p>> \in Reaction /\ <<"capture", p>> \in Reaction
BY DEF Triggered, Reaction, PFCReaction

\* A reaction triggers no startup, tick, shutdown or vote.
LEMMA ReactFacts ==
  ASSUME NEW r, NEW then \in SUBSET Triggered, React(r, then), TypeOK
  PROVE  /\ r \in pending /\ \A q \in pending : Level(r) <= Level(q)
         /\ time' = time /\ microstep' = microstep /\ running' = running
         /\ pending' \subseteq Reaction
         /\ \A p \in PFC : /\ <<"startup", p>> \in pending' <=> <<"startup", p>> \in pending \ {r}
                           /\ <<"tick", p>> \in pending' <=> <<"tick", p>> \in pending \ {r}
                           /\ <<"shutdown", p>> \in pending' <=> <<"shutdown", p>> \in pending \ {r}
         /\ <<"vote", 0>> \in pending' <=> <<"vote", 0>> \in pending \ {r}
         /\ <<"pfcds", 0>> \in pending' <=>
              <<"pfcds", 0>> \in pending \ {r} \/ <<"pfcds", 0>> \in then
<1>1. /\ r \in pending /\ \A q \in pending : Level(r) <= Level(q)
      /\ time' = time /\ microstep' = microstep /\ running' = running
      /\ pending' = (pending \ {r}) \cup then
  BY DEF React, Ready, timing
<1>2. pending' \subseteq Reaction
  BY <1>1, ReactionTypes DEF TypeOK
<1>3. /\ <<"vote", 0>> \notin then
      /\ \A p \in PFC : /\ <<"startup", p>> \notin then /\ <<"tick", p>> \notin then
                        /\ <<"shutdown", p>> \notin then
  BY DEF Triggered
<1> QED
  BY <1>1, <1>2, <1>3

\* The stop tag and the votes keep their place while a tag is processed.
LEMMA TagKept ==
  ASSUME IInv, NEW r, NEW then \in SUBSET Triggered, React(r, then),
         <<"pfcds", 0>> \in then => r = <<"vote", 0>>, stop_tag' = stop_tag
  PROVE  StopAhead' /\ VotesBetweenTicks'
<1>1. time' = time /\ microstep' = microstep /\ r \in pending
  BY ReactFacts DEF IInv
<1>2. StopAhead'
  BY <1>1 DEF IInv, StopAhead
<1>3. <<"vote", 0>> \in pending' \/ <<"pfcds", 0>> \in pending' =>
        <<"vote", 0>> \in pending \/ <<"pfcds", 0>> \in pending
  BY <1>1, ReactFacts DEF IInv
<1>4. VotesBetweenTicks'
  BY <1>1, <1>3 DEF IInv, VotesBetweenTicks
<1> QED
  BY <1>2, <1>4

\* A reaction other than a vote and PFCDS keeps an emergency verdict held.
LEMMA EmergencyKept ==
  ASSUME IInv, NEW r, NEW then \in SUBSET Triggered, React(r, then),
         r # <<"pfcds", 0>>, UNCHANGED <<stop_tag, status, report>>
  PROVE  EmergencyHeld'
<1>1. time' = time /\ (<<"pfcds", 0>> \in pending => <<"pfcds", 0>> \in pending')
  BY ReactFacts DEF IInv
<1> QED
  BY <1>1 DEF IInv, EmergencyHeld

\* A reaction of another reactor leaves the computers where they are.
LEMMA ComputersKept ==
  ASSUME IInv, NEW r, NEW then \in SUBSET Triggered, React(r, then),
         \A p \in PFC : r \notin {<<"startup", p>>, <<"tick", p>>}, UNCHANGED <<pfc, stop_tag>>
  PROVE  /\ \A p \in PFC : Navigates(pfc[p])'
         /\ StartsBeforeTick' /\ OnSample' /\ ClosesAtStop' /\ NoReadAfterClose'
<1>1. /\ time' = time /\ microstep' = microstep /\ r \in pending
      /\ \A p \in PFC :
           /\ <<"startup", p>> \in pending' <=> <<"startup", p>> \in pending
           /\ <<"tick", p>> \in pending' <=> <<"tick", p>> \in pending
           /\ <<"shutdown", p>> \in pending' => <<"shutdown", p>> \in pending
  BY ReactFacts DEF IInv
<1>2. \A p \in PFC : Navigates(pfc[p])'
  BY DEF IInv, Navigates, TrueSpeed
<1>3. StartsBeforeTick'
  BY <1>1 DEF IInv, StartsBeforeTick
<1>4. OnSample'
  BY <1>1 DEF IInv, OnSample, Grounded, Ticked, Sample
<1>5. ClosesAtStop' /\ NoReadAfterClose'
  BY <1>1 DEF IInv, ClosesAtStop, NoReadAfterClose
<1> QED
  BY <1>2, <1>3, <1>4, <1>5

-----------------------------------------------------------------------------
(* The reactions of a computer                                             *)

\* What the parts of IInv about computers need of a step of computer p.
LEMMA ComputerMoves ==
  ASSUME IInv, NEW p \in PFC, NEW r, NEW then \in SUBSET Triggered, React(r, then),
         NEW s \in PFCState, Navigates(s), pfc' = [pfc EXCEPT ![p] = s]
  PROVE  /\ pfc' \in [PFC -> PFCState] /\ pfc'[p] = s
         /\ \A q \in PFC \ {p} : pfc'[q] = pfc[q]
         /\ \A q \in PFC : Navigates(pfc[q])'
<1>1. /\ pfc' \in [PFC -> PFCState] /\ pfc'[p] = s
      /\ \A q \in PFC \ {p} : pfc'[q] = pfc[q]
  BY DEF IInv, TypeOK
<1>2. \A q \in PFC : Navigates(pfc'[q])
  BY <1>1 DEF IInv
<1> QED
  BY <1>1, <1>2 DEF Navigates, TrueSpeed

LEMMA StartupInv == ASSUME IInv, NEW p \in PFC, Startup(p) PROVE IInv'
<1> DEFINE r == <<"startup", p>>
<1>1. React(r, {}) /\ {} \in SUBSET Triggered /\ r # <<"pfcds", 0>>
  BY DEF Startup
<1>2. PICK found \in {"NULL", "open"} : pfc' = [pfc EXCEPT ![p].fp = found]
  BY DEF Startup
<1> DEFINE s == [pfc[p] EXCEPT !.fp = found]
<1>3. s \in PFCState /\ Navigates(s) /\ s.fp = found /\ s.line = pfc[p].line
  BY <1>2, SMTT(30) DEF IInv, TypeOK, PFCState, Navigates
<1>4. pfc' = [pfc EXCEPT ![p] = s]
  BY <1>2
<1> HIDE DEF s
<1>5. /\ pfc' \in [PFC -> PFCState] /\ pfc'[p] = s
      /\ \A q \in PFC \ {p} : pfc'[q] = pfc[q]
      /\ \A q \in PFC : Navigates(pfc[q])'
  BY <1>1, <1>3, <1>4, ComputerMoves
<1>6. /\ time' = time /\ microstep' = microstep /\ r \in pending
      /\ pending' \subseteq Reaction /\ running' = running
      /\ \A q \in PFC :
           /\ <<"startup", q>> \in pending' <=> <<"startup", q>> \in pending \ {r}
           /\ <<"tick", q>> \in pending' <=> <<"tick", q>> \in pending \ {r}
           /\ <<"shutdown", q>> \in pending' <=> <<"shutdown", q>> \in pending \ {r}
  BY <1>1, ReactFacts DEF IInv
<1>7. time = 0 /\ pfc[p].line = 0 /\ <<"tick", p>> \in pending
  BY <1>6 DEF IInv, StartsBeforeTick
<1>8. TypeOK'
  BY <1>5, <1>6 DEF IInv, TypeOK, Startup
<1>9. StartsBeforeTick'
  BY <1>3, <1>5, <1>6 DEF IInv, StartsBeforeTick
<1>10. OnSample'
  <2>1. ~Ticked(p)' /\ Sample' = 0 /\ pfc'[p].line = 0
    <3>1. <<"tick", p>> \in pending'
      BY <1>6, <1>7
    <3>2. 0 \div 2 = 0
      OBVIOUS
    <3> QED
      BY <1>3, <1>5, <1>6, <1>7, <3>1, <3>2 DEF Ticked, Sample
  <2>2. \A q \in PFC \ {p} : Ticked(q)' <=> Ticked(q)
    BY <1>6 DEF Ticked
  <2> QED
    BY <1>5, <1>6, <2>1, <2>2 DEF IInv, OnSample, Grounded, Sample
<1>11. ClosesAtStop' /\ NoReadAfterClose'
  BY <1>2, <1>3, <1>5, <1>6 DEF IInv, ClosesAtStop, NoReadAfterClose, Startup
<1>12. StopAhead' /\ VotesBetweenTicks'
  BY <1>1, TagKept DEF Startup
<1>13. EmergencyHeld'
  BY <1>1, EmergencyKept DEF Startup
<1> QED
  BY <1>5, <1>8, <1>9, <1>10, <1>11, <1>12, <1>13 DEF IInv

LEMMA HandleFaultInv == ASSUME IInv, NEW p \in PFC, HandleFault(p) PROVE IInv'
<1> DEFINE r == <<"fault", p>>
<1> DEFINE s == Faulted(pfc[p], fault[p])
<1>1. React(r, {}) /\ {} \in SUBSET Triggered /\ r # <<"pfcds", 0>>
  BY DEF HandleFault
<1>2. pfc' = [pfc EXCEPT ![p] = s]
  BY DEF HandleFault
<1>3. /\ s \in PFCState /\ Navigates(s) /\ s.line = pfc[p].line /\ s.fp = pfc[p].fp
      /\ ~Grounded(s) => ~Grounded(pfc[p])
  BY FaultedNavigates DEF IInv, TypeOK
<1> HIDE DEF s
<1>5. /\ pfc' \in [PFC -> PFCState] /\ pfc'[p] = s
      /\ \A q \in PFC \ {p} : pfc'[q] = pfc[q]
      /\ \A q \in PFC : Navigates(pfc[q])'
  BY <1>1, <1>2, <1>3, ComputerMoves
<1>6. /\ time' = time /\ microstep' = microstep /\ r \in pending
      /\ pending' \subseteq Reaction /\ running' = running
      /\ \A q \in PFC :
           /\ <<"startup", q>> \in pending' <=> <<"startup", q>> \in pending
           /\ <<"tick", q>> \in pending' <=> <<"tick", q>> \in pending
           /\ <<"shutdown", q>> \in pending' <=> <<"shutdown", q>> \in pending
  BY <1>1, ReactFacts DEF IInv
<1>7. TypeOK'
  BY <1>5, <1>6 DEF IInv, TypeOK, HandleFault
<1>8. StartsBeforeTick'
  BY <1>3, <1>5, <1>6 DEF IInv, StartsBeforeTick
<1>9. OnSample'
  <2>1. \A q \in PFC : Ticked(q)' <=> Ticked(q)
    BY <1>6 DEF Ticked
  <2>2. \A q \in PFC : pfc'[q].line = pfc[q].line /\ (~Grounded(pfc'[q]) => ~Grounded(pfc[q]))
    BY <1>3, <1>5
  <2> QED
    BY <1>6, <2>1, <2>2 DEF IInv, OnSample, Grounded, Sample
<1>10. ClosesAtStop' /\ NoReadAfterClose'
  BY <1>3, <1>5, <1>6 DEF IInv, ClosesAtStop, NoReadAfterClose, HandleFault
<1>11. StopAhead' /\ VotesBetweenTicks'
  BY <1>1, TagKept DEF HandleFault
<1>12. EmergencyHeld'
  BY <1>1, EmergencyKept DEF HandleFault
<1> QED
  BY <1>5, <1>7, <1>8, <1>9, <1>10, <1>11, <1>12 DEF IInv

\* What the four outcomes of reaction(t) have in common.
LEMMA TickParts ==
  ASSUME IInv, NEW p \in PFC, NEW then \in SUBSET Triggered,
         React(<<"tick", p>>, then), <<"pfcds", 0>> \notin then,
         NEW s \in PFCState, Navigates(s), pfc' = [pfc EXCEPT ![p] = s],
         s.fp = pfc[p].fp,
         ~Grounded(s) => ~Grounded(pfc[p]) /\ s.line = pfc[p].line + 1,
         UNCHANGED <<stop_tag, status, report>>, TypeOK'
  PROVE  IInv'
<1> DEFINE r == <<"tick", p>>
<1>1. /\ pfc' \in [PFC -> PFCState] /\ pfc'[p] = s
      /\ \A q \in PFC \ {p} : pfc'[q] = pfc[q]
      /\ \A q \in PFC : Navigates(pfc[q])'
  BY ComputerMoves
<1>2. /\ time' = time /\ microstep' = microstep /\ r \in pending
      /\ \A q \in pending : Level(r) <= Level(q)
      /\ \A q \in PFC :
           /\ <<"startup", q>> \in pending' <=> <<"startup", q>> \in pending
           /\ <<"tick", q>> \in pending' <=> <<"tick", q>> \in pending \ {r}
           /\ <<"shutdown", q>> \in pending' <=> <<"shutdown", q>> \in pending
  BY ReactFacts DEF IInv
<1>3. <<"startup", p>> \notin pending
  <2>1. Level(<<"tick", p>>) = 3 /\ Level(<<"startup", p>>) = 0
    BY Levels
  <2> QED
    BY <1>2, <2>1
<1>4. StartsBeforeTick'
  BY <1>1, <1>2, <1>3 DEF IInv, StartsBeforeTick
<1>5. OnSample'
  <2>1. ~Ticked(p) /\ Ticked(p)'
    BY <1>2, <1>3 DEF Ticked
  <2>2. \A q \in PFC \ {p} : Ticked(q)' <=> Ticked(q)
    BY <1>2 DEF Ticked
  <2>3. Sample' = Sample
    BY <1>2 DEF Sample
  <2>4. ~Grounded(pfc'[p]) => pfc'[p].line = Sample + 1
    BY <1>1, <2>1 DEF IInv, OnSample
  <2>5. \A q \in PFC \ {p} : ~Grounded(pfc'[q]) =>
          pfc'[q].line = IF Ticked(q)' THEN Sample + 1 ELSE Sample
    BY <1>1, <2>2 DEF IInv, OnSample
  <2> QED
    BY <2>1, <2>3, <2>4, <2>5 DEF OnSample, Grounded
<1>6. ClosesAtStop' /\ NoReadAfterClose'
  BY <1>1, <1>2 DEF IInv, ClosesAtStop, NoReadAfterClose
<1>7. StopAhead' /\ VotesBetweenTicks'
  BY TagKept
<1>8. EmergencyHeld'
  BY EmergencyKept
<1> QED
  BY <1>1, <1>4, <1>5, <1>6, <1>7, <1>8 DEF IInv

\* A tick of a grounded computer, the end of the file, and a stopped one.
LEMMA SilentTickInv ==
  ASSUME IInv, NEW p \in PFC, TickGrounded(p) \/ TickEndOfFile(p) \/ TickStopped(p)
  PROVE  IInv'
<1>1. pfc[p] \in PFCState /\ Navigates(pfc[p]) /\ pfc \in [PFC -> PFCState]
  BY DEF IInv, TypeOK
<1>2. /\ React(<<"tick", p>>, {}) /\ {} \in SUBSET Triggered /\ <<"pfcds", 0>> \notin {}
      /\ UNCHANGED <<wes, fault, speed_out, out, status, stop_tag, report>>
  BY DEF TickGrounded, TickEndOfFile, TickStopped
<1>3. PICK s \in PFCState :
        /\ Navigates(s) /\ pfc' = [pfc EXCEPT ![p] = s] /\ s.fp = pfc[p].fp
        /\ ~Grounded(s) => ~Grounded(pfc[p]) /\ s.line = pfc[p].line + 1
  <2>1. CASE TickGrounded(p)
    <3>1. pfc' = [pfc EXCEPT ![p] = pfc[p]] /\ Grounded(pfc[p])
      BY <1>1, <2>1 DEF TickGrounded
    <3> QED
      BY <1>1, <3>1
  <2>2. CASE TickEndOfFile(p)
    <3> DEFINE s == [pfc[p] EXCEPT !.eof_reached = TRUE]
    <3>1. s \in PFCState /\ Navigates(s) /\ s.fp = pfc[p].fp /\ Grounded(s)
      BY <1>1 DEF PFCState, Navigates, Grounded
    <3>2. pfc' = [pfc EXCEPT ![p] = s]
      BY <2>2 DEF TickEndOfFile
    <3> QED
      BY <3>1, <3>2
  <2>3. CASE TickStopped(p)
    <3>1. pfc[p].line < Samples /\ ~Grounded(pfc[p]) /\ pfc' = [pfc EXCEPT ![p] = Advanced(pfc[p])]
      BY <2>3 DEF TickStopped
    <3> QED
      BY <1>1, <3>1, AdvancedNavigates
  <2> QED
    BY <2>1, <2>2, <2>3
<1>4. TypeOK'
  <2>1. pfc' \in [PFC -> PFCState]
    BY <1>1, <1>3
  <2>2. pending' \subseteq Reaction /\ UNCHANGED <<time, microstep, running>>
    BY <1>2, ReactFacts DEF IInv
  <2> QED
    BY <1>2, <2>1, <2>2 DEF IInv, TypeOK
<1> QED
  BY <1>2, <1>3, <1>4, TickParts

LEMMA TickSendInv == ASSUME IInv, NEW p \in PFC, TickSend(p) PROVE IInv'
<1> DEFINE then == {<<"trans", p>>}
           b == BiasAfterSend(pfc[p])
           s == [Advanced(pfc[p]) EXCEPT !.bias = b]
<1>1. pfc[p] \in PFCState /\ Navigates(pfc[p]) /\ pfc \in [PFC -> PFCState]
  BY DEF IInv, TypeOK
<1>2. /\ React(<<"tick", p>>, then) /\ then \in SUBSET Triggered /\ <<"pfcds", 0>> \notin then
      /\ UNCHANGED <<wes, fault, out, status, stop_tag, report>>
      /\ pfc[p].line < Samples /\ ~Grounded(pfc[p]) /\ pfc' = [pfc EXCEPT ![p] = s]
  BY DEF TickSend, Triggered
<1>3. /\ Advanced(pfc[p]) \in PFCState /\ Navigates(Advanced(pfc[p]))
      /\ Advanced(pfc[p]).line = pfc[p].line + 1
      /\ Advanced(pfc[p]).fp = pfc[p].fp
      /\ Nominal(pfc[p]) \in Nat
  BY <1>1, <1>2, AdvancedNavigates, NominalNavigates
<1>4. /\ s \in PFCState /\ Navigates(s) /\ s.fp = pfc[p].fp /\ s.line = pfc[p].line + 1
  <2>1. b \in BOOLEAN
    BY DEF BiasAfterSend
  <2> HIDE DEF b
  <2> QED
    BY <1>3, <2>1 DEF PFCState, Navigates
<1>5. TypeOK'
  <2>1. pfc' \in [PFC -> PFCState]
    BY <1>1, <1>2, <1>4
  <2>2. pending' \subseteq Reaction /\ UNCHANGED <<time, microstep, running>>
    BY <1>2, ReactFacts DEF IInv
  <2> DEFINE v == IF pfc[p].bias THEN apply_bias(Nominal(pfc[p])) ELSE Nominal(pfc[p])
             c == pfc[p].counter + 1
  <2>3. v \in Nat /\ c \in Int
    BY <1>1, <1>3, BiasType DEF PFCState
  <2>4. speed_out' = [speed_out EXCEPT ![p] = [counter |-> c, speed |-> v, valid |-> TRUE]]
    BY DEF TickSend
  <2> HIDE DEF v, c
  <2>5. speed_out' \in [PFC -> SpeedMsg]
    BY <2>3, <2>4 DEF IInv, TypeOK, SpeedMsg
  <2> QED
    BY <1>2, <2>1, <2>2, <2>5 DEF IInv, TypeOK
<1> HIDE DEF s, then
<1> QED
  BY <1>2, <1>4, <1>5, TickParts

\* The file is closed when no computer has a tick left.
LEMMA ShutdownInv == ASSUME IInv, NEW p \in PFC, Shutdown(p) PROVE IInv'
<1> DEFINE r == <<"shutdown", p>>
           f == IF pfc[p].fp = "NULL" THEN pfc[p].fp ELSE "closed"
           s == [pfc[p] EXCEPT !.fp = f]
<1>1. React(r, {}) /\ {} \in SUBSET Triggered /\ r # <<"pfcds", 0>>
  BY DEF Shutdown
<1>2. pfc' = [pfc EXCEPT ![p] = s]
  BY DEF Shutdown
<1>3. /\ f \in {"NULL", "open", "closed"}
      /\ f = "NULL" <=> pfc[p].fp = "NULL"
  BY DEF IInv, TypeOK, PFCState
<1>4. /\ s \in PFCState /\ Navigates(s) /\ s.line = pfc[p].line /\ s.fp = f
      /\ Grounded(s) <=> Grounded(pfc[p])
  <2> HIDE DEF f
  <2> QED
    BY <1>3 DEF IInv, TypeOK, PFCState, Navigates, Grounded
<1> HIDE DEF s
<1>5. /\ pfc' \in [PFC -> PFCState] /\ pfc'[p] = s
      /\ \A q \in PFC \ {p} : pfc'[q] = pfc[q]
      /\ \A q \in PFC : Navigates(pfc[q])'
  BY <1>1, <1>2, <1>4, ComputerMoves
<1>6. /\ time' = time /\ microstep' = microstep /\ r \in pending
      /\ \A q \in pending : Level(r) <= Level(q)
      /\ pending' \subseteq Reaction /\ running' = running
      /\ \A q \in PFC :
           /\ <<"startup", q>> \in pending' <=> <<"startup", q>> \in pending
           /\ <<"tick", q>> \in pending' <=> <<"tick", q>> \in pending
           /\ <<"shutdown", q>> \in pending' => <<"shutdown", q>> \in pending
  BY <1>1, ReactFacts DEF IInv
<1>7. TypeOK'
  BY <1>5, <1>6 DEF IInv, TypeOK, Shutdown
<1>8. StartsBeforeTick'
  BY <1>4, <1>5, <1>6 DEF IInv, StartsBeforeTick
<1>9. OnSample'
  <2>1. \A q \in PFC : Ticked(q)' <=> Ticked(q)
    BY <1>6 DEF Ticked
  <2>2. \A q \in PFC : pfc'[q].line = pfc[q].line /\ (Grounded(pfc'[q]) <=> Grounded(pfc[q]))
    BY <1>4, <1>5
  <2> QED
    BY <1>6, <2>1, <2>2 DEF IInv, OnSample, Grounded, Sample
<1>10. ClosesAtStop'
  BY <1>5, <1>6 DEF IInv, ClosesAtStop, Shutdown
<1>11. NoReadAfterClose'
  <2>1. \A q \in PFC : <<"tick", q>> \notin pending
    <3> SUFFICES ASSUME NEW q \in PFC, <<"tick", q>> \in pending PROVE FALSE
      OBVIOUS
    <3>1. Level(<<"shutdown", p>>) = 4 /\ Level(<<"tick", q>>) = 3
      BY Levels
    <3>2. Level(<<"shutdown", p>>) <= Level(<<"tick", q>>)
      BY <1>6
    <3> QED
      BY <3>1, <3>2
  <2> QED
    BY <1>6, <2>1 DEF NoReadAfterClose
<1>12. StopAhead' /\ VotesBetweenTicks'
  BY <1>1, TagKept DEF Shutdown
<1>13. EmergencyHeld'
  BY <1>1, EmergencyKept DEF Shutdown
<1> QED
  BY <1>5, <1>7, <1>8, <1>9, <1>10, <1>11, <1>12, <1>13 DEF IInv

-----------------------------------------------------------------------------
(* The other reactors                                                      *)

\* What a step of another reactor has to show for itself.
LEMMA OthersInv ==
  ASSUME IInv, NEW r, NEW then \in SUBSET Triggered, React(r, then),
         r \in ({"fman", "vote", "pfcds"} \X {0}) \cup ({"trans", "capture"} \X PFC),
         <<"pfcds", 0>> \in then => r = <<"vote", 0>>,
         UNCHANGED <<pfc, stop_tag>>, TypeOK', EmergencyHeld'
  PROVE  IInv'
<1>1. \A p \in PFC : r \notin {<<"startup", p>>, <<"tick", p>>}
  OBVIOUS
<1> QED
  BY <1>1, ComputersKept, TagKept DEF IInv

LEMMA ForwardInv == ASSUME IInv, NEW p \in PFC, Forward(p) PROVE IInv'
<1> DEFINE then == {<<"capture", p>>}
<1>1. /\ React(<<"trans", p>>, then) /\ then \in SUBSET Triggered /\ <<"pfcds", 0>> \notin then
      /\ <<"trans", p>> # <<"pfcds", 0>>
      /\ UNCHANGED <<pfc, wes, fault, speed_out, status, stop_tag, report>>
      /\ out' = [out EXCEPT ![p] = speed_out[p]]
  BY DEF Forward, Triggered
<1> HIDE DEF then
<1>2. TypeOK'
  BY <1>1, ReactFacts DEF IInv, TypeOK
<1>3. EmergencyHeld'
  BY <1>1, EmergencyKept
<1> QED
  BY <1>1, <1>2, <1>3, OthersInv

LEMMA CaptureInv == ASSUME IInv, NEW p \in PFC, Capture(p) PROVE IInv'
<1>1. /\ React(<<"capture", p>>, {}) /\ {} \in SUBSET Triggered /\ <<"pfcds", 0>> \notin {}
      /\ <<"capture", p>> # <<"pfcds", 0>>
      /\ UNCHANGED <<pfc, fault, speed_out, out, status, stop_tag, report>>
      /\ wes' = [last |-> [wes.last EXCEPT ![p] = out[p]],
                 has |-> [wes.has EXCEPT ![p] = TRUE]]
  BY DEF Capture
<1>2. TypeOK'
  BY <1>1, ReactFacts DEF IInv, TypeOK
<1>3. EmergencyHeld'
  BY <1>1, EmergencyKept
<1> QED
  BY <1>1, <1>2, <1>3, OthersInv

LEMMA VoteType == \A m, has : WESVote(m, has) \in Status \cup {"NONE"}
BY DEF WESVote, PairwiseDecision, Status

LEMMA ReportType ==
  ASSUME NEW v \in Status \cup {"NONE"}
  PROVE  /\ Reported(v) \in [lane : [PFC -> {"good", "missing", "corrupt"}],
                             killed : SUBSET PFC, verdict : Status \cup {"NONE"}]
         /\ Reported(v).verdict = v
<1>1. \A p \in PFC : ConditionOf(p) \in {"good", "missing", "corrupt"}
  BY DEF ConditionOf
<1> QED
  BY <1>1 DEF Reported

LEMMA VoteSilentInv == ASSUME IInv, VoteSilent PROVE IInv'
<1>1. /\ React(<<"vote", 0>>, {}) /\ {} \in SUBSET Triggered /\ <<"pfcds", 0>> \notin {}
      /\ UNCHANGED <<pfc, wes, fault, speed_out, out, status, stop_tag>>
      /\ report' = Reported("NONE")
  BY DEF VoteSilent
<1>2. TypeOK'
  BY <1>1, ReactFacts, ReportType DEF IInv, TypeOK
<1>3. EmergencyHeld'
  BY <1>1, ReportType DEF EmergencyHeld
<1> QED
  BY <1>1, <1>2, <1>3, OthersInv

LEMMA VoteInv == ASSUME IInv, Vote PROVE IInv'
<1> DEFINE then == {<<"pfcds", 0>>}
           result == WESVote(wes.last, wes.has)
<1>1. /\ React(<<"vote", 0>>, then) /\ then \in SUBSET Triggered
      /\ UNCHANGED <<pfc, fault, speed_out, out, stop_tag>>
      /\ result # "NONE" /\ status' = result /\ report' = Reported(result)
      /\ wes' = [wes EXCEPT !.has = HasAfterVote(wes.has)]
  BY DEF Vote, Triggered
<1>2. result \in Status
  BY <1>1, VoteType
<1>3. report'.verdict = result
  BY <1>1, <1>2, ReportType
<1> HIDE DEF result
<1>4. TypeOK'
  <2>1. wes' \in [last : [PFC -> SpeedMsg], has : [PFC -> BOOLEAN]]
    BY <1>1 DEF IInv, TypeOK, HasAfterVote
  <2> QED
    BY <1>1, <1>2, <2>1, ReactFacts, ReportType DEF IInv, TypeOK
<1>5. EmergencyHeld'
  BY <1>1, <1>3, ReactFacts DEF IInv, EmergencyHeld
<1> HIDE DEF then
<1> QED
  BY <1>1, <1>4, <1>5, OthersInv

LEMMA GenerateFaultsInv == ASSUME IInv, GenerateFaults PROVE IInv'
<1> DEFINE then == FaultReactions(fault')
<1>1. /\ React(<<"fman", 0>>, then) /\ <<"fman", 0>> # <<"pfcds", 0>>
      /\ UNCHANGED <<pfc, wes, speed_out, out, status, stop_tag, report>>
      /\ fault' \in FaultPorts
  BY DEF GenerateFaults
<1>2. then \in SUBSET Triggered /\ <<"pfcds", 0>> \notin then
  BY DEF FaultReactions, Triggered
<1>3. fault' \in [PFC -> FaultMsg]
  <2>1. NoFaults \in [PFC -> FaultMsg]
    BY DEF NoFaults, NoFault, FaultMsg
  <2>2. PICK selected \in PFC, msg \in FaultMsg : fault' = [NoFaults EXCEPT ![selected] = msg]
    BY <1>1 DEF FaultPorts, FaultOn
  <2> QED
    BY <2>1, <2>2
<1> HIDE DEF then
<1>4. TypeOK'
  BY <1>1, <1>2, <1>3, ReactFacts DEF IInv, TypeOK
<1>5. EmergencyHeld'
  BY <1>1, <1>2, EmergencyKept
<1> QED
  BY <1>1, <1>2, <1>4, <1>5, OthersInv

\* The stop is requested at a vote, when the stop tag is still ahead.
LEMMA DisconnectInv == ASSUME IInv, Disconnect PROVE IInv'
<1> DEFINE r == <<"pfcds", 0>>
<1>1. /\ React(r, {}) /\ {} \in SUBSET Triggered /\ <<"pfcds", 0>> \notin {}
      /\ UNCHANGED <<pfc, wes, fault, speed_out, out, status, report>>
      /\ stop_tag' = IF status = "EMERGENCY" THEN <<time, microstep + 1>> ELSE stop_tag
  BY DEF Disconnect, RequestedStopTag
<1>2. /\ time' = time /\ microstep' = microstep /\ r \in pending
      /\ pending' \subseteq Reaction /\ running' = running
      /\ \A q \in PFC :
           /\ <<"startup", q>> \in pending' <=> <<"startup", q>> \in pending
           /\ <<"tick", q>> \in pending' <=> <<"tick", q>> \in pending
           /\ <<"shutdown", q>> \in pending' => <<"shutdown", q>> \in pending
      /\ <<"vote", 0>> \in pending' => <<"vote", 0>> \in pending
  BY <1>1, ReactFacts DEF IInv
<1>3. time \in Nat /\ microstep \in Nat /\ time % 2 = 1 /\ microstep = 0
  BY <1>2 DEF IInv, TypeOK, VotesBetweenTicks
<1>4. CASE status # "EMERGENCY"
  <2>1. stop_tag' = stop_tag
    BY <1>1, <1>4
  <2>2. TypeOK'
    BY <1>1, <1>2, <2>1 DEF IInv, TypeOK
  <2>3. EmergencyHeld'
    BY <1>1, <1>2, <1>4, <2>1 DEF IInv, EmergencyHeld
  <2> QED
    BY <1>1, <2>1, <2>2, <2>3, OthersInv
<1>5. CASE status = "EMERGENCY"
  <2>1. stop_tag' = <<time, 1>>
    BY <1>1, <1>3, <1>5
  <2>2. TypeOK'
    BY <1>1, <1>2, <1>3, <2>1 DEF IInv, TypeOK
  <2>3. \A p \in PFC : Navigates(pfc[p])'
    BY <1>1 DEF IInv, Navigates, TrueSpeed
  <2>4. StartsBeforeTick' /\ NoReadAfterClose'
    BY <1>1, <1>2 DEF IInv, StartsBeforeTick, NoReadAfterClose
  <2>5. OnSample'
    BY <1>1, <1>2 DEF IInv, OnSample, Ticked, Grounded, Sample
  <2>6. StopAhead'
    BY <1>2, <1>3, <2>1 DEF StopAhead
  <2>7. VotesBetweenTicks'
    BY <1>2, <1>3 DEF VotesBetweenTicks
  <2>8. ClosesAtStop'
    <3>1. stop_tag # <<time, microstep>>
      <4>1. (2 * Timeout) % 2 = 0
        BY FBWAssumption
      <4> QED
        BY <1>3, <4>1 DEF IInv, StopAhead
    <3>2. \A p \in PFC : <<"shutdown", p>> \notin pending /\ pfc[p].fp # "closed"
      BY <3>1 DEF IInv, ClosesAtStop
    <3> QED
      BY <1>1, <1>2, <3>2 DEF ClosesAtStop
  <2>9. EmergencyHeld'
    BY <1>2, <2>1 DEF EmergencyHeld
  <2> QED
    BY <2>2, <2>3, <2>4, <2>5, <2>6, <2>7, <2>8, <2>9 DEF IInv
<1> QED
  BY <1>4, <1>5

-----------------------------------------------------------------------------
(* Tags                                                                    *)

\* The next tag is later than this one and not later than the stop tag; the
\* timers fire at it only if time moves on.
LEMMA NextTagFacts ==
  ASSUME IInv, <<time, microstep>> # stop_tag
  PROVE  /\ NextTag \in Nat \X Nat
         /\ NextTag = <<NextTag[1], NextTag[2]>>
         /\ NextTag[1] < stop_tag[1] \/ (NextTag[1] = stop_tag[1] /\ NextTag[2] <= stop_tag[2])
         /\ NextTag[2] = 0 => NextTag[1] = time + 1
         /\ NextTag[2] # 0 => NextTag[1] = time
         /\ stop_tag[1] = time => NextTag[1] = time
<1>1. /\ time \in Nat /\ microstep \in Nat /\ stop_tag \in Nat \X Nat
      /\ stop_tag = <<stop_tag[1], stop_tag[2]>> /\ stop_tag[1] \in Nat /\ stop_tag[2] \in Nat
  BY DEF IInv, TypeOK
<1>2. time < stop_tag[1] \/ (time = stop_tag[1] /\ microstep < stop_tag[2])
  BY <1>1 DEF IInv, StopAhead
<1>3. CASE stop_tag[1] = time
  <2>1. NextTag = stop_tag /\ stop_tag[2] # 0
    BY <1>1, <1>2, <1>3 DEF NextTag
  <2> QED
    BY <1>1, <1>3, <2>1
<1>4. CASE stop_tag[1] # time
  <2>1. NextTag = <<time + 1, 0>>
    BY <1>4 DEF NextTag
  <2> QED
    BY <1>1, <1>2, <1>4, <2>1
<1> QED
  BY <1>3, <1>4

\* The timers' reactions by the parity of the half second.
LEMMA TimerFacts ==
  ASSUME NEW h \in Nat
  PROVE  /\ TimersAt(h) \subseteq Reaction
         /\ <<"vote", 0>> \in TimersAt(h) <=> h % 2 = 1
         /\ <<"pfcds", 0>> \notin TimersAt(h)
         /\ \A p \in PFC : /\ <<"startup", p>> \notin TimersAt(h)
                           /\ <<"shutdown", p>> \notin TimersAt(h)
                           /\ <<"tick", p>> \in TimersAt(h) <=> h % 2 = 0
<1>1. h % 2 = 0 \/ h % 2 = 1
  OBVIOUS
<1>2. CASE h % 2 = 1
  <2>1. TimersAt(h) = {<<"vote", 0>>}
    BY <1>2 DEF TimersAt
  <2> QED
    BY <1>2, <2>1, ReactionTypes
<1>3. CASE h % 2 = 0
  <2>1. TimersAt(h) = ({"tick"} \X PFC) \cup (IF h >= 4 THEN {<<"fman", 0>>} ELSE {})
    BY <1>3 DEF TimersAt
  <2>2. TimersAt(h) \subseteq Reaction
    BY <2>1 DEF Reaction, PFCReaction
  <2>3. \A p \in PFC : /\ <<"startup", p>> \notin TimersAt(h)
                       /\ <<"shutdown", p>> \notin TimersAt(h)
                       /\ <<"tick", p>> \in TimersAt(h)
    BY <2>1
  <2>4. <<"vote", 0>> \notin TimersAt(h) /\ <<"pfcds", 0>> \notin TimersAt(h)
    BY <2>1
  <2> QED
    BY <1>3, <2>2, <2>3, <2>4
<1> QED
  BY <1>1, <1>2, <1>3

LEMMA AdvanceTagInv == ASSUME IInv, AdvanceTag PROVE IInv'
<1>1. /\ running /\ pending = {} /\ <<time, microstep>> # stop_tag
      /\ time' = NextTag[1] /\ microstep' = NextTag[2]
      /\ pending' = ShutdownsAt(NextTag)
                    \cup (IF NextTag[2] = 0 THEN TimersAt(NextTag[1]) ELSE {})
      /\ fault' = NoFaults
      /\ speed_out' = [p \in PFC |-> NoSpeed] /\ out' = [p \in PFC |-> NoSpeed]
      /\ status' = "NONE"
      /\ UNCHANGED <<pfc, wes, stop_tag, running, report>>
  BY DEF AdvanceTag
<1> DEFINE h == NextTag[1]
           m == NextTag[2]
<1>2. /\ h \in Nat /\ m \in Nat /\ NextTag = <<h, m>> /\ time' = h /\ microstep' = m
      /\ h < stop_tag[1] \/ (h = stop_tag[1] /\ m <= stop_tag[2])
      /\ m = 0 => h = time + 1
      /\ m # 0 => h = time
      /\ stop_tag[1] = time => h = time
  BY <1>1, NextTagFacts
<1>3. pending' = ShutdownsAt(<<h, m>>) \cup (IF m = 0 THEN TimersAt(h) ELSE {})
  BY <1>1, <1>2
<1> HIDE DEF h, m
<1>4. time \in Nat /\ stop_tag \in Nat \X Nat
  BY DEF IInv, TypeOK
<1>5. /\ ShutdownsAt(<<h, m>>) \subseteq Reaction
      /\ \A r \in ShutdownsAt(<<h, m>>) : <<h, m>> = stop_tag /\ r \in {"shutdown"} \X PFC
  <2>1. {"shutdown"} \X PFC \subseteq Reaction
    BY DEF Reaction, PFCReaction
  <2> QED
    BY <2>1 DEF ShutdownsAt
<1>6. /\ pending' \subseteq Reaction
      /\ <<"vote", 0>> \in pending' => m = 0 /\ h % 2 = 1
      /\ <<"pfcds", 0>> \notin pending'
      /\ \A p \in PFC : /\ <<"startup", p>> \notin pending'
                        /\ <<"tick", p>> \in pending' <=> m = 0 /\ h % 2 = 0
                        /\ <<"shutdown", p>> \in pending' => <<h, m>> = stop_tag
  <2>1. CASE m = 0
    BY <1>2, <1>3, <1>5, <2>1, TimerFacts
  <2>2. CASE m # 0
    <3>1. pending' = ShutdownsAt(<<h, m>>)
      BY <1>3, <2>2
    <3> QED
      BY <1>5, <2>2, <3>1
  <2> QED
    BY <2>1, <2>2
<1>7. TypeOK'
  <2>1. /\ NoFaults \in [PFC -> FaultMsg]
        /\ [p \in PFC |-> NoSpeed] \in [PFC -> SpeedMsg]
    BY DEF NoFaults, NoFault, FaultMsg, NoSpeed, SpeedMsg
  <2> QED
    BY <1>1, <1>2, <1>6, <2>1 DEF IInv, TypeOK
<1>8. \A p \in PFC : Navigates(pfc[p])'
  BY <1>1 DEF IInv, Navigates, TrueSpeed
<1>9. StartsBeforeTick'
  BY <1>6 DEF StartsBeforeTick
<1>10. OnSample'
  <2>1. \A p \in PFC : Ticked(p)
    BY <1>1 DEF Ticked
  <2>2. \A p \in PFC : ~Grounded(pfc[p]) => pfc[p].line = Sample + 1
    BY <2>1 DEF IInv, OnSample
  <2>3. \A p \in PFC : Ticked(p)' <=> ~(m = 0 /\ h % 2 = 0)
    BY <1>6 DEF Ticked
  <2>4. CASE m = 0 /\ h % 2 = 0
    <3>1. Sample' = Sample + 1
      <4>1. \A t \in Nat : (t + 1) % 2 = 0 => (t + 1) \div 2 = (t \div 2) + 1
        OBVIOUS
      <4> QED
        BY <1>2, <1>4, <2>4, <4>1 DEF Sample
    <3> QED
      BY <1>1, <2>2, <2>3, <2>4, <3>1 DEF OnSample, Grounded
  <2>5. CASE ~(m = 0 /\ h % 2 = 0)
    <3>1. Sample' = Sample
      <4>1. \A t \in Nat : (t + 1) % 2 # 0 => (t + 1) \div 2 = t \div 2
        OBVIOUS
      <4> QED
        BY <1>2, <1>4, <2>5, <4>1 DEF Sample
    <3> QED
      BY <1>1, <2>2, <2>3, <2>5, <3>1 DEF OnSample, Grounded
  <2> QED
    BY <2>4, <2>5
<1>11. StopAhead'
  BY <1>1, <1>2 DEF IInv, StopAhead
<1>12. VotesBetweenTicks'
  BY <1>2, <1>6 DEF VotesBetweenTicks
<1>13. \A p \in PFC : pfc'[p].fp # "closed"
  BY <1>1 DEF IInv, ClosesAtStop
<1>14. ClosesAtStop' /\ NoReadAfterClose'
  BY <1>1, <1>2, <1>6, <1>13 DEF ClosesAtStop, NoReadAfterClose
<1>15. EmergencyHeld'
  BY <1>1, <1>2 DEF IInv, EmergencyHeld
<1> QED
  BY <1>7, <1>8, <1>9, <1>10, <1>11, <1>12, <1>14, <1>15 DEF IInv

\* The end of the program changes nothing but running.
LEMMA StopInv ==
  ASSUME IInv, running' \in BOOLEAN,
         UNCHANGED <<pfc, wes, fault, speed_out, out, status, time, microstep,
                     stop_tag, pending, report>>
  PROVE  IInv'
<1>1. TypeOK'
  BY DEF IInv, TypeOK
<1>2. \A p \in PFC : Navigates(pfc[p])'
  BY DEF IInv, Navigates, TrueSpeed
<1>3. StartsBeforeTick' /\ StopAhead' /\ VotesBetweenTicks' /\ ClosesAtStop'
      /\ NoReadAfterClose' /\ EmergencyHeld'
  BY DEF IInv, StartsBeforeTick, StopAhead, VotesBetweenTicks, ClosesAtStop,
         NoReadAfterClose, EmergencyHeld
<1>4. OnSample'
  BY DEF IInv, OnSample, Grounded, Ticked, Sample
<1> QED
  BY <1>1, <1>2, <1>3, <1>4 DEF IInv

-----------------------------------------------------------------------------
(* The invariant                                                           *)

LEMMA InitInv == Init => IInv
<1> SUFFICES ASSUME Init PROVE IInv
  OBVIOUS
<1> USE FBWAssumption
<1>1. /\ pfc = [p \in PFC |-> NewPFC]
      /\ wes = [last |-> [p \in PFC |-> NoSpeed], has |-> [p \in PFC |-> FALSE]]
      /\ fault = NoFaults /\ speed_out = [p \in PFC |-> NoSpeed]
      /\ out = [p \in PFC |-> NoSpeed] /\ status = "NONE"
      /\ time = 0 /\ microstep = 0 /\ stop_tag = <<2 * Timeout, 0>>
      /\ pending = ({"startup"} \X PFC) \cup TimersAt(0)
                   \cup (IF Timeout = 0 THEN ({"shutdown"} \X PFC) ELSE {})
      /\ running = TRUE
      /\ report = [lane |-> [p \in PFC |-> "good"], killed |-> {}, verdict |-> "NONE"]
  BY DEF Init
<1>2. /\ NewPFC \in PFCState /\ NewPFC.fp = "NULL" /\ NewPFC.line = 0 /\ NewPFC.counter = -1
      /\ NewPFC.has_prev = FALSE /\ NewPFC.accumulated_speed = 0
  BY DEF NewPFC, PFCState
<1>3. 0 \in Nat /\ 0 % 2 = 0 /\ 2 * Timeout \in Nat
  OBVIOUS
<1>4. /\ TimersAt(0) \subseteq Reaction
      /\ <<"vote", 0>> \notin TimersAt(0) /\ <<"pfcds", 0>> \notin TimersAt(0)
      /\ \A p \in PFC : <<"tick", p>> \in TimersAt(0) /\ <<"shutdown", p>> \notin TimersAt(0)
  <2>1. TimersAt(0) = ({"tick"} \X PFC)
    BY <1>3 DEF TimersAt
  <2>2. TimersAt(0) \subseteq Reaction
    BY <2>1 DEF Reaction, PFCReaction
  <2> QED
    BY <2>1, <2>2
<1>5. /\ {"startup"} \X PFC \subseteq Reaction /\ {"shutdown"} \X PFC \subseteq Reaction
  BY DEF Reaction, PFCReaction
<1>6. TypeOK
  <2>1. /\ NoFaults \in [PFC -> FaultMsg]
        /\ [p \in PFC |-> NoSpeed] \in [PFC -> SpeedMsg]
    BY DEF NoFaults, NoFault, FaultMsg, NoSpeed, SpeedMsg
  <2>2. /\ pfc \in [PFC -> PFCState]
        /\ wes \in [last : [PFC -> SpeedMsg], has : [PFC -> BOOLEAN]]
        /\ report \in [lane : [PFC -> {"good", "missing", "corrupt"}],
                       killed : SUBSET PFC, verdict : Status \cup {"NONE"}]
    BY <1>1, <1>2, <2>1
  <2>3. pending \subseteq Reaction
    BY <1>1, <1>4, <1>5
  <2> QED
    BY <1>1, <1>3, <2>1, <2>2, <2>3 DEF TypeOK
<1>7. \A p \in PFC : Navigates(pfc[p])
  BY <1>1, <1>2 DEF Navigates
<1>8. StartsBeforeTick /\ VotesBetweenTicks
  BY <1>1, <1>2, <1>4 DEF StartsBeforeTick, VotesBetweenTicks
<1>9. OnSample /\ NoReadAfterClose
  BY <1>1, <1>2 DEF OnSample, NoReadAfterClose, Grounded
<1>10. StopAhead
  BY <1>1, <1>3 DEF StopAhead
<1>11. ClosesAtStop
  <2>1. \A p \in PFC : pfc[p].fp # "closed"
    BY <1>1, <1>2
  <2>2. CASE Timeout = 0
    <3>1. stop_tag = <<0, 0>>
      BY <1>1, <2>2
    <3> QED
      BY <1>1, <3>1 DEF ClosesAtStop
  <2>3. CASE Timeout # 0
    <3>1. \A p \in PFC : <<"shutdown", p>> \notin pending
      BY <1>1, <1>4, <2>3
    <3> QED
      BY <2>1, <3>1 DEF ClosesAtStop
  <2> QED
    BY <2>2, <2>3
<1>12. EmergencyHeld
  BY <1>1 DEF EmergencyHeld
<1> QED
  BY <1>6, <1>7, <1>8, <1>9, <1>10, <1>11, <1>12 DEF IInv

LEMMA NextInv == IInv /\ [Next]_vars => IInv'
<1> SUFFICES ASSUME IInv, [Next]_vars PROVE IInv'
  OBVIOUS
<1>1. CASE \E p \in PFC : PFCNext(p)
  BY <1>1, StartupInv, HandleFaultInv, SilentTickInv, TickSendInv, ShutdownInv
     DEF PFCNext
<1>2. CASE \E p \in PFC : Forward(p) \/ Capture(p)
  BY <1>2, ForwardInv, CaptureInv
<1>3. CASE VoteSilent \/ Vote \/ Disconnect
  BY <1>3, VoteSilentInv, VoteInv, DisconnectInv
<1>4. CASE AdvanceTag \/ GenerateFaults
  BY <1>4, AdvanceTagInv, GenerateFaultsInv
<1>5. CASE Stop
  BY <1>5, StopInv DEF Stop
<1>6. CASE UNCHANGED vars
  <2>1. running' \in BOOLEAN
    BY <1>6 DEF IInv, TypeOK, vars, timing
  <2> QED
    BY <1>6, <2>1, StopInv DEF vars, timing
<1> QED
  BY <1>1, <1>2, <1>3, <1>4, <1>5, <1>6 DEF Next, Rest, Stopped

LEMMA SpecInv == Spec => []IInv
BY InitInv, NextInv, PTL DEF Spec

-----------------------------------------------------------------------------
(* The theorems, for every flight                                          *)

\* Every variable keeps its type; in particular no internal or transmitted
\* speed is ever negative.
THEOREM TypeCorrect == Spec => []TypeOK
<1>1. IInv => TypeOK
  BY DEF IInv
<1> QED
  BY <1>1, SpecInv, PTL

\* Whatever faults it is sent, a computer that can still read has, once it has
\* ticked, the counter and the internal speed of the sample of this second.
THEOREM NeverOutOfStep == Spec => []KeepsNavigating
<1>1. IInv => KeepsNavigating
  <2> SUFFICES ASSUME IInv, NEW p \in PFC, ~Grounded(pfc[p]), Ticked(p)
               PROVE  pfc[p].counter = Sample /\ pfc[p].accumulated_speed = TrueSpeed(Sample)
    BY DEF KeepsNavigating
  <2>1. pfc[p].line = Sample + 1 /\ Navigates(pfc[p])
    BY DEF IInv, OnSample
  <2>2. Sample \in Nat
    BY DEF IInv, TypeOK, Sample
  <2>3. pfc[p].line - 1 = Sample /\ pfc[p].line > 0
    BY <2>1, <2>2
  <2> QED
    BY <2>1, <2>3 DEF Navigates
<1> QED
  BY <1>1, SpecInv, PTL

\* No tick reads a data file after the shutdown reaction closed it.
THEOREM FilesClosedLast == Spec => []NoReadAfterClose
<1>1. IInv => NoReadAfterClose
  BY DEF IInv
<1> QED
  BY <1>1, SpecInv, PTL

\* Once the voter has said EMERGENCY logical time does not move again.
THEOREM EmergencyIsFinal == Spec => EmergencyStopsTime
<1>1. IInv /\ [Next]_vars => [report.verdict = "EMERGENCY" => time' = time]_vars
  <2> SUFFICES ASSUME IInv, Next, report.verdict = "EMERGENCY" PROVE time' = time
    BY DEF vars, timing
  <2>1. CASE AdvanceTag
    <3>1. pending = {} /\ time' = NextTag[1]
      BY <2>1 DEF AdvanceTag
    <3>2. stop_tag[1] = time
      BY <3>1 DEF IInv, EmergencyHeld
    <3> QED
      BY <3>1, <3>2 DEF NextTag
  <2>2. CASE ~AdvanceTag
    <3>1. \A r, then : React(r, then) => time' = time
      BY DEF React, timing
    <3> QED
      BY <2>2, <3>1 DEF Next, PFCNext, Rest, Startup, HandleFault, TickGrounded,
         TickEndOfFile, TickStopped, TickSend, Shutdown, Forward, Capture,
         VoteSilent, Vote, Disconnect, GenerateFaults, Stop, Stopped, vars, timing
  <2> QED
    BY <2>1, <2>2
<1> QED
  BY <1>1, SpecInv, PTL DEF Spec, EmergencyStopsTime

-----------------------------------------------------------------------------
(* The invariant: order of the reactions                                   *)

Even == time % 2 = 0

\* Computers, faults, the Transducer and the captures run on whole seconds,
\* which have one microstep; only a requested stop adds a microstep.
OnWholeSeconds ==
  /\ \A p \in PFC : \A kind \in {"startup", "fault", "tick", "trans", "capture"} :
       <<kind, p>> \in pending => Even
  /\ <<"fman", 0>> \in pending => Even
  /\ Even => microstep = 0

\* A stop other than the timeout is a stop at this very time.
StopsInTime ==
  /\ time <= 2 * Timeout
  /\ stop_tag # <<2 * Timeout, 0>> => stop_tag[1] = time

\* Faults are given to one computer, and handled before any computer ticks.
FaultsFirst ==
  /\ <<"fman", 0>> \in pending => fault = NoFaults
  /\ \A p \in PFC : <<"fault", p>> \in pending => fault[p] # NoFault
  /\ \A p, q \in PFC : fault[p] # NoFault /\ fault[q] # NoFault => p = q
  /\ \A q \in PFC : <<"fman", 0>> \in pending \/ (\E p \in PFC : <<"fault", p>> \in pending)
                      => <<"tick", q>> \in pending

\* No flag moves and nothing is reported before every computer has started.
StartsClean ==
  (\E p \in PFC : <<"startup", p>> \in pending) =>
    /\ report.killed = {}
    /\ \A q \in PFC : pfc[q].alive /\ pfc[q].active /\ ~pfc[q].bias

\* A lane reported killed belongs to a computer that will never send again, and
\* nothing is voted on after an emergency.
ReportedForGood ==
  /\ \A p \in report.killed : Grounded(pfc[p])
  /\ report.verdict = "EMERGENCY" => <<"vote", 0>> \notin pending

OrderInv == /\ OnWholeSeconds /\ StopsInTime /\ FaultsFirst
            /\ StartsClean /\ ReportedForGood

-----------------------------------------------------------------------------
(* The invariant: messages                                                 *)

\* From its second until the vote half a second later a message is in one of
\* the ports or with the voter.
Fired == Even \/ <<"vote", 0>> \in pending
InFlight(p) ==
  <<"trans", p>> \in pending \/ <<"capture", p>> \in pending \/ wes.has[p]

\* The computers with a message on its way are those that ticked and can send.
Carried == \A p \in PFC : InFlight(p) <=> Fired /\ Ticked(p) /\ Sends(pfc[p])

IsFresh(m) == m.valid /\ m.counter = Sample
Fresh ==
  \A p \in PFC : /\ <<"trans", p>> \in pending => IsFresh(speed_out[p])
                 /\ <<"capture", p>> \in pending => IsFresh(out[p])
                 /\ wes.has[p] => IsFresh(wes.last[p])

MessageInv == Carried /\ Fresh

-----------------------------------------------------------------------------
(* The invariant: biases                                                   *)

Biased(p) == Sends(pfc[p]) /\ pfc[p].bias
IsWrong(m) == m.speed # TrueSpeed(Sample)
Spoils(p) ==
  \/ Biased(p)
  \/ <<"trans", p>> \in pending /\ IsWrong(speed_out[p])
  \/ <<"capture", p>> \in pending /\ IsWrong(out[p])
  \/ wes.has[p] /\ IsWrong(wes.last[p])

\* A computer that can send and holds a bias is about to tick; who spoils a
\* lane was given a fault at this very second; so no two lanes are spoilt.
BiasInv ==
  /\ \A p \in PFC : Biased(p) => <<"tick", p>> \in pending
  /\ \A p \in PFC : Even /\ Spoils(p) => fault[p] # NoFault
  /\ \A p, q \in PFC : Spoils(p) /\ Spoils(q) => p = q

-----------------------------------------------------------------------------
(* The invariant: losses                                                   *)

Up(s) == s.alive /\ s.active
TwoUp == \E p, q \in PFC : p # q /\ Up(pfc[p]) /\ Up(pfc[q])
TwoGood == \E p, q \in PFC : p # q /\ report.lane[p] = "good" /\ report.lane[q] = "good"

\* Only the end of the data file, at its time, ends the reading.
ReadsOn == \A p \in PFC : pfc[p].eof_reached => time >= 2 * Samples

\* Until an emergency two computers are up when a second begins and its faults
\* take one of them at most, so somebody is heard at the vote.
AllRead == \A p \in PFC : pfc[p].fp # "NULL"
LosesOne ==
  AllRead /\ report.verdict # "EMERGENCY" =>
    /\ Even => \/ TwoUp
               \/ /\ <<"fman", 0>> \notin pending
                  /\ \E p \in PFC : Up(pfc[p]) /\ fault[p] = NoFault
    /\ <<"vote", 0>> \in pending => \E p \in PFC : Up(pfc[p])
    /\ ~Even /\ <<"vote", 0>> \notin pending => TwoUp /\ TwoGood

-----------------------------------------------------------------------------
(* The steps                                                               *)

LEMMA Moves ==
  ASSUME NEW r, NEW then, React(r, then)
  PROVE  /\ r \in pending /\ pending' = (pending \ {r}) \cup then
         /\ \A q \in pending : Level(r) <= Level(q)
         /\ time' = time /\ microstep' = microstep
         /\ Even' = Even /\ Sample' = Sample
BY DEF React, Ready, timing, Even, Sample

\* Once another reaction than startup runs every computer has started.
LEMMA AllStarted ==
  ASSUME NEW r, NEW then \in SUBSET Triggered, React(r, then), Level(r) \in 1 .. 9
  PROVE  \A p \in PFC : <<"startup", p>> \notin pending /\ <<"startup", p>> \notin pending'
<1> SUFFICES ASSUME NEW p \in PFC
             PROVE  <<"startup", p>> \notin pending /\ <<"startup", p>> \notin pending'
  OBVIOUS
<1>1. Level(<<"startup", p>>) = 0
  BY Levels
<1>2. <<"startup", p>> \notin pending
  BY <1>1, Moves
<1>3. <<"startup", p>> \notin then
  BY DEF Triggered
<1> QED
  BY <1>2, <1>3, Moves

\* The level of every reaction but startup.
LEMMA LaterLevels ==
  /\ Level(<<"fman", 0>>) = 1 /\ Level(<<"vote", 0>>) = 8 /\ Level(<<"pfcds", 0>>) = 9
  /\ \A p \in PFC :
       /\ Level(<<"fault", p>>) \in 1 .. 9 /\ Level(<<"tick", p>>) \in 1 .. 9
       /\ Level(<<"shutdown", p>>) \in 1 .. 9 /\ Level(<<"trans", p>>) \in 1 .. 9
       /\ Level(<<"capture", p>>) \in 1 .. 9
<1>1. Level(<<"fman", 0>>) = 1 /\ Level(<<"vote", 0>>) = 8 /\ Level(<<"pfcds", 0>>) = 9
  BY DEF Level
<1>2. \A p \in PFC : 3 + p \in 1 .. 9 /\ 4 + p \in 1 .. 9
  BY DEF PFC
<1>3. ASSUME NEW p \in PFC
      PROVE  /\ Level(<<"fault", p>>) \in 1 .. 9 /\ Level(<<"tick", p>>) \in 1 .. 9
             /\ Level(<<"shutdown", p>>) \in 1 .. 9 /\ Level(<<"trans", p>>) \in 1 .. 9
             /\ Level(<<"capture", p>>) \in 1 .. 9
  <2>1. /\ Level(<<"fault", p>>) = 2 /\ Level(<<"tick", p>>) = 3
        /\ Level(<<"shutdown", p>>) = 4
        /\ Level(<<"trans", p>>) = 3 + p /\ Level(<<"capture", p>>) = 4 + p
    BY Levels
  <2>2. 2 \in 1 .. 9 /\ 3 \in 1 .. 9 /\ 4 \in 1 .. 9
    OBVIOUS
  <2> QED
    BY <1>2, <2>1, <2>2, Zenon
<1> QED
  BY <1>1, <1>3

\* What a startup does to its computer.
LEMMA StartupDoes ==
  ASSUME IInv, NEW p \in PFC, Startup(p)
  PROVE  /\ \A q \in PFC \ {p} : pfc'[q] = pfc[q]
         /\ \A q \in PFC : /\ pfc'[q].alive = pfc[q].alive /\ pfc'[q].active = pfc[q].active
                           /\ pfc'[q].bias = pfc[q].bias
                           /\ pfc'[q].eof_reached = pfc[q].eof_reached
BY DEF IInv, TypeOK, PFCState, Startup

\* What a fault does to its computer.
LEMMA HandleFaultDoes ==
  ASSUME IInv, NEW p \in PFC, HandleFault(p)
  PROVE  /\ \A q \in PFC \ {p} : pfc'[q] = pfc[q]
         /\ pfc'[p].eof_reached = pfc[p].eof_reached /\ pfc'[p].fp = pfc[p].fp
         /\ Grounded(pfc[p]) => Grounded(pfc'[p])
<1>1. pfc' = [pfc EXCEPT ![p] = Faulted(pfc[p], fault[p])]
  BY DEF HandleFault
<1>2. /\ Faulted(pfc[p], fault[p]).eof_reached = pfc[p].eof_reached
      /\ Faulted(pfc[p], fault[p]).fp = pfc[p].fp
      /\ Faulted(pfc[p], fault[p]).alive => pfc[p].alive
  BY DEF IInv, TypeOK, PFCState, Faulted
<1>3. Grounded(pfc[p]) => Grounded(Faulted(pfc[p], fault[p]))
  BY <1>2 DEF Grounded
<1> QED
  BY <1>1, <1>2, <1>3 DEF IInv, TypeOK

\* What a tick that sends nothing does to its computer: it cannot send, neither
\* before nor after.
LEMMA SilentTickDoes ==
  ASSUME IInv, NEW p \in PFC, TickGrounded(p) \/ TickEndOfFile(p) \/ TickStopped(p)
  PROVE  /\ React(<<"tick", p>>, {})
         /\ UNCHANGED <<wes, fault, speed_out, out, status, stop_tag, report>>
         /\ \A q \in PFC \ {p} : pfc'[q] = pfc[q]
         /\ pfc'[p].alive = pfc[p].alive /\ pfc'[p].active = pfc[p].active
         /\ pfc'[p].bias = pfc[p].bias /\ pfc'[p].fp = pfc[p].fp
         /\ Grounded(pfc[p]) => Grounded(pfc'[p])
         /\ ~Sends(pfc'[p])
         /\ pfc'[p].eof_reached =>
              pfc[p].eof_reached \/ (~Grounded(pfc[p]) /\ pfc[p].line = Samples)
<1> USE DEF IInv, TypeOK
<1>1. CASE TickGrounded(p)
  BY <1>1 DEF TickGrounded, Sends
<1>2. CASE TickEndOfFile(p)
  BY <1>2 DEF TickEndOfFile, Sends, Grounded, PFCState
<1>3. CASE TickStopped(p)
  <2>1. /\ pfc' = [pfc EXCEPT ![p] = Advanced(pfc[p])]
        /\ React(<<"tick", p>>, {}) /\ ~pfc[p].active
        /\ UNCHANGED <<wes, fault, speed_out, out, status, stop_tag, report>>
    BY <1>3 DEF TickStopped
  <2>2. /\ Advanced(pfc[p]).alive = pfc[p].alive /\ Advanced(pfc[p]).active = pfc[p].active
        /\ Advanced(pfc[p]).bias = pfc[p].bias /\ Advanced(pfc[p]).fp = pfc[p].fp
        /\ Advanced(pfc[p]).eof_reached = pfc[p].eof_reached
    BY DEF Advanced, PFCState
  <2>3. pfc'[p] = Advanced(pfc[p]) /\ \A q \in PFC \ {p} : pfc'[q] = pfc[q]
    BY <2>1
  <2> QED
    BY <2>1, <2>2, <2>3 DEF Sends, Grounded
<1> QED
  BY <1>1, <1>2, <1>3

\* What a tick that sends does: the message is the one of this second, and its
\* speed is the true one unless a bias was set.
LEMMA TickSendDoes ==
  ASSUME IInv, NEW p \in PFC, TickSend(p)
  PROVE  /\ React(<<"tick", p>>, {<<"trans", p>>})
         /\ UNCHANGED <<wes, fault, out, status, stop_tag, report>>
         /\ \A q \in PFC \ {p} : pfc'[q] = pfc[q] /\ speed_out'[q] = speed_out[q]
         /\ pfc'[p].alive = pfc[p].alive /\ pfc'[p].active = pfc[p].active
         /\ ~pfc'[p].bias /\ pfc'[p].fp = pfc[p].fp
         /\ pfc'[p].eof_reached = pfc[p].eof_reached
         /\ Sends(pfc[p]) /\ Sends(pfc'[p])
         /\ speed_out'[p].valid /\ speed_out'[p].counter = Sample
         /\ ~pfc[p].bias => speed_out'[p].speed = TrueSpeed(Sample)
         /\ pfc[p].bias => speed_out'[p].speed = apply_bias(TrueSpeed(Sample))
<1> DEFINE a == Advanced(pfc[p])
           s == [a EXCEPT !.bias = BiasAfterSend(pfc[p])]
           v == IF pfc[p].bias THEN apply_bias(Nominal(pfc[p])) ELSE Nominal(pfc[p])
<1>1. /\ React(<<"tick", p>>, {<<"trans", p>>})
      /\ UNCHANGED <<wes, fault, out, status, stop_tag, report>>
      /\ ~Grounded(pfc[p]) /\ pfc[p].line < Samples /\ pfc[p].active
      /\ pfc' = [pfc EXCEPT ![p] = s]
      /\ speed_out' = [speed_out EXCEPT ![p] =
           [counter |-> pfc[p].counter + 1, speed |-> v, valid |-> TRUE]]
  BY DEF TickSend
<1>2. pfc[p] \in PFCState /\ Navigates(pfc[p]) /\ pfc \in [PFC -> PFCState]
      /\ speed_out \in [PFC -> SpeedMsg]
  BY DEF IInv, TypeOK
<1>3. /\ a.alive = pfc[p].alive /\ a.active = pfc[p].active /\ a.fp = pfc[p].fp
      /\ a.eof_reached = pfc[p].eof_reached /\ a \in PFCState
  BY <1>1, <1>2, AdvancedNavigates DEF Advanced, PFCState
<1>4. /\ s.alive = pfc[p].alive /\ s.active = pfc[p].active /\ s.fp = pfc[p].fp
      /\ s.eof_reached = pfc[p].eof_reached /\ ~s.bias
  <2> HIDE DEF a
  <2> QED
    BY <1>3 DEF BiasAfterSend, PFCState
<1>5. Nominal(pfc[p]) = TrueSpeed(pfc[p].line)
  BY <1>1, <1>2, NominalNavigates
<1>6. pfc[p].line = Sample /\ pfc[p].counter + 1 = Sample
  <2>1. <<"tick", p>> \in pending
    BY <1>1, Moves
  <2>2. pfc[p].line = Sample
    BY <1>1, <2>1 DEF IInv, OnSample, Ticked
  <2> QED
    BY <1>2, <2>2, FBWAssumption DEF Navigates
<1> HIDE DEF s
<1>7. pfc'[p] = s /\ \A q \in PFC \ {p} : pfc'[q] = pfc[q]
  BY <1>1, <1>2
<1>8. Sends(pfc[p]) /\ Sends(pfc'[p])
  BY <1>1, <1>4, <1>7 DEF Sends, Grounded
<1> DEFINE m == [counter |-> pfc[p].counter + 1, speed |-> v, valid |-> TRUE]
<1>9. /\ m.valid /\ m.counter = Sample
      /\ ~pfc[p].bias => m.speed = TrueSpeed(Sample)
      /\ pfc[p].bias => m.speed = apply_bias(TrueSpeed(Sample))
  BY <1>5, <1>6
<1> HIDE DEF m
<1>10. speed_out'[p] = m /\ \A q \in PFC \ {p} : speed_out'[q] = speed_out[q]
  BY <1>1, <1>2 DEF m
<1> QED
  BY <1>1, <1>4, <1>7, <1>8, <1>9, <1>10

\* What a shutdown does to its computer.
LEMMA ShutdownDoes ==
  ASSUME IInv, NEW p \in PFC, Shutdown(p)
  PROVE  /\ \A q \in PFC \ {p} : pfc'[q] = pfc[q]
         /\ \A q \in PFC : /\ pfc'[q].alive = pfc[q].alive /\ pfc'[q].active = pfc[q].active
                           /\ pfc'[q].bias = pfc[q].bias
                           /\ pfc'[q].eof_reached = pfc[q].eof_reached
                           /\ pfc'[q].fp = "NULL" <=> pfc[q].fp = "NULL"
<1> DEFINE s == [pfc[p] EXCEPT !.fp = IF @ = "NULL" THEN @ ELSE "closed"]
<1>1. pfc' = [pfc EXCEPT ![p] = s]
  BY DEF Shutdown
<1>2. /\ s.alive = pfc[p].alive /\ s.active = pfc[p].active /\ s.bias = pfc[p].bias
      /\ s.eof_reached = pfc[p].eof_reached /\ s.fp = "NULL" <=> pfc[p].fp = "NULL"
  BY DEF IInv, TypeOK, PFCState
<1> QED
  BY <1>1, <1>2 DEF IInv, TypeOK

-----------------------------------------------------------------------------
(* The order of the reactions is an invariant                              *)

LEMMA OrderInit == Init => OrderInv
<1> SUFFICES ASSUME Init PROVE OrderInv
  OBVIOUS
<1> USE FBWAssumption
<1>1. /\ pfc = [p \in PFC |-> NewPFC] /\ fault = NoFaults
      /\ time = 0 /\ microstep = 0 /\ stop_tag = <<2 * Timeout, 0>>
      /\ pending = ({"startup"} \X PFC) \cup TimersAt(0)
                   \cup (IF Timeout = 0 THEN ({"shutdown"} \X PFC) ELSE {})
      /\ report.killed = {} /\ report.verdict = "NONE"
  BY DEF Init
<1>2. TimersAt(0) = {"tick"} \X PFC /\ 0 % 2 = 0 /\ 0 <= 2 * Timeout
  BY DEF TimersAt
<1>3. <<"fman", 0>> \notin pending /\ \A p \in PFC : <<"fault", p>> \notin pending
  BY <1>1, <1>2
<1>4. OnWholeSeconds /\ StopsInTime
  BY <1>1, <1>2 DEF OnWholeSeconds, StopsInTime, Even
<1>5. FaultsFirst
  BY <1>1, <1>3 DEF FaultsFirst, NoFaults
<1>6. StartsClean
  BY <1>1 DEF StartsClean, NewPFC
<1>7. ReportedForGood
  BY <1>1 DEF ReportedForGood
<1> QED
  BY <1>4, <1>5, <1>6, <1>7 DEF OrderInv

\* A reaction of a whole second triggers others there, a vote only PFCDS.
LEMMA WholeSecondsKept ==
  ASSUME OnWholeSeconds, NEW r, NEW then \in SUBSET Triggered, React(r, then),
         Even \/ then \subseteq {<<"pfcds", 0>>}
  PROVE  OnWholeSeconds'
<1>1. \A p \in PFC : \A kind \in {"startup", "fault", "tick", "trans", "capture"} :
        <<kind, p>> \in pending' => Even
  <2> SUFFICES ASSUME NEW p \in PFC,
                      NEW kind \in {"startup", "fault", "tick", "trans", "capture"},
                      <<kind, p>> \in pending'
               PROVE  Even
    OBVIOUS
  <2>1. CASE <<kind, p>> \in pending
    BY <2>1 DEF OnWholeSeconds
  <2>2. CASE <<kind, p>> \in then
    <3>1. <<kind, p>> # <<"pfcds", 0>>
      OBVIOUS
    <3> QED
      BY <2>2, <3>1, Zenon
  <2> QED
    BY <2>1, <2>2, Moves
<1>2. <<"fman", 0>> \in pending' => Even
  <2>1. <<"fman", 0>> \notin then
    BY DEF Triggered
  <2> QED
    BY <2>1, Moves DEF OnWholeSeconds
<1>3. Even' = Even /\ microstep' = microstep
  BY Moves
<1> QED
  BY <1>1, <1>2, <1>3 DEF OnWholeSeconds

\* The stop tag and the time stay while a tag is processed.
LEMMA StopsInTimeKept ==
  ASSUME StopsInTime, NEW r, NEW then, React(r, then), stop_tag' = stop_tag
  PROVE  StopsInTime'
BY Moves DEF StopsInTime

\* A reaction that is not FMAN's gives no faults, and ticks come after them.
LEMMA FaultsFirstKept ==
  ASSUME FaultsFirst, NEW r, NEW then \in SUBSET Triggered, React(r, then),
         fault' = fault, \A p \in PFC : <<"fault", p>> \notin then
  PROVE  FaultsFirst'
<1>1. /\ <<"fman", 0>> \in pending' => <<"fman", 0>> \in pending
      /\ \A p \in PFC : <<"fault", p>> \in pending' => <<"fault", p>> \in pending
  <2>1. <<"fman", 0>> \notin then
    BY DEF Triggered
  <2> QED
    BY <2>1, Moves
<1>2. ASSUME NEW q \in PFC,
             <<"fman", 0>> \in pending \/ \E p \in PFC : <<"fault", p>> \in pending
      PROVE  <<"tick", q>> \in pending'
  <2>1. <<"tick", q>> \in pending
    BY <1>2 DEF FaultsFirst
  <2>2. r # <<"tick", q>>
    <3>1. Level(<<"tick", q>>) = 3 /\ Level(<<"fman", 0>>) = 1
      BY Levels, LaterLevels
    <3>2. \A p \in PFC : Level(<<"fault", p>>) = 2
      BY Levels
    <3>3. \E u \in pending : Level(u) = 1 \/ Level(u) = 2
      BY <1>2, <3>1, <3>2, Zenon
    <3>4. \A u \in pending : Level(r) <= Level(u)
      BY Moves
    <3>5. Level(r) # 3
      BY <3>3, <3>4
    <3> QED
      BY <3>1, <3>5
  <2> QED
    BY <2>1, <2>2, Moves
<1> QED
  BY <1>1, <1>2 DEF FaultsFirst

\* What is reported stays true when no computer gets up again and no vote runs.
LEMMA ReportedKept ==
  ASSUME ReportedForGood, NEW r, NEW then \in SUBSET Triggered, React(r, then),
         report' = report,
         \A p \in report.killed : Grounded(pfc'[p])
  PROVE  ReportedForGood'
<1>1. <<"vote", 0>> \in pending' => <<"vote", 0>> \in pending
  <2>1. <<"vote", 0>> \notin then
    BY DEF Triggered
  <2> QED
    BY <2>1, Moves
<1> QED
  BY <1>1 DEF ReportedForGood, Grounded

\* The four outcomes above, for a reaction after the startups.
LEMMA OrderParts ==
  ASSUME OrderInv, NEW r, NEW then \in SUBSET Triggered, React(r, then),
         Level(r) \in 1 .. 9,
         Even \/ then \subseteq {<<"pfcds", 0>>},
         UNCHANGED <<fault, stop_tag, report>>, \A p \in PFC : <<"fault", p>> \notin then,
         \A p \in report.killed : Grounded(pfc'[p])
  PROVE  OrderInv'
<1>1. StartsClean'
  BY AllStarted DEF StartsClean
<1> QED
  BY <1>1, WholeSecondsKept, StopsInTimeKept, FaultsFirstKept, ReportedKept DEF OrderInv

LEMMA StartupOrder == ASSUME IInv, OrderInv, NEW p \in PFC, Startup(p) PROVE OrderInv'
<1>1. /\ React(<<"startup", p>>, {}) /\ {} \in SUBSET Triggered
      /\ UNCHANGED <<fault, stop_tag, report>>
  BY DEF Startup
<1>2. <<"startup", p>> \in pending
  BY <1>1, Moves
<1>3. report.killed = {} /\ \A q \in PFC : pfc[q].alive /\ pfc[q].active /\ ~pfc[q].bias
  BY <1>2 DEF OrderInv, StartsClean
<1>4. StartsClean'
  BY <1>1, <1>3, StartupDoes DEF StartsClean
<1>5. ReportedForGood'
  BY <1>1, <1>3, ReportedKept DEF OrderInv
<1> QED
  BY <1>1, <1>4, <1>5, WholeSecondsKept, StopsInTimeKept, FaultsFirstKept DEF OrderInv

\* A lane reported killed stays grounded whatever its computer does next.
LEMMA GroundedStays ==
  ASSUME IInv, ReportedForGood, NEW p \in PFC, Grounded(pfc[p]) => Grounded(pfc'[p]),
         \A q \in PFC \ {p} : pfc'[q] = pfc[q]
  PROVE  \A q \in report.killed : Grounded(pfc'[q])
<1>1. report.killed \subseteq PFC
  BY DEF IInv, TypeOK
<1> QED
  BY <1>1 DEF ReportedForGood

LEMMA ComputerOrder == ASSUME IInv, OrderInv, NEW p \in PFC, PFCNext(p) PROVE OrderInv'
<1>1. CASE Startup(p)
  BY <1>1, StartupOrder
<1>2. CASE HandleFault(p)
  <2>1. React(<<"fault", p>>, {}) /\ UNCHANGED <<fault, stop_tag, report>>
    BY <1>2 DEF HandleFault
  <2>2. \A q \in report.killed : Grounded(pfc'[q])
    BY <1>2, HandleFaultDoes, GroundedStays DEF OrderInv
  <2>3. Level(<<"fault", p>>) \in 1 .. 9 /\ {} \in SUBSET Triggered
    BY LaterLevels
  <2> QED
    BY <2>1, <2>2, <2>3, OrderParts
<1>3. CASE TickGrounded(p) \/ TickEndOfFile(p) \/ TickStopped(p)
  <2>1. React(<<"tick", p>>, {}) /\ UNCHANGED <<fault, stop_tag, report>>
    BY <1>3, SilentTickDoes
  <2>2. \A q \in report.killed : Grounded(pfc'[q])
    BY <1>3, SilentTickDoes, GroundedStays DEF OrderInv
  <2>3. Level(<<"tick", p>>) \in 1 .. 9 /\ {} \in SUBSET Triggered
    BY LaterLevels
  <2> QED
    BY <2>1, <2>2, <2>3, OrderParts
<1>4. CASE TickSend(p)
  <2> DEFINE then == {<<"trans", p>>}
  <2>1. React(<<"tick", p>>, then) /\ UNCHANGED <<fault, stop_tag, report>>
    BY <1>4, TickSendDoes
  <2>2. \A q \in report.killed : Grounded(pfc'[q])
    <3>1. ~Grounded(pfc[p])
      BY <1>4, TickSendDoes DEF Sends
    <3> QED
      BY <1>4, <3>1, TickSendDoes, GroundedStays DEF OrderInv
  <2>3. then \in SUBSET Triggered /\ \A q \in PFC : <<"fault", q>> \notin then
    BY DEF Triggered
  <2>4. Level(<<"tick", p>>) \in 1 .. 9
    BY LaterLevels
  <2>5. Even
    BY <2>1, Moves DEF OrderInv, OnWholeSeconds
  <2> HIDE DEF then
  <2> QED
    BY <2>1, <2>2, <2>3, <2>4, <2>5, OrderParts
<1>5. CASE Shutdown(p)
  <2>1. React(<<"shutdown", p>>, {}) /\ UNCHANGED <<fault, stop_tag, report>>
    BY <1>5 DEF Shutdown
  <2>2. Grounded(pfc[p]) => Grounded(pfc'[p])
    BY <1>5, ShutdownDoes DEF Grounded
  <2>3. \A q \in report.killed : Grounded(pfc'[q])
    BY <1>5, <2>2, ShutdownDoes, GroundedStays DEF OrderInv
  <2>4. Level(<<"shutdown", p>>) \in 1 .. 9 /\ {} \in SUBSET Triggered
    BY LaterLevels
  <2> QED
    BY <2>1, <2>3, <2>4, OrderParts
<1> QED
  BY <1>1, <1>2, <1>3, <1>4, <1>5 DEF PFCNext

LEMMA LaneOrder ==
  ASSUME IInv, OrderInv, NEW p \in PFC, Forward(p) \/ Capture(p) PROVE OrderInv'
<1>1. \A q \in report.killed : Grounded(pfc[q])
  BY DEF OrderInv, ReportedForGood
<1>2. CASE Forward(p)
  <2> DEFINE then == {<<"capture", p>>}
  <2>1. React(<<"trans", p>>, then) /\ UNCHANGED <<pfc, fault, stop_tag, report>>
    BY <1>2 DEF Forward
  <2>2. then \in SUBSET Triggered /\ \A q \in PFC : <<"fault", q>> \notin then
    BY DEF Triggered
  <2>3. Level(<<"trans", p>>) \in 1 .. 9
    BY LaterLevels
  <2>4. Even
    BY <2>1, Moves DEF OrderInv, OnWholeSeconds
  <2> HIDE DEF then
  <2> QED
    BY <1>1, <2>1, <2>2, <2>3, <2>4, OrderParts
<1>3. CASE Capture(p)
  <2>1. React(<<"capture", p>>, {}) /\ UNCHANGED <<pfc, fault, stop_tag, report>>
    BY <1>3 DEF Capture
  <2>2. Level(<<"capture", p>>) \in 1 .. 9 /\ {} \in SUBSET Triggered
    BY LaterLevels
  <2> QED
    BY <1>1, <2>1, <2>2, OrderParts
<1> QED
  BY <1>2, <1>3

\* A vote reports as killed the computers that are grounded.
LEMMA VoteOrder == ASSUME IInv, OrderInv, VoteSilent \/ Vote PROVE OrderInv'
<1>1. PICK then \in SUBSET {<<"pfcds", 0>>} :
        React(<<"vote", 0>>, then) /\ UNCHANGED <<pfc, fault, stop_tag>>
  BY DEF VoteSilent, Vote
<1>2. then \in SUBSET Triggered /\ \A p \in PFC : <<"fault", p>> \notin then
  BY DEF Triggered
<1>3. StartsClean'
  <2>1. Level(<<"vote", 0>>) \in 1 .. 9
    BY LaterLevels
  <2> QED
    BY <1>1, <1>2, <2>1, AllStarted DEF StartsClean
<1>4. ReportedForGood'
  <2>1. PICK v \in Status \cup {"NONE"} : report' = Reported(v)
    BY VoteType DEF VoteSilent, Vote
  <2>2. \A p \in report'.killed : Grounded(pfc'[p])
    BY <1>1, <2>1 DEF Reported
  <2>3. <<"vote", 0>> \notin pending'
    BY <1>1, Moves
  <2> QED
    BY <2>2, <2>3 DEF ReportedForGood, Grounded
<1> QED
  BY <1>1, <1>2, <1>3, <1>4, WholeSecondsKept, StopsInTimeKept, FaultsFirstKept DEF OrderInv

\* FMAN gives faults to one computer, in front of the ticks.
LEMMA GenerateFaultsOrder == ASSUME IInv, OrderInv, GenerateFaults PROVE OrderInv'
<1> DEFINE r == <<"fman", 0>>
           then == FaultReactions(fault')
<1>1. /\ React(r, then) /\ UNCHANGED <<pfc, stop_tag, report>> /\ fault' \in FaultPorts
  BY DEF GenerateFaults
<1>2. then \in SUBSET Triggered /\ r \in pending
  BY <1>1, Moves DEF FaultReactions, Triggered
<1>3. Even
  BY <1>2 DEF OrderInv, OnWholeSeconds
<1>4. FaultsFirst'
  <2>1. PICK selected \in PFC, msg \in FaultMsg : fault' = [NoFaults EXCEPT ![selected] = msg]
    BY <1>1 DEF FaultPorts, FaultOn
  <2>2. \A p \in PFC \ {selected} : fault'[p] = NoFault
    BY <2>1 DEF NoFaults
  <2>3. <<"fman", 0>> \notin pending'
    BY <1>1, Moves DEF FaultReactions
  <2>4. \A p \in PFC : <<"fault", p>> \notin pending
    BY <1>2 DEF OrderInv, FaultsFirst, NoFaults
  <2>5. \A p \in PFC : <<"fault", p>> \in pending' => fault'[p] # NoFault
    BY <1>1, <2>4, Moves DEF FaultReactions
  <2>6. \A q \in PFC : <<"tick", q>> \in pending'
    <3>1. \A q \in PFC : <<"tick", q>> \in pending
      BY <1>2 DEF OrderInv, FaultsFirst
    <3>2. pending' = (pending \ {<<"fman", 0>>}) \cup FaultReactions(fault')
      BY <1>1, Moves
    <3>3. \A q \in PFC : <<"tick", q>> # <<"fman", 0>>
      OBVIOUS
    <3> QED
      BY <3>1, <3>2, <3>3, Zenon
  <2> QED
    BY <2>2, <2>3, <2>5, <2>6 DEF FaultsFirst
<1> HIDE DEF then
<1>5. StartsClean'
  <2>1. Level(r) \in 1 .. 9
    BY LaterLevels
  <2> QED
    BY <1>1, <1>2, <2>1, AllStarted DEF StartsClean
<1>6. ReportedForGood'
  BY <1>1, <1>2, ReportedKept DEF OrderInv, ReportedForGood
<1> QED
  BY <1>1, <1>2, <1>3, <1>4, <1>5, <1>6, WholeSecondsKept, StopsInTimeKept DEF OrderInv

\* A requested stop is one at this very time, and the timeout was still ahead.
LEMMA DisconnectOrder == ASSUME IInv, OrderInv, Disconnect PROVE OrderInv'
<1> DEFINE r == <<"pfcds", 0>>
<1>1. /\ React(r, {}) /\ {} \in SUBSET Triggered /\ Level(r) \in 1 .. 9
      /\ UNCHANGED <<pfc, fault, report>>
      /\ stop_tag' = IF status = "EMERGENCY" THEN <<time, microstep + 1>> ELSE stop_tag
  BY LaterLevels DEF Disconnect, RequestedStopTag
<1>2. StopsInTime'
  BY <1>1, Moves DEF OrderInv, StopsInTime
<1>3. StartsClean'
  BY <1>1, AllStarted DEF StartsClean
<1>4. ReportedForGood'
  BY <1>1, ReportedKept DEF OrderInv, ReportedForGood
<1> QED
  BY <1>1, <1>2, <1>3, <1>4, WholeSecondsKept, FaultsFirstKept DEF OrderInv

\* Where the next tag is: half a second on, or at this time for a requested stop.
LEMMA AdvanceDoes ==
  ASSUME IInv, OrderInv, AdvanceTag
  PROVE  /\ pending = {} /\ fault' = NoFaults /\ UNCHANGED <<pfc, wes, stop_tag, report>>
         /\ \/ /\ time' = time + 1 /\ microstep' = 0 /\ stop_tag[1] # time
               /\ Even' = ~Even
               /\ Sample' = IF Even THEN Sample ELSE Sample + 1
               /\ <<"vote", 0>> \in pending' <=> Even
            \/ /\ time' = time /\ stop_tag[1] = time
               /\ ~Even /\ ~Even' /\ Sample' = Sample
               /\ <<"vote", 0>> \notin pending'
         /\ <<"fman", 0>> \in pending' <=> Even' /\ time' >= 4
         /\ <<"pfcds", 0>> \notin pending'
         /\ \A p \in PFC :
              /\ <<"startup", p>> \notin pending' /\ <<"fault", p>> \notin pending'
              /\ <<"trans", p>> \notin pending' /\ <<"capture", p>> \notin pending'
              /\ <<"tick", p>> \in pending' <=> Even'
<1> DEFINE h == NextTag[1]
           m == NextTag[2]
<1>1. /\ pending = {} /\ fault' = NoFaults /\ UNCHANGED <<pfc, wes, stop_tag, report>>
      /\ <<time, microstep>> # stop_tag /\ time' = h /\ microstep' = m
      /\ pending' = ShutdownsAt(NextTag) \cup (IF m = 0 THEN TimersAt(h) ELSE {})
  BY DEF AdvanceTag
<1>2. /\ h \in Nat /\ m \in Nat /\ NextTag = <<h, m>>
      /\ m = 0 => h = time + 1
      /\ m # 0 => h = time
      /\ stop_tag[1] = time => h = time
  BY <1>1, NextTagFacts
<1>3. stop_tag[1] # time => h = time + 1 /\ m = 0
  BY DEF NextTag
<1>4. time \in Nat /\ (time % 2 = 0 \/ time % 2 = 1)
  BY DEF IInv, TypeOK
<1>5. \A r \in ShutdownsAt(NextTag) : r \in {"shutdown"} \X PFC
  BY DEF ShutdownsAt
<1> HIDE DEF h, m
<1>6. CASE m = 0
  <2>1. time' = time + 1 /\ microstep' = 0 /\ stop_tag[1] # time /\ h = time + 1
    BY <1>1, <1>2, <1>4, <1>6
  <2>2. \A t \in Nat : /\ t % 2 = 0 => (t + 1) % 2 = 1 /\ (t + 1) \div 2 = t \div 2
                       /\ t % 2 = 1 => (t + 1) % 2 = 0 /\ (t + 1) \div 2 = (t \div 2) + 1
    OBVIOUS
  <2>3. /\ Even' = ~Even
        /\ Sample' = IF Even THEN Sample ELSE Sample + 1
    BY <1>4, <2>1, <2>2 DEF Even, Sample
  <2>4. pending' = ShutdownsAt(NextTag) \cup TimersAt(h)
    BY <1>1, <1>6
  <2>5. CASE Even
    <3>1. h % 2 = 1 /\ TimersAt(h) = {<<"vote", 0>>}
      BY <1>4, <2>1, <2>2, <2>5 DEF Even, TimersAt
    <3>2. /\ <<"vote", 0>> \in pending' /\ <<"fman", 0>> \notin pending'
          /\ <<"pfcds", 0>> \notin pending'
          /\ \A p \in PFC :
               /\ <<"startup", p>> \notin pending' /\ <<"fault", p>> \notin pending'
               /\ <<"trans", p>> \notin pending' /\ <<"capture", p>> \notin pending'
               /\ <<"tick", p>> \notin pending'
      BY <1>5, <2>4, <3>1
    <3> QED
      BY <1>1, <2>1, <2>3, <2>5, <3>2
  <2>6. CASE ~Even
    <3>1. h % 2 = 0
      BY <1>4, <2>1, <2>2, <2>6 DEF Even
    <3>2. TimersAt(h) = ({"tick"} \X PFC) \cup (IF h >= 4 THEN {<<"fman", 0>>} ELSE {})
      BY <3>1 DEF TimersAt
    <3>3. /\ <<"vote", 0>> \notin pending' /\ <<"pfcds", 0>> \notin pending'
          /\ <<"fman", 0>> \in pending' <=> h >= 4
          /\ \A p \in PFC :
               /\ <<"startup", p>> \notin pending' /\ <<"fault", p>> \notin pending'
               /\ <<"trans", p>> \notin pending' /\ <<"capture", p>> \notin pending'
               /\ <<"tick", p>> \in pending'
      BY <1>5, <2>4, <3>2
    <3> QED
      BY <1>1, <2>1, <2>3, <2>6, <3>3
  <2> QED
    BY <2>5, <2>6
<1>7. CASE m # 0
  <2>1. time' = time /\ stop_tag[1] = time
    BY <1>1, <1>2, <1>3, <1>7
  <2>2. ~Even
    <3> SUFFICES ASSUME Even PROVE FALSE
      OBVIOUS
    <3>1. microstep = 0 /\ time % 2 = 0
      BY DEF OrderInv, OnWholeSeconds, Even
    <3>2. stop_tag = <<2 * Timeout, 0>>
      BY <1>4, <2>1, <3>1 DEF IInv, StopAhead
    <3> QED
      BY <1>1, <2>1, <3>1, <3>2
  <2>3. ~Even' /\ Sample' = Sample
    BY <2>1, <2>2 DEF Even, Sample
  <2>4. pending' = ShutdownsAt(NextTag)
    BY <1>1, <1>7
  <2>5. /\ <<"vote", 0>> \notin pending' /\ <<"fman", 0>> \notin pending'
        /\ <<"pfcds", 0>> \notin pending'
        /\ \A p \in PFC :
             /\ <<"startup", p>> \notin pending' /\ <<"fault", p>> \notin pending'
             /\ <<"trans", p>> \notin pending' /\ <<"capture", p>> \notin pending'
             /\ <<"tick", p>> \notin pending'
    BY <1>5, <2>4
  <2> QED
    BY <1>1, <2>1, <2>2, <2>3, <2>5
<1> QED
  BY <1>6, <1>7

LEMMA AdvanceOrder == ASSUME IInv, OrderInv, AdvanceTag PROVE OrderInv'
<1> USE AdvanceDoes
<1>1. OnWholeSeconds'
  <2>1. Even' => microstep' = 0
    OBVIOUS
  <2> QED
    BY <2>1 DEF OnWholeSeconds
<1>2. StopsInTime'
  <2>1. CASE time' = time
    BY <2>1 DEF OrderInv, StopsInTime
  <2>2. CASE time' = time + 1 /\ stop_tag[1] # time
    <3>1. stop_tag = <<2 * Timeout, 0>>
      BY <2>2 DEF OrderInv, StopsInTime
    <3>2. time < 2 * Timeout
      BY <2>2, <3>1 DEF IInv, StopAhead
    <3> QED
      BY <2>2, <3>1, <3>2, FBWAssumption DEF IInv, TypeOK, StopsInTime
  <2> QED
    BY <2>1, <2>2
<1>3. FaultsFirst'
  BY DEF FaultsFirst, NoFaults
<1>4. StartsClean'
  BY DEF StartsClean
<1>5. ReportedForGood'
  <2>1. report.verdict = "EMERGENCY" => stop_tag[1] = time
    BY DEF IInv, EmergencyHeld
  <2> QED
    BY <2>1 DEF OrderInv, ReportedForGood, Grounded
<1> QED
  BY <1>1, <1>2, <1>3, <1>4, <1>5 DEF OrderInv

LEMMA StillOrder ==
  ASSUME OrderInv,
         UNCHANGED <<pfc, fault, time, microstep, stop_tag, pending, report>>
  PROVE  OrderInv'
BY DEF OrderInv, OnWholeSeconds, Even, StopsInTime, FaultsFirst, StartsClean,
       ReportedForGood, Grounded

LEMMA NextOrder == IInv /\ OrderInv /\ [Next]_vars => OrderInv'
<1> SUFFICES ASSUME IInv, OrderInv, [Next]_vars PROVE OrderInv'
  OBVIOUS
<1>1. CASE \E p \in PFC : PFCNext(p)
  BY <1>1, ComputerOrder
<1>2. CASE \E p \in PFC : Forward(p) \/ Capture(p)
  BY <1>2, LaneOrder
<1>3. CASE VoteSilent \/ Vote \/ Disconnect
  BY <1>3, VoteOrder, DisconnectOrder
<1>4. CASE AdvanceTag \/ GenerateFaults
  BY <1>4, AdvanceOrder, GenerateFaultsOrder
<1>5. CASE Stop \/ UNCHANGED vars
  BY <1>5, StillOrder DEF Stop, vars, timing
<1> QED
  BY <1>1, <1>2, <1>3, <1>4, <1>5 DEF Next, Rest, Stopped

-----------------------------------------------------------------------------
(* What a vote is about is an invariant                                    *)

\* The reactions that carry a message, and the timers that start and end its way.
Carriers == ({"startup", "tick", "trans", "capture"} \X PFC) \cup {<<"vote", 0>>}

\* A reaction that carries nothing, sets no flag and voids no message.
LEMMA MessagesKept ==
  ASSUME IInv, MessageInv, NEW r, NEW then \in SUBSET Triggered, React(r, then),
         r \notin Carriers, then \cap Carriers = {},
         UNCHANGED <<wes, speed_out, out>>,
         \A p \in PFC : Sends(pfc'[p]) <=> Sends(pfc[p])
  PROVE  MessageInv'
<1>1. \A u \in Carriers : u \in pending' <=> u \in pending
  BY Moves
<1>2. /\ <<"vote", 0>> \in Carriers
      /\ \A p \in PFC : /\ <<"startup", p>> \in Carriers /\ <<"tick", p>> \in Carriers
                        /\ <<"trans", p>> \in Carriers /\ <<"capture", p>> \in Carriers
  BY DEF Carriers
<1>3. Fired' <=> Fired
  BY <1>1, <1>2, Moves DEF Fired
<1>4. \A p \in PFC : (Ticked(p)' <=> Ticked(p)) /\ (InFlight(p)' <=> InFlight(p))
  BY <1>1, <1>2 DEF Ticked, InFlight
<1>5. Carried'
  BY <1>3, <1>4 DEF MessageInv, Carried, Sends, Grounded
<1>6. Fresh'
  BY <1>1, <1>2, Moves DEF MessageInv, Fresh, IsFresh
<1> QED
  BY <1>5, <1>6 DEF MessageInv

\* A computer that has its tick before it has no message on its way.
LEMMA NothingBeforeTick ==
  ASSUME MessageInv, NEW p \in PFC, <<"tick", p>> \in pending PROVE ~InFlight(p)
BY DEF MessageInv, Carried, Ticked

\* A step of a computer that sends nothing: it cannot send or has yet to tick.
LEMMA SilentStep ==
  ASSUME IInv, MessageInv, NEW p \in PFC, NEW r, React(r, {}),
         r \notin {"trans", "capture"} \X PFC, r # <<"vote", 0>>,
         \A q \in PFC \ {p} : r \notin {<<"startup", q>>, <<"tick", q>>},
         UNCHANGED <<wes, speed_out, out>>,
         \A q \in PFC \ {p} : pfc'[q] = pfc[q],
         <<"tick", p>> \in pending, <<"tick", p>> \in pending' \/ ~Sends(pfc'[p])
  PROVE  MessageInv'
<1>1. /\ Even' = Even /\ Sample' = Sample
      /\ \A u : u # r => (u \in pending' <=> u \in pending)
  BY Moves
<1>2. Fired' <=> Fired
  BY <1>1 DEF Fired
<1>3. \A q \in PFC : /\ <<"trans", q>> \in pending' <=> <<"trans", q>> \in pending
                     /\ <<"capture", q>> \in pending' <=> <<"capture", q>> \in pending
  BY <1>1
<1>4. \A q \in PFC : InFlight(q)' <=> InFlight(q)
  BY <1>3 DEF InFlight
<1>5. \A q \in PFC \ {p} : Ticked(q)' <=> Ticked(q)
  <2> SUFFICES ASSUME NEW q \in PFC \ {p} PROVE Ticked(q)' <=> Ticked(q)
    OBVIOUS
  <2>1. /\ <<"startup", q>> \in pending' <=> <<"startup", q>> \in pending
        /\ <<"tick", q>> \in pending' <=> <<"tick", q>> \in pending
    BY <1>1
  <2> QED
    BY <2>1 DEF Ticked
<1>6. ~InFlight(p) /\ ~(Ticked(p)' /\ Sends(pfc'[p]))
  BY NothingBeforeTick DEF Ticked
<1>7. Carried'
  BY <1>2, <1>4, <1>5, <1>6 DEF MessageInv, Carried, Sends, Grounded
<1>8. Fresh'
  BY <1>1, <1>3 DEF MessageInv, Fresh, IsFresh
<1> QED
  BY <1>7, <1>8 DEF MessageInv

LEMMA ComputerMessages ==
  ASSUME IInv, OrderInv, MessageInv, NEW p \in PFC, PFCNext(p) PROVE MessageInv'
<1>1. CASE Startup(p)
  <2> DEFINE r == <<"startup", p>>
  <2>1. React(r, {}) /\ UNCHANGED <<wes, speed_out, out>> /\ r \in pending
    BY <1>1, Moves DEF Startup
  <2>2. <<"tick", p>> \in pending /\ <<"tick", p>> \in pending'
    BY <2>1, Moves DEF IInv, StartsBeforeTick
  <2> QED
    BY <1>1, <2>1, <2>2, StartupDoes, SilentStep
<1>2. CASE HandleFault(p)
  <2> DEFINE r == <<"fault", p>>
  <2>1. React(r, {}) /\ UNCHANGED <<wes, speed_out, out>> /\ r \in pending
    BY <1>2, Moves DEF HandleFault
  <2>2. <<"tick", p>> \in pending /\ <<"tick", p>> \in pending'
    BY <2>1, Moves DEF OrderInv, FaultsFirst
  <2> QED
    BY <1>2, <2>1, <2>2, HandleFaultDoes, SilentStep
<1>3. CASE TickGrounded(p) \/ TickEndOfFile(p) \/ TickStopped(p)
  <2>1. React(<<"tick", p>>, {}) /\ <<"tick", p>> \in pending
    BY <1>3, SilentTickDoes, Moves
  <2> QED
    BY <1>3, <2>1, SilentTickDoes, SilentStep
<1>4. CASE TickSend(p)
  <2> DEFINE r == <<"tick", p>>  then == {<<"trans", p>>}
  <2>1. /\ React(r, then) /\ UNCHANGED <<wes, out>>
        /\ then \in SUBSET Triggered /\ Level(r) \in 1 .. 9
    <3>1. then \in SUBSET Triggered
      BY DEF Triggered
    <3> QED
      BY <1>4, <3>1, TickSendDoes, LaterLevels
  <2>2. /\ pending' = (pending \ {r}) \cup then /\ r \in pending
        /\ Even' = Even /\ Sample' = Sample
    BY <2>1, Moves
  <2>3. Fired' <=> Fired
    BY <2>2 DEF Fired
  <2>4. Even
    BY <2>2 DEF OrderInv, OnWholeSeconds
  <2>5. \A q \in PFC \ {p} : /\ Ticked(q)' <=> Ticked(q)
                             /\ InFlight(q)' <=> InFlight(q)
                             /\ <<"trans", q>> \in pending' <=> <<"trans", q>> \in pending
    BY <2>1, <2>2 DEF Ticked, InFlight
  <2>6. Ticked(p)' /\ InFlight(p)'
    <3>1. <<"startup", p>> \notin pending'
      BY <2>1, AllStarted
    <3> QED
      BY <2>2, <3>1 DEF Ticked, InFlight
  <2>7. Carried'
    BY <1>4, <2>3, <2>4, <2>5, <2>6, TickSendDoes
       DEF MessageInv, Carried, Sends, Grounded, Fired
  <2>8. \A q \in PFC : <<"capture", q>> \in pending' => <<"capture", q>> \in pending
    BY <2>2
  <2>9. Fresh'
    <3>1. IsFresh(speed_out[p])' /\ \A q \in PFC \ {p} : speed_out'[q] = speed_out[q]
      BY <1>4, <2>2, TickSendDoes DEF IsFresh
    <3>2. \A m : IsFresh(m)' <=> IsFresh(m)
      BY <2>2 DEF IsFresh
    <3>3. /\ \A q \in PFC : <<"trans", q>> \in pending' => IsFresh(speed_out[q])'
          /\ \A q \in PFC : <<"capture", q>> \in pending' => IsFresh(out[q])'
          /\ \A q \in PFC : wes'.has[q] => IsFresh(wes.last[q])'
      BY <2>1, <2>2, <2>5, <2>8, <3>1, <3>2 DEF MessageInv, Fresh, IsFresh
    <3> QED
      BY <3>3 DEF Fresh
  <2> QED
    BY <2>7, <2>9 DEF MessageInv
<1>5. CASE Shutdown(p)
  <2>1. React(<<"shutdown", p>>, {}) /\ UNCHANGED <<wes, speed_out, out>>
    BY <1>5 DEF Shutdown
  <2>2. \A q \in PFC : Sends(pfc'[q]) <=> Sends(pfc[q])
    BY <1>5, ShutdownDoes DEF Sends, Grounded
  <2>3. <<"shutdown", p>> \notin Carriers
    BY DEF Carriers
  <2> QED
    BY <2>1, <2>2, <2>3, MessagesKept
<1> QED
  BY <1>1, <1>2, <1>3, <1>4, <1>5 DEF PFCNext

\* A message moves from its port to the next one or to the voter.
LEMMA LaneMessages ==
  ASSUME IInv, OrderInv, MessageInv, NEW p \in PFC, Forward(p) \/ Capture(p)
  PROVE  MessageInv'
<1>1. CASE Forward(p)
  <2>1. /\ React(<<"trans", p>>, {<<"capture", p>>}) /\ UNCHANGED <<pfc, wes, speed_out>>
        /\ out' = [out EXCEPT ![p] = speed_out[p]]
    BY <1>1 DEF Forward
  <2>2. /\ pending' = (pending \ {<<"trans", p>>}) \cup {<<"capture", p>>}
        /\ <<"trans", p>> \in pending /\ Even' = Even /\ Sample' = Sample
    BY <2>1, Moves
  <2>3. out'[p] = speed_out[p] /\ \A q \in PFC \ {p} : out'[q] = out[q]
    BY <2>1 DEF IInv, TypeOK
  <2>4. /\ Fired' <=> Fired
        /\ \A q \in PFC : (Ticked(q)' <=> Ticked(q)) /\ (InFlight(q)' <=> InFlight(q))
    BY <2>1, <2>2 DEF Fired, Ticked, InFlight
  <2>5. Carried'
    BY <2>1, <2>4 DEF MessageInv, Carried, Sends, Grounded
  <2>6. Fresh'
    <3>1. IsFresh(speed_out[p]) /\ \A m : IsFresh(m)' <=> IsFresh(m)
      BY <2>2 DEF MessageInv, Fresh, IsFresh
    <3>2. \A q \in PFC \ {p} : /\ <<"trans", q>> \in pending' <=> <<"trans", q>> \in pending
                              /\ <<"capture", q>> \in pending' <=> <<"capture", q>> \in pending
      BY <2>2
    <3>3. <<"trans", p>> \in pending' => <<"trans", p>> \in pending
      BY <2>2
    <3> QED
      BY <2>1, <2>2, <2>3, <3>1, <3>2, <3>3 DEF MessageInv, Fresh, IsFresh
  <2> QED
    BY <2>5, <2>6 DEF MessageInv
<1>2. CASE Capture(p)
  <2>1. /\ React(<<"capture", p>>, {}) /\ UNCHANGED <<pfc, speed_out, out>>
        /\ wes' = [last |-> [wes.last EXCEPT ![p] = out[p]],
                   has |-> [wes.has EXCEPT ![p] = TRUE]]
    BY <1>2 DEF Capture
  <2>2. /\ pending' = pending \ {<<"capture", p>>}
        /\ <<"capture", p>> \in pending /\ Even' = Even /\ Sample' = Sample
    BY <2>1, Moves
  <2>3. /\ wes'.last[p] = out[p] /\ wes'.has[p] = TRUE
        /\ \A q \in PFC \ {p} : wes'.last[q] = wes.last[q] /\ wes'.has[q] = wes.has[q]
    BY <2>1 DEF IInv, TypeOK
  <2>4. /\ Fired' <=> Fired
        /\ \A q \in PFC : (Ticked(q)' <=> Ticked(q)) /\ (InFlight(q)' <=> InFlight(q))
    BY <2>2, <2>3 DEF Fired, Ticked, InFlight
  <2>5. Carried'
    BY <2>1, <2>4 DEF MessageInv, Carried, Sends, Grounded
  <2>6. Fresh'
    <3>1. IsFresh(out[p])
      BY <2>2 DEF MessageInv, Fresh
    <3>2. \A q \in PFC : /\ <<"trans", q>> \in pending' => <<"trans", q>> \in pending
                        /\ <<"capture", q>> \in pending' => <<"capture", q>> \in pending
      BY <2>2
    <3> QED
      BY <2>1, <2>2, <2>3, <3>1, <3>2 DEF MessageInv, Fresh, IsFresh
  <2> QED
    BY <2>5, <2>6 DEF MessageInv
<1> QED
  BY <1>1, <1>2

\* At a vote the computers have ticked and every message has reached the voter.
LEMMA AtVote ==
  ASSUME OrderInv, MessageInv, <<"vote", 0>> \in pending, ~Even
  PROVE  \A p \in PFC : /\ Ticked(p)
                        /\ <<"trans", p>> \notin pending /\ <<"capture", p>> \notin pending
                        /\ wes.has[p] <=> Sends(pfc[p])
                        /\ wes.has[p] => IsFresh(wes.last[p])
<1>1. \A p \in PFC : /\ <<"startup", p>> \notin pending /\ <<"tick", p>> \notin pending
                     /\ <<"trans", p>> \notin pending /\ <<"capture", p>> \notin pending
  BY DEF OrderInv, OnWholeSeconds
<1> QED
  BY <1>1 DEF MessageInv, Carried, Fresh, InFlight, Ticked, Fired

\* Votes run half a second after the ticks.
LEMMA VoteNotEven == IInv /\ <<"vote", 0>> \in pending => ~Even
BY DEF IInv, VotesBetweenTicks, Even

\* A vote leaves the voter with nothing.
LEMMA VoteMessages ==
  ASSUME IInv, OrderInv, MessageInv, VoteSilent \/ Vote
  PROVE  MessageInv'
<1>1. PICK then \in SUBSET {<<"pfcds", 0>>} : React(<<"vote", 0>>, then)
  BY DEF VoteSilent, Vote
<1>2. /\ <<"vote", 0>> \in pending /\ Even' = Even
      /\ pending' = (pending \ {<<"vote", 0>>}) \cup then
  BY <1>1, Moves
<1>3. ~Even
  BY <1>2, VoteNotEven
<1>4. \A p \in PFC : ~wes'.has[p]
  <2>1. CASE VoteSilent
    <3>1. \A p \in PFC : ~Valid(wes.last, wes.has, p)
      BY <2>1 DEF VoteSilent, WESVote, PairwiseDecision
    <3> QED
      BY <1>2, <1>3, <2>1, <3>1, AtVote DEF Valid, IsFresh, VoteSilent
  <2>2. CASE Vote
    BY <2>2 DEF Vote, HasAfterVote, IInv, TypeOK
  <2> QED
    BY <2>1, <2>2
<1>5. \A p \in PFC : <<"trans", p>> \notin pending' /\ <<"capture", p>> \notin pending'
  BY <1>2, <1>3, AtVote
<1>6. ~Fired'
  BY <1>2, <1>3 DEF Fired
<1> QED
  BY <1>4, <1>5, <1>6 DEF MessageInv, Carried, Fresh, InFlight

LEMMA OtherMessages ==
  ASSUME IInv, MessageInv, GenerateFaults \/ Disconnect PROVE MessageInv'
<1>1. CASE GenerateFaults
  <2> DEFINE then == FaultReactions(fault')
  <2>1. React(<<"fman", 0>>, then) /\ UNCHANGED <<pfc, wes, speed_out, out>>
    BY <1>1 DEF GenerateFaults
  <2>2. then \in SUBSET Triggered /\ then \cap Carriers = {} /\ <<"fman", 0>> \notin Carriers
    BY DEF FaultReactions, Triggered, Carriers
  <2> HIDE DEF then
  <2> QED
    BY <2>1, <2>2, MessagesKept
<1>2. CASE Disconnect
  <2>1. React(<<"pfcds", 0>>, {}) /\ UNCHANGED <<pfc, wes, speed_out, out>>
    BY <1>2 DEF Disconnect
  <2>2. <<"pfcds", 0>> \notin Carriers
    BY DEF Carriers
  <2> QED
    BY <2>1, <2>2, MessagesKept
<1> QED
  BY <1>1, <1>2

\* What was sent on the second is voted on half a second later, in its second.
LEMMA AdvanceMessages ==
  ASSUME IInv, OrderInv, MessageInv, AdvanceTag PROVE MessageInv'
<1> USE AdvanceDoes
<1>1. \A p \in PFC : Ticked(p) /\ (InFlight(p) <=> wes.has[p])
  BY DEF Ticked, InFlight
<1>2. \A p \in PFC : InFlight(p)' <=> wes.has[p]
  BY DEF InFlight
<1>3. CASE Even
  <2>1. ~Even' /\ <<"vote", 0>> \in pending' /\ Sample' = Sample
    BY <1>3
  <2>2. \A p \in PFC : Ticked(p)'
    BY <2>1 DEF Ticked
  <2>3. Carried'
    BY <1>1, <1>2, <1>3, <2>1, <2>2 DEF MessageInv, Carried, Fired, Sends, Grounded
  <2>4. Fresh'
    BY <2>1 DEF MessageInv, Fresh, IsFresh
  <2> QED
    BY <2>3, <2>4 DEF MessageInv
<1>4. CASE ~Even
  <2>1. \A p \in PFC : ~wes.has[p]
    BY <1>1, <1>4 DEF MessageInv, Carried, Fired
  <2>2. \A p \in PFC : ~(Fired' /\ Ticked(p)')
    BY <1>4 DEF Fired, Ticked
  <2>3. Carried'
    BY <1>2, <2>1, <2>2 DEF Carried
  <2>4. Fresh'
    BY <2>1 DEF Fresh
  <2> QED
    BY <2>3, <2>4 DEF MessageInv
<1> QED
  BY <1>3, <1>4

LEMMA MessageInit == Init => MessageInv
<1> SUFFICES ASSUME Init PROVE MessageInv
  OBVIOUS
<1>1. /\ pending = ({"startup"} \X PFC) \cup TimersAt(0)
                   \cup (IF Timeout = 0 THEN ({"shutdown"} \X PFC) ELSE {})
      /\ \A p \in PFC : ~wes.has[p]
  BY DEF Init
<1>2. TimersAt(0) = {"tick"} \X PFC
  BY DEF TimersAt
<1>3. \A p \in PFC : /\ <<"trans", p>> \notin pending /\ <<"capture", p>> \notin pending
                     /\ <<"tick", p>> \in pending
  BY <1>1, <1>2
<1> QED
  BY <1>1, <1>3 DEF MessageInv, Carried, Fresh, InFlight, Ticked

LEMMA NextMessages == IInv /\ OrderInv /\ MessageInv /\ [Next]_vars => MessageInv'
<1> SUFFICES ASSUME IInv, OrderInv, MessageInv, [Next]_vars PROVE MessageInv'
  OBVIOUS
<1>1. CASE \E p \in PFC : PFCNext(p)
  BY <1>1, ComputerMessages
<1>2. CASE \E p \in PFC : Forward(p) \/ Capture(p)
  BY <1>2, LaneMessages
<1>3. CASE VoteSilent \/ Vote \/ Disconnect
  BY <1>3, VoteMessages, OtherMessages
<1>4. CASE AdvanceTag \/ GenerateFaults
  BY <1>4, AdvanceMessages, OtherMessages
<1>5. CASE Stop \/ UNCHANGED vars
  BY <1>5 DEF Stop, vars, timing, MessageInv, Carried, Fresh, IsFresh, InFlight, Fired,
              Ticked, Sends, Grounded, Even, Sample
<1> QED
  BY <1>1, <1>2, <1>3, <1>4, <1>5 DEF Next, Rest, Stopped

-----------------------------------------------------------------------------
(* That at most one lane is spoilt is an invariant                         *)

\* A step that spoils nothing new.
LEMMA NoNewSpoils ==
  ASSUME BiasInv, \A q \in PFC : Spoils(q)' => Spoils(q), Even' => Even, fault' = fault,
         \A q \in PFC : Biased(q)' => <<"tick", q>> \in pending'
  PROVE  BiasInv'
BY DEF BiasInv

\* A message is as wrong as it was while the second lasts.
LEMMA WrongKept ==
  ASSUME Sample' = Sample PROVE \A m : IsWrong(m)' <=> IsWrong(m)
BY DEF IsWrong, TrueSpeed

\* A reaction that leaves the messages alone spoils nothing, unless a computer
\* that can send gets a bias; and whoever has one still ticks.
LEMMA SpoilsKept ==
  ASSUME BiasInv, NEW r, NEW then \in SUBSET Triggered, React(r, then),
         \A q \in PFC : r # <<"tick", q>>,
         \A q \in PFC : <<"trans", q>> \notin then /\ <<"capture", q>> \notin then,
         UNCHANGED <<fault, wes, speed_out, out>>,
         \A q \in PFC : Biased(q)' => Biased(q)
  PROVE  BiasInv' /\ \A q \in PFC : Spoils(q)' => Spoils(q)
<1>1. /\ Even' = Even /\ Sample' = Sample
      /\ \A q \in PFC : /\ <<"trans", q>> \in pending' => <<"trans", q>> \in pending
                        /\ <<"capture", q>> \in pending' => <<"capture", q>> \in pending
                        /\ <<"tick", q>> \in pending => <<"tick", q>> \in pending'
  BY Moves
<1>2. \A q \in PFC : Spoils(q)' => Spoils(q)
  BY <1>1, WrongKept DEF Spoils
<1>3. \A q \in PFC : Biased(q)' => <<"tick", q>> \in pending'
  BY <1>1 DEF BiasInv
<1> QED
  BY <1>1, <1>2, <1>3, NoNewSpoils

\* A tick sends a wrong speed only for a bias, and uses it up.
LEMMA TickBias ==
  ASSUME IInv, BiasInv, NEW p \in PFC,
         TickGrounded(p) \/ TickEndOfFile(p) \/ TickStopped(p) \/ TickSend(p)
  PROVE  BiasInv' /\ \A q \in PFC : Spoils(q)' => Spoils(q)
<1> DEFINE r == <<"tick", p>>
<1>1. PICK then \in SUBSET {<<"trans", p>>} :
        /\ React(r, then) /\ UNCHANGED <<fault, wes, out>>
        /\ TickSend(p) \/ (then = {} /\ speed_out' = speed_out)
  BY SilentTickDoes, TickSendDoes
<1>2. /\ pending' = (pending \ {r}) \cup then /\ r \in pending
      /\ Even' = Even /\ Sample' = Sample
  BY <1>1, Moves
<1>3. /\ ~Biased(p)'
      /\ \A q \in PFC \ {p} : Biased(q)' <=> Biased(q)
      /\ \A q \in PFC \ {p} : speed_out'[q] = speed_out[q]
  BY <1>1, SilentTickDoes, TickSendDoes DEF Biased, Sends, Grounded
<1>4. \A q \in PFC : <<"capture", q>> \in pending' <=> <<"capture", q>> \in pending
  BY <1>1, <1>2
<1>5. Spoils(p)' => Spoils(p)
  <2>1. CASE TickSend(p)
    <3>1. IsWrong(speed_out'[p]) => Biased(p)
      BY <2>1, TickSendDoes DEF Biased, IsWrong
    <3> QED
      BY <1>1, <1>2, <1>3, <1>4, <3>1, WrongKept DEF Spoils
  <2>2. CASE then = {} /\ speed_out' = speed_out
    BY <1>1, <1>2, <1>3, <1>4, <2>2, WrongKept DEF Spoils
  <2> QED
    BY <1>1, <2>1, <2>2
<1>6. ASSUME NEW q \in PFC \ {p} PROVE Spoils(q)' => Spoils(q)
  <2>1. <<"trans", q>> \in pending' <=> <<"trans", q>> \in pending
    BY <1>1, <1>2
  <2> QED
    BY <1>1, <1>2, <1>3, <1>4, <2>1, WrongKept DEF Spoils
<1>7. \A q \in PFC : Biased(q)' => <<"tick", q>> \in pending'
  BY <1>2, <1>3 DEF BiasInv
<1> QED
  BY <1>1, <1>2, <1>5, <1>6, <1>7, NoNewSpoils

\* A fault is handled in the second in which it was given, before the tick.
LEMMA HandleFaultBias ==
  ASSUME IInv, OrderInv, BiasInv, NEW p \in PFC, HandleFault(p)
  PROVE  BiasInv' /\ \A q \in PFC \ {p} : Spoils(q)' => Spoils(q)
<1> DEFINE r == <<"fault", p>>
<1>1. React(r, {}) /\ UNCHANGED <<fault, wes, speed_out, out>>
  BY DEF HandleFault
<1>2. pending' = pending \ {r} /\ r \in pending /\ Even' = Even /\ Sample' = Sample
  BY <1>1, Moves
<1>3. Even /\ fault[p] # NoFault /\ \A q \in PFC : <<"tick", q>> \in pending'
  BY <1>2 DEF OrderInv, OnWholeSeconds, FaultsFirst
<1>4. \A q \in PFC : /\ <<"trans", q>> \in pending' <=> <<"trans", q>> \in pending
                     /\ <<"capture", q>> \in pending' <=> <<"capture", q>> \in pending
  BY <1>2
<1>5. \A q \in PFC \ {p} : Biased(q)' <=> Biased(q)
  BY HandleFaultDoes DEF Biased, Sends, Grounded
<1>6. \A q \in PFC \ {p} : Spoils(q)' => Spoils(q)
  BY <1>1, <1>2, <1>4, <1>5, WrongKept DEF Spoils
<1>7. \A q \in PFC : Spoils(q)' => fault'[q] # NoFault
  BY <1>1, <1>3, <1>6 DEF BiasInv
<1>8. \A q, u \in PFC : Spoils(q)' /\ Spoils(u)' => q = u
  BY <1>1, <1>7 DEF OrderInv, FaultsFirst
<1> QED
  BY <1>3, <1>6, <1>7, <1>8 DEF BiasInv

LEMMA ComputerBias ==
  ASSUME IInv, OrderInv, BiasInv, NEW p \in PFC, PFCNext(p)
  PROVE  BiasInv' /\ \A q \in PFC : Spoils(q)' => Spoils(q) \/ HandleFault(q)
<1>1. CASE Startup(p)
  <2>1. React(<<"startup", p>>, {}) /\ UNCHANGED <<fault, wes, speed_out, out>>
    BY <1>1 DEF Startup
  <2>2. \A q \in PFC : ~pfc[q].bias
    BY <2>1, Moves DEF OrderInv, StartsClean
  <2>3. \A q \in PFC : ~Biased(q)'
    BY <1>1, <2>2, StartupDoes DEF Biased
  <2> QED
    BY <2>1, <2>3, SpoilsKept
<1>2. CASE HandleFault(p)
  BY <1>2, HandleFaultBias
<1>3. CASE TickGrounded(p) \/ TickEndOfFile(p) \/ TickStopped(p) \/ TickSend(p)
  BY <1>3, TickBias
<1>4. CASE Shutdown(p)
  <2>1. React(<<"shutdown", p>>, {}) /\ UNCHANGED <<fault, wes, speed_out, out>>
    BY <1>4 DEF Shutdown
  <2>2. \A q \in PFC : Biased(q)' => Biased(q)
    BY <1>4, ShutdownDoes DEF Biased, Sends, Grounded
  <2> QED
    BY <2>1, <2>2, SpoilsKept
<1> QED
  BY <1>1, <1>2, <1>3, <1>4 DEF PFCNext

\* A message is no more wrong at its next place.
LEMMA LaneBias ==
  ASSUME IInv, BiasInv, NEW p \in PFC, Forward(p) \/ Capture(p)
  PROVE  BiasInv' /\ \A q \in PFC : Spoils(q)' => Spoils(q)
<1>1. UNCHANGED <<pfc, fault>>
  BY DEF Forward, Capture
<1>2. \A q \in PFC : Biased(q)' <=> Biased(q)
  BY <1>1 DEF Biased, Sends, Grounded
<1>3. CASE Forward(p)
  <2>1. /\ React(<<"trans", p>>, {<<"capture", p>>}) /\ UNCHANGED <<wes, speed_out>>
        /\ out' = [out EXCEPT ![p] = speed_out[p]]
    BY <1>3 DEF Forward
  <2>2. /\ pending' = (pending \ {<<"trans", p>>}) \cup {<<"capture", p>>}
        /\ <<"trans", p>> \in pending /\ Even' = Even /\ Sample' = Sample
    BY <2>1, Moves
  <2>3. out'[p] = speed_out[p] /\ \A q \in PFC \ {p} : out'[q] = out[q]
    BY <2>1 DEF IInv, TypeOK
  <2>4. \A q \in PFC : /\ <<"trans", q>> \in pending' => <<"trans", q>> \in pending
                       /\ <<"tick", q>> \in pending => <<"tick", q>> \in pending'
                       /\ q # p => (<<"capture", q>> \in pending' => <<"capture", q>> \in pending)
    BY <2>2
  <2>5. \A q \in PFC : Spoils(q)' => Spoils(q)
    BY <1>2, <2>1, <2>2, <2>3, <2>4, WrongKept DEF Spoils
  <2> QED
    BY <1>1, <1>2, <2>2, <2>4, <2>5, NoNewSpoils DEF BiasInv
<1>4. CASE Capture(p)
  <2>1. /\ React(<<"capture", p>>, {}) /\ UNCHANGED <<speed_out, out>>
        /\ wes' = [last |-> [wes.last EXCEPT ![p] = out[p]],
                   has |-> [wes.has EXCEPT ![p] = TRUE]]
    BY <1>4 DEF Capture
  <2>2. /\ pending' = pending \ {<<"capture", p>>}
        /\ <<"capture", p>> \in pending /\ Even' = Even /\ Sample' = Sample
    BY <2>1, Moves
  <2>3. /\ wes'.last[p] = out[p]
        /\ \A q \in PFC \ {p} : wes'.last[q] = wes.last[q] /\ wes'.has[q] = wes.has[q]
    BY <2>1 DEF IInv, TypeOK
  <2>4. \A q \in PFC : /\ <<"trans", q>> \in pending' => <<"trans", q>> \in pending
                       /\ <<"tick", q>> \in pending => <<"tick", q>> \in pending'
                       /\ <<"capture", q>> \in pending' => <<"capture", q>> \in pending
    BY <2>2
  <2>5. \A q \in PFC : Spoils(q)' => Spoils(q)
    BY <1>2, <2>1, <2>2, <2>3, <2>4, WrongKept DEF Spoils
  <2> QED
    BY <1>1, <1>2, <2>2, <2>4, <2>5, NoNewSpoils DEF BiasInv
<1> QED
  BY <1>3, <1>4

LEMMA VoteBias ==
  ASSUME IInv, BiasInv, VoteSilent \/ Vote
  PROVE  BiasInv' /\ \A q \in PFC : Spoils(q)' => Spoils(q)
<1>1. PICK then \in SUBSET {<<"pfcds", 0>>} :
        React(<<"vote", 0>>, then) /\ UNCHANGED <<pfc, fault, speed_out, out>>
  BY DEF VoteSilent, Vote
<1>2. /\ Even' = Even /\ Sample' = Sample
      /\ pending' = (pending \ {<<"vote", 0>>}) \cup then
  BY <1>1, Moves
<1>3. \A q \in PFC : /\ <<"trans", q>> \in pending' <=> <<"trans", q>> \in pending
                     /\ <<"capture", q>> \in pending' <=> <<"capture", q>> \in pending
                     /\ <<"tick", q>> \in pending' <=> <<"tick", q>> \in pending
  BY <1>1, <1>2
<1>4. \A q \in PFC : wes'.has[q] => wes.has[q] /\ wes'.last[q] = wes.last[q]
  BY DEF VoteSilent, Vote, HasAfterVote, IInv, TypeOK
<1>5. \A q \in PFC : Biased(q)' <=> Biased(q)
  BY <1>1 DEF Biased, Sends, Grounded
<1>6. \A q \in PFC : Spoils(q)' => Spoils(q)
  BY <1>1, <1>2, <1>3, <1>4, <1>5, WrongKept DEF Spoils
<1> QED
  BY <1>1, <1>2, <1>3, <1>5, <1>6, NoNewSpoils DEF BiasInv

\* Nothing is spoilt when faults are given.
LEMMA GenerateFaultsBias ==
  ASSUME IInv, OrderInv, BiasInv, GenerateFaults
  PROVE  BiasInv' /\ \A q \in PFC : ~Spoils(q)'
<1> DEFINE then == FaultReactions(fault')
<1>1. React(<<"fman", 0>>, then) /\ UNCHANGED <<pfc, wes, speed_out, out>>
  BY DEF GenerateFaults
<1>2. /\ pending' = (pending \ {<<"fman", 0>>}) \cup then
      /\ <<"fman", 0>> \in pending /\ Even' = Even /\ Sample' = Sample
  BY <1>1, Moves
<1>3. \A q \in PFC : fault[q] = NoFault
  BY <1>2 DEF OrderInv, FaultsFirst, NoFaults
<1>4. Even
  BY <1>2 DEF OrderInv, OnWholeSeconds
<1>5. \A q \in PFC : ~Spoils(q)
  BY <1>3, <1>4 DEF BiasInv
<1>6. \A q \in PFC : /\ <<"trans", q>> \in pending' => <<"trans", q>> \in pending
                     /\ <<"capture", q>> \in pending' => <<"capture", q>> \in pending
  BY <1>2 DEF FaultReactions
<1>7. \A q \in PFC : ~Spoils(q)' /\ ~Biased(q)'
  BY <1>1, <1>2, <1>5, <1>6, WrongKept DEF Spoils, Biased, Sends, Grounded
<1> QED
  BY <1>7 DEF BiasInv

\* When a new second begins nothing is on its way and no bias is about to be sent.
LEMMA AdvanceBias ==
  ASSUME IInv, OrderInv, MessageInv, BiasInv, AdvanceTag
  PROVE  BiasInv' /\ \A q \in PFC : Spoils(q)' => Spoils(q) /\ Sample' = Sample
<1> USE AdvanceDoes
<1>1. \A q \in PFC : ~Biased(q) /\ (Biased(q)' <=> Biased(q))
  BY DEF BiasInv, Biased, Sends, Grounded
<1>2. \A q \in PFC : Spoils(q)' => wes.has[q] /\ IsWrong(wes.last[q])'
  BY <1>1 DEF Spoils
<1>3. CASE Even
  <2>1. ~Even' /\ Sample' = Sample
    BY <1>3
  <2>2. \A q \in PFC : Spoils(q)' => Spoils(q)
    BY <1>2, <2>1, WrongKept DEF Spoils
  <2> QED
    BY <1>1, <2>1, <2>2 DEF BiasInv
<1>4. CASE ~Even
  <2>1. \A q \in PFC : ~wes.has[q]
    BY <1>4 DEF MessageInv, Carried, InFlight, Fired
  <2> QED
    BY <1>1, <1>2, <2>1 DEF BiasInv
<1> QED
  BY <1>3, <1>4

LEMMA BiasInit == Init => BiasInv
<1> SUFFICES ASSUME Init PROVE BiasInv
  OBVIOUS
<1>1. /\ pending = ({"startup"} \X PFC) \cup TimersAt(0)
                   \cup (IF Timeout = 0 THEN ({"shutdown"} \X PFC) ELSE {})
      /\ \A p \in PFC : ~wes.has[p] /\ ~pfc[p].bias
  BY DEF Init, NewPFC
<1>2. TimersAt(0) = {"tick"} \X PFC
  BY DEF TimersAt
<1>3. \A p \in PFC : <<"trans", p>> \notin pending /\ <<"capture", p>> \notin pending
  BY <1>1, <1>2
<1> QED
  BY <1>1, <1>3 DEF BiasInv, Spoils, Biased

LEMMA SampleKept == ASSUME [Next]_vars, ~AdvanceTag PROVE Sample' = Sample
<1>1. time' = time
  BY Moves DEF Next, PFCNext, Rest, Startup, HandleFault, TickGrounded,
     TickEndOfFile, TickStopped, TickSend, Shutdown, Forward, Capture,
     VoteSilent, Vote, Disconnect, GenerateFaults, Stop, Stopped, vars, timing
<1> QED
  BY <1>1 DEF Sample

\* A lane is spoilt by a fault, in the second in which it is given, or not at all.
LEMMA SpoiltByFault ==
  ASSUME IInv, OrderInv, MessageInv, BiasInv, [Next]_vars
  PROVE  /\ BiasInv'
         /\ \A q \in PFC : Spoils(q)' => HandleFault(q) \/ (Spoils(q) /\ Sample' = Sample)
<1> SUFFICES ASSUME ~AdvanceTag
             PROVE  BiasInv' /\ \A q \in PFC : Spoils(q)' => HandleFault(q) \/ Spoils(q)
  BY AdvanceBias, SampleKept
<1>1. CASE \E p \in PFC : PFCNext(p)
  BY <1>1, ComputerBias
<1>2. CASE \E p \in PFC : Forward(p) \/ Capture(p)
  BY <1>2, LaneBias
<1>3. CASE VoteSilent \/ Vote
  BY <1>3, VoteBias
<1>4. CASE Disconnect
  <2>1. React(<<"pfcds", 0>>, {}) /\ UNCHANGED <<pfc, fault, wes, speed_out, out>>
    BY <1>4 DEF Disconnect
  <2>2. \A q \in PFC : Biased(q)' => Biased(q)
    BY <2>1 DEF Biased, Sends, Grounded
  <2> QED
    BY <2>1, <2>2, SpoilsKept
<1>5. CASE GenerateFaults
  BY <1>5, GenerateFaultsBias
<1>6. CASE Stop \/ UNCHANGED vars
  <2>1. UNCHANGED <<pfc, fault, wes, speed_out, out, time, pending>>
    BY <1>6 DEF Stop, vars, timing
  <2>2. Even' = Even /\ Sample' = Sample
    BY <2>1 DEF Even, Sample
  <2>3. \A q \in PFC : Biased(q)' <=> Biased(q)
    BY <2>1 DEF Biased, Sends, Grounded
  <2>4. \A q \in PFC : Spoils(q)' => Spoils(q)
    BY <2>1, <2>2, <2>3, WrongKept DEF Spoils
  <2> QED
    BY <2>1, <2>2, <2>3, <2>4, NoNewSpoils DEF BiasInv
<1> QED
  BY <1>1, <1>2, <1>3, <1>4, <1>5, <1>6 DEF Next, Rest, Stopped

LEMMA NextBias == IInv /\ OrderInv /\ MessageInv /\ BiasInv /\ [Next]_vars => BiasInv'
BY SpoiltByFault

-----------------------------------------------------------------------------
(* A vote gives the right verdict                                          *)

\* What has_s and last_s say at a vote about the conditions of the lanes.
LEMMA Conditions ==
  ASSUME IInv, OrderInv, MessageInv, <<"vote", 0>> \in pending, NEW p \in PFC
  PROVE  /\ wes.has[p] <=> Sends(pfc[p])
         /\ Valid(wes.last, wes.has, p) <=> ConditionOf(p) # "missing"
         /\ ConditionOf(p) = "good" <=> wes.has[p] /\ wes.last[p].speed = TrueSpeed(Sample)
         /\ ConditionOf(p) = "corrupt" => wes.has[p] /\ wes.last[p].speed # TrueSpeed(Sample)
         /\ wes.has[p] => wes.last[p].valid /\ wes.last[p].counter = Sample
         /\ wes.has[p] /\ wes.last[p].speed # TrueSpeed(Sample) => Spoils(p)
<1>1. /\ wes.has[p] <=> Sends(pfc[p])
      /\ wes.has[p] => wes.last[p].valid /\ wes.last[p].counter = Sample
  BY VoteNotEven, AtVote DEF IsFresh
<1> QED
  BY <1>1 DEF ConditionOf, Valid, Spoils, IsWrong

\* Two lanes agree at a vote exactly when both are good.
LEMMA AgreeGood ==
  ASSUME IInv, OrderInv, MessageInv, BiasInv, <<"vote", 0>> \in pending,
         NEW i \in PFC, NEW j \in PFC, i # j
  PROVE  (/\ Valid(wes.last, wes.has, i) /\ Valid(wes.last, wes.has, j)
          /\ SameSample(wes.last, i, j))
         <=> (ConditionOf(i) = "good" /\ ConditionOf(j) = "good")
<1>1. ASSUME Valid(wes.last, wes.has, i), Valid(wes.last, wes.has, j),
             SameSample(wes.last, i, j)
      PROVE  ConditionOf(i) = "good" /\ ConditionOf(j) = "good"
  <2>1. wes.has[i] /\ wes.has[j] /\ wes.last[i].speed = wes.last[j].speed
    BY <1>1 DEF Valid, SameSample
  <2>2. ~(Spoils(i) /\ Spoils(j))
    BY DEF BiasInv
  <2>3. wes.last[i].speed = TrueSpeed(Sample)
    BY <2>1, <2>2, Conditions
  <2> QED
    BY <2>1, <2>3, Conditions
<1>2. ASSUME ConditionOf(i) = "good", ConditionOf(j) = "good"
      PROVE  /\ Valid(wes.last, wes.has, i) /\ Valid(wes.last, wes.has, j)
             /\ SameSample(wes.last, i, j)
  BY <1>2, Conditions DEF SameSample
<1> QED
  BY <1>1, <1>2

\* The vote of WES is the verdict TMR asks for.
LEMMA VoteJudges ==
  ASSUME IInv, OrderInv, MessageInv, BiasInv, <<"vote", 0>> \in pending
  PROVE  WESVote(wes.last, wes.has) = Abstract!Judgement([p \in PFC |-> ConditionOf(p)])
<1> DEFINE c == [p \in PFC |-> ConditionOf(p)]
           match(i, j) == /\ Valid(wes.last, wes.has, i) /\ Valid(wes.last, wes.has, j)
                          /\ SameSample(wes.last, i, j)
           good == {i \in 1 .. 3 : c[i] = "good"}
<1>1. ASSUME NEW i \in PFC, NEW j \in PFC, i # j
      PROVE  match(i, j) <=> i \in good /\ j \in good
  <2>1. i \in 1 .. 3 /\ j \in 1 .. 3 /\ c[i] = ConditionOf(i) /\ c[j] = ConditionOf(j)
    BY DEF PFC
  <2> QED
    BY <2>1, <1>1, AgreeGood
<1>2. (\A i \in PFC : ~Valid(wes.last, wes.has, i)) <=> (\A i \in 1 .. 3 : c[i] = "missing")
  BY Conditions DEF PFC
<1>3. WESVote(wes.last, wes.has) =
        IF \A i \in PFC : ~Valid(wes.last, wes.has, i) THEN "NONE"
        ELSE IF match(1, 2) /\ match(1, 3) THEN "OK"
        ELSE IF match(1, 2) THEN "ERROR_PFC3"
        ELSE IF match(1, 3) THEN "ERROR_PFC2"
        ELSE IF match(2, 3) THEN "ERROR_PFC1"
        ELSE "EMERGENCY"
  BY DEF WESVote, PairwiseDecision
<1>4. Abstract!Judgement(c) =
        IF \A i \in 1 .. 3 : c[i] = "missing" THEN "NONE"
        ELSE IF good = 1 .. 3 THEN "OK"
        ELSE IF good = {2, 3} THEN "ERROR_PFC1"
        ELSE IF good = {1, 3} THEN "ERROR_PFC2"
        ELSE IF good = {1, 2} THEN "ERROR_PFC3"
        ELSE "EMERGENCY"
  BY DEF Abstract!Judgement, Abstract!Lanes
<1>5. good \subseteq {1, 2, 3} /\ 1 .. 3 = {1, 2, 3}
  OBVIOUS
<1>6. /\ match(1, 2) <=> (1 \in good /\ 2 \in good)
      /\ match(1, 3) <=> (1 \in good /\ 3 \in good)
      /\ match(2, 3) <=> (2 \in good /\ 3 \in good)
  <2>1. 1 \in PFC /\ 2 \in PFC /\ 3 \in PFC /\ 1 # 2 /\ 1 # 3 /\ 2 # 3
    BY DEF PFC
  <2> HIDE DEF good, match
  <2> QED
    BY <1>1, <2>1, Zenon
<1> HIDE DEF good, match, c
<1>7. ASSUME \A i \in 1 .. 3 : c[i] = "missing"
      PROVE  WESVote(wes.last, wes.has) = Abstract!Judgement(c)
  BY <1>2, <1>3, <1>4, <1>7, Zenon
<1>8. ASSUME ~(\A i \in 1 .. 3 : c[i] = "missing"), NEW v,
             Abstract!Judgement(c) = v,
             v = IF match(1, 2) /\ match(1, 3) THEN "OK"
                 ELSE IF match(1, 2) THEN "ERROR_PFC3"
                 ELSE IF match(1, 3) THEN "ERROR_PFC2"
                 ELSE IF match(2, 3) THEN "ERROR_PFC1"
                 ELSE "EMERGENCY"
      PROVE  WESVote(wes.last, wes.has) = Abstract!Judgement(c)
  BY <1>2, <1>3, <1>8, Zenon
<1>9. ASSUME ~(\A i \in 1 .. 3 : c[i] = "missing")
      PROVE  WESVote(wes.last, wes.has) = Abstract!Judgement(c)
  <2>1. CASE good = {1, 2, 3}
    <3>1. Abstract!Judgement(c) = "OK"
      BY <1>4, <1>5, <1>9, <2>1
    <3>2. match(1, 2) /\ match(1, 3)
      BY <1>6, <2>1
    <3> QED
      BY <1>8, <1>9, <3>1, <3>2, Zenon
  <2>2. CASE good = {2, 3}
    <3>1. Abstract!Judgement(c) = "ERROR_PFC1"
      BY <1>4, <1>5, <1>9, <2>2
    <3>2. ~match(1, 2) /\ ~match(1, 3) /\ match(2, 3)
      <4>1. 1 \notin good /\ 2 \in good /\ 3 \in good
        BY <2>2
      <4> QED
        BY <1>6, <4>1, Zenon
    <3> QED
      BY <1>8, <1>9, <3>1, <3>2, Zenon
  <2>3. CASE good = {1, 3}
    <3>1. Abstract!Judgement(c) = "ERROR_PFC2"
      BY <1>4, <1>5, <1>9, <2>3
    <3>2. ~match(1, 2) /\ match(1, 3)
      <4>1. 1 \in good /\ 2 \notin good /\ 3 \in good
        BY <2>3
      <4> QED
        BY <1>6, <4>1, Zenon
    <3> QED
      BY <1>8, <1>9, <3>1, <3>2, Zenon
  <2>4. CASE good = {1, 2}
    <3>1. Abstract!Judgement(c) = "ERROR_PFC3"
      BY <1>4, <1>5, <1>9, <2>4
    <3>2. match(1, 2) /\ ~match(1, 3)
      <4>1. 1 \in good /\ 2 \in good /\ 3 \notin good
        BY <2>4
      <4> QED
        BY <1>6, <4>1, Zenon
    <3> QED
      BY <1>8, <1>9, <3>1, <3>2, Zenon
  <2>5. CASE good \notin {{1, 2, 3}, {2, 3}, {1, 3}, {1, 2}}
    <3>1. Abstract!Judgement(c) = "EMERGENCY"
      BY <1>4, <1>5, <1>9, <2>5
    <3>2. ~match(1, 2) /\ ~match(1, 3) /\ ~match(2, 3)
      <4>1. 1 \in good /\ 2 \in good => good = {1, 2} \/ good = {1, 2, 3}
        BY <1>5, Zenon
      <4>2. 1 \in good /\ 3 \in good => good = {1, 3} \/ good = {1, 2, 3}
        BY <1>5, Zenon
      <4>3. 2 \in good /\ 3 \in good => good = {2, 3} \/ good = {1, 2, 3}
        BY <1>5, Zenon
      <4> QED
        BY <1>6, <2>5, <4>1, <4>2, <4>3
    <3> QED
      BY <1>8, <1>9, <3>1, <3>2, Zenon
  <2> QED
    BY <2>1, <2>2, <2>3, <2>4, <2>5
<1> QED
  BY <1>7, <1>9 DEF c

\* A verdict between NONE and EMERGENCY stands for two good lanes.
LEMMA VerdictTwoGood ==
  ASSUME NEW c, Abstract!Judgement(c) \notin {"NONE", "EMERGENCY"}
  PROVE  \E p, q \in PFC : p # q /\ c[p] = "good" /\ c[q] = "good"
<1> DEFINE good == {i \in 1 .. 3 : c[i] = "good"}
<1>1. good = 1 .. 3 \/ good = {2, 3} \/ good = {1, 3} \/ good = {1, 2}
  BY DEF Abstract!Judgement, Abstract!Lanes
<1>2. (1 \in good /\ 2 \in good) \/ (2 \in good /\ 3 \in good) \/ (1 \in good /\ 3 \in good)
  BY <1>1
<1> QED
  BY <1>2 DEF PFC

-----------------------------------------------------------------------------
(* That nobody is lost in silence is an invariant                          *)

LEMMA NextReads == IInv /\ OrderInv /\ ReadsOn /\ [Next]_vars => ReadsOn'
<1> SUFFICES ASSUME IInv, OrderInv, ReadsOn, [Next]_vars PROVE ReadsOn'
  OBVIOUS
<1>1. time \in Nat /\ (time' = time \/ time' = time + 1)
  <2>1. CASE AdvanceTag
    BY <2>1, AdvanceDoes DEF IInv, TypeOK
  <2>2. CASE ~AdvanceTag
    BY <2>2, Moves DEF Next, PFCNext, Rest, Startup, HandleFault, TickGrounded,
       TickEndOfFile, TickStopped, TickSend, Shutdown, Forward, Capture,
       VoteSilent, Vote, Disconnect, GenerateFaults, Stop, Stopped, vars, timing, IInv, TypeOK
  <2> QED
    BY <2>1, <2>2
<1>2. ASSUME \A p \in PFC : pfc'[p].eof_reached => pfc[p].eof_reached PROVE ReadsOn'
  BY <1>1, <1>2, FBWAssumption DEF ReadsOn
<1>3. ASSUME NEW p \in PFC, TickGrounded(p) \/ TickEndOfFile(p) \/ TickStopped(p)
      PROVE  ReadsOn'
  <2>1. <<"tick", p>> \in pending
    BY <1>3, SilentTickDoes, Moves
  <2>2. ~Grounded(pfc[p]) /\ pfc[p].line = Samples => time >= 2 * Samples
    <3>1. ~Grounded(pfc[p]) => pfc[p].line = Sample
      BY <2>1 DEF IInv, OnSample, Ticked
    <3>2. \A t \in Nat : 2 * (t \div 2) <= t
      OBVIOUS
    <3> QED
      BY <1>1, <3>1, <3>2 DEF Sample
  <2>3. \A q \in PFC : pfc'[q].eof_reached => time >= 2 * Samples
    BY <1>3, <2>2, SilentTickDoes DEF ReadsOn
  <2> QED
    BY <1>1, <2>3, FBWAssumption DEF ReadsOn
<1>4. ASSUME NEW p \in PFC, PFCNext(p) PROVE ReadsOn'
  <2>1. CASE Startup(p)
    BY <1>2, <2>1, StartupDoes
  <2>2. CASE HandleFault(p)
    BY <1>2, <2>2, HandleFaultDoes
  <2>3. CASE TickSend(p)
    BY <1>2, <2>3, TickSendDoes
  <2>4. CASE Shutdown(p)
    BY <1>2, <2>4, ShutdownDoes
  <2> QED
    BY <1>3, <1>4, <2>1, <2>2, <2>3, <2>4 DEF PFCNext
<1>5. CASE Rest \/ GenerateFaults \/ Stopped \/ UNCHANGED vars
  <2>1. pfc' = pfc
    BY <1>5 DEF Rest, Forward, Capture, VoteSilent, Vote, Disconnect, AdvanceTag, Stop,
       GenerateFaults, Stopped, vars
  <2> QED
    BY <1>2, <2>1
<1> QED
  BY <1>4, <1>5 DEF Next

\* A reaction other than a vote and FMAN's that puts no computer down.
LEMMA UpKept ==
  ASSUME LosesOne, NEW r, NEW then \in SUBSET Triggered, React(r, then), r # <<"vote", 0>>,
         UNCHANGED <<fault, report>>,
         \A q \in PFC : /\ pfc'[q].alive = pfc[q].alive /\ pfc'[q].active = pfc[q].active
                        /\ pfc'[q].fp = "NULL" <=> pfc[q].fp = "NULL"
  PROVE  LosesOne'
<1>1. /\ Even' = Even
      /\ <<"vote", 0>> \in pending' <=> <<"vote", 0>> \in pending
      /\ <<"fman", 0>> \in pending' => <<"fman", 0>> \in pending
  <2>1. <<"vote", 0>> \notin then /\ <<"fman", 0>> \notin then
    BY DEF Triggered
  <2> QED
    BY <2>1, Moves
<1>2. \A q \in PFC : Up(pfc[q])' <=> Up(pfc[q])
  BY DEF Up
<1>3. (AllRead' <=> AllRead) /\ (TwoUp' <=> TwoUp) /\ (TwoGood' <=> TwoGood)
  BY <1>2 DEF AllRead, TwoUp, TwoGood
<1> QED
  BY <1>1, <1>2, <1>3 DEF LosesOne

\* A fault puts down the one computer it was given to.
LEMMA HandleFaultLoss ==
  ASSUME IInv, OrderInv, LosesOne, NEW p \in PFC, HandleFault(p) PROVE LosesOne'
<1>1. React(<<"fault", p>>, {}) /\ UNCHANGED <<fault, report>>
  BY DEF HandleFault
<1>2. /\ <<"fault", p>> \in pending /\ Even' = Even
      /\ pending' = pending \ {<<"fault", p>>}
  BY <1>1, Moves
<1>3. Even /\ fault[p] # NoFault /\ <<"fman", 0>> \notin pending
      /\ \A q \in PFC \ {p} : fault[q] = NoFault
  BY <1>2 DEF OrderInv, OnWholeSeconds, FaultsFirst, NoFaults
<1>4. ~Even' \/ <<"vote", 0>> \notin pending'
  BY <1>2, VoteNotEven
<1>5. SUFFICES ASSUME AllRead, report.verdict # "EMERGENCY"
               PROVE  \E u \in PFC : Up(pfc'[u]) /\ fault[u] = NoFault
  <2>1. AllRead' => AllRead
    BY HandleFaultDoes DEF AllRead
  <2> QED
    BY <1>1, <1>2, <1>3, <1>4, <1>5, <2>1 DEF LosesOne, Up
<1>6. \E u \in PFC \ {p} : Up(pfc[u])
  BY <1>3, <1>5 DEF LosesOne, TwoUp
<1> QED
  BY <1>3, <1>6, HandleFaultDoes

LEMMA ComputerLoss ==
  ASSUME IInv, OrderInv, LosesOne, NEW p \in PFC, PFCNext(p) PROVE LosesOne'
<1>1. CASE Startup(p)
  <2>1. React(<<"startup", p>>, {})
    BY <1>1 DEF Startup
  <2>2. /\ <<"startup", p>> \in pending /\ Even' = Even
        /\ pending' = pending \ {<<"startup", p>>}
    BY <2>1, Moves
  <2>3. Even /\ \A q \in PFC : pfc[q].alive /\ pfc[q].active
    BY <2>2 DEF OrderInv, OnWholeSeconds, StartsClean
  <2>4. TwoUp'
    <3>1. 1 \in PFC /\ 2 \in PFC /\ 1 # 2
      BY DEF PFC
    <3> QED
      BY <1>1, <2>3, <3>1, StartupDoes DEF TwoUp, Up
  <2>5. <<"vote", 0>> \notin pending'
    BY <2>2, <2>3, VoteNotEven
  <2> QED
    BY <2>2, <2>3, <2>4, <2>5 DEF LosesOne
<1>2. CASE HandleFault(p)
  BY <1>2, HandleFaultLoss
<1>3. CASE TickGrounded(p) \/ TickEndOfFile(p) \/ TickStopped(p)
  <2>1. /\ React(<<"tick", p>>, {}) /\ UNCHANGED <<fault, report>>
        /\ \A q \in PFC : /\ pfc'[q].alive = pfc[q].alive /\ pfc'[q].active = pfc[q].active
                          /\ pfc'[q].fp = "NULL" <=> pfc[q].fp = "NULL"
    BY <1>3, SilentTickDoes
  <2> QED
    BY <2>1, UpKept
<1>4. CASE TickSend(p)
  <2> DEFINE then == {<<"trans", p>>}
  <2>1. then \in SUBSET Triggered /\ <<"tick", p>> # <<"vote", 0>>
    BY DEF Triggered
  <2>2. React(<<"tick", p>>, then)
    BY <1>4, TickSendDoes
  <2> HIDE DEF then
  <2> QED
    BY <1>4, <2>1, <2>2, TickSendDoes, UpKept
<1>5. CASE Shutdown(p)
  <2>1. React(<<"shutdown", p>>, {}) /\ UNCHANGED <<fault, report>>
    BY <1>5 DEF Shutdown
  <2> QED
    BY <1>5, <2>1, ShutdownDoes, UpKept
<1> QED
  BY <1>1, <1>2, <1>3, <1>4, <1>5 DEF PFCNext

\* Somebody is heard at the vote; if two do not agree it says EMERGENCY.
LEMMA VoteLoss ==
  ASSUME Timeout <= Samples, IInv, OrderInv, MessageInv, BiasInv, ReadsOn, LosesOne,
         VoteSilent \/ Vote
  PROVE  LosesOne'
<1> DEFINE c == [p \in PFC |-> ConditionOf(p)]
           result == WESVote(wes.last, wes.has)
<1>1. PICK then \in SUBSET {<<"pfcds", 0>>} : React(<<"vote", 0>>, then) /\ pfc' = pfc
  BY DEF VoteSilent, Vote
<1>2. <<"vote", 0>> \in pending /\ <<"vote", 0>> \notin pending' /\ Even' = Even
  BY <1>1, Moves
<1>3. ~Even
  BY <1>2, VoteNotEven
<1>4. report'.verdict = result /\ report'.lane = c
  BY DEF VoteSilent, Vote, Reported
<1>5. result = Abstract!Judgement(c)
  BY <1>2, VoteJudges
<1>6. \A p \in PFC : ~pfc[p].eof_reached
  <2>1. time \in Nat /\ time % 2 # 0 /\ time <= 2 * Timeout
    BY <1>3 DEF Even, IInv, TypeOK, OrderInv, StopsInTime
  <2>2. \A t, n \in Nat : t % 2 # 0 /\ t <= 2 * n => t < 2 * n
    OBVIOUS
  <2>3. ~(time >= 2 * Samples)
    BY <2>1, <2>2, FBWAssumption
  <2> QED
    BY <2>3 DEF ReadsOn
<1>7. ASSUME AllRead, NEW p \in PFC
      PROVE  c[p] # "missing" <=> Up(pfc[p])
  BY <1>6, <1>7 DEF ConditionOf, Sends, Grounded, Up, AllRead
<1> SUFFICES ASSUME AllRead', report'.verdict # "EMERGENCY" PROVE TwoUp' /\ TwoGood'
  BY <1>2, <1>3 DEF LosesOne
<1>8. AllRead
  BY <1>1 DEF AllRead
<1>9. PICK u \in PFC : Up(pfc[u])
  BY <1>2, <1>8 DEF LosesOne, OrderInv, ReportedForGood
<1>10. result # "NONE"
  <2>1. Valid(wes.last, wes.has, u)
    BY <1>2, <1>7, <1>8, <1>9, Conditions
  <2> QED
    BY <2>1 DEF WESVote, PairwiseDecision
<1> HIDE DEF c, result
<1>11. PICK p, q \in PFC : p # q /\ c[p] = "good" /\ c[q] = "good"
  BY <1>4, <1>5, <1>10, VerdictTwoGood
<1>12. TwoGood'
  BY <1>4, <1>11 DEF TwoGood
<1>13. TwoUp'
  BY <1>1, <1>7, <1>8, <1>11 DEF TwoUp, Up
<1> QED
  BY <1>12, <1>13

\* Two computers are up whenever a second begins.
LEMMA AdvanceLoss ==
  ASSUME IInv, OrderInv, LosesOne, AdvanceTag PROVE LosesOne'
<1> USE AdvanceDoes
<1>1. (AllRead' <=> AllRead) /\ (TwoUp' <=> TwoUp) /\ (TwoGood' <=> TwoGood)
  BY DEF AllRead, TwoUp, TwoGood, Up
<1>2. \A p \in PFC : Up(pfc[p])' <=> Up(pfc[p])
  BY DEF Up
<1> SUFFICES ASSUME AllRead, report.verdict # "EMERGENCY"
             PROVE  /\ Even' => TwoUp'
                    /\ <<"vote", 0>> \in pending' => \E p \in PFC : Up(pfc[p])
                    /\ ~Even' /\ <<"vote", 0>> \notin pending' => TwoUp' /\ TwoGood'
  BY <1>1, <1>2 DEF LosesOne
<1>3. <<"vote", 0>> \notin pending
  OBVIOUS
<1>4. CASE Even
  <2>1. \E p \in PFC : Up(pfc[p])
    BY <1>4 DEF LosesOne, TwoUp
  <2> QED
    BY <1>4, <2>1
<1>5. CASE ~Even
  <2>1. TwoUp /\ TwoGood
    BY <1>3, <1>5 DEF LosesOne
  <2>2. \E p \in PFC : Up(pfc[p])
    BY <2>1 DEF TwoUp
  <2> QED
    BY <1>1, <2>1, <2>2
<1> QED
  BY <1>4, <1>5

LEMMA GenerateFaultsLoss == ASSUME IInv, OrderInv, LosesOne, GenerateFaults PROVE LosesOne'
<1> DEFINE then == FaultReactions(fault')
<1>1. React(<<"fman", 0>>, then) /\ UNCHANGED <<pfc, report>>
  BY DEF GenerateFaults
<1>2. /\ <<"fman", 0>> \in pending /\ Even' = Even
      /\ pending' = (pending \ {<<"fman", 0>>}) \cup then
  BY <1>1, Moves
<1>3. Even
  BY <1>2 DEF OrderInv, OnWholeSeconds
<1>4. <<"vote", 0>> \notin pending'
  BY <1>2, <1>3, VoteNotEven DEF FaultReactions
<1>5. AllRead' /\ report'.verdict # "EMERGENCY" => TwoUp'
  BY <1>1, <1>2, <1>3 DEF LosesOne, AllRead, TwoUp, Up
<1> HIDE DEF then
<1> QED
  BY <1>2, <1>3, <1>4, <1>5 DEF LosesOne

LEMMA OtherLoss ==
  ASSUME LosesOne, (\E p \in PFC : Forward(p) \/ Capture(p)) \/ Disconnect PROVE LosesOne'
<1>1. CASE \E p \in PFC : Forward(p)
  <2>1. PICK p \in PFC : Forward(p)
    BY <1>1
  <2> DEFINE then == {<<"capture", p>>}
  <2>2. React(<<"trans", p>>, then) /\ UNCHANGED <<pfc, fault, report>>
    BY <2>1 DEF Forward
  <2>3. then \in SUBSET Triggered
    BY DEF Triggered
  <2> HIDE DEF then
  <2> QED
    BY <2>2, <2>3, UpKept
<1>2. CASE \E p \in PFC : Capture(p)
  <2>1. PICK p \in PFC : Capture(p)
    BY <1>2
  <2>2. React(<<"capture", p>>, {}) /\ UNCHANGED <<pfc, fault, report>>
    BY <2>1 DEF Capture
  <2> QED
    BY <2>2, UpKept
<1>3. CASE Disconnect
  <2>1. React(<<"pfcds", 0>>, {}) /\ UNCHANGED <<pfc, fault, report>>
    BY <1>3 DEF Disconnect
  <2> QED
    BY <2>1, UpKept
<1> QED
  BY <1>1, <1>2, <1>3

LEMMA LossInit == Init => ReadsOn /\ LosesOne
<1> SUFFICES ASSUME Init PROVE ReadsOn /\ LosesOne
  OBVIOUS
<1>1. \A p \in PFC : ~pfc[p].eof_reached /\ pfc[p].fp = "NULL"
  BY DEF Init, NewPFC
<1>2. 1 \in PFC
  BY DEF PFC
<1> QED
  BY <1>1, <1>2 DEF ReadsOn, LosesOne, AllRead

LEMMA NextLoss ==
  ASSUME Timeout <= Samples
  PROVE  IInv /\ OrderInv /\ MessageInv /\ BiasInv /\ ReadsOn /\ LosesOne /\ [Next]_vars
           => LosesOne'
<1> SUFFICES ASSUME IInv, OrderInv, MessageInv, BiasInv, ReadsOn, LosesOne, [Next]_vars
             PROVE  LosesOne'
  OBVIOUS
<1>1. CASE \E p \in PFC : PFCNext(p)
  BY <1>1, ComputerLoss
<1>2. CASE (\E p \in PFC : Forward(p) \/ Capture(p)) \/ Disconnect
  BY <1>2, OtherLoss
<1>3. CASE VoteSilent \/ Vote
  BY <1>3, VoteLoss
<1>4. CASE AdvanceTag \/ GenerateFaults
  BY <1>4, AdvanceLoss, GenerateFaultsLoss
<1>5. CASE Stop \/ UNCHANGED vars
  BY <1>5 DEF Stop, vars, timing, LosesOne, AllRead, TwoUp, TwoGood, Up, Even
<1> QED
  BY <1>1, <1>2, <1>3, <1>4, <1>5 DEF Next, Rest, Stopped

-----------------------------------------------------------------------------
(* The theorems, for every flight                                          *)

LEMMA SpecVotes == Spec => [](IInv /\ OrderInv /\ MessageInv /\ BiasInv)
<1> DEFINE Inv == IInv /\ OrderInv /\ MessageInv /\ BiasInv
<1>1. Init => Inv
  BY InitInv, OrderInit, MessageInit, BiasInit
<1>2. Inv /\ [Next]_vars => Inv'
  BY NextInv, NextOrder, NextMessages, NextBias
<1> HIDE DEF Inv
<1>3. Spec => []Inv
  BY <1>1, <1>2, PTL DEF Spec
<1> QED
  BY <1>3 DEF Inv

\* Whatever STOP, CONT, INT and BIAS faults are injected, a vote sees the sample
\* of its own second of exactly the computers that are transmitting: reset of
\* has_s at a vote, the levels of the reactions and the two timers leave no
\* order in which an older sample or a missing one is voted on.
THEOREM VotesFresh == Spec => []VotesOnFreshSamples
<1>1. IInv /\ OrderInv /\ MessageInv => VotesOnFreshSamples
  BY VoteNotEven, AtVote DEF VotesOnFreshSamples, IsFresh
<1> QED
  BY <1>1, SpecVotes, PTL

\* At most one lane of a vote carries a corrupted speed, although a bias given
\* to a stopped computer stays with it until it is resumed.
THEOREM CorruptLanesAlone == Spec => []OneCorruptLane
<1>1. BiasInv => OneCorruptLane
  BY DEF BiasInv, OneCorruptLane, Spoils, IsWrong
<1> QED
  BY <1>1, SpecVotes, PTL

\* Over a data file that lasts to the timeout, two computers that agree are not
\* lost without an emergency, whatever is injected.
THEOREM LossNoticed == Timeout <= Samples => (Spec => []NoSilentLoss)
<1> SUFFICES ASSUME Timeout <= Samples PROVE Spec => []NoSilentLoss
  OBVIOUS
<1> DEFINE Votes == IInv /\ OrderInv /\ MessageInv /\ BiasInv
           Inv == ReadsOn /\ LosesOne
<1>1. Init => Inv
  BY LossInit
<1>2. Votes /\ Inv /\ [Next]_vars => Inv'
  BY NextReads, NextLoss
<1>3. Inv => NoSilentLoss
  <2> SUFFICES ASSUME Inv, time % 2 = 1, pending = {}, \A p \in PFC : pfc[p].fp = "open",
                      report.verdict # "EMERGENCY"
               PROVE  TwoGood
    BY DEF NoSilentLoss, TwoGood
  <2>1. ~Even /\ AllRead
    BY DEF Even, AllRead
  <2> QED
    BY <2>1 DEF LosesOne
<1>4. Spec => []Votes
  BY SpecVotes
<1> HIDE DEF Votes, Inv
<1> QED
  BY <1>1, <1>2, <1>3, <1>4, PTL DEF Spec

\* The program implements TMR: every vote is a round of the abstract channel,
\* its verdict the right one for the conditions the lanes really are in, every
\* other reaction a stutter; a lane reported killed stays missing, and no round
\* follows an emergency.
THEOREM VotesRefineTMR == Spec => VotesAreRight
<1> DEFINE Votes == IInv /\ OrderInv /\ MessageInv /\ BiasInv
<1>1. Init => Abstract!Init
  BY DEF Init, Abstract!Init, Abstract!Lanes, PFC
<1>2. Votes /\ [Next]_vars => [Abstract!Next]_Abstract!vars
  <2> SUFFICES ASSUME Votes, [Next]_vars PROVE [Abstract!Next]_Abstract!vars
    OBVIOUS
  <2>1. CASE VoteSilent \/ Vote
    <3> DEFINE c == [p \in PFC |-> ConditionOf(p)]
               k == {p \in PFC : Grounded(pfc[p])}
    <3>1. <<"vote", 0>> \in pending
      BY <2>1, Moves DEF VoteSilent, Vote
    <3>2. /\ report'.verdict = WESVote(wes.last, wes.has)
          /\ report'.lane = c /\ report'.killed = k
      BY <2>1 DEF VoteSilent, Vote, Reported
    <3>3. report.verdict # "EMERGENCY" /\ report.killed \subseteq k
      BY <3>1 DEF OrderInv, ReportedForGood, IInv, TypeOK
    <3>4. \A i \in k : c[i] = "missing"
      BY DEF ConditionOf, Sends
    <3>5. \A i, j \in Abstract!Lanes : c[i] = "corrupt" /\ c[j] = "corrupt" => i = j
      BY <3>1, Conditions DEF BiasInv, Abstract!Lanes, PFC
    <3>6. report'.verdict = Abstract!Judgement(c)
      BY <3>1, <3>2, VoteJudges
    <3>7. c \in [Abstract!Lanes -> Abstract!Condition] /\ k \in SUBSET Abstract!Lanes
      BY DEF ConditionOf, Abstract!Lanes, Abstract!Condition, PFC
    <3> HIDE DEF c, k
    <3>8. Abstract!Round(c, k)
      BY <3>2, <3>3, <3>4, <3>5, <3>6 DEF Abstract!Round
    <3> QED
      BY <3>7, <3>8 DEF Abstract!Next
  <2>2. CASE ~(VoteSilent \/ Vote)
    <3>1. report' = report
      BY <2>2 DEF Next, PFCNext, Rest, Startup, HandleFault, TickGrounded,
         TickEndOfFile, TickStopped, TickSend, Shutdown, Forward, Capture,
         Disconnect, AdvanceTag, GenerateFaults, Stop, Stopped, vars
    <3> QED
      BY <3>1 DEF Abstract!vars
  <2> QED
    BY <2>1, <2>2
<1>3. Spec => []Votes
  BY SpecVotes
<1> HIDE DEF Votes
<1> QED
  BY <1>1, <1>2, <1>3, PTL DEF Spec, VotesAreRight, Abstract!Spec

-----------------------------------------------------------------------------
(* The scripted flight                                                     *)

\* The fault of this second is still before computer p.
Waits(p) == <<"fman", 0>> \in pending \/ <<"fault", p>> \in pending

\* The last second of which computer p has handled the fault.
HandledTo(p) == IF Waits(p) THEN Sample - 1 ELSE Sample

\* The script stops the second computer from second 5 to second 8.
ActiveAt(p, s) == p # 2 \/ s \notin 5 .. 7

\* The computers are as the script leaves them, and only its bias spoils a lane.
FaultsScripted ==
  \A p \in PFC : <<"fault", p>> \in pending => fault[p] = Scripted(Sample)[p]
ComputersScripted ==
  \A p \in PFC : /\ pfc[p].alive
                 /\ pfc[p].active <=> ActiveAt(p, HandledTo(p))
                 /\ pfc[p].bias => p = 3
SpoilsScripted == \A p \in PFC : Spoils(p) => p = 3 /\ Sample = 640
ScriptInv == FaultsScripted /\ ComputersScripted /\ SpoilsScripted

\* The bias does spoil the third lane, from its fault to the vote, if it changes
\* the speed.
BiasShows == apply_bias(TrueSpeed(640)) # TrueSpeed(640)
BiasSent ==
  BiasShows /\ Sample = 640 /\ Fired /\ ~Waits(3) /\ Sends(pfc[3]) =>
    /\ <<"tick", 3>> \in pending => pfc[3].bias
    /\ <<"trans", 3>> \in pending => IsWrong(speed_out[3])
    /\ <<"capture", 3>> \in pending => IsWrong(out[3])
    /\ wes.has[3] => IsWrong(wes.last[3])

\* What a vote may say: nothing once the file has ended, and otherwise what the
\* script expects, except that a bias which changes nothing is not seen.
Says(v, s) == IF s >= Samples THEN v = "NONE"
              ELSE v = ExpectedVerdict(s) \/ (s = 640 /\ ~BiasShows /\ v = "OK")

\* If all computers found the file the verdicts are the expected ones, and
\* none of them stops the flight.
VerdictInv ==
  AllRead =>
    /\ ~Even /\ <<"vote", 0>> \notin pending => Says(report.verdict, Sample)
    /\ <<"pfcds", 0>> \in pending => <<"vote", 0>> \notin pending /\ status = report.verdict
    /\ stop_tag = <<2 * Timeout, 0>>

EndsAtStop == ~running => pending = {} /\ <<time, microstep>> = stop_tag

-----------------------------------------------------------------------------
(* The script is one of the choices of FMAN                                *)

\* What the script does, port by port.
LEMMA ScriptedPorts ==
  ASSUME NEW t, NEW p \in PFC
  PROVE  /\ p = 2 /\ t = 5 => Scripted(t)[p] = [NoFault EXCEPT !.stop = TRUE]
         /\ p = 2 /\ t = 8 => Scripted(t)[p] = [NoFault EXCEPT !.cont = TRUE]
         /\ p = 3 /\ t = 640 => Scripted(t)[p] = [NoFault EXCEPT !.bias = TRUE]
         /\ (p # 2 \/ t \notin {5, 8}) /\ (p # 3 \/ t # 640) => Scripted(t)[p] = NoFault
<1>1. /\ NoFaults[p] = NoFault
      /\ \A q \in PFC : \A m : FaultOn(q, m)[p] = IF p = q THEN m ELSE NoFault
  BY DEF NoFaults, FaultOn
<1>2. 2 \in PFC /\ 3 \in PFC
  BY DEF PFC
<1> QED
  BY <1>1, <1>2 DEF Scripted

LEMMA ScriptIsChoice == FollowScript => GenerateFaults
<1>1. NoFaults = FaultOn(1, NoFault)
  <2> DEFINE E == FaultOn(1, NoFault)
  <2>1. DOMAIN E = PFC /\ (\A q \in PFC : E[q] = NoFault) /\ E = [q \in DOMAIN E |-> E[q]]
    BY DEF NoFaults, FaultOn
  <2> HIDE DEF E
  <2>2. E = NoFaults
    BY <2>1 DEF NoFaults
  <2> QED
    BY <2>2 DEF E
<1>2. /\ NoFault \in FaultMsg
      /\ [NoFault EXCEPT !.stop = TRUE] \in FaultMsg
      /\ [NoFault EXCEPT !.cont = TRUE] \in FaultMsg
      /\ [NoFault EXCEPT !.bias = TRUE] \in FaultMsg
  BY DEF NoFault, FaultMsg
<1>3. 1 \in PFC /\ 2 \in PFC /\ 3 \in PFC
  BY DEF PFC
<1>4. ASSUME NEW t PROVE Scripted(t) \in FaultPorts
  BY <1>1, <1>2, <1>3 DEF Scripted, FaultPorts
<1> QED
  BY <1>4 DEF FollowScript, GenerateFaults

LEMMA ControlledSteps == [ControlledNext]_vars => [Next]_vars
BY ScriptIsChoice DEF ControlledNext, Next

\* The scripted flight is one of the flights that fbw.lf can make: whatever holds of
\* every flight holds of it.
THEOREM ControlledIsFlight == ControlledSpec => Spec
BY ControlledSteps, PTL DEF ControlledSpec, Spec

-----------------------------------------------------------------------------
(* What the script leaves behind is an invariant                           *)

\* A reaction other than FMAN's and those to faults leaves the script where it is.
LEMMA WaitsKept ==
  ASSUME NEW r, NEW then \in SUBSET Triggered, React(r, then), r # <<"fman", 0>>,
         \A q \in PFC : r # <<"fault", q>> /\ <<"fault", q>> \notin then
  PROVE  \A q \in PFC : /\ Waits(q)' <=> Waits(q)
                        /\ <<"fault", q>> \in pending' <=> <<"fault", q>> \in pending
<1>1. <<"fman", 0>> \notin then
  BY DEF Triggered
<1>2. pending' = (pending \ {r}) \cup then
  BY Moves
<1>3. <<"fman", 0>> \in pending' <=> <<"fman", 0>> \in pending
  BY <1>1, <1>2
<1>4. \A q \in PFC : <<"fault", q>> \in pending' <=> <<"fault", q>> \in pending
  BY <1>2
<1> QED
  BY <1>3, <1>4 DEF Waits

LEMMA ScriptKept ==
  ASSUME ScriptInv, NEW r, NEW then \in SUBSET Triggered, React(r, then), r # <<"fman", 0>>,
         \A q \in PFC : r # <<"fault", q>> /\ <<"fault", q>> \notin then,
         fault' = fault,
         \A q \in PFC : /\ pfc'[q].alive = pfc[q].alive /\ pfc'[q].active = pfc[q].active
                        /\ pfc'[q].bias => pfc[q].bias
                        /\ Spoils(q)' => Spoils(q)
  PROVE  ScriptInv'
<1>1. /\ Sample' = Sample
      /\ \A q \in PFC : /\ Waits(q)' <=> Waits(q)
                        /\ <<"fault", q>> \in pending' <=> <<"fault", q>> \in pending
  BY Moves, WaitsKept
<1>2. \A q \in PFC : HandledTo(q)' = HandledTo(q)
  BY <1>1 DEF HandledTo
<1>3. FaultsScripted'
  BY <1>1 DEF ScriptInv, FaultsScripted
<1>4. ComputersScripted'
  BY <1>2 DEF ScriptInv, ComputersScripted
<1>5. SpoilsScripted'
  BY <1>1 DEF ScriptInv, SpoilsScripted
<1> QED
  BY <1>3, <1>4, <1>5 DEF ScriptInv

\* A reaction that leaves the third lane alone, up to the second's votes.
LEMMA BiasKept ==
  ASSUME BiasSent, NEW r, NEW then \in SUBSET Triggered, React(r, then), r # <<"fman", 0>>,
         \A q \in PFC : r # <<"fault", q>> /\ <<"fault", q>> \notin then,
         r # <<"trans", 3>>, r # <<"capture", 3>>,
         <<"trans", 3>> \notin then, <<"capture", 3>> \notin then,
         Sends(pfc'[3]) => Sends(pfc[3]) /\ (pfc[3].bias => pfc'[3].bias),
         speed_out'[3] = speed_out[3], out'[3] = out[3],
         wes'.has[3] => wes.has[3] /\ wes'.last[3] = wes.last[3]
  PROVE  BiasSent'
<1>1. 3 \in PFC
  BY DEF PFC
<1>2. /\ Sample' = Sample /\ Even' = Even /\ pending' = (pending \ {r}) \cup then
      /\ Waits(3)' <=> Waits(3)
  BY <1>1, Moves, WaitsKept
<1>3. <<"tick", 3>> \notin then /\ <<"vote", 0>> \notin then
  BY DEF Triggered
<1>4. /\ <<"tick", 3>> \in pending' => <<"tick", 3>> \in pending
      /\ <<"trans", 3>> \in pending' => <<"trans", 3>> \in pending
      /\ <<"capture", 3>> \in pending' => <<"capture", 3>> \in pending
      /\ Fired' => Fired
  BY <1>2, <1>3 DEF Fired
<1>5. BiasShows' <=> BiasShows
  BY DEF BiasShows, TrueSpeed
<1>6. \A m : IsWrong(m)' <=> IsWrong(m)
  BY <1>2, WrongKept
<1> QED
  BY <1>2, <1>4, <1>5, <1>6 DEF BiasSent

\* The script handled: what a scripted fault does to its computer.
LEMMA ScriptedFaultDoes ==
  ASSUME IInv, OrderInv, ScriptInv, NEW p \in PFC, HandleFault(p)
  PROVE  /\ pfc'[p].alive
         /\ pfc'[p].active <=> ActiveAt(p, Sample)
         /\ \/ p = 2 /\ Sample \in {5, 8} /\ (pfc'[p].bias <=> pfc[p].bias)
            \/ p = 3 /\ Sample = 640 /\ pfc'[p].bias
<1> DEFINE f == fault[p]
           s == Faulted(pfc[p], f)
<1>1. React(<<"fault", p>>, {}) /\ pfc' = [pfc EXCEPT ![p] = s]
  BY DEF HandleFault
<1>2. <<"fault", p>> \in pending
  BY <1>1, Moves
<1>3. f = Scripted(Sample)[p] /\ f # NoFault
  BY <1>2 DEF ScriptInv, FaultsScripted, OrderInv, FaultsFirst
<1>4. pfc[p].alive /\ (pfc[p].active <=> ActiveAt(p, Sample - 1))
  BY <1>2 DEF ScriptInv, ComputersScripted, HandledTo, Waits
<1>5. /\ s.alive <=> ~f.interrupt
      /\ s.active <=> (pfc[p].active /\ ~f.stop) \/ (f.cont /\ ~f.interrupt)
      /\ s.bias <=> pfc[p].bias \/ (f.bias /\ ~f.interrupt)
  <2>1. /\ pfc[p] \in PFCState /\ pfc[p].alive \in BOOLEAN /\ pfc[p].active \in BOOLEAN
        /\ pfc[p].bias \in BOOLEAN /\ f \in FaultMsg
    BY DEF IInv, TypeOK, PFCState
  <2>2. /\ f.interrupt \in BOOLEAN /\ f.stop \in BOOLEAN /\ f.cont \in BOOLEAN
        /\ f.bias \in BOOLEAN
    BY <2>1 DEF FaultMsg
  <2> HIDE DEF f
  <2> QED
    BY <1>4, <2>1, <2>2 DEF Faulted, PFCState
<1>6. \/ p = 2 /\ Sample = 5 /\ f = [NoFault EXCEPT !.stop = TRUE]
      \/ p = 2 /\ Sample = 8 /\ f = [NoFault EXCEPT !.cont = TRUE]
      \/ p = 3 /\ Sample = 640 /\ f = [NoFault EXCEPT !.bias = TRUE]
  <2>1. \/ p = 2 /\ Sample = 5
        \/ p = 2 /\ Sample = 8
        \/ p = 3 /\ Sample = 640
    BY <1>3, ScriptedPorts
  <2>2. /\ p = 2 /\ Sample = 5 => Scripted(Sample)[p] = [NoFault EXCEPT !.stop = TRUE]
        /\ p = 2 /\ Sample = 8 => Scripted(Sample)[p] = [NoFault EXCEPT !.cont = TRUE]
        /\ p = 3 /\ Sample = 640 => Scripted(Sample)[p] = [NoFault EXCEPT !.bias = TRUE]
    BY ScriptedPorts DEF NoFault
  <2> HIDE DEF f
  <2> QED
    BY <1>3, <2>1, <2>2 DEF NoFault
<1>7. pfc'[p] = s
  BY <1>1 DEF IInv, TypeOK
<1> HIDE DEF f, s
<1>8. CASE p = 2 /\ Sample = 5 /\ f = [NoFault EXCEPT !.stop = TRUE]
  <2>1. ~f.interrupt /\ f.stop /\ ~f.cont /\ ~f.bias
    BY <1>8 DEF NoFault
  <2>2. ~ActiveAt(p, Sample)
    BY <1>8 DEF ActiveAt
  <2> QED
    BY <1>5, <1>7, <1>8, <2>1, <2>2
<1>9. CASE p = 2 /\ Sample = 8 /\ f = [NoFault EXCEPT !.cont = TRUE]
  <2>1. ~f.interrupt /\ ~f.stop /\ f.cont /\ ~f.bias
    BY <1>9 DEF NoFault
  <2>2. ActiveAt(p, Sample)
    BY <1>9 DEF ActiveAt
  <2> QED
    BY <1>5, <1>7, <1>9, <2>1, <2>2
<1>10. CASE p = 3 /\ Sample = 640 /\ f = [NoFault EXCEPT !.bias = TRUE]
  <2>1. ~f.interrupt /\ ~f.stop /\ ~f.cont /\ f.bias
    BY <1>10 DEF NoFault
  <2>2. ActiveAt(p, Sample) /\ ActiveAt(p, Sample - 1)
    BY <1>10 DEF ActiveAt
  <2> QED
    BY <1>4, <1>5, <1>7, <1>10, <2>1, <2>2
<1> QED
  BY <1>6, <1>8, <1>9, <1>10

LEMMA HandleFaultScript ==
  ASSUME IInv, OrderInv, MessageInv, BiasInv, ScriptInv, BiasSent, NEW p \in PFC, HandleFault(p)
  PROVE  ScriptInv' /\ BiasSent'
<1>1. React(<<"fault", p>>, {}) /\ fault' = fault
  BY DEF HandleFault
<1>2. /\ <<"fault", p>> \in pending /\ pending' = pending \ {<<"fault", p>>}
      /\ Sample' = Sample
  BY <1>1, Moves
<1>3. /\ <<"fman", 0>> \notin pending
      /\ \A q \in PFC : <<"fault", q>> \in pending => q = p
      /\ \A q \in PFC : <<"tick", q>> \in pending
  BY <1>2 DEF OrderInv, FaultsFirst, NoFaults
<1>4. /\ \A q \in PFC : ~Waits(q)'
      /\ \A q \in PFC \ {p} : ~Waits(q)
  BY <1>2, <1>3 DEF Waits
<1>5. \A q \in PFC : HandledTo(q)' = Sample
  BY <1>2, <1>4 DEF HandledTo
<1>6. ComputersScripted'
  <2>1. /\ \A q \in PFC \ {p} : pfc'[q] = pfc[q] /\ HandledTo(q) = Sample
    BY <1>4, HandleFaultDoes DEF HandledTo
  <2>2. ASSUME NEW q \in PFC
        PROVE  /\ pfc'[q].alive
               /\ pfc'[q].active <=> ActiveAt(q, Sample)
               /\ pfc'[q].bias => q = 3
    <3>1. CASE q = p
      BY <3>1, ScriptedFaultDoes DEF ScriptInv, ComputersScripted
    <3>2. CASE q # p
      BY <2>1, <3>2 DEF ScriptInv, ComputersScripted
    <3> QED
      BY <3>1, <3>2
  <2> QED
    BY <1>5, <2>2 DEF ComputersScripted, ActiveAt
<1>7. FaultsScripted'
  BY <1>1, <1>2, <1>3 DEF FaultsScripted
<1>8. SpoilsScripted'
  <2>1. ASSUME NEW q \in PFC, Spoils(q)' PROVE q = 3 /\ Sample = 640
    <3>1. CASE Spoils(q)
      BY <3>1 DEF ScriptInv, SpoilsScripted
    <3>2. CASE ~Spoils(q)
      <4>1. q = p
        BY <2>1, <3>2, HandleFaultBias
      <4>2. ~Biased(p) /\ Biased(p)'
        <5>1. \A m : IsWrong(m)' <=> IsWrong(m)
          BY <1>2, WrongKept
        <5> QED
          BY <1>2, <2>1, <3>2, <4>1, <5>1 DEF Spoils, HandleFault
      <4>3. Sends(pfc'[p]) /\ pfc'[p].bias
        BY <4>2 DEF Biased
      <4>4. p # 2
        <5> SUFFICES ASSUME p = 2 PROVE FALSE
          OBVIOUS
        <5>1. pfc[p].bias
          BY <4>3, ScriptedFaultDoes
        <5> QED
          BY <5>1 DEF ScriptInv, ComputersScripted
      <4> QED
        BY <4>1, <4>4, ScriptedFaultDoes
    <3> QED
      BY <3>1, <3>2
  <2> QED
    BY <1>2, <2>1 DEF SpoilsScripted
<1>9. BiasSent'
  <2>1. CASE p = 2
    <3>1. Sample' # 640
      BY <1>2, <2>1, ScriptedFaultDoes
    <3> QED
      BY <3>1 DEF BiasSent
  <2>2. CASE p = 3
    <3>1. pfc'[3].bias
      BY <2>2, ScriptedFaultDoes
    <3>2. /\ <<"trans", 3>> \notin pending' /\ <<"capture", 3>> \notin pending'
          /\ ~wes'.has[3]
      BY <1>2, <1>3, <2>2, NothingBeforeTick DEF InFlight, HandleFault
    <3> QED
      BY <3>1, <3>2 DEF BiasSent
  <2> QED
    BY <2>1, <2>2, ScriptedFaultDoes
<1> QED
  BY <1>6, <1>7, <1>8, <1>9 DEF ScriptInv

\* The script gives its faults.
LEMMA FollowScriptKeeps ==
  ASSUME IInv, OrderInv, BiasInv, ScriptInv, FollowScript PROVE ScriptInv' /\ BiasSent'
<1> DEFINE then == FaultReactions(fault')
<1>1. /\ React(<<"fman", 0>>, then) /\ fault' = Scripted(Sample)
      /\ UNCHANGED pfc /\ GenerateFaults
  BY ScriptIsChoice DEF FollowScript
<1>2. /\ pending' = (pending \ {<<"fman", 0>>}) \cup then
      /\ <<"fman", 0>> \in pending /\ Sample' = Sample
  BY <1>1, Moves
<1>3. \A q \in PFC : <<"fault", q>> \notin pending
  BY <1>2 DEF OrderInv, FaultsFirst, NoFaults
<1>4. \A q \in PFC : /\ <<"fault", q>> \in pending' <=> Scripted(Sample)[q] # NoFault
                     /\ Waits(q)' <=> Scripted(Sample)[q] # NoFault
  BY <1>1, <1>2, <1>3 DEF FaultReactions, Waits
<1> HIDE DEF then
<1>5. FaultsScripted'
  BY <1>1, <1>2 DEF FaultsScripted
<1>6. ComputersScripted'
  <2>1. ASSUME NEW q \in PFC PROVE ActiveAt(q, HandledTo(q))' <=> ActiveAt(q, Sample - 1)
    <3>1. CASE Waits(q)'
      BY <1>2, <3>1 DEF HandledTo, ActiveAt
    <3>2. CASE ~Waits(q)'
      <4>1. Scripted(Sample)[q] = NoFault
        BY <1>4, <3>2
      <4>2. q # 2 \/ Sample \notin {5, 8}
        BY <4>1, ScriptedPorts DEF NoFault
      <4>3. Sample \in Nat
        <5>1. time \in Nat
          BY DEF IInv, TypeOK
        <5> QED
          BY <5>1 DEF Sample
      <4>4. HandledTo(q)' = Sample
        BY <1>2, <3>2 DEF HandledTo
      <4>5. ActiveAt(q, Sample) <=> ActiveAt(q, Sample - 1)
        BY <4>2, <4>3 DEF ActiveAt
      <4> QED
        BY <4>4, <4>5 DEF ActiveAt
    <3> QED
      BY <3>1, <3>2
  <2>2. \A q \in PFC : HandledTo(q) = Sample - 1
    BY <1>2 DEF HandledTo, Waits
  <2> QED
    BY <1>1, <2>1, <2>2 DEF ScriptInv, ComputersScripted
<1>7. SpoilsScripted'
  BY <1>1, GenerateFaultsBias DEF SpoilsScripted
<1>8. BiasSent'
  <2>1. Sample = 640 => Scripted(Sample)[3] # NoFault
    <3>1. 3 \in PFC
      BY DEF PFC
    <3> QED
      BY <3>1, ScriptedPorts DEF NoFault
  <2>2. 3 \in PFC
    BY DEF PFC
  <2>3. Sample' = 640 => Waits(3)'
    <3>1. Waits(3)' <=> Scripted(Sample)[3] # NoFault
      BY <1>4, <2>2
    <3> QED
      BY <1>2, <2>1, <3>1
  <2> QED
    BY <2>3 DEF BiasSent
<1> QED
  BY <1>5, <1>6, <1>7, <1>8 DEF ScriptInv

\* A tick sends what the bias leaves of the speed, or ends the lane for this second.
LEMMA TickScript ==
  ASSUME IInv, OrderInv, MessageInv, BiasInv, ScriptInv, BiasSent, NEW p \in PFC,
         TickGrounded(p) \/ TickEndOfFile(p) \/ TickStopped(p) \/ TickSend(p)
  PROVE  ScriptInv' /\ BiasSent'
<1> DEFINE r == <<"tick", p>>
<1>1. PICK then \in SUBSET {<<"trans", p>>} :
        /\ React(r, then) /\ UNCHANGED <<wes, fault, out>>
        /\ TickSend(p) \/ (then = {} /\ UNCHANGED speed_out /\ ~Sends(pfc'[p]))
  BY SilentTickDoes, TickSendDoes
<1>2. /\ then \in SUBSET Triggered /\ r # <<"fman", 0>>
      /\ \A q \in PFC : r # <<"fault", q>> /\ <<"fault", q>> \notin then
      /\ r # <<"trans", 3>> /\ r # <<"capture", 3>> /\ <<"capture", 3>> \notin then
  BY DEF Triggered
<1>3. \A q \in PFC : /\ pfc'[q].alive = pfc[q].alive /\ pfc'[q].active = pfc[q].active
                     /\ pfc'[q].bias => pfc[q].bias
                     /\ Spoils(q)' => Spoils(q)
  BY SilentTickDoes, TickSendDoes, TickBias
<1>4. ScriptInv'
  <2> HIDE DEF r
  <2> QED
    BY <1>1, <1>2, <1>3, ScriptKept
<1>5. BiasSent'
  <2>1. CASE p # 3
    <3>1. 3 \in PFC /\ pfc'[3] = pfc[3] /\ speed_out'[3] = speed_out[3]
      <4>1. 3 \in PFC \ {p}
        BY <2>1 DEF PFC
      <4>2. \A q \in PFC \ {p} : pfc'[q] = pfc[q]
        BY SilentTickDoes, TickSendDoes
      <4>3. \A q \in PFC \ {p} : speed_out'[q] = speed_out[q]
        BY <1>1, TickSendDoes
      <4> QED
        BY <4>1, <4>2, <4>3
    <3>2. /\ Sends(pfc'[3]) => Sends(pfc[3]) /\ (pfc[3].bias => pfc'[3].bias)
          /\ <<"trans", 3>> \notin then
          /\ wes'.has[3] => wes.has[3] /\ wes'.last[3] = wes.last[3]
          /\ out'[3] = out[3]
      BY <1>1, <2>1, <3>1
    <3> HIDE DEF r
    <3> QED
      BY <1>1, <1>2, <3>1, <3>2, BiasKept
  <2>2. CASE p = 3 /\ ~TickSend(p)
    BY <1>1, <2>2 DEF BiasSent
  <2>3. CASE p = 3 /\ TickSend(p)
    <3>1. /\ r \in pending /\ pending' = (pending \ {r}) \cup then
          /\ Sample' = Sample /\ Even' = Even
      BY <1>1, Moves
    <3>2. ~InFlight(3) /\ Even
      BY <2>3, <3>1, NothingBeforeTick DEF OrderInv, OnWholeSeconds
    <3>3. /\ <<"tick", 3>> \notin pending' /\ <<"capture", 3>> \notin pending'
          /\ ~wes'.has[3]
      BY <1>1, <2>3, <3>1, <3>2 DEF InFlight
    <3>4. Sends(pfc[3])
      BY <2>3, TickSendDoes
    <3>5. ASSUME BiasShows, Sample = 640, ~Waits(3) PROVE IsWrong(speed_out[3])'
      <4>1. pfc[3].bias
        BY <2>3, <3>1, <3>2, <3>4, <3>5 DEF BiasSent, Fired
      <4>2. speed_out'[3].speed = apply_bias(TrueSpeed(Sample))
        BY <2>3, <4>1, TickSendDoes
      <4> QED
        BY <3>1, <3>5, <4>2 DEF IsWrong, BiasShows
    <3>6. Waits(3)' <=> Waits(3)
      <4>1. 3 \in PFC
        BY DEF PFC
      <4> HIDE DEF r
      <4> QED
        BY <1>1, <1>2, <4>1, WaitsKept
    <3>7. BiasShows' <=> BiasShows
      BY DEF BiasShows, TrueSpeed
    <3> QED
      BY <3>1, <3>3, <3>5, <3>6, <3>7 DEF BiasSent
  <2> QED
    BY <2>1, <2>2, <2>3
<1> QED
  BY <1>4, <1>5

\* Startup and shutdown.
LEMMA EndsScript ==
  ASSUME IInv, OrderInv, BiasInv, ScriptInv, BiasSent, NEW p \in PFC, Startup(p) \/ Shutdown(p)
  PROVE  ScriptInv' /\ BiasSent'
<1>1. PICK r \in {<<"startup", p>>, <<"shutdown", p>>} :
        /\ React(r, {}) /\ UNCHANGED <<wes, fault, speed_out, out>>
        /\ Shutdown(p) \/ r = <<"startup", p>>
  BY DEF Startup, Shutdown
<1>2. /\ {} \in SUBSET Triggered /\ r # <<"fman", 0>>
      /\ \A q \in PFC : r # <<"fault", q>> /\ <<"fault", q>> \notin {}
      /\ \A q \in PFC : r # <<"tick", q>>
      /\ r # <<"trans", 3>> /\ r # <<"capture", 3>>
  OBVIOUS
<1>3. \A q \in PFC : /\ pfc'[q].alive = pfc[q].alive /\ pfc'[q].active = pfc[q].active
                     /\ pfc'[q].bias = pfc[q].bias
  BY StartupDoes, ShutdownDoes
<1>4. CASE Shutdown(p)
  <2>1. \A q \in PFC : Sends(pfc'[q]) <=> Sends(pfc[q])
    BY <1>3, <1>4, ShutdownDoes DEF Sends, Grounded
  <2>2. \A q \in PFC : Spoils(q)' => Spoils(q)
    <3>1. \A q \in PFC : Biased(q)' => Biased(q)
      BY <1>3, <2>1 DEF Biased
    <3> QED
      BY <1>1, <1>2, <3>1, SpoilsKept
  <2>3. 3 \in PFC
    BY DEF PFC
  <2>4. ScriptInv'
    BY <1>1, <1>2, <1>3, <2>2, ScriptKept
  <2>5. BiasSent'
    BY <1>1, <1>2, <1>3, <2>1, <2>3, BiasKept
  <2> QED
    BY <2>4, <2>5
<1>5. CASE ~Shutdown(p)
  <2>1. Startup(p) /\ r = <<"startup", p>>
    BY <1>1, <1>5
  <2>2. time = 0 /\ Sample' = Sample
    BY <1>1, <2>1, Moves DEF IInv, StartsBeforeTick
  <2>3. Sample # 640
    BY <2>2 DEF Sample
  <2>4. \A q \in PFC : Spoils(q)' => Spoils(q)
    <3>1. ~HandleFault(p) /\ \A q \in PFC : ~HandleFault(q)
      <4>1. Level(<<"startup", p>>) = 0 /\ <<"startup", p>> \in pending
        BY <1>1, <2>1, Levels, Moves
      <4>2. ASSUME NEW q \in PFC PROVE ~React(<<"fault", q>>, {})
        <5>1. Level(<<"fault", q>>) = 2
          BY Levels
        <5> QED
          BY <4>1, <5>1, Moves
      <4> QED
        BY <4>2 DEF HandleFault
    <3>2. PFCNext(p)
      BY <2>1 DEF PFCNext
    <3> QED
      BY <3>1, <3>2, ComputerBias
  <2>5. ScriptInv'
    BY <1>1, <1>2, <1>3, <2>4, ScriptKept
  <2>6. BiasSent'
    BY <2>2, <2>3 DEF BiasSent
  <2> QED
    BY <2>5, <2>6
<1> QED
  BY <1>4, <1>5

\* A message of the third lane is passed on as wrong as it is.
LEMMA LaneScript ==
  ASSUME IInv, OrderInv, MessageInv, BiasInv, ScriptInv, BiasSent, NEW p \in PFC,
         Forward(p) \/ Capture(p)
  PROVE  ScriptInv' /\ BiasSent'
<1>1. PICK r \in {<<"trans", p>>, <<"capture", p>>}, then \in SUBSET {<<"capture", p>>} :
        /\ React(r, then) /\ UNCHANGED <<pfc, fault, speed_out>>
        /\ \/ /\ r = <<"trans", p>> /\ UNCHANGED wes
              /\ out' = [out EXCEPT ![p] = speed_out[p]]
           \/ /\ r = <<"capture", p>> /\ then = {} /\ UNCHANGED out
              /\ wes' = [last |-> [wes.last EXCEPT ![p] = out[p]],
                         has |-> [wes.has EXCEPT ![p] = TRUE]]
  BY DEF Forward, Capture
<1>2. /\ then \in SUBSET Triggered /\ r # <<"fman", 0>>
      /\ \A q \in PFC : r # <<"fault", q>> /\ <<"fault", q>> \notin then
  BY DEF Triggered
<1>3. \A q \in PFC : Spoils(q)' => Spoils(q)
  BY LaneBias
<1>4. ScriptInv'
  BY <1>1, <1>2, <1>3, ScriptKept
<1>5. /\ wes.last \in [PFC -> SpeedMsg] /\ wes.has \in [PFC -> BOOLEAN]
      /\ out \in [PFC -> SpeedMsg]
  BY DEF IInv, TypeOK
<1>6. BiasSent'
  <2>1. CASE p # 3
    <3>1. 3 \in PFC /\ r # <<"trans", 3>> /\ r # <<"capture", 3>>
          /\ <<"trans", 3>> \notin then /\ <<"capture", 3>> \notin then
      BY <2>1 DEF PFC
    <3>2. /\ out'[3] = out[3] /\ speed_out'[3] = speed_out[3]
          /\ wes'.has[3] => wes.has[3] /\ wes'.last[3] = wes.last[3]
      BY <1>1, <1>5, <2>1, <3>1
    <3>3. Sends(pfc'[3]) => Sends(pfc[3]) /\ (pfc[3].bias => pfc'[3].bias)
      BY <1>1
    <3> QED
      BY <1>1, <1>2, <3>1, <3>2, <3>3, BiasKept
  <2>2. CASE p = 3
    <3>1. /\ r \in pending /\ pending' = (pending \ {r}) \cup then
          /\ Sample' = Sample /\ Even' = Even
      BY <1>1, Moves
    <3>2. 3 \in PFC /\ (Waits(3)' <=> Waits(3))
      <4>1. 3 \in PFC
        BY DEF PFC
      <4> QED
        BY <1>1, <1>2, <4>1, WaitsKept
    <3>3. Even
      BY <1>1, <2>2, <3>1 DEF OrderInv, OnWholeSeconds
    <3>4. /\ BiasShows' <=> BiasShows
          /\ \A m : IsWrong(m)' <=> IsWrong(m)
      BY <3>1, WrongKept DEF BiasShows, TrueSpeed
    <3>5. /\ <<"tick", 3>> \in pending' => <<"tick", 3>> \in pending
          /\ <<"trans", 3>> \in pending' => <<"trans", 3>> \in pending
      BY <1>1, <2>2, <3>1
    <3> SUFFICES ASSUME BiasShows, Sample = 640, ~Waits(3), Sends(pfc[3])
                 PROVE  /\ <<"tick", 3>> \in pending' => pfc[3].bias
                        /\ <<"trans", 3>> \in pending' => IsWrong(speed_out[3])
                        /\ <<"capture", 3>> \in pending' => IsWrong(out'[3])
                        /\ wes'.has[3] => IsWrong(wes'.last[3])
      BY <1>1, <3>1, <3>2, <3>4 DEF BiasSent
    <3>6. /\ <<"tick", 3>> \in pending => pfc[3].bias
          /\ <<"trans", 3>> \in pending => IsWrong(speed_out[3])
          /\ <<"capture", 3>> \in pending => IsWrong(out[3])
          /\ wes.has[3] => IsWrong(wes.last[3])
      BY <3>3 DEF BiasSent, Fired
    <3>7. CASE r = <<"trans", 3>> /\ UNCHANGED wes /\ out' = [out EXCEPT ![p] = speed_out[p]]
      <4>1. out'[3] = speed_out[3]
        BY <1>5, <2>2, <3>2, <3>7
      <4> QED
        BY <3>1, <3>5, <3>6, <3>7, <4>1
    <3>8. CASE /\ r = <<"capture", 3>> /\ then = {} /\ UNCHANGED out
               /\ wes' = [last |-> [wes.last EXCEPT ![p] = out[p]],
                          has |-> [wes.has EXCEPT ![p] = TRUE]]
      <4>1. wes'.last[3] = out[3] /\ <<"capture", 3>> \notin pending'
        BY <1>5, <2>2, <3>1, <3>2, <3>8
      <4> QED
        BY <3>1, <3>5, <3>6, <3>8, <4>1
    <3> QED
      BY <1>1, <2>2, <3>7, <3>8
  <2> QED
    BY <2>1, <2>2
<1> QED
  BY <1>4, <1>6

LEMMA VoterScript ==
  ASSUME IInv, OrderInv, BiasInv, ScriptInv, BiasSent, VoteSilent \/ Vote \/ Disconnect
  PROVE  ScriptInv' /\ BiasSent'
<1>1. PICK r \in {<<"vote", 0>>, <<"pfcds", 0>>}, then \in SUBSET {<<"pfcds", 0>>} :
        React(r, then) /\ UNCHANGED <<pfc, fault, speed_out, out>>
  BY DEF VoteSilent, Vote, Disconnect
<1>2. /\ then \in SUBSET Triggered /\ r # <<"fman", 0>>
      /\ \A q \in PFC : r # <<"fault", q>> /\ <<"fault", q>> \notin then
      /\ \A q \in PFC : /\ r # <<"tick", q>>
                        /\ <<"trans", q>> \notin then /\ <<"capture", q>> \notin then
      /\ r # <<"trans", 3>> /\ r # <<"capture", 3>>
      /\ <<"trans", 3>> \notin then /\ <<"capture", 3>> \notin then
  BY DEF Triggered
<1>3. \A q \in PFC : wes'.has[q] => wes.has[q] /\ wes'.last[q] = wes.last[q]
  BY DEF VoteSilent, Vote, Disconnect, HasAfterVote, IInv, TypeOK
<1>4. \A q \in PFC : Spoils(q)' => Spoils(q)
  <2>1. CASE Disconnect
    <3>1. \A q \in PFC : Biased(q)' => Biased(q)
      BY <1>1 DEF Biased, Sends, Grounded
    <3>2. React(<<"pfcds", 0>>, {}) /\ UNCHANGED <<fault, wes, speed_out, out>>
      BY <2>1 DEF Disconnect
    <3> QED
      BY <3>1, <3>2, SpoilsKept
  <2> QED
    BY <2>1, VoteBias
<1>5. 3 \in PFC
  BY DEF PFC
<1>6. ScriptInv'
  BY <1>1, <1>2, <1>4, ScriptKept
<1>7. BiasSent'
  BY <1>1, <1>2, <1>3, <1>5, BiasKept
<1> QED
  BY <1>6, <1>7

\* A new second begins with its fault still to come.
LEMMA AdvanceScript ==
  ASSUME IInv, OrderInv, MessageInv, BiasInv, ScriptInv, BiasSent, AdvanceTag
  PROVE  ScriptInv' /\ BiasSent'
<1> USE AdvanceDoes
<1>1. time \in Nat /\ time' \in Nat
  <2>1. time \in Nat
    BY DEF IInv, TypeOK
  <2> QED
    BY <2>1
<1>2. Sample \in Nat /\ (time' >= 4 <=> Sample' >= 2)
  <2>1. \A t \in Nat : t \div 2 \in Nat /\ (t >= 4 <=> t \div 2 >= 2)
    OBVIOUS
  <2> QED
    BY <1>1, <2>1, Zenon DEF Sample
<1>3. \A q \in PFC : ~Waits(q) /\ (Waits(q)' <=> Even' /\ time' >= 4)
  BY DEF Waits
<1>4. FaultsScripted'
  BY DEF FaultsScripted
<1>5. ComputersScripted'
  <2>1. ASSUME NEW q \in PFC PROVE ActiveAt(q, HandledTo(q))' <=> ActiveAt(q, HandledTo(q))
    <3>1. HandledTo(q) = Sample
      BY <1>3 DEF HandledTo
    <3>2. CASE Even'
      <4>1. Sample' = Sample + 1
        BY <3>2
      <4>2. CASE time' >= 4
        <5>1. HandledTo(q)' = Sample
          BY <1>2, <1>3, <3>2, <4>1, <4>2 DEF HandledTo
        <5> QED
          BY <3>1, <5>1 DEF ActiveAt
      <4>3. CASE ~(time' >= 4)
        <5>1. HandledTo(q)' = Sample'
          BY <1>3, <4>3 DEF HandledTo
        <5>2. Sample' \notin 5 .. 7 /\ Sample \notin 5 .. 7
          BY <1>2, <4>1, <4>3
        <5> QED
          BY <3>1, <5>1, <5>2 DEF ActiveAt
      <4> QED
        BY <4>2, <4>3
    <3>3. CASE ~Even'
      <4>1. Sample' = Sample
        BY <3>3
      <4>2. HandledTo(q)' = Sample
        BY <1>3, <3>3, <4>1 DEF HandledTo
      <4> QED
        BY <3>1, <4>2 DEF ActiveAt
    <3> QED
      BY <3>2, <3>3
  <2>2. pfc' = pfc
    OBVIOUS
  <2> QED
    BY <2>1, <2>2 DEF ScriptInv, ComputersScripted
<1>6. SpoilsScripted'
  BY AdvanceBias DEF ScriptInv, SpoilsScripted
<1>7. BiasSent'
  <2>1. 3 \in PFC
    BY DEF PFC
  <2>2. CASE Even'
    <3>1. Sample' = 640 => Waits(3)'
      BY <1>2, <1>3, <2>1, <2>2
    <3> QED
      BY <3>1 DEF BiasSent
  <2>3. CASE ~Even'
    <3> SUFFICES ASSUME BiasShows, Sample = 640, <<"vote", 0>> \in pending', Sends(pfc[3]),
                        wes.has[3]
                 PROVE  IsWrong(wes.last[3])
      <4>1. /\ <<"tick", 3>> \notin pending' /\ <<"trans", 3>> \notin pending'
            /\ <<"capture", 3>> \notin pending' /\ Sample' = Sample
            /\ pfc' = pfc /\ wes' = wes
        BY <2>1, <2>3
      <4>2. /\ BiasShows' <=> BiasShows
            /\ \A m : IsWrong(m)' <=> IsWrong(m)
        BY <4>1, WrongKept DEF BiasShows, TrueSpeed
      <4> QED
        BY <2>3, <4>1, <4>2 DEF BiasSent, Fired
    <3>1. Even
      BY <2>3
    <3> QED
      BY <1>3, <2>1, <3>1 DEF BiasSent, Fired
  <2> QED
    BY <2>2, <2>3
<1> QED
  BY <1>4, <1>5, <1>6, <1>7 DEF ScriptInv

LEMMA InitScript == Init => ScriptInv /\ BiasSent
<1> SUFFICES ASSUME Init PROVE ScriptInv /\ BiasSent
  OBVIOUS
<1>1. /\ pending = ({"startup"} \X PFC) \cup TimersAt(0)
                   \cup (IF Timeout = 0 THEN ({"shutdown"} \X PFC) ELSE {})
      /\ \A p \in PFC : ~wes.has[p] /\ pfc[p].alive /\ pfc[p].active /\ ~pfc[p].bias
      /\ time = 0
  BY DEF Init, NewPFC
<1>2. TimersAt(0) = {"tick"} \X PFC
  BY DEF TimersAt
<1>3. /\ <<"fman", 0>> \notin pending
      /\ \A p \in PFC : /\ <<"fault", p>> \notin pending
                        /\ <<"trans", p>> \notin pending /\ <<"capture", p>> \notin pending
  BY <1>1, <1>2
<1>4. Sample = 0
  BY <1>1 DEF Sample
<1>5. FaultsScripted
  BY <1>3 DEF FaultsScripted
<1>6. ComputersScripted
  BY <1>1, <1>3, <1>4 DEF ComputersScripted, ActiveAt, HandledTo, Waits
<1>7. SpoilsScripted
  BY <1>1, <1>3 DEF SpoilsScripted, Spoils, Biased
<1>8. BiasSent
  BY <1>4 DEF BiasSent
<1> QED
  BY <1>5, <1>6, <1>7, <1>8 DEF ScriptInv

LEMMA NextScript ==
  ASSUME IInv, OrderInv, MessageInv, BiasInv, ScriptInv, BiasSent, [ControlledNext]_vars
  PROVE  ScriptInv' /\ BiasSent'
<1>1. ASSUME NEW p \in PFC, PFCNext(p) PROVE ScriptInv' /\ BiasSent'
  BY <1>1, EndsScript, HandleFaultScript, TickScript DEF PFCNext
<1>2. CASE \E p \in PFC : Forward(p) \/ Capture(p)
  BY <1>2, LaneScript
<1>3. CASE VoteSilent \/ Vote \/ Disconnect
  BY <1>3, VoterScript
<1>4. CASE AdvanceTag \/ FollowScript
  BY <1>4, AdvanceScript, FollowScriptKeeps
<1>5. CASE Stop \/ UNCHANGED vars
  <2>1. UNCHANGED <<pfc, wes, fault, speed_out, out, time, pending>>
    BY <1>5 DEF Stop, vars, timing
  <2>2. ScriptInv'
    BY <2>1 DEF ScriptInv, FaultsScripted, ComputersScripted, SpoilsScripted, HandledTo,
       Waits, ActiveAt, Spoils, Biased, Sends, Grounded, IsWrong, TrueSpeed, Sample
  <2>3. BiasSent'
    BY <2>1 DEF BiasSent, BiasShows, Fired, Even, Waits, Sends, Grounded, IsWrong,
       TrueSpeed, Sample
  <2> QED
    BY <2>2, <2>3
<1> QED
  BY <1>1, <1>2, <1>3, <1>4, <1>5 DEF ControlledNext, Rest, Stopped

-----------------------------------------------------------------------------
(* The verdicts of the scripted flight                                     *)

\* The condition of every lane at a vote of the scripted flight.
LEMMA ScriptedConditions ==
  ASSUME IInv, OrderInv, MessageInv, BiasInv, ReadsOn, ScriptInv, BiasSent, AllRead,
         <<"vote", 0>> \in pending, NEW p \in PFC
  PROVE  /\ Sample >= Samples => ConditionOf(p) = "missing"
         /\ Sample < Samples =>
              IF p = 2 /\ Sample \in 5 .. 7 THEN ConditionOf(p) = "missing"
              ELSE IF p = 3 /\ Sample = 640 /\ BiasShows THEN ConditionOf(p) = "corrupt"
              ELSE IF p = 3 /\ Sample = 640 THEN ConditionOf(p) \in {"good", "corrupt"}
              ELSE ConditionOf(p) = "good"
<1>1. ~Even /\ time \in Nat /\ Sample \in Nat /\ time = 2 * Sample + 1
  <2>1. ~Even /\ time \in Nat
    BY VoteNotEven DEF IInv, TypeOK
  <2>2. \A t \in Nat : t % 2 # 0 => t \div 2 \in Nat /\ t = 2 * (t \div 2) + 1
    OBVIOUS
  <2> QED
    BY <2>1, <2>2 DEF Even, Sample
<1>2. Ticked(p) /\ ~Waits(p)
  BY <1>1, AtVote DEF Waits, OrderInv, OnWholeSeconds
<1>3. ConditionOf(p) = "missing" <=> ~Sends(pfc[p])
  BY DEF ConditionOf
<1>4. ASSUME Sample >= Samples PROVE ConditionOf(p) = "missing"
  <2>1. ~Grounded(pfc[p]) => pfc[p].line = Sample + 1 /\ pfc[p].line \in 0 .. Samples
    BY <1>2 DEF IInv, OnSample, Navigates
  <2>2. Grounded(pfc[p])
    BY <1>1, <1>4, <2>1, FBWAssumption
  <2> QED
    BY <1>3, <2>2 DEF Sends
<1>5. ASSUME Sample < Samples PROVE Sends(pfc[p]) <=> ActiveAt(p, Sample)
  <2>1. ~pfc[p].eof_reached
    BY <1>1, <1>5, FBWAssumption DEF ReadsOn
  <2>2. ~Grounded(pfc[p])
    BY <2>1 DEF Grounded, AllRead, ScriptInv, ComputersScripted
  <2> QED
    BY <1>2, <2>2 DEF Sends, ScriptInv, ComputersScripted, HandledTo
<1>6. ConditionOf(p) \in {"missing", "good", "corrupt"}
  BY DEF ConditionOf
<1>7. p # 3 \/ Sample # 640 => ConditionOf(p) # "corrupt"
  BY Conditions DEF ScriptInv, SpoilsScripted
<1>8. p = 3 /\ Sample = 640 /\ BiasShows /\ Sends(pfc[p]) => ConditionOf(p) = "corrupt"
  <2> SUFFICES ASSUME p = 3, Sample = 640, BiasShows, Sends(pfc[p])
               PROVE  ConditionOf(p) = "corrupt"
    OBVIOUS
  <2>1. wes.has[3] /\ Fired
    BY Conditions DEF Fired
  <2>2. IsWrong(wes.last[3])
    BY <1>2, <2>1 DEF BiasSent
  <2> QED
    BY <1>3, <1>6, <2>2, Conditions DEF IsWrong
<1>9. ASSUME Sample < Samples PROVE Sends(pfc[p]) <=> ~(p = 2 /\ Sample \in 5 .. 7)
  BY <1>5, <1>9 DEF ActiveAt
<1>10. p = 3 => p # 2
  OBVIOUS
<1> QED
  BY <1>3, <1>4, <1>6, <1>7, <1>8, <1>9, <1>10

\* The verdict the conditions of a scripted flight call for.
LEMMA VoteSays ==
  ASSUME IInv, OrderInv, MessageInv, BiasInv, ReadsOn, ScriptInv, BiasSent, AllRead,
         <<"vote", 0>> \in pending
  PROVE  Says(WESVote(wes.last, wes.has), Sample)
<1> DEFINE c == [p \in PFC |-> ConditionOf(p)]
           good == {i \in 1 .. 3 : c[i] = "good"}
           v == WESVote(wes.last, wes.has)
<1>1. v = Abstract!Judgement(c)
  BY VoteJudges
<1>2. Abstract!Judgement(c) =
        IF \A i \in 1 .. 3 : c[i] = "missing" THEN "NONE"
        ELSE IF good = 1 .. 3 THEN "OK"
        ELSE IF good = {2, 3} THEN "ERROR_PFC1"
        ELSE IF good = {1, 3} THEN "ERROR_PFC2"
        ELSE IF good = {1, 2} THEN "ERROR_PFC3"
        ELSE "EMERGENCY"
  BY DEF Abstract!Judgement, Abstract!Lanes
<1>3. 1 .. 3 = {1, 2, 3} /\ 1 \in PFC /\ 2 \in PFC /\ 3 \in PFC
  BY DEF PFC
<1>4. c[1] = ConditionOf(1) /\ c[2] = ConditionOf(2) /\ c[3] = ConditionOf(3)
  BY <1>3
<1>5. time \in Nat /\ Sample \in Nat
  BY DEF IInv, TypeOK, Sample
<1> SUFFICES Says(v, Sample)
  OBVIOUS
<1> HIDE DEF c, v
<1>6. good = {i \in {1, 2, 3} : c[i] = "good"}
  BY <1>3
<1>7. CASE Sample >= Samples
  <2>1. c[1] = "missing" /\ c[2] = "missing" /\ c[3] = "missing"
    BY <1>3, <1>4, <1>7, ScriptedConditions
  <2> QED
    BY <1>1, <1>2, <1>3, <1>7, <2>1 DEF Says
<1>8. CASE Sample < Samples
  <2>1. ~(Sample >= Samples)
    BY <1>5, <1>8, FBWAssumption
  <2>2. c[1] = "good"
    BY <1>3, <1>4, <1>8, ScriptedConditions
  <2>3. v = IF good = 1 .. 3 THEN "OK"
            ELSE IF good = {2, 3} THEN "ERROR_PFC1"
            ELSE IF good = {1, 3} THEN "ERROR_PFC2"
            ELSE IF good = {1, 2} THEN "ERROR_PFC3"
            ELSE "EMERGENCY"
    BY <1>1, <1>2, <1>3, <2>2
  <2>4. CASE Sample \in 5 .. 7
    <3>1. c[2] = "missing" /\ c[3] = "good"
      BY <1>3, <1>4, <1>8, <2>4, ScriptedConditions
    <3>2. good = {1, 3}
      BY <1>6, <2>2, <3>1
    <3>3. v = "ERROR_PFC2"
      <4>1. {1, 3} # {1, 2, 3} /\ {1, 3} # {2, 3}
        OBVIOUS
      <4> HIDE DEF good
      <4> QED
        BY <1>3, <2>3, <3>2, <4>1
    <3> QED
      BY <2>1, <2>4, <3>3 DEF Says, ExpectedVerdict
  <2>5. CASE Sample \notin 5 .. 7
    <3>1. c[2] = "good"
      BY <1>3, <1>4, <1>8, <2>5, ScriptedConditions
    <3>2. c[3] = "good" => v = "OK"
      <4>1. c[3] = "good" => good = 1 .. 3
        BY <1>3, <1>6, <2>2, <3>1
      <4> HIDE DEF good
      <4> QED
        BY <2>3, <4>1
    <3>3. c[3] # "good" => v = "ERROR_PFC3"
      <4>1. c[3] # "good" => good = {1, 2}
        BY <1>6, <2>2, <3>1
      <4>2. {1, 2} # {1, 2, 3} /\ {1, 2} # {2, 3} /\ {1, 2} # {1, 3}
        OBVIOUS
      <4> HIDE DEF good
      <4> QED
        BY <1>3, <2>3, <4>1, <4>2
    <3>4. /\ Sample # 640 => c[3] = "good"
          /\ Sample = 640 /\ BiasShows => c[3] = "corrupt"
      BY <1>3, <1>4, <1>8, ScriptedConditions
    <3>5. ExpectedVerdict(Sample) = IF Sample = 640 THEN "ERROR_PFC3" ELSE "OK"
      BY <2>5 DEF ExpectedVerdict
    <3> HIDE DEF good
    <3> QED
      BY <2>1, <3>2, <3>3, <3>4, <3>5 DEF Says
  <2> QED
    BY <2>4, <2>5
<1>9. Sample >= Samples \/ Sample < Samples
  BY <1>5, FBWAssumption
<1> QED
  BY <1>7, <1>8, <1>9

\* A verdict of the script is no emergency.
LEMMA SaysNoEmergency == \A v, s : Says(v, s) => v # "EMERGENCY"
BY DEF Says, ExpectedVerdict

\* A reaction other than the vote, PFCDS's and a startup leaves the verdict alone.
LEMMA VerdictKept ==
  ASSUME VerdictInv, NEW r, NEW then, React(r, then),
         r # <<"vote", 0>>, <<"vote", 0>> \notin then, <<"pfcds", 0>> \notin then,
         UNCHANGED <<status, stop_tag, report>>, AllRead' => AllRead
  PROVE  VerdictInv'
<1>1. /\ Even' = Even /\ Sample' = Sample
      /\ <<"vote", 0>> \in pending' <=> <<"vote", 0>> \in pending
      /\ <<"pfcds", 0>> \in pending' => <<"pfcds", 0>> \in pending
  BY Moves
<1>2. \A v : Says(v, Sample)' <=> Says(v, Sample)
  BY <1>1 DEF Says, BiasShows, TrueSpeed
<1> QED
  BY <1>1, <1>2 DEF VerdictInv

\* Once the last computer found its file the verdicts are still to come.
LEMMA StartupVerdict ==
  ASSUME IInv, OrderInv, NEW p \in PFC, Startup(p) PROVE VerdictInv'
<1>1. React(<<"startup", p>>, {}) /\ UNCHANGED <<status, stop_tag, report>>
  BY DEF Startup
<1>2. time = 0 /\ Even' = Even /\ pending' = pending \ {<<"startup", p>>}
  <2>1. <<"startup", p>> \in pending
    BY <1>1, Moves
  <2>2. time = 0
    BY <2>1 DEF IInv, StartsBeforeTick
  <2> QED
    BY <1>1, <2>2, Moves
<1>3. Even /\ <<"pfcds", 0>> \notin pending
  BY <1>2 DEF Even, IInv, VotesBetweenTicks
<1>4. stop_tag = <<2 * Timeout, 0>>
  BY <1>2 DEF IInv, StopAhead, OrderInv, StopsInTime
<1> QED
  BY <1>1, <1>2, <1>3, <1>4 DEF VerdictInv

LEMMA VoteVerdict ==
  ASSUME IInv, OrderInv, MessageInv, BiasInv, ReadsOn, ScriptInv, BiasSent, VerdictInv,
         VoteSilent \/ Vote
  PROVE  VerdictInv'
<1> DEFINE result == WESVote(wes.last, wes.has)
<1>1. PICK then \in SUBSET {<<"pfcds", 0>>} :
        /\ React(<<"vote", 0>>, then) /\ UNCHANGED <<pfc, stop_tag>>
        /\ report'.verdict = result
        /\ then = {} \/ status' = result
  BY DEF VoteSilent, Vote, Reported
<1>2. /\ <<"vote", 0>> \in pending /\ <<"vote", 0>> \notin pending' /\ Sample' = Sample
      /\ pending' = (pending \ {<<"vote", 0>>}) \cup then
  BY <1>1, Moves
<1> SUFFICES ASSUME AllRead PROVE /\ Says(result, Sample)
                                  /\ <<"pfcds", 0>> \in pending' => status' = result
                                  /\ stop_tag = <<2 * Timeout, 0>>
  <2>1. AllRead' <=> AllRead
    BY <1>1 DEF AllRead
  <2>2. \A v : Says(v, Sample)' <=> Says(v, Sample)
    BY <1>2 DEF Says, BiasShows, TrueSpeed
  <2> HIDE DEF result
  <2> QED
    BY <1>1, <1>2, <2>1, <2>2 DEF VerdictInv
<1>3. <<"pfcds", 0>> \notin pending
  BY <1>2 DEF VerdictInv
<1>4. Says(result, Sample)
  BY <1>2, VoteSays
<1> HIDE DEF result
<1> QED
  BY <1>1, <1>2, <1>3, <1>4 DEF VerdictInv

\* PFCDS is told of no emergency.
LEMMA DisconnectVerdict ==
  ASSUME IInv, VerdictInv, Disconnect PROVE VerdictInv'
<1>1. /\ React(<<"pfcds", 0>>, {}) /\ UNCHANGED <<pfc, status, report>>
      /\ status # "EMERGENCY" => stop_tag' = stop_tag
  BY DEF Disconnect
<1>2. /\ <<"pfcds", 0>> \in pending /\ Even' = Even /\ Sample' = Sample
      /\ pending' = pending \ {<<"pfcds", 0>>}
  BY <1>1, Moves
<1>3. ~Even
  BY <1>2 DEF IInv, VotesBetweenTicks, Even
<1>4. (AllRead' <=> AllRead) /\ \A v : Says(v, Sample)' <=> Says(v, Sample)
  BY <1>1, <1>2 DEF AllRead, Says, BiasShows, TrueSpeed
<1>5. AllRead => status # "EMERGENCY"
  BY <1>2, <1>3, SaysNoEmergency DEF VerdictInv
<1> QED
  BY <1>1, <1>2, <1>4, <1>5 DEF VerdictInv

LEMMA AdvanceVerdict ==
  ASSUME IInv, OrderInv, VerdictInv, AdvanceTag PROVE VerdictInv'
<1> USE AdvanceDoes
<1>1. AllRead' <=> AllRead
  BY DEF AllRead
<1>2. <<"pfcds", 0>> \notin pending'
  OBVIOUS
<1>3. AllRead => Even' \/ <<"vote", 0>> \in pending'
  <2> SUFFICES ASSUME AllRead, time' = time, stop_tag[1] = time, ~Even PROVE FALSE
    OBVIOUS
  <2>1. time = 2 * Timeout
    BY DEF VerdictInv
  <2> QED
    BY <2>1, FBWAssumption DEF Even
<1> QED
  BY <1>1, <1>2, <1>3 DEF VerdictInv

LEMMA NextVerdict ==
  ASSUME IInv, OrderInv, MessageInv, BiasInv, ReadsOn, ScriptInv, BiasSent, VerdictInv,
         [ControlledNext]_vars
  PROVE  VerdictInv'
<1>1. ASSUME NEW p \in PFC, PFCNext(p) PROVE VerdictInv'
  <2>1. CASE Startup(p)
    BY <2>1, StartupVerdict
  <2>2. CASE HandleFault(p)
    <3>1. AllRead' => AllRead
      BY <2>2, HandleFaultDoes DEF AllRead
    <3>2. React(<<"fault", p>>, {}) /\ UNCHANGED <<status, stop_tag, report>>
      BY <2>2 DEF HandleFault
    <3> QED
      BY <3>1, <3>2, VerdictKept
  <2>3. CASE TickGrounded(p) \/ TickEndOfFile(p) \/ TickStopped(p)
    <3>1. AllRead' => AllRead
      <4>1. \A q \in PFC : pfc'[q].fp = pfc[q].fp
        BY <2>3, SilentTickDoes
      <4> QED
        BY <4>1 DEF AllRead
    <3> QED
      BY <2>3, <3>1, SilentTickDoes, VerdictKept
  <2>4. CASE TickSend(p)
    <3> DEFINE then == {<<"trans", p>>}
    <3>1. AllRead' => AllRead
      BY <2>4, TickSendDoes DEF AllRead
    <3>2. /\ React(<<"tick", p>>, then) /\ UNCHANGED <<status, stop_tag, report>>
          /\ <<"vote", 0>> \notin then /\ <<"pfcds", 0>> \notin then
      BY <2>4, TickSendDoes
    <3> HIDE DEF then
    <3> QED
      BY <3>1, <3>2, VerdictKept
  <2>5. CASE Shutdown(p)
    <3>1. AllRead' => AllRead
      BY <2>5, ShutdownDoes DEF AllRead
    <3>2. React(<<"shutdown", p>>, {}) /\ UNCHANGED <<status, stop_tag, report>>
      BY <2>5 DEF Shutdown
    <3> QED
      BY <3>1, <3>2, VerdictKept
  <2> QED
    BY <1>1, <2>1, <2>2, <2>3, <2>4, <2>5 DEF PFCNext
<1>2. ASSUME NEW p \in PFC, Forward(p) \/ Capture(p) PROVE VerdictInv'
  <2>1. PICK r \in {<<"trans", p>>, <<"capture", p>>}, then \in SUBSET {<<"capture", p>>} :
          React(r, then) /\ UNCHANGED <<pfc, status, stop_tag, report>>
    BY <1>2 DEF Forward, Capture
  <2>2. r # <<"vote", 0>> /\ <<"vote", 0>> \notin then /\ <<"pfcds", 0>> \notin then
    OBVIOUS
  <2>3. AllRead' => AllRead
    BY <2>1 DEF AllRead
  <2> QED
    BY <2>1, <2>2, <2>3, VerdictKept
<1>3. CASE VoteSilent \/ Vote \/ Disconnect
  BY <1>3, VoteVerdict, DisconnectVerdict
<1>4. CASE AdvanceTag
  BY <1>4, AdvanceVerdict
<1>5. CASE FollowScript
  <2> DEFINE then == FaultReactions(fault')
  <2>1. /\ React(<<"fman", 0>>, then) /\ UNCHANGED <<pfc, status, stop_tag, report>>
        /\ <<"vote", 0>> \notin then /\ <<"pfcds", 0>> \notin then
    BY <1>5 DEF FollowScript, FaultReactions
  <2>2. AllRead' => AllRead
    BY <2>1 DEF AllRead
  <2> HIDE DEF then
  <2> QED
    BY <2>1, <2>2, VerdictKept
<1>6. CASE Stop \/ UNCHANGED vars
  BY <1>6 DEF Stop, vars, timing, VerdictInv, AllRead, Even, Says, BiasShows, TrueSpeed, Sample
<1> QED
  BY <1>1, <1>2, <1>3, <1>4, <1>5, <1>6 DEF ControlledNext, Rest, Stopped

LEMMA InitVerdict == Init => VerdictInv
BY DEF Init, VerdictInv, AllRead, NewPFC, PFC

LEMMA NextEnds == EndsAtStop /\ [Next]_vars => EndsAtStop'
<1> SUFFICES ASSUME EndsAtStop, [Next]_vars PROVE EndsAtStop'
  OBVIOUS
<1>1. CASE Stop \/ UNCHANGED vars
  BY <1>1 DEF EndsAtStop, Stop, vars, timing
<1>2. CASE AdvanceTag
  BY <1>2 DEF EndsAtStop, AdvanceTag
<1>3. CASE ~(Stop \/ UNCHANGED vars \/ AdvanceTag)
  <2>1. PICK r, then : React(r, then)
    BY <1>3 DEF Next, PFCNext, Rest, Startup, HandleFault, TickGrounded, TickEndOfFile,
       TickStopped, TickSend, Shutdown, Forward, Capture, VoteSilent, Vote, Disconnect,
       GenerateFaults, Stopped, vars
  <2>2. pending # {} /\ running' = running
    BY <2>1, Moves DEF React, timing
  <2> QED
    BY <2>2 DEF EndsAtStop
<1> QED
  BY <1>1, <1>2, <1>3

-----------------------------------------------------------------------------
(* The theorems, for the scripted flight                                   *)

LEMMA SpecScript == ControlledSpec => [](IInv /\ OrderInv /\ VerdictInv /\ EndsAtStop)
<1> DEFINE Votes == IInv /\ OrderInv /\ MessageInv /\ BiasInv
           Inv == ReadsOn /\ ScriptInv /\ BiasSent /\ VerdictInv /\ EndsAtStop
<1>1. Init => Inv
  <2>1. Init => EndsAtStop
    BY DEF Init, EndsAtStop
  <2> QED
    BY <2>1, LossInit, InitScript, InitVerdict
<1>2. Votes /\ Inv /\ [ControlledNext]_vars => Inv'
  BY ControlledSteps, NextReads, NextScript, NextVerdict, NextEnds
<1>3. ControlledSpec => []Votes
  BY ControlledIsFlight, SpecVotes
<1>4. Votes /\ Inv => IInv /\ OrderInv /\ VerdictInv /\ EndsAtStop
  OBVIOUS
<1> HIDE DEF Votes, Inv
<1> QED
  BY <1>1, <1>2, <1>3, <1>4, PTL DEF ControlledSpec

\* A bias changes every speed but zero.
LEMMA BiasChanges == ASSUME NEW s \in Nat \ {0} PROVE apply_bias(s) # s
<1> DEFINE r == round(s)
           x == r * Unit
<1>1. r \in Nat /\ Unit \in Nat \ {0}
  BY RoundType, UnitAssumption
<1>2. r * (2 * Unit) <= 2 * s + Unit /\ 2 * s + Unit < (r + 1) * (2 * Unit)
  <2>1. \A a \in Nat, b \in Nat \ {0} : (a \div b) * b <= a /\ a < (a \div b + 1) * b
    OBVIOUS
  <2> DEFINE a == 2 * s + Unit  b == 2 * Unit
  <2>2. a \in Nat /\ b \in Nat \ {0} /\ r = a \div b
    BY <1>1 DEF round
  <2> HIDE DEF a, b, r
  <2>3. r * b <= a /\ a < (r + 1) * b
    BY <2>1, <2>2
  <2> QED
    BY <2>3 DEF a, b
<1>3. x \in Nat /\ r * (2 * Unit) = 2 * x /\ (r + 1) * (2 * Unit) = 2 * x + 2 * Unit
  BY <1>1
<1>4. r >= 1 => x >= Unit
  <2>1. \A a, b \in Nat : a >= 1 => a * b >= b
    OBVIOUS
  <2> QED
    BY <1>1, <2>1
<1>5. r = 0 => x = 0
  BY <1>1
<1>6. apply_bias(s) = 4 * x
  BY <1>1 DEF apply_bias
<1> HIDE DEF r, x
<1> QED
  BY <1>1, <1>2, <1>3, <1>4, <1>5, <1>6

\* What check_e2e_faults.py expects of the log holds of every order of the
\* reactions and of every data file that lasts to the timeout, if by second 640,
\* when the test gets there, the aircraft has moved: shifting a speed of zero
\* leaves it zero, and no vote would see the bias.
THEOREM ScriptFollowed ==
  Timeout <= Samples /\ (Timeout > 640 => Track[640] > Track[0])
    => (ControlledSpec => []ScriptedVerdicts)
<1> SUFFICES ASSUME Timeout <= Samples, Timeout > 640 => Track[640] > Track[0]
             PROVE  ControlledSpec => []ScriptedVerdicts
  OBVIOUS
<1>1. Timeout > 640 => BiasShows
  <2> SUFFICES ASSUME Timeout > 640 PROVE BiasShows
    OBVIOUS
  <2>1. 640 \in 0 .. Samples - 1 /\ 0 \in 0 .. Samples - 1
    BY FBWAssumption
  <2>2. Track[640] \in Nat /\ Track[0] \in Nat
    BY <2>1, FBWAssumption
  <2>3. TrueSpeed(640) \in Nat \ {0}
    BY <2>2 DEF TrueSpeed
  <2> QED
    BY <2>3, BiasChanges DEF BiasShows
<1>2. IInv /\ OrderInv /\ VerdictInv => ScriptedVerdicts
  <2> SUFFICES ASSUME IInv, OrderInv, VerdictInv, time % 2 = 1, pending = {},
                      \A p \in PFC : pfc[p].fp = "open"
               PROVE  report.verdict = ExpectedVerdict(Sample)
    BY DEF ScriptedVerdicts
  <2>1. Says(report.verdict, Sample)
    BY DEF VerdictInv, AllRead, Even
  <2>2. Sample < Timeout /\ Sample \in Nat
    <3>1. time \in Nat /\ time <= 2 * Timeout
      BY DEF IInv, TypeOK, OrderInv, StopsInTime
    <3>2. \A t, n \in Nat : t % 2 = 1 /\ t <= 2 * n => t \div 2 < n /\ t \div 2 \in Nat
      OBVIOUS
    <3> QED
      BY <3>1, <3>2, FBWAssumption DEF Sample
  <2>3. ~(Sample >= Samples) /\ (Sample = 640 => BiasShows)
    BY <1>1, <2>2, FBWAssumption
  <2> QED
    BY <2>1, <2>3 DEF Says
<1> QED
  BY <1>2, SpecScript, PTL

\* A scripted flight whose computers all found their data stops at the timeout and
\* nowhere else, however long the data lasts and whatever the speeds are.
THEOREM ScriptRunsOut == ControlledSpec => []RunsToTimeout
<1>1. VerdictInv /\ EndsAtStop => RunsToTimeout
  <2> SUFFICES ASSUME VerdictInv, EndsAtStop, ~running, \A p \in PFC : pfc[p].fp # "NULL"
               PROVE  time = 2 * Timeout
    BY DEF RunsToTimeout
  <2>1. stop_tag = <<2 * Timeout, 0>> /\ <<time, microstep>> = stop_tag
    BY DEF VerdictInv, EndsAtStop, AllRead
  <2> QED
    BY <2>1
<1> QED
  BY <1>1, SpecScript, PTL
=============================================================================
