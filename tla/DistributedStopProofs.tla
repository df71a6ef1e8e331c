------------------------ MODULE DistributedStopProofs ------------------------
(***************************************************************************)
(* The grants of DistributedStop are ahead of every federate, and those    *)
(* that take part in a stop stop together.                                 *)
(***************************************************************************)
EXTENDS DistributedStop, TLAPS

\* f has told the RTI at which tag it can stop.
Sent(f) == received_stop[f] /\ asked[f].step = "none"

\* f has heard the grant.
Heard(f) == Sent(f) /\ requestors[f] = 0

\* The messages that tell it.
IsPledge(m) == m.type \in {"REQUEST", "REPLY"}

NoRequest(f) == \A i \in DOMAIN down[f] : down[f][i].type # "REQUEST"

\* Who has asked and who has been asked.
Flags(f) ==
  /\ ~lf_stop_requested[f] => asking[f] = "none" /\ asked[f].step = "none" /\ ~received_stop[f]
  /\ asking[f] \in {"flagged", "raised"} =>
       ~received_stop[f] /\ asked[f].step = "none" /\ pc[f] \in {"exec", "gone"}
  /\ asking[f] = "sent" => received_stop[f] /\ asked[f].step = "none"
  /\ asked[f].step # "none" => received_stop[f]

\* What the barrier holds back while the tag is on its way to the RTI.
Barrier(f) ==
  /\ requestors[f] \in {0, 1}
  /\ asking[f] = "raised" => requestors[f] = 1 /\ horizon[f] = current_tag[f] + 1
  /\ asked[f].step = "blocked" =>
       requestors[f] = 1 /\ current_tag[f] < asked[f].tag /\ horizon[f] <= asked[f].tag
  /\ requestors[f] = 1 => asking[f] = "raised" \/ asked[f].step = "blocked" \/ Sent(f)

\* A tag under way to the RTI is ahead, is the only one and is not yet counted.
Pledged(f) ==
  f \in connected =>
    \A i \in DOMAIN up[f] : IsPledge(up[f][i]) =>
      /\ Sent(f) /\ f \notin stop_requested
      /\ current_tag[f] < up[f][i].tag /\ horizon[f] <= up[f][i].tag
      /\ \A j \in DOMAIN up[f] : IsPledge(up[f][j]) => i = j

\* Who counts as stopping has told a tag that is not after the maximum, or had
\* left before anyone was asked.
CountedAsStopping(f) ==
  f \in stop_requested =>
    /\ received_stop[f] =>
         Sent(f) /\ (requestors[f] = 1 => current_tag[f] < max_stop_tag /\ horizon[f] <= max_stop_tag)
    /\ ~received_stop[f] => f \notin connected /\ stop_in_progress /\ NoRequest(f)

\* A federate leaves when it is done, after what it has asked.
Leaving(f) ==
  /\ f \notin connected => pc[f] = "done"
  /\ \A i \in DOMAIN up[f] : up[f][i].type = "RESIGN" =>
       pc[f] = "done" /\ \A j \in DOMAIN up[f] : i < j => up[f][j].type # "REQUEST"
  /\ asking[f] = "sent" =>
       f \in stop_requested \/ \E i \in DOMAIN up[f] : up[f][i].type = "REQUEST"

\* Nobody has been asked before the RTI has begun to ask.
BeforeRequests(f) ==
  ~stop_in_progress =>
    /\ NoRequest(f)
    /\ received_stop[f] => asking[f] = "sent"
    /\ f \notin connected /\ received_stop[f] => f \in stop_requested

\* The stop tag is granted once, to federates whose barrier is still up.
Granting(f) ==
  /\ stop_granted => f \in stop_requested
  /\ Heard(f) => stop_granted
  /\ \A i \in DOMAIN down[f] : down[f][i].type = "GRANTED" =>
       /\ stop_granted /\ down[f][i].tag = max_stop_tag
       /\ Sent(f) /\ requestors[f] = 1
       /\ \A j \in DOMAIN down[f] : down[f][j].type = "GRANTED" => i = j

\* No federate passes its stop tag.
Stopping(f) ==
  /\ current_tag[f] <= stop_tag[f]
  /\ pc[f] \in {"ending", "done"} => current_tag[f] = stop_tag[f]

Local(f) ==
  /\ Flags(f) /\ Barrier(f) /\ Pledged(f) /\ CountedAsStopping(f)
  /\ Leaving(f) /\ BeforeRequests(f) /\ Granting(f) /\ Stopping(f)

\* The stop tag is the timeout, and the earlier of it and the maximum once the
\* grant has been heard.
StopTags ==
  \E t \in Timeouts : \A f \in Fed :
    stop_tag[f] = IF Heard(f) THEN Minimum(t, max_stop_tag) ELSE t

IInv ==
  /\ TypeOK
  /\ \A f \in Fed : Local(f)
  /\ StopTags

-----------------------------------------------------------------------------
(* Sequences of messages                                                   *)

LEMMA Appended ==
  ASSUME NEW S, NEW s \in Seq(S), NEW m \in S
  PROVE  /\ Append(s, m) \in Seq(S)
         /\ DOMAIN s = 1 .. Len(s) /\ Len(s) \in Nat
         /\ DOMAIN Append(s, m) = 1 .. Len(s) + 1
         /\ \A i \in 1 .. Len(s) : Append(s, m)[i] = s[i]
         /\ Append(s, m)[Len(s) + 1] = m
OBVIOUS

LEMMA Taken ==
  ASSUME NEW S, NEW s \in Seq(S), s # <<>>
  PROVE  /\ Tail(s) \in Seq(S)
         /\ Head(s) = s[1] /\ s[1] \in S /\ 1 \in DOMAIN s
         /\ \A i \in DOMAIN Tail(s) : i + 1 \in DOMAIN s /\ Tail(s)[i] = s[i + 1]
         /\ \A i \in DOMAIN s : i # 1 => i - 1 \in DOMAIN Tail(s) /\ Tail(s)[i - 1] = s[i]
         /\ DOMAIN s \subseteq Nat \ {0} /\ DOMAIN Tail(s) \subseteq Nat \ {0}
<1>1. Len(s) \in Nat /\ Len(s) # 0 /\ DOMAIN s = 1 .. Len(s)
  OBVIOUS
<1>2. DOMAIN Tail(s) = 1 .. Len(s) - 1
  BY <1>1
<1> QED  BY <1>1, <1>2

LEMMA MessageTags ==
  ASSUME NEW s \in Seq(Message), NEW i \in DOMAIN s
  PROVE  s[i].tag \in Nat
<1>1. s[i] \in Message
  OBVIOUS
<1> QED  BY <1>1 DEF Message

-----------------------------------------------------------------------------
(* Steps of a federate                                                     *)

SameFlags(g) ==
  /\ lf_stop_requested'[g] = lf_stop_requested[g] /\ received_stop'[g] = received_stop[g]
  /\ asking'[g] = asking[g] /\ asked'[g] = asked[g]
SameBarrier(g) == horizon'[g] = horizon[g] /\ requestors'[g] = requestors[g]
SameTag(g) == pc'[g] = pc[g] /\ current_tag'[g] = current_tag[g] /\ stop_tag'[g] = stop_tag[g]
Same(g) == SameFlags(g) /\ SameBarrier(g) /\ SameTag(g) /\ up'[g] = up[g] /\ down'[g] = down[g]

LEMMA LocalFrame ==
  ASSUME NEW g \in Fed, Local(g), Same(g), UNCHANGED rtiVars
  PROVE  Local(g)' /\ (Heard(g)' <=> Heard(g))
<1> USE DEF Same, SameFlags, SameBarrier, SameTag, rtiVars, Local
<1>1. Flags(g)'  BY DEF Flags
<1>2. Barrier(g)'  BY DEF Barrier, Sent
<1>3. Pledged(g)'  BY DEF Pledged, Sent, IsPledge
<1>4. CountedAsStopping(g)'  BY DEF CountedAsStopping, Sent, NoRequest
<1>5. Leaving(g)'  BY DEF Leaving
<1>6. BeforeRequests(g)'  BY DEF BeforeRequests, NoRequest
<1>7. Granting(g)'  BY DEF Granting, Sent, Heard
<1>8. Stopping(g)'  BY DEF Stopping
<1>9. Heard(g)' <=> Heard(g)  BY DEF Heard, Sent
<1> QED  BY <1>1, <1>2, <1>3, <1>4, <1>5, <1>6, <1>7, <1>8, <1>9

\* A step of f that does not move its stop tag.
LEMMA FederateStep ==
  ASSUME IInv, NEW f \in Fed, TypeOK', UNCHANGED rtiVars,
         \A g \in Fed \ {f} : Same(g),
         Local(f)', stop_tag'[f] = stop_tag[f], Heard(f)' <=> Heard(f)
  PROVE  IInv'
<1>1. \A g \in Fed \ {f} : Local(g)' /\ (Heard(g)' <=> Heard(g))
  BY LocalFrame DEF IInv
<1>2. \A g \in Fed : stop_tag'[g] = stop_tag[g] /\ (Heard(g)' <=> Heard(g))
  BY <1>1 DEF Same, SameTag
<1>3. StopTags'
  BY <1>2 DEF IInv, StopTags, rtiVars
<1> QED  BY <1>1, <1>3 DEF IInv

LEMMA RequestStopStep ==
  ASSUME IInv, NEW f \in Fed, RequestStop(f)
  PROVE  IInv'
<1> USE DEF IInv, RequestStop, Runs, tagVars, barrierVars
<1>1. TypeOK'
  BY DEF TypeOK, rtiVars
<1>2. /\ lf_stop_requested'[f] = TRUE /\ asking'[f] = "flagged"
      /\ pc[f] = "exec" /\ asking[f] = "none" /\ ~lf_stop_requested[f]
      /\ UNCHANGED <<received_stop, asked, horizon, requestors, pc, current_tag, stop_tag, up, down>>
      /\ UNCHANGED rtiVars
  BY DEF TypeOK
<1>3. \A g \in Fed \ {f} : Same(g)
  BY DEF TypeOK, Same, SameFlags, SameBarrier, SameTag
<1>4. Local(f)
  OBVIOUS
<1>5. Flags(f)'  BY <1>2, <1>4 DEF Local, Flags
<1>6. Barrier(f)'  BY <1>2, <1>4 DEF Local, Flags, Barrier, Sent
<1>7. Pledged(f)'  BY <1>2, <1>4 DEF Local, Pledged, Sent, IsPledge, rtiVars
<1>8. CountedAsStopping(f)'  BY <1>2, <1>4 DEF Local, CountedAsStopping, Sent, NoRequest, rtiVars
<1>9. Leaving(f)'  BY <1>2, <1>4 DEF Local, Leaving, rtiVars
<1>10. BeforeRequests(f)'  BY <1>2, <1>4 DEF Local, Flags, BeforeRequests, NoRequest, rtiVars
<1>11. Granting(f)' /\ (Heard(f)' <=> Heard(f))
  BY <1>2, <1>4 DEF Local, Granting, Sent, Heard, rtiVars
<1>12. Stopping(f)'  BY <1>2, <1>4 DEF Local, Stopping
<1> HIDE DEF IInv, RequestStop
<1> QED
  BY <1>1, <1>2, <1>3, <1>5, <1>6, <1>7, <1>8, <1>9, <1>10, <1>11, <1>12, FederateStep DEF Local

LEMMA RaiseBarrierStep ==
  ASSUME IInv, NEW f \in Fed, RaiseBarrier(f)
  PROVE  IInv'
<1> USE DEF IInv, RaiseBarrier, Runs, tagVars
<1>1. /\ Local(f) /\ asking[f] = "flagged" /\ pc[f] = "exec"
      /\ ~received_stop[f] /\ asked[f].step = "none"
      /\ requestors[f] = 0 /\ current_tag[f] \in Nat /\ stop_tag[f] \in Nat
  BY DEF Local, Flags, Barrier, Sent, TypeOK
<1>2. Raised(f, current_tag[f]) = current_tag[f] + 1
  BY <1>1 DEF Raised, Minimum
<1>3. /\ asking'[f] = "raised" /\ horizon'[f] = current_tag[f] + 1 /\ requestors'[f] = 1
      /\ UNCHANGED <<lf_stop_requested, received_stop, asked, pc, current_tag, stop_tag, up, down>>
      /\ UNCHANGED rtiVars
  BY <1>1, <1>2 DEF TypeOK, increment_tag_barrier
<1>4. TypeOK'
  BY <1>1, <1>2 DEF TypeOK, rtiVars, increment_tag_barrier
<1>5. \A g \in Fed \ {f} : Same(g)
  BY DEF TypeOK, Same, SameFlags, SameBarrier, SameTag, increment_tag_barrier
<1>6. Flags(f)'  BY <1>1, <1>3 DEF Local, Flags
<1>7. Barrier(f)'  BY <1>1, <1>3 DEF Local, Barrier
<1>8. Pledged(f)'  BY <1>1, <1>3 DEF Local, Pledged, Sent, IsPledge, rtiVars
<1>9. CountedAsStopping(f)'  BY <1>1, <1>3 DEF Local, CountedAsStopping, NoRequest, rtiVars
<1>10. Leaving(f)'  BY <1>1, <1>3 DEF Local, Leaving, rtiVars
<1>11. BeforeRequests(f)'  BY <1>1, <1>3 DEF Local, BeforeRequests, NoRequest, rtiVars
<1>12. Granting(f)' /\ (Heard(f)' <=> Heard(f))
  BY <1>1, <1>3 DEF Local, Granting, Sent, Heard, rtiVars
<1>13. Stopping(f)'  BY <1>1, <1>3 DEF Local, Stopping
<1> HIDE DEF IInv, RaiseBarrier
<1> QED
  BY <1>3, <1>4, <1>5, <1>6, <1>7, <1>8, <1>9, <1>10, <1>11, <1>12, <1>13, FederateStep
     DEF Local

LEMMA SendStopRequestStep ==
  ASSUME IInv, NEW f \in Fed, SendStopRequest(f)
  PROVE  IInv'
<1> USE DEF IInv, SendStopRequest, Runs, tagVars
<1> DEFINE m == Msg("REQUEST", current_tag[f] + 1)
<1>1. /\ Local(f) /\ asking[f] = "raised" /\ pc[f] = "exec"
      /\ ~received_stop[f] /\ asked[f].step = "none"
      /\ requestors[f] = 1 /\ horizon[f] = current_tag[f] + 1
      /\ current_tag[f] \in Nat /\ up[f] \in Seq(Message) /\ m \in Message
  BY DEF Local, Flags, Barrier, Sent, TypeOK, Msg, Message
<1>2. /\ asking'[f] = "sent" /\ received_stop'[f] = TRUE /\ up'[f] = Append(up[f], m)
      /\ UNCHANGED <<lf_stop_requested, asked, horizon, requestors, pc, current_tag, stop_tag, down>>
      /\ UNCHANGED rtiVars
  BY <1>1 DEF TypeOK, barrierVars
<1>3. TypeOK'
  <2>1. Append(up[f], m) \in Seq(Message)
    BY <1>1, Appended
  <2>2. up' = [up EXCEPT ![f] = Append(up[f], m)]
    BY <1>1
  <2>3. up' \in [Fed -> Seq(Message)]
    <3>1. up \in [Fed -> Seq(Message)]
      BY DEF TypeOK
    <3> HIDE DEF m
    <3> QED  BY <2>1, <2>2, <3>1
  <2> QED  BY <1>1, <2>3 DEF TypeOK, rtiVars, barrierVars
<1>4. \A g \in Fed \ {f} : Same(g)
  BY <1>1 DEF TypeOK, Same, SameFlags, SameBarrier, SameTag, barrierVars
<1>5. f \in connected
  BY <1>1 DEF Local, Leaving
<1>6. f \notin stop_requested
  BY <1>1, <1>5 DEF Local, CountedAsStopping
<1>7. /\ \A i \in DOMAIN up'[f] : \/ i \in DOMAIN up[f] /\ up'[f][i] = up[f][i]
                                  \/ i = Len(up[f]) + 1 /\ up'[f][i] = m
      /\ Len(up[f]) + 1 \in DOMAIN up'[f] /\ up'[f][Len(up[f]) + 1] = m
  BY <1>1, <1>2, Appended
<1>8. \A i \in DOMAIN up[f] : ~IsPledge(up[f][i]) /\ up[f][i].type # "RESIGN"
  BY <1>1, <1>5 DEF Local, Pledged, Sent, Leaving
<1>9. m.type = "REQUEST" /\ m.tag = current_tag[f] + 1
  BY DEF Msg
<1>10. Flags(f)'  BY <1>1, <1>2 DEF Local, Flags
<1>11. Barrier(f)'  BY <1>1, <1>2 DEF Local, Barrier, Sent
<1>12. Pledged(f)'
  BY <1>1, <1>2, <1>6, <1>7, <1>8, <1>9 DEF Pledged, Sent, IsPledge, rtiVars
<1>13. CountedAsStopping(f)'  BY <1>2, <1>6 DEF CountedAsStopping, rtiVars
<1>14. Leaving(f)'
  BY <1>1, <1>2, <1>5, <1>7, <1>8, <1>9 DEF Local, Leaving, rtiVars
<1>15. BeforeRequests(f)'
  BY <1>1, <1>2, <1>5 DEF Local, BeforeRequests, NoRequest, rtiVars
<1>16. Granting(f)' /\ (Heard(f)' <=> Heard(f))
  BY <1>1, <1>2 DEF Local, Granting, Sent, Heard, rtiVars
<1>17. Stopping(f)'  BY <1>1, <1>2 DEF Local, Stopping
<1> HIDE DEF IInv, SendStopRequest
<1> QED
  BY <1>2, <1>3, <1>4, <1>10, <1>11, <1>12, <1>13, <1>14, <1>15, <1>16, <1>17, FederateStep
     DEF Local

LEMMA NextEventsAhead ==
  ASSUME TypeOK, NEW f \in Fed, Stopping(f), NEW t \in NextEvents(f)
  PROVE  t \in Nat /\ current_tag[f] <= t /\ t <= stop_tag[f]
BY StopAssumption DEF TypeOK, Stopping, NextEvents

LEMMA CompleteStep ==
  ASSUME IInv, NEW f \in Fed, Complete(f)
  PROVE  IInv'
<1> USE DEF IInv, Complete, Runs, barrierVars, flagVars
<1>1. /\ Local(f) /\ pc[f] = "exec" /\ asking[f] \in {"none", "sent"}
      /\ current_tag[f] \in Nat /\ stop_tag[f] \in Nat
  BY DEF TypeOK
<1>2. /\ pc'[f] \in {"ending", "wait"}
      /\ pc'[f] = "ending" => current_tag[f] >= stop_tag[f]
      /\ UNCHANGED <<lf_stop_requested, received_stop, asking, asked, horizon, requestors,
                     current_tag, stop_tag, up, down>>
      /\ UNCHANGED rtiVars
  BY DEF TypeOK
<1>3. TypeOK'
  <2>1. \A t \in NextEvents(f) : t \in Nat
    BY <1>1, NextEventsAhead DEF Local
  <2>2. next_tag \in [Fed -> Nat]
    BY DEF TypeOK
  <2>3. next_tag' \in [Fed -> Nat]
    BY <2>1, <2>2
  <2> QED  BY <2>3 DEF TypeOK, rtiVars
<1>4. \A g \in Fed \ {f} : Same(g)
  BY DEF TypeOK, Same, SameFlags, SameBarrier, SameTag
<1>5. Flags(f)'  BY <1>1, <1>2 DEF Local, Flags
<1>6. Barrier(f)'  BY <1>1, <1>2 DEF Local, Barrier, Sent
<1>7. Pledged(f)'  BY <1>1, <1>2 DEF Local, Pledged, Sent, IsPledge, rtiVars
<1>8. CountedAsStopping(f)'  BY <1>1, <1>2 DEF Local, CountedAsStopping, Sent, NoRequest, rtiVars
<1>9. Leaving(f)'  BY <1>1, <1>2 DEF Local, Leaving, rtiVars
<1>10. BeforeRequests(f)'  BY <1>1, <1>2 DEF Local, BeforeRequests, NoRequest, rtiVars
<1>11. Granting(f)' /\ (Heard(f)' <=> Heard(f))
  BY <1>1, <1>2 DEF Local, Granting, Sent, Heard, rtiVars
<1>12. Stopping(f)'  BY <1>1, <1>2 DEF Local, Stopping
<1> HIDE DEF IInv, Complete
<1> QED
  BY <1>2, <1>3, <1>4, <1>5, <1>6, <1>7, <1>8, <1>9, <1>10, <1>11, <1>12, FederateStep DEF Local

LEMMA WakeStep ==
  ASSUME IInv, NEW f \in Fed, Wake(f)
  PROVE  IInv'
<1> USE DEF IInv, Wake, Runs, barrierVars, flagVars
<1>1. TypeOK'
  <2>1. next_tag' \in [Fed -> Nat]
    BY NextEventsAhead DEF TypeOK, Local
  <2> QED  BY <2>1 DEF TypeOK, rtiVars
<1>2. UNCHANGED rtiVars /\ \A g \in Fed : Same(g)
  BY DEF Same, SameFlags, SameBarrier, SameTag
<1>3. Local(f)' /\ (Heard(f)' <=> Heard(f))
  BY <1>2, LocalFrame
<1> HIDE DEF IInv, Wake
<1> QED  BY <1>1, <1>2, <1>3, FederateStep DEF Same, SameTag

LEMMA TimePassesStep ==
  ASSUME IInv, NEW f \in Fed, TimePasses(f)
  PROVE  IInv'
<1> USE DEF IInv, TimePasses, Runs, tagVars, barrierVars, flagVars
<1>1. TypeOK'
  BY DEF TypeOK, rtiVars
<1>2. /\ Local(f) /\ pc[f] = "wait" /\ pc'[f] = "advance"
      /\ UNCHANGED <<lf_stop_requested, received_stop, asking, asked, horizon, requestors,
                     current_tag, stop_tag, up, down>>
      /\ UNCHANGED rtiVars
  BY DEF TypeOK
<1>3. \A g \in Fed \ {f} : Same(g)
  BY DEF TypeOK, Same, SameFlags, SameBarrier, SameTag
<1>4. Flags(f)'  BY <1>2 DEF Local, Flags
<1>5. Barrier(f)'  BY <1>2 DEF Local, Barrier, Sent
<1>6. Pledged(f)'  BY <1>2 DEF Local, Pledged, Sent, IsPledge, rtiVars
<1>7. CountedAsStopping(f)'  BY <1>2 DEF Local, CountedAsStopping, Sent, NoRequest, rtiVars
<1>8. Leaving(f)'  BY <1>2 DEF Local, Leaving, rtiVars
<1>9. BeforeRequests(f)'  BY <1>2 DEF Local, BeforeRequests, NoRequest, rtiVars
<1>10. Granting(f)' /\ (Heard(f)' <=> Heard(f))
  BY <1>2 DEF Local, Granting, Sent, Heard, rtiVars
<1>11. Stopping(f)'  BY <1>2 DEF Local, Stopping
<1> HIDE DEF IInv, TimePasses
<1> QED
  BY <1>1, <1>2, <1>3, <1>4, <1>5, <1>6, <1>7, <1>8, <1>9, <1>10, <1>11, FederateStep DEF Local

\* The barrier keeps the tag below what f has told, or is about to tell, the RTI.
LEMMA AdvanceTagStep ==
  ASSUME IInv, NEW f \in Fed, AdvanceTag(f)
  PROVE  IInv'
<1> USE DEF IInv, AdvanceTag, Runs, barrierVars, flagVars
<1>1. PICK tag \in NextEvents(f) : BarrierOpen(f, tag) /\ current_tag' = [current_tag EXCEPT ![f] = tag]
  OBVIOUS
<1>2. tag \in Nat /\ current_tag[f] <= tag /\ tag <= stop_tag[f]
  BY NextEventsAhead DEF Local
<1>3. /\ Local(f) /\ pc[f] = "advance" /\ pc'[f] = "exec" /\ current_tag'[f] = tag
      /\ requestors[f] = 1 => tag < horizon[f]
      /\ requestors[f] \in {0, 1} /\ horizon[f] \in Nat
      /\ UNCHANGED <<lf_stop_requested, received_stop, asking, asked, horizon, requestors,
                     stop_tag, up, down>>
      /\ UNCHANGED rtiVars
  BY <1>1 DEF TypeOK, BarrierOpen
<1>4. TypeOK'
  BY <1>1, <1>2 DEF TypeOK, rtiVars
<1>5. \A g \in Fed \ {f} : Same(g)
  BY <1>1 DEF TypeOK, Same, SameFlags, SameBarrier, SameTag
<1>6. Flags(f)'  BY <1>3 DEF Local, Flags
<1>7. Barrier(f)'
  <2>1. asked[f].tag \in Nat
    BY DEF TypeOK
  <2> QED  BY <1>2, <1>3, <2>1 DEF Local, Flags, Barrier, Sent
<1>8. Pledged(f)'
  <2> SUFFICES ASSUME f \in connected, NEW i \in DOMAIN up[f], IsPledge(up[f][i])
               PROVE  /\ Sent(f) /\ f \notin stop_requested
                      /\ tag < up[f][i].tag /\ horizon[f] <= up[f][i].tag
                      /\ \A j \in DOMAIN up[f] : IsPledge(up[f][j]) => i = j
    BY <1>3 DEF Pledged, Sent, rtiVars, IsPledge
  <2>1. up[f][i].tag \in Nat
    BY MessageTags DEF TypeOK
  <2>2. /\ Sent(f) /\ f \notin stop_requested /\ horizon[f] <= up[f][i].tag
        /\ \A j \in DOMAIN up[f] : IsPledge(up[f][j]) => i = j
    BY <1>3 DEF Local, Pledged
  <2>3. requestors[f] = 1
    BY <1>3, <2>2 DEF Local, Granting, Heard
  <2> QED  BY <1>2, <1>3, <2>1, <2>2, <2>3
<1>9. CountedAsStopping(f)'
  <2>1. max_stop_tag \in Nat
    BY DEF TypeOK
  <2> QED  BY <1>2, <1>3, <2>1 DEF Local, CountedAsStopping, Sent, NoRequest, rtiVars
<1>10. Leaving(f)'  BY <1>3 DEF Local, Leaving, rtiVars
<1>11. BeforeRequests(f)'  BY <1>3 DEF Local, BeforeRequests, NoRequest, rtiVars
<1>12. Granting(f)' /\ (Heard(f)' <=> Heard(f))
  BY <1>3 DEF Local, Granting, Sent, Heard, rtiVars
<1>13. Stopping(f)'  BY <1>2, <1>3 DEF Stopping
<1> HIDE DEF IInv, AdvanceTag
<1> QED
  BY <1>3, <1>4, <1>5, <1>6, <1>7, <1>8, <1>9, <1>10, <1>11, <1>12, <1>13, FederateStep
     DEF Local

LEMMA ResignStep ==
  ASSUME IInv, NEW f \in Fed, Resign(f)
  PROVE  IInv'
<1> USE DEF IInv, Resign, Runs, tagVars
<1> DEFINE m == Msg("RESIGN", current_tag[f])
<1>1. /\ Local(f) /\ pc[f] = "ending" /\ current_tag[f] = stop_tag[f]
      /\ current_tag[f] \in Nat /\ up[f] \in Seq(Message) /\ m \in Message
  BY DEF Local, Stopping, TypeOK, Msg, Message
<1>2. /\ pc'[f] = "done" /\ up'[f] = Append(up[f], m)
      /\ UNCHANGED <<lf_stop_requested, received_stop, asking, asked, horizon, requestors,
                     current_tag, stop_tag, down>>
      /\ UNCHANGED rtiVars
  BY <1>1 DEF TypeOK, barrierVars, flagVars
<1>3. TypeOK'
  <2>1. Append(up[f], m) \in Seq(Message)
    BY <1>1, Appended
  <2>2. up' = [up EXCEPT ![f] = Append(up[f], m)]
    BY <1>1
  <2>3. up' \in [Fed -> Seq(Message)]
    <3>1. up \in [Fed -> Seq(Message)]
      BY DEF TypeOK
    <3> HIDE DEF m
    <3> QED  BY <2>1, <2>2, <3>1
  <2> QED  BY <1>1, <2>3 DEF TypeOK, rtiVars, barrierVars, flagVars
<1>4. \A g \in Fed \ {f} : Same(g)
  BY <1>1 DEF TypeOK, Same, SameFlags, SameBarrier, SameTag, barrierVars, flagVars
<1>5. /\ \A i \in DOMAIN up'[f] : \/ i \in DOMAIN up[f] /\ up'[f][i] = up[f][i]
                                  \/ i = Len(up[f]) + 1 /\ up'[f][i] = m
      /\ \A i \in DOMAIN up[f] : i \in DOMAIN up'[f] /\ up'[f][i] = up[f][i]
      /\ DOMAIN up[f] = 1 .. Len(up[f]) /\ Len(up[f]) \in Nat
  BY <1>1, <1>2, Appended
<1>6. m.type = "RESIGN"
  BY DEF Msg
<1> HIDE DEF m
<1>7. Flags(f)'  BY <1>1, <1>2 DEF Local, Flags
<1>8. Barrier(f)'  BY <1>1, <1>2 DEF Local, Barrier, Sent
<1>9. Pledged(f)'
  BY <1>1, <1>2, <1>5, <1>6 DEF Local, Pledged, Sent, IsPledge, rtiVars
<1>10. CountedAsStopping(f)'  BY <1>1, <1>2 DEF Local, CountedAsStopping, Sent, NoRequest, rtiVars
<1>11. Leaving(f)'
  <2>1. f \in connected /\ \A i \in DOMAIN up[f] : up[f][i].type # "RESIGN"
    BY <1>1 DEF Local, Leaving
  <2>2. ASSUME NEW i \in DOMAIN up'[f], up'[f][i].type = "RESIGN"
        PROVE  \A j \in DOMAIN up'[f] : i < j => up'[f][j].type # "REQUEST"
    BY <1>5, <1>6, <2>1, <2>2
  <2>3. asking'[f] = "sent" =>
          f \in stop_requested \/ \E i \in DOMAIN up'[f] : up'[f][i].type = "REQUEST"
    BY <1>1, <1>2, <1>5 DEF Local, Leaving
  <2> QED  BY <1>2, <2>2, <2>3 DEF Leaving, rtiVars
<1>12. BeforeRequests(f)'  BY <1>1, <1>2 DEF Local, BeforeRequests, NoRequest, rtiVars
<1>13. Granting(f)' /\ (Heard(f)' <=> Heard(f))
  BY <1>1, <1>2 DEF Local, Granting, Sent, Heard, rtiVars
<1>14. Stopping(f)'  BY <1>1, <1>2 DEF Local, Stopping
<1> HIDE DEF IInv, Resign
<1> QED
  BY <1>2, <1>3, <1>4, <1>7, <1>8, <1>9, <1>10, <1>11, <1>12, <1>13, <1>14, FederateStep
     DEF Local

LEMMA RtiFailedStep ==
  ASSUME IInv, NEW f \in Fed, handle_rti_failed_message(f)
  PROVE  IInv'
<1> USE DEF IInv, handle_rti_failed_message, tagVars, barrierVars, flagVars
<1>1. TypeOK'
  BY DEF TypeOK, rtiVars
<1>2. /\ Local(f) /\ pc[f] # "done" /\ pc'[f] = "gone"
      /\ UNCHANGED <<lf_stop_requested, received_stop, asking, asked, horizon, requestors,
                     current_tag, stop_tag, up, down>>
      /\ UNCHANGED rtiVars
  BY DEF TypeOK
<1>3. \A g \in Fed \ {f} : Same(g)
  BY DEF TypeOK, Same, SameFlags, SameBarrier, SameTag
<1>4. Flags(f)'  BY <1>2 DEF Local, Flags
<1>5. Barrier(f)'  BY <1>2 DEF Local, Barrier, Sent
<1>6. Pledged(f)'  BY <1>2 DEF Local, Pledged, Sent, IsPledge, rtiVars
<1>7. CountedAsStopping(f)'  BY <1>2 DEF Local, CountedAsStopping, Sent, NoRequest, rtiVars
<1>8. Leaving(f)'  BY <1>2 DEF Local, Leaving, rtiVars
<1>9. BeforeRequests(f)'  BY <1>2 DEF Local, BeforeRequests, NoRequest, rtiVars
<1>10. Granting(f)' /\ (Heard(f)' <=> Heard(f))
  BY <1>2 DEF Local, Granting, Sent, Heard, rtiVars
<1>11. Stopping(f)'  BY <1>2 DEF Local, Stopping
<1> HIDE DEF IInv, handle_rti_failed_message
<1> QED
  BY <1>1, <1>2, <1>3, <1>4, <1>5, <1>6, <1>7, <1>8, <1>9, <1>10, <1>11, FederateStep DEF Local

LEMMA BlockForStopStep ==
  ASSUME IInv, NEW f \in Fed, BlockForStop(f)
  PROVE  IInv'
<1> USE DEF IInv, BlockForStop, tagVars
<1> DEFINE tag == CounterOffer(f, asked[f].tag)
<1>1. /\ Local(f) /\ asked[f].step = "heard" /\ received_stop[f]
      /\ current_tag[f] \in Nat /\ stop_tag[f] \in Nat /\ horizon[f] \in Nat
      /\ asked[f].tag \in Nat /\ current_tag[f] <= stop_tag[f]
  BY DEF Local, Flags, Stopping, TypeOK
<1>2. asking[f] \notin {"flagged", "raised"} /\ requestors[f] = 0
  BY <1>1 DEF Local, Flags, Barrier, Sent
<1>3. tag \in Nat /\ current_tag[f] < tag
  BY <1>1 DEF CounterOffer
<1> HIDE DEF tag
<1>4. Raised(f, tag) \in Nat /\ Raised(f, tag) <= tag
  BY <1>1, <1>3 DEF Raised, Minimum
<1>5. /\ horizon' = [horizon EXCEPT ![f] = Raised(f, tag)]
      /\ requestors' = [requestors EXCEPT ![f] = requestors[f] + 1]
      /\ asked' = [asked EXCEPT ![f] = [step |-> "blocked", tag |-> tag]]
      /\ UNCHANGED <<lf_stop_requested, received_stop, asking, pc, current_tag, next_tag,
                     signalled, stop_tag, up, down>>
      /\ UNCHANGED rtiVars
  BY DEF increment_tag_barrier, tag
<1>6. /\ horizon'[f] = Raised(f, tag) /\ requestors'[f] = 1
      /\ asked'[f].step = "blocked" /\ asked'[f].tag = tag
  BY <1>2, <1>5 DEF TypeOK
<1> HIDE DEF BlockForStop
<1>7. TypeOK'
  BY <1>2, <1>3, <1>4, <1>5 DEF TypeOK, rtiVars
<1>8. \A g \in Fed \ {f} : Same(g)
  BY <1>5 DEF TypeOK, Same, SameFlags, SameBarrier, SameTag
<1>9. Flags(f)'  BY <1>1, <1>2, <1>5, <1>6 DEF Local, Flags
<1>10. Barrier(f)'  BY <1>2, <1>3, <1>4, <1>5, <1>6 DEF Barrier
<1>11. Pledged(f)'  BY <1>1, <1>5, <1>6 DEF Local, Pledged, Sent, IsPledge, rtiVars
<1>12. CountedAsStopping(f)'
  BY <1>1, <1>5, <1>6 DEF Local, CountedAsStopping, Sent, NoRequest, rtiVars
<1>13. Leaving(f)'  BY <1>1, <1>5, <1>6 DEF Local, Leaving, rtiVars
<1>14. BeforeRequests(f)'  BY <1>1, <1>5 DEF Local, BeforeRequests, NoRequest, rtiVars
<1>15. Granting(f)' /\ (Heard(f)' <=> Heard(f))
  BY <1>1, <1>5, <1>6 DEF Local, Granting, Sent, Heard, rtiVars
<1>16. Stopping(f)'  BY <1>1, <1>5 DEF Local, Stopping
<1> HIDE DEF IInv
<1> QED
  BY <1>5, <1>7, <1>8, <1>9, <1>10, <1>11, <1>12, <1>13, <1>14, <1>15, <1>16, FederateStep
     DEF Local

LEMMA ReplyToStopStep ==
  ASSUME IInv, NEW f \in Fed, ReplyToStop(f)
  PROVE  IInv'
<1> USE DEF IInv, ReplyToStop, tagVars
<1> DEFINE m == Msg("REPLY", asked[f].tag)
<1>1. /\ Local(f) /\ asked[f].step = "blocked" /\ received_stop[f]
      /\ requestors[f] = 1 /\ current_tag[f] < asked[f].tag /\ horizon[f] <= asked[f].tag
      /\ up[f] \in Seq(Message) /\ m \in Message
  BY DEF Local, Flags, Barrier, TypeOK, Msg, Message
<1>2. /\ up' = [up EXCEPT ![f] = Append(up[f], m)]
      /\ asked' = [asked EXCEPT ![f] = [step |-> "none", tag |-> 0]]
      /\ UNCHANGED <<lf_stop_requested, received_stop, asking, horizon, requestors, pc,
                     current_tag, next_tag, signalled, stop_tag, down>>
      /\ UNCHANGED rtiVars
  BY DEF barrierVars
<1>3. up'[f] = Append(up[f], m) /\ asked'[f].step = "none"
  BY <1>2 DEF TypeOK
<1>4. m.type = "REPLY" /\ m.tag = asked[f].tag
  BY DEF Msg
<1>5. /\ \A i \in DOMAIN up'[f] : \/ i \in DOMAIN up[f] /\ up'[f][i] = up[f][i]
                                  \/ i = Len(up[f]) + 1 /\ up'[f][i] = m
      /\ \A i \in DOMAIN up[f] : i \in DOMAIN up'[f] /\ up'[f][i] = up[f][i]
  BY <1>1, <1>3, Appended
<1>6. TypeOK'
  <2>1. Append(up[f], m) \in Seq(Message)
    BY <1>1, Appended
  <2>2. up' \in [Fed -> Seq(Message)]
    <3>1. up \in [Fed -> Seq(Message)]
      BY DEF TypeOK
    <3> HIDE DEF m
    <3> QED  BY <1>2, <2>1, <3>1
  <2> HIDE DEF ReplyToStop, m
  <2> QED  BY <1>2, <2>2 DEF TypeOK, rtiVars
<1> HIDE DEF m, ReplyToStop
<1>7. \A g \in Fed \ {f} : Same(g)
  BY <1>2 DEF TypeOK, Same, SameFlags, SameBarrier, SameTag
<1>8. ~Sent(f) /\ Sent(f)' /\ ~Heard(f) /\ ~Heard(f)'
  BY <1>1, <1>2, <1>3 DEF Sent, Heard
<1>9. f \notin stop_requested
  BY <1>1, <1>8 DEF Local, CountedAsStopping
<1>10. Flags(f)'  BY <1>1, <1>2, <1>3 DEF Local, Flags
<1>11. Barrier(f)'  BY <1>1, <1>2, <1>3, <1>8 DEF Local, Flags, Barrier
<1>12. Pledged(f)'
  <2>1. f \in connected => \A i \in DOMAIN up[f] : ~IsPledge(up[f][i])
    BY <1>1, <1>8 DEF Local, Pledged
  <2> QED
    BY <1>1, <1>2, <1>4, <1>5, <1>8, <1>9, <2>1 DEF Pledged, IsPledge, rtiVars
<1>13. CountedAsStopping(f)'  BY <1>2, <1>9 DEF CountedAsStopping, rtiVars
<1>14. Leaving(f)'
  <2>1. DOMAIN up[f] = 1 .. Len(up[f]) /\ Len(up[f]) \in Nat
    BY <1>1, Appended
  <2>2. ASSUME NEW i \in DOMAIN up'[f], up'[f][i].type = "RESIGN"
        PROVE  pc[f] = "done" /\ \A j \in DOMAIN up'[f] : i < j => up'[f][j].type # "REQUEST"
    BY <1>1, <1>4, <1>5, <2>2 DEF Local, Leaving
  <2>3. asking[f] = "sent" =>
          f \in stop_requested \/ \E i \in DOMAIN up'[f] : up'[f][i].type = "REQUEST"
    BY <1>1, <1>5 DEF Local, Leaving
  <2> QED  BY <1>1, <1>2, <2>2, <2>3 DEF Local, Leaving, rtiVars
<1>15. BeforeRequests(f)'  BY <1>1, <1>2 DEF Local, BeforeRequests, NoRequest, rtiVars
<1>16. Granting(f)' /\ (Heard(f)' <=> Heard(f))
  BY <1>1, <1>2, <1>8 DEF Local, Granting, rtiVars
<1>17. Stopping(f)'  BY <1>1, <1>2 DEF Local, Stopping
<1> HIDE DEF IInv
<1> QED
  BY <1>2, <1>6, <1>7, <1>10, <1>11, <1>12, <1>13, <1>14, <1>15, <1>16, <1>17, FederateStep
     DEF Local

\* What is left when f has taken a message.
LEMMA HeadHeard ==
  ASSUME TypeOK, NEW f \in Fed, NEW type, Hear(f, type)
  PROVE  /\ down' \in [Fed -> Seq(Message)]
         /\ down'[f] = Tail(down[f])
         /\ \A g \in Fed \ {f} : down'[g] = down[g]
         /\ 1 \in DOMAIN down[f] /\ Head(down[f]) = down[f][1]
         /\ Head(down[f]) \in Message /\ Head(down[f]).type = type
         /\ DOMAIN down'[f] \subseteq Nat \ {0}
         /\ \A i \in DOMAIN down'[f] : i + 1 \in DOMAIN down[f] /\ down'[f][i] = down[f][i + 1]
<1> USE DEF Hear
<1>1. down \in [Fed -> Seq(Message)] /\ down[f] \in Seq(Message) /\ down[f] # <<>>
  BY DEF TypeOK
<1>2. Tail(down[f]) \in Seq(Message)
  BY <1>1, Taken
<1>3. down' = [down EXCEPT ![f] = Tail(down[f])]
  OBVIOUS
<1>4. down' \in [Fed -> Seq(Message)] /\ down'[f] = Tail(down[f])
      /\ \A g \in Fed \ {f} : down'[g] = down[g]
  BY <1>1, <1>2, <1>3
<1> QED  BY <1>1, <1>4, Taken

LEMMA HearStopRequestStep ==
  ASSUME IInv, NEW f \in Fed, HearStopRequest(f)
  PROVE  IInv'
<1> DEFINE h == Head(down[f])
<1>0. TypeOK /\ Local(f) /\ Hear(f, "REQUEST")
  BY DEF IInv, HearStopRequest
<1>1. /\ down' \in [Fed -> Seq(Message)]
      /\ \A g \in Fed \ {f} : down'[g] = down[g]
      /\ 1 \in DOMAIN down[f] /\ h = down[f][1]
      /\ h \in Message /\ h.type = "REQUEST"
      /\ DOMAIN down'[f] \subseteq Nat \ {0}
      /\ \A i \in DOMAIN down'[f] : i + 1 \in DOMAIN down[f] /\ down'[f][i] = down[f][i + 1]
  BY <1>0, HeadHeard
<1> HIDE DEF h
<1>2. /\ asked[f].step = "none" /\ UNCHANGED rtiVars
      /\ UNCHANGED <<asking, horizon, requestors, pc, current_tag, next_tag, signalled,
                     stop_tag, up>>
  BY <1>0 DEF Hear, HearStopRequest, barrierVars
<1>3. stop_in_progress /\ ~NoRequest(f)
  BY <1>0, <1>1 DEF Local, BeforeRequests, NoRequest
<1>4. BeforeRequests(f)'  BY <1>2, <1>3 DEF BeforeRequests, rtiVars
<1>5. Stopping(f)'  BY <1>0, <1>2 DEF Local, Stopping
<1>6. Leaving(f)'  BY <1>0, <1>2 DEF Local, Leaving, rtiVars
<1>7. NoRequest(f) => NoRequest(f)'
  BY <1>3
<1>8. CASE lf_stop_requested[f]
  <2>1. UNCHANGED <<lf_stop_requested, received_stop, asked>>
    BY <1>8 DEF HearStopRequest, AlreadyBlocked
  <2>2. TypeOK'
    BY <1>0, <1>1, <1>2, <2>1 DEF TypeOK, rtiVars
  <2>3. \A g \in Fed \ {f} : Same(g)
    BY <1>1, <1>2, <2>1 DEF Same, SameFlags, SameBarrier, SameTag
  <2>4. Flags(f)'  BY <1>0, <1>2, <2>1 DEF Local, Flags
  <2>5. Barrier(f)'  BY <1>0, <1>2, <2>1 DEF Local, Barrier, Sent
  <2>6. Pledged(f)'  BY <1>0, <1>2, <2>1 DEF Local, Pledged, Sent, IsPledge, rtiVars
  <2>7. CountedAsStopping(f)'
    BY <1>0, <1>2, <1>3, <2>1 DEF Local, CountedAsStopping, Sent, rtiVars
  <2>8. Granting(f)' /\ (Heard(f)' <=> Heard(f))
    BY <1>0, <1>1, <1>2, <2>1 DEF Local, Granting, Sent, Heard, rtiVars
  <2> QED
    BY <1>2, <1>4, <1>5, <1>6, <2>2, <2>3, <2>4, <2>5, <2>6, <2>7, <2>8, FederateStep DEF Local
<1>9. CASE ~lf_stop_requested[f]
  <2>1. /\ lf_stop_requested' = [lf_stop_requested EXCEPT ![f] = TRUE]
        /\ received_stop' = [received_stop EXCEPT ![f] = TRUE]
        /\ asked' = [asked EXCEPT ![f] = [step |-> "heard", tag |-> h.tag]]
    BY <1>9 DEF HearStopRequest, AlreadyBlocked, h
  <2>2. /\ lf_stop_requested'[f] = TRUE /\ received_stop'[f] = TRUE /\ asked'[f].step = "heard"
        /\ h.tag \in Nat
    BY <1>0, <1>1, <2>1 DEF TypeOK, Message
  <2>3. TypeOK'
    BY <1>0, <1>1, <1>2, <2>1, <2>2 DEF TypeOK, rtiVars
  <2>4. \A g \in Fed \ {f} : Same(g)
    BY <1>0, <1>1, <1>2, <2>1 DEF TypeOK, Same, SameFlags, SameBarrier, SameTag
  <2>5. asking[f] = "none" /\ ~received_stop[f] /\ requestors[f] = 0
    BY <1>0, <1>2, <1>9 DEF Local, Flags, Barrier, Sent
  <2>6. f \notin stop_requested
    BY <1>0, <1>3, <2>5 DEF Local, CountedAsStopping
  <2>7. ~Sent(f) /\ ~Sent(f)' /\ ~Heard(f) /\ ~Heard(f)'
    BY <2>2, <2>5 DEF Sent, Heard
  <2>8. Flags(f)'  BY <1>2, <2>2, <2>5 DEF Flags
  <2>9. Barrier(f)'  BY <1>2, <2>2, <2>5 DEF Barrier
  <2>10. Pledged(f)'  BY <1>0, <1>2, <2>7 DEF Local, Pledged, IsPledge, rtiVars
  <2>11. CountedAsStopping(f)'  BY <1>2, <2>6 DEF CountedAsStopping, rtiVars
  <2>12. Granting(f)' /\ (Heard(f)' <=> Heard(f))
    BY <1>0, <1>1, <1>2, <2>7 DEF Local, Granting, rtiVars
  <2> QED
    BY <1>2, <1>4, <1>5, <1>6, <2>3, <2>4, <2>8, <2>9, <2>10, <2>11, <2>12, FederateStep
       DEF Local
<1> QED  BY <1>8, <1>9

\* The granted tag is the maximum, which is ahead of f.
LEMMA StopGrantedStep ==
  ASSUME IInv, NEW f \in Fed, handle_stop_granted_message(f)
  PROVE  IInv'
<1> DEFINE h == Head(down[f])
<1>0. TypeOK /\ Local(f) /\ Hear(f, "GRANTED")
  BY DEF IInv, handle_stop_granted_message
<1>1. /\ down' \in [Fed -> Seq(Message)]
      /\ \A g \in Fed \ {f} : down'[g] = down[g]
      /\ 1 \in DOMAIN down[f] /\ h = down[f][1]
      /\ h \in Message /\ h.type = "GRANTED"
      /\ DOMAIN down'[f] \subseteq Nat \ {0}
      /\ \A i \in DOMAIN down'[f] : i + 1 \in DOMAIN down[f] /\ down'[f][i] = down[f][i + 1]
  BY <1>0, HeadHeard
<1> HIDE DEF h
<1>2. /\ stop_granted /\ h.tag = max_stop_tag /\ Sent(f) /\ requestors[f] = 1
      /\ \A j \in DOMAIN down[f] : down[f][j].type = "GRANTED" => j = 1
  BY <1>0, <1>1 DEF Local, Granting
<1>3. f \in stop_requested /\ received_stop[f] /\ asked[f].step = "none"
  BY <1>0, <1>2 DEF Local, Granting, Sent
<1>4. /\ current_tag[f] \in Nat /\ stop_tag[f] \in Nat /\ max_stop_tag \in Nat
      /\ current_tag[f] < max_stop_tag
  BY <1>0, <1>2, <1>3 DEF Local, CountedAsStopping, TypeOK
<1>5. CounterOffer(f, h.tag) = max_stop_tag
  BY <1>2, <1>4 DEF CounterOffer
<1>6. /\ stop_tag' = [stop_tag EXCEPT ![f] = Minimum(stop_tag[f], max_stop_tag)]
      /\ requestors' = [requestors EXCEPT ![f] = requestors[f] - 1]
      /\ horizon' = [horizon EXCEPT ![f] = FOREVER]
      /\ signalled' = [signalled EXCEPT ![f] = (pc[f] = "wait")]
      /\ UNCHANGED <<lf_stop_requested, received_stop, asking, asked, pc, current_tag,
                     next_tag, up>>
      /\ UNCHANGED rtiVars
  <2>1. /\ lf_set_stop_tag(f, CounterOffer(f, h.tag)) /\ decrement_tag_barrier(f)
        /\ signalled' = [signalled EXCEPT ![f] = (pc[f] = "wait")]
        /\ UNCHANGED flagVars
    BY <1>2 DEF handle_stop_granted_message, Broadcasted, h
  <2>2. /\ requestors' = [requestors EXCEPT ![f] = requestors[f] - 1]
        /\ horizon' = [horizon EXCEPT ![f] = FOREVER]
    BY <1>2, <2>1 DEF decrement_tag_barrier
  <2>3. stop_tag' = [stop_tag EXCEPT ![f] = Minimum(stop_tag[f], max_stop_tag)]
    BY <1>5, <2>1 DEF lf_set_stop_tag
  <2>4. UNCHANGED <<pc, current_tag, next_tag, up>> /\ UNCHANGED rtiVars
    BY <1>0 DEF Hear
  <2> QED  BY <2>1, <2>2, <2>3, <2>4 DEF flagVars
<1>7. /\ stop_tag'[f] = Minimum(stop_tag[f], max_stop_tag) /\ requestors'[f] = 0
      /\ Minimum(stop_tag[f], max_stop_tag) \in Nat
  BY <1>0, <1>2, <1>4, <1>6 DEF TypeOK, Minimum
<1>8. TypeOK'
  BY <1>0, <1>1, <1>2, <1>6, <1>7, StopAssumption, SMTT(30) DEF TypeOK, rtiVars
<1>9. Heard(f)' /\ ~Heard(f) /\ Sent(f)'
  BY <1>2, <1>6, <1>7 DEF Heard, Sent
<1>10. Local(f)'
  <2>1. Flags(f)'  BY <1>0, <1>6 DEF Local, Flags
  <2>2. Barrier(f)'  BY <1>0, <1>3, <1>6, <1>7 DEF Local, Flags, Barrier
  <2>3. Pledged(f)'  BY <1>0, <1>3, <1>6 DEF Local, Pledged, IsPledge, rtiVars
  <2>4. CountedAsStopping(f)'  BY <1>3, <1>6, <1>7, <1>9 DEF CountedAsStopping, rtiVars
  <2>5. Leaving(f)'  BY <1>0, <1>6 DEF Local, Leaving, rtiVars
  <2>6. BeforeRequests(f)'  BY <1>0, <1>1, <1>6 DEF Local, BeforeRequests, NoRequest, rtiVars
  <2>7. Granting(f)'
    <3>1. \A i \in DOMAIN down'[f] : down'[f][i].type # "GRANTED"
      BY <1>1, <1>2
    <3> QED  BY <1>2, <1>3, <1>6, <3>1 DEF Granting, rtiVars
  <2>8. Stopping(f)'  BY <1>0, <1>4, <1>6, <1>7 DEF Local, Stopping, Minimum
  <2> QED  BY <2>1, <2>2, <2>3, <2>4, <2>5, <2>6, <2>7, <2>8 DEF Local
<1>11. ASSUME NEW g \in Fed \ {f}
       PROVE  Local(g)' /\ (Heard(g)' <=> Heard(g)) /\ stop_tag'[g] = stop_tag[g]
  <2>1. Same(g)
    BY <1>0, <1>1, <1>6 DEF TypeOK, Same, SameFlags, SameBarrier, SameTag
  <2> QED  BY <1>6, <2>1, LocalFrame DEF IInv, Same, SameTag
<1>12. StopTags'
  <2>1. PICK t \in Timeouts :
          \A g \in Fed : stop_tag[g] = IF Heard(g) THEN Minimum(t, max_stop_tag) ELSE t
    BY DEF IInv, StopTags
  <2>2. max_stop_tag' = max_stop_tag
    BY <1>6 DEF rtiVars
  <2>3. stop_tag'[f] = Minimum(t, max_stop_tag)
    BY <1>7, <1>9, <2>1
  <2>4. \A g \in Fed :
          stop_tag'[g] = IF Heard(g)' THEN Minimum(t, max_stop_tag') ELSE t
    BY <1>9, <1>11, <2>1, <2>2, <2>3
  <2> QED  BY <2>4 DEF StopTags
<1> QED  BY <1>8, <1>10, <1>11, <1>12 DEF IInv

-----------------------------------------------------------------------------
(* Steps of the RTI                                                        *)

\* What the RTI leaves alone, and what is left when it has taken a message.
LEMMA HeadReceived ==
  ASSUME TypeOK, NEW f \in Fed, NEW type, Receive(f, type)
  PROVE  /\ up' \in [Fed -> Seq(Message)]
         /\ \A g \in Fed \ {f} : up'[g] = up[g]
         /\ 1 \in DOMAIN up[f] /\ Head(up[f]) = up[f][1]
         /\ Head(up[f]) \in Message /\ Head(up[f]).type = type /\ f \in connected
         /\ DOMAIN up'[f] \subseteq Nat \ {0}
         /\ \A i \in DOMAIN up'[f] : i + 1 \in DOMAIN up[f] /\ up'[f][i] = up[f][i + 1]
         /\ \A i \in DOMAIN up[f] : i # 1 => i - 1 \in DOMAIN up'[f] /\ up'[f][i - 1] = up[f][i]
         /\ DOMAIN up[f] \subseteq Nat \ {0}
         /\ UNCHANGED <<pc, current_tag, next_tag, signalled, stop_tag, horizon, requestors,
                        lf_stop_requested, received_stop, asking, asked>>
<1> USE DEF Receive
<1>1. up \in [Fed -> Seq(Message)] /\ up[f] \in Seq(Message) /\ up[f] # <<>>
  BY DEF TypeOK
<1>2. Tail(up[f]) \in Seq(Message)
  BY <1>1, Taken
<1>3. up' = [up EXCEPT ![f] = Tail(up[f])]
  OBVIOUS
<1>4. /\ up' \in [Fed -> Seq(Message)] /\ up'[f] = Tail(up[f])
      /\ \A g \in Fed \ {f} : up'[g] = up[g]
  BY <1>1, <1>2, <1>3
<1>5. /\ 1 \in DOMAIN up[f] /\ Head(up[f]) = up[f][1] /\ Head(up[f]) \in Message
      /\ DOMAIN up'[f] \subseteq Nat \ {0} /\ DOMAIN up[f] \subseteq Nat \ {0}
      /\ \A i \in DOMAIN up'[f] : i + 1 \in DOMAIN up[f] /\ up'[f][i] = up[f][i + 1]
      /\ \A i \in DOMAIN up[f] : i # 1 => i - 1 \in DOMAIN up'[f] /\ up'[f][i - 1] = up[f][i]
  BY <1>1, <1>4, Taken
<1> QED  BY <1>4, <1>5 DEF tagVars, barrierVars, flagVars

\* What a step of the RTI leaves alone in a federate.
LEMMA ServeKeeps ==
  ASSUME NEW g \in Fed, Local(g),
         UNCHANGED <<pc, current_tag, stop_tag, horizon, requestors,
                     lf_stop_requested, received_stop, asking, asked>>
  PROVE  /\ Flags(g)' /\ Barrier(g)' /\ Stopping(g)'
         /\ (Sent(g)' <=> Sent(g)) /\ (Heard(g)' <=> Heard(g))
<1>1. (Sent(g)' <=> Sent(g)) /\ (Heard(g)' <=> Heard(g))
  BY DEF Sent, Heard
<1>2. Flags(g)'  BY DEF Local, Flags
<1>3. Barrier(g)'  BY <1>1 DEF Local, Barrier
<1>4. Stopping(g)'  BY DEF Local, Stopping
<1> QED  BY <1>1, <1>2, <1>3, <1>4

LEMMA FederateGoneStep ==
  ASSUME IInv, NEW f \in Fed, handle_federate_gone(f)
  PROVE  IInv'
<1>0. TypeOK /\ Receive(f, "RESIGN") /\ Local(f)
  BY DEF IInv, handle_federate_gone
<1>1. /\ up' \in [Fed -> Seq(Message)]
      /\ \A g \in Fed \ {f} : up'[g] = up[g]
      /\ 1 \in DOMAIN up[f] /\ up[f][1].type = "RESIGN" /\ f \in connected
      /\ DOMAIN up'[f] \subseteq Nat \ {0} /\ DOMAIN up[f] \subseteq Nat \ {0}
      /\ \A i \in DOMAIN up'[f] : i + 1 \in DOMAIN up[f] /\ up'[f][i] = up[f][i + 1]
      /\ \A i \in DOMAIN up[f] : i # 1 => i - 1 \in DOMAIN up'[f] /\ up'[f][i - 1] = up[f][i]
      /\ UNCHANGED <<pc, current_tag, next_tag, signalled, stop_tag, horizon, requestors,
                     lf_stop_requested, received_stop, asking, asked>>
  BY <1>0, HeadReceived
<1>2. /\ connected' = connected \ {f}
      /\ UNCHANGED <<stop_requested, max_stop_tag, stop_in_progress, stop_granted, exited, down>>
  BY DEF handle_federate_gone
<1>3. TypeOK'
  BY <1>0, <1>1, <1>2 DEF TypeOK
<1>4. pc[f] = "done" /\ \A j \in DOMAIN up[f] : up[f][j].type # "REQUEST"
  BY <1>0, <1>1 DEF Local, Leaving
<1>5. asking[f] = "sent" => f \in stop_requested
  BY <1>0, <1>4 DEF Local, Leaving
<1>6. ASSUME NEW g \in Fed
      PROVE  Local(g)' /\ (Heard(g)' <=> Heard(g))
  <2>0. Local(g)
    BY DEF IInv
  <2>1. /\ Flags(g)' /\ Barrier(g)' /\ Stopping(g)'
        /\ (Sent(g)' <=> Sent(g)) /\ (Heard(g)' <=> Heard(g))
    BY <1>1, <2>0, ServeKeeps
  <2>2. Pledged(g)'
    BY <1>1, <1>2, <2>0, <2>1 DEF Local, Pledged, IsPledge
  <2>3. CountedAsStopping(g)'
    BY <1>1, <1>2, <2>0, <2>1 DEF Local, CountedAsStopping, NoRequest
  <2>4. Leaving(g)'
    <3>1. CASE g = f
      <4>1. \A i \in DOMAIN up'[f] : up'[f][i].type # "REQUEST"
        BY <1>1, <1>4
      <4> QED  BY <1>1, <1>2, <1>4, <1>5, <3>1, <4>1 DEF Leaving
    <3>2. CASE g # f
      BY <1>1, <1>2, <2>0, <3>2 DEF Local, Leaving
    <3> QED  BY <3>1, <3>2
  <2>5. BeforeRequests(g)'
    BY <1>1, <1>2, <1>5, <2>0 DEF Local, BeforeRequests, NoRequest
  <2>6. Granting(g)'
    BY <1>1, <1>2, <2>0, <2>1 DEF Local, Granting
  <2> QED  BY <2>1, <2>2, <2>3, <2>4, <2>5, <2>6 DEF Local
<1>7. StopTags'
  BY <1>1, <1>2, <1>6 DEF IInv, StopTags
<1> QED  BY <1>3, <1>6, <1>7 DEF IInv

LEMMA GiveUpStep ==
  ASSUME IInv, GiveUp
  PROVE  IInv'
<1>1. UNCHANGED <<connected, stop_requested, max_stop_tag, stop_in_progress, stop_granted, pc,
                  current_tag, next_tag, signalled, stop_tag, horizon, requestors,
                  lf_stop_requested, received_stop, asking, asked, up, down>>
      /\ exited' = TRUE
  BY DEF GiveUp, tagVars, barrierVars, flagVars
<1>2. TypeOK'
  BY <1>1 DEF IInv, TypeOK
<1>3. ASSUME NEW g \in Fed
      PROVE  Local(g)' /\ (Heard(g)' <=> Heard(g))
  <2>0. Local(g)
    BY DEF IInv
  <2>1. /\ Flags(g)' /\ Barrier(g)' /\ Stopping(g)'
        /\ (Sent(g)' <=> Sent(g)) /\ (Heard(g)' <=> Heard(g))
    BY <1>1, <2>0, ServeKeeps
  <2>2. Pledged(g)'  BY <1>1, <2>0, <2>1 DEF Local, Pledged, IsPledge
  <2>3. CountedAsStopping(g)'  BY <1>1, <2>0, <2>1 DEF Local, CountedAsStopping, NoRequest
  <2>4. Leaving(g)'  BY <1>1, <2>0 DEF Local, Leaving
  <2>5. BeforeRequests(g)'  BY <1>1, <2>0 DEF Local, BeforeRequests, NoRequest
  <2>6. Granting(g)'  BY <1>1, <2>0, <2>1 DEF Local, Granting
  <2> QED  BY <2>1, <2>2, <2>3, <2>4, <2>5, <2>6 DEF Local
<1>4. StopTags'
  BY <1>1, <1>3 DEF IInv, StopTags
<1> QED  BY <1>2, <1>3, <1>4 DEF IInv

\* A federate tells its tag: it is counted, with those that had left when the
\* requests are sent, and the stop is granted when all are.
LEMMA MarkStep ==
  ASSUME IInv, NEW f \in Fed, NEW type \in {"REQUEST", "REPLY"}, Receive(f, type),
         NEW S, S \subseteq Fed, stop_requested \cup {f} \subseteq S,
         NEW requests \in [Fed -> Seq(Message)],
         Mark(S, Maximum(max_stop_tag, Head(up[f]).tag), requests),
         UNCHANGED <<connected, exited>>,
         stop_in_progress' \in BOOLEAN, stop_in_progress => stop_in_progress',
         \A g \in S \ (stop_requested \cup {f}) :
           g \notin connected /\ ~stop_in_progress /\ stop_in_progress',
         \A g \in Fed : requests[g] # down[g] =>
           /\ g \in connected /\ ~stop_in_progress /\ stop_in_progress'
           /\ requests[g] = Append(down[g], Msg("REQUEST",
                                     Maximum(max_stop_tag, Head(up[f]).tag)))
  PROVE  IInv'
<1> DEFINE h == Head(up[f])
           max == Maximum(max_stop_tag, h.tag)
           grant == Msg("GRANTED", max)
<1>0. TypeOK /\ Local(f)
  BY DEF IInv
<1>1. /\ up' \in [Fed -> Seq(Message)]
      /\ \A g \in Fed \ {f} : up'[g] = up[g]
      /\ 1 \in DOMAIN up[f] /\ h = up[f][1] /\ h \in Message /\ IsPledge(h) /\ f \in connected
      /\ DOMAIN up'[f] \subseteq Nat \ {0} /\ DOMAIN up[f] \subseteq Nat \ {0}
      /\ \A i \in DOMAIN up'[f] : i + 1 \in DOMAIN up[f] /\ up'[f][i] = up[f][i + 1]
      /\ \A i \in DOMAIN up[f] : i # 1 => i - 1 \in DOMAIN up'[f] /\ up'[f][i - 1] = up[f][i]
      /\ UNCHANGED <<pc, current_tag, next_tag, signalled, stop_tag, horizon, requestors,
                     lf_stop_requested, received_stop, asking, asked>>
  BY <1>0, HeadReceived DEF IsPledge
<1>2. /\ Sent(f) /\ f \notin stop_requested
      /\ current_tag[f] < h.tag /\ horizon[f] <= h.tag
      /\ \A j \in DOMAIN up[f] : IsPledge(up[f][j]) => j = 1
  BY <1>0, <1>1 DEF Local, Pledged
<1>3. /\ max \in Nat /\ max_stop_tag \in Nat /\ h.tag \in Nat
      /\ max_stop_tag <= max /\ h.tag <= max
  BY <1>0, <1>1 DEF TypeOK, Message, Maximum
<1>4. /\ stop_requested' = S /\ max_stop_tag' = max
      /\ stop_granted' = (stop_granted \/ S = Fed)
      /\ down' = [g \in Fed |-> IF g \in connected /\ S = Fed /\ ~stop_granted
                                THEN Append(requests[g], grant) ELSE requests[g]]
  BY DEF Mark, AllHandleStop, Broadcast
<1>5. grant \in Message /\ grant.type = "GRANTED" /\ grant.tag = max
  BY <1>3 DEF Msg, Message
<1> HIDE DEF h, max, grant
<1>6. ~stop_granted
  BY <1>0, <1>2 DEF Local, Granting
<1>7. \A g \in Fed : ~Heard(g) /\ \A i \in DOMAIN down[g] : down[g][i].type # "GRANTED"
  BY <1>6 DEF IInv, Local, Granting
<1>8. TypeOK'
  <2>1. down' \in [Fed -> Seq(Message)]
    <3>1. \A g \in Fed : Append(requests[g], grant) \in Seq(Message)
      BY <1>5, Appended
    <3> QED  BY <1>4, <3>1
  <2> QED  BY <1>0, <1>1, <1>3, <1>4, <2>1 DEF TypeOK
<1>9. ASSUME NEW g \in Fed
      PROVE  Local(g)' /\ ~Heard(g)'
  <2>0. Local(g) /\ down[g] \in Seq(Message) /\ requests[g] \in Seq(Message)
    BY <1>0 DEF IInv, TypeOK
  <2>1. /\ Flags(g)' /\ Barrier(g)' /\ Stopping(g)'
        /\ (Sent(g)' <=> Sent(g)) /\ (Heard(g)' <=> Heard(g))
    BY <1>1, <2>0, ServeKeeps
  <2>2. \A i \in DOMAIN requests[g] :
          \/ i \in DOMAIN down[g] /\ requests[g][i] = down[g][i]
          \/ requests[g] # down[g] /\ requests[g][i].type = "REQUEST"
    <3>1. CASE requests[g] = down[g]
      BY <3>1
    <3>2. CASE requests[g] # down[g]
      <4> DEFINE ask == Msg("REQUEST", max)
      <4>1. requests[g] = Append(down[g], ask)
        BY <3>2 DEF max, h
      <4>2. ask \in Message /\ ask.type = "REQUEST"
        BY <1>3 DEF Msg, Message
      <4> HIDE DEF ask
      <4> QED  BY <2>0, <3>2, <4>1, <4>2, Appended
    <3> QED  BY <3>1, <3>2
  <2>3. ASSUME NEW i \in DOMAIN down'[g]
        PROVE  \/ i \in DOMAIN requests[g] /\ down'[g][i] = requests[g][i]
               \/ /\ g \in connected /\ S = Fed
                  /\ i = Len(requests[g]) + 1 /\ down'[g][i] = grant
    <3>1. CASE down'[g] = requests[g]
      BY <3>1
    <3>2. CASE g \in connected /\ S = Fed /\ down'[g] = Append(requests[g], grant)
      BY <1>5, <2>0, <3>2, Appended
    <3> QED  BY <1>4, <3>1, <3>2
  <2>4. requests[g] = down[g] /\ NoRequest(g) => NoRequest(g)'
    BY <1>5, <2>3 DEF NoRequest
  <2>5. Pledged(g)'
    <3>1. CASE g = f
      <4>1. ASSUME NEW i \in DOMAIN up'[f] PROVE ~IsPledge(up'[f][i])
        <5>1. i \in Nat \ {0} /\ i + 1 \in DOMAIN up[f] /\ up'[f][i] = up[f][i + 1]
          BY <1>1
        <5>2. ~IsPledge(up[f][i + 1])
          BY <1>2, <5>1
        <5> QED  BY <5>1, <5>2
      <4> QED  BY <3>1, <4>1 DEF Pledged, IsPledge
    <3>2. CASE g # f
      BY <1>1, <1>4, <2>0, <2>1, <3>2 DEF Local, Pledged, IsPledge
    <3> QED  BY <3>1, <3>2
  <2>6. CountedAsStopping(g)'
    <3>1. CASE g = f
      <4>1. requestors[f] = 1 => current_tag[f] < max /\ horizon[f] <= max
        <5>1. current_tag[f] \in Nat /\ horizon[f] \in Nat
          BY <1>0 DEF TypeOK
        <5> QED  BY <1>2, <1>3, <5>1
      <4> QED  BY <1>1, <1>2, <1>4, <2>1, <3>1, <4>1 DEF CountedAsStopping, Sent
    <3>2. CASE g \in stop_requested
      <4>1. current_tag[g] \in Nat /\ horizon[g] \in Nat
        BY <1>0 DEF TypeOK
      <4>2. received_stop[g] =>
              Sent(g) /\ (requestors[g] = 1 => current_tag[g] < max /\ horizon[g] <= max)
        BY <1>3, <2>0, <3>2, <4>1 DEF Local, CountedAsStopping
      <4>3. ~received_stop[g] => g \notin connected /\ stop_in_progress' /\ NoRequest(g)'
        BY <2>0, <2>4, <3>2 DEF Local, CountedAsStopping
      <4> QED  BY <1>1, <1>4, <2>1, <4>2, <4>3 DEF CountedAsStopping
    <3>3. CASE g \in S /\ g \notin stop_requested \cup {f}
      <4>1. g \notin connected /\ ~stop_in_progress /\ stop_in_progress'
        BY <3>3
      <4>2. ~received_stop[g] /\ NoRequest(g)
        BY <2>0, <3>3, <4>1 DEF Local, BeforeRequests
      <4> QED  BY <1>1, <2>4, <4>1, <4>2 DEF CountedAsStopping
    <3>4. CASE g \notin S
      BY <1>4, <3>4 DEF CountedAsStopping
    <3> QED  BY <3>1, <3>2, <3>3, <3>4
  <2>7. Leaving(g)'
    <3>1. CASE g = f
      <4>1. ASSUME NEW i \in DOMAIN up'[f], up'[f][i].type = "RESIGN"
            PROVE  pc[f] = "done" /\ \A j \in DOMAIN up'[f] : i < j => up'[f][j].type # "REQUEST"
        BY <1>0, <1>1, <4>1, SMTT(30) DEF Local, Leaving
      <4> QED  BY <1>0, <1>1, <1>4, <3>1, <4>1 DEF Local, Leaving
    <3>2. CASE g # f
      BY <1>1, <1>4, <2>0, <3>2 DEF Local, Leaving
    <3> QED  BY <3>1, <3>2
  <2>8. BeforeRequests(g)'
    BY <1>1, <1>4, <2>0, <2>4 DEF Local, BeforeRequests
  <2>9. Granting(g)'
    <3>1. ASSUME NEW i \in DOMAIN down'[g], down'[g][i].type = "GRANTED"
          PROVE  /\ g \in connected /\ S = Fed
                 /\ i = Len(requests[g]) + 1 /\ down'[g][i].tag = max
      <4>1. \A j \in DOMAIN requests[g] : requests[g][j].type # "GRANTED"
        BY <1>7, <2>2
      <4> QED  BY <1>5, <2>3, <3>1, <4>1
    <3>2. g \in connected /\ S = Fed => Sent(g) /\ requestors[g] = 1
      <4>1. g \in connected /\ S = Fed => g \in stop_requested \/ g = f
        OBVIOUS
      <4>2. g \in connected /\ g \in stop_requested => Sent(g)
        BY <2>0 DEF Local, CountedAsStopping
      <4>3. Sent(g) => requestors[g] = 1
        BY <1>7, <2>0 DEF Local, Barrier, Heard
      <4> QED  BY <1>2, <4>1, <4>2, <4>3
    <3>3. stop_granted' => g \in stop_requested'
      BY <1>4, <1>6
    <3>4. ASSUME NEW i \in DOMAIN down'[g], down'[g][i].type = "GRANTED"
          PROVE  /\ stop_granted' /\ down'[g][i].tag = max_stop_tag'
                 /\ Sent(g)' /\ requestors'[g] = 1
                 /\ \A j \in DOMAIN down'[g] : down'[g][j].type = "GRANTED" => i = j
      <4>1. stop_granted' /\ down'[g][i].tag = max_stop_tag'
        BY <1>4, <3>1, <3>4
      <4>2. Sent(g)' /\ requestors'[g] = 1
        BY <1>1, <2>1, <3>1, <3>2, <3>4
      <4>3. \A j \in DOMAIN down'[g] : down'[g][j].type = "GRANTED" => i = j
        BY <3>1, <3>4
      <4> QED  BY <4>1, <4>2, <4>3
    <3> QED  BY <1>7, <2>1, <3>3, <3>4 DEF Granting
  <2> QED  BY <1>7, <2>1, <2>5, <2>6, <2>7, <2>8, <2>9 DEF Local
<1>10. StopTags'
  BY <1>1, <1>7, <1>9 DEF IInv, StopTags
<1> QED  BY <1>8, <1>9, <1>10 DEF IInv

\* A tag under way is of a federate that is not yet counted.
LEMMA HeadIsNew ==
  ASSUME IInv, NEW f \in Fed, NEW type \in {"REQUEST", "REPLY"}, Receive(f, type)
  PROVE  /\ f \notin stop_requested
         /\ Head(up[f]).tag \in Nat
         /\ Maximum(max_stop_tag, Head(up[f]).tag) \in Nat
         /\ stop_requested \subseteq Fed /\ down \in [Fed -> Seq(Message)]
         /\ stop_in_progress \in BOOLEAN
<1>1. TypeOK /\ Pledged(f)
  BY DEF IInv, Local
<1>2. /\ 1 \in DOMAIN up[f] /\ Head(up[f]) = up[f][1] /\ f \in connected
      /\ Head(up[f]) \in Message /\ Head(up[f]).type = type
  BY <1>1, HeadReceived
<1>3. f \notin stop_requested
  BY <1>1, <1>2 DEF Pledged, IsPledge
<1>4. Head(up[f]).tag \in Nat
  BY <1>2 DEF Message
<1> QED  BY <1>1, <1>3, <1>4 DEF TypeOK, Maximum

LEMMA StopReplyStep ==
  ASSUME IInv, NEW f \in Fed, handle_stop_request_reply(f)
  PROVE  IInv'
<1>1. /\ Receive(f, "REPLY")
      /\ Mark(stop_requested \cup {f}, Maximum(max_stop_tag, Head(up[f]).tag), down)
      /\ UNCHANGED <<connected, exited>> /\ stop_in_progress' = stop_in_progress
  BY DEF handle_stop_request_reply
<1>2. /\ stop_requested \subseteq Fed /\ down \in [Fed -> Seq(Message)]
      /\ stop_in_progress \in BOOLEAN
  BY <1>1, HeadIsNew
<1> QED  BY <1>1, <1>2, MarkStep

LEMMA StopRequestStep ==
  ASSUME IInv, NEW f \in Fed, handle_stop_request_message(f)
  PROVE  IInv'
<1> DEFINE max == Maximum(max_stop_tag, Head(up[f]).tag)
           S == stop_requested \cup {f}
           requests == [g \in Fed |-> IF g \in connected \ S
                                      THEN Append(down[g], Msg("REQUEST", max)) ELSE down[g]]
<1>1. Receive(f, "REQUEST") /\ UNCHANGED <<connected, exited>>
  BY DEF handle_stop_request_message
<1>2. /\ f \notin stop_requested /\ max \in Nat
      /\ stop_requested \subseteq Fed /\ down \in [Fed -> Seq(Message)]
      /\ stop_in_progress \in BOOLEAN
  BY <1>1, HeadIsNew
<1>3. CASE stop_in_progress \/ AllHandleStop(S)
  <2>1. Mark(S, max, down) /\ stop_in_progress' = stop_in_progress
    BY <1>2, <1>3 DEF handle_stop_request_message
  <2> QED  BY <1>1, <1>2, <2>1, MarkStep
<1>4. CASE ~(stop_in_progress \/ AllHandleStop(S))
  <2>1. Mark(S \cup (Fed \ connected), max, requests) /\ stop_in_progress' = TRUE
    BY <1>2, <1>4 DEF handle_stop_request_message
  <2>2. Msg("REQUEST", max) \in Message
    BY <1>2 DEF Msg, Message
  <2>3. requests \in [Fed -> Seq(Message)]
    <3>1. \A g \in Fed : Append(down[g], Msg("REQUEST", max)) \in Seq(Message)
      BY <1>2, <2>2, Appended
    <3> QED  BY <1>2, <3>1
  <2>4. \A g \in Fed : requests[g] # down[g] =>
          g \in connected /\ requests[g] = Append(down[g], Msg("REQUEST", max))
    OBVIOUS
  <2> DEFINE all == S \cup (Fed \ connected)
  <2>5. /\ all \subseteq Fed /\ stop_requested \cup {f} \subseteq all
        /\ \A g \in all \ (stop_requested \cup {f}) : g \notin connected
    BY <1>2
  <2>6. ~stop_in_progress /\ stop_in_progress'
    BY <1>4, <2>1
  <2>7. Mark(all, max, requests)
    BY <2>1
  <2> HIDE DEF requests, all
  <2> QED  BY <1>1, <2>3, <2>4, <2>5, <2>6, <2>7, MarkStep, ZenonT(60)
<1> QED  BY <1>3, <1>4

-----------------------------------------------------------------------------
LEMMA InitInv == Init => IInv
<1> SUFFICES ASSUME Init PROVE IInv
  OBVIOUS
<1> USE DEF Init
<1>1. TypeOK
  <2>1. PICK t \in Timeouts : stop_tag = [f \in Fed |-> t]
    OBVIOUS
  <2>2. t \in Nat /\ FOREVER \in Nat
    BY StopAssumption
  <2>3. up \in [Fed -> Seq(Message)] /\ down \in [Fed -> Seq(Message)]
    OBVIOUS
  <2>4. stop_tag \in [Fed -> Nat] /\ horizon \in [Fed -> Nat]
    BY <2>1, <2>2
  <2>5. asked \in [Fed -> [step : {"none", "heard", "blocked"}, tag : Nat]]
    OBVIOUS
  <2>6. /\ connected \subseteq Fed /\ stop_requested \subseteq Fed /\ max_stop_tag \in Nat
        /\ stop_in_progress \in BOOLEAN /\ stop_granted \in BOOLEAN /\ exited \in BOOLEAN
    OBVIOUS
  <2>7. /\ pc \in [Fed -> {"exec", "wait", "advance", "ending", "done", "gone"}]
        /\ current_tag \in [Fed -> Nat] /\ next_tag \in [Fed -> Nat]
        /\ signalled \in [Fed -> BOOLEAN] /\ requestors \in [Fed -> 0 .. 1]
    OBVIOUS
  <2>8. /\ lf_stop_requested \in [Fed -> BOOLEAN] /\ received_stop \in [Fed -> BOOLEAN]
        /\ asking \in [Fed -> {"none", "flagged", "raised", "sent"}]
    OBVIOUS
  <2> HIDE DEF Init
  <2> QED  BY <2>3, <2>4, <2>5, <2>6, <2>7, <2>8 DEF TypeOK
<1>2. ASSUME NEW f \in Fed PROVE Local(f)
  <2>1. stop_tag[f] \in Nat /\ current_tag[f] = 0
    BY <1>1 DEF TypeOK
  <2>2. DOMAIN up[f] = {} /\ DOMAIN down[f] = {}
    OBVIOUS
  <2>3. Flags(f)  BY DEF Flags
  <2>4. Barrier(f)  BY DEF Barrier
  <2>5. Pledged(f)  BY <2>2 DEF Pledged
  <2>6. CountedAsStopping(f)  BY DEF CountedAsStopping
  <2>7. Leaving(f)  BY <2>2 DEF Leaving
  <2>8. BeforeRequests(f)  BY <2>2 DEF BeforeRequests, NoRequest
  <2>9. Granting(f)  BY <2>2 DEF Granting, Heard, Sent
  <2>10. Stopping(f)  BY <2>1 DEF Stopping
  <2> QED
    BY <2>3, <2>4, <2>5, <2>6, <2>7, <2>8, <2>9, <2>10 DEF Local
<1>3. StopTags
  BY DEF StopTags, Heard, Sent
<1> QED  BY <1>1, <1>2, <1>3 DEF IInv

LEMMA StutterInv ==
  ASSUME IInv, UNCHANGED vars
  PROVE  IInv'
<1>1. UNCHANGED rtiVars /\ \A g \in Fed : Same(g)
  BY DEF vars, tagVars, barrierVars, flagVars, Same, SameFlags, SameBarrier, SameTag
<1>2. TypeOK'
  BY DEF IInv, TypeOK, vars, rtiVars, tagVars, barrierVars, flagVars
<1>3. \A g \in Fed : Local(g)' /\ (Heard(g)' <=> Heard(g))
  BY <1>1, LocalFrame DEF IInv
<1>4. StopTags'
  BY <1>1, <1>3 DEF IInv, StopTags, Same, SameTag, rtiVars
<1> QED  BY <1>2, <1>3, <1>4 DEF IInv

LEMMA NextInv == IInv /\ [Next]_vars => IInv'
<1> SUFFICES ASSUME IInv, [Next]_vars PROVE IInv'
  OBVIOUS
<1>1. ASSUME NEW f \in Fed, ServeFederate(f)
      PROVE  IInv'
  BY <1>1, StopRequestStep, StopReplyStep, FederateGoneStep DEF ServeFederate
<1>2. ASSUME NEW f \in Fed, RequestStop(f)
      PROVE  IInv'
  BY <1>2, RequestStopStep
<1>3. ASSUME NEW f \in Fed, Work(f)
      PROVE  IInv'
  BY <1>3, RaiseBarrierStep, SendStopRequestStep, CompleteStep, WakeStep, TimePassesStep,
     AdvanceTagStep, ResignStep DEF Work
<1>4. ASSUME NEW f \in Fed, Listen(f)
      PROVE  IInv'
  BY <1>4, HearStopRequestStep, BlockForStopStep, ReplyToStopStep, StopGrantedStep,
     RtiFailedStep DEF Listen
<1>5. CASE GiveUp
  BY <1>5, GiveUpStep
<1>6. CASE UNCHANGED vars
  BY <1>6, StutterInv
<1> QED  BY <1>1, <1>2, <1>3, <1>4, <1>5, <1>6 DEF Next

\* The inductive invariant: who has told the RTI a tag is held below it.
THEOREM Agreement == Spec => []IInv
<1>1. Init => IInv
  BY InitInv
<1>2. IInv /\ [Next]_vars => IInv'
  BY NextInv
<1> QED  BY <1>1, <1>2, PTL DEF Spec

\* Every variable keeps its type, for any number of federates.
THEOREM TypeCorrect == Spec => []TypeOK
<1>1. IInv => TypeOK
  BY DEF IInv
<1> QED  BY <1>1, Agreement, PTL

\* A stop tag that is granted is ahead of every federate that will hear it.
THEOREM GrantsAhead == Spec => []GrantAhead
<1>1. IInv => GrantAhead
  <2> SUFFICES ASSUME IInv, NEW f \in Fed, NEW i \in DOMAIN down[f],
                      down[f][i].type = "GRANTED"
               PROVE  current_tag[f] < down[f][i].tag
    BY DEF GrantAhead
  <2>1. /\ stop_granted /\ down[f][i].tag = max_stop_tag /\ Sent(f) /\ requestors[f] = 1
        /\ f \in stop_requested /\ CountedAsStopping(f)
    BY DEF IInv, Local, Granting
  <2> QED  BY <2>1 DEF CountedAsStopping, Sent
<1> QED  BY <1>1, Agreement, PTL

\* The federates that take part in a stop end at the same tag.
THEOREM StopTogether == Spec => []SameStopTag
<1>1. IInv => SameStopTag
  <2> SUFFICES ASSUME IInv, NEW f \in Fed, NEW g \in Fed,
                      pc[f] = "done", pc[g] = "done", received_stop[f], received_stop[g]
               PROVE  current_tag[f] = current_tag[g]
    BY DEF SameStopTag
  <2>1. PICK t \in Timeouts :
          \A h \in Fed : stop_tag[h] = IF Heard(h) THEN Minimum(t, max_stop_tag) ELSE t
    BY DEF IInv, StopTags
  <2>2. t \in Nat /\ max_stop_tag \in Nat
    BY StopAssumption DEF IInv, TypeOK
  <2>3. ASSUME NEW h \in Fed, pc[h] = "done", received_stop[h], stop_granted
        PROVE  stop_tag[h] = Minimum(t, max_stop_tag)
    <3>1. CASE Heard(h)
      BY <2>1, <3>1
    <3>2. CASE ~Heard(h)
      <4>1. Sent(h) /\ current_tag[h] = stop_tag[h]
        BY <2>3 DEF IInv, Local, Granting, CountedAsStopping, Stopping
      <4>2. requestors[h] = 1
        BY <3>2, <4>1 DEF IInv, Local, Barrier, Heard
      <4>3. current_tag[h] < max_stop_tag
        BY <2>3, <4>2 DEF IInv, Local, Granting, CountedAsStopping
      <4> QED  BY <2>1, <2>2, <3>2, <4>1, <4>3 DEF Minimum
    <3> QED  BY <3>1, <3>2
  <2>4. ~stop_granted => stop_tag[f] = t /\ stop_tag[g] = t
    BY <2>1 DEF IInv, Local, Granting
  <2>5. current_tag[f] = stop_tag[f] /\ current_tag[g] = stop_tag[g]
    BY DEF IInv, Local, Stopping
  <2> QED  BY <2>3, <2>4, <2>5
<1> QED  BY <1>1, Agreement, PTL
=============================================================================
