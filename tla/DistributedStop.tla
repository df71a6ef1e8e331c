--------------------------- MODULE DistributedStop ---------------------------
(***************************************************************************)
(* How a federation agrees on a tag at which to stop: lf_request_stop()    *)
(* and the tag barrier of reactor_threaded.c, the stop messages of         *)
(* federate.c and their handlers in rti_remote.c.                          *)
(*                                                                         *)
(* Tags are counted: tag + 1 is the next microstep. Coordination, modelled *)
(* in Federation, is left out: an event has any tag, is granted some time, *)
(* and the wait for the grant and for physical time is one wait.           *)
(***************************************************************************)
EXTENDS Naturals, FiniteSets, Sequences

CONSTANTS
  Fed,      \* the federates
  Event,    \* the tags at which a federate may have an event
  Timeouts, \* the timeouts considered, FOREVER is none
  FOREVER

ASSUME StopAssumption ==
  /\ IsFiniteSet(Fed)
  /\ FOREVER \in Nat
  /\ Event \subseteq Nat /\ \A t \in Event : t < FOREVER
  /\ Timeouts \subseteq Nat /\ \A t \in Timeouts : 0 < t /\ t <= FOREVER

VARIABLES
  \* the RTI
  connected, \* the federates whose state is not NOT_CONNECTED
  stop_requested, \* the federates with requested_stop set
  max_stop_tag,
  stop_in_progress,
  stop_granted,   \* stop_granted_already_sent_to_federates
  exited,         \* the RTI has given up
  \* a federate
  pc,             \* what its worker does
  current_tag, stop_tag,
  next_tag,       \* the tag its worker waits for, 0 if it does not
  signalled,      \* has event_q_changed been signalled during the wait?
  horizon, requestors,  \* the tag barrier
  lf_stop_requested,
  received_stop,  \* received_stop_request_from_rti
  asking,         \* how far its call of lf_request_stop() is
  asked,          \* how far its handler of a stop request is, and the tag
  \* the network
  up, down        \* messages from and to each federate, in order

rtiVars == <<connected, stop_requested, max_stop_tag, stop_in_progress, stop_granted, exited>>
tagVars == <<current_tag, next_tag, signalled>>
barrierVars == <<horizon, requestors>>
flagVars == <<lf_stop_requested, received_stop, asking, asked>>
vars == <<rtiVars, pc, tagVars, stop_tag, barrierVars, flagVars, up, down>>

Msg(type, tag) == [type |-> type, tag |-> tag]
Maximum(a, b) == IF a < b THEN b ELSE a
Minimum(a, b) == IF a < b THEN a ELSE b

-----------------------------------------------------------------------------
(* The RTI                                                                 *)

Receive(f, type) ==
  /\ ~exited /\ f \in connected
  /\ up[f] # <<>> /\ Head(up[f]).type = type
  /\ up' = [up EXCEPT ![f] = Tail(@)]
  /\ UNCHANGED <<pc, tagVars, stop_tag, barrierVars, flagVars>>

\* Faulty variant: a majority is enough.
MostHandleStop(S) == 2 * Cardinality(S) > Cardinality(Fed)
AllHandleStop(S) == S = Fed

\* The messages down when the federates of S are known to be stopping: the
\* stop tag if these are all, after the requests.
Broadcast(S, max, requests) ==
  [g \in Fed |-> IF g \in connected /\ AllHandleStop(S) /\ ~stop_granted
                 THEN Append(requests[g], Msg("GRANTED", max)) ELSE requests[g]]

Mark(S, max, requests) ==
  /\ stop_requested' = S
  /\ max_stop_tag' = max
  /\ stop_granted' = (stop_granted \/ AllHandleStop(S))
  /\ down' = Broadcast(S, max, requests)

\* The request is forwarded once, to the federates that are connected and have
\* not asked themselves; those that are not connected count as stopping.
handle_stop_request_message(f) ==
  LET max == Maximum(max_stop_tag, Head(up[f]).tag)
      S == stop_requested \cup {f}
      requests == [g \in Fed |-> IF g \in connected \ S THEN Append(down[g], Msg("REQUEST", max))
                                 ELSE down[g]] IN
  /\ Receive(f, "REQUEST")
  /\ IF f \in stop_requested
     THEN UNCHANGED <<stop_requested, max_stop_tag, stop_granted, stop_in_progress, down>>
     ELSE IF stop_in_progress \/ AllHandleStop(S)
     THEN Mark(S, max, down) /\ UNCHANGED stop_in_progress
     ELSE /\ Mark(S \cup (Fed \ connected), max, requests)
          /\ stop_in_progress' = TRUE
  /\ UNCHANGED <<connected, exited>>

handle_stop_request_reply(f) ==
  /\ Receive(f, "REPLY")
  /\ Mark(stop_requested \cup {f}, Maximum(max_stop_tag, Head(up[f]).tag), down)
  /\ UNCHANGED <<connected, stop_in_progress, exited>>

\* handle_federate_resign() and handle_federate_failed(): the federate is not
\* counted as one that stops.
handle_federate_gone(f) ==
  /\ Receive(f, "RESIGN")
  /\ connected' = connected \ {f}
  /\ UNCHANGED <<stop_requested, max_stop_tag, stop_in_progress, stop_granted, exited, down>>

\* wait_for_stop_request_reply(): not all have answered within 30 seconds,
\* which is longer than messages and their handlers take.
Quiet ==
  /\ \A f \in connected : up[f] = <<>> /\ asked[f].step = "none"
                         /\ asking[f] \in {"none", "sent"}
  /\ \A f \in Fed : pc[f] \notin {"gone", "done"} => down[f] = <<>>
GiveUp ==
  /\ stop_in_progress /\ ~stop_granted /\ ~exited
  /\ Quiet
  /\ exited' = TRUE
  /\ UNCHANGED <<connected, stop_requested, max_stop_tag, stop_in_progress, stop_granted,
                 pc, tagVars, stop_tag, barrierVars, flagVars, up, down>>

-----------------------------------------------------------------------------
(* The tag barrier                                                         *)

lf_set_stop_tag(f, tag) == stop_tag' = [stop_tag EXCEPT ![f] = Minimum(@, tag)]

\* Where the barrier is raised for a tag: it never moves up, and never blocks
\* the current tag.
Raised(f, tag) ==
  LET future == Minimum(tag, stop_tag[f]) IN
  IF future > current_tag[f] THEN Minimum(horizon[f], future) ELSE current_tag[f] + 1

increment_tag_barrier(f, tag) ==
  /\ horizon' = [horizon EXCEPT ![f] = Raised(f, tag)]
  /\ requestors' = [requestors EXCEPT ![f] = @ + 1]

decrement_tag_barrier(f) ==
  /\ requestors' = [requestors EXCEPT ![f] = @ - 1]
  /\ horizon' = [horizon EXCEPT ![f] = IF requestors[f] = 1 THEN FOREVER ELSE @]

-----------------------------------------------------------------------------
(* The worker of a federate                                                *)

Runs(f, where) ==
  /\ pc[f] = where
  /\ UNCHANGED <<rtiVars, down>>

\* get_next_event_tag(), of a queue that may hold any event
NextEvents(f) ==
  {t \in Event : current_tag[f] < t /\ t < stop_tag[f]} \cup {stop_tag[f]}

\* lf_request_stop(), called in a reaction: the flag, under the global mutex
RequestStop(f) ==
  /\ Runs(f, "exec") /\ asking[f] = "none" /\ ~lf_stop_requested[f]
  /\ lf_stop_requested' = [lf_stop_requested EXCEPT ![f] = TRUE]
  /\ asking' = [asking EXCEPT ![f] = "flagged"]
  /\ UNCHANGED <<pc, tagVars, stop_tag, barrierVars, received_stop, asked, up>>

\* the barrier, under the mutex of the environment
RaiseBarrier(f) ==
  /\ Runs(f, "exec") /\ asking[f] = "flagged"
  /\ increment_tag_barrier(f, current_tag[f])
  /\ asking' = [asking EXCEPT ![f] = "raised"]
  /\ UNCHANGED <<pc, tagVars, stop_tag, lf_stop_requested, received_stop, asked, up>>

\* lf_send_stop_request_to_rti(), under the mutex of the socket
SendStopRequest(f) ==
  /\ Runs(f, "exec") /\ asking[f] = "raised"
  /\ asking' = [asking EXCEPT ![f] = "sent"]
  /\ IF received_stop[f]
     THEN decrement_tag_barrier(f) /\ UNCHANGED <<received_stop, up>>
     ELSE /\ received_stop' = [received_stop EXCEPT ![f] = TRUE]
          /\ up' = [up EXCEPT ![f] = Append(@, Msg("REQUEST", current_tag[f] + 1))]
          /\ UNCHANGED barrierVars
  /\ UNCHANGED <<pc, tagVars, stop_tag, lf_stop_requested, asked>>

\* The reactions of the current tag are done: the program ends, or a worker
\* looks for the next tag and waits for it.
Complete(f) ==
  /\ Runs(f, "exec") /\ asking[f] \in {"none", "sent"}
  /\ IF current_tag[f] >= stop_tag[f]
     THEN pc' = [pc EXCEPT ![f] = "ending"] /\ UNCHANGED next_tag
     ELSE /\ pc' = [pc EXCEPT ![f] = "wait"]
          /\ \E t \in NextEvents(f) : next_tag' = [next_tag EXCEPT ![f] = t]
  /\ signalled' = [signalled EXCEPT ![f] = FALSE]
  /\ UNCHANGED <<current_tag, stop_tag, barrierVars, flagVars, up>>

\* The wait is interrupted and the next tag looked up again.
Wake(f) ==
  /\ Runs(f, "wait") /\ signalled[f]
  /\ signalled' = [signalled EXCEPT ![f] = FALSE]
  /\ \E t \in NextEvents(f) : t <= next_tag[f] /\ next_tag' = [next_tag EXCEPT ![f] = t]
  /\ UNCHANGED <<pc, current_tag, stop_tag, barrierVars, flagVars, up>>

\* The tag is granted and physical time reaches it.
TimePasses(f) ==
  /\ Runs(f, "wait") /\ next_tag[f] # FOREVER
  /\ pc' = [pc EXCEPT ![f] = "advance"]
  /\ UNCHANGED <<tagVars, stop_tag, barrierVars, flagVars, up>>

\* _lf_wait_on_tag_barrier()
BarrierOpen(f, tag) == requestors[f] = 0 \/ tag < horizon[f]

\* The next tag is read again after the wait: an event may have become earlier.
AdvanceTag(f) ==
  /\ Runs(f, "advance")
  /\ \E tag \in NextEvents(f) :
       /\ tag <= next_tag[f]
       /\ BarrierOpen(f, tag)
       /\ current_tag' = [current_tag EXCEPT ![f] = tag]
  /\ pc' = [pc EXCEPT ![f] = "exec"]
  /\ next_tag' = [next_tag EXCEPT ![f] = 0]
  /\ signalled' = [signalled EXCEPT ![f] = FALSE]
  /\ UNCHANGED <<stop_tag, barrierVars, flagVars, up>>

\* lf_terminate_execution(): the federate resigns.
Resign(f) ==
  /\ Runs(f, "ending")
  /\ pc' = [pc EXCEPT ![f] = "done"]
  /\ up' = [up EXCEPT ![f] = Append(@, Msg("RESIGN", current_tag[f]))]
  /\ UNCHANGED <<tagVars, stop_tag, barrierVars, flagVars>>

\* The RTI that gives up tells the federates that are still connected to exit.
handle_rti_failed_message(f) ==
  /\ exited /\ pc[f] \notin {"done", "gone"}
  /\ pc' = [pc EXCEPT ![f] = "gone"]
  /\ UNCHANGED <<rtiVars, tagVars, stop_tag, barrierVars, flagVars, up, down>>

-----------------------------------------------------------------------------
(* The listener of a federate                                              *)

Hear(f, type) ==
  /\ pc[f] # "gone" /\ asked[f].step = "none"
  /\ down[f] # <<>> /\ Head(down[f]).type = type
  /\ down' = [down EXCEPT ![f] = Tail(@)]
  /\ UNCHANGED <<rtiVars, pc, current_tag, next_tag, up>>

\* Faulty variant: only a request that was sent or received counts.
BlockedIfReceived(f) == received_stop[f]
\* A request is ignored if this federate has asked itself.
AlreadyBlocked(f) == lf_stop_requested[f]

HearStopRequest(f) ==
  /\ Hear(f, "REQUEST")
  /\ IF AlreadyBlocked(f)
     THEN UNCHANGED <<lf_stop_requested, received_stop, asked>>
     ELSE /\ lf_stop_requested' = [lf_stop_requested EXCEPT ![f] = TRUE]
          /\ received_stop' = [received_stop EXCEPT ![f] = TRUE]
          /\ asked' = [asked EXCEPT ![f] = [step |-> "heard", tag |-> Head(down[f]).tag]]
  /\ UNCHANGED <<signalled, stop_tag, barrierVars, asking>>

\* Faulty variant: the tag asked for is accepted in any case.
AcceptedAnyway(f, tag) == tag
\* A tag that has passed is answered by the next one.
CounterOffer(f, tag) == IF tag <= current_tag[f] THEN current_tag[f] + 1 ELSE tag

BlockForStop(f) ==
  LET tag == CounterOffer(f, asked[f].tag) IN
  /\ pc[f] # "gone" /\ asked[f].step = "heard"
  /\ increment_tag_barrier(f, tag)
  /\ asked' = [asked EXCEPT ![f] = [step |-> "blocked", tag |-> tag]]
  /\ UNCHANGED <<rtiVars, pc, tagVars, stop_tag, lf_stop_requested, received_stop, asking,
                 up, down>>

ReplyToStop(f) ==
  /\ pc[f] # "gone" /\ asked[f].step = "blocked"
  /\ up' = [up EXCEPT ![f] = Append(@, Msg("REPLY", asked[f].tag))]
  /\ asked' = [asked EXCEPT ![f] = [step |-> "none", tag |-> 0]]
  /\ UNCHANGED <<rtiVars, pc, tagVars, stop_tag, barrierVars, lf_stop_requested, received_stop,
                 asking, down>>

\* Faulty variant: nobody is woken.
WithoutBroadcast(f) == signalled[f]
\* lf_cond_broadcast() of event_q_changed
Broadcasted(f) == pc[f] = "wait"

\* A stop tag that is not ahead is replaced by the next microstep.
handle_stop_granted_message(f) ==
  /\ Hear(f, "GRANTED")
  /\ lf_set_stop_tag(f, CounterOffer(f, Head(down[f]).tag))
  /\ IF requestors[f] > 0 THEN decrement_tag_barrier(f) ELSE UNCHANGED barrierVars
  /\ signalled' = [signalled EXCEPT ![f] = Broadcasted(f)]
  /\ UNCHANGED flagVars

-----------------------------------------------------------------------------
Init ==
  /\ connected = Fed /\ stop_requested = {} /\ max_stop_tag = 0
  /\ stop_in_progress = FALSE /\ stop_granted = FALSE /\ exited = FALSE
  /\ pc = [f \in Fed |-> "exec"]
  /\ current_tag = [f \in Fed |-> 0]
  /\ \E t \in Timeouts : stop_tag = [f \in Fed |-> t]
  /\ next_tag = [f \in Fed |-> 0]
  /\ signalled = [f \in Fed |-> FALSE]
  /\ horizon = [f \in Fed |-> FOREVER]
  /\ requestors = [f \in Fed |-> 0]
  /\ lf_stop_requested = [f \in Fed |-> FALSE]
  /\ received_stop = [f \in Fed |-> FALSE]
  /\ asking = [f \in Fed |-> "none"]
  /\ asked = [f \in Fed |-> [step |-> "none", tag |-> 0]]
  /\ up = [f \in Fed |-> <<>>]
  /\ down = [f \in Fed |-> <<>>]

ServeFederate(f) ==
  handle_stop_request_message(f) \/ handle_stop_request_reply(f) \/ handle_federate_gone(f)

\* What the worker does by itself: that a reaction asks for a stop is its choice.
Work(f) ==
  RaiseBarrier(f) \/ SendStopRequest(f) \/ Complete(f) \/ Wake(f) \/ TimePasses(f)
    \/ AdvanceTag(f) \/ Resign(f)

Listen(f) ==
  \/ HearStopRequest(f) \/ BlockForStop(f) \/ ReplyToStop(f)
  \/ handle_stop_granted_message(f) \/ handle_rti_failed_message(f)

Next ==
  \/ \E f \in Fed : ServeFederate(f) \/ RequestStop(f) \/ Work(f) \/ Listen(f)
  \/ GiveUp

Spec == Init /\ [][Next]_vars

\* The threads of the federates and of the RTI run.
Fairness ==
  /\ \A f \in Fed : /\ WF_vars(ServeFederate(f)) /\ WF_vars(Work(f)) /\ WF_vars(Listen(f))
  /\ WF_vars(GiveUp)
FairSpec == Spec /\ Fairness

-----------------------------------------------------------------------------
Message == [type : {"REQUEST", "REPLY", "GRANTED", "RESIGN"}, tag : Nat]

\* Type correctness.
TypeOK ==
  /\ connected \subseteq Fed /\ stop_requested \subseteq Fed
  /\ max_stop_tag \in Nat
  /\ stop_in_progress \in BOOLEAN /\ stop_granted \in BOOLEAN /\ exited \in BOOLEAN
  /\ pc \in [Fed -> {"exec", "wait", "advance", "ending", "done", "gone"}]
  /\ current_tag \in [Fed -> Nat] /\ stop_tag \in [Fed -> Nat] /\ next_tag \in [Fed -> Nat]
  /\ signalled \in [Fed -> BOOLEAN]
  /\ horizon \in [Fed -> Nat] /\ requestors \in [Fed -> 0 .. 1]
  /\ lf_stop_requested \in [Fed -> BOOLEAN] /\ received_stop \in [Fed -> BOOLEAN]
  /\ asking \in [Fed -> {"none", "flagged", "raised", "sent"}]
  /\ asked \in [Fed -> [step : {"none", "heard", "blocked"}, tag : Nat]]
  /\ up \in [Fed -> Seq(Message)] /\ down \in [Fed -> Seq(Message)]

\* "RTI granted a MSG_TYPE_STOP_GRANTED tag that is equal to or less than this
\* federate's current tag" (federate.c:1331) never happens, however far the
\* federates advance while the others answer.
GrantAhead ==
  \A f \in Fed : \A i \in DOMAIN down[f] :
    down[f][i].type = "GRANTED" => current_tag[f] < down[f][i].tag

\* "so that all federates and enclaves stop at the same tag" (reactor.h:124):
\* those that have taken part in the agreement do.
SameStopTag ==
  \A f, g \in Fed :
    pc[f] = "done" /\ pc[g] = "done" /\ received_stop[f] /\ received_stop[g] =>
      current_tag[f] = current_tag[g]

\* A stop whose request was sent comes, for all federates, or the RTI gives up
\* because a federate has left after it was asked and before it answered.
StopComes ==
  (\E f \in Fed : asking[f] = "sent") ~>
    /\ \A f \in Fed : pc[f] \in {"done", "gone"}
    /\ exited => stop_requested \cup connected # Fed
=============================================================================
