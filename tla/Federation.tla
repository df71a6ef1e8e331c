----------------------------- MODULE Federation -----------------------------
(***************************************************************************)
(* A federation under centralized coordination: the RTI (rti_common.c and  *)
(* rti_remote.c), the federates (federate.c and _lf_next_locked() of       *)
(* reactor_threaded.c) and the connections between them.                   *)
(*                                                                         *)
(* The RTI has a thread per federate; a handler runs under the RTI mutex   *)
(* and is one action, except that of an LTC, which takes the mutex twice.  *)
(* A federate has a thread that listens to the RTI and workers that share  *)
(* its mutex; the handler of a DNET takes no mutex and is two actions.     *)
(***************************************************************************)
EXTENDS Tags, Sequences, FiniteSets, Functions

CONSTANTS
  number_of_scheduling_nodes, \* how many federates the RTI knows
  Programs,  \* the federated programs considered
  StopTime,  \* the timeout, the same for all federates
  NULL

\* The federates, numbered as the RTI numbers them.
Fed == 0 .. number_of_scheduling_nodes - 1

\* A connection has two federates as ends, a delay (NEVER is none), the levels
\* of the reactions that send and receive on it, and is used always or
\* sometimes when a reaction of its sender is triggered.
Connection ==
  {c \in [from : Fed, to : Fed, delay : {NEVER} \cup Nat, out : Nat, in : Nat, always : BOOLEAN] :
     c.from # c.to}

ASSUME FederationAssumption ==
  /\ number_of_scheduling_nodes \in Nat /\ NULL \notin Connection
  /\ StopTime \in Nat /\ StopTime < FOREVER
  /\ \A p \in Programs : /\ p.conn \subseteq Connection /\ IsFiniteSet(p.conn)
                        /\ p.timer \in [Fed -> SUBSET (0 .. FOREVER - 1)]
                        /\ p.mayfail \subseteq Fed

VARIABLES
  program,    \* its connections, the times of the timers, who may fail
  min_delays, \* min_delays[i][j]: the least delay of a path from i to j
  node,       \* node[f]: what the RTI knows of f (scheduling_node_t)
  in_transit, \* in_transit[f]: in_transit_message_tags
  confirming, \* confirming[f]: LTC that the thread of f has half handled, or NULL
  up,         \* up[f]: messages from f to the RTI, in order
  down,       \* down[f]: messages from the RTI to f, in order
  fed         \* fed[f]: the federate f

vars == <<program, min_delays, node, in_transit, confirming, up, down, fed>>
network == <<program, min_delays>>

STOP_TAG == <<StopTime, 0>>
ConnTo(f) == {c \in program.conn : c.to = f}
ConnFrom(f) == {c \in program.conn : c.from = f}
Upstreams(f) == {c.from : c \in ConnTo(f)}
Downstreams(f) == {c.to : c \in ConnFrom(f)}

\* The sequences of nodes seqs[i], one after the other in the order of i.
InTurn(seqs) ==
  LET s[n \in 0 .. number_of_scheduling_nodes] ==
        IF n = 0 THEN <<>>
        ELSE IF n - 1 \in DOMAIN seqs THEN s[n - 1] \o seqs[n - 1] ELSE s[n - 1] IN
  s[number_of_scheduling_nodes]
InOrder(S) == InTurn([i \in S |-> <<i>>])

-----------------------------------------------------------------------------
(* The RTI: delays between federates (update_min_delays())                 *)

\* A path from i to end begins with a connection and goes on as D says. The
\* delay of a node is replaced by a lesser one until none is found, which is
\* after as many rounds as there are nodes.
Through(conn, end, D, i) ==
  {lf_tag_add(lf_delay_tag(ZERO_TAG, c.delay), IF c.to = end THEN ZERO_TAG ELSE D[c.to])
     : c \in {d \in conn : d.from = i /\ (d.to = end \/ D[d.to] # FOREVER_TAG)}}
Lessen(conn, end, D) == [i \in Fed |-> Earliest({D[i]} \cup Through(conn, end, D, i))]
PathDelays(conn, end) ==
  LET P[n \in 0 .. number_of_scheduling_nodes] ==
        IF n = 0 THEN [i \in Fed |-> FOREVER_TAG] ELSE Lessen(conn, end, P[n - 1]) IN
  P[number_of_scheduling_nodes]

MinDelays(conn) == [i \in Fed |-> [j \in Fed |-> PathDelays(conn, j)[i]]]

IsUpstream(i, j) == min_delays[i][j] # FOREVER_TAG
\* A cycle none of whose connections has a delay.
is_in_zero_delay_cycle(f) == min_delays[f][f] = ZERO_TAG
ZeroDelayCycle(c) == c.delay = NEVER /\ min_delays[c.to][c.from] = ZERO_TAG

-----------------------------------------------------------------------------
(* The RTI: grants. N is the state of the nodes, S the nodes and what is   *)
(* sent to the federates.                                                  *)

\* Faulty variant: a node that has not been heard from does not matter.
IgnoredUnlessHeard(t) == IF t = NEVER_TAG THEN FOREVER_TAG ELSE t
\* A node that has not been heard from may have an event at the start tag.
Heard(t) == IF t = NEVER_TAG THEN ZERO_TAG ELSE t

earliest_future_incoming_message_tag(N, e) ==
  Earliest({lf_tag_add(Heard(N[i].next_event), min_delays[i][e])
              : i \in {j \in Fed : IsUpstream(j, e)}})

\* What its upstream nodes may send to it makes an upstream node earlier.
EarliestEvent(N, u) ==
  lf_tag_min(Heard(N[u].next_event), earliest_future_incoming_message_tag(N, u))

eimt_strict(N, e) ==
  Earliest({lf_delay_tag(EarliestEvent(N, c.from), c.delay)
              : c \in {d \in ConnTo(e) : ~is_in_zero_delay_cycle(d.from)}})

MinUpstreamCompleted(N, e) ==
  Earliest({lf_delay_strict(N[c.from].completed, c.delay)
              : c \in {d \in ConnTo(e) : N[d.from].state # "NOT_CONNECTED"}})

GrantByLTC(N, e) ==
  /\ Less(N[e].last_granted, MinUpstreamCompleted(N, e))
  /\ Leq(N[e].next_event, MinUpstreamCompleted(N, e))

\* Faulty variant: the nodes outside the cycle are not asked.
StrictIgnored(N, e) == TRUE
StrictlyLater(N, e) == Less(N[e].next_event, eimt_strict(N, e))

NoGrant == [tag |-> NEVER_TAG, is_provisional |-> FALSE]
tag_advance_grant_if_safe(N, e) ==
  LET t_d == earliest_future_incoming_message_tag(N, e)
      n == N[e] IN
  IF GrantByLTC(N, e)
  THEN [tag |-> MinUpstreamCompleted(N, e), is_provisional |-> FALSE]
  ELSE IF /\ Less(n.next_event, t_d)
          /\ n.next_event # NEVER_TAG
          /\ Leq(n.last_provisionally_granted, t_d)
          /\ Less(n.last_granted, t_d)
  THEN [tag |-> lf_tag_latest_earlier(t_d), is_provisional |-> FALSE]
  ELSE IF /\ t_d = n.next_event
          /\ is_in_zero_delay_cycle(e)
          /\ StrictlyLater(N, e)
          /\ Less(n.last_provisionally_granted, t_d)
          /\ Less(n.last_granted, t_d)
  THEN [tag |-> n.next_event, is_provisional |-> TRUE]
  ELSE NoGrant

\* Looking for the earliest message, unless the LTC decide already, records the
\* start tag as the next event of the upstream nodes that have not been heard
\* from: in a cycle that of e too, which is then compared.
Assume(N, e) ==
  [i \in Fed |-> IF IsUpstream(i, e) /\ ~GrantByLTC(N, e)
                 THEN [N[i] EXCEPT !.next_event = Heard(@)] ELSE N[i]]

Send(D, f, m) == [D EXCEPT ![f] = Append(@, m)]
Msg(type, tag, conn) == [type |-> type, tag |-> tag, conn |-> conn]

CanGrant(n, tag) ==
  /\ n.state # "NOT_CONNECTED"
  /\ ~Leq(tag, n.last_granted)
  /\ ~Less(tag, n.last_provisionally_granted)

\* A TAG to every node of T that can have it.
GrantEach(S, T, tag) ==
  LET R == {f \in T : CanGrant(S.node[f], tag)} IN
  [node |-> [f \in Fed |-> IF f \in R THEN [S.node[f] EXCEPT !.last_granted = tag] ELSE S.node[f]],
   down |-> [f \in Fed |-> IF f \in R THEN Append(S.down[f], Msg("TAG", tag, NULL))
                           ELSE S.down[f]]]
notify_tag_advance_grant(S, e, tag) == GrantEach(S, {e}, tag)

\* A PTAG is passed on to the upstream nodes that could have one too, and a
\* TAG is sent to those that could have a TAG, and so on upstream.
CanProvision(n, tag) ==
  /\ n.state # "NOT_CONNECTED"
  /\ Less(n.last_granted, tag)
  /\ Less(n.last_provisionally_granted, tag)

WithUpstreams(N, R, tag) ==
  R \cup {u \in UNION {Upstreams(e) : e \in R} :
            /\ CanProvision(N[u], tag)
            /\ earliest_future_incoming_message_tag(N, u) = tag
            /\ Less(tag, eimt_strict(N, u))}

Provisioned(N, e, tag) ==
  LET R[k \in 0 .. number_of_scheduling_nodes] ==
        IF k = 0 THEN {e} ELSE WithUpstreams(N, R[k - 1], tag) IN
  IF CanProvision(N[e], tag) THEN R[number_of_scheduling_nodes] ELSE {}

notify_provisional_tag_advance_grant(S, e, tag) ==
  LET R == Provisioned(S.node, e, tag)
      T == {u \in UNION {Upstreams(f) : f \in R} :
              Less(tag, earliest_future_incoming_message_tag(S.node, u))}
      P == [node |-> [f \in Fed |->
                        IF f \in R THEN [S.node[f] EXCEPT !.last_provisionally_granted = tag]
                        ELSE S.node[f]],
            down |-> [f \in Fed |-> IF f \in R THEN Append(S.down[f], Msg("PTAG", tag, NULL))
                                    ELSE S.down[f]]] IN
  GrantEach(P, T, tag)

\* What is recorded by Assume() decides about the grant.
notify_advance_grant_if_safe(S, e) ==
  LET Q == [S EXCEPT !.node = Assume(@, e)]
      grant == tag_advance_grant_if_safe(Q.node, e) IN
  IF grant.tag = NEVER_TAG THEN Q
  ELSE IF grant.is_provisional THEN notify_provisional_tag_advance_grant(Q, e, grant.tag)
  ELSE notify_tag_advance_grant(Q, e, grant.tag)

\* The order in which notify_downstream_advance_grant_if_safe() visits the
\* nodes downstream of e: depth first, e itself left out.
DownstreamOrder(e) ==
  LET Walk[n \in 0 .. Cardinality(program.conn) + 1] ==
        IF n = 0 THEN [stack |-> <<e>>, seen |-> <<>>]
        ELSE LET w == Walk[n - 1] IN
             IF w.stack = <<>> THEN w
             ELSE IF Head(w.stack) \in Range(w.seen) THEN [w EXCEPT !.stack = Tail(@)]
             ELSE [stack |-> InOrder(Downstreams(Head(w.stack))) \o Tail(w.stack),
                   seen |-> Append(w.seen, Head(w.stack))] IN
  Tail(Walk[Cardinality(program.conn) + 1].seen)

NotifyEach(S, nodes) ==
  LET Q[n \in 0 .. Len(nodes)] ==
        IF n = 0 THEN S ELSE notify_advance_grant_if_safe(Q[n - 1], nodes[n]) IN
  Q[Len(nodes)]

\* A node without upstream nodes needs no grant and is recorded as granted.
GrantOrRecord(S, e) ==
  IF Upstreams(e) # {} THEN notify_advance_grant_if_safe(S, e)
  ELSE [S EXCEPT !.node[e].last_granted = S.node[e].next_event]

\* The DNET of i when e has sent a NET: the latest tag of i that can have no
\* effect on the next event of a node downstream of it.
downstream_next_event_tag(N, i, e) ==
  LET Candidate(j) == get_dnet_candidate(N[j].next_event, min_delays[i][j])
      result == IF Leq(Candidate(e), N[i].last_DNET) THEN Candidate(e)
                ELSE Earliest({Candidate(j) : j \in {k \in Fed \ {i} : IsUpstream(i, k)}}) IN
  IF is_in_zero_delay_cycle(i) \/ is_in_zero_delay_cycle(e) \/ result[1] < 0
  THEN NEVER_TAG ELSE result

NotifyDNET(S, e) ==
  LET dnet(i) == downstream_next_event_tag(S.node, i, e)
      R == {i \in Fed \ {e} : /\ IsUpstream(i, e)
                              /\ S.node[i].last_DNET # dnet(i)
                              /\ Leq(S.node[i].next_event, dnet(i))
                              /\ S.node[i].state # "NOT_CONNECTED"} IN
  [node |-> [i \in Fed |-> IF i \in R THEN [S.node[i] EXCEPT !.last_DNET = dnet(i)] ELSE S.node[i]],
   down |-> [i \in Fed |-> IF i \in R THEN Append(S.down[i], Msg("DNET", dnet(i), NULL))
                           ELSE S.down[i]]]

\* Faulty variant: a message on its way to the federate is forgotten.
NextUnlessInTransit(transit, tag) == tag
\* A message that the federate may not have seen is an event of its.
NextWithInTransit(transit, tag) == lf_tag_min(Earliest(transit), tag)

update_federate_next_event_tag(S, transit, e, tag) ==
  LET N == [S.node EXCEPT ![e].next_event = NextWithInTransit(transit, tag)]
      downstream == {j \in Fed : IsUpstream(e, j)} IN
  NotifyDNET(NotifyEach(GrantOrRecord([S EXCEPT !.node = N], e), InOrder(downstream)), e)

-----------------------------------------------------------------------------
(* The RTI: the thread that serves a federate f                            *)

RTI == [node |-> node, down |-> down]
Receive(f, type) ==
  /\ up[f] # <<>> /\ Head(up[f]).type = type
  /\ confirming[f] = NULL
  /\ up' = [up EXCEPT ![f] = Tail(@)]
Reply(S) == node' = S.node /\ down' = S.down

handle_next_event_tag(f) ==
  /\ Receive(f, "NET")
  /\ Reply(update_federate_next_event_tag(RTI, in_transit[f], f, Head(up[f]).tag))
  /\ UNCHANGED <<network, in_transit, confirming, fed>>

\* Faulty variant: the next event of the receiver is not updated.
ForwardOnly(S, transit, d, tag) == S
EventEarlier(S, transit, d, tag) ==
  IF Less(tag, S.node[d].next_event) THEN update_federate_next_event_tag(S, transit, d, tag)
  ELSE S

\* The message is forwarded and remembered before anybody is granted a tag.
handle_timed_message(f) ==
  LET m == Head(up[f])
      d == m.conn.to
      forwarded == [RTI EXCEPT !.down = Send(@, d, m)]
      transit == IF Less(node[d].completed, m.tag) THEN in_transit[d] \cup {m.tag}
                 ELSE in_transit[d] IN
  /\ Receive(f, "MSG")
  /\ IF node[d].state = "NOT_CONNECTED"
     THEN UNCHANGED <<in_transit, node, down>>
     ELSE /\ in_transit' = [in_transit EXCEPT ![d] = transit]
          /\ Reply(EventEarlier(forwarded, transit, d, m.tag))
  /\ UNCHANGED <<network, confirming, fed>>

handle_port_absent_message(f) ==
  LET m == Head(up[f]) IN
  /\ Receive(f, "ABSENT")
  /\ down' = IF node[m.conn.to].state = "NOT_CONNECTED" THEN down ELSE Send(down, m.conn.to, m)
  /\ UNCHANGED <<network, node, in_transit, confirming, fed>>

\* The mutex is released between the two parts of the handler of an LTC.
handle_latest_tag_confirmed(f) ==
  LET completed == Head(up[f]).tag
      S == [RTI EXCEPT !.node[f].completed = completed] IN
  /\ Receive(f, "LTC")
  /\ confirming' = [confirming EXCEPT ![f] = completed]
  /\ Reply(NotifyEach(S, InTurn([d \in Downstreams(f) |-> <<d>> \o DownstreamOrder(d)])))
  /\ UNCHANGED <<network, in_transit, fed>>

remove_up_to_completed(f) ==
  /\ confirming[f] # NULL
  /\ confirming' = [confirming EXCEPT ![f] = NULL]
  /\ in_transit' = [in_transit EXCEPT ![f] = {t \in @ : Less(confirming[f], t)}]
  /\ UNCHANGED <<network, node, up, down, fed>>

NodeLeft(f) ==
  [RTI EXCEPT !.node[f] = [@ EXCEPT !.state = "NOT_CONNECTED", !.next_event = FOREVER_TAG]]
\* Faulty variant: the federates downstream are not told.
DisconnectedSilently(f) == NodeLeft(f)
Disconnected(f) == NotifyEach(NodeLeft(f), DownstreamOrder(f))

handle_federate_resign(f) ==
  /\ Receive(f, "RESIGN")
  /\ Reply(Disconnected(f))
  /\ UNCHANGED <<network, in_transit, confirming, fed>>

handle_federate_failed(f) ==
  /\ Receive(f, "FAILED")
  /\ Reply(Disconnected(f))
  /\ UNCHANGED <<network, in_transit, confirming, fed>>

\* The connection to f is closed. Its next event stays what it is, and nobody
\* downstream is told.
connection_closed(f) ==
  /\ Receive(f, "EOF")
  /\ node' = [node EXCEPT ![f].state = "NOT_CONNECTED"]
  /\ UNCHANGED <<network, in_transit, confirming, down, fed>>

ServeFederate(f) ==
  \/ handle_next_event_tag(f)
  \/ handle_timed_message(f)
  \/ handle_port_absent_message(f)
  \/ handle_latest_tag_confirmed(f)
  \/ remove_up_to_completed(f)
  \/ handle_federate_resign(f)
  \/ handle_federate_failed(f)
  \/ connection_closed(f)

-----------------------------------------------------------------------------
(* A federate f: what it knows (federate_instance_t and environment_t)      *)

\* Replaces the state of f and sends the messages of ms to the RTI.
Becomes(f, me, ms) ==
  /\ fed' = [fed EXCEPT ![f] = me]
  /\ up' = [up EXCEPT ![f] = @ \o ms]

Event(tag, conn) == [tag |-> tag, conn |-> conn]

\* get_next_event_tag(): never later than the stop tag.
NextEvent(me) == lf_tag_min(Earliest({e.tag : e \in me.queue}), STOP_TAG)

\* The inputs of a cycle without delay whose status f waits for.
Blocking(f, me) == {c \in ConnTo(f) : ZeroDelayCycle(c) /\ Less(me.known[c], me.current)}

\* Faulty variant: a provisional grant is taken for a grant.
GrantedProvisionally(me) == Leq(me.current, me.last_TAG)
Granted(me) ==
  \/ Less(me.current, me.last_TAG)
  \/ me.current = me.last_TAG /\ ~me.provisional

\* May reactions of a level execute? (level < max_level_allowed_to_advance)
Allowed(f, me, level) == Granted(me) \/ \A c \in Blocking(f, me) : level < c.in

\* The LTC of a tag, if it is to be sent, and the state after it.
Confirms(me, tag) == me.received /\ Less(me.last_sent_LTC, tag)
LTC(me, tag) == IF Confirms(me, tag) THEN <<Msg("LTC", tag, NULL)>> ELSE <<>>
Confirmed(me, tag) == IF Confirms(me, tag) THEN [me EXCEPT !.last_sent_LTC = tag] ELSE me

-----------------------------------------------------------------------------
(* The workers of f                                                        *)

Working(f, pc) ==
  /\ fed[f].pc = pc /\ ~fed[f].failed
  /\ UNCHANGED <<network, node, in_transit, confirming, down>>

\* Is the NET of a tag sent although it is granted already?
NeededIfGranted(me, tag) ==
  \/ ~me.received_any_DNET
  \/ Less(me.last_DNET, tag) /\ Leq(me.last_sent_NET, me.last_DNET)
NeededIfNotGranted(f, me, tag) ==
  \/ Less(me.last_DNET, tag)
  \/ Upstreams(f) # {} /\ Less(me.last_TAG, tag)
Needed(f, me, tag) ==
  IF Leq(tag, me.last_TAG) THEN NeededIfGranted(me, tag) ELSE NeededIfNotGranted(f, me, tag)

NET(f, me, tag) == IF Needed(f, me, tag) THEN <<Msg("NET", tag, NULL)>> ELSE <<>>
Announced(f, me, tag) ==
  IF Needed(f, me, tag) THEN [me EXCEPT !.last_sent_NET = tag, !.last_skipped_NET = NEVER_TAG]
  ELSE [me EXCEPT !.last_skipped_NET = tag]

\* lf_send_next_event_tag(): announce the tag after the messages ms and wait
\* for its grant, unless it is granted or f has no upstream federate.
send_next_event_tag(f, me, tag, ms) ==
  LET pc == IF Leq(tag, me.last_TAG) \/ Upstreams(f) = {} THEN "advance" ELSE "wait" IN
  Becomes(f, [Announced(f, me, tag) EXCEPT !.pc = pc, !.asked = tag, !.signalled = FALSE],
          ms \o NET(f, me, tag))

\* _lf_initialize_start_tag(): f executes the start tag, its current tag.
Start(f) ==
  /\ Working(f, "start")
  /\ send_next_event_tag(f, fed[f], fed[f].current, <<>>)

\* The loop in which f waits for a grant. An event may have become earlier;
\* except at the start, f asks again for a tag that it is not granted.
Wake(f) ==
  LET me == [fed[f] EXCEPT !.signalled = FALSE]
      next == NextEvent(me) IN
  /\ Working(f, "wait")
  /\ fed[f].signalled
  /\ IF Leq(next, me.last_TAG) \/ Leq(me.asked, me.last_TAG)
     THEN IF me.started /\ Less(me.last_TAG, me.asked)
          THEN send_next_event_tag(f, me, next, <<>>)
          ELSE Becomes(f, [me EXCEPT !.pc = "advance"], <<>>)
     ELSE IF next # me.asked
     THEN Becomes(f, [me EXCEPT !.last_sent_NET = next, !.last_skipped_NET = NEVER_TAG],
                  <<Msg("NET", next, NULL)>>)
     ELSE Becomes(f, me, <<>>)

\* Physical time reaches the tag. Messages may have arrived meanwhile.
AdvanceTag(f) ==
  LET me == fed[f]
      next == IF me.started THEN NextEvent(me) ELSE me.current
      popped == {e \in me.queue : e.tag = next} IN
  /\ Working(f, "advance")
  /\ Becomes(f, [me EXCEPT !.pc = "exec", !.started = TRUE, !.current = next,
                           !.queue = @ \ popped, !.level = 0,
                           !.received = @ /\ ~me.started,
                           !.active = next[2] = 0 /\ next[1] \in program.timer[f],
                           !.todo = ({e.conn : e \in popped} \ {NULL}) \cup ConnFrom(f)],
             <<>>)

\* The level of what f does with a connection: receive, or send or not.
LevelOf(f, c) == IF c.to = f THEN c.in ELSE c.out
FirstLevel(f, me, c) == c \in me.todo /\ \A d \in me.todo : LevelOf(f, c) <= LevelOf(f, d)

ExecuteInput(f, c) ==
  LET me == fed[f] IN
  /\ Working(f, "exec")
  /\ c \in ConnTo(f) /\ FirstLevel(f, me, c) /\ Allowed(f, me, c.in)
  /\ Becomes(f, [me EXCEPT !.todo = @ \ {c}, !.received = TRUE, !.active = TRUE, !.level = c.in],
             <<>>)

\* A reaction that was triggered may set the output. A message later than the
\* stop tag is not sent.
SendMessage(f, c) ==
  LET me == fed[f]
      tag == lf_delay_tag(me.current, c.delay)
      sent == ~Less(STOP_TAG, tag) IN
  /\ Working(f, "exec")
  /\ c \in ConnFrom(f) /\ FirstLevel(f, me, c) /\ Allowed(f, me, c.out)
  /\ me.active
  /\ Becomes(f, [me EXCEPT !.todo = @ \ {c}, !.level = c.out,
                           !.last_DNET = IF sent THEN lf_tag_min(@, tag) ELSE @],
             IF sent THEN <<Msg("MSG", tag, c)>> ELSE <<>>)

\* An output that is not set is reported in a cycle without delay.
SendAbsent(f, c) ==
  LET me == fed[f] IN
  /\ Working(f, "exec")
  /\ c \in ConnFrom(f) /\ FirstLevel(f, me, c) /\ Allowed(f, me, c.out)
  /\ me.active => ~c.always
  /\ Becomes(f, [me EXCEPT !.todo = @ \ {c}, !.level = c.out],
             IF ZeroDelayCycle(c) THEN <<Msg("ABSENT", lf_delay_strict(me.current, c.delay), c)>>
             ELSE <<>>)

\* The tag is complete when no level is left that an input could trigger.
Complete(f) ==
  LET me == fed[f]
      after == Confirmed(me, me.current) IN
  /\ Working(f, "exec")
  /\ me.todo = {}
  /\ Granted(me) \/ Blocking(f, me) = {}
  /\ IF Leq(STOP_TAG, me.current)
     THEN Becomes(f, [after EXCEPT !.pc = "stopping"], LTC(me, me.current))
     ELSE send_next_event_tag(f, after, NextEvent(me), LTC(me, me.current))

\* The last worker leaves, and the federate resigns.
Leave(f) ==
  LET me == fed[f] IN
  /\ Working(f, "stopping")
  /\ Becomes(f, [Announced(f, me, FOREVER_TAG) EXCEPT !.pc = "done"],
             NET(f, me, FOREVER_TAG) \o <<Msg("RESIGN", FOREVER_TAG, NULL)>>)

\* A federate that ends abnormally says so (lf_terminate_execution()), or it
\* is killed and the RTI finds its connection closed.
Fail(f) ==
  /\ f \in program.mayfail /\ ~fed[f].failed /\ fed[f].pc \notin {"stopping", "done", "fatal"}
  /\ \E type \in {"FAILED", "EOF"} :
       Becomes(f, [fed[f] EXCEPT !.failed = TRUE], <<Msg(type, FOREVER_TAG, NULL)>>)
  /\ UNCHANGED <<network, node, in_transit, confirming, down>>

Work(f) ==
  \/ Start(f) \/ Wake(f) \/ AdvanceTag(f) \/ Complete(f) \/ Leave(f)
  \/ \E c \in program.conn : ExecuteInput(f, c) \/ SendMessage(f, c) \/ SendAbsent(f, c)

-----------------------------------------------------------------------------
(* The listener of f (listen_to_rti_net())                                 *)

Hear(f, type) ==
  /\ down[f] # <<>> /\ Head(down[f]).type = type
  /\ fed[f].pc # "fatal" /\ ~fed[f].failed /\ fed[f].dnet = NULL
  /\ down' = [down EXCEPT ![f] = Tail(@)]
  /\ UNCHANGED <<network, node, in_transit, confirming>>

handle_tag_advance_grant(f) ==
  LET TAG == Head(down[f]).tag
      me == [fed[f] EXCEPT !.known = [c \in DOMAIN @ |-> lf_tag_max(@[c], TAG)]] IN
  /\ Hear(f, "TAG")
  /\ Becomes(f, IF Less(TAG, me.last_TAG) THEN me
                ELSE [me EXCEPT !.last_TAG = TAG, !.provisional = FALSE, !.signalled = TRUE],
             <<>>)

\* A federate that is beyond the tag confirms it; one that is not yet there
\* gets a dummy event, so that it goes there.
handle_provisional_tag_advance_grant(f) ==
  LET PTAG == Head(down[f]).tag
      me == [fed[f] EXCEPT !.last_TAG = PTAG, !.provisional = TRUE, !.signalled = TRUE] IN
  /\ Hear(f, "PTAG")
  /\ IF Less(PTAG, fed[f].last_TAG) \/ (PTAG = fed[f].last_TAG /\ ~fed[f].provisional)
     THEN Becomes(f, [fed[f] EXCEPT !.pc = "fatal"], <<>>)
     ELSE IF Less(PTAG, me.current)
     THEN Becomes(f, Confirmed(me, PTAG), LTC(me, PTAG))
     ELSE IF me.current = PTAG \/ PTAG[1] = FOREVER
     THEN Becomes(f, me, <<>>)
     ELSE Becomes(f, [me EXCEPT !.queue = @ \cup {Event(PTAG, NULL)}], <<>>)

\* update_last_known_status_on_input_port()
Known(me, c, tag) ==
  LET t == lf_tag_max(tag, me.current) IN
  IF t = me.known[c] THEN [me EXCEPT !.known[c] = <<t[1], Increment(t[2])>>, !.signalled = TRUE]
  ELSE IF Less(me.known[c], t) THEN [me EXCEPT !.known[c] = t, !.signalled = TRUE]
  ELSE me

\* handle_tagged_message(): the message is for the tag being executed and
\* its reaction is triggered, or it is for a later tag. Any other message, and
\* a message that arrives at the stop tag, is a fatal error.
handle_tagged_message(f) ==
  LET m == Head(down[f])
      me == Known(fed[f], m.conn, m.tag)
      now == m.tag = me.current /\ Less(fed[f].known[m.conn], m.tag) /\ me.started
      tardy == Leq(m.tag, me.current) \/ Leq(STOP_TAG, me.current) IN
  /\ Hear(f, "MSG")
  /\ Becomes(f, IF now THEN [me EXCEPT !.todo = @ \cup {m.conn}]
                ELSE IF me.started /\ tardy THEN [me EXCEPT !.pc = "fatal"]
                ELSE [me EXCEPT !.queue = @ \cup {Event(m.tag, m.conn)}, !.signalled = TRUE],
             <<>>)

HandlePortAbsent(f) ==
  LET m == Head(down[f]) IN
  /\ Hear(f, "ABSENT")
  /\ Becomes(f, Known(fed[f], m.conn, m.tag), <<>>)

\* No mutex is taken: the worker may act between the two steps.
handle_downstream_next_event_tag(f) ==
  LET DNET == Head(down[f]).tag
      me == [fed[f] EXCEPT !.received_any_DNET = TRUE, !.dnet = DNET]
      skipped == me.last_skipped_NET IN
  /\ Hear(f, "DNET")
  /\ IF Less(DNET, skipped)
     THEN Becomes(f, [me EXCEPT !.last_sent_NET = skipped, !.last_skipped_NET = NEVER_TAG],
                  <<Msg("NET", skipped, NULL)>>)
     ELSE Becomes(f, me, <<>>)
StoreDNET(f) ==
  /\ fed[f].dnet # NULL /\ ~fed[f].failed
  /\ Becomes(f, [fed[f] EXCEPT !.last_DNET = fed[f].dnet, !.dnet = NULL], <<>>)
  /\ UNCHANGED <<network, node, in_transit, confirming, down>>

Listen(f) ==
  \/ handle_tag_advance_grant(f)
  \/ handle_provisional_tag_advance_grant(f)
  \/ handle_tagged_message(f)
  \/ HandlePortAbsent(f)
  \/ handle_downstream_next_event_tag(f)
  \/ StoreDNET(f)

-----------------------------------------------------------------------------
\* A federate without connections has no part in the program.
Takes(p, f) == \E c \in p.conn : f \in {c.from, c.to}

InitialNode(p, f) ==
  [state |-> IF Takes(p, f) THEN "GRANTED" ELSE "NOT_CONNECTED", completed |-> NEVER_TAG, last_granted |-> NEVER_TAG,
   last_provisionally_granted |-> NEVER_TAG, next_event |-> NEVER_TAG, last_DNET |-> NEVER_TAG]

InitialFed(p, f) ==
  [pc |-> IF Takes(p, f) THEN "start" ELSE "done", failed |-> FALSE, started |-> FALSE, current |-> ZERO_TAG,
   queue |-> {Event(<<t, 0>>, NULL) : t \in p.timer[f] \ {0}},
   known |-> [c \in {d \in p.conn : d.to = f} |-> NEVER_TAG],
   todo |-> {}, level |-> 0, active |-> FALSE, received |-> FALSE,
   last_TAG |-> NEVER_TAG, provisional |-> FALSE, asked |-> NEVER_TAG, signalled |-> FALSE,
   last_sent_LTC |-> NEVER_TAG, last_sent_NET |-> NEVER_TAG, last_skipped_NET |-> NEVER_TAG,
   last_DNET |-> NEVER_TAG, received_any_DNET |-> FALSE, dnet |-> NULL]

Init ==
  /\ program \in Programs
  /\ min_delays = MinDelays(program.conn)
  /\ node = [f \in Fed |-> InitialNode(program, f)]
  /\ in_transit = [f \in Fed |-> {}]
  /\ confirming = [f \in Fed |-> NULL]
  /\ up = [f \in Fed |-> <<>>]
  /\ down = [f \in Fed |-> <<>>]
  /\ fed = [f \in Fed |-> InitialFed(program, f)]

Next == \E f \in Fed : ServeFederate(f) \/ Work(f) \/ Listen(f) \/ Fail(f)

\* The threads run: those of the RTI handle what they receive, and the workers
\* and the listener of every federate do what they can.
Taken(f) == up[f] # <<>> /\ up' = [up EXCEPT ![f] = Tail(@)]
Fairness ==
  \A f \in Fed : /\ WF_up(Taken(f)) /\ WF_vars(remove_up_to_completed(f))
                 /\ WF_vars(Work(f)) /\ WF_vars(Listen(f))

Spec == Init /\ [][Next]_vars /\ Fairness

-----------------------------------------------------------------------------
Messages ==
  [type : {"NET", "LTC", "RESIGN", "FAILED", "EOF", "TAG", "PTAG", "DNET"}, tag : Tag, conn : {NULL}]
    \cup [type : {"MSG", "ABSENT"}, tag : Tag, conn : program.conn]

\* Type correctness.
TypeOK ==
  /\ program \in Programs
  /\ min_delays \in [Fed -> [Fed -> Tag]]
  /\ node \in [Fed -> [state : {"GRANTED", "NOT_CONNECTED"}, completed : Tag, last_granted : Tag,
                       last_provisionally_granted : Tag, next_event : Tag, last_DNET : Tag]]
  /\ in_transit \in [Fed -> SUBSET Tag]
  /\ confirming \in [Fed -> Tag \cup {NULL}]
  /\ \A f \in Fed : Range(up[f]) \cup Range(down[f]) \subseteq Messages
  /\ \A f \in Fed :
       /\ fed[f].pc \in {"start", "wait", "advance", "exec", "stopping", "done", "fatal"}
       /\ fed[f].current \in Tag /\ fed[f].last_TAG \in Tag /\ fed[f].asked \in Tag
       /\ fed[f].known \in [ConnTo(f) -> Tag]
       /\ fed[f].todo \subseteq ConnTo(f) \cup ConnFrom(f)
       /\ fed[f].queue \subseteq [tag : Tag, conn : ConnTo(f) \cup {NULL}]
       /\ fed[f].dnet \in Tag \cup {NULL}

\* "Centralized coordination should not have these types of messages"
\* (federate.c:363-380): no message reaches a federate at or after its tag, no
\* provisional grant comes after a later grant.
NoTardyMessage == \A f \in Fed : fed[f].pc # "fatal"

\* The tags that f is executing or will execute without further messages.
Executes(f) ==
  LET me == fed[f] IN
  (IF me.pc = "exec" \/ ~me.started THEN {me.current} ELSE {})
    \cup (IF me.pc \in {"stopping", "done"} THEN {} ELSE {NextEvent(me)})
    \cup {m.tag : m \in {n \in Range(down[f]) : n.type = "MSG"}}

\* What the RTI takes for the next event of f is never later than one that f
\* is executing or has before it, the messages on their way to f included. A
\* tag that f visits for a PTAG alone is no event.
NextEventSound ==
  \A f \in {g \in Fed : ~fed[g].failed} : \A t \in Executes(f) :
    t = node[f].last_provisionally_granted \/ Leq(Heard(node[f].next_event), t)

\* The reactions of a tag execute in the order of their levels, also those of
\* messages that arrive while the tag is being executed.
InLevelOrder ==
  \A f \in Fed : fed[f].pc = "exec" => \A c \in fed[f].todo : LevelOf(f, c) >= fed[f].level

\* net_common.h:406-428: after a TAG of a tag the RTI forwards no message with
\* that tag or an earlier one, after a PTAG none with an earlier one; with the
\* tag of a PTAG (rti_common.c:229-235), messages on the connections of a cycle
\* without delay only.
GrantKept ==
  [][\A f \in Fed : \A i \in (Len(down[f]) + 1) .. Len(down'[f]) :
       down'[f][i].type = "MSG" =>
         /\ Less(node[f].last_granted, down'[f][i].tag)
         /\ Leq(node[f].last_provisionally_granted, down'[f][i].tag)
         /\ down'[f][i].tag = node[f].last_provisionally_granted => ZeroDelayCycle(down'[f][i].conn)]_vars

\* The federation does what coordination promises.
InFlight(f) ==
  {m \in (UNION {Range(up[g]) : g \in Fed}) \cup Range(down[f]) : m.type = "MSG" /\ m.conn.to = f}
Order == INSTANCE TagOrder WITH
  Message <- [tag : (0 .. StopTime) \X Microstep, conn : UNION {p.conn : p \in Programs}],
  tag <- [f \in Fed |-> IF fed[f].started THEN fed[f].current ELSE NEVER_TAG],
  busy <- [f \in Fed |-> fed[f].pc = "exec"],
  failed <- {f \in Fed : fed[f].failed},
  inbox <- [f \in Fed |-> IF fed[f].failed THEN {} ELSE {Event(m.tag, m.conn) : m \in InFlight(f)}
                            \cup {e \in fed[f].queue : e.conn # NULL}]
InTagOrder == Order!Spec

\* Every federate executes its stop tag and resigns, whichever others fail. The
\* RTI waits for ever for those whose connection is closed without a message,
\* and with it the federates downstream of them.
Left(f) == fed[f].pc = "done" \/ fed[f].failed
Lost(f) == node[f].state = "NOT_CONNECTED" /\ node[f].next_event # FOREVER_TAG
AllResign == <>(\A f \in Fed : Left(f) \/ \E g \in Fed : Lost(g) /\ IsUpstream(g, f))
=============================================================================
