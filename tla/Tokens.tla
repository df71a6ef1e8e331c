------------------------------- MODULE Tokens -------------------------------
(***************************************************************************)
(* Reference-counted payloads (lf_token.c) and the event queue that        *)
(* carries them (schedule.c, reactor_common.c): ports and actions hold     *)
(* their latest value in a template token, which is reused when nobody     *)
(* else refers to it.                                                      *)
(*                                                                         *)
(* One worker executes reactions: the counts are not atomic and not all    *)
(* under a mutex. A minimum spacing of zero is left out.                   *)
(***************************************************************************)
EXTENDS Tags, FiniteSets, SequencesExt

CONSTANTS
  Token,         \* the addresses tokens are allocated at
  NULL,          \* no token, no payload
  Value,         \* payloads
  Port, Action,  \* the templates
  Programs,      \* what is declared of ports and actions
  Delay,         \* the delays an action is scheduled with
  stop_tag,
  BinLimit,      \* _LF_TOKEN_RECYCLING_BIN_SIZE_LIMIT
  MaxEvents      \* bound: events in the queue when another is scheduled

Template == Port \cup Action

ASSUME TokensAssumption ==
  /\ NULL \notin Token \cup Value
  /\ Port \cap Action = {} /\ IsFiniteSet(Template)
  /\ \E f \in [Template -> Token] : IsInjective(f) \* memory for the templates
  /\ Programs \subseteq [num_destinations : [Port -> Nat],
                         min_spacing : [Action -> Int \ {0}], \* negative if there is none
                         policy : [Action -> {"defer", "drop", "replace", "update"}],
                         is_physical : [Action -> BOOLEAN]]
  /\ Delay \subseteq Nat /\ stop_tag \in Tag /\ Finite(stop_tag)
  /\ BinLimit \in Nat /\ MaxEvents \in Nat

VARIABLES
  program,
  heap,        \* the tokens: reference counts, payloads, the recycling bin, the templates
  copies,      \* _lf_tokens_allocated_in_reactions
  event_q,     \* the events in the queue, each at the place of its own
  last_tag,    \* of the last event scheduled for an action
  current_tag,
  terminated,
  lost         \* history: tokens whose count includes a reference nobody will drop

vars == <<program, heap, copies, event_q, last_tag, current_tag, terminated, lost>>

Events == Range(event_q)
Scheduled(queue) == Cardinality(DOMAIN queue)

num_destinations(p) == program.num_destinations[p]
min_spacing(a) == program.min_spacing[a]
policy(a) == program.policy[a]

Event(trigger, tag, token) == [trigger |-> trigger, tag |-> tag, token |-> token]

-----------------------------------------------------------------------------
(* Operations on tokens                                                    *)

recycle(bin, t) == IF Cardinality(bin) < BinLimit THEN bin \cup {t} ELSE bin

\* The payload goes with the last reference, the token is recycled or freed.
_lf_free_token(h, t) ==
  IF h.ref_count[t] > 0 THEN h
  ELSE [h EXCEPT !.value[t] = NULL, !.bin = recycle(@, t)]

_lf_done_using(h, t) ==
  IF t = NULL THEN h
  ELSE IF h.ref_count[t] = 0 THEN h
  ELSE _lf_free_token([h EXCEPT !.ref_count[t] = @ - 1], t)

\* Where a new token may be: in the bin if it is not empty.
Fresh(h) == IF h.bin # {} THEN h.bin ELSE {t \in Token : h.ref_count[t] = 0}

_lf_new_token(h, t, v) ==
  [h EXCEPT !.bin = @ \ {t}, !.value[t] = v, !.ref_count[t] = 0]

Referenced(h, t) == IF t = NULL THEN h ELSE [h EXCEPT !.ref_count[t] = @ + 1]

\* Faulty variant: a token is reused whoever else refers to it.
_lf_get_token_shared(h, p, fresh) ==
  IF h.template[p] # NULL THEN [h EXCEPT !.value[h.template[p]] = NULL]
  ELSE [Referenced(_lf_new_token(h, fresh, NULL), fresh) EXCEPT !.template[p] = fresh]
\* The template token is reused if the template is all that refers to it.
_lf_get_token(h, p, fresh) ==
  LET old == h.template[p]
      new == Referenced(_lf_new_token(h, fresh, NULL), fresh) IN
  IF old # NULL /\ h.ref_count[old] = 1
  THEN [h EXCEPT !.value[old] = NULL]
  ELSE _lf_done_using([new EXCEPT !.template[p] = fresh], old)

_lf_initialize_token_with_value(h, p, fresh, v) ==
  LET g == _lf_get_token(h, p, fresh) IN [g EXCEPT !.value[g.template[p]] = v]

_lf_replace_template_token(h, p, t) ==
  IF h.template[p] = t THEN h
  ELSE [Referenced(_lf_done_using(h, h.template[p]), t) EXCEPT !.template[p] = t]

\* May the receiver of a port write to the payload itself?
MayWrite(h, p) == num_destinations(p) = 1 /\ h.ref_count[h.template[p]] = 1

\* The tokens of a list are done with one after the other.
DoneUsing(h, tokens) ==
  LET after[n \in 0 .. Len(tokens)] ==
        IF n = 0 THEN h ELSE _lf_done_using(after[n - 1], tokens[n]) IN
  after[Len(tokens)]

-----------------------------------------------------------------------------
(* Scheduling                                                              *)

\* Where the queue has an event of an action for a tag.
Queued(a, tag) == {i \in DOMAIN event_q : event_q[i].trigger = a /\ event_q[i].tag = tag}
Later(tag) == <<tag[1], tag[2] + 1>>

\* Events of an action without a spacing pile up in microsteps.
PiledUp(a, tag) ==
  CHOOSE u \in {tag} \cup {Later(e.tag) : e \in Events} :
    /\ u[1] = tag[1] /\ u[2] >= tag[2] /\ Queued(a, u) = {}
    /\ \A m \in tag[2] .. u[2] - 1 : Queued(a, <<tag[1], m>>) # {}

Early(a, tag) ==
  /\ min_spacing(a) > 0 /\ last_tag[a] # NEVER_TAG
  /\ last_tag[a][1] + min_spacing(a) > tag[1]

Deferred(a) == <<last_tag[a][1] + min_spacing(a), 0>>

EventTag(a, intended) ==
  LET tag == IF min_spacing(a) < 0 THEN PiledUp(a, intended)
             ELSE IF Early(a, intended) /\ policy(a) \in {"defer", "replace"} THEN Deferred(a)
             ELSE intended IN
  IF tag = current_tag THEN Later(tag) ELSE tag

Discarded(h, token) == _lf_done_using(h, token)

\* An event is put in a free place; the order of the places means nothing.
Enqueue(queue, e) ==
  LET place == CHOOSE i \in 1 .. Scheduled(queue) + 1 : i \notin DOMAIN queue IN
  [i \in DOMAIN queue \cup {place} |-> IF i = place THEN e ELSE queue[i]]
Dequeue(queue, places) == [i \in DOMAIN queue \ places |-> queue[i]]

Insert(a, tag, token, h, queue) ==
  IF Less(stop_tag, tag)
  THEN heap' = Discarded(h, token) /\ event_q' = queue /\ UNCHANGED last_tag
  ELSE /\ heap' = h
       /\ event_q' = Enqueue(queue, Event(a, tag, token))
       /\ last_tag' = [last_tag EXCEPT ![a] = tag]

\* lf_replace_token(): the event keeps one reference to its token, but a token
\* that replaces itself has been counted twice.
ReplaceToken(i, token, h) ==
  LET own == event_q[i].token = token IN
  /\ heap' = IF own THEN h ELSE _lf_done_using(h, event_q[i].token)
  /\ event_q' = [event_q EXCEPT ![i].token = token]
  /\ lost' = IF own THEN lost \cup ({token} \ {NULL}) ELSE lost
  /\ UNCHANGED last_tag

\* The policies of an event that is too early. The event that an update takes
\* from the queue keeps its reference.
lf_schedule_trigger(a, intended, token, h) ==
  LET counted == Referenced(h, token)
      previous == Queued(a, last_tag[a]) IN
  IF Early(a, intended) /\ policy(a) = "drop"
  THEN heap' = _lf_done_using(counted, token) /\ UNCHANGED <<event_q, last_tag, lost>>
  ELSE IF Early(a, intended) /\ policy(a) = "replace" /\ previous # {}
  THEN \E i \in previous : ReplaceToken(i, token, counted)
  ELSE IF Early(a, intended) /\ policy(a) = "update" /\ previous # {}
  THEN \E i \in previous :
         /\ Insert(a, EventTag(a, intended), token, counted, Dequeue(event_q, {i}))
         /\ lost' = lost \cup ({event_q[i].token} \ {NULL})
  ELSE Insert(a, EventTag(a, intended), token, counted, event_q) /\ UNCHANGED lost

\* A physical action is tagged by the clock, which has passed the current time.
IntendedTag(a) ==
  IF program.is_physical[a] THEN {<<t, 0>> : t \in current_tag[1] + 1 .. stop_tag[1] + 1}
  ELSE {lf_delay_tag(current_tag, d) : d \in Delay}

-----------------------------------------------------------------------------
(* What reactions do                                                       *)

\* The tokens a reaction gets from an input, an action or a writable copy.
AtHand == ({heap.template[p] : p \in Template} \cup copies) \ {NULL}

React ==
  /\ ~terminated
  /\ UNCHANGED <<program, current_tag, terminated>>
\* Nothing is scheduled once a reference is lost: the counts stay bounded.
Schedule == React /\ Scheduled(event_q) < MaxEvents /\ lost = {}

OnlyHeap == UNCHANGED <<event_q, last_tag, lost>>

\* lf_set() and lf_set_array()
Set(p) ==
  /\ React /\ OnlyHeap
  /\ \E v \in Value, t \in Fresh(heap) : heap' = _lf_initialize_token_with_value(heap, p, t, v)
  /\ UNCHANGED copies

\* lf_set_token() of a token at hand
SetToken(p) ==
  /\ React /\ OnlyHeap
  /\ \E t \in AtHand : heap' = _lf_replace_template_token(heap, p, t)
  /\ UNCHANGED copies

\* lf_set_token() of a token made by lf_new_token()
SetNewToken(p) ==
  /\ React /\ OnlyHeap
  /\ \E t \in Fresh(heap), v \in Value :
       heap' = _lf_replace_template_token(_lf_new_token(heap, t, v), p, t)
  /\ UNCHANGED copies

\* The receiver of a mutable input gets a payload by lf_writable_copy() and
\* writes to it.
WriteCopy(p) ==
  LET token == heap.template[p] IN
  /\ React /\ OnlyHeap
  /\ token # NULL /\ heap.value[token] # NULL
  /\ \E v \in Value :
       IF MayWrite(heap, p)
       THEN heap' = [heap EXCEPT !.value[token] = v] /\ UNCHANGED copies
       ELSE \E t \in Fresh(heap) :
              /\ heap' = Referenced(_lf_new_token(heap, t, v), t)
              /\ copies' = copies \cup {t}

\* lf_schedule() and lf_schedule_token() of a token at hand
ScheduleToken(a) ==
  /\ Schedule
  /\ \E tag \in IntendedTag(a), t \in AtHand \cup {NULL} : lf_schedule_trigger(a, tag, t, heap)
  /\ UNCHANGED copies

\* lf_schedule_token() of a token made by lf_new_token()
ScheduleNewToken(a) ==
  /\ Schedule
  /\ \E tag \in IntendedTag(a), t \in Fresh(heap), v \in Value :
       lf_schedule_trigger(a, tag, t, _lf_new_token(heap, t, v))
  /\ UNCHANGED copies

\* lf_schedule_value() and _lf_schedule_copy(): the payload is put in the
\* template token, in place of the value the action has now.
ScheduleValue(a) ==
  /\ Schedule
  /\ \E tag \in IntendedTag(a), t \in Fresh(heap), v \in Value :
       LET h == _lf_initialize_token_with_value(heap, a, t, v) IN
       lf_schedule_trigger(a, tag, h.template[a], h)
  /\ UNCHANGED copies

\* A message of another federate, which sends one for each tag: for the
\* current tag it is put in the trigger at once.
Message(a) ==
  /\ Schedule /\ UNCHANGED <<copies, last_tag, lost>>
  /\ min_spacing(a) < 0 /\ ~program.is_physical[a]
  /\ \E t \in Fresh(heap), v \in Value, d \in Delay \cup {-1} :
       LET h == _lf_new_token(heap, t, v)
           tag == lf_delay_tag(current_tag, d) IN
       IF d = -1
       THEN heap' = _lf_replace_template_token(h, a, t) /\ UNCHANGED event_q
       ELSE IF current_tag = stop_tag
       THEN heap' = _lf_free_token(h, t) /\ UNCHANGED event_q
       ELSE IF Less(stop_tag, tag)
       THEN heap' = Discarded(Referenced(h, t), t) /\ UNCHANGED event_q
       ELSE /\ Queued(a, tag) = {}
            /\ heap' = Referenced(h, t) /\ event_q' = Enqueue(event_q, Event(a, tag, t))

-----------------------------------------------------------------------------
(* The next tag                                                            *)

\* Faulty variant: the queue drops its reference first.
PopDoneFirst(h, e) ==
  _lf_replace_template_token(_lf_done_using(h, e.token), e.trigger, e.token)
\* The value of the event becomes the value of its trigger.
Pop(h, e) == _lf_done_using(_lf_replace_template_token(h, e.trigger, e.token), e.token)

\* The events at these places, popped one after the other.
PopEach(h, queue, places) ==
  LET after[n \in 0 .. Len(places)] ==
        IF n = 0 THEN h ELSE Pop(after[n - 1], queue[places[n]]) IN
  after[Len(places)]

EarliestEvent == Earliest({e.tag : e \in Events} \cup {stop_tag})

\* _lf_start_time_step() gives up the copies made in reactions.
NextTag ==
  LET events == {i \in DOMAIN event_q : event_q[i].tag = EarliestEvent} IN
  /\ ~terminated /\ current_tag # stop_tag
  /\ current_tag' = EarliestEvent
  /\ \E order \in SetToSeqs(copies), popped \in SetToSeqs(events) :
       heap' = PopEach(DoneUsing(heap, order), event_q, popped)
  /\ copies' = {}
  /\ event_q' = Dequeue(event_q, events)
  /\ UNCHANGED <<program, last_tag, terminated, lost>>

\* termination() and _lf_free_all_tokens()
Terminate ==
  /\ ~terminated /\ current_tag = stop_tag
  /\ \E order \in SetToSeqs(copies), places \in SetToSeqs(DOMAIN event_q),
        tmplts \in SetToSeqs(Template) :
       LET g == DoneUsing(heap, order)
           h == DoneUsing(g, [n \in DOMAIN places |-> event_q[places[n]].token])
           k == DoneUsing(h, [n \in DOMAIN tmplts |-> h.template[tmplts[n]]]) IN
       heap' = [k EXCEPT !.template = [p \in Template |-> NULL], !.bin = {}]
  /\ copies' = {} /\ event_q' = <<>> /\ terminated' = TRUE
  /\ UNCHANGED <<program, last_tag, current_tag, lost>>

-----------------------------------------------------------------------------
Init ==
  /\ program \in Programs
  /\ \E f \in [Template -> Token] :
       /\ f = CHOOSE g \in [Template -> Token] : IsInjective(g)
       /\ heap = [ref_count |-> [t \in Token |-> IF \E p \in Template : f[p] = t THEN 1 ELSE 0],
                  value |-> [t \in Token |-> NULL], bin |-> {}, template |-> f]
  /\ copies = {} /\ event_q = <<>> /\ lost = {}
  /\ last_tag = [a \in Action |-> NEVER_TAG]
  /\ current_tag = ZERO_TAG /\ terminated = FALSE

Next ==
  \/ \E p \in Port : Set(p) \/ SetToken(p) \/ SetNewToken(p) \/ WriteCopy(p)
  \/ \E a \in Action : ScheduleToken(a) \/ ScheduleNewToken(a) \/ ScheduleValue(a) \/ Message(a)
  \/ NextTag
  \/ Terminate

Spec == Init /\ [][Next]_vars

-----------------------------------------------------------------------------
\* The references to a token: of templates, of queued events, of the list of copies.
References(t) ==
  Cardinality({p \in Template : heap.template[p] = t})
    + Cardinality({i \in DOMAIN event_q : event_q[i].token = t})
    + (IF t \in copies THEN 1 ELSE 0)

\* "Memory is not freed prematurely" and not too late: a token is counted as
\* often as it is referred to, until it is in the recycling bin or freed with
\* its payload. The exceptions are the references that lf_schedule_trigger()
\* loses when an event is updated or replaced by its own token.
Counted ==
  \A t \in Token :
    /\ References(t) <= heap.ref_count[t]
    /\ t \notin lost => References(t) = heap.ref_count[t]
    /\ t \in heap.bin => heap.ref_count[t] = 0
    /\ heap.ref_count[t] = 0 => heap.value[t] = NULL

\* A payload that several hold is not changed under the others: neither by
\* the reuse of a template token nor by a receiver that writes to its input.
SharedUnchanged ==
  [][\A t \in Token : References(t) > 1 /\ References(t)' > 0 =>
       heap.value'[t] = heap.value[t]]_vars
=============================================================================
