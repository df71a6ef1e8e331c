------------------------------ MODULE TagOrder ------------------------------
(***************************************************************************)
(* What coordination promises a federation: every federate executes its    *)
(* tags in increasing order, a tag is finished only when every message     *)
(* sent to it for that tag has been consumed, and no message is ever sent  *)
(* to a federate for a tag that it has finished or passed.                 *)
(***************************************************************************)
CONSTANTS Fed, Message, Less(_, _)

VARIABLES
  tag,   \* tag[f]: the tag that f executes or executed last
  busy,  \* busy[f]: f is executing tag[f]
  inbox, \* inbox[f]: messages sent to f and not consumed yet
  failed \* the federates that have failed; what is sent to them is lost

\* f may still consume a message of tag t.
Open(f, t) == Less(tag[f], t) \/ (busy[f] /\ tag[f] = t)

Send(f, m) ==
  /\ f \notin failed
  /\ Open(f, m.tag)
  /\ inbox' = [inbox EXCEPT ![f] = @ \cup {m}]
  /\ UNCHANGED <<tag, busy, failed>>

\* The messages of the new tag that have arrived are consumed at once.
Advance(f) ==
  /\ ~busy[f] /\ f \notin failed
  /\ Less(tag[f], tag'[f])
  /\ \A m \in inbox[f] : ~Less(m.tag, tag'[f])
  /\ tag' = [tag EXCEPT ![f] = tag'[f]]
  /\ busy' = [busy EXCEPT ![f] = TRUE]
  /\ \E S \in SUBSET {m \in inbox[f] : m.tag = tag'[f]} :
       inbox' = [inbox EXCEPT ![f] = @ \ S]
  /\ UNCHANGED failed

\* A message that arrives for the tag being executed.
Consume(f) ==
  /\ busy[f]
  /\ \E m \in inbox[f] : m.tag = tag[f] /\ inbox' = [inbox EXCEPT ![f] = @ \ {m}]
  /\ UNCHANGED <<tag, busy, failed>>

Finish(f) ==
  /\ busy[f]
  /\ \A m \in inbox[f] : Less(tag[f], m.tag)
  /\ busy' = [busy EXCEPT ![f] = FALSE]
  /\ UNCHANGED <<tag, inbox, failed>>

Fail(f) ==
  /\ f \notin failed
  /\ failed' = failed \cup {f}
  /\ inbox' = [inbox EXCEPT ![f] = {}]
  /\ UNCHANGED <<tag, busy>>

Init ==
  /\ \A f, g \in Fed : tag[f] = tag[g]
  /\ busy = [f \in Fed |-> FALSE]
  /\ inbox = [f \in Fed |-> {}]
  /\ failed = {}

Next ==
  \E f \in Fed :
    (\E m \in Message : Send(f, m)) \/ Advance(f) \/ Consume(f) \/ Finish(f) \/ Fail(f)

Spec == Init /\ [][Next]_<<tag, busy, inbox, failed>>
=============================================================================
