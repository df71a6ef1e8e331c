---------------------------- MODULE ReactionOrder ----------------------------
(***************************************************************************)
(* What a scheduler promises the reactions of a program: within one tag a  *)
(* reaction runs at most once, after every triggered reaction of a lower   *)
(* level has completed, and the next tag begins only when all reactions of *)
(* this one have completed.                                                *)
(***************************************************************************)
EXTENDS Naturals

CONSTANTS
  Reaction,
  Level,     \* Level[r]: the level of reaction r
  Triggers   \* Triggers[r]: the reactions an output of r may trigger

VARIABLES
  queued,    \* triggered at the current tag, not started
  executing  \* started, not completed

vars == <<queued, executing>>

TypeOK == queued \subseteq Reaction /\ executing \subseteq Reaction

\* The first tag begins with what startup and the timers trigger.
Init == queued \in SUBSET Reaction /\ executing = {}

Start(r) ==
  /\ r \in queued
  /\ \A q \in queued \cup executing : Level[r] <= Level[q]
  /\ queued' = queued \ {r}
  /\ executing' = executing \cup {r}

Trigger(r, s) ==
  /\ r \in executing /\ s \in Triggers[r] /\ s \notin queued \cup executing
  /\ queued' = queued \cup {s}
  /\ UNCHANGED executing

Complete(r) ==
  /\ r \in executing
  /\ executing' = executing \ {r}
  /\ UNCHANGED queued

NewTag(T) ==
  /\ queued = {} /\ executing = {}
  /\ queued' = T
  /\ UNCHANGED executing

Next ==
  \/ \E r \in Reaction : Start(r) \/ Complete(r)
  \/ \E r, s \in Reaction : Trigger(r, s)
  \/ \E T \in SUBSET Reaction : NewTag(T)

Spec == Init /\ [][Next]_vars
=============================================================================
