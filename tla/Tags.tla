-------------------------------- MODULE Tags --------------------------------
(***************************************************************************)
(* Tags and the arithmetic of delays (tag.c): a tag is a time and a        *)
(* microstep, compared lexicographically. Times are integers between NEVER *)
(* and FOREVER, microsteps are unsigned and at most UINT_MAX.              *)
(***************************************************************************)
EXTENDS Integers

CONSTANTS NEVER, FOREVER, UINT_MAX

ASSUME TagsAssumption ==
  /\ NEVER \in Int /\ NEVER < -1
  /\ FOREVER \in Int /\ FOREVER > 0
  /\ UINT_MAX \in Nat /\ UINT_MAX > 0

Microstep == 0 .. UINT_MAX
Tag == (NEVER .. FOREVER) \X Microstep

\* The start tag is the origin of time.
NEVER_TAG == <<NEVER, 0>>
FOREVER_TAG == <<FOREVER, UINT_MAX>>
ZERO_TAG == <<0, 0>>

\* lf_tag_compare(a, b) < 0 and lf_tag_compare(a, b) <= 0
Less(a, b) == a[1] < b[1] \/ (a[1] = b[1] /\ a[2] < b[2])
Leq(a, b) == a = b \/ Less(a, b)

lf_tag_min(a, b) == IF Less(a, b) THEN a ELSE b
lf_tag_max(a, b) == IF Less(a, b) THEN b ELSE a

\* The least of a set of tags, FOREVER_TAG of the empty set.
Earliest(S) ==
  CHOOSE t \in S \cup {FOREVER_TAG} : \A u \in S \cup {FOREVER_TAG} : Leq(t, u)

Increment(m) == IF m = UINT_MAX THEN 0 ELSE m + 1

lf_time_add(a, b) ==
  IF a = NEVER \/ b = NEVER THEN NEVER
  ELSE IF a = FOREVER \/ b = FOREVER \/ a + b > FOREVER THEN FOREVER
  ELSE IF a + b < NEVER THEN NEVER
  ELSE a + b

\* A positive time in b loses the microstep of a; a microstep that overflows
\* makes the sum FOREVER_TAG.
lf_tag_add(a, b) ==
  LET time == lf_time_add(a[1], b[1])
      m == (IF b[1] > 0 THEN 0 ELSE a[2]) + b[2] IN
  IF time = FOREVER \/ (time # NEVER /\ m > UINT_MAX) THEN FOREVER_TAG
  ELSE IF time = NEVER THEN NEVER_TAG
  ELSE <<time, m>>

\* A negative interval is no delay, the interval 0 is one microstep.
lf_delay_tag(tag, interval) ==
  IF tag[1] = NEVER \/ interval < 0 THEN tag
  ELSE IF tag[1] >= FOREVER - interval THEN FOREVER_TAG
  ELSE IF interval = 0 THEN <<tag[1], Increment(tag[2])>>
  ELSE <<tag[1] + interval, 0>>

Finite(tag) == tag[1] # NEVER /\ tag[1] # FOREVER

lf_delay_strict(tag, interval) ==
  LET result == lf_delay_tag(tag, interval) IN
  IF interval \notin {0, NEVER, FOREVER} /\ Finite(result)
  THEN <<result[1] - 1, UINT_MAX>>
  ELSE result

\* Faulty variant: the microstep is decremented without a look at zero.
latest_earlier_unchecked(tag) ==
  IF tag \in {NEVER_TAG, FOREVER_TAG} THEN tag ELSE <<tag[1], tag[2] - 1>>
lf_tag_latest_earlier(tag) ==
  IF tag \in {NEVER_TAG, FOREVER_TAG} THEN tag
  ELSE IF tag[2] = 0 THEN <<tag[1] - 1, UINT_MAX>>
  ELSE <<tag[1], tag[2] - 1>>

\* The latest tag that, delayed by minimum_delay, is not after next_event_tag.
get_dnet_candidate(next_event_tag, minimum_delay) ==
  LET t == next_event_tag[1] - minimum_delay[1]
      m == next_event_tag[2] - minimum_delay[2] IN
  IF next_event_tag[1] = NEVER \/ Less(next_event_tag, minimum_delay) THEN NEVER_TAG
  ELSE IF next_event_tag[1] = FOREVER THEN FOREVER_TAG
  ELSE IF m < 0 THEN <<t - 1, UINT_MAX>>
  ELSE IF minimum_delay[1] = 0 THEN <<t, m>>
  ELSE <<t, UINT_MAX>>
=============================================================================
