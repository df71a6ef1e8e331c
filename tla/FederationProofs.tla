-------------------------- MODULE FederationProofs --------------------------
(***************************************************************************)
(* Centralized coordination, for every program, every number of federates  *)
(* and every range of tags: the arithmetic the RTI decides with, what its  *)
(* handlers and those of the federates change, type correctness, that a    *)
(* federate executes only what it was granted, and that it executes its    *)
(* tags in the order of their levels if the RTI keeps its grants.          *)
(***************************************************************************)
EXTENDS Federation, FiniteSetTheorems, FunctionTheorems, SequenceTheorems,
        WellFoundedInduction, TLAPS

LEMMA TagParts ==
  ASSUME NEW t \in Tag
  PROVE  /\ t[1] \in Int /\ NEVER <= t[1] /\ t[1] <= FOREVER
         /\ t[2] \in Nat /\ t[2] <= UINT_MAX
         /\ t = <<t[1], t[2]>>
BY TagsAssumption, SMT DEF Tag, Microstep

LEMMA TagEquality ==
  ASSUME NEW t \in Tag, NEW u \in Tag
  PROVE  t = u <=> t[1] = u[1] /\ t[2] = u[2]
BY TagParts

\* lf_tag_compare() orders tags: exactly one of before, equal and after holds.
THEOREM TagsAreOrdered ==
  ASSUME NEW a \in Tag, NEW b \in Tag, NEW c \in Tag
  PROVE  /\ Less(a, b) \/ a = b \/ Less(b, a)
         /\ ~(Less(a, b) /\ Leq(b, a))
         /\ Leq(a, b) /\ Leq(b, c) => Leq(a, c)
<1>1. a = b <=> a[1] = b[1] /\ a[2] = b[2]  BY TagEquality
<1>2. b = c <=> b[1] = c[1] /\ b[2] = c[2]  BY TagEquality
<1>3. a = c <=> a[1] = c[1] /\ a[2] = c[2]  BY TagEquality
<1> QED  BY <1>1, <1>2, <1>3, TagParts DEF Less, Leq

\* lf_tag_latest_earlier() is the predecessor: no tag is lost between it and
\* its argument when the RTI bounds a federate from above.
THEOREM LatestEarlierIsPredecessor ==
  ASSUME NEW t \in Tag, t \notin {NEVER_TAG, FOREVER_TAG}, NEW u \in Tag
  PROVE  Less(u, t) <=> Leq(u, lf_tag_latest_earlier(t))
<1>1. t[1] # NEVER \/ t[2] # 0
  BY TagParts DEF NEVER_TAG
<1>2. CASE t[2] = 0
  <2>1. lf_tag_latest_earlier(t) = <<t[1] - 1, UINT_MAX>>
    BY <1>2 DEF lf_tag_latest_earlier
  <2>2. u = <<t[1] - 1, UINT_MAX>> <=> u[1] = t[1] - 1 /\ u[2] = UINT_MAX
    BY TagParts
  <2> QED  BY <1>2, <2>1, <2>2, TagParts, TagsAssumption DEF Less, Leq
<1>3. CASE t[2] # 0
  <2>1. lf_tag_latest_earlier(t) = <<t[1], t[2] - 1>>
    BY <1>3 DEF lf_tag_latest_earlier
  <2>2. u = <<t[1], t[2] - 1>> <=> u[1] = t[1] /\ u[2] = t[2] - 1
    BY TagParts
  <2> QED  BY <1>3, <2>1, <2>2, TagParts, TagsAssumption DEF Less, Leq
<1> QED  BY <1>2, <1>3

\* lf_delay_strict() is the latest tag before the delayed one, for the delays
\* that have one.
THEOREM StrictDelayIsBelow ==
  ASSUME NEW t \in Tag, Finite(t), NEW i \in Int, 0 < i, i < FOREVER,
         Finite(lf_delay_tag(t, i)), NEW u \in Tag
  PROVE  Less(u, lf_delay_tag(t, i)) <=> Leq(u, lf_delay_strict(t, i))
<1>1. lf_delay_tag(t, i) # FOREVER_TAG
  BY TagsAssumption DEF Finite, FOREVER_TAG
<1>2. lf_delay_tag(t, i) = <<t[1] + i, 0>>
  BY <1>1, TagParts, TagsAssumption DEF lf_delay_tag, Finite
<1>3. lf_delay_strict(t, i) = <<t[1] + i - 1, UINT_MAX>>
  BY <1>2, TagParts, TagsAssumption DEF lf_delay_strict
<1>4. u = <<t[1] + i - 1, UINT_MAX>> <=> u[1] = t[1] + i - 1 /\ u[2] = UINT_MAX
  BY TagParts
<1> QED  BY <1>2, <1>3, <1>4, TagParts, TagsAssumption DEF Less, Leq

\* A delay that is not zero keeps tags in order: what is sent later on a
\* connection does not arrive at an earlier tag.
THEOREM DelayKeepsOrder ==
  ASSUME NEW a \in Tag, NEW b \in Tag, NEW i \in Int, 0 < i, Leq(a, b)
  PROVE  Leq(lf_delay_tag(a, i), lf_delay_tag(b, i))
<1>1. a = b <=> a[1] = b[1] /\ a[2] = b[2]  BY TagEquality
<1>2. CASE a[1] = NEVER
  <2>1. lf_delay_tag(a, i) = a  BY <1>2 DEF lf_delay_tag
  <2>2. CASE b[1] = NEVER  BY <2>1, <2>2 DEF lf_delay_tag
  <2>3. CASE b[1] # NEVER
    <3>1. lf_delay_tag(b, i) \in {FOREVER_TAG, <<b[1] + i, 0>>}
      BY <2>3 DEF lf_delay_tag
    <3> QED  BY <1>2, <2>1, <2>3, <3>1, TagParts, TagsAssumption DEF Less, Leq, FOREVER_TAG
  <2> QED  BY <2>2, <2>3
<1>3. CASE a[1] # NEVER
  <2>1. b[1] # NEVER  BY <1>1, <1>3, TagParts, TagsAssumption DEF Less, Leq
  <2>2. CASE b[1] >= FOREVER - i
    <3>1. lf_delay_tag(b, i) = FOREVER_TAG  BY <2>1, <2>2 DEF lf_delay_tag
    <3>2. CASE a[1] >= FOREVER - i
      BY <1>3, <3>1, <3>2 DEF lf_delay_tag, Leq
    <3>3. CASE ~(a[1] >= FOREVER - i)
      <4>1. lf_delay_tag(a, i) = <<a[1] + i, 0>>
        BY <1>3, <3>3 DEF lf_delay_tag
      <4> QED  BY <3>1, <3>3, <4>1, TagParts, TagsAssumption DEF Less, Leq, FOREVER_TAG
    <3> QED  BY <3>2, <3>3
  <2>3. CASE ~(b[1] >= FOREVER - i)
    <3>1. lf_delay_tag(b, i) = <<b[1] + i, 0>>  BY <2>1, <2>3 DEF lf_delay_tag
    <3>2. a[1] <= b[1]  BY <1>1, TagParts DEF Less, Leq
    <3>3. lf_delay_tag(a, i) = <<a[1] + i, 0>>
      BY <1>3, <2>3, <3>2, TagParts, TagsAssumption DEF lf_delay_tag
    <3> QED  BY <3>1, <3>2, <3>3, TagParts DEF Less, Leq
  <2> QED  BY <2>2, <2>3
<1> QED  BY <1>2, <1>3

\* get_dnet_candidate() is exact: an upstream tag reaches no further than the
\* downstream next event tag just when it is not after the candidate, so no
\* NET that matters is suppressed and none that does not is asked for.
THEOREM DnetCandidateIsExact ==
  ASSUME NEW next \in Tag, Finite(next), NEW t \in Tag, Finite(t), Leq(ZERO_TAG, t),
         NEW d \in Tag, Finite(d), 0 <= d[1],
         (IF d[1] > 0 THEN 0 ELSE t[2]) + d[2] <= UINT_MAX
  PROVE  Leq(t, get_dnet_candidate(next, d)) <=> Leq(lf_tag_add(t, d), next)
<1>1. t[1] >= 0
  BY TagParts DEF ZERO_TAG, Less, Leq
<1> DEFINE m == (IF d[1] > 0 THEN 0 ELSE t[2]) + d[2]
<1>2. m \in Nat /\ m <= UINT_MAX
  BY TagParts
<1>3. CASE t[1] + d[1] >= FOREVER
  <2>1. lf_tag_add(t, d) = FOREVER_TAG
    BY <1>1, <1>3, TagParts, TagsAssumption DEF lf_tag_add, lf_time_add, Finite
  <2>2. ~Leq(lf_tag_add(t, d), next)
    BY <2>1, TagParts, TagsAssumption DEF Less, Leq, FOREVER_TAG, Finite
  <2>3. next[1] < t[1] + d[1]
    BY <1>3, TagParts, TagsAssumption DEF Finite
  <2>4. get_dnet_candidate(next, d) \in
          {NEVER_TAG, <<next[1] - d[1] - 1, UINT_MAX>>, <<next[1] - d[1], next[2] - d[2]>>,
           <<next[1] - d[1], UINT_MAX>>}
    BY DEF get_dnet_candidate, Finite
  <2>5. ~Leq(t, get_dnet_candidate(next, d))
    BY <1>1, <2>3, <2>4, TagParts, TagsAssumption DEF Less, Leq, NEVER_TAG
  <2> QED  BY <2>2, <2>5
<1>4. CASE t[1] + d[1] < FOREVER
  <2>1. lf_time_add(t[1], d[1]) = t[1] + d[1]
    BY <1>1, <1>4, TagParts, TagsAssumption DEF lf_time_add, Finite
  <2>2. t[1] + d[1] # NEVER
    BY <1>1, TagParts, TagsAssumption
  <2>3. lf_tag_add(t, d) = <<t[1] + d[1], m>>
    BY <1>2, <1>4, <2>1, <2>2, TagParts, TagsAssumption DEF lf_tag_add
  <2>4. Leq(lf_tag_add(t, d), next) <=>
          t[1] + d[1] < next[1] \/ (t[1] + d[1] = next[1] /\ m <= next[2])
    BY <1>2, <2>3, TagParts DEF Less, Leq
  <2>5. CASE Less(next, d)
    <3>1. get_dnet_candidate(next, d) = NEVER_TAG
      BY <2>5 DEF get_dnet_candidate
    <3>2. ~Leq(t, NEVER_TAG)
      BY <1>1, TagParts, TagsAssumption DEF Less, Leq, NEVER_TAG
    <3> QED  BY <1>1, <1>2, <2>4, <2>5, <3>1, <3>2, TagParts DEF Less
  <2>6. CASE ~Less(next, d) /\ next[2] - d[2] < 0
    <3>1. get_dnet_candidate(next, d) = <<next[1] - d[1] - 1, UINT_MAX>>
      BY <2>6 DEF get_dnet_candidate, Finite
    <3>2. Leq(t, <<next[1] - d[1] - 1, UINT_MAX>>) <=> t[1] <= next[1] - d[1] - 1
      BY TagParts, TagsAssumption DEF Less, Leq
    <3> QED  BY <1>2, <2>4, <2>6, <3>1, <3>2, TagParts
  <2>7. CASE ~Less(next, d) /\ ~(next[2] - d[2] < 0) /\ d[1] = 0
    <3>1. get_dnet_candidate(next, d) = <<next[1] - d[1], next[2] - d[2]>>
      BY <2>7 DEF get_dnet_candidate, Finite
    <3>2. Leq(t, <<next[1] - d[1], next[2] - d[2]>>) <=>
            t[1] < next[1] - d[1] \/ (t[1] = next[1] - d[1] /\ t[2] <= next[2] - d[2])
      BY TagParts, TagsAssumption DEF Less, Leq
    <3> QED  BY <2>4, <2>7, <3>1, <3>2, TagParts
  <2>8. CASE ~Less(next, d) /\ ~(next[2] - d[2] < 0) /\ d[1] # 0
    <3>1. get_dnet_candidate(next, d) = <<next[1] - d[1], UINT_MAX>>
      BY <2>8 DEF get_dnet_candidate, Finite
    <3>2. Leq(t, <<next[1] - d[1], UINT_MAX>>) <=> t[1] <= next[1] - d[1]
      BY TagParts, TagsAssumption DEF Less, Leq
    <3> QED  BY <2>4, <2>8, <3>1, <3>2, TagParts
  <2> QED  BY <2>5, <2>6, <2>7, <2>8
<1> QED  BY <1>3, <1>4, TagParts, TagsAssumption

\* The intervals 0 .. m - 1 are ordered by inclusion as the numbers m are.
LEMMA LeastNumber ==
  ASSUME NEW T, T \subseteq Nat, T # {}
  PROVE  \E m \in T : \A k \in T : m <= k
<1> DEFINE Below(m) == 0 .. m - 1
           U == {Below(m) : m \in T}
           R == StrictSubsetOrdering(Nat)
<1>1. IsWellFoundedOn(R, FiniteSubsetsOf(Nat))
  BY FS_StrictSubsetOrderingWellFounded
<1>2. U \subseteq FiniteSubsetsOf(Nat) /\ U # {}
  <2>1. ASSUME NEW m \in T PROVE Below(m) \in FiniteSubsetsOf(Nat)
    <3>1. m - 1 \in Int
      OBVIOUS
    <3>2. IsFiniteSet(Below(m))
      BY <3>1, FS_Interval
    <3> QED
      BY <3>2 DEF FiniteSubsetsOf
  <2> QED
    BY <2>1
<1>3. PICK x \in U : \A y \in U : <<y, x>> \notin R
  <2> HIDE DEF U, R
  <2> QED
    BY <1>1, <1>2, WFMin
<1>4. PICK m \in T : x = Below(m)
  BY <1>3
<1>5. ASSUME NEW k \in T, k < m PROVE FALSE
  <2>1. Below(k) \in SUBSET Nat /\ Below(m) \in SUBSET Nat /\ Below(k) \subseteq Below(m)
    BY <1>5
  <2>2. k \in Below(m) /\ k \notin Below(k)
    BY <1>5
  <2>3. <<Below(k), Below(m)>> \in R
    BY <2>1, <2>2 DEF StrictSubsetOrdering
  <2> QED
    BY <1>3, <1>4, <2>3
<1> QED
  BY <1>5

LEMMA InductionTo ==
  ASSUME NEW n \in Nat, NEW T, 0 \in T, \A m \in 0 .. n - 1 : m \in T => m + 1 \in T
  PROVE  n \in T
<1> SUFFICES ASSUME n \notin T PROVE FALSE
  OBVIOUS
<1> DEFINE U == (0 .. n) \ T
<1>1. PICK m \in U : \A k \in U : m <= k
  <2>1. U \subseteq Nat /\ n \in U
    OBVIOUS
  <2> HIDE DEF U
  <2> QED
    BY <2>1, LeastNumber
<1>2. m # 0 /\ m - 1 \in 0 .. n - 1
  BY <1>1
<1>3. m - 1 \in T
  BY <1>1, <1>2
<1> QED
  BY <1>1, <1>2, <1>3

-----------------------------------------------------------------------------
(* Tags                                                                    *)

\* The tags of events: none is before the start.
EventTag == {t \in Tag : t[1] >= 0}

LEMMA SpecialTags ==
  /\ NEVER_TAG \in Tag /\ NEVER_TAG \notin EventTag
  /\ FOREVER_TAG \in EventTag /\ ZERO_TAG \in EventTag
  /\ NEVER_TAG # FOREVER_TAG /\ ZERO_TAG # FOREVER_TAG /\ EventTag \subseteq Tag
BY TagsAssumption, SMT DEF EventTag, Tag, Microstep, NEVER_TAG, FOREVER_TAG, ZERO_TAG

\* The order of tags, spelled out.
LEMMA TagOrdering ==
  ASSUME NEW a \in Tag, NEW b \in Tag
  PROVE  /\ Less(a, b) <=> a[1] < b[1] \/ (a[1] = b[1] /\ a[2] < b[2])
         /\ Leq(a, b) <=> a[1] < b[1] \/ (a[1] = b[1] /\ a[2] <= b[2])
         /\ Leq(a, b) <=> ~Less(b, a)
         /\ a[1] \in Int /\ a[2] \in Nat /\ b[1] \in Int /\ b[2] \in Nat
         /\ a = b <=> a[1] = b[1] /\ a[2] = b[2]
<1>1. a = b <=> a[1] = b[1] /\ a[2] = b[2]
  BY TagEquality
<1> QED
  BY <1>1, TagParts DEF Less, Leq

LEMMA ZeroAndForever ==
  ASSUME NEW t \in Tag
  PROVE  /\ Leq(t, FOREVER_TAG) /\ Leq(NEVER_TAG, t)
         /\ t \in EventTag <=> Leq(ZERO_TAG, t)
<1>1. FOREVER_TAG \in Tag /\ NEVER_TAG \in Tag /\ ZERO_TAG \in Tag
  BY SpecialTags
<1> QED
  BY <1>1, TagOrdering, TagParts DEF FOREVER_TAG, NEVER_TAG, ZERO_TAG, EventTag

\* A set of tags that is not empty has an earliest one.
LEMMA LeastTag ==
  ASSUME NEW S, S \subseteq Tag, S # {}
  PROVE  \E t \in S : \A u \in S : Leq(t, u)
<1> DEFINE T == {t[1] - NEVER : t \in S}
<1>1. T \subseteq Nat /\ T # {}
  BY TagParts, TagsAssumption
<1>2. PICK n \in T : \A k \in T : n <= k
  <2> HIDE DEF T
  <2> QED  BY <1>1, LeastNumber
<1>3. PICK s \in S : n = s[1] - NEVER
  BY <1>2
<1>4. \A u \in S : s[1] <= u[1]
  <2>1. ASSUME NEW u \in S PROVE s[1] <= u[1]
    <3>1. s[1] - NEVER <= u[1] - NEVER  BY <1>2, <1>3
    <3> QED  BY <3>1, TagParts, TagsAssumption
  <2> QED  BY <2>1
<1> DEFINE M == {t[2] : t \in {u \in S : u[1] = s[1]}}
<1>5. M \subseteq Nat /\ M # {}
  BY <1>3, TagParts
<1>6. PICK m \in M : \A k \in M : m <= k
  <2> HIDE DEF M
  <2> QED  BY <1>5, LeastNumber
<1>7. PICK t \in S : t[1] = s[1] /\ m = t[2]
  BY <1>6
<1>8. ASSUME NEW u \in S PROVE Leq(t, u)
  <2>1. t[1] <= u[1] /\ (t[1] = u[1] => t[2] <= u[2])
    BY <1>4, <1>6, <1>7
  <2> QED  BY <2>1, TagOrdering, TagParts
<1> QED  BY <1>8

LEMMA EarliestIsLeast ==
  ASSUME NEW S, S \subseteq Tag
  PROVE  /\ Earliest(S) \in S \cup {FOREVER_TAG}
         /\ Earliest(S) \in Tag
         /\ \A u \in S : Leq(Earliest(S), u)
<1>1. S \cup {FOREVER_TAG} \subseteq Tag /\ S \cup {FOREVER_TAG} # {}
  BY SpecialTags
<1>2. \E t \in S \cup {FOREVER_TAG} : \A u \in S \cup {FOREVER_TAG} : Leq(t, u)
  BY <1>1, LeastTag
<1> QED  BY <1>1, <1>2 DEF Earliest

LEMMA EarliestIsUnique ==
  ASSUME NEW S, S \subseteq Tag, NEW t \in S, \A u \in S : Leq(t, u)
  PROVE  Earliest(S) = t
<1>1. Leq(t, Earliest(S)) /\ Leq(Earliest(S), t) /\ Earliest(S) \in Tag /\ t \in Tag
  BY EarliestIsLeast, ZeroAndForever
<1> QED  BY <1>1, TagOrdering

LEMMA EarliestEventTag ==
  ASSUME NEW S, S \subseteq EventTag
  PROVE  Earliest(S) \in EventTag
BY EarliestIsLeast, SpecialTags

LEMMA MinMaxTags ==
  ASSUME NEW a \in Tag, NEW b \in Tag
  PROVE  /\ lf_tag_min(a, b) \in Tag /\ lf_tag_max(a, b) \in Tag
         /\ Leq(lf_tag_min(a, b), a) /\ Leq(lf_tag_min(a, b), b)
         /\ lf_tag_min(a, b) \in {a, b} /\ lf_tag_max(a, b) \in {a, b}
         /\ Leq(a, lf_tag_max(a, b)) /\ Leq(b, lf_tag_max(a, b))
         /\ a \in EventTag /\ b \in EventTag => lf_tag_min(a, b) \in EventTag
         /\ a \in EventTag \/ b \in EventTag => lf_tag_max(a, b) \in EventTag
<1>1. CASE Less(a, b)
  BY <1>1, TagOrdering DEF lf_tag_min, lf_tag_max, EventTag
<1>2. CASE ~Less(a, b)
  BY <1>2, TagOrdering DEF lf_tag_min, lf_tag_max, EventTag
<1> QED  BY <1>1, <1>2

-----------------------------------------------------------------------------
(* The arithmetic stays among the tags                                     *)

LEMMA AddTags ==
  ASSUME NEW a \in EventTag, NEW b \in EventTag
  PROVE  /\ lf_tag_add(a, b) \in EventTag
         /\ Leq(b, lf_tag_add(a, b))
<1>1. a[1] >= 0 /\ b[1] >= 0 /\ a \in Tag /\ b \in Tag
  BY DEF EventTag
<1> DEFINE m == (IF b[1] > 0 THEN 0 ELSE a[2]) + b[2]
           time == lf_time_add(a[1], b[1])
<1>2. m \in Nat /\ b[2] <= m
  BY <1>1, TagParts
<1>3. time \in 0 .. FOREVER /\ (time # FOREVER => time = a[1] + b[1])
  BY <1>1, TagParts, TagsAssumption DEF lf_time_add
<1>4. lf_tag_add(a, b) = IF time = FOREVER \/ m > UINT_MAX THEN FOREVER_TAG ELSE <<time, m>>
  BY <1>3, TagsAssumption DEF lf_tag_add
<1>5. CASE time = FOREVER \/ m > UINT_MAX
  <2>1. lf_tag_add(a, b) = FOREVER_TAG
    BY <1>4, <1>5
  <2> QED  BY <1>1, <2>1, SpecialTags, ZeroAndForever
<1>6. CASE ~(time = FOREVER \/ m > UINT_MAX)
  <2>1. lf_tag_add(a, b) = <<time, m>>
    BY <1>4, <1>6
  <2>2. time \in NEVER .. FOREVER /\ m \in Microstep
    BY <1>2, <1>3, <1>6, TagsAssumption DEF Microstep
  <2>3. <<time, m>> \in Tag
    BY <2>2 DEF Tag
  <2>4. b[1] <= time
    BY <1>1, <1>3, <1>6, TagParts
  <2> HIDE DEF m, time
  <2> QED  BY <1>1, <1>2, <1>3, <2>1, <2>3, <2>4, TagOrdering DEF EventTag
<1> QED  BY <1>5, <1>6

Delay == {NEVER} \cup Nat

LEMMA DelayedTag ==
  ASSUME NEW t \in Tag, NEW d \in Delay
  PROVE  /\ lf_delay_tag(t, d) \in Tag
         /\ t \in EventTag => lf_delay_tag(t, d) \in EventTag
<1>1. NEVER <= t[1] /\ t[1] <= FOREVER /\ t[1] \in Int /\ t[2] \in Microstep
  BY TagParts DEF Tag
<1>2. CASE t[1] = NEVER \/ d < 0
  BY <1>2 DEF lf_delay_tag
<1>3. CASE ~(t[1] = NEVER \/ d < 0)
  <2>1. d \in Nat
    BY <1>3, TagsAssumption DEF Delay
  <2>2. CASE t[1] >= FOREVER - d
    BY <1>3, <2>2, SpecialTags DEF lf_delay_tag
  <2>3. CASE ~(t[1] >= FOREVER - d) /\ d = 0
    <3>1. lf_delay_tag(t, d) = <<t[1], Increment(t[2])>>
      BY <1>3, <2>3 DEF lf_delay_tag
    <3>2. Increment(t[2]) \in Microstep
      BY <1>1, TagsAssumption DEF Increment, Microstep
    <3> QED  BY <1>1, <3>1, <3>2 DEF Tag, EventTag
  <2>4. CASE ~(t[1] >= FOREVER - d) /\ d # 0
    <3>1. lf_delay_tag(t, d) = <<t[1] + d, 0>>
      BY <1>3, <2>4 DEF lf_delay_tag
    <3>2. t[1] + d \in NEVER .. FOREVER /\ 0 \in Microstep
      BY <1>1, <2>1, <2>4, TagsAssumption DEF Microstep
    <3> QED  BY <1>1, <2>1, <3>1, <3>2 DEF Tag, EventTag
  <2> QED  BY <2>2, <2>3, <2>4
<1> QED  BY <1>2, <1>3

LEMMA StrictDelayTag ==
  ASSUME NEW t \in Tag, NEW d \in Delay
  PROVE  lf_delay_strict(t, d) \in Tag
<1>1. lf_delay_tag(t, d) \in Tag
  BY DelayedTag
<1>2. Finite(lf_delay_tag(t, d)) => lf_delay_tag(t, d)[1] - 1 \in NEVER .. FOREVER
  BY <1>1, TagParts, TagsAssumption DEF Finite
<1>3. UINT_MAX \in Microstep
  BY TagsAssumption DEF Microstep
<1> QED  BY <1>1, <1>2, <1>3 DEF lf_delay_strict, Tag

LEMMA LatestEarlierTag ==
  ASSUME NEW t \in Tag
  PROVE  lf_tag_latest_earlier(t) \in Tag
<1>1. CASE t \in {NEVER_TAG, FOREVER_TAG}
  BY <1>1 DEF lf_tag_latest_earlier
<1>2. CASE t \notin {NEVER_TAG, FOREVER_TAG} /\ t[2] = 0
  <2>1. t[1] # NEVER
    BY <1>2, TagParts DEF NEVER_TAG
  <2>2. t[1] - 1 \in NEVER .. FOREVER /\ UINT_MAX \in Microstep
    BY <2>1, TagParts, TagsAssumption DEF Microstep
  <2> QED  BY <1>2, <2>2 DEF lf_tag_latest_earlier, Tag
<1>3. CASE t \notin {NEVER_TAG, FOREVER_TAG} /\ t[2] # 0
  <2>1. t[1] \in NEVER .. FOREVER /\ t[2] - 1 \in Microstep
    BY <1>3, TagParts, TagsAssumption DEF Microstep
  <2> QED  BY <1>3, <2>1 DEF lf_tag_latest_earlier, Tag
<1> QED  BY <1>1, <1>2, <1>3

LEMMA CandidateTag ==
  ASSUME NEW next \in Tag, NEW d \in EventTag
  PROVE  get_dnet_candidate(next, d) \in Tag
<1>1. d \in Tag /\ d[1] >= 0
  BY DEF EventTag
<1>2. CASE next[1] = NEVER \/ Less(next, d)
  BY <1>2, SpecialTags DEF get_dnet_candidate
<1>3. CASE ~(next[1] = NEVER \/ Less(next, d)) /\ next[1] = FOREVER
  BY <1>3, SpecialTags DEF get_dnet_candidate
<1>4. CASE ~(next[1] = NEVER \/ Less(next, d)) /\ next[1] # FOREVER
  <2> DEFINE t == next[1] - d[1]
             m == next[2] - d[2]
  <2>1. t \in 0 .. FOREVER
    <3>1. d[1] <= next[1]
      BY <1>1, <1>4, TagParts DEF Less
    <3> QED  BY <1>1, <3>1, TagParts, TagsAssumption
  <2>2. t \in NEVER .. FOREVER /\ t - 1 \in NEVER .. FOREVER
    BY <2>1, TagsAssumption
  <2>3. m \in Int /\ m <= UINT_MAX
    BY <1>1, TagParts, TagsAssumption
  <2>4. get_dnet_candidate(next, d) =
          IF m < 0 THEN <<t - 1, UINT_MAX>> ELSE IF d[1] = 0 THEN <<t, m>> ELSE <<t, UINT_MAX>>
    BY <1>4 DEF get_dnet_candidate
  <2>5. UINT_MAX \in Microstep /\ (~(m < 0) => m \in Microstep)
    BY <2>3, TagsAssumption DEF Microstep
  <2> HIDE DEF t, m
  <2> QED  BY <2>2, <2>4, <2>5 DEF Tag
<1> QED  BY <1>2, <1>3, <1>4

LEMMA IncrementedTag ==
  ASSUME NEW t \in Tag
  PROVE  <<t[1], Increment(t[2])>> \in Tag
BY TagParts, TagsAssumption DEF Tag, Increment, Microstep

-----------------------------------------------------------------------------
(* Recursive functions on an interval                                      *)

\* g begins with d and goes on with step[n], and nothing else does, up to N.
IsRun(g, N, D, d, step) ==
  /\ g[0] = d /\ \A n \in 1 .. N : g[n] = step[n][g[n - 1]]
  /\ \A Q : Q[0] = d /\ (\A n \in 1 .. N : Q[n - 1] \in D => Q[n] = step[n][Q[n - 1]])
              => Q[N] = g[N]

LEMMA Recursion ==
  ASSUME NEW N \in Nat, NEW D, NEW d \in D, NEW step \in [1 .. N -> [D -> D]]
  PROVE  \E g \in [0 .. N -> D] : IsRun(g, N, D, d, step)
<1> DEFINE Runs(g, m) == g[0] = d /\ \A n \in 1 .. m : g[n] = step[n][g[n - 1]]
           T == {m \in Nat : m <= N => \E g \in [0 .. m -> D] : Runs(g, m)}
<1>1. 0 \in T
  <2>1. [i \in 0 .. 0 |-> d] \in [0 .. 0 -> D] /\ Runs([i \in 0 .. 0 |-> d], 0)
    OBVIOUS
  <2> QED  BY <2>1
<1>2. ASSUME NEW m \in 0 .. N - 1, m \in T PROVE m + 1 \in T
  <2>1. PICK g \in [0 .. m -> D] : Runs(g, m)
    BY <1>2
  <2> DEFINE f == [i \in 0 .. m + 1 |-> IF i <= m THEN g[i] ELSE step[m + 1][g[m]]]
  <2>2. m + 1 \in 1 .. N /\ m \in 0 .. m /\ g[m] \in D
    OBVIOUS
  <2>3. step[m + 1][g[m]] \in D
    BY <2>2
  <2>4. f \in [0 .. m + 1 -> D]
    BY <2>3
  <2>5. ASSUME NEW n \in 1 .. m + 1 PROVE f[n] = step[n][f[n - 1]]
    <3>1. CASE n <= m
      <4>1. n \in 1 .. m /\ n - 1 \in 0 .. m + 1 /\ n - 1 <= m /\ n \in 0 .. m + 1
        BY <3>1
      <4>2. f[n] = g[n] /\ f[n - 1] = g[n - 1]
        BY <3>1, <4>1
      <4> HIDE DEF f
      <4> QED  BY <2>1, <4>1, <4>2
    <3>2. CASE n = m + 1
      <4>1. f[n] = step[m + 1][g[m]] /\ f[n - 1] = g[m]
        BY <3>2
      <4> HIDE DEF f
      <4> QED  BY <3>2, <4>1
    <3> QED  BY <3>1, <3>2
  <2>6. f[0] = d
    BY <2>1
  <2>7. m + 1 \in Nat
    OBVIOUS
  <2> HIDE DEF f
  <2> QED  BY <2>4, <2>5, <2>6, <2>7
<1>3. N \in T
  <2> HIDE DEF T
  <2> QED  BY <1>1, <1>2, InductionTo
<1>4. PICK g \in [0 .. N -> D] : Runs(g, N)
  BY <1>3
<1>5. ASSUME NEW Q, Q[0] = d, \A n \in 1 .. N : Q[n - 1] \in D => Q[n] = step[n][Q[n - 1]]
      PROVE  Q[N] = g[N]
  <2> DEFINE U == {m \in Nat : m <= N => Q[m] = g[m]}
  <2>1. 0 \in U
    BY <1>4, <1>5
  <2>2. ASSUME NEW m \in 0 .. N - 1, m \in U PROVE m + 1 \in U
    <3>1. Q[m] = g[m] /\ m \in 0 .. N
      BY <2>2
    <3>2. g[m] \in D /\ m + 1 \in 1 .. N /\ (m + 1) - 1 = m
      BY <3>1
    <3>3. g[m + 1] = step[m + 1][g[m]]
      BY <1>4, <3>2
    <3>4. Q[m + 1] = step[m + 1][Q[m]]
      BY <1>5, <3>1, <3>2
    <3> QED  BY <3>1, <3>3, <3>4
  <2>3. N \in U
    <3> HIDE DEF U
    <3> QED  BY <2>1, <2>2, InductionTo
  <2> QED  BY <2>3
<1> QED  BY <1>4, <1>5 DEF IsRun

-----------------------------------------------------------------------------
(* Types                                                                   *)

Node == [state : {"GRANTED", "NOT_CONNECTED"}, completed : Tag, last_granted : Tag,
         last_provisionally_granted : Tag, next_event : EventTag \cup {NEVER_TAG}, last_DNET : Tag]

\* The messages from the RTI to f.
DownMessage(f) ==
  [type : {"TAG", "DNET"}, tag : Tag, conn : {NULL}]
    \cup [type : {"PTAG"}, tag : EventTag, conn : {NULL}]
    \cup [type : {"MSG", "ABSENT"}, tag : EventTag, conn : ConnTo(f)]

\* The messages from f to the RTI.
UpMessage(f) ==
  [type : {"NET", "LTC"}, tag : EventTag, conn : {NULL}]
    \cup [type : {"RESIGN", "FAILED", "EOF"}, tag : {FOREVER_TAG}, conn : {NULL}]
    \cup [type : {"MSG", "ABSENT"}, tag : EventTag, conn : ConnFrom(f)]

RTIStates ==
  {S \in [node : [Fed -> Node], down : [Fed -> Seq(UNION {DownMessage(f) : f \in Fed})]] :
     \A f \in Fed : S.down[f] \in Seq(DownMessage(f))}

NetworkOK ==
  /\ program \in Programs
  /\ min_delays \in [Fed -> [Fed -> EventTag]]

LEMMA ProgramParts ==
  ASSUME NetworkOK
  PROVE  /\ program.conn \subseteq Connection /\ IsFiniteSet(program.conn)
         /\ program.timer \in [Fed -> SUBSET (0 .. FOREVER - 1)]
         /\ \A c \in program.conn : /\ c.from \in Fed /\ c.to \in Fed /\ c.from # c.to
                                    /\ c.delay \in Delay /\ c.out \in Nat /\ c.in \in Nat
         /\ \A f \in Fed : /\ Upstreams(f) \subseteq Fed /\ Downstreams(f) \subseteq Fed
                           /\ ConnTo(f) \subseteq program.conn /\ ConnFrom(f) \subseteq program.conn
<1>1. program.conn \subseteq Connection /\ IsFiniteSet(program.conn)
      /\ program.timer \in [Fed -> SUBSET (0 .. FOREVER - 1)]
  BY FederationAssumption DEF NetworkOK
<1>2. \A c \in program.conn : /\ c.from \in Fed /\ c.to \in Fed /\ c.from # c.to
                              /\ c.delay \in Delay /\ c.out \in Nat /\ c.in \in Nat
  BY <1>1 DEF Connection, Delay
<1> QED  BY <1>1, <1>2 DEF Upstreams, Downstreams, ConnTo, ConnFrom

\* A state of the RTI is given by its nodes and what is on its way from it.
LEMMA RTIState ==
  ASSUME NEW N \in [Fed -> Node], NEW D, D = [f \in Fed |-> D[f]],
         \A f \in Fed : D[f] \in Seq(DownMessage(f))
  PROVE  [node |-> N, down |-> D] \in RTIStates
<1>1. \A f \in Fed : D[f] \in Seq(UNION {DownMessage(g) : g \in Fed})
  <2>1. ASSUME NEW f \in Fed PROVE D[f] \in Seq(UNION {DownMessage(g) : g \in Fed})
    <3>1. DownMessage(f) \subseteq UNION {DownMessage(g) : g \in Fed}
      OBVIOUS
    <3>2. D[f] \in Seq(DownMessage(f))
      OBVIOUS
    <3>3. Len(D[f]) \in Nat /\ D[f] \in [1 .. Len(D[f]) -> UNION {DownMessage(g) : g \in Fed}]
      BY <3>1, <3>2
    <3> QED  BY <3>3
  <2> QED  BY <2>1
<1>2. D \in [Fed -> Seq(UNION {DownMessage(g) : g \in Fed})]
  BY <1>1
<1> QED  BY <1>2 DEF RTIStates

LEMMA RTIStateParts ==
  ASSUME NEW S \in RTIStates
  PROVE  /\ S.node \in [Fed -> Node] /\ S.down = [f \in Fed |-> S.down[f]]
         /\ \A f \in Fed : S.down[f] \in Seq(DownMessage(f))
         /\ S = [node |-> S.node, down |-> S.down]
BY DEF RTIStates

LEMMA NodeParts ==
  ASSUME NEW n \in Node
  PROVE  /\ n.state \in {"GRANTED", "NOT_CONNECTED"}
         /\ n.completed \in Tag /\ n.last_granted \in Tag /\ n.last_provisionally_granted \in Tag
         /\ n.next_event \in EventTag \cup {NEVER_TAG} /\ n.next_event \in Tag /\ n.last_DNET \in Tag
         /\ Heard(n.next_event) \in EventTag /\ Heard(Heard(n.next_event)) = Heard(n.next_event)
BY SpecialTags DEF Node, Heard

\* The functions with the changes of EXCEPT.
LEMMA NodeChanges ==
  ASSUME NEW n \in Node, NEW t \in Tag, NEW u \in EventTag \cup {NEVER_TAG}
  PROVE  /\ [n EXCEPT !.completed = t] \in Node /\ [n EXCEPT !.last_granted = t] \in Node
         /\ [n EXCEPT !.last_provisionally_granted = t] \in Node
         /\ [n EXCEPT !.next_event = u] \in Node /\ [n EXCEPT !.last_DNET = t] \in Node
BY DEF Node

-----------------------------------------------------------------------------
(* What the RTI decides is among the tags                                  *)

\* Some node is in a cycle without delay.
HasCycle == \E f \in Fed : is_in_zero_delay_cycle(f)

LEMMA IncomingTag ==
  ASSUME NetworkOK, NEW N \in [Fed -> Node], NEW e \in Fed
  PROVE  /\ earliest_future_incoming_message_tag(N, e) \in EventTag
         /\ \A i \in Fed : IsUpstream(i, e) =>
              Leq(earliest_future_incoming_message_tag(N, e),
                  lf_tag_add(Heard(N[i].next_event), min_delays[i][e]))
<1> DEFINE A(i) == lf_tag_add(Heard(N[i].next_event), min_delays[i][e])
           S == {A(i) : i \in {j \in Fed : IsUpstream(j, e)}}
<1>1. ASSUME NEW i \in Fed PROVE A(i) \in EventTag
  <2>1. Heard(N[i].next_event) \in EventTag
    BY NodeParts
  <2>2. min_delays[i][e] \in EventTag
    BY DEF NetworkOK
  <2> QED  BY <2>1, <2>2, AddTags
<1>2. S \subseteq EventTag
  BY <1>1
<1>3. Earliest(S) \in EventTag /\ \A t \in S : Leq(Earliest(S), t)
  <2> HIDE DEF S
  <2> QED  BY <1>2, SpecialTags, EarliestIsLeast, EarliestEventTag
<1>4. Earliest(S) = earliest_future_incoming_message_tag(N, e)
  BY DEF earliest_future_incoming_message_tag
<1>5. \A i \in Fed : IsUpstream(i, e) => A(i) \in S
  OBVIOUS
<1> HIDE DEF S
<1> QED  BY <1>3, <1>4, <1>5

LEMMA CompletedTag ==
  ASSUME NetworkOK, NEW N \in [Fed -> Node], NEW e \in Fed
  PROVE  /\ MinUpstreamCompleted(N, e) \in Tag
         /\ \A c \in ConnTo(e) : N[c.from].state # "NOT_CONNECTED" =>
              Leq(MinUpstreamCompleted(N, e), lf_delay_strict(N[c.from].completed, c.delay))
<1> DEFINE A(c) == lf_delay_strict(N[c.from].completed, c.delay)
           S == {A(c) : c \in {d \in ConnTo(e) : N[d.from].state # "NOT_CONNECTED"}}
<1>1. ASSUME NEW c \in ConnTo(e) PROVE A(c) \in Tag
  <2>1. c.from \in Fed /\ c.delay \in Delay
    BY ProgramParts
  <2>2. N[c.from].completed \in Tag
    BY <2>1, NodeParts
  <2> QED  BY <2>1, <2>2, StrictDelayTag
<1>2. S \subseteq Tag
  BY <1>1
<1>3. Earliest(S) \in Tag /\ \A t \in S : Leq(Earliest(S), t)
  <2> HIDE DEF S
  <2> QED  BY <1>2, EarliestIsLeast
<1>4. Earliest(S) = MinUpstreamCompleted(N, e)
  BY DEF MinUpstreamCompleted
<1>5. \A c \in ConnTo(e) : N[c.from].state # "NOT_CONNECTED" => A(c) \in S
  OBVIOUS
<1> HIDE DEF S
<1> QED  BY <1>3, <1>4, <1>5

\* The tags that the RTI may grant finally to e.
Grantable(N, e, tag) ==
  \/ tag = MinUpstreamCompleted(N, e)
  \/ tag = lf_tag_latest_earlier(earliest_future_incoming_message_tag(N, e))

\* tag_advance_grant_if_safe() grants such a tag, or provisionally the next
\* event of a node in a cycle without delay.
LEMMA WhatIsGranted ==
  ASSUME NetworkOK, NEW N \in [Fed -> Node], NEW e \in Fed
  PROVE  LET grant == tag_advance_grant_if_safe(N, e) IN
         /\ grant.tag \in Tag
         /\ grant.tag = NEVER_TAG \/ grant.is_provisional \/ Grantable(N, e, grant.tag)
         /\ grant.tag # NEVER_TAG /\ grant.is_provisional => grant.tag \in EventTag /\ HasCycle
<1> DEFINE t_d == earliest_future_incoming_message_tag(N, e)
           grant == tag_advance_grant_if_safe(N, e)
<1>1. t_d \in EventTag /\ t_d \in Tag /\ MinUpstreamCompleted(N, e) \in Tag
  BY IncomingTag, CompletedTag, SpecialTags
<1>2. lf_tag_latest_earlier(t_d) \in Tag
  BY <1>1, LatestEarlierTag
<1>3. NEVER_TAG \in Tag
  BY SpecialTags
<1>4. \/ grant = [tag |-> MinUpstreamCompleted(N, e), is_provisional |-> FALSE]
      \/ grant = [tag |-> lf_tag_latest_earlier(t_d), is_provisional |-> FALSE]
      \/ grant = [tag |-> N[e].next_event, is_provisional |-> TRUE]
           /\ t_d = N[e].next_event /\ is_in_zero_delay_cycle(e)
      \/ grant = NoGrant
  BY DEF tag_advance_grant_if_safe
<1> HIDE DEF t_d, grant
<1>5. grant.tag \in Tag
      /\ (grant.tag = NEVER_TAG \/ grant.is_provisional \/ Grantable(N, e, grant.tag))
      /\ (grant.tag # NEVER_TAG /\ grant.is_provisional => grant.tag \in EventTag /\ HasCycle)
  BY <1>1, <1>2, <1>3, <1>4 DEF NoGrant, Grantable, HasCycle, t_d
<1> QED  BY <1>5 DEF grant

-----------------------------------------------------------------------------
(* How grants change the state of the RTI                                  *)

\* Grants leave alone all that decides about grants.
Kept(N, M) ==
  \A e \in Fed : /\ M[e].state = N[e].state /\ M[e].completed = N[e].completed
                 /\ Heard(M[e].next_event) = Heard(N[e].next_event)

\* The tag granted to a node with upstream nodes only grows, and by grants.
Raised(N, M) ==
  \A e \in Fed : Upstreams(e) # {} =>
    /\ Leq(N[e].last_granted, M[e].last_granted)
    /\ \/ M[e].last_granted = N[e].last_granted
       \/ Grantable(N, e, M[e].last_granted)
       \/ HasCycle

Sent(e, n, m) ==
  /\ m \in DownMessage(e)
  /\ m.type \in {"TAG", "PTAG", "DNET"}
  /\ m.type = "TAG" /\ Upstreams(e) # {} => Leq(m.tag, n.last_granted)
  /\ m.type = "PTAG" => HasCycle /\ Leq(m.tag, n.last_provisionally_granted)
\* What is sent to e meanwhile.
Mailed(B, S) ==
  \A e \in Fed : \E ms \in Seq(DownMessage(e)) :
    /\ S.down[e] = B.down[e] \o ms
    /\ \A i \in 1 .. Len(ms) : Sent(e, S.node[e], ms[i])

\* The tag granted provisionally only grows, and where there is a cycle.
Provisionally(N, M) ==
  /\ HasCycle \/ \A e \in Fed : M[e].last_provisionally_granted = N[e].last_provisionally_granted
  /\ \A e \in Fed : Leq(N[e].last_provisionally_granted, M[e].last_provisionally_granted)

Evolves(B, S) ==
  /\ B \in RTIStates /\ S \in RTIStates
  /\ Kept(B.node, S.node) /\ Raised(B.node, S.node) /\ Mailed(B, S)
  /\ Provisionally(B.node, S.node)

LEMMA KeptDecides ==
  ASSUME NetworkOK, NEW N, NEW M, Kept(N, M), NEW e \in Fed
  PROVE  /\ earliest_future_incoming_message_tag(M, e) = earliest_future_incoming_message_tag(N, e)
         /\ MinUpstreamCompleted(M, e) = MinUpstreamCompleted(N, e)
         /\ \A t : Grantable(M, e, t) <=> Grantable(N, e, t)
<1>1. \A i \in Fed : Heard(M[i].next_event) = Heard(N[i].next_event)
  BY DEF Kept
<1>2. {lf_tag_add(Heard(M[i].next_event), min_delays[i][e]) : i \in {j \in Fed : IsUpstream(j, e)}}
      = {lf_tag_add(Heard(N[i].next_event), min_delays[i][e]) : i \in {j \in Fed : IsUpstream(j, e)}}
  BY <1>1
<1>3. \A c \in ConnTo(e) : M[c.from].state = N[c.from].state
                           /\ M[c.from].completed = N[c.from].completed
  BY ProgramParts DEF Kept
<1>4. {lf_delay_strict(M[c.from].completed, c.delay)
         : c \in {d \in ConnTo(e) : M[d.from].state # "NOT_CONNECTED"}}
      = {lf_delay_strict(N[c.from].completed, c.delay)
         : c \in {d \in ConnTo(e) : N[d.from].state # "NOT_CONNECTED"}}
  BY <1>3
<1>5. earliest_future_incoming_message_tag(M, e) = earliest_future_incoming_message_tag(N, e)
  BY <1>2 DEF earliest_future_incoming_message_tag
<1>6. MinUpstreamCompleted(M, e) = MinUpstreamCompleted(N, e)
  BY <1>4 DEF MinUpstreamCompleted
<1> QED  BY <1>5, <1>6 DEF Grantable

LEMMA EvolvesRefl ==
  ASSUME NEW B \in RTIStates
  PROVE  Evolves(B, B)
<1>1. Mailed(B, B)
  <2>1. ASSUME NEW e \in Fed
        PROVE  \E ms \in Seq(DownMessage(e)) :
                 /\ B.down[e] = B.down[e] \o ms
                 /\ \A i \in 1 .. Len(ms) : Sent(e, B.node[e], ms[i])
    <3>1. B.down[e] \in Seq(DownMessage(e))
      BY RTIStateParts
    <3>2. B.down[e] = B.down[e] \o <<>> /\ <<>> \in Seq(DownMessage(e)) /\ Len(<<>>) = 0
      BY <3>1, ConcatEmptySeq, EmptySeq
    <3>3. 1 .. Len(<<>>) = {}
      BY <3>2
    <3> QED  BY <3>2, <3>3
  <2> QED  BY <2>1 DEF Mailed
<1>2. \A e \in Fed : B.node[e].last_granted \in Tag
  BY RTIStateParts, NodeParts
<1> QED  BY <1>1, <1>2 DEF Evolves, Kept, Raised, Provisionally, Leq

LEMMA EvolvesTrans ==
  ASSUME NetworkOK, NEW A, NEW B, NEW C, Evolves(A, B), Evolves(B, C)
  PROVE  Evolves(A, C)
<1>1. A \in RTIStates /\ B \in RTIStates /\ C \in RTIStates
  BY DEF Evolves
<1>2. \A e \in Fed : /\ A.node[e].last_granted \in Tag /\ B.node[e].last_granted \in Tag
                     /\ C.node[e].last_granted \in Tag
                     /\ A.node[e].last_provisionally_granted \in Tag
                     /\ B.node[e].last_provisionally_granted \in Tag
                     /\ C.node[e].last_provisionally_granted \in Tag
  BY <1>1, RTIStateParts, NodeParts
<1>3. Kept(A.node, B.node) /\ Kept(B.node, C.node) /\ Kept(A.node, C.node)
  BY DEF Evolves, Kept
<1>4. Raised(A.node, C.node)
  <2>1. ASSUME NEW e \in Fed, Upstreams(e) # {}
        PROVE  /\ Leq(A.node[e].last_granted, C.node[e].last_granted)
               /\ \/ C.node[e].last_granted = A.node[e].last_granted
                  \/ Grantable(A.node, e, C.node[e].last_granted)
                  \/ HasCycle
    <3>1. /\ Leq(A.node[e].last_granted, B.node[e].last_granted)
          /\ \/ B.node[e].last_granted = A.node[e].last_granted
             \/ Grantable(A.node, e, B.node[e].last_granted)
             \/ HasCycle
      BY <2>1 DEF Evolves, Raised
    <3>2. /\ Leq(B.node[e].last_granted, C.node[e].last_granted)
          /\ \/ C.node[e].last_granted = B.node[e].last_granted
             \/ Grantable(B.node, e, C.node[e].last_granted)
             \/ HasCycle
      BY <2>1 DEF Evolves, Raised
    <3>3. Leq(A.node[e].last_granted, C.node[e].last_granted)
      BY <1>2, <3>1, <3>2, TagsAreOrdered
    <3>4. \A t : Grantable(B.node, e, t) <=> Grantable(A.node, e, t)
      BY <1>3, KeptDecides
    <3> QED  BY <3>1, <3>2, <3>3, <3>4
  <2> QED  BY <2>1 DEF Raised
<1>5. Mailed(A, C)
  <2>1. ASSUME NEW e \in Fed
        PROVE  \E ms \in Seq(DownMessage(e)) :
                 /\ C.down[e] = A.down[e] \o ms
                 /\ \A i \in 1 .. Len(ms) : Sent(e, C.node[e], ms[i])
    <3>1. PICK ms1 \in Seq(DownMessage(e)) :
             /\ B.down[e] = A.down[e] \o ms1
             /\ \A i \in 1 .. Len(ms1) : Sent(e, B.node[e], ms1[i])
      BY DEF Evolves, Mailed
    <3>2. PICK ms2 \in Seq(DownMessage(e)) :
             /\ C.down[e] = B.down[e] \o ms2
             /\ \A i \in 1 .. Len(ms2) : Sent(e, C.node[e], ms2[i])
      BY DEF Evolves, Mailed
    <3>3. A.down[e] \in Seq(DownMessage(e))
      BY <1>1, RTIStateParts
    <3>4. C.down[e] = A.down[e] \o (ms1 \o ms2) /\ ms1 \o ms2 \in Seq(DownMessage(e))
      <4>1. \A a \in Seq(DownMessage(e)) : (a \o ms1) \o ms2 = a \o (ms1 \o ms2)
        BY ConcatAssociative
      <4>2. ms1 \o ms2 \in Seq(DownMessage(e))
        BY ConcatProperties
      <4> QED  BY <3>1, <3>2, <3>3, <4>1, <4>2
    <3>5. Upstreams(e) # {} => Leq(B.node[e].last_granted, C.node[e].last_granted)
      BY DEF Evolves, Raised
    <3>6. ASSUME NEW i \in 1 .. Len(ms1) PROVE Sent(e, C.node[e], ms1[i])
      <4>1. Sent(e, B.node[e], ms1[i])
        BY <3>1
      <4>2. ms1[i].type \in {"TAG", "PTAG"} => ms1[i].tag \in Tag
        BY <4>1, SpecialTags DEF Sent, DownMessage
      <4>3. Leq(B.node[e].last_provisionally_granted, C.node[e].last_provisionally_granted)
        BY DEF Evolves, Provisionally
      <4> QED  BY <1>2, <3>5, <4>1, <4>2, <4>3, TagsAreOrdered DEF Sent
    <3>7. \A i \in 1 .. Len(ms1 \o ms2) :
            (ms1 \o ms2)[i] = IF i <= Len(ms1) THEN ms1[i] ELSE ms2[i - Len(ms1)]
      OBVIOUS
    <3>8. ASSUME NEW i \in 1 .. Len(ms1 \o ms2)
          PROVE  Sent(e, C.node[e], (ms1 \o ms2)[i])
      <4>1. CASE i <= Len(ms1)
        BY <3>6, <3>7, <4>1
      <4>2. CASE ~(i <= Len(ms1))
        <5>1. i - Len(ms1) \in 1 .. Len(ms2)
          BY <4>2
        <5> QED  BY <3>2, <3>7, <4>2, <5>1
      <4> QED  BY <4>1, <4>2
    <3> QED  BY <3>4, <3>8
  <2> QED  BY <2>1 DEF Mailed
<1>6. Provisionally(A.node, C.node)
  BY <1>2, TagsAreOrdered DEF Evolves, Provisionally
<1> QED  BY <1>1, <1>3, <1>4, <1>5, <1>6 DEF Evolves

\* A change of the nodes that is not about grants.
LEMMA EvolvesByNodes ==
  ASSUME NEW S \in RTIStates, NEW N \in [Fed -> Node], Kept(S.node, N),
         \A e \in Fed : N[e].last_granted = S.node[e].last_granted,
         \A e \in Fed : N[e].last_provisionally_granted = S.node[e].last_provisionally_granted
  PROVE  /\ [S EXCEPT !.node = N] = [node |-> N, down |-> S.down]
         /\ Evolves(S, [node |-> N, down |-> S.down])
<1> DEFINE R == [node |-> N, down |-> S.down]
<1>1. R \in RTIStates /\ R.node = N /\ R.down = S.down /\ [S EXCEPT !.node = N] = R
  BY RTIStateParts, RTIState
<1> HIDE DEF R
<1>2. Mailed(S, R)
  <2>1. Evolves(S, S)
    BY EvolvesRefl
  <2> QED  BY <1>1, <2>1 DEF Evolves, Mailed
<1>3. Raised(S.node, N)
  BY DEF Raised, Leq
<1> QED  BY <1>1, <1>2, <1>3 DEF Evolves, Provisionally, R, Leq

\* The message m to the nodes of R, which alone change.
LEMMA EvolvesBySending ==
  ASSUME NEW S \in RTIStates, NEW N \in [Fed -> Node], NEW R \in SUBSET Fed, NEW m,
         Kept(S.node, N), Raised(S.node, N), Provisionally(S.node, N),
         \A e \in R : Sent(e, N[e], m[e])
  PROVE  Evolves(S, [node |-> N,
                     down |-> [f \in Fed |-> IF f \in R THEN Append(S.down[f], m[f]) ELSE S.down[f]]])
<1> DEFINE D == [f \in Fed |-> IF f \in R THEN Append(S.down[f], m[f]) ELSE S.down[f]]
           C == [node |-> N, down |-> D]
<1>1. \A f \in Fed : S.down[f] \in Seq(DownMessage(f))
  BY RTIStateParts
<1>2. \A f \in R : m[f] \in DownMessage(f)
  BY DEF Sent
<1>3. \A f \in Fed : D[f] \in Seq(DownMessage(f))
  BY <1>1, <1>2, AppendProperties
<1>4. C \in RTIStates
  BY <1>3, RTIState
<1>5. ASSUME NEW e \in Fed
      PROVE  \E ms \in Seq(DownMessage(e)) :
               /\ D[e] = S.down[e] \o ms
               /\ \A i \in 1 .. Len(ms) : Sent(e, N[e], ms[i])
  <2>1. CASE e \in R
    <3>1. <<m[e]>> \in Seq(DownMessage(e)) /\ Len(<<m[e]>>) = 1 /\ <<m[e]>>[1] = m[e]
      BY <1>2, <2>1
    <3>2. D[e] = S.down[e] \o <<m[e]>>
      BY <1>1, <1>2, <2>1, AppendIsConcat
    <3>3. \A i \in 1 .. Len(<<m[e]>>) : Sent(e, N[e], <<m[e]>>[i])
      BY <2>1, <3>1
    <3> QED  BY <3>1, <3>2, <3>3
  <2>2. CASE e \notin R
    <3>1. <<>> \in Seq(DownMessage(e)) /\ 1 .. Len(<<>>) = {}
      BY EmptySeq
    <3>2. D[e] = S.down[e] \o <<>>
      BY <1>1, <2>2, ConcatEmptySeq
    <3> QED  BY <3>1, <3>2
  <2> QED  BY <2>1, <2>2
<1>6. C.node = N /\ C.down = D
  OBVIOUS
<1> HIDE DEF D
<1>7. Mailed(S, C)
  BY <1>5, <1>6 DEF Mailed
<1> QED  BY <1>4, <1>6, <1>7 DEF Evolves, D

LEMMA GrantEachEvolves ==
  ASSUME NetworkOK, NEW S \in RTIStates, NEW T \in SUBSET Fed, NEW tag \in Tag,
         HasCycle \/ \A e \in T : Grantable(S.node, e, tag)
  PROVE  Evolves(S, GrantEach(S, T, tag))
<1> DEFINE R == {f \in T : CanGrant(S.node[f], tag)}
           N == [f \in Fed |-> IF f \in R THEN [S.node[f] EXCEPT !.last_granted = tag] ELSE S.node[f]]
           m == [f \in Fed |-> Msg("TAG", tag, NULL)]
<1>1. S.node \in [Fed -> Node] /\ \A f \in Fed : S.node[f] \in Node
  BY RTIStateParts
<1>2. N \in [Fed -> Node]
  BY <1>1, NodeChanges
<1>3. \A f \in R : N[f] = [S.node[f] EXCEPT !.last_granted = tag]
  OBVIOUS
<1>4. \A f \in Fed : f \notin R => N[f] = S.node[f]
  OBVIOUS
<1>5. \A f \in R : /\ N[f].last_granted = tag
                   /\ N[f].state = S.node[f].state /\ N[f].completed = S.node[f].completed
                   /\ N[f].next_event = S.node[f].next_event
                   /\ N[f].last_provisionally_granted = S.node[f].last_provisionally_granted
  BY <1>1, <1>3 DEF Node
<1>6. \A f \in R : Leq(S.node[f].last_granted, tag)
  <2>1. \A f \in R : ~Leq(tag, S.node[f].last_granted) /\ S.node[f].last_granted \in Tag
    BY <1>1, NodeParts DEF CanGrant
  <2> QED  BY <2>1, TagsAreOrdered DEF Leq
<1>7. \A f \in R : Sent(f, N[f], m[f])
  BY <1>5 DEF Sent, DownMessage, Msg, Leq
<1>8. R \in SUBSET Fed /\ \A f \in R : HasCycle \/ Grantable(S.node, f, tag)
  OBVIOUS
<1>9. GrantEach(S, T, tag) =
        [node |-> N, down |-> [f \in Fed |-> IF f \in R THEN Append(S.down[f], m[f]) ELSE S.down[f]]]
  BY DEF GrantEach
<1> HIDE DEF R, N, m
<1>10. Kept(S.node, N) /\ Provisionally(S.node, N)
  BY <1>4, <1>5 DEF Kept, Provisionally, Leq
<1>11. Raised(S.node, N)
  BY <1>4, <1>5, <1>6, <1>8 DEF Raised, Leq
<1> QED  BY <1>2, <1>7, <1>8, <1>9, <1>10, <1>11, EvolvesBySending

LEMMA ProvisionedNodes ==
  ASSUME NetworkOK, NEW N, NEW e \in Fed, NEW tag
  PROVE  /\ Provisioned(N, e, tag) \subseteq Fed
         /\ \A f \in Provisioned(N, e, tag) : CanProvision(N[f], tag)
<1>0. CASE ~CanProvision(N[e], tag)
  BY <1>0 DEF Provisioned
<1> SUFFICES ASSUME CanProvision(N[e], tag)
             PROVE  /\ Provisioned(N, e, tag) \subseteq Fed
                    /\ \A f \in Provisioned(N, e, tag) : CanProvision(N[f], tag)
  BY <1>0
<1> DEFINE n == number_of_scheduling_nodes
           Can == {f \in Fed : CanProvision(N[f], tag)}
           step == [k \in 1 .. n |-> [R \in SUBSET Can |-> WithUpstreams(N, R, tag)]]
           F(R) == R = [k \in 0 .. n |-> IF k = 0 THEN {e} ELSE WithUpstreams(N, R[k - 1], tag)]
<1>1. n \in Nat /\ {e} \in SUBSET Can
  BY FederationAssumption
<1>2. ASSUME NEW R \in SUBSET Can PROVE WithUpstreams(N, R, tag) \in SUBSET Can
  <2>1. \A f \in R : Upstreams(f) \subseteq Fed
    BY ProgramParts
  <2> QED  BY <2>1 DEF WithUpstreams
<1>3. step \in [1 .. n -> [SUBSET Can -> SUBSET Can]]
  BY <1>2
<1>4. \A k \in 1 .. n : \A R \in SUBSET Can : step[k][R] = WithUpstreams(N, R, tag)
  OBVIOUS
<1> HIDE DEF n, step, Can
<1>5. PICK g \in [0 .. n -> SUBSET Can] : IsRun(g, n, SUBSET Can, {e}, step)
  BY <1>1, <1>3, Recursion
<1>6. F(g)
  <2>1. \A k \in 0 .. n : g[k] = IF k = 0 THEN {e} ELSE WithUpstreams(N, g[k - 1], tag)
    <3>1. ASSUME NEW k \in 0 .. n, k # 0 PROVE g[k] = WithUpstreams(N, g[k - 1], tag)
      <4>1. k \in 1 .. n /\ k - 1 \in 0 .. n
        BY <1>1, <3>1
      <4> QED  BY <1>4, <1>5, <4>1 DEF IsRun
    <3> QED  BY <1>5, <3>1 DEF IsRun
  <2> QED  BY <2>1
<1> DEFINE Q == CHOOSE R : F(R)
<1>7. F(Q)
  BY <1>6
<1> HIDE DEF Q
<1>8. Q[0] = {e} /\ \A k \in 1 .. n : Q[k - 1] \in SUBSET Can => Q[k] = step[k][Q[k - 1]]
  <2>1. Q[0] = {e}
    BY <1>1, <1>7
  <2>2. \A k \in 0 .. n : Q[k] = IF k = 0 THEN {e} ELSE WithUpstreams(N, Q[k - 1], tag)
    BY <1>7
  <2>3. \A k \in 1 .. n : Q[k] = WithUpstreams(N, Q[k - 1], tag)
    BY <1>1, <2>2
  <2> QED  BY <1>4, <2>1, <2>3
<1>9. Q[n] = g[n]
  BY <1>5, <1>8 DEF IsRun
<1>10. Q[n] \in SUBSET Can
  BY <1>1, <1>9
<1>11. Provisioned(N, e, tag) = Q[n]
  BY DEF Provisioned, Q, n
<1> QED  BY <1>10, <1>11 DEF Can

LEMMA ProvisionalGrantEvolves ==
  ASSUME NetworkOK, NEW S \in RTIStates, NEW e \in Fed, NEW tag \in EventTag, HasCycle
  PROVE  Evolves(S, notify_provisional_tag_advance_grant(S, e, tag))
<1> DEFINE R == Provisioned(S.node, e, tag)
           T == {u \in UNION {Upstreams(f) : f \in R} :
                   Less(tag, earliest_future_incoming_message_tag(S.node, u))}
           N == [f \in Fed |-> IF f \in R THEN [S.node[f] EXCEPT !.last_provisionally_granted = tag]
                               ELSE S.node[f]]
           m == [f \in Fed |-> Msg("PTAG", tag, NULL)]
           P == [node |-> N,
                 down |-> [f \in Fed |-> IF f \in R THEN Append(S.down[f], m[f]) ELSE S.down[f]]]
<1>1. R \in SUBSET Fed /\ \A f \in R : CanProvision(S.node[f], tag)
  BY ProvisionedNodes
<1>2. T \in SUBSET Fed
  BY <1>1, ProgramParts
<1>3. tag \in Tag
  BY SpecialTags
<1>4. S.node \in [Fed -> Node] /\ \A f \in Fed : S.node[f] \in Node
  BY RTIStateParts
<1>5. notify_provisional_tag_advance_grant(S, e, tag) = GrantEach(P, T, tag)
  <2>1. \A f \in Fed : m[f] = Msg("PTAG", tag, NULL)
    OBVIOUS
  <2>2. P.down = [f \in Fed |-> IF f \in R THEN Append(S.down[f], Msg("PTAG", tag, NULL))
                                ELSE S.down[f]]
    BY <2>1
  <2> HIDE DEF m
  <2> QED  BY <2>2 DEF notify_provisional_tag_advance_grant
<1> HIDE DEF R, T
<1>6. N \in [Fed -> Node]
  BY <1>3, <1>4, NodeChanges
<1>7. \A f \in Fed : /\ N[f].state = S.node[f].state /\ N[f].completed = S.node[f].completed
                     /\ N[f].next_event = S.node[f].next_event
                     /\ N[f].last_granted = S.node[f].last_granted
                     /\ f \in R => N[f].last_provisionally_granted = tag
                     /\ f \notin R => N[f].last_provisionally_granted =
                                       S.node[f].last_provisionally_granted
  BY <1>4 DEF Node
<1>8. \A f \in R : Sent(f, N[f], m[f])
  BY <1>1, <1>7 DEF Sent, DownMessage, Msg, Leq
<1> HIDE DEF N, m
<1>9. Kept(S.node, N) /\ Raised(S.node, N) /\ Provisionally(S.node, N)
  BY <1>1, <1>7 DEF Kept, Raised, Provisionally, CanProvision, Leq
<1>10. Evolves(S, P)
  BY <1>1, <1>6, <1>8, <1>9, EvolvesBySending
<1>11. P \in RTIStates
  BY <1>10 DEF Evolves
<1> HIDE DEF P
<1>12. Evolves(P, GrantEach(P, T, tag))
  BY <1>2, <1>3, <1>11, GrantEachEvolves
<1> QED  BY <1>5, <1>10, <1>12, EvolvesTrans

LEMMA NotifyEvolves ==
  ASSUME NetworkOK, NEW S \in RTIStates, NEW e \in Fed
  PROVE  Evolves(S, notify_advance_grant_if_safe(S, e))
<1> DEFINE N == Assume(S.node, e)
           Q == [node |-> N, down |-> S.down]
           grant == tag_advance_grant_if_safe(N, e)
<1>1. S.node \in [Fed -> Node] /\ \A f \in Fed : S.node[f] \in Node
  BY RTIStateParts
<1>2. \A i \in Fed : N[i] \in Node /\ Heard(N[i].next_event) = Heard(S.node[i].next_event)
                     /\ N[i].state = S.node[i].state /\ N[i].completed = S.node[i].completed
                     /\ N[i].last_granted = S.node[i].last_granted
                     /\ N[i].last_provisionally_granted = S.node[i].last_provisionally_granted
  <2>1. ASSUME NEW i \in Fed
        PROVE N[i] \in Node /\ Heard(N[i].next_event) = Heard(S.node[i].next_event)
                     /\ N[i].state = S.node[i].state /\ N[i].completed = S.node[i].completed
                     /\ N[i].last_granted = S.node[i].last_granted
                     /\ N[i].last_provisionally_granted = S.node[i].last_provisionally_granted
    <3> DEFINE n == S.node[i]
               t == Heard(n.next_event)
    <3>1. n \in Node /\ t \in EventTag /\ Heard(t) = t
      BY <1>1, NodeParts
    <3>2. N[i] = n \/ N[i] = [n EXCEPT !.next_event = t]
      BY DEF Assume
    <3> HIDE DEF n, t
    <3>3. [n EXCEPT !.next_event = t] \in Node
      <4>1. ZERO_TAG \in Tag
        BY SpecialTags
      <4> QED  BY <3>1, <4>1, NodeChanges
    <3>4. LET r == [n EXCEPT !.next_event = t] IN
            /\ r.next_event = t /\ r.state = n.state /\ r.completed = n.completed
            /\ r.last_granted = n.last_granted
            /\ r.last_provisionally_granted = n.last_provisionally_granted
      BY <3>1 DEF Node
    <3> QED  BY <3>1, <3>2, <3>3, <3>4 DEF n, t
  <2> QED  BY <2>1
<1>3. N \in [Fed -> Node]
  BY <1>2 DEF Assume
<1>4. [S EXCEPT !.node = Assume(@, e)] = Q
  <2>1. \A M : [S EXCEPT !.node = M] = [node |-> M, down |-> S.down]
    BY DEF RTIStates
  <2> QED  BY <2>1
<1>5. notify_advance_grant_if_safe(S, e) =
        IF grant.tag = NEVER_TAG THEN Q
        ELSE IF grant.is_provisional THEN notify_provisional_tag_advance_grant(Q, e, grant.tag)
        ELSE GrantEach(Q, {e}, grant.tag)
  BY <1>4 DEF notify_advance_grant_if_safe, notify_tag_advance_grant
<1>6. /\ grant.tag \in Tag
      /\ grant.tag = NEVER_TAG \/ grant.is_provisional \/ Grantable(N, e, grant.tag)
      /\ grant.tag # NEVER_TAG /\ grant.is_provisional => grant.tag \in EventTag /\ HasCycle
  BY <1>3, WhatIsGranted
<1>7. Q.node = N
  OBVIOUS
<1> HIDE DEF grant, N
<1>8. Kept(S.node, N)
  BY <1>2 DEF Kept
<1>9. Evolves(S, Q)
  BY <1>2, <1>3, <1>8, EvolvesByNodes
<1>10. Q \in RTIStates
  BY <1>9 DEF Evolves
<1> HIDE DEF Q
<1>11. CASE grant.tag = NEVER_TAG
  BY <1>5, <1>9, <1>11
<1>12. CASE grant.tag # NEVER_TAG /\ grant.is_provisional
  <2>1. Evolves(Q, notify_provisional_tag_advance_grant(Q, e, grant.tag))
    BY <1>6, <1>10, <1>12, ProvisionalGrantEvolves
  <2> QED  BY <1>5, <1>9, <1>12, <2>1, EvolvesTrans
<1>13. CASE grant.tag # NEVER_TAG /\ ~grant.is_provisional
  <2>1. Grantable(Q.node, e, grant.tag)
    BY <1>6, <1>7, <1>13
  <2>2. {e} \in SUBSET Fed /\ \A i \in {e} : Grantable(Q.node, i, grant.tag)
    BY <2>1
  <2>3. Evolves(Q, GrantEach(Q, {e}, grant.tag))
    BY <1>6, <1>10, <2>2, GrantEachEvolves
  <2> QED  BY <1>5, <1>9, <1>13, <2>3, EvolvesTrans
<1> QED  BY <1>11, <1>12, <1>13

LEMMA NotifyEachEvolves ==
  ASSUME NetworkOK, NEW S \in RTIStates, NEW nodes \in Seq(Fed)
  PROVE  Evolves(S, NotifyEach(S, nodes))
<1> DEFINE n == Len(nodes)
           D == {B \in RTIStates : Evolves(S, B)}
           step == [k \in 1 .. n |-> [B \in D |-> notify_advance_grant_if_safe(B, nodes[k])]]
           F(R) == R = [k \in 0 .. n |->
                          IF k = 0 THEN S ELSE notify_advance_grant_if_safe(R[k - 1], nodes[k])]
<1>1. n \in Nat /\ S \in D
  BY EvolvesRefl
<1>2. ASSUME NEW k \in 1 .. n, NEW B \in D PROVE notify_advance_grant_if_safe(B, nodes[k]) \in D
  <2>1. nodes[k] \in Fed
    OBVIOUS
  <2>2. Evolves(B, notify_advance_grant_if_safe(B, nodes[k]))
    BY <2>1, NotifyEvolves
  <2> QED  BY <2>2, EvolvesTrans DEF Evolves
<1>3. step \in [1 .. n -> [D -> D]]
  BY <1>2
<1>4. \A k \in 1 .. n : \A B \in D : step[k][B] = notify_advance_grant_if_safe(B, nodes[k])
  OBVIOUS
<1> HIDE DEF n, step, D
<1>5. PICK g \in [0 .. n -> D] : IsRun(g, n, D, S, step)
  BY <1>1, <1>3, Recursion
<1>6. F(g)
  <2>1. \A k \in 0 .. n : g[k] = IF k = 0 THEN S
                                 ELSE notify_advance_grant_if_safe(g[k - 1], nodes[k])
    <3>1. ASSUME NEW k \in 0 .. n, k # 0
          PROVE  g[k] = notify_advance_grant_if_safe(g[k - 1], nodes[k])
      <4>1. k \in 1 .. n /\ k - 1 \in 0 .. n
        BY <1>1, <3>1
      <4> QED  BY <1>4, <1>5, <4>1 DEF IsRun
    <3> QED  BY <1>5, <3>1 DEF IsRun
  <2> QED  BY <2>1
<1> DEFINE Q == CHOOSE R : F(R)
<1>7. F(Q)
  BY <1>6
<1> HIDE DEF Q
<1>8. Q[0] = S /\ \A k \in 1 .. n : Q[k - 1] \in D => Q[k] = step[k][Q[k - 1]]
  <2>1. Q[0] = S
    BY <1>1, <1>7
  <2>2. \A k \in 0 .. n : Q[k] = IF k = 0 THEN S
                                 ELSE notify_advance_grant_if_safe(Q[k - 1], nodes[k])
    BY <1>7
  <2>3. \A k \in 1 .. n : Q[k] = notify_advance_grant_if_safe(Q[k - 1], nodes[k])
    BY <1>1, <2>2
  <2> QED  BY <1>4, <2>1, <2>3
<1>9. Q[n] = g[n]
  BY <1>5, <1>8 DEF IsRun
<1>10. Q[n] \in D
  BY <1>1, <1>9
<1>11. Evolves(S, Q[n])
  BY <1>10 DEF D
<1>12. NotifyEach(S, nodes) = Q[n]
  BY DEF NotifyEach, Q, n
<1> QED  BY <1>11, <1>12

\* The nodes that are visited are nodes.
LEMMA InTurnNodes ==
  ASSUME NEW seqs, \A i \in DOMAIN seqs : seqs[i] \in Seq(Fed)
  PROVE  InTurn(seqs) \in Seq(Fed)
<1> DEFINE n == number_of_scheduling_nodes
           D == Seq(Fed)
           After(s, k) == IF k - 1 \in DOMAIN seqs THEN s \o seqs[k - 1] ELSE s
           step == [k \in 1 .. n |-> [s \in D |-> After(s, k)]]
           F(s) == s = [k \in 0 .. n |-> IF k = 0 THEN <<>>
                                         ELSE IF k - 1 \in DOMAIN seqs THEN s[k - 1] \o seqs[k - 1]
                                         ELSE s[k - 1]]
<1>1. n \in Nat /\ <<>> \in D
  BY FederationAssumption, EmptySeq
<1>2. ASSUME NEW k \in 1 .. n, NEW s \in D PROVE After(s, k) \in D
  BY ConcatProperties
<1>3. step \in [1 .. n -> [D -> D]]
  <2> HIDE DEF D, After
  <2> QED  BY <1>2
<1>4. \A k \in 1 .. n : \A s \in D : step[k][s] = After(s, k)
  OBVIOUS
<1> HIDE DEF n, step, D
<1>5. PICK g \in [0 .. n -> D] : IsRun(g, n, D, <<>>, step)
  BY <1>1, <1>3, Recursion
<1>6. F(g)
  <2>1. \A k \in 0 .. n : g[k] = IF k = 0 THEN <<>>
                                 ELSE IF k - 1 \in DOMAIN seqs THEN g[k - 1] \o seqs[k - 1]
                                 ELSE g[k - 1]
    <3>1. ASSUME NEW k \in 0 .. n, k # 0
          PROVE  g[k] = After(g[k - 1], k)
      <4>1. k \in 1 .. n /\ k - 1 \in 0 .. n
        BY <1>1, <3>1
      <4>2. g[k] = step[k][g[k - 1]] /\ g[k - 1] \in D
        BY <1>5, <4>1 DEF IsRun
      <4> QED  BY <1>4, <4>1, <4>2
    <3>2. g[0] = <<>>
      BY <1>5, SMTT(30) DEF IsRun
    <3> QED  BY <3>1, <3>2
  <2> QED  BY <2>1
<1> DEFINE Q == CHOOSE s : F(s)
<1>7. F(Q)
  BY <1>6
<1> HIDE DEF Q
<1>8. Q[0] = <<>> /\ \A k \in 1 .. n : Q[k - 1] \in D => Q[k] = step[k][Q[k - 1]]
  <2>1. Q[0] = <<>>
    BY <1>1, <1>7
  <2>2. \A k \in 0 .. n : Q[k] = IF k = 0 THEN <<>>
                                 ELSE IF k - 1 \in DOMAIN seqs THEN Q[k - 1] \o seqs[k - 1]
                                 ELSE Q[k - 1]
    BY <1>7
  <2>3. \A k \in 1 .. n : Q[k] = After(Q[k - 1], k)
    BY <1>1, <2>2
  <2> QED  BY <1>4, <2>1, <2>3
<1>9. Q[n] = g[n]
  BY <1>5, <1>8 DEF IsRun
<1>10. Q[n] \in D
  BY <1>1, <1>9
<1>11. InTurn(seqs) = Q[n]
  BY DEF InTurn, Q, n
<1> QED  BY <1>10, <1>11 DEF D

LEMMA InOrderNodes ==
  ASSUME NEW S \in SUBSET Fed
  PROVE  InOrder(S) \in Seq(Fed)
<1> DEFINE s == [i \in S |-> <<i>>]
<1>1. \A i \in DOMAIN s : s[i] \in Seq(Fed)
  OBVIOUS
<1> HIDE DEF s
<1> QED  BY <1>1, InTurnNodes DEF InOrder, s

LEMMA DownstreamNodes ==
  ASSUME NetworkOK, NEW e \in Fed
  PROVE  DownstreamOrder(e) \in Seq(Fed)
<1> DEFINE n == Cardinality(program.conn) + 1
           first == [stack |-> <<e>>, seen |-> <<>>]
           D == {w \in [stack : Seq(Fed), seen : Seq(Fed)] : w.seen = <<>> => w = first}
           After(w) == IF w.stack = <<>> THEN w
                       ELSE IF Head(w.stack) \in Range(w.seen) THEN [w EXCEPT !.stack = Tail(w.stack)]
                       ELSE [stack |-> InOrder(Downstreams(Head(w.stack))) \o Tail(w.stack),
                             seen |-> Append(w.seen, Head(w.stack))]
           step == [k \in 1 .. n |-> [w \in D |-> After(w)]]
           F(f) == f = [k \in 0 .. n |->
                          IF k = 0 THEN [stack |-> <<e>>, seen |-> <<>>]
                          ELSE LET w == f[k - 1] IN
                               IF w.stack = <<>> THEN w
                               ELSE IF Head(w.stack) \in Range(w.seen) THEN [w EXCEPT !.stack = Tail(@)]
                               ELSE [stack |-> InOrder(Downstreams(Head(w.stack))) \o Tail(w.stack),
                                     seen |-> Append(w.seen, Head(w.stack))]]
<1>1. n \in Nat /\ n >= 1 /\ first \in D
  <2>1. Cardinality(program.conn) \in Nat
    BY ProgramParts, FS_CardinalityType
  <2>2. <<e>> \in Seq(Fed) /\ <<>> \in Seq(Fed)
    BY EmptySeq
  <2> QED  BY <2>1, <2>2
<1>2. ASSUME NEW w \in D PROVE After(w) \in D /\ After(w).seen # <<>>
  <2>1. w.stack \in Seq(Fed) /\ w.seen \in Seq(Fed) /\ w \in [stack : Seq(Fed), seen : Seq(Fed)]
    OBVIOUS
  <2>2. CASE w.stack = <<>>
    <3>1. <<e>> # <<>>
      OBVIOUS
    <3>2. first.stack = <<e>>
      OBVIOUS
    <3>3. w # first
      <4> HIDE DEF first
      <4> QED  BY <2>2, <3>1, <3>2
    <3>4. w.seen # <<>>
      BY <3>3
    <3>5. After(w) = w
      BY <2>2
    <3> HIDE DEF After, D, first
    <3> QED  BY <3>4, <3>5
  <2>3. CASE w.stack # <<>> /\ Head(w.stack) \in Range(w.seen)
    <3>1. w.seen # <<>>
      <4>1. Range(<<>>) = {}
        BY DEF Range
      <4> QED  BY <2>3, <4>1
    <3>2. Tail(w.stack) \in Seq(Fed)
      BY <2>1, <2>3, HeadTailProperties
    <3>3. \A s : [w EXCEPT !.stack = s] = [stack |-> s, seen |-> w.seen]
      BY <2>1
    <3> QED  BY <2>1, <2>3, <3>1, <3>2, <3>3
  <2>4. CASE w.stack # <<>> /\ Head(w.stack) \notin Range(w.seen)
    <3>1. Head(w.stack) \in Fed /\ Tail(w.stack) \in Seq(Fed)
      BY <2>1, <2>4, HeadTailProperties
    <3>2. InOrder(Downstreams(Head(w.stack))) \in Seq(Fed)
      BY <3>1, ProgramParts, InOrderNodes
    <3>3. InOrder(Downstreams(Head(w.stack))) \o Tail(w.stack) \in Seq(Fed)
      BY <3>1, <3>2, ConcatProperties
    <3>4. Append(w.seen, Head(w.stack)) \in Seq(Fed) /\ Append(w.seen, Head(w.stack)) # <<>>
      BY <2>1, <3>1, AppendProperties
    <3> QED  BY <2>4, <3>3, <3>4
  <2> QED  BY <2>2, <2>3, <2>4
<1>3. step \in [1 .. n -> [D -> D]]
  <2> HIDE DEF D, After
  <2> QED  BY <1>2
<1>4. \A k \in 1 .. n : \A w \in D : step[k][w] = After(w)
  OBVIOUS
<1> HIDE DEF n, step, D, first
<1>5. PICK g \in [0 .. n -> D] : IsRun(g, n, D, first, step)
  BY <1>1, <1>3, Recursion
<1>6. F(g)
  <2>1. \A k \in 0 .. n : g[k] = IF k = 0 THEN first ELSE After(g[k - 1])
    <3>1. ASSUME NEW k \in 0 .. n, k # 0 PROVE g[k] = After(g[k - 1])
      <4>1. k \in 1 .. n /\ k - 1 \in 0 .. n
        BY <1>1, <3>1
      <4>2. g[k] = step[k][g[k - 1]] /\ g[k - 1] \in D
        BY <1>5, <4>1 DEF IsRun
      <4> QED  BY <1>4, <4>1, <4>2
    <3>2. g[0] = first
      BY <1>5, SMTT(30) DEF IsRun
    <3> QED  BY <3>1, <3>2
  <2> QED  BY <2>1 DEF first
<1> DEFINE Q == CHOOSE f : F(f)
<1>7. F(Q)
  BY <1>6, ZenonT(60)
<1> HIDE DEF Q
<1>8. Q[0] = first /\ \A k \in 1 .. n : Q[k] = After(Q[k - 1])
  <2>1. \A k \in 0 .. n : Q[k] = IF k = 0 THEN first ELSE After(Q[k - 1])
    BY <1>7 DEF first
  <2> HIDE DEF After
  <2> QED  BY <1>1, <2>1
<1>9. Q[n] = g[n]
  <2>1. \A k \in 1 .. n : Q[k - 1] \in D => Q[k] = step[k][Q[k - 1]]
    BY <1>4, <1>8
  <2> QED  BY <1>5, <1>8, <2>1 DEF IsRun
<1>10. Q[n].seen # <<>> /\ Q[n].seen \in Seq(Fed)
  <2>1. n \in 1 .. n /\ n - 1 \in 0 .. n /\ g[n - 1] \in D /\ g[n] \in D
    BY <1>1
  <2>2. g[n] = After(g[n - 1])
    BY <1>4, <1>5, <2>1 DEF IsRun
  <2>3. g[n].seen # <<>>
    BY <1>2, <2>1, <2>2
  <2>4. g[n].seen \in Seq(Fed)
    BY <2>1 DEF D
  <2> QED  BY <1>9, <2>3, <2>4
<1>11. DownstreamOrder(e) = Tail(Q[n].seen)
  BY DEF DownstreamOrder, Q, n
<1> QED  BY <1>10, <1>11, HeadTailProperties

-----------------------------------------------------------------------------
(* A change of the next event                                              *)

\* The next event of e and, without upstream nodes, its grant.
LEMMA DnetEvolves ==
  ASSUME NetworkOK, NEW S \in RTIStates, NEW e \in Fed
  PROVE  Evolves(S, NotifyDNET(S, e))
<1> DEFINE dnet(i) == downstream_next_event_tag(S.node, i, e)
           R == {i \in Fed \ {e} : /\ IsUpstream(i, e)
                                   /\ S.node[i].last_DNET # dnet(i)
                                   /\ Leq(S.node[i].next_event, dnet(i))
                                   /\ S.node[i].state # "NOT_CONNECTED"}
           N == [i \in Fed |-> IF i \in R THEN [S.node[i] EXCEPT !.last_DNET = dnet(i)]
                               ELSE S.node[i]]
           m == [i \in Fed |-> Msg("DNET", dnet(i), NULL)]
<1>1. S.node \in [Fed -> Node] /\ \A f \in Fed : S.node[f] \in Node
  BY RTIStateParts
<1>2. ASSUME NEW i \in Fed PROVE dnet(i) \in Tag
  <2> DEFINE Candidate(j) == get_dnet_candidate(S.node[j].next_event, min_delays[i][j])
             C == {Candidate(j) : j \in {k \in Fed \ {i} : IsUpstream(i, k)}}
  <2>1. ASSUME NEW j \in Fed PROVE Candidate(j) \in Tag
    <3>1. S.node[j].next_event \in Tag /\ min_delays[i][j] \in EventTag
      BY <1>1, NodeParts DEF NetworkOK
    <3> QED  BY <3>1, CandidateTag
  <2>2. C \subseteq Tag
    BY <2>1
  <2>3. Earliest(C) \in Tag
    <3> HIDE DEF C
    <3> QED  BY <2>2, EarliestIsLeast
  <2>4. dnet(i) = NEVER_TAG \/ dnet(i) = Candidate(e) \/ dnet(i) = Earliest(C)
    BY DEF downstream_next_event_tag
  <2> HIDE DEF Candidate, C, dnet
  <2> QED  BY <2>1, <2>3, <2>4, SpecialTags
<1>3. \A i \in Fed : m[i] = Msg("DNET", dnet(i), NULL)
  OBVIOUS
<1>4. NotifyDNET(S, e) =
        [node |-> N, down |-> [i \in Fed |-> IF i \in R THEN Append(S.down[i], m[i]) ELSE S.down[i]]]
  <2>1. [i \in Fed |-> IF i \in R THEN Append(S.down[i], Msg("DNET", dnet(i), NULL)) ELSE S.down[i]]
        = [i \in Fed |-> IF i \in R THEN Append(S.down[i], m[i]) ELSE S.down[i]]
    BY <1>3
  <2> HIDE DEF m
  <2> QED  BY <2>1 DEF NotifyDNET
<1>5. R \in SUBSET Fed
  OBVIOUS
<1> HIDE DEF R, dnet, m
<1>6. N \in [Fed -> Node]
  BY <1>1, <1>2, NodeChanges
<1>7. \A f \in Fed : /\ N[f].state = S.node[f].state /\ N[f].completed = S.node[f].completed
                     /\ N[f].next_event = S.node[f].next_event
                     /\ N[f].last_granted = S.node[f].last_granted
                     /\ N[f].last_provisionally_granted = S.node[f].last_provisionally_granted
  BY <1>1 DEF Node
<1> HIDE DEF N
<1>8. \A i \in R : Sent(i, N[i], m[i])
  <2>1. \A t \in Tag : Msg("DNET", t, NULL) \in [type : {"TAG", "DNET"}, tag : Tag, conn : {NULL}]
                      /\ Msg("DNET", t, NULL).type = "DNET"
    BY DEF Msg
  <2>2. \A i \in R : m[i] \in DownMessage(i) /\ m[i].type = "DNET"
    BY <1>2, <1>3, <1>5, <2>1 DEF DownMessage
  <2> QED  BY <2>2 DEF Sent
<1>9. Kept(S.node, N) /\ Raised(S.node, N) /\ Provisionally(S.node, N)
  BY <1>7 DEF Kept, Raised, Provisionally, Leq
<1> QED  BY <1>4, <1>5, <1>6, <1>8, <1>9, EvolvesBySending

LEMMA GrantOrRecordEvolves ==
  ASSUME NetworkOK, NEW S \in RTIStates, NEW e \in Fed
  PROVE  Evolves(S, GrantOrRecord(S, e))
<1>1. CASE Upstreams(e) # {}
  BY <1>1, NotifyEvolves DEF GrantOrRecord
<1>2. CASE Upstreams(e) = {}
  <2> DEFINE t == S.node[e].next_event
             n == [S.node[e] EXCEPT !.last_granted = t]
             N == [S.node EXCEPT ![e] = n]
  <2>1. S.node \in [Fed -> Node] /\ S.node[e] \in Node /\ t \in Tag
    BY RTIStateParts, NodeParts
  <2>2. n \in Node
    BY <2>1, SpecialTags, NodeChanges
  <2>3. N \in [Fed -> Node]
    BY <2>1, <2>2
  <2>4. /\ n.state = S.node[e].state /\ n.completed = S.node[e].completed
        /\ n.next_event = S.node[e].next_event
        /\ n.last_provisionally_granted = S.node[e].last_provisionally_granted
    BY <2>1 DEF Node
  <2>5. GrantOrRecord(S, e) = [node |-> N, down |-> S.down]
    <3>1. \A M : [S EXCEPT !.node = M] = [node |-> M, down |-> S.down]
      BY DEF RTIStates
    <3>2. [S EXCEPT !.node[e].last_granted = S.node[e].next_event] = [S EXCEPT !.node = N]
      OBVIOUS
    <3> QED  BY <1>2, <3>1, <3>2 DEF GrantOrRecord
  <2> HIDE DEF n, t
  <2>6. \A f \in Fed : /\ N[f].state = S.node[f].state /\ N[f].completed = S.node[f].completed
                       /\ N[f].next_event = S.node[f].next_event
                       /\ N[f].last_provisionally_granted = S.node[f].last_provisionally_granted
                       /\ f # e => N[f] = S.node[f]
    BY <2>1, <2>4
  <2> HIDE DEF N
  <2> DEFINE C == [node |-> N, down |-> S.down]
  <2>7. C \in RTIStates /\ C.node = N /\ C.down = S.down
    BY <2>3, RTIStateParts, RTIState
  <2>8. Kept(S.node, N) /\ Raised(S.node, N) /\ Provisionally(S.node, N)
    BY <1>2, <2>6 DEF Kept, Raised, Provisionally, Leq
  <2>9. Mailed(S, C)
    <3>1. Mailed(S, S)
      BY EvolvesRefl DEF Evolves
    <3>2. \A f \in Fed : \A x, y, m :
            /\ x.last_provisionally_granted = y.last_provisionally_granted
            /\ Upstreams(f) # {} => x.last_granted = y.last_granted
            /\ Sent(f, x, m)
            => Sent(f, y, m)
      BY DEF Sent
    <3>3. \A f \in Fed : Upstreams(f) # {} => N[f].last_granted = S.node[f].last_granted
      BY <1>2, <2>6
    <3> HIDE DEF C
    <3>4. \A f \in Fed : \A m : Sent(f, S.node[f], m) => Sent(f, C.node[f], m)
      BY <2>6, <2>7, <3>2, <3>3
    <3> QED  BY <2>7, <3>1, <3>4 DEF Mailed
  <2> QED  BY <2>5, <2>7, <2>8, <2>9 DEF Evolves
<1> QED  BY <1>1, <1>2

\* The state of the RTI with another next event of e.
WithNextEvent(S, e, tag) ==
  [node |-> [S.node EXCEPT ![e].next_event = tag], down |-> S.down]

LEMMA NextEventUpdated ==
  ASSUME NetworkOK, NEW S \in RTIStates, NEW transit \in SUBSET EventTag,
         NEW e \in Fed, NEW tag \in EventTag
  PROVE  LET next == NextWithInTransit(transit, tag) IN
         /\ next \in EventTag /\ WithNextEvent(S, e, next) \in RTIStates
         /\ Evolves(WithNextEvent(S, e, next), update_federate_next_event_tag(S, transit, e, tag))
<1> DEFINE next == NextWithInTransit(transit, tag)
           A == WithNextEvent(S, e, next)
           downstream == {j \in Fed : IsUpstream(e, j)}
           N == [S.node EXCEPT ![e].next_event = next]
           B == GrantOrRecord(A, e)
           C == NotifyEach(B, InOrder(downstream))
<1>1. next \in EventTag
  <2>1. Earliest(transit) \in EventTag
    BY EarliestEventTag
  <2> QED  BY <2>1, SpecialTags, MinMaxTags DEF NextWithInTransit
<1>2. update_federate_next_event_tag(S, transit, e, tag) = NotifyDNET(C, e)
  <2>1. [S EXCEPT !.node = N] = A
    <3>1. \A M : [S EXCEPT !.node = M] = [node |-> M, down |-> S.down]
      BY DEF RTIStates
    <3> QED  BY <3>1 DEF WithNextEvent
  <2> QED  BY <2>1 DEF update_federate_next_event_tag
<1>3. A \in RTIStates
  <2>1. S.node \in [Fed -> Node] /\ S.node[e] \in Node /\ ZERO_TAG \in Tag
    BY RTIStateParts, SpecialTags
  <2>2. [S.node[e] EXCEPT !.next_event = next] \in Node
    BY <1>1, <2>1, NodeChanges
  <2>3. N \in [Fed -> Node]
    BY <2>1, <2>2
  <2> HIDE DEF N
  <2>4. [node |-> N, down |-> S.down] \in RTIStates
    BY <2>3, RTIStateParts, RTIState
  <2> QED  BY <2>4 DEF WithNextEvent, N
<1> HIDE DEF A
<1>4. Evolves(A, B) /\ B \in RTIStates
  BY <1>3, GrantOrRecordEvolves DEF Evolves
<1> HIDE DEF B
<1>5. downstream \in SUBSET Fed
  OBVIOUS
<1> HIDE DEF downstream
<1>6. InOrder(downstream) \in Seq(Fed)
  BY <1>5, InOrderNodes
<1>7. Evolves(B, C) /\ C \in RTIStates
  BY <1>4, <1>6, NotifyEachEvolves DEF Evolves
<1> HIDE DEF C
<1>8. Evolves(C, NotifyDNET(C, e))
  BY <1>7, DnetEvolves
<1>9. Evolves(A, NotifyDNET(C, e))
  BY <1>4, <1>7, <1>8, EvolvesTrans
<1> QED  BY <1>1, <1>2, <1>3, <1>9 DEF A

-----------------------------------------------------------------------------
(* The type invariant                                                      *)

FedState(f) ==
  [pc : {"start", "wait", "advance", "exec", "stopping", "done", "fatal"},
   failed : BOOLEAN, started : BOOLEAN, current : EventTag,
   queue : SUBSET [tag : EventTag, conn : ConnTo(f) \cup {NULL}],
   known : [ConnTo(f) -> Tag], todo : SUBSET (ConnTo(f) \cup ConnFrom(f)), level : Nat,
   active : BOOLEAN, received : BOOLEAN, last_TAG : Tag, provisional : BOOLEAN,
   asked : EventTag \cup {NEVER_TAG}, signalled : BOOLEAN, last_sent_LTC : Tag,
   last_sent_NET : Tag, last_skipped_NET : EventTag \cup {NEVER_TAG}, last_DNET : Tag,
   received_any_DNET : BOOLEAN, dnet : Tag \cup {NULL}]

TypeInv ==
  /\ NetworkOK
  /\ node \in [Fed -> Node]
  /\ down = [f \in Fed |-> down[f]] /\ \A f \in Fed : down[f] \in Seq(DownMessage(f))
  /\ in_transit \in [Fed -> SUBSET EventTag]
  /\ confirming \in [Fed -> EventTag \cup {NULL}]
  /\ up = [f \in Fed |-> up[f]] /\ \A f \in Fed : up[f] \in Seq(UpMessage(f))
  /\ fed = [f \in Fed |-> fed[f]] /\ \A f \in Fed : fed[f] \in FedState(f)

LEMMA SameProgram ==
  ASSUME UNCHANGED network
  PROVE  /\ NetworkOK' <=> NetworkOK
         /\ program' = program /\ min_delays' = min_delays
         /\ \A f : /\ ConnTo(f)' = ConnTo(f) /\ ConnFrom(f)' = ConnFrom(f)
                   /\ Upstreams(f)' = Upstreams(f) /\ Downstreams(f)' = Downstreams(f)
                   /\ UpMessage(f)' = UpMessage(f) /\ DownMessage(f)' = DownMessage(f)
                   /\ FedState(f)' = FedState(f)
<1>1. program' = program /\ min_delays' = min_delays
  BY DEF network
<1>2. \A f : ConnTo(f)' = ConnTo(f) /\ ConnFrom(f)' = ConnFrom(f)
  BY <1>1 DEF ConnTo, ConnFrom
<1>3. \A f : Upstreams(f)' = Upstreams(f) /\ Downstreams(f)' = Downstreams(f)
  BY <1>2 DEF Upstreams, Downstreams
<1>4. \A f : /\ UpMessage(f)' = UpMessage(f) /\ DownMessage(f)' = DownMessage(f)
             /\ FedState(f)' = FedState(f)
  BY <1>2 DEF UpMessage, DownMessage, FedState
<1> QED  BY <1>1, <1>2, <1>3, <1>4 DEF NetworkOK

LEMMA TypedRTI ==
  ASSUME TypeInv
  PROVE  /\ RTI \in RTIStates /\ NetworkOK /\ RTI.node = node /\ RTI.down = down
<1>1. RTI.node = node /\ RTI.down = down
  BY DEF RTI
<1> QED  BY <1>1, RTIState DEF TypeInv, RTI

LEMMA TypedReply ==
  ASSUME NEW S \in RTIStates, Reply(S)
  PROVE  /\ node' = S.node /\ down' = S.down
         /\ node' \in [Fed -> Node]
         /\ down' = [f \in Fed |-> down'[f]] /\ \A f \in Fed : down'[f] \in Seq(DownMessage(f))
BY RTIStateParts DEF Reply

\* What a thread of the RTI receives.
LEMMA Received ==
  ASSUME TypeInv, NEW f \in Fed, NEW type, Receive(f, type)
  PROVE  /\ up' = [g \in Fed |-> up'[g]] /\ \A g \in Fed : up'[g] \in Seq(UpMessage(g))
         /\ up'[f] = Tail(up[f]) /\ \A g \in Fed \ {f} : up'[g] = up[g]
         /\ up[f] # <<>> /\ Head(up[f]) \in UpMessage(f) /\ Head(up[f]).type = type
         /\ Head(up[f]) = up[f][1] /\ Len(up'[f]) = Len(up[f]) - 1
         /\ \A i \in 1 .. Len(up'[f]) : up'[f][i] = up[f][i + 1]
<1>1. up[f] \in Seq(UpMessage(f)) /\ up[f] # <<>>
  BY DEF TypeInv, Receive
<1>2. Head(up[f]) \in UpMessage(f) /\ Tail(up[f]) \in Seq(UpMessage(f))
      /\ Len(Tail(up[f])) = Len(up[f]) - 1
      /\ \A i \in 1 .. Len(Tail(up[f])) : Tail(up[f])[i] = up[f][i + 1]
  BY <1>1, HeadTailProperties
<1>3. up' = [up EXCEPT ![f] = Tail(up[f])] /\ up = [g \in Fed |-> up[g]]
  BY DEF Receive, TypeInv
<1>4. up'[f] = Tail(up[f]) /\ (\A g \in Fed \ {f} : up'[g] = up[g]) /\ up' = [g \in Fed |-> up'[g]]
  BY <1>3
<1>5. Head(up[f]) = up[f][1]
  BY <1>1
<1> QED  BY <1>1, <1>2, <1>4, <1>5 DEF TypeInv, Receive

LEMMA UpMessageKinds ==
  ASSUME NetworkOK, NEW f \in Fed, NEW m \in UpMessage(f)
  PROVE  /\ m.tag \in EventTag
         /\ m.type \in {"MSG", "ABSENT"} =>
              /\ m \in [type : {"MSG", "ABSENT"}, tag : EventTag, conn : ConnFrom(f)]
              /\ m.conn \in ConnFrom(f) /\ m.conn.to \in Fed /\ m \in DownMessage(m.conn.to)
<1>1. m.tag \in EventTag
  BY SpecialTags DEF UpMessage
<1>2. ASSUME m.type \in {"MSG", "ABSENT"}
      PROVE  /\ m \in [type : {"MSG", "ABSENT"}, tag : EventTag, conn : ConnFrom(f)]
             /\ m.conn \in ConnFrom(f) /\ m.conn.to \in Fed /\ m \in DownMessage(m.conn.to)
  <2>1. m \in [type : {"MSG", "ABSENT"}, tag : EventTag, conn : ConnFrom(f)]
    BY <1>2 DEF UpMessage
  <2>2. m.conn \in ConnFrom(f) /\ m.conn \in program.conn
    BY <2>1 DEF ConnFrom
  <2>3. m.conn \in ConnTo(m.conn.to)
    BY <2>2 DEF ConnTo
  <2>4. m \in [type : {"MSG", "ABSENT"}, tag : EventTag, conn : ConnTo(m.conn.to)]
    BY <2>1, <2>3
  <2> QED  BY <2>1, <2>2, <2>4, ProgramParts DEF DownMessage
<1> QED  BY <1>1, <1>2

\* A message sent on to d.
LEMMA Forwarded ==
  ASSUME NEW S \in RTIStates, NEW d \in Fed, NEW m \in DownMessage(d)
  PROVE  /\ [S EXCEPT !.down = Send(@, d, m)] = [node |-> S.node, down |-> Send(S.down, d, m)]
         /\ [node |-> S.node, down |-> Send(S.down, d, m)] \in RTIStates
         /\ Send(S.down, d, m)[d] = Append(S.down[d], m)
         /\ \A g \in Fed \ {d} : Send(S.down, d, m)[g] = S.down[g]
<1>1. \A D : [S EXCEPT !.down = D] = [node |-> S.node, down |-> D]
  BY DEF RTIStates
<1>2. S.node \in [Fed -> Node] /\ S.down = [f \in Fed |-> S.down[f]]
      /\ \A f \in Fed : S.down[f] \in Seq(DownMessage(f))
  BY RTIStateParts
<1> DEFINE D == Send(S.down, d, m)
<1>3. D[d] = Append(S.down[d], m) /\ (\A g \in Fed \ {d} : D[g] = S.down[g])
      /\ D = [f \in Fed |-> D[f]]
  BY <1>2 DEF Send
<1>4. Append(S.down[d], m) \in Seq(DownMessage(d))
  BY <1>2, AppendProperties
<1>5. \A f \in Fed : D[f] \in Seq(DownMessage(f))
  BY <1>2, <1>3, <1>4
<1>6. [S EXCEPT !.down = Send(@, d, m)] = [node |-> S.node, down |-> D]
  BY <1>1
<1> HIDE DEF D
<1>7. [node |-> S.node, down |-> D] \in RTIStates
  BY <1>2, <1>3, <1>5, RTIState
<1> QED  BY <1>3, <1>6, <1>7 DEF D

-----------------------------------------------------------------------------
(* The handlers of the RTI keep the types                                  *)

\* The state of the RTI with what it knows of f replaced.
WithNode(S, f, n) == [node |-> [S.node EXCEPT ![f] = n], down |-> S.down]

LEMMA NodeReplaced ==
  ASSUME NEW S \in RTIStates, NEW f \in Fed, NEW n \in Node
  PROVE  /\ WithNode(S, f, n) \in RTIStates
         /\ WithNode(S, f, n).node[f] = n
         /\ \A g \in Fed \ {f} : WithNode(S, f, n).node[g] = S.node[g]
         /\ WithNode(S, f, n).down = S.down
<1>1. [S.node EXCEPT ![f] = n] \in [Fed -> Node]
      /\ [S.node EXCEPT ![f] = n][f] = n
      /\ \A g \in Fed \ {f} : [S.node EXCEPT ![f] = n][g] = S.node[g]
  BY RTIStateParts
<1> QED  BY <1>1, RTIState, RTIStateParts DEF WithNode

\* The LTC of f, before those downstream are told.
LTCReceived(f) == WithNode(RTI, f, [node[f] EXCEPT !.completed = Head(up[f]).tag])

LEMMA LTCEvolves ==
  ASSUME TypeInv, NEW f \in Fed, handle_latest_tag_confirmed(f)
  PROVE  /\ LTCReceived(f) \in RTIStates
         /\ Evolves(LTCReceived(f), [node |-> node', down |-> down'])
<1> DEFINE n == [node[f] EXCEPT !.completed = Head(up[f]).tag]
           order == InTurn([d \in Downstreams(f) |-> <<d>> \o DownstreamOrder(d)])
           S == LTCReceived(f)
<1>1. Head(up[f]).tag \in EventTag /\ Head(up[f]).tag \in Tag
  <2>1. Receive(f, "LTC")
    BY DEF handle_latest_tag_confirmed
  <2> QED  BY <2>1, Received, TypedRTI, UpMessageKinds, SpecialTags
<1>2. n \in Node
  BY <1>1, SpecialTags, NodeChanges DEF TypeInv
<1>3. S \in RTIStates
  BY <1>2, TypedRTI, NodeReplaced DEF LTCReceived
<1>4. order \in Seq(Fed)
  <2> DEFINE s == [d \in Downstreams(f) |-> <<d>> \o DownstreamOrder(d)]
  <2>1. ASSUME NEW d \in Downstreams(f) PROVE <<d>> \o DownstreamOrder(d) \in Seq(Fed)
    <3>1. d \in Fed
      BY TypedRTI, ProgramParts
    <3>2. DownstreamOrder(d) \in Seq(Fed) /\ <<d>> \in Seq(Fed)
      BY <3>1, TypedRTI, DownstreamNodes
    <3> QED  BY <3>2, ConcatProperties
  <2>2. \A d \in DOMAIN s : s[d] \in Seq(Fed)
    BY <2>1
  <2> HIDE DEF s
  <2> QED  BY <2>2, InTurnNodes DEF s
<1>5. [RTI EXCEPT !.node[f].completed = Head(up[f]).tag] = S
  BY DEF RTI, LTCReceived, WithNode
<1>6. Reply(NotifyEach(S, order))
  BY <1>5 DEF handle_latest_tag_confirmed
<1> HIDE DEF order, S
<1>7. Evolves(S, NotifyEach(S, order))
  BY <1>3, <1>4, TypedRTI, NotifyEachEvolves
<1>8. NotifyEach(S, order) = [node |-> node', down |-> down']
  BY <1>6, <1>7, RTIStateParts DEF Reply, Evolves
<1> QED  BY <1>3, <1>7, <1>8 DEF S

\* The resignation or the failure of f, before those downstream are told.
LeftRTI(f) == WithNode(RTI, f, [node[f] EXCEPT !.state = "NOT_CONNECTED", !.next_event = FOREVER_TAG])

LEMMA DisconnectedEvolves ==
  ASSUME TypeInv, NEW f \in Fed, Reply(Disconnected(f))
  PROVE  /\ LeftRTI(f) \in RTIStates
         /\ Evolves(LeftRTI(f), [node |-> node', down |-> down'])
<1> DEFINE n == [node[f] EXCEPT !.state = "NOT_CONNECTED", !.next_event = FOREVER_TAG]
           S == LeftRTI(f)
<1>1. n \in Node
  <2>1. node[f] \in Node
    BY DEF TypeInv
  <2> QED  BY <2>1, SpecialTags DEF Node
<1>2. S \in RTIStates
  BY <1>1, TypedRTI, NodeReplaced DEF LeftRTI
<1>3. NodeLeft(f) = S
  BY DEF NodeLeft, RTI, LeftRTI, WithNode
<1>4. Reply(NotifyEach(S, DownstreamOrder(f)))
  BY <1>3 DEF Disconnected
<1> HIDE DEF S
<1>5. DownstreamOrder(f) \in Seq(Fed)
  BY TypedRTI, DownstreamNodes
<1>6. Evolves(S, NotifyEach(S, DownstreamOrder(f)))
  BY <1>2, <1>5, TypedRTI, NotifyEachEvolves
<1>7. NotifyEach(S, DownstreamOrder(f)) = [node |-> node', down |-> down']
  BY <1>4, <1>6, RTIStateParts DEF Reply, Evolves
<1> QED  BY <1>2, <1>6, <1>7 DEF S

\* The message of f as it is sent on, and the messages in transit then.
ForwardedRTI(f) == [node |-> node, down |-> Send(down, Head(up[f]).conn.to, Head(up[f]))]
TransitWith(f) ==
  LET m == Head(up[f])
      d == m.conn.to IN
  IF Less(node[d].completed, m.tag) THEN in_transit[d] \cup {m.tag} ELSE in_transit[d]

LEMMA TimedMessageEvolves ==
  ASSUME TypeInv, NEW f \in Fed, handle_timed_message(f)
  PROVE  LET m == Head(up[f])
             d == m.conn.to
             next == NextWithInTransit(TransitWith(f), m.tag) IN
         /\ m \in UpMessage(f) /\ m.type = "MSG" /\ m.tag \in EventTag
         /\ m.conn \in ConnFrom(f) /\ d \in Fed /\ m \in DownMessage(d)
         /\ node[d].state = "NOT_CONNECTED" => UNCHANGED <<in_transit, node, down>>
         /\ node[d].state # "NOT_CONNECTED" =>
              /\ ForwardedRTI(f) \in RTIStates
              /\ TransitWith(f) \in SUBSET EventTag
              /\ in_transit' = [in_transit EXCEPT ![d] = TransitWith(f)]
              /\ next \in EventTag
              /\ ~Less(m.tag, node[d].next_event) => Evolves(ForwardedRTI(f), [node |-> node', down |-> down'])
              /\ Less(m.tag, node[d].next_event) =>
                   Evolves(WithNextEvent(ForwardedRTI(f), d, next), [node |-> node', down |-> down'])
<1> DEFINE m == Head(up[f])
           d == m.conn.to
           next == NextWithInTransit(TransitWith(f), m.tag)
           S == ForwardedRTI(f)
<1>1. Receive(f, "MSG")
  BY DEF handle_timed_message
<1>2. m \in UpMessage(f) /\ m.type = "MSG" /\ m.tag \in EventTag
      /\ m.conn \in ConnFrom(f) /\ d \in Fed /\ m \in DownMessage(d)
  <2>1. m \in UpMessage(f) /\ m.type = "MSG"
    BY <1>1, Received
  <2> HIDE DEF m
  <2> QED  BY <2>1, TypedRTI, UpMessageKinds
<1>3. node[d].state = "NOT_CONNECTED" => UNCHANGED <<in_transit, node, down>>
  BY DEF handle_timed_message
<1>4. ASSUME node[d].state # "NOT_CONNECTED"
      PROVE  /\ S \in RTIStates
             /\ TransitWith(f) \in SUBSET EventTag
             /\ in_transit' = [in_transit EXCEPT ![d] = TransitWith(f)]
             /\ next \in EventTag
             /\ ~Less(m.tag, node[d].next_event) => Evolves(S, [node |-> node', down |-> down'])
             /\ Less(m.tag, node[d].next_event) =>
                  Evolves(WithNextEvent(S, d, next), [node |-> node', down |-> down'])
  <2>1. S \in RTIStates /\ [RTI EXCEPT !.down = Send(@, d, m)] = S /\ S.node = node
    <3>1. RTI \in RTIStates /\ RTI.node = node /\ RTI.down = down
      BY TypedRTI
    <3> HIDE DEF m
    <3> QED  BY <1>2, <3>1, Forwarded DEF ForwardedRTI, m
  <2>2. in_transit[d] \in SUBSET EventTag
    BY <1>2 DEF TypeInv
  <2>3. TransitWith(f) \in SUBSET EventTag
    BY <1>2, <2>2, SMTT(30) DEF TransitWith
  <2>4. /\ in_transit' = [in_transit EXCEPT ![d] = TransitWith(f)]
        /\ Reply(EventEarlier(S, TransitWith(f), d, m.tag))
    BY <1>4, <2>1 DEF handle_timed_message, TransitWith
  <2> HIDE DEF S, m, d
  <2>5. NetworkOK
    BY DEF TypeInv
  <2>6. next \in EventTag
        /\ Evolves(WithNextEvent(S, d, next), update_federate_next_event_tag(S, TransitWith(f), d, m.tag))
    BY <1>2, <2>1, <2>3, <2>5, NextEventUpdated
  <2>7. CASE Less(m.tag, node[d].next_event)
    <3> DEFINE U == update_federate_next_event_tag(S, TransitWith(f), d, m.tag)
    <3>1. EventEarlier(S, TransitWith(f), d, m.tag) = U
      BY <2>1, <2>7 DEF EventEarlier
    <3>2. U \in RTIStates /\ Reply(U)
      BY <2>4, <2>6, <3>1 DEF Evolves
    <3> HIDE DEF U
    <3>3. U = [node |-> node', down |-> down']
      BY <3>2, RTIStateParts DEF Reply
    <3> QED  BY <2>1, <2>3, <2>4, <2>6, <2>7, <3>3 DEF U
  <2>8. CASE ~Less(m.tag, node[d].next_event)
    <3>1. EventEarlier(S, TransitWith(f), d, m.tag) = S
      BY <2>1, <2>8 DEF EventEarlier
    <3>2. S = [node |-> node', down |-> down']
      BY <2>1, <2>4, <3>1, RTIStateParts DEF Reply
    <3>3. Evolves(S, S)
      BY <2>1, EvolvesRefl
    <3> QED  BY <2>1, <2>3, <2>4, <2>6, <2>8, <3>2, <3>3
  <2> QED  BY <2>7, <2>8
<1> QED  BY <1>2, <1>3, <1>4

\* The NET of f, before its grants are considered.
NETEvolves(f) ==
  LET next == NextWithInTransit(in_transit[f], Head(up[f]).tag) IN
  /\ next \in EventTag
  /\ WithNextEvent(RTI, f, next) \in RTIStates
  /\ Evolves(WithNextEvent(RTI, f, next), [node |-> node', down |-> down'])

LEMMA NextEventTagEvolves ==
  ASSUME TypeInv, NEW f \in Fed, handle_next_event_tag(f)
  PROVE  NETEvolves(f)
<1> DEFINE tag == Head(up[f]).tag
           U == update_federate_next_event_tag(RTI, in_transit[f], f, tag)
<1>1. tag \in EventTag
  <2>1. Receive(f, "NET")
    BY DEF handle_next_event_tag
  <2> QED  BY <2>1, Received, TypedRTI, UpMessageKinds
<1>2. in_transit[f] \in SUBSET EventTag
  BY DEF TypeInv
<1>3. Reply(U)
  BY DEF handle_next_event_tag
<1> HIDE DEF tag
<1>4. /\ NextWithInTransit(in_transit[f], tag) \in EventTag
      /\ WithNextEvent(RTI, f, NextWithInTransit(in_transit[f], tag)) \in RTIStates
      /\ Evolves(WithNextEvent(RTI, f, NextWithInTransit(in_transit[f], tag)), U)
  BY <1>1, <1>2, TypedRTI, NextEventUpdated
<1>5. U \in RTIStates
  BY <1>4 DEF Evolves
<1> HIDE DEF U
<1>6. U = [node |-> node', down |-> down']
  BY <1>3, <1>5, RTIStateParts DEF Reply
<1> QED  BY <1>4, <1>6 DEF NETEvolves, tag

\* What the RTI is after a step that is described by Evolves.
LEMMA EvolvedTypes ==
  ASSUME NEW B, Evolves(B, [node |-> node', down |-> down'])
  PROVE  /\ node' \in [Fed -> Node]
         /\ down' = [f \in Fed |-> down'[f]] /\ \A f \in Fed : down'[f] \in Seq(DownMessage(f))
         /\ Kept(B.node, node') /\ Raised(B.node, node') /\ Provisionally(B.node, node')
         /\ \A e \in Fed : \E ms \in Seq(DownMessage(e)) :
              /\ down'[e] = B.down[e] \o ms
              /\ \A i \in 1 .. Len(ms) : Sent(e, node'[e], ms[i])
<1> DEFINE S == [node |-> node', down |-> down']
<1>1. S \in RTIStates /\ S.node = node' /\ S.down = down' /\ Kept(B.node, node')
      /\ Raised(B.node, node') /\ Provisionally(B.node, node') /\ Mailed(B, S)
  BY DEF Evolves
<1> HIDE DEF S
<1> QED  BY <1>1, RTIStateParts DEF Mailed

LEMMA ServeFederateTypes ==
  ASSUME TypeInv, NEW f \in Fed, ServeFederate(f)
  PROVE  TypeInv'
<1>1. UNCHANGED <<network, fed>>
  BY DEF ServeFederate, handle_next_event_tag, handle_timed_message, handle_port_absent_message,
         handle_latest_tag_confirmed, remove_up_to_completed, handle_federate_resign,
         handle_federate_failed, connection_closed
<1>2. SUFFICES /\ node' \in [Fed -> Node]
               /\ down' = [g \in Fed |-> down'[g]] /\ \A g \in Fed : down'[g] \in Seq(DownMessage(g))
               /\ in_transit' \in [Fed -> SUBSET EventTag]
               /\ confirming' \in [Fed -> EventTag \cup {NULL}]
               /\ up' = [g \in Fed |-> up'[g]] /\ \A g \in Fed : up'[g] \in Seq(UpMessage(g))
  BY <1>1, SameProgram DEF TypeInv
<1>3. CASE handle_next_event_tag(f)
  <2>1. Receive(f, "NET") /\ UNCHANGED <<in_transit, confirming>>
    BY <1>3 DEF handle_next_event_tag
  <2>2. Evolves(WithNextEvent(RTI, f, NextWithInTransit(in_transit[f], Head(up[f]).tag)),
                [node |-> node', down |-> down'])
    BY <1>3, NextEventTagEvolves DEF NETEvolves
  <2> QED  BY <2>1, <2>2, EvolvedTypes, Received DEF TypeInv
<1>4. CASE handle_timed_message(f)
  <2> DEFINE m == Head(up[f])
             d == m.conn.to
  <2>1. Receive(f, "MSG") /\ UNCHANGED confirming
    BY <1>4 DEF handle_timed_message
  <2>2. CASE node[d].state = "NOT_CONNECTED"
    <3>1. UNCHANGED <<in_transit, node, down>>
      BY <1>4, <2>2, TimedMessageEvolves
    <3> QED  BY <2>1, <3>1, Received DEF TypeInv
  <2>3. CASE node[d].state # "NOT_CONNECTED"
    <3>1. \E B : Evolves(B, [node |-> node', down |-> down'])
      BY <1>4, <2>3, TimedMessageEvolves
    <3>2. in_transit' = [in_transit EXCEPT ![d] = TransitWith(f)]
          /\ TransitWith(f) \in SUBSET EventTag
      BY <1>4, <2>3, TimedMessageEvolves
    <3>3. in_transit' \in [Fed -> SUBSET EventTag]
      BY <3>2 DEF TypeInv
    <3> QED  BY <2>1, <3>1, <3>3, EvolvedTypes, Received DEF TypeInv
  <2> QED  BY <2>2, <2>3
<1>5. CASE handle_port_absent_message(f)
  <2> DEFINE m == Head(up[f])
  <2>1. Receive(f, "ABSENT") /\ UNCHANGED <<node, in_transit, confirming>>
        /\ (down' = down \/ down' = Send(down, m.conn.to, m))
    BY <1>5 DEF handle_port_absent_message
  <2>2. m \in UpMessage(f) /\ m.type = "ABSENT"
    BY <2>1, Received
  <2>3. m.conn.to \in Fed /\ m \in DownMessage(m.conn.to)
    <3> HIDE DEF m
    <3> QED  BY <2>2, TypedRTI, UpMessageKinds
  <2>4. RTI \in RTIStates /\ RTI.node = node /\ RTI.down = down
    BY TypedRTI
  <2> HIDE DEF m
  <2>5. [node |-> node, down |-> Send(down, m.conn.to, m)] \in RTIStates
    BY <2>3, <2>4, Forwarded
  <2>6. down' = [g \in Fed |-> down'[g]] /\ \A g \in Fed : down'[g] \in Seq(DownMessage(g))
    <3>1. CASE down' = down
      BY <3>1 DEF TypeInv
    <3>2. CASE down' = Send(down, m.conn.to, m)
      <4>1. [node |-> node, down |-> down'] \in RTIStates
        BY <2>5, <3>2
      <4> QED  BY <4>1, RTIStateParts
    <3> QED  BY <2>1, <3>1, <3>2
  <2> QED  BY <2>1, <2>6, Received DEF TypeInv
<1>6. CASE handle_latest_tag_confirmed(f)
  <2>1. Receive(f, "LTC") /\ UNCHANGED in_transit
        /\ confirming' = [confirming EXCEPT ![f] = Head(up[f]).tag]
    BY <1>6 DEF handle_latest_tag_confirmed
  <2>2. Head(up[f]).tag \in EventTag
    BY <2>1, Received, TypedRTI, UpMessageKinds
  <2>3. Evolves(LTCReceived(f), [node |-> node', down |-> down'])
    BY <1>6, LTCEvolves
  <2>4. confirming' \in [Fed -> EventTag \cup {NULL}]
    BY <2>1, <2>2 DEF TypeInv
  <2> QED  BY <2>1, <2>3, <2>4, EvolvedTypes, Received DEF TypeInv
<1>7. CASE remove_up_to_completed(f)
  BY <1>7 DEF remove_up_to_completed, TypeInv
<1>8. CASE handle_federate_resign(f) \/ handle_federate_failed(f)
  <2>1. \E type : Receive(f, type)
    BY <1>8 DEF handle_federate_resign, handle_federate_failed
  <2>2. Reply(Disconnected(f)) /\ UNCHANGED <<in_transit, confirming>>
    BY <1>8 DEF handle_federate_resign, handle_federate_failed
  <2>3. Evolves(LeftRTI(f), [node |-> node', down |-> down'])
    BY <2>2, DisconnectedEvolves
  <2> QED  BY <2>1, <2>2, <2>3, EvolvedTypes, Received DEF TypeInv
<1>9. CASE connection_closed(f)
  <2>1. Receive(f, "EOF") /\ UNCHANGED <<in_transit, confirming, down>>
        /\ node' = [node EXCEPT ![f] = [node[f] EXCEPT !.state = "NOT_CONNECTED"]]
    BY <1>9 DEF connection_closed
  <2>2. node' \in [Fed -> Node]
    BY <2>1 DEF TypeInv, Node
  <2> QED  BY <2>1, <2>2, Received DEF TypeInv
<1> QED  BY <1>3, <1>4, <1>5, <1>6, <1>7, <1>8, <1>9, SMTT(30) DEF ServeFederate

-----------------------------------------------------------------------------
(* The federates keep the types                                            *)

LEMMA FedParts ==
  ASSUME NEW f, NEW me \in FedState(f)
  PROVE  /\ me.current \in EventTag /\ me.current \in Tag /\ me.last_TAG \in Tag /\ me.last_DNET \in Tag
         /\ me.asked \in EventTag \cup {NEVER_TAG} /\ me.asked \in Tag
         /\ me.last_sent_LTC \in Tag /\ me.last_sent_NET \in Tag
         /\ me.last_skipped_NET \in EventTag \cup {NEVER_TAG} /\ me.last_skipped_NET \in Tag
         /\ me.dnet \in Tag \cup {NULL} /\ me.known \in [ConnTo(f) -> Tag]
         /\ me.queue \subseteq [tag : EventTag, conn : ConnTo(f) \cup {NULL}]
         /\ me.todo \subseteq ConnTo(f) \cup ConnFrom(f) /\ me.level \in Nat
         /\ me.started \in BOOLEAN /\ me.received \in BOOLEAN /\ me.failed \in BOOLEAN
         /\ me.pc \in {"start", "wait", "advance", "exec", "stopping", "done", "fatal"}
BY SpecialTags DEF FedState

LEMMA StopTag == STOP_TAG \in EventTag
BY FederationAssumption, TagsAssumption DEF STOP_TAG, EventTag, Tag, Microstep

LEMMA NextEventTag ==
  ASSUME NEW f, NEW me \in FedState(f)
  PROVE  /\ NextEvent(me) \in EventTag /\ Leq(NextEvent(me), STOP_TAG)
         /\ \A e \in me.queue : Leq(NextEvent(me), e.tag)
         /\ NextEvent(me) = STOP_TAG \/ \E e \in me.queue : e.tag = NextEvent(me)
<1> DEFINE S == {e.tag : e \in me.queue}
<1>1. S \subseteq EventTag
  BY FedParts
<1> HIDE DEF S
<1>2. Earliest(S) \in EventTag /\ Earliest(S) \in Tag /\ Earliest(S) \in S \cup {FOREVER_TAG}
      /\ \A t \in S : Leq(Earliest(S), t)
  BY <1>1, EarliestIsLeast, EarliestEventTag, SpecialTags
<1>3. NextEvent(me) = lf_tag_min(Earliest(S), STOP_TAG)
  BY DEF NextEvent, S
<1>4. STOP_TAG \in Tag /\ STOP_TAG \in EventTag
  BY StopTag, SpecialTags
<1>5. NextEvent(me) \in EventTag /\ Leq(NextEvent(me), STOP_TAG) /\ Leq(NextEvent(me), Earliest(S))
      /\ NextEvent(me) \in {Earliest(S), STOP_TAG}
  BY <1>2, <1>3, <1>4, MinMaxTags
<1>6. ASSUME NEW t \in S PROVE Leq(NextEvent(me), t)
  <2>1. Leq(Earliest(S), t) /\ t \in Tag /\ NextEvent(me) \in Tag
    BY <1>1, <1>2, <1>5, SpecialTags
  <2> QED  BY <1>2, <1>5, <2>1, TagOrdering
<1>7. NextEvent(me) = STOP_TAG \/ NextEvent(me) \in S
  <2>1. CASE Earliest(S) = FOREVER_TAG /\ NextEvent(me) # STOP_TAG
    <3>1. NextEvent(me) = FOREVER_TAG
      BY <1>5, <2>1
    <3>2. Leq(FOREVER_TAG, STOP_TAG) /\ Leq(STOP_TAG, FOREVER_TAG) /\ FOREVER_TAG \in Tag
      BY <1>4, <1>5, <3>1, ZeroAndForever, SpecialTags
    <3>3. FOREVER_TAG = STOP_TAG
      BY <1>4, <3>2, TagOrdering
    <3> QED  BY <2>1, <3>1, <3>3
  <2> QED  BY <1>2, <1>5, <2>1
<1> QED  BY <1>5, <1>6, <1>7 DEF S

LEMMA FedBecomes ==
  ASSUME TypeInv, NEW f \in Fed, NEW me \in FedState(f), NEW ms \in Seq(UpMessage(f)), Becomes(f, me, ms)
  PROVE  /\ fed' = [g \in Fed |-> fed'[g]] /\ fed'[f] = me /\ \A g \in Fed \ {f} : fed'[g] = fed[g]
         /\ up' = [g \in Fed |-> up'[g]] /\ up'[f] = up[f] \o ms /\ \A g \in Fed \ {f} : up'[g] = up[g]
         /\ \A g \in Fed : up'[g] \in Seq(UpMessage(g)) /\ fed'[g] \in FedState(g)
<1>1. fed = [g \in Fed |-> fed[g]] /\ up = [g \in Fed |-> up[g]]
      /\ \A g \in Fed : fed[g] \in FedState(g) /\ up[g] \in Seq(UpMessage(g))
  BY DEF TypeInv
<1>2. fed' = [fed EXCEPT ![f] = me] /\ up' = [up EXCEPT ![f] = up[f] \o ms]
  BY DEF Becomes
<1>3. /\ fed' = [g \in Fed |-> fed'[g]] /\ fed'[f] = me /\ \A g \in Fed \ {f} : fed'[g] = fed[g]
      /\ up' = [g \in Fed |-> up'[g]] /\ up'[f] = up[f] \o ms /\ \A g \in Fed \ {f} : up'[g] = up[g]
  BY <1>1, <1>2
<1>4. up[f] \o ms \in Seq(UpMessage(f))
  BY <1>1, ConcatProperties
<1>5. ASSUME NEW g \in Fed PROVE up'[g] \in Seq(UpMessage(g)) /\ fed'[g] \in FedState(g)
  <2>1. CASE g = f
    BY <1>3, <1>4, <2>1
  <2>2. CASE g # f
    BY <1>1, <1>3, <2>2
  <2> QED  BY <2>1, <2>2
<1> QED  BY <1>3, <1>5

\* What a federate may become.
BecomesTyped(f) ==
  \E me \in FedState(f), ms \in Seq(UpMessage(f)) : Becomes(f, me, ms)

LEMMA OneMessage ==
  ASSUME NEW f, NEW t \in EventTag
  PROVE  /\ <<Msg("LTC", t, NULL)>> \in Seq(UpMessage(f)) /\ <<Msg("NET", t, NULL)>> \in Seq(UpMessage(f))
         /\ <<Msg("RESIGN", FOREVER_TAG, NULL)>> \in Seq(UpMessage(f))
         /\ \A type \in {"FAILED", "EOF"} : <<Msg(type, FOREVER_TAG, NULL)>> \in Seq(UpMessage(f))
         /\ \A c \in ConnFrom(f) : /\ <<Msg("MSG", t, c)>> \in Seq(UpMessage(f))
                                   /\ <<Msg("ABSENT", t, c)>> \in Seq(UpMessage(f))
         /\ << >> \in Seq(UpMessage(f))
         /\ \A me : /\ LTC(me, t) \in Seq(UpMessage(f))
                    /\ NET(f, me, t) \in Seq(UpMessage(f))
<1>1. Msg("LTC", t, NULL) \in UpMessage(f) /\ Msg("NET", t, NULL) \in UpMessage(f)
      /\ Msg("RESIGN", FOREVER_TAG, NULL) \in UpMessage(f)
      /\ \A type \in {"FAILED", "EOF"} : Msg(type, FOREVER_TAG, NULL) \in UpMessage(f)
      /\ \A c \in ConnFrom(f) : Msg("MSG", t, c) \in UpMessage(f) /\ Msg("ABSENT", t, c) \in UpMessage(f)
  BY DEF Msg, UpMessage
<1>2. \A m \in UpMessage(f) : <<m>> \in Seq(UpMessage(f))
  OBVIOUS
<1>3. << >> \in Seq(UpMessage(f))
  OBVIOUS
<1> QED  BY <1>1, <1>2, <1>3 DEF LTC, NET

LEMMA AnnouncedType ==
  ASSUME NEW f, NEW me \in FedState(f), NEW t \in EventTag
  PROVE  /\ Announced(f, me, t) \in FedState(f)
         /\ \A pc \in {"start", "wait", "advance", "exec", "stopping", "done", "fatal"} :
              /\ [Announced(f, me, t) EXCEPT !.pc = pc] \in FedState(f)
              /\ [Announced(f, me, t) EXCEPT !.pc = pc, !.asked = t, !.signalled = FALSE] \in FedState(f)
<1>1. t \in Tag
  BY SpecialTags
<1>2. Announced(f, me, t) \in FedState(f)
  BY <1>1, ZenonT(60) DEF Announced, FedState
<1> DEFINE a == Announced(f, me, t)
<1> HIDE DEF a
<1>3. a \in FedState(f)
  BY <1>2 DEF a
<1>4. \A pc \in {"start", "wait", "advance", "exec", "stopping", "done", "fatal"} :
              /\ [a EXCEPT !.pc = pc] \in FedState(f)
              /\ [a EXCEPT !.pc = pc, !.asked = t, !.signalled = FALSE] \in FedState(f)
  BY <1>3, ZenonT(60) DEF FedState
<1> QED  BY <1>2, <1>4 DEF a

LEMMA ConfirmedType ==
  ASSUME NEW f, NEW me \in FedState(f), NEW t \in EventTag
  PROVE  /\ Confirmed(me, t) \in FedState(f)
         /\ [Confirmed(me, t) EXCEPT !.pc = "stopping"] \in FedState(f)
<1>1. t \in Tag
  BY SpecialTags
<1>2. Confirmed(me, t) \in FedState(f)
  BY <1>1 DEF Confirmed, FedState
<1> QED  BY <1>2 DEF FedState

LEMMA AskType ==
  ASSUME NEW f \in Fed, NEW me \in FedState(f), NEW t \in EventTag, NEW ms \in Seq(UpMessage(f)),
         send_next_event_tag(f, me, t, ms)
  PROVE  BecomesTyped(f)
<1> DEFINE pc == IF Leq(t, me.last_TAG) \/ Upstreams(f) = {} THEN "advance" ELSE "wait"
           a == [Announced(f, me, t) EXCEPT !.pc = pc, !.asked = t, !.signalled = FALSE]
<1>1. Becomes(f, a, ms \o NET(f, me, t))
  BY DEF send_next_event_tag
<1>2. a \in FedState(f)
  BY AnnouncedType
<1>3. NET(f, me, t) \in Seq(UpMessage(f))
  BY OneMessage
<1>4. ms \o NET(f, me, t) \in Seq(UpMessage(f))
  BY <1>3, ConcatProperties
<1> HIDE DEF a
<1> QED  BY <1>1, <1>2, <1>4 DEF BecomesTyped

LEMMA WorkTypes ==
  ASSUME TypeInv, NEW f \in Fed, Work(f) \/ Fail(f)
  PROVE  BecomesTyped(f)
<1> DEFINE me == fed[f]
<1>1. me \in FedState(f) /\ NetworkOK
  BY DEF TypeInv
<1>2. NextEvent(me) \in EventTag /\ me.current \in EventTag
  BY <1>1, NextEventTag, FedParts
<1>3. << >> \in Seq(UpMessage(f))
  OBVIOUS
<1>4. CASE Start(f)
  BY <1>1, <1>2, <1>3, <1>4, AskType DEF Start
<1>5. CASE Wake(f)
  <2> DEFINE w == [me EXCEPT !.signalled = FALSE]
             next == NextEvent(w)
  <2>1. w \in FedState(f)
    BY <1>1 DEF FedState
  <2>2. next \in EventTag /\ next \in Tag
    <3> HIDE DEF w
    <3> QED  BY <2>1, NextEventTag, SpecialTags
  <2>3. [w EXCEPT !.pc = "advance"] \in FedState(f)
    BY <1>1 DEF FedState
  <2>4. [w EXCEPT !.last_sent_NET = next, !.last_skipped_NET = NEVER_TAG] \in FedState(f)
    <3> HIDE DEF next
    <3> QED  BY <1>1, <2>2, SpecialTags DEF FedState
  <2>5. <<Msg("NET", next, NULL)>> \in Seq(UpMessage(f))
    <3> HIDE DEF next
    <3> QED  BY <2>2, OneMessage
  <2>6. \/ send_next_event_tag(f, w, next, <<>>)
        \/ Becomes(f, [w EXCEPT !.pc = "advance"], <<>>)
        \/ Becomes(f, [w EXCEPT !.last_sent_NET = next, !.last_skipped_NET = NEVER_TAG],
                   <<Msg("NET", next, NULL)>>)
        \/ Becomes(f, w, <<>>)
    BY <1>5 DEF Wake
  <2> HIDE DEF w, next
  <2> QED  BY <1>3, <2>1, <2>2, <2>3, <2>4, <2>5, <2>6, AskType DEF BecomesTyped
<1>6. CASE AdvanceTag(f)
  <2> DEFINE next == IF me.started THEN NextEvent(me) ELSE me.current
             popped == {e \in me.queue : e.tag = next}
             todo == ({e.conn : e \in popped} \ {NULL}) \cup ConnFrom(f)
             active == next[2] = 0 /\ next[1] \in program.timer[f]
             received == me.received /\ ~me.started
             a == [me EXCEPT !.pc = "exec", !.started = TRUE, !.current = next,
                           !.queue = @ \ popped, !.level = 0, !.received = received,
                           !.active = active, !.todo = todo]
  <2>1. Becomes(f, a, <<>>)
    BY <1>6 DEF AdvanceTag
  <2>2. next \in EventTag
    BY <1>2
  <2>3. todo \in SUBSET (ConnTo(f) \cup ConnFrom(f))
    BY <1>1, FedParts
  <2>4. me.queue \ popped \in SUBSET [tag : EventTag, conn : ConnTo(f) \cup {NULL}]
    BY <1>1, FedParts
  <2>5. received \in BOOLEAN /\ active \in BOOLEAN
    OBVIOUS
  <2> HIDE DEF next, popped, todo, active, received
  <2>6. a \in FedState(f)
    BY <1>1, <2>2, <2>3, <2>4, <2>5, ZenonT(60) DEF FedState
  <2> HIDE DEF a
  <2> QED  BY <1>3, <2>1, <2>6 DEF BecomesTyped
<1>7. CASE Complete(f)
  <2> DEFINE after == Confirmed(me, me.current)
  <2>1. after \in FedState(f) /\ [after EXCEPT !.pc = "stopping"] \in FedState(f)
    BY <1>1, <1>2, ConfirmedType
  <2>2. LTC(me, me.current) \in Seq(UpMessage(f))
    BY <1>2, OneMessage
  <2>3. \/ Becomes(f, [after EXCEPT !.pc = "stopping"], LTC(me, me.current))
        \/ send_next_event_tag(f, after, NextEvent(me), LTC(me, me.current))
    BY <1>7 DEF Complete
  <2> HIDE DEF after
  <2> QED  BY <1>2, <2>1, <2>2, <2>3, AskType DEF BecomesTyped
<1>8. CASE Leave(f)
  <2> DEFINE a == [Announced(f, me, FOREVER_TAG) EXCEPT !.pc = "done"]
             ms == NET(f, me, FOREVER_TAG) \o <<Msg("RESIGN", FOREVER_TAG, NULL)>>
  <2>1. a \in FedState(f)
    BY <1>1, AnnouncedType, SpecialTags
  <2>2. NET(f, me, FOREVER_TAG) \in Seq(UpMessage(f)) /\ <<Msg("RESIGN", FOREVER_TAG, NULL)>> \in Seq(UpMessage(f))
    BY OneMessage, SpecialTags
  <2>3. ms \in Seq(UpMessage(f))
    BY <2>2, ConcatProperties
  <2>4. Becomes(f, a, ms)
    BY <1>8 DEF Leave
  <2> HIDE DEF a, ms
  <2> QED  BY <2>1, <2>3, <2>4 DEF BecomesTyped
<1>9. ASSUME NEW c \in program.conn, ExecuteInput(f, c)
      PROVE  BecomesTyped(f)
  <2> DEFINE a == [me EXCEPT !.todo = @ \ {c}, !.received = TRUE, !.active = TRUE, !.level = c.in]
  <2>1. c.in \in Nat
    BY <1>1, ProgramParts
  <2>2. a \in FedState(f)
    BY <1>1, <2>1 DEF FedState
  <2>3. Becomes(f, a, <<>>)
    BY <1>9 DEF ExecuteInput
  <2> HIDE DEF a
  <2> QED  BY <1>3, <2>2, <2>3 DEF BecomesTyped
<1>10. ASSUME NEW c \in program.conn, SendMessage(f, c)
       PROVE  BecomesTyped(f)
  <2> DEFINE tag == lf_delay_tag(me.current, c.delay)
             sent == ~Less(STOP_TAG, tag)
             dnet == IF sent THEN lf_tag_min(me.last_DNET, tag) ELSE me.last_DNET
             a == [me EXCEPT !.todo = @ \ {c}, !.level = c.out, !.last_DNET = dnet]
             ms == IF sent THEN <<Msg("MSG", tag, c)>> ELSE <<>>
  <2>1. c.out \in Nat /\ c.delay \in Delay /\ c \in ConnFrom(f)
    BY <1>1, <1>10, ProgramParts DEF SendMessage
  <2>2. tag \in EventTag /\ tag \in Tag
    BY <1>2, <2>1, DelayedTag, SpecialTags
  <2>3. dnet \in Tag
    BY <1>1, <2>2, FedParts, MinMaxTags
  <2>4. ms \in Seq(UpMessage(f))
    BY <2>1, <2>2, OneMessage
  <2>5. Becomes(f, a, ms)
    BY <1>10 DEF SendMessage
  <2> HIDE DEF dnet, ms
  <2>6. a \in FedState(f)
    BY <1>1, <2>1, <2>3 DEF FedState
  <2> HIDE DEF a
  <2> QED  BY <2>4, <2>5, <2>6 DEF BecomesTyped
<1>11. ASSUME NEW c \in program.conn, SendAbsent(f, c)
       PROVE  BecomesTyped(f)
  <2> DEFINE a == [me EXCEPT !.todo = @ \ {c}, !.level = c.out]
             tag == lf_delay_strict(me.current, c.delay)
             ms == IF ZeroDelayCycle(c) THEN <<Msg("ABSENT", tag, c)>> ELSE <<>>
  <2>1. c.out \in Nat /\ c \in ConnFrom(f)
    BY <1>1, <1>11, ProgramParts DEF SendAbsent
  <2>2. ZeroDelayCycle(c) => tag = me.current
    <3>1. ZeroDelayCycle(c) => c.delay = NEVER
      BY DEF ZeroDelayCycle
    <3>2. lf_delay_tag(me.current, NEVER) = me.current
      BY TagsAssumption DEF lf_delay_tag
    <3> QED  BY <3>1, <3>2 DEF lf_delay_strict
  <2>3. ms \in Seq(UpMessage(f))
    BY <1>2, <2>1, <2>2, OneMessage
  <2>4. a \in FedState(f)
    BY <1>1, <2>1 DEF FedState
  <2>5. Becomes(f, a, ms)
    BY <1>11 DEF SendAbsent
  <2> HIDE DEF a, ms
  <2> QED  BY <2>3, <2>4, <2>5 DEF BecomesTyped
<1>12. CASE Fail(f)
  <2>1. [me EXCEPT !.failed = TRUE] \in FedState(f)
    BY <1>1 DEF FedState
  <2>2. \A type \in {"FAILED", "EOF"} : <<Msg(type, FOREVER_TAG, NULL)>> \in Seq(UpMessage(f))
    BY <1>2, OneMessage
  <2> QED  BY <1>12, <2>1, <2>2 DEF Fail, BecomesTyped
<1> QED  BY <1>4, <1>5, <1>6, <1>7, <1>8, <1>9, <1>10, <1>11, <1>12 DEF Work

\* What the listener of f hears.
LEMMA Heeded ==
  ASSUME TypeInv, NEW f \in Fed, NEW type, Hear(f, type)
  PROVE  /\ down' = [g \in Fed |-> down'[g]] /\ \A g \in Fed : down'[g] \in Seq(DownMessage(g))
         /\ down'[f] = Tail(down[f]) /\ \A g \in Fed \ {f} : down'[g] = down[g]
         /\ Head(down[f]) \in DownMessage(f) /\ Head(down[f]).type = type /\ Head(down[f]).tag \in Tag
         /\ type \in {"PTAG", "MSG", "ABSENT"} => Head(down[f]).tag \in EventTag
         /\ type \in {"MSG", "ABSENT"} => Head(down[f]).conn \in ConnTo(f)
         /\ Head(down[f]) = down[f][1] /\ Len(down'[f]) = Len(down[f]) - 1 /\ down[f] # << >>
         /\ \A i \in 1 .. Len(down'[f]) : down'[f][i] = down[f][i + 1]
<1>1. down[f] \in Seq(DownMessage(f)) /\ down[f] # <<>>
  BY DEF TypeInv, Hear
<1>2. Head(down[f]) \in DownMessage(f) /\ Tail(down[f]) \in Seq(DownMessage(f))
      /\ Len(Tail(down[f])) = Len(down[f]) - 1
      /\ \A i \in 1 .. Len(Tail(down[f])) : Tail(down[f])[i] = down[f][i + 1]
  BY <1>1, HeadTailProperties
<1>3. down' = [down EXCEPT ![f] = Tail(down[f])] /\ down = [g \in Fed |-> down[g]]
  BY DEF Hear, TypeInv
<1>4. down'[f] = Tail(down[f]) /\ (\A g \in Fed \ {f} : down'[g] = down[g]) /\ down' = [g \in Fed |-> down'[g]]
  BY <1>3
<1>5. Head(down[f]) = down[f][1] /\ Head(down[f]).type = type
  BY <1>1 DEF Hear
<1>6. Head(down[f]).tag \in Tag /\ (type \in {"PTAG", "MSG", "ABSENT"} => Head(down[f]).tag \in EventTag)
      /\ (type \in {"MSG", "ABSENT"} => Head(down[f]).conn \in ConnTo(f))
  BY <1>2, <1>5, SpecialTags DEF DownMessage
<1> QED  BY <1>1, <1>2, <1>4, <1>5, <1>6 DEF TypeInv

LEMMA KnownType ==
  ASSUME NEW f, NEW me \in FedState(f), NEW c \in ConnTo(f), NEW t \in Tag
  PROVE  Known(me, c, t) \in FedState(f)
<1> DEFINE u == lf_tag_max(t, me.current)
<1>1. u \in Tag /\ me.known \in [ConnTo(f) -> Tag]
  BY FedParts, MinMaxTags
<1>2. <<u[1], Increment(u[2])>> \in Tag
  BY <1>1, IncrementedTag
<1> HIDE DEF u
<1>3. /\ [me EXCEPT !.known[c] = <<u[1], Increment(u[2])>>, !.signalled = TRUE] \in FedState(f)
      /\ [me EXCEPT !.known[c] = u, !.signalled = TRUE] \in FedState(f)
  <2>1. \A v \in Tag : [me.known EXCEPT ![c] = v] \in [ConnTo(f) -> Tag]
    BY <1>1
  <2>2. \A v \in Tag : [me EXCEPT !.known[c] = v, !.signalled = TRUE] \in FedState(f)
    BY <2>1 DEF FedState
  <2> QED  BY <1>1, <1>2, <2>2
<1> QED  BY <1>3 DEF Known, u

LEMMA ListenTypes ==
  ASSUME TypeInv, NEW f \in Fed, Listen(f)
  PROVE  BecomesTyped(f)
<1> DEFINE me == fed[f]
           m == Head(down[f])
<1>1. me \in FedState(f) /\ NetworkOK
  BY DEF TypeInv
<1>2. << >> \in Seq(UpMessage(f))
  OBVIOUS
<1>3. CASE handle_tag_advance_grant(f)
  <2> DEFINE k == [c \in DOMAIN me.known |-> lf_tag_max(me.known[c], m.tag)]
             w == [me EXCEPT !.known = k]
             a == [w EXCEPT !.last_TAG = m.tag, !.provisional = FALSE, !.signalled = TRUE]
  <2>1. m.tag \in Tag
    BY <1>3, Heeded DEF handle_tag_advance_grant
  <2>2. k \in [ConnTo(f) -> Tag]
    BY <1>1, <2>1, FedParts, MinMaxTags
  <2>3. Becomes(f, w, <<>>) \/ Becomes(f, a, <<>>)
    BY <1>3 DEF handle_tag_advance_grant
  <2> HIDE DEF k, m
  <2>4. w \in FedState(f) /\ a \in FedState(f)
    BY <1>1, <2>1, <2>2, ZenonT(60) DEF FedState
  <2> HIDE DEF w, a
  <2> QED  BY <1>2, <2>3, <2>4 DEF BecomesTyped
<1>4. CASE handle_provisional_tag_advance_grant(f)
  <2> DEFINE w == [me EXCEPT !.last_TAG = m.tag, !.provisional = TRUE, !.signalled = TRUE]
             q == [w EXCEPT !.queue = @ \cup {Event(m.tag, NULL)}]
  <2>1. m.tag \in EventTag /\ m.tag \in Tag
    BY <1>4, Heeded DEF handle_provisional_tag_advance_grant
  <2>2. [me EXCEPT !.pc = "fatal"] \in FedState(f)
    BY <1>1 DEF FedState
  <2>3. \/ Becomes(f, [me EXCEPT !.pc = "fatal"], <<>>)
        \/ Becomes(f, Confirmed(w, m.tag), LTC(w, m.tag))
        \/ Becomes(f, w, <<>>)
        \/ Becomes(f, q, <<>>)
    BY <1>4 DEF handle_provisional_tag_advance_grant
  <2> HIDE DEF m
  <2>4. w \in FedState(f)
    BY <1>1, <2>1 DEF FedState
  <2>5. Event(m.tag, NULL) \in [tag : EventTag, conn : ConnTo(f) \cup {NULL}]
    BY <2>1 DEF Event
  <2> HIDE DEF w
  <2>6. q \in FedState(f)
    BY <2>4, <2>5 DEF FedState
  <2>7. LTC(w, m.tag) \in Seq(UpMessage(f)) /\ Confirmed(w, m.tag) \in FedState(f)
    BY <2>1, <2>4, OneMessage, ConfirmedType
  <2> HIDE DEF q
  <2> QED  BY <1>2, <2>2, <2>3, <2>4, <2>6, <2>7 DEF BecomesTyped
<1>5. CASE handle_tagged_message(f)
  <2> DEFINE w == Known(me, m.conn, m.tag)
  <2>1. m.tag \in EventTag /\ m.tag \in Tag /\ m.conn \in ConnTo(f)
    <3>1. Hear(f, "MSG")
      BY <1>5 DEF handle_tagged_message
    <3> QED  BY <3>1, Heeded
  <2>2. \/ Becomes(f, [w EXCEPT !.todo = @ \cup {m.conn}], <<>>)
        \/ Becomes(f, [w EXCEPT !.pc = "fatal"], <<>>)
        \/ Becomes(f, [w EXCEPT !.queue = @ \cup {Event(m.tag, m.conn)}, !.signalled = TRUE], <<>>)
    BY <1>5 DEF handle_tagged_message
  <2> HIDE DEF m
  <2>3. w \in FedState(f)
    BY <1>1, <2>1, KnownType
  <2>4. Event(m.tag, m.conn) \in [tag : EventTag, conn : ConnTo(f) \cup {NULL}]
    BY <2>1 DEF Event
  <2> HIDE DEF w
  <2>5. /\ [w EXCEPT !.todo = @ \cup {m.conn}] \in FedState(f)
        /\ [w EXCEPT !.pc = "fatal"] \in FedState(f)
        /\ [w EXCEPT !.queue = @ \cup {Event(m.tag, m.conn)}, !.signalled = TRUE] \in FedState(f)
    BY <2>1, <2>3, <2>4, ZenonT(60) DEF FedState
  <2> QED  BY <1>2, <2>2, <2>5 DEF BecomesTyped
<1>6. CASE HandlePortAbsent(f)
  <2>1. m.tag \in Tag /\ m.conn \in ConnTo(f)
    BY <1>6, Heeded DEF HandlePortAbsent
  <2>2. Known(me, m.conn, m.tag) \in FedState(f)
    <3> HIDE DEF m
    <3> QED  BY <1>1, <2>1, KnownType
  <2> QED  BY <1>2, <1>6, <2>2 DEF HandlePortAbsent, BecomesTyped
<1>7. CASE handle_downstream_next_event_tag(f)
  <2> DEFINE w == [me EXCEPT !.received_any_DNET = TRUE, !.dnet = m.tag]
             skipped == me.last_skipped_NET
             a == [w EXCEPT !.last_sent_NET = skipped, !.last_skipped_NET = NEVER_TAG]
  <2>1. m.tag \in Tag
    BY <1>7, Heeded DEF handle_downstream_next_event_tag
  <2>2. \/ Less(m.tag, skipped) /\ Becomes(f, a, <<Msg("NET", skipped, NULL)>>)
        \/ Becomes(f, w, <<>>)
    BY <1>7 DEF handle_downstream_next_event_tag
  <2> HIDE DEF m
  <2>3. skipped \in EventTag \cup {NEVER_TAG} /\ skipped \in Tag
    BY <1>1, FedParts
  <2>4. Less(m.tag, skipped) => skipped \in EventTag
    <3>1. Less(m.tag, NEVER_TAG) => FALSE
      BY <2>1, ZeroAndForever, TagOrdering, SpecialTags
    <3> QED  BY <2>3, <3>1
  <2> HIDE DEF skipped
  <2>5. w \in FedState(f) /\ a \in FedState(f)
    BY <1>1, <2>1, <2>3, SpecialTags, ZenonT(60) DEF FedState
  <2>6. Less(m.tag, skipped) => <<Msg("NET", skipped, NULL)>> \in Seq(UpMessage(f))
    BY <2>4, OneMessage
  <2> HIDE DEF w, a
  <2> QED  BY <1>2, <2>2, <2>5, <2>6 DEF BecomesTyped
<1>8. CASE StoreDNET(f)
  <2>1. me.dnet \in Tag
    BY <1>1, <1>8, FedParts DEF StoreDNET
  <2>2. [me EXCEPT !.last_DNET = me.dnet, !.dnet = NULL] \in FedState(f)
    BY <1>1, <2>1 DEF FedState
  <2> QED  BY <1>2, <1>8, <2>2 DEF StoreDNET, BecomesTyped
<1> QED  BY <1>3, <1>4, <1>5, <1>6, <1>7, <1>8 DEF Listen

LEMMA FederateTypes ==
  ASSUME TypeInv, NEW f \in Fed, Work(f) \/ Listen(f) \/ Fail(f)
  PROVE  TypeInv'
<1>1. BecomesTyped(f)
  <2>1. CASE Work(f) \/ Fail(f)
    BY <2>1, WorkTypes
  <2>2. CASE Listen(f)
    BY <2>2, ListenTypes
  <2> QED  BY <2>1, <2>2
<1>2. UNCHANGED <<network, node, in_transit, confirming>>
  BY ZenonT(60) DEF Work, Listen, Fail, Working, Hear, Start, Wake, AdvanceTag, Complete, Leave, ExecuteInput,
         SendMessage, SendAbsent, handle_tag_advance_grant, handle_provisional_tag_advance_grant,
         handle_tagged_message, HandlePortAbsent, handle_downstream_next_event_tag, StoreDNET
<1>3. UNCHANGED down \/ \E type : Hear(f, type)
  BY DEF Work, Listen, Fail, Working, Start, Wake, AdvanceTag, Complete, Leave, ExecuteInput,
         SendMessage, SendAbsent, handle_tag_advance_grant, handle_provisional_tag_advance_grant,
         handle_tagged_message, HandlePortAbsent, handle_downstream_next_event_tag, StoreDNET
<1>4. down' = [g \in Fed |-> down'[g]] /\ \A g \in Fed : down'[g] \in Seq(DownMessage(g))
  BY <1>3, Heeded DEF TypeInv
<1>5. /\ fed' = [g \in Fed |-> fed'[g]] /\ up' = [g \in Fed |-> up'[g]]
      /\ \A g \in Fed : up'[g] \in Seq(UpMessage(g)) /\ fed'[g] \in FedState(g)
  BY <1>1, FedBecomes DEF BecomesTyped
<1> QED  BY <1>2, <1>4, <1>5, SameProgram DEF TypeInv

-----------------------------------------------------------------------------
(* The delays between federates                                            *)

\* The rounds of PathDelays().
IsRounds(P, conn, end) ==
  /\ P \in [0 .. number_of_scheduling_nodes -> [Fed -> EventTag]]
  /\ P[0] = [i \in Fed |-> FOREVER_TAG]
  /\ \A n \in 1 .. number_of_scheduling_nodes : P[n] = Lessen(conn, end, P[n - 1])
  /\ PathDelays(conn, end) = P[number_of_scheduling_nodes]

LEMMA ThroughTags ==
  ASSUME NEW conn, conn \subseteq Connection, NEW end \in Fed, NEW D \in [Fed -> EventTag], NEW i \in Fed
  PROVE  Through(conn, end, D, i) \subseteq EventTag
<1> SUFFICES ASSUME NEW c \in conn
             PROVE  lf_tag_add(lf_delay_tag(ZERO_TAG, c.delay), IF c.to = end THEN ZERO_TAG ELSE D[c.to])
                      \in EventTag
  BY DEF Through
<1>1. c.delay \in Delay /\ c.to \in Fed
  BY DEF Connection, Delay
<1>2. lf_delay_tag(ZERO_TAG, c.delay) \in EventTag
  BY <1>1, SpecialTags, DelayedTag
<1>3. (IF c.to = end THEN ZERO_TAG ELSE D[c.to]) \in EventTag
  BY <1>1, SpecialTags
<1> QED  BY <1>2, <1>3, AddTags

LEMMA LessenTags ==
  ASSUME NEW conn, conn \subseteq Connection, NEW end \in Fed, NEW D \in [Fed -> EventTag]
  PROVE  /\ Lessen(conn, end, D) \in [Fed -> EventTag]
         /\ \A i \in Fed : /\ Leq(Lessen(conn, end, D)[i], D[i])
                           /\ \A t \in Through(conn, end, D, i) : Leq(Lessen(conn, end, D)[i], t)
                           /\ Lessen(conn, end, D)[i] \in {D[i]} \cup Through(conn, end, D, i)
<1> DEFINE S(i) == {D[i]} \cup Through(conn, end, D, i)
<1>1. ASSUME NEW i \in Fed
      PROVE  Earliest(S(i)) \in EventTag /\ Earliest(S(i)) \in S(i) /\ \A t \in S(i) : Leq(Earliest(S(i)), t)
  <2>1. S(i) \subseteq EventTag /\ S(i) \subseteq Tag /\ S(i) # {}
    BY ThroughTags, SpecialTags
  <2>2. PICK t \in S(i) : \A u \in S(i) : Leq(t, u)
    <3> HIDE DEF S
    <3> QED  BY <2>1, LeastTag
  <2> HIDE DEF S
  <2>3. Earliest(S(i)) = t
    BY <2>1, <2>2, EarliestIsUnique
  <2> QED  BY <2>1, <2>2, <2>3
<1>2. Lessen(conn, end, D) = [i \in Fed |-> Earliest(S(i))]
  BY DEF Lessen
<1> QED  BY <1>1, <1>2

LEMMA PathRounds ==
  ASSUME NEW conn, conn \subseteq Connection, NEW end \in Fed
  PROVE  \E P : IsRounds(P, conn, end)
<1> DEFINE n == number_of_scheduling_nodes
           D == [Fed -> EventTag]
           init == [i \in Fed |-> FOREVER_TAG]
           step == [k \in 1 .. n |-> [B \in D |-> Lessen(conn, end, B)]]
           F(R) == R = [k \in 0 .. n |-> IF k = 0 THEN init ELSE Lessen(conn, end, R[k - 1])]
<1>1. n \in Nat /\ init \in D
  BY FederationAssumption, SpecialTags
<1>2. step \in [1 .. n -> [D -> D]] /\ \A k \in 1 .. n : \A B \in D : step[k][B] = Lessen(conn, end, B)
  BY LessenTags
<1> HIDE DEF n, step, D, init
<1>3. PICK g \in [0 .. n -> D] : IsRun(g, n, D, init, step)
  BY <1>1, <1>2, Recursion
<1>4. \A k \in 1 .. n : g[k] = Lessen(conn, end, g[k - 1])
  <2>1. ASSUME NEW k \in 1 .. n PROVE g[k] = Lessen(conn, end, g[k - 1])
    <3>1. k - 1 \in 0 .. n
      BY <1>1
    <3> QED  BY <1>2, <1>3, <3>1 DEF IsRun
  <2> QED  BY <2>1
<1>5. F(g)
  <2>1. \A k \in 0 .. n : g[k] = IF k = 0 THEN init ELSE Lessen(conn, end, g[k - 1])
    <3>1. \A k \in 0 .. n : k # 0 => k \in 1 .. n
      BY <1>1
    <3> QED  BY <1>3, <1>4, <3>1 DEF IsRun
  <2> QED  BY <2>1
<1> DEFINE Q == CHOOSE R : F(R)
<1>6. F(Q)
  BY <1>5
<1> HIDE DEF Q
<1>7. Q[0] = init /\ \A k \in 1 .. n : Q[k - 1] \in D => Q[k] = step[k][Q[k - 1]]
  <2>1. Q[0] = init
    BY <1>1, <1>6
  <2>2. \A k \in 0 .. n : Q[k] = IF k = 0 THEN init ELSE Lessen(conn, end, Q[k - 1])
    BY <1>6
  <2>3. \A k \in 1 .. n : Q[k] = Lessen(conn, end, Q[k - 1])
    BY <1>1, <2>2
  <2> QED  BY <1>2, <2>1, <2>3
<1>8. Q[n] = g[n]
  BY <1>3, <1>7 DEF IsRun
<1>9. PathDelays(conn, end) = Q[n]
  BY DEF PathDelays, Q, n, init
<1>10. g[0] = init
  BY <1>3 DEF IsRun
<1> QED  BY <1>3, <1>4, <1>8, <1>9, <1>10 DEF IsRounds, n, D, init

LEMMA MinDelaysType ==
  ASSUME NEW conn, conn \subseteq Connection
  PROVE  MinDelays(conn) \in [Fed -> [Fed -> EventTag]]
<1>1. ASSUME NEW i \in Fed, NEW j \in Fed PROVE PathDelays(conn, j)[i] \in EventTag
  <2>1. PICK P : IsRounds(P, conn, j)
    BY PathRounds
  <2>2. number_of_scheduling_nodes \in 0 .. number_of_scheduling_nodes
    BY FederationAssumption
  <2> QED  BY <2>1, <2>2 DEF IsRounds
<1> QED  BY <1>1 DEF MinDelays

-----------------------------------------------------------------------------
(* The type invariant                                                      *)

LEMMA InitTypes == Init => TypeInv
<1> SUFFICES ASSUME Init PROVE TypeInv
  OBVIOUS
<1>1. program \in Programs /\ min_delays = MinDelays(program.conn) /\ program.conn \subseteq Connection
      /\ program.timer \in [Fed -> SUBSET (0 .. FOREVER - 1)]
  BY FederationAssumption DEF Init
<1>2. NetworkOK
  BY <1>1, MinDelaysType DEF NetworkOK
<1>3. node \in [Fed -> Node]
  <2>1. \A f \in Fed : InitialNode(program, f) \in Node
    BY SpecialTags DEF InitialNode, Node
  <2> QED  BY <2>1 DEF Init
<1>4. ASSUME NEW f \in Fed PROVE InitialFed(program, f) \in FedState(f)
  <2> DEFINE queue == {Event(<<t, 0>>, NULL) : t \in program.timer[f] \ {0}}
             known == [c \in {d \in program.conn : d.to = f} |-> NEVER_TAG]
  <2>1. queue \in SUBSET [tag : EventTag, conn : ConnTo(f) \cup {NULL}]
    <3>1. ASSUME NEW t \in program.timer[f] PROVE <<t, 0>> \in EventTag
      BY <1>1, TagsAssumption DEF EventTag, Tag, Microstep
    <3> QED  BY <3>1 DEF Event
  <2>2. known \in [ConnTo(f) -> Tag]
    BY SpecialTags DEF ConnTo
  <2>3. InitialFed(program, f).queue = queue /\ InitialFed(program, f).known = known
    BY DEF InitialFed
  <2> HIDE DEF queue, known
  <2>4. InitialFed(program, f) \in FedState(f)
    <3> DEFINE pc == IF Takes(program, f) THEN "start" ELSE "done"
    <3>1. pc \in {"start", "wait", "advance", "exec", "stopping", "done", "fatal"}
      OBVIOUS
    <3>2. InitialFed(program, f) =
            [pc |-> pc, failed |-> FALSE, started |-> FALSE, current |-> ZERO_TAG,
             queue |-> queue, known |-> known, todo |-> {}, level |-> 0, active |-> FALSE, received |-> FALSE,
             last_TAG |-> NEVER_TAG, provisional |-> FALSE, asked |-> NEVER_TAG, signalled |-> FALSE,
             last_sent_LTC |-> NEVER_TAG, last_sent_NET |-> NEVER_TAG, last_skipped_NET |-> NEVER_TAG,
             last_DNET |-> NEVER_TAG, received_any_DNET |-> FALSE, dnet |-> NULL]
      BY DEF InitialFed, queue, known
    <3> HIDE DEF pc
    <3> QED  BY <2>1, <2>2, <3>1, <3>2, SpecialTags DEF FedState
  <2> QED  BY <2>4
<1>5. <<>> \in Seq(UNION {DownMessage(f) : f \in Fed}) /\ \A f \in Fed : <<>> \in Seq(DownMessage(f)) /\ <<>> \in Seq(UpMessage(f))
  OBVIOUS
<1> QED  BY <1>2, <1>3, <1>4, <1>5 DEF Init, TypeInv

LEMMA NextTypes == TypeInv /\ [Next]_vars => TypeInv'
<1> SUFFICES ASSUME TypeInv, [Next]_vars PROVE TypeInv'
  OBVIOUS
<1>1. CASE Next
  BY <1>1, ServeFederateTypes, FederateTypes DEF Next
<1>2. CASE UNCHANGED vars
  <2>1. UNCHANGED network
    BY <1>2 DEF vars, network
  <2> QED  BY <1>2, <2>1, SameProgram DEF vars, TypeInv
<1> QED  BY <1>1, <1>2

LEMMA MessagesTyped ==
  ASSUME NetworkOK, NEW f \in Fed
  PROVE  UpMessage(f) \cup DownMessage(f) \subseteq Messages
BY ProgramParts, SpecialTags DEF UpMessage, DownMessage, Messages

LEMMA TypesAreOK == TypeInv => TypeOK
<1> SUFFICES ASSUME TypeInv PROVE TypeOK
  OBVIOUS
<1>1. NetworkOK /\ EventTag \subseteq Tag
  BY SpecialTags DEF TypeInv
<1>2. program \in Programs /\ min_delays \in [Fed -> [Fed -> Tag]]
  BY <1>1 DEF NetworkOK
<1>3. node \in [Fed -> [state : {"GRANTED", "NOT_CONNECTED"}, completed : Tag, last_granted : Tag,
                        last_provisionally_granted : Tag, next_event : Tag, last_DNET : Tag]]
  BY SpecialTags DEF TypeInv, Node
<1>4. in_transit \in [Fed -> SUBSET Tag] /\ confirming \in [Fed -> Tag \cup {NULL}]
  BY <1>1 DEF TypeInv
<1>5. ASSUME NEW f \in Fed PROVE Range(up[f]) \cup Range(down[f]) \subseteq Messages
  <2>1. up[f] \in Seq(UpMessage(f)) /\ down[f] \in Seq(DownMessage(f))
    BY DEF TypeInv
  <2>2. \A X : \A s \in Seq(X) : Range(s) \subseteq X
    BY DEF Range
  <2>3. Range(up[f]) \subseteq UpMessage(f) /\ Range(down[f]) \subseteq DownMessage(f)
    BY <2>1, <2>2
  <2> QED  BY <1>1, <2>3, MessagesTyped
<1>6. ASSUME NEW f \in Fed
      PROVE /\ fed[f].pc \in {"start", "wait", "advance", "exec", "stopping", "done", "fatal"}
            /\ fed[f].current \in Tag /\ fed[f].last_TAG \in Tag /\ fed[f].asked \in Tag
            /\ fed[f].known \in [ConnTo(f) -> Tag]
            /\ fed[f].todo \subseteq ConnTo(f) \cup ConnFrom(f)
            /\ fed[f].queue \subseteq [tag : Tag, conn : ConnTo(f) \cup {NULL}]
            /\ fed[f].dnet \in Tag \cup {NULL}
  <2>1. fed[f] \in FedState(f)
    BY DEF TypeInv
  <2>2. [tag : EventTag, conn : ConnTo(f) \cup {NULL}] \subseteq [tag : Tag, conn : ConnTo(f) \cup {NULL}]
    BY <1>1
  <2> QED  BY <2>1, <2>2, FedParts
<1> QED  BY <1>2, <1>3, <1>4, <1>5, <1>6 DEF TypeOK

LEMMA AlwaysTyped == Spec => []TypeInv
BY InitTypes, NextTypes, PTL DEF Spec

THEOREM TypesKept == Spec => []TypeOK
BY AlwaysTyped, TypesAreOK, PTL

-----------------------------------------------------------------------------
(* What the steps of a federate change                                     *)

\* Two states of a federate that differ in its program counter, in what it
\* has announced and confirmed and in what it knows about its inputs.
Alike(a, b) ==
  /\ a.failed = b.failed /\ a.started = b.started /\ a.current = b.current /\ a.queue = b.queue
  /\ a.todo = b.todo /\ a.level = b.level /\ a.active = b.active /\ a.received = b.received
  /\ a.last_TAG = b.last_TAG /\ a.provisional = b.provisional

SamePlans(a, b) ==
  a.asked = b.asked /\ a.last_skipped_NET = b.last_skipped_NET /\ a.last_sent_NET = b.last_sent_NET

\* After send_next_event_tag(f, me, t, ms).
Asked(f, me, t, ms) ==
  /\ Alike(fed'[f], me) /\ fed'[f].asked = t
  /\ fed'[f].pc = IF Leq(t, me.last_TAG) \/ Upstreams(f) = {} THEN "advance" ELSE "wait"
  /\ \/ /\ up'[f] = up[f] \o (ms \o <<Msg("NET", t, NULL)>>)
        /\ fed'[f].last_skipped_NET = NEVER_TAG /\ fed'[f].last_sent_NET = t
     \/ /\ up'[f] = up[f] \o ms
        /\ fed'[f].last_skipped_NET = t /\ fed'[f].last_sent_NET = me.last_sent_NET

Others(f) == \A g \in Fed \ {f} : fed'[g] = fed[g] /\ up'[g] = up[g]

LEMMA NextEventAlike ==
  ASSUME NEW a, NEW b, a.queue = b.queue
  PROVE  NextEvent(a) = NextEvent(b)
BY DEF NextEvent

LEMMA NothingAdded ==
  ASSUME NEW f, NEW s \in Seq(UpMessage(f))
  PROVE  s \o << >> = s /\ << >> \in Seq(UpMessage(f)) /\ << >> \o s = s
<1>1. \A X : \A t \in Seq(X) : t \o << >> = t /\ << >> \o t = t
  BY ConcatEmptySeq
<1>2. << >> \in Seq(UpMessage(f))
  OBVIOUS
<1> QED  BY <1>1, <1>2

LEMMA AskParts ==
  ASSUME TypeInv, NEW f \in Fed, NEW me \in FedState(f), NEW t \in EventTag, NEW ms \in Seq(UpMessage(f)),
         send_next_event_tag(f, me, t, ms)
  PROVE  Asked(f, me, t, ms) /\ Others(f)
<1> DEFINE pc == IF Leq(t, me.last_TAG) \/ Upstreams(f) = {} THEN "advance" ELSE "wait"
           b == Announced(f, me, t)
           a == [b EXCEPT !.pc = pc, !.asked = t, !.signalled = FALSE]
<1>1. Becomes(f, a, ms \o NET(f, me, t))
  BY DEF send_next_event_tag
<1>2. a \in FedState(f) /\ b \in FedState(f)
  BY AnnouncedType
<1>3. NET(f, me, t) \in Seq(UpMessage(f)) /\ << >> \in Seq(UpMessage(f))
  BY OneMessage
<1>4. ms \o NET(f, me, t) \in Seq(UpMessage(f))
  BY <1>3, ConcatProperties
<1>5. Alike(b, me)
      /\ \/ NET(f, me, t) = <<Msg("NET", t, NULL)>> /\ b.last_skipped_NET = NEVER_TAG /\ b.last_sent_NET = t
         \/ NET(f, me, t) = <<>> /\ b.last_skipped_NET = t /\ b.last_sent_NET = me.last_sent_NET
  BY DEF Announced, NET, FedState, Alike
<1> HIDE DEF b, pc
<1>6. /\ Alike(a, b) /\ a.last_skipped_NET = b.last_skipped_NET /\ a.last_sent_NET = b.last_sent_NET
      /\ a.pc = pc /\ a.asked = t
  BY <1>2 DEF FedState, Alike
<1> HIDE DEF a
<1>7. Others(f) /\ fed'[f] = a /\ up'[f] = up[f] \o (ms \o NET(f, me, t))
  BY <1>1, <1>2, <1>4, FedBecomes DEF Others
<1>8. NET(f, me, t) = <<>> => ms \o NET(f, me, t) = ms
  BY NothingAdded
<1> QED  BY <1>5, <1>6, <1>7, <1>8 DEF Asked, Alike, pc

LEMMA StartParts ==
  ASSUME TypeInv, NEW f \in Fed, Start(f)
  PROVE  /\ fed[f].pc = "start" /\ ~fed[f].failed /\ Others(f)
         /\ Asked(f, fed[f], fed[f].current, <<>>)
<1>1. fed[f] \in FedState(f) /\ fed[f].current \in EventTag /\ << >> \in Seq(UpMessage(f))
  BY FedParts, OneMessage DEF TypeInv
<1> QED  BY <1>1, AskParts DEF Start, Working

WakeAgain(f, next) ==
  /\ fed[f].started /\ Less(fed[f].last_TAG, fed[f].asked)
  /\ Asked(f, fed[f], next, <<>>)
WakeUp(f) ==
  /\ fed[f].started => Leq(fed[f].asked, fed[f].last_TAG) \/ ~Less(fed[f].last_TAG, fed[f].asked)
  /\ Alike(fed'[f], fed[f]) /\ fed'[f].pc = "advance" /\ SamePlans(fed'[f], fed[f])
  /\ up'[f] = up[f]
WakeAsking(f, next) ==
  /\ ~Leq(next, fed[f].last_TAG) /\ next # fed[f].asked
  /\ Alike(fed'[f], fed[f]) /\ fed'[f].pc = "wait" /\ fed'[f].asked = fed[f].asked
  /\ fed'[f].last_skipped_NET = NEVER_TAG /\ fed'[f].last_sent_NET = next
  /\ up'[f] = up[f] \o <<Msg("NET", next, NULL)>>
SleepOn(f) ==
  /\ Alike(fed'[f], fed[f]) /\ fed'[f].pc = "wait" /\ SamePlans(fed'[f], fed[f])
  /\ up'[f] = up[f]

LEMMA WakeParts ==
  ASSUME TypeInv, NEW f \in Fed, Wake(f)
  PROVE  LET next == NextEvent(fed[f]) IN
         /\ fed[f].pc = "wait" /\ ~fed[f].failed /\ Others(f) /\ next \in EventTag
         /\ \/ (Leq(next, fed[f].last_TAG) \/ Leq(fed[f].asked, fed[f].last_TAG)) /\ WakeAgain(f, next)
            \/ (Leq(next, fed[f].last_TAG) \/ Leq(fed[f].asked, fed[f].last_TAG)) /\ WakeUp(f)
            \/ WakeAsking(f, next)
            \/ SleepOn(f)
<1> DEFINE w == [fed[f] EXCEPT !.signalled = FALSE]
           next == NextEvent(fed[f])
           cond == Leq(next, fed[f].last_TAG) \/ Leq(fed[f].asked, fed[f].last_TAG)
<1>1. fed[f] \in FedState(f) /\ up[f] \in Seq(UpMessage(f))
  BY DEF TypeInv
<1>2. /\ w \in FedState(f) /\ Alike(w, fed[f]) /\ SamePlans(w, fed[f]) /\ w.pc = fed[f].pc
      /\ w.last_TAG = fed[f].last_TAG /\ w.queue = fed[f].queue /\ w.asked = fed[f].asked
      /\ w.started = fed[f].started
  BY <1>1, ZenonT(60) DEF FedState, Alike, SamePlans
<1>3. NextEvent(w) = next /\ next \in EventTag /\ next \in Tag
  <2>1. NextEvent(w) = NextEvent(fed[f])
    <3> HIDE DEF w
    <3> QED  BY <1>2, NextEventAlike
  <2> QED  BY <1>1, <2>1, NextEventTag, SpecialTags
<1>4. <<Msg("NET", next, NULL)>> \in Seq(UpMessage(f)) /\ << >> \in Seq(UpMessage(f))
  <2> HIDE DEF next
  <2> QED  BY <1>3, OneMessage
<1> DEFINE adv == [w EXCEPT !.pc = "advance"]
           ask == [w EXCEPT !.last_sent_NET = next, !.last_skipped_NET = NEVER_TAG]
<1>5. \/ cond /\ w.started /\ Less(w.last_TAG, w.asked) /\ send_next_event_tag(f, w, next, <<>>)
      \/ cond /\ ~(w.started /\ Less(w.last_TAG, w.asked)) /\ Becomes(f, adv, <<>>)
      \/ ~cond /\ next # w.asked /\ Becomes(f, ask, <<Msg("NET", next, NULL)>>)
      \/ Becomes(f, w, <<>>)
  <2> HIDE DEF next
  <2>1. NextEvent(w) = next /\ w.asked = fed[f].asked /\ w.last_TAG = fed[f].last_TAG
    BY <1>2, <1>3
  <2> QED  BY <2>1 DEF Wake
<1>6. fed[f].pc = "wait" /\ ~fed[f].failed
  BY DEF Wake, Working
<1>7. /\ adv \in FedState(f) /\ Alike(adv, fed[f]) /\ SamePlans(adv, fed[f]) /\ adv.pc = "advance"
  BY <1>1, ZenonT(60) DEF FedState, Alike, SamePlans
<1>8. /\ ask \in FedState(f) /\ Alike(ask, fed[f]) /\ ask.asked = fed[f].asked /\ ask.pc = fed[f].pc
      /\ ask.last_sent_NET = next /\ ask.last_skipped_NET = NEVER_TAG
  <2> HIDE DEF next
  <2> QED  BY <1>1, <1>3, SpecialTags, ZenonT(60) DEF FedState, Alike
<1>9. fed[f].last_TAG \in Tag /\ fed[f].asked \in Tag
  BY <1>1, FedParts
<1>10. up[f] \o << >> = up[f]
  BY <1>1, NothingAdded
<1> HIDE DEF w, next, adv, ask
<1>11. CASE cond /\ w.started /\ Less(w.last_TAG, w.asked) /\ send_next_event_tag(f, w, next, <<>>)
  <2>1. Asked(f, w, next, <<>>) /\ Others(f)
    BY <1>2, <1>3, <1>4, <1>11, AskParts
  <2>2. Asked(f, fed[f], next, <<>>)
    BY <1>2, <2>1 DEF Asked, Alike, SamePlans
  <2> QED  BY <1>2, <1>3, <1>6, <1>11, <2>1, <2>2 DEF WakeAgain, next
<1>12. CASE cond /\ ~(w.started /\ Less(w.last_TAG, w.asked)) /\ Becomes(f, adv, <<>>)
  <2>1. Others(f) /\ fed'[f] = adv /\ up'[f] = up[f]
    BY <1>4, <1>7, <1>10, <1>12, FedBecomes DEF Others
  <2> QED  BY <1>2, <1>3, <1>6, <1>7, <1>9, <1>12, <2>1 DEF WakeUp, next
<1>13. CASE ~cond /\ next # w.asked /\ Becomes(f, ask, <<Msg("NET", next, NULL)>>)
  <2>1. Others(f) /\ fed'[f] = ask /\ up'[f] = up[f] \o <<Msg("NET", next, NULL)>>
    BY <1>4, <1>8, <1>13, FedBecomes DEF Others
  <2> QED  BY <1>2, <1>3, <1>6, <1>8, <1>13, <2>1 DEF WakeAsking, next
<1>14. CASE Becomes(f, w, <<>>)
  <2>1. Others(f) /\ fed'[f] = w /\ up'[f] = up[f]
    BY <1>2, <1>4, <1>10, <1>14, FedBecomes DEF Others
  <2> QED  BY <1>2, <1>3, <1>6, <2>1 DEF SleepOn, next
<1> QED  BY <1>5, <1>11, <1>12, <1>13, <1>14

\* Nothing of what matters here changes in f.
Quiet(f) ==
  Alike(fed'[f], fed[f]) /\ SamePlans(fed'[f], fed[f]) /\ fed'[f].pc = fed[f].pc

\* The tag to which f advances.
NextTag(f) == IF fed[f].started THEN NextEvent(fed[f]) ELSE fed[f].current

Advanced(f) ==
  LET popped == {e \in fed[f].queue : e.tag = NextTag(f)} IN
  /\ fed'[f].pc = "exec" /\ fed'[f].started /\ fed'[f].current = NextTag(f)
  /\ fed'[f].queue = fed[f].queue \ popped
  /\ fed'[f].todo = ({e.conn : e \in popped} \ {NULL}) \cup ConnFrom(f)
  /\ fed'[f].level = 0 /\ (fed'[f].received => fed[f].received)
  /\ fed'[f].active = (NextTag(f)[2] = 0 /\ NextTag(f)[1] \in program.timer[f])
  /\ fed'[f].last_TAG = fed[f].last_TAG /\ fed'[f].provisional = fed[f].provisional
  /\ fed'[f].failed = fed[f].failed
  /\ SamePlans(fed'[f], fed[f])

LEMMA AdvanceParts ==
  ASSUME TypeInv, NEW f \in Fed, AdvanceTag(f)
  PROVE  /\ fed[f].pc = "advance" /\ ~fed[f].failed /\ Others(f) /\ up'[f] = up[f]
         /\ NextTag(f) \in EventTag /\ Advanced(f)
<1> DEFINE me == fed[f]
           next == NextTag(f)
           popped == {e \in me.queue : e.tag = next}
           todo == ({e.conn : e \in popped} \ {NULL}) \cup ConnFrom(f)
           active == next[2] = 0 /\ next[1] \in program.timer[f]
           received == me.received /\ ~me.started
           a == [me EXCEPT !.pc = "exec", !.started = TRUE, !.current = next,
                           !.queue = @ \ popped, !.level = 0, !.received = received,
                           !.active = active, !.todo = todo]
<1>1. me \in FedState(f) /\ up[f] \in Seq(UpMessage(f))
  BY DEF TypeInv
<1>2. Becomes(f, a, <<>>) /\ me.pc = "advance" /\ ~me.failed
  BY DEF AdvanceTag, Working, NextTag
<1>3. next \in EventTag
  BY <1>1, NextEventTag, FedParts DEF NextTag
<1>4. todo \in SUBSET (ConnTo(f) \cup ConnFrom(f))
  BY <1>1, FedParts
<1>5. me.queue \ popped \in SUBSET [tag : EventTag, conn : ConnTo(f) \cup {NULL}]
  BY <1>1, FedParts
<1>6. received \in BOOLEAN /\ active \in BOOLEAN /\ (received => me.received)
  OBVIOUS
<1>7. a.pc = "exec" /\ a.started = TRUE /\ a.current = next /\ a.queue = me.queue \ popped
      /\ a.todo = todo /\ a.level = 0 /\ a.received = received /\ a.active = active
      /\ a.last_TAG = me.last_TAG /\ a.provisional = me.provisional /\ a.failed = me.failed
      /\ SamePlans(a, me)
  <2> HIDE DEF next, popped, todo, active, received
  <2> QED  BY <1>1 DEF FedState, SamePlans
<1>8. a \in FedState(f)
  <2> HIDE DEF next, popped, todo, active, received
  <2> QED  BY <1>1, <1>3, <1>4, <1>5, <1>6 DEF FedState
<1> HIDE DEF a
<1>9. << >> \in Seq(UpMessage(f)) /\ up[f] \o << >> = up[f]
  BY <1>1, NothingAdded
<1>10. fed'[f] = a /\ Others(f) /\ up'[f] = up[f]
  BY <1>2, <1>8, <1>9, FedBecomes DEF Others
<1> QED  BY <1>2, <1>3, <1>6, <1>7, <1>10 DEF Advanced

\* A connection of the level at which f is has been dealt with.
DealsWith(f, c, level) ==
  /\ FirstLevel(f, fed[f], c)
  /\ fed'[f].pc = "exec" /\ fed'[f].todo = fed[f].todo \ {c} /\ fed'[f].level = level
  /\ fed'[f].failed = fed[f].failed /\ fed'[f].started = fed[f].started
  /\ fed'[f].current = fed[f].current /\ fed'[f].queue = fed[f].queue
  /\ fed'[f].last_TAG = fed[f].last_TAG /\ fed'[f].provisional = fed[f].provisional
  /\ SamePlans(fed'[f], fed[f])

LEMMA InputParts ==
  ASSUME TypeInv, NEW f \in Fed, NEW c, ExecuteInput(f, c)
  PROVE  /\ fed[f].pc = "exec" /\ ~fed[f].failed /\ Others(f) /\ up'[f] = up[f]
         /\ c \in ConnTo(f) /\ c \in fed[f].todo /\ DealsWith(f, c, c.in)
         /\ fed'[f].received = TRUE /\ fed'[f].active = TRUE
<1> DEFINE me == fed[f]
           a == [me EXCEPT !.todo = @ \ {c}, !.received = TRUE, !.active = TRUE, !.level = c.in]
<1>1. me \in FedState(f) /\ up[f] \in Seq(UpMessage(f)) /\ NetworkOK
  BY DEF TypeInv
<1>2. Becomes(f, a, <<>>) /\ me.pc = "exec" /\ ~me.failed /\ c \in ConnTo(f) /\ FirstLevel(f, me, c)
  BY DEF ExecuteInput, Working
<1>3. c.in \in Nat
  BY <1>1, <1>2, ProgramParts
<1>4. a \in FedState(f)
  BY <1>1, <1>3 DEF FedState
<1>5. /\ a.pc = me.pc /\ a.todo = me.todo \ {c} /\ a.level = c.in
      /\ a.failed = me.failed /\ a.started = me.started
      /\ a.current = me.current /\ a.queue = me.queue
      /\ a.last_TAG = me.last_TAG /\ a.provisional = me.provisional
      /\ SamePlans(a, me) /\ a.received = TRUE /\ a.active = TRUE
  BY <1>1 DEF FedState, SamePlans
<1> HIDE DEF a
<1>6. << >> \in Seq(UpMessage(f)) /\ up[f] \o << >> = up[f]
  BY <1>1, NothingAdded
<1>7. fed'[f] = a /\ Others(f) /\ up'[f] = up[f]
  BY <1>2, <1>4, <1>6, FedBecomes DEF Others
<1> QED  BY <1>2, <1>5, <1>7 DEF DealsWith, FirstLevel

\* What f sends on a connection is later than the stop tag, or it is sent.
SentOn(f, c) ==
  LET tag == lf_delay_tag(fed[f].current, c.delay) IN
  up'[f] = IF ~Less(STOP_TAG, tag) THEN up[f] \o <<Msg("MSG", tag, c)>> ELSE up[f]

LEMMA SendParts ==
  ASSUME TypeInv, NEW f \in Fed, NEW c, SendMessage(f, c)
  PROVE  /\ fed[f].pc = "exec" /\ ~fed[f].failed /\ Others(f)
         /\ c \in ConnFrom(f) /\ c \in fed[f].todo /\ DealsWith(f, c, c.out) /\ fed[f].active
         /\ fed'[f].received = fed[f].received /\ fed'[f].active = fed[f].active
         /\ lf_delay_tag(fed[f].current, c.delay) \in EventTag /\ SentOn(f, c)
<1> DEFINE me == fed[f]
           tag == lf_delay_tag(me.current, c.delay)
           sent == ~Less(STOP_TAG, tag)
           dnet == IF sent THEN lf_tag_min(me.last_DNET, tag) ELSE me.last_DNET
           a == [me EXCEPT !.todo = @ \ {c}, !.level = c.out, !.last_DNET = dnet]
           ms == IF sent THEN <<Msg("MSG", tag, c)>> ELSE <<>>
<1>1. me \in FedState(f) /\ up[f] \in Seq(UpMessage(f)) /\ NetworkOK
  BY DEF TypeInv
<1>2. /\ Becomes(f, a, ms) /\ me.pc = "exec" /\ ~me.failed /\ c \in ConnFrom(f) /\ FirstLevel(f, me, c)
      /\ me.active
  BY DEF SendMessage, Working
<1>3. c.out \in Nat /\ c.delay \in Delay
  BY <1>1, <1>2, ProgramParts
<1>4. tag \in EventTag /\ tag \in Tag
  BY <1>1, <1>3, FedParts, DelayedTag, SpecialTags
<1>5. dnet \in Tag
  BY <1>1, <1>4, FedParts, MinMaxTags
<1>6. ms \in Seq(UpMessage(f))
  BY <1>2, <1>4, OneMessage
<1>7. /\ a.pc = me.pc /\ a.todo = me.todo \ {c} /\ a.level = c.out
      /\ a.failed = me.failed /\ a.started = me.started
      /\ a.current = me.current /\ a.queue = me.queue
      /\ a.last_TAG = me.last_TAG /\ a.provisional = me.provisional
      /\ SamePlans(a, me) /\ a.received = me.received /\ a.active = me.active /\ a \in FedState(f)
  <2> HIDE DEF dnet
  <2> QED  BY <1>1, <1>3, <1>5 DEF FedState, SamePlans
<1>8. up[f] \o << >> = up[f]
  BY <1>1, NothingAdded
<1>9. SentOn(f, c) <=> up'[f] = up[f] \o ms
  BY <1>8 DEF SentOn
<1> HIDE DEF a, ms
<1>10. fed'[f] = a /\ Others(f) /\ up'[f] = up[f] \o ms
  BY <1>2, <1>6, <1>7, FedBecomes DEF Others
<1> QED  BY <1>2, <1>4, <1>7, <1>9, <1>10 DEF DealsWith, FirstLevel

LEMMA AbsentParts ==
  ASSUME TypeInv, NEW f \in Fed, NEW c, SendAbsent(f, c)
  PROVE  /\ fed[f].pc = "exec" /\ ~fed[f].failed /\ Others(f)
         /\ c \in ConnFrom(f) /\ c \in fed[f].todo /\ DealsWith(f, c, c.out)
         /\ fed'[f].received = fed[f].received /\ fed'[f].active = fed[f].active
         /\ \/ up'[f] = up[f]
            \/ /\ ZeroDelayCycle(c)
               /\ up'[f] = up[f] \o <<Msg("ABSENT", fed[f].current, c)>>
<1> DEFINE me == fed[f]
           tag == lf_delay_strict(me.current, c.delay)
           a == [me EXCEPT !.todo = @ \ {c}, !.level = c.out]
           ms == IF ZeroDelayCycle(c) THEN <<Msg("ABSENT", tag, c)>> ELSE <<>>
<1>1. me \in FedState(f) /\ up[f] \in Seq(UpMessage(f)) /\ NetworkOK
  BY DEF TypeInv
<1>2. Becomes(f, a, ms) /\ me.pc = "exec" /\ ~me.failed /\ c \in ConnFrom(f) /\ FirstLevel(f, me, c)
  BY DEF SendAbsent, Working
<1>3. c.out \in Nat
  BY <1>1, <1>2, ProgramParts
<1>4. ZeroDelayCycle(c) => tag = me.current
  <2>1. ZeroDelayCycle(c) => c.delay = NEVER
    BY DEF ZeroDelayCycle
  <2>2. lf_delay_tag(me.current, NEVER) = me.current
    BY TagsAssumption DEF lf_delay_tag
  <2> QED  BY <2>1, <2>2 DEF lf_delay_strict
<1>5. me.current \in EventTag
  BY <1>1, FedParts
<1>6. ms \in Seq(UpMessage(f))
  BY <1>2, <1>4, <1>5, OneMessage
<1>7. /\ a.pc = me.pc /\ a.todo = me.todo \ {c} /\ a.level = c.out
      /\ a.failed = me.failed /\ a.started = me.started
      /\ a.current = me.current /\ a.queue = me.queue
      /\ a.last_TAG = me.last_TAG /\ a.provisional = me.provisional
      /\ SamePlans(a, me) /\ a.received = me.received /\ a.active = me.active /\ a \in FedState(f)
  BY <1>1, <1>3 DEF FedState, SamePlans
<1>8. up[f] \o << >> = up[f]
  BY <1>1, NothingAdded
<1>9. up'[f] = up[f] \o ms =>
        \/ up'[f] = up[f]
        \/ ZeroDelayCycle(c) /\ up'[f] = up[f] \o <<Msg("ABSENT", fed[f].current, c)>>
  BY <1>4, <1>8
<1> HIDE DEF a, ms
<1>10. fed'[f] = a /\ Others(f) /\ up'[f] = up[f] \o ms
  BY <1>2, <1>6, <1>7, FedBecomes DEF Others
<1> QED  BY <1>2, <1>7, <1>9, <1>10 DEF DealsWith, FirstLevel

\* The LTC of the tag that f has executed, or nothing.
IsLTC(f, ms) ==
  ms = <<>> \/ (fed[f].received /\ ms = <<Msg("LTC", fed[f].current, NULL)>>)

LEMMA CompleteParts ==
  ASSUME TypeInv, NEW f \in Fed, Complete(f)
  PROVE  /\ fed[f].pc = "exec" /\ ~fed[f].failed /\ Others(f) /\ fed[f].todo = {}
         /\ \E ms \in Seq(UpMessage(f)) :
              /\ IsLTC(f, ms)
              /\ \/ /\ Leq(STOP_TAG, fed[f].current) /\ fed'[f].pc = "stopping"
                    /\ Alike(fed'[f], fed[f]) /\ SamePlans(fed'[f], fed[f])
                    /\ up'[f] = up[f] \o ms
                 \/ /\ ~Leq(STOP_TAG, fed[f].current)
                    /\ Asked(f, fed[f], NextEvent(fed[f]), ms)
<1> DEFINE me == fed[f]
           after == Confirmed(me, me.current)
           ms == LTC(me, me.current)
           a == [after EXCEPT !.pc = "stopping"]
<1>1. me \in FedState(f) /\ up[f] \in Seq(UpMessage(f)) /\ NextEvent(me) \in EventTag /\ me.current \in EventTag
  BY NextEventTag, FedParts DEF TypeInv
<1>2. /\ me.pc = "exec" /\ ~me.failed /\ me.todo = {}
      /\ \/ Leq(STOP_TAG, me.current) /\ Becomes(f, a, ms)
         \/ ~Leq(STOP_TAG, me.current) /\ send_next_event_tag(f, after, NextEvent(me), ms)
  BY DEF Complete, Working
<1>3. ms \in Seq(UpMessage(f)) /\ IsLTC(f, ms)
  BY <1>1, OneMessage DEF LTC, Confirms, IsLTC
<1>4. after \in FedState(f) /\ a \in FedState(f)
  BY <1>1, ConfirmedType
<1>5. Alike(after, me) /\ SamePlans(after, me)
  BY <1>1 DEF Confirmed, FedState, Alike, SamePlans
<1> HIDE DEF after, ms
<1>6. Alike(a, me) /\ SamePlans(a, me) /\ a.pc = "stopping"
  BY <1>4, <1>5 DEF FedState, Alike, SamePlans
<1> HIDE DEF a
<1>7. CASE Leq(STOP_TAG, me.current) /\ Becomes(f, a, ms)
  <2>1. fed'[f] = a /\ Others(f) /\ up'[f] = up[f] \o ms
    BY <1>3, <1>4, <1>7, FedBecomes DEF Others
  <2> QED  BY <1>2, <1>3, <1>6, <1>7, <2>1
<1>8. CASE ~Leq(STOP_TAG, me.current) /\ send_next_event_tag(f, after, NextEvent(me), ms)
  <2>1. Asked(f, after, NextEvent(me), ms) /\ Others(f)
    BY <1>1, <1>3, <1>4, <1>8, AskParts
  <2>2. Asked(f, me, NextEvent(me), ms)
    BY <1>5, <2>1 DEF Asked, Alike, SamePlans
  <2> QED  BY <1>2, <1>3, <1>8, <2>1, <2>2
<1> QED  BY <1>2, <1>7, <1>8

LEMMA LeaveParts ==
  ASSUME TypeInv, NEW f \in Fed, Leave(f)
  PROVE  /\ fed[f].pc = "stopping" /\ ~fed[f].failed /\ Others(f)
         /\ Alike(fed'[f], fed[f]) /\ fed'[f].pc = "done" /\ fed'[f].asked = fed[f].asked
         /\ fed'[f].last_skipped_NET \in {FOREVER_TAG, NEVER_TAG}
         /\ LET resign == Msg("RESIGN", FOREVER_TAG, NULL) IN
            \/ up'[f] = up[f] \o <<resign>>
            \/ up'[f] = up[f] \o (<<Msg("NET", FOREVER_TAG, NULL)>> \o <<resign>>)
<1> DEFINE me == fed[f]
           b == Announced(f, me, FOREVER_TAG)
           a == [b EXCEPT !.pc = "done"]
           net == Msg("NET", FOREVER_TAG, NULL)
           resign == Msg("RESIGN", FOREVER_TAG, NULL)
           ms == NET(f, me, FOREVER_TAG) \o <<resign>>
<1>1. me \in FedState(f) /\ up[f] \in Seq(UpMessage(f)) /\ FOREVER_TAG \in EventTag
  BY SpecialTags DEF TypeInv
<1>2. Becomes(f, a, ms) /\ me.pc = "stopping" /\ ~me.failed
  BY SMTT(30) DEF Leave, Working
<1>3. b \in FedState(f) /\ a \in FedState(f)
  BY <1>1, AnnouncedType
<1>4. Alike(b, me) /\ b.asked = me.asked /\ b.last_skipped_NET \in {FOREVER_TAG, NEVER_TAG}
  BY <1>1 DEF Announced, FedState, Alike
<1> HIDE DEF b
<1>5. Alike(a, me) /\ a.pc = "done" /\ a.asked = me.asked /\ a.last_skipped_NET \in {FOREVER_TAG, NEVER_TAG}
  BY <1>3, <1>4 DEF FedState, Alike
<1> HIDE DEF a
<1>6. <<resign>> \in Seq(UpMessage(f)) /\ NET(f, me, FOREVER_TAG) \in Seq(UpMessage(f))
  BY <1>1, OneMessage
<1>7. ms \in Seq(UpMessage(f))
  BY <1>6, ConcatProperties
<1>8. ms = <<resign>> \/ ms = <<net>> \o <<resign>>
  <2>1. <<>> \o <<resign>> = <<resign>>
    BY <1>6, NothingAdded
  <2> QED  BY <2>1 DEF NET
<1> HIDE DEF ms
<1>9. fed'[f] = a /\ Others(f) /\ up'[f] = up[f] \o ms
  BY <1>2, <1>3, <1>7, FedBecomes DEF Others
<1> QED  BY <1>2, <1>5, <1>8, <1>9

LEMMA FailParts ==
  ASSUME TypeInv, NEW f \in Fed, Fail(f)
  PROVE  /\ ~fed[f].failed /\ fed[f].pc \notin {"stopping", "done", "fatal"} /\ Others(f)
         /\ fed'[f].failed = TRUE /\ fed'[f].pc = fed[f].pc /\ fed'[f].started = fed[f].started
         /\ fed'[f].current = fed[f].current /\ fed'[f].queue = fed[f].queue
         /\ fed'[f].todo = fed[f].todo /\ fed'[f].level = fed[f].level /\ fed'[f].active = fed[f].active
         /\ fed'[f].received = fed[f].received /\ fed'[f].last_TAG = fed[f].last_TAG
         /\ fed'[f].provisional = fed[f].provisional /\ SamePlans(fed'[f], fed[f])
         /\ \E type \in {"FAILED", "EOF"} : up'[f] = up[f] \o <<Msg(type, FOREVER_TAG, NULL)>>
         /\ down' = down
<1> DEFINE a == [fed[f] EXCEPT !.failed = TRUE]
<1>1. fed[f] \in FedState(f) /\ FOREVER_TAG \in EventTag
  BY SpecialTags DEF TypeInv
<1>2. PICK type \in {"FAILED", "EOF"} : Becomes(f, a, <<Msg(type, FOREVER_TAG, NULL)>>)
  BY DEF Fail
<1>6. ~fed[f].failed /\ fed[f].pc \notin {"stopping", "done", "fatal"} /\ down' = down
  BY DEF Fail
<1>3. /\ a \in FedState(f) /\ a.failed = TRUE
      /\ a.pc = fed[f].pc /\ a.started = fed[f].started /\ a.current = fed[f].current
      /\ a.queue = fed[f].queue /\ a.todo = fed[f].todo /\ a.level = fed[f].level
      /\ a.active = fed[f].active /\ a.received = fed[f].received /\ a.last_TAG = fed[f].last_TAG
      /\ a.provisional = fed[f].provisional /\ SamePlans(a, fed[f])
  BY <1>1 DEF FedState, SamePlans
<1> HIDE DEF a
<1>4. <<Msg(type, FOREVER_TAG, NULL)>> \in Seq(UpMessage(f))
  BY <1>1, OneMessage
<1>5. fed'[f] = a /\ Others(f) /\ up'[f] = up[f] \o <<Msg(type, FOREVER_TAG, NULL)>>
  BY <1>2, <1>3, <1>4, FedBecomes, ZenonT(60) DEF Others
<1> QED  BY <1>3, <1>5, <1>6

\* f is as before, but for the grant.
Resumes(f) ==
  /\ fed'[f].failed = fed[f].failed /\ fed'[f].started = fed[f].started
  /\ fed'[f].current = fed[f].current /\ fed'[f].todo = fed[f].todo
  /\ fed'[f].level = fed[f].level /\ fed'[f].active = fed[f].active
  /\ fed'[f].received = fed[f].received /\ SamePlans(fed'[f], fed[f])
  /\ fed'[f].pc = fed[f].pc

Hearing(f) == fed[f].pc # "fatal" /\ ~fed[f].failed /\ down[f] # << >>

LEMMA TAGParts ==
  ASSUME TypeInv, NEW f \in Fed, handle_tag_advance_grant(f)
  PROVE  /\ Hear(f, "TAG") /\ Hearing(f) /\ Others(f) /\ up'[f] = up[f]
         /\ Head(down[f]).tag \in Tag
         /\ \/ Less(Head(down[f]).tag, fed[f].last_TAG) /\ Quiet(f)
            \/ /\ ~Less(Head(down[f]).tag, fed[f].last_TAG)
               /\ Resumes(f) /\ fed'[f].queue = fed[f].queue
               /\ fed'[f].last_TAG = Head(down[f]).tag /\ fed'[f].provisional = FALSE
<1> DEFINE me == fed[f]
           tag == Head(down[f]).tag
           k == [c \in DOMAIN me.known |-> lf_tag_max(me.known[c], tag)]
           w == [me EXCEPT !.known = k]
           a == [w EXCEPT !.last_TAG = tag, !.provisional = FALSE, !.signalled = TRUE]
<1>1. me \in FedState(f) /\ up[f] \in Seq(UpMessage(f))
  BY DEF TypeInv
<1>2. Hear(f, "TAG") /\ Hearing(f)
  BY DEF handle_tag_advance_grant, Hear, Hearing
<1>3. tag \in Tag
  BY <1>2, Heeded
<1>4. k \in [ConnTo(f) -> Tag]
  BY <1>1, <1>3, FedParts, MinMaxTags
<1>5. w.last_TAG = me.last_TAG
  BY <1>1 DEF FedState
<1>6. \/ Less(tag, w.last_TAG) /\ Becomes(f, w, <<>>)
      \/ ~Less(tag, w.last_TAG) /\ Becomes(f, a, <<>>)
  BY DEF handle_tag_advance_grant
<1> HIDE DEF k, tag
<1>7. w \in FedState(f) /\ Alike(w, me) /\ SamePlans(w, me) /\ w.pc = me.pc
  BY <1>1, <1>4 DEF FedState, Alike, SamePlans
<1> HIDE DEF w
<1>8. /\ a \in FedState(f) /\ a.last_TAG = tag /\ a.provisional = FALSE
      /\ a.failed = w.failed /\ a.started = w.started /\ a.current = w.current /\ a.todo = w.todo
      /\ a.level = w.level /\ a.active = w.active /\ a.received = w.received /\ SamePlans(a, w)
      /\ a.pc = w.pc /\ a.queue = w.queue
  BY <1>3, <1>7 DEF FedState, SamePlans
<1> HIDE DEF a
<1>9. << >> \in Seq(UpMessage(f)) /\ up[f] \o << >> = up[f]
  BY <1>1, NothingAdded
<1>10. CASE Less(tag, w.last_TAG) /\ Becomes(f, w, <<>>)
  <2>1. fed'[f] = w /\ Others(f) /\ up'[f] = up[f]
    BY <1>7, <1>9, <1>10, FedBecomes DEF Others
  <2> QED  BY <1>2, <1>3, <1>5, <1>7, <1>10, <2>1 DEF Quiet, tag
<1>11. CASE ~Less(tag, w.last_TAG) /\ Becomes(f, a, <<>>)
  <2>1. fed'[f] = a /\ Others(f) /\ up'[f] = up[f]
    BY <1>8, <1>9, <1>11, FedBecomes DEF Others
  <2> QED  BY <1>2, <1>3, <1>5, <1>7, <1>8, <1>11, <2>1 DEF Resumes, Alike, SamePlans, tag
<1> QED  BY <1>6, <1>10, <1>11

\* A provisional grant is as late as the last grant.
LEMMA PTAGParts ==
  ASSUME TypeInv, NEW f \in Fed, handle_provisional_tag_advance_grant(f)
  PROVE  LET tag == Head(down[f]).tag IN
         /\ Hear(f, "PTAG") /\ Hearing(f) /\ Others(f) /\ tag \in EventTag
         /\ \/ /\ fed'[f].pc = "fatal" /\ Alike(fed'[f], fed[f]) /\ SamePlans(fed'[f], fed[f])
               /\ up'[f] = up[f]
            \/ /\ ~Less(tag, fed[f].last_TAG) /\ Resumes(f) /\ fed'[f].last_TAG = tag
               /\ \/ fed'[f].queue = fed[f].queue
                  \/ Less(fed[f].current, tag) /\ fed'[f].queue = fed[f].queue \cup {Event(tag, NULL)}
<1> DEFINE me == fed[f]
           tag == Head(down[f]).tag
           w == [me EXCEPT !.last_TAG = tag, !.provisional = TRUE, !.signalled = TRUE]
           q == [w EXCEPT !.queue = @ \cup {Event(tag, NULL)}]
           x == [me EXCEPT !.pc = "fatal"]
<1>1. me \in FedState(f) /\ up[f] \in Seq(UpMessage(f)) /\ << >> \in Seq(UpMessage(f)) /\ up[f] \o << >> = up[f]
  BY NothingAdded DEF TypeInv
<1>2. Hear(f, "PTAG") /\ Hearing(f)
  BY DEF handle_provisional_tag_advance_grant, Hear, Hearing
<1>3. tag \in EventTag /\ tag \in Tag /\ me.current \in Tag /\ me.last_TAG \in Tag
  BY <1>1, <1>2, Heeded, FedParts
<1>4. w.current = me.current
  BY <1>1 DEF FedState
<1>5. \/ Becomes(f, x, <<>>)
      \/ ~Less(tag, me.last_TAG) /\ Becomes(f, Confirmed(w, tag), LTC(w, tag))
      \/ ~Less(tag, me.last_TAG) /\ Becomes(f, w, <<>>)
      \/ /\ ~Less(tag, me.last_TAG) /\ ~Less(tag, w.current) /\ w.current # tag
         /\ Becomes(f, q, <<>>)
  BY DEF handle_provisional_tag_advance_grant
<1> HIDE DEF tag
<1>6. w \in FedState(f) /\ w.last_TAG = tag /\ w.queue = me.queue
      /\ w.failed = me.failed /\ w.started = me.started /\ w.todo = me.todo
      /\ w.level = me.level /\ w.active = me.active /\ w.received = me.received /\ SamePlans(w, me)
      /\ w.pc = me.pc
  BY <1>1, <1>3 DEF FedState, SamePlans
<1>7. x \in FedState(f) /\ x.pc = "fatal" /\ Alike(x, me) /\ SamePlans(x, me)
  BY <1>1 DEF FedState, Alike, SamePlans
<1> HIDE DEF w, x
<1>8. Confirmed(w, tag) \in FedState(f) /\ LTC(w, tag) \in Seq(UpMessage(f))
  BY <1>3, <1>6, ConfirmedType, OneMessage
<1>9. Alike(Confirmed(w, tag), w) /\ SamePlans(Confirmed(w, tag), w) /\ Confirmed(w, tag).pc = w.pc
  BY <1>6 DEF Confirmed, FedState, Alike, SamePlans
<1>10. Event(tag, NULL) \in [tag : EventTag, conn : ConnTo(f) \cup {NULL}]
  BY <1>3 DEF Event
<1>11. /\ q \in FedState(f) /\ q.queue = w.queue \cup {Event(tag, NULL)} /\ q.last_TAG = w.last_TAG
       /\ q.failed = w.failed /\ q.started = w.started /\ q.todo = w.todo /\ q.current = w.current
       /\ q.level = w.level /\ q.active = w.active /\ q.received = w.received /\ SamePlans(q, w)
       /\ q.pc = w.pc
  <2> HIDE DEF Event
  <2> QED  BY <1>6, <1>10 DEF FedState, SamePlans
<1> HIDE DEF q
<1>12. CASE Becomes(f, x, <<>>)
  <2>1. fed'[f] = x /\ Others(f) /\ up'[f] = up[f]
    BY <1>1, <1>7, <1>12, FedBecomes DEF Others
  <2> QED  BY <1>2, <1>3, <1>7, <2>1 DEF tag
<1>13. CASE ~Less(tag, me.last_TAG) /\ Becomes(f, Confirmed(w, tag), LTC(w, tag))
  <2>1. fed'[f] = Confirmed(w, tag) /\ Others(f)
    BY <1>8, <1>13, FedBecomes DEF Others
  <2> QED  BY <1>2, <1>3, <1>4, <1>6, <1>9, <1>13, <2>1 DEF Resumes, Alike, SamePlans, tag
<1>14. CASE ~Less(tag, me.last_TAG) /\ Becomes(f, w, <<>>)
  <2>1. fed'[f] = w /\ Others(f)
    BY <1>1, <1>6, <1>14, FedBecomes DEF Others
  <2> QED  BY <1>2, <1>3, <1>4, <1>6, <1>14, <2>1 DEF Resumes, SamePlans, tag
<1>15. CASE ~Less(tag, me.last_TAG) /\ ~Less(tag, w.current) /\ w.current # tag /\ Becomes(f, q, <<>>)
  <2>1. fed'[f] = q /\ Others(f)
    BY <1>1, <1>11, <1>15, FedBecomes DEF Others
  <2>2. Less(me.current, tag)
    BY <1>3, <1>4, <1>15, TagsAreOrdered
  <2> QED  BY <1>2, <1>3, <1>4, <1>6, <1>11, <1>15, <2>1, <2>2 DEF Resumes, SamePlans, tag
<1> QED  BY <1>5, <1>12, <1>13, <1>14, <1>15

LEMMA KnownParts ==
  ASSUME NEW f, NEW me \in FedState(f), NEW c \in ConnTo(f), NEW t \in Tag
  PROVE  /\ Known(me, c, t) \in FedState(f) /\ Alike(Known(me, c, t), me)
         /\ SamePlans(Known(me, c, t), me) /\ Known(me, c, t).pc = me.pc
<1>1. ASSUME NEW v
      PROVE  /\ Alike([me EXCEPT !.known[c] = v, !.signalled = TRUE], me)
             /\ SamePlans([me EXCEPT !.known[c] = v, !.signalled = TRUE], me)
             /\ [me EXCEPT !.known[c] = v, !.signalled = TRUE].pc = me.pc
  BY DEF FedState, Alike, SamePlans
<1>2. Alike(me, me) /\ SamePlans(me, me)
  BY DEF Alike, SamePlans
<1>3. Known(me, c, t) \in FedState(f)
  BY KnownType
<1>4. Known(me, c, t) = me \/ \E v : Known(me, c, t) = [me EXCEPT !.known[c] = v, !.signalled = TRUE]
  BY DEF Known
<1> QED  BY <1>1, <1>2, <1>3, <1>4

\* The message is for the tag that f is executing and not known to be absent.
ForNow(f, m) ==
  m.tag = fed[f].current /\ Less(fed[f].known[m.conn], m.tag) /\ fed[f].started
Tardy(f, m) == Leq(m.tag, fed[f].current) \/ Leq(STOP_TAG, fed[f].current)

LEMMA MSGParts ==
  ASSUME TypeInv, NEW f \in Fed, handle_tagged_message(f)
  PROVE  LET m == Head(down[f]) IN
         /\ Hear(f, "MSG") /\ Hearing(f) /\ Others(f) /\ up'[f] = up[f]
         /\ m.tag \in EventTag /\ m.conn \in ConnTo(f)
         /\ SamePlans(fed'[f], fed[f])
         /\ fed'[f].failed = fed[f].failed /\ fed'[f].started = fed[f].started
         /\ fed'[f].current = fed[f].current /\ fed'[f].level = fed[f].level
         /\ fed'[f].active = fed[f].active /\ fed'[f].received = fed[f].received
         /\ fed'[f].last_TAG = fed[f].last_TAG /\ fed'[f].provisional = fed[f].provisional
         /\ \/ /\ ForNow(f, m) /\ fed'[f].pc = fed[f].pc /\ fed'[f].queue = fed[f].queue
               /\ fed'[f].todo = fed[f].todo \cup {m.conn}
            \/ /\ fed[f].started /\ Tardy(f, m) /\ fed'[f].pc = "fatal"
               /\ fed'[f].queue = fed[f].queue /\ fed'[f].todo = fed[f].todo
            \/ /\ ~ForNow(f, m) /\ (fed[f].started => ~Tardy(f, m)) /\ fed'[f].pc = fed[f].pc
               /\ fed'[f].queue = fed[f].queue \cup {Event(m.tag, m.conn)}
               /\ fed'[f].todo = fed[f].todo
<1> DEFINE me == fed[f]
           m == Head(down[f])
           w == Known(me, m.conn, m.tag)
           now == [w EXCEPT !.todo = @ \cup {m.conn}]
           fatal == [w EXCEPT !.pc = "fatal"]
           later == [w EXCEPT !.queue = @ \cup {Event(m.tag, m.conn)}, !.signalled = TRUE]
<1>1. me \in FedState(f) /\ up[f] \in Seq(UpMessage(f)) /\ << >> \in Seq(UpMessage(f)) /\ up[f] \o << >> = up[f]
  BY NothingAdded DEF TypeInv
<1>2. Hear(f, "MSG") /\ Hearing(f)
  BY DEF handle_tagged_message, Hear, Hearing
<1>3. m.tag \in EventTag /\ m.tag \in Tag /\ m.conn \in ConnTo(f)
  BY <1>2, Heeded
<1>4. w \in FedState(f) /\ Alike(w, me) /\ SamePlans(w, me) /\ w.pc = me.pc
  <2> HIDE DEF m
  <2> QED  BY <1>1, <1>3, KnownParts, SMTT(30)
<1>5. \/ ForNow(f, m) /\ w.started = me.started /\ Becomes(f, now, <<>>)
      \/ me.started /\ Tardy(f, m) /\ Becomes(f, fatal, <<>>)
      \/ ~ForNow(f, m) /\ (me.started => ~Tardy(f, m)) /\ Becomes(f, later, <<>>)
  <2>1. w.current = me.current /\ w.started = me.started
    BY <1>4 DEF Alike
  <2> QED  BY <2>1 DEF handle_tagged_message, ForNow, Tardy
<1>6. Event(m.tag, m.conn) \in [tag : EventTag, conn : ConnTo(f) \cup {NULL}]
  BY <1>3 DEF Event
<1> HIDE DEF w, m
<1>7. /\ now \in FedState(f) /\ SamePlans(now, w) /\ now.pc = w.pc
      /\ now.failed = w.failed /\ now.started = w.started /\ now.current = w.current /\ now.level = w.level
      /\ now.active = w.active /\ now.received = w.received /\ now.last_TAG = w.last_TAG
      /\ now.provisional = w.provisional /\ now.queue = w.queue /\ now.todo = w.todo \cup {m.conn}
  BY <1>3, <1>4 DEF FedState, SamePlans
<1>8. /\ fatal \in FedState(f) /\ SamePlans(fatal, w) /\ fatal.pc = "fatal"
      /\ fatal.failed = w.failed /\ fatal.started = w.started /\ fatal.current = w.current /\ fatal.level = w.level
      /\ fatal.active = w.active /\ fatal.received = w.received /\ fatal.last_TAG = w.last_TAG
      /\ fatal.provisional = w.provisional /\ fatal.queue = w.queue /\ fatal.todo = w.todo
  BY <1>4 DEF FedState, SamePlans
<1>9. /\ later \in FedState(f) /\ SamePlans(later, w) /\ later.pc = w.pc
      /\ later.failed = w.failed /\ later.started = w.started /\ later.current = w.current /\ later.level = w.level
      /\ later.active = w.active /\ later.received = w.received /\ later.last_TAG = w.last_TAG
      /\ later.provisional = w.provisional /\ later.queue = w.queue \cup {Event(m.tag, m.conn)}
      /\ later.todo = w.todo
  BY <1>4, <1>6, ZenonT(60) DEF FedState, SamePlans
<1> HIDE DEF now, fatal, later
<1>10. ASSUME NEW x \in FedState(f), Becomes(f, x, <<>>)
       PROVE  fed'[f] = x /\ Others(f) /\ up'[f] = up[f]
  BY <1>1, <1>10, FedBecomes DEF Others
<1>11. CASE ForNow(f, m) /\ Becomes(f, now, <<>>)
  <2>1. fed'[f] = now /\ Others(f) /\ up'[f] = up[f]
    BY <1>7, <1>10, <1>11
  <2> QED  BY <1>2, <1>3, <1>4, <1>7, <1>11, <2>1 DEF Alike, SamePlans, m
<1>12. CASE me.started /\ Tardy(f, m) /\ Becomes(f, fatal, <<>>)
  <2>1. fed'[f] = fatal /\ Others(f) /\ up'[f] = up[f]
    BY <1>8, <1>10, <1>12
  <2> QED  BY <1>2, <1>3, <1>4, <1>8, <1>12, <2>1 DEF Alike, SamePlans, m
<1>13. CASE ~ForNow(f, m) /\ (me.started => ~Tardy(f, m)) /\ Becomes(f, later, <<>>)
  <2>1. fed'[f] = later /\ Others(f) /\ up'[f] = up[f]
    BY <1>9, <1>10, <1>13
  <2> QED  BY <1>2, <1>3, <1>4, <1>9, <1>13, <2>1 DEF Alike, SamePlans, m
<1> QED  BY <1>5, <1>11, <1>12, <1>13, SMTT(30)

LEMMA AbsentHeardParts ==
  ASSUME TypeInv, NEW f \in Fed, HandlePortAbsent(f)
  PROVE  Hear(f, "ABSENT") /\ Hearing(f) /\ Others(f) /\ up'[f] = up[f] /\ Quiet(f)
<1> DEFINE me == fed[f]
           m == Head(down[f])
           w == Known(me, m.conn, m.tag)
<1>1. me \in FedState(f) /\ up[f] \in Seq(UpMessage(f)) /\ << >> \in Seq(UpMessage(f)) /\ up[f] \o << >> = up[f]
  BY NothingAdded DEF TypeInv
<1>2. Hear(f, "ABSENT") /\ Hearing(f) /\ Becomes(f, w, <<>>)
  BY DEF HandlePortAbsent, Hear, Hearing
<1>3. m.tag \in Tag /\ m.conn \in ConnTo(f)
  BY <1>2, Heeded
<1>4. w \in FedState(f) /\ Alike(w, me) /\ SamePlans(w, me) /\ w.pc = me.pc
  <2> HIDE DEF m
  <2> QED  BY <1>1, <1>3, KnownParts
<1> HIDE DEF w
<1>5. fed'[f] = w /\ Others(f) /\ up'[f] = up[f]
  BY <1>1, <1>2, <1>4, FedBecomes DEF Others
<1> QED  BY <1>2, <1>4, <1>5 DEF Quiet

LEMMA DNETParts ==
  ASSUME TypeInv, NEW f \in Fed, handle_downstream_next_event_tag(f)
  PROVE  LET skipped == fed[f].last_skipped_NET IN
         /\ Hear(f, "DNET") /\ Hearing(f) /\ Others(f)
         /\ \/ Quiet(f) /\ up'[f] = up[f]
            \/ /\ skipped \in EventTag
               /\ Alike(fed'[f], fed[f]) /\ fed'[f].pc = fed[f].pc /\ fed'[f].asked = fed[f].asked
               /\ fed'[f].last_skipped_NET = NEVER_TAG /\ fed'[f].last_sent_NET = skipped
               /\ up'[f] = up[f] \o <<Msg("NET", skipped, NULL)>>
<1> DEFINE me == fed[f]
           tag == Head(down[f]).tag
           skipped == me.last_skipped_NET
           w == [me EXCEPT !.received_any_DNET = TRUE, !.dnet = tag]
           a == [w EXCEPT !.last_sent_NET = skipped, !.last_skipped_NET = NEVER_TAG]
<1>1. me \in FedState(f) /\ up[f] \in Seq(UpMessage(f)) /\ << >> \in Seq(UpMessage(f)) /\ up[f] \o << >> = up[f]
  BY NothingAdded DEF TypeInv
<1>2. /\ Hear(f, "DNET") /\ Hearing(f)
      /\ \/ Less(tag, skipped) /\ Becomes(f, a, <<Msg("NET", skipped, NULL)>>)
         \/ Becomes(f, w, <<>>)
  BY DEF handle_downstream_next_event_tag, Hear, Hearing
<1>3. tag \in Tag
  BY <1>2, Heeded
<1>4. skipped \in EventTag \cup {NEVER_TAG} /\ skipped \in Tag
  BY <1>1, FedParts
<1> HIDE DEF tag
<1>5. w \in FedState(f) /\ Alike(w, me) /\ SamePlans(w, me) /\ w.pc = me.pc
  BY <1>1, <1>3 DEF FedState, Alike, SamePlans
<1> HIDE DEF w
<1>6. /\ a \in FedState(f) /\ Alike(a, w) /\ a.pc = w.pc /\ a.asked = w.asked
      /\ a.last_skipped_NET = NEVER_TAG /\ a.last_sent_NET = skipped
  <2> HIDE DEF skipped
  <2> QED  BY <1>4, <1>5, SpecialTags DEF FedState, Alike
<1> HIDE DEF a
<1>7. CASE Less(tag, skipped) /\ Becomes(f, a, <<Msg("NET", skipped, NULL)>>)
  <2>1. skipped \in EventTag
    <3>1. Less(tag, NEVER_TAG) => FALSE
      BY <1>3, ZeroAndForever, TagOrdering, SpecialTags
    <3> QED  BY <1>4, <1>7, <3>1
  <2>2. <<Msg("NET", skipped, NULL)>> \in Seq(UpMessage(f))
    <3> HIDE DEF skipped
    <3> QED  BY <2>1, OneMessage
  <2>3. fed'[f] = a /\ Others(f) /\ up'[f] = up[f] \o <<Msg("NET", skipped, NULL)>>
    <3> HIDE DEF skipped
    <3> QED  BY <1>6, <1>7, <2>2, FedBecomes DEF Others
  <2> QED  BY <1>2, <1>5, <1>6, <2>1, <2>3 DEF Alike, SamePlans
<1>8. CASE Becomes(f, w, <<>>)
  <2>1. fed'[f] = w /\ Others(f) /\ up'[f] = up[f]
    BY <1>1, <1>5, <1>8, FedBecomes DEF Others
  <2> QED  BY <1>2, <1>5, <2>1 DEF Quiet
<1> QED  BY <1>2, <1>7, <1>8

LEMMA StoreParts ==
  ASSUME TypeInv, NEW f \in Fed, StoreDNET(f)
  PROVE  Quiet(f) /\ Others(f) /\ up'[f] = up[f] /\ down' = down
<1> DEFINE a == [fed[f] EXCEPT !.last_DNET = fed[f].dnet, !.dnet = NULL]
<1>1. fed[f] \in FedState(f) /\ up[f] \in Seq(UpMessage(f)) /\ << >> \in Seq(UpMessage(f)) /\ up[f] \o << >> = up[f]
  BY NothingAdded DEF TypeInv
<1>2. fed[f].dnet \in Tag /\ Becomes(f, a, <<>>) /\ down' = down
  BY <1>1, FedParts DEF StoreDNET
<1>3. a \in FedState(f) /\ Alike(a, fed[f]) /\ SamePlans(a, fed[f]) /\ a.pc = fed[f].pc
  BY <1>1, <1>2 DEF FedState, Alike, SamePlans
<1> HIDE DEF a
<1>4. fed'[f] = a /\ Others(f) /\ up'[f] = up[f]
  BY <1>1, <1>2, <1>3, FedBecomes DEF Others
<1> QED  BY <1>2, <1>3, <1>4 DEF Quiet

-----------------------------------------------------------------------------
(* A federate executes its tags in order, and only granted ones            *)

\* The tag of f is earlier than the events before it; what f waits for and what
\* it goes on with is not later than what it has asked for and is granted.
Orderly(f) ==
  LET me == fed[f] IN
  /\ me.started => \A e \in me.queue : Less(me.current, e.tag)
  /\ ~me.started => me.current = ZERO_TAG /\ me.pc \in {"start", "wait", "advance", "done", "fatal"}
  /\ me.pc = "start" => ~me.started
  /\ me.started /\ me.pc \in {"wait", "advance"} => Less(me.current, STOP_TAG)
  /\ me.pc = "wait" => Upstreams(f) # {}
  /\ me.pc \in {"stopping", "done"} /\ me.started => Leq(STOP_TAG, me.current)
  /\ Upstreams(f) # {} =>
       /\ me.started => Leq(me.current, me.last_TAG)
       /\ me.pc = "advance" => Leq(IF me.started THEN NextEvent(me) ELSE ZERO_TAG, me.last_TAG)
       /\ me.pc = "wait" => IF me.started THEN Leq(NextEvent(me), me.asked) ELSE me.asked = ZERO_TAG

AllOrderly == \A f \in Fed : Orderly(f)

LEMMA Unmoved ==
  ASSUME UNCHANGED network, NEW f, Orderly(f), fed'[f] = fed[f]
  PROVE  Orderly(f)'
BY SameProgram DEF Orderly, NextEvent

\* A state that is alike, with a program counter that asks for no more.
LEMMA AlikeOrderly ==
  ASSUME UNCHANGED network, NEW f, Orderly(f), Alike(fed'[f], fed[f]),
         \/ fed'[f].pc = fed[f].pc /\ fed'[f].asked = fed[f].asked
         \/ fed'[f].pc = "fatal"
         \/ fed[f].pc = "stopping" /\ fed'[f].pc = "done"
  PROVE  Orderly(f)'
<1>1. NextEvent(fed'[f]) = NextEvent(fed[f])
  BY NextEventAlike DEF Alike
<1>2. Upstreams(f)' = Upstreams(f)
  BY SameProgram
<1>3. NextEvent(fed[f])' = NextEvent(fed'[f])
  BY DEF NextEvent
<1> QED  BY <1>1, <1>2, <1>3 DEF Orderly, Alike

LEMMA AskedOrderly ==
  ASSUME TypeInv, UNCHANGED network, NEW f \in Fed, NEW t \in EventTag, NEW ms,
         Asked(f, fed[f], t, ms),
         fed[f].started => /\ \A e \in fed[f].queue : Less(fed[f].current, e.tag)
                           /\ t = NextEvent(fed[f]) /\ Less(fed[f].current, STOP_TAG)
                           /\ Upstreams(f) # {} => Leq(fed[f].current, fed[f].last_TAG),
         ~fed[f].started => fed[f].current = ZERO_TAG /\ t = ZERO_TAG
  PROVE  Orderly(f)'
<1>1. fed[f] \in FedState(f)
  BY DEF TypeInv
<1>2. NextEvent(fed[f])' = NextEvent(fed[f]) /\ Upstreams(f)' = Upstreams(f)
  <2>1. NextEvent(fed'[f]) = NextEvent(fed[f])
    BY NextEventAlike DEF Alike, Asked
  <2> QED  BY <2>1, SameProgram DEF NextEvent
<1>3. Alike(fed'[f], fed[f]) /\ fed'[f].asked = t
      /\ fed'[f].pc = IF Leq(t, fed[f].last_TAG) \/ Upstreams(f) = {} THEN "advance" ELSE "wait"
  BY DEF Asked
<1>4. Leq(t, t)
  BY DEF Leq
<1> QED  BY <1>2, <1>3, <1>4 DEF Orderly, Alike

\* When an event comes, the next event is not later.
LEMMA EarlierNextEvent ==
  ASSUME NEW f, NEW a \in FedState(f), NEW b \in FedState(f), a.queue \subseteq b.queue
  PROVE  Leq(NextEvent(b), NextEvent(a))
<1>1. /\ NextEvent(a) = STOP_TAG \/ \E e \in a.queue : e.tag = NextEvent(a)
      /\ Leq(NextEvent(b), STOP_TAG) /\ \A e \in b.queue : Leq(NextEvent(b), e.tag)
  BY NextEventTag
<1> QED  BY <1>1

LEMMA WorkOrderly ==
  ASSUME TypeInv, NEW f \in Fed, Orderly(f), Work(f) \/ Fail(f)
  PROVE  Orderly(f)'
<1> DEFINE me == fed[f]
<1>1. UNCHANGED network
  BY DEF Work, Fail, Working, Start, Wake, AdvanceTag, Complete, Leave, ExecuteInput, SendMessage, SendAbsent
<1>2. me \in FedState(f) /\ me.current \in EventTag /\ me.current \in Tag /\ me.last_TAG \in Tag
      /\ NextEvent(me) \in EventTag /\ NextEvent(me) \in Tag /\ me.asked \in Tag
  BY FedParts, NextEventTag, SpecialTags DEF TypeInv
<1>3. STOP_TAG \in Tag /\ ZERO_TAG \in Tag /\ Upstreams(f)' = Upstreams(f)
  BY <1>1, StopTag, SpecialTags, SameProgram
<1>4. CASE Start(f)
  <2>1. Asked(f, me, me.current, <<>>) /\ me.pc = "start"
    BY <1>4, StartParts
  <2>2. ~me.started /\ me.current = ZERO_TAG
    BY <2>1 DEF Orderly
  <2> QED  BY <1>1, <1>2, <2>1, <2>2, AskedOrderly
<1>5. CASE Wake(f)
  <2> DEFINE next == NextEvent(me)
  <2>1. me.pc = "wait"
    BY <1>5, WakeParts
  <2>2. CASE WakeAgain(f, next)
    <3>1. Asked(f, me, next, <<>>) /\ me.started
      BY <2>2 DEF WakeAgain
    <3> QED  BY <1>1, <1>2, <2>1, <3>1, AskedOrderly DEF Orderly
  <2>3. CASE (Leq(next, me.last_TAG) \/ Leq(me.asked, me.last_TAG)) /\ WakeUp(f)
    <3>1. NextEvent(fed[f])' = next
      <4>1. NextEvent(fed'[f]) = next
        BY <2>3, NextEventAlike DEF WakeUp, Alike
      <4> QED  BY <4>1 DEF NextEvent
    <3>2. me.started => Leq(next, me.last_TAG)
      <4>1. ASSUME me.started PROVE Leq(next, me.last_TAG)
        <5>1. Leq(next, me.asked)
          BY <2>1, <4>1 DEF Orderly
        <5>2. Leq(me.asked, me.last_TAG)
          BY <1>2, <2>3, <4>1, TagsAreOrdered DEF WakeUp, Leq
        <5> QED  BY <1>2, <5>1, <5>2, TagsAreOrdered
      <4> QED  BY <4>1
    <3>3. ~me.started => Leq(ZERO_TAG, me.last_TAG)
      <4>1. ASSUME ~me.started PROVE Leq(ZERO_TAG, me.last_TAG)
        <5>1. me.asked = ZERO_TAG
          BY <2>1, <4>1 DEF Orderly
        <5>2. Leq(ZERO_TAG, next)
          BY <1>2, ZeroAndForever
        <5> QED  BY <1>2, <1>3, <2>3, <5>1, <5>2, TagsAreOrdered
      <4> QED  BY <4>1
    <3> HIDE DEF next
    <3> QED  BY <1>3, <2>1, <2>3, <3>1, <3>2, <3>3 DEF Orderly, WakeUp, Alike
  <2>4. CASE WakeAsking(f, next) \/ SleepOn(f)
    BY <1>1, <2>1, <2>4, AlikeOrderly DEF WakeAsking, SleepOn, SamePlans
  <2> QED  BY <1>5, <2>2, <2>3, <2>4, WakeParts
<1>6. CASE AdvanceTag(f)
  <2>1. me.pc = "advance" /\ Advanced(f)
    BY <1>6, AdvanceParts
  <2>2. ASSUME NEW e \in fed'[f].queue PROVE Less(NextTag(f), e.tag)
    <3>1. e \in me.queue /\ e.tag # NextTag(f) /\ e.tag \in EventTag
      BY <1>2, <2>1, <2>2, FedParts DEF Advanced
    <3>2. Leq(NextTag(f), e.tag)
      BY <1>2, <3>1, NextEventTag, ZeroAndForever, SpecialTags DEF NextTag, Orderly
    <3> QED  BY <3>1, <3>2 DEF Leq
  <2>3. Upstreams(f) # {} => Leq(NextTag(f), me.last_TAG)
    BY <2>1 DEF Orderly, NextTag
  <2> QED  BY <1>3, <2>1, <2>2, <2>3 DEF Orderly, Advanced
<1>7. ASSUME NEW c, ExecuteInput(f, c) \/ SendMessage(f, c) \/ SendAbsent(f, c)
      PROVE  Orderly(f)'
  <2>1. me.pc = "exec" /\ \E level : DealsWith(f, c, level)
    BY <1>7, InputParts, SendParts, AbsentParts
  <2> QED  BY <1>3, <2>1 DEF DealsWith, Orderly
<1>8. CASE Complete(f)
  <2>1. me.pc = "exec" /\ me.started
    BY <1>8, CompleteParts DEF Orderly
  <2>2. PICK ms : \/ /\ Leq(STOP_TAG, me.current) /\ fed'[f].pc = "stopping" /\ Alike(fed'[f], me)
                  \/ ~Leq(STOP_TAG, me.current) /\ Asked(f, me, NextEvent(me), ms)
    BY <1>8, CompleteParts
  <2>3. CASE Leq(STOP_TAG, me.current) /\ fed'[f].pc = "stopping" /\ Alike(fed'[f], me)
    BY <1>3, <2>1, <2>3 DEF Orderly, Alike
  <2>4. CASE ~Leq(STOP_TAG, me.current) /\ Asked(f, me, NextEvent(me), ms)
    <3>1. Less(me.current, STOP_TAG)
      BY <1>2, <1>3, <2>4, TagOrdering
    <3> QED  BY <1>1, <1>2, <2>1, <2>4, <3>1, AskedOrderly DEF Orderly
  <2> QED  BY <2>2, <2>3, <2>4
<1>9. CASE Leave(f)
  BY <1>1, <1>9, LeaveParts, AlikeOrderly
<1>10. CASE Fail(f)
  <2>1. /\ fed'[f].pc = me.pc /\ fed'[f].started = me.started /\ fed'[f].current = me.current
        /\ fed'[f].queue = me.queue /\ fed'[f].last_TAG = me.last_TAG /\ fed'[f].asked = me.asked
    BY <1>10, FailParts DEF SamePlans
  <2>2. NextEvent(fed[f])' = NextEvent(fed[f])
    <3>1. NextEvent(fed'[f]) = NextEvent(fed[f])
      BY <2>1, NextEventAlike
    <3> QED  BY <3>1 DEF NextEvent
  <2> QED  BY <1>3, <2>1, <2>2 DEF Orderly
<1> QED  BY <1>4, <1>5, <1>6, <1>7, <1>8, <1>9, <1>10 DEF Work

LEMMA ListenOrderly ==
  ASSUME TypeInv, NEW f \in Fed, Orderly(f), Listen(f)
  PROVE  Orderly(f)'
<1> DEFINE me == fed[f]
           m == Head(down[f])
<1>1. UNCHANGED network
  BY DEF Listen, Hear, handle_tag_advance_grant, handle_provisional_tag_advance_grant,
         handle_tagged_message, HandlePortAbsent, handle_downstream_next_event_tag, StoreDNET
<1>2. me \in FedState(f) /\ me.current \in Tag /\ me.last_TAG \in Tag /\ NextEvent(me) \in EventTag
      /\ NextEvent(me) \in Tag /\ me.asked \in Tag
  BY FedParts, NextEventTag, SpecialTags DEF TypeInv
<1>3. Upstreams(f)' = Upstreams(f) /\ ZERO_TAG \in Tag /\ STOP_TAG \in Tag
  BY <1>1, SameProgram, SpecialTags, StopTag
<1>4. fed'[f] \in FedState(f)
  BY ListenTypes, FedBecomes DEF BecomesTyped
<1>5. NextEvent(fed[f])' = NextEvent(fed'[f]) /\ NextEvent(fed'[f]) \in Tag
  BY <1>4, NextEventTag, SpecialTags DEF NextEvent
<1>6. me.queue \subseteq fed'[f].queue => Leq(NextEvent(fed'[f]), NextEvent(me))
  BY <1>2, <1>4, EarlierNextEvent
\* The grant is not earlier and the queue has more events, all of them later.
<1>7. ASSUME NEW grant \in Tag, Leq(me.last_TAG, grant), fed'[f].last_TAG = grant,
             fed'[f].started = me.started, fed'[f].current = me.current, fed'[f].pc = me.pc,
             fed'[f].asked = me.asked, me.queue \subseteq fed'[f].queue,
             me.started => \A e \in fed'[f].queue : Less(me.current, e.tag)
      PROVE  Orderly(f)'
  <2>1. Leq(NextEvent(fed'[f]), NextEvent(me))
    BY <1>6, <1>7
  <2>2. \A t \in Tag : Leq(t, me.last_TAG) => Leq(t, grant)
    BY <1>2, <1>7, TagsAreOrdered
  <2>3. \A t \in Tag : Leq(NextEvent(me), t) => Leq(NextEvent(fed'[f]), t)
    BY <1>2, <1>5, <2>1, TagsAreOrdered
  <2> QED  BY <1>2, <1>3, <1>5, <1>7, <2>2, <2>3 DEF Orderly
<1>8. CASE handle_tag_advance_grant(f)
  <2>1. CASE Quiet(f)
    BY <1>1, <2>1, AlikeOrderly DEF Quiet, SamePlans
  <2>2. CASE ~Quiet(f)
    <3>1. /\ m.tag \in Tag /\ ~Less(m.tag, me.last_TAG) /\ Resumes(f) /\ fed'[f].queue = me.queue
          /\ fed'[f].last_TAG = m.tag
      BY <1>8, <2>2, TAGParts
    <3>2. Leq(me.last_TAG, m.tag)
      BY <1>2, <3>1, TagsAreOrdered DEF Leq
    <3> HIDE DEF m
    <3> QED  BY <1>7, <3>1, <3>2 DEF Resumes, SamePlans, Orderly
  <2> QED  BY <2>1, <2>2
<1>9. CASE handle_provisional_tag_advance_grant(f)
  <2>1. m.tag \in Tag
    BY <1>9, PTAGParts, SpecialTags
  <2>2. CASE fed'[f].pc = "fatal" /\ Alike(fed'[f], me) /\ SamePlans(fed'[f], me)
    BY <1>1, <2>2, AlikeOrderly
  <2>3. CASE /\ ~Less(m.tag, me.last_TAG) /\ Resumes(f) /\ fed'[f].last_TAG = m.tag
             /\ \/ fed'[f].queue = me.queue
                \/ Less(me.current, m.tag) /\ fed'[f].queue = me.queue \cup {Event(m.tag, NULL)}
    <3>1. Leq(me.last_TAG, m.tag)
      BY <1>2, <2>1, <2>3, TagsAreOrdered DEF Leq
    <3>2. Event(m.tag, NULL).tag = m.tag
      BY DEF Event
    <3>3. me.started => \A e \in fed'[f].queue : Less(me.current, e.tag)
      BY <2>3, <3>2 DEF Orderly
    <3> HIDE DEF m
    <3> QED  BY <1>7, <2>1, <2>3, <3>1, <3>3 DEF Resumes, SamePlans
  <2> QED  BY <1>9, <2>2, <2>3, PTAGParts
<1>10. CASE handle_tagged_message(f)
  <2>1. /\ m.tag \in Tag /\ SamePlans(fed'[f], me) /\ fed'[f].started = me.started
        /\ fed'[f].current = me.current /\ fed'[f].last_TAG = me.last_TAG
    BY <1>10, MSGParts, SpecialTags
  <2>2. Leq(me.last_TAG, me.last_TAG) /\ Event(m.tag, m.conn).tag = m.tag
    BY DEF Leq, Event
  <2>3. CASE fed'[f].pc = "fatal" /\ fed'[f].queue = me.queue
    <3>1. NextEvent(fed'[f]) = NextEvent(me)
      BY <2>3, NextEventAlike
    <3> QED  BY <1>3, <1>5, <2>1, <2>3, <3>1 DEF Orderly, SamePlans
  <2>4. CASE fed'[f].pc = me.pc /\ fed'[f].queue = me.queue
    BY <1>2, <1>7, <2>1, <2>2, <2>4 DEF Orderly, SamePlans
  <2>5. CASE /\ fed'[f].pc = me.pc /\ (me.started => ~Tardy(f, m))
             /\ fed'[f].queue = me.queue \cup {Event(m.tag, m.conn)}
    <3>1. me.started => Less(me.current, m.tag)
      BY <1>2, <2>1, <2>5, TagOrdering DEF Tardy
    <3>2. me.started => \A e \in fed'[f].queue : Less(me.current, e.tag)
      BY <2>2, <2>5, <3>1 DEF Orderly
    <3> HIDE DEF m
    <3> QED  BY <1>2, <1>7, <2>1, <2>2, <2>5, <3>2 DEF SamePlans
  <2> QED  BY <1>10, <2>3, <2>4, <2>5, MSGParts
<1>11. CASE HandlePortAbsent(f)
  BY <1>1, <1>11, AbsentHeardParts, AlikeOrderly DEF Quiet, SamePlans
<1>12. CASE handle_downstream_next_event_tag(f)
  BY <1>1, <1>12, DNETParts, AlikeOrderly DEF Quiet, SamePlans
<1>13. CASE StoreDNET(f)
  BY <1>1, <1>13, StoreParts, AlikeOrderly DEF Quiet, SamePlans
<1> QED  BY <1>8, <1>9, <1>10, <1>11, <1>12, <1>13 DEF Listen

LEMMA InitOrderly == Init => AllOrderly
<1> SUFFICES ASSUME Init, NEW f \in Fed PROVE Orderly(f)
  BY DEF AllOrderly
<1>1. fed[f] = InitialFed(program, f)
  BY SMTT(30) DEF Init
<1> QED  BY <1>1 DEF InitialFed, Orderly

\* The steps of the RTI do not change the federates.
LEMMA ServeParts ==
  ASSUME NEW f \in Fed, ServeFederate(f)
  PROVE  UNCHANGED <<network, fed>>
BY DEF ServeFederate, handle_next_event_tag, handle_timed_message, handle_port_absent_message,
       handle_latest_tag_confirmed, remove_up_to_completed, handle_federate_resign,
       handle_federate_failed, connection_closed

LEMMA FederateParts ==
  ASSUME TypeInv, NEW f \in Fed, Work(f) \/ Listen(f) \/ Fail(f)
  PROVE  UNCHANGED <<network, node, in_transit, confirming>> /\ Others(f)
<1>1. UNCHANGED <<network, node, in_transit, confirming>>
  <2>1. CASE Fail(f)
    BY <2>1 DEF Fail
  <2>2. CASE Work(f)
    BY <2>2 DEF Work, Working, Start, Wake, AdvanceTag, Complete, Leave, ExecuteInput, SendMessage, SendAbsent
  <2>3. CASE Listen(f)
    BY <2>3 DEF Listen, Hear, handle_tag_advance_grant, handle_provisional_tag_advance_grant,
           handle_tagged_message, HandlePortAbsent, handle_downstream_next_event_tag, StoreDNET
  <2> QED  BY <2>1, <2>2, <2>3
<1>2. BecomesTyped(f)
  <2>1. CASE Work(f) \/ Fail(f)
    BY <2>1, WorkTypes
  <2>2. CASE Listen(f)
    BY <2>2, ListenTypes
  <2> QED  BY <2>1, <2>2
<1> QED  BY <1>1, <1>2, FedBecomes DEF BecomesTyped, Others

LEMMA NextOrderly == TypeInv /\ AllOrderly /\ [Next]_vars => AllOrderly'
<1> SUFFICES ASSUME TypeInv, AllOrderly, [Next]_vars, NEW g \in Fed PROVE Orderly(g)'
  BY DEF AllOrderly
<1>1. Orderly(g)
  BY DEF AllOrderly
<1>2. CASE UNCHANGED vars
  BY <1>1, <1>2, Unmoved DEF vars, network
<1>3. ASSUME NEW f \in Fed, ServeFederate(f) PROVE Orderly(g)'
  BY <1>1, <1>3, ServeParts, Unmoved
<1>4. ASSUME NEW f \in Fed, Work(f) \/ Listen(f) \/ Fail(f) PROVE Orderly(g)'
  <2>1. CASE g = f
    BY <1>1, <1>4, <2>1, WorkOrderly, ListenOrderly
  <2>2. CASE g # f
    BY <1>1, <1>4, <2>2, FederateParts, Unmoved DEF Others
  <2> QED  BY <2>1, <2>2
<1> QED  BY <1>2, <1>3, <1>4 DEF Next

LEMMA AlwaysOrderly == Spec => []AllOrderly
<1>1. TypeInv /\ AllOrderly /\ [Next]_vars => AllOrderly'
  BY NextOrderly
<1> QED  BY <1>1, InitOrderly, AlwaysTyped, PTL DEF Spec

\* A federate with upstream federates executes no tag that the RTI has not
\* granted to it, finally or provisionally.
OnlyGranted ==
  \A f \in Fed : Upstreams(f) # {} /\ fed[f].pc = "exec" => Leq(fed[f].current, fed[f].last_TAG)

\* net_common.h:391-404: in every program a federate that has upstream federates
\* waits for its grant.
THEOREM OnlyGrantedTagsExecute == Spec => []OnlyGranted
<1>1. AllOrderly => OnlyGranted
  BY DEF AllOrderly, Orderly, OnlyGranted
<1> QED  BY <1>1, AlwaysOrderly, PTL

\* The tags of a federate increase, and it ends with its stop tag.
TagsIncrease ==
  \A f \in Fed : fed[f].started =>
    /\ fed'[f].started
    /\ fed'[f].current = fed[f].current \/ Less(fed[f].current, fed'[f].current)
    /\ Less(STOP_TAG, fed[f].current) => fed'[f].current = fed[f].current

LEMMA StepsIncrease == TypeInv /\ AllOrderly /\ [Next]_vars => TagsIncrease \/ UNCHANGED vars
<1> SUFFICES ASSUME TypeInv, AllOrderly, Next PROVE TagsIncrease
  OBVIOUS
<1> SUFFICES ASSUME NEW g \in Fed, fed[g].started
             PROVE  /\ fed'[g].started
                    /\ fed'[g].current = fed[g].current \/ Less(fed[g].current, fed'[g].current)
                    /\ Less(STOP_TAG, fed[g].current) => fed'[g].current = fed[g].current
  BY DEF TagsIncrease
<1> DEFINE me == fed[g]
           Same == fed'[g].started = me.started /\ fed'[g].current = me.current
<1> SUFFICES ASSUME ~Same
             PROVE  /\ fed'[g].started /\ Less(me.current, fed'[g].current)
                    /\ ~Less(STOP_TAG, me.current)
  OBVIOUS
<1>1. Orderly(g) /\ me \in FedState(g) /\ me.current \in Tag /\ STOP_TAG \in Tag
  BY FedParts, StopTag, SpecialTags DEF AllOrderly, TypeInv
<1>2. PICK f \in Fed : ServeFederate(f) \/ Work(f) \/ Listen(f) \/ Fail(f)
  BY DEF Next
<1>3. ~ServeFederate(f)
  BY ServeParts
<1>4. f = g /\ (Work(g) \/ Listen(g) \/ Fail(g))
  BY <1>2, <1>3, FederateParts DEF Others
<1>5. ~Listen(g)
  BY TAGParts, PTAGParts, MSGParts, AbsentHeardParts, DNETParts, StoreParts, ZenonT(60)
     DEF Listen, Quiet, Resumes, Alike
<1>6. ~Fail(g)
  BY FailParts
<1>7. AdvanceTag(g)
  <2>1. ~Start(g)
    BY StartParts DEF Asked, Alike
  <2>2. ~Wake(g)
    BY WakeParts DEF WakeAgain, WakeUp, WakeAsking, SleepOn, Asked, Alike
  <2>3. ~Complete(g) /\ ~Leave(g)
    BY CompleteParts, LeaveParts DEF Asked, Alike
  <2>4. \A c : ~ExecuteInput(g, c) /\ ~SendMessage(g, c) /\ ~SendAbsent(g, c)
    BY InputParts, SendParts, AbsentParts DEF DealsWith
  <2> QED  BY <1>4, <1>5, <1>6, <2>1, <2>2, <2>3, <2>4 DEF Work
<1>8. me.pc = "advance" /\ Advanced(g)
  BY <1>7, AdvanceParts
<1>9. Less(me.current, STOP_TAG) /\ \A e \in me.queue : Less(me.current, e.tag)
  BY <1>1, <1>8 DEF Orderly
<1>10. NextEvent(me) = STOP_TAG \/ \E e \in me.queue : e.tag = NextEvent(me)
  BY <1>1, NextEventTag
<1>11. ~Less(STOP_TAG, me.current)
  BY <1>1, <1>9, TagOrdering
<1> QED  BY <1>8, <1>9, <1>10, <1>11 DEF Advanced, NextTag

\* _lf_next_locked(): the tags that a federate executes increase, and after the
\* stop tag none is executed, also when messages, grants and the failures of
\* others come in between.
THEOREM TagsOnlyIncrease == Spec => [][TagsIncrease]_vars
<1>1. TypeInv /\ AllOrderly /\ [Next]_vars => [TagsIncrease]_vars
  BY StepsIncrease
<1> QED  BY <1>1, AlwaysTyped, AlwaysOrderly, PTL DEF Spec

-----------------------------------------------------------------------------
(* A tag executes in the order of its levels, if the RTI keeps its grants   *)

\* GrantKept, of one step.
KeepsGrants ==
  \A f \in Fed : \A i \in (Len(down[f]) + 1) .. Len(down'[f]) :
    down'[f][i].type = "MSG" =>
      /\ Less(node[f].last_granted, down'[f][i].tag)
      /\ Leq(node[f].last_provisionally_granted, down'[f][i].tag)
      /\ down'[f][i].tag = node[f].last_provisionally_granted => ZeroDelayCycle(down'[f][i].conn)

\* update_last_known_status_on_input_port() increments no microstep that is the
\* highest one.
StatusFits ==
  \A f \in Fed : down[f] # << >> /\ Head(down[f]).type \in {"MSG", "ABSENT"} =>
    LET tag == lf_tag_max(Head(down[f]).tag, fed[f].current) IN
    tag = fed[f].known[Head(down[f]).conn] => tag[2] < UINT_MAX

\* The grants that f has, or that are on their way to it, are those of the RTI.
Within(f) ==
  /\ Leq(fed[f].last_TAG, IF fed[f].provisional THEN node[f].last_provisionally_granted
                          ELSE node[f].last_granted)
  /\ \A i \in 1 .. Len(down[f]) :
       /\ down[f][i].type = "TAG" => Leq(down[f][i].tag, node[f].last_granted)
       /\ down[f][i].type = "PTAG" => Leq(down[f][i].tag, node[f].last_provisionally_granted)

\* A message does not contradict a grant that f has when it gets the message.
Follows(m, PTAG) == Leq(PTAG, m.tag) /\ (PTAG = m.tag => ZeroDelayCycle(m.conn))
Respected(f) ==
  \A i \in 1 .. Len(down[f]) : down[f][i].type = "MSG" =>
    /\ IF fed[f].provisional THEN Follows(down[f][i], fed[f].last_TAG)
       ELSE Less(fed[f].last_TAG, down[f][i].tag)
    /\ \A j \in 1 .. i - 1 :
         /\ down[f][j].type = "TAG" => Less(down[f][j].tag, down[f][i].tag)
         /\ down[f][j].type = "PTAG" => Follows(down[f][i], down[f][j].tag)

\* f has passed the level of an input only if it knows its status, or waits for
\* none.
InLevels(f) ==
  fed[f].pc = "exec" =>
    /\ \A c \in fed[f].todo : LevelOf(f, c) >= fed[f].level
    /\ \A c \in ConnTo(f) : c.in < fed[f].level => c \notin Blocking(f, fed[f]) \/ Granted(fed[f])

LevelInv == \A f \in Fed : InLevels(f) /\ (Upstreams(f) # {} => Within(f) /\ Respected(f))

\* What the RTI sends to e: a message comes first, and then grants that it
\* records.
Posted(e) ==
  /\ Leq(node[e].last_granted, node'[e].last_granted)
  /\ Leq(node[e].last_provisionally_granted, node'[e].last_provisionally_granted)
  /\ Len(down[e]) \in Nat /\ Len(down'[e]) \in Nat /\ Len(down[e]) <= Len(down'[e])
  /\ \A i \in 1 .. Len(down[e]) : down'[e][i] = down[e][i]
  /\ \A i \in Len(down[e]) + 1 .. Len(down'[e]) :
       /\ down'[e][i].type = "TAG" => Leq(down'[e][i].tag, node'[e].last_granted)
       /\ down'[e][i].type = "PTAG" => Leq(down'[e][i].tag, node'[e].last_provisionally_granted)
       /\ down'[e][i].type = "MSG" => i = Len(down[e]) + 1

LEMMA EvolvesPosts ==
  ASSUME TypeInv, NEW e \in Fed, Upstreams(e) # {}, NEW B, Evolves(B, [node |-> node', down |-> down']),
         B.node[e].last_granted = node[e].last_granted,
         B.node[e].last_provisionally_granted = node[e].last_provisionally_granted,
         B.down[e] = down[e] \/ \E m : m.type \in {"MSG", "ABSENT"} /\ B.down[e] = Append(down[e], m)
  PROVE  Posted(e)
<1>1. /\ Leq(node[e].last_granted, node'[e].last_granted)
      /\ Leq(node[e].last_provisionally_granted, node'[e].last_provisionally_granted)
  BY EvolvedTypes DEF Raised, Provisionally
<1>2. PICK ms \in Seq(DownMessage(e)) :
        down'[e] = B.down[e] \o ms /\ \A i \in 1 .. Len(ms) : Sent(e, node'[e], ms[i])
  BY EvolvedTypes
<1>3. B.down[e] \in Seq(DownMessage(e)) /\ down[e] \in Seq(DownMessage(e))
  BY RTIStateParts DEF Evolves, TypeInv
<1> DEFINE b == B.down[e]
<1> HIDE DEF b
<1>4. /\ Len(b) \in Nat /\ Len(down[e]) \in Nat /\ Len(ms) \in Nat /\ Len(down'[e]) = Len(b) + Len(ms)
      /\ \A i \in 1 .. Len(b) : down'[e][i] = b[i]
      /\ \A i \in Len(b) + 1 .. Len(down'[e]) : i - Len(b) \in 1 .. Len(ms) /\ down'[e][i] = ms[i - Len(b)]
  BY <1>2, <1>3, ConcatProperties DEF b
<1>5. /\ Len(b) \in {Len(down[e]), Len(down[e]) + 1} /\ \A i \in 1 .. Len(down[e]) : b[i] = down[e][i]
      /\ \A i \in Len(down[e]) + 1 .. Len(b) : i = Len(down[e]) + 1 /\ b[i].type \in {"MSG", "ABSENT"}
  <2>1. CASE b = down[e]
    <3>1. Len(b) = Len(down[e]) /\ \A i \in 1 .. Len(down[e]) : b[i] = down[e][i]
      BY <2>1
    <3>2. Len(down[e]) + 1 .. Len(b) = {}
      BY <1>4, <3>1
    <3> QED  BY <3>1, <3>2
  <2>2. ASSUME NEW m, m.type \in {"MSG", "ABSENT"}, b = Append(down[e], m)
        PROVE  /\ Len(b) = Len(down[e]) + 1 /\ b[Len(down[e]) + 1] = m
               /\ \A i \in 1 .. Len(down[e]) : b[i] = down[e][i]
    BY <1>3, <2>2
  <2>3. b = down[e] \/ \E m : m.type \in {"MSG", "ABSENT"} /\ b = Append(down[e], m)
    BY DEF b
  <2>4. ASSUME NEW m, m.type \in {"MSG", "ABSENT"}, b = Append(down[e], m)
        PROVE  \A i \in Len(down[e]) + 1 .. Len(b) : i = Len(down[e]) + 1 /\ b[i].type \in {"MSG", "ABSENT"}
    <3>1. \A i \in Len(down[e]) + 1 .. Len(b) : i = Len(down[e]) + 1
      BY <1>4, <2>2, <2>4
    <3> QED  BY <2>2, <2>4, <3>1
  <2>5. CASE \E m : m.type \in {"MSG", "ABSENT"} /\ b = Append(down[e], m)
    BY <2>2, <2>4, <2>5
  <2> QED  BY <2>1, <2>3, <2>5
<1>6. ASSUME NEW i \in Len(down[e]) + 1 .. Len(down'[e])
      PROVE  /\ down'[e][i].type = "TAG" => Leq(down'[e][i].tag, node'[e].last_granted)
             /\ down'[e][i].type = "PTAG" => Leq(down'[e][i].tag, node'[e].last_provisionally_granted)
             /\ down'[e][i].type = "MSG" => i = Len(down[e]) + 1
  <2>1. CASE i <= Len(b)
    BY <1>4, <1>5, <2>1
  <2>2. CASE i > Len(b)
    <3>1. i \in Len(b) + 1 .. Len(down'[e])
      BY <1>4, <2>2
    <3>2. Sent(e, node'[e], down'[e][i])
      BY <1>2, <1>4, <3>1
    <3> QED  BY <3>2 DEF Sent
  <2> QED  BY <1>4, <2>1, <2>2
<1> QED  BY <1>1, <1>4, <1>5, <1>6 DEF Posted

\* Where nothing is sent.
LEMMA NothingPosted ==
  ASSUME TypeInv, NEW e \in Fed, down'[e] = down[e], node'[e].last_granted = node[e].last_granted,
         node'[e].last_provisionally_granted = node[e].last_provisionally_granted
  PROVE  Posted(e)
<1>1. Len(down[e]) \in Nat /\ \A n \in Nat : n + 1 .. n = {}
  BY DEF TypeInv
<1> QED  BY <1>1 DEF Posted, Leq

\* What the handlers of the RTI send.
LEMMA ServePosts ==
  ASSUME TypeInv, NEW f \in Fed, ServeFederate(f), NEW e \in Fed, Upstreams(e) # {}
  PROVE  Posted(e)
<1>0. /\ RTI \in RTIStates /\ RTI.node = node /\ RTI.down = down /\ NetworkOK
      /\ \A g \in Fed : node[g] \in Node
  BY TypedRTI DEF TypeInv
<1>1. ASSUME NEW n \in Node, n.last_granted = node[f].last_granted,
             n.last_provisionally_granted = node[f].last_provisionally_granted,
             Evolves(WithNode(RTI, f, n), [node |-> node', down |-> down'])
      PROVE  Posted(e)
  <2> DEFINE B == WithNode(RTI, f, n)
  <2>1. B.node[f] = n /\ (\A g \in Fed \ {f} : B.node[g] = node[g]) /\ B.down = down
    BY <1>0, <1>1, NodeReplaced
  <2> HIDE DEF B
  <2>2. /\ B.node[e].last_granted = node[e].last_granted
        /\ B.node[e].last_provisionally_granted = node[e].last_provisionally_granted
        /\ B.down[e] = down[e]
    BY <1>1, <2>1
  <2>3. Evolves(B, [node |-> node', down |-> down'])
    BY <1>1 DEF B
  <2> QED  BY <2>2, <2>3, EvolvesPosts
<1>2. CASE handle_next_event_tag(f)
  <2> DEFINE next == NextWithInTransit(in_transit[f], Head(up[f]).tag)
             n == [node[f] EXCEPT !.next_event = next]
  <2>1. next \in EventTag /\ Evolves(WithNextEvent(RTI, f, next), [node |-> node', down |-> down'])
    BY <1>2, NextEventTagEvolves DEF NETEvolves
  <2> HIDE DEF next
  <2>2. /\ n \in Node /\ n.last_granted = node[f].last_granted
        /\ n.last_provisionally_granted = node[f].last_provisionally_granted
    BY <1>0, <2>1 DEF Node
  <2>3. WithNextEvent(RTI, f, next) = WithNode(RTI, f, n)
    BY <1>0 DEF WithNextEvent, WithNode
  <2> QED  BY <1>1, <2>1, <2>2, <2>3
<1>3. CASE handle_timed_message(f)
  <2> DEFINE m == Head(up[f])
             d == m.conn.to
             next == NextWithInTransit(TransitWith(f), m.tag)
  <2>1. /\ m.type = "MSG" /\ d \in Fed /\ m \in DownMessage(d)
        /\ node[d].state = "NOT_CONNECTED" => UNCHANGED <<in_transit, node, down>>
        /\ node[d].state # "NOT_CONNECTED" =>
             /\ ForwardedRTI(f) \in RTIStates /\ next \in EventTag
             /\ ~Less(m.tag, node[d].next_event) => Evolves(ForwardedRTI(f), [node |-> node', down |-> down'])
             /\ Less(m.tag, node[d].next_event) =>
                  Evolves(WithNextEvent(ForwardedRTI(f), d, next), [node |-> node', down |-> down'])
    BY <1>3, TimedMessageEvolves
  <2>2. ForwardedRTI(f) = [node |-> node, down |-> Send(down, d, m)]
    BY DEF ForwardedRTI
  <2> HIDE DEF m, d, next
  <2>3. /\ Send(down, d, m)[d] = Append(down[d], m)
        /\ \A g \in Fed \ {d} : Send(down, d, m)[g] = down[g]
    <3>1. /\ Send(RTI.down, d, m)[d] = Append(RTI.down[d], m)
          /\ \A g \in Fed \ {d} : Send(RTI.down, d, m)[g] = RTI.down[g]
      BY <1>0, <2>1, Forwarded, ZenonT(60)
    <3> QED  BY <1>0, <3>1
  <2>4. ASSUME NEW B, B.down = Send(down, d, m), Evolves(B, [node |-> node', down |-> down']),
               B.node[e].last_granted = node[e].last_granted,
               B.node[e].last_provisionally_granted = node[e].last_provisionally_granted
        PROVE  Posted(e)
    <3>1. B.down[e] = down[e] \/ \E x : x.type \in {"MSG", "ABSENT"} /\ B.down[e] = Append(down[e], x)
      <4>1. CASE e = d
        BY <2>1, <2>3, <2>4, <4>1
      <4>2. CASE e # d
        BY <2>3, <2>4, <4>2
      <4> QED  BY <4>1, <4>2
    <3> QED  BY <2>4, <3>1, EvolvesPosts
  <2>5. CASE node[d].state = "NOT_CONNECTED"
    BY <2>1, <2>5, NothingPosted
  <2>6. CASE node[d].state # "NOT_CONNECTED" /\ ~Less(m.tag, node[d].next_event)
    BY <2>1, <2>2, <2>4, <2>6
  <2>7. CASE node[d].state # "NOT_CONNECTED" /\ Less(m.tag, node[d].next_event)
    <3> DEFINE B == WithNextEvent(ForwardedRTI(f), d, next)
    <3>1. B.node = [node EXCEPT ![d].next_event = next] /\ B.down = Send(down, d, m)
      BY <2>2 DEF WithNextEvent
    <3>2. /\ B.node[e].last_granted = node[e].last_granted
          /\ B.node[e].last_provisionally_granted = node[e].last_provisionally_granted
      <4>1. B.node[d] = [node[d] EXCEPT !.next_event = next] /\ \A g \in Fed \ {d} : B.node[g] = node[g]
        BY <2>1, <3>1 DEF TypeInv
      <4> HIDE DEF B
      <4>2. CASE e = d
        BY <1>0, <4>1, <4>2 DEF Node
      <4>3. CASE e # d
        BY <4>1, <4>3
      <4> QED  BY <4>2, <4>3
    <3>3. Evolves(B, [node |-> node', down |-> down'])
      BY <2>1, <2>7
    <3> HIDE DEF B
    <3> QED  BY <2>4, <3>1, <3>2, <3>3
  <2> QED  BY <2>5, <2>6, <2>7
<1>4. CASE handle_port_absent_message(f)
  <2> DEFINE m == Head(up[f])
             d == m.conn.to
             B == [node |-> node', down |-> down']
  <2>1. /\ Receive(f, "ABSENT") /\ node' = node
        /\ down' = IF node[d].state = "NOT_CONNECTED" THEN down ELSE Send(down, d, m)
    BY <1>4 DEF handle_port_absent_message
  <2>2. m \in UpMessage(f) /\ m.type = "ABSENT"
    BY <2>1, Received
  <2> HIDE DEF m
  <2>3. d \in Fed /\ m \in DownMessage(d)
    BY <1>0, <2>2, UpMessageKinds
  <2> HIDE DEF d
  <2>4. /\ [node |-> RTI.node, down |-> Send(RTI.down, d, m)] \in RTIStates
        /\ Send(RTI.down, d, m)[d] = Append(RTI.down[d], m)
        /\ \A g \in Fed \ {d} : Send(RTI.down, d, m)[g] = RTI.down[g]
    BY <1>0, <2>3, Forwarded, ZenonT(60)
  <2>5. CASE node[d].state = "NOT_CONNECTED"
    BY <2>1, <2>5, NothingPosted
  <2>6. CASE node[d].state # "NOT_CONNECTED"
    <3>1. down' = Send(down, d, m)
      BY <2>1, <2>6
    <3>2. Evolves(B, B)
      BY <1>0, <2>1, <2>4, <3>1, EvolvesRefl
    <3>3. B.down[e] = down[e] \/ \E x : x.type \in {"MSG", "ABSENT"} /\ B.down[e] = Append(down[e], x)
      <4>1. CASE e = d
        BY <1>0, <2>2, <2>4, <3>1, <4>1
      <4>2. CASE e # d
        BY <1>0, <2>4, <3>1, <4>2
      <4> QED  BY <4>1, <4>2
    <3> QED  BY <2>1, <3>2, <3>3, EvolvesPosts
  <2> QED  BY <2>5, <2>6
<1>5. CASE handle_latest_tag_confirmed(f)
  <2> DEFINE n == [node[f] EXCEPT !.completed = Head(up[f]).tag]
  <2>1. Evolves(WithNode(RTI, f, n), [node |-> node', down |-> down'])
    BY <1>5, LTCEvolves DEF LTCReceived
  <2>2. Head(up[f]).tag \in Tag
    <3>1. Receive(f, "LTC")
      BY <1>5 DEF handle_latest_tag_confirmed
    <3> QED  BY <1>0, <3>1, Received, UpMessageKinds, SpecialTags
  <2>3. /\ n \in Node /\ n.last_granted = node[f].last_granted
        /\ n.last_provisionally_granted = node[f].last_provisionally_granted
    BY <1>0, <2>2 DEF Node
  <2> QED  BY <1>1, <2>1, <2>3
<1>6. CASE remove_up_to_completed(f)
  BY <1>6, NothingPosted DEF remove_up_to_completed
<1>7. CASE handle_federate_resign(f) \/ handle_federate_failed(f)
  <2> DEFINE n == [node[f] EXCEPT !.state = "NOT_CONNECTED", !.next_event = FOREVER_TAG]
  <2>1. Evolves(WithNode(RTI, f, n), [node |-> node', down |-> down'])
    BY <1>7, DisconnectedEvolves DEF LeftRTI, handle_federate_resign, handle_federate_failed
  <2>2. /\ n \in Node /\ n.last_granted = node[f].last_granted
        /\ n.last_provisionally_granted = node[f].last_provisionally_granted
    BY <1>0, SpecialTags DEF Node
  <2> QED  BY <1>1, <2>1, <2>2
<1>8. CASE connection_closed(f)
  <2>1. down' = down /\ node' = [node EXCEPT ![f].state = "NOT_CONNECTED"]
    BY <1>8 DEF connection_closed
  <2>2. node'[f] = [node[f] EXCEPT !.state = "NOT_CONNECTED"] /\ \A g \in Fed \ {f} : node'[g] = node[g]
    BY <2>1 DEF TypeInv
  <2>3. /\ node'[e].last_granted = node[e].last_granted
        /\ node'[e].last_provisionally_granted = node[e].last_provisionally_granted
    BY <1>0, <2>2 DEF Node
  <2> QED  BY <2>1, <2>3, NothingPosted
<1> QED  BY <1>2, <1>3, <1>4, <1>5, <1>6, <1>7, <1>8 DEF ServeFederate

LEMMA PostedRespects ==
  ASSUME TypeInv, TypeInv', KeepsGrants, UNCHANGED network, UNCHANGED fed,
         NEW e \in Fed, Posted(e), Within(e), Respected(e)
  PROVE  Within(e)' /\ Respected(e)'
<1> DEFINE me == fed[e]
           n == node[e]
           k == Len(down[e])
<1>1. /\ me.last_TAG \in Tag /\ n.last_granted \in Tag /\ n.last_provisionally_granted \in Tag
      /\ node'[e].last_granted \in Tag /\ node'[e].last_provisionally_granted \in Tag /\ fed'[e] = me
      /\ \A i \in 1 .. Len(down'[e]) : down'[e][i].tag \in Tag
  <2>1. me \in FedState(e) /\ n \in Node /\ node'[e] \in Node /\ down'[e] \in Seq(DownMessage(e))
    BY SameProgram DEF TypeInv
  <2>2. \A m \in DownMessage(e) : m.tag \in Tag
    BY SpecialTags DEF DownMessage
  <2> QED  BY <2>1, <2>2, FedParts, NodeParts
<1>2. /\ Leq(n.last_granted, node'[e].last_granted)
      /\ Leq(n.last_provisionally_granted, node'[e].last_provisionally_granted)
      /\ k \in Nat /\ Len(down'[e]) \in Nat /\ k <= Len(down'[e])
      /\ \A i \in 1 .. k : down'[e][i] = down[e][i]
      /\ \A i \in k + 1 .. Len(down'[e]) :
           /\ down'[e][i].type = "TAG" => Leq(down'[e][i].tag, node'[e].last_granted)
           /\ down'[e][i].type = "PTAG" => Leq(down'[e][i].tag, node'[e].last_provisionally_granted)
           /\ down'[e][i].type = "MSG" => i = k + 1
  BY DEF Posted
<1>3. /\ Leq(me.last_TAG, IF me.provisional THEN n.last_provisionally_granted ELSE n.last_granted)
      /\ \A i \in 1 .. k :
           /\ down[e][i].type = "TAG" => Leq(down[e][i].tag, n.last_granted)
           /\ down[e][i].type = "PTAG" => Leq(down[e][i].tag, n.last_provisionally_granted)
  BY DEF Within
<1> HIDE DEF me, n, k
<1>4. \A a, b, c \in Tag : /\ Leq(a, b) /\ Leq(b, c) => Leq(a, c)
                           /\ Leq(a, b) /\ Less(b, c) => Less(a, c)
                           /\ Less(a, b) => Leq(a, b) /\ a # b
                           /\ Leq(a, b) /\ Leq(b, a) => a = b
  BY TagOrdering
<1>5. Within(e)'
  <2>1. Leq(me.last_TAG, IF me.provisional THEN node'[e].last_provisionally_granted ELSE node'[e].last_granted)
    BY <1>1, <1>2, <1>3, <1>4
  <2>2. ASSUME NEW i \in 1 .. Len(down'[e])
        PROVE  /\ down'[e][i].type = "TAG" => Leq(down'[e][i].tag, node'[e].last_granted)
               /\ down'[e][i].type = "PTAG" => Leq(down'[e][i].tag, node'[e].last_provisionally_granted)
    <3>1. CASE i <= k
      <4>1. i \in 1 .. k /\ down'[e][i] = down[e][i] /\ down'[e][i].tag \in Tag
        BY <1>1, <1>2, <3>1
      <4> QED  BY <1>1, <1>2, <1>3, <1>4, <4>1
    <3>2. CASE i > k
      <4>1. i \in k + 1 .. Len(down'[e])
        BY <1>2, <3>2
      <4> QED  BY <1>2, <4>1
    <3> QED  BY <1>2, <3>1, <3>2
  <2> QED  BY <1>1, <2>1, <2>2 DEF Within
<1>6. ASSUME NEW i \in 1 .. k + 1, i <= Len(down'[e]), down'[e][i].type = "MSG", NEW t \in Tag
      PROVE  /\ (IF i = k + 1 THEN Leq(t, n.last_granted) ELSE Less(t, down[e][i].tag)) =>
                  Less(t, down'[e][i].tag)
             /\ (IF i = k + 1 THEN Leq(t, n.last_provisionally_granted) ELSE Follows(down[e][i], t)) =>
                  Follows(down'[e][i], t)
  <2>1. i \in 1 .. Len(down'[e]) /\ down'[e][i].tag \in Tag
    BY <1>1, <1>2, <1>6
  <2>2. CASE i # k + 1
    <3>1. down'[e][i] = down[e][i]
      BY <1>2, <1>6, <2>2
    <3> QED  BY <2>2, <3>1
  <2>3. CASE i = k + 1
    <3>1. /\ Less(n.last_granted, down'[e][i].tag) /\ Leq(n.last_provisionally_granted, down'[e][i].tag)
          /\ down'[e][i].tag = n.last_provisionally_granted => ZeroDelayCycle(down'[e][i].conn)
      BY <1>2, <1>6, <2>1, <2>3 DEF KeepsGrants, n, k
    <3>2. Leq(t, n.last_granted) => Less(t, down'[e][i].tag)
      BY <1>1, <1>4, <2>1, <3>1
    <3>3. Leq(t, n.last_provisionally_granted) =>
            Leq(t, down'[e][i].tag) /\ (t = down'[e][i].tag => t = n.last_provisionally_granted)
      BY <1>1, <1>4, <2>1, <3>1
    <3> QED  BY <2>3, <3>1, <3>2, <3>3 DEF Follows
  <2> QED  BY <2>2, <2>3
<1>7. ASSUME NEW i \in 1 .. Len(down'[e]), down'[e][i].type = "MSG"
      PROVE  /\ IF me.provisional THEN Follows(down'[e][i], me.last_TAG) ELSE Less(me.last_TAG, down'[e][i].tag)
             /\ \A j \in 1 .. i - 1 :
                  /\ down'[e][j].type = "TAG" => Less(down'[e][j].tag, down'[e][i].tag)
                  /\ down'[e][j].type = "PTAG" => Follows(down'[e][i], down'[e][j].tag)
  <2>1. i \in 1 .. k + 1
    <3>1. i > k => i \in k + 1 .. Len(down'[e])
      BY <1>2
    <3> QED  BY <1>2, <1>7, <3>1
  <2>2. i # k + 1 => down'[e][i] = down[e][i] /\ i \in 1 .. k /\ down[e][i].type = "MSG"
    BY <1>2, <1>7, <2>1
  <2>3. IF me.provisional THEN Follows(down'[e][i], me.last_TAG) ELSE Less(me.last_TAG, down'[e][i].tag)
    <3>1. i # k + 1 =>
            IF me.provisional THEN Follows(down[e][i], me.last_TAG) ELSE Less(me.last_TAG, down[e][i].tag)
      BY <2>2 DEF Respected, me, k
    <3> QED  BY <1>1, <1>3, <1>6, <1>7, <2>1, <3>1
  <2>4. ASSUME NEW j \in 1 .. i - 1
        PROVE  /\ down'[e][j].type = "TAG" => Less(down'[e][j].tag, down'[e][i].tag)
               /\ down'[e][j].type = "PTAG" => Follows(down'[e][i], down'[e][j].tag)
    <3>1. j \in 1 .. k /\ j \in 1 .. Len(down'[e]) /\ down'[e][j] = down[e][j] /\ down'[e][j].tag \in Tag
      BY <1>1, <1>2, <2>1, <2>4
    <3>2. i # k + 1 => /\ down'[e][j].type = "TAG" => Less(down'[e][j].tag, down[e][i].tag)
                       /\ down'[e][j].type = "PTAG" => Follows(down[e][i], down'[e][j].tag)
      BY <2>2, <2>4, <3>1 DEF Respected, k
    <3>3. /\ down'[e][j].type = "TAG" => Leq(down'[e][j].tag, n.last_granted)
          /\ down'[e][j].type = "PTAG" => Leq(down'[e][j].tag, n.last_provisionally_granted)
      BY <1>3, <3>1
    <3> QED  BY <1>6, <1>7, <2>1, <3>1, <3>2, <3>3
  <2> QED  BY <2>3, <2>4
<1>8. Respected(e)'
  <2>1. min_delays' = min_delays
    BY SameProgram
  <2>2. \A m, t : Follows(m, t)' <=> Follows(m, t)
    BY <2>1 DEF Follows, ZeroDelayCycle
  <2> QED  BY <1>1, <1>7, <2>2 DEF Respected, me
<1> QED  BY <1>5, <1>8

\* What f does with its grants: it keeps the one that it has, or takes the one
\* that it hears.
SameGrant(f) == fed'[f].last_TAG = fed[f].last_TAG /\ fed'[f].provisional = fed[f].provisional
TakesGrant(f, type) ==
  /\ fed'[f].last_TAG = Head(down[f]).tag /\ fed'[f].provisional = (type = "PTAG")
  /\ type \in {"TAG", "PTAG"}

LEMMA WorkRespects ==
  ASSUME UNCHANGED network, UNCHANGED node, NEW f, down'[f] = down[f], SameGrant(f), Within(f), Respected(f)
  PROVE  Within(f)' /\ Respected(f)'
<1>1. \A m, t : Follows(m, t)' <=> Follows(m, t)
  BY SameProgram DEF Follows, ZeroDelayCycle
<1> QED  BY <1>1 DEF SameGrant, Within, Respected

LEMMA HeardRespects ==
  ASSUME TypeInv, UNCHANGED network, UNCHANGED node, NEW f \in Fed, NEW type, Hear(f, type),
         SameGrant(f) \/ TakesGrant(f, type), Within(f), Respected(f)
  PROVE  Within(f)' /\ Respected(f)'
<1> DEFINE k == Len(down'[f])
           h == Head(down[f])
<1>1. /\ h = down[f][1] /\ h.type = type /\ k \in Nat /\ Len(down[f]) = k + 1
      /\ \A i \in 1 .. k : down'[f][i] = down[f][i + 1]
  <2>1. down'[f] \in Seq(DownMessage(f)) /\ down[f] \in Seq(DownMessage(f))
    BY Heeded DEF TypeInv
  <2> QED  BY <2>1, Heeded
<1> HIDE DEF k, h
<1>2. \A i \in 1 .. k : i + 1 \in 1 .. Len(down[f]) /\ \A j \in 1 .. i - 1 : j + 1 \in 1 .. (i + 1) - 1
  BY <1>1
<1>3. 1 \in 1 .. Len(down[f]) /\ \A i \in 1 .. k : 1 \in 1 .. (i + 1) - 1
  BY <1>1
<1>4. Within(f)'
  <2>1. Leq(fed'[f].last_TAG, IF fed'[f].provisional THEN node[f].last_provisionally_granted
                              ELSE node[f].last_granted)
    <3>1. CASE SameGrant(f)
      BY <3>1 DEF SameGrant, Within
    <3>2. CASE TakesGrant(f, type)
      BY <1>1, <1>3, <3>2 DEF TakesGrant, Within, h
    <3> QED  BY <3>1, <3>2
  <2>2. ASSUME NEW i \in 1 .. k
        PROVE  /\ down'[f][i].type = "TAG" => Leq(down'[f][i].tag, node[f].last_granted)
               /\ down'[f][i].type = "PTAG" => Leq(down'[f][i].tag, node[f].last_provisionally_granted)
    BY <1>1, <1>2 DEF Within
  <2> QED  BY <2>1, <2>2 DEF Within, k
<1>5. ASSUME NEW i \in 1 .. k, down'[f][i].type = "MSG"
      PROVE  /\ IF fed'[f].provisional THEN Follows(down'[f][i], fed'[f].last_TAG)
                ELSE Less(fed'[f].last_TAG, down'[f][i].tag)
             /\ \A j \in 1 .. i - 1 :
                  /\ down'[f][j].type = "TAG" => Less(down'[f][j].tag, down'[f][i].tag)
                  /\ down'[f][j].type = "PTAG" => Follows(down'[f][i], down'[f][j].tag)
  <2> DEFINE m == down[f][i + 1]
  <2>1. /\ down'[f][i] = m /\ m.type = "MSG" /\ i + 1 \in 1 .. Len(down[f]) /\ 1 \in 1 .. (i + 1) - 1
        /\ \A j \in 1 .. i - 1 : j + 1 \in 1 .. (i + 1) - 1 /\ down'[f][j] = down[f][j + 1]
    <3>1. \A j \in 1 .. i - 1 : j \in 1 .. k
      BY <1>1, <1>5
    <3>2. down'[f][i] = m /\ i + 1 \in 1 .. Len(down[f]) /\ 1 \in 1 .. (i + 1) - 1
      BY <1>1, <1>2, <1>3, <1>5
    <3>3. \A j \in 1 .. i - 1 : j + 1 \in 1 .. (i + 1) - 1 /\ down'[f][j] = down[f][j + 1]
      BY <1>1, <1>2, <1>5, <3>1
    <3> HIDE DEF m
    <3> QED  BY <1>5, <3>2, <3>3
  <2>2. /\ IF fed[f].provisional THEN Follows(m, fed[f].last_TAG) ELSE Less(fed[f].last_TAG, m.tag)
        /\ \A j \in 1 .. (i + 1) - 1 :
             /\ down[f][j].type = "TAG" => Less(down[f][j].tag, m.tag)
             /\ down[f][j].type = "PTAG" => Follows(m, down[f][j].tag)
    BY <2>1 DEF Respected
  <2> HIDE DEF m
  <2>3. CASE SameGrant(f)
    BY <2>1, <2>2, <2>3 DEF SameGrant
  <2>4. CASE TakesGrant(f, type)
    BY <1>1, <2>1, <2>2, <2>4 DEF TakesGrant, h
  <2> QED  BY <2>3, <2>4
<1>6. Respected(f)'
  <2>1. \A m, t : Follows(m, t)' <=> Follows(m, t)
    BY SameProgram DEF Follows, ZeroDelayCycle
  <2> QED  BY <1>5, <2>1 DEF Respected, k
<1> QED  BY <1>4, <1>6

\* The status of an input is never taken back.
Grows(f) == \A c \in ConnTo(f) : Leq(fed[f].known[c], fed'[f].known[c])

LEMMA KnownGrows ==
  ASSUME NEW f, NEW me \in FedState(f), NEW c \in ConnTo(f), NEW t \in Tag,
         LET u == lf_tag_max(t, me.current) IN u = me.known[c] => u[2] < UINT_MAX
  PROVE  \A d \in ConnTo(f) : Leq(me.known[d], Known(me, c, t).known[d])
<1> DEFINE u == lf_tag_max(t, me.current)
           v == <<u[1], Increment(u[2])>>
<1>1. u \in Tag /\ me.known \in [ConnTo(f) -> Tag] /\ v \in Tag
  <2>1. u \in Tag /\ me.known \in [ConnTo(f) -> Tag]
    BY FedParts, MinMaxTags
  <2> QED  BY <2>1, IncrementedTag
<1>2. ASSUME u = me.known[c] PROVE Less(u, v)
  BY <1>1, <1>2, TagOrdering DEF Increment
<1>3. \/ u = me.known[c] /\ Known(me, c, t) = [me EXCEPT !.known[c] = v, !.signalled = TRUE]
      \/ Less(me.known[c], u) /\ Known(me, c, t) = [me EXCEPT !.known[c] = u, !.signalled = TRUE]
      \/ Known(me, c, t) = me
  BY DEF Known
<1> HIDE DEF u, v
<1>4. \A w : /\ [me EXCEPT !.known[c] = w, !.signalled = TRUE].known[c] = w
             /\ \A d \in ConnTo(f) \ {c} : [me EXCEPT !.known[c] = w, !.signalled = TRUE].known[d] = me.known[d]
  BY <1>1 DEF FedState
<1> QED  BY <1>1, <1>2, <1>3, <1>4 DEF Leq

\* f becomes what it is said to become.
LEMMA BecomesIt ==
  ASSUME TypeInv, NEW f \in Fed, NEW a, NEW ms, Becomes(f, a, ms)
  PROVE  fed'[f] = a
BY DEF TypeInv, Becomes

LEMMA TAGGrows ==
  ASSUME TypeInv, NEW f \in Fed, handle_tag_advance_grant(f)
  PROVE  Grows(f) /\ Hear(f, "TAG") /\ (SameGrant(f) \/ TakesGrant(f, "TAG"))
<1> DEFINE me == fed[f]
           tag == Head(down[f]).tag
           known == [c \in DOMAIN me.known |-> lf_tag_max(me.known[c], tag)]
           w == [me EXCEPT !.known = known]
           a == [w EXCEPT !.last_TAG = tag, !.provisional = FALSE, !.signalled = TRUE]
<1>1. me \in FedState(f) /\ me.known \in [ConnTo(f) -> Tag]
  BY FedParts DEF TypeInv
<1>2. tag \in Tag /\ Hear(f, "TAG")
  BY TAGParts
<1>3. fed'[f] \in {w, a}
  BY BecomesIt DEF handle_tag_advance_grant
<1> HIDE DEF tag
<1>4. \A c \in ConnTo(f) : Leq(me.known[c], known[c])
  BY <1>1, <1>2, MinMaxTags
<1> HIDE DEF known
<1>5. w.known = known /\ a.known = known
  BY <1>1 DEF FedState
<1>6. SameGrant(f) \/ TakesGrant(f, "TAG")
  BY TAGParts DEF SameGrant, TakesGrant, Quiet, Alike
<1> HIDE DEF w, a
<1> QED  BY <1>2, <1>3, <1>4, <1>5, <1>6 DEF Grows

\* A provisional grant is not taken when the tag is granted already.
LEMMA PTAGGrows ==
  ASSUME TypeInv, NEW f \in Fed, handle_provisional_tag_advance_grant(f)
  PROVE  LET tag == Head(down[f]).tag IN
         /\ fed'[f].known = fed[f].known /\ Hear(f, "PTAG")
         /\ \/ fed'[f].pc = "fatal" /\ SameGrant(f)
            \/ /\ TakesGrant(f, "PTAG") /\ ~Less(tag, fed[f].last_TAG)
               /\ ~(tag = fed[f].last_TAG /\ ~fed[f].provisional)
<1> DEFINE me == fed[f]
           tag == Head(down[f]).tag
           w == [me EXCEPT !.last_TAG = tag, !.provisional = TRUE, !.signalled = TRUE]
           q == [w EXCEPT !.queue = @ \cup {Event(tag, NULL)}]
           x == [me EXCEPT !.pc = "fatal"]
           late == Less(tag, me.last_TAG) \/ (tag = me.last_TAG /\ ~me.provisional)
<1>1. me \in FedState(f)
  BY DEF TypeInv
<1>2. tag \in EventTag /\ tag \in Tag /\ Hear(f, "PTAG")
  BY PTAGParts, SpecialTags
<1>3. \/ fed'[f] = x
      \/ ~late /\ fed'[f] \in {Confirmed(w, tag), w, q}
  BY BecomesIt DEF handle_provisional_tag_advance_grant
<1> HIDE DEF tag
<1>4. x.pc = "fatal" /\ x.known = me.known /\ x.last_TAG = me.last_TAG /\ x.provisional = me.provisional
  BY <1>1 DEF FedState
<1>5. w \in FedState(f) /\ w.known = me.known /\ w.last_TAG = tag /\ w.provisional = TRUE
  BY <1>1, <1>2 DEF FedState
<1> HIDE DEF w, x
<1>6. /\ q.known = w.known /\ q.last_TAG = w.last_TAG /\ q.provisional = w.provisional
      /\ Confirmed(w, tag).known = w.known /\ Confirmed(w, tag).last_TAG = w.last_TAG
      /\ Confirmed(w, tag).provisional = w.provisional
  BY <1>5 DEF Confirmed, FedState
<1> HIDE DEF q
<1>7. CASE fed'[f] = x
  BY <1>2, <1>4, <1>7 DEF SameGrant
<1>8. CASE ~late /\ fed'[f] \in {Confirmed(w, tag), w, q}
  <2>1. fed'[f].known = me.known /\ fed'[f].last_TAG = tag /\ fed'[f].provisional = TRUE
    BY <1>5, <1>6, <1>8
  <2> QED  BY <1>2, <1>8, <2>1 DEF TakesGrant, tag
<1> QED  BY <1>3, <1>7, <1>8

LEMMA MSGGrows ==
  ASSUME TypeInv, StatusFits, NEW f \in Fed, handle_tagged_message(f) \/ HandlePortAbsent(f)
  PROVE  Grows(f) /\ SameGrant(f) /\ Hear(f, Head(down[f]).type)
<1> DEFINE me == fed[f]
           m == Head(down[f])
           w == Known(me, m.conn, m.tag)
<1>1. me \in FedState(f)
  BY DEF TypeInv
<1>2. /\ m.type \in {"MSG", "ABSENT"} /\ m.tag \in Tag /\ m.conn \in ConnTo(f) /\ down[f] # << >>
      /\ Hear(f, m.type)
  <2>1. Hear(f, "MSG") \/ Hear(f, "ABSENT")
    BY DEF handle_tagged_message, HandlePortAbsent
  <2>2. Hear(f, m.type) /\ m.type \in {"MSG", "ABSENT"}
    BY <2>1 DEF Hear
  <2> QED  BY <2>2, Heeded
<1>3. LET u == lf_tag_max(m.tag, me.current) IN u = me.known[m.conn] => u[2] < UINT_MAX
  BY <1>2 DEF StatusFits
<1>4. \/ fed'[f] = w
      \/ fed'[f] = [w EXCEPT !.todo = @ \cup {m.conn}]
      \/ fed'[f] = [w EXCEPT !.pc = "fatal"]
      \/ fed'[f] = [w EXCEPT !.queue = @ \cup {Event(m.tag, m.conn)}, !.signalled = TRUE]
  BY BecomesIt DEF handle_tagged_message, HandlePortAbsent
<1> HIDE DEF m
<1>5. w \in FedState(f) /\ Alike(w, me) /\ \A d \in ConnTo(f) : Leq(me.known[d], w.known[d])
  BY <1>1, <1>2, <1>3, KnownParts, KnownGrows
<1> HIDE DEF w
<1>6. fed'[f].known = w.known /\ fed'[f].last_TAG = w.last_TAG /\ fed'[f].provisional = w.provisional
  BY <1>4, <1>5 DEF FedState
<1> QED  BY <1>2, <1>5, <1>6 DEF Grows, SameGrant, Alike, m

LEMMA DNETGrows ==
  ASSUME TypeInv, NEW f \in Fed, handle_downstream_next_event_tag(f) \/ StoreDNET(f)
  PROVE  Grows(f) /\ SameGrant(f)
<1> DEFINE me == fed[f]
           m == Head(down[f])
           w == [me EXCEPT !.received_any_DNET = TRUE, !.dnet = m.tag]
<1>1. me \in FedState(f)
  BY DEF TypeInv
<1>2. \/ fed'[f] = w
      \/ fed'[f] = [w EXCEPT !.last_sent_NET = w.last_skipped_NET, !.last_skipped_NET = NEVER_TAG]
      \/ fed'[f] = [me EXCEPT !.last_DNET = me.dnet, !.dnet = NULL]
  BY BecomesIt DEF handle_downstream_next_event_tag, StoreDNET
<1> HIDE DEF m
<1>3. fed'[f].known = me.known /\ fed'[f].last_TAG = me.last_TAG /\ fed'[f].provisional = me.provisional
  BY <1>1, <1>2 DEF FedState
<1> QED  BY <1>3 DEF Grows, SameGrant, Leq

\* What f does while it executes a tag.
LEMMA ExecGrows ==
  ASSUME TypeInv, NEW f \in Fed,
         Fail(f) \/ \E c : ExecuteInput(f, c) \/ SendMessage(f, c) \/ SendAbsent(f, c)
  PROVE  Grows(f) /\ SameGrant(f) /\ fed'[f].pc = fed[f].pc /\ fed'[f].current = fed[f].current
<1> DEFINE me == fed[f]
<1>1. me \in FedState(f)
  BY DEF TypeInv
<1>2. CASE Fail(f)
  <2>1. fed'[f] = [me EXCEPT !.failed = TRUE]
    BY <1>2, BecomesIt DEF Fail
  <2> QED  BY <1>1, <2>1 DEF FedState, Grows, SameGrant, Leq
<1>3. ASSUME NEW c, ExecuteInput(f, c) \/ SendMessage(f, c) \/ SendAbsent(f, c)
      PROVE  Grows(f) /\ SameGrant(f) /\ fed'[f].pc = me.pc /\ fed'[f].current = me.current
  <2>1. \/ fed'[f] = [me EXCEPT !.todo = @ \ {c}, !.received = TRUE, !.active = TRUE, !.level = c.in]
        \/ fed'[f] = [me EXCEPT !.todo = @ \ {c}, !.level = c.out]
        \/ \E t : fed'[f] = [me EXCEPT !.todo = @ \ {c}, !.level = c.out, !.last_DNET = t]
    BY <1>3, BecomesIt DEF ExecuteInput, SendMessage, SendAbsent
  <2>2. /\ fed'[f].known = me.known /\ fed'[f].last_TAG = me.last_TAG
        /\ fed'[f].provisional = me.provisional /\ fed'[f].pc = me.pc /\ fed'[f].current = me.current
    BY <1>1, <2>1 DEF FedState
  <2> QED  BY <2>2 DEF Grows, SameGrant, Leq
<1> QED  BY <1>2, <1>3

LEMMA LevelsPersist ==
  ASSUME TypeInv, TypeInv', UNCHANGED network, NEW f \in Fed, Grows(f),
         fed'[f].current = fed[f].current,
         Granted(fed[f]) => Granted(fed'[f]),
         \A c \in fed'[f].todo : LevelOf(f, c) >= fed'[f].level,
         \A c \in ConnTo(f) : c.in < fed'[f].level => c \notin Blocking(f, fed[f]) \/ Granted(fed[f])
  PROVE  InLevels(f)'
<1>1. /\ fed[f].current \in Tag /\ fed[f].known \in [ConnTo(f) -> Tag]
      /\ fed'[f].known \in [ConnTo(f) -> Tag]
  <2>1. fed[f] \in FedState(f) /\ fed'[f] \in FedState(f)
    BY SameProgram DEF TypeInv
  <2> QED  BY <2>1, FedParts
<1>2. ConnTo(f)' = ConnTo(f) /\ \A c : ZeroDelayCycle(c)' <=> ZeroDelayCycle(c)
  BY SameProgram DEF ZeroDelayCycle
<1>3. \A c \in ConnTo(f) : Less(fed'[f].known[c], fed'[f].current) => Less(fed[f].known[c], fed[f].current)
  BY <1>1, TagOrdering DEF Grows
<1>4. \A c : c \in Blocking(f, fed[f])' => c \in Blocking(f, fed[f])
  BY <1>2, <1>3 DEF Blocking
<1>5. Granted(fed[f])' <=> Granted(fed'[f])
  BY DEF Granted
<1>6. \A c : LevelOf(f, c)' = LevelOf(f, c)
  BY DEF LevelOf
<1> QED  BY <1>2, <1>4, <1>5, <1>6 DEF InLevels

\* Nothing is left of a level when the next one is dealt with.
LEMMA DealsInLevels ==
  ASSUME TypeInv, NEW f \in Fed, NEW c, NEW level,
         \/ c \in ConnTo(f) /\ level = c.in
         \/ c \in ConnFrom(f) /\ level = c.out,
         DealsWith(f, c, level), Allowed(f, fed[f], level)
  PROVE  /\ \A d \in fed'[f].todo : LevelOf(f, d) >= fed'[f].level
         /\ \A d \in ConnTo(f) : d.in < fed'[f].level => d \notin Blocking(f, fed[f]) \/ Granted(fed[f])
<1>1. \A d \in ConnTo(f) \cup ConnFrom(f) :
        d.in \in Nat /\ d.out \in Nat /\ d.from # d.to /\ (d \in ConnTo(f) <=> d.to = f)
  BY ProgramParts DEF TypeInv, ConnTo, ConnFrom, Connection
<1>2. LevelOf(f, c) = level /\ level \in Nat
  <2>1. CASE c \in ConnTo(f) /\ level = c.in
    BY <1>1, <2>1 DEF LevelOf
  <2>2. CASE c \in ConnFrom(f) /\ level = c.out
    BY <1>1, <2>2 DEF LevelOf, ConnFrom
  <2> QED  BY <2>1, <2>2
<1>3. fed[f].todo \subseteq ConnTo(f) \cup ConnFrom(f)
  BY FedParts DEF TypeInv
<1>4. \A d \in fed[f].todo : LevelOf(f, d) \in Nat
  BY <1>1, <1>3 DEF LevelOf
<1>5. fed'[f].todo \subseteq fed[f].todo /\ fed'[f].level = level /\ \A d \in fed[f].todo : level <= LevelOf(f, d)
  BY <1>2 DEF DealsWith, FirstLevel
<1>6. \A d \in ConnTo(f) : d.in < level => d \notin Blocking(f, fed[f]) \/ Granted(fed[f])
  BY <1>1, <1>2 DEF Allowed
<1> QED  BY <1>2, <1>4, <1>5, <1>6

LEMMA WorkLevels ==
  ASSUME TypeInv, TypeInv', NEW f \in Fed, Work(f) \/ Fail(f), InLevels(f)
  PROVE  InLevels(f)' /\ SameGrant(f) /\ down' = down
<1>0. UNCHANGED network
  BY FederateParts
<1>1. down' = down
  BY DEF Work, Fail, Working, Start, Wake, AdvanceTag, Complete, Leave, ExecuteInput, SendMessage, SendAbsent
<1>2. ASSUME fed'[f].pc # "exec" PROVE InLevels(f)'
  BY <1>2 DEF InLevels
<1>3. CASE Start(f)
  <2>1. fed'[f].pc # "exec" /\ SameGrant(f)
    BY <1>3, StartParts DEF Asked, Alike, SameGrant
  <2> QED  BY <1>1, <1>2, <2>1
<1>4. CASE Wake(f)
  <2>1. fed'[f].pc # "exec" /\ SameGrant(f)
    BY <1>4, WakeParts DEF WakeAgain, WakeUp, WakeAsking, SleepOn, Asked, Alike, SameGrant
  <2> QED  BY <1>1, <1>2, <2>1
<1>5. CASE Complete(f)
  <2>1. fed'[f].pc # "exec" /\ SameGrant(f)
    BY <1>5, CompleteParts DEF Asked, Alike, SameGrant
  <2> QED  BY <1>1, <1>2, <2>1
<1>6. CASE Leave(f)
  <2>1. fed'[f].pc # "exec" /\ SameGrant(f)
    BY <1>6, LeaveParts DEF Alike, SameGrant
  <2> QED  BY <1>1, <1>2, <2>1
<1>7. CASE AdvanceTag(f)
  <2>1. SameGrant(f) /\ fed'[f].level = 0
    BY <1>7, AdvanceParts DEF Advanced, SameGrant
  <2>2. fed'[f].todo \subseteq ConnTo(f) \cup ConnFrom(f) /\ ConnTo(f)' = ConnTo(f)
    <3>1. fed'[f] \in FedState(f)
      BY <1>0, SameProgram DEF TypeInv
    <3> QED  BY <1>0, <3>1, SameProgram, FedParts
  <2>3. \A d \in ConnTo(f) \cup ConnFrom(f) : d.in \in Nat /\ d.out \in Nat
    BY ProgramParts DEF TypeInv, ConnTo, ConnFrom, Connection
  <2>4. \A d \in ConnTo(f) \cup ConnFrom(f) : LevelOf(f, d) >= 0 /\ ~(d.in < 0)
    BY <2>3 DEF LevelOf
  <2>5. \A d : LevelOf(f, d)' = LevelOf(f, d)
    BY DEF LevelOf
  <2> QED  BY <1>1, <2>1, <2>2, <2>4, <2>5 DEF InLevels
<1>8. ASSUME NEW c, ExecuteInput(f, c) \/ SendMessage(f, c) \/ SendAbsent(f, c)
      PROVE  InLevels(f)' /\ SameGrant(f) /\ down' = down
  <2>1. Grows(f) /\ SameGrant(f) /\ fed'[f].current = fed[f].current
    BY <1>8, ExecGrows
  <2>2. /\ \A d \in fed'[f].todo : LevelOf(f, d) >= fed'[f].level
        /\ \A d \in ConnTo(f) : d.in < fed'[f].level => d \notin Blocking(f, fed[f]) \/ Granted(fed[f])
    <3>1. CASE ExecuteInput(f, c)
      <4>1. c \in ConnTo(f) /\ DealsWith(f, c, c.in) /\ Allowed(f, fed[f], c.in)
        BY <3>1, InputParts DEF ExecuteInput
      <4> QED  BY <4>1, DealsInLevels
    <3>2. CASE SendMessage(f, c)
      <4>1. c \in ConnFrom(f) /\ DealsWith(f, c, c.out) /\ Allowed(f, fed[f], c.out)
        BY <3>2, SendParts DEF SendMessage
      <4> QED  BY <4>1, DealsInLevels
    <3>3. CASE SendAbsent(f, c)
      <4>1. c \in ConnFrom(f) /\ DealsWith(f, c, c.out) /\ Allowed(f, fed[f], c.out)
        BY <3>3, AbsentParts DEF SendAbsent
      <4> QED  BY <4>1, DealsInLevels
    <3> QED  BY <1>8, <3>1, <3>2, <3>3
  <2>3. Granted(fed[f]) => Granted(fed'[f])
    BY <2>1 DEF Granted, SameGrant
  <2> QED  BY <1>0, <1>1, <2>1, <2>2, <2>3, LevelsPersist
<1>9. CASE Fail(f)
  <2>1. Grows(f) /\ SameGrant(f) /\ fed'[f].current = fed[f].current /\ fed'[f].pc = fed[f].pc
    BY <1>9, ExecGrows
  <2>2. Granted(fed[f]) => Granted(fed'[f])
    BY <2>1 DEF Granted, SameGrant
  <2>3. CASE fed[f].pc = "exec"
    <3>1. fed'[f].todo = fed[f].todo /\ fed'[f].level = fed[f].level
      BY <1>9, FailParts
    <3> QED  BY <1>0, <1>1, <2>1, <2>2, <2>3, <3>1, LevelsPersist DEF InLevels
  <2> QED  BY <1>1, <1>2, <2>1, <2>3
<1> QED  BY <1>3, <1>4, <1>5, <1>6, <1>7, <1>8, <1>9 DEF Work

\* A message for the tag being executed comes before f has passed its level.
LEMMA TimelyMessage ==
  ASSUME TypeInv, NEW f \in Fed, handle_tagged_message(f), ForNow(f, Head(down[f])),
         Orderly(f), Respected(f), InLevels(f), fed[f].pc = "exec"
  PROVE  LevelOf(f, Head(down[f]).conn) >= fed[f].level
<1> DEFINE me == fed[f]
           m == Head(down[f])
<1>1. m.conn \in ConnTo(f) /\ m.tag \in Tag /\ m = down[f][1] /\ 1 \in 1 .. Len(down[f]) /\ m.type = "MSG"
  <2>1. Hear(f, "MSG")
    BY MSGParts
  <2>2. m.conn \in ConnTo(f) /\ m.tag \in Tag /\ m = down[f][1] /\ m.type = "MSG" /\ down[f] # << >>
    BY <2>1, Heeded
  <2>3. Len(down[f]) \in Nat /\ Len(down[f]) # 0
    BY <2>2, EmptySeq DEF TypeInv
  <2> QED  BY <2>2, <2>3
<1>2. Upstreams(f) # {}
  BY <1>1 DEF Upstreams
<1>3. me.current \in Tag /\ me.last_TAG \in Tag /\ me.provisional \in BOOLEAN /\ me.level \in Nat /\ m.conn.in \in Nat
  <2>1. me \in FedState(f)
    BY DEF TypeInv
  <2>2. me.provisional \in BOOLEAN
    BY <2>1 DEF FedState
  <2>3. m.conn.in \in Nat
    BY <1>1, ProgramParts DEF TypeInv, ConnTo, Connection
  <2> QED  BY <2>1, <2>2, <2>3, FedParts
<1>4. Leq(me.current, me.last_TAG) /\ m.tag = me.current /\ Less(me.known[m.conn], me.current)
  BY <1>2 DEF Orderly, ForNow
<1>5. IF me.provisional THEN Follows(m, me.last_TAG) ELSE Less(me.last_TAG, m.tag)
  BY <1>1 DEF Respected
<1>6. me.provisional /\ me.current = me.last_TAG /\ ZeroDelayCycle(m.conn)
  <2>1. ~Less(me.last_TAG, m.tag)
    BY <1>3, <1>4, TagOrdering
  <2>2. Leq(me.last_TAG, m.tag) => me.last_TAG = m.tag
    BY <1>3, <1>4, TagOrdering
  <2> QED  BY <1>4, <1>5, <2>1, <2>2 DEF Follows
<1>7. m.conn \in Blocking(f, me) /\ ~Granted(me)
  <2>1. ~Less(me.current, me.last_TAG)
    BY <1>3, <1>6, TagOrdering
  <2> QED  BY <1>1, <1>4, <1>6, <2>1 DEF Blocking, Granted
<1>8. ~(m.conn.in < me.level)
  BY <1>1, <1>7 DEF InLevels
<1>9. LevelOf(f, m.conn) = m.conn.in
  BY <1>1 DEF LevelOf, ConnTo
<1> QED  BY <1>3, <1>8, <1>9

LEMMA ListenLevels ==
  ASSUME TypeInv, TypeInv', StatusFits, NEW f \in Fed, Listen(f), Orderly(f), InLevels(f),
         Upstreams(f) # {} => Respected(f)
  PROVE  InLevels(f)'
<1>0. UNCHANGED network
  BY FederateParts
<1>1. ASSUME fed[f].pc = "exec" => /\ Grows(f) /\ fed'[f].current = fed[f].current
                                   /\ Granted(fed[f]) => Granted(fed'[f])
                                   /\ fed'[f].level = fed[f].level
                                   /\ \A c \in fed'[f].todo : LevelOf(f, c) >= fed[f].level,
             fed'[f].pc = fed[f].pc \/ fed'[f].pc # "exec"
      PROVE  InLevels(f)'
  <2>1. CASE fed'[f].pc # "exec"
    BY <2>1 DEF InLevels
  <2>2. CASE fed[f].pc = "exec"
    <3>1. \A c \in ConnTo(f) : c.in < fed[f].level => c \notin Blocking(f, fed[f]) \/ Granted(fed[f])
      BY <2>2 DEF InLevels
    <3> QED  BY <1>0, <1>1, <2>2, <3>1, LevelsPersist
  <2> QED  BY <1>1, <2>1, <2>2
<1>2. fed[f].pc = "exec" => \A c \in fed[f].todo : LevelOf(f, c) >= fed[f].level
  BY DEF InLevels
<1>3. fed[f].current \in Tag /\ fed[f].last_TAG \in Tag
  BY FedParts DEF TypeInv
<1>4. CASE handle_tag_advance_grant(f)
  <2> DEFINE tag == Head(down[f]).tag
  <2>1. Grows(f) /\ tag \in Tag
    BY <1>4, TAGGrows, TAGParts
  <2>2. CASE Quiet(f)
    BY <1>1, <1>2, <2>1, <2>2 DEF Quiet, Alike, Granted
  <2>3. CASE /\ ~Less(tag, fed[f].last_TAG) /\ Resumes(f)
             /\ fed'[f].last_TAG = tag /\ fed'[f].provisional = FALSE
    <3>1. Granted(fed[f]) => Granted(fed'[f])
      <4>1. Less(fed[f].current, fed[f].last_TAG) => Less(fed[f].current, tag)
        BY <1>3, <2>1, <2>3, TagOrdering
      <4>2. fed[f].current = fed[f].last_TAG => Less(fed[f].current, tag) \/ fed[f].current = tag
        BY <1>3, <2>1, <2>3, TagOrdering
      <4> HIDE DEF tag
      <4> QED  BY <2>3, <4>1, <4>2 DEF Granted, Resumes
    <3> QED  BY <1>1, <1>2, <2>1, <2>3, <3>1 DEF Resumes
  <2> QED  BY <1>4, <2>2, <2>3, TAGParts
<1>5. CASE handle_provisional_tag_advance_grant(f)
  <2> DEFINE tag == Head(down[f]).tag
  <2>1. CASE fed'[f].pc = "fatal"
    BY <2>1 DEF InLevels
  <2>2. CASE fed'[f].pc # "fatal"
    <3>1. Resumes(f) /\ tag \in Tag
      BY <1>5, <2>2, PTAGParts, SpecialTags
    <3>2. /\ fed'[f].known = fed[f].known /\ fed'[f].last_TAG = tag /\ ~Less(tag, fed[f].last_TAG)
          /\ ~(tag = fed[f].last_TAG /\ ~fed[f].provisional)
      BY <1>5, <2>2, PTAGGrows DEF TakesGrant
    <3>3. Less(fed[f].current, fed[f].last_TAG) => Less(fed[f].current, tag)
      BY <1>3, <3>1, <3>2, TagOrdering
    <3>4. tag = fed[f].last_TAG \/ Less(fed[f].last_TAG, tag)
      BY <1>3, <3>1, <3>2, TagOrdering
    <3>5. Granted(fed[f]) => Granted(fed'[f])
      <4> HIDE DEF tag
      <4> QED  BY <3>1, <3>2, <3>3, <3>4 DEF Granted, Resumes
    <3>6. Grows(f)
      BY <3>2 DEF Grows, Leq
    <3> QED  BY <1>1, <1>2, <3>1, <3>5, <3>6 DEF Resumes
  <2> QED  BY <2>1, <2>2
<1>6. CASE handle_tagged_message(f)
  <2> DEFINE m == Head(down[f])
  <2>1. Grows(f) /\ SameGrant(f)
    BY <1>6, MSGGrows
  <2>2. /\ fed'[f].current = fed[f].current /\ fed'[f].level = fed[f].level /\ m.conn \in ConnTo(f)
        /\ \/ ForNow(f, m) /\ fed'[f].pc = fed[f].pc /\ fed'[f].todo = fed[f].todo \cup {m.conn}
           \/ fed'[f].pc = "fatal"
           \/ fed'[f].pc = fed[f].pc /\ fed'[f].todo = fed[f].todo
    BY <1>6, MSGParts
  <2>3. Granted(fed[f]) => Granted(fed'[f])
    BY <2>1, <2>2 DEF Granted, SameGrant
  <2>4. fed[f].pc = "exec" /\ ForNow(f, m) => LevelOf(f, m.conn) >= fed[f].level
    <3>1. Upstreams(f) # {}
      BY <2>2 DEF Upstreams
    <3> QED  BY <1>6, <3>1, TimelyMessage
  <2> HIDE DEF m
  <2>5. CASE fed'[f].pc = "fatal"
    BY <2>5 DEF InLevels
  <2>6. CASE fed'[f].pc # "fatal"
    BY <1>1, <1>2, <2>1, <2>2, <2>3, <2>4, <2>6
  <2> QED  BY <2>5, <2>6
<1>7. ASSUME Quiet(f), Grows(f) PROVE InLevels(f)'
  BY <1>1, <1>2, <1>7 DEF Quiet, Alike, Granted
<1>8. CASE HandlePortAbsent(f)
  BY <1>7, <1>8, MSGGrows, AbsentHeardParts
<1>9. CASE handle_downstream_next_event_tag(f)
  <2>1. Grows(f) /\ Alike(fed'[f], fed[f]) /\ fed'[f].pc = fed[f].pc
    BY <1>9, DNETGrows, DNETParts DEF Quiet
  <2> QED  BY <1>1, <1>2, <2>1 DEF Alike, Granted
<1>10. CASE StoreDNET(f)
  BY <1>7, <1>10, DNETGrows, StoreParts
<1> QED  BY <1>4, <1>5, <1>6, <1>8, <1>9, <1>10 DEF Listen

LEMMA ListenRespects ==
  ASSUME TypeInv, StatusFits, NEW f \in Fed, Listen(f), Within(f), Respected(f)
  PROVE  Within(f)' /\ Respected(f)'
<1>0. UNCHANGED network /\ UNCHANGED node
  BY FederateParts
<1>1. CASE handle_tag_advance_grant(f)
  BY <1>0, <1>1, TAGGrows, HeardRespects
<1>2. CASE handle_provisional_tag_advance_grant(f)
  BY <1>0, <1>2, PTAGGrows, HeardRespects
<1>3. CASE handle_tagged_message(f) \/ HandlePortAbsent(f)
  BY <1>0, <1>3, MSGGrows, HeardRespects
<1>4. CASE handle_downstream_next_event_tag(f)
  BY <1>0, <1>4, DNETGrows, DNETParts, HeardRespects
<1>5. CASE StoreDNET(f)
  BY <1>0, <1>5, DNETGrows, StoreParts, WorkRespects
<1> QED  BY <1>1, <1>2, <1>3, <1>4, <1>5 DEF Listen

LEMMA InitLevels == Init => LevelInv
<1> SUFFICES ASSUME Init, NEW f \in Fed
             PROVE  InLevels(f) /\ Within(f) /\ Respected(f)
  BY DEF LevelInv
<1>1. fed[f] = InitialFed(program, f) /\ node[f] = InitialNode(program, f) /\ down[f] = << >>
  BY SMTT(30) DEF Init
<1>2. fed[f].pc # "exec" /\ fed[f].last_TAG = NEVER_TAG /\ fed[f].provisional = FALSE
  BY <1>1 DEF InitialFed
<1>3. node[f].last_granted = NEVER_TAG
  BY <1>1 DEF InitialNode
<1>4. 1 .. Len(down[f]) = {}
  BY <1>1
<1> QED  BY <1>2, <1>3, <1>4 DEF InLevels, Within, Respected, Leq

LEMMA UnmovedLevels ==
  ASSUME UNCHANGED network, NEW f, InLevels(f), fed'[f] = fed[f]
  PROVE  InLevels(f)'
BY SameProgram DEF InLevels, Blocking, ZeroDelayCycle, Granted, LevelOf

LEMMA NextLevels ==
  ASSUME TypeInv, TypeInv', AllOrderly, StatusFits, LevelInv, [Next]_vars,
         [KeepsGrants]_vars
  PROVE  LevelInv'
<1>0. UNCHANGED vars => UNCHANGED network /\ UNCHANGED node /\ UNCHANGED fed /\ UNCHANGED down
  BY DEF vars, network
<1>1. ASSUME NEW e \in Fed
      PROVE  /\ UNCHANGED network /\ InLevels(e)'
             /\ Upstreams(e) # {} => Within(e)' /\ Respected(e)'
  <2>0. InLevels(e) /\ Orderly(e) /\ (Upstreams(e) # {} => Within(e) /\ Respected(e))
    BY DEF LevelInv, AllOrderly
  <2>1. CASE UNCHANGED vars
    BY <1>0, <2>0, <2>1, UnmovedLevels, WorkRespects DEF SameGrant
  <2>2. ASSUME ~UNCHANGED vars, NEW f \in Fed, ServeFederate(f)
        PROVE  /\ UNCHANGED network /\ InLevels(e)'
               /\ Upstreams(e) # {} => Within(e)' /\ Respected(e)'
    <3>1. UNCHANGED network /\ UNCHANGED fed /\ KeepsGrants
      BY <2>2, ServeParts
    <3>2. InLevels(e)'
      BY <2>0, <3>1, UnmovedLevels
    <3>3. ASSUME Upstreams(e) # {} PROVE Within(e)' /\ Respected(e)'
      <4>1. Posted(e)
        BY <2>2, <3>3, ServePosts
      <4> QED  BY <2>0, <3>1, <3>3, <4>1, PostedRespects
    <3> QED  BY <3>1, <3>2, <3>3
  <2>3. ASSUME NEW f \in Fed, Work(f) \/ Listen(f) \/ Fail(f)
        PROVE  /\ UNCHANGED network /\ InLevels(e)'
               /\ Upstreams(e) # {} => Within(e)' /\ Respected(e)'
    <3>1. UNCHANGED network /\ UNCHANGED node /\ Others(f)
      BY <2>3, FederateParts
    <3>2. CASE e = f /\ (Work(f) \/ Fail(f))
      BY <2>0, <3>1, <3>2, WorkLevels, WorkRespects
    <3>3. CASE e = f /\ Listen(f)
      BY <2>0, <3>1, <3>3, ListenLevels, ListenRespects
    <3>4. CASE e # f
      <4>1. fed'[e] = fed[e] /\ down'[e] = down[e]
        <5>1. fed'[e] = fed[e]
          BY <3>1, <3>4 DEF Others
        <5>2. CASE Work(f) \/ Fail(f)
          BY <5>1, <5>2 DEF Work, Fail, Working, Start, Wake, AdvanceTag, Complete, Leave, ExecuteInput,
                            SendMessage, SendAbsent
        <5>3. CASE StoreDNET(f)
          BY <5>1, <5>3 DEF StoreDNET
        <5>4. ASSUME NEW type, Hear(f, type) PROVE down'[e] = down[e]
          BY <3>4, <5>4, Heeded
        <5> QED  BY <2>3, <5>1, <5>2, <5>3, <5>4
                 DEF Listen, handle_tag_advance_grant, handle_provisional_tag_advance_grant,
                     handle_tagged_message, HandlePortAbsent, handle_downstream_next_event_tag
      <4> QED  BY <2>0, <3>1, <4>1, UnmovedLevels, WorkRespects DEF SameGrant
    <3> QED  BY <2>3, <3>2, <3>3, <3>4
  <2> QED  BY <2>1, <2>2, <2>3 DEF Next
<1>2. ASSUME NEW e \in Fed PROVE Upstreams(e)' = Upstreams(e)
  BY <1>1, SameProgram
<1> QED  BY <1>1, <1>2 DEF LevelInv

\* reactor_threaded.c:213-227, federate.c:2525-2590: in every program, cycles
\* without delay and provisional grants included, the reactions of a tag execute
\* in the order of their levels, whatever comes while the tag executes, as long
\* as the RTI keeps its grants and no status has the highest microstep.
THEOREM LevelsAreKept == Spec /\ GrantKept /\ []StatusFits => []InLevelOrder
<1>1. GrantKept <=> [][KeepsGrants]_vars
  BY DEF GrantKept, KeepsGrants
<1>2. /\ TypeInv /\ TypeInv' /\ AllOrderly /\ StatusFits /\ LevelInv
      /\ [Next]_vars /\ [KeepsGrants]_vars
      => LevelInv'
  BY NextLevels
<1>3. LevelInv => InLevelOrder
  BY DEF LevelInv, InLevels, InLevelOrder
<1> QED  BY <1>1, <1>2, <1>3, InitLevels, AlwaysTyped, AlwaysOrderly, PTL DEF Spec

-----------------------------------------------------------------------------
(* The delays of paths are those of the shortest ones                      *)

\* The delays of the nodes of S do not change after the round n.
Settled(R, N, n, S) == \A i \in S : \A m \in n .. N + 1 : R[m][i] = R[n][i]

IsLongRun(R, N, conn, end) ==
  /\ R \in [0 .. N + 1 -> [Fed -> EventTag]]
  /\ \A n \in 1 .. N + 1 : R[n] = Lessen(conn, end, R[n - 1])

\* Every round settles one more node: the one with the least delay of those
\* that are not settled.
LEMMA SettleOne ==
  ASSUME NEW conn, conn \subseteq Connection, NEW end \in Fed, NEW N \in Nat,
         NEW R, IsLongRun(R, N, conn, end),
         NEW n \in 0 .. N, NEW S \in SUBSET Fed, Settled(R, N, n, S), S # Fed
  PROVE  \E i \in Fed \ S : Settled(R, N, n + 1, S \cup {i})
<1> DEFINE F == n + 1
<1>1. /\ F \in 1 .. N + 1 /\ F - 1 = n /\ \A k \in Nat : F + k <= N + 1 => F + k \in 0 .. N + 1
      /\ \A k \in Nat : F + (k + 1) <= N + 1 => F + (k + 1) \in 1 .. N + 1 /\ F + (k + 1) - 1 = F + k
  OBVIOUS
<1>2. \A m \in 0 .. N + 1 : R[m] \in [Fed -> EventTag] /\ \A j \in Fed : R[m][j] \in Tag
  BY SpecialTags DEF IsLongRun
<1>3. PICK i \in Fed \ S : \A j \in Fed \ S : Leq(R[F][i], R[F][j])
  <2> DEFINE X == {R[F][j] : j \in Fed \ S}
  <2>1. X \subseteq Tag /\ X # {}
    BY <1>1, <1>2
  <2>2. \E t \in X : \A u \in X : Leq(t, u)
    <3> HIDE DEF X
    <3> QED  BY <2>1, LeastTag
  <2> QED  BY <2>2
<1> DEFINE v == R[F][i]
           Good(m) == /\ \A j \in Fed : Leq(R[m][j], R[F][j])
                      /\ \A j \in Fed \ S : Leq(v, R[m][j])
           T == {k \in Nat : F + k <= N + 1 => Good(F + k)}
<1>4. v \in Tag
  BY <1>1, <1>2
<1>5. 0 \in T
  <2>1. Good(F)
    BY <1>3 DEF Leq
  <2>2. F + 0 = F
    OBVIOUS
  <2> HIDE DEF F, Good
  <2> QED  BY <2>1, <2>2
<1>6. ASSUME NEW k \in Nat, k \in T PROVE k + 1 \in T
  <2> SUFFICES ASSUME F + (k + 1) <= N + 1 PROVE Good(F + (k + 1))
    OBVIOUS
  <2> DEFINE m == F + k
  <2>1. m \in 0 .. N + 1 /\ F + (k + 1) \in 1 .. N + 1 /\ F + (k + 1) - 1 = m /\ m <= N + 1
    OBVIOUS
  <2>2. Good(m) /\ R[F + (k + 1)] = Lessen(conn, end, R[m])
    BY <1>6, <2>1 DEF IsLongRun
  <2>3. R[m] \in [Fed -> EventTag] /\ R[n] \in [Fed -> EventTag] /\ R[F] = Lessen(conn, end, R[n])
    BY <1>1, <1>2, <2>1 DEF IsLongRun
  <2>4. \A s \in S : R[m][s] = R[n][s]
    BY <2>1 DEF Settled
  <2> DEFINE G == R[F + (k + 1)]
  <2>5. \A j \in Fed : G[j] \in Tag
    BY <1>2, <2>1
  <2>6. \A j \in Fed : /\ Leq(G[j], R[m][j]) /\ G[j] \in {R[m][j]} \cup Through(conn, end, R[m], j)
                       /\ \A t \in Through(conn, end, R[n], j) : Leq(R[F][j], t)
    BY <2>2, <2>3, LessenTags
  <2>7. \A j \in Fed : Leq(G[j], R[F][j])
    <3>1. \A j \in Fed : R[m][j] \in Tag /\ R[F][j] \in Tag /\ Leq(R[m][j], R[F][j])
      BY <1>1, <1>2, <2>1, <2>2
    <3> HIDE DEF G, F, v, m
    <3> QED  BY <2>5, <2>6, <3>1, TagsAreOrdered
  <2>8. ASSUME NEW j \in Fed \ S PROVE Leq(v, G[j])
    <3>1. CASE G[j] = R[m][j]
      BY <2>2, <3>1
    <3>2. ASSUME NEW c \in conn, c.from = j, c.to = end \/ R[m][c.to] # FOREVER_TAG,
                 G[j] = lf_tag_add(lf_delay_tag(ZERO_TAG, c.delay), IF c.to = end THEN ZERO_TAG ELSE R[m][c.to])
          PROVE  Leq(v, G[j])
      <4>1. c.to \in Fed /\ c.delay \in Delay
        BY DEF Connection, Delay
      <4>2. CASE c.to = end \/ c.to \in S
        <5>1. G[j] \in Through(conn, end, R[n], j)
          BY <2>4, <3>2, <4>2 DEF Through
        <5>2. Leq(R[F][j], G[j]) /\ Leq(v, R[F][j]) /\ R[F][j] \in Tag
          BY <1>1, <1>2, <1>3, <2>6, <5>1
        <5> HIDE DEF G, F, v
        <5> QED  BY <1>4, <2>5, <5>2, TagsAreOrdered
      <4>3. CASE c.to # end /\ c.to \notin S
        <5>1. lf_delay_tag(ZERO_TAG, c.delay) \in EventTag /\ R[m][c.to] \in EventTag /\ R[m][c.to] \in Tag
          BY <2>3, <4>1, SpecialTags, DelayedTag
        <5>2. Leq(R[m][c.to], G[j])
          BY <3>2, <4>3, <5>1, AddTags
        <5>3. Leq(v, R[m][c.to])
          BY <2>2, <4>1, <4>3
        <5> HIDE DEF G, F, v, m
        <5> QED  BY <1>4, <2>5, <5>1, <5>2, <5>3, TagsAreOrdered
      <4> QED  BY <4>2, <4>3
    <3> QED  BY <2>6, <3>1, <3>2 DEF Through
  <2> QED  BY <2>7, <2>8
<1>7. ASSUME NEW m \in F .. N + 1 PROVE R[m][i] = v
  <2>1. m - F \in Nat /\ F + (m - F) = m /\ m \in 0 .. N + 1
    OBVIOUS
  <2>2. m - F \in T
    <3> HIDE DEF T
    <3>1. \A k \in 0 .. (m - F) - 1 : k \in T => k + 1 \in T
      BY <1>6
    <3> QED  BY <1>5, <2>1, <3>1, InductionTo
  <2>3. Good(m)
    <3> HIDE DEF F, Good
    <3> QED  BY <2>1, <2>2
  <2>4. Leq(v, R[m][i]) /\ Leq(R[m][i], v) /\ R[m][i] \in Tag
    BY <1>2, <2>1, <2>3
  <2> HIDE DEF v
  <2> QED  BY <1>4, <2>4, TagOrdering
<1>8. Settled(R, N, F, S \cup {i})
  <2>1. \A s \in S : \A m \in F .. N + 1 : R[m][s] = R[F][s]
    BY <1>1 DEF Settled
  <2> QED  BY <1>7, <2>1 DEF Settled
<1> QED  BY <1>8

\* update_min_delays(): no delay can be lessened further after as many rounds
\* as there are nodes, whatever the connections.
THEOREM PathDelaysSettle ==
  ASSUME NEW conn, conn \subseteq Connection, NEW end \in Fed
  PROVE  /\ PathDelays(conn, end) \in [Fed -> EventTag]
         /\ Lessen(conn, end, PathDelays(conn, end)) = PathDelays(conn, end)
<1> DEFINE N == number_of_scheduling_nodes
<1>1. N \in Nat /\ N \in 0 .. N
  BY FederationAssumption
<1>2. PICK P : IsRounds(P, conn, end)
  BY PathRounds
<1>3. PathDelays(conn, end) = P[N] /\ P[N] \in [Fed -> EventTag] /\ P \in [0 .. N -> [Fed -> EventTag]]
      /\ \A n \in 1 .. N : P[n] = Lessen(conn, end, P[n - 1])
  BY <1>1, <1>2 DEF IsRounds
<1> DEFINE last == Lessen(conn, end, P[N])
           R == [n \in 0 .. N + 1 |-> IF n <= N THEN P[n] ELSE last]
<1>4. last \in [Fed -> EventTag]
  BY <1>3, LessenTags
<1>5. Fed = 0 .. N - 1
  BY DEF Fed
<1>6. IsFiniteSet(Fed) /\ Cardinality(Fed) = N
  <2>1. N - 1 \in Int
    BY <1>1
  <2> HIDE DEF N
  <2> QED  BY <1>1, <1>5, <2>1, FS_Interval
<1> HIDE DEF N, last
<1>7. IsLongRun(R, N, conn, end) /\ R[N] = P[N] /\ R[N + 1] = last
  <2>1. R \in [0 .. N + 1 -> [Fed -> EventTag]]
    BY <1>1, <1>3, <1>4
  <2>2. R[N] = P[N] /\ R[N + 1] = last
    BY <1>1
  <2>3. ASSUME NEW n \in 1 .. N + 1 PROVE R[n] = Lessen(conn, end, R[n - 1])
    <3>1. CASE n <= N
      <4>1. R[n] = P[n] /\ R[n - 1] = P[n - 1] /\ n \in 1 .. N
        BY <1>1, <3>1
      <4> QED  BY <1>3, <4>1
    <3>2. CASE n = N + 1
      <4>1. n - 1 = N
        BY <1>1, <3>2
      <4> QED  BY <2>2, <3>2, <4>1 DEF last
    <3> QED  BY <1>1, <3>1, <3>2
  <2> QED  BY <2>1, <2>2, <2>3 DEF IsLongRun
<1> HIDE DEF R
<1> DEFINE T == {n \in Nat : n <= N => \E S \in SUBSET Fed : Cardinality(S) = n /\ Settled(R, N, n, S)}
<1>8. 0 \in T
  <2>1. {} \in SUBSET Fed /\ Cardinality({}) = 0 /\ Settled(R, N, 0, {})
    BY FS_EmptySet DEF Settled
  <2> QED  BY <2>1
<1>9. ASSUME NEW n \in 0 .. N - 1, n \in T PROVE n + 1 \in T
  <2>1. n \in Nat /\ n <= N /\ n \in 0 .. N /\ n < N
    BY <1>1
  <2>2. PICK S \in SUBSET Fed : Cardinality(S) = n /\ Settled(R, N, n, S)
    BY <1>9, <2>1
  <2>3. S # Fed /\ IsFiniteSet(S)
    BY <1>6, <2>1, <2>2, FS_Subset
  <2>4. PICK i \in Fed \ S : Settled(R, N, n + 1, S \cup {i})
    <3> HIDE DEF T
    <3> QED  BY <1>1, <1>7, <2>1, <2>2, <2>3, SettleOne
  <2>5. Cardinality(S \cup {i}) = n + 1
    BY <2>2, <2>3, <2>4, FS_AddElement
  <2>6. S \cup {i} \in SUBSET Fed /\ n + 1 \in Nat
    BY <2>1
  <2> QED  BY <2>4, <2>5, <2>6
<1>10. N \in T
  <2> HIDE DEF T
  <2> QED  BY <1>1, <1>8, <1>9, InductionTo
<1>11. PICK S \in SUBSET Fed : Cardinality(S) = N /\ Settled(R, N, N, S)
  BY <1>1, <1>10
<1>12. S = Fed
  BY <1>6, <1>11, FS_Subset
<1>13. \A i \in Fed : R[N + 1][i] = R[N][i]
  <2>1. N + 1 \in N .. N + 1
    BY <1>1
  <2> QED  BY <1>11, <1>12, <2>1 DEF Settled
<1>14. last = P[N]
  BY <1>3, <1>4, <1>7, <1>13
<1> QED  BY <1>3, <1>14 DEF last
=============================================================================
