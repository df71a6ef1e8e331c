------------------------ MODULE FederationOrderProofs ------------------------
(***************************************************************************)
(* Centralized coordination of programs whose cycles all have a delay, for *)
(* every number of federates and every range of tags: no message comes too *)
(* late, no grant is taken back, and the federates do what TagOrder says.  *)
(***************************************************************************)
EXTENDS FederationProofs

-----------------------------------------------------------------------------
(* Programs without cycles that have no delay                              *)

\* No delay of a microstep, no cycle without delay.
Plain(p) ==
  /\ \A c \in p.conn : c.delay # 0
  /\ \A f \in Fed : MinDelays(p.conn)[f][f] # ZERO_TAG

\* The delay of a connection as a time.
Lag(c) == IF c.delay = NEVER THEN 0 ELSE c.delay

\* Tags then have the microstep 0.
WholeTag == {t \in EventTag : t[2] = 0 /\ t[1] < FOREVER} \cup {FOREVER_TAG}

LEMMA WholeTags ==
  /\ WholeTag \subseteq EventTag /\ ZERO_TAG \in WholeTag /\ FOREVER_TAG \in WholeTag
  /\ STOP_TAG \in WholeTag
  /\ \A x \in 0 .. FOREVER - 1 : <<x, 0>> \in WholeTag
  /\ \A t \in WholeTag : t[1] \in 0 .. FOREVER /\ (t[1] < FOREVER => t = <<t[1], 0>>)
  /\ \A t \in WholeTag : t[1] = FOREVER => t = FOREVER_TAG
<1>1. ZERO_TAG[2] = 0 /\ ZERO_TAG[1] < FOREVER /\ FOREVER_TAG[1] = FOREVER
  BY TagsAssumption DEF ZERO_TAG, FOREVER_TAG
<1>2. ASSUME NEW x \in 0 .. FOREVER - 1 PROVE <<x, 0>> \in WholeTag
  BY TagsAssumption DEF WholeTag, EventTag, Tag, Microstep
<1>3. STOP_TAG \in WholeTag
  BY <1>2, FederationAssumption, TagsAssumption DEF STOP_TAG
<1>4. ASSUME NEW t \in WholeTag
      PROVE  /\ t[1] \in 0 .. FOREVER /\ (t[1] < FOREVER => t = <<t[1], 0>>)
             /\ t[1] = FOREVER => t = FOREVER_TAG
  <2>1. t \in EventTag /\ t \in Tag
    BY SpecialTags DEF WholeTag
  <2>2. t[1] \in 0 .. FOREVER /\ t = <<t[1], t[2]>>
    BY <2>1, TagParts, TagsAssumption DEF EventTag
  <2> QED  BY <1>1, <2>2, TagsAssumption DEF WholeTag
<1> QED  BY <1>1, <1>2, <1>3, <1>4, SpecialTags DEF WholeTag

\* Whole tags are ordered as their times are.
LEMMA WholeOrder ==
  ASSUME NEW a \in WholeTag \cup {NEVER_TAG}, NEW b \in WholeTag \cup {NEVER_TAG}
  PROVE  /\ Less(a, b) <=> a[1] < b[1]
         /\ Leq(a, b) <=> a[1] <= b[1]
         /\ a = b <=> a[1] = b[1]
         /\ a \in Tag /\ b \in Tag /\ a[1] \in Int /\ b[1] \in Int
<1>1. a \in Tag /\ b \in Tag
  BY WholeTags, SpecialTags
<1>2. NEVER_TAG[1] = NEVER /\ NEVER < 0
  BY TagsAssumption DEF NEVER_TAG
<1>3. a = b <=> a[1] = b[1]
  <2>1. CASE a \in WholeTag /\ b \in WholeTag
    <3>1. a[1] \in 0 .. FOREVER /\ b[1] \in 0 .. FOREVER
      BY <2>1, WholeTags
    <3>2. (a[1] < FOREVER => a = <<a[1], 0>>) /\ (b[1] < FOREVER => b = <<b[1], 0>>)
          /\ (a[1] = FOREVER => a = FOREVER_TAG) /\ (b[1] = FOREVER => b = FOREVER_TAG)
      BY <2>1, WholeTags
    <3> QED  BY <3>1, <3>2, TagsAssumption
  <2>2. CASE a = NEVER_TAG \/ b = NEVER_TAG
    BY <1>2, <2>2, WholeTags
  <2> QED  BY <2>1, <2>2
<1> QED  BY <1>1, <1>3, TagOrdering

\* The sum of whole tags.
LEMMA WholeSum ==
  ASSUME NEW a \in WholeTag, NEW b \in WholeTag
  PROVE  /\ lf_tag_add(a, b) \in WholeTag
         /\ lf_tag_add(a, b)[1] <= a[1] + b[1]
         /\ lf_tag_add(a, b)[1] = FOREVER \/ lf_tag_add(a, b)[1] = a[1] + b[1]
<1>1. /\ a[1] \in 0 .. FOREVER /\ b[1] \in 0 .. FOREVER
      /\ a[1] < FOREVER => a = <<a[1], 0>>
      /\ b[1] < FOREVER => b = <<b[1], 0>>
  BY WholeTags
<1> DEFINE m == (IF b[1] > 0 THEN 0 ELSE a[2]) + b[2]
           time == lf_time_add(a[1], b[1])
<1>2. lf_tag_add(a, b) = IF time = FOREVER \/ (time # NEVER /\ m > UINT_MAX) THEN FOREVER_TAG
                         ELSE IF time = NEVER THEN NEVER_TAG ELSE <<time, m>>
  BY DEF lf_tag_add
<1>3. FOREVER_TAG[1] = FOREVER
  BY DEF FOREVER_TAG
<1>4. CASE a[1] + b[1] >= FOREVER
  <2>1. time = FOREVER
    BY <1>1, <1>4, TagsAssumption DEF lf_time_add
  <2> HIDE DEF time
  <2> QED  BY <1>1, <1>2, <1>3, <1>4, <2>1, WholeTags
<1>5. CASE a[1] + b[1] < FOREVER
  <2>1. time = a[1] + b[1] /\ time \in 0 .. FOREVER - 1 /\ a[1] < FOREVER /\ b[1] < FOREVER
    BY <1>1, <1>5, TagsAssumption DEF lf_time_add
  <2>2. a[2] = 0 /\ b[2] = 0
    <3>1. \A x : <<x, 0>>[2] = 0
      OBVIOUS
    <3> QED  BY <1>1, <2>1, <3>1
  <2>3. m = 0
    BY <2>2
  <2>4. lf_tag_add(a, b) = <<time, 0>>
    <3> HIDE DEF time, m
    <3> QED  BY <1>2, <2>1, <2>3, TagsAssumption
  <2>5. lf_tag_add(a, b) \in WholeTag /\ lf_tag_add(a, b)[1] = time
    <3> HIDE DEF time
    <3> QED  BY <2>1, <2>4, WholeTags
  <2> QED  BY <2>1, <2>5
<1> QED  BY <1>1, <1>4, <1>5, TagsAssumption

\* A whole tag after a delay that is not one of a microstep.
LEMMA WholeDelayed ==
  ASSUME NEW a \in WholeTag, NEW c, c.delay \in Delay, c.delay # 0
  PROVE  /\ Lag(c) \in Nat
         /\ lf_delay_tag(a, c.delay) \in WholeTag
         /\ lf_delay_tag(a, c.delay)[1] <= a[1] + Lag(c)
         /\ lf_delay_tag(a, c.delay)[1] = FOREVER \/ lf_delay_tag(a, c.delay)[1] = a[1] + Lag(c)
<1>1. a[1] \in 0 .. FOREVER /\ NEVER < 0 /\ FOREVER_TAG[1] = FOREVER
  BY WholeTags, TagsAssumption DEF FOREVER_TAG
<1>2. CASE c.delay = NEVER
  <2>1. lf_delay_tag(a, c.delay) = a /\ Lag(c) = 0
    BY <1>1, <1>2 DEF lf_delay_tag, Lag
  <2> QED  BY <1>1, <2>1
<1>3. CASE c.delay # NEVER
  <2>1. c.delay \in Nat /\ c.delay > 0 /\ Lag(c) = c.delay
    BY <1>3 DEF Delay, Lag
  <2>2. CASE a[1] >= FOREVER - c.delay
    <3>1. lf_delay_tag(a, c.delay) = FOREVER_TAG
      BY <1>1, <2>1, <2>2 DEF lf_delay_tag
    <3> QED  BY <1>1, <2>1, <2>2, <3>1, WholeTags, TagsAssumption
  <2>3. CASE ~(a[1] >= FOREVER - c.delay)
    <3>1. lf_delay_tag(a, c.delay) = <<a[1] + c.delay, 0>> /\ a[1] + c.delay \in 0 .. FOREVER - 1
      BY <1>1, <2>1, <2>3, TagsAssumption DEF lf_delay_tag
    <3>2. lf_delay_tag(a, c.delay) \in WholeTag
      BY <3>1, WholeTags
    <3> QED  BY <2>1, <3>1, <3>2
  <2> QED  BY <2>2, <2>3
<1> QED  BY <1>2, <1>3

\* Without delays of a microstep the delays of paths are whole.
LEMMA WholePaths ==
  ASSUME NEW conn, conn \subseteq Connection, NEW end \in Fed, \A c \in conn : c.delay # 0
  PROVE  PathDelays(conn, end) \in [Fed -> WholeTag]
<1> DEFINE N == number_of_scheduling_nodes
<1>1. N \in Nat
  BY FederationAssumption
<1>2. PICK P : IsRounds(P, conn, end)
  BY PathRounds
<1> DEFINE T == {n \in Nat : n <= N => P[n] \in [Fed -> WholeTag]}
<1>3. 0 \in T
  BY <1>2, WholeTags DEF IsRounds
<1>4. ASSUME NEW n \in 0 .. N - 1, n \in T PROVE n + 1 \in T
  <2>1. n + 1 \in 1 .. N /\ (n + 1) - 1 = n /\ n \in 0 .. N /\ n <= N /\ n \in Nat
    BY <1>1
  <2>2. P[n] \in [Fed -> WholeTag]
    BY <1>4, <2>1
  <2>3. P[n] \in [Fed -> EventTag] /\ P[n + 1] = Lessen(conn, end, P[n])
    BY <1>2, <2>1 DEF IsRounds
  <2>4. ASSUME NEW i \in Fed, NEW t \in Through(conn, end, P[n], i) PROVE t \in WholeTag
    <3>1. PICK c \in conn : t = lf_tag_add(lf_delay_tag(ZERO_TAG, c.delay),
                                           IF c.to = end THEN ZERO_TAG ELSE P[n][c.to])
      BY <2>4 DEF Through
    <3>2. c.to \in Fed /\ c.delay \in Delay /\ c.delay # 0
      BY DEF Connection, Delay
    <3>3. lf_delay_tag(ZERO_TAG, c.delay) \in WholeTag
      BY <3>2, WholeDelayed, WholeTags
    <3>4. (IF c.to = end THEN ZERO_TAG ELSE P[n][c.to]) \in WholeTag
      BY <2>2, <3>2, WholeTags
    <3> QED  BY <3>1, <3>3, <3>4, WholeSum
  <2>5. \A i \in Fed : P[n + 1][i] \in {P[n][i]} \cup Through(conn, end, P[n], i)
    BY <2>3, LessenTags
  <2>6. P[n + 1] \in [Fed -> EventTag]
    BY <1>2, <2>1 DEF IsRounds
  <2>7. \A i \in Fed : P[n + 1][i] \in WholeTag
    BY <2>2, <2>4, <2>5
  <2> QED  BY <2>1, <2>6, <2>7
<1>5. N \in T
  <2> HIDE DEF T, N
  <2> QED  BY <1>1, <1>3, <1>4, InductionTo
<1> QED  BY <1>1, <1>2, <1>5 DEF IsRounds

\* A path that begins with c is not longer than c and the rest.
LEMMA PathTriangle ==
  ASSUME NEW conn, conn \subseteq Connection, NEW end \in Fed, \A c \in conn : c.delay # 0, NEW c \in conn
  PROVE  LET D == PathDelays(conn, end) IN
         /\ D[c.from] \in WholeTag /\ D[c.to] \in WholeTag /\ Lag(c) \in Nat
         /\ c.to = end => D[c.from][1] <= Lag(c)
         /\ D[c.from][1] <= Lag(c) + D[c.to][1]
<1> DEFINE D == PathDelays(conn, end)
           d == lf_delay_tag(ZERO_TAG, c.delay)
           rest == IF c.to = end THEN ZERO_TAG ELSE D[c.to]
<1>1. c.from \in Fed /\ c.to \in Fed /\ c.delay \in Delay /\ c.delay # 0
  BY DEF Connection, Delay
<1>2. D \in [Fed -> WholeTag] /\ D \in [Fed -> EventTag] /\ Lessen(conn, end, D) = D
  BY WholePaths, PathDelaysSettle
<1>3. D[c.from] \in WholeTag /\ D[c.to] \in WholeTag
  BY <1>1, <1>2
<1>4. d \in WholeTag /\ Lag(c) \in Nat /\ d[1] <= Lag(c)
  <2>1. ZERO_TAG[1] = 0
    BY DEF ZERO_TAG
  <2> QED  BY <1>1, <2>1, WholeDelayed, WholeTags
<1>5. rest \in WholeTag /\ (c.to = end => rest[1] = 0) /\ rest[1] <= D[c.to][1]
  <2>1. ZERO_TAG[1] = 0 /\ D[c.to][1] \in 0 .. FOREVER
    BY <1>3, WholeTags DEF ZERO_TAG
  <2> HIDE DEF D
  <2> QED  BY <1>3, <2>1, WholeTags
<1> HIDE DEF D
<1>6. c.to = end \/ D[c.to] # FOREVER_TAG => Leq(D[c.from], lf_tag_add(d, rest))
  <2>1. c.to = end \/ D[c.to] # FOREVER_TAG => lf_tag_add(d, rest) \in Through(conn, end, D, c.from)
    BY DEF Through
  <2> HIDE DEF d, rest
  <2> QED  BY <1>1, <1>2, <2>1, LessenTags
<1> HIDE DEF d, rest
<1>7. c.to = end \/ D[c.to] # FOREVER_TAG => D[c.from][1] <= Lag(c) + rest[1]
  <2>1. lf_tag_add(d, rest) \in WholeTag /\ lf_tag_add(d, rest)[1] <= d[1] + rest[1]
    BY <1>4, <1>5, WholeSum
  <2>2. lf_tag_add(d, rest)[1] \in 0 .. FOREVER /\ D[c.from][1] \in 0 .. FOREVER /\ d[1] \in 0 .. FOREVER
        /\ rest[1] \in 0 .. FOREVER
    BY <1>3, <1>4, <1>5, <2>1, WholeTags
  <2>3. Leq(D[c.from], lf_tag_add(d, rest)) => D[c.from][1] <= lf_tag_add(d, rest)[1]
    BY <1>3, <2>1, WholeOrder
  <2> QED  BY <1>4, <1>6, <2>1, <2>2, <2>3, TagsAssumption
<1>8. /\ D[c.from][1] \in 0 .. FOREVER /\ D[c.to][1] \in 0 .. FOREVER /\ rest[1] \in 0 .. FOREVER
      /\ D[c.to] = FOREVER_TAG => D[c.to][1] = FOREVER
  BY <1>3, <1>5, WholeTags DEF FOREVER_TAG
<1>9. D[c.from][1] <= Lag(c) + D[c.to][1]
  BY <1>4, <1>5, <1>7, <1>8, TagsAssumption
<1>10. c.to = end => D[c.from][1] <= Lag(c)
  BY <1>4, <1>5, <1>7
<1> QED  BY <1>3, <1>4, <1>9, <1>10 DEF D

-----------------------------------------------------------------------------
(* Why no message comes too late: the invariant                            *)

\* A federate that has to react at the start has announced nothing later.
StartAnnounced ==
  \A f \in Fed : Upstreams(f) # {} /\ 0 \in program.timer[f] /\ ~fed[f].started =>
    fed[f].last_sent_NET \in {NEVER_TAG, ZERO_TAG}

Time == 0 .. FOREVER

\* A federate that has left, and one that reacts no more.
Gone(f) == fed[f].failed \/ fed[f].pc = "done"
Dead(f) == fed[f].failed \/ fed[f].pc \in {"stopping", "done", "fatal"}
Connected(f) == node[f].state # "NOT_CONNECTED"

\* f may react at time x, as far as it can be told from f and what is on its
\* way to it.
Queued(f, x) == \E e \in fed[f].queue : e.tag[1] = x
Arriving(f, x) == \E p \in 1 .. Len(down[f]) : down[f][p].type = "MSG" /\ down[f][p].tag[1] = x
Starting(f, x) == ~fed[f].started /\ 0 \in program.timer[f] /\ x = 0
Reacting(f, x) ==
  /\ fed[f].pc = "exec" /\ fed[f].current[1] = x
  /\ fed[f].active \/ \E c \in fed[f].todo : c.to = f
Triggered(f, x) ==
  ~Dead(f) /\ (Queued(f, x) \/ Arriving(f, x) \/ Starting(f, x) \/ Reacting(f, x))

\* L[f] is not later than any time at which f will still react: not than one it
\* can be told to react at, and what others send is not earlier.
Bounds == [Fed -> 0 .. StopTime + 1]
BelowTriggers(L) == \A f \in Fed : \A x \in Time : Triggered(f, x) => L[f] <= x
BelowSenders(L) == \A c \in program.conn : Connected(c.to) => L[c.to] <= L[c.from] + Lag(c)
BelowMessages(L) ==
  \A f \in Fed : \A p \in 1 .. Len(up[f]) :
    up[f][p].type = "MSG" /\ Connected(up[f][p].conn.to) => L[up[f][p].conn.to] <= up[f][p].tag[1]
Bound(L) == L \in Bounds /\ BelowTriggers(L) /\ BelowSenders(L) /\ BelowMessages(L)

\* What is sent on c is later than n, or it is not sent at all.
Beyond(L, c, n) == n < L[c.from] + Lag(c) \/ StopTime < L[c.from] + Lag(c)

\* Nothing will be sent to e at a time up to n.
SecureSenders(e, n) == \A c \in ConnTo(e) : \E L \in Bounds : Bound(L) /\ Beyond(L, c, n)
SecureMessages(e, n) ==
  \A f \in Fed : \A p \in 1 .. Len(up[f]) :
    up[f][p].type = "MSG" /\ up[f][p].conn.to = e => n < up[f][p].tag[1]
Secure(e, n) == SecureSenders(e, n) /\ SecureMessages(e, n)

\* The announcement of the tag t does not hide an event of f at time x.
Reveals(f, t, x) == t[1] <= x \/ <<x, 0>> \in in_transit[f]

\* The RTI will not take f to be beyond the time x, as it handles the first
\* n messages from f.
KnownBefore(f, x) ==
  /\ Heard(node[f].next_event)[1] <= x
  /\ node[f].completed[1] < x
  /\ confirming[f] # NULL => confirming[f][1] < x
SaidBefore(f, x, n) ==
  \A q \in 1 .. n : /\ up[f][q].type = "NET" => Reveals(f, up[f][q].tag, x)
                    /\ up[f][q].type = "LTC" => up[f][q].tag[1] < x
Ahead(f, x, n) == KnownBefore(f, x) /\ SaidBefore(f, x, n)

\* The time at which a message was sent.
SentAt(m) == m.tag[1] - Lag(m.conn)

\* What federates send is not behind what the RTI knows of them.
MessagesAhead ==
  \A f \in Fed : \A p \in 1 .. Len(up[f]) : up[f][p].type = "MSG" =>
    /\ SentAt(up[f][p]) \in Time /\ up[f][p].tag[1] <= StopTime
    /\ Ahead(f, SentAt(up[f][p]), p - 1)
TriggersAhead ==
  \A f \in Fed : \A x \in Time : Triggered(f, x) => Ahead(f, x, Len(up[f]))

\* A federate that has left announces at most that it has no more events.
OnlyNETs(f, n) == \A q \in n .. Len(up[f]) : up[f][q].type = "NET"
Silent ==
  \A f \in Fed :
    /\ ~Connected(f) => Gone(f) /\ OnlyNETs(f, 1)
    /\ \A p \in 1 .. Len(up[f]) : up[f][p].type \in {"RESIGN", "FAILED", "EOF"} =>
         Gone(f) /\ OnlyNETs(f, p + 1)

CompletedSecure == \A e \in Fed : Upstreams(e) # {} => Secure(e, node[e].completed[1])
GrantsSecure == \A e \in Fed : Upstreams(e) # {} => Secure(e, node[e].last_granted[1])

\* Nothing is confirmed by a federate, and nothing granted to it, that the RTI
\* has not granted.
GrantedFirst(e, n) ==
  /\ node[e].completed[1] <= n
  /\ confirming[e] # NULL => confirming[e][1] <= n
  /\ \A p \in 1 .. Len(up[e]) : up[e][p].type = "LTC" => up[e][p].tag[1] <= n
  /\ fed[e].last_TAG[1] <= n
  /\ \A p \in 1 .. Len(down[e]) : down[e][p].type = "TAG" => down[e][p].tag[1] <= n
GrantsFirst == \A e \in Fed : Upstreams(e) # {} => GrantedFirst(e, node[e].last_granted[1])

\* A message on its way to f is later than the grants before it, and the RTI
\* remembers it.
Delivery(f, p) ==
  /\ ~Dead(f) => down[f][p].tag \in in_transit[f]
  /\ fed[f].last_TAG[1] < down[f][p].tag[1]
  /\ down[f][p].tag[1] <= StopTime
  /\ \A q \in 1 .. p - 1 : down[f][q].type = "TAG" => down[f][q].tag[1] < down[f][p].tag[1]
Deliveries ==
  \A f \in Fed : \A p \in 1 .. Len(down[f]) :
    down[f][p].type # "PTAG" /\ (down[f][p].type = "MSG" => Delivery(f, p))

\* The tags are whole, and there are no provisional grants.
WholeRTI ==
  \A f \in Fed :
    /\ Heard(node[f].next_event) \in WholeTag
    /\ node[f].last_provisionally_granted = NEVER_TAG
    /\ in_transit[f] \subseteq WholeTag
    /\ \A p \in 1 .. Len(up[f]) : up[f][p].tag \in WholeTag
    /\ \A p \in 1 .. Len(down[f]) : down[f][p].type = "MSG" => down[f][p].tag \in WholeTag
WholeFed(f) ==
  /\ fed[f].current \in WholeTag
  /\ \A e \in fed[f].queue : e.tag \in WholeTag
  /\ fed[f].last_skipped_NET \in WholeTag \cup {NEVER_TAG}

\* The federate is not in an error, no announcement that it skipped hides an
\* event, no timer is forgotten, no level is passed.
Pending(f, t) ==
  (IF fed[f].started THEN fed[f].current[1] < t ELSE 0 < t) => Event(<<t, 0>>, NULL) \in fed[f].queue
Sane(f) ==
  /\ fed[f].pc # "fatal"
  /\ \A x \in Time : Triggered(f, x) => Reveals(f, fed[f].last_skipped_NET, x)
  /\ \A t \in program.timer[f] : Pending(f, t)
  /\ fed[f].pc = "exec" => \A c \in fed[f].todo : LevelOf(f, c) >= fed[f].level
FederatesSane == \A f \in Fed : WholeFed(f) /\ Sane(f)

NetworkPlain == Plain(program) /\ min_delays = MinDelays(program.conn)
CoordInv ==
  /\ TypeInv /\ AllOrderly /\ NetworkPlain /\ WholeRTI /\ FederatesSane
  /\ MessagesAhead /\ TriggersAhead /\ Silent
  /\ GrantsFirst /\ GrantsSecure /\ Deliveries

-----------------------------------------------------------------------------
(* Bounds on the times at which federates will still react                 *)

LEMMA StopRange ==
  /\ StopTime \in Nat /\ StopTime < FOREVER /\ 0 .. StopTime + 1 \subseteq Time
  /\ NEVER \in Int /\ NEVER < 0 /\ FOREVER \in Nat
BY FederationAssumption, TagsAssumption DEF Time

LEMMA LagNat ==
  ASSUME NetworkOK, NEW c \in program.conn
  PROVE  Lag(c) \in Nat /\ c.from \in Fed /\ c.to \in Fed /\ c.from # c.to /\ c.delay \in Delay
<1>1. c.delay \in Delay /\ c.from \in Fed /\ c.to \in Fed /\ c.from # c.to
  BY ProgramParts
<1> QED  BY <1>1 DEF Lag, Delay

\* The messages on their way to the RTI.
LEMMA UpKinds ==
  ASSUME TypeInv, NEW f \in Fed, NEW p \in 1 .. Len(up[f])
  PROVE  /\ up[f][p] \in UpMessage(f) /\ up[f][p].tag \in EventTag /\ up[f][p].tag[1] \in Time
         /\ up[f][p].type = "MSG" =>
              /\ up[f][p].conn \in ConnFrom(f) /\ up[f][p].conn \in program.conn
              /\ up[f][p].conn.from = f /\ up[f][p].conn.to \in Fed
              /\ up[f][p].conn \in ConnTo(up[f][p].conn.to)
<1>1. up[f][p] \in UpMessage(f)
  BY DEF TypeInv
<1>2. up[f][p].tag \in EventTag /\ (up[f][p].type = "MSG" => up[f][p].conn \in ConnFrom(f) /\ up[f][p].conn.to \in Fed)
  BY <1>1, UpMessageKinds DEF TypeInv
<1>3. up[f][p].tag[1] \in Time
  BY <1>2, SpecialTags, TagParts DEF Time, EventTag
<1> QED  BY <1>1, <1>2, <1>3 DEF ConnFrom, ConnTo

\* No federate reacts before time 0.
LEMMA ZeroBound ==
  ASSUME TypeInv
  PROVE  Bound([f \in Fed |-> 0])
<1> DEFINE Z == [f \in Fed |-> 0]
<1>1. Z \in Bounds
  BY StopRange DEF Bounds
<1>2. BelowTriggers(Z)
  BY DEF BelowTriggers, Time
<1>3. BelowSenders(Z)
  <2>1. \A c \in program.conn : Lag(c) \in Nat /\ c.from \in Fed /\ c.to \in Fed
    BY LagNat DEF TypeInv
  <2> QED  BY <2>1 DEF BelowSenders
<1>4. BelowMessages(Z)
  <2>1. ASSUME NEW f \in Fed, NEW p \in 1 .. Len(up[f]), up[f][p].type = "MSG"
        PROVE  Z[up[f][p].conn.to] <= up[f][p].tag[1]
    BY <2>1, UpKinds DEF Time
  <2> QED  BY <2>1 DEF BelowMessages
<1> QED  BY <1>1, <1>2, <1>3, <1>4 DEF Bound

\* A bounded set of numbers that is not empty has a greatest one.
LEMMA GreatestNumber ==
  ASSUME NEW b \in Nat, NEW S, S \subseteq 0 .. b, S # {}
  PROVE  \E m \in S : \A k \in S : k <= m
<1> DEFINE T == {b - s : s \in S}
<1>1. T \subseteq Nat /\ T # {}
  <2>1. \A s \in S : b - s \in Nat
    OBVIOUS
  <2>2. PICK s \in S : TRUE
    OBVIOUS
  <2>3. b - s \in T
    OBVIOUS
  <2> QED  BY <2>1, <2>3
<1>2. PICK t \in T : \A k \in T : t <= k
  <2> HIDE DEF T
  <2> QED  BY <1>1, LeastNumber
<1>3. PICK m \in S : t = b - m
  OBVIOUS
<1>4. \A k \in S : k <= m
  <2>1. \A k \in S : t <= b - k
    BY <1>2
  <2> QED  BY <1>3, <2>1
<1> QED  BY <1>4

\* Of all bounds there is a greatest one.
LEMMA GreatestBound ==
  ASSUME TypeInv
  PROVE  \E M \in Bounds : Bound(M) /\ \A L \in Bounds : Bound(L) => \A f \in Fed : L[f] <= M[f]
<1> DEFINE B == {L \in Bounds : Bound(L)}
           V(f) == {L[f] : L \in B}
           M == [f \in Fed |-> CHOOSE m \in V(f) : \A k \in V(f) : k <= m]
<1>1. ASSUME NEW f \in Fed
      PROVE  M[f] \in V(f) /\ \A L \in B : L[f] <= M[f]
  <2>1. V(f) \subseteq 0 .. StopTime + 1 /\ StopTime + 1 \in Nat
    BY StopRange DEF Bounds
  <2>2. [g \in Fed |-> 0] \in B
    BY ZeroBound DEF Bound
  <2>3. V(f) # {}
    BY <2>2
  <2>4. \E m \in V(f) : \A k \in V(f) : k <= m
    <3> HIDE DEF V
    <3> QED  BY <2>1, <2>3, GreatestNumber
  <2>5. M[f] \in V(f) /\ \A k \in V(f) : k <= M[f]
    <3> HIDE DEF V
    <3> QED  BY <2>4
  <2> QED  BY <2>5
<1> HIDE DEF M
<1>2. \A f \in Fed : \E L \in B : M[f] = L[f]
  BY <1>1
<1>3. M = [f \in Fed |-> M[f]]
  BY DEF M
<1>4. M \in Bounds
  BY <1>2, <1>3 DEF Bounds
<1>5. BelowTriggers(M)
  BY <1>2 DEF Bound, BelowTriggers
<1>6. BelowSenders(M)
  <2> SUFFICES ASSUME NEW c \in program.conn, Connected(c.to) PROVE M[c.to] <= M[c.from] + Lag(c)
    BY DEF BelowSenders
  <2>1. Lag(c) \in Nat /\ c.from \in Fed /\ c.to \in Fed
    BY LagNat DEF TypeInv
  <2>2. PICK L \in B : M[c.to] = L[c.to]
    BY <1>2, <2>1
  <2>3. L[c.to] <= L[c.from] + Lag(c) /\ L[c.from] <= M[c.from]
    BY <1>1, <2>1 DEF Bound, BelowSenders
  <2>4. L[c.from] \in Int /\ L[c.to] \in Int /\ M[c.from] \in Int
    BY <1>4, <2>1 DEF Bounds
  <2> QED  BY <2>1, <2>2, <2>3, <2>4
<1>7. BelowMessages(M)
  <2> SUFFICES ASSUME NEW f \in Fed, NEW p \in 1 .. Len(up[f]), up[f][p].type = "MSG", Connected(up[f][p].conn.to)
               PROVE  M[up[f][p].conn.to] <= up[f][p].tag[1]
    BY DEF BelowMessages
  <2>1. up[f][p].conn.to \in Fed
    BY UpKinds
  <2>2. PICK L \in B : M[up[f][p].conn.to] = L[up[f][p].conn.to]
    BY <1>2, <2>1
  <2> QED  BY <2>2 DEF Bound, BelowMessages
<1> QED  BY <1>1, <1>4, <1>5, <1>6, <1>7 DEF Bound

\* What u will still be told by nobody up to time n it will not react to: a
\* bound for u is later than n, unless n is not before the stop.
LEMMA RaisedBound ==
  ASSUME TypeInv, NEW u \in Fed, NEW n \in Int,
         \A x \in Time : Triggered(u, x) => n < x,
         Connected(u) => Secure(u, n)
  PROVE  \E L \in Bounds : Bound(L) /\ (n < L[u] \/ StopTime < L[u])
<1>1. PICK M \in Bounds : Bound(M) /\ \A L \in Bounds : Bound(L) => \A f \in Fed : L[f] <= M[f]
  BY GreatestBound
<1>2. \A f \in Fed : M[f] \in 0 .. StopTime + 1
  BY DEF Bounds
<1>3. CASE n < M[u]
  BY <1>1, <1>3
<1>4. CASE ~(n < M[u])
  <2> DEFINE k == IF n <= StopTime THEN n + 1 ELSE StopTime + 1
             L == [M EXCEPT ![u] = k]
  <2>1. k \in 0 .. StopTime + 1 /\ M[u] <= k /\ (n < k \/ StopTime < k) /\ k <= n + 1
    BY <1>2, <1>4, StopRange
  <2> HIDE DEF k
  <2>2. L \in Bounds /\ L[u] = k /\ \A f \in Fed \ {u} : L[f] = M[f]
    BY <2>1 DEF Bounds
  <2>3. \A f \in Fed : M[f] <= L[f] /\ L[f] \in Int /\ M[f] \in Int
    BY <1>2, <2>1, <2>2
  <2> HIDE DEF L
  <2>4. BelowTriggers(L)
    <3> SUFFICES ASSUME NEW f \in Fed, NEW x \in Time, Triggered(f, x) PROVE L[f] <= x
      BY DEF BelowTriggers
    <3>1. CASE f = u
      <4>1. n < x /\ x \in Int
        BY <3>1 DEF Time
      <4> QED  BY <2>1, <2>2, <3>1, <4>1
    <3>2. CASE f # u
      BY <1>1, <2>2, <3>2 DEF Bound, BelowTriggers
    <3> QED  BY <3>1, <3>2
  <2>5. BelowSenders(L)
    <3> SUFFICES ASSUME NEW c \in program.conn, Connected(c.to) PROVE L[c.to] <= L[c.from] + Lag(c)
      BY DEF BelowSenders
    <3>1. Lag(c) \in Nat /\ c.from \in Fed /\ c.to \in Fed /\ c.from # c.to
      BY LagNat DEF TypeInv
    <3>2. CASE c.to = u
      <4>1. PICK K \in Bounds : Bound(K) /\ Beyond(K, c, n)
        BY <3>2 DEF Secure, SecureSenders, ConnTo
      <4>2. K[c.from] <= M[c.from] /\ K[c.from] \in Int /\ M[c.from] \in Int /\ L[c.from] = M[c.from]
        BY <1>1, <2>2, <2>3, <3>1, <3>2, <4>1 DEF Bounds
      <4>3. n < M[c.from] + Lag(c) \/ StopTime < M[c.from] + Lag(c)
        BY <3>1, <4>1, <4>2, StopRange DEF Beyond
      <4> QED  BY <2>1, <2>2, <3>1, <3>2, <4>2, <4>3, StopRange
    <3>3. CASE c.to # u
      <4>1. M[c.to] <= M[c.from] + Lag(c)
        BY <1>1 DEF Bound, BelowSenders
      <4> QED  BY <2>2, <2>3, <3>1, <3>3, <4>1
    <3> QED  BY <3>2, <3>3
  <2>6. BelowMessages(L)
    <3> SUFFICES ASSUME NEW f \in Fed, NEW p \in 1 .. Len(up[f]), up[f][p].type = "MSG", Connected(up[f][p].conn.to)
                 PROVE  L[up[f][p].conn.to] <= up[f][p].tag[1]
      BY DEF BelowMessages
    <3>1. up[f][p].conn.to \in Fed /\ up[f][p].tag[1] \in Int
      BY UpKinds DEF Time
    <3>2. CASE up[f][p].conn.to = u
      <4>1. n < up[f][p].tag[1]
        BY <3>2 DEF Secure, SecureMessages
      <4> QED  BY <2>1, <2>2, <3>1, <3>2, <4>1
    <3>3. CASE up[f][p].conn.to # u
      BY <1>1, <2>2, <3>1, <3>3 DEF Bound, BelowMessages
    <3> QED  BY <3>2, <3>3
  <2> QED  BY <2>1, <2>2, <2>4, <2>5, <2>6 DEF Bound
<1> QED  BY <1>3, <1>4

\* A confirmation up to n is one for earlier tags.
LEMMA SecureEarlier ==
  ASSUME TypeInv, NEW e \in Fed, NEW n \in Int, NEW k \in Int, k <= n, Secure(e, n)
  PROVE  Secure(e, k)
<1>1. SecureSenders(e, k)
  <2> SUFFICES ASSUME NEW c \in ConnTo(e) PROVE \E L \in Bounds : Bound(L) /\ Beyond(L, c, k)
    BY DEF SecureSenders
  <2>1. PICK L \in Bounds : Bound(L) /\ Beyond(L, c, n)
    BY DEF Secure, SecureSenders
  <2>2. c \in program.conn
    BY DEF ConnTo
  <2>3. Lag(c) \in Nat /\ L[c.from] \in Int
    BY <2>2, LagNat DEF TypeInv, Bounds
  <2>4. Beyond(L, c, k)
    BY <2>1, <2>3 DEF Beyond
  <2> QED  BY <2>1, <2>4
<1>2. SecureMessages(e, k)
  <2>1. \A f \in Fed : \A p \in 1 .. Len(up[f]) : up[f][p].tag[1] \in Int
    BY UpKinds DEF Time
  <2> QED  BY <2>1 DEF Secure, SecureMessages
<1> QED  BY <1>1, <1>2 DEF Secure

-----------------------------------------------------------------------------
(* What the RTI may grant is secure                                        *)

AheadInv ==
  /\ TypeInv /\ NetworkPlain /\ WholeRTI
  /\ MessagesAhead /\ TriggersAhead /\ Silent /\ CompletedSecure

LEMMA StrictDelayTime ==
  ASSUME NEW t \in Tag, NEW c, c.delay \in Delay, c.delay # 0
  PROVE  lf_delay_strict(t, c.delay)[1] < t[1] + 1 + Lag(c) /\ lf_delay_strict(t, c.delay) \in Tag
<1>1. t[1] \in Int /\ NEVER <= t[1] /\ t[1] <= FOREVER /\ Lag(c) \in Nat /\ lf_delay_strict(t, c.delay) \in Tag
  BY TagParts, StrictDelayTag, WholeDelayed, WholeTags
<1>2. CASE t[1] = NEVER \/ c.delay < 0
  <2>1. lf_delay_tag(t, c.delay) = t
    BY <1>2 DEF lf_delay_tag
  <2>2. lf_delay_strict(t, c.delay) = t
    BY <1>2, <2>1, TagsAssumption DEF lf_delay_strict, Finite, Delay
  <2> QED  BY <1>1, <2>2
<1>3. CASE ~(t[1] = NEVER \/ c.delay < 0)
  <2>1. c.delay \in Nat /\ c.delay > 0 /\ Lag(c) = c.delay
    BY <1>3, TagsAssumption DEF Delay, Lag
  <2>2. \/ lf_delay_tag(t, c.delay) = FOREVER_TAG /\ t[1] >= FOREVER - c.delay
        \/ lf_delay_tag(t, c.delay) = <<t[1] + c.delay, 0>>
    BY <1>3, <2>1 DEF lf_delay_tag
  <2>3. lf_delay_tag(t, c.delay)[1] <= t[1] + c.delay /\ lf_delay_tag(t, c.delay)[1] \in Int
    BY <1>1, <2>1, <2>2, TagsAssumption DEF FOREVER_TAG
  <2>4. lf_delay_strict(t, c.delay)[1] <= lf_delay_tag(t, c.delay)[1]
    <3> DEFINE r == lf_delay_tag(t, c.delay)
    <3>1. lf_delay_strict(t, c.delay) = r \/ lf_delay_strict(t, c.delay) = <<r[1] - 1, UINT_MAX>>
      BY DEF lf_delay_strict
    <3> HIDE DEF r
    <3>2. r[1] \in Int
      BY <2>3 DEF r
    <3>3. lf_delay_strict(t, c.delay)[1] <= r[1]
      BY <3>1, <3>2
    <3> QED  BY <3>3 DEF r
  <2>5. lf_delay_strict(t, c.delay)[1] \in Int
    BY <1>1, TagParts
  <2> QED  BY <1>1, <2>1, <2>3, <2>4, <2>5
<1> QED  BY <1>2, <1>3

\* The time of the least delay of a path from i to e.
Dist(i, e) == min_delays[i][e][1]

LEMMA Distances ==
  ASSUME TypeInv, NetworkPlain, NEW e \in Fed
  PROVE  /\ \A i \in Fed : /\ min_delays[i][e] \in WholeTag /\ Dist(i, e) \in 0 .. FOREVER
                           /\ ~IsUpstream(i, e) => Dist(i, e) = FOREVER
         /\ \A c \in program.conn : /\ Dist(c.from, e) <= Lag(c) + Dist(c.to, e)
                                    /\ c.to = e => Dist(c.from, e) <= Lag(c)
<1> DEFINE D == PathDelays(program.conn, e)
<1>1. program.conn \subseteq Connection /\ \A c \in program.conn : c.delay # 0
  BY ProgramParts DEF TypeInv, NetworkPlain, Plain
<1>2. D \in [Fed -> WholeTag]
  BY <1>1, WholePaths
<1>3. \A i \in Fed : min_delays[i][e] = D[i]
  BY DEF NetworkPlain, MinDelays
<1>4. \A c \in program.conn : c.from \in Fed /\ c.to \in Fed
  BY LagNat DEF TypeInv
<1>5. \A c \in program.conn : /\ c.to = e => D[c.from][1] <= Lag(c)
                              /\ D[c.from][1] <= Lag(c) + D[c.to][1]
  BY <1>1, PathTriangle
<1> HIDE DEF D
<1>6. ASSUME NEW i \in Fed
      PROVE  /\ min_delays[i][e] \in WholeTag /\ Dist(i, e) \in 0 .. FOREVER
             /\ ~IsUpstream(i, e) => Dist(i, e) = FOREVER
  <2>1. min_delays[i][e] \in WholeTag
    BY <1>2, <1>3
  <2> QED  BY <2>1, WholeTags DEF Dist, IsUpstream, FOREVER_TAG
<1> QED  BY <1>3, <1>4, <1>5, <1>6 DEF Dist

\* The tag of the earliest message to come is whole, and not later than any
\* upstream federate can make it.
LEMMA WholeIncoming ==
  ASSUME TypeInv, NetworkPlain, WholeRTI, NEW e \in Fed
  PROVE  LET t == earliest_future_incoming_message_tag(node, e) IN
         /\ t \in WholeTag
         /\ \A i \in Fed : IsUpstream(i, e) => t[1] <= Heard(node[i].next_event)[1] + Dist(i, e)
<1> DEFINE S == {lf_tag_add(Heard(node[i].next_event), min_delays[i][e])
                   : i \in {j \in Fed : IsUpstream(j, e)}}
           t == earliest_future_incoming_message_tag(node, e)
<1>1. \A i \in Fed : Heard(node[i].next_event) \in WholeTag /\ min_delays[i][e] \in WholeTag
  BY Distances DEF WholeRTI
<1>2. \A i \in Fed : /\ lf_tag_add(Heard(node[i].next_event), min_delays[i][e]) \in WholeTag
                     /\ lf_tag_add(Heard(node[i].next_event), min_delays[i][e])[1]
                          <= Heard(node[i].next_event)[1] + Dist(i, e)
  BY <1>1, WholeSum DEF Dist
<1>3. S \subseteq WholeTag /\ S \subseteq Tag
  BY <1>2, WholeTags, SpecialTags
<1>4. t = Earliest(S)
  BY DEF earliest_future_incoming_message_tag
<1>5. t \in WholeTag
  <2> HIDE DEF S, t
  <2> QED  BY <1>3, <1>4, EarliestIsLeast, WholeTags
<1>6. ASSUME NEW i \in Fed, IsUpstream(i, e)
      PROVE  t[1] <= Heard(node[i].next_event)[1] + Dist(i, e)
  <2> DEFINE s == lf_tag_add(Heard(node[i].next_event), min_delays[i][e])
  <2>1. s \in S
    BY <1>6
  <2>2. s \in WholeTag
    BY <1>2
  <2>3. Leq(t, s)
    <3> HIDE DEF S, t, s
    <3> QED  BY <1>3, <1>4, <2>1, EarliestIsLeast
  <2>4. t[1] <= s[1] /\ t[1] \in Int /\ s[1] \in Int
    <3> HIDE DEF t, s
    <3> QED  BY <1>5, <2>2, <2>3, WholeOrder
  <2>5. s[1] <= Heard(node[i].next_event)[1] + Dist(i, e)
    BY <1>2
  <2>6. Heard(node[i].next_event)[1] \in Int /\ Dist(i, e) \in Int
    BY <1>1, Distances, WholeTags
  <2> HIDE DEF t, s
  <2> QED  BY <2>4, <2>5, <2>6
<1> QED  BY <1>5, <1>6

\* A grant before the earliest message to come.
LEMMA SecureByTime ==
  ASSUME AheadInv, NEW e \in Fed
  PROVE  Secure(e, lf_tag_latest_earlier(earliest_future_incoming_message_tag(node, e))[1])
<1> DEFINE d == earliest_future_incoming_message_tag(node, e)
           n == lf_tag_latest_earlier(d)[1]
           T == IF d[1] <= StopTime THEN d[1] ELSE StopTime + 1
           L == [i \in Fed |-> IF T <= Dist(i, e) THEN 0 ELSE T - Dist(i, e)]
<1>1. TypeInv /\ NetworkPlain /\ WholeRTI /\ MessagesAhead /\ TriggersAhead /\ NetworkOK
  BY DEF AheadInv, TypeInv
<1>2. d \in WholeTag /\ \A i \in Fed : IsUpstream(i, e) => d[1] <= Heard(node[i].next_event)[1] + Dist(i, e)
  BY <1>1, WholeIncoming
<1>3. \A i \in Fed : /\ Dist(i, e) \in 0 .. FOREVER /\ (~IsUpstream(i, e) => Dist(i, e) = FOREVER)
                     /\ Heard(node[i].next_event)[1] \in 0 .. FOREVER
  BY <1>1, Distances, WholeTags DEF WholeRTI
<1>4. \A c \in program.conn : Lag(c) \in Nat /\ c.from \in Fed /\ c.to \in Fed
  BY <1>1, LagNat
<1> HIDE DEF d
<1>5. d[1] \in 0 .. FOREVER /\ (d[1] <= StopTime => n = d[1] - 1)
  <2>1. d[1] \in 0 .. FOREVER /\ (d[1] < FOREVER => d = <<d[1], 0>>)
    BY <1>2, WholeTags
  <2>2. ASSUME d[1] <= StopTime PROVE n = d[1] - 1
    <3>1. d[1] < FOREVER /\ d = <<d[1], 0>>
      BY <2>1, <2>2, StopRange
    <3>2. d[2] = 0
      BY <3>1
    <3>3. d \notin {NEVER_TAG, FOREVER_TAG}
      BY <2>1, <3>1, StopRange DEF NEVER_TAG, FOREVER_TAG
    <3>4. lf_tag_latest_earlier(d) = <<d[1] - 1, UINT_MAX>>
      BY <3>2, <3>3 DEF lf_tag_latest_earlier
    <3> QED  BY <3>4
  <2> QED  BY <2>1, <2>2
<1>6. T \in 0 .. StopTime + 1 /\ T <= d[1] /\ (T <= StopTime => n < T) /\ (n < T \/ StopTime < T)
  BY <1>5, StopRange
<1> HIDE DEF T, n
<1>7. L \in Bounds /\ \A i \in Fed : /\ L[i] \in Int /\ 0 <= L[i] /\ T <= L[i] + Dist(i, e)
                                     /\ L[i] = 0 \/ L[i] + Dist(i, e) = T
  BY <1>3, <1>6, StopRange DEF Bounds
<1> HIDE DEF L
<1>8. \A i \in Fed : L[i] <= Heard(node[i].next_event)[1]
  <2> SUFFICES ASSUME NEW i \in Fed PROVE L[i] <= Heard(node[i].next_event)[1]
    OBVIOUS
  <2>1. CASE IsUpstream(i, e)
    <3>1. d[1] <= Heard(node[i].next_event)[1] + Dist(i, e)
      BY <1>2, <2>1
    <3> QED  BY <1>3, <1>5, <1>6, <1>7, <3>1
  <2>2. CASE ~IsUpstream(i, e)
    <3>1. L[i] = 0
      BY <1>3, <1>6, <1>7, <2>2, StopRange
    <3> QED  BY <1>3, <3>1
  <2> QED  BY <2>1, <2>2
<1>9. BelowTriggers(L)
  <2> SUFFICES ASSUME NEW f \in Fed, NEW x \in Time, Triggered(f, x) PROVE L[f] <= x
    BY DEF BelowTriggers
  <2>1. Heard(node[f].next_event)[1] <= x /\ x \in Int
    BY <1>1 DEF TriggersAhead, Ahead, KnownBefore, Time
  <2> QED  BY <1>3, <1>7, <1>8, <2>1
<1>10. \A c \in program.conn : L[c.to] <= L[c.from] + Lag(c) /\ (c.to = e => T <= L[c.from] + Lag(c))
  <2> SUFFICES ASSUME NEW c \in program.conn
               PROVE  L[c.to] <= L[c.from] + Lag(c) /\ (c.to = e => T <= L[c.from] + Lag(c))
    OBVIOUS
  <2>1. Dist(c.from, e) <= Lag(c) + Dist(c.to, e) /\ (c.to = e => Dist(c.from, e) <= Lag(c))
    BY <1>1, Distances
  <2> QED  BY <1>3, <1>4, <1>6, <1>7, <2>1
<1>11. \A f \in Fed : \A p \in 1 .. Len(up[f]) : up[f][p].type = "MSG" =>
         L[f] + Lag(up[f][p].conn) <= up[f][p].tag[1] /\ up[f][p].tag[1] <= StopTime
  <2> SUFFICES ASSUME NEW f \in Fed, NEW p \in 1 .. Len(up[f]), up[f][p].type = "MSG"
               PROVE  L[f] + Lag(up[f][p].conn) <= up[f][p].tag[1] /\ up[f][p].tag[1] <= StopTime
    OBVIOUS
  <2>1. Heard(node[f].next_event)[1] <= SentAt(up[f][p]) /\ up[f][p].tag[1] <= StopTime
    BY <1>1 DEF MessagesAhead, Ahead, KnownBefore
  <2>2. up[f][p].tag[1] \in Int /\ Lag(up[f][p].conn) \in Nat
    BY <1>1, <1>4, UpKinds DEF Time
  <2> QED  BY <1>3, <1>7, <1>8, <2>1, <2>2 DEF SentAt
<1>12. BelowMessages(L) /\ SecureMessages(e, n)
  <2>1. ASSUME NEW f \in Fed, NEW p \in 1 .. Len(up[f]), up[f][p].type = "MSG"
        PROVE  L[up[f][p].conn.to] <= up[f][p].tag[1] /\ (up[f][p].conn.to = e => n < up[f][p].tag[1])
    <3> DEFINE c == up[f][p].conn
    <3>1. c \in program.conn /\ c.from = f /\ c.to \in Fed /\ up[f][p].tag[1] \in Int
      BY <1>1, <2>1, UpKinds DEF Time
    <3>2. L[f] + Lag(c) <= up[f][p].tag[1] /\ up[f][p].tag[1] <= StopTime
      BY <1>11, <2>1
    <3>3. L[c.to] <= L[f] + Lag(c) /\ (c.to = e => T <= L[f] + Lag(c))
      BY <1>10, <3>1
    <3>4. L[c.to] \in Int /\ L[f] \in Int /\ Lag(c) \in Int /\ T \in Int
      BY <1>4, <1>6, <1>7, <3>1
    <3> HIDE DEF c
    <3>5. L[c.to] <= up[f][p].tag[1] /\ (c.to = e => T <= up[f][p].tag[1])
      BY <3>1, <3>2, <3>3, <3>4
    <3>6. c.to = e => n < T
      BY <1>6, <3>1, <3>2, <3>4, <3>5, StopRange
    <3>7. n \in Int
      <4>1. lf_tag_latest_earlier(d) \in Tag
        BY <1>2, WholeTags, SpecialTags, LatestEarlierTag
      <4> QED  BY <4>1, TagParts DEF n
    <3>8. L[c.to] <= up[f][p].tag[1] /\ (c.to = e => n < up[f][p].tag[1])
      BY <3>1, <3>4, <3>5, <3>6, <3>7
    <3> QED  BY <3>8 DEF c
  <2> QED  BY <2>1 DEF BelowMessages, SecureMessages
<1>13. Bound(L)
  BY <1>7, <1>9, <1>10, <1>12 DEF Bound, BelowSenders
<1>14. SecureSenders(e, n)
  <2> SUFFICES ASSUME NEW c \in ConnTo(e) PROVE Beyond(L, c, n)
    BY <1>7, <1>13 DEF SecureSenders
  <2>1. c \in program.conn /\ c.to = e
    BY DEF ConnTo
  <2>2. T <= L[c.from] + Lag(c) /\ L[c.from] \in Int /\ Lag(c) \in Int
    BY <1>4, <1>7, <1>10, <2>1
  <2>3. n \in Int
    <3>1. lf_tag_latest_earlier(d) \in Tag
      BY <1>2, WholeTags, SpecialTags, LatestEarlierTag
    <3> QED  BY <3>1, TagParts DEF n
  <2> QED  BY <1>6, <2>2, <2>3, StopRange DEF Beyond
<1> QED  BY <1>12, <1>14 DEF Secure, n, d

\* A federate with a confirmation reacts no more up to it.
LEMMA BeyondCompleted ==
  ASSUME AheadInv, NEW u \in Fed
  PROVE  \E L \in Bounds : Bound(L) /\ (StopTime < L[u] \/ (Connected(u) /\ node[u].completed[1] < L[u]))
<1>1. TypeInv /\ TriggersAhead /\ Silent /\ CompletedSecure
  BY DEF AheadInv
<1>2. CASE Connected(u)
  <2> DEFINE n == node[u].completed[1]
  <2>1. n \in Int
    BY <1>1, NodeParts, TagParts DEF TypeInv
  <2>2. \A x \in Time : Triggered(u, x) => n < x
    BY <1>1 DEF TriggersAhead, Ahead, KnownBefore
  <2>3. Secure(u, n)
    <3>1. CASE Upstreams(u) # {}
      BY <1>1, <3>1 DEF CompletedSecure
    <3>2. CASE Upstreams(u) = {}
      <4>1. ConnTo(u) = {}
        BY <3>2 DEF Upstreams
      <4>2. \A f \in Fed : \A p \in 1 .. Len(up[f]) : up[f][p].type = "MSG" => up[f][p].conn.to # u
        BY <1>1, <4>1, UpKinds
      <4> QED  BY <4>1, <4>2 DEF Secure, SecureSenders, SecureMessages
    <3> QED  BY <3>1, <3>2
  <2> HIDE DEF n
  <2>4. \E L \in Bounds : Bound(L) /\ (n < L[u] \/ StopTime < L[u])
    BY <1>1, <2>1, <2>2, <2>3, RaisedBound
  <2> QED  BY <1>2, <2>4 DEF n
<1>3. CASE ~Connected(u)
  <2>1. \A x \in Time : Triggered(u, x) => StopTime < x
    BY <1>1, <1>3 DEF Silent, Gone, Dead, Triggered
  <2>2. StopTime \in Int
    BY StopRange
  <2> QED  BY <1>1, <1>3, <2>1, <2>2, RaisedBound
<1> QED  BY <1>2, <1>3

\* A grant of what the upstream federates have confirmed.
LEMMA SecureByCompletion ==
  ASSUME AheadInv, NEW e \in Fed
  PROVE  Secure(e, MinUpstreamCompleted(node, e)[1])
<1> DEFINE t == MinUpstreamCompleted(node, e)
<1>1. TypeInv /\ NetworkPlain /\ NetworkOK /\ MessagesAhead /\ Silent /\ node \in [Fed -> Node]
  BY DEF AheadInv, TypeInv
<1>2. t \in Tag /\ \A c \in ConnTo(e) : Connected(c.from) => Leq(t, lf_delay_strict(node[c.from].completed, c.delay))
  BY <1>1, CompletedTag DEF Connected
<1> HIDE DEF t
<1>3. t[1] \in Int
  BY <1>2, TagParts
<1>4. ASSUME NEW c \in ConnTo(e)
      PROVE  /\ c \in program.conn /\ Lag(c) \in Nat /\ c.from \in Fed /\ node[c.from].completed[1] \in Int
             /\ Connected(c.from) => t[1] < node[c.from].completed[1] + 1 + Lag(c)
  <2>1. c \in program.conn /\ c.delay # 0
    BY <1>1 DEF ConnTo, NetworkPlain, Plain
  <2>2. Lag(c) \in Nat /\ c.from \in Fed /\ c.delay \in Delay
    BY <1>1, <2>1, LagNat
  <2>3. node[c.from].completed \in Tag
    BY <1>1, <2>2, NodeParts
  <2> DEFINE s == lf_delay_strict(node[c.from].completed, c.delay)
  <2>4. s[1] < node[c.from].completed[1] + 1 + Lag(c) /\ s \in Tag
    BY <2>1, <2>2, <2>3, StrictDelayTime
  <2>5. Connected(c.from) => Leq(t, s)
    BY <1>2
  <2> HIDE DEF s
  <2>6. Leq(t, s) => t[1] <= s[1]
    BY <1>2, <2>4, TagOrdering
  <2>7. s[1] \in Int /\ node[c.from].completed[1] \in Int
    BY <2>3, <2>4, TagParts
  <2> QED  BY <1>3, <2>1, <2>2, <2>4, <2>5, <2>6, <2>7
<1>5. SecureSenders(e, t[1])
  <2> SUFFICES ASSUME NEW c \in ConnTo(e) PROVE \E L \in Bounds : Bound(L) /\ Beyond(L, c, t[1])
    BY DEF SecureSenders
  <2>1. PICK L \in Bounds : /\ Bound(L)
                            /\ StopTime < L[c.from] \/ (Connected(c.from) /\ node[c.from].completed[1] < L[c.from])
    BY <1>4, BeyondCompleted
  <2>2. L[c.from] \in Int
    BY <1>4 DEF Bounds
  <2>3. Beyond(L, c, t[1])
    BY <1>3, <1>4, <2>1, <2>2, StopRange DEF Beyond
  <2> QED  BY <2>1, <2>3
<1>6. SecureMessages(e, t[1])
  <2> SUFFICES ASSUME NEW f \in Fed, NEW p \in 1 .. Len(up[f]), up[f][p].type = "MSG", up[f][p].conn.to = e
               PROVE  t[1] < up[f][p].tag[1]
    BY DEF SecureMessages
  <2> DEFINE c == up[f][p].conn
  <2>1. c \in ConnTo(e) /\ c.from = f /\ up[f][p].tag[1] \in Int
    BY <1>1, UpKinds DEF Time
  <2>2. Connected(f)
    BY <1>1 DEF Silent, OnlyNETs
  <2>3. node[f].completed[1] < up[f][p].tag[1] - Lag(c)
    BY <1>1 DEF MessagesAhead, Ahead, KnownBefore, SentAt
  <2> HIDE DEF c
  <2>4. t[1] < node[f].completed[1] + 1 + Lag(c) /\ Lag(c) \in Nat /\ node[f].completed[1] \in Int
    BY <1>4, <2>1, <2>2
  <2> QED  BY <1>3, <2>1, <2>3, <2>4, SMTT(30)
<1> QED  BY <1>5, <1>6 DEF Secure, t

GrantablesSecure ==
  \A e \in Fed : \A t \in Tag : Grantable(node, e, t) => Secure(e, t[1])

\* tag_advance_grant_if_safe(): whichever of its two rules the RTI follows, no
\* message will be sent to the federate up to the tag that it grants.
LEMMA GrantsAreSafe == AheadInv => GrantablesSecure
BY SecureByTime, SecureByCompletion DEF GrantablesSecure, Grantable

-----------------------------------------------------------------------------
(* What is secure stays so                                                 *)

\* The message p of f is one that is sent in the step.
Sends(f, p) ==
  LET m == up'[f][p] IN
  Triggered(f, SentAt(m)) /\ SentAt(m) \in Time /\ m.tag[1] <= StopTime

\* Events come from messages and messages from events; who has left stays away.
Moves ==
  /\ UNCHANGED network
  /\ \A f \in Fed : Connected(f)' => Connected(f)
  /\ \A e \in Fed : \A x \in Time : Triggered(e, x)' =>
       \/ Triggered(e, x)
       \/ Connected(e) /\ \E f \in Fed : \E p \in 1 .. Len(up[f]) :
            up[f][p].type = "MSG" /\ up[f][p].conn.to = e /\ up[f][p].tag[1] = x
  /\ \A f \in Fed : \A p \in 1 .. Len(up'[f]) : up'[f][p].type = "MSG" =>
       (\E q \in 1 .. Len(up[f]) : up'[f][p] = up[f][q]) \/ Sends(f, p)

\* Lag() and SentAt() have no state.
LEMMA BoundKept ==
  ASSUME TypeInv, TypeInv', Moves, NEW L, Bound(L)
  PROVE  Bound(L)'
<1>1. program' = program /\ L \in Bounds /\ \A f \in Fed : L[f] \in 0 .. StopTime + 1
  BY DEF Moves, network, Bound, Bounds
<1>2. BelowTriggers(L)'
  <2> SUFFICES ASSUME NEW f \in Fed, NEW x \in Time, Triggered(f, x)' PROVE L[f] <= x
    BY DEF BelowTriggers
  <2>1. CASE Triggered(f, x)
    BY <2>1 DEF Bound, BelowTriggers
  <2>2. ASSUME Connected(f), NEW g \in Fed, NEW p \in 1 .. Len(up[g]), up[g][p].type = "MSG",
               up[g][p].conn.to = f, up[g][p].tag[1] = x
        PROVE  L[f] <= x
    BY <2>2 DEF Bound, BelowMessages
  <2> QED  BY <2>1, <2>2 DEF Moves
<1>3. BelowSenders(L)'
  <2> SUFFICES ASSUME NEW c \in program.conn, Connected(c.to)' PROVE L[c.to] <= L[c.from] + Lag(c)
    BY <1>1 DEF BelowSenders, Lag
  <2>1. c.to \in Fed
    BY LagNat DEF TypeInv
  <2> QED  BY <2>1 DEF Moves, Bound, BelowSenders
<1>4. BelowMessages(L)'
  <2> SUFFICES ASSUME NEW f \in Fed, NEW p \in 1 .. Len(up'[f]), up'[f][p].type = "MSG",
                      node'[up'[f][p].conn.to].state # "NOT_CONNECTED"
               PROVE  L[up'[f][p].conn.to] <= up'[f][p].tag[1]
    BY DEF BelowMessages, Connected
  <2> DEFINE m == up'[f][p]
  <2>1. m \in UpMessage(f)' /\ UpMessage(f)' = UpMessage(f)
    BY SameProgram DEF Moves, TypeInv
  <2>2. m.conn \in ConnFrom(f) /\ m.conn.to \in Fed /\ m.tag \in EventTag
    BY <2>1, UpMessageKinds DEF TypeInv
  <2>3. m.conn \in program.conn /\ m.conn.from = f /\ Connected(m.conn.to)
    <3>1. node'[m.conn.to].state # "NOT_CONNECTED"
      OBVIOUS
    <3> HIDE DEF m
    <3>2. \A g \in Fed : node'[g].state # "NOT_CONNECTED" => Connected(g)
      BY DEF Moves, Connected
    <3> QED  BY <2>2, <3>1, <3>2 DEF ConnFrom
  <2>4. CASE \E q \in 1 .. Len(up[f]) : up'[f][p] = up[f][q]
    BY <2>3, <2>4 DEF Bound, BelowMessages
  <2>5. CASE Sends(f, p)
    <3>1. L[f] <= SentAt(m) /\ L[m.conn.to] <= L[f] + Lag(m.conn)
      BY <2>3, <2>5 DEF Sends, Bound, BelowTriggers, BelowSenders
    <3> HIDE DEF m
    <3>2. m.tag[1] \in Int /\ Lag(m.conn) \in Int
      BY <2>2, <2>3, LagNat, TagParts, SpecialTags, SMTT(30) DEF TypeInv
    <3>4. L[f] \in Int /\ L[m.conn.to] \in Int
      BY <1>1, <2>2
    <3>3. L[m.conn.to] <= m.tag[1]
      BY <3>1, <3>2, <3>4 DEF SentAt
    <3> QED  BY <3>3 DEF m
  <2> QED  BY <2>4, <2>5 DEF Moves
<1> QED  BY <1>1, <1>2, <1>3, <1>4 DEF Bound, Bounds

LEMMA SecureKept ==
  ASSUME TypeInv, TypeInv', Moves, NEW e \in Fed, NEW n \in Int, Secure(e, n)
  PROVE  Secure(e, n)'
<1>1. program' = program /\ ConnTo(e)' = ConnTo(e)
  BY SameProgram DEF Moves, network
<1>2. SecureSenders(e, n)'
  <2> SUFFICES ASSUME NEW c \in ConnTo(e) PROVE \E L \in Bounds : Bound(L)' /\ Beyond(L, c, n)
    BY <1>1 DEF SecureSenders, Beyond, Lag, Bounds
  <2>1. PICK L \in Bounds : Bound(L) /\ Beyond(L, c, n)
    BY DEF Secure, SecureSenders
  <2> QED  BY <2>1, BoundKept
<1>3. SecureMessages(e, n)'
  <2> SUFFICES ASSUME NEW f \in Fed, NEW p \in 1 .. Len(up'[f]), up'[f][p].type = "MSG", up'[f][p].conn.to = e
               PROVE  n < up'[f][p].tag[1]
    BY DEF SecureMessages
  <2> DEFINE m == up'[f][p]
  <2>1. CASE \E q \in 1 .. Len(up[f]) : m = up[f][q]
    BY <2>1 DEF Secure, SecureMessages
  <2>2. CASE Sends(f, p)
    <3>1. m \in UpMessage(f)' /\ UpMessage(f)' = UpMessage(f)
      BY SameProgram DEF Moves, TypeInv
    <3>2. m.conn \in ConnFrom(f) /\ m.tag \in EventTag
      BY <3>1, UpMessageKinds DEF TypeInv
    <3>3. m.conn \in ConnTo(e) /\ m.conn.from = f /\ m.conn \in program.conn
      BY <3>2 DEF ConnFrom, ConnTo
    <3>4. PICK L \in Bounds : Bound(L) /\ Beyond(L, m.conn, n)
      BY <3>3 DEF Secure, SecureSenders
    <3>5. L[f] <= SentAt(m) /\ m.tag[1] <= StopTime
      BY <2>2, <3>4 DEF Sends, Bound, BelowTriggers
    <3>7. n < L[f] + Lag(m.conn) \/ StopTime < L[f] + Lag(m.conn)
      BY <3>3, <3>4 DEF Beyond
    <3> HIDE DEF m
    <3>6. /\ Lag(m.conn) \in Int /\ m.tag[1] \in Int
          /\ L[f] \in Int /\ StopTime \in Int
      <4>1. Lag(m.conn) \in Int /\ m.tag[1] \in Int
        BY <3>2, <3>3, LagNat, TagParts, SpecialTags, SMTT(30) DEF TypeInv
      <4>2. L[f] \in Int /\ StopTime \in Int
        BY StopRange DEF Bounds
      <4> QED  BY <4>1, <4>2
    <3>8. n < m.tag[1]
      BY <3>5, <3>6, <3>7 DEF SentAt
    <3> QED  BY <3>8 DEF m
  <2> QED  BY <2>1, <2>2 DEF Moves
<1> QED  BY <1>2, <1>3 DEF Secure

LEMMA GrantsAreSafeAfter == AheadInv' => GrantablesSecure'
BY GrantsAreSafe, PTL

-----------------------------------------------------------------------------
(* What a step of a federate does to what it reacts to                     *)

LEMMA DownKinds ==
  ASSUME TypeInv, NEW f \in Fed, NEW p \in 1 .. Len(down[f])
  PROVE  /\ down[f][p] \in DownMessage(f) /\ down[f][p].tag \in Tag /\ Len(down[f]) \in Nat
         /\ down[f][p].type = "MSG" =>
              /\ down[f][p].conn \in ConnTo(f) /\ down[f][p].tag \in EventTag
              /\ down[f][p].tag[1] \in Time /\ Upstreams(f) # {}
<1>1. down[f][p] \in DownMessage(f) /\ Len(down[f]) \in Nat
  BY DEF TypeInv
<1>2. down[f][p].tag \in Tag /\ (down[f][p].type = "MSG" => down[f][p].conn \in ConnTo(f) /\ down[f][p].tag \in EventTag)
  BY <1>1, SpecialTags DEF DownMessage
<1>3. down[f][p].type = "MSG" => down[f][p].tag[1] \in Time /\ Upstreams(f) # {}
  BY <1>2, TagParts DEF Time, EventTag, Upstreams
<1> QED  BY <1>1, <1>2, <1>3

\* The events that a federate has or will have are later than its tag.
LEMMA EventsLater ==
  ASSUME TypeInv, AllOrderly, WholeRTI, FederatesSane, Deliveries, NEW f \in Fed, fed[f].started
  PROVE  /\ \A e \in fed[f].queue : fed[f].current[1] < e.tag[1]
         /\ \A p \in 1 .. Len(down[f]) : down[f][p].type = "MSG" => fed[f].current[1] < down[f][p].tag[1]
<1>1. /\ \A e \in fed[f].queue : Less(fed[f].current, e.tag) /\ e.tag \in WholeTag
      /\ fed[f].current \in WholeTag /\ (Upstreams(f) # {} => Leq(fed[f].current, fed[f].last_TAG))
      /\ fed[f].last_TAG \in Tag
  BY FedParts DEF AllOrderly, Orderly, FederatesSane, WholeFed, TypeInv
<1>2. \A e \in fed[f].queue : fed[f].current[1] < e.tag[1]
  BY <1>1, WholeOrder
<1>3. ASSUME NEW p \in 1 .. Len(down[f]), down[f][p].type = "MSG"
      PROVE  fed[f].current[1] < down[f][p].tag[1]
  <2>1. Upstreams(f) # {} /\ down[f][p].tag[1] \in Int
    BY <1>3, DownKinds DEF Time
  <2>2. fed[f].current \in Tag
    BY <1>1, WholeTags, SpecialTags
  <2>3. fed[f].current[1] <= fed[f].last_TAG[1] /\ fed[f].current[1] \in Int /\ fed[f].last_TAG[1] \in Int
    BY <1>1, <2>1, <2>2, TagOrdering
  <2>4. fed[f].last_TAG[1] < down[f][p].tag[1]
    BY <1>3 DEF Deliveries, Delivery
  <2> QED  BY <2>1, <2>3, <2>4
<1> QED  BY <1>2, <1>3

\* The next event is not later than the events.
LEMMA WholeNextEvent ==
  ASSUME TypeInv, FederatesSane, NEW f \in Fed
  PROVE  /\ NextEvent(fed[f]) \in WholeTag
         /\ \A e \in fed[f].queue : NextEvent(fed[f])[1] <= e.tag[1]
         /\ NextEvent(fed[f]) = STOP_TAG \/ \E e \in fed[f].queue : e.tag = NextEvent(fed[f])
<1>1. /\ \A e \in fed[f].queue : Leq(NextEvent(fed[f]), e.tag)
      /\ NextEvent(fed[f]) = STOP_TAG \/ \E e \in fed[f].queue : e.tag = NextEvent(fed[f])
  BY NextEventTag DEF TypeInv
<1>2. \A e \in fed[f].queue : e.tag \in WholeTag
  BY DEF FederatesSane, WholeFed
<1>3. NextEvent(fed[f]) \in WholeTag
  BY <1>1, <1>2, WholeTags
<1> QED  BY <1>1, <1>2, <1>3, WholeOrder

\* The announcement of the next event hides no event.
LEMMA NextEventReveals ==
  ASSUME TypeInv, WholeRTI, FederatesSane, Deliveries, NEW f \in Fed, ~Dead(f), NEW x \in Time,
         Queued(f, x) \/ Arriving(f, x)
  PROVE  Reveals(f, NextEvent(fed[f]), x)
<1>1. CASE Queued(f, x)
  BY <1>1, WholeNextEvent DEF Queued, Reveals
<1>2. CASE Arriving(f, x)
  <2>1. PICK p \in 1 .. Len(down[f]) : down[f][p].type = "MSG" /\ down[f][p].tag[1] = x
    BY <1>2 DEF Arriving
  <2>2. down[f][p].tag \in in_transit[f] /\ down[f][p].tag \in WholeTag /\ x <= StopTime
    BY <2>1 DEF Deliveries, Delivery, WholeRTI
  <2>3. down[f][p].tag = <<x, 0>>
    BY <2>1, <2>2, WholeTags, StopRange DEF Time
  <2> QED  BY <2>2, <2>3 DEF Reveals
<1> QED  BY <1>1, <1>2

\* f takes the first message from the RTI, or none.
Shifted(f, k) ==
  /\ k \in {0, 1} /\ Len(down[f]) = Len(down'[f]) + k
  /\ \A i \in 1 .. Len(down'[f]) : down'[f][i] = down[f][i + k]
Hears(f, k) ==
  /\ Shifted(f, k)
  /\ \/ fed'[f].last_TAG = fed[f].last_TAG
     \/ k = 1 /\ Len(down[f]) >= 1 /\ down[f][1].type = "TAG" /\ fed'[f].last_TAG = down[f][1].tag

LEMMA HearsNothing ==
  ASSUME TypeInv, NEW f \in Fed, down' = down, fed'[f].last_TAG = fed[f].last_TAG
  PROVE  Hears(f, 0)
<1>1. Len(down[f]) \in Nat
  BY DEF TypeInv
<1> QED  BY <1>1 DEF Hears, Shifted

LEMMA HearsOne ==
  ASSUME TypeInv, NEW f \in Fed, NEW type, Hear(f, type),
         \/ fed'[f].last_TAG = fed[f].last_TAG
         \/ type = "TAG" /\ fed'[f].last_TAG = Head(down[f]).tag
  PROVE  Hears(f, 1) /\ 1 \in 1 .. Len(down[f]) /\ Head(down[f]) = down[f][1] /\ down[f][1].type = type
         /\ \A g \in Fed \ {f} : down'[g] = down[g]
<1>1. Len(down[f]) \in Nat /\ Len(down'[f]) \in Nat
  BY Heeded DEF TypeInv
<1>2. /\ Head(down[f]) = down[f][1] /\ Head(down[f]).type = type /\ Len(down'[f]) = Len(down[f]) - 1
      /\ \A i \in 1 .. Len(down'[f]) : down'[f][i] = down[f][i + 1]
      /\ \A g \in Fed \ {f} : down'[g] = down[g]
  BY Heeded
<1> QED  BY <1>1, <1>2 DEF Hears, Shifted

LEMMA ArrivedBefore ==
  ASSUME TypeInv, NEW f \in Fed, NEW k, Hears(f, k), NEW x
  PROVE  Arriving(f, x)' => Arriving(f, x)
<1> SUFFICES ASSUME NEW p \in 1 .. Len(down'[f]), down'[f][p].type = "MSG", down'[f][p].tag[1] = x
             PROVE  Arriving(f, x)
  BY DEF Arriving
<1>1. Len(down[f]) \in Nat /\ Len(down[f]) = Len(down'[f]) + k /\ k \in {0, 1}
  BY DEF TypeInv, Hears, Shifted
<1>2. p + k \in 1 .. Len(down[f]) /\ down'[f][p] = down[f][p + k]
  BY <1>1 DEF Hears, Shifted
<1> QED  BY <1>2 DEF Arriving

\* What f is about to do is as before, but for the program counter.
Doing(f) ==
  /\ fed'[f].started = fed[f].started /\ fed'[f].current = fed[f].current
  /\ fed'[f].queue = fed[f].queue /\ fed'[f].todo = fed[f].todo
  /\ fed'[f].level = fed[f].level /\ fed'[f].active = fed[f].active
  /\ fed'[f].pc = "exec" => fed[f].pc = "exec"
  /\ fed'[f].pc # "fatal"
  /\ Gone(f) => Gone(f)'
  /\ Dead(f) => Dead(f)'

\* The federate keeps what matters about it.
Keeps(f) ==
  /\ UNCHANGED <<network, node, in_transit, confirming>> /\ Others(f)
  /\ \A g \in Fed \ {f} : down'[g] = down[g]
  /\ \E k \in {0, 1} : Hears(f, k)
  /\ \A x \in Time : Triggered(f, x)' => Triggered(f, x)
  /\ Gone(f) => Gone(f)'
  /\ Dead(f) => Dead(f)'
  /\ WholeFed(f)' /\ Sane(f)'

LEMMA DoingTriggers ==
  ASSUME TypeInv, UNCHANGED network, NEW f \in Fed, Doing(f), NEW k, Hears(f, k), NEW x, Triggered(f, x)'
  PROVE  /\ Triggered(f, x) /\ ~Dead(f)
         /\ fed'[f].pc # "exec" /\ fed[f].started => Queued(f, x) \/ Arriving(f, x)
<1>1. program' = program /\ ~Dead(f) /\ ~(Dead(f)')
  BY DEF network, Doing, Triggered
<1>2. Queued(f, x)' => Queued(f, x)
  BY DEF Doing, Queued
<1>3. Arriving(f, x)' => Arriving(f, x)
  BY ArrivedBefore
<1>4. Starting(f, x)' => Starting(f, x) /\ ~fed[f].started
  BY <1>1 DEF Doing, Starting
<1>5. Reacting(f, x)' => Reacting(f, x) /\ fed'[f].pc = "exec"
  BY DEF Doing, Reacting
<1>6. Queued(f, x)' \/ Arriving(f, x)' \/ Starting(f, x)' \/ Reacting(f, x)'
  BY DEF Triggered
<1> QED  BY <1>1, <1>2, <1>3, <1>4, <1>5, <1>6 DEF Triggered

LEMMA DoingKeeps ==
  ASSUME TypeInv, FederatesSane, NEW f \in Fed, Doing(f), NEW k, Hears(f, k), Others(f),
         UNCHANGED <<network, node, in_transit, confirming>>,
         \A g \in Fed \ {f} : down'[g] = down[g],
         fed'[f].last_skipped_NET \in WholeTag \cup {NEVER_TAG},
         \A x \in Time : Triggered(f, x)' => Reveals(f, fed'[f].last_skipped_NET, x)
  PROVE  Keeps(f)
<1>1. UNCHANGED network /\ in_transit' = in_transit /\ program' = program
  BY DEF network
<1>2. \A x \in Time : Triggered(f, x)' => Triggered(f, x)
  BY <1>1, DoingTriggers
<1>3. WholeFed(f)'
  BY DEF Doing, WholeFed, FederatesSane
<1>4. Sane(f)'
  <2>1. \A x \in Time : Triggered(f, x)' => Reveals(f, fed[f].last_skipped_NET, x)'
    BY <1>1 DEF Reveals
  <2>2. \A t \in program'.timer[f] : Pending(f, t)'
    BY <1>1 DEF FederatesSane, Sane, Pending, Doing
  <2>3. fed'[f].pc = "exec" => \A c \in fed'[f].todo : LevelOf(f, c) >= fed'[f].level
    BY DEF FederatesSane, Sane, Doing
  <2>4. fed'[f].pc # "fatal"
    BY DEF Doing
  <2> QED  BY <2>1, <2>2, <2>3, <2>4 DEF Sane, LevelOf
<1>5. k \in {0, 1}
  BY DEF Hears, Shifted
<1>6. (Gone(f) => Gone(f)') /\ (Dead(f) => Dead(f)')
  BY DEF Doing
<1> QED  BY <1>2, <1>3, <1>4, <1>5, <1>6 DEF Keeps

\* With the same announcements nothing is hidden that was not.
LEMMA SamePlansReveal ==
  ASSUME TypeInv, FederatesSane, UNCHANGED network, NEW f \in Fed, Doing(f), NEW k, Hears(f, k), SamePlans(fed'[f], fed[f])
  PROVE  /\ fed'[f].last_skipped_NET \in WholeTag \cup {NEVER_TAG}
         /\ \A x \in Time : Triggered(f, x)' => Reveals(f, fed'[f].last_skipped_NET, x)
<1>1. \A x \in Time : Triggered(f, x)' => Triggered(f, x)
  BY DoingTriggers
<1> QED  BY <1>1 DEF SamePlans, FederatesSane, WholeFed, Sane

-----------------------------------------------------------------------------
(* What a federate says                                                    *)

\* What f says is in accord with what it will still react to.
Says(f, m) ==
  /\ m.tag \in WholeTag
  /\ m.type = "NET" => \A x \in Time : Triggered(f, x)' => Reveals(f, m.tag, x)
  /\ m.type = "LTC" => /\ \A x \in Time : Triggered(f, x)' => m.tag[1] < x
                       /\ Upstreams(f) # {} => m.tag[1] <= fed[f].last_TAG[1]
  /\ m.type = "MSG" => Triggered(f, SentAt(m)) /\ SentAt(m) \in Time /\ m.tag[1] <= StopTime
  /\ m.type \in {"RESIGN", "FAILED", "EOF"} => Gone(f)'
  /\ m.type # "NET" => ~Gone(f)
Speaks(f, ms) ==
  /\ ms \in Seq(UpMessage(f)) /\ up'[f] = up[f] \o ms
  /\ \A i \in 1 .. Len(ms) : /\ Says(f, ms[i])
                             /\ ms[i].type \in {"RESIGN", "FAILED", "EOF"} => i = Len(ms)
                             /\ ms[i].type = "MSG" => Len(ms) = 1
FedMoves(f) == Keeps(f) /\ \E ms : Speaks(f, ms)

LEMMA SpeaksNothing ==
  ASSUME TypeInv, NEW f \in Fed, up'[f] = up[f]
  PROVE  \E ms : Speaks(f, ms)
<1>1. << >> \in Seq(UpMessage(f)) /\ up'[f] = up[f] \o << >> /\ Len(<< >>) = 0
  <2>1. up[f] \in Seq(UpMessage(f))
    BY DEF TypeInv
  <2> QED  BY <2>1, NothingAdded
<1>2. Speaks(f, << >>)
  BY <1>1 DEF Speaks
<1> QED  BY <1>2

LEMMA SpeaksOnce ==
  ASSUME NEW f \in Fed, NEW m \in UpMessage(f), up'[f] = up[f] \o <<m>>, Says(f, m)
  PROVE  \E ms : Speaks(f, ms)
<1>1. <<m>> \in Seq(UpMessage(f)) /\ Len(<<m>>) = 1 /\ <<m>>[1] = m
  OBVIOUS
<1>2. Speaks(f, <<m>>)
  BY <1>1 DEF Speaks
<1> QED  BY <1>2

LEMMA SpeaksTwice ==
  ASSUME NEW f \in Fed, NEW a \in UpMessage(f), NEW b \in UpMessage(f), up'[f] = up[f] \o (<<a>> \o <<b>>),
         Says(f, a), Says(f, b), a.type \in {"NET", "LTC"}, b.type # "MSG"
  PROVE  \E ms : Speaks(f, ms)
<1> DEFINE ms == <<a>> \o <<b>>
<1>1. ms \in Seq(UpMessage(f)) /\ Len(ms) = 2 /\ ms[1] = a /\ ms[2] = b
  <2>1. <<a>> \in Seq(UpMessage(f)) /\ <<b>> \in Seq(UpMessage(f))
    OBVIOUS
  <2>2. Len(<<a>>) = 1 /\ <<a>>[1] = a /\ Len(<<b>>) = 1 /\ <<b>>[1] = b
    OBVIOUS
  <2> QED  BY <2>1, <2>2, ConcatProperties
<1>2. up'[f] = up[f] \o ms
  OBVIOUS
<1> HIDE DEF ms
<1>3. \A i \in 1 .. 2 : i = 1 \/ i = 2
  OBVIOUS
<1>4. Speaks(f, ms)
  BY <1>1, <1>2, <1>3 DEF Speaks
<1> QED  BY <1>4

LEMMA MessageKinds ==
  ASSUME NEW f, NEW t \in EventTag
  PROVE  /\ Msg("NET", t, NULL) \in UpMessage(f) /\ Msg("LTC", t, NULL) \in UpMessage(f)
         /\ Msg("RESIGN", FOREVER_TAG, NULL) \in UpMessage(f)
         /\ \A type \in {"FAILED", "EOF"} : Msg(type, FOREVER_TAG, NULL) \in UpMessage(f)
         /\ \A c \in ConnFrom(f) : /\ Msg("MSG", t, c) \in UpMessage(f)
                                   /\ Msg("ABSENT", t, c) \in UpMessage(f)
         /\ \A type, tag, c : /\ Msg(type, tag, c).type = type /\ Msg(type, tag, c).tag = tag
                              /\ Msg(type, tag, c).conn = c
BY DEF Msg, UpMessage

LEMMA NeverReveals ==
  ASSUME NEW f, NEW x \in Time
  PROVE  Reveals(f, NEVER_TAG, x)
BY StopRange DEF Reveals, NEVER_TAG, Time

\* A NET that hides nothing.
LEMMA SaysNET ==
  ASSUME NEW f, NEW t \in WholeTag, \A x \in Time : Triggered(f, x)' => Reveals(f, t, x)
  PROVE  Says(f, Msg("NET", t, NULL)) /\ Msg("NET", t, NULL) \in UpMessage(f)
<1>1. Msg("NET", t, NULL).type = "NET" /\ Msg("NET", t, NULL).tag = t /\ Msg("NET", t, NULL) \in UpMessage(f)
  BY WholeTags, MessageKinds
<1> QED  BY <1>1 DEF Says

\* The LTC of the tag that f has executed.
LEMMA SaysLTC ==
  ASSUME NEW f, NEW t \in WholeTag, \A x \in Time : Triggered(f, x)' => t[1] < x,
         Upstreams(f) # {} => t[1] <= fed[f].last_TAG[1], ~Gone(f)
  PROVE  Says(f, Msg("LTC", t, NULL)) /\ Msg("LTC", t, NULL) \in UpMessage(f)
<1>1. Msg("LTC", t, NULL).type = "LTC" /\ Msg("LTC", t, NULL).tag = t /\ Msg("LTC", t, NULL) \in UpMessage(f)
  BY WholeTags, MessageKinds
<1> QED  BY <1>1 DEF Says

\* Asking for the tag t after the messages ms.
LEMMA AskedMoves ==
  ASSUME TypeInv, FederatesSane, NEW f \in Fed, UNCHANGED <<network, node, in_transit, confirming, down>>, Others(f),
         ~fed[f].failed, fed[f].pc \in {"start", "wait", "exec"},
         NEW t \in WholeTag, NEW ms, Asked(f, fed[f], t, ms),
         ms = << >> \/ \E m \in UpMessage(f) : ms = <<m>> /\ m.type = "LTC" /\ Says(f, m),
         \A x \in Time : Triggered(f, x)' => Reveals(f, t, x)
  PROVE  FedMoves(f)
<1>1. UNCHANGED network /\ fed'[f].pc \in {"advance", "wait"} /\ ~fed'[f].failed /\ ~Dead(f) /\ ~Gone(f)
  BY DEF Asked, Alike, network, Dead, Gone
<1>2. Doing(f)
  BY <1>1 DEF Asked, Alike, Doing
<1>3. Hears(f, 0)
  BY HearsNothing DEF Asked, Alike
<1>4. fed'[f].last_skipped_NET \in {NEVER_TAG, t}
  BY DEF Asked
<1>5. \A x \in Time : Reveals(f, NEVER_TAG, x)
  BY NeverReveals
<1>6. Keeps(f)
  BY <1>2, <1>3, <1>4, <1>5, DoingKeeps
<1> DEFINE net == Msg("NET", t, NULL)
<1>7. Says(f, net) /\ net \in UpMessage(f) /\ net.type = "NET"
  <2>1. Says(f, net) /\ net \in UpMessage(f)
    BY SaysNET
  <2> QED  BY <2>1 DEF net, Msg
<1> HIDE DEF net
<1>8. up'[f] = up[f] \o (ms \o <<net>>) \/ up'[f] = up[f] \o ms
  BY DEF Asked, net
<1>9. \E s : Speaks(f, s)
  <2>1. CASE ms = << >>
    <3>1. up'[f] = up[f] \o <<net>> \/ up'[f] = up[f]
      <4>1. << >> \o <<net>> = <<net>> /\ up[f] \o << >> = up[f]
        BY NothingAdded DEF TypeInv
      <4> QED  BY <1>8, <2>1, <4>1
    <3> QED  BY <1>7, <3>1, SpeaksNothing, SpeaksOnce
  <2>2. ASSUME NEW m \in UpMessage(f), ms = <<m>>, m.type = "LTC", Says(f, m) PROVE \E s : Speaks(f, s)
    BY <1>7, <1>8, <2>2, SpeaksOnce, SpeaksTwice
  <2> QED  BY <2>1, <2>2
<1> QED  BY <1>6, <1>9 DEF FedMoves

\* What holds before a step of a federate.
FedBase ==
  TypeInv /\ AllOrderly /\ NetworkPlain /\ WholeRTI /\ FederatesSane /\ Deliveries

LEMMA WorkingUnchanged ==
  ASSUME NEW f, NEW pc, Working(f, pc)
  PROVE  UNCHANGED <<network, node, in_transit, confirming, down>> /\ UNCHANGED network
BY DEF Working, network

LEMMA StartMoves ==
  ASSUME FedBase, NEW f \in Fed, Start(f)
  PROVE  FedMoves(f)
<1>1. TypeInv /\ AllOrderly /\ FederatesSane
  BY DEF FedBase
<1>2. UNCHANGED <<network, node, in_transit, confirming, down>>
  BY WorkingUnchanged DEF Start
<1>3. fed[f].pc = "start" /\ ~fed[f].failed /\ Others(f) /\ Asked(f, fed[f], fed[f].current, <<>>)
  BY <1>1, StartParts
<1>4. fed[f].current = ZERO_TAG
  BY <1>1, <1>3 DEF AllOrderly, Orderly
<1>5. \A x \in Time : Reveals(f, ZERO_TAG, x)
  BY DEF Reveals, ZERO_TAG, Time
<1> QED  BY <1>1, <1>2, <1>3, <1>4, <1>5, AskedMoves, WholeTags

\* What is left to react to once f does not execute.
LEMMA LeftToReact ==
  ASSUME FedBase, UNCHANGED <<network, node, in_transit, confirming, down>>, NEW f \in Fed,
         Doing(f), Hears(f, 0), fed[f].started, fed'[f].pc # "exec", NEW x \in Time, Triggered(f, x)'
  PROVE  Reveals(f, NextEvent(fed[f]), x) /\ fed[f].current[1] < x
<1>1. TypeInv /\ UNCHANGED network
  BY DEF FedBase, network
<1>2. ~Dead(f) /\ (Queued(f, x) \/ Arriving(f, x))
  BY <1>1, DoingTriggers
<1>3. Reveals(f, NextEvent(fed[f]), x)
  BY <1>2, NextEventReveals DEF FedBase
<1>4. fed[f].current[1] < x
  BY <1>2, EventsLater DEF FedBase, Queued, Arriving
<1> QED  BY <1>3, <1>4

LEMMA WakeMoves ==
  ASSUME FedBase, NEW f \in Fed, Wake(f), StartAnnounced'
  PROVE  FedMoves(f)
<1> DEFINE next == NextEvent(fed[f])
<1>1. TypeInv /\ AllOrderly /\ FederatesSane
  BY DEF FedBase
<1>2. UNCHANGED <<network, node, in_transit, confirming, down>> /\ UNCHANGED network /\ program' = program
  BY WorkingUnchanged DEF Wake, network
<1>3. /\ fed[f].pc = "wait" /\ ~fed[f].failed /\ Others(f) /\ next \in EventTag
      /\ \/ WakeAgain(f, next)
         \/ WakeUp(f)
         \/ WakeAsking(f, next)
         \/ SleepOn(f)
  BY <1>1, WakeParts
<1>4. next \in WholeTag
  BY <1>1, WholeNextEvent
<1>5. ~Dead(f) /\ ~Gone(f)
  BY <1>3 DEF Dead, Gone
<1> HIDE DEF next
<1>6. CASE WakeAgain(f, next)
  <2>1. fed[f].started /\ Asked(f, fed[f], next, <<>>)
    BY <1>6 DEF WakeAgain
  <2>2. Doing(f) /\ Hears(f, 0) /\ fed'[f].pc # "exec"
    <3>1. fed'[f].pc \in {"advance", "wait"} /\ Alike(fed'[f], fed[f])
      BY <2>1 DEF Asked
    <3> QED  BY <1>1, <1>2, <1>5, <3>1, HearsNothing DEF Alike, Doing
  <2>3. \A x \in Time : Triggered(f, x)' => Reveals(f, next, x)
    BY <1>2, <2>1, <2>2, LeftToReact DEF next
  <2> QED  BY <1>1, <1>2, <1>3, <1>4, <2>1, <2>3, AskedMoves
<1>7. CASE WakeUp(f) \/ SleepOn(f)
  <2>1. Alike(fed'[f], fed[f]) /\ fed'[f].pc \in {"advance", "wait"} /\ SamePlans(fed'[f], fed[f]) /\ up'[f] = up[f]
    BY <1>7 DEF WakeUp, SleepOn
  <2>2. Doing(f) /\ Hears(f, 0)
    BY <1>1, <1>2, <1>5, <2>1, HearsNothing DEF Alike, Doing
  <2>3. Keeps(f)
    BY <1>1, <1>2, <1>3, <2>1, <2>2, DoingKeeps, SamePlansReveal
  <2> QED  BY <1>1, <2>1, <2>3, SpeaksNothing DEF FedMoves
<1>8. CASE WakeAsking(f, next)
  <2>1. /\ Alike(fed'[f], fed[f]) /\ fed'[f].pc = "wait" /\ fed'[f].last_skipped_NET = NEVER_TAG
        /\ fed'[f].last_sent_NET = next /\ up'[f] = up[f] \o <<Msg("NET", next, NULL)>>
    BY <1>8 DEF WakeAsking
  <2>2. Doing(f) /\ Hears(f, 0)
    BY <1>1, <1>2, <1>5, <2>1, HearsNothing DEF Alike, Doing
  <2>3. \A x \in Time : Reveals(f, NEVER_TAG, x)
    BY NeverReveals
  <2>4. Keeps(f)
    BY <1>1, <1>2, <1>3, <2>1, <2>2, <2>3, DoingKeeps
  <2>5. ASSUME NEW x \in Time, Triggered(f, x)' PROVE Reveals(f, next, x)
    <3>1. CASE Queued(f, x) \/ Arriving(f, x)
      BY <1>5, <3>1, NextEventReveals DEF FedBase, next
    <3>2. CASE Starting(f, x)
      <4>1. Upstreams(f) # {} /\ Upstreams(f)' = Upstreams(f)
        BY <1>1, <1>2, <1>3, SameProgram DEF AllOrderly, Orderly
      <4>2. next \in {NEVER_TAG, ZERO_TAG}
        BY <1>2, <2>1, <3>2, <4>1 DEF StartAnnounced, Starting, Alike
      <4> QED  BY <2>3, <4>2 DEF Reveals, ZERO_TAG, Time
    <3>3. Queued(f, x) \/ Arriving(f, x) \/ Starting(f, x)
      <4>1. Triggered(f, x)
        BY <1>1, <1>2, <2>2, <2>5, DoingTriggers
      <4> QED  BY <1>3, <4>1 DEF Triggered, Reacting
    <3> QED  BY <3>1, <3>2, <3>3
  <2>6. Says(f, Msg("NET", next, NULL)) /\ Msg("NET", next, NULL) \in UpMessage(f)
    BY <1>4, <2>5, SaysNET
  <2> QED  BY <2>1, <2>4, <2>6, SpeaksOnce DEF FedMoves
<1> QED  BY <1>3, <1>6, <1>7, <1>8

-----------------------------------------------------------------------------
(* The steps of the workers and of the listener                            *)

\* What is left alone by all of them.
Elsewhere(f) ==
  /\ UNCHANGED network /\ UNCHANGED <<node, in_transit, confirming>> /\ Others(f)
  /\ \A g \in Fed \ {f} : down'[g] = down[g]

LEMMA BaseParts ==
  ASSUME FedBase
  PROVE  TypeInv /\ AllOrderly /\ NetworkPlain /\ WholeRTI /\ FederatesSane /\ Deliveries
BY DEF FedBase

LEMMA SameDown ==
  ASSUME NEW f, NEW pc, Working(f, pc), Others(f)
  PROVE  Elsewhere(f) /\ down' = down
BY DEF Working, Elsewhere, network

LEMMA DoingMoves ==
  ASSUME FedBase, NEW f \in Fed, Elsewhere(f), Doing(f), NEW k, Hears(f, k),
         SamePlans(fed'[f], fed[f]), \E ms : Speaks(f, ms)
  PROVE  FedMoves(f)
<1>1. UNCHANGED <<network, node, in_transit, confirming>> /\ UNCHANGED network
  BY DEF Elsewhere, network
<1>2. Others(f) /\ \A g \in Fed \ {f} : down'[g] = down[g]
  BY DEF Elsewhere
<1>3. /\ fed'[f].last_skipped_NET \in WholeTag \cup {NEVER_TAG}
      /\ \A x \in Time : Triggered(f, x)' => Reveals(f, fed'[f].last_skipped_NET, x)
  BY <1>1, BaseParts, SamePlansReveal
<1>4. Keeps(f)
  BY <1>1, <1>2, <1>3, BaseParts, DoingKeeps
<1> QED  BY <1>4 DEF FedMoves

LEMMA QuietMoves ==
  ASSUME FedBase, NEW f \in Fed, Elsewhere(f), Quiet(f), NEW k, Hears(f, k), up'[f] = up[f]
  PROVE  FedMoves(f)
<1>1. fed[f].pc # "fatal"
  BY BaseParts DEF FederatesSane, Sane
<1>2. Alike(fed'[f], fed[f]) /\ SamePlans(fed'[f], fed[f]) /\ fed'[f].pc = fed[f].pc
  BY DEF Quiet
<1>3. Doing(f)
  BY <1>1, <1>2 DEF Doing, Alike, Gone, Dead
<1>4. \E ms : Speaks(f, ms)
  BY BaseParts, SpeaksNothing
<1> QED  BY <1>2, <1>3, <1>4, DoingMoves

\* A step that deals with a connection.
LEMMA DealtKeeps ==
  ASSUME FedBase, NEW f \in Fed, Elsewhere(f), down' = down, fed[f].pc = "exec", ~fed[f].failed,
         NEW c \in fed[f].todo, DealsWith(f, c, LevelOf(f, c)),
         fed'[f].active => fed[f].active \/ c.to = f
  PROVE  Keeps(f)
<1>1. /\ fed'[f].pc = "exec" /\ fed'[f].todo = fed[f].todo \ {c} /\ fed'[f].level = LevelOf(f, c)
      /\ fed'[f].failed = fed[f].failed /\ fed'[f].started = fed[f].started
      /\ fed'[f].current = fed[f].current /\ fed'[f].queue = fed[f].queue
      /\ fed'[f].last_TAG = fed[f].last_TAG /\ fed'[f].last_skipped_NET = fed[f].last_skipped_NET
  BY DEF DealsWith, SamePlans
<1>2. Hears(f, 0)
  BY <1>1, BaseParts, HearsNothing
<1>3. program' = program
  BY DEF Elsewhere, network
<1>4. ~Dead(f) /\ ~Gone(f)
  BY DEF Dead, Gone
<1>5. ASSUME NEW x \in Time, Triggered(f, x)' PROVE Triggered(f, x)
  <2>1. Reacting(f, x)' => Reacting(f, x)
    BY <1>1 DEF Reacting
  <2>2. Queued(f, x)' => Queued(f, x)
    BY <1>1 DEF Queued
  <2>3. Arriving(f, x)' => Arriving(f, x)
    BY DEF Arriving
  <2>4. Starting(f, x)' => Starting(f, x)
    BY <1>1, <1>3 DEF Starting
  <2> QED  BY <1>4, <1>5, <2>1, <2>2, <2>3, <2>4 DEF Triggered
<1>6. WholeFed(f)'
  <2>1. WholeFed(f)
    BY BaseParts DEF FederatesSane
  <2> QED  BY <1>1, <2>1 DEF WholeFed
<1>7. Sane(f)'
  <2>1. Sane(f)
    BY BaseParts DEF FederatesSane
  <2>2. in_transit' = in_transit
    BY DEF Elsewhere
  <2>3. \A x \in Time : Triggered(f, x)' => Reveals(f, fed[f].last_skipped_NET, x)'
    BY <1>1, <1>5, <2>1, <2>2 DEF Sane, Reveals
  <2>4. \A t \in program'.timer[f] : Pending(f, t)'
    BY <1>1, <1>3, <2>1 DEF Sane, Pending
  <2>5. \A d \in fed'[f].todo : LevelOf(f, d) >= fed'[f].level
    <3>1. \A d \in fed[f].todo : LevelOf(f, c) <= LevelOf(f, d)
      BY DEF DealsWith, FirstLevel
    <3>2. \A d \in fed[f].todo : LevelOf(f, d) \in Nat
      <4>1. fed[f].todo \subseteq program.conn /\ \A d \in program.conn : d.in \in Nat /\ d.out \in Nat
        BY BaseParts, ProgramParts, FedParts DEF TypeInv
      <4> QED  BY <4>1 DEF LevelOf
    <3> QED  BY <1>1, <3>1, <3>2
  <2>6. fed'[f].pc # "fatal"
    BY <1>1
  <2> QED  BY <1>1, <2>3, <2>4, <2>5, <2>6 DEF Sane
<1> QED  BY <1>2, <1>4, <1>5, <1>6, <1>7 DEF Keeps, Elsewhere, network

LEMMA InputMoves ==
  ASSUME FedBase, NEW f \in Fed, NEW c, ExecuteInput(f, c)
  PROVE  FedMoves(f)
<1>1. /\ fed[f].pc = "exec" /\ ~fed[f].failed /\ Others(f) /\ up'[f] = up[f]
      /\ c \in ConnTo(f) /\ c \in fed[f].todo /\ DealsWith(f, c, c.in)
  BY BaseParts, InputParts
<1>2. Elsewhere(f) /\ down' = down
  BY <1>1, SameDown DEF ExecuteInput
<1>3. c.to = f /\ LevelOf(f, c) = c.in
  BY <1>1 DEF ConnTo, LevelOf
<1>4. Keeps(f)
  BY <1>1, <1>2, <1>3, DealtKeeps
<1> QED  BY <1>1, <1>4, BaseParts, SpeaksNothing DEF FedMoves

LEMMA SendMoves ==
  ASSUME FedBase, NEW f \in Fed, NEW c, SendMessage(f, c)
  PROVE  FedMoves(f)
<1> DEFINE tag == lf_delay_tag(fed[f].current, c.delay)
<1> DEFINE m == Msg("MSG", tag, c)
<1>1. /\ fed[f].pc = "exec" /\ ~fed[f].failed /\ Others(f)
      /\ c \in ConnFrom(f) /\ c \in fed[f].todo /\ DealsWith(f, c, c.out) /\ fed[f].active
      /\ SentOn(f, c)
  BY BaseParts, SendParts
<1>2. Elsewhere(f) /\ down' = down
  BY <1>1, SameDown DEF SendMessage
<1>3. c.to # f /\ LevelOf(f, c) = c.out /\ c.delay \in Delay /\ c.delay # 0
  <2>1. c \in program.conn /\ c.from = f /\ NetworkOK
    BY <1>1, BaseParts DEF ConnFrom, TypeInv
  <2>2. c.from # c.to /\ c.delay \in Delay
    BY <2>1, ProgramParts
  <2>3. c.delay # 0
    BY <2>1, BaseParts DEF NetworkPlain, Plain
  <2> QED  BY <2>1, <2>2, <2>3 DEF LevelOf
<1>4. Keeps(f)
  BY <1>1, <1>2, <1>3, DealtKeeps
<1>5. fed[f].current \in WholeTag
  BY BaseParts DEF FederatesSane, WholeFed
<1>6. /\ Lag(c) \in Nat /\ tag \in WholeTag
      /\ tag[1] = FOREVER \/ tag[1] = fed[f].current[1] + Lag(c)
  BY <1>3, <1>5, WholeDelayed
<1>7. ~Less(STOP_TAG, tag) => tag[1] <= StopTime
  BY <1>6, WholeTags, WholeOrder DEF STOP_TAG
<1>8. fed[f].current[1] \in Time /\ tag[1] \in Time
  BY <1>5, <1>6, WholeTags DEF Time
<1>9. m.tag = tag /\ m.type = "MSG" /\ m.conn = c
  BY DEF Msg
<1>10. m \in UpMessage(f)
  BY <1>1, <1>6, MessageKinds, WholeTags
<1>11. up'[f] = up[f] \/ (~Less(STOP_TAG, tag) /\ up'[f] = up[f] \o <<m>>)
  BY <1>1 DEF SentOn
<1> HIDE DEF tag, m
<1>12. CASE up'[f] = up[f]
  BY <1>4, <1>12, BaseParts, SpeaksNothing DEF FedMoves
<1>13. CASE ~Less(STOP_TAG, tag) /\ up'[f] = up[f] \o <<m>>
  <2>1. SentAt(m) = fed[f].current[1] /\ tag[1] <= StopTime
    BY <1>6, <1>7, <1>8, <1>9, <1>13, StopRange DEF SentAt, Time
  <2>2. Triggered(f, fed[f].current[1]) /\ ~Gone(f)
    BY <1>1 DEF Triggered, Dead, Gone, Reacting
  <2>3. Says(f, m)
    BY <1>6, <1>8, <1>9, <2>1, <2>2 DEF Says
  <2> QED  BY <1>4, <1>10, <1>13, <2>3, SpeaksOnce DEF FedMoves
<1> QED  BY <1>11, <1>12, <1>13

LEMMA AbsentMoves ==
  ASSUME FedBase, NEW f \in Fed, NEW c, SendAbsent(f, c)
  PROVE  FedMoves(f)
<1> DEFINE m == Msg("ABSENT", fed[f].current, c)
<1>1. /\ fed[f].pc = "exec" /\ ~fed[f].failed /\ Others(f)
      /\ c \in ConnFrom(f) /\ c \in fed[f].todo /\ DealsWith(f, c, c.out)
      /\ fed'[f].active = fed[f].active
      /\ up'[f] = up[f] \/ up'[f] = up[f] \o <<m>>
  BY BaseParts, AbsentParts
<1>2. Elsewhere(f) /\ down' = down
  BY <1>1, SameDown DEF SendAbsent
<1>3. LevelOf(f, c) = c.out
  <2>1. c \in program.conn /\ c.from = f /\ NetworkOK
    BY <1>1, BaseParts DEF ConnFrom, TypeInv
  <2>2. c.from # c.to
    BY <2>1, ProgramParts
  <2> QED  BY <2>1, <2>2 DEF LevelOf
<1>4. Keeps(f)
  BY <1>1, <1>2, <1>3, DealtKeeps
<1>5. fed[f].current \in WholeTag /\ ~Gone(f)
  BY <1>1, BaseParts DEF FederatesSane, WholeFed, Gone
<1>6. m.tag = fed[f].current /\ m.type = "ABSENT"
  BY DEF Msg
<1>7. m \in UpMessage(f)
  BY <1>1, <1>5, MessageKinds, WholeTags
<1> HIDE DEF m
<1>8. Says(f, m)
  BY <1>5, <1>6 DEF Says
<1> QED  BY <1>1, <1>4, <1>7, <1>8, BaseParts, SpeaksNothing, SpeaksOnce DEF FedMoves

LEMMA ExecutingParts ==
  ASSUME FedBase, NEW f \in Fed, fed[f].pc = "exec"
  PROVE  /\ fed[f].started /\ fed[f].current \in WholeTag
         /\ Upstreams(f) # {} => fed[f].current[1] <= fed[f].last_TAG[1]
<1>1. Orderly(f) /\ fed[f] \in FedState(f)
  BY BaseParts DEF AllOrderly, TypeInv
<1>2. fed[f].started
  BY <1>1, FedParts DEF Orderly
<1>3. Upstreams(f) # {} => Leq(fed[f].current, fed[f].last_TAG)
  BY <1>1, <1>2 DEF Orderly
<1>4. fed[f].current \in Tag /\ fed[f].last_TAG \in Tag
  BY <1>1, FedParts
<1>5. fed[f].current \in WholeTag
  BY BaseParts DEF FederatesSane, WholeFed
<1> QED  BY <1>2, <1>3, <1>4, <1>5, TagOrdering

LEMMA CompleteMoves ==
  ASSUME FedBase, NEW f \in Fed, Complete(f)
  PROVE  FedMoves(f)
<1> DEFINE lt == Msg("LTC", fed[f].current, NULL)
<1>1. fed[f].pc = "exec" /\ ~fed[f].failed /\ Others(f)
  BY BaseParts, CompleteParts
<1>2. PICK ms \in Seq(UpMessage(f)) :
        /\ IsLTC(f, ms)
        /\ \/ /\ Leq(STOP_TAG, fed[f].current) /\ fed'[f].pc = "stopping"
              /\ Alike(fed'[f], fed[f]) /\ SamePlans(fed'[f], fed[f])
              /\ up'[f] = up[f] \o ms
           \/ Asked(f, fed[f], NextEvent(fed[f]), ms)
  BY BaseParts, CompleteParts
<1>3. Elsewhere(f) /\ down' = down
  BY <1>1, SameDown DEF Complete
<1>4. UNCHANGED <<network, node, in_transit, confirming, down>>
  BY <1>3 DEF Elsewhere
<1>5. fed[f].started /\ fed[f].current \in WholeTag /\ (Upstreams(f) # {} => fed[f].current[1] <= fed[f].last_TAG[1])
  BY <1>1, ExecutingParts
<1>6. Alike(fed'[f], fed[f]) /\ fed'[f].pc \in {"stopping", "advance", "wait"}
  BY <1>2 DEF Asked
<1>7. ~Gone(f) /\ ~Dead(f)
  BY <1>1 DEF Gone, Dead
<1>8. Doing(f)
  BY <1>6, <1>7 DEF Doing, Alike
<1>9. Hears(f, 0)
  BY <1>3, <1>6, BaseParts, HearsNothing DEF Alike
<1>10. \A x \in Time : Triggered(f, x)' => Reveals(f, NextEvent(fed[f]), x) /\ fed[f].current[1] < x
  BY <1>4, <1>5, <1>6, <1>8, <1>9, LeftToReact
<1>11. Says(f, lt) /\ lt \in UpMessage(f) /\ lt.type = "LTC"
  <2>1. Says(f, lt) /\ lt \in UpMessage(f)
    BY <1>5, <1>7, <1>10, SaysLTC
  <2> QED  BY <2>1 DEF Msg
<1>12. ms = << >> \/ ms = <<lt>>
  BY <1>2 DEF IsLTC
<1> HIDE DEF lt
<1>13. CASE fed'[f].pc = "stopping" /\ SamePlans(fed'[f], fed[f]) /\ up'[f] = up[f] \o ms
  <2>1. \E s : Speaks(f, s)
    <3>1. CASE ms = << >>
      <4>1. up'[f] = up[f]
        BY <1>13, <3>1, NothingAdded, BaseParts DEF TypeInv
      <4> QED  BY <4>1, BaseParts, SpeaksNothing
    <3>2. CASE ms = <<lt>>
      BY <1>11, <1>13, <3>2, SpeaksOnce
    <3> QED  BY <1>12, <3>1, <3>2
  <2> QED  BY <1>3, <1>8, <1>9, <1>13, <2>1, DoingMoves
<1>14. CASE Asked(f, fed[f], NextEvent(fed[f]), ms)
  <2>1. NextEvent(fed[f]) \in WholeTag
    BY BaseParts, WholeNextEvent
  <2>2. ms = << >> \/ \E m \in UpMessage(f) : ms = <<m>> /\ m.type = "LTC" /\ Says(f, m)
    BY <1>11, <1>12
  <2>3. TypeInv /\ FederatesSane
    BY BaseParts
  <2> QED  BY <1>1, <1>4, <1>10, <1>14, <2>1, <2>2, <2>3, AskedMoves
<1> QED  BY <1>2, <1>13, <1>14

\* Who ends reacts to nothing any more.
LEMMA EndMoves ==
  ASSUME FedBase, NEW f \in Fed, Elsewhere(f), down' = down, Dead(f)', Doing(f),
         fed'[f].last_TAG = fed[f].last_TAG,
         fed'[f].last_skipped_NET \in WholeTag \cup {NEVER_TAG},
         \E ms : Speaks(f, ms)
  PROVE  FedMoves(f)
<1>1. \A x \in Time : ~Triggered(f, x)'
  BY DEF Triggered
<1>2. Hears(f, 0)
  BY BaseParts, HearsNothing
<1>3. UNCHANGED <<network, node, in_transit, confirming>> /\ Others(f)
  BY DEF Elsewhere
<1>4. Keeps(f)
  BY <1>1, <1>2, <1>3, BaseParts, DoingKeeps
<1> QED  BY <1>4 DEF FedMoves

LEMMA LeaveMoves ==
  ASSUME FedBase, NEW f \in Fed, Leave(f)
  PROVE  FedMoves(f)
<1> DEFINE resign == Msg("RESIGN", FOREVER_TAG, NULL)
<1> DEFINE last == Msg("NET", FOREVER_TAG, NULL)
<1>1. /\ fed[f].pc = "stopping" /\ ~fed[f].failed /\ Others(f)
      /\ Alike(fed'[f], fed[f]) /\ fed'[f].pc = "done"
      /\ fed'[f].last_skipped_NET \in {FOREVER_TAG, NEVER_TAG}
      /\ up'[f] = up[f] \o <<resign>> \/ up'[f] = up[f] \o (<<last>> \o <<resign>>)
  BY BaseParts, LeaveParts
<1>2. Elsewhere(f) /\ down' = down
  BY <1>1, SameDown DEF Leave
<1>3. ~Gone(f) /\ Gone(f)' /\ Dead(f)'
  BY <1>1 DEF Gone, Dead
<1>4. Doing(f)
  BY <1>1, <1>3 DEF Doing, Alike
<1>5. \A x \in Time : ~Triggered(f, x)'
  BY <1>3 DEF Triggered
<1>6. Says(f, last) /\ last \in UpMessage(f)
  BY <1>5, SaysNET, WholeTags
<1>7. resign \in UpMessage(f)
  BY WholeTags, MessageKinds, SpecialTags
<1>8. resign.tag = FOREVER_TAG /\ resign.type = "RESIGN" /\ last.type = "NET"
  BY DEF Msg
<1> HIDE DEF last, resign
<1>9. Says(f, resign)
  BY <1>3, <1>8, WholeTags DEF Says
<1>10. \E ms : Speaks(f, ms)
  BY <1>1, <1>6, <1>7, <1>8, <1>9, SpeaksOnce, SpeaksTwice
<1>11. fed'[f].last_TAG = fed[f].last_TAG /\ fed'[f].last_skipped_NET \in WholeTag \cup {NEVER_TAG}
  BY <1>1, WholeTags DEF Alike
<1> QED  BY <1>2, <1>3, <1>4, <1>10, <1>11, EndMoves

LEMMA FailMoves ==
  ASSUME FedBase, NEW f \in Fed, Fail(f)
  PROVE  FedMoves(f)
<1>0. PICK type \in {"FAILED", "EOF"} : up'[f] = up[f] \o <<Msg(type, FOREVER_TAG, NULL)>>
  BY BaseParts, FailParts
<1> DEFINE failed == Msg(type, FOREVER_TAG, NULL)
<1>1. /\ ~fed[f].failed /\ fed[f].pc \notin {"stopping", "done", "fatal"} /\ Others(f)
      /\ fed'[f].failed = TRUE /\ fed'[f].pc = fed[f].pc /\ fed'[f].started = fed[f].started
      /\ fed'[f].current = fed[f].current /\ fed'[f].queue = fed[f].queue
      /\ fed'[f].todo = fed[f].todo /\ fed'[f].level = fed[f].level /\ fed'[f].active = fed[f].active
      /\ fed'[f].last_TAG = fed[f].last_TAG /\ SamePlans(fed'[f], fed[f])
      /\ up'[f] = up[f] \o <<failed>> /\ down' = down
  BY <1>0, BaseParts, FailParts
<1>2. Elsewhere(f)
  BY <1>1 DEF Elsewhere, Fail, network
<1>3. ~Gone(f) /\ Gone(f)' /\ Dead(f)'
  BY <1>1 DEF Gone, Dead
<1>4. Doing(f)
  BY <1>1, <1>3 DEF Doing
<1>5. failed \in UpMessage(f)
  BY WholeTags, MessageKinds, SpecialTags
<1>6. failed.tag = FOREVER_TAG /\ failed.type \in {"FAILED", "EOF"}
  BY DEF Msg
<1> HIDE DEF failed
<1>7. Says(f, failed)
  BY <1>3, <1>6, WholeTags DEF Says
<1>8. \E ms : Speaks(f, ms)
  BY <1>1, <1>5, <1>7, SpeaksOnce
<1>9. fed'[f].last_skipped_NET \in WholeTag \cup {NEVER_TAG}
  BY <1>1, BaseParts DEF SamePlans, FederatesSane, WholeFed
<1> QED  BY <1>1, <1>2, <1>3, <1>4, <1>8, <1>9, EndMoves

\* Every event before the tag to which f advances is executed.
LEMMA AdvanceMoves ==
  ASSUME FedBase, NEW f \in Fed, AdvanceTag(f)
  PROVE  FedMoves(f)
<1> DEFINE next == NextTag(f)
<1> DEFINE popped == {e \in fed[f].queue : e.tag = next}
<1>1. /\ fed[f].pc = "advance" /\ ~fed[f].failed /\ Others(f) /\ up'[f] = up[f] /\ next \in EventTag
      /\ Advanced(f)
  BY BaseParts, AdvanceParts
<1>2. /\ fed'[f].pc = "exec" /\ fed'[f].started /\ fed'[f].current = next
      /\ fed'[f].queue = fed[f].queue \ popped
      /\ fed'[f].todo = ({e.conn : e \in popped} \ {NULL}) \cup ConnFrom(f)
      /\ fed'[f].level = 0 /\ fed'[f].active = (next[2] = 0 /\ next[1] \in program.timer[f])
      /\ fed'[f].last_TAG = fed[f].last_TAG /\ fed'[f].failed = fed[f].failed
      /\ SamePlans(fed'[f], fed[f])
  BY <1>1 DEF Advanced
<1>3. Elsewhere(f) /\ down' = down
  BY <1>1, SameDown DEF AdvanceTag
<1>4. Hears(f, 0)
  BY <1>2, <1>3, BaseParts, HearsNothing
<1>5. program' = program /\ in_transit' = in_transit
  BY <1>3 DEF Elsewhere, network
<1>6. ~Dead(f) /\ ~Gone(f)
  BY <1>1 DEF Dead, Gone
<1>7. WholeFed(f) /\ Sane(f) /\ Orderly(f) /\ fed[f] \in FedState(f)
  BY BaseParts DEF FederatesSane, AllOrderly, TypeInv
<1>8. next \in WholeTag
  BY <1>7, BaseParts, WholeNextEvent DEF NextTag, WholeFed
<1>9. fed[f].started => fed[f].current[1] < next[1]
  <2>1. ASSUME fed[f].started PROVE fed[f].current[1] < next[1]
    <3>1. next = STOP_TAG \/ \E e \in fed[f].queue : e.tag = next
      BY <2>1, BaseParts, WholeNextEvent DEF NextTag
    <3>2. Less(fed[f].current, STOP_TAG)
      BY <1>1, <1>7, <2>1 DEF Orderly
    <3>3. fed[f].current[1] < STOP_TAG[1]
      BY <1>7, <3>2, WholeTags, WholeOrder DEF WholeFed
    <3>4. \A e \in fed[f].queue : fed[f].current[1] < e.tag[1]
      BY <2>1, BaseParts, EventsLater
    <3> QED  BY <3>1, <3>3, <3>4
  <2> QED  BY <2>1
<1>10. ~fed[f].started => next = ZERO_TAG
  BY <1>7 DEF NextTag, Orderly
<1>11. next[1] \in 0 .. FOREVER /\ (next[1] < FOREVER => next = <<next[1], 0>>) /\ next[2] \in Nat
  BY <1>8, WholeTags, TagParts DEF EventTag
<1>12. \A t \in program.timer[f] : t \in 0 .. FOREVER - 1
  BY BaseParts, ProgramParts DEF TypeInv
<1>13. fed[f].current[1] \in Int
  BY <1>7, FedParts, TagParts
<1>14. \A c \in ConnFrom(f) : c.to # f
  BY BaseParts, ProgramParts DEF TypeInv, ConnFrom
<1> HIDE DEF next
<1>15. ASSUME NEW x \in Time, Triggered(f, x)' PROVE Triggered(f, x)
  <2>1. Queued(f, x)' => Queued(f, x)
    BY <1>2 DEF Queued
  <2>2. Arriving(f, x)' => Arriving(f, x)
    BY <1>3 DEF Arriving
  <2>3. ~Starting(f, x)'
    BY <1>2 DEF Starting
  <2>4. ASSUME Reacting(f, x)' PROVE Queued(f, x) \/ Starting(f, x)
    <3>1. next[1] = x /\ (fed'[f].active \/ \E c \in fed'[f].todo : c.to = f)
      BY <1>2, <2>4 DEF Reacting
    <3>2. ASSUME NEW c \in fed'[f].todo, c.to = f PROVE Queued(f, x)
      <4>1. PICK e \in popped : c = e.conn
        BY <1>2, <1>14, <3>2
      <4> QED  BY <3>1, <4>1 DEF Queued
    <3>3. ASSUME fed'[f].active PROVE Queued(f, x) \/ Starting(f, x)
      <4>1. x \in program.timer[f] /\ x \in 0 .. FOREVER - 1
        BY <1>2, <1>12, <3>1, <3>3
      <4>2. CASE fed[f].started
        <5>1. Pending(f, x) /\ fed[f].current[1] < x
          BY <1>7, <1>9, <3>1, <4>1, <4>2 DEF Sane
        <5>2. Event(<<x, 0>>, NULL) \in fed[f].queue
          BY <4>2, <5>1 DEF Pending
        <5>3. Event(<<x, 0>>, NULL).tag[1] = x
          BY DEF Event
        <5> QED  BY <5>2, <5>3 DEF Queued
      <4>3. CASE ~fed[f].started
        BY <1>10, <3>1, <4>1, <4>3 DEF Starting, ZERO_TAG
      <4> QED  BY <4>2, <4>3
    <3> QED  BY <3>1, <3>2, <3>3
  <2> QED  BY <1>6, <1>15, <2>1, <2>2, <2>3, <2>4 DEF Triggered
<1>16. WholeFed(f)'
  BY <1>2, <1>7, <1>8 DEF WholeFed, SamePlans
<1>17. Sane(f)'
  <2>1. \A x \in Time : Triggered(f, x)' => Reveals(f, fed[f].last_skipped_NET, x)'
    BY <1>2, <1>5, <1>7, <1>15 DEF Sane, Reveals, SamePlans
  <2>2. ASSUME NEW t \in program.timer[f] PROVE Pending(f, t)'
    <3>1. Pending(f, t) /\ t \in Int
      BY <1>7, <1>12 DEF Sane
    <3>2. ASSUME next[1] < t PROVE Event(<<t, 0>>, NULL) \in fed'[f].queue
      <4>1. IF fed[f].started THEN fed[f].current[1] < t ELSE 0 < t
        <5>1. CASE fed[f].started
          BY <1>9, <1>11, <1>13, <3>1, <3>2, <5>1
        <5>2. CASE ~fed[f].started
          BY <1>10, <3>2, <5>2 DEF ZERO_TAG
        <5> QED  BY <5>1, <5>2
      <4>2. Event(<<t, 0>>, NULL) \in fed[f].queue
        BY <3>1, <4>1 DEF Pending
      <4>3. Event(<<t, 0>>, NULL).tag # next
        BY <1>11, <3>1, <3>2 DEF Event
      <4> QED  BY <1>2, <4>2, <4>3
    <3> QED  BY <1>2, <3>2 DEF Pending
  <2>3. \A d \in fed'[f].todo : LevelOf(f, d) \in Nat
    <3>1. fed'[f].todo \subseteq program.conn
      <4>1. TypeInv'
        BY BaseParts, FederateTypes DEF Work
      <4>2. fed'[f] \in FedState(f)' /\ NetworkOK'
        BY <4>1 DEF TypeInv
      <4>3. fed'[f].todo \subseteq ConnTo(f)' \cup ConnFrom(f)'
        BY <4>2 DEF FedState
      <4> QED  BY <1>5, <4>3 DEF ConnTo, ConnFrom
    <3>2. \A d \in program.conn : d.in \in Nat /\ d.out \in Nat
      BY BaseParts, ProgramParts DEF TypeInv
    <3> QED  BY <3>1, <3>2 DEF LevelOf
  <2> QED  BY <1>2, <1>5, <2>1, <2>2, <2>3 DEF Sane, SamePlans
<1>18. Keeps(f)
  BY <1>3, <1>4, <1>6, <1>15, <1>16, <1>17 DEF Keeps, Elsewhere, network
<1> QED  BY <1>1, <1>18, BaseParts, SpeaksNothing DEF FedMoves

LEMMA HearElsewhere ==
  ASSUME TypeInv, NEW f \in Fed, NEW type, Hear(f, type), Others(f)
  PROVE  Elsewhere(f)
<1>1. \A g \in Fed \ {f} : down'[g] = down[g]
  BY Heeded
<1> QED  BY <1>1 DEF Hear, Elsewhere, network

LEMMA TAGMoves ==
  ASSUME FedBase, NEW f \in Fed, handle_tag_advance_grant(f)
  PROVE  FedMoves(f)
<1>1. /\ Hear(f, "TAG") /\ Others(f) /\ up'[f] = up[f]
      /\ \/ Quiet(f)
         \/ /\ Resumes(f) /\ fed'[f].queue = fed[f].queue
            /\ fed'[f].last_TAG = Head(down[f]).tag
  BY BaseParts, TAGParts
<1>2. Elsewhere(f)
  BY <1>1, BaseParts, HearElsewhere
<1>3. CASE Quiet(f)
  <2>1. Hears(f, 1)
    BY <1>1, <1>3, BaseParts, HearsOne DEF Quiet, Alike
  <2> QED  BY <1>1, <1>2, <1>3, <2>1, QuietMoves
<1>4. CASE Resumes(f) /\ fed'[f].queue = fed[f].queue /\ fed'[f].last_TAG = Head(down[f]).tag
  <2>1. Hears(f, 1)
    BY <1>1, <1>4, BaseParts, HearsOne
  <2>2. fed[f].pc # "fatal"
    BY BaseParts DEF FederatesSane, Sane
  <2>3. Doing(f) /\ SamePlans(fed'[f], fed[f])
    BY <1>4, <2>2 DEF Resumes, Doing, Gone, Dead
  <2>4. \E ms : Speaks(f, ms)
    BY <1>1, BaseParts, SpeaksNothing
  <2> QED  BY <1>2, <2>1, <2>3, <2>4, DoingMoves
<1> QED  BY <1>1, <1>3, <1>4

\* Without cycles that have no delay there are no provisional grants.
LEMMA NoPTAG ==
  ASSUME FedBase, NEW f \in Fed
  PROVE  ~handle_provisional_tag_advance_grant(f)
<1> SUFFICES ASSUME handle_provisional_tag_advance_grant(f) PROVE FALSE
  OBVIOUS
<1>1. Hear(f, "PTAG")
  BY DEF handle_provisional_tag_advance_grant
<1>2. Head(down[f]) = down[f][1] /\ Head(down[f]).type = "PTAG" /\ down[f] # << >> /\ down[f] \in Seq(DownMessage(f))
  BY <1>1, BaseParts, Heeded DEF TypeInv
<1>3. 1 \in 1 .. Len(down[f])
  BY <1>2
<1> QED  BY <1>2, <1>3, BaseParts DEF Deliveries

\* No message is late.
LEMMA MSGMoves ==
  ASSUME FedBase, NEW f \in Fed, handle_tagged_message(f)
  PROVE  FedMoves(f)
<1> DEFINE m == Head(down[f])
<1>1. /\ Hear(f, "MSG") /\ Hearing(f) /\ Others(f) /\ up'[f] = up[f]
      /\ m.tag \in EventTag /\ m.conn \in ConnTo(f)
      /\ SamePlans(fed'[f], fed[f])
      /\ fed'[f].failed = fed[f].failed /\ fed'[f].started = fed[f].started
      /\ fed'[f].current = fed[f].current /\ fed'[f].level = fed[f].level
      /\ fed'[f].active = fed[f].active /\ fed'[f].last_TAG = fed[f].last_TAG
      /\ \/ ForNow(f, m)
         \/ fed[f].started /\ Tardy(f, m)
         \/ /\ fed'[f].pc = fed[f].pc
            /\ fed'[f].queue = fed[f].queue \cup {Event(m.tag, m.conn)}
            /\ fed'[f].todo = fed[f].todo
  BY BaseParts, MSGParts
<1>2. Elsewhere(f)
  BY <1>1, BaseParts, HearElsewhere
<1>3. Hears(f, 1) /\ 1 \in 1 .. Len(down[f]) /\ m = down[f][1] /\ m.type = "MSG"
  BY <1>1, BaseParts, HearsOne
<1>4. m.tag \in WholeTag /\ m.tag[1] <= StopTime
  BY <1>3, BaseParts DEF WholeRTI, Deliveries, Delivery
<1>5. fed[f] \in FedState(f) /\ WholeFed(f) /\ Sane(f)
  BY BaseParts DEF TypeInv, FederatesSane
<1>6. fed[f].current \in WholeTag
  BY <1>5 DEF WholeFed
<1>7. m.tag[1] \in Time /\ fed[f].current[1] \in Time
  BY <1>4, <1>6, WholeTags DEF Time
<1> HIDE DEF m
<1>8. fed[f].started => fed[f].current[1] < m.tag[1]
  BY <1>3, BaseParts, EventsLater
<1>9. ~ForNow(f, m)
  BY <1>7, <1>8 DEF ForNow, Time
<1>10. ~(fed[f].started /\ Tardy(f, m))
  <2> SUFFICES ASSUME fed[f].started, Tardy(f, m) PROVE FALSE
    OBVIOUS
  <2>1. fed[f].current[1] < m.tag[1]
    BY <1>8
  <2>2. Leq(m.tag, fed[f].current) => m.tag[1] <= fed[f].current[1]
    BY <1>4, <1>6, WholeOrder
  <2>3. Leq(STOP_TAG, fed[f].current) => StopTime <= fed[f].current[1]
    BY <1>6, WholeTags, WholeOrder DEF STOP_TAG
  <2> QED  BY <1>4, <1>7, <2>1, <2>2, <2>3, StopRange DEF Tardy, Time
<1>11. /\ fed'[f].pc = fed[f].pc /\ fed'[f].todo = fed[f].todo
       /\ fed'[f].queue = fed[f].queue \cup {Event(m.tag, m.conn)}
       /\ fed'[f].last_skipped_NET = fed[f].last_skipped_NET
  BY <1>1, <1>9, <1>10 DEF SamePlans, m
<1>12. program' = program /\ in_transit' = in_transit
  BY <1>2 DEF Elsewhere, network
<1>13. Dead(f)' = Dead(f) /\ Gone(f)' = Gone(f)
  BY <1>1, <1>11 DEF Dead, Gone
<1>14. ASSUME NEW x \in Time, Triggered(f, x)' PROVE Triggered(f, x)
  <2>1. Queued(f, x)' => Queued(f, x) \/ Arriving(f, x)
    <3>1. Event(m.tag, m.conn).tag = m.tag
      BY DEF Event
    <3> QED  BY <1>3, <1>11, <3>1 DEF Queued, Arriving
  <2>2. Arriving(f, x)' => Arriving(f, x)
    BY <1>3, BaseParts, ArrivedBefore
  <2>3. Starting(f, x)' => Starting(f, x)
    BY <1>1, <1>12 DEF Starting
  <2>4. Reacting(f, x)' => Reacting(f, x)
    BY <1>1, <1>11 DEF Reacting
  <2> QED  BY <1>13, <1>14, <2>1, <2>2, <2>3, <2>4 DEF Triggered
<1>15. WholeFed(f)'
  <2>1. Event(m.tag, m.conn).tag = m.tag
    BY DEF Event
  <2> QED  BY <1>1, <1>4, <1>5, <1>11, <2>1 DEF WholeFed
<1>16. Sane(f)'
  <2>1. \A x \in Time : Triggered(f, x)' => Reveals(f, fed[f].last_skipped_NET, x)'
    BY <1>5, <1>11, <1>12, <1>14 DEF Sane, Reveals
  <2>2. \A t \in program'.timer[f] : Pending(f, t)'
    BY <1>1, <1>5, <1>11, <1>12 DEF Sane, Pending
  <2>3. fed'[f].pc = "exec" => \A c \in fed'[f].todo : LevelOf(f, c) >= fed'[f].level
    BY <1>1, <1>5, <1>11 DEF Sane
  <2> QED  BY <1>5, <1>11, <1>12, <2>1, <2>2, <2>3 DEF Sane
<1>17. Keeps(f)
  BY <1>2, <1>3, <1>13, <1>14, <1>15, <1>16 DEF Keeps, Elsewhere, network
<1> QED  BY <1>1, <1>17, BaseParts, SpeaksNothing DEF FedMoves

LEMMA DNETMoves ==
  ASSUME FedBase, NEW f \in Fed, handle_downstream_next_event_tag(f)
  PROVE  FedMoves(f)
<1> DEFINE skipped == fed[f].last_skipped_NET
<1>1. /\ Hear(f, "DNET") /\ Hearing(f) /\ Others(f)
      /\ \/ Quiet(f) /\ up'[f] = up[f]
         \/ /\ skipped \in EventTag
            /\ Alike(fed'[f], fed[f]) /\ fed'[f].pc = fed[f].pc
            /\ fed'[f].last_skipped_NET = NEVER_TAG
            /\ up'[f] = up[f] \o <<Msg("NET", skipped, NULL)>>
  BY BaseParts, DNETParts
<1>2. Elsewhere(f)
  BY <1>1, BaseParts, HearElsewhere
<1>3. fed'[f].last_TAG = fed[f].last_TAG
  BY <1>1 DEF Quiet, Alike
<1>4. Hears(f, 1)
  BY <1>1, <1>3, BaseParts, HearsOne
<1>5. CASE Quiet(f) /\ up'[f] = up[f]
  BY <1>2, <1>4, <1>5, QuietMoves
<1>6. CASE /\ skipped \in EventTag
           /\ Alike(fed'[f], fed[f]) /\ fed'[f].pc = fed[f].pc
           /\ fed'[f].last_skipped_NET = NEVER_TAG
           /\ up'[f] = up[f] \o <<Msg("NET", skipped, NULL)>>
  <2>1. Sane(f) /\ WholeFed(f)
    BY BaseParts DEF FederatesSane
  <2>2. Doing(f)
    BY <1>6, <2>1 DEF Sane, Doing, Alike, Gone, Dead
  <2>3. UNCHANGED <<network, node, in_transit, confirming>> /\ UNCHANGED network
        /\ \A g \in Fed \ {f} : down'[g] = down[g]
    BY <1>2 DEF Elsewhere, network
  <2>4. \A x \in Time : Reveals(f, NEVER_TAG, x)
    BY NeverReveals
  <2>5. Keeps(f)
    BY <1>1, <1>4, <1>6, <2>2, <2>3, <2>4, BaseParts, DoingKeeps
  <2>6. skipped \in WholeTag
    BY <1>6, <2>1, SpecialTags DEF WholeFed
  <2>7. \A x \in Time : Triggered(f, x)' => Reveals(f, skipped, x)
    <3>1. \A x \in Time : Triggered(f, x)' => Triggered(f, x)
      BY <2>5 DEF Keeps
    <3> QED  BY <2>1, <3>1 DEF Sane
  <2>8. Says(f, Msg("NET", skipped, NULL)) /\ Msg("NET", skipped, NULL) \in UpMessage(f)
    BY <2>6, <2>7, SaysNET
  <2> QED  BY <1>6, <2>5, <2>8, SpeaksOnce DEF FedMoves
<1> QED  BY <1>1, <1>5, <1>6

\* Whatever step a federate takes.
LEMMA FederateMoves ==
  ASSUME FedBase, StartAnnounced', NEW f \in Fed, Work(f) \/ Listen(f) \/ Fail(f)
  PROVE  FedMoves(f)
<1>1. Start(f) \/ Wake(f) \/ AdvanceTag(f) \/ Complete(f) \/ Leave(f) \/ Fail(f) => FedMoves(f)
  BY StartMoves, WakeMoves, AdvanceMoves, CompleteMoves, LeaveMoves, FailMoves
<1>2. \A c \in program.conn : ExecuteInput(f, c) \/ SendMessage(f, c) \/ SendAbsent(f, c) => FedMoves(f)
  BY InputMoves, SendMoves, AbsentMoves
<1>3. handle_tag_advance_grant(f) \/ handle_tagged_message(f) \/ handle_downstream_next_event_tag(f) => FedMoves(f)
  BY TAGMoves, MSGMoves, DNETMoves
<1>4. ASSUME HandlePortAbsent(f) PROVE FedMoves(f)
  <2>1. Hear(f, "ABSENT") /\ Others(f) /\ up'[f] = up[f] /\ Quiet(f)
    BY <1>4, BaseParts, AbsentHeardParts
  <2>2. Elsewhere(f)
    BY <2>1, BaseParts, HearElsewhere
  <2>3. Hears(f, 1)
    BY <2>1, BaseParts, HearsOne DEF Quiet, Alike
  <2> QED  BY <2>1, <2>2, <2>3, QuietMoves
<1>5. ASSUME StoreDNET(f) PROVE FedMoves(f)
  <2>1. Quiet(f) /\ Others(f) /\ up'[f] = up[f] /\ down' = down
    BY <1>5, BaseParts, StoreParts
  <2>2. Elsewhere(f)
    BY <1>5, <2>1 DEF StoreDNET, Elsewhere, network
  <2>3. Hears(f, 0)
    BY <2>1, BaseParts, HearsNothing DEF Quiet, Alike
  <2> QED  BY <2>1, <2>2, <2>3, QuietMoves
<1>6. ~handle_provisional_tag_advance_grant(f)
  BY NoPTAG
<1> QED  BY <1>1, <1>2, <1>3, <1>4, <1>5, <1>6 DEF Work, Listen

-----------------------------------------------------------------------------
(* A step of a federate keeps the invariant                                *)

\* What f has said is as before, and what it adds is in accord.
LEMMA Spoken ==
  ASSUME TypeInv, TypeInv', NEW f \in Fed, FedMoves(f)
  PROVE  /\ Len(up[f]) \in Nat /\ Len(up'[f]) \in Nat /\ Len(up[f]) <= Len(up'[f])
         /\ \A i \in 1 .. Len(up[f]) : up'[f][i] = up[f][i]
         /\ \A i \in Len(up[f]) + 1 .. Len(up'[f]) :
              /\ Says(f, up'[f][i])
              /\ up'[f][i].type \in {"RESIGN", "FAILED", "EOF"} => i = Len(up'[f])
              /\ up'[f][i].type = "MSG" => i = Len(up[f]) + 1
<1>1. PICK ms : Speaks(f, ms)
  BY DEF FedMoves
<1>2. up[f] \in Seq(UpMessage(f)) /\ ms \in Seq(UpMessage(f)) /\ up'[f] = up[f] \o ms
  BY <1>1 DEF TypeInv, Speaks
<1>3. Len(up'[f]) = Len(up[f]) + Len(ms) /\ Len(up[f]) \in Nat /\ Len(ms) \in Nat
  BY <1>2, ConcatProperties, LenProperties
<1>4. \A i \in 1 .. Len(up[f]) : up'[f][i] = up[f][i]
  BY <1>2, <1>3, ConcatProperties
<1>5. ASSUME NEW i \in Len(up[f]) + 1 .. Len(up'[f])
      PROVE  /\ Says(f, up'[f][i])
             /\ up'[f][i].type \in {"RESIGN", "FAILED", "EOF"} => i = Len(up'[f])
             /\ up'[f][i].type = "MSG" => i = Len(up[f]) + 1
  <2> DEFINE j == i - Len(up[f])
  <2>1. j \in 1 .. Len(ms) /\ i = j + Len(up[f])
    BY <1>3
  <2>2. up'[f][i] = ms[j]
    BY <1>2, <1>3, <2>1, ConcatProperties
  <2> HIDE DEF j
  <2>3. /\ Says(f, ms[j])
        /\ ms[j].type \in {"RESIGN", "FAILED", "EOF"} => j = Len(ms)
        /\ ms[j].type = "MSG" => Len(ms) = 1
    BY <1>1, <2>1 DEF Speaks
  <2> QED  BY <1>3, <2>1, <2>2, <2>3
<1> QED  BY <1>3, <1>4, <1>5

LEMMA KeepsParts ==
  ASSUME NEW f \in Fed, FedMoves(f)
  PROVE  /\ program' = program /\ min_delays' = min_delays /\ UNCHANGED network
         /\ node' = node /\ in_transit' = in_transit /\ confirming' = confirming
         /\ \A g \in Fed \ {f} : fed'[g] = fed[g] /\ up'[g] = up[g] /\ down'[g] = down[g]
         /\ \A g \in Fed : /\ Connected(g)' <=> Connected(g)
                           /\ Gone(g) => Gone(g)'
                           /\ Dead(g) => Dead(g)'
         /\ \A g \in Fed : \A x \in Time : Triggered(g, x)' => Triggered(g, x)
<1>1. Keeps(f)
  BY DEF FedMoves
<1>2. program' = program /\ min_delays' = min_delays /\ UNCHANGED network
      /\ node' = node /\ in_transit' = in_transit /\ confirming' = confirming
      /\ \A g \in Fed \ {f} : fed'[g] = fed[g] /\ up'[g] = up[g] /\ down'[g] = down[g]
  BY <1>1 DEF Keeps, network, Others
<1>3. ASSUME NEW g \in Fed PROVE (Connected(g)' <=> Connected(g)) /\ (Gone(g) => Gone(g)') /\ (Dead(g) => Dead(g)')
  <2>1. (Gone(g) => Gone(g)') /\ (Dead(g) => Dead(g)')
    BY <1>1, <1>2 DEF Keeps, Gone, Dead
  <2> QED  BY <1>2, <2>1 DEF Connected
<1>4. ASSUME NEW g \in Fed \ {f}, NEW x PROVE Triggered(g, x)' => Triggered(g, x)
  BY <1>2 DEF Triggered, Dead, Queued, Arriving, Starting, Reacting
<1> QED  BY <1>1, <1>2, <1>3, <1>4 DEF Keeps

LEMMA FederateIsMove ==
  ASSUME TypeInv, TypeInv', NEW f \in Fed, FedMoves(f)
  PROVE  Moves
<1>1. /\ UNCHANGED network
      /\ \A g \in Fed : Connected(g)' => Connected(g)
      /\ \A g \in Fed : \A x \in Time : Triggered(g, x)' => Triggered(g, x)
  BY KeepsParts
<1>2. ASSUME NEW g \in Fed, NEW p \in 1 .. Len(up'[g]), up'[g][p].type = "MSG"
      PROVE  (\E q \in 1 .. Len(up[g]) : up'[g][p] = up[g][q]) \/ Sends(g, p)
  <2>1. CASE g # f
    BY <1>2, <2>1, KeepsParts
  <2>2. CASE g = f /\ p <= Len(up[f])
    <3>1. p \in 1 .. Len(up[f]) /\ up'[f][p] = up[f][p]
      BY <2>2, Spoken
    <3> QED  BY <2>2, <3>1
  <2>3. CASE g = f /\ ~(p <= Len(up[f]))
    <3>1. p \in Len(up[f]) + 1 .. Len(up'[f])
      BY <2>3, Spoken
    <3>2. Says(f, up'[f][p])
      BY <3>1, Spoken
    <3> QED  BY <1>2, <2>3, <3>2 DEF Says, Sends
  <2> QED  BY <2>1, <2>2, <2>3
<1> QED  BY <1>1, <1>2 DEF Moves

LEMMA FederateTriggersAhead ==
  ASSUME TypeInv, TypeInv', TriggersAhead, NEW f \in Fed, FedMoves(f)
  PROVE  TriggersAhead'
<1> SUFFICES ASSUME NEW g \in Fed, NEW x \in Time, Triggered(g, x)'
             PROVE  Ahead(g, x, Len(up[g]))'
  BY DEF TriggersAhead
<1>1. Triggered(g, x) /\ node' = node /\ confirming' = confirming /\ in_transit' = in_transit
  BY KeepsParts
<1>2. KnownBefore(g, x) /\ SaidBefore(g, x, Len(up[g]))
  BY <1>1 DEF TriggersAhead, Ahead
<1>3. KnownBefore(g, x)'
  BY <1>1, <1>2 DEF KnownBefore
<1>4. ASSUME NEW q \in 1 .. Len(up'[g])
      PROVE  /\ up'[g][q].type = "NET" => Reveals(g, up[g][q].tag, x)'
             /\ up'[g][q].type = "LTC" => up'[g][q].tag[1] < x
  <2>1. CASE q \in 1 .. Len(up[g]) /\ up'[g][q] = up[g][q]
    BY <1>1, <1>2, <2>1 DEF SaidBefore, Reveals
  <2>2. CASE g = f /\ q \in Len(up[f]) + 1 .. Len(up'[f])
    <3>1. Says(f, up'[f][q])
      BY <2>2, Spoken
    <3>2. up'[f][q].type = "NET" => Reveals(f, up'[f][q].tag, x)
      BY <2>2, <3>1 DEF Says
    <3>3. up'[f][q].type = "LTC" => up'[f][q].tag[1] < x
      BY <2>2, <3>1 DEF Says
    <3> QED  BY <1>1, <2>2, <3>2, <3>3 DEF Reveals
  <2>3. CASE g # f
    <3>1. up'[g] = up[g]
      BY <2>3, KeepsParts
    <3> QED  BY <2>1, <3>1
  <2>4. CASE g = f
    BY <2>1, <2>2, <2>4, Spoken
  <2> QED  BY <2>3, <2>4
<1> QED  BY <1>3, <1>4 DEF Ahead, SaidBefore

LEMMA FederateMessagesAhead ==
  ASSUME TypeInv, TypeInv', TriggersAhead, MessagesAhead, NEW f \in Fed, FedMoves(f)
  PROVE  MessagesAhead'
<1> SUFFICES ASSUME NEW g \in Fed, NEW p \in 1 .. Len(up'[g]), up'[g][p].type = "MSG",
                    NEW x, x = SentAt(up'[g][p])
             PROVE  x \in Time /\ up'[g][p].tag[1] <= StopTime /\ Ahead(g, x, p - 1)'
  BY DEF MessagesAhead, Ahead, KnownBefore, SaidBefore, Reveals
<1>1. node' = node /\ confirming' = confirming /\ in_transit' = in_transit
  BY KeepsParts
<1>2. Len(up[g]) \in Nat /\ (\A i \in 1 .. Len(up[g]) : up'[g][i] = up[g][i]) /\ Len(up[g]) <= Len(up'[g])
  <2>1. CASE g # f
    <3>1. up'[g] = up[g] /\ up[g] \in Seq(UpMessage(g))
      BY <2>1, KeepsParts DEF TypeInv
    <3> QED  BY <3>1
  <2>2. CASE g = f
    BY <2>2, Spoken
  <2> QED  BY <2>1, <2>2
<1>3. /\ x \in Time /\ up'[g][p].tag[1] <= StopTime /\ p - 1 <= Len(up[g])
      /\ Ahead(g, x, p - 1)
  <2>1. CASE p <= Len(up[g])
    BY <1>2, <2>1 DEF MessagesAhead
  <2>2. CASE ~(p <= Len(up[g]))
    <3>1. g = f
      <4>1. g # f => up'[g] = up[g]
        BY KeepsParts
      <4> QED  BY <1>2, <2>2, <4>1
    <3>2. p \in Len(up[f]) + 1 .. Len(up'[f])
      BY <1>2, <2>2, <3>1
    <3>3. Says(f, up'[f][p]) /\ p = Len(up[f]) + 1
      BY <3>1, <3>2, Spoken
    <3>4. Triggered(f, x) /\ x \in Time /\ up'[f][p].tag[1] <= StopTime
      BY <3>1, <3>3 DEF Says
    <3>5. Ahead(f, x, Len(up[f]))
      BY <3>4 DEF TriggersAhead
    <3> QED  BY <1>2, <3>1, <3>3, <3>4, <3>5
  <2> QED  BY <2>1, <2>2
<1>4. Ahead(g, x, p - 1)'
  <2>1. KnownBefore(g, x)'
    BY <1>1, <1>3 DEF Ahead, KnownBefore
  <2>2. \A q \in 1 .. p - 1 : up'[g][q] = up[g][q]
    BY <1>2, <1>3
  <2> QED  BY <1>1, <1>3, <2>1, <2>2 DEF Ahead, SaidBefore, Reveals
<1> QED  BY <1>3, <1>4

LEMMA FederateSilent ==
  ASSUME TypeInv, TypeInv', Silent, NEW f \in Fed, FedMoves(f)
  PROVE  Silent'
<1> SUFFICES ASSUME NEW g \in Fed
             PROVE  /\ ~Connected(g)' => Gone(g)' /\ OnlyNETs(g, 1)'
                    /\ \A p \in 1 .. Len(up'[g]) : up'[g][p].type \in {"RESIGN", "FAILED", "EOF"} =>
                         Gone(g)' /\ \A q \in p + 1 .. Len(up'[g]) : up'[g][q].type = "NET"
  BY DEF Silent, OnlyNETs
<1>1. (Connected(g)' <=> Connected(g)) /\ (Gone(g) => Gone(g)')
  BY KeepsParts
<1>2. CASE g # f
  <2>1. up'[g] = up[g]
    BY <1>2, KeepsParts
  <2> QED  BY <1>1, <2>1 DEF Silent, OnlyNETs
<1>3. CASE g = f
  <2>1. /\ Len(up[f]) \in Nat /\ Len(up'[f]) \in Nat /\ Len(up[f]) <= Len(up'[f])
        /\ \A i \in 1 .. Len(up[f]) : up'[f][i] = up[f][i]
    BY Spoken
  <2>2. ASSUME Gone(f), NEW i \in Len(up[f]) + 1 .. Len(up'[f]) PROVE up'[f][i].type = "NET"
    <3>1. Says(f, up'[f][i])
      BY <2>2, Spoken
    <3> QED  BY <2>2, <3>1 DEF Says
  <2>3. ASSUME Gone(f), NEW n \in 1 .. Len(up[f]) + 1, OnlyNETs(f, n), NEW q \in n .. Len(up'[f])
        PROVE  up'[f][q].type = "NET"
    <3>1. CASE q <= Len(up[f])
      BY <2>1, <2>3, <3>1 DEF OnlyNETs
    <3>2. CASE ~(q <= Len(up[f]))
      BY <2>1, <2>2, <2>3, <3>2
    <3> QED  BY <3>1, <3>2
  <2>4. ~Connected(f)' => Gone(f)' /\ OnlyNETs(f, 1)'
    BY <1>1, <1>3, <2>1, <2>3 DEF Silent, OnlyNETs
  <2>5. ASSUME NEW p \in 1 .. Len(up'[f]), up'[f][p].type \in {"RESIGN", "FAILED", "EOF"}
        PROVE  Gone(f)' /\ \A q \in p + 1 .. Len(up'[f]) : up'[f][q].type = "NET"
    <3>1. CASE p <= Len(up[f])
      <4>1. Gone(f) /\ OnlyNETs(f, p + 1) /\ p + 1 \in 1 .. Len(up[f]) + 1
        BY <2>1, <2>5, <3>1 DEF Silent
      <4> QED  BY <1>1, <1>3, <2>3, <4>1
    <3>2. CASE ~(p <= Len(up[f]))
      <4>1. p \in Len(up[f]) + 1 .. Len(up'[f])
        BY <2>1, <3>2
      <4>2. Says(f, up'[f][p]) /\ p = Len(up'[f])
        BY <2>5, <4>1, Spoken
      <4> QED  BY <2>1, <2>5, <4>2 DEF Says
    <3> QED  BY <3>1, <3>2
  <2> QED  BY <1>3, <2>4, <2>5
<1> QED  BY <1>2, <1>3

\* What is left to be heard by a federate.
LEMMA HeardParts ==
  ASSUME TypeInv, NEW f \in Fed, FedMoves(f), NEW g \in Fed
  PROVE  \E k \in {0, 1} : Hears(g, k)
<1>1. CASE g = f
  BY <1>1 DEF FedMoves, Keeps
<1>2. CASE g # f
  <2>1. fed'[g] = fed[g] /\ down'[g] = down[g] /\ Len(down[g]) \in Nat
    BY <1>2, KeepsParts DEF TypeInv
  <2>2. Hears(g, 0)
    BY <2>1 DEF Hears, Shifted
  <2> QED  BY <2>2
<1> QED  BY <1>1, <1>2

LEMMA FederateDeliveries ==
  ASSUME TypeInv, TypeInv', Deliveries, NEW f \in Fed, FedMoves(f)
  PROVE  Deliveries'
<1> SUFFICES ASSUME NEW g \in Fed, NEW p \in 1 .. Len(down'[g])
             PROVE  down'[g][p].type # "PTAG" /\ (down'[g][p].type = "MSG" => Delivery(g, p)')
  BY DEF Deliveries
<1>1. PICK k \in {0, 1} : Hears(g, k)
  BY HeardParts
<1>2. /\ Len(down[g]) = Len(down'[g]) + k /\ Len(down'[g]) \in Nat
      /\ \A i \in 1 .. Len(down'[g]) : down'[g][i] = down[g][i + k]
  BY <1>1 DEF Hears, Shifted, TypeInv
<1>3. p + k \in 1 .. Len(down[g]) /\ down'[g][p] = down[g][p + k]
  BY <1>2
<1>4. down'[g][p].type # "PTAG"
  BY <1>3 DEF Deliveries
<1>5. ASSUME down'[g][p].type = "MSG" PROVE Delivery(g, p)'
  <2>1. Delivery(g, p + k)
    BY <1>3, <1>5 DEF Deliveries
  <2>2. (Dead(g) => Dead(g)') /\ in_transit' = in_transit
    BY KeepsParts
  <2>3. fed'[g].last_TAG[1] < down'[g][p].tag[1]
    <3>1. CASE fed'[g].last_TAG = fed[g].last_TAG
      BY <1>3, <2>1, <3>1 DEF Delivery
    <3>2. CASE k = 1 /\ down[g][1].type = "TAG" /\ fed'[g].last_TAG = down[g][1].tag
      BY <1>3, <2>1, <3>2 DEF Delivery
    <3> QED  BY <1>1, <3>1, <3>2 DEF Hears
  <2>4. ASSUME NEW q \in 1 .. p - 1, down'[g][q].type = "TAG" PROVE down'[g][q].tag[1] < down'[g][p].tag[1]
    <3>1. q + k \in 1 .. (p + k) - 1 /\ down'[g][q] = down[g][q + k]
      <4>1. q \in 1 .. Len(down'[g]) /\ q \in Int /\ p \in Int /\ k \in Int /\ q <= p - 1 /\ k >= 0 /\ q >= 1
        BY <1>2
      <4>2. down'[g][q] = down[g][q + k]
        BY <1>2, <4>1
      <4> QED  BY <4>1, <4>2
    <3> QED  BY <1>3, <2>1, <2>4, <3>1 DEF Delivery
  <2> QED  BY <1>3, <2>1, <2>2, <2>3, <2>4 DEF Delivery
<1> QED  BY <1>4, <1>5

LEMMA FederateGrantsFirst ==
  ASSUME TypeInv, TypeInv', GrantsFirst, NEW f \in Fed, FedMoves(f)
  PROVE  GrantsFirst'
<1> SUFFICES ASSUME NEW e \in Fed, Upstreams(e) # {}, NEW n, n = node[e].last_granted[1]
             PROVE  GrantedFirst(e, n)'
  <2>1. node' = node /\ program' = program
    BY KeepsParts
  <2> QED  BY <2>1 DEF GrantsFirst, Upstreams, ConnTo, GrantedFirst
<1>1. node' = node /\ confirming' = confirming
  BY KeepsParts
<1>2. GrantedFirst(e, n)
  BY DEF GrantsFirst
<1>3. PICK k \in {0, 1} : Hears(e, k)
  BY HeardParts
<1>4. /\ Len(down[e]) = Len(down'[e]) + k /\ Len(down'[e]) \in Nat
      /\ \A i \in 1 .. Len(down'[e]) : down'[e][i] = down[e][i + k]
  BY <1>3 DEF Hears, Shifted, TypeInv
<1>5. fed'[e].last_TAG[1] <= n
  <2>1. fed'[e].last_TAG = fed[e].last_TAG
        \/ (1 \in 1 .. Len(down[e]) /\ down[e][1].type = "TAG" /\ fed'[e].last_TAG = down[e][1].tag)
    BY <1>3, <1>4 DEF Hears
  <2> QED  BY <1>2, <2>1 DEF GrantedFirst
<1>6. ASSUME NEW p \in 1 .. Len(down'[e]), down'[e][p].type = "TAG" PROVE down'[e][p].tag[1] <= n
  <2>1. p + k \in 1 .. Len(down[e]) /\ down'[e][p] = down[e][p + k]
    BY <1>4
  <2> QED  BY <1>2, <1>6, <2>1 DEF GrantedFirst
<1>7. ASSUME NEW p \in 1 .. Len(up'[e]), up'[e][p].type = "LTC" PROVE up'[e][p].tag[1] <= n
  <2>1. CASE e # f
    <3>1. up'[e] = up[e]
      BY <2>1, KeepsParts
    <3> QED  BY <1>2, <1>7, <3>1 DEF GrantedFirst
  <2>2. CASE e = f
    <3>1. CASE p <= Len(up[f])
      <4>1. p \in 1 .. Len(up[f]) /\ up'[f][p] = up[f][p]
        BY <2>2, <3>1, Spoken
      <4> QED  BY <1>2, <1>7, <2>2, <4>1 DEF GrantedFirst
    <3>2. CASE ~(p <= Len(up[f]))
      <4>1. p \in Len(up[f]) + 1 .. Len(up'[f])
        BY <2>2, <3>2, Spoken
      <4>2. Says(f, up'[f][p])
        BY <4>1, Spoken
      <4>3. up'[f][p].tag[1] <= fed[f].last_TAG[1] /\ up'[f][p].tag \in WholeTag
        BY <1>7, <2>2, <4>2 DEF Says
      <4>4. fed[f].last_TAG[1] <= n /\ fed[f].last_TAG[1] \in Int /\ n \in Int
        <5>1. fed[f].last_TAG \in Tag /\ node[e].last_granted \in Tag
          BY FedParts, NodeParts DEF TypeInv
        <5> QED  BY <1>2, <2>2, <5>1, TagParts DEF GrantedFirst
      <4>5. up'[f][p].tag[1] \in Int
        BY <4>3, WholeTags
      <4> QED  BY <2>2, <4>3, <4>4, <4>5
    <3> QED  BY <3>1, <3>2
  <2> QED  BY <2>1, <2>2
<1> QED  BY <1>1, <1>2, <1>5, <1>6, <1>7 DEF GrantedFirst

LEMMA FederateWhole ==
  ASSUME TypeInv, TypeInv', WholeRTI, FederatesSane, NEW f \in Fed, FedMoves(f)
  PROVE  WholeRTI' /\ FederatesSane'
<1>1. program' = program /\ node' = node /\ in_transit' = in_transit
  BY KeepsParts
<1>2. WholeRTI'
  <2> SUFFICES ASSUME NEW g \in Fed
               PROVE  /\ \A p \in 1 .. Len(up'[g]) : up'[g][p].tag \in WholeTag
                      /\ \A p \in 1 .. Len(down'[g]) : down'[g][p].type = "MSG" => down'[g][p].tag \in WholeTag
    BY <1>1 DEF WholeRTI
  <2>1. ASSUME NEW p \in 1 .. Len(up'[g]) PROVE up'[g][p].tag \in WholeTag
    <3>1. CASE g # f
      BY <3>1, KeepsParts DEF WholeRTI
    <3>2. CASE g = f /\ p <= Len(up[f])
      <4>1. p \in 1 .. Len(up[f]) /\ up'[f][p] = up[f][p]
        BY <3>2, Spoken
      <4> QED  BY <3>2, <4>1 DEF WholeRTI
    <3>3. CASE g = f /\ ~(p <= Len(up[f]))
      <4>1. p \in Len(up[f]) + 1 .. Len(up'[f])
        BY <3>3, Spoken
      <4>2. Says(f, up'[f][p])
        BY <4>1, Spoken
      <4> QED  BY <3>3, <4>2 DEF Says
    <3> QED  BY <3>1, <3>2, <3>3
  <2>2. ASSUME NEW p \in 1 .. Len(down'[g]), down'[g][p].type = "MSG" PROVE down'[g][p].tag \in WholeTag
    <3>1. PICK k \in {0, 1} : Hears(g, k)
      BY HeardParts
    <3>2. /\ Len(down[g]) = Len(down'[g]) + k /\ Len(down'[g]) \in Nat
          /\ \A i \in 1 .. Len(down'[g]) : down'[g][i] = down[g][i + k]
      BY <3>1 DEF Hears, Shifted, TypeInv
    <3>3. p + k \in 1 .. Len(down[g]) /\ down'[g][p] = down[g][p + k]
      BY <3>2
    <3> QED  BY <2>2, <3>3 DEF WholeRTI
  <2> QED  BY <2>1, <2>2
<1>3. ASSUME NEW g \in Fed PROVE WholeFed(g)' /\ Sane(g)'
  <2>1. CASE g = f
    BY <2>1 DEF FedMoves, Keeps
  <2>2. CASE g # f
    <3>1. fed'[g] = fed[g] /\ \A x \in Time : Triggered(g, x)' => Triggered(g, x)
      BY <2>2, KeepsParts
    <3>2. WholeFed(g) /\ Sane(g)
      BY DEF FederatesSane
    <3> QED  BY <1>1, <3>1, <3>2 DEF WholeFed, Sane, Pending, Reveals
  <2> QED  BY <2>1, <2>2
<1> QED  BY <1>2, <1>3 DEF FederatesSane

LEMMA SamePlainness ==
  ASSUME NetworkPlain, program' = program, min_delays' = min_delays
  PROVE  NetworkPlain'
BY DEF NetworkPlain

LEMMA FederateGrantsSecure ==
  ASSUME TypeInv, TypeInv', GrantsSecure, NEW f \in Fed, FedMoves(f)
  PROVE  GrantsSecure'
<1>1. node' = node /\ program' = program /\ Moves
  BY KeepsParts, FederateIsMove
<1>2. ASSUME NEW e \in Fed, Upstreams(e) # {}, NEW n, n = node[e].last_granted[1] PROVE Secure(e, n)'
  <2>1. node[e].last_granted \in Tag
    BY NodeParts DEF TypeInv
  <2>2. n \in Int /\ Secure(e, n)
    BY <1>2, <2>1, TagParts DEF GrantsSecure
  <2> QED  BY <1>1, <2>2, SecureKept
<1> QED  BY <1>1, <1>2 DEF GrantsSecure, Upstreams, ConnTo, Secure, SecureSenders, SecureMessages

LEMMA FederateCoord ==
  ASSUME CoordInv, TypeInv', AllOrderly', NEW f \in Fed, FedMoves(f)
  PROVE  CoordInv'
<1>1. TypeInv /\ NetworkPlain /\ WholeRTI /\ FederatesSane /\ MessagesAhead /\ TriggersAhead /\ Silent
      /\ GrantsFirst /\ GrantsSecure /\ Deliveries
  BY DEF CoordInv
<1>2. NetworkPlain'
  BY <1>1, KeepsParts, SamePlainness
<1>3. WholeRTI' /\ FederatesSane'
  BY <1>1, FederateWhole
<1>4. MessagesAhead' /\ TriggersAhead' /\ Silent'
  BY <1>1, FederateMessagesAhead, FederateTriggersAhead, FederateSilent
<1>5. GrantsFirst' /\ GrantsSecure' /\ Deliveries'
  BY <1>1, FederateGrantsFirst, FederateGrantsSecure, FederateDeliveries
<1> QED  BY <1>2, <1>3, <1>4, <1>5 DEF CoordInv

-----------------------------------------------------------------------------
(* What a handler of the RTI does                                          *)

\* The thread of f takes the first message from f.
Serving(f) ==
  /\ UNCHANGED network /\ UNCHANGED fed
  /\ Len(up[f]) \in Nat /\ Len(up[f]) >= 1 /\ Len(up'[f]) = Len(up[f]) - 1
  /\ \A i \in 1 .. Len(up'[f]) : up'[f][i] = up[f][i + 1]
  /\ \A g \in Fed \ {f} : up'[g] = up[g]
  /\ confirming[f] = NULL

\* The message is sent on to e.
Forwarding(f, e) ==
  up[f][1].type \in {"MSG", "ABSENT"} /\ up[f][1].conn.to = e /\ Connected(e)

\* What the RTI notes of g as it changes it to n.
NotesOf(f, n, g) ==
  LET m == up[f][1] IN
  /\ confirming'[g] = confirming[g] \/ (g = f /\ m.type = "LTC" /\ confirming'[g] = m.tag)
  /\ n.completed = node[g].completed \/ (g = f /\ m.type = "LTC" /\ n.completed = m.tag)
  /\ \/ n.state = node[g].state
     \/ g = f /\ m.type \in {"RESIGN", "FAILED", "EOF"} /\ n.state = "NOT_CONNECTED"
  /\ n.last_provisionally_granted = node[g].last_provisionally_granted
  /\ in_transit[g] \subseteq in_transit'[g] /\ in_transit'[g] \subseteq WholeTag
  /\ Heard(n.next_event) \in WholeTag
  /\ \/ Heard(n.next_event)[1] <= Heard(node[g].next_event)[1]
     \/ /\ g = f /\ m.type = "NET" /\ Heard(n.next_event)[1] <= m.tag[1]
        /\ \A t \in in_transit[g] : Heard(n.next_event)[1] <= t[1]
     \/ g = f /\ m.type \in {"RESIGN", "FAILED", "EOF"}
  /\ m.type = "MSG" /\ Forwarding(f, g) =>
       /\ Heard(n.next_event)[1] <= m.tag[1]
       /\ Less(node[g].completed, m.tag) => m.tag \in in_transit'[g]
Notes(f, N) == \A g \in Fed : NotesOf(f, N[g], g)

\* The grant of e only grows, and by what is safe.
Raises(e) ==
  Upstreams(e) # {} =>
    /\ Leq(node[e].last_granted, node'[e].last_granted)
    /\ \A t \in Tag : t = node'[e].last_granted => t = node[e].last_granted \/ Grantable(node, e, t)'

\* What is sent to e meanwhile.
Granting(e, m) ==
  m.type \in {"TAG", "DNET"} /\ (m.type = "TAG" /\ Upstreams(e) # {} => Leq(m.tag, node'[e].last_granted))
Posts(f, e) ==
  /\ Len(down[e]) \in Nat /\ Len(down'[e]) \in Nat /\ Len(down[e]) <= Len(down'[e])
  /\ \A i \in 1 .. Len(down[e]) : down'[e][i] = down[e][i]
  /\ Forwarding(f, e) => Len(down[e]) < Len(down'[e]) /\ down'[e][Len(down[e]) + 1] = up[f][1]
  /\ \A i \in Len(down[e]) + 1 .. Len(down'[e]) :
       \/ Forwarding(f, e) /\ i = Len(down[e]) + 1 /\ down'[e][i] = up[f][1]
       \/ Granting(e, down'[e][i])

Handling(f) == Serving(f) /\ Notes(f, node') /\ \A e \in Fed : Raises(e) /\ Posts(f, e)

\* The handler begins with the change B and then grants.
Begins(f, B) ==
  /\ Evolves(B, [node |-> node', down |-> down'])
  /\ \A e \in Fed : B.node[e].last_granted = node[e].last_granted
  /\ \A e \in Fed : B.down[e] = IF Forwarding(f, e) THEN Append(down[e], up[f][1]) ELSE down[e]
  /\ Notes(f, B.node)

LEMMA NoCycle ==
  ASSUME NetworkPlain
  PROVE  ~HasCycle
BY DEF NetworkPlain, Plain, HasCycle, is_in_zero_delay_cycle

LEMMA GrantableAfter ==
  ASSUME UNCHANGED network, NEW e \in Fed, NEW t, Grantable(node', e, t)
  PROVE  Grantable(node, e, t)'
<1>1. program' = program /\ min_delays' = min_delays
  BY DEF network
<1>2. MinUpstreamCompleted(node', e) = MinUpstreamCompleted(node, e)'
  BY <1>1 DEF MinUpstreamCompleted, ConnTo
<1>3. earliest_future_incoming_message_tag(node', e) = earliest_future_incoming_message_tag(node, e)'
  BY <1>1 DEF earliest_future_incoming_message_tag, IsUpstream
<1> QED  BY <1>2, <1>3 DEF Grantable

LEMMA BeginsHandling ==
  ASSUME TypeInv, NetworkPlain, NEW f \in Fed, Serving(f), NEW B, Begins(f, B)
  PROVE  Handling(f)
<1>1. /\ Evolves(B, [node |-> node', down |-> down'])
      /\ NetworkOK /\ ~HasCycle /\ UNCHANGED network
  BY NoCycle DEF Begins, TypeInv, Serving
<1>2. /\ node' \in [Fed -> Node]
      /\ Kept(B.node, node') /\ Raised(B.node, node') /\ Provisionally(B.node, node')
      /\ \A e \in Fed : \E ms \in Seq(DownMessage(e)) :
           /\ down'[e] = B.down[e] \o ms
           /\ \A i \in 1 .. Len(ms) : Sent(e, node'[e], ms[i])
  BY <1>1, EvolvedTypes
<1>3. Notes(f, node')
  <2>1. \A g \in Fed : /\ node'[g].state = B.node[g].state /\ node'[g].completed = B.node[g].completed
                       /\ Heard(node'[g].next_event) = Heard(B.node[g].next_event)
                       /\ node'[g].last_provisionally_granted = B.node[g].last_provisionally_granted
    BY <1>1, <1>2 DEF Kept, Provisionally
  <2>2. Notes(f, B.node)
    BY DEF Begins
  <2> QED  BY <2>1, <2>2 DEF Notes, NotesOf
<1>4. ASSUME NEW e \in Fed PROVE Raises(e)
  <2>1. ASSUME Upstreams(e) # {} PROVE Leq(node[e].last_granted, node'[e].last_granted)
    BY <1>2, <2>1 DEF Raised, Begins
  <2>2. ASSUME Upstreams(e) # {}, NEW t \in Tag, t = node'[e].last_granted, t # node[e].last_granted
        PROVE  Grantable(node, e, t)'
    <3>1. Grantable(B.node, e, t)
      BY <1>1, <1>2, <2>2 DEF Raised, Begins
    <3>2. Grantable(node', e, t)
      BY <1>1, <1>2, <3>1, KeptDecides
    <3> QED  BY <1>1, <3>2, GrantableAfter
  <2> QED  BY <2>1, <2>2 DEF Raises
<1>5. ASSUME NEW e \in Fed PROVE Posts(f, e)
  <2>1. PICK ms \in Seq(DownMessage(e)) :
          /\ down'[e] = B.down[e] \o ms
          /\ \A i \in 1 .. Len(ms) : Sent(e, node'[e], ms[i])
    BY <1>2
  <2>2. B.down[e] \in Seq(DownMessage(e)) /\ down[e] \in Seq(DownMessage(e))
    BY <1>1, RTIStateParts DEF Evolves, TypeInv
  <2>3. /\ Len(down'[e]) = Len(B.down[e]) + Len(ms) /\ Len(B.down[e]) \in Nat /\ Len(ms) \in Nat
        /\ \A i \in 1 .. Len(B.down[e]) : down'[e][i] = B.down[e][i]
        /\ \A i \in Len(B.down[e]) + 1 .. Len(down'[e]) : down'[e][i] = ms[i - Len(B.down[e])]
    BY <2>1, <2>2, ConcatProperties, LenProperties
  <2>4. \A i \in Len(B.down[e]) + 1 .. Len(down'[e]) : Granting(e, down'[e][i])
    <3>1. ASSUME NEW i \in Len(B.down[e]) + 1 .. Len(down'[e]) PROVE Granting(e, down'[e][i])
      <4>1. i - Len(B.down[e]) \in 1 .. Len(ms)
        BY <2>3
      <4>2. Sent(e, node'[e], down'[e][i])
        BY <2>1, <2>3, <4>1
      <4> QED  BY <1>1, <4>2 DEF Sent, Granting
    <3> QED  BY <3>1
  <2>5. Len(down[e]) \in Nat
    BY <2>2, LenProperties
  <2>6. CASE Forwarding(f, e)
    <3>1. B.down[e] = Append(down[e], up[f][1])
      BY <2>6 DEF Begins
    <3>2. /\ Len(B.down[e]) = Len(down[e]) + 1 /\ B.down[e][Len(down[e]) + 1] = up[f][1]
          /\ \A i \in 1 .. Len(down[e]) : B.down[e][i] = down[e][i]
      BY <2>2, <2>5, <3>1
    <3>3. Len(down[e]) < Len(down'[e]) /\ down'[e][Len(down[e]) + 1] = up[f][1]
      BY <2>3, <2>5, <3>2, SMTT(30)
    <3>4. ASSUME NEW i \in Len(down[e]) + 1 .. Len(down'[e])
          PROVE  (Forwarding(f, e) /\ i = Len(down[e]) + 1 /\ down'[e][i] = up[f][1]) \/ Granting(e, down'[e][i])
      <4>1. CASE i = Len(down[e]) + 1
        BY <2>6, <3>3, <4>1
      <4>2. CASE i # Len(down[e]) + 1
        <5>1. i \in Len(B.down[e]) + 1 .. Len(down'[e])
          BY <2>3, <2>5, <3>2, <3>4, <4>2
        <5> QED  BY <2>4, <5>1
      <4> QED  BY <4>1, <4>2
    <3>5. Len(down'[e]) \in Nat
      BY <2>3
    <3>6. \A i \in 1 .. Len(down[e]) : down'[e][i] = down[e][i]
      BY <2>3, <2>5, <3>2
    <3> QED  BY <2>5, <3>3, <3>4, <3>5, <3>6 DEF Posts
  <2>7. CASE ~Forwarding(f, e)
    <3>1. B.down[e] = down[e]
      BY <2>7 DEF Begins
    <3> QED  BY <2>3, <2>4, <2>5, <2>7, <3>1 DEF Posts
  <2> QED  BY <2>6, <2>7
<1> QED  BY <1>3, <1>4, <1>5 DEF Handling

LEMMA ServesBy ==
  ASSUME TypeInv, NEW f \in Fed, ServeFederate(f), NEW type, Receive(f, type)
  PROVE  Serving(f) /\ up[f][1] = Head(up[f]) /\ up[f][1].type = type /\ up[f][1] \in UpMessage(f)
         /\ 1 \in 1 .. Len(up[f])
<1>1. UNCHANGED <<network, fed>>
  BY ServeParts
<1>2. /\ up'[f] = Tail(up[f]) /\ \A g \in Fed \ {f} : up'[g] = up[g]
      /\ up[f] # <<>> /\ Head(up[f]) \in UpMessage(f) /\ Head(up[f]).type = type
      /\ Head(up[f]) = up[f][1] /\ Len(up'[f]) = Len(up[f]) - 1
      /\ \A i \in 1 .. Len(up'[f]) : up'[f][i] = up[f][i + 1]
  BY Received
<1>3. Len(up[f]) \in Nat /\ Len(up[f]) >= 1
  <2>1. up[f] \in Seq(UpMessage(f))
    BY DEF TypeInv
  <2> QED  BY <1>2, <2>1
<1>4. confirming[f] = NULL
  BY DEF Receive
<1> QED  BY <1>1, <1>2, <1>3, <1>4 DEF Serving, network

\* What is noted of who is not concerned.
LEMMA NothingNoted ==
  ASSUME TypeInv, WholeRTI, NEW f \in Fed, NEW g \in Fed,
         confirming'[g] = confirming[g], in_transit' = in_transit, up[f][1].type # "MSG"
  PROVE  NotesOf(f, node[g], g)
<1>1. Heard(node[g].next_event) \in WholeTag /\ Heard(node[g].next_event)[1] \in Int /\ in_transit[g] \subseteq WholeTag
  BY WholeTags DEF WholeRTI
<1> QED  BY <1>1 DEF NotesOf

\* NextWithInTransit() is not later than what it considers.
LEMMA NextOfWhole ==
  ASSUME NEW T, T \subseteq WholeTag, NEW t \in WholeTag
  PROVE  LET next == NextWithInTransit(T, t) IN
         /\ next \in WholeTag /\ Heard(next) = next /\ next[1] \in Int
         /\ next[1] <= t[1] /\ \A u \in T : next[1] <= u[1]
<1> DEFINE next == NextWithInTransit(T, t)
<1>1. T \subseteq Tag /\ t \in Tag /\ WholeTag \subseteq EventTag
  BY WholeTags, SpecialTags
<1>2. Earliest(T) \in T \cup {FOREVER_TAG} /\ Earliest(T) \in Tag /\ \A u \in T : Leq(Earliest(T), u)
  BY <1>1, EarliestIsLeast
<1>3. next \in {Earliest(T), t} /\ Leq(next, Earliest(T)) /\ Leq(next, t)
  BY <1>1, <1>2, MinMaxTags DEF NextWithInTransit
<1>4. next \in WholeTag /\ Earliest(T) \in WholeTag
  BY <1>2, <1>3, WholeTags
<1> HIDE DEF next
<1>5. next[1] <= t[1] /\ next[1] <= Earliest(T)[1] /\ next[1] \in Int /\ Earliest(T)[1] \in Int
  BY <1>3, <1>4, WholeOrder
<1>6. ASSUME NEW u \in T PROVE next[1] <= u[1]
  <2>1. Earliest(T)[1] <= u[1] /\ u[1] \in Int
    BY <1>2, <1>4, <1>6, WholeOrder
  <2> QED  BY <1>5, <2>1
<1>7. Heard(next) = next
  BY <1>1, <1>4, SpecialTags DEF Heard
<1> QED  BY <1>4, <1>5, <1>6, <1>7 DEF next

LEMMA NETHandling ==
  ASSUME TypeInv, NetworkPlain, WholeRTI, NEW f \in Fed, handle_next_event_tag(f)
  PROVE  Handling(f)
<1> DEFINE m == up[f][1]
           next == NextWithInTransit(in_transit[f], m.tag)
           B == WithNextEvent(RTI, f, next)
<1>1. ServeFederate(f) /\ Receive(f, "NET") /\ in_transit' = in_transit /\ confirming' = confirming
  BY DEF ServeFederate, handle_next_event_tag
<1>2. Serving(f) /\ m = Head(up[f]) /\ m.type = "NET" /\ m \in UpMessage(f) /\ m.tag \in WholeTag
  BY <1>1, ServesBy DEF WholeRTI
<1>3. Evolves(B, [node |-> node', down |-> down'])
  BY <1>2, NextEventTagEvolves DEF NETEvolves
<1>4. next \in WholeTag /\ Heard(next) = next /\ next[1] <= m.tag[1] /\ \A u \in in_transit[f] : next[1] <= u[1]
  BY <1>2, NextOfWhole DEF WholeRTI
<1> HIDE DEF next, m
<1>5. /\ B.node = [node EXCEPT ![f].next_event = next] /\ B.down = down
  BY TypedRTI DEF WithNextEvent
<1>6. /\ B.node[f] = [node[f] EXCEPT !.next_event = next] /\ \A g \in Fed \ {f} : B.node[g] = node[g]
      /\ node[f] \in Node
  BY <1>5 DEF TypeInv
<1>7. /\ B.node[f].next_event = next /\ B.node[f].state = node[f].state
      /\ B.node[f].completed = node[f].completed /\ B.node[f].last_granted = node[f].last_granted
      /\ B.node[f].last_provisionally_granted = node[f].last_provisionally_granted
  BY <1>6 DEF Node
<1> HIDE DEF B
<1>8. \A g \in Fed : Heard(node[g].next_event) \in WholeTag /\ Heard(node[g].next_event)[1] \in Int
                     /\ in_transit[g] \subseteq WholeTag
  BY WholeTags DEF WholeRTI
<1>9. Notes(f, B.node)
  <2>1. NotesOf(f, B.node[f], f)
    BY <1>1, <1>2, <1>4, <1>7, <1>8 DEF NotesOf, m
  <2>2. \A g \in Fed \ {f} : NotesOf(f, B.node[g], g)
    BY <1>1, <1>2, <1>6, NothingNoted DEF m
  <2> QED  BY <2>1, <2>2 DEF Notes
<1>10. Begins(f, B)
  BY <1>2, <1>3, <1>5, <1>6, <1>7, <1>9 DEF Begins, Forwarding, m
<1> QED  BY <1>2, <1>10, BeginsHandling

LEMMA LTCHandling ==
  ASSUME TypeInv, NetworkPlain, WholeRTI, NEW f \in Fed, handle_latest_tag_confirmed(f)
  PROVE  Handling(f)
<1> DEFINE m == up[f][1]
           B == LTCReceived(f)
<1>1. ServeFederate(f) /\ Receive(f, "LTC") /\ in_transit' = in_transit
      /\ confirming' = [confirming EXCEPT ![f] = Head(up[f]).tag]
  BY DEF ServeFederate, handle_latest_tag_confirmed
<1>2. Serving(f) /\ m = Head(up[f]) /\ m.type = "LTC"
  BY <1>1, ServesBy
<1>3. Evolves(B, [node |-> node', down |-> down'])
  BY LTCEvolves
<1> HIDE DEF m
<1>4. B.node = [node EXCEPT ![f] = [node[f] EXCEPT !.completed = m.tag]] /\ B.down = down
  BY <1>2, TypedRTI DEF LTCReceived, WithNode
<1>5. /\ B.node[f] = [node[f] EXCEPT !.completed = m.tag] /\ \A g \in Fed \ {f} : B.node[g] = node[g]
      /\ node[f] \in Node
  BY <1>4 DEF TypeInv
<1>6. /\ B.node[f].next_event = node[f].next_event /\ B.node[f].state = node[f].state
      /\ B.node[f].completed = m.tag /\ B.node[f].last_granted = node[f].last_granted
      /\ B.node[f].last_provisionally_granted = node[f].last_provisionally_granted
  BY <1>5 DEF Node
<1> HIDE DEF B
<1>7. \A g \in Fed : Heard(node[g].next_event) \in WholeTag /\ Heard(node[g].next_event)[1] \in Int
                     /\ in_transit[g] \subseteq WholeTag
  BY WholeTags DEF WholeRTI
<1>8. confirming'[f] = m.tag /\ \A g \in Fed \ {f} : confirming'[g] = confirming[g]
  BY <1>1, <1>2 DEF TypeInv
<1>9. Notes(f, B.node)
  <2>1. NotesOf(f, B.node[f], f)
    BY <1>1, <1>2, <1>6, <1>7, <1>8 DEF NotesOf, m
  <2>2. \A g \in Fed \ {f} : NotesOf(f, B.node[g], g)
    BY <1>1, <1>2, <1>5, <1>8, NothingNoted DEF m
  <2> QED  BY <2>1, <2>2 DEF Notes
<1>10. Begins(f, B)
  BY <1>2, <1>3, <1>4, <1>5, <1>6, <1>9 DEF Begins, Forwarding, m
<1> QED  BY <1>2, <1>10, BeginsHandling

LEMMA LeftHandling ==
  ASSUME TypeInv, NetworkPlain, WholeRTI, NEW f \in Fed,
         handle_federate_resign(f) \/ handle_federate_failed(f)
  PROVE  Handling(f)
<1> DEFINE m == up[f][1]
           B == LeftRTI(f)
<1>1. /\ ServeFederate(f) /\ (Receive(f, "RESIGN") \/ Receive(f, "FAILED"))
      /\ in_transit' = in_transit /\ confirming' = confirming /\ Reply(Disconnected(f))
  BY DEF ServeFederate, handle_federate_resign, handle_federate_failed
<1>2. Serving(f) /\ m.type \in {"RESIGN", "FAILED", "EOF"}
  BY <1>1, ServesBy
<1>3. Evolves(B, [node |-> node', down |-> down'])
  BY <1>1, DisconnectedEvolves
<1> DEFINE n == [node[f] EXCEPT !.state = "NOT_CONNECTED", !.next_event = FOREVER_TAG]
<1>4. B.node = [node EXCEPT ![f] = n] /\ B.down = down
  BY TypedRTI DEF LeftRTI, WithNode
<1>5. B.node[f] = n /\ (\A g \in Fed \ {f} : B.node[g] = node[g]) /\ node[f] \in Node
  BY <1>4 DEF TypeInv
<1>6. /\ B.node[f].next_event = FOREVER_TAG /\ B.node[f].state = "NOT_CONNECTED"
      /\ B.node[f].completed = node[f].completed /\ B.node[f].last_granted = node[f].last_granted
      /\ B.node[f].last_provisionally_granted = node[f].last_provisionally_granted
  BY <1>5 DEF Node
<1> HIDE DEF B, m
<1>7. \A g \in Fed : Heard(node[g].next_event) \in WholeTag /\ Heard(node[g].next_event)[1] \in Int
                     /\ in_transit[g] \subseteq WholeTag
  BY WholeTags DEF WholeRTI
<1>8. Heard(FOREVER_TAG) \in WholeTag
  BY SpecialTags, WholeTags DEF Heard
<1>9. Notes(f, B.node)
  <2>1. NotesOf(f, B.node[f], f)
    BY <1>1, <1>2, <1>6, <1>7, <1>8 DEF NotesOf, m
  <2>2. \A g \in Fed \ {f} : NotesOf(f, B.node[g], g)
    BY <1>1, <1>2, <1>5, <1>8, NothingNoted DEF m
  <2> QED  BY <2>1, <2>2 DEF Notes
<1>10. Begins(f, B)
  BY <1>2, <1>3, <1>4, <1>5, <1>6, <1>9 DEF Begins, Forwarding, m
<1> QED  BY <1>2, <1>10, BeginsHandling

LEMMA ClosedHandling ==
  ASSUME TypeInv, NetworkPlain, WholeRTI, NEW f \in Fed, connection_closed(f)
  PROVE  Handling(f)
<1> DEFINE m == up[f][1]
           B == [node |-> node', down |-> down']
<1>1. /\ ServeFederate(f) /\ Receive(f, "EOF")
      /\ in_transit' = in_transit /\ confirming' = confirming /\ down' = down
      /\ node' = [node EXCEPT ![f] = [node[f] EXCEPT !.state = "NOT_CONNECTED"]]
  BY DEF ServeFederate, connection_closed
<1>2. Serving(f) /\ m.type = "EOF"
  BY <1>1, ServesBy
<1>3. Evolves(B, B) /\ B.node = node' /\ B.down = down
  <2>1. node' \in [Fed -> Node] /\ down = [g \in Fed |-> down[g]] /\ \A g \in Fed : down[g] \in Seq(DownMessage(g))
    BY <1>1 DEF TypeInv, Node
  <2>2. [node |-> node', down |-> down] \in RTIStates
    BY <2>1, RTIState
  <2> QED  BY <1>1, <2>2, EvolvesRefl
<1>4. /\ \A g \in Fed \ {f} : node'[g] = node[g]
      /\ node'[f].next_event = node[f].next_event /\ node'[f].state = "NOT_CONNECTED"
      /\ node'[f].completed = node[f].completed /\ node'[f].last_granted = node[f].last_granted
      /\ node'[f].last_provisionally_granted = node[f].last_provisionally_granted
  BY <1>1 DEF TypeInv, Node
<1>5. \A g \in Fed : Heard(node[g].next_event) \in WholeTag /\ Heard(node[g].next_event)[1] \in Int
                     /\ in_transit[g] \subseteq WholeTag
  BY WholeTags DEF WholeRTI
<1>6. Notes(f, node')
  <2>1. NotesOf(f, node'[f], f)
    BY <1>1, <1>2, <1>4, <1>5 DEF NotesOf, Forwarding
  <2>2. \A g \in Fed \ {f} : NotesOf(f, node'[g], g)
    BY <1>1, <1>2, <1>4, NothingNoted
  <2> QED  BY <2>1, <2>2 DEF Notes
<1>7. Begins(f, B)
  BY <1>1, <1>2, <1>3, <1>4, <1>6 DEF Begins, Forwarding
<1> QED  BY <1>2, <1>7, BeginsHandling

LEMMA AbsentHandling ==
  ASSUME TypeInv, NetworkPlain, WholeRTI, NEW f \in Fed, handle_port_absent_message(f)
  PROVE  Handling(f)
<1> DEFINE m == up[f][1]
           d == m.conn.to
           B == [node |-> node, down |-> down']
<1>1. /\ ServeFederate(f) /\ Receive(f, "ABSENT")
      /\ node' = node /\ in_transit' = in_transit /\ confirming' = confirming
      /\ down' = IF node[Head(up[f]).conn.to].state = "NOT_CONNECTED" THEN down
                 ELSE Send(down, Head(up[f]).conn.to, Head(up[f]))
  BY DEF ServeFederate, handle_port_absent_message
<1>2. Serving(f) /\ m = Head(up[f]) /\ m.type = "ABSENT" /\ m \in UpMessage(f)
  BY <1>1, ServesBy
<1> HIDE DEF m
<1>3. d \in Fed /\ m \in DownMessage(d)
  BY <1>2, TypedRTI, UpMessageKinds
<1>4. /\ down' = IF ~Connected(d) THEN down ELSE Send(down, d, m)
  BY <1>1, <1>2 DEF Connected
<1>5. RTI \in RTIStates /\ RTI.node = node /\ RTI.down = down
  BY TypedRTI
<1>6. B \in RTIStates
  <2>1. CASE ~Connected(d)
    BY <1>4, <1>5, <2>1, RTIStateParts
  <2>2. CASE Connected(d)
    <3>1. [node |-> node, down |-> Send(down, d, m)] \in RTIStates
      <4> HIDE DEF d
      <4> QED  BY <1>3, <1>5, Forwarded
    <3> QED  BY <1>4, <2>2, <3>1
  <2> QED  BY <2>1, <2>2
<1>7. Evolves(B, [node |-> node', down |-> down'])
  <2>1. [node |-> node', down |-> down'] = B
    BY <1>1
  <2> QED  BY <1>6, <2>1, EvolvesRefl
<1>8. B.node = node /\ B.down = down'
  OBVIOUS
<1> HIDE DEF B
<1>9. Notes(f, node)
  BY <1>1, <1>2, NothingNoted DEF Notes, m
<1>10. \A e \in Fed : B.down[e] = IF Forwarding(f, e) THEN Append(down[e], m) ELSE down[e]
  <2>1. CASE ~Connected(d)
    BY <1>2, <1>4, <1>8, <2>1, SMTT(30) DEF Forwarding, m
  <2>2. CASE Connected(d)
    <3>1. Send(down, d, m)[d] = Append(down[d], m) /\ \A g \in Fed \ {d} : Send(down, d, m)[g] = down[g]
      <4> HIDE DEF d
      <4>1. /\ Send(RTI.down, d, m)[d] = Append(RTI.down[d], m)
            /\ \A g \in Fed \ {d} : Send(RTI.down, d, m)[g] = RTI.down[g]
        BY <1>3, <1>5, Forwarded, ZenonT(60)
      <4> QED  BY <1>5, <4>1
    <3> QED  BY <1>2, <1>4, <1>8, <2>2, <3>1 DEF Forwarding, m
  <2> QED  BY <2>1, <2>2
<1>11. Begins(f, B)
  BY <1>7, <1>8, <1>9, <1>10 DEF Begins, m
<1> QED  BY <1>2, <1>11, BeginsHandling

\* The message m is sent on to d: N are the nodes after, T the tags in transit.
ForwardsTo(f, N, m, d, T) ==
  /\ m = up[f][1] /\ m.type = "MSG" /\ m.conn.to = d /\ m.tag \in WholeTag
  /\ confirming' = confirming
  /\ in_transit' = [in_transit EXCEPT ![d] = T]
  /\ T \subseteq WholeTag /\ in_transit[d] \subseteq T /\ (Less(node[d].completed, m.tag) => m.tag \in T)
  /\ \A g \in Fed \ {d} : N[g] = node[g]
  /\ N[d].state = node[d].state /\ N[d].completed = node[d].completed
  /\ N[d].last_provisionally_granted = node[d].last_provisionally_granted
  /\ Heard(N[d].next_event) \in WholeTag /\ Heard(N[d].next_event)[1] <= m.tag[1]
  /\ Heard(N[d].next_event)[1] <= Heard(node[d].next_event)[1]

LEMMA ForwardedNotes ==
  ASSUME TypeInv, WholeRTI, NEW f \in Fed, NEW N, NEW m, NEW d \in Fed, NEW T, ForwardsTo(f, N, m, d, T)
  PROVE  Notes(f, N)
<1>1. in_transit'[d] = T /\ \A g \in Fed \ {d} : in_transit'[g] = in_transit[g]
  <2>1. in_transit' = [in_transit EXCEPT ![d] = T]
    BY DEF ForwardsTo
  <2> QED  BY <2>1 DEF TypeInv
<1>2. confirming' = confirming /\ m = up[f][1] /\ m.type = "MSG" /\ m.conn.to = d
  BY DEF ForwardsTo
<1>3. NotesOf(f, N[d], d)
  <2>1. /\ T \subseteq WholeTag /\ in_transit[d] \subseteq T /\ (Less(node[d].completed, m.tag) => m.tag \in T)
        /\ N[d].state = node[d].state /\ N[d].completed = node[d].completed
        /\ N[d].last_provisionally_granted = node[d].last_provisionally_granted
        /\ Heard(N[d].next_event) \in WholeTag /\ Heard(N[d].next_event)[1] <= m.tag[1]
        /\ Heard(N[d].next_event)[1] <= Heard(node[d].next_event)[1]
    BY DEF ForwardsTo
  <2> QED  BY <1>1, <1>2, <2>1 DEF NotesOf
<1>4. ASSUME NEW g \in Fed \ {d} PROVE NotesOf(f, N[g], g)
  <2>1. N[g] = node[g]
    BY <1>4 DEF ForwardsTo
  <2>2. Heard(node[g].next_event) \in WholeTag /\ in_transit[g] \subseteq WholeTag
    BY <1>4 DEF WholeRTI
  <2>3. Heard(node[g].next_event)[1] \in Int
    BY <2>2, WholeTags
  <2>4. ~Forwarding(f, g)
    BY <1>2, <1>4 DEF Forwarding
  <2>5. in_transit'[g] = in_transit[g] /\ confirming'[g] = confirming[g]
    BY <1>1, <1>2, <1>4
  <2>6. NotesOf(f, node[g], g)
    BY <2>2, <2>3, <2>4, <2>5, SMTT(30) DEF NotesOf
  <2> QED  BY <2>1, <2>6
<1> QED  BY <1>3, <1>4 DEF Notes

LEMMA MSGHandling ==
  ASSUME TypeInv, NetworkPlain, WholeRTI, NEW f \in Fed, handle_timed_message(f)
  PROVE  Handling(f)
<1> DEFINE m == up[f][1]
           d == m.conn.to
           T == TransitWith(f)
           next == NextWithInTransit(T, m.tag)
<1>1. ServeFederate(f) /\ Receive(f, "MSG") /\ confirming' = confirming
  BY DEF ServeFederate, handle_timed_message
<1>2. Serving(f) /\ m = Head(up[f]) /\ m.type = "MSG" /\ m \in UpMessage(f) /\ m.tag \in WholeTag
  BY <1>1, ServesBy DEF WholeRTI
<1>3. /\ d \in Fed /\ m \in DownMessage(d)
      /\ node[d].state = "NOT_CONNECTED" => UNCHANGED <<in_transit, node, down>>
      /\ node[d].state # "NOT_CONNECTED" =>
           /\ ForwardedRTI(f) \in RTIStates
           /\ in_transit' = [in_transit EXCEPT ![d] = T]
           /\ ~Less(m.tag, node[d].next_event) => Evolves(ForwardedRTI(f), [node |-> node', down |-> down'])
           /\ Less(m.tag, node[d].next_event) =>
                Evolves(WithNextEvent(ForwardedRTI(f), d, next), [node |-> node', down |-> down'])
  BY <1>2, TimedMessageEvolves
<1>4. T = IF Less(node[d].completed, m.tag) THEN in_transit[d] \cup {m.tag} ELSE in_transit[d]
  BY <1>2 DEF TransitWith
<1>5. ForwardedRTI(f) = [node |-> node, down |-> Send(down, d, m)]
  BY <1>2 DEF ForwardedRTI
<1> HIDE DEF m, T
<1>6. /\ RTI \in RTIStates /\ RTI.node = node /\ RTI.down = down
      /\ node[d] \in Node /\ Heard(node[d].next_event) \in WholeTag
  BY <1>3, TypedRTI DEF TypeInv, WholeRTI
<1>7. CASE node[d].state = "NOT_CONNECTED"
  <2>1. UNCHANGED <<in_transit, node, down>>
    BY <1>3, <1>7
  <2>2. Notes(f, node)
    <3>1. \A g \in Fed : ~Forwarding(f, g)
      BY <1>7 DEF Forwarding, Connected, m
    <3>2. \A g \in Fed : Heard(node[g].next_event) \in WholeTag /\ Heard(node[g].next_event)[1] \in Int
                         /\ in_transit[g] \subseteq WholeTag
      BY WholeTags DEF WholeRTI
    <3> QED  BY <1>1, <2>1, <3>1, <3>2 DEF Notes, NotesOf
  <2>3. Evolves(RTI, [node |-> node', down |-> down'])
    <3>1. [node |-> node', down |-> down'] = RTI
      BY <2>1 DEF RTI
    <3> QED  BY <1>6, <3>1, EvolvesRefl
  <2>4. \A e \in Fed : ~Forwarding(f, e)
    BY <1>7 DEF Forwarding, Connected, m
  <2>5. Begins(f, RTI)
    BY <1>6, <2>2, <2>3, <2>4, SMTT(30) DEF Begins
  <2> QED  BY <1>2, <2>5, BeginsHandling
<1>8. CASE node[d].state # "NOT_CONNECTED"
  <2>1. T \subseteq WholeTag /\ in_transit[d] \subseteq T /\ (Less(node[d].completed, m.tag) => m.tag \in T)
    <3>1. d \in Fed
      BY <1>3
    <3> HIDE DEF d
    <3>2. in_transit[d] \subseteq WholeTag
      BY <3>1, SMTT(30) DEF WholeRTI
    <3> QED  BY <1>2, <1>4, <3>2
  <2>2. \A e \in Fed : Send(down, d, m)[e] = IF Forwarding(f, e) THEN Append(down[e], m) ELSE down[e]
    <3>1. /\ Send(RTI.down, d, m)[d] = Append(RTI.down[d], m)
          /\ \A g \in Fed \ {d} : Send(RTI.down, d, m)[g] = RTI.down[g]
      <4>1. d \in Fed /\ m \in DownMessage(d)
        BY <1>3
      <4> HIDE DEF d
      <4> QED  BY <1>6, <4>1, Forwarded, ZenonT(60)
    <3> QED  BY <1>2, <1>6, <1>8, <3>1 DEF Forwarding, Connected, m
  <2>0. in_transit' = [in_transit EXCEPT ![d] = T] /\ d \in Fed /\ m = up[f][1]
    BY <1>3, <1>8 DEF m
  <2>3. m.tag \in Tag /\ m.tag[1] \in Int /\ ~Less(m.tag, NEVER_TAG) /\ 0 <= m.tag[1]
    BY <1>2, WholeTags, SpecialTags, TagOrdering, ZeroAndForever
  <2>4. node[d].next_event \in Tag /\ (node[d].next_event = NEVER_TAG \/ node[d].next_event \in WholeTag)
    BY <1>6, NodeParts DEF Heard
  <2>5. CASE ~Less(m.tag, node[d].next_event)
    <3>1. Heard(node[d].next_event)[1] <= m.tag[1]
      <4>1. CASE node[d].next_event = NEVER_TAG
        BY <2>3, <4>1 DEF Heard, ZERO_TAG
      <4>2. CASE node[d].next_event # NEVER_TAG
        <5>1. node[d].next_event[1] <= m.tag[1]
          BY <1>2, <2>4, <2>5, <4>2, WholeOrder
        <5> QED  BY <4>2, <5>1 DEF Heard
      <4> QED  BY <4>1, <4>2
    <3>2. Heard(node[d].next_event)[1] <= Heard(node[d].next_event)[1]
      BY <1>6, WholeTags
    <3> DEFINE B == ForwardedRTI(f)
    <3>3. B.node = node /\ B.down = Send(down, d, m)
      BY <1>5
    <3>4. Notes(f, B.node)
      <4>1. m.conn.to = d /\ m.tag \in WholeTag /\ m.type = "MSG"
        BY <1>2
      <4> HIDE DEF d
      <4>2. ForwardsTo(f, node, m, d, T)
        BY <1>1, <1>6, <2>0, <2>1, <3>1, <3>2, <4>1 DEF ForwardsTo
      <4> QED  BY <2>0, <3>3, <4>2, ForwardedNotes
    <3>5. Begins(f, B)
      BY <1>3, <1>8, <2>2, <2>5, <3>3, <3>4 DEF Begins, m
    <3> QED  BY <1>2, <3>5, BeginsHandling
  <2>6. CASE Less(m.tag, node[d].next_event)
    <3>1. next \in WholeTag /\ Heard(next) = next /\ next[1] <= m.tag[1] /\ next[1] \in Int
      BY <1>2, <2>1, NextOfWhole
    <3>2. next[1] <= Heard(node[d].next_event)[1]
      <4>1. node[d].next_event # NEVER_TAG
        BY <2>3, <2>6, SMTT(30)
      <4>2. m.tag[1] < node[d].next_event[1] /\ node[d].next_event[1] \in Int
        BY <1>2, <2>4, <2>6, <4>1, WholeOrder
      <4> QED  BY <2>3, <3>1, <4>1, <4>2 DEF Heard
    <3> HIDE DEF next
    <3> DEFINE B == WithNextEvent(ForwardedRTI(f), d, next)
    <3>3. B.node = [node EXCEPT ![d].next_event = next] /\ B.down = Send(down, d, m)
      BY <1>5 DEF WithNextEvent
    <3>4. B.node[d] = [node[d] EXCEPT !.next_event = next] /\ \A g \in Fed \ {d} : B.node[g] = node[g]
      BY <1>3, <3>3 DEF TypeInv
    <3>5. /\ B.node[d].next_event = next /\ B.node[d].state = node[d].state
          /\ B.node[d].completed = node[d].completed /\ B.node[d].last_granted = node[d].last_granted
          /\ B.node[d].last_provisionally_granted = node[d].last_provisionally_granted
      BY <1>6, <3>4 DEF Node
    <3> HIDE DEF B
    <3>6. Notes(f, B.node)
      <4>1. /\ Heard(B.node[d].next_event) \in WholeTag /\ Heard(B.node[d].next_event)[1] <= m.tag[1]
            /\ Heard(B.node[d].next_event)[1] <= Heard(node[d].next_event)[1]
        BY <3>1, <3>2, <3>5
      <4>2. \A g \in Fed \ {d} : B.node[g] = node[g]
        BY <3>4
      <4>3. m.conn.to = d /\ m.tag \in WholeTag /\ m.type = "MSG"
        BY <1>2
      <4> HIDE DEF d
      <4>4. ForwardsTo(f, B.node, m, d, T)
        BY <1>1, <2>0, <2>1, <3>5, <4>1, <4>2, <4>3 DEF ForwardsTo
      <4> QED  BY <2>0, <4>4, ForwardedNotes
    <3>7. \A e \in Fed : B.node[e].last_granted = node[e].last_granted
      BY <3>4, <3>5
    <3>8. Begins(f, B)
      BY <1>3, <1>8, <2>2, <2>6, <3>3, <3>6, <3>7 DEF Begins, B, m
    <3> QED  BY <1>2, <3>8, BeginsHandling
  <2> QED  BY <2>5, <2>6
<1> QED  BY <1>7, <1>8

-----------------------------------------------------------------------------
(* A handler of the RTI keeps the invariant                                *)
LEMMA HandlingParts ==
  ASSUME TypeInv, TypeInv', NEW f \in Fed, Handling(f)
  PROVE  /\ program' = program /\ min_delays' = min_delays /\ UNCHANGED network /\ fed' = fed
         /\ \A g \in Fed \ {f} : up'[g] = up[g]
         /\ 1 \in 1 .. Len(up[f]) /\ Len(up[f]) \in Nat /\ Len(up'[f]) = Len(up[f]) - 1
         /\ \A i \in 1 .. Len(up'[f]) : i + 1 \in 1 .. Len(up[f]) /\ up'[f][i] = up[f][i + 1]
         /\ confirming[f] = NULL
         /\ \A g \in Fed : /\ NotesOf(f, node'[g], g) /\ Raises(g) /\ Posts(f, g)
                           /\ Connected(g)' => Connected(g)
                           /\ Gone(g)' <=> Gone(g)
                           /\ Dead(g)' <=> Dead(g)
                           /\ ConnTo(g)' = ConnTo(g) /\ Upstreams(g)' = Upstreams(g)
<1>1. Serving(f) /\ \A g \in Fed : NotesOf(f, node'[g], g) /\ Raises(g) /\ Posts(f, g)
  BY DEF Handling, Notes
<1>2. program' = program /\ min_delays' = min_delays /\ UNCHANGED network /\ fed' = fed
  BY <1>1 DEF Serving, network
<1>3. /\ Len(up[f]) \in Nat /\ 1 \in 1 .. Len(up[f]) /\ Len(up'[f]) = Len(up[f]) - 1
      /\ \A i \in 1 .. Len(up'[f]) : i + 1 \in 1 .. Len(up[f])
  BY <1>1 DEF Serving
<1>4. \A g \in Fed : Connected(g)' => Connected(g)
  BY <1>1 DEF Connected, NotesOf
<1>5. \A g \in Fed : (Gone(g)' <=> Gone(g)) /\ (Dead(g)' <=> Dead(g))
  BY <1>2 DEF Gone, Dead
<1>6. \A g \in Fed : ConnTo(g)' = ConnTo(g) /\ Upstreams(g)' = Upstreams(g)
  BY <1>2 DEF ConnTo, Upstreams
<1> QED  BY <1>1, <1>2, <1>3, <1>4, <1>5, <1>6 DEF Serving

\* What f reacts to besides what was on its way to it.
LEMMA NewlyTriggered ==
  ASSUME TypeInv, TypeInv', NEW f \in Fed, Handling(f), NEW e \in Fed, NEW x \in Time, Triggered(e, x)'
  PROVE  \/ Triggered(e, x)
         \/ Forwarding(f, e) /\ up[f][1].type = "MSG" /\ up[f][1].tag[1] = x
<1>1. fed' = fed /\ program' = program
  BY HandlingParts
<1>2. CASE Arriving(e, x)'
  <2>1. PICK p \in 1 .. Len(down'[e]) : down'[e][p].type = "MSG" /\ down'[e][p].tag[1] = x
    BY <1>2 DEF Arriving
  <2>2. Posts(f, e)
    BY HandlingParts
  <2>3. CASE p <= Len(down[e])
    <3>1. p \in 1 .. Len(down[e]) /\ down'[e][p] = down[e][p]
      BY <2>2, <2>3 DEF Posts
    <3>2. Arriving(e, x)
      BY <2>1, <3>1 DEF Arriving
    <3>3. ~Dead(e)
      BY <1>1 DEF Triggered, Dead
    <3> QED  BY <3>2, <3>3 DEF Triggered
  <2>4. CASE ~(p <= Len(down[e]))
    <3>1. p \in Len(down[e]) + 1 .. Len(down'[e])
      BY <2>2, <2>4 DEF Posts
    <3>2. ~Granting(e, down'[e][p])
      BY <2>1 DEF Granting
    <3>3. Forwarding(f, e) /\ down'[e][p] = up[f][1]
      BY <2>2, <3>1, <3>2 DEF Posts
    <3> QED  BY <2>1, <3>3
  <2> QED  BY <2>3, <2>4
<1>3. CASE ~Arriving(e, x)'
  BY <1>1, <1>3 DEF Triggered, Dead, Queued, Starting, Reacting
<1> QED  BY <1>2, <1>3

LEMMA HandlingIsMove ==
  ASSUME TypeInv, TypeInv', NEW f \in Fed, Handling(f)
  PROVE  Moves
<1>1. UNCHANGED network /\ \A g \in Fed : Connected(g)' => Connected(g)
  BY HandlingParts
<1>2. ASSUME NEW e \in Fed, NEW x \in Time, Triggered(e, x)'
      PROVE  \/ Triggered(e, x)
             \/ Connected(e) /\ \E g \in Fed : \E p \in 1 .. Len(up[g]) :
                  up[g][p].type = "MSG" /\ up[g][p].conn.to = e /\ up[g][p].tag[1] = x
  <2>1. CASE Triggered(e, x)
    BY <2>1
  <2>2. CASE Forwarding(f, e) /\ up[f][1].type = "MSG" /\ up[f][1].tag[1] = x
    <3>1. 1 \in 1 .. Len(up[f])
      BY HandlingParts
    <3> QED  BY <2>2, <3>1 DEF Forwarding
  <2> QED  BY <1>2, <2>1, <2>2, NewlyTriggered
<1>3. ASSUME NEW g \in Fed, NEW p \in 1 .. Len(up'[g]) PROVE \E q \in 1 .. Len(up[g]) : up'[g][p] = up[g][q]
  BY HandlingParts
<1> QED  BY <1>1, <1>2, <1>3 DEF Moves

\* What the RTI learns of g from its first message.
LEMMA KnownAfter ==
  ASSUME TypeInv, TypeInv', WholeRTI, NEW f \in Fed, Handling(f), NEW g \in Fed, NEW x \in Time,
         KnownBefore(g, x),
         g = f => SaidBefore(f, x, 1) /\ up[f][1].type \notin {"RESIGN", "FAILED", "EOF"}
  PROVE  KnownBefore(g, x)'
<1> DEFINE m == up[f][1]
<1>1. NotesOf(f, node'[g], g)
  BY HandlingParts
<1>2. g = f => /\ m.type = "NET" => Reveals(f, m.tag, x)
               /\ m.type = "LTC" => m.tag[1] < x
               /\ m.type \notin {"RESIGN", "FAILED", "EOF"}
  BY DEF SaidBefore
<1>3. m.tag \in WholeTag /\ m.tag[1] \in Int /\ x \in Int
  <2>1. m.tag \in WholeTag
    BY HandlingParts DEF WholeRTI
  <2> QED  BY <2>1, WholeTags, StopRange DEF Time
<1> HIDE DEF m
<1>4. /\ Heard(node[g].next_event)[1] \in Int
      /\ \A N : Heard(N) \in WholeTag => Heard(N)[1] \in Int
  BY WholeTags DEF WholeRTI
<1>5. Heard(node'[g].next_event)[1] <= x
  <2>0. Heard(node'[g].next_event)[1] \in Int
    BY <1>1, <1>4 DEF NotesOf
  <2>1. CASE Heard(node'[g].next_event)[1] <= Heard(node[g].next_event)[1]
    BY <1>3, <1>4, <2>0, <2>1 DEF KnownBefore
  <2>2. CASE /\ g = f /\ m.type = "NET" /\ Heard(node'[g].next_event)[1] <= m.tag[1]
             /\ \A t \in in_transit[g] : Heard(node'[g].next_event)[1] <= t[1]
    <3>1. CASE m.tag[1] <= x
      BY <1>3, <2>0, <2>2, <3>1
    <3>2. CASE <<x, 0>> \in in_transit[g]
      BY <2>2, <3>2
    <3> QED  BY <1>2, <2>2, <3>1, <3>2 DEF Reveals
  <2> QED  BY <1>1, <1>2, <2>1, <2>2 DEF NotesOf, m
<1>6. node'[g].completed[1] < x /\ (confirming'[g] # NULL => confirming'[g][1] < x)
  BY <1>1, <1>2 DEF NotesOf, KnownBefore, m
<1> QED  BY <1>5, <1>6 DEF KnownBefore

\* What is left to be handled of g has been said before.
LEMMA SaidAfter ==
  ASSUME TypeInv, TypeInv', NEW f \in Fed, Handling(f), NEW g \in Fed, NEW x \in Time,
         NEW n \in Nat, n <= Len(up'[g]),
         SaidBefore(g, x, IF g = f THEN n + 1 ELSE n)
  PROVE  SaidBefore(g, x, n)'
<1> SUFFICES ASSUME NEW q \in 1 .. n
             PROVE  /\ up'[g][q].type = "NET" => Reveals(g, up[g][q].tag, x)'
                    /\ up'[g][q].type = "LTC" => up'[g][q].tag[1] < x
  BY DEF SaidBefore
<1>1. in_transit[g] \subseteq in_transit'[g]
  BY HandlingParts DEF NotesOf
<1>2. \E k \in 1 .. (IF g = f THEN n + 1 ELSE n) : up'[g][q] = up[g][k]
  <2>1. CASE g = f
    <3>1. q \in 1 .. Len(up'[f]) /\ q + 1 \in 1 .. n + 1
      BY <2>1
    <3> QED  BY <2>1, <3>1, HandlingParts
  <2>2. CASE g # f
    BY <2>2, HandlingParts
  <2> QED  BY <2>1, <2>2
<1>3. /\ up'[g][q].type = "NET" => Reveals(g, up'[g][q].tag, x)
      /\ up'[g][q].type = "LTC" => up'[g][q].tag[1] < x
  BY <1>2 DEF SaidBefore
<1> QED  BY <1>1, <1>3 DEF Reveals

\* What was confirmed by e and granted to it up to n is before k.
LEMMA GrantedBefore ==
  ASSUME TypeInv, NEW e \in Fed, NEW n \in Int, NEW k \in Int, n < k, GrantedFirst(e, n)
  PROVE  /\ node[e].completed[1] < k
         /\ confirming[e] # NULL => confirming[e][1] < k
         /\ \A p \in 1 .. Len(up[e]) : up[e][p].type = "LTC" => up[e][p].tag[1] < k
         /\ fed[e].last_TAG[1] < k
         /\ \A p \in 1 .. Len(down[e]) : down[e][p].type = "TAG" => down[e][p].tag[1] < k
<1>1. node[e].completed[1] \in Int /\ fed[e].last_TAG[1] \in Int
  <2>1. node[e].completed \in Tag /\ fed[e].last_TAG \in Tag
    BY NodeParts, FedParts DEF TypeInv
  <2> QED  BY <2>1, TagParts
<1>2. confirming[e] # NULL => confirming[e][1] \in Int
  <2>1. confirming[e] \in Tag \cup {NULL}
    BY SpecialTags DEF TypeInv
  <2> QED  BY <2>1, TagParts
<1>3. \A p \in 1 .. Len(up[e]) : up[e][p].tag[1] \in Int
  <2>1. \A p \in 1 .. Len(up[e]) : up[e][p].tag \in EventTag
    BY UpKinds
  <2> QED  BY <2>1, SpecialTags, TagParts
<1>4. \A p \in 1 .. Len(down[e]) : down[e][p].tag[1] \in Int
  BY DownKinds, TagParts
<1> QED  BY <1>1, <1>2, <1>3, <1>4 DEF GrantedFirst

\* A message that the RTI sends on is later than what it has granted to the
\* receiver, and the RTI remembers it.
LEMMA ForwardedMessage ==
  ASSUME TypeInv, TypeInv', WholeRTI, MessagesAhead, GrantsFirst, GrantsSecure,
         NEW f \in Fed, Handling(f), NEW e \in Fed, Forwarding(f, e), up[f][1].type = "MSG",
         NEW x, x = up[f][1].tag[1]
  PROVE  /\ e # f /\ Upstreams(e) # {} /\ x \in Time /\ x <= StopTime
         /\ up[f][1].tag \in WholeTag /\ up[f][1].tag = <<x, 0>>
         /\ node[e].last_granted[1] \in Int /\ node[e].last_granted[1] < x
         /\ GrantedFirst(e, node[e].last_granted[1])
         /\ <<x, 0>> \in in_transit'[e]
         /\ Heard(node'[e].next_event)[1] <= x
         /\ node'[e].completed = node[e].completed /\ confirming'[e] = confirming[e]
<1> DEFINE m == up[f][1]
<1>1. 1 \in 1 .. Len(up[f]) /\ NotesOf(f, node'[e], e)
  BY HandlingParts
<1>2. m.conn \in program.conn /\ m.conn.from = f /\ m.conn.to = e /\ m.conn \in ConnTo(e) /\ x \in Time
  BY <1>1, UpKinds DEF Forwarding
<1>3. e # f /\ Upstreams(e) # {}
  <2>1. NetworkOK
    BY DEF TypeInv
  <2>2. m.conn.from # m.conn.to
    BY <1>2, <2>1, LagNat
  <2>3. m.conn.from \in Upstreams(e)
    BY <1>2 DEF Upstreams
  <2> QED  BY <1>2, <2>2, <2>3
<1>4. x <= StopTime
  BY <1>1 DEF MessagesAhead
<1>5. m.tag \in WholeTag /\ m.tag = <<x, 0>>
  <2>1. m.tag \in WholeTag
    BY <1>1 DEF WholeRTI
  <2>2. x < FOREVER
    BY <1>2, <1>4, StopRange DEF Time
  <2> QED  BY <2>1, <2>2, WholeTags
<1>6. node[e].last_granted \in Tag /\ node[e].completed \in Tag
  BY NodeParts DEF TypeInv
<1>7. node[e].last_granted[1] \in Int /\ node[e].last_granted[1] < x
  <2>1. SecureMessages(e, node[e].last_granted[1])
    BY <1>3 DEF GrantsSecure, Secure
  <2> QED  BY <1>1, <1>2, <1>6, <2>1, TagParts DEF SecureMessages
<1>8. GrantedFirst(e, node[e].last_granted[1])
  BY <1>3 DEF GrantsFirst
<1>9. <<x, 0>> \in in_transit'[e]
  <2>1. node[e].completed[1] < x
    BY <1>2, <1>7, <1>8, GrantedBefore DEF Time
  <2>2. Less(node[e].completed, m.tag)
    BY <1>5, <1>6, <2>1, WholeTags, SpecialTags, TagOrdering
  <2> QED  BY <1>1, <1>5, <2>2 DEF NotesOf
<1>10. Heard(node'[e].next_event)[1] <= x
  BY <1>1 DEF NotesOf
<1>11. node'[e].completed = node[e].completed /\ confirming'[e] = confirming[e]
  BY <1>1, <1>3 DEF NotesOf
<1> QED  BY <1>2, <1>3, <1>4, <1>5, <1>7, <1>8, <1>9, <1>10, <1>11

LEMMA HandlingMessagesAhead ==
  ASSUME TypeInv, TypeInv', WholeRTI, MessagesAhead, Silent, NEW f \in Fed, Handling(f)
  PROVE  MessagesAhead'
<1> SUFFICES ASSUME NEW g \in Fed, NEW p \in 1 .. Len(up'[g]), up'[g][p].type = "MSG",
                    NEW x, x = SentAt(up'[g][p])
             PROVE  x \in Time /\ up'[g][p].tag[1] <= StopTime /\ Ahead(g, x, p - 1)'
  BY DEF MessagesAhead, Ahead, KnownBefore, SaidBefore, Reveals
<1> DEFINE k == IF g = f THEN p + 1 ELSE p
<1>1. k \in 1 .. Len(up[g]) /\ up'[g][p] = up[g][k] /\ p - 1 \in Nat /\ p - 1 <= Len(up'[g])
      /\ k - 1 = IF g = f THEN (p - 1) + 1 ELSE p - 1
  <2>1. Len(up'[g]) \in Nat
    BY LenProperties DEF TypeInv
  <2> QED  BY <2>1, HandlingParts
<1>2. x \in Time /\ up'[g][p].tag[1] <= StopTime /\ KnownBefore(g, x) /\ SaidBefore(g, x, k - 1)
  BY <1>1 DEF MessagesAhead, Ahead
<1>3. ASSUME g = f PROVE SaidBefore(f, x, 1) /\ up[f][1].type \notin {"RESIGN", "FAILED", "EOF"}
  <2>1. 1 \in 1 .. k - 1 /\ k \in 2 .. Len(up[f]) /\ up[f][k].type = "MSG" /\ 1 \in 1 .. Len(up[f])
    BY <1>1, <1>3, HandlingParts
  <2>2. up[f][1].type \notin {"RESIGN", "FAILED", "EOF"}
    <3>1. up[f][1].type \in {"RESIGN", "FAILED", "EOF"} => OnlyNETs(f, 1 + 1)
      BY <2>1 DEF Silent
    <3> QED  BY <2>1, <3>1 DEF OnlyNETs
  <2> QED  BY <1>2, <1>3, <2>1, <2>2 DEF SaidBefore
<1> HIDE DEF k
<1>4. KnownBefore(g, x)'
  BY <1>2, <1>3, KnownAfter
<1>5. SaidBefore(g, x, p - 1)'
  BY <1>1, <1>2, SaidAfter
<1> QED  BY <1>2, <1>4, <1>5 DEF Ahead

LEMMA HandlingTriggersAhead ==
  ASSUME TypeInv, TypeInv', WholeRTI, MessagesAhead, TriggersAhead, Silent, GrantsFirst, GrantsSecure,
         NEW f \in Fed, Handling(f)
  PROVE  TriggersAhead'
<1> SUFFICES ASSUME NEW g \in Fed, NEW x \in Time, Triggered(g, x)'
             PROVE  Ahead(g, x, Len(up[g]))'
  BY DEF TriggersAhead
<1>1. Len(up'[g]) \in Nat /\ Len(up[g]) = (IF g = f THEN Len(up'[g]) + 1 ELSE Len(up'[g]))
  <2>1. Len(up'[g]) \in Nat
    BY LenProperties DEF TypeInv
  <2> QED  BY <2>1, HandlingParts
<1>2. CASE Triggered(g, x)
  <2>1. KnownBefore(g, x) /\ SaidBefore(g, x, Len(up[g]))
    BY <1>2 DEF TriggersAhead, Ahead
  <2>2. ASSUME g = f PROVE SaidBefore(f, x, 1) /\ up[f][1].type \notin {"RESIGN", "FAILED", "EOF"}
    <3>1. 1 \in 1 .. Len(up[f])
      BY HandlingParts
    <3>2. ~Gone(f)
      BY <1>2, <2>2 DEF Triggered, Dead, Gone
    <3>3. up[f][1].type \notin {"RESIGN", "FAILED", "EOF"}
      BY <3>1, <3>2 DEF Silent
    <3> QED  BY <2>1, <2>2, <3>1, <3>3 DEF SaidBefore
  <2>3. KnownBefore(g, x)'
    BY <2>1, <2>2, KnownAfter
  <2>4. SaidBefore(g, x, Len(up[g]))'
    <3>1. SUFFICES ASSUME NEW n \in Nat, n = Len(up'[g]) PROVE SaidBefore(g, x, n)'
      BY <1>1 DEF SaidBefore, Reveals
    <3>2. SaidBefore(g, x, IF g = f THEN n + 1 ELSE n) /\ n <= Len(up'[g])
      BY <1>1, <2>1, <3>1
    <3> QED  BY <3>2, SaidAfter
  <2> QED  BY <2>3, <2>4 DEF Ahead
<1>3. CASE Forwarding(f, g) /\ up[f][1].type = "MSG" /\ up[f][1].tag[1] = x
  <2>1. /\ g # f /\ x \in Int
        /\ node[g].last_granted[1] \in Int /\ node[g].last_granted[1] < x
        /\ GrantedFirst(g, node[g].last_granted[1])
        /\ <<x, 0>> \in in_transit'[g] /\ Heard(node'[g].next_event)[1] <= x
        /\ node'[g].completed = node[g].completed /\ confirming'[g] = confirming[g]
    BY <1>3, ForwardedMessage DEF Time
  <2>2. up'[g] = up[g]
    BY <2>1, HandlingParts
  <2>3. /\ node[g].completed[1] < x /\ (confirming[g] # NULL => confirming[g][1] < x)
        /\ \A p \in 1 .. Len(up[g]) : up[g][p].type = "LTC" => up[g][p].tag[1] < x
    BY <2>1, GrantedBefore
  <2>4. KnownBefore(g, x)'
    BY <2>1, <2>3 DEF KnownBefore
  <2> QED  BY <2>1, <2>2, <2>3, <2>4 DEF Ahead, SaidBefore, Reveals
<1> QED  BY <1>2, <1>3, NewlyTriggered

LEMMA HandlingSilent ==
  ASSUME TypeInv, TypeInv', Silent, NEW f \in Fed, Handling(f)
  PROVE  Silent'
<1> SUFFICES ASSUME NEW g \in Fed
             PROVE  /\ ~Connected(g)' => Gone(g)' /\ OnlyNETs(g, 1)'
                    /\ \A p \in 1 .. Len(up'[g]) : up'[g][p].type \in {"RESIGN", "FAILED", "EOF"} =>
                         Gone(g)' /\ \A q \in p + 1 .. Len(up'[g]) : up'[g][q].type = "NET"
  BY DEF Silent, OnlyNETs
<1>1. NotesOf(f, node'[g], g) /\ (Gone(g)' <=> Gone(g)) /\ 1 \in 1 .. Len(up[f])
  BY HandlingParts
<1>2. CASE g # f
  <2>1. up'[g] = up[g] /\ (Connected(g)' <=> Connected(g))
    BY <1>1, <1>2, HandlingParts DEF NotesOf, Connected
  <2> QED  BY <1>1, <2>1 DEF Silent, OnlyNETs
<1>3. CASE g = f
  <2>1. Len(up'[f]) \in Nat /\ Len(up[f]) = Len(up'[f]) + 1 /\ \A i \in 1 .. Len(up'[f]) : up'[f][i] = up[f][i + 1]
    BY HandlingParts
  <2>2. ASSUME ~Connected(f)' PROVE Gone(f) /\ OnlyNETs(f, 2)
    <3>1. CASE ~Connected(f)
      BY <3>1 DEF Silent, OnlyNETs
    <3>2. CASE up[f][1].type \in {"RESIGN", "FAILED", "EOF"}
      <4>1. Gone(f) /\ OnlyNETs(f, 1 + 1)
        BY <1>1, <3>2 DEF Silent
      <4> QED  BY <4>1 DEF OnlyNETs
    <3> QED  BY <1>1, <1>3, <2>2, <3>1, <3>2 DEF NotesOf, Connected
  <2>3. ~Connected(f)' => Gone(f)' /\ OnlyNETs(f, 1)'
    BY <1>1, <1>3, <2>1, <2>2 DEF OnlyNETs
  <2>4. ASSUME NEW p \in 1 .. Len(up'[f]), up'[f][p].type \in {"RESIGN", "FAILED", "EOF"}
        PROVE  Gone(f)' /\ \A q \in p + 1 .. Len(up'[f]) : up'[f][q].type = "NET"
    <3>1. p + 1 \in 1 .. Len(up[f]) /\ up[f][p + 1].type \in {"RESIGN", "FAILED", "EOF"}
      BY <2>1, <2>4
    <3>2. Gone(f) /\ OnlyNETs(f, (p + 1) + 1)
      BY <3>1 DEF Silent
    <3>3. ASSUME NEW q \in p + 1 .. Len(up'[f]) PROVE up'[f][q].type = "NET"
      <4>1. q + 1 \in (p + 1) + 1 .. Len(up[f]) /\ up'[f][q] = up[f][q + 1]
        BY <2>1
      <4> QED  BY <3>2, <4>1 DEF OnlyNETs
    <3> QED  BY <1>1, <1>3, <3>2, <3>3
  <2> QED  BY <1>3, <2>3, <2>4
<1> QED  BY <1>2, <1>3

\* A grant that only grows bounds what was bounded before.
LEMMA GrantsGrow ==
  ASSUME TypeInv, TypeInv', NEW f \in Fed, Handling(f), NEW e \in Fed, Upstreams(e) # {}
  PROVE  /\ node[e].last_granted[1] \in Int /\ node'[e].last_granted[1] \in Int
         /\ node[e].last_granted[1] <= node'[e].last_granted[1]
<1>1. node[e].last_granted \in Tag /\ node'[e].last_granted \in Tag
  BY NodeParts DEF TypeInv
<1>2. Leq(node[e].last_granted, node'[e].last_granted)
  BY HandlingParts DEF Raises
<1> QED  BY <1>1, <1>2, TagOrdering

LEMMA HandlingGrantsFirst ==
  ASSUME TypeInv, TypeInv', GrantsFirst, NEW f \in Fed, Handling(f)
  PROVE  GrantsFirst'
<1> SUFFICES ASSUME NEW e \in Fed, Upstreams(e) # {}, NEW n, n = node'[e].last_granted[1]
             PROVE  GrantedFirst(e, n)'
  BY HandlingParts DEF GrantsFirst, GrantedFirst
<1> DEFINE m == up[f][1]
<1>1. NotesOf(f, node'[e], e) /\ Posts(f, e) /\ fed' = fed /\ 1 \in 1 .. Len(up[f])
  BY HandlingParts
<1>2. n \in Int /\ node[e].last_granted[1] < n + 1 /\ node[e].last_granted[1] \in Int
  BY GrantsGrow
<1>3. /\ node[e].completed[1] < n + 1
      /\ confirming[e] # NULL => confirming[e][1] < n + 1
      /\ \A p \in 1 .. Len(up[e]) : up[e][p].type = "LTC" => up[e][p].tag[1] < n + 1
      /\ fed[e].last_TAG[1] < n + 1
      /\ \A p \in 1 .. Len(down[e]) : down[e][p].type = "TAG" => down[e][p].tag[1] < n + 1
  BY <1>2, GrantedBefore DEF GrantsFirst
<1>4. /\ node'[e].completed[1] < n + 1 /\ (confirming'[e] # NULL => confirming'[e][1] < n + 1)
      /\ fed'[e].last_TAG[1] < n + 1
  BY <1>1, <1>3 DEF NotesOf
<1>5. \A p \in 1 .. Len(up'[e]) : up'[e][p].type = "LTC" => up'[e][p].tag[1] < n + 1
  <2>1. \A p \in 1 .. Len(up'[e]) : \E q \in 1 .. Len(up[e]) : up'[e][p] = up[e][q]
    BY HandlingParts
  <2> QED  BY <1>3, <2>1
<1>6. ASSUME NEW p \in 1 .. Len(down'[e]), down'[e][p].type = "TAG" PROVE down'[e][p].tag[1] < n + 1
  <2>1. CASE p <= Len(down[e])
    <3>1. p \in 1 .. Len(down[e]) /\ down'[e][p] = down[e][p]
      BY <1>1, <2>1 DEF Posts
    <3> QED  BY <1>3, <1>6, <3>1
  <2>2. CASE ~(p <= Len(down[e]))
    <3>1. p \in Len(down[e]) + 1 .. Len(down'[e])
      BY <1>1, <2>2 DEF Posts
    <3>2. Granting(e, down'[e][p])
      BY <1>1, <1>6, <3>1 DEF Posts, Forwarding
    <3>3. Leq(down'[e][p].tag, node'[e].last_granted)
      BY <1>6, <3>2 DEF Granting
    <3>4. down'[e][p].tag \in Tag /\ node'[e].last_granted \in Tag
      <4>1. TypeInv' /\ p \in 1 .. Len(down'[e]) => down'[e][p].tag \in Tag
        <5>1. down'[e] \in Seq(DownMessage(e)')
          BY DEF TypeInv
        <5>2. down'[e][p] \in DownMessage(e)'
          BY <5>1
        <5> QED  BY <5>2, SpecialTags DEF DownMessage
      <4> QED  BY <4>1, NodeParts DEF TypeInv
    <3> QED  BY <1>2, <3>3, <3>4, TagOrdering, SMTT(30)
  <2> QED  BY <2>1, <2>2
<1>7. /\ node'[e].completed[1] \in Int /\ fed'[e].last_TAG[1] \in Int
      /\ confirming'[e] # NULL => confirming'[e][1] \in Int
  <2>1. node'[e].completed \in Tag /\ confirming'[e] \in Tag \cup {NULL}
    BY NodeParts, SpecialTags DEF TypeInv
  <2>2. fed[e].last_TAG \in Tag
    BY FedParts DEF TypeInv
  <2> QED  BY <1>1, <2>1, <2>2, TagParts
<1>8. \A p \in 1 .. Len(up'[e]) : up'[e][p].tag[1] \in Int
  <2>1. \A p \in 1 .. Len(up'[e]) : \E q \in 1 .. Len(up[e]) : up'[e][p] = up[e][q]
    BY HandlingParts
  <2>2. \A q \in 1 .. Len(up[e]) : up[e][q].tag[1] \in Int
    BY UpKinds DEF Time
  <2> QED  BY <2>1, <2>2
<1>9. \A p \in 1 .. Len(down'[e]) : down'[e][p].tag[1] \in Int
  <2>1. down'[e] \in Seq(DownMessage(e)')
    BY DEF TypeInv
  <2>2. \A p \in 1 .. Len(down'[e]) : down'[e][p] \in DownMessage(e)'
    BY <2>1
  <2>3. \A p \in 1 .. Len(down'[e]) : down'[e][p].tag \in Tag
    BY <2>2, SpecialTags DEF DownMessage
  <2> QED  BY <2>3, TagParts
<1>10. node'[e].completed[1] <= n /\ (confirming'[e] # NULL => confirming'[e][1] <= n) /\ fed'[e].last_TAG[1] <= n
  BY <1>2, <1>4, <1>7
<1>11. \A p \in 1 .. Len(up'[e]) : up'[e][p].type = "LTC" => up'[e][p].tag[1] <= n
  BY <1>2, <1>5, <1>8
<1>12. \A p \in 1 .. Len(down'[e]) : down'[e][p].type = "TAG" => down'[e][p].tag[1] <= n
  BY <1>2, <1>6, <1>9
<1> QED  BY <1>10, <1>11, <1>12 DEF GrantedFirst

LEMMA HandlingDeliveries ==
  ASSUME TypeInv, TypeInv', WholeRTI, MessagesAhead, GrantsFirst, GrantsSecure, Deliveries,
         NEW f \in Fed, Handling(f)
  PROVE  Deliveries'
<1> SUFFICES ASSUME NEW e \in Fed, NEW p \in 1 .. Len(down'[e])
             PROVE  down'[e][p].type # "PTAG" /\ (down'[e][p].type = "MSG" => Delivery(e, p)')
  BY DEF Deliveries
<1>1. /\ Posts(f, e) /\ fed' = fed /\ (Dead(e)' <=> Dead(e)) /\ in_transit[e] \subseteq in_transit'[e]
  BY HandlingParts DEF NotesOf
<1>2. /\ Len(down[e]) \in Nat /\ Len(down[e]) <= Len(down'[e])
      /\ \A i \in 1 .. Len(down[e]) : down'[e][i] = down[e][i]
  BY <1>1 DEF Posts
<1>3. CASE p <= Len(down[e])
  <2>1. p \in 1 .. Len(down[e]) /\ down'[e][p] = down[e][p] /\ \A q \in 1 .. p - 1 : down'[e][q] = down[e][q]
    BY <1>2, <1>3
  <2>2. down[e][p].type # "PTAG" /\ (down[e][p].type = "MSG" => Delivery(e, p))
    BY <2>1 DEF Deliveries
  <2> QED  BY <1>1, <2>1, <2>2 DEF Delivery
<1>4. CASE ~(p <= Len(down[e]))
  <2>1. p \in Len(down[e]) + 1 .. Len(down'[e])
    BY <1>2, <1>4
  <2>2. CASE Granting(e, down'[e][p])
    BY <2>2 DEF Granting
  <2>3. CASE Forwarding(f, e) /\ p = Len(down[e]) + 1 /\ down'[e][p] = up[f][1] /\ up[f][1].type = "MSG"
    <3>1. SUFFICES ASSUME NEW x, x = up[f][1].tag[1] PROVE Delivery(e, p)'
      BY <2>3
    <3>2. /\ x \in Int /\ x <= StopTime /\ up[f][1].tag = <<x, 0>> /\ <<x, 0>> \in in_transit'[e]
          /\ node[e].last_granted[1] \in Int /\ node[e].last_granted[1] < x
          /\ GrantedFirst(e, node[e].last_granted[1])
      BY <2>3, <3>1, ForwardedMessage DEF Time
    <3>3. /\ fed[e].last_TAG[1] < x
          /\ \A q \in 1 .. Len(down[e]) : down[e][q].type = "TAG" => down[e][q].tag[1] < x
      BY <3>2, GrantedBefore
    <3>4. down'[e][p].tag = <<x, 0>> /\ down'[e][p].tag[1] = x
      BY <2>3, <3>1, <3>2
    <3>5. \A q \in 1 .. p - 1 : q \in 1 .. Len(down[e]) /\ down'[e][q] = down[e][q]
      BY <1>2, <2>3
    <3> QED  BY <1>1, <3>2, <3>3, <3>4, <3>5 DEF Delivery
  <2> QED  BY <1>1, <2>1, <2>2, <2>3 DEF Posts, Forwarding
<1> QED  BY <1>3, <1>4

LEMMA HandlingWhole ==
  ASSUME TypeInv, TypeInv', WholeRTI, FederatesSane, MessagesAhead, GrantsFirst, GrantsSecure,
         NEW f \in Fed, Handling(f)
  PROVE  WholeRTI' /\ FederatesSane'
<1>1. /\ fed' = fed /\ program' = program /\ 1 \in 1 .. Len(up[f])
      /\ \A g \in Fed : NotesOf(f, node'[g], g) /\ Posts(f, g)
      /\ \A g \in Fed : \A p \in 1 .. Len(up'[g]) : \E q \in 1 .. Len(up[g]) : up'[g][p] = up[g][q]
  BY HandlingParts
<1>2. ASSUME NEW g \in Fed
      PROVE  /\ Heard(node'[g].next_event) \in WholeTag
             /\ node'[g].last_provisionally_granted = NEVER_TAG
             /\ in_transit'[g] \subseteq WholeTag
             /\ \A p \in 1 .. Len(up'[g]) : up'[g][p].tag \in WholeTag
  BY <1>1, SMTT(30) DEF WholeRTI, NotesOf
<1>3. ASSUME NEW g \in Fed, NEW p \in 1 .. Len(down'[g]), down'[g][p].type = "MSG"
      PROVE  down'[g][p].tag \in WholeTag
  <2>1. CASE p <= Len(down[g])
    <3>1. p \in 1 .. Len(down[g]) /\ down'[g][p] = down[g][p]
      BY <1>1, <2>1 DEF Posts
    <3> QED  BY <1>3, <3>1 DEF WholeRTI
  <2>2. CASE ~(p <= Len(down[g]))
    <3>1. p \in Len(down[g]) + 1 .. Len(down'[g])
      BY <1>1, <2>2 DEF Posts
    <3>2. down'[g][p] = up[f][1]
      BY <1>1, <1>3, <3>1 DEF Posts, Granting
    <3> QED  BY <1>1, <3>2 DEF WholeRTI
  <2> QED  BY <2>1, <2>2
<1>4. ASSUME NEW g \in Fed PROVE WholeFed(g)' /\ Sane(g)'
  <2>1. WholeFed(g) /\ Sane(g)
    BY DEF FederatesSane
  <2>2. in_transit[g] \subseteq in_transit'[g]
    BY <1>1 DEF NotesOf
  <2>3. ASSUME NEW x \in Time, Triggered(g, x)' PROVE Reveals(g, fed[g].last_skipped_NET, x)'
    <3>1. CASE Triggered(g, x)
      BY <1>1, <2>1, <2>2, <3>1 DEF Sane, Reveals
    <3>2. CASE Forwarding(f, g) /\ up[f][1].type = "MSG" /\ up[f][1].tag[1] = x
      <4>1. <<x, 0>> \in in_transit'[g]
        BY <3>2, ForwardedMessage
      <4> QED  BY <4>1 DEF Reveals
    <3> QED  BY <2>3, <3>1, <3>2, NewlyTriggered
  <2> QED  BY <1>1, <2>1, <2>3 DEF WholeFed, Sane, Pending, LevelOf, Reveals
<1> QED  BY <1>2, <1>3, <1>4 DEF WholeRTI, FederatesSane

LEMMA HandlingGrantsSecure ==
  ASSUME TypeInv, TypeInv', NetworkPlain', WholeRTI', MessagesAhead', TriggersAhead', Silent',
         GrantsFirst, GrantsSecure, NEW f \in Fed, Handling(f)
  PROVE  GrantsSecure'
<1>1. Moves /\ program' = program /\ 1 \in 1 .. Len(up[f])
      /\ \A e \in Fed : Upstreams(e)' = Upstreams(e) /\ NotesOf(f, node'[e], e) /\ Raises(e)
  BY HandlingParts, HandlingIsMove
<1>2. ASSUME NEW e \in Fed, Upstreams(e) # {}, NEW k \in Int, k <= node[e].last_granted[1] PROVE Secure(e, k)'
  <2>1. node[e].last_granted[1] \in Int /\ Secure(e, node[e].last_granted[1])
    BY <1>2, GrantsGrow DEF GrantsSecure
  <2>2. Secure(e, k)
    BY <1>2, <2>1, SecureEarlier
  <2> QED  BY <1>1, <2>2, SecureKept
<1>3. ASSUME NEW e \in Fed, Upstreams(e) # {}, NEW k, k = node'[e].completed[1] PROVE Secure(e, k)'
  <2>1. k \in Int
    <3>1. node'[e].completed \in Tag
      BY NodeParts DEF TypeInv
    <3> QED  BY <1>3, <3>1, TagParts
  <2>2. k <= node[e].last_granted[1]
    BY <1>1, <1>3 DEF NotesOf, GrantsFirst, GrantedFirst
  <2> QED  BY <1>2, <1>3, <2>1, <2>2
<1>4. CompletedSecure'
  BY <1>1, <1>3 DEF CompletedSecure, Secure, SecureSenders, SecureMessages
<1>5. GrantablesSecure'
  BY <1>4, GrantsAreSafeAfter DEF AheadInv
<1>6. ASSUME NEW e \in Fed, Upstreams(e) # {}, NEW t \in Tag, t = node'[e].last_granted,
             NEW n, n = t[1]
      PROVE  Secure(e, n)'
  <2>1. CASE t = node[e].last_granted
    BY <1>2, <1>6, <2>1, GrantsGrow
  <2>2. CASE Grantable(node, e, t)'
    <3>1. Secure(e, t[1])'
      BY <1>5, <2>2 DEF GrantablesSecure
    <3> QED  BY <1>6, <3>1
  <2> QED  BY <1>1, <1>6, <2>1, <2>2 DEF Raises
<1>7. \A e \in Fed : node'[e].last_granted \in Tag
  BY NodeParts DEF TypeInv
<1> QED  BY <1>1, <1>6, <1>7 DEF GrantsSecure, Secure, SecureSenders, SecureMessages

LEMMA HandlingCoord ==
  ASSUME CoordInv, TypeInv', AllOrderly', NEW f \in Fed, Handling(f)
  PROVE  CoordInv'
<1>1. TypeInv /\ NetworkPlain /\ WholeRTI /\ FederatesSane /\ MessagesAhead /\ TriggersAhead /\ Silent
      /\ GrantsFirst /\ GrantsSecure /\ Deliveries
  BY DEF CoordInv
<1>2. NetworkPlain'
  BY <1>1, HandlingParts, SamePlainness
<1>3. WholeRTI' /\ FederatesSane'
  BY <1>1, HandlingWhole
<1>4. MessagesAhead' /\ TriggersAhead' /\ Silent'
  BY <1>1, HandlingMessagesAhead, HandlingTriggersAhead, HandlingSilent
<1>5. GrantsFirst' /\ Deliveries'
  BY <1>1, HandlingGrantsFirst, HandlingDeliveries
<1>6. GrantsSecure'
  BY <1>1, <1>2, <1>3, <1>4, HandlingGrantsSecure
<1> QED  BY <1>2, <1>3, <1>4, <1>5, <1>6 DEF CoordInv

\* The RTI forgets what a federate has confirmed, or nothing happens.
Tidies == UNCHANGED vars \/ \E f \in Fed : remove_up_to_completed(f)

\* What the RTI forgets is not later than what it has confirmed.
LEMMA TidyingReveals ==
  ASSUME TypeInv, Tidies, NEW g \in Fed, NEW x \in Time, KnownBefore(g, x)
  PROVE  /\ KnownBefore(g, x)'
         /\ <<x, 0>> \in in_transit[g] => <<x, 0>> \in in_transit'[g]
         /\ \A t : Reveals(g, t, x) => Reveals(g, t, x)'
<1>1. CASE UNCHANGED vars
  BY <1>1 DEF vars, KnownBefore, Reveals
<1>2. ASSUME NEW f \in Fed, remove_up_to_completed(f)
      PROVE  KnownBefore(g, x)' /\ (<<x, 0>> \in in_transit[g] => <<x, 0>> \in in_transit'[g])
  <2>1. /\ node' = node /\ confirming[f] # NULL
        /\ confirming' = [confirming EXCEPT ![f] = NULL]
        /\ in_transit' = [in_transit EXCEPT ![f] = {t \in @ : Less(confirming[f], t)}]
    BY <1>2 DEF remove_up_to_completed
  <2>2. KnownBefore(g, x)'
    BY <2>1 DEF KnownBefore, TypeInv
  <2>3. ASSUME <<x, 0>> \in in_transit[g] PROVE <<x, 0>> \in in_transit'[g]
    <3>1. CASE g # f
      BY <2>1, <2>3, <3>1 DEF TypeInv
    <3>2. CASE g = f
      <4>1. confirming[f][1] < x /\ confirming[f] \in Tag /\ <<x, 0>> \in Tag
        BY <2>1, <2>3, <3>2, SpecialTags DEF KnownBefore, TypeInv
      <4>2. Less(confirming[f], <<x, 0>>)
        BY <4>1, TagOrdering
      <4>3. in_transit'[f] = {t \in in_transit[f] : Less(confirming[f], t)}
        BY <2>1 DEF TypeInv
      <4> QED  BY <2>3, <3>2, <4>2, <4>3
    <3> QED  BY <3>1, <3>2
  <2> QED  BY <2>2, <2>3
<1> QED  BY <1>1, <1>2 DEF Reveals, Tidies

LEMMA TidyingParts ==
  ASSUME TypeInv, Tidies
  PROVE  /\ program' = program /\ min_delays' = min_delays /\ UNCHANGED network
         /\ node' = node /\ up' = up /\ down' = down /\ fed' = fed
         /\ \A g \in Fed : in_transit'[g] \subseteq in_transit[g] /\ (confirming'[g] # NULL => confirming'[g] = confirming[g])
         /\ \A g \in Fed : \A x : Triggered(g, x)' <=> Triggered(g, x)
<1>1. UNCHANGED <<network, node, up, down, fed>>
  BY DEF Tidies, vars, network, remove_up_to_completed
<1>2. \A g \in Fed : in_transit'[g] \subseteq in_transit[g] /\ (confirming'[g] # NULL => confirming'[g] = confirming[g])
  <2>1. CASE UNCHANGED vars
    BY <2>1 DEF vars
  <2>2. CASE \E f \in Fed : remove_up_to_completed(f)
    BY <2>2 DEF remove_up_to_completed, TypeInv
  <2> QED  BY <2>1, <2>2 DEF Tidies
<1>3. \A g \in Fed : \A x : Triggered(g, x)' <=> Triggered(g, x)
  BY <1>1 DEF Triggered, Dead, Queued, Arriving, Starting, Reacting, network
<1> QED  BY <1>1, <1>2, <1>3 DEF network

LEMMA TidyingCoord ==
  ASSUME CoordInv, TypeInv', AllOrderly', Tidies
  PROVE  CoordInv'
<1>1. TypeInv /\ NetworkPlain /\ WholeRTI /\ FederatesSane /\ MessagesAhead /\ TriggersAhead /\ Silent
      /\ GrantsFirst /\ GrantsSecure /\ Deliveries
  BY DEF CoordInv
<1>2. /\ program' = program /\ min_delays' = min_delays /\ UNCHANGED network
      /\ node' = node /\ up' = up /\ down' = down /\ fed' = fed
      /\ \A g \in Fed : in_transit'[g] \subseteq in_transit[g] /\ (confirming'[g] # NULL => confirming'[g] = confirming[g])
      /\ \A g \in Fed : \A x : Triggered(g, x)' <=> Triggered(g, x)
  BY <1>1, TidyingParts
<1>3. NetworkPlain'
  BY <1>1, <1>2, SamePlainness
<1>4. WholeRTI'
  BY <1>1, <1>2 DEF WholeRTI
<1>5. ASSUME NEW g \in Fed, NEW x \in Time, Triggered(g, x)
      PROVE  /\ KnownBefore(g, x) /\ SaidBefore(g, x, Len(up[g]))
             /\ <<x, 0>> \in in_transit[g] => <<x, 0>> \in in_transit'[g]
             /\ \A t : Reveals(g, t, x) => Reveals(g, t, x)'
  <2>1. KnownBefore(g, x) /\ SaidBefore(g, x, Len(up[g]))
    BY <1>1, <1>5 DEF TriggersAhead, Ahead
  <2> QED  BY <1>1, <2>1, TidyingReveals
<1>6. FederatesSane'
  <2>1. ASSUME NEW g \in Fed PROVE WholeFed(g)' /\ Sane(g)'
    <3>1. WholeFed(g) /\ Sane(g)
      BY <1>1 DEF FederatesSane
    <3>2. ASSUME NEW x \in Time, Triggered(g, x)' PROVE Reveals(g, fed[g].last_skipped_NET, x)'
      <4>1. Triggered(g, x) /\ Reveals(g, fed[g].last_skipped_NET, x)
        BY <1>2, <3>1, <3>2 DEF Sane
      <4> QED  BY <1>2, <1>5, <4>1 DEF Reveals
    <3> QED  BY <1>2, <3>1, <3>2 DEF WholeFed, Sane, Pending, LevelOf
  <2> QED  BY <2>1 DEF FederatesSane
<1>7. ASSUME NEW g \in Fed, NEW x \in Time, NEW n \in Int, Ahead(g, x, n) PROVE Ahead(g, x, n)'
  <2>1. KnownBefore(g, x) /\ SaidBefore(g, x, n)
    BY <1>7 DEF Ahead
  <2>2. KnownBefore(g, x)' /\ \A t : Reveals(g, t, x) => Reveals(g, t, x)'
    BY <1>1, <2>1, TidyingReveals
  <2>3. SaidBefore(g, x, n)'
    BY <1>2, <2>1, <2>2 DEF SaidBefore, Reveals
  <2> QED  BY <2>2, <2>3 DEF Ahead
<1>8. TriggersAhead'
  <2>1. ASSUME NEW g \in Fed, NEW x \in Time, Triggered(g, x)', NEW n, n = Len(up[g]) PROVE Ahead(g, x, n)'
    <3>1. n \in Int /\ Ahead(g, x, n)
      BY <1>1, <1>2, <2>1, LenProperties DEF TriggersAhead, TypeInv
    <3> QED  BY <1>7, <3>1
  <2> QED  BY <1>2, <2>1 DEF TriggersAhead, Ahead, SaidBefore, KnownBefore, Reveals
<1>9. MessagesAhead'
  <2>1. ASSUME NEW g \in Fed, NEW p \in 1 .. Len(up[g]), up[g][p].type = "MSG", NEW x, x = SentAt(up[g][p])
        PROVE  x \in Time /\ up[g][p].tag[1] <= StopTime /\ Ahead(g, x, p - 1)'
    <3>1. x \in Time /\ up[g][p].tag[1] <= StopTime /\ Ahead(g, x, p - 1) /\ p - 1 \in Int
      BY <1>1, <2>1 DEF MessagesAhead
    <3> QED  BY <1>7, <3>1
  <2> QED  BY <1>2, <2>1 DEF MessagesAhead, Ahead, SaidBefore, KnownBefore, Reveals, SentAt
<1>10. Silent'
  BY <1>1, <1>2 DEF Silent, OnlyNETs, Gone, Connected
<1>11. GrantsFirst'
  BY <1>1, <1>2 DEF GrantsFirst, GrantedFirst, Upstreams, ConnTo
<1>12. Deliveries'
  <2>1. ASSUME NEW g \in Fed, NEW p \in 1 .. Len(down[g]), down[g][p].type = "MSG" PROVE Delivery(g, p)'
    <3>1. Delivery(g, p)
      BY <1>1, <2>1 DEF Deliveries
    <3>2. ASSUME ~Dead(g) PROVE down[g][p].tag \in in_transit'[g]
      <4>1. SUFFICES ASSUME NEW x, x = down[g][p].tag[1] PROVE down[g][p].tag \in in_transit'[g]
        OBVIOUS
      <4>2. Triggered(g, x) /\ x \in Time
        BY <1>1, <2>1, <3>2, <4>1, DownKinds DEF Triggered, Arriving
      <4>3. down[g][p].tag = <<x, 0>>
        <5>1. down[g][p].tag \in WholeTag /\ x <= StopTime
          BY <1>1, <2>1, <3>1, <4>1 DEF WholeRTI, Delivery
        <5>2. x < FOREVER
          BY <4>2, <5>1, StopRange DEF Time
        <5> QED  BY <4>1, <5>1, <5>2, WholeTags
      <4>4. <<x, 0>> \in in_transit[g]
        BY <3>1, <3>2, <4>3 DEF Delivery
      <4> QED  BY <1>5, <4>2, <4>3, <4>4
    <3>3. Dead(g)' <=> Dead(g)
      BY <1>2 DEF Dead
    <3> QED  BY <1>2, <3>1, <3>2, <3>3 DEF Delivery
  <2> QED  BY <1>1, <1>2, <2>1 DEF Deliveries
<1>13. GrantsSecure'
  <2>1. Moves
    BY <1>2 DEF Moves, Connected
  <2>2. ASSUME NEW e \in Fed, Upstreams(e) # {}, NEW n, n = node[e].last_granted[1] PROVE Secure(e, n)'
    <3>1. node[e].last_granted \in Tag
      BY <1>1, NodeParts DEF TypeInv
    <3>2. n \in Int /\ Secure(e, n)
      BY <1>1, <2>2, <3>1, TagParts DEF GrantsSecure
    <3> QED  BY <1>1, <2>1, <3>2, SecureKept
  <2> QED  BY <1>2, <2>2 DEF GrantsSecure, Upstreams, ConnTo, Secure, SecureSenders, SecureMessages
<1> QED  BY <1>3, <1>4, <1>6, <1>8, <1>9, <1>10, <1>11, <1>12, <1>13 DEF CoordInv

-----------------------------------------------------------------------------
(* Why no message comes too late: the theorems                             *)
LEMMA InitialTriggers ==
  ASSUME Init, NEW f \in Fed, NEW x \in Time, Triggered(f, x)
  PROVE  Event(<<x, 0>>, NULL) \in fed[f].queue \/ x = 0
<1>1. /\ fed[f] = InitialFed(program, f) /\ down[f] = << >>
      /\ fed[f].queue = {Event(<<t, 0>>, NULL) : t \in program.timer[f] \ {0}}
      /\ fed[f].pc # "exec"
  BY DEF Init, InitialFed
<1>2. ASSUME Queued(f, x) PROVE Event(<<x, 0>>, NULL) \in fed[f].queue
  <2>1. PICK t \in program.timer[f] \ {0} : Event(<<t, 0>>, NULL).tag[1] = x
    BY <1>1, <1>2 DEF Queued
  <2>2. t = x
    BY <2>1 DEF Event
  <2> QED  BY <1>1, <2>1, <2>2
<1>3. ~Arriving(f, x) /\ ~Reacting(f, x)
  BY <1>1 DEF Arriving, Reacting
<1> QED  BY <1>2, <1>3 DEF Triggered, Starting

LEMMA InitCoord == Init /\ Plain(program) => CoordInv
<1> SUFFICES ASSUME Init, Plain(program) PROVE CoordInv
  OBVIOUS
<1>1. TypeInv /\ AllOrderly /\ NetworkPlain
  BY InitTypes, InitOrderly DEF NetworkPlain, Init
<1>2. ASSUME NEW f \in Fed
      PROVE  /\ node[f] = InitialNode(program, f) /\ fed[f] = InitialFed(program, f)
             /\ in_transit[f] = {} /\ confirming[f] = NULL
             /\ up[f] = << >> /\ down[f] = << >> /\ Len(up[f]) = 0 /\ Len(down[f]) = 0
  BY DEF Init
<1>3. ASSUME NEW f \in Fed
      PROVE  /\ node[f].next_event = NEVER_TAG /\ node[f].completed = NEVER_TAG
             /\ node[f].last_granted = NEVER_TAG /\ node[f].last_provisionally_granted = NEVER_TAG
             /\ ~Connected(f) => Gone(f)
             /\ fed[f].current = ZERO_TAG /\ fed[f].last_TAG = NEVER_TAG
             /\ fed[f].last_skipped_NET = NEVER_TAG /\ ~fed[f].started
             /\ fed[f].pc \in {"start", "done"}
             /\ fed[f].queue = {Event(<<t, 0>>, NULL) : t \in program.timer[f] \ {0}}
  <2>1. node[f] = InitialNode(program, f) /\ fed[f] = InitialFed(program, f)
    BY <1>2
  <2>2. /\ node[f].next_event = NEVER_TAG /\ node[f].completed = NEVER_TAG
        /\ node[f].last_granted = NEVER_TAG /\ node[f].last_provisionally_granted = NEVER_TAG
        /\ node[f].state = IF Takes(program, f) THEN "GRANTED" ELSE "NOT_CONNECTED"
    BY <2>1 DEF InitialNode
  <2>3. /\ fed[f].current = ZERO_TAG /\ fed[f].last_TAG = NEVER_TAG
        /\ fed[f].last_skipped_NET = NEVER_TAG /\ ~fed[f].started
        /\ fed[f].pc = IF Takes(program, f) THEN "start" ELSE "done"
        /\ fed[f].queue = {Event(<<t, 0>>, NULL) : t \in program.timer[f] \ {0}}
    BY <2>1 DEF InitialFed
  <2> QED  BY <2>2, <2>3 DEF Connected, Gone
<1>4. /\ Heard(NEVER_TAG) = ZERO_TAG /\ ZERO_TAG[1] = 0 /\ NEVER_TAG[1] = NEVER
      /\ ZERO_TAG \in WholeTag
      /\ NEVER \in Int /\ NEVER < 0
  BY WholeTags, StopRange DEF Heard, NEVER_TAG, ZERO_TAG
<1>5. WholeRTI
  BY <1>2, <1>3, <1>4 DEF WholeRTI
<1>6. MessagesAhead /\ Silent /\ Deliveries
  BY <1>2, <1>3 DEF MessagesAhead, Silent, OnlyNETs, Deliveries
<1>7. GrantsFirst
  BY <1>2, <1>3, <1>4 DEF GrantsFirst, GrantedFirst
<1>8. TriggersAhead
  <2>1. ASSUME NEW f \in Fed, NEW x \in Time PROVE Ahead(f, x, Len(up[f]))
    <3>1. x \in Int /\ 0 <= x
      BY StopRange DEF Time
    <3>2. KnownBefore(f, x)
      BY <1>2, <1>3, <1>4, <3>1 DEF KnownBefore
    <3> QED  BY <1>2, <3>2 DEF Ahead, SaidBefore
  <2> QED  BY <2>1 DEF TriggersAhead
<1>9. FederatesSane
  <2>1. ASSUME NEW f \in Fed PROVE WholeFed(f) /\ Sane(f)
    <3>1. \A e \in fed[f].queue : e.tag \in WholeTag
      <4>1. program.timer[f] \subseteq 0 .. FOREVER - 1
        BY <1>1, ProgramParts DEF TypeInv
      <4>2. ASSUME NEW t \in program.timer[f] PROVE Event(<<t, 0>>, NULL).tag \in WholeTag
        BY <4>1, WholeTags DEF Event
      <4> QED  BY <1>3, <4>2, ZenonT(60)
    <3>2. WholeFed(f)
      BY <1>3, <1>4, <3>1 DEF WholeFed
    <3>3. \A x \in Time : Reveals(f, fed[f].last_skipped_NET, x)
      BY <1>3, NeverReveals
    <3>4. \A t \in program.timer[f] : Pending(f, t)
      BY <1>3 DEF Pending
    <3> QED  BY <1>3, <3>2, <3>3, <3>4 DEF Sane
  <2> QED  BY <2>1 DEF FederatesSane
<1>10. GrantsSecure
  <2>1. ASSUME NEW e \in Fed PROVE Secure(e, NEVER)
    <3>1. SecureMessages(e, NEVER)
      BY <1>2 DEF SecureMessages
    <3>2. ASSUME NEW c \in ConnTo(e) PROVE \E L \in Bounds : Bound(L) /\ Beyond(L, c, NEVER)
      <4> DEFINE L == [f \in Fed |-> 0]
      <4>1. Bound(L) /\ L \in Bounds
        BY <1>1, ZeroBound DEF Bound
      <4>2. Lag(c) \in Nat /\ c.from \in Fed
        BY <1>1, LagNat DEF TypeInv, ConnTo
      <4>3. Beyond(L, c, NEVER)
        BY <1>4, <4>2 DEF Beyond
      <4> QED  BY <4>1, <4>3
    <3> QED  BY <3>1, <3>2 DEF Secure, SecureSenders
  <2> QED  BY <1>3, <1>4, <2>1 DEF GrantsSecure
<1> QED  BY <1>1, <1>5, <1>6, <1>7, <1>8, <1>9, <1>10 DEF CoordInv

\* What the handlers of the RTI have in common.
LEMMA ServeHandling ==
  ASSUME CoordInv, NEW f \in Fed, ServeFederate(f)
  PROVE  Handling(f) \/ Tidies
<1>1. TypeInv /\ NetworkPlain /\ WholeRTI
  BY DEF CoordInv
<1> QED  BY <1>1, NETHandling, MSGHandling, AbsentHandling, LTCHandling, LeftHandling,
            ClosedHandling DEF ServeFederate, Tidies

LEMMA NextCoord == CoordInv /\ StartAnnounced' /\ [Next]_vars => CoordInv'
<1> SUFFICES ASSUME CoordInv, StartAnnounced', [Next]_vars PROVE CoordInv'
  OBVIOUS
<1>1. TypeInv /\ AllOrderly /\ FedBase
  BY DEF CoordInv, FedBase
<1>2. TypeInv' /\ AllOrderly'
  BY <1>1, NextTypes, NextOrderly
<1>3. CASE UNCHANGED vars
  BY <1>2, <1>3, TidyingCoord DEF Tidies
<1>4. ASSUME NEW f \in Fed, ServeFederate(f) PROVE CoordInv'
  BY <1>2, <1>4, ServeHandling, HandlingCoord, TidyingCoord
<1>5. ASSUME NEW f \in Fed, Work(f) \/ Listen(f) \/ Fail(f) PROVE CoordInv'
  BY <1>1, <1>2, <1>5, FederateMoves, FederateCoord
<1> QED  BY <1>3, <1>4, <1>5 DEF Next

LEMMA AlwaysCoordinated == Spec /\ Plain(program) /\ []StartAnnounced => []CoordInv
BY InitCoord, NextCoord, PTL DEF Spec

\* federate.c:363-380, "Centralized coordination should not have these types of
\* messages": in no program without a delay of a microstep and without a cycle
\* that has no delay does a message reach a federate at or after its tag, as
\* long as no federate that is still to react at the start has announced a
\* later event.
THEOREM NoMessageIsTardy == Spec /\ Plain(program) /\ []StartAnnounced => []NoTardyMessage
<1>1. CoordInv => NoTardyMessage
  BY DEF CoordInv, FederatesSane, Sane, NoTardyMessage
<1> QED  BY <1>1, AlwaysCoordinated, PTL

\* A program in which the federates with upstream federates have no reaction at
\* the start.
NothingToStart == \A f \in Fed : Upstreams(f) # {} => 0 \notin program.timer[f]

LEMMA NothingStartsEarly == Spec /\ NothingToStart => []StartAnnounced
<1>1. NothingToStart /\ [Next]_vars => NothingToStart'
  <2> SUFFICES ASSUME NothingToStart, [Next]_vars PROVE NothingToStart'
    OBVIOUS
  <2>1. UNCHANGED network
    <3>1. CASE UNCHANGED vars
      BY <3>1 DEF vars, network
    <3>2. ASSUME NEW f \in Fed, ServeFederate(f) PROVE UNCHANGED network
      BY <3>2, ServeParts
    <3>3. ASSUME NEW f \in Fed, Work(f) \/ Listen(f) \/ Fail(f) PROVE UNCHANGED network
      BY <3>3 DEF Work, Listen, Fail, Working, Hear, Start, Wake, AdvanceTag, Complete, Leave, ExecuteInput,
           SendMessage, SendAbsent, handle_tag_advance_grant, handle_provisional_tag_advance_grant,
           handle_tagged_message, HandlePortAbsent, handle_downstream_next_event_tag, StoreDNET
    <3> QED  BY <3>1, <3>2, <3>3 DEF Next
  <2> QED  BY <2>1, SameProgram DEF NothingToStart
<1>2. NothingToStart => StartAnnounced
  BY DEF NothingToStart, StartAnnounced
<1> QED  BY <1>1, <1>2, PTL DEF Spec

\* The same from what the program is alone: nothing that can happen to the
\* federation makes a message come too late.
THEOREM NoMessageIsTardyAfterStart ==
  Spec /\ Plain(program) /\ NothingToStart => []NoTardyMessage
BY NoMessageIsTardy, NothingStartsEarly

LEMMA ForwardedLater ==
  ASSUME TypeInv, TypeInv', WholeRTI, MessagesAhead, GrantsFirst, GrantsSecure,
         NEW f \in Fed, Handling(f), NEW e \in Fed, Forwarding(f, e), up[f][1].type = "MSG"
  PROVE  up[f][1].tag \in WholeTag /\ node[e].last_granted[1] < up[f][1].tag[1]
<1>1. SUFFICES ASSUME NEW x, x = up[f][1].tag[1]
               PROVE  up[f][1].tag \in WholeTag /\ node[e].last_granted[1] < x
  OBVIOUS
<1>2. node[e].last_granted[1] < x /\ <<x, 0>> \in in_transit'[e]
  BY <1>1, ForwardedMessage
<1>3. up[f][1].tag \in WholeTag
  BY <1>1, ForwardedMessage
<1> QED  BY <1>2, <1>3

LEMMA HandlingKeepsGrants ==
  ASSUME CoordInv, TypeInv', NEW f \in Fed, Handling(f)
  PROVE  KeepsGrants
<1>1. TypeInv /\ WholeRTI /\ MessagesAhead /\ GrantsFirst /\ GrantsSecure
  BY DEF CoordInv
<1> SUFFICES ASSUME NEW e \in Fed, NEW i \in (Len(down[e]) + 1) .. Len(down'[e]), down'[e][i].type = "MSG"
             PROVE  /\ Less(node[e].last_granted, down'[e][i].tag)
                    /\ Leq(node[e].last_provisionally_granted, down'[e][i].tag)
                    /\ down'[e][i].tag # node[e].last_provisionally_granted
  BY DEF KeepsGrants
<1>2. Forwarding(f, e) /\ down'[e][i] = up[f][1] /\ up[f][1].type = "MSG"
  BY <1>1, HandlingParts DEF Posts, Granting
<1>3. up[f][1].tag \in WholeTag /\ node[e].last_granted[1] < up[f][1].tag[1]
  BY <1>1, <1>2, ForwardedLater
<1>4. up[f][1].tag \in Tag
  BY <1>3, WholeTags, SpecialTags
<1>5. node[e].last_provisionally_granted = NEVER_TAG
  BY <1>1 DEF WholeRTI
<1>6. up[f][1].tag # NEVER_TAG
  BY <1>3, WholeTags, SpecialTags DEF EventTag
<1>7. Less(node[e].last_granted, up[f][1].tag)
  BY <1>3 DEF Less
<1>8. Leq(NEVER_TAG, up[f][1].tag)
  BY <1>4, ZeroAndForever
<1> QED  BY <1>2, <1>5, <1>6, <1>7, <1>8

LEMMA StepsKeepGrants == CoordInv /\ StartAnnounced' /\ [Next]_vars => KeepsGrants \/ UNCHANGED vars
<1> SUFFICES ASSUME CoordInv, StartAnnounced', Next PROVE KeepsGrants
  OBVIOUS
<1>1. TypeInv /\ TypeInv' /\ FedBase
  BY NextTypes DEF CoordInv, FedBase
<1>2. ASSUME \A e \in Fed : Len(down[e]) \in Nat /\ Len(down'[e]) <= Len(down[e]) /\ Len(down'[e]) \in Nat PROVE KeepsGrants
  BY <1>2 DEF KeepsGrants
<1>3. \A e \in Fed : Len(down[e]) \in Nat /\ Len(down'[e]) \in Nat
  BY <1>1, LenProperties DEF TypeInv
<1>4. ASSUME NEW f \in Fed, ServeFederate(f) PROVE KeepsGrants
  <2>1. CASE Tidies
    BY <1>1, <1>2, <1>3, <2>1, TidyingParts
  <2>2. CASE Handling(f)
    BY <1>1, <2>2, HandlingKeepsGrants
  <2> QED  BY <1>4, <2>1, <2>2, ServeHandling
<1>5. ASSUME NEW f \in Fed, Work(f) \/ Listen(f) \/ Fail(f) PROVE KeepsGrants
  <2>1. FedMoves(f)
    BY <1>1, <1>5, FederateMoves
  <2>2. ASSUME NEW e \in Fed PROVE Len(down'[e]) <= Len(down[e])
    <3>1. PICK k \in {0, 1} : Hears(e, k)
      BY <1>1, <2>1, HeardParts
    <3> QED  BY <1>3, <3>1 DEF Hears, Shifted
  <2> QED  BY <1>2, <1>3, <2>2
<1> QED  BY <1>4, <1>5 DEF Next

\* net_common.h:406-428: after a TAG of a tag the RTI forwards no message with
\* that tag or an earlier one, in every such program.
THEOREM GrantsAreKept == Spec /\ Plain(program) /\ []StartAnnounced => GrantKept
<1>1. CoordInv /\ StartAnnounced' /\ [Next]_vars => [KeepsGrants]_vars
  BY StepsKeepGrants
<1>2. Spec /\ Plain(program) /\ []StartAnnounced => [][KeepsGrants]_vars
  BY <1>1, AlwaysCoordinated, PTL DEF Spec
<1> QED  BY <1>2 DEF GrantKept, KeepsGrants

-----------------------------------------------------------------------------
(* The federation does what coordination promises: the refinement mapping  *)
aTag == [f \in Fed |-> IF fed[f].started THEN fed[f].current ELSE NEVER_TAG]
aBusy == [f \in Fed |-> fed[f].pc = "exec"]
aFailed == {f \in Fed : fed[f].failed}
aInbox == [f \in Fed |-> IF fed[f].failed THEN {} ELSE {Event(m.tag, m.conn) : m \in InFlight(f)}
                           \cup {e \in fed[f].queue : e.conn # NULL}]
aMessage == [tag : (0 .. StopTime) \X Microstep, conn : UNION {p.conn : p \in Programs}]

LEMMA OrderSends ==
  ASSUME NEW f \in Fed, NEW m \in aMessage, f \notin aFailed, Less(aTag[f], m.tag),
         aTag' = aTag, aBusy' = aBusy, aFailed' = aFailed,
         aInbox' = [aInbox EXCEPT ![f] = @ \cup {m}]
  PROVE  Order!Next
<1>1. Order!Send(f, m)
  BY DEF Order!Send, Order!Open, aTag, aBusy, aFailed, aInbox
<1> QED  BY <1>1 DEF Order!Next, aMessage

LEMMA OrderAdvances ==
  ASSUME NEW f \in Fed, f \notin aFailed, ~aBusy[f], Less(aTag[f], aTag'[f]),
         \A m \in aInbox[f] : ~Less(m.tag, aTag'[f]),
         aTag' = [aTag EXCEPT ![f] = aTag'[f]], aBusy' = [aBusy EXCEPT ![f] = TRUE],
         aFailed' = aFailed,
         NEW S, S \subseteq {m \in aInbox[f] : m.tag = aTag'[f]},
         aInbox' = [aInbox EXCEPT ![f] = @ \ S]
  PROVE  Order!Next
<1>1. Order!Advance(f)
  BY DEF Order!Advance, aTag, aBusy, aFailed, aInbox
<1> QED  BY <1>1 DEF Order!Next

LEMMA OrderFinishes ==
  ASSUME NEW f \in Fed, aBusy[f], \A m \in aInbox[f] : Less(aTag[f], m.tag),
         aTag' = aTag, aBusy' = [aBusy EXCEPT ![f] = FALSE], aFailed' = aFailed, aInbox' = aInbox
  PROVE  Order!Next
<1>1. Order!Finish(f)
  BY DEF Order!Finish, aTag, aBusy, aFailed, aInbox
<1> QED  BY <1>1 DEF Order!Next

LEMMA OrderFails ==
  ASSUME NEW f \in Fed, f \notin aFailed, aFailed' = aFailed \cup {f},
         aTag' = aTag, aBusy' = aBusy, aInbox' = [aInbox EXCEPT ![f] = {}]
  PROVE  Order!Next
<1>1. Order!Fail(f)
  BY DEF Order!Fail, aTag, aBusy, aFailed, aInbox
<1> QED  BY <1>1 DEF Order!Next

aVars == <<aTag, aBusy, aInbox, aFailed>>

\* m is on its way to e: to the RTI, from it, or in the queue of e.
ComingUp(e, m) ==
  \E g \in Fed : \E p \in 1 .. Len(up[g]) :
    up[g][p].type = "MSG" /\ up[g][p].conn.to = e /\ m = Event(up[g][p].tag, up[g][p].conn)
ComingDown(e, m) ==
  \E p \in 1 .. Len(down[e]) : down[e][p].type = "MSG" /\ m = Event(down[e][p].tag, down[e][p].conn)
Coming(e, m) == ComingUp(e, m) \/ ComingDown(e, m) \/ (m \in fed[e].queue /\ m.conn # NULL)

LEMMA InFlightIs ==
  TypeInv => \A e \in Fed : \A m :
    m \in {Event(n.tag, n.conn) : n \in InFlight(e)} <=> ComingUp(e, m) \/ ComingDown(e, m)
<1> SUFFICES ASSUME TypeInv, NEW e \in Fed, NEW m
             PROVE  m \in {Event(n.tag, n.conn) : n \in InFlight(e)} <=> ComingUp(e, m) \/ ComingDown(e, m)
  OBVIOUS
<1>1. ASSUME NEW g \in Fed
      PROVE  /\ Range(up[g]) = {up[g][p] : p \in 1 .. Len(up[g])}
             /\ Range(down[g]) = {down[g][p] : p \in 1 .. Len(down[g])}
  <2>1. up[g] \in Seq(UpMessage(g)) /\ down[g] \in Seq(DownMessage(g))
    BY DEF TypeInv
  <2>2. DOMAIN up[g] = 1 .. Len(up[g]) /\ DOMAIN down[g] = 1 .. Len(down[g])
    BY <2>1
  <2> QED  BY <2>2 DEF Range
<1>2. ASSUME NEW n PROVE n \in InFlight(e) <=>
        \/ \E g \in Fed : \E p \in 1 .. Len(up[g]) : n = up[g][p] /\ n.type = "MSG" /\ n.conn.to = e
        \/ \E p \in 1 .. Len(down[e]) : n = down[e][p] /\ n.type = "MSG" /\ n.conn.to = e
  <2>1. n \in InFlight(e) <=>
          /\ (\E g \in Fed : n \in Range(up[g])) \/ n \in Range(down[e])
          /\ n.type = "MSG" /\ n.conn.to = e
    BY DEF InFlight
  <2>2. \A g \in Fed : n \in Range(up[g]) <=> \E p \in 1 .. Len(up[g]) : n = up[g][p]
    BY <1>1
  <2>3. n \in Range(down[e]) <=> \E p \in 1 .. Len(down[e]) : n = down[e][p]
    BY <1>1
  <2> QED  BY <2>1, <2>2, <2>3
<1>3. \A p \in 1 .. Len(down[e]) : down[e][p].type = "MSG" => down[e][p].conn.to = e
  BY DownKinds DEF ConnTo
<1> QED  BY <1>2, <1>3 DEF ComingUp, ComingDown

LEMMA InboxIs ==
  TypeInv => \A e \in Fed : /\ fed[e].failed => aInbox[e] = {}
                            /\ ~fed[e].failed => \A m : m \in aInbox[e] <=> Coming(e, m)
<1> SUFFICES ASSUME TypeInv, NEW e \in Fed
             PROVE  /\ fed[e].failed => aInbox[e] = {}
                    /\ ~fed[e].failed => \A m : m \in aInbox[e] <=> Coming(e, m)
  OBVIOUS
<1> DEFINE flying == {Event(n.tag, n.conn) : n \in InFlight(e)}
<1>1. aInbox[e] = IF fed[e].failed THEN {} ELSE flying \cup {q \in fed[e].queue : q.conn # NULL}
  BY DEF aInbox
<1>2. \A m : m \in flying <=> ComingUp(e, m) \/ ComingDown(e, m)
  BY InFlightIs
<1> HIDE DEF flying
<1> QED  BY <1>1, <1>2 DEF Coming

LEMMA InboxIsAfter ==
  TypeInv' => \A e \in Fed : /\ fed'[e].failed => aInbox'[e] = {}
                             /\ ~fed'[e].failed => \A m : m \in aInbox'[e] <=> Coming(e, m)'
<1>1. (TypeInv => \A e \in Fed : /\ fed[e].failed => aInbox[e] = {}
                                 /\ ~fed[e].failed => \A m : m \in aInbox[e] <=> Coming(e, m))'
  BY InboxIs, PTL
<1> QED  BY <1>1

\* What is on its way to a federate is later than what is granted to it.
LEMMA ComingLater ==
  ASSUME CoordInv, NEW e \in Fed, NEW m, ComingUp(e, m) \/ ComingDown(e, m)
  PROVE  /\ Upstreams(e) # {} /\ m.conn \in ConnTo(e)
         /\ m.tag \in WholeTag /\ m.tag[1] \in Int /\ m.tag[1] <= StopTime
         /\ fed[e].last_TAG \in Tag /\ fed[e].last_TAG[1] < m.tag[1]
<1>1. TypeInv /\ WholeRTI /\ MessagesAhead /\ GrantsFirst /\ GrantsSecure /\ Deliveries
  BY DEF CoordInv
<1>2. fed[e].last_TAG \in Tag /\ node[e].last_granted \in Tag
  BY <1>1, FedParts, NodeParts DEF TypeInv
<1>3. CASE ComingUp(e, m)
  <2>0. PICK g \in Fed : \E p \in 1 .. Len(up[g]) :
          up[g][p].type = "MSG" /\ up[g][p].conn.to = e /\ m = Event(up[g][p].tag, up[g][p].conn)
    BY <1>3 DEF ComingUp
  <2>1. PICK p \in 1 .. Len(up[g]) :
          up[g][p].type = "MSG" /\ up[g][p].conn.to = e /\ m = Event(up[g][p].tag, up[g][p].conn)
    BY <2>0
  <2>2. m.tag = up[g][p].tag /\ m.conn = up[g][p].conn
    BY <2>1 DEF Event
  <2>3. m.conn \in ConnTo(e)
    BY <1>1, <2>1, <2>2, UpKinds
  <2>4. Upstreams(e) # {}
    BY <2>3 DEF Upstreams
  <2>5. m.tag \in WholeTag /\ m.tag[1] \in Int
    BY <1>1, <2>2, WholeTags DEF WholeRTI
  <2>6. m.tag[1] <= StopTime
    BY <1>1, <2>1, <2>2 DEF MessagesAhead
  <2>7. SecureMessages(e, node[e].last_granted[1]) /\ GrantedFirst(e, node[e].last_granted[1])
    BY <1>1, <2>4 DEF GrantsSecure, GrantsFirst, Secure
  <2>8. node[e].last_granted[1] < m.tag[1] /\ node[e].last_granted[1] \in Int
    BY <1>2, <2>1, <2>2, <2>7, TagParts DEF SecureMessages
  <2>9. fed[e].last_TAG[1] < m.tag[1]
    BY <1>1, <2>5, <2>7, <2>8, GrantedBefore
  <2> QED  BY <1>2, <2>3, <2>4, <2>5, <2>6, <2>9
<1>4. CASE ComingDown(e, m)
  <2>1. PICK p \in 1 .. Len(down[e]) : down[e][p].type = "MSG" /\ m = Event(down[e][p].tag, down[e][p].conn)
    BY <1>4 DEF ComingDown
  <2>2. m.tag = down[e][p].tag /\ m.conn = down[e][p].conn
    BY <2>1 DEF Event
  <2>3. m.conn \in ConnTo(e) /\ Upstreams(e) # {}
    BY <1>1, <2>1, <2>2, DownKinds
  <2>4. m.tag \in WholeTag /\ m.tag[1] \in Int
    BY <1>1, <2>1, <2>2, WholeTags DEF WholeRTI
  <2>5. m.tag[1] <= StopTime /\ fed[e].last_TAG[1] < m.tag[1]
    BY <1>1, <2>1, <2>2 DEF Deliveries, Delivery
  <2> QED  BY <1>2, <2>3, <2>4, <2>5
<1> QED  BY <1>3, <1>4

\* A federate that has ended without having started has no upstream federates.
Idle == \A f \in Fed : fed[f].pc = "done" /\ ~fed[f].started => Upstreams(f) = {}

\* The tag of a federate is before what is on its way to it.
LEMMA TagBeforeComing ==
  ASSUME CoordInv, NEW e \in Fed, NEW m, ComingUp(e, m) \/ ComingDown(e, m)
  PROVE  /\ fed[e].started => Less(fed[e].current, m.tag) /\ fed[e].current[1] < m.tag[1]
         /\ Less(aTag[e], m.tag)
         /\ Idle => fed[e].pc # "done"
<1>1. /\ Upstreams(e) # {} /\ m.tag \in WholeTag /\ m.tag[1] \in Int /\ m.tag[1] <= StopTime
      /\ fed[e].last_TAG \in Tag /\ fed[e].last_TAG[1] < m.tag[1]
  BY ComingLater
<1>2. Orderly(e) /\ fed[e].current \in Tag /\ m.tag \in Tag /\ m.tag[1] >= 0
  BY <1>1, FedParts, WholeTags, SpecialTags DEF CoordInv, AllOrderly, TypeInv
<1>3. ASSUME fed[e].started PROVE Less(fed[e].current, m.tag) /\ fed[e].current[1] < m.tag[1]
  <2>1. Leq(fed[e].current, fed[e].last_TAG)
    BY <1>1, <1>2, <1>3 DEF Orderly
  <2> QED  BY <1>1, <1>2, <2>1, TagOrdering
<1>4. Less(aTag[e], m.tag)
  <2>1. Less(NEVER_TAG, m.tag)
    BY <1>1, <1>2, StopRange DEF Less, NEVER_TAG
  <2> QED  BY <1>3, <2>1 DEF aTag
<1>5. ASSUME Idle, fed[e].pc = "done" PROVE FALSE
  <2>1. fed[e].started
    BY <1>1, <1>5 DEF Idle
  <2>2. Leq(STOP_TAG, fed[e].current)
    BY <1>2, <1>5, <2>1 DEF Orderly
  <2>3. STOP_TAG \in Tag /\ STOP_TAG[1] = StopTime
    BY StopTag, SpecialTags DEF STOP_TAG
  <2>4. StopTime <= fed[e].current[1]
    BY <1>2, <2>2, <2>3, TagOrdering
  <2> QED  BY <1>1, <1>2, <1>3, <2>1, <2>4, TagParts, StopRange
<1> QED  BY <1>3, <1>4, <1>5

-----------------------------------------------------------------------------
(* What a step changes of what is on its way                               *)

\* f sends the message m to e.
Sending(f, e, m) ==
  \E i \in Len(up[f]) + 1 .. Len(up'[f]) :
    up'[f][i].type = "MSG" /\ up'[f][i].conn.to = e /\ m = Event(up'[f][i].tag, up'[f][i].conn)
\* f hears the message m.
Hearing1(f, k, m) == k = 1 /\ down[f][1].type = "MSG" /\ m = Event(down[f][1].tag, down[f][1].conn)

LEMMA ComingUpAfter ==
  ASSUME TypeInv, TypeInv', NEW f \in Fed, FedMoves(f), NEW e \in Fed, NEW m
  PROVE  ComingUp(e, m)' <=> ComingUp(e, m) \/ Sending(f, e, m)
<1>1. /\ Len(up[f]) \in Nat /\ Len(up'[f]) \in Nat /\ Len(up[f]) <= Len(up'[f])
      /\ \A i \in 1 .. Len(up[f]) : up'[f][i] = up[f][i]
      /\ \A g \in Fed \ {f} : up'[g] = up[g]
  BY Spoken, KeepsParts
<1>2. ASSUME ComingUp(e, m)' PROVE ComingUp(e, m) \/ Sending(f, e, m)
  <2>1. PICK g \in Fed : \E p \in 1 .. Len(up'[g]) :
          up'[g][p].type = "MSG" /\ up'[g][p].conn.to = e /\ m = Event(up'[g][p].tag, up'[g][p].conn)
    BY <1>2 DEF ComingUp
  <2>2. PICK p \in 1 .. Len(up'[g]) :
          up'[g][p].type = "MSG" /\ up'[g][p].conn.to = e /\ m = Event(up'[g][p].tag, up'[g][p].conn)
    BY <2>1
  <2>3. CASE g # f \/ p \in 1 .. Len(up[f])
    <3>1. p \in 1 .. Len(up[g]) /\ up[g][p] = up'[g][p]
      BY <1>1, <2>3
    <3> QED  BY <2>2, <3>1 DEF ComingUp
  <2>4. CASE g = f /\ p \in Len(up[f]) + 1 .. Len(up'[f])
    BY <2>2, <2>4 DEF Sending
  <2>5. g = f /\ p \notin 1 .. Len(up[f]) => p \in Len(up[f]) + 1 .. Len(up'[f])
    BY <1>1
  <2> QED  BY <2>3, <2>4, <2>5
<1>3. ASSUME ComingUp(e, m) PROVE ComingUp(e, m)'
  <2>1. PICK g \in Fed : \E p \in 1 .. Len(up[g]) :
          up[g][p].type = "MSG" /\ up[g][p].conn.to = e /\ m = Event(up[g][p].tag, up[g][p].conn)
    BY <1>3 DEF ComingUp
  <2>2. PICK p \in 1 .. Len(up[g]) :
          up[g][p].type = "MSG" /\ up[g][p].conn.to = e /\ m = Event(up[g][p].tag, up[g][p].conn)
    BY <2>1
  <2>3. p \in 1 .. Len(up'[g]) /\ up'[g][p] = up[g][p]
    BY <1>1
  <2> QED  BY <2>2, <2>3 DEF ComingUp
<1>4. ASSUME Sending(f, e, m) PROVE ComingUp(e, m)'
  <2>1. PICK i \in Len(up[f]) + 1 .. Len(up'[f]) :
          up'[f][i].type = "MSG" /\ up'[f][i].conn.to = e /\ m = Event(up'[f][i].tag, up'[f][i].conn)
    BY <1>4 DEF Sending
  <2>2. i \in 1 .. Len(up'[f])
    BY <1>1
  <2> QED  BY <2>1, <2>2 DEF ComingUp
<1> QED  BY <1>2, <1>3, <1>4

LEMMA ComingDownAfter ==
  ASSUME TypeInv, TypeInv', NEW e \in Fed, NEW k, Hears(e, k), NEW m
  PROVE  ComingDown(e, m) <=> ComingDown(e, m)' \/ Hearing1(e, k, m)
<1>1. /\ Len(down[e]) \in Nat /\ Len(down'[e]) \in Nat /\ k \in {0, 1} /\ Len(down[e]) = Len(down'[e]) + k
      /\ \A i \in 1 .. Len(down'[e]) : down'[e][i] = down[e][i + k]
  BY DEF TypeInv, Hears, Shifted
<1>2. ASSUME ComingDown(e, m) PROVE ComingDown(e, m)' \/ Hearing1(e, k, m)
  <2>1. PICK p \in 1 .. Len(down[e]) : down[e][p].type = "MSG" /\ m = Event(down[e][p].tag, down[e][p].conn)
    BY <1>2 DEF ComingDown
  <2>2. CASE p - k \in 1 .. Len(down'[e])
    <3>1. down'[e][p - k] = down[e][p]
      BY <1>1, <2>2
    <3> QED  BY <2>1, <2>2, <3>1 DEF ComingDown
  <2>3. CASE p - k \notin 1 .. Len(down'[e])
    <3>1. p = 1 /\ k = 1
      BY <1>1, <2>3
    <3> QED  BY <2>1, <3>1 DEF Hearing1
  <2> QED  BY <2>2, <2>3
<1>3. ASSUME ComingDown(e, m)' PROVE ComingDown(e, m)
  <2>1. PICK p \in 1 .. Len(down'[e]) : down'[e][p].type = "MSG" /\ m = Event(down'[e][p].tag, down'[e][p].conn)
    BY <1>3 DEF ComingDown
  <2>2. p + k \in 1 .. Len(down[e]) /\ down'[e][p] = down[e][p + k]
    BY <1>1
  <2> QED  BY <2>1, <2>2 DEF ComingDown
<1>4. ASSUME Hearing1(e, k, m) PROVE ComingDown(e, m)
  <2>1. 1 \in 1 .. Len(down[e])
    BY <1>1, <1>4 DEF Hearing1
  <2> QED  BY <1>4, <2>1 DEF Hearing1, ComingDown
<1> QED  BY <1>2, <1>3, <1>4

\* What federates elsewhere see of a step of f.
LEMMA ComingElsewhere ==
  ASSUME TypeInv, TypeInv', NEW f \in Fed, FedMoves(f), NEW e \in Fed, e # f, NEW m
  PROVE  Coming(e, m)' <=> Coming(e, m) \/ Sending(f, e, m)
<1>1. fed'[e] = fed[e] /\ down'[e] = down[e]
  BY KeepsParts
<1>2. ComingDown(e, m)' <=> ComingDown(e, m)
  BY <1>1 DEF ComingDown
<1> QED  BY <1>1, <1>2, ComingUpAfter DEF Coming

\* f says nothing to the others.
Silently(f) == \A i \in Len(up[f]) + 1 .. Len(up'[f]) : up'[f][i].type # "MSG"

LEMMA SilentlySame ==
  ASSUME TypeInv, NEW f \in Fed, up'[f] = up[f]
  PROVE  Silently(f)
<1>1. Len(up[f]) \in Nat /\ Len(up'[f]) = Len(up[f])
  BY DEF TypeInv
<1>2. \A n \in Nat : n + 1 .. n = {}
  OBVIOUS
<1> QED  BY <1>1, <1>2 DEF Silently

LEMMA SilentlyAdds ==
  ASSUME TypeInv, NEW f \in Fed, NEW ms \in Seq(UpMessage(f)), up'[f] = up[f] \o ms,
         \A j \in 1 .. Len(ms) : ms[j].type # "MSG"
  PROVE  Silently(f)
<1>1. up[f] \in Seq(UpMessage(f))
  BY DEF TypeInv
<1>2. Len(up'[f]) = Len(up[f]) + Len(ms) /\ Len(up[f]) \in Nat /\ Len(ms) \in Nat
  BY <1>1, ConcatProperties, LenProperties
<1>3. ASSUME NEW i \in Len(up[f]) + 1 .. Len(up'[f]) PROVE up'[f][i].type # "MSG"
  <2>1. PICK j \in 1 .. Len(ms) : i = j + Len(up[f])
    <3>1. i - Len(up[f]) \in 1 .. Len(ms) /\ i = (i - Len(up[f])) + Len(up[f])
      BY <1>2
    <3> QED  BY <3>1
  <2>2. up'[f][i] = ms[j]
    BY <1>1, <1>2, <2>1, ConcatProperties
  <2> QED  BY <2>2
<1> QED  BY <1>3 DEF Silently

LEMMA SilentlyOne ==
  ASSUME TypeInv, NEW f \in Fed, NEW m \in UpMessage(f), m.type # "MSG", up'[f] = up[f] \o <<m>>
  PROVE  Silently(f)
<1> DEFINE ms == <<m>>
<1>1. ms \in Seq(UpMessage(f)) /\ Len(ms) = 1 /\ ms[1] = m
  OBVIOUS
<1>2. up'[f] = up[f] \o ms
  OBVIOUS
<1> HIDE DEF ms
<1>3. \A j \in 1 .. 1 : j = 1
  OBVIOUS
<1>4. \A j \in 1 .. Len(ms) : ms[j].type # "MSG"
  BY <1>1, <1>3
<1> QED  BY <1>1, <1>2, <1>4, SilentlyAdds

LEMMA SilentlyTwo ==
  ASSUME TypeInv, NEW f \in Fed, NEW a \in UpMessage(f), NEW b \in UpMessage(f),
         a.type # "MSG", b.type # "MSG", up'[f] = up[f] \o (<<a>> \o <<b>>)
  PROVE  Silently(f)
<1> DEFINE ms == <<a>> \o <<b>>
<1>1. ms \in Seq(UpMessage(f)) /\ Len(ms) = 2 /\ ms[1] = a /\ ms[2] = b
  <2>1. <<a>> \in Seq(UpMessage(f)) /\ <<b>> \in Seq(UpMessage(f))
    OBVIOUS
  <2>2. Len(<<a>>) = 1 /\ <<a>>[1] = a /\ Len(<<b>>) = 1 /\ <<b>>[1] = b
    OBVIOUS
  <2> QED  BY <2>1, <2>2, ConcatProperties
<1>2. up'[f] = up[f] \o ms
  OBVIOUS
<1> HIDE DEF ms
<1>3. \A j \in 1 .. 2 : j = 1 \/ j = 2
  OBVIOUS
<1>4. \A j \in 1 .. Len(ms) : ms[j].type # "MSG"
  BY <1>1, <1>3
<1> QED  BY <1>1, <1>2, <1>4, SilentlyAdds

-----------------------------------------------------------------------------
(* What a step changes of the abstract state                               *)

SameTag(e) == fed'[e].started = fed[e].started /\ fed'[e].current = fed[e].current
SameBusy(e) == fed'[e].pc = "exec" <=> fed[e].pc = "exec"
SameFailed(e) == fed'[e].failed = fed[e].failed
SameInbox(e) == ~fed[e].failed => \A m : Coming(e, m)' <=> Coming(e, m)

LEMMA TagAfter ==
  ASSUME \A e \in Fed : SameTag(e)
  PROVE  aTag' = aTag
BY DEF aTag, SameTag

LEMMA BusyAfter ==
  ASSUME NEW f \in Fed, \A e \in Fed \ {f} : SameBusy(e)
  PROVE  /\ SameBusy(f) => aBusy' = aBusy
         /\ fed'[f].pc = "exec" => aBusy' = [aBusy EXCEPT ![f] = TRUE]
         /\ fed'[f].pc # "exec" => aBusy' = [aBusy EXCEPT ![f] = FALSE]
<1>1. /\ aBusy = [e \in Fed |-> fed[e].pc = "exec"]
      /\ aBusy' = [e \in Fed |-> fed'[e].pc = "exec"]
  BY DEF aBusy
<1>2. \A e \in Fed \ {f} : (fed'[e].pc = "exec") = (fed[e].pc = "exec")
  BY DEF SameBusy
<1>3. SameBusy(f) => (fed'[f].pc = "exec") = (fed[f].pc = "exec")
  BY DEF SameBusy
<1> QED  BY <1>1, <1>2, <1>3, Zenon

LEMMA FailedAfter ==
  ASSUME \A e \in Fed : SameFailed(e)
  PROVE  aFailed' = aFailed
BY DEF aFailed, SameFailed

LEMMA InboxFunction ==
  /\ aInbox = [e \in Fed |-> aInbox[e]] /\ aInbox' = [e \in Fed |-> aInbox'[e]]
BY DEF aInbox

LEMMA InboxSame ==
  ASSUME TypeInv, TypeInv', NEW e \in Fed, SameFailed(e), SameInbox(e)
  PROVE  aInbox'[e] = aInbox[e]
<1>1. CASE fed[e].failed
  BY <1>1, InboxIs, InboxIsAfter DEF SameFailed
<1>2. CASE ~fed[e].failed
  <2>1. \A m : m \in aInbox'[e] <=> m \in aInbox[e]
    BY <1>2, InboxIs, InboxIsAfter DEF SameFailed, SameInbox
  <2> QED  BY <2>1
<1> QED  BY <1>1, <1>2

\* The inbox of f becomes D, and those of the others are as before.
LEMMA InboxAfter ==
  ASSUME TypeInv, TypeInv', NEW f \in Fed, NEW D,
         \A e \in Fed : SameFailed(e), \A e \in Fed \ {f} : SameInbox(e),
         ~fed[f].failed, \A m : Coming(f, m)' <=> m \in D
  PROVE  aInbox' = [aInbox EXCEPT ![f] = D]
<1>1. aInbox'[f] = D
  <2>1. \A m : m \in aInbox'[f] <=> m \in D
    BY InboxIsAfter DEF SameFailed
  <2> QED  BY <2>1
<1>2. \A e \in Fed \ {f} : aInbox'[e] = aInbox[e]
  BY InboxSame
<1> QED  BY <1>1, <1>2, InboxFunction

LEMMA Stutters ==
  ASSUME TypeInv, TypeInv',
         \A e \in Fed : SameTag(e) /\ SameBusy(e) /\ SameFailed(e) /\ SameInbox(e)
  PROVE  UNCHANGED aVars
<1>1. aTag' = aTag /\ aFailed' = aFailed
  BY TagAfter, FailedAfter
<1>2. aBusy' = aBusy
  <2>1. \A e \in Fed : (fed'[e].pc = "exec") = (fed[e].pc = "exec")
    BY DEF SameBusy
  <2> QED  BY <2>1 DEF aBusy
<1>3. aInbox' = aInbox
  BY InboxSame, InboxFunction
<1> QED  BY <1>1, <1>2, <1>3 DEF aVars

\* Nothing to consume is heard.
Deaf(f) == \E k : Hears(f, k) /\ (k = 1 => down[f][1].type # "MSG")

\* The other federates see nothing of what f does silently.
LEMMA OthersSame ==
  ASSUME TypeInv, TypeInv', NEW f \in Fed, FedMoves(f), NEW e \in Fed, e # f
  PROVE  /\ SameTag(e) /\ SameBusy(e) /\ SameFailed(e)
         /\ Silently(f) => SameInbox(e)
<1>1. fed'[e] = fed[e]
  BY KeepsParts
<1>2. Silently(f) => \A m : Coming(e, m)' <=> Coming(e, m)
  BY ComingElsewhere DEF Silently, Sending
<1> QED  BY <1>1, <1>2 DEF SameTag, SameBusy, SameFailed, SameInbox

\* What f has before it when it says and hears nothing.
LEMMA ComingHere ==
  ASSUME TypeInv, TypeInv', NEW f \in Fed, FedMoves(f), Silently(f), Deaf(f), NEW m
  PROVE  /\ ComingUp(f, m)' <=> ComingUp(f, m)
         /\ ComingDown(f, m)' <=> ComingDown(f, m)
<1>1. ComingUp(f, m)' <=> ComingUp(f, m)
  BY ComingUpAfter DEF Silently, Sending
<1>2. PICK k : Hears(f, k) /\ (k = 1 => down[f][1].type # "MSG")
  BY DEF Deaf
<1>3. ComingDown(f, m)' <=> ComingDown(f, m)
  BY <1>2, ComingDownAfter DEF Hearing1
<1> QED  BY <1>1, <1>3

LEMMA QueueKept ==
  ASSUME TypeInv, TypeInv', NEW f \in Fed, FedMoves(f), Silently(f), Deaf(f), fed'[f].queue = fed[f].queue
  PROVE  SameInbox(f)
<1>1. \A m : Coming(f, m)' <=> Coming(f, m)
  BY ComingHere DEF Coming
<1> QED  BY <1>1 DEF SameInbox

LEMMA FederateStutters ==
  ASSUME TypeInv, TypeInv', NEW f \in Fed, FedMoves(f), Silently(f), Deaf(f),
         fed'[f].queue = fed[f].queue, SameTag(f), SameBusy(f), SameFailed(f)
  PROVE  UNCHANGED aVars
<1>1. SameInbox(f)
  BY QueueKept
<1>2. \A e \in Fed : SameTag(e) /\ SameBusy(e) /\ SameFailed(e) /\ SameInbox(e)
  BY <1>1, OthersSame
<1> QED  BY <1>2, Stutters

-----------------------------------------------------------------------------
(* The steps of the workers, seen from the abstract state                  *)

\* A step that changes nothing but how f goes on.
LEMMA AlikeStutters ==
  ASSUME TypeInv, TypeInv', NEW f \in Fed, FedMoves(f), down' = down, Silently(f),
         Alike(fed'[f], fed[f]), SameBusy(f)
  PROVE  UNCHANGED aVars
<1>1. /\ SameTag(f) /\ SameFailed(f) /\ fed'[f].queue = fed[f].queue /\ fed'[f].last_TAG = fed[f].last_TAG
  BY DEF Alike, SameTag, SameFailed
<1>2. Deaf(f)
  BY <1>1, HearsNothing DEF Deaf
<1> QED  BY <1>1, <1>2, FederateStutters

LEMMA AskedSilently ==
  ASSUME TypeInv, NEW f \in Fed, NEW t \in EventTag, NEW ms, IsLTC(f, ms), Asked(f, fed[f], t, ms)
  PROVE  Silently(f) /\ Alike(fed'[f], fed[f]) /\ fed'[f].pc \in {"advance", "wait"}
<1>1. fed[f].current \in EventTag
  BY FedParts DEF TypeInv
<1>2. Msg("NET", t, NULL) \in UpMessage(f) /\ Msg("NET", t, NULL).type # "MSG"
  BY MessageKinds
<1>3. /\ Msg("LTC", fed[f].current, NULL) \in UpMessage(f)
      /\ Msg("LTC", fed[f].current, NULL).type # "MSG"
  BY <1>1, MessageKinds
<1>4. up'[f] = up[f] \o (ms \o <<Msg("NET", t, NULL)>>) \/ up'[f] = up[f] \o ms
  BY DEF Asked
<1>5. CASE ms = << >>
  <2>1. up[f] \in Seq(UpMessage(f)) /\ <<Msg("NET", t, NULL)>> \in Seq(UpMessage(f))
    BY <1>2 DEF TypeInv
  <2>2. up'[f] = up[f] \o <<Msg("NET", t, NULL)>> \/ up'[f] = up[f]
    BY <1>4, <1>5, <2>1, NothingAdded
  <2>3. Silently(f)
    BY <1>2, <2>2, SilentlySame, SilentlyOne
  <2> QED  BY <2>3 DEF Asked
<1>6. CASE ms = <<Msg("LTC", fed[f].current, NULL)>>
  <2>1. Silently(f)
    BY <1>2, <1>3, <1>4, <1>6, SilentlyOne, SilentlyTwo
  <2> QED  BY <2>1 DEF Asked
<1> QED  BY <1>5, <1>6 DEF IsLTC

LEMMA StartStutters ==
  ASSUME TypeInv, TypeInv', NEW f \in Fed, FedMoves(f), Start(f)
  PROVE  UNCHANGED aVars
<1>1. fed[f].pc = "start" /\ Asked(f, fed[f], fed[f].current, << >>)
  BY StartParts
<1>2. fed[f].current \in EventTag /\ IsLTC(f, << >>)
  BY FedParts DEF TypeInv, IsLTC
<1>3. Silently(f) /\ Alike(fed'[f], fed[f]) /\ fed'[f].pc \in {"advance", "wait"}
  BY <1>1, <1>2, AskedSilently
<1>4. SameBusy(f) /\ down' = down
  BY <1>1, <1>3 DEF SameBusy, Start, Working
<1> QED  BY <1>3, <1>4, AlikeStutters

LEMMA WakeStutters ==
  ASSUME TypeInv, TypeInv', NEW f \in Fed, FedMoves(f), Wake(f)
  PROVE  UNCHANGED aVars
<1> DEFINE next == NextEvent(fed[f])
<1>1. /\ fed[f].pc = "wait" /\ next \in EventTag
      /\ WakeAgain(f, next) \/ WakeUp(f) \/ WakeAsking(f, next) \/ SleepOn(f)
  BY WakeParts
<1> HIDE DEF next
<1>2. Silently(f) /\ Alike(fed'[f], fed[f]) /\ fed'[f].pc \in {"advance", "wait"}
  <2>1. CASE WakeAgain(f, next)
    <3>1. IsLTC(f, << >>) /\ Asked(f, fed[f], next, << >>)
      BY <2>1 DEF WakeAgain, IsLTC
    <3> QED  BY <1>1, <3>1, AskedSilently
  <2>2. CASE WakeUp(f) \/ SleepOn(f)
    <3>1. up'[f] = up[f] /\ Alike(fed'[f], fed[f]) /\ fed'[f].pc \in {"advance", "wait"}
      BY <2>2 DEF WakeUp, SleepOn
    <3> QED  BY <3>1, SilentlySame
  <2>3. CASE WakeAsking(f, next)
    <3>1. /\ up'[f] = up[f] \o <<Msg("NET", next, NULL)>>
          /\ Alike(fed'[f], fed[f]) /\ fed'[f].pc = "wait"
      BY <2>3 DEF WakeAsking
    <3>2. Msg("NET", next, NULL) \in UpMessage(f) /\ Msg("NET", next, NULL).type # "MSG"
      BY <1>1, MessageKinds
    <3> QED  BY <3>1, <3>2, SilentlyOne
  <2> QED  BY <1>1, <2>1, <2>2, <2>3
<1>3. SameBusy(f) /\ down' = down
  BY <1>1, <1>2 DEF SameBusy, Wake, Working
<1> QED  BY <1>2, <1>3, AlikeStutters

LEMMA LeaveStutters ==
  ASSUME TypeInv, TypeInv', NEW f \in Fed, FedMoves(f), Leave(f)
  PROVE  UNCHANGED aVars
<1>1. fed[f].pc = "stopping" /\ Alike(fed'[f], fed[f]) /\ fed'[f].pc = "done"
  BY LeaveParts
<1>2. Silently(f)
  <2> DEFINE resign == Msg("RESIGN", FOREVER_TAG, NULL)
             net == Msg("NET", FOREVER_TAG, NULL)
  <2>1. resign \in UpMessage(f) /\ net \in UpMessage(f) /\ resign.type # "MSG" /\ net.type # "MSG"
    BY SpecialTags, MessageKinds
  <2>2. up'[f] = up[f] \o <<resign>> \/ up'[f] = up[f] \o (<<net>> \o <<resign>>)
    BY LeaveParts
  <2> HIDE DEF resign, net
  <2> QED  BY <2>1, <2>2, SilentlyOne, SilentlyTwo
<1>3. SameBusy(f) /\ down' = down
  BY <1>1 DEF SameBusy, Leave, Working
<1> QED  BY <1>1, <1>2, <1>3, AlikeStutters

\* A connection is dealt with and no message is sent.
LEMMA DealtStutters ==
  ASSUME TypeInv, TypeInv', NEW f \in Fed, FedMoves(f), down' = down, Silently(f),
         fed[f].pc = "exec", NEW c, NEW level, DealsWith(f, c, level)
  PROVE  UNCHANGED aVars
<1>1. /\ SameTag(f) /\ SameFailed(f) /\ SameBusy(f)
      /\ fed'[f].queue = fed[f].queue /\ fed'[f].last_TAG = fed[f].last_TAG
  BY DEF DealsWith, SameTag, SameFailed, SameBusy
<1>2. Deaf(f)
  BY <1>1, HearsNothing DEF Deaf
<1> QED  BY <1>1, <1>2, FederateStutters

LEMMA InputStutters ==
  ASSUME TypeInv, TypeInv', NEW f \in Fed, FedMoves(f), NEW c, ExecuteInput(f, c)
  PROVE  UNCHANGED aVars
<1>1. fed[f].pc = "exec" /\ up'[f] = up[f] /\ DealsWith(f, c, c.in)
  BY InputParts
<1>2. down' = down
  BY DEF ExecuteInput, Working
<1> QED  BY <1>1, <1>2, SilentlySame, DealtStutters

LEMMA AbsentStutters ==
  ASSUME TypeInv, TypeInv', NEW f \in Fed, FedMoves(f), NEW c, SendAbsent(f, c)
  PROVE  UNCHANGED aVars
<1>1. /\ fed[f].pc = "exec" /\ c \in ConnFrom(f) /\ DealsWith(f, c, c.out)
      /\ up'[f] = up[f] \/ up'[f] = up[f] \o <<Msg("ABSENT", fed[f].current, c)>>
  BY AbsentParts
<1>2. fed[f].current \in EventTag
  BY FedParts DEF TypeInv
<1>3. Msg("ABSENT", fed[f].current, c) \in UpMessage(f) /\ Msg("ABSENT", fed[f].current, c).type # "MSG"
  <2>1. Msg("ABSENT", fed[f].current, c) \in UpMessage(f)
    BY <1>1, <1>2, MessageKinds
  <2>2. Msg("ABSENT", fed[f].current, c).type = "ABSENT"
    BY DEF Msg
  <2> QED  BY <2>1, <2>2
<1>4. Silently(f)
  BY <1>1, <1>3, SilentlySame, SilentlyOne
<1>5. down' = down
  BY DEF SendAbsent, Working
<1> QED  BY <1>1, <1>4, <1>5, DealtStutters

-----------------------------------------------------------------------------
(* The steps that advance a federate, finish its tag or end it             *)

\* The next tag of f is later than its tag, and not later than what it has in
\* its queue, nor at or after what is on its way to it.
LEMMA NextTagBetween ==
  ASSUME CoordInv, NEW f \in Fed, fed[f].pc = "advance"
  PROVE  /\ Less(aTag[f], NextTag(f)) /\ NextTag(f) \in EventTag
         /\ \A m \in fed[f].queue : ~Less(m.tag, NextTag(f))
         /\ \A m : ComingUp(f, m) \/ ComingDown(f, m) => Less(NextTag(f), m.tag)
<1>1. Orderly(f) /\ fed[f] \in FedState(f) /\ TypeInv
  BY DEF CoordInv, AllOrderly, TypeInv
<1>2. /\ fed[f].current \in EventTag /\ fed[f].last_TAG \in Tag /\ NextEvent(fed[f]) \in EventTag
      /\ \A m \in fed[f].queue : m.tag \in EventTag /\ Leq(NextEvent(fed[f]), m.tag)
      /\ NextEvent(fed[f]) = STOP_TAG \/ \E m \in fed[f].queue : m.tag = NextEvent(fed[f])
  BY <1>1, FedParts, NextEventTag
<1>3. NextTag(f) \in EventTag /\ NextTag(f) \in Tag
  BY <1>2, SpecialTags DEF NextTag
<1>4. Less(aTag[f], NextTag(f))
  <2>1. CASE fed[f].started
    <3>1. Less(fed[f].current, STOP_TAG) /\ \A m \in fed[f].queue : Less(fed[f].current, m.tag)
      BY <1>1, <2>1 DEF Orderly
    <3> QED  BY <1>2, <2>1, <3>1 DEF aTag, NextTag
  <2>2. CASE ~fed[f].started
    <3>1. Less(NEVER_TAG, NextTag(f))
      BY <1>3, SpecialTags, ZeroAndForever, TagOrdering
    <3> QED  BY <2>2, <3>1 DEF aTag
  <2> QED  BY <2>1, <2>2
<1>5. ASSUME NEW m \in fed[f].queue PROVE ~Less(m.tag, NextTag(f))
  <2>1. m.tag \in EventTag /\ m.tag \in Tag
    BY <1>2, SpecialTags
  <2>2. Leq(NextTag(f), m.tag)
    <3>1. CASE fed[f].started
      BY <1>2, <3>1 DEF NextTag
    <3>2. CASE ~fed[f].started
      <4>1. NextTag(f) = ZERO_TAG
        BY <1>1, <3>2 DEF Orderly, NextTag
      <4> QED  BY <2>1, <4>1, ZeroAndForever
    <3> QED  BY <3>1, <3>2
  <2> QED  BY <1>3, <2>1, <2>2, TagOrdering
<1>6. ASSUME NEW m, ComingUp(f, m) \/ ComingDown(f, m) PROVE Less(NextTag(f), m.tag)
  <2>1. /\ Upstreams(f) # {} /\ m.tag \in WholeTag /\ m.tag[1] \in Int
        /\ fed[f].last_TAG[1] < m.tag[1]
    BY <1>6, ComingLater
  <2>2. Leq(NextTag(f), fed[f].last_TAG)
    BY <1>1, <2>1 DEF Orderly, NextTag
  <2>3. m.tag \in Tag
    BY <2>1, WholeTags, SpecialTags
  <2> QED  BY <1>2, <1>3, <2>1, <2>2, <2>3, TagOrdering
<1> QED  BY <1>3, <1>4, <1>5, <1>6

LEMMA AdvanceInOrder ==
  ASSUME CoordInv, TypeInv', NEW f \in Fed, FedMoves(f), AdvanceTag(f)
  PROVE  Order!Next
<1> DEFINE next == NextTag(f)
           S == {m \in fed[f].queue : m.tag = next /\ m.conn # NULL}
<1>0. TypeInv
  BY DEF CoordInv
<1>1. fed[f].pc = "advance" /\ ~fed[f].failed /\ up'[f] = up[f] /\ Advanced(f) /\ down' = down
  BY <1>0, AdvanceParts DEF AdvanceTag, Working
<1>2. /\ fed'[f].pc = "exec" /\ fed'[f].started /\ fed'[f].current = next /\ fed'[f].failed = fed[f].failed
      /\ fed'[f].queue = fed[f].queue \ {m \in fed[f].queue : m.tag = next}
      /\ fed'[f].last_TAG = fed[f].last_TAG
  BY <1>1 DEF Advanced
<1>3. /\ Less(aTag[f], next)
      /\ \A m \in fed[f].queue : ~Less(m.tag, next)
      /\ \A m : ComingUp(f, m) \/ ComingDown(f, m) => Less(next, m.tag) /\ m.tag # next
  <2>1. \A m : Less(next, m.tag) => m.tag # next
    <3>1. next \in Tag
      BY <1>1, NextTagBetween, SpecialTags
    <3> QED  BY <3>1, TagOrdering
  <2> QED  BY <1>1, <2>1, NextTagBetween
<1>4. Silently(f) /\ Deaf(f)
  BY <1>0, <1>1, <1>2, SilentlySame, HearsNothing DEF Deaf
<1>5. \A e \in Fed \ {f} : SameTag(e) /\ SameBusy(e) /\ SameInbox(e)
  BY <1>0, <1>4, OthersSame
<1>6. \A e \in Fed : SameFailed(e)
  BY <1>0, <1>2, OthersSame DEF SameFailed
<1>7. aTag' = [aTag EXCEPT ![f] = next] /\ aTag'[f] = next
  <2>1. /\ aTag = [e \in Fed |-> IF fed[e].started THEN fed[e].current ELSE NEVER_TAG]
        /\ aTag' = [e \in Fed |-> IF fed'[e].started THEN fed'[e].current ELSE NEVER_TAG]
    BY DEF aTag
  <2> QED  BY <1>2, <1>5, <2>1 DEF SameTag
<1>8. aBusy' = [aBusy EXCEPT ![f] = TRUE] /\ ~aBusy[f]
  BY <1>1, <1>2, <1>5, BusyAfter DEF aBusy
<1>9. \A m : m \in aInbox[f] <=> Coming(f, m)
  BY <1>0, <1>1, InboxIs
<1>10. S \subseteq {m \in aInbox[f] : m.tag = next}
  BY <1>9 DEF Coming
<1>11. aInbox' = [aInbox EXCEPT ![f] = aInbox[f] \ S]
  <2>1. \A m : Coming(f, m)' <=> m \in aInbox[f] \ S
    <3> TAKE m
    <3>1. /\ ComingUp(f, m)' <=> ComingUp(f, m)
          /\ ComingDown(f, m)' <=> ComingDown(f, m)
      BY <1>0, <1>4, ComingHere
    <3>2. Coming(f, m)' <=> ComingUp(f, m) \/ ComingDown(f, m) \/ (m \in fed'[f].queue /\ m.conn # NULL)
      BY <3>1 DEF Coming
    <3>3. ComingUp(f, m) \/ ComingDown(f, m) => m \notin S
      BY <1>3
    <3> QED  BY <1>2, <1>9, <3>2, <3>3 DEF Coming
  <2> HIDE DEF S
  <2> QED  BY <1>0, <1>1, <1>5, <1>6, <2>1, InboxAfter
<1>12. ASSUME NEW m \in aInbox[f] PROVE ~Less(m.tag, next)
  <2>1. CASE m \in fed[f].queue
    BY <1>3, <2>1
  <2>2. CASE ComingUp(f, m) \/ ComingDown(f, m)
    <3>1. m.tag \in Tag /\ next \in Tag
      BY <1>1, <2>2, NextTagBetween, ComingLater, WholeTags, SpecialTags
    <3> QED  BY <1>3, <2>2, <3>1, TagOrdering
  <2> QED  BY <1>9, <2>1, <2>2 DEF Coming
<1>13. aFailed' = aFailed /\ f \notin aFailed
  BY <1>1, <1>6, FailedAfter DEF aFailed
<1> HIDE DEF next, S
<1>14. /\ Less(aTag[f], aTag'[f]) /\ aTag' = [aTag EXCEPT ![f] = aTag'[f]]
       /\ \A m \in aInbox[f] : ~Less(m.tag, aTag'[f])
       /\ S \subseteq {m \in aInbox[f] : m.tag = aTag'[f]}
  BY <1>3, <1>7, <1>10, <1>12
<1> QED  BY <1>8, <1>11, <1>13, <1>14, OrderAdvances

LEMMA CompleteInOrder ==
  ASSUME CoordInv, TypeInv', NEW f \in Fed, FedMoves(f), Complete(f)
  PROVE  Order!Next
<1>0. TypeInv
  BY DEF CoordInv
<1>1. fed[f].pc = "exec" /\ ~fed[f].failed /\ down' = down
  BY <1>0, CompleteParts DEF Complete, Working
<1>2. PICK ms \in Seq(UpMessage(f)) :
        /\ IsLTC(f, ms)
        /\ \/ fed'[f].pc = "stopping" /\ Alike(fed'[f], fed[f]) /\ up'[f] = up[f] \o ms
           \/ Asked(f, fed[f], NextEvent(fed[f]), ms)
  BY <1>0, CompleteParts
<1>3. Silently(f) /\ Alike(fed'[f], fed[f]) /\ fed'[f].pc # "exec"
  <2>1. CASE Asked(f, fed[f], NextEvent(fed[f]), ms)
    <3>1. NextEvent(fed[f]) \in EventTag
      BY <1>0, NextEventTag DEF TypeInv
    <3> QED  BY <1>0, <1>2, <2>1, <3>1, AskedSilently
  <2>2. CASE fed'[f].pc = "stopping" /\ Alike(fed'[f], fed[f]) /\ up'[f] = up[f] \o ms
    <3>1. CASE ms = << >>
      <4>1. up'[f] = up[f]
        BY <1>0, <2>2, <3>1, NothingAdded DEF TypeInv
      <4> QED  BY <1>0, <2>2, <4>1, SilentlySame
    <3>2. CASE ms = <<Msg("LTC", fed[f].current, NULL)>>
      <4>1. fed[f].current \in EventTag
        BY <1>0, FedParts DEF TypeInv
      <4>2. /\ Msg("LTC", fed[f].current, NULL) \in UpMessage(f)
            /\ Msg("LTC", fed[f].current, NULL).type # "MSG"
        BY <4>1, MessageKinds
      <4> QED  BY <1>0, <2>2, <3>2, <4>2, SilentlyOne
    <3> QED  BY <1>2, <3>1, <3>2 DEF IsLTC
  <2> QED  BY <1>2, <2>1, <2>2
<1>4. /\ SameTag(f) /\ SameFailed(f) /\ fed'[f].queue = fed[f].queue /\ fed'[f].last_TAG = fed[f].last_TAG
  BY <1>3 DEF Alike, SameTag, SameFailed
<1>5. Deaf(f)
  BY <1>0, <1>1, <1>4, HearsNothing DEF Deaf
<1>6. \A e \in Fed : SameTag(e) /\ SameFailed(e) /\ SameInbox(e)
  BY <1>0, <1>3, <1>4, <1>5, OthersSame, QueueKept
<1>7. aTag' = aTag /\ aFailed' = aFailed
  BY <1>6, TagAfter, FailedAfter
<1>8. aInbox' = aInbox
  BY <1>0, <1>6, InboxSame, InboxFunction
<1>9. aBusy' = [aBusy EXCEPT ![f] = FALSE] /\ aBusy[f]
  BY <1>0, <1>1, <1>3, OthersSame, BusyAfter DEF aBusy
<1>10. ASSUME NEW m \in aInbox[f] PROVE Less(aTag[f], m.tag)
  <2>1. Coming(f, m)
    BY <1>0, <1>1, InboxIs
  <2>2. CASE m \in fed[f].queue
    <3>1. Orderly(f) /\ fed[f].started
      BY <1>1 DEF CoordInv, AllOrderly, Orderly
    <3> QED  BY <2>2, <3>1 DEF Orderly, aTag
  <2>3. CASE ComingUp(f, m) \/ ComingDown(f, m)
    BY <2>3, TagBeforeComing
  <2> QED  BY <2>1, <2>2, <2>3 DEF Coming
<1> QED  BY <1>7, <1>8, <1>9, <1>10, OrderFinishes

LEMMA FailInOrder ==
  ASSUME TypeInv, TypeInv', NEW f \in Fed, FedMoves(f), Fail(f)
  PROVE  Order!Next
<1>1. /\ ~fed[f].failed /\ fed'[f].failed = TRUE /\ fed'[f].pc = fed[f].pc
      /\ fed'[f].started = fed[f].started /\ fed'[f].current = fed[f].current
  BY FailParts
<1>2. Silently(f)
  <2>1. PICK type \in {"FAILED", "EOF"} : up'[f] = up[f] \o <<Msg(type, FOREVER_TAG, NULL)>>
    BY FailParts
  <2>2. Msg(type, FOREVER_TAG, NULL) \in UpMessage(f) /\ Msg(type, FOREVER_TAG, NULL).type # "MSG"
    BY SpecialTags, MessageKinds
  <2> QED  BY <2>1, <2>2, SilentlyOne
<1>3. \A e \in Fed \ {f} : SameTag(e) /\ SameBusy(e) /\ SameFailed(e) /\ SameInbox(e)
  BY <1>2, OthersSame
<1>4. aTag' = aTag
  BY <1>1, <1>3, TagAfter DEF SameTag
<1>5. aBusy' = aBusy
  <2>1. SameBusy(f)
    BY <1>1 DEF SameBusy
  <2> QED  BY <1>3, <2>1, BusyAfter
<1>6. aFailed' = aFailed \cup {f} /\ f \notin aFailed
  BY <1>1, <1>3 DEF aFailed, SameFailed
<1>7. aInbox' = [aInbox EXCEPT ![f] = {}]
  <2>1. aInbox'[f] = {}
    BY <1>1, InboxIsAfter
  <2>2. \A e \in Fed \ {f} : aInbox'[e] = aInbox[e]
    BY <1>3, InboxSame
  <2> QED  BY <2>1, <2>2, InboxFunction
<1> QED  BY <1>4, <1>5, <1>6, <1>7, OrderFails

-----------------------------------------------------------------------------
(* The steps that send, hear and forward messages                          *)

LEMMA SentLater ==
  CoordInv' => \A e \in Fed : \A m : ComingUp(e, m)' => Less(aTag'[e], m.tag)
<1>1. CoordInv => \A e \in Fed : \A m : ComingUp(e, m) => Less(aTag[e], m.tag)
  BY TagBeforeComing
<1>2. (CoordInv => \A e \in Fed : \A m : ComingUp(e, m) => Less(aTag[e], m.tag))'
  BY <1>1, PTL
<1> QED  BY <1>2

LEMMA SendInOrder ==
  ASSUME CoordInv, CoordInv', TypeInv', NEW f \in Fed, FedMoves(f), NEW c, SendMessage(f, c)
  PROVE  Order!Next \/ UNCHANGED aVars
<1> DEFINE tag == lf_delay_tag(fed[f].current, c.delay)
           n == Msg("MSG", tag, c)
           m == Event(tag, c)
<1>0. TypeInv
  BY DEF CoordInv
<1>1. /\ fed[f].pc = "exec" /\ c \in ConnFrom(f) /\ DealsWith(f, c, c.out)
      /\ tag \in EventTag /\ down' = down
      /\ up'[f] = up[f] \/ (~Less(STOP_TAG, tag) /\ up'[f] = up[f] \o <<n>>)
  BY <1>0, SendParts DEF SentOn, SendMessage, Working
<1>2. n \in UpMessage(f) /\ n.type = "MSG" /\ n.conn = c /\ m = Event(n.tag, n.conn) /\ m.tag = tag
      /\ n.tag = tag /\ m.conn = c
  <2>1. n \in UpMessage(f)
    BY <1>1, MessageKinds
  <2> QED  BY <2>1 DEF Msg, Event
<1>3. c \in program.conn /\ c.to \in Fed /\ c.to # f
  <2>1. c \in program.conn /\ c.from = f /\ NetworkOK
    BY <1>0, <1>1 DEF ConnFrom, TypeInv
  <2> QED  BY <2>1, ProgramParts
<1>4. /\ SameTag(f) /\ SameBusy(f) /\ SameFailed(f)
      /\ fed'[f].queue = fed[f].queue /\ fed'[f].last_TAG = fed[f].last_TAG
  BY <1>1 DEF DealsWith, SameTag, SameBusy, SameFailed
<1>5. CASE up'[f] = up[f]
  BY <1>0, <1>1, <1>5, SilentlySame, DealtStutters
<1>6. CASE ~Less(STOP_TAG, tag) /\ up'[f] = up[f] \o <<n>>
  <2>1. ASSUME NEW d, NEW x PROVE Sending(f, d, x) <=> d = c.to /\ x = m
    <3>1. Len(up[f]) \in Nat /\ Len(up'[f]) = Len(up[f]) + 1 /\ up'[f][Len(up[f]) + 1] = n
      <4>1. up[f] \in Seq(UpMessage(f))
        BY <1>0 DEF TypeInv
      <4> HIDE DEF n
      <4> QED  BY <1>2, <1>6, <4>1
    <3>2. \A i \in Len(up[f]) + 1 .. Len(up'[f]) : i = Len(up[f]) + 1
      BY <3>1
    <3>3. Len(up[f]) + 1 \in Len(up[f]) + 1 .. Len(up'[f])
      BY <3>1
    <3> HIDE DEF n, m
    <3> QED  BY <1>2, <3>1, <3>2, <3>3 DEF Sending
  <2> HIDE DEF n, m, tag
  <2>2. \A e \in Fed \ {f} : SameTag(e) /\ SameBusy(e) /\ SameFailed(e)
    BY <1>0, OthersSame
  <2>3. \A e \in Fed \ {c.to} : SameInbox(e)
    <3>1. ASSUME NEW e \in Fed, e # c.to, e # f, NEW x PROVE Coming(e, x)' <=> Coming(e, x)
      BY <1>0, <2>1, <3>1, ComingElsewhere
    <3>2. ASSUME NEW x PROVE Coming(f, x)' <=> Coming(f, x)
      <4>1. ComingUp(f, x)' <=> ComingUp(f, x)
        BY <1>0, <1>3, <2>1, ComingUpAfter
      <4>2. ComingDown(f, x)' <=> ComingDown(f, x)
        BY <1>1 DEF ComingDown
      <4> QED  BY <1>4, <4>1, <4>2 DEF Coming
    <3> QED  BY <3>1, <3>2 DEF SameInbox
  <2>4. aTag' = aTag /\ aFailed' = aFailed /\ aBusy' = aBusy
    BY <1>4, <2>2, TagAfter, FailedAfter, BusyAfter
  <2>5. CASE fed[c.to].failed
    <3>1. \A e \in Fed : SameTag(e) /\ SameBusy(e) /\ SameFailed(e) /\ SameInbox(e)
      BY <1>4, <2>2, <2>3, <2>5 DEF SameInbox
    <3> QED  BY <1>0, <3>1, Stutters
  <2>6. CASE ~fed[c.to].failed
    <3>1. \A x : x \in aInbox[c.to] <=> Coming(c.to, x)
      BY <1>0, <1>3, <2>6, InboxIs
    <3>2. \A x : Coming(c.to, x)' <=> x \in aInbox[c.to] \cup {m}
      BY <1>0, <1>3, <2>1, <3>1, ComingElsewhere
    <3>3. aInbox' = [aInbox EXCEPT ![c.to] = aInbox[c.to] \cup {m}]
      BY <1>0, <1>3, <1>4, <2>2, <2>3, <2>6, <3>2, InboxAfter
    <3>4. Less(aTag[c.to], m.tag)
      <4> SUFFICES ASSUME NEW x, x = m PROVE Less(aTag[c.to], x.tag)
        OBVIOUS
      <4>1. Sending(f, c.to, x)
        BY <2>1
      <4>2. ComingUp(c.to, x)'
        BY <1>0, <1>3, <4>1, ComingUpAfter
      <4> QED  BY <1>3, <2>4, <4>2, SentLater
    <3>5. m \in aMessage
      <4>1. m.tag \in (0 .. StopTime) \X Microstep
        <5>1. STOP_TAG \in Tag /\ STOP_TAG[1] = StopTime /\ tag \in Tag /\ tag[1] \in Int /\ 0 <= tag[1]
          BY <1>1, StopTag, SpecialTags, TagOrdering DEF EventTag, STOP_TAG
        <5>2. tag[1] <= StopTime
          BY <1>6, <5>1, TagOrdering
        <5>3. tag[1] \in 0 .. StopTime
          BY <5>1, <5>2, StopRange
        <5> QED  BY <1>2, <5>1, <5>3 DEF Tag
      <4>2. c \in UNION {p.conn : p \in Programs}
        BY <1>0, <1>3 DEF TypeInv, NetworkOK
      <4> QED  BY <1>2, <4>1, <4>2 DEF aMessage, Event, m
    <3>6. c.to \notin aFailed
      BY <2>6 DEF aFailed
    <3>7. Order!Next
      BY <1>3, <2>4, <3>3, <3>4, <3>5, <3>6, OrderSends
    <3> QED  BY <3>7
  <2> QED  BY <2>5, <2>6
<1> QED  BY <1>1, <1>5, <1>6

\* The listener changes no more than where a message is.
LEMMA HeardStutters ==
  ASSUME TypeInv, TypeInv', NEW f \in Fed, FedMoves(f), Silently(f), Deaf(f),
         Alike(fed'[f], fed[f]) \/ (Resumes(f) /\ fed'[f].queue = fed[f].queue), fed'[f].pc = fed[f].pc
  PROVE  UNCHANGED aVars
<1>1. SameTag(f) /\ SameBusy(f) /\ SameFailed(f) /\ fed'[f].queue = fed[f].queue
  BY DEF SameTag, SameBusy, SameFailed, Alike, Resumes
<1> QED  BY <1>1, FederateStutters

LEMMA MSGStutters ==
  ASSUME CoordInv, CoordInv', TypeInv', NEW f \in Fed, FedMoves(f), handle_tagged_message(f)
  PROVE  UNCHANGED aVars
<1> DEFINE n == Head(down[f])
           m == Event(n.tag, n.conn)
<1>0. TypeInv
  BY DEF CoordInv
<1>1. /\ Hear(f, "MSG") /\ up'[f] = up[f] /\ n.conn \in ConnTo(f)
      /\ fed'[f].failed = fed[f].failed /\ fed'[f].started = fed[f].started
      /\ fed'[f].current = fed[f].current /\ fed'[f].last_TAG = fed[f].last_TAG
      /\ \/ ForNow(f, n)
         \/ fed'[f].pc = "fatal"
         \/ fed'[f].pc = fed[f].pc /\ fed'[f].queue = fed[f].queue \cup {m}
  BY <1>0, MSGParts
<1>2. Hears(f, 1) /\ 1 \in 1 .. Len(down[f]) /\ n = down[f][1] /\ down[f][1].type = "MSG"
  BY <1>0, <1>1, HearsOne
<1>3. m.tag = n.tag /\ m.conn = n.conn /\ m.conn # NULL
  <2>1. n.conn \in Connection
    BY <1>0, <1>1, ProgramParts DEF ConnTo, TypeInv
  <2>2. n.conn # NULL
    BY <2>1, FederationAssumption
  <2> QED  BY <2>2 DEF Event
<1>4. ComingDown(f, m)
  BY <1>2 DEF ComingDown
<1>5. ~ForNow(f, n)
  <2>1. fed[f].started => fed[f].current[1] < m.tag[1]
    BY <1>4, TagBeforeComing
  <2>2. fed[f].current[1] \in Int
    <3>1. fed[f].current \in Tag
      BY <1>0, FedParts DEF TypeInv
    <3> QED  BY <3>1, TagParts
  <2> QED  BY <1>3, <2>1, <2>2 DEF ForNow
<1>6. fed'[f].pc # "fatal"
  BY DEF CoordInv, FederatesSane, Sane
<1>7. fed'[f].pc = fed[f].pc /\ fed'[f].queue = fed[f].queue \cup {m}
  BY <1>1, <1>5, <1>6
<1>8. SameInbox(f)
  <2>1. ASSUME NEW x PROVE Coming(f, x)' <=> Coming(f, x)
    <3>1. ComingUp(f, x)' <=> ComingUp(f, x)
      BY <1>0, <1>1, SilentlySame, ComingUpAfter DEF Silently, Sending
    <3>2. ComingDown(f, x) <=> ComingDown(f, x)' \/ x = m
      BY <1>0, <1>2, ComingDownAfter DEF Hearing1
    <3> HIDE DEF m, n
    <3> QED  BY <1>3, <1>7, <3>1, <3>2 DEF Coming
  <2> QED  BY <2>1 DEF SameInbox
<1>9. SameTag(f) /\ SameBusy(f) /\ SameFailed(f)
  BY <1>1, <1>7 DEF SameTag, SameBusy, SameFailed
<1>10. \A e \in Fed \ {f} : SameTag(e) /\ SameBusy(e) /\ SameFailed(e) /\ SameInbox(e)
  BY <1>0, <1>1, SilentlySame, OthersSame
<1> QED  BY <1>0, <1>8, <1>9, <1>10, Stutters

LEMMA ListenStutters ==
  ASSUME CoordInv, CoordInv', TypeInv', NEW f \in Fed, FedMoves(f), Listen(f)
  PROVE  UNCHANGED aVars
<1>0. TypeInv /\ FedBase
  BY DEF CoordInv, FedBase
<1>1. CASE handle_tag_advance_grant(f)
  <2>1. /\ Hear(f, "TAG") /\ up'[f] = up[f]
        /\ \/ Quiet(f)
           \/ Resumes(f) /\ fed'[f].queue = fed[f].queue /\ fed'[f].last_TAG = Head(down[f]).tag
    BY <1>0, <1>1, TAGParts
  <2>2. Hears(f, 1) /\ down[f][1].type = "TAG"
    BY <1>0, <2>1, HearsOne DEF Quiet, Alike
  <2>3. Silently(f) /\ Deaf(f)
    BY <1>0, <2>1, <2>2, SilentlySame DEF Deaf
  <2> QED  BY <1>0, <2>1, <2>3, HeardStutters DEF Quiet, Resumes
<1>2. CASE handle_tagged_message(f)
  BY <1>2, MSGStutters
<1>3. CASE HandlePortAbsent(f)
  <2>1. Hear(f, "ABSENT") /\ up'[f] = up[f] /\ Quiet(f)
    BY <1>0, <1>3, AbsentHeardParts
  <2>2. Hears(f, 1) /\ down[f][1].type = "ABSENT"
    BY <1>0, <2>1, HearsOne DEF Quiet, Alike
  <2>3. Silently(f) /\ Deaf(f)
    BY <1>0, <2>1, <2>2, SilentlySame DEF Deaf
  <2> QED  BY <1>0, <2>1, <2>3, HeardStutters DEF Quiet
<1>4. CASE handle_downstream_next_event_tag(f)
  <2> DEFINE skipped == fed[f].last_skipped_NET
  <2>1. /\ Hear(f, "DNET") /\ Alike(fed'[f], fed[f]) /\ fed'[f].pc = fed[f].pc
        /\ up'[f] = up[f] \/ (skipped \in EventTag /\ up'[f] = up[f] \o <<Msg("NET", skipped, NULL)>>)
    BY <1>0, <1>4, DNETParts DEF Quiet
  <2>2. Hears(f, 1) /\ down[f][1].type = "DNET"
    BY <1>0, <2>1, HearsOne DEF Alike
  <2>3. Silently(f)
    <3>1. CASE up'[f] = up[f]
      BY <1>0, <3>1, SilentlySame
    <3>2. CASE skipped \in EventTag /\ up'[f] = up[f] \o <<Msg("NET", skipped, NULL)>>
      <4>1. Msg("NET", skipped, NULL) \in UpMessage(f) /\ Msg("NET", skipped, NULL).type # "MSG"
        BY <3>2, MessageKinds
      <4> QED  BY <1>0, <3>2, <4>1, SilentlyOne
    <3> QED  BY <2>1, <3>1, <3>2
  <2>4. Deaf(f)
    BY <2>2 DEF Deaf
  <2> QED  BY <1>0, <2>1, <2>3, <2>4, HeardStutters
<1>5. CASE StoreDNET(f)
  <2>1. Quiet(f) /\ up'[f] = up[f] /\ down' = down
    BY <1>0, <1>5, StoreParts
  <2>2. Silently(f) /\ Deaf(f)
    BY <1>0, <2>1, SilentlySame, HearsNothing DEF Deaf, Quiet, Alike
  <2> QED  BY <1>0, <2>1, <2>2, HeardStutters DEF Quiet
<1>6. ~handle_provisional_tag_advance_grant(f)
  BY <1>0, NoPTAG
<1> QED  BY <1>1, <1>2, <1>3, <1>4, <1>5, <1>6 DEF Listen

-----------------------------------------------------------------------------
(* The RTI changes nothing of the abstract state                           *)

LEMMA HandlingStutters ==
  ASSUME CoordInv, TypeInv', Idle, NEW f \in Fed, Handling(f)
  PROVE  UNCHANGED aVars
<1>0. TypeInv /\ Silent
  BY DEF CoordInv
<1>1. /\ fed' = fed
      /\ \A g \in Fed \ {f} : up'[g] = up[g]
      /\ 1 \in 1 .. Len(up[f]) /\ Len(up[f]) \in Nat /\ Len(up'[f]) = Len(up[f]) - 1
      /\ \A i \in 1 .. Len(up'[f]) : i + 1 \in 1 .. Len(up[f]) /\ up'[f][i] = up[f][i + 1]
      /\ \A g \in Fed : Posts(f, g)
  BY <1>0, HandlingParts
<1>2. ASSUME NEW e \in Fed, ~fed[e].failed, NEW m
      PROVE  Coming(e, m)' <=> Coming(e, m)
  <2>0. Posts(f, e)
    BY <1>1
  <2>1. ASSUME ComingUp(e, m)' PROVE ComingUp(e, m)
    <3>1. PICK g \in Fed : \E p \in 1 .. Len(up'[g]) :
            up'[g][p].type = "MSG" /\ up'[g][p].conn.to = e /\ m = Event(up'[g][p].tag, up'[g][p].conn)
      BY <2>1 DEF ComingUp
    <3>2. PICK p \in 1 .. Len(up'[g]) :
            up'[g][p].type = "MSG" /\ up'[g][p].conn.to = e /\ m = Event(up'[g][p].tag, up'[g][p].conn)
      BY <3>1
    <3>3. CASE g = f
      <4>1. p + 1 \in 1 .. Len(up[f]) /\ up'[f][p] = up[f][p + 1]
        BY <1>1, <3>3
      <4> QED  BY <3>2, <3>3, <4>1 DEF ComingUp
    <3>4. CASE g # f
      <4>1. up'[g] = up[g]
        BY <1>1, <3>4
      <4> QED  BY <3>2, <4>1 DEF ComingUp
    <3> QED  BY <3>3, <3>4
  <2>2. ASSUME ComingDown(e, m)' PROVE ComingDown(e, m) \/ ComingUp(e, m)
    <3>1. PICK p \in 1 .. Len(down'[e]) :
            down'[e][p].type = "MSG" /\ m = Event(down'[e][p].tag, down'[e][p].conn)
      BY <2>2 DEF ComingDown
    <3>2. CASE p \in 1 .. Len(down[e])
      <4>1. down'[e][p] = down[e][p]
        BY <2>0, <3>2 DEF Posts
      <4> QED  BY <3>1, <3>2, <4>1 DEF ComingDown
    <3>3. CASE p \in Len(down[e]) + 1 .. Len(down'[e])
      <4>1. Forwarding(f, e) /\ down'[e][p] = up[f][1]
        BY <2>0, <3>1, <3>3 DEF Posts, Granting
      <4>2. up[f][1].type = "MSG" /\ up[f][1].conn.to = e /\ m = Event(up[f][1].tag, up[f][1].conn)
        BY <3>1, <4>1 DEF Forwarding
      <4> QED  BY <1>1, <4>2 DEF ComingUp
    <3>4. p \in 1 .. Len(down[e]) \/ p \in Len(down[e]) + 1 .. Len(down'[e])
      BY <2>0 DEF Posts
    <3> QED  BY <3>2, <3>3, <3>4
  <2>3. ASSUME ComingDown(e, m) PROVE ComingDown(e, m)'
    <3>1. PICK p \in 1 .. Len(down[e]) : down[e][p].type = "MSG" /\ m = Event(down[e][p].tag, down[e][p].conn)
      BY <2>3 DEF ComingDown
    <3>2. p \in 1 .. Len(down'[e]) /\ down'[e][p] = down[e][p]
      BY <2>0 DEF Posts
    <3> QED  BY <3>1, <3>2 DEF ComingDown
  <2>4. ASSUME ComingUp(e, m) PROVE ComingUp(e, m)' \/ ComingDown(e, m)'
    <3>1. PICK g \in Fed : \E p \in 1 .. Len(up[g]) :
            up[g][p].type = "MSG" /\ up[g][p].conn.to = e /\ m = Event(up[g][p].tag, up[g][p].conn)
      BY <2>4 DEF ComingUp
    <3>2. PICK p \in 1 .. Len(up[g]) :
            up[g][p].type = "MSG" /\ up[g][p].conn.to = e /\ m = Event(up[g][p].tag, up[g][p].conn)
      BY <3>1
    <3>3. CASE g # f
      <4>1. up'[g] = up[g]
        BY <1>1, <3>3
      <4> QED  BY <3>2, <4>1 DEF ComingUp
    <3>4. CASE g = f /\ p # 1
      <4>1. p - 1 \in 1 .. Len(up'[f]) /\ (p - 1) + 1 = p
        BY <1>1, <3>4
      <4>2. up'[f][p - 1] = up[f][p]
        BY <1>1, <4>1
      <4> QED  BY <3>2, <3>4, <4>1, <4>2 DEF ComingUp
    <3>5. CASE g = f /\ p = 1
      <4>1. Connected(e)
        <5>1. CASE Connected(e)
          BY <5>1
        <5>2. CASE ~Connected(e)
          <6>1. fed[e].pc = "done"
            BY <1>0, <1>2, <5>2 DEF Silent, Gone
          <6> QED  BY <2>4, <6>1, TagBeforeComing
        <5> QED  BY <5>1, <5>2
      <4>2. Forwarding(f, e)
        BY <3>2, <3>5, <4>1 DEF Forwarding
      <4>3. Len(down[e]) + 1 \in 1 .. Len(down'[e]) /\ down'[e][Len(down[e]) + 1] = up[f][1]
        BY <2>0, <4>2 DEF Posts
      <4> QED  BY <3>2, <3>5, <4>3 DEF ComingDown
    <3> QED  BY <3>3, <3>4, <3>5
  <2> QED  BY <1>1, <2>1, <2>2, <2>3, <2>4 DEF Coming
<1>3. \A e \in Fed : SameTag(e) /\ SameBusy(e) /\ SameFailed(e) /\ SameInbox(e)
  BY <1>1, <1>2 DEF SameTag, SameBusy, SameFailed, SameInbox
<1> QED  BY <1>0, <1>3, Stutters

LEMMA TidyingStutters ==
  ASSUME TypeInv, Tidies
  PROVE  UNCHANGED aVars
<1>1. up' = up /\ down' = down /\ fed' = fed
  BY TidyingParts
<1> QED  BY <1>1 DEF aVars, aTag, aBusy, aFailed, aInbox, InFlight

-----------------------------------------------------------------------------
(* The refinement of TagOrder                                              *)

LEMMA InitIdle == Init => Idle
<1> SUFFICES ASSUME Init, NEW f \in Fed, fed[f].pc = "done" PROVE Upstreams(f) = {}
  BY DEF Idle
<1>1. ~Takes(program, f)
  BY DEF Init, InitialFed
<1>2. \A c \in program.conn : c.to # f
  BY <1>1 DEF Takes
<1> QED  BY <1>2 DEF Upstreams, ConnTo

\* Only a federate that has started ends.
LEMMA NextIdle == CoordInv /\ Idle /\ [Next]_vars => Idle'
<1> SUFFICES ASSUME CoordInv, Idle, [Next]_vars PROVE Idle'
  OBVIOUS
<1>0. TypeInv /\ AllOrderly
  BY DEF CoordInv
<1>1. CASE UNCHANGED vars
  BY <1>1 DEF vars, Idle, Upstreams, ConnTo
<1>2. ASSUME NEW f \in Fed, ServeFederate(f) PROVE Idle'
  <2>1. fed' = fed /\ UNCHANGED network
    BY <1>2, ServeParts
  <2> QED  BY <2>1, SameProgram DEF Idle
<1>3. ASSUME NEW f \in Fed, Work(f) \/ Listen(f) \/ Fail(f) PROVE Idle'
  <2>1. UNCHANGED network /\ \A g \in Fed \ {f} : fed'[g] = fed[g]
    BY <1>0, <1>3, FederateParts DEF Others
  <2> SUFFICES ASSUME fed'[f].pc = "done", ~fed'[f].started
               PROVE  fed[f].pc = "done" /\ ~fed[f].started
    BY <2>1, SameProgram DEF Idle
  <2>2. ~Start(f)
    BY <1>0, StartParts DEF Asked
  <2>3. ~Wake(f)
    BY <1>0, WakeParts DEF WakeAgain, WakeUp, WakeAsking, SleepOn, Asked
  <2>4. ~AdvanceTag(f)
    BY <1>0, AdvanceParts DEF Advanced
  <2>5. ~Complete(f)
    BY <1>0, CompleteParts DEF Asked
  <2>6. ~Leave(f)
    BY <1>0, LeaveParts DEF Alike, AllOrderly, Orderly
  <2>7. \A c : ~ExecuteInput(f, c) /\ ~SendMessage(f, c) /\ ~SendAbsent(f, c)
    BY <1>0, InputParts, SendParts, AbsentParts DEF DealsWith
  <2>8. Listen(f) \/ Fail(f)
    BY <1>3, <2>2, <2>3, <2>4, <2>5, <2>6, <2>7 DEF Work
  <2>9. CASE Fail(f)
    BY <1>0, <2>9, FailParts
  <2>10. CASE Listen(f)
    BY <1>0, <2>10, TAGParts, PTAGParts, MSGParts, AbsentHeardParts, DNETParts, StoreParts, ZenonT(60)
       DEF Listen, Quiet, Resumes, Alike
  <2> QED  BY <2>8, <2>9, <2>10
<1> QED  BY <1>1, <1>2, <1>3 DEF Next

LEMMA OrderBegins == Init => Order!Init
<1> SUFFICES ASSUME Init PROVE Order!Init
  OBVIOUS
<1>1. \A f \in Fed : /\ ~fed[f].started /\ ~fed[f].failed /\ fed[f].pc # "exec"
                     /\ \A e \in fed[f].queue : e.conn = NULL
                     /\ up[f] = << >> /\ down[f] = << >>
  BY DEF Init, InitialFed, Event
<1>2. aTag = [f \in Fed |-> NEVER_TAG]
  BY <1>1 DEF aTag
<1>3. aBusy = [f \in Fed |-> FALSE]
  <2>1. \A f \in Fed : (fed[f].pc = "exec") = FALSE
    BY <1>1
  <2> QED  BY <2>1 DEF aBusy
<1>4. aInbox = [f \in Fed |-> {}]
  <2>1. ASSUME NEW f \in Fed PROVE aInbox[f] = {}
    <3>1. InFlight(f) = {}
      <4>1. Range(<< >>) = {}
        BY DEF Range
      <4> QED  BY <1>1, <4>1 DEF InFlight
    <3>2. {e \in fed[f].queue : e.conn # NULL} = {}
      BY <1>1
    <3> QED  BY <1>1, <3>1, <3>2 DEF aInbox
  <2> QED  BY <2>1, InboxFunction
<1>5. aFailed = {}
  BY <1>1 DEF aFailed
<1> QED  BY <1>2, <1>3, <1>4, <1>5, ZenonT(60) DEF Order!Init, aTag, aBusy, aInbox, aFailed

LEMMA OrderGoesOn ==
  CoordInv /\ CoordInv' /\ Idle /\ StartAnnounced' /\ [Next]_vars => [Order!Next]_aVars
<1> SUFFICES ASSUME CoordInv, CoordInv', Idle, StartAnnounced', [Next]_vars
             PROVE  Order!Next \/ UNCHANGED aVars
  OBVIOUS
<1>0. TypeInv /\ TypeInv' /\ FedBase
  BY DEF CoordInv, FedBase
<1>1. CASE UNCHANGED vars
  BY <1>0, <1>1, TidyingStutters DEF Tidies
<1>2. ASSUME NEW f \in Fed, ServeFederate(f) PROVE UNCHANGED aVars
  BY <1>0, <1>2, ServeHandling, HandlingStutters, TidyingStutters
<1>3. ASSUME NEW f \in Fed, Work(f) \/ Listen(f) \/ Fail(f) PROVE Order!Next \/ UNCHANGED aVars
  <2>1. FedMoves(f)
    BY <1>0, <1>3, FederateMoves
  <2>2. CASE Start(f) \/ Wake(f) \/ Leave(f)
    BY <1>0, <2>1, <2>2, StartStutters, WakeStutters, LeaveStutters
  <2>3. CASE AdvanceTag(f) \/ Complete(f) \/ Fail(f)
    BY <1>0, <2>1, <2>3, AdvanceInOrder, CompleteInOrder, FailInOrder
  <2>4. CASE Listen(f)
    BY <1>0, <2>1, <2>4, ListenStutters
  <2>5. ASSUME NEW c \in program.conn, ExecuteInput(f, c) \/ SendMessage(f, c) \/ SendAbsent(f, c)
        PROVE  Order!Next \/ UNCHANGED aVars
    BY <1>0, <2>1, <2>5, InputStutters, SendInOrder, AbsentStutters
  <2> QED  BY <1>3, <2>2, <2>3, <2>4, <2>5 DEF Work
<1> QED  BY <1>1, <1>2, <1>3 DEF Next

\* The federation does what coordination promises: each federate executes its
\* tags in increasing order, finishes one only when it has consumed every
\* message for it, and is never sent one for a tag that it has finished.
THEOREM OrderIsKept == Spec /\ Plain(program) /\ []StartAnnounced => InTagOrder
<1>1. Spec /\ Plain(program) /\ []StartAnnounced => []CoordInv
  BY AlwaysCoordinated
<1>2. Spec /\ Plain(program) /\ []StartAnnounced => []Idle
  BY <1>1, InitIdle, NextIdle, PTL DEF Spec
<1>3. Spec /\ Plain(program) /\ []StartAnnounced => Order!Init /\ [][Order!Next]_aVars
  BY <1>1, <1>2, OrderBegins, OrderGoesOn, PTL DEF Spec
<1>4. Order!Init /\ [][Order!Next]_aVars => InTagOrder
  BY PTL DEF InTagOrder, Order!Spec, aVars, aTag, aBusy, aFailed, aInbox
<1> QED  BY <1>3, <1>4

\* The same from what the program is alone.
THEOREM OrderIsKeptAfterStart == Spec /\ Plain(program) /\ NothingToStart => InTagOrder
BY OrderIsKept, NothingStartsEarly

-----------------------------------------------------------------------------
(* What the RTI takes for the next event of a federate                     *)

\* A federate that waits at the start has announced nothing later.
StartFirst ==
  \A f \in Fed : Upstreams(f) # {} /\ ~fed[f].started => fed[f].last_sent_NET \in {NEVER_TAG, ZERO_TAG}

\* The times at which f is or will be whatever it is sent: the start, the time
\* that it executes and the timeout.
Visits(f, x) ==
  /\ ~fed[f].failed
  /\ \/ fed[f].pc \notin {"stopping", "done"} /\ x = StopTime
     \/ ~fed[f].started /\ x = 0
     \/ fed[f].pc = "exec" /\ fed[f].current[1] = x

\* A message m from f is not beyond the time x, nor the last one.
Accords(f, m, x) ==
  /\ m.type \notin {"RESIGN", "FAILED", "EOF"}
  /\ m.type = "NET" => Reveals(f, m.tag, x)
  /\ m.type = "LTC" => m.tag[1] < x

\* The RTI does not take f to be beyond a time that f visits, and will not from
\* what it is told, for the times X.
VisitAhead(f, x) ==
  /\ KnownBefore(f, x) /\ Reveals(f, fed[f].last_skipped_NET, x)
  /\ \A q \in 1 .. Len(up[f]) : Accords(f, up[f][q], x)
VisitsAhead(X) == \A f \in Fed : \A x \in X : Visits(f, x) => VisitAhead(f, x)

\* A step of f comes to no new time, but one at which f was to react, and says
\* nothing that is beyond it.
Adds(f, x) == \A i \in Len(up[f]) + 1 .. Len(up'[f]) : Accords(f, up'[f][i], x)
Visiting(f, X) ==
  \A x \in X : Visits(f, x)' =>
    /\ Visits(f, x) \/ Triggered(f, x)
    /\ Reveals(f, fed'[f].last_skipped_NET, x)
    /\ Adds(f, x)

LEMMA AddsNothing ==
  ASSUME TypeInv, NEW f \in Fed, up'[f] = up[f], NEW x
  PROVE  Adds(f, x)
<1>1. Len(up[f]) \in Nat /\ Len(up'[f]) = Len(up[f])
  BY DEF TypeInv
<1>2. \A n \in Nat : n + 1 .. n = {}
  OBVIOUS
<1> QED  BY <1>1, <1>2 DEF Adds

LEMMA AddsList ==
  ASSUME TypeInv, NEW f \in Fed, NEW ms \in Seq(UpMessage(f)), up'[f] = up[f] \o ms, NEW x,
         \A j \in 1 .. Len(ms) : Accords(f, ms[j], x)
  PROVE  Adds(f, x)
<1>1. up[f] \in Seq(UpMessage(f))
  BY DEF TypeInv
<1>2. Len(up'[f]) = Len(up[f]) + Len(ms) /\ Len(up[f]) \in Nat /\ Len(ms) \in Nat
  BY <1>1, ConcatProperties, LenProperties
<1>3. ASSUME NEW i \in Len(up[f]) + 1 .. Len(up'[f]) PROVE Accords(f, up'[f][i], x)
  <2>1. PICK j \in 1 .. Len(ms) : i = j + Len(up[f])
    <3>1. i - Len(up[f]) \in 1 .. Len(ms) /\ i = (i - Len(up[f])) + Len(up[f])
      BY <1>2
    <3> QED  BY <3>1
  <2>2. up'[f][i] = ms[j]
    BY <1>1, <1>2, <2>1, ConcatProperties
  <2> QED  BY <2>2
<1> QED  BY <1>3 DEF Adds

LEMMA AddsOne ==
  ASSUME TypeInv, NEW f \in Fed, NEW m \in UpMessage(f), up'[f] = up[f] \o <<m>>, NEW x, Accords(f, m, x)
  PROVE  Adds(f, x)
<1> DEFINE ms == <<m>>
<1>1. ms \in Seq(UpMessage(f)) /\ Len(ms) = 1 /\ ms[1] = m
  OBVIOUS
<1>2. up'[f] = up[f] \o ms
  OBVIOUS
<1> HIDE DEF ms
<1>3. \A j \in 1 .. 1 : j = 1
  OBVIOUS
<1>4. \A j \in 1 .. Len(ms) : Accords(f, ms[j], x)
  BY <1>1, <1>3
<1> QED  BY <1>1, <1>2, <1>4, AddsList

LEMMA AddsTwo ==
  ASSUME TypeInv, NEW f \in Fed, NEW a \in UpMessage(f), NEW b \in UpMessage(f),
         up'[f] = up[f] \o (<<a>> \o <<b>>), NEW x, Accords(f, a, x), Accords(f, b, x)
  PROVE  Adds(f, x)
<1> DEFINE ms == <<a>> \o <<b>>
<1>1. ms \in Seq(UpMessage(f)) /\ Len(ms) = 2 /\ ms[1] = a /\ ms[2] = b
  <2>1. <<a>> \in Seq(UpMessage(f)) /\ <<b>> \in Seq(UpMessage(f))
    OBVIOUS
  <2>2. Len(<<a>>) = 1 /\ <<a>>[1] = a /\ Len(<<b>>) = 1 /\ <<b>>[1] = b
    OBVIOUS
  <2> QED  BY <2>1, <2>2, ConcatProperties
<1>2. up'[f] = up[f] \o ms
  OBVIOUS
<1> HIDE DEF ms
<1>3. \A j \in 1 .. 2 : j = 1 \/ j = 2
  OBVIOUS
<1>4. \A j \in 1 .. Len(ms) : Accords(f, ms[j], x)
  BY <1>1, <1>3
<1> QED  BY <1>1, <1>2, <1>4, AddsList

\* f goes on as before.
LEMMA SameVisits ==
  ASSUME NEW f, fed'[f].failed = fed[f].failed, fed'[f].started = fed[f].started,
         fed'[f].current = fed[f].current,
         fed'[f].pc = "exec" => fed[f].pc = "exec",
         fed[f].pc \in {"stopping", "done"} => fed'[f].pc \in {"stopping", "done"},
         NEW x, Visits(f, x)'
  PROVE  Visits(f, x)
BY DEF Visits

\* f says nothing.
LEMMA MuteVisits ==
  ASSUME NEW X, X \subseteq Time,
         TypeInv, VisitsAhead(X), NEW f \in Fed, up'[f] = up[f],
         fed'[f].last_skipped_NET = fed[f].last_skipped_NET,
         \A x \in Time : Visits(f, x)' => Visits(f, x)
  PROVE  Visiting(f, X)
<1> SUFFICES ASSUME NEW x \in X, Visits(f, x)'
             PROVE  Visits(f, x) /\ Reveals(f, fed'[f].last_skipped_NET, x) /\ Adds(f, x)
  BY DEF Visiting
<1>1. Visits(f, x)
  OBVIOUS
<1>2. Reveals(f, fed[f].last_skipped_NET, x)
  BY <1>1 DEF VisitsAhead, VisitAhead
<1> QED  BY <1>1, <1>2, AddsNothing

\* f announces the tag t after the messages ms.
LEMMA AskedVisits ==
  ASSUME NEW X, X \subseteq Time,
         TypeInv, NEW f \in Fed, fed[f].pc \notin {"stopping", "done"}, NEW t \in WholeTag, NEW ms,
         Asked(f, fed[f], t, ms),
         \A x \in Time : Visits(f, x)' => Reveals(f, t, x),
         ms = << >> \/ \E m \in UpMessage(f) :
           ms = <<m>> /\ \A x \in Time : Visits(f, x)' => Accords(f, m, x)
  PROVE  Visiting(f, X)
<1> SUFFICES ASSUME NEW x \in X, Visits(f, x)'
             PROVE  Visits(f, x) /\ Reveals(f, fed'[f].last_skipped_NET, x) /\ Adds(f, x)
  BY DEF Visiting
<1>1. Alike(fed'[f], fed[f]) /\ fed'[f].pc \in {"advance", "wait"}
  BY DEF Asked
<1>2. Visits(f, x)
  BY <1>1, SameVisits DEF Alike
<1>3. Reveals(f, fed'[f].last_skipped_NET, x)
  BY NeverReveals DEF Asked
<1> DEFINE net == Msg("NET", t, NULL)
<1>4. net \in UpMessage(f) /\ Accords(f, net, x)
  <2>1. t \in EventTag
    BY WholeTags
  <2>2. net \in UpMessage(f) /\ net.type = "NET" /\ net.tag = t
    BY <2>1, MessageKinds
  <2> QED  BY <2>2 DEF Accords
<1> HIDE DEF net
<1>5. up'[f] = up[f] \o (ms \o <<net>>) \/ up'[f] = up[f] \o ms
  BY DEF Asked, net
<1>6. CASE ms = << >>
  <2>1. up'[f] = up[f] \o <<net>> \/ up'[f] = up[f]
    <3>1. << >> \o <<net>> = <<net>> /\ up[f] \o << >> = up[f]
      BY NothingAdded DEF TypeInv
    <3> QED  BY <1>5, <1>6, <3>1
  <2> QED  BY <1>2, <1>3, <1>4, <2>1, AddsNothing, AddsOne
<1>7. ASSUME NEW m \in UpMessage(f), ms = <<m>>, Accords(f, m, x) PROVE Adds(f, x)
  BY <1>4, <1>5, <1>7, AddsOne, AddsTwo
<1> QED  BY <1>2, <1>3, <1>6, <1>7

LEMMA BeforeStop ==
  ASSUME TypeInv, FederatesSane, NEW f \in Fed
  PROVE  NextEvent(fed[f])[1] <= StopTime
<1>1. NextEvent(fed[f]) \in WholeTag /\ Leq(NextEvent(fed[f]), STOP_TAG) /\ STOP_TAG \in WholeTag
  BY WholeNextEvent, NextEventTag, WholeTags DEF TypeInv
<1>2. NextEvent(fed[f])[1] <= STOP_TAG[1]
  BY <1>1, WholeOrder
<1> QED  BY <1>2 DEF STOP_TAG

\* What f waits for or goes to after a tag is not beyond the timeout.
LEMMA WaitingVisits ==
  ASSUME TypeInv, FederatesSane, NEW f \in Fed, fed'[f].started, fed'[f].pc # "exec",
         NEW x \in Time, Visits(f, x)'
  PROVE  x = StopTime /\ Reveals(f, NextEvent(fed[f]), x)
BY BeforeStop DEF Visits, Reveals

LEMMA StartVisits ==
  ASSUME NEW X, X \subseteq Time,
         FedBase, NEW f \in Fed, Start(f)
  PROVE  Visiting(f, X)
<1>1. fed[f].pc = "start" /\ Asked(f, fed[f], fed[f].current, <<>>) /\ fed[f].current = ZERO_TAG
  BY BaseParts, StartParts DEF AllOrderly, Orderly
<1>2. \A x \in Time : Reveals(f, ZERO_TAG, x)
  BY DEF Reveals, ZERO_TAG, Time
<1> QED  BY <1>1, <1>2, BaseParts, AskedVisits, WholeTags

\* The next event is not beyond a time that f visits as it waits for a grant:
\* at the start it is announced only if it is the start.
LEMMA WakeVisits ==
  ASSUME NEW X, X \subseteq Time,
         FedBase, VisitsAhead(X), 0 \notin X \/ StartFirst',
         NEW f \in Fed, Wake(f)
  PROVE  Visiting(f, X)
<1> DEFINE next == NextEvent(fed[f])
<1>1. /\ fed[f].pc = "wait"
      /\ WakeAgain(f, next) \/ WakeUp(f) \/ WakeAsking(f, next) \/ SleepOn(f)
  BY BaseParts, WakeParts
<1>2. next \in WholeTag
  BY BaseParts, WholeNextEvent
<1>3. UNCHANGED network
  BY WorkingUnchanged DEF Wake
<1> HIDE DEF next
<1>4. CASE WakeAgain(f, next)
  <2>1. fed[f].started /\ Asked(f, fed[f], next, <<>>)
    BY <1>4 DEF WakeAgain
  <2>2. fed'[f].started /\ fed'[f].pc # "exec"
    BY <2>1 DEF Asked, Alike
  <2>3. \A x \in Time : Visits(f, x)' => Reveals(f, next, x)
    BY <2>2, BaseParts, WaitingVisits DEF next
  <2> QED  BY <1>1, <1>2, <2>1, <2>3, BaseParts, AskedVisits
<1>5. CASE WakeUp(f) \/ SleepOn(f)
  <2>1. Alike(fed'[f], fed[f]) /\ fed'[f].pc \in {"advance", "wait"} /\ SamePlans(fed'[f], fed[f]) /\ up'[f] = up[f]
    BY <1>5 DEF WakeUp, SleepOn
  <2>2. \A x \in Time : Visits(f, x)' => Visits(f, x)
    BY <1>1, <2>1, SameVisits DEF Alike
  <2> QED  BY <2>1, <2>2, BaseParts, MuteVisits DEF SamePlans
<1>6. CASE WakeAsking(f, next)
  <2>1. /\ Alike(fed'[f], fed[f]) /\ fed'[f].pc = "wait" /\ fed'[f].last_skipped_NET = NEVER_TAG
        /\ fed'[f].last_sent_NET = next /\ up'[f] = up[f] \o <<Msg("NET", next, NULL)>>
    BY <1>6 DEF WakeAsking
  <2>2. Upstreams(f)' # {}
    BY <1>1, <1>3, BaseParts, SameProgram DEF AllOrderly, Orderly
  <2> SUFFICES ASSUME NEW x \in X, Visits(f, x)'
               PROVE  Visits(f, x) /\ Reveals(f, fed'[f].last_skipped_NET, x) /\ Adds(f, x)
    BY DEF Visiting
  <2>3. Visits(f, x)
    BY <1>1, <2>1, SameVisits DEF Alike
  <2>4. Reveals(f, next, x)
    <3>1. CASE fed'[f].started
      BY <2>1, <3>1, BaseParts, WaitingVisits DEF next
    <3>2. CASE ~fed'[f].started /\ x = 0
      <4>1. next \in {NEVER_TAG, ZERO_TAG}
        BY <2>1, <2>2, <3>2 DEF StartFirst
      <4> QED  BY <3>2, <4>1, NeverReveals DEF Reveals, ZERO_TAG, Time
    <3>3. CASE ~fed'[f].started /\ x # 0
      <4>1. x = StopTime
        BY <2>1, <3>3 DEF Visits
      <4> QED  BY <4>1, BaseParts, BeforeStop DEF next, Reveals
    <3> QED  BY <3>1, <3>2, <3>3
  <2> DEFINE net == Msg("NET", next, NULL)
  <2>5. net \in UpMessage(f) /\ Accords(f, net, x)
    <3>1. next \in EventTag
      BY <1>2, WholeTags
    <3>2. net \in UpMessage(f) /\ net.type = "NET" /\ net.tag = next
      BY <3>1, MessageKinds
    <3> QED  BY <2>4, <3>2 DEF Accords
  <2> HIDE DEF net
  <2>6. Adds(f, x)
    BY <2>1, <2>5, BaseParts, AddsOne DEF net
  <2>7. Reveals(f, fed'[f].last_skipped_NET, x)
    BY <2>1, NeverReveals
  <2> QED  BY <2>3, <2>6, <2>7
<1> QED  BY <1>1, <1>4, <1>5, <1>6

\* f goes to the start, to the timeout or to an event at which it was to react.
LEMMA AdvanceVisits ==
  ASSUME NEW X, X \subseteq Time,
         FedBase, VisitsAhead(X), NEW f \in Fed, AdvanceTag(f)
  PROVE  Visiting(f, X)
<1>1. fed[f].pc = "advance" /\ ~fed[f].failed /\ up'[f] = up[f] /\ Advanced(f)
  BY BaseParts, AdvanceParts
<1>2. fed'[f].pc = "exec" /\ fed'[f].started /\ fed'[f].current = NextTag(f) /\ SamePlans(fed'[f], fed[f])
      /\ fed'[f].failed = fed[f].failed
  BY <1>1 DEF Advanced
<1> SUFFICES ASSUME NEW x \in X, Visits(f, x)'
             PROVE  /\ Visits(f, x) \/ Triggered(f, x)
                    /\ Reveals(f, fed'[f].last_skipped_NET, x)
                    /\ Adds(f, x)
  BY DEF Visiting
<1>3. Visits(f, x) \/ Triggered(f, x)
  <2>1. CASE x = StopTime
    BY <1>1, <2>1 DEF Visits
  <2>2. CASE NextTag(f)[1] = x
    <3>1. CASE ~fed[f].started
      <4>1. fed[f].current = ZERO_TAG /\ NextTag(f) = ZERO_TAG
        BY <3>1, BaseParts DEF AllOrderly, Orderly, NextTag
      <4> QED  BY <1>1, <2>2, <3>1, <4>1 DEF Visits, ZERO_TAG
    <3>2. CASE fed[f].started /\ NextTag(f) = STOP_TAG
      BY <1>1, <2>2, <3>2 DEF Visits, STOP_TAG
    <3>3. CASE fed[f].started /\ NextTag(f) # STOP_TAG
      <4>1. NextTag(f) = NextEvent(fed[f])
        BY <3>3 DEF NextTag
      <4>2. Queued(f, x)
        BY <2>2, <3>3, <4>1, BaseParts, WholeNextEvent DEF Queued
      <4> QED  BY <1>1, <4>2 DEF Triggered, Dead
    <3> QED  BY <3>1, <3>2, <3>3
  <2> QED  BY <1>2, <2>1, <2>2 DEF Visits
<1>4. Reveals(f, fed[f].last_skipped_NET, x)
  BY <1>3, BaseParts DEF VisitsAhead, VisitAhead, FederatesSane, Sane
<1>5. Adds(f, x)
  BY <1>1, BaseParts, AddsNothing
<1> QED  BY <1>2, <1>3, <1>4, <1>5 DEF SamePlans

\* A step that deals with a connection sends at most a message on it.
LEMMA DealtVisits ==
  ASSUME NEW X, X \subseteq Time,
         TypeInv, VisitsAhead(X), NEW f \in Fed, NEW c, NEW level, DealsWith(f, c, level), fed[f].pc = "exec",
         up'[f] = up[f] \/ \E m \in UpMessage(f) : up'[f] = up[f] \o <<m>> /\ m.type \in {"MSG", "ABSENT"}
  PROVE  Visiting(f, X)
<1> SUFFICES ASSUME NEW x \in X, Visits(f, x)'
             PROVE  Visits(f, x) /\ Reveals(f, fed'[f].last_skipped_NET, x) /\ Adds(f, x)
  BY DEF Visiting
<1>1. Visits(f, x)
  BY SameVisits DEF DealsWith
<1>2. Reveals(f, fed'[f].last_skipped_NET, x)
  BY <1>1 DEF VisitsAhead, VisitAhead, DealsWith, SamePlans
<1>3. \A m : m.type \in {"MSG", "ABSENT"} => Accords(f, m, x)
  BY DEF Accords
<1>4. Adds(f, x)
  <2>1. CASE up'[f] = up[f]
    BY <2>1, AddsNothing
  <2>2. ASSUME NEW m \in UpMessage(f), up'[f] = up[f] \o <<m>>, m.type \in {"MSG", "ABSENT"} PROVE Adds(f, x)
    <3>1. Accords(f, m, x)
      BY <1>3, <2>2
    <3> QED  BY <2>2, <3>1, AddsOne
  <2> QED  BY <2>1, <2>2
<1> QED  BY <1>1, <1>2, <1>4

LEMMA ReactionVisits ==
  ASSUME NEW X, X \subseteq Time,
         FedBase, VisitsAhead(X), NEW f \in Fed, NEW c,
         ExecuteInput(f, c) \/ SendMessage(f, c) \/ SendAbsent(f, c)
  PROVE  Visiting(f, X)
<1>1. CASE ExecuteInput(f, c)
  BY <1>1, BaseParts, InputParts, DealtVisits
<1>2. CASE SendMessage(f, c)
  <2> DEFINE m == Msg("MSG", lf_delay_tag(fed[f].current, c.delay), c)
  <2>1. /\ fed[f].pc = "exec" /\ DealsWith(f, c, c.out) /\ c \in ConnFrom(f)
        /\ lf_delay_tag(fed[f].current, c.delay) \in EventTag /\ SentOn(f, c)
    BY <1>2, BaseParts, SendParts
  <2>2. m \in UpMessage(f) /\ m.type = "MSG"
    BY <2>1, MessageKinds
  <2>3. up'[f] = up[f] \/ up'[f] = up[f] \o <<m>>
    BY <2>1 DEF SentOn
  <2> HIDE DEF m
  <2> QED  BY <2>1, <2>2, <2>3, BaseParts, DealtVisits
<1>3. CASE SendAbsent(f, c)
  <2> DEFINE m == Msg("ABSENT", fed[f].current, c)
  <2>1. /\ fed[f].pc = "exec" /\ DealsWith(f, c, c.out) /\ c \in ConnFrom(f)
        /\ up'[f] = up[f] \/ up'[f] = up[f] \o <<m>>
    BY <1>3, BaseParts, AbsentParts
  <2>2. fed[f].current \in EventTag
    BY BaseParts, FedParts DEF TypeInv
  <2>3. m \in UpMessage(f) /\ m.type = "ABSENT"
    <3>1. \A t \in EventTag : Msg("ABSENT", t, c) \in UpMessage(f) /\ Msg("ABSENT", t, c).type = "ABSENT"
      BY <2>1 DEF Msg, UpMessage
    <3> QED  BY <2>2, <3>1
  <2> HIDE DEF m
  <2> QED  BY <2>1, <2>3, BaseParts, DealtVisits
<1> QED  BY <1>1, <1>2, <1>3

\* A tag is confirmed that is before the timeout, or f is about to end.
LEMMA CompleteVisits ==
  ASSUME NEW X, X \subseteq Time,
         FedBase, NEW f \in Fed, Complete(f)
  PROVE  Visiting(f, X)
<1>1. fed[f].pc = "exec" /\ fed[f].started /\ fed[f].current \in WholeTag
  BY BaseParts, CompleteParts, ExecutingParts
<1>2. PICK ms \in Seq(UpMessage(f)) :
        /\ IsLTC(f, ms)
        /\ \/ fed'[f].pc = "stopping" /\ Alike(fed'[f], fed[f])
           \/ ~Leq(STOP_TAG, fed[f].current) /\ Asked(f, fed[f], NextEvent(fed[f]), ms)
  BY BaseParts, CompleteParts
<1>3. CASE fed'[f].pc = "stopping" /\ Alike(fed'[f], fed[f])
  <2>1. \A x \in Time : ~Visits(f, x)'
    BY <1>1, <1>3 DEF Visits, Alike
  <2> QED  BY <2>1 DEF Visiting
<1>4. CASE ~Leq(STOP_TAG, fed[f].current) /\ Asked(f, fed[f], NextEvent(fed[f]), ms)
  <2> DEFINE lt == Msg("LTC", fed[f].current, NULL)
  <2>1. fed'[f].started /\ fed'[f].pc # "exec"
    BY <1>1, <1>4 DEF Asked, Alike
  <2>2. \A x \in Time : Visits(f, x)' => x = StopTime /\ Reveals(f, NextEvent(fed[f]), x)
    BY <2>1, BaseParts, WaitingVisits
  <2>3. fed[f].current[1] < StopTime
    <3>1. ~(STOP_TAG[1] <= fed[f].current[1]) /\ fed[f].current[1] \in Int
      BY <1>1, <1>4, WholeTags, WholeOrder
    <3> QED  BY <3>1, StopRange DEF STOP_TAG
  <2>4. lt \in UpMessage(f) /\ lt.type = "LTC" /\ lt.tag = fed[f].current
    <3>1. fed[f].current \in EventTag
      BY <1>1, WholeTags
    <3> QED  BY <3>1, MessageKinds
  <2>5. ms = << >> \/ ms = <<lt>>
    BY <1>2 DEF IsLTC
  <2> HIDE DEF lt
  <2>6. \A x \in Time : Visits(f, x)' => Accords(f, lt, x)
    BY <2>2, <2>3, <2>4 DEF Accords
  <2>7. NextEvent(fed[f]) \in WholeTag
    BY BaseParts, WholeNextEvent
  <2> QED  BY <1>1, <1>4, <2>2, <2>4, <2>5, <2>6, <2>7, BaseParts, AskedVisits
<1> QED  BY <1>2, <1>3, <1>4

\* Who ends visits nothing any more.
LEMMA EndVisits ==
  ASSUME NEW X, X \subseteq Time,
         FedBase, NEW f \in Fed, Leave(f) \/ Fail(f)
  PROVE  Visiting(f, X)
<1>1. \A x \in Time : ~Visits(f, x)'
  <2>1. CASE Leave(f)
    <3>1. fed[f].pc = "stopping" /\ fed'[f].started = fed[f].started /\ fed'[f].pc = "done"
      BY <2>1, BaseParts, LeaveParts DEF Alike
    <3>2. fed[f].started
      BY <3>1, BaseParts DEF AllOrderly, Orderly
    <3> QED  BY <3>1, <3>2 DEF Visits
  <2>2. CASE Fail(f)
    BY <2>2, BaseParts, FailParts DEF Visits
  <2> QED  BY <2>1, <2>2
<1> QED  BY <1>1 DEF Visiting

\* What f hears does not move it.
LEMMA ListenVisits ==
  ASSUME NEW X, X \subseteq Time,
         FedBase, VisitsAhead(X), NEW f \in Fed, Listen(f)
  PROVE  Visiting(f, X)
<1>1. ASSUME Quiet(f), up'[f] = up[f] PROVE Visiting(f, X)
  <2>1. \A x \in Time : Visits(f, x)' => Visits(f, x)
    BY <1>1, SameVisits DEF Quiet, Alike
  <2> QED  BY <1>1, <2>1, BaseParts, MuteVisits DEF Quiet, SamePlans
<1>2. CASE handle_tag_advance_grant(f)
  <2>1. up'[f] = up[f] /\ (Quiet(f) \/ Resumes(f))
    BY <1>2, BaseParts, TAGParts
  <2>2. CASE Resumes(f)
    <3>1. \A x \in Time : Visits(f, x)' => Visits(f, x)
      BY <2>2, SameVisits DEF Resumes
    <3> QED  BY <2>1, <2>2, <3>1, BaseParts, MuteVisits DEF Resumes, SamePlans
  <2> QED  BY <1>1, <2>1, <2>2
<1>3. CASE handle_tagged_message(f)
  <2>1. /\ up'[f] = up[f] /\ Hearing(f) /\ SamePlans(fed'[f], fed[f])
        /\ fed'[f].failed = fed[f].failed /\ fed'[f].started = fed[f].started
        /\ fed'[f].current = fed[f].current
        /\ fed'[f].pc = fed[f].pc \/ (fed[f].started /\ Tardy(f, Head(down[f])) /\ fed'[f].pc = "fatal")
    BY <1>3, BaseParts, MSGParts
  <2>2. fed'[f].pc = fed[f].pc
    BY <1>3, <2>1, MSGMoves DEF FedMoves, Keeps, Sane
  <2>3. \A x \in Time : Visits(f, x)' => Visits(f, x)
    BY <2>1, <2>2, SameVisits
  <2> QED  BY <2>1, <2>3, BaseParts, MuteVisits DEF SamePlans
<1>4. CASE HandlePortAbsent(f) \/ StoreDNET(f)
  BY <1>1, <1>4, BaseParts, AbsentHeardParts, StoreParts
<1>5. CASE handle_downstream_next_event_tag(f)
  <2> DEFINE skipped == fed[f].last_skipped_NET
             net == Msg("NET", skipped, NULL)
  <2>1. \/ Quiet(f) /\ up'[f] = up[f]
        \/ /\ skipped \in EventTag
           /\ Alike(fed'[f], fed[f]) /\ fed'[f].pc = fed[f].pc
           /\ fed'[f].last_skipped_NET = NEVER_TAG
           /\ up'[f] = up[f] \o <<net>>
    BY <1>5, BaseParts, DNETParts
  <2>2. CASE /\ skipped \in EventTag
             /\ Alike(fed'[f], fed[f]) /\ fed'[f].pc = fed[f].pc
             /\ fed'[f].last_skipped_NET = NEVER_TAG
             /\ up'[f] = up[f] \o <<net>>
    <3> SUFFICES ASSUME NEW x \in X, Visits(f, x)'
                 PROVE  Visits(f, x) /\ Reveals(f, fed'[f].last_skipped_NET, x) /\ Adds(f, x)
      BY DEF Visiting
    <3>1. Visits(f, x)
      BY <2>2, SameVisits DEF Alike
    <3>2. Reveals(f, fed'[f].last_skipped_NET, x)
      BY <2>2, NeverReveals
    <3>3. Reveals(f, skipped, x)
      BY <3>1 DEF VisitsAhead, VisitAhead
    <3>4. net \in UpMessage(f) /\ net.type = "NET" /\ net.tag = skipped
      <4>1. \A t \in EventTag : /\ Msg("NET", t, NULL) \in UpMessage(f)
                                /\ Msg("NET", t, NULL).type = "NET" /\ Msg("NET", t, NULL).tag = t
        BY MessageKinds
      <4> QED  BY <2>2, <4>1
    <3> HIDE DEF net, skipped
    <3>5. Accords(f, net, x)
      BY <3>3, <3>4 DEF Accords
    <3> QED  BY <2>2, <3>1, <3>2, <3>4, <3>5, BaseParts, AddsOne
  <2> QED  BY <1>1, <2>1, <2>2
<1> QED  BY <1>2, <1>3, <1>4, <1>5, NoPTAG DEF Listen

\* Whatever step a federate takes.
LEMMA WorkVisits ==
  ASSUME NEW X, X \subseteq Time,
         FedBase, VisitsAhead(X), 0 \notin X \/ StartFirst',
         NEW f \in Fed, Work(f) \/ Listen(f) \/ Fail(f)
  PROVE  Visiting(f, X)
<1>1. Start(f) \/ Wake(f) \/ AdvanceTag(f) \/ Complete(f) \/ Leave(f) \/ Fail(f) => Visiting(f, X)
  BY StartVisits, WakeVisits, AdvanceVisits, CompleteVisits, EndVisits
<1>2. \A c \in program.conn : ExecuteInput(f, c) \/ SendMessage(f, c) \/ SendAbsent(f, c) => Visiting(f, X)
  BY ReactionVisits
<1> QED  BY <1>1, <1>2, ListenVisits DEF Work

\* f comes to no time that the RTI takes it to be beyond.
LEMMA FederateVisits ==
  ASSUME NEW X, X \subseteq Time,
         TypeInv, TypeInv', TriggersAhead, Silent, VisitsAhead(X), NEW f \in Fed, FedMoves(f), Visiting(f, X)
  PROVE  VisitsAhead(X)'
<1> SUFFICES ASSUME NEW g \in Fed, NEW x \in X, Visits(g, x)' PROVE VisitAhead(g, x)'
  BY DEF VisitsAhead
<1>1. node' = node /\ confirming' = confirming /\ in_transit' = in_transit
  BY KeepsParts
<1>2. CASE g # f
  <2>1. fed'[g] = fed[g] /\ up'[g] = up[g]
    BY <1>2, KeepsParts
  <2>2. VisitAhead(g, x)
    <3>1. Visits(g, x)
      BY <2>1 DEF Visits
    <3> QED  BY <3>1 DEF VisitsAhead
  <2> QED  BY <1>1, <2>1, <2>2 DEF VisitAhead, KnownBefore, Reveals, Accords
<1>3. CASE g = f
  <2>1. (Visits(f, x) \/ Triggered(f, x)) /\ Reveals(f, fed'[f].last_skipped_NET, x) /\ Adds(f, x)
    BY <1>3 DEF Visiting
  <2>2. KnownBefore(f, x) /\ \A q \in 1 .. Len(up[f]) : Accords(f, up[f][q], x)
    <3>1. CASE Visits(f, x)
      BY <3>1 DEF VisitsAhead, VisitAhead
    <3>2. CASE Triggered(f, x)
      <4>1. KnownBefore(f, x) /\ SaidBefore(f, x, Len(up[f]))
        BY <3>2 DEF TriggersAhead, Ahead
      <4>2. ~Gone(f)
        BY <3>2 DEF Triggered, Dead, Gone
      <4> QED  BY <4>1, <4>2 DEF Silent, SaidBefore, Accords
    <3> QED  BY <2>1, <3>1, <3>2
  <2>3. ASSUME NEW q \in 1 .. Len(up'[f]) PROVE Accords(f, up'[f][q], x)
    <3>1. /\ Len(up[f]) \in Nat /\ Len(up'[f]) \in Nat
          /\ \A i \in 1 .. Len(up[f]) : up'[f][i] = up[f][i]
      BY Spoken
    <3>2. CASE q <= Len(up[f])
      BY <2>2, <3>1, <3>2
    <3>3. CASE ~(q <= Len(up[f]))
      <4>1. q \in Len(up[f]) + 1 .. Len(up'[f])
        BY <3>1, <3>3
      <4> QED  BY <2>1, <4>1 DEF Adds
    <3> QED  BY <3>2, <3>3
  <2> QED  BY <1>1, <1>3, <2>1, <2>2, <2>3 DEF VisitAhead, KnownBefore, Reveals, Accords
<1> QED  BY <1>2, <1>3

\* What the RTI is told of f does not put f behind it.
LEMMA HandlingVisits ==
  ASSUME NEW X, X \subseteq Time,
         TypeInv, TypeInv', WholeRTI, VisitsAhead(X), NEW f \in Fed, Handling(f)
  PROVE  VisitsAhead(X)'
<1> SUFFICES ASSUME NEW g \in Fed, NEW x \in X, Visits(g, x)' PROVE VisitAhead(g, x)'
  BY DEF VisitsAhead
<1>1. /\ fed' = fed /\ 1 \in 1 .. Len(up[f]) /\ in_transit[g] \subseteq in_transit'[g]
      /\ g # f => up'[g] = up[g]
  BY HandlingParts DEF NotesOf
<1>2. VisitAhead(g, x)
  <2>1. Visits(g, x)
    BY <1>1 DEF Visits
  <2> QED  BY <2>1 DEF VisitsAhead
<1>3. KnownBefore(g, x)'
  <2>1. ASSUME g = f PROVE SaidBefore(f, x, 1) /\ up[f][1].type \notin {"RESIGN", "FAILED", "EOF"}
    BY <1>1, <1>2, <2>1 DEF VisitAhead, Accords, SaidBefore
  <2> QED  BY <1>2, <2>1, KnownAfter DEF VisitAhead
<1>4. \A t : Reveals(g, t, x) => Reveals(g, t, x)'
  BY <1>1 DEF Reveals
<1>5. ASSUME NEW q \in 1 .. Len(up'[g]) PROVE Accords(g, up'[g][q], x)
  <2>1. \E k \in 1 .. Len(up[g]) : up'[g][q] = up[g][k]
    BY HandlingParts
  <2> QED  BY <1>2, <2>1 DEF VisitAhead
<1>6. Reveals(g, fed[g].last_skipped_NET, x)'
  BY <1>1, <1>2 DEF VisitAhead, Reveals
<1> QED  BY <1>3, <1>4, <1>5, <1>6 DEF VisitAhead, Accords, Reveals

LEMMA TidyingVisits ==
  ASSUME NEW X, X \subseteq Time,
         TypeInv, VisitsAhead(X), Tidies
  PROVE  VisitsAhead(X)'
<1> SUFFICES ASSUME NEW g \in Fed, NEW x \in X, Visits(g, x)' PROVE VisitAhead(g, x)'
  BY DEF VisitsAhead
<1>1. fed' = fed /\ up' = up
  BY TidyingParts
<1>2. VisitAhead(g, x)
  <2>1. Visits(g, x)
    BY <1>1 DEF Visits
  <2> QED  BY <2>1 DEF VisitsAhead
<1>3. KnownBefore(g, x)' /\ \A t : Reveals(g, t, x) => Reveals(g, t, x)'
  BY <1>2, TidyingReveals DEF VisitAhead
<1> QED  BY <1>1, <1>2, <1>3 DEF VisitAhead, Accords, Reveals

LEMMA InitVisits ==
  ASSUME NEW X, X \subseteq Time
  PROVE  Init => VisitsAhead(X)
<1> SUFFICES ASSUME Init, NEW f \in Fed, NEW x \in Time PROVE VisitAhead(f, x)
  BY DEF VisitsAhead
<1>1. /\ node[f] = InitialNode(program, f) /\ fed[f] = InitialFed(program, f)
      /\ confirming[f] = NULL /\ up[f] = << >> /\ Len(up[f]) = 0
  BY DEF Init
<1>2. node[f].next_event = NEVER_TAG /\ node[f].completed = NEVER_TAG
  BY <1>1 DEF InitialNode
<1>3. fed[f].last_skipped_NET = NEVER_TAG
  BY <1>1 DEF InitialFed
<1>4. Heard(NEVER_TAG)[1] <= x /\ NEVER_TAG[1] < x
  BY StopRange DEF Heard, NEVER_TAG, ZERO_TAG, Time
<1> QED  BY <1>1, <1>2, <1>3, <1>4, NeverReveals DEF VisitAhead, KnownBefore

LEMMA NextVisits ==
  ASSUME NEW X, X \subseteq Time
  PROVE  CoordInv /\ VisitsAhead(X) /\ CoordInv' /\ StartAnnounced' /\ (0 \notin X \/ StartFirst') /\ [Next]_vars
           => VisitsAhead(X)'
<1> SUFFICES ASSUME CoordInv, VisitsAhead(X), CoordInv', StartAnnounced', 0 \notin X \/ StartFirst', [Next]_vars
             PROVE  VisitsAhead(X)'
  OBVIOUS
<1>1. TypeInv /\ WholeRTI /\ TriggersAhead /\ Silent /\ FedBase /\ TypeInv'
  BY DEF CoordInv, FedBase
<1>3. CASE UNCHANGED vars
  BY <1>1, <1>3, TidyingVisits DEF Tidies
<1>4. ASSUME NEW f \in Fed, ServeFederate(f) PROVE VisitsAhead(X)'
  BY <1>1, <1>4, ServeHandling, HandlingVisits, TidyingVisits
<1>5. ASSUME NEW f \in Fed, Work(f) \/ Listen(f) \/ Fail(f) PROVE VisitsAhead(X)'
  <2>1. FedMoves(f)
    BY <1>1, <1>5, FederateMoves
  <2>2. Visiting(f, X)
    BY <1>1, <1>5, WorkVisits
  <2> QED  BY <1>1, <2>1, <2>2, FederateVisits
<1> QED  BY <1>3, <1>4, <1>5 DEF Next

\* Whatever f executes is at a time that f visits or at which it is to react.
LEMMA ExecutesTimes ==
  ASSUME CoordInv, Idle, NEW f \in Fed, ~fed[f].failed, NEW t \in Executes(f)
  PROVE  /\ t \in WholeTag /\ t[1] \in Time
         /\ Visits(f, t[1]) \/ Triggered(f, t[1])
<1>1. TypeInv /\ WholeRTI /\ FederatesSane /\ Orderly(f) /\ WholeFed(f) /\ Sane(f)
  BY DEF CoordInv, AllOrderly, FederatesSane
<1>2. CASE t = fed[f].current /\ (fed[f].pc = "exec" \/ ~fed[f].started)
  <2>1. t \in WholeTag /\ t[1] \in Time
    BY <1>1, <1>2, WholeTags DEF WholeFed, Time
  <2>2. ~fed[f].started => t[1] = 0
    BY <1>1, <1>2 DEF Orderly, ZERO_TAG
  <2> QED  BY <1>2, <2>1, <2>2 DEF Visits
<1>3. CASE fed[f].pc \notin {"stopping", "done"} /\ t = NextEvent(fed[f])
  <2>1. /\ t \in WholeTag
        /\ t = STOP_TAG \/ \E e \in fed[f].queue : e.tag = t
    BY <1>1, <1>3, WholeNextEvent
  <2>2. t[1] \in Time
    BY <2>1, WholeTags DEF Time
  <2>3. CASE t = STOP_TAG
    BY <1>3, <2>1, <2>2, <2>3 DEF Visits, STOP_TAG
  <2>4. CASE \E e \in fed[f].queue : e.tag = t
    BY <1>1, <1>3, <2>1, <2>2, <2>4 DEF Triggered, Dead, Queued, Sane
  <2> QED  BY <2>1, <2>3, <2>4
<1>4. CASE t \in {m.tag : m \in {n \in Range(down[f]) : n.type = "MSG"}}
  <2>1. PICK p \in 1 .. Len(down[f]) : down[f][p].type = "MSG" /\ down[f][p].tag = t
    <3>1. down[f] \in Seq(DownMessage(f))
      BY <1>1 DEF TypeInv
    <3>2. DOMAIN down[f] = 1 .. Len(down[f])
      BY <3>1
    <3> QED  BY <1>4, <3>2 DEF Range
  <2> DEFINE m == Event(down[f][p].tag, down[f][p].conn)
  <2>2. ComingDown(f, m) /\ m.tag = t
    BY <2>1 DEF ComingDown, Event
  <2> HIDE DEF m
  <2>3. /\ t \in WholeTag /\ t[1] \in Int /\ t[1] <= StopTime /\ fed[f].pc # "done"
        /\ fed[f].started => fed[f].current[1] < t[1]
    BY <2>2, ComingLater, TagBeforeComing
  <2>4. t[1] \in Time
    BY <2>3, WholeTags DEF Time
  <2>5. fed[f].pc # "stopping"
    <3> SUFFICES ASSUME fed[f].pc = "stopping" PROVE FALSE
      OBVIOUS
    <3>1. fed[f].started /\ Leq(STOP_TAG, fed[f].current)
      BY <1>1 DEF Orderly
    <3>2. STOP_TAG[1] <= fed[f].current[1] /\ fed[f].current[1] \in Int
      BY <1>1, <3>1, WholeTags, WholeOrder DEF WholeFed
    <3> QED  BY <2>3, <3>1, <3>2, StopRange DEF STOP_TAG
  <2>6. Arriving(f, t[1])
    BY <2>1 DEF Arriving
  <2> QED  BY <1>1, <2>3, <2>4, <2>5, <2>6 DEF Triggered, Dead, Sane
<1> QED  BY <1>2, <1>3, <1>4 DEF Executes

\* The RTI does not take f to be beyond what it executes at the times X.
LEMMA SoundVisits ==
  ASSUME NEW X, X \subseteq Time, CoordInv, Idle, VisitsAhead(X),
         NEW f \in Fed, ~fed[f].failed, NEW t \in Executes(f), t[1] \in X
  PROVE  Leq(Heard(node[f].next_event), t)
<1>1. t \in WholeTag /\ t[1] \in Time /\ (Visits(f, t[1]) \/ Triggered(f, t[1]))
  BY ExecutesTimes
<1>2. KnownBefore(f, t[1])
  BY <1>1 DEF VisitsAhead, VisitAhead, CoordInv, TriggersAhead, Ahead
<1>3. Heard(node[f].next_event) \in WholeTag
  BY DEF CoordInv, WholeRTI
<1> QED  BY <1>1, <1>2, <1>3, WholeOrder DEF KnownBefore

LEMMA AlwaysIdle == Spec /\ []CoordInv => []Idle
BY InitIdle, NextIdle, PTL DEF Spec

\* rti_common.c:89-128: what the RTI takes for the next event of a federate, and
\* decides on the grants of others by, is never later than one that the federate
\* executes or will execute, in any program without a delay of a microstep and
\* without a cycle that has no delay, as long as no federate that waits at the
\* start has announced a later event: to the RTI the later event is then next.
THEOREM NextEventsAreSound == Spec /\ Plain(program) /\ []StartFirst => []NextEventSound
<1>1. StartFirst => StartAnnounced
  BY DEF StartFirst, StartAnnounced
<1>2. Spec /\ Plain(program) /\ []StartFirst => []CoordInv
  BY <1>1, AlwaysCoordinated, PTL
<1>3. Init => VisitsAhead(Time)
  BY InitVisits
<1>4. CoordInv /\ VisitsAhead(Time) /\ CoordInv' /\ StartFirst' /\ [Next]_vars => VisitsAhead(Time)'
  <2>1. StartFirst' => StartAnnounced'
    BY DEF StartFirst, StartAnnounced
  <2> QED  BY <2>1, NextVisits
<1>5. Spec /\ Plain(program) /\ []StartFirst => []VisitsAhead(Time)
  BY <1>2, <1>3, <1>4, PTL DEF Spec
<1>6. CoordInv /\ Idle /\ VisitsAhead(Time) => NextEventSound
  BY ExecutesTimes, SoundVisits DEF NextEventSound
<1> QED  BY <1>2, <1>5, <1>6, AlwaysIdle, PTL

\* What the RTI takes for the next event is not later than one after the start.
SoundAfterStart ==
  \A f \in {g \in Fed : ~fed[g].failed} : \A t \in Executes(f) \ {ZERO_TAG} :
    Leq(Heard(node[f].next_event), t)

\* The same of every tag after the start, from what the program is alone:
\* whatever a federate announces while it waits at the start (federate.c:2313-
\* 2334), the RTI is right about all that follows.
THEOREM NextEventsAreSoundAfterStart ==
  Spec /\ Plain(program) /\ NothingToStart => []SoundAfterStart
<1>1. Spec /\ Plain(program) /\ NothingToStart => []StartAnnounced /\ []CoordInv
  BY NothingStartsEarly, AlwaysCoordinated
<1> DEFINE Later == Time \ {0}
<1>2. Init => VisitsAhead(Later)
  BY InitVisits
<1>3. CoordInv /\ VisitsAhead(Later) /\ CoordInv' /\ StartAnnounced' /\ [Next]_vars => VisitsAhead(Later)'
  BY NextVisits
<1>4. Spec /\ Plain(program) /\ NothingToStart => []VisitsAhead(Later)
  <2> HIDE DEF Later
  <2> QED  BY <1>1, <1>2, <1>3, PTL DEF Spec
<1>5. CoordInv /\ Idle /\ VisitsAhead(Later) => SoundAfterStart
  <2> SUFFICES ASSUME CoordInv, Idle, VisitsAhead(Later), NEW f \in Fed, ~fed[f].failed,
                      NEW t \in Executes(f), t # ZERO_TAG
               PROVE  Leq(Heard(node[f].next_event), t)
    BY DEF SoundAfterStart
  <2>1. t \in WholeTag /\ t[1] \in Time
    BY ExecutesTimes
  <2>2. t[1] # 0
    BY <2>1, WholeTags, WholeOrder DEF ZERO_TAG
  <2> QED  BY <2>1, <2>2, SoundVisits
<1> HIDE DEF Later
<1> QED  BY <1>1, <1>4, <1>5, AlwaysIdle, PTL
=============================================================================
