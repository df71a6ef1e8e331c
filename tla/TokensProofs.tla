----------------------------- MODULE TokensProofs -----------------------------
(***************************************************************************)
(* Proofs about Tokens, for any number of tokens, templates and events:    *)
(* the count of a token is the number of references to it, and a payload   *)
(* that is shared is not changed.                                          *)
(***************************************************************************)
EXTENDS Tokens, FiniteSetTheorems, FunctionTheorems, WellFoundedInduction, TLAPS

-----------------------------------------------------------------------------
(* The invariant                                                           *)

TokenOrNull == Token \cup {NULL}
Heap == [ref_count : [Token -> Nat], value : [Token -> Value \cup {NULL}],
         bin : SUBSET Token, template : [Template -> TokenOrNull]]

IsEvent(e) ==
  /\ e = Event(e.trigger, e.tag, e.token)
  /\ e.trigger \in Action /\ e.token \in TokenOrNull
IsQueue(q) ==
  /\ IsFiniteSet(DOMAIN q) /\ q = [i \in DOMAIN q |-> q[i]]
  /\ \A i \in DOMAIN q : IsEvent(q[i])

\* How often t is a value of f.
Count(f, t) == Cardinality({x \in DOMAIN f : f[x] = t})
TokensOf(q) == [i \in DOMAIN q |-> q[i].token]

\* The references that templates, a queue of events and a list of copies hold.
Held(tmpl, q, c) ==
  [t \in Token |-> Count(tmpl, t) + Count(TokensOf(q), t) + (IF t \in c THEN 1 ELSE 0)]

\* The heap h accounts for the references R: L are the tokens of which a
\* reference was lost, new is a token that was made and is not referred to yet.
Accounts(h, R, L, new) ==
  /\ h \in Heap /\ R \in [Token -> Nat]
  /\ \A t \in Token :
       /\ R[t] <= h.ref_count[t]
       /\ t \notin L => R[t] = h.ref_count[t]
       /\ t \in h.bin => h.ref_count[t] = 0
       /\ h.ref_count[t] = 0 /\ t \notin new => h.value[t] = NULL
       /\ t \in new => h.ref_count[t] = 0 /\ t \notin h.bin

IInv ==
  /\ copies \subseteq Token /\ IsFiniteSet(copies)
  /\ IsQueue(event_q)
  /\ Accounts(heap, Held(heap.template, event_q, copies), lost, {})

Plus(R, t) == IF t = NULL THEN R ELSE [R EXCEPT ![t] = @ + 1]
Minus(R, t) == IF t = NULL THEN R ELSE [R EXCEPT ![t] = @ - 1]

\* From h to k no token but those of N comes to be used, and no payload in use
\* changes.
Keeps(h, k, N) ==
  \A u \in Token \ N : k.ref_count[u] > 0 => h.ref_count[u] > 0 /\ k.value[u] = h.value[u]

\* From h to k no shared payload changes, as long as anybody refers to it.
Unshared(h, k) ==
  \A u \in Token : h.ref_count[u] > 1 /\ k.ref_count[u] > 0 => k.value[u] = h.value[u]

-----------------------------------------------------------------------------
(* Single operations on the heap                                           *)

LEMMA NullIsNoToken == NULL \notin Token /\ NULL \notin Value
BY TokensAssumption

LEMMA KeepsTransitive ==
  ASSUME NEW g, NEW h, NEW k, NEW N, Keeps(g, h, N), Keeps(h, k, N)
  PROVE  Keeps(g, k, N)
BY DEF Keeps

LEMMA UnsharedThenKeeps ==
  ASSUME NEW g, NEW h, NEW k, NEW N, Unshared(g, h), Keeps(h, k, N),
         \A u \in N : u \in Token => g.ref_count[u] = 0
  PROVE  Unshared(g, k)
BY DEF Unshared, Keeps

LEMMA KeepsIsUnshared ==
  ASSUME NEW g, NEW h, NEW N, Keeps(g, h, N), \A u \in N : u \in Token => g.ref_count[u] = 0
  PROVE  Unshared(g, h)
BY DEF Unshared, Keeps

LEMMA RecycleBound == \A bin, t : recycle(bin, t) \subseteq bin \cup {t} /\ bin \subseteq recycle(bin, t)
BY DEF recycle

\* Giving up a reference that is held.
LEMMA DoneAccounts ==
  ASSUME NEW h, NEW R, NEW L, NEW N, Accounts(h, R, L, N),
         NEW t \in TokenOrNull, t # NULL => R[t] > 0
  PROVE  /\ Accounts(_lf_done_using(h, t), Minus(R, t), L, N)
         /\ _lf_done_using(h, t).template = h.template
         /\ Keeps(h, _lf_done_using(h, t), {})
<1>1. CASE t = NULL
  BY <1>1 DEF _lf_done_using, Minus, Keeps
<1>2. CASE t # NULL
  <2> DEFINE g == [h EXCEPT !.ref_count[t] = @ - 1]
             k == _lf_done_using(h, t)
  <2>1. t \in Token /\ h \in Heap /\ R \in [Token -> Nat]
    BY <1>2 DEF TokenOrNull, Accounts
  <2>2. h.ref_count[t] > 0 /\ h.ref_count[t] \in Nat /\ R[t] > 0
    BY <1>2, <2>1 DEF Accounts, Heap
  <2>3. g \in Heap /\ g.value = h.value /\ g.bin = h.bin /\ g.template = h.template
        /\ g.ref_count = [h.ref_count EXCEPT ![t] = @ - 1]
    BY <2>1, <2>2 DEF Heap
  <2>4. k = _lf_free_token(g, t)
    BY <1>2, <2>2 DEF _lf_done_using
  <2>5. k \in Heap /\ k.ref_count = g.ref_count /\ k.template = h.template
    <3>1. CASE g.ref_count[t] > 0
      BY <2>3, <2>4, <3>1 DEF _lf_free_token
    <3>2. CASE ~(g.ref_count[t] > 0)
      <4>1. recycle(g.bin, t) \in SUBSET Token
        BY <2>1, <2>3, RecycleBound DEF Heap
      <4>2. k = [g EXCEPT !.value[t] = NULL, !.bin = recycle(@, t)]
        BY <2>4, <3>2 DEF _lf_free_token
      <4> HIDE DEF g, k
      <4> QED
        BY <2>1, <2>3, <4>1, <4>2 DEF Heap
    <3> QED
      BY <3>1, <3>2
  <2>6. /\ k.value = IF g.ref_count[t] > 0 THEN h.value ELSE [h.value EXCEPT ![t] = NULL]
        /\ k.bin \subseteq IF g.ref_count[t] > 0 THEN h.bin ELSE h.bin \cup {t}
    <3>1. CASE g.ref_count[t] > 0
      BY <2>3, <2>4, <3>1 DEF _lf_free_token
    <3>2. CASE ~(g.ref_count[t] > 0)
      <4>1. k = [g EXCEPT !.value[t] = NULL, !.bin = recycle(@, t)]
        BY <2>4, <3>2 DEF _lf_free_token
      <4> HIDE DEF g, k
      <4> QED
        BY <2>3, <3>2, <4>1, RecycleBound DEF Heap
    <3> QED
      BY <3>1, <3>2
  <2>7. Minus(R, t) = [R EXCEPT ![t] = @ - 1] /\ Minus(R, t) \in [Token -> Nat]
    BY <1>2, <2>1, <2>2 DEF Minus
  <2> HIDE DEF g, k
  <2>8. ASSUME NEW u \in Token
        PROVE  /\ Minus(R, t)[u] <= k.ref_count[u]
               /\ u \notin L => Minus(R, t)[u] = k.ref_count[u]
               /\ u \in k.bin => k.ref_count[u] = 0
               /\ k.ref_count[u] = 0 /\ u \notin N => k.value[u] = NULL
               /\ u \in N => k.ref_count[u] = 0 /\ u \notin k.bin
               /\ k.ref_count[u] > 0 => h.ref_count[u] > 0 /\ k.value[u] = h.value[u]
    <3>1. /\ R[u] \in Nat /\ h.ref_count[u] \in Nat /\ R[u] <= h.ref_count[u]
          /\ u \notin L => R[u] = h.ref_count[u]
          /\ u \in h.bin => h.ref_count[u] = 0
          /\ h.ref_count[u] = 0 /\ u \notin N => h.value[u] = NULL
          /\ u \in N => h.ref_count[u] = 0 /\ u \notin h.bin
      BY <2>1 DEF Accounts, Heap
    <3>2. CASE u = t
      <4>1. /\ k.ref_count[u] = h.ref_count[u] - 1 /\ Minus(R, t)[u] = R[u] - 1
            /\ u \notin N /\ u \notin h.bin /\ g.ref_count[t] = k.ref_count[u]
        BY <2>1, <2>2, <2>3, <2>5, <2>7, <3>1, <3>2 DEF Heap
      <4>2. k.value[u] = IF g.ref_count[t] > 0 THEN h.value[u] ELSE NULL
        BY <2>1, <2>6, <3>2 DEF Heap
      <4>3. u \in k.bin => ~(g.ref_count[t] > 0)
        BY <2>6, <4>1
      <4>4. k.ref_count[u] \in Nat
        BY <2>5 DEF Heap
      <4> QED
        BY <2>2, <3>1, <3>2, <4>1, <4>2, <4>3, <4>4
    <3>3. CASE u # t
      <4>1. k.ref_count[u] = h.ref_count[u] /\ Minus(R, t)[u] = R[u]
        BY <2>1, <2>3, <2>5, <2>7, <3>3 DEF Heap
      <4>2. k.value[u] = h.value[u] /\ (u \in k.bin => u \in h.bin)
        BY <2>1, <2>6, <3>3 DEF Heap
      <4> QED
        BY <3>1, <4>1, <4>2
    <3> QED
      BY <3>2, <3>3
  <2> QED
    BY <2>5, <2>7, <2>8 DEF Accounts, Keeps, k
<1> QED
  BY <1>1, <1>2

\* Another reference to a token that is referred to, or the first one to a token
\* just made.
LEMMA ReferencedAccounts ==
  ASSUME NEW h, NEW R, NEW L, NEW N, Accounts(h, R, L, N),
         NEW t \in TokenOrNull, t # NULL => R[t] > 0 \/ t \in N
  PROVE  /\ Accounts(Referenced(h, t), Plus(R, t), L, N \ {t})
         /\ Referenced(h, t).template = h.template
         /\ Keeps(h, Referenced(h, t), N)
<1>1. CASE t = NULL
  BY <1>1, NullIsNoToken DEF Referenced, Plus, Keeps, Accounts
<1>2. CASE t # NULL
  <2> DEFINE k == Referenced(h, t)
  <2>1. t \in Token /\ h \in Heap /\ R \in [Token -> Nat]
    BY <1>2 DEF TokenOrNull, Accounts
  <2>2. k = [h EXCEPT !.ref_count[t] = @ + 1]
    BY <1>2 DEF Referenced
  <2>3. k \in Heap /\ k.value = h.value /\ k.bin = h.bin /\ k.template = h.template
        /\ k.ref_count = [h.ref_count EXCEPT ![t] = @ + 1]
    BY <2>1, <2>2 DEF Heap
  <2>4. Plus(R, t) = [R EXCEPT ![t] = @ + 1] /\ Plus(R, t) \in [Token -> Nat]
    BY <1>2, <2>1 DEF Plus
  <2> HIDE DEF k
  <2>5. ASSUME NEW u \in Token
        PROVE  /\ Plus(R, t)[u] <= k.ref_count[u]
               /\ u \notin L => Plus(R, t)[u] = k.ref_count[u]
               /\ u \in k.bin => k.ref_count[u] = 0
               /\ k.ref_count[u] = 0 /\ u \notin N \ {t} => k.value[u] = NULL
               /\ u \in N \ {t} => k.ref_count[u] = 0 /\ u \notin k.bin
               /\ k.ref_count[u] > 0 /\ u \notin N => h.ref_count[u] > 0 /\ k.value[u] = h.value[u]
    <3>1. /\ R[u] \in Nat /\ h.ref_count[u] \in Nat /\ R[u] <= h.ref_count[u]
          /\ u \notin L => R[u] = h.ref_count[u]
          /\ u \in h.bin => h.ref_count[u] = 0
          /\ h.ref_count[u] = 0 /\ u \notin N => h.value[u] = NULL
          /\ u \in N => h.ref_count[u] = 0 /\ u \notin h.bin
      BY <2>1 DEF Accounts, Heap
    <3>2. CASE u = t
      <4>1. k.ref_count[u] = h.ref_count[u] + 1 /\ Plus(R, t)[u] = R[u] + 1
        BY <2>1, <2>3, <2>4, <3>2 DEF Heap
      <4>2. R[u] > 0 \/ u \in N
        BY <1>2, <3>2
      <4> QED
        BY <2>3, <3>1, <3>2, <4>1, <4>2
    <3>3. CASE u # t
      <4>1. k.ref_count[u] = h.ref_count[u] /\ Plus(R, t)[u] = R[u]
        BY <2>1, <2>3, <2>4, <3>3 DEF Heap
      <4> QED
        BY <2>3, <3>1, <3>3, <4>1
    <3> QED
      BY <3>2, <3>3
  <2> QED
    BY <2>3, <2>4, <2>5 DEF Accounts, Keeps, k
<1> QED
  BY <1>1, <1>2

\* A new token, from the bin or freshly allocated, is one that nobody uses.
LEMMA NewAccounts ==
  ASSUME NEW h, NEW R, NEW L, Accounts(h, R, L, {}), NEW t \in Fresh(h),
         NEW v \in Value \cup {NULL}
  PROVE  /\ t \in Token /\ h.ref_count[t] = 0 /\ R[t] = 0
         /\ Accounts(_lf_new_token(h, t, v), R, L, {t})
         /\ _lf_new_token(h, t, v).template = h.template
         /\ Keeps(h, _lf_new_token(h, t, v), {t})
<1> DEFINE k == _lf_new_token(h, t, v)
<1>1. h \in Heap /\ R \in [Token -> Nat]
  BY DEF Accounts
<1>2. t \in Token /\ h.ref_count[t] = 0
  BY <1>1 DEF Fresh, Heap, Accounts
<1>3. R[t] = 0
  BY <1>1, <1>2 DEF Accounts
<1>4. /\ k \in Heap /\ k.template = h.template /\ k.bin = h.bin \ {t}
      /\ k.value = [h.value EXCEPT ![t] = v] /\ k.ref_count = h.ref_count
  <2>1. k = [h EXCEPT !.bin = @ \ {t}, !.value[t] = v, !.ref_count[t] = 0]
    BY DEF _lf_new_token
  <2>2. [h.ref_count EXCEPT ![t] = 0] = h.ref_count
    BY <1>1, <1>2 DEF Heap
  <2> HIDE DEF k
  <2> QED
    BY <1>1, <1>2, <2>1, <2>2 DEF Heap
<1> HIDE DEF k
<1>5. Accounts(k, R, L, {t})
  <2> SUFFICES ASSUME NEW u \in Token
               PROVE  /\ R[u] <= k.ref_count[u]
                      /\ u \notin L => R[u] = k.ref_count[u]
                      /\ u \in k.bin => k.ref_count[u] = 0
                      /\ k.ref_count[u] = 0 /\ u \notin {t} => k.value[u] = NULL
                      /\ u \in {t} => k.ref_count[u] = 0 /\ u \notin k.bin
    BY <1>1, <1>4 DEF Accounts
  <2>1. u # t => k.value[u] = h.value[u]
    BY <1>1, <1>4 DEF Heap
  <2> QED
    BY <1>2, <1>4, <2>1 DEF Accounts
<1>6. Keeps(h, k, {t})
  BY <1>1, <1>4 DEF Keeps, Heap
<1> QED
  BY <1>2, <1>3, <1>4, <1>5, <1>6 DEF k

\* A new token that is not referred to is freed with its payload.
LEMMA FreeAccounts ==
  ASSUME NEW h, NEW R, NEW L, NEW t \in Token, Accounts(h, R, L, {t})
  PROVE  /\ Accounts(_lf_free_token(h, t), R, L, {})
         /\ _lf_free_token(h, t).template = h.template
         /\ Keeps(h, _lf_free_token(h, t), {})
<1> DEFINE k == _lf_free_token(h, t)
<1>1. h \in Heap /\ R \in [Token -> Nat] /\ h.ref_count[t] = 0
  BY DEF Accounts
<1>2. k = [h EXCEPT !.value[t] = NULL, !.bin = recycle(@, t)]
  BY <1>1 DEF _lf_free_token
<1>3. /\ recycle(h.bin, t) \in SUBSET Token
      /\ recycle(h.bin, t) \subseteq h.bin \cup {t}
  BY <1>1, RecycleBound DEF Heap
<1> HIDE DEF k
<1>4. /\ k \in Heap /\ k.template = h.template /\ k.bin \subseteq h.bin \cup {t}
      /\ k.value = [h.value EXCEPT ![t] = NULL] /\ k.ref_count = h.ref_count
  BY <1>1, <1>2, <1>3 DEF Heap
<1>5. Accounts(k, R, L, {})
  <2> SUFFICES ASSUME NEW u \in Token
               PROVE  /\ R[u] <= k.ref_count[u]
                      /\ u \notin L => R[u] = k.ref_count[u]
                      /\ u \in k.bin => k.ref_count[u] = 0
                      /\ k.ref_count[u] = 0 => k.value[u] = NULL
    BY <1>1, <1>4 DEF Accounts
  <2>1. k.value[u] = IF u = t THEN NULL ELSE h.value[u]
    BY <1>1, <1>4 DEF Heap
  <2> QED
    BY <1>1, <1>4, <2>1 DEF Accounts
<1>6. Keeps(h, k, {})
  <2> SUFFICES ASSUME NEW u \in Token, k.ref_count[u] > 0
               PROVE  h.ref_count[u] > 0 /\ k.value[u] = h.value[u]
    BY DEF Keeps
  <2>1. u # t
    BY <1>1, <1>4
  <2> QED
    BY <1>1, <1>4, <2>1 DEF Heap
<1> QED
  BY <1>4, <1>5, <1>6 DEF k

\* What a template refers to is no concern of the heap's accounts.
LEMMA TemplateAccounts ==
  ASSUME NEW h, NEW R, NEW L, NEW N, Accounts(h, R, L, N),
         NEW p \in Template, NEW t \in TokenOrNull
  PROVE  LET k == [h EXCEPT !.template[p] = t] IN
         /\ Accounts(k, R, L, N)
         /\ k.template = [h.template EXCEPT ![p] = t]
         /\ Keeps(h, k, {})
<1> DEFINE k == [h EXCEPT !.template[p] = t]
<1>1. /\ k \in Heap /\ k.value = h.value /\ k.bin = h.bin /\ k.ref_count = h.ref_count
      /\ k.template = [h.template EXCEPT ![p] = t]
  BY DEF Accounts, Heap
<1> HIDE DEF k
<1>2. Accounts(k, R, L, N) /\ Keeps(h, k, {})
  BY <1>1 DEF Accounts, Keeps
<1> QED
  BY <1>1, <1>2 DEF k

\* A reference that is lost stays in the count.
LEMMA LostAccounts ==
  ASSUME NEW h, NEW R, NEW L, NEW N, Accounts(h, R, L, N),
         NEW t \in TokenOrNull, t # NULL => R[t] > 0
  PROVE  Accounts(h, Minus(R, t), L \cup ({t} \ {NULL}), N)
<1>1. CASE t = NULL
  BY <1>1 DEF Minus, Accounts
<1>2. CASE t # NULL
  <2>1. t \in Token /\ R \in [Token -> Nat] /\ h \in Heap
    BY <1>2 DEF TokenOrNull, Accounts
  <2>2. Minus(R, t) = [R EXCEPT ![t] = @ - 1] /\ Minus(R, t) \in [Token -> Nat]
    BY <1>2, <2>1 DEF Minus
  <2> SUFFICES ASSUME NEW u \in Token
               PROVE  /\ Minus(R, t)[u] <= h.ref_count[u]
                      /\ u \notin L \cup ({t} \ {NULL}) => Minus(R, t)[u] = h.ref_count[u]
    BY <2>1, <2>2 DEF Accounts
  <2>3. R[u] \in Nat /\ h.ref_count[u] \in Nat
    BY <2>1 DEF Heap
  <2>4. R[u] <= h.ref_count[u] /\ (u \notin L => R[u] = h.ref_count[u])
    BY DEF Accounts
  <2>5. Minus(R, t)[u] = IF u = t THEN R[u] - 1 ELSE R[u]
    BY <2>1, <2>2
  <2> QED
    BY <1>2, <2>3, <2>4, <2>5
<1> QED
  BY <1>1, <1>2

-----------------------------------------------------------------------------
(* Counting                                                                *)

LEMMA CountIsNat ==
  ASSUME NEW f, IsFiniteSet(DOMAIN f), NEW t
  PROVE  Count(f, t) \in Nat /\ (\A x \in DOMAIN f : f[x] = t => Count(f, t) > 0)
<1>1. IsFiniteSet({x \in DOMAIN f : f[x] = t})
  BY FS_Subset
<1>2. Count(f, t) \in Nat
  BY <1>1, FS_CardinalityType DEF Count
<1>3. Count(f, t) = 0 => {x \in DOMAIN f : f[x] = t} = {}
  BY <1>1, FS_EmptySet DEF Count
<1> QED
  BY <1>2, <1>3

\* One argument more.
LEMMA CountMore ==
  ASSUME NEW f, IsFiniteSet(DOMAIN f), NEW x, x \notin DOMAIN f, NEW g,
         DOMAIN g = DOMAIN f \cup {x}, \A y \in DOMAIN f : g[y] = f[y], NEW t
  PROVE  Count(g, t) = IF g[x] = t THEN Count(f, t) + 1 ELSE Count(f, t)
<1> DEFINE F == {y \in DOMAIN f : f[y] = t}
           G == {y \in DOMAIN g : g[y] = t}
<1>1. IsFiniteSet(F) /\ x \notin F
  BY FS_Subset
<1>2. G = IF g[x] = t THEN F \cup {x} ELSE F
  OBVIOUS
<1>3. Count(g, t) = Cardinality(G) /\ Count(f, t) = Cardinality(F)
  BY DEF Count
<1> HIDE DEF F, G
<1> QED
  BY <1>1, <1>2, <1>3, FS_AddElement

\* One argument less.
LEMMA CountLess ==
  ASSUME NEW f, IsFiniteSet(DOMAIN f), NEW x \in DOMAIN f, NEW g,
         g = [y \in DOMAIN f \ {x} |-> f[y]], NEW t
  PROVE  Count(g, t) = IF f[x] = t THEN Count(f, t) - 1 ELSE Count(f, t)
<1> DEFINE F == {y \in DOMAIN f : f[y] = t}
           G == {y \in DOMAIN g : g[y] = t}
<1>1. IsFiniteSet(F) /\ (x \in F <=> f[x] = t)
  BY FS_Subset
<1>2. G = F \ {x}
  OBVIOUS
<1>3. Count(g, t) = Cardinality(G) /\ Count(f, t) = Cardinality(F)
  BY DEF Count
<1> HIDE DEF F, G
<1> QED
  BY <1>1, <1>2, <1>3, FS_RemoveElement

\* Another value at one argument.
LEMMA CountOther ==
  ASSUME NEW f, IsFiniteSet(DOMAIN f), NEW x \in DOMAIN f, NEW v, NEW g,
         g = [y \in DOMAIN f |-> IF y = x THEN v ELSE f[y]], NEW t
  PROVE  Count(g, t) = Count(f, t) + (IF v = t THEN 1 ELSE 0) - (IF f[x] = t THEN 1 ELSE 0)
<1> DEFINE e == [y \in DOMAIN f \ {x} |-> f[y]]
<1>1. IsFiniteSet(DOMAIN e) /\ x \notin DOMAIN e /\ DOMAIN f = DOMAIN e \cup {x}
  BY FS_RemoveElement
<1>2. Count(e, t) = IF f[x] = t THEN Count(f, t) - 1 ELSE Count(f, t)
  BY CountLess
<1>3. DOMAIN g = DOMAIN e \cup {x} /\ g[x] = v /\ \A y \in DOMAIN e : g[y] = e[y]
  OBVIOUS
<1> HIDE DEF e
<1>4. Count(g, t) = IF v = t THEN Count(e, t) + 1 ELSE Count(e, t)
  BY <1>1, <1>3, CountMore
<1>5. Count(f, t) \in Nat /\ Count(e, t) \in Nat
  BY <1>1, CountIsNat
<1> QED
  BY <1>2, <1>4, <1>5

\* The order of a list without repetitions does not matter.
LEMMA CountPermuted ==
  ASSUME NEW f, IsFiniteSet(DOMAIN f), NEW D, NEW o \in Bijection(D, DOMAIN f), NEW t
  PROVE  Count([n \in D |-> f[o[n]]], t) = Count(f, t)
<1> DEFINE F == {y \in DOMAIN f : f[y] = t}
           G == {n \in D : f[o[n]] = t}
           b == [n \in G |-> o[n]]
<1>1. IsFiniteSet(F)
  BY FS_Subset
<1>2. /\ o \in [D -> DOMAIN f]
      /\ \A m, n \in D : o[m] = o[n] => m = n
      /\ \A y \in DOMAIN f : \E n \in D : o[n] = y
  BY DEF Bijection, Injection, Surjection, IsInjective
<1>3. b \in Bijection(G, F)
  <2>1. b \in [G -> F]
    BY <1>2
  <2>2. \A m, n \in G : b[m] = b[n] => m = n
    BY <1>2
  <2>3. \A y \in F : \E n \in G : b[n] = y
    BY <1>2
  <2> HIDE DEF b, F, G
  <2> QED
    BY <2>1, <2>2, <2>3 DEF Bijection, Injection, Surjection, IsInjective
<1>4. ExistsBijection(F, G)
  BY <1>3, Fun_ExistsBijSymmetric DEF ExistsBijection
<1>5. Cardinality(G) = Cardinality(F)
  BY <1>1, <1>4, FS_Bijection
<1> QED
  BY <1>5 DEF Count

\* SetToSeqs() lists every element once.
LEMMA Listed ==
  ASSUME NEW S, IsFiniteSet(S), NEW o \in SetToSeqs(S)
  PROVE  \E n \in Nat : /\ n = Cardinality(S) /\ o \in [1 .. n -> S] /\ Len(o) = n
                        /\ o \in Bijection(1 .. n, S)
<1> DEFINE n == Cardinality(S)
<1>1. n \in Nat
  BY FS_CardinalityType
<1>2. o \in [1 .. n -> S] /\ (\A i, j \in 1 .. n : i # j => o[i] # o[j])
  BY DEF SetToSeqs
<1>3. o \in Injection(1 .. n, S)
  BY <1>2 DEF Injection, IsInjective
<1>4. Cardinality(1 .. n) = n /\ IsFiniteSet(1 .. n)
  BY <1>1, FS_Interval
<1>5. o \in Surjection(1 .. n, S)
  BY <1>3, <1>4, FS_Injection
<1>6. Len(o) = n
  BY <1>1, <1>2
<1> QED
  BY <1>1, <1>2, <1>3, <1>5, <1>6 DEF Bijection

-----------------------------------------------------------------------------
(* Induction over a list                                                   *)

\* The intervals 0 .. m - 1 are ordered by inclusion as the numbers m are.
LEMMA LeastNumber ==
  ASSUME NEW T, T \subseteq Nat, T # {}
  PROVE  \E m \in T : \A k \in T : m <= k
<1> DEFINE Below(m) == 0 .. m - 1
           U == {Below(m) : m \in T}
           R == StrictSubsetOrdering(Nat)
<1>1. IsWellFoundedOn(R, FiniteSubsetsOf(Nat))
  BY FS_StrictSubsetOrderingWellFounded
<1>2. U \subseteq FiniteSubsetsOf(Nat) /\ U # {}
  <2>1. ASSUME NEW m \in T PROVE Below(m) \in FiniteSubsetsOf(Nat)
    <3>1. m - 1 \in Int
      OBVIOUS
    <3>2. IsFiniteSet(Below(m))
      BY <3>1, FS_Interval
    <3> QED
      BY <3>2 DEF FiniteSubsetsOf
  <2> QED
    BY <2>1
<1>3. PICK x \in U : \A y \in U : <<y, x>> \notin R
  <2> HIDE DEF U, R
  <2> QED
    BY <1>1, <1>2, WFMin
<1>4. PICK m \in T : x = Below(m)
  BY <1>3
<1>5. ASSUME NEW k \in T, k < m PROVE FALSE
  <2>1. Below(k) \in SUBSET Nat /\ Below(m) \in SUBSET Nat /\ Below(k) \subseteq Below(m)
    BY <1>5
  <2>2. k \in Below(m) /\ k \notin Below(k)
    BY <1>5
  <2>3. <<Below(k), Below(m)>> \in R
    BY <2>1, <2>2 DEF StrictSubsetOrdering
  <2> QED
    BY <1>3, <1>4, <2>3
<1> QED
  BY <1>5

LEMMA InductionTo ==
  ASSUME NEW n \in Nat, NEW T, 0 \in T, \A m \in 0 .. n - 1 : m \in T => m + 1 \in T
  PROVE  n \in T
<1> SUFFICES ASSUME n \notin T PROVE FALSE
  OBVIOUS
<1> DEFINE U == (0 .. n) \ T
<1>1. PICK m \in U : \A k \in U : m <= k
  <2>1. U \subseteq Nat /\ n \in U
    OBVIOUS
  <2> HIDE DEF U
  <2> QED
    BY <2>1, LeastNumber
<1>2. m # 0 /\ m - 1 \in 0 .. n - 1
  BY <1>1
<1>3. m - 1 \in T
  BY <1>1, <1>2
<1> QED
  BY <1>1, <1>2, <1>3

-----------------------------------------------------------------------------
(* Who holds references                                                    *)

LEMMA PlusMinus ==
  ASSUME NEW R \in [Token -> Nat], NEW t \in TokenOrNull
  PROVE  /\ Plus(R, t) \in [Token -> Nat]
         /\ \A u \in Token : Plus(R, t)[u] = R[u] + (IF u = t THEN 1 ELSE 0)
         /\ t # NULL => Plus(R, t)[t] > 0
         /\ Minus(Plus(R, t), t) = R
         /\ \A u \in Token : Minus(R, t)[u] = R[u] - (IF u = t THEN 1 ELSE 0)
         /\ (t # NULL => R[t] > 0) => Minus(R, t) \in [Token -> Nat]
<1>1. CASE t = NULL
  BY <1>1, NullIsNoToken DEF Plus, Minus
<1>2. CASE t # NULL
  <2>1. t \in Token
    BY <1>2 DEF TokenOrNull
  <2>2. Plus(R, t) = [R EXCEPT ![t] = @ + 1] /\ Minus(R, t) = [R EXCEPT ![t] = @ - 1]
    BY <1>2 DEF Plus, Minus
  <2>3. Plus(R, t) \in [Token -> Nat]
    BY <2>1, <2>2
  <2>4. Minus(Plus(R, t), t) = [Plus(R, t) EXCEPT ![t] = @ - 1]
    BY <1>2 DEF Minus
  <2>5. \A w \in Token : Minus(Plus(R, t), t)[w] = R[w]
    BY <2>1, <2>2, <2>3, <2>4
  <2>6. Minus(Plus(R, t), t) = R
    BY <2>3, <2>4, <2>5
  <2>7. Plus(R, t)[t] > 0
    BY <2>1, <2>2
  <2>8. ASSUME R[t] > 0 PROVE Minus(R, t) \in [Token -> Nat]
    BY <2>1, <2>2, <2>8
  <2>9. \A u \in Token : /\ Plus(R, t)[u] = R[u] + (IF u = t THEN 1 ELSE 0)
                         /\ Minus(R, t)[u] = R[u] - (IF u = t THEN 1 ELSE 0)
    BY <2>1, <2>2
  <2> QED
    BY <1>2, <2>3, <2>6, <2>7, <2>8, <2>9
<1> QED
  BY <1>1, <1>2

LEMMA HeldIsNat ==
  ASSUME NEW tm \in [Template -> TokenOrNull], NEW q, IsQueue(q), NEW c
  PROVE  /\ Held(tm, q, c) \in [Token -> Nat]
         /\ \A t \in Token : /\ Count(tm, t) \in Nat /\ Count(TokensOf(q), t) \in Nat
                             /\ Held(tm, q, c)[t] = Count(tm, t) + Count(TokensOf(q), t)
                                                      + (IF t \in c THEN 1 ELSE 0)
<1>1. DOMAIN tm = Template /\ DOMAIN TokensOf(q) = DOMAIN q
  BY DEF TokensOf
<1>2. IsFiniteSet(DOMAIN tm) /\ IsFiniteSet(DOMAIN TokensOf(q))
  BY <1>1, TokensAssumption DEF IsQueue
<1>3. \A t \in Token : Count(tm, t) \in Nat /\ Count(TokensOf(q), t) \in Nat
  BY <1>2, CountIsNat
<1> QED
  BY <1>3 DEF Held

\* A template, an event or a copy that refers to a token is counted.
LEMMA Holders ==
  ASSUME NEW tm \in [Template -> TokenOrNull], NEW q, IsQueue(q), NEW c, NEW t \in Token
  PROVE  /\ \A p \in Template : tm[p] = t => Held(tm, q, c)[t] > 0
         /\ \A i \in DOMAIN q : q[i].token = t => Held(tm, q, c)[t] > 0
         /\ t \in c => Held(tm, q, c)[t] > 0
<1>1. DOMAIN tm = Template /\ DOMAIN TokensOf(q) = DOMAIN q
  BY DEF TokensOf
<1>2. IsFiniteSet(DOMAIN tm) /\ IsFiniteSet(DOMAIN TokensOf(q))
  BY <1>1, TokensAssumption DEF IsQueue
<1>3. \A p \in Template : tm[p] = t => Count(tm, t) > 0
  BY <1>1, <1>2, CountIsNat
<1>4. \A i \in DOMAIN q : q[i].token = t => Count(TokensOf(q), t) > 0
  <2>1. \A i \in DOMAIN q : TokensOf(q)[i] = q[i].token
    BY DEF TokensOf
  <2> QED
    BY <1>1, <1>2, <2>1, CountIsNat
<1> QED
  BY <1>3, <1>4, HeldIsNat

\* A template gives up one token for another.
LEMMA HeldByTemplate ==
  ASSUME NEW tm \in [Template -> TokenOrNull], NEW q, IsQueue(q), NEW c,
         NEW p \in Template, NEW t \in TokenOrNull
  PROVE  Held([tm EXCEPT ![p] = t], q, c) = Plus(Minus(Held(tm, q, c), tm[p]), t)
<1> DEFINE R == Held(tm, q, c)
           tn == [tm EXCEPT ![p] = t]
           M == Minus(R, tm[p])
<1>1. tn \in [Template -> TokenOrNull] /\ tm[p] \in TokenOrNull
  OBVIOUS
<1>2. R \in [Token -> Nat] /\ Held(tn, q, c) \in [Token -> Nat]
  BY <1>1, HeldIsNat
<1>3. tm[p] # NULL => R[tm[p]] > 0
  BY <1>1, Holders DEF TokenOrNull
<1>4. M \in [Token -> Nat] /\ Plus(M, t) \in [Token -> Nat]
  <2>1. M \in [Token -> Nat]
    <3> HIDE DEF R
    <3> QED
      BY <1>1, <1>2, <1>3, PlusMinus
  <2> HIDE DEF M
  <2> QED
    BY <2>1, PlusMinus
<1>5. ASSUME NEW u \in Token PROVE Held(tn, q, c)[u] = Plus(M, t)[u]
  <2>1. Count(tn, u) = Count(tm, u) + (IF t = u THEN 1 ELSE 0) - (IF tm[p] = u THEN 1 ELSE 0)
    <3>1. DOMAIN tm = Template /\ tn = [y \in DOMAIN tm |-> IF y = p THEN t ELSE tm[y]]
      OBVIOUS
    <3>2. IsFiniteSet(DOMAIN tm)
      BY <3>1, TokensAssumption
    <3> HIDE DEF tn
    <3> QED
      BY <3>1, <3>2, CountOther
  <2>2. M[u] = R[u] - (IF u = tm[p] THEN 1 ELSE 0)
    BY <1>1, <1>2, PlusMinus
  <2>3. Plus(M, t)[u] = M[u] + (IF u = t THEN 1 ELSE 0)
    <3> HIDE DEF M
    <3> QED
      BY <1>4, PlusMinus
  <2>4. /\ R[u] = Count(tm, u) + Count(TokensOf(q), u) + (IF u \in c THEN 1 ELSE 0)
        /\ Count(tm, u) \in Nat /\ Count(TokensOf(q), u) \in Nat
    <3>1. \A w \in Token : /\ Count(tm, w) \in Nat /\ Count(TokensOf(q), w) \in Nat
                           /\ Held(tm, q, c)[w] = Count(tm, w) + Count(TokensOf(q), w)
                                                    + (IF w \in c THEN 1 ELSE 0)
      BY HeldIsNat
    <3> QED
      BY <3>1
  <2>5. /\ Held(tn, q, c)[u] = Count(tn, u) + Count(TokensOf(q), u) + (IF u \in c THEN 1 ELSE 0)
        /\ Count(tn, u) \in Nat
    <3> HIDE DEF tn
    <3> QED
      BY <1>1, HeldIsNat
  <2> HIDE DEF R, tn, M
  <2> QED
    BY <2>1, <2>2, <2>3, <2>4, <2>5
<1> HIDE DEF R, tn, M
<1>6. Held(tn, q, c) = Plus(M, t)
  BY <1>2, <1>4, <1>5
<1> QED
  BY <1>6 DEF tn, M, R

\* There is a free place for another event.
LEMMA Enqueued ==
  ASSUME NEW q, IsQueue(q), NEW e, IsEvent(e)
  PROVE  \E i : /\ i \notin DOMAIN q
                /\ Enqueue(q, e) = [j \in DOMAIN q \cup {i} |-> IF j = i THEN e ELSE q[j]]
                /\ IsQueue(Enqueue(q, e))
<1> DEFINE n == Scheduled(q)
           i == CHOOSE j \in 1 .. n + 1 : j \notin DOMAIN q
           r == Enqueue(q, e)
<1>1. n \in Nat
  BY FS_CardinalityType DEF Scheduled, IsQueue
<1>2. \E j \in 1 .. n + 1 : j \notin DOMAIN q
  <2> SUFFICES ASSUME 1 .. n + 1 \subseteq DOMAIN q PROVE FALSE
    OBVIOUS
  <2>1. Cardinality(1 .. n + 1) <= Cardinality(DOMAIN q)
    BY FS_Subset DEF IsQueue
  <2>2. Cardinality(1 .. n + 1) = n + 1
    BY <1>1, FS_Interval
  <2>3. Cardinality(DOMAIN q) = n
    BY DEF Scheduled
  <2> HIDE DEF n
  <2> QED
    BY <1>1, <2>1, <2>2, <2>3
<1>3. i \notin DOMAIN q
  BY <1>2
<1>4. r = [j \in DOMAIN q \cup {i} |-> IF j = i THEN e ELSE q[j]]
  BY DEF Enqueue
<1> HIDE DEF i, r
<1>5. DOMAIN r = DOMAIN q \cup {i} /\ IsFiniteSet(DOMAIN r)
  BY <1>4, FS_AddElement DEF IsQueue
<1>6. \A j \in DOMAIN r : IsEvent(r[j])
  BY <1>4, <1>5 DEF IsQueue
<1>7. r = [j \in DOMAIN r |-> r[j]]
  BY <1>4
<1> QED
  BY <1>3, <1>4, <1>5, <1>6, <1>7 DEF r, IsQueue

\* An event holds its token as long as it is queued.
LEMMA HeldByEvent ==
  ASSUME NEW tm \in [Template -> TokenOrNull], NEW q, IsQueue(q), NEW c,
         NEW e, IsEvent(e)
  PROVE  Held(tm, Enqueue(q, e), c) = Plus(Held(tm, q, c), e.token)
<1> DEFINE R == Held(tm, q, c)
           r == Enqueue(q, e)
<1>1. PICK i : /\ i \notin DOMAIN q
               /\ r = [j \in DOMAIN q \cup {i} |-> IF j = i THEN e ELSE q[j]]
               /\ IsQueue(r)
  BY Enqueued
<1> HIDE DEF r
<1>2. e.token \in TokenOrNull
  BY DEF IsEvent
<1>3. R \in [Token -> Nat] /\ Held(tm, r, c) \in [Token -> Nat]
  BY <1>1, HeldIsNat
<1>4. /\ DOMAIN TokensOf(r) = DOMAIN TokensOf(q) \cup {i} /\ TokensOf(r)[i] = e.token
      /\ \A j \in DOMAIN TokensOf(q) : TokensOf(r)[j] = TokensOf(q)[j]
  BY <1>1 DEF TokensOf
<1>5. DOMAIN TokensOf(q) = DOMAIN q
  BY DEF TokensOf
<1>6. ASSUME NEW u \in Token PROVE Held(tm, r, c)[u] = Plus(R, e.token)[u]
  <2>1. Count(TokensOf(r), u) = IF e.token = u THEN Count(TokensOf(q), u) + 1 ELSE Count(TokensOf(q), u)
    <3> DEFINE f == TokensOf(q)
               g == TokensOf(r)
    <3>1. /\ IsFiniteSet(DOMAIN f) /\ i \notin DOMAIN f
          /\ DOMAIN g = DOMAIN f \cup {i} /\ g[i] = e.token
          /\ \A y \in DOMAIN f : g[y] = f[y]
      BY <1>1, <1>4, <1>5 DEF IsQueue
    <3> HIDE DEF f, g
    <3>2. Count(g, u) = IF e.token = u THEN Count(f, u) + 1 ELSE Count(f, u)
      BY <3>1, CountMore
    <3> QED
      BY <3>2 DEF f, g
  <2>2. Plus(R, e.token)[u] = R[u] + (IF u = e.token THEN 1 ELSE 0)
    BY <1>2, <1>3, PlusMinus
  <2>3. /\ Held(tm, r, c)[u] = Count(tm, u) + Count(TokensOf(r), u) + (IF u \in c THEN 1 ELSE 0)
        /\ R[u] = Count(tm, u) + Count(TokensOf(q), u) + (IF u \in c THEN 1 ELSE 0)
        /\ Count(tm, u) \in Nat /\ Count(TokensOf(q), u) \in Nat
    BY <1>1, HeldIsNat
  <2> HIDE DEF R
  <2> QED
    BY <2>1, <2>2, <2>3
<1>7. Plus(R, e.token) \in [Token -> Nat]
  BY <1>2, <1>3, PlusMinus
<1> HIDE DEF R
<1>8. Held(tm, r, c) = Plus(R, e.token)
  BY <1>3, <1>6, <1>7
<1> QED
  BY <1>8 DEF r, R

LEMMA Dequeued ==
  ASSUME NEW q, IsQueue(q), NEW D
  PROVE  IsQueue(Dequeue(q, D)) /\ DOMAIN Dequeue(q, D) = DOMAIN q \ D
<1> DEFINE r == Dequeue(q, D)
<1>1. r = [i \in DOMAIN q \ D |-> q[i]]
  BY DEF Dequeue
<1>2. IsFiniteSet(DOMAIN q \ D)
  BY FS_Subset DEF IsQueue
<1> HIDE DEF r
<1>3. IsFiniteSet(DOMAIN r) /\ r = [i \in DOMAIN r |-> r[i]] /\ DOMAIN r = DOMAIN q \ D
  BY <1>1, <1>2
<1>4. \A i \in DOMAIN r : IsEvent(r[i])
  BY <1>1 DEF IsQueue
<1> QED
  BY <1>3, <1>4 DEF IsQueue, r

\* An event that leaves the queue leaves one reference less.
LEMMA HeldWithout ==
  ASSUME NEW tm \in [Template -> TokenOrNull], NEW q, IsQueue(q), NEW c,
         NEW i \in DOMAIN q
  PROVE  /\ Held(tm, Dequeue(q, {i}), c) = Minus(Held(tm, q, c), q[i].token)
         /\ q[i].token \in TokenOrNull
         /\ q[i].token # NULL => Held(tm, q, c)[q[i].token] > 0
<1> DEFINE R == Held(tm, q, c)
           r == Dequeue(q, {i})
           t == q[i].token
<1>1. IsQueue(r) /\ r = [j \in DOMAIN q \ {i} |-> q[j]]
  BY Dequeued DEF Dequeue
<1>2. t \in TokenOrNull
  BY DEF IsQueue, IsEvent
<1>3. t # NULL => R[t] > 0
  BY <1>2, Holders DEF TokenOrNull
<1> HIDE DEF r
<1>4. R \in [Token -> Nat] /\ Held(tm, r, c) \in [Token -> Nat]
  BY <1>1, HeldIsNat
<1>5. /\ TokensOf(r) = [j \in DOMAIN TokensOf(q) \ {i} |-> TokensOf(q)[j]]
      /\ DOMAIN TokensOf(q) = DOMAIN q /\ TokensOf(q)[i] = t
  BY <1>1 DEF TokensOf
<1>6. IsFiniteSet(DOMAIN q)
  BY DEF IsQueue
<1> HIDE DEF t, R
<1>7. ASSUME NEW u \in Token PROVE Held(tm, r, c)[u] = Minus(R, t)[u]
  <2>1. Count(TokensOf(r), u) = IF t = u THEN Count(TokensOf(q), u) - 1 ELSE Count(TokensOf(q), u)
    BY <1>5, <1>6, CountLess
  <2>2. Minus(R, t)[u] = R[u] - (IF u = t THEN 1 ELSE 0)
    BY <1>2, <1>4, PlusMinus
  <2>3. Held(tm, r, c)[u] = Count(tm, u) + Count(TokensOf(r), u) + (IF u \in c THEN 1 ELSE 0)
    BY <1>1, HeldIsNat
  <2>4. /\ R[u] = Count(tm, u) + Count(TokensOf(q), u) + (IF u \in c THEN 1 ELSE 0)
        /\ Count(tm, u) \in Nat /\ Count(TokensOf(q), u) \in Nat
    BY HeldIsNat DEF R
  <2> QED
    BY <2>1, <2>2, <2>3, <2>4
<1>8. Minus(R, t) \in [Token -> Nat]
  BY <1>2, <1>3, <1>4, PlusMinus
<1>9. Held(tm, r, c) = Minus(R, t)
  BY <1>4, <1>7, <1>8
<1> QED
  BY <1>2, <1>3, <1>9 DEF r, R, t

\* An event is given another token.
LEMMA HeldReplaced ==
  ASSUME NEW tm \in [Template -> TokenOrNull], NEW q, IsQueue(q), NEW c,
         NEW i \in DOMAIN q, NEW t \in TokenOrNull
  PROVE  /\ IsQueue([q EXCEPT ![i].token = t])
         /\ Held(tm, [q EXCEPT ![i].token = t], c) = Plus(Minus(Held(tm, q, c), q[i].token), t)
<1> DEFINE R == Held(tm, q, c)
           r == [q EXCEPT ![i].token = t]
           old == q[i].token
           e == Event(q[i].trigger, q[i].tag, t)
<1>1. q[i] = Event(q[i].trigger, q[i].tag, old) /\ old \in TokenOrNull /\ q[i].trigger \in Action
  BY DEF IsQueue, IsEvent
<1>2. [q[i] EXCEPT !.token = t] = e
  BY <1>1 DEF Event
<1>3. IsEvent(e) /\ e.token = t
  BY <1>1 DEF IsEvent, Event
<1>4. r = [j \in DOMAIN q |-> IF j = i THEN e ELSE q[j]]
  BY <1>2
<1> HIDE DEF e, r
<1>5. IsQueue(r) /\ DOMAIN r = DOMAIN q
  BY <1>3, <1>4 DEF IsQueue
<1>6. old # NULL => R[old] > 0
  BY <1>1, Holders DEF TokenOrNull
<1>7. R \in [Token -> Nat] /\ Held(tm, r, c) \in [Token -> Nat]
  BY <1>5, HeldIsNat
<1>8. /\ TokensOf(r) = [j \in DOMAIN TokensOf(q) |-> IF j = i THEN t ELSE TokensOf(q)[j]]
      /\ DOMAIN TokensOf(q) = DOMAIN q /\ TokensOf(q)[i] = old
  BY <1>3, <1>4 DEF TokensOf
<1>9. IsFiniteSet(DOMAIN q)
  BY DEF IsQueue
<1> HIDE DEF old, R
<1>10. Minus(R, old) \in [Token -> Nat]
  BY <1>1, <1>6, <1>7, PlusMinus
<1>11. Plus(Minus(R, old), t) \in [Token -> Nat]
  BY <1>10, PlusMinus
<1>12. ASSUME NEW u \in Token PROVE Held(tm, r, c)[u] = Plus(Minus(R, old), t)[u]
  <2>1. Count(TokensOf(r), u) =
          Count(TokensOf(q), u) + (IF t = u THEN 1 ELSE 0) - (IF old = u THEN 1 ELSE 0)
    BY <1>8, <1>9, CountOther
  <2>2. Minus(R, old)[u] = R[u] - (IF u = old THEN 1 ELSE 0)
    BY <1>1, <1>7, PlusMinus
  <2>3. Plus(Minus(R, old), t)[u] = Minus(R, old)[u] + (IF u = t THEN 1 ELSE 0)
    BY <1>10, PlusMinus
  <2>4. /\ Held(tm, r, c)[u] = Count(tm, u) + Count(TokensOf(r), u) + (IF u \in c THEN 1 ELSE 0)
        /\ R[u] = Count(tm, u) + Count(TokensOf(q), u) + (IF u \in c THEN 1 ELSE 0)
        /\ Count(tm, u) \in Nat /\ Count(TokensOf(q), u) \in Nat
    BY <1>5, HeldIsNat DEF R
  <2> QED
    BY <2>1, <2>2, <2>3, <2>4
<1>13. Held(tm, r, c) = Plus(Minus(R, old), t)
  BY <1>7, <1>11, <1>12
<1> QED
  BY <1>5, <1>13 DEF r, R, old

\* A writable copy is held by the list of copies.
LEMMA HeldByCopy ==
  ASSUME NEW tm \in [Template -> TokenOrNull], NEW q, IsQueue(q), NEW c,
         NEW t \in Token, t \notin c
  PROVE  Held(tm, q, c \cup {t}) = Plus(Held(tm, q, c), t)
<1> DEFINE R == Held(tm, q, c)
<1>1. R \in [Token -> Nat] /\ Held(tm, q, c \cup {t}) \in [Token -> Nat]
  BY HeldIsNat
<1>2. t \in TokenOrNull
  BY DEF TokenOrNull
<1>3. Plus(R, t) \in [Token -> Nat]
  BY <1>1, <1>2, PlusMinus
<1>4. ASSUME NEW u \in Token PROVE Held(tm, q, c \cup {t})[u] = Plus(R, t)[u]
  <2>1. Plus(R, t)[u] = R[u] + (IF u = t THEN 1 ELSE 0)
    BY <1>1, <1>2, PlusMinus
  <2>2. /\ R[u] = Count(tm, u) + Count(TokensOf(q), u) + (IF u \in c THEN 1 ELSE 0)
        /\ Count(tm, u) \in Nat /\ Count(TokensOf(q), u) \in Nat
    BY HeldIsNat
  <2>3. Held(tm, q, c \cup {t})[u] =
          Count(tm, u) + Count(TokensOf(q), u) + (IF u \in c \cup {t} THEN 1 ELSE 0)
    BY HeldIsNat
  <2> HIDE DEF R
  <2> QED
    BY <2>1, <2>2, <2>3
<1> HIDE DEF R
<1>5. Held(tm, q, c \cup {t}) = Plus(R, t)
  BY <1>1, <1>3, <1>4
<1> QED
  BY <1>5 DEF R

-----------------------------------------------------------------------------
(* Lists of tokens and of events                                           *)

\* DoneUsing() works through a list.
LEMMA DoneUsingRuns ==
  ASSUME NEW h, NEW n \in Nat, NEW s, Len(s) = n
  PROVE  \E after : /\ after[0] = h
                    /\ \A m \in 1 .. n : after[m] = _lf_done_using(after[m - 1], s[m])
                    /\ DoneUsing(h, s) = after[n]
<1> DEFINE Runs(g, m) ==
             g = [i \in 0 .. m |-> IF i = 0 THEN h ELSE _lf_done_using(g[i - 1], s[i])]
           T == {m \in Nat : \E g : Runs(g, m)}
<1>1. 0 \in T
  <2>1. Runs([i \in 0 .. 0 |-> h], 0)
    OBVIOUS
  <2> QED
    BY <2>1
<1>2. ASSUME NEW m \in 0 .. n - 1, m \in T PROVE m + 1 \in T
  <2>1. PICK g : Runs(g, m)
    BY <1>2
  <2> DEFINE f == [i \in 0 .. m + 1 |-> IF i <= m THEN g[i] ELSE _lf_done_using(g[m], s[m + 1])]
  <2>2. \A i \in 0 .. m : g[i] = IF i = 0 THEN h ELSE _lf_done_using(g[i - 1], s[i])
    BY <2>1
  <2>3. ASSUME NEW i \in 0 .. m + 1
        PROVE  f[i] = IF i = 0 THEN h ELSE _lf_done_using(f[i - 1], s[i])
    <3>1. CASE i <= m
      <4>1. f[i] = g[i] /\ (i # 0 => f[i - 1] = g[i - 1]) /\ i \in 0 .. m
        BY <3>1
      <4> HIDE DEF f
      <4> QED
        BY <2>2, <4>1
    <3>2. CASE i = m + 1
      <4>1. f[i] = _lf_done_using(g[m], s[m + 1]) /\ f[i - 1] = g[m]
        BY <3>2
      <4> HIDE DEF f
      <4> QED
        BY <3>2, <4>1
    <3> QED
      BY <3>1, <3>2
  <2>4. f = [i \in 0 .. m + 1 |-> IF i = 0 THEN h ELSE _lf_done_using(f[i - 1], s[i])]
    BY <2>3
  <2>5. m + 1 \in Nat
    OBVIOUS
  <2> HIDE DEF f
  <2> QED
    BY <2>4, <2>5
<1>3. n \in T
  <2> HIDE DEF T
  <2> QED
    BY <1>1, <1>2, InductionTo
<1>4. \E g : Runs(g, n)
  BY <1>3
<1> DEFINE after == CHOOSE g : Runs(g, n)
<1>5. Runs(after, n)
  BY <1>4
<1>6. DoneUsing(h, s) = after[n]
  BY DEF DoneUsing
<1> HIDE DEF after
<1>7. \A i \in 0 .. n : after[i] = IF i = 0 THEN h ELSE _lf_done_using(after[i - 1], s[i])
  BY <1>5
<1>8. after[0] = h /\ \A m \in 1 .. n : after[m] = _lf_done_using(after[m - 1], s[m])
  BY <1>7
<1> QED
  BY <1>6, <1>8

\* PopEach() as well: after[m] is the heap after m events.
Popped(after, h, q, s, n) ==
  after[0] = h /\ \A m \in 1 .. n : after[m] = Pop(after[m - 1], q[s[m]])

LEMMA PopEachRuns ==
  ASSUME NEW h, NEW q, NEW n \in Nat, NEW s, Len(s) = n
  PROVE  \E after : Popped(after, h, q, s, n) /\ PopEach(h, q, s) = after[n]
<1> DEFINE Runs(g, m) ==
             g = [i \in 0 .. m |-> IF i = 0 THEN h ELSE Pop(g[i - 1], q[s[i]])]
           T == {m \in Nat : \E g : Runs(g, m)}
<1>1. 0 \in T
  <2>1. Runs([i \in 0 .. 0 |-> h], 0)
    OBVIOUS
  <2> QED
    BY <2>1
<1>2. ASSUME NEW m \in 0 .. n - 1, m \in T PROVE m + 1 \in T
  <2>1. PICK g : Runs(g, m)
    BY <1>2
  <2> DEFINE f == [i \in 0 .. m + 1 |-> IF i <= m THEN g[i] ELSE Pop(g[m], q[s[m + 1]])]
  <2>2. \A i \in 0 .. m : g[i] = IF i = 0 THEN h ELSE Pop(g[i - 1], q[s[i]])
    BY <2>1
  <2>3. ASSUME NEW i \in 0 .. m + 1
        PROVE  f[i] = IF i = 0 THEN h ELSE Pop(f[i - 1], q[s[i]])
    <3>1. CASE i <= m
      <4>1. f[i] = g[i] /\ (i # 0 => f[i - 1] = g[i - 1]) /\ i \in 0 .. m
        BY <3>1
      <4> HIDE DEF f
      <4> QED
        BY <2>2, <4>1
    <3>2. CASE i = m + 1
      <4>1. f[i] = Pop(g[m], q[s[m + 1]]) /\ f[i - 1] = g[m]
        BY <3>2
      <4> HIDE DEF f
      <4> QED
        BY <3>2, <4>1
    <3> QED
      BY <3>1, <3>2
  <2>4. f = [i \in 0 .. m + 1 |-> IF i = 0 THEN h ELSE Pop(f[i - 1], q[s[i]])]
    BY <2>3
  <2>5. m + 1 \in Nat
    OBVIOUS
  <2> HIDE DEF f
  <2> QED
    BY <2>4, <2>5
<1>3. n \in T
  <2> HIDE DEF T
  <2> QED
    BY <1>1, <1>2, InductionTo
<1>4. \E g : Runs(g, n)
  BY <1>3
<1> DEFINE after == CHOOSE g : Runs(g, n)
<1>5. Runs(after, n)
  BY <1>4
<1>6. PopEach(h, q, s) = after[n]
  BY DEF PopEach
<1> HIDE DEF after
<1>7. \A i \in 0 .. n : after[i] = IF i = 0 THEN h ELSE Pop(after[i - 1], q[s[i]])
  BY <1>5
<1>8. Popped(after, h, q, s, n)
  BY <1>7 DEF Popped
<1> QED
  BY <1>6, <1>8

\* The first m of a list.
First(s, m) == [i \in 1 .. m |-> s[i]]

\* One element more of a list.
LEMMA FirstCount ==
  ASSUME NEW s, NEW m \in Nat, NEW u
  PROVE  Count(First(s, m + 1), u) =
           IF s[m + 1] = u THEN Count(First(s, m), u) + 1 ELSE Count(First(s, m), u)
<1> DEFINE f == First(s, m)
           g == First(s, m + 1)
           x == m + 1
<1>1. DOMAIN f = 1 .. m /\ DOMAIN g = DOMAIN f \cup {x} /\ x \notin DOMAIN f
  BY DEF First
<1>2. g[x] = s[m + 1] /\ \A y \in DOMAIN f : g[y] = f[y]
  BY DEF First
<1>3. IsFiniteSet(DOMAIN f)
  BY <1>1, FS_Interval
<1> HIDE DEF f, g, x
<1>4. Count(g, u) = IF g[x] = u THEN Count(f, u) + 1 ELSE Count(f, u)
  <2>1. /\ IsFiniteSet(DOMAIN f) /\ x \notin DOMAIN f
        /\ DOMAIN g = DOMAIN f \cup {x} /\ \A y \in DOMAIN f : g[y] = f[y]
    BY <1>1, <1>2, <1>3
  <2> QED
    BY <2>1, CountMore
<1>5. Count(g, u) = IF s[m + 1] = u THEN Count(f, u) + 1 ELSE Count(f, u)
  BY <1>2, <1>4
<1> QED
  BY <1>5 DEF f, g

\* A list of tokens of which each is referred to as often as it is listed.
LEMMA DoneUsingAccounts ==
  ASSUME NEW h, NEW R, NEW L, Accounts(h, R, L, {}),
         NEW n \in Nat, NEW s \in [1 .. n -> TokenOrNull],
         \A t \in Token : Count(s, t) <= R[t]
  PROVE  /\ Accounts(DoneUsing(h, s), [t \in Token |-> R[t] - Count(s, t)], L, {})
         /\ DoneUsing(h, s).template = h.template
         /\ Keeps(h, DoneUsing(h, s), {})
<1> DEFINE Left(m) == [t \in Token |-> R[t] - Count(First(s, m), t)]
<1>1. R \in [Token -> Nat]
  BY DEF Accounts
<1>2. Len(s) = n /\ First(s, n) = s /\ DOMAIN s = 1 .. n
  BY DEF First
<1>3. PICK after : /\ after[0] = h
                   /\ \A m \in 1 .. n : after[m] = _lf_done_using(after[m - 1], s[m])
                   /\ DoneUsing(h, s) = after[n]
  BY <1>2, DoneUsingRuns
<1> DEFINE T == {m \in 0 .. n : /\ Accounts(after[m], Left(m), L, {})
                                /\ after[m].template = h.template
                                /\ Keeps(h, after[m], {})}
<1>4. ASSUME NEW m \in 0 .. n
      PROVE  IsFiniteSet(DOMAIN First(s, m)) /\ DOMAIN First(s, m) = 1 .. m
  BY FS_Interval DEF First
<1>5. 0 \in T
  <2>1. \A t \in Token : Count(First(s, 0), t) = 0
    <3>1. \A t : {x \in DOMAIN First(s, 0) : First(s, 0)[x] = t} = {}
      BY <1>4
    <3> QED
      BY <3>1, FS_EmptySet DEF Count
  <2>2. Left(0) = R
    BY <1>1, <2>1
  <2> HIDE DEF Left
  <2> QED
    BY <1>3, <2>2 DEF Keeps
<1>6. ASSUME NEW m \in 0 .. n - 1, m \in T PROVE m + 1 \in T
  <2> DEFINE d == s[m + 1]
  <2>1. m + 1 \in 1 .. n /\ m \in 0 .. n /\ m + 1 \in 0 .. n
    OBVIOUS
  <2>2. after[m + 1] = _lf_done_using(after[m], d)
    BY <1>3, <2>1
  <2>3. d \in TokenOrNull
    BY <2>1
  <2> HIDE DEF d
  <2>6. ASSUME NEW u
        PROVE  Count(First(s, m + 1), u) =
                 IF d = u THEN Count(First(s, m), u) + 1 ELSE Count(First(s, m), u)
    BY <2>1, FirstCount DEF d
  <2>7. ASSUME NEW u \in Token
        PROVE  Count(First(s, m + 1), u) <= R[u] /\ Count(First(s, m), u) \in Nat
    <3> DEFINE F == {x \in DOMAIN First(s, m + 1) : First(s, m + 1)[x] = u}
               G == {x \in DOMAIN s : s[x] = u}
    <3>1. F \subseteq G
      BY <1>2, <1>4, <2>1 DEF First
    <3>2. IsFiniteSet(G)
      BY <1>2, FS_Interval, FS_Subset
    <3>3. Cardinality(F) <= Cardinality(G)
      <4> HIDE DEF F, G
      <4> QED
        BY <3>1, <3>2, FS_Subset
    <3>4. Count(First(s, m), u) \in Nat /\ Count(First(s, m + 1), u) \in Nat /\ Count(s, u) \in Nat
      <4>1. Count(First(s, m), u) \in Nat
        BY <1>4, <2>1, CountIsNat
      <4>2. Count(First(s, m + 1), u) \in Nat
        BY <1>4, <2>1, CountIsNat
      <4>3. Count(s, u) \in Nat
        BY <1>2, FS_Interval, CountIsNat
      <4> QED
        BY <4>1, <4>2, <4>3
    <3>5. Count(First(s, m + 1), u) <= Count(s, u)
      BY <3>3 DEF Count
    <3> QED
      BY <1>1, <3>4, <3>5
  <2>8. Left(m) \in [Token -> Nat]
    BY <1>6 DEF Accounts
  <2>9. d # NULL => Left(m)[d] > 0
    <3> SUFFICES ASSUME d # NULL PROVE Left(m)[d] > 0
      OBVIOUS
    <3>1. d \in Token
      BY <2>3 DEF TokenOrNull
    <3> QED
      BY <1>1, <2>6, <2>7, <3>1
  <2>10. Minus(Left(m), d) = Left(m + 1)
    <3>1. Minus(Left(m), d) \in [Token -> Nat]
      <4> HIDE DEF Left
      <4> QED
        BY <2>3, <2>8, <2>9, PlusMinus
    <3>2. ASSUME NEW u \in Token PROVE Minus(Left(m), d)[u] = Left(m + 1)[u]
      <4>1. Minus(Left(m), d)[u] = Left(m)[u] - (IF u = d THEN 1 ELSE 0)
        <5> HIDE DEF Left
        <5> QED
          BY <2>3, <2>8, PlusMinus
      <4> QED
        BY <1>1, <2>6, <2>7, <4>1
    <3> QED
      BY <3>1, <3>2
  <2>11. Accounts(after[m], Left(m), L, {}) /\ after[m].template = h.template /\ Keeps(h, after[m], {})
    BY <1>6
  <2> HIDE DEF Left
  <2>12. /\ Accounts(after[m + 1], Left(m + 1), L, {})
         /\ after[m + 1].template = h.template
         /\ Keeps(after[m], after[m + 1], {})
    BY <2>2, <2>3, <2>9, <2>10, <2>11, DoneAccounts
  <2> QED
    BY <2>1, <2>11, <2>12, KeepsTransitive
<1>7. n \in T
  <2> HIDE DEF T
  <2> QED
    BY <1>5, <1>6, InductionTo
<1> QED
  BY <1>2, <1>3, <1>7

\* An event's reference passes to its template, whose own is given up.
LEMMA PopAccounts ==
  ASSUME NEW h, NEW L, NEW q, IsQueue(q), NEW i \in DOMAIN q,
         Accounts(h, Held(h.template, q, {}), L, {})
  PROVE  LET k == Pop(h, q[i]) IN
         /\ Accounts(k, Held(k.template, Dequeue(q, {i}), {}), L, {})
         /\ Keeps(h, k, {})
<1> DEFINE tm == h.template
           p == q[i].trigger
           t == q[i].token
           r == Dequeue(q, {i})
           R == Held(tm, q, {})
           k == Pop(h, q[i])
           m == _lf_replace_template_token(h, p, t)
<1>1. h \in Heap /\ tm \in [Template -> TokenOrNull]
  BY DEF Accounts, Heap
<1>2. p \in Template /\ t \in TokenOrNull /\ tm[p] \in TokenOrNull
  BY <1>1 DEF IsQueue, IsEvent, Template
<1>3. k = _lf_done_using(m, t)
  BY DEF Pop
<1>4. R \in [Token -> Nat]
  BY <1>1, HeldIsNat
<1>5. IsQueue(r)
  BY Dequeued
<1>6. /\ Held(tm, r, {}) = Minus(R, t)
      /\ t # NULL => R[t] > 0
  BY <1>1, HeldWithout
<1>7. tm[p] # NULL => R[tm[p]] > 0
  BY <1>1, <1>2, Holders DEF TokenOrNull
<1>8. CASE tm[p] = t
  <2>1. m = h
    BY <1>8 DEF _lf_replace_template_token
  <2> HIDE DEF R, r, m, k, p, t
  <2>2. Accounts(k, Minus(R, t), L, {}) /\ k.template = tm /\ Keeps(h, k, {})
    BY <1>2, <1>3, <1>6, <2>1, DoneAccounts DEF R
  <2> QED
    BY <1>6, <2>2 DEF k, r, t, p
<1>9. CASE tm[p] # t
  <2> DEFINE old == tm[p]
             g == _lf_done_using(h, old)
             n == Referenced(g, t)
  <2>1. m = [n EXCEPT !.template[p] = t]
    BY <1>9 DEF _lf_replace_template_token
  <2>2. old \in TokenOrNull /\ (old # NULL => R[old] > 0)
    BY <1>2, <1>7
  <2> HIDE DEF R, r, m, k, p, t, old, n, g
  <2>3. Accounts(g, Minus(R, old), L, {}) /\ g.template = tm /\ Keeps(h, g, {})
    BY <2>2, DoneAccounts DEF R, g
  <2>4. t # NULL => Minus(R, old)[t] > 0
    <3> SUFFICES ASSUME t # NULL PROVE Minus(R, old)[t] > 0
      OBVIOUS
    <3>1. t \in Token
      BY <1>2 DEF TokenOrNull
    <3>2. Minus(R, old)[t] = R[t] - (IF t = old THEN 1 ELSE 0)
      BY <1>4, <2>2, <3>1, PlusMinus
    <3>3. t # old
      BY <1>9 DEF old
    <3> QED
      BY <1>4, <1>6, <3>1, <3>2, <3>3
  <2>5. Minus(R, old) \in [Token -> Nat]
    BY <1>4, <2>2, PlusMinus
  <2> DEFINE M == Minus(R, old)
             P == Plus(M, t)
  <2>6. Accounts(n, P, L, {}) /\ n.template = tm /\ Keeps(g, n, {})
    <3> HIDE DEF M
    <3>1. Accounts(g, M, L, {}) /\ (t # NULL => M[t] > 0)
      BY <2>3, <2>4 DEF M
    <3>2. {} \ {t} = {}
      OBVIOUS
    <3> QED
      BY <1>2, <2>3, <3>1, <3>2, ReferencedAccounts DEF n
  <2>7. Accounts(m, P, L, {}) /\ m.template = [tm EXCEPT ![p] = t] /\ Keeps(n, m, {})
    <3> HIDE DEF P
    <3> QED
      BY <1>2, <2>1, <2>6, TemplateAccounts
  <2>8. P \in [Token -> Nat] /\ (t # NULL => P[t] > 0) /\ Minus(P, t) = M
    <3> HIDE DEF M
    <3> QED
      BY <1>2, <2>5, PlusMinus DEF M
  <2>9. Accounts(k, M, L, {}) /\ k.template = m.template /\ Keeps(m, k, {})
    <3> HIDE DEF M, P
    <3> QED
      BY <1>2, <1>3, <2>7, <2>8, DoneAccounts
  <2>10. Held(k.template, r, {}) = M
    <3>1. Held([tm EXCEPT ![p] = t], r, {}) = Plus(Minus(Held(tm, r, {}), tm[p]), t)
      BY <1>1, <1>2, <1>5, HeldByTemplate
    <3>2. Held(k.template, r, {}) = Plus(Minus(Minus(R, t), old), t)
      BY <1>6, <2>7, <2>9, <3>1 DEF old
    <3>3. Minus(R, t) \in [Token -> Nat]
      BY <1>2, <1>4, <1>6, PlusMinus
    <3> DEFINE A == Minus(R, t)
    <3>4. old # NULL => A[old] > 0
      <4> SUFFICES ASSUME old # NULL PROVE A[old] > 0
        OBVIOUS
      <4>1. old \in Token
        BY <2>2 DEF TokenOrNull
      <4>2. Minus(R, t)[old] = R[old] - (IF old = t THEN 1 ELSE 0)
        BY <1>2, <1>4, <4>1, PlusMinus
      <4>3. t # old
        BY <1>9 DEF old
      <4> QED
        BY <1>4, <2>2, <4>1, <4>2, <4>3
    <3> DEFINE B == Minus(A, old)
    <3>5. B \in [Token -> Nat]
      <4> HIDE DEF A
      <4> QED
        BY <2>2, <3>3, <3>4, PlusMinus DEF A
    <3>6. Plus(B, t) \in [Token -> Nat]
      <4> HIDE DEF B
      <4> QED
        BY <1>2, <3>5, PlusMinus
    <3>7. ASSUME NEW u \in Token PROVE Plus(B, t)[u] = M[u]
      <4>1. A[u] = R[u] - (IF u = t THEN 1 ELSE 0)
        BY <1>2, <1>4, PlusMinus
      <4>2. M[u] = R[u] - (IF u = old THEN 1 ELSE 0)
        BY <1>4, <2>2, PlusMinus
      <4>3. B[u] = A[u] - (IF u = old THEN 1 ELSE 0)
        <5> HIDE DEF A
        <5> QED
          BY <2>2, <3>3, PlusMinus DEF A
      <4>4. Plus(B, t)[u] = B[u] + (IF u = t THEN 1 ELSE 0)
        <5> HIDE DEF B
        <5> QED
          BY <1>2, <3>5, PlusMinus
      <4>5. R[u] \in Nat
        BY <1>4
      <4> HIDE DEF A, B, M
      <4> QED
        BY <4>1, <4>2, <4>3, <4>4, <4>5
    <3>8. Plus(B, t) = M
      <4> HIDE DEF B
      <4> QED
        BY <2>5, <3>6, <3>7
    <3> QED
      BY <3>2, <3>8
  <2>11. Keeps(h, k, {})
    BY <2>3, <2>6, <2>7, <2>9, KeepsTransitive
  <2> HIDE DEF M
  <2> QED
    BY <2>9, <2>10, <2>11 DEF k, r, t, p, tm
<1> QED
  BY <1>8, <1>9

\* A list of events: what is left is held by the rest of the queue.
LEMMA PopEachAccounts ==
  ASSUME NEW h, NEW L, NEW q, IsQueue(q),
         Accounts(h, Held(h.template, q, {}), L, {}),
         NEW n \in Nat, NEW s \in [1 .. n -> DOMAIN q],
         \A i, j \in 1 .. n : s[i] = s[j] => i = j
  PROVE  LET k == PopEach(h, q, s)
             rest == Dequeue(q, {s[i] : i \in 1 .. n}) IN
         /\ Accounts(k, Held(k.template, rest, {}), L, {})
         /\ Keeps(h, k, {})
<1> DEFINE Rest(m) == Dequeue(q, {s[i] : i \in 1 .. m})
<1>1. Len(s) = n
  OBVIOUS
<1>2. PICK after : Popped(after, h, q, s, n) /\ PopEach(h, q, s) = after[n]
  BY <1>1, PopEachRuns
<1> DEFINE T == {m \in 0 .. n : /\ Accounts(after[m], Held(after[m].template, Rest(m), {}), L, {})
                                /\ Keeps(h, after[m], {})}
<1>3. 0 \in T
  <2>1. {s[i] : i \in 1 .. 0} = {}
    OBVIOUS
  <2>2. Rest(0) = q
    BY <2>1 DEF Dequeue, IsQueue
  <2> HIDE DEF Rest
  <2> QED
    BY <1>2, <2>2 DEF Keeps, Popped
<1>4. ASSUME NEW m \in 0 .. n - 1, m \in T PROVE m + 1 \in T
  <2> DEFINE i == s[m + 1]
  <2>1. m + 1 \in 1 .. n /\ m + 1 \in 0 .. n /\ i \in DOMAIN q
    OBVIOUS
  <2>2. after[m + 1] = Pop(after[m], q[i])
    BY <1>2, <2>1 DEF Popped
  <2>3. i \notin {s[j] : j \in 1 .. m}
    BY <2>1
  <2>4. IsQueue(Rest(m)) /\ i \in DOMAIN Rest(m) /\ Rest(m)[i] = q[i]
    BY <2>1, <2>3, Dequeued DEF Dequeue
  <2>5. {s[j] : j \in 1 .. m + 1} = {s[j] : j \in 1 .. m} \cup {i}
    <3>1. 1 .. m + 1 = (1 .. m) \cup {m + 1}
      OBVIOUS
    <3> QED
      BY <3>1
  <2>6. Rest(m + 1) = Dequeue(Rest(m), {i})
    <3>1. DOMAIN q \ {s[j] : j \in 1 .. m + 1} = (DOMAIN q \ {s[j] : j \in 1 .. m}) \ {i}
      BY <2>5
    <3> QED
      BY <3>1 DEF Dequeue
  <2>7. /\ Accounts(after[m], Held(after[m].template, Rest(m), {}), L, {})
        /\ Keeps(h, after[m], {})
    BY <1>4
  <2> HIDE DEF Rest, i
  <2>8. /\ Accounts(after[m + 1], Held(after[m + 1].template, Rest(m + 1), {}), L, {})
        /\ Keeps(after[m], after[m + 1], {})
    <3> DEFINE r == Rest(m)
               a == after[m]
               b == after[m + 1]
    <3>1. /\ IsQueue(r) /\ i \in DOMAIN r /\ b = Pop(a, r[i])
          /\ Accounts(a, Held(a.template, r, {}), L, {})
      BY <2>2, <2>4, <2>7
    <3> HIDE DEF r, a, b
    <3>2. Accounts(b, Held(b.template, Dequeue(r, {i}), {}), L, {}) /\ Keeps(a, b, {})
      BY <3>1, PopAccounts
    <3> QED
      BY <2>6, <3>2 DEF r, a, b
  <2> QED
    BY <2>1, <2>7, <2>8, KeepsTransitive
<1>5. n \in T
  <2> HIDE DEF T
  <2> QED
    BY <1>3, <1>4, InductionTo
<1> QED
  BY <1>2, <1>5

-----------------------------------------------------------------------------
(* What the operations on templates and on the queue do to the accounts    *)

LEMMA PlusThenMinus ==
  ASSUME NEW R \in [Token -> Nat], NEW t \in TokenOrNull, NEW u \in TokenOrNull
  PROVE  Minus(Plus(R, t), u) = Plus(Minus(R, u), t)
<1>1. CASE t = NULL \/ u = NULL
  BY <1>1 DEF Plus, Minus
<1>2. CASE t # NULL /\ u # NULL
  <2>1. t \in Token /\ u \in Token
    BY <1>2 DEF TokenOrNull
  <2>2. /\ Minus(Plus(R, t), u) = [[R EXCEPT ![t] = @ + 1] EXCEPT ![u] = @ - 1]
        /\ Plus(Minus(R, u), t) = [[R EXCEPT ![u] = @ - 1] EXCEPT ![t] = @ + 1]
    BY <1>2 DEF Plus, Minus
  <2>3. \A w \in Token : [[R EXCEPT ![t] = @ + 1] EXCEPT ![u] = @ - 1][w]
                           = [[R EXCEPT ![u] = @ - 1] EXCEPT ![t] = @ + 1][w]
    BY <2>1
  <2> QED
    BY <2>2, <2>3
<1> QED
  BY <1>1, <1>2

\* Accounts that hold for one token that is new: it is not referred to.
LEMMA NewIsUnused ==
  ASSUME NEW h, NEW R, NEW L, NEW N, Accounts(h, R, L, N), NEW t \in Token, t \in N
  PROVE  h.ref_count[t] = 0 /\ R[t] = 0
<1>1. h.ref_count[t] = 0 /\ R[t] <= h.ref_count[t] /\ R[t] \in Nat
  BY DEF Accounts
<1> QED
  BY <1>1

\* A template whose token others refer to gets a new one.
LEMMA GetTokenAccounts ==
  ASSUME NEW h, NEW L, NEW q, IsQueue(q), NEW c,
         Accounts(h, Held(h.template, q, c), L, {}),
         NEW p \in Template, NEW t \in Fresh(h)
  PROVE  LET k == _lf_get_token(h, p, t) IN
         /\ Accounts(k, Held(k.template, q, c), L, {})
         /\ Unshared(h, k)
         /\ k.template[p] \in Token /\ h.ref_count[k.template[p]] <= 1
<1> DEFINE R == Held(h.template, q, c)
           k == _lf_get_token(h, p, t)
           old == h.template[p]
<1>1. /\ h \in Heap /\ h.template \in [Template -> TokenOrNull] /\ old \in TokenOrNull
      /\ h.ref_count \in [Token -> Nat]
  BY DEF Accounts, Heap
<1>2. R \in [Token -> Nat] /\ (old # NULL => R[old] > 0)
  BY <1>1, HeldIsNat, Holders DEF TokenOrNull
<1>3. CASE old # NULL /\ h.ref_count[old] = 1
  <2>1. k = [h EXCEPT !.value[old] = NULL] /\ old \in Token
    BY <1>1, <1>3 DEF _lf_get_token, TokenOrNull
  <2>2. /\ k \in Heap /\ k.ref_count = h.ref_count /\ k.bin = h.bin /\ k.template = h.template
        /\ \A u \in Token : k.value[u] = IF u = old THEN NULL ELSE h.value[u]
    BY <1>1, <2>1 DEF Heap
  <2> HIDE DEF k, old
  <2>3. Accounts(k, R, L, {})
    BY <2>1, <2>2 DEF Accounts
  <2>4. Unshared(h, k)
    BY <1>3, <2>1, <2>2 DEF Unshared
  <2> QED
    BY <1>3, <2>1, <2>2, <2>3, <2>4 DEF k, old
<1>4. CASE ~(old # NULL /\ h.ref_count[old] = 1)
  <2> DEFINE a == _lf_new_token(h, t, NULL)
             b == Referenced(a, t)
             d == [b EXCEPT !.template[p] = t]
             P == Plus(R, t)
             S == Minus(P, old)
  <2>1. k = _lf_done_using(d, old)
    BY <1>4 DEF _lf_get_token
  <2>2. /\ t \in Token /\ h.ref_count[t] = 0 /\ R[t] = 0
        /\ Accounts(a, R, L, {t}) /\ a.template = h.template /\ Keeps(h, a, {t})
    <3>1. Accounts(h, R, L, {})
      OBVIOUS
    <3> HIDE DEF R
    <3> QED
      BY <3>1, NewAccounts
  <2>3. t \in TokenOrNull /\ t # NULL
    BY <2>2, NullIsNoToken DEF TokenOrNull
  <2> HIDE DEF a, R
  <2>4. Accounts(b, P, L, {}) /\ b.template = h.template /\ Keeps(h, b, {t})
    <3>1. Accounts(b, P, L, {t} \ {t}) /\ b.template = a.template /\ Keeps(a, b, {t})
      BY <2>2, <2>3, ReferencedAccounts
    <3>2. {t} \ {t} = {}
      OBVIOUS
    <3> HIDE DEF b, P
    <3> QED
      BY <2>2, <3>1, <3>2, KeepsTransitive
  <2> HIDE DEF b
  <2>5. /\ Accounts(d, P, L, {}) /\ d.template = [h.template EXCEPT ![p] = t]
        /\ Keeps(b, d, {})
    BY <2>3, <2>4, TemplateAccounts
  <2>6. P \in [Token -> Nat] /\ (old # NULL => P[old] > 0)
    BY <1>1, <1>2, <2>3, PlusMinus DEF TokenOrNull
  <2> HIDE DEF d, P
  <2>7. /\ Accounts(k, S, L, {}) /\ k.template = d.template /\ Keeps(d, k, {})
    BY <1>1, <2>1, <2>5, <2>6, DoneAccounts
  <2>8. k.template = [h.template EXCEPT ![p] = t] /\ k.template[p] = t
    BY <1>1, <2>5, <2>7
  <2>9. S = Held(k.template, q, c)
    <3>1. Held([h.template EXCEPT ![p] = t], q, c) = Plus(Minus(R, old), t)
      BY <1>1, <2>3, HeldByTemplate DEF R
    <3>2. S = Plus(Minus(R, old), t)
      BY <1>1, <1>2, <2>3, PlusThenMinus DEF P
    <3> QED
      BY <2>8, <3>1, <3>2
  <2> HIDE DEF k, S
  <2>10. Keeps(h, k, {t})
    BY <2>4, <2>5, <2>7 DEF Keeps
  <2>11. Unshared(h, k)
    BY <2>2, <2>10, KeepsIsUnshared
  <2> QED
    BY <2>2, <2>7, <2>8, <2>9, <2>11 DEF k
<1> QED
  BY <1>3, <1>4

\* The payload is written where nobody else reads it.
LEMMA InitializeAccounts ==
  ASSUME NEW h, NEW L, NEW q, IsQueue(q), NEW c,
         Accounts(h, Held(h.template, q, c), L, {}),
         NEW p \in Template, NEW t \in Fresh(h), NEW v \in Value
  PROVE  LET k == _lf_initialize_token_with_value(h, p, t, v) IN
         /\ Accounts(k, Held(k.template, q, c), L, {})
         /\ Unshared(h, k)
         /\ k.template[p] \in Token /\ Held(k.template, q, c)[k.template[p]] > 0
<1> DEFINE g == _lf_get_token(h, p, t)
           u == g.template[p]
           k == _lf_initialize_token_with_value(h, p, t, v)
           R == Held(g.template, q, c)
<1>1. /\ Accounts(g, R, L, {}) /\ Unshared(h, g)
      /\ u \in Token /\ h.ref_count[u] <= 1 /\ h.ref_count \in [Token -> Nat]
  <2>1. h.ref_count \in [Token -> Nat]
    BY DEF Accounts, Heap
  <2>2. /\ Accounts(g, R, L, {}) /\ Unshared(h, g)
        /\ u \in Token /\ h.ref_count[u] <= 1
    BY GetTokenAccounts
  <2> QED
    BY <2>1, <2>2
<1>2. k = [g EXCEPT !.value[u] = v]
  BY DEF _lf_initialize_token_with_value
<1> HIDE DEF g, k
<1>3. g \in Heap /\ g.template \in [Template -> TokenOrNull]
  BY <1>1 DEF Accounts, Heap
<1>4. /\ k \in Heap /\ k.ref_count = g.ref_count /\ k.bin = g.bin /\ k.template = g.template
      /\ \A w \in Token : k.value[w] = IF w = u THEN v ELSE g.value[w]
  BY <1>1, <1>2, <1>3 DEF Heap
<1>5. R[u] > 0
  BY <1>1, <1>3, Holders
<1> HIDE DEF u, R
<1>6. g.ref_count[u] > 0
  BY <1>1, <1>3, <1>5 DEF Accounts, Heap
<1>7. Accounts(k, R, L, {})
  BY <1>1, <1>4, <1>6 DEF Accounts
<1>8. Unshared(h, k)
  BY <1>1, <1>4 DEF Unshared
<1> QED
  BY <1>1, <1>4, <1>5, <1>7, <1>8 DEF k, R, u

\* A template is given a token that is at hand (N is empty) or was just made.
LEMMA ReplaceAccounts ==
  ASSUME NEW h, NEW L, NEW N, NEW q, IsQueue(q), NEW c,
         Accounts(h, Held(h.template, q, c), L, N),
         NEW p \in Template, NEW t \in Token, N \subseteq {t},
         Held(h.template, q, c)[t] > 0 \/ t \in N
  PROVE  LET k == _lf_replace_template_token(h, p, t) IN
         /\ Accounts(k, Held(k.template, q, c), L, {})
         /\ Keeps(h, k, N)
<1> DEFINE R == Held(h.template, q, c)
           k == _lf_replace_template_token(h, p, t)
           old == h.template[p]
<1>1. h \in Heap /\ h.template \in [Template -> TokenOrNull] /\ old \in TokenOrNull
  BY DEF Accounts, Heap
<1>2. R \in [Token -> Nat] /\ (old # NULL => R[old] > 0)
  BY <1>1, HeldIsNat, Holders DEF TokenOrNull
<1>3. t \in TokenOrNull /\ t # NULL
  BY NullIsNoToken DEF TokenOrNull
<1>4. CASE old = t
  <2>1. k = h
    BY <1>4 DEF _lf_replace_template_token
  <2>2. t \notin N
    BY <1>2, <1>3, <1>4, NewIsUnused
  <2>3. N = {}
    BY <2>2
  <2> QED
    BY <2>1, <2>3 DEF Keeps
<1>5. CASE old # t
  <2> DEFINE a == _lf_done_using(h, old)
             b == Referenced(a, t)
             M == Minus(R, old)
             S == Plus(M, t)
  <2>1. k = [b EXCEPT !.template[p] = t]
    BY <1>5 DEF _lf_replace_template_token
  <2>2. Accounts(a, M, L, N) /\ a.template = h.template /\ Keeps(h, a, {})
    <3>1. Accounts(h, R, L, N)
      OBVIOUS
    <3> HIDE DEF R, old
    <3> QED
      BY <1>1, <1>2, <3>1, DoneAccounts
  <2>3. M[t] > 0 \/ t \in N
    <3>1. R[t] > 0 \/ t \in N
      OBVIOUS
    <3> HIDE DEF R, old
    <3>2. M[t] = R[t]
      BY <1>1, <1>2, <1>5, PlusMinus
    <3> QED
      BY <3>1, <3>2
  <2> HIDE DEF a, M
  <2>4. Accounts(b, S, L, N \ {t}) /\ b.template = a.template /\ Keeps(a, b, N)
    BY <1>3, <2>2, <2>3, ReferencedAccounts
  <2>5. N \ {t} = {}
    OBVIOUS
  <2> HIDE DEF b, S
  <2>6. /\ Accounts(k, S, L, {}) /\ Keeps(b, k, {})
        /\ k.template = [h.template EXCEPT ![p] = t]
    BY <1>3, <2>1, <2>2, <2>4, <2>5, TemplateAccounts
  <2>7. S = Held(k.template, q, c)
    BY <1>1, <1>3, <2>6, HeldByTemplate DEF S, M
  <2>8. Keeps(h, k, N)
    BY <2>2, <2>4, <2>6 DEF Keeps
  <2> QED
    BY <2>6, <2>7, <2>8
<1> QED
  BY <1>4, <1>5

\* An event holds the reference its token was given, an event after the stop
\* tag gives it up.
LEMMA InsertAccounts ==
  ASSUME NEW k, NEW L, NEW queue, IsQueue(queue), NEW c, NEW a \in Action, NEW tag,
         NEW token \in TokenOrNull, k.template \in [Template -> TokenOrNull],
         Accounts(k, Plus(Held(k.template, queue, c), token), L, {}),
         Insert(a, tag, token, k, queue)
  PROVE  /\ IsQueue(event_q')
         /\ Accounts(heap', Held(heap'.template, event_q', c), L, {})
         /\ Keeps(k, heap', {})
<1> DEFINE R == Held(k.template, queue, c)
<1>1. R \in [Token -> Nat]
  BY HeldIsNat
<1>2. CASE Less(stop_tag, tag)
  <2>1. heap' = _lf_done_using(k, token) /\ event_q' = queue
    BY <1>2 DEF Insert, Discarded
  <2> DEFINE P == Plus(R, token)
  <2>2. token # NULL => P[token] > 0
    BY <1>1, PlusMinus
  <2>3. Minus(P, token) = R
    BY <1>1, PlusMinus
  <2>4. Accounts(k, P, L, {})
    OBVIOUS
  <2> HIDE DEF P
  <2>5. /\ Accounts(heap', Minus(P, token), L, {}) /\ heap'.template = k.template
        /\ Keeps(k, heap', {})
    BY <2>1, <2>2, <2>4, DoneAccounts
  <2> QED
    BY <2>1, <2>3, <2>5
<1>3. CASE ~Less(stop_tag, tag)
  <2> DEFINE e == Event(a, tag, token)
  <2>1. heap' = k /\ event_q' = Enqueue(queue, e)
    BY <1>3 DEF Insert
  <2>2. IsEvent(e) /\ e.token = token
    BY DEF IsEvent, Event
  <2> HIDE DEF e
  <2>3. IsQueue(event_q')
    BY <2>1, <2>2, Enqueued
  <2>4. Held(k.template, event_q', c) = Plus(R, token)
    BY <2>1, <2>2, HeldByEvent
  <2> QED
    BY <2>1, <2>3, <2>4 DEF Keeps
<1> QED
  BY <1>2, <1>3

\* Whatever becomes of an event that is too early, its token and the one it
\* replaces stay accounted for.
LEMMA TriggerAccounts ==
  ASSUME NEW h, NEW N, NEW c, IsQueue(event_q),
         Accounts(h, Held(h.template, event_q, c), lost, N),
         NEW a \in Action, NEW intended, NEW token \in TokenOrNull, N \subseteq {token},
         token # NULL => Held(h.template, event_q, c)[token] > 0 \/ token \in N,
         lf_schedule_trigger(a, intended, token, h)
  PROVE  /\ IsQueue(event_q')
         /\ Accounts(heap', Held(heap'.template, event_q', c), lost', {})
         /\ Keeps(h, heap', N)
<1> DEFINE R == Held(h.template, event_q, c)
           k == Referenced(h, token)
           P == Plus(R, token)
           previous == Queued(a, last_tag[a])
           old(i) == event_q[i].token
           early == Early(a, intended)
<1>1. h.template \in [Template -> TokenOrNull] /\ R \in [Token -> Nat]
  BY DEF Accounts, Heap
<1>2. Accounts(k, P, lost, {}) /\ k.template = h.template /\ Keeps(h, k, N)
  <2>1. Accounts(h, R, lost, N) /\ (token # NULL => R[token] > 0 \/ token \in N)
    OBVIOUS
  <2> HIDE DEF R, k
  <2>2. Accounts(k, P, lost, N \ {token}) /\ k.template = h.template /\ Keeps(h, k, N)
    BY <2>1, ReferencedAccounts DEF k
  <2>3. N \ {token} = {}
    OBVIOUS
  <2> QED
    BY <2>2, <2>3
<1>3. /\ Minus(P, token) = R
      /\ token # NULL => P[token] > 0
      /\ P \in [Token -> Nat]
  BY <1>1, PlusMinus
<1>4. \A i \in previous :
        /\ i \in DOMAIN event_q /\ old(i) \in TokenOrNull
        /\ old(i) # NULL => R[old(i)] > 0 /\ P[old(i)] > 0
        /\ Held(h.template, Dequeue(event_q, {i}), c) = Minus(R, old(i))
        /\ Minus(P, old(i)) = Plus(Minus(R, old(i)), token)
  <2> TAKE i \in previous
  <2>1. i \in DOMAIN event_q
    BY DEF Queued
  <2>2. /\ old(i) \in TokenOrNull /\ (old(i) # NULL => R[old(i)] > 0)
        /\ Held(h.template, Dequeue(event_q, {i}), c) = Minus(R, old(i))
    <3> DEFINE tm == h.template
    <3>1. tm \in [Template -> TokenOrNull]
      BY <1>1
    <3> HIDE DEF tm
    <3>2. /\ Held(tm, Dequeue(event_q, {i}), c) = Minus(Held(tm, event_q, c), event_q[i].token)
          /\ event_q[i].token \in TokenOrNull
          /\ event_q[i].token # NULL => Held(tm, event_q, c)[event_q[i].token] > 0
      BY <2>1, <3>1, HeldWithout
    <3> QED
      BY <3>2 DEF tm
  <2> HIDE DEF R, old
  <2>3. \A u \in Token : P[u] = R[u] + (IF u = token THEN 1 ELSE 0)
    BY <1>1, PlusMinus
  <2>4. old(i) # NULL => P[old(i)] > 0
    BY <1>1, <2>2, <2>3 DEF TokenOrNull
  <2>5. Minus(P, old(i)) = Plus(Minus(R, old(i)), token)
    BY <1>1, <2>2, PlusThenMinus
  <2> QED
    BY <2>1, <2>2, <2>4, <2>5
<1>5. \/ early /\ policy(a) = "drop"
         /\ heap' = _lf_done_using(k, token) /\ event_q' = event_q /\ lost' = lost
      \/ \E i \in previous : ReplaceToken(i, token, k)
      \/ \E i \in previous :
           /\ Insert(a, EventTag(a, intended), token, k, Dequeue(event_q, {i}))
           /\ lost' = lost \cup ({old(i)} \ {NULL})
      \/ Insert(a, EventTag(a, intended), token, k, event_q) /\ lost' = lost
  BY DEF lf_schedule_trigger
<1> HIDE DEF k, previous, early, R, P
<1>6. CASE heap' = _lf_done_using(k, token) /\ event_q' = event_q /\ lost' = lost
  <2>1. /\ Accounts(heap', Minus(P, token), lost, {}) /\ heap'.template = k.template
        /\ Keeps(k, heap', {})
    BY <1>2, <1>3, <1>6, DoneAccounts
  <2>2. Accounts(heap', Held(heap'.template, event_q', c), lost', {})
    BY <1>2, <1>3, <1>6, <2>1 DEF R
  <2> QED
    BY <1>2, <1>6, <2>1, <2>2 DEF Keeps
<1>7. ASSUME NEW i \in previous, ReplaceToken(i, token, k)
      PROVE  /\ IsQueue(event_q')
             /\ Accounts(heap', Held(heap'.template, event_q', c), lost', {})
             /\ Keeps(h, heap', N)
  <2>1. event_q' = [event_q EXCEPT ![i].token = token]
    BY <1>7 DEF ReplaceToken
  <2>2. IsQueue(event_q') /\ Held(h.template, event_q', c) = Plus(Minus(R, old(i)), token)
    <3> DEFINE tm == h.template
    <3>1. tm \in [Template -> TokenOrNull] /\ i \in DOMAIN event_q
      BY <1>1, <1>4
    <3> HIDE DEF tm
    <3>2. /\ IsQueue([event_q EXCEPT ![i].token = token])
          /\ Held(tm, [event_q EXCEPT ![i].token = token], c)
               = Plus(Minus(Held(tm, event_q, c), event_q[i].token), token)
      BY <3>1, HeldReplaced
    <3> QED
      BY <2>1, <3>2 DEF tm, R
  <2>3. Held(h.template, event_q', c) = Minus(P, old(i))
    BY <1>4, <2>2
  <2>4. CASE old(i) = token
    <3>1. heap' = k /\ lost' = lost \cup ({token} \ {NULL})
      BY <1>7, <2>4 DEF ReplaceToken
    <3>2. Accounts(k, Minus(P, token), lost \cup ({token} \ {NULL}), {})
      BY <1>2, <1>3, LostAccounts
    <3> QED
      BY <1>2, <2>2, <2>3, <2>4, <3>1, <3>2
  <2>5. CASE old(i) # token
    <3>1. heap' = _lf_done_using(k, old(i)) /\ lost' = lost
      BY <1>7, <2>5 DEF ReplaceToken
    <3>2. /\ Accounts(heap', Minus(P, old(i)), lost, {}) /\ heap'.template = k.template
          /\ Keeps(k, heap', {})
      <4> HIDE DEF old
      <4> QED
        BY <1>2, <1>4, <3>1, DoneAccounts
    <3>3. Keeps(h, heap', N)
      BY <1>2, <3>2 DEF Keeps
    <3> QED
      BY <1>2, <2>2, <2>3, <3>1, <3>2, <3>3
  <2> QED
    BY <2>4, <2>5
<1>8. ASSUME NEW i \in previous,
             Insert(a, EventTag(a, intended), token, k, Dequeue(event_q, {i})),
             lost' = lost \cup ({old(i)} \ {NULL})
      PROVE  /\ IsQueue(event_q')
             /\ Accounts(heap', Held(heap'.template, event_q', c), lost', {})
             /\ Keeps(h, heap', N)
  <2> DEFINE rest == Dequeue(event_q, {i})
             tag == EventTag(a, intended)
  <2>1. IsQueue(rest)
    BY Dequeued
  <2>2. Accounts(k, Minus(P, old(i)), lost', {})
    <3> HIDE DEF old
    <3> QED
      BY <1>2, <1>4, <1>8, LostAccounts
  <2>3. Minus(P, old(i)) = Plus(Held(k.template, rest, c), token)
    BY <1>2, <1>4
  <2>4. Insert(a, tag, token, k, rest) /\ k.template \in [Template -> TokenOrNull]
    BY <1>1, <1>2, <1>8
  <2> HIDE DEF rest, tag, old
  <2>5. /\ IsQueue(event_q')
        /\ Accounts(heap', Held(heap'.template, event_q', c), lost', {})
        /\ Keeps(k, heap', {})
    BY <2>1, <2>2, <2>3, <2>4, InsertAccounts
  <2> QED
    BY <1>2, <2>5 DEF Keeps
<1>9. CASE Insert(a, EventTag(a, intended), token, k, event_q) /\ lost' = lost
  <2> DEFINE tag == EventTag(a, intended)
  <2>1. /\ Accounts(k, Plus(Held(k.template, event_q, c), token), lost, {})
        /\ Insert(a, tag, token, k, event_q) /\ k.template \in [Template -> TokenOrNull]
    BY <1>1, <1>2, <1>9 DEF P, R
  <2> HIDE DEF tag
  <2>2. /\ IsQueue(event_q')
        /\ Accounts(heap', Held(heap'.template, event_q', c), lost, {})
        /\ Keeps(k, heap', {})
    BY <2>1, InsertAccounts
  <2> QED
    BY <1>2, <1>9, <2>2 DEF Keeps
<1> HIDE DEF old
<1> QED
  BY <1>5, <1>6, <1>7, <1>8, <1>9

-----------------------------------------------------------------------------
(* The actions                                                             *)

LEMMA HeldNow ==
  ASSUME IInv
  PROVE  /\ heap \in Heap /\ heap.template \in [Template -> TokenOrNull]
         /\ heap.ref_count \in [Token -> Nat]
         /\ Held(heap.template, event_q, copies) \in [Token -> Nat]
         /\ \A t \in AtHand : t \in Token /\ Held(heap.template, event_q, copies)[t] > 0
<1>1. /\ heap \in Heap /\ heap.template \in [Template -> TokenOrNull]
      /\ heap.ref_count \in [Token -> Nat]
  BY DEF IInv, Accounts, Heap
<1>2. Held(heap.template, event_q, copies) \in [Token -> Nat]
  BY DEF IInv, Accounts
<1>3. ASSUME NEW t \in AtHand
      PROVE  t \in Token /\ Held(heap.template, event_q, copies)[t] > 0
  <2>1. t \in Token /\ (t \in copies \/ \E p \in Template : heap.template[p] = t)
    BY <1>1 DEF IInv, AtHand, TokenOrNull
  <2> DEFINE tm == heap.template
  <2>2. tm \in [Template -> TokenOrNull] /\ IsQueue(event_q)
    BY <1>1 DEF IInv
  <2>3. t \in copies \/ \E p \in Template : tm[p] = t
    BY <2>1
  <2> HIDE DEF tm
  <2>4. Held(tm, event_q, copies)[t] > 0
    BY <2>1, <2>2, <2>3, Holders
  <2> QED
    BY <2>1, <2>4 DEF tm
<1> QED
  BY <1>1, <1>2, <1>3

\* The operations on templates: the queue and the copies stay.
LEMMA SetPreserves ==
  ASSUME IInv, NEW p \in Port, Set(p)
  PROVE  IInv' /\ Unshared(heap, heap')
<1>1. PICK v \in Value, t \in Fresh(heap) : heap' = _lf_initialize_token_with_value(heap, p, t, v)
  BY DEF Set
<1>2. p \in Template /\ event_q' = event_q /\ copies' = copies /\ lost' = lost
  BY DEF Set, OnlyHeap, Template
<1>3. IsQueue(event_q) /\ Accounts(heap, Held(heap.template, event_q, copies), lost, {})
  BY DEF IInv
<1>4. /\ Accounts(heap', Held(heap'.template, event_q, copies), lost, {})
      /\ Unshared(heap, heap')
  BY <1>1, <1>2, <1>3, InitializeAccounts
<1> QED
  BY <1>2, <1>4 DEF IInv

LEMMA SetTokenPreserves ==
  ASSUME IInv, NEW p \in Port, SetToken(p)
  PROVE  IInv' /\ Unshared(heap, heap')
<1>1. PICK t \in AtHand : heap' = _lf_replace_template_token(heap, p, t)
  BY DEF SetToken
<1>2. p \in Template /\ event_q' = event_q /\ copies' = copies /\ lost' = lost
  BY DEF SetToken, OnlyHeap, Template
<1>3. /\ IsQueue(event_q) /\ Accounts(heap, Held(heap.template, event_q, copies), lost, {})
      /\ t \in Token /\ Held(heap.template, event_q, copies)[t] > 0
  BY HeldNow DEF IInv
<1>4. /\ Accounts(heap', Held(heap'.template, event_q, copies), lost, {})
      /\ Keeps(heap, heap', {})
  BY <1>1, <1>2, <1>3, ReplaceAccounts
<1>5. Unshared(heap, heap')
  BY <1>4, KeepsIsUnshared
<1> QED
  BY <1>2, <1>4, <1>5 DEF IInv

\* A token that was made and is then put in a template.
LEMMA ReplaceByNew ==
  ASSUME IInv, NEW p \in Template, NEW t \in Fresh(heap), NEW v \in Value,
         heap' = _lf_replace_template_token(_lf_new_token(heap, t, v), p, t)
  PROVE  /\ Accounts(heap', Held(heap'.template, event_q, copies), lost, {})
         /\ Unshared(heap, heap')
<1> DEFINE h == _lf_new_token(heap, t, v)
           R == Held(heap.template, event_q, copies)
<1>1. IsQueue(event_q) /\ Accounts(heap, R, lost, {}) /\ v \in Value \cup {NULL}
  BY DEF IInv
<1> HIDE DEF R
<1>2. /\ t \in Token /\ heap.ref_count[t] = 0
      /\ Accounts(h, R, lost, {t}) /\ h.template = heap.template /\ Keeps(heap, h, {t})
  BY <1>1, NewAccounts
<1>3. heap' = _lf_replace_template_token(h, p, t)
  OBVIOUS
<1> HIDE DEF h
<1>4. Accounts(h, Held(h.template, event_q, copies), lost, {t})
  BY <1>2 DEF R
<1>5. /\ Accounts(heap', Held(heap'.template, event_q, copies), lost, {})
      /\ Keeps(h, heap', {t})
  BY <1>1, <1>2, <1>3, <1>4, ReplaceAccounts
<1>6. Keeps(heap, heap', {t})
  BY <1>2, <1>5, KeepsTransitive
<1>7. Unshared(heap, heap')
  BY <1>2, <1>6, KeepsIsUnshared
<1> QED
  BY <1>5, <1>7

LEMMA SetNewTokenPreserves ==
  ASSUME IInv, NEW p \in Port, SetNewToken(p)
  PROVE  IInv' /\ Unshared(heap, heap')
<1>1. PICK t \in Fresh(heap), v \in Value :
        heap' = _lf_replace_template_token(_lf_new_token(heap, t, v), p, t)
  BY DEF SetNewToken
<1>2. p \in Template /\ event_q' = event_q /\ copies' = copies /\ lost' = lost
  BY DEF SetNewToken, OnlyHeap, Template
<1>3. /\ Accounts(heap', Held(heap'.template, event_q, copies), lost, {})
      /\ Unshared(heap, heap')
  BY <1>1, <1>2, ReplaceByNew
<1> QED
  BY <1>2, <1>3 DEF IInv

\* The receiver writes to the payload only if the template is its one holder.
LEMMA WriteCopyPreserves ==
  ASSUME IInv, NEW p \in Port, WriteCopy(p)
  PROVE  IInv' /\ Unshared(heap, heap')
<1> DEFINE token == heap.template[p]
           R == Held(heap.template, event_q, copies)
<1>1. /\ p \in Template /\ event_q' = event_q /\ lost' = lost /\ token # NULL
      /\ IsQueue(event_q) /\ Accounts(heap, R, lost, {})
  BY DEF WriteCopy, OnlyHeap, Template, IInv
<1>2. token \in Token /\ heap \in Heap
  BY <1>1, HeldNow DEF TokenOrNull
<1>3. PICK v \in Value :
        IF MayWrite(heap, p)
        THEN heap' = [heap EXCEPT !.value[token] = v] /\ copies' = copies
        ELSE \E t \in Fresh(heap) : /\ heap' = Referenced(_lf_new_token(heap, t, v), t)
                                    /\ copies' = copies \cup {t}
  BY DEF WriteCopy
<1>4. CASE MayWrite(heap, p)
  <2>1. heap.ref_count[token] = 1
    BY <1>4 DEF MayWrite
  <2>2. /\ heap' \in Heap /\ heap'.ref_count = heap.ref_count /\ heap'.bin = heap.bin
        /\ heap'.template = heap.template
        /\ \A u \in Token : heap'.value[u] = IF u = token THEN v ELSE heap.value[u]
    BY <1>2, <1>3, <1>4 DEF Heap
  <2> HIDE DEF token, R
  <2>3. Accounts(heap', R, lost, {})
    BY <1>1, <2>1, <2>2 DEF Accounts
  <2>4. Unshared(heap, heap')
    BY <2>1, <2>2 DEF Unshared
  <2>5. copies' = copies
    BY <1>3, <1>4
  <2> QED
    BY <1>1, <2>2, <2>3, <2>4, <2>5 DEF IInv, R
<1>5. CASE ~MayWrite(heap, p)
  <2>1. PICK t \in Fresh(heap) : /\ heap' = Referenced(_lf_new_token(heap, t, v), t)
                                 /\ copies' = copies \cup {t}
    BY <1>3, <1>5
  <2> DEFINE h == _lf_new_token(heap, t, v)
  <2>2. v \in Value \cup {NULL} /\ heap' = Referenced(h, t)
    BY <2>1
  <2> HIDE DEF R
  <2>3. /\ t \in Token /\ heap.ref_count[t] = 0 /\ R[t] = 0
        /\ Accounts(h, R, lost, {t}) /\ h.template = heap.template /\ Keeps(heap, h, {t})
    BY <1>1, <2>2, NewAccounts
  <2> HIDE DEF h
  <2>4. t \in TokenOrNull /\ {t} \ {t} = {}
    BY <2>3 DEF TokenOrNull
  <2>5. /\ Accounts(heap', Plus(R, t), lost, {}) /\ heap'.template = heap.template
        /\ Keeps(h, heap', {t})
    <3>1. /\ Accounts(heap', Plus(R, t), lost, {t} \ {t}) /\ heap'.template = h.template
          /\ Keeps(h, heap', {t})
      BY <2>2, <2>3, <2>4, ReferencedAccounts
    <3> QED
      BY <2>3, <2>4, <3>1
  <2>6. t \notin copies
    BY <1>1, <2>3, HeldNow, Holders DEF R
  <2>7. Held(heap'.template, event_q, copies') = Plus(R, t)
    BY <1>1, <2>1, <2>3, <2>5, <2>6, HeldNow, HeldByCopy DEF R
  <2>8. Keeps(heap, heap', {t})
    BY <2>3, <2>5, KeepsTransitive
  <2>9. Unshared(heap, heap')
    BY <2>3, <2>8, KeepsIsUnshared
  <2>10. copies' \subseteq Token /\ IsFiniteSet(copies')
    BY <2>1, <2>3, FS_AddElement DEF IInv
  <2> QED
    BY <1>1, <2>5, <2>7, <2>9, <2>10 DEF IInv
<1> QED
  BY <1>4, <1>5

\* The operations that schedule an event.
LEMMA ScheduleTokenPreserves ==
  ASSUME IInv, NEW a \in Action, ScheduleToken(a)
  PROVE  IInv' /\ Unshared(heap, heap')
<1>1. PICK tag \in IntendedTag(a), t \in AtHand \cup {NULL} : lf_schedule_trigger(a, tag, t, heap)
  BY DEF ScheduleToken
<1>2. /\ copies' = copies /\ IsQueue(event_q)
      /\ Accounts(heap, Held(heap.template, event_q, copies), lost, {})
  BY DEF ScheduleToken, IInv
<1>3. /\ t \in TokenOrNull
      /\ t # NULL => Held(heap.template, event_q, copies)[t] > 0 \/ t \in {}
  BY HeldNow DEF TokenOrNull
<1>4. /\ IsQueue(event_q')
      /\ Accounts(heap', Held(heap'.template, event_q', copies), lost', {})
      /\ Keeps(heap, heap', {})
  BY <1>1, <1>2, <1>3, TriggerAccounts
<1>5. Unshared(heap, heap')
  BY <1>4, KeepsIsUnshared
<1> QED
  BY <1>2, <1>4, <1>5 DEF IInv

LEMMA ScheduleNewTokenPreserves ==
  ASSUME IInv, NEW a \in Action, ScheduleNewToken(a)
  PROVE  IInv' /\ Unshared(heap, heap')
<1>1. PICK tag \in IntendedTag(a), t \in Fresh(heap), v \in Value :
        lf_schedule_trigger(a, tag, t, _lf_new_token(heap, t, v))
  BY DEF ScheduleNewToken
<1> DEFINE h == _lf_new_token(heap, t, v)
           R == Held(heap.template, event_q, copies)
<1>2. /\ copies' = copies /\ IsQueue(event_q) /\ Accounts(heap, R, lost, {})
      /\ v \in Value \cup {NULL} /\ lf_schedule_trigger(a, tag, t, h)
  BY <1>1 DEF ScheduleNewToken, IInv
<1> HIDE DEF R
<1>3. /\ t \in Token /\ heap.ref_count[t] = 0
      /\ Accounts(h, R, lost, {t}) /\ h.template = heap.template /\ Keeps(heap, h, {t})
  BY <1>2, NewAccounts
<1> HIDE DEF h
<1>4. Accounts(h, Held(h.template, event_q, copies), lost, {t}) /\ t \in TokenOrNull
  BY <1>3 DEF R, TokenOrNull
<1>5. /\ IsQueue(event_q')
      /\ Accounts(heap', Held(heap'.template, event_q', copies), lost', {})
      /\ Keeps(h, heap', {t})
  BY <1>2, <1>4, TriggerAccounts
<1>6. Keeps(heap, heap', {t})
  BY <1>3, <1>5, KeepsTransitive
<1>7. Unshared(heap, heap')
  BY <1>3, <1>6, KeepsIsUnshared
<1> QED
  BY <1>2, <1>5, <1>7 DEF IInv

LEMMA ScheduleValuePreserves ==
  ASSUME IInv, NEW a \in Action, ScheduleValue(a)
  PROVE  IInv' /\ Unshared(heap, heap')
<1>1. PICK tag \in IntendedTag(a), t \in Fresh(heap), v \in Value :
        LET h == _lf_initialize_token_with_value(heap, a, t, v) IN
        lf_schedule_trigger(a, tag, h.template[a], h)
  BY DEF ScheduleValue
<1> DEFINE h == _lf_initialize_token_with_value(heap, a, t, v)
           u == h.template[a]
           R == Held(h.template, event_q, copies)
<1>2. /\ copies' = copies /\ IsQueue(event_q) /\ a \in Template
      /\ Accounts(heap, Held(heap.template, event_q, copies), lost, {})
      /\ lf_schedule_trigger(a, tag, u, h)
  BY <1>1 DEF ScheduleValue, IInv, Template
<1>3. Accounts(h, R, lost, {}) /\ Unshared(heap, h) /\ u \in Token /\ R[u] > 0
  BY <1>2, InitializeAccounts
<1> HIDE DEF u, h
<1>4. u \in TokenOrNull /\ (u # NULL => R[u] > 0 \/ u \in {})
  BY <1>3 DEF TokenOrNull
<1>5. /\ IsQueue(event_q')
      /\ Accounts(heap', Held(heap'.template, event_q', copies), lost', {})
      /\ Keeps(h, heap', {})
  BY <1>2, <1>3, <1>4, TriggerAccounts
<1>6. Unshared(heap, heap')
  BY <1>3, <1>5, UnsharedThenKeeps
<1> QED
  BY <1>2, <1>5, <1>6 DEF IInv

\* A message is put in its trigger, queued, or freed with its payload.
LEMMA MessagePreserves ==
  ASSUME IInv, NEW a \in Action, Message(a)
  PROVE  IInv' /\ Unshared(heap, heap')
<1>1. PICK t \in Fresh(heap), v \in Value, d \in Delay \cup {-1} :
        LET h == _lf_new_token(heap, t, v)
            tag == lf_delay_tag(current_tag, d) IN
        IF d = -1
        THEN heap' = _lf_replace_template_token(h, a, t) /\ UNCHANGED event_q
        ELSE IF current_tag = stop_tag
        THEN heap' = _lf_free_token(h, t) /\ UNCHANGED event_q
        ELSE IF Less(stop_tag, tag)
        THEN heap' = Discarded(Referenced(h, t), t) /\ UNCHANGED event_q
        ELSE /\ Queued(a, tag) = {}
             /\ heap' = Referenced(h, t) /\ event_q' = Enqueue(event_q, Event(a, tag, t))
  BY DEF Message
<1> DEFINE h == _lf_new_token(heap, t, v)
           tag == lf_delay_tag(current_tag, d)
           R == Held(heap.template, event_q, copies)
<1>2. /\ copies' = copies /\ lost' = lost /\ IsQueue(event_q) /\ a \in Template
      /\ Accounts(heap, R, lost, {}) /\ v \in Value \cup {NULL}
      /\ heap.template \in [Template -> TokenOrNull]
  BY HeldNow DEF Message, IInv, Template
<1>3. \/ heap' = _lf_replace_template_token(h, a, t) /\ event_q' = event_q
      \/ heap' = _lf_free_token(h, t) /\ event_q' = event_q
      \/ heap' = _lf_done_using(Referenced(h, t), t) /\ event_q' = event_q
      \/ heap' = Referenced(h, t) /\ event_q' = Enqueue(event_q, Event(a, tag, t))
  BY <1>1 DEF Discarded
<1> HIDE DEF R, tag
<1>4. /\ t \in Token /\ heap.ref_count[t] = 0
      /\ Accounts(h, R, lost, {t}) /\ h.template = heap.template /\ Keeps(heap, h, {t})
  BY <1>2, NewAccounts
<1>5. CASE heap' = _lf_replace_template_token(h, a, t) /\ event_q' = event_q
  <2>1. /\ Accounts(heap', Held(heap'.template, event_q, copies), lost, {})
        /\ Unshared(heap, heap')
    BY <1>2, <1>5, ReplaceByNew
  <2> QED
    BY <1>2, <1>5, <2>1 DEF IInv
<1> DEFINE k == Referenced(h, t)
           P == Plus(R, t)
<1>6. t \in TokenOrNull /\ t # NULL /\ {t} \ {t} = {}
  BY <1>4, NullIsNoToken DEF TokenOrNull
<1> HIDE DEF h
<1>7. Accounts(k, P, lost, {}) /\ k.template = heap.template /\ Keeps(h, k, {t})
  <2>1. Accounts(k, P, lost, {t} \ {t}) /\ k.template = h.template /\ Keeps(h, k, {t})
    BY <1>4, <1>6, ReferencedAccounts
  <2> QED
    BY <1>4, <1>6, <2>1
<1>8. R \in [Token -> Nat]
  BY <1>2 DEF Accounts
<1>9. P[t] > 0 /\ Minus(P, t) = R
  BY <1>6, <1>8, PlusMinus
<1> HIDE DEF k, P
<1>10. CASE heap' = _lf_free_token(h, t) /\ event_q' = event_q
  <2>1. /\ Accounts(heap', R, lost, {}) /\ heap'.template = heap.template
        /\ Keeps(h, heap', {})
    BY <1>4, <1>10, FreeAccounts
  <2>2. Keeps(heap, heap', {t})
    BY <1>4, <2>1 DEF Keeps
  <2>3. Unshared(heap, heap')
    BY <1>4, <2>2, KeepsIsUnshared
  <2> QED
    BY <1>2, <1>10, <2>1, <2>3 DEF IInv, R
<1>11. CASE heap' = _lf_done_using(k, t) /\ event_q' = event_q
  <2>1. /\ Accounts(heap', Minus(P, t), lost, {}) /\ heap'.template = k.template
        /\ Keeps(k, heap', {})
    BY <1>6, <1>7, <1>9, <1>11, DoneAccounts
  <2>2. Keeps(heap, heap', {t})
    BY <1>4, <1>7, <2>1 DEF Keeps
  <2>3. Unshared(heap, heap')
    BY <1>4, <2>2, KeepsIsUnshared
  <2> QED
    BY <1>2, <1>7, <1>9, <1>11, <2>1, <2>3 DEF IInv, R
<1>12. CASE heap' = k /\ event_q' = Enqueue(event_q, Event(a, tag, t))
  <2> DEFINE e == Event(a, tag, t)
  <2>1. IsEvent(e) /\ e.token = t
    BY <1>6 DEF IsEvent, Event
  <2>2. event_q' = Enqueue(event_q, e)
    BY <1>12
  <2> HIDE DEF e
  <2>3. IsQueue(event_q')
    BY <1>2, <2>1, <2>2, Enqueued
  <2>4. Held(heap.template, event_q', copies) = P
    BY <1>2, <2>1, <2>2, HeldByEvent DEF P, R
  <2>5. Keeps(heap, heap', {t})
    BY <1>4, <1>7, <1>12 DEF Keeps
  <2>6. Unshared(heap, heap')
    BY <1>4, <2>5, KeepsIsUnshared
  <2> QED
    BY <1>2, <1>7, <1>12, <2>3, <2>4, <2>6 DEF IInv
<1> QED
  BY <1>3, <1>5, <1>10, <1>11, <1>12 DEF k

\* The copies made in reactions are given up.
LEMMA CopiesAccounts ==
  ASSUME IInv, NEW order \in SetToSeqs(copies)
  PROVE  LET g == DoneUsing(heap, order) IN
         /\ Accounts(g, Held(heap.template, event_q, {}), lost, {})
         /\ g.template = heap.template
         /\ Keeps(heap, g, {})
<1> DEFINE tm == heap.template
           R == Held(tm, event_q, copies)
           S == Held(tm, event_q, {})
           g == DoneUsing(heap, order)
           id == [x \in copies |-> x]
<1>1. IsFiniteSet(copies) /\ copies \subseteq Token /\ IsQueue(event_q) /\ Accounts(heap, R, lost, {})
  BY DEF IInv
<1>2. tm \in [Template -> TokenOrNull]
  BY HeldNow
<1>3. PICK n \in Nat : /\ n = Cardinality(copies) /\ order \in [1 .. n -> copies] /\ Len(order) = n
                       /\ order \in Bijection(1 .. n, copies)
  BY <1>1, Listed
<1>4. order \in [1 .. n -> TokenOrNull]
  BY <1>1, <1>3 DEF TokenOrNull
<1>5. \A t \in Token : Count(order, t) = IF t \in copies THEN 1 ELSE 0
  <2> TAKE t \in Token
  <2>1. DOMAIN id = copies /\ order \in Bijection(1 .. n, DOMAIN id)
    BY <1>3
  <2>2. Count([m \in 1 .. n |-> id[order[m]]], t) = Count(id, t)
    <3> HIDE DEF id
    <3> QED
      BY <1>1, <2>1, CountPermuted
  <2>3. [m \in 1 .. n |-> id[order[m]]] = order
    BY <1>3
  <2>4. {x \in DOMAIN id : id[x] = t} = IF t \in copies THEN {t} ELSE {}
    OBVIOUS
  <2>5. Count(id, t) = IF t \in copies THEN 1 ELSE 0
    BY <2>4, FS_Singleton, FS_EmptySet DEF Count
  <2> QED
    BY <2>2, <2>3, <2>5
<1>6. /\ R \in [Token -> Nat] /\ S \in [Token -> Nat]
      /\ \A t \in Token : R[t] = S[t] + (IF t \in copies THEN 1 ELSE 0)
  <2>1. /\ R \in [Token -> Nat]
        /\ \A t \in Token : /\ Count(tm, t) \in Nat /\ Count(TokensOf(event_q), t) \in Nat
                            /\ R[t] = Count(tm, t) + Count(TokensOf(event_q), t)
                                        + (IF t \in copies THEN 1 ELSE 0)
    <3> HIDE DEF tm
    <3> QED
      BY <1>1, <1>2, HeldIsNat
  <2>2. /\ S \in [Token -> Nat]
        /\ \A t \in Token : S[t] = Count(tm, t) + Count(TokensOf(event_q), t)
                                     + (IF t \in {} THEN 1 ELSE 0)
    <3> HIDE DEF tm
    <3> QED
      BY <1>1, <1>2, HeldIsNat
  <2> HIDE DEF R, S, tm
  <2> QED
    BY <2>1, <2>2
<1> HIDE DEF R, S
<1>7. \A t \in Token : Count(order, t) <= R[t] /\ R[t] - Count(order, t) = S[t]
  <2> TAKE t \in Token
  <2> QED
    BY <1>5, <1>6
<1>8. S = [t \in Token |-> R[t] - Count(order, t)]
  BY <1>6, <1>7
<1>9. /\ Accounts(g, [t \in Token |-> R[t] - Count(order, t)], lost, {})
      /\ g.template = heap.template /\ Keeps(heap, g, {})
  BY <1>1, <1>4, <1>7, DoneUsingAccounts
<1> QED
  BY <1>8, <1>9 DEF S

\* The next tag: the copies go, the events of the tag become values.
LEMMA NextTagPreserves ==
  ASSUME IInv, NextTag
  PROVE  IInv' /\ Unshared(heap, heap')
<1> DEFINE events == {i \in DOMAIN event_q : event_q[i].tag = EarliestEvent}
<1>1. PICK order \in SetToSeqs(copies), popped \in SetToSeqs(events) :
        heap' = PopEach(DoneUsing(heap, order), event_q, popped)
  BY DEF NextTag
<1>2. copies' = {} /\ event_q' = Dequeue(event_q, events) /\ lost' = lost
  BY DEF NextTag
<1> DEFINE g == DoneUsing(heap, order)
<1>3. IsQueue(event_q) /\ IsFiniteSet(events) /\ events \subseteq DOMAIN event_q
  BY FS_Subset DEF IInv, IsQueue
<1>4. /\ Accounts(g, Held(g.template, event_q, {}), lost, {}) /\ Keeps(heap, g, {})
  BY CopiesAccounts
<1>5. popped \in SetToSeqs(events) /\ heap' = PopEach(g, event_q, popped)
  BY <1>1
<1> HIDE DEF events, g
<1>6. PICK n \in Nat : popped \in [1 .. n -> events] /\ popped \in Bijection(1 .. n, events)
  BY <1>3, <1>5, Listed
<1>7. /\ popped \in [1 .. n -> DOMAIN event_q]
      /\ \A i, j \in 1 .. n : popped[i] = popped[j] => i = j
      /\ {popped[i] : i \in 1 .. n} = events
  BY <1>3, <1>6 DEF Bijection, Injection, Surjection, IsInjective
<1>8. /\ Accounts(heap', Held(heap'.template, Dequeue(event_q, events), {}), lost, {})
      /\ Keeps(g, heap', {})
  BY <1>3, <1>4, <1>5, <1>7, PopEachAccounts
<1>9. Keeps(heap, heap', {})
  BY <1>4, <1>8, KeepsTransitive
<1>10. Unshared(heap, heap')
  BY <1>9, KeepsIsUnshared
<1>11. IsQueue(event_q')
  BY <1>2, <1>3, Dequeued
<1> QED
  BY <1>2, <1>8, <1>10, <1>11, FS_EmptySet DEF IInv

\* A list of what f is at its arguments, in any order.
LEMMA ListCounts ==
  ASSUME NEW f, IsFiniteSet(DOMAIN f), \A x \in DOMAIN f : f[x] \in TokenOrNull,
         NEW o \in SetToSeqs(DOMAIN f), NEW s, s = [m \in DOMAIN o |-> f[o[m]]]
  PROVE  \E n \in Nat : /\ s \in [1 .. n -> TokenOrNull]
                        /\ \A t : Count(s, t) = Count(f, t)
<1>1. PICK n \in Nat : o \in [1 .. n -> DOMAIN f] /\ o \in Bijection(1 .. n, DOMAIN f)
  BY Listed
<1>2. s = [m \in 1 .. n |-> f[o[m]]] /\ s \in [1 .. n -> TokenOrNull]
  BY <1>1
<1>3. \A t : Count(s, t) = Count(f, t)
  BY <1>1, <1>2, CountPermuted
<1> QED
  BY <1>2, <1>3

\* At termination the copies, the events and the templates give up what they hold.
LEMMA TerminatePreserves ==
  ASSUME IInv, Terminate
  PROVE  IInv' /\ Unshared(heap, heap') /\ heap'.template = [p \in Template |-> NULL]
<1> DEFINE tm == heap.template
           S == Held(tm, event_q, {})
           T == [t \in Token |-> S[t] - Count(TokensOf(event_q), t)]
           Z == [t \in Token |-> T[t] - Count(tm, t)]
<1>1. PICK order \in SetToSeqs(copies), places \in SetToSeqs(DOMAIN event_q),
           tmplts \in SetToSeqs(Template) :
        LET g == DoneUsing(heap, order)
            h == DoneUsing(g, [n \in DOMAIN places |-> event_q[places[n]].token])
            k == DoneUsing(h, [n \in DOMAIN tmplts |-> h.template[tmplts[n]]]) IN
        heap' = [k EXCEPT !.template = [p \in Template |-> NULL], !.bin = {}]
  BY DEF Terminate
<1> DEFINE g == DoneUsing(heap, order)
           s == [n \in DOMAIN places |-> event_q[places[n]].token]
           h == DoneUsing(g, s)
           u == [n \in DOMAIN tmplts |-> h.template[tmplts[n]]]
           k == DoneUsing(h, u)
<1>2. heap' = [k EXCEPT !.template = [p \in Template |-> NULL], !.bin = {}]
  BY <1>1
<1>3. copies' = {} /\ event_q' = <<>> /\ lost' = lost
  BY DEF Terminate
<1>4. IsQueue(event_q) /\ tm \in [Template -> TokenOrNull] /\ IsFiniteSet(Template)
  BY HeldNow, TokensAssumption DEF IInv
<1>5. Accounts(g, S, lost, {}) /\ g.template = tm /\ Keeps(heap, g, {})
  BY CopiesAccounts
<1>6. /\ S \in [Token -> Nat]
      /\ \A t \in Token : /\ Count(tm, t) \in Nat /\ Count(TokensOf(event_q), t) \in Nat
                          /\ S[t] = Count(tm, t) + Count(TokensOf(event_q), t)
  <2> HIDE DEF tm
  <2>1. /\ S \in [Token -> Nat]
        /\ \A t \in Token : /\ Count(tm, t) \in Nat /\ Count(TokensOf(event_q), t) \in Nat
                            /\ S[t] = Count(tm, t) + Count(TokensOf(event_q), t)
                                        + (IF t \in {} THEN 1 ELSE 0)
    BY <1>4, HeldIsNat
  <2> HIDE DEF S
  <2> QED
    BY <2>1
<1>7. PICK n \in Nat : /\ s \in [1 .. n -> TokenOrNull]
                       /\ \A t : Count(s, t) = Count(TokensOf(event_q), t)
  <2> DEFINE f == TokensOf(event_q)
  <2>1. /\ DOMAIN f = DOMAIN event_q /\ IsFiniteSet(DOMAIN f)
        /\ \A x \in DOMAIN f : f[x] = event_q[x].token /\ f[x] \in TokenOrNull
    BY <1>4 DEF TokensOf, IsQueue, IsEvent
  <2>2. places \in [DOMAIN places -> DOMAIN event_q]
    BY <1>4, Listed DEF IsQueue
  <2>3. s = [m \in DOMAIN places |-> f[places[m]]]
    BY <2>1, <2>2
  <2> HIDE DEF f, s
  <2> QED
    BY <2>1, <2>3, ListCounts DEF f
<1> HIDE DEF S, s, g
<1>8. \A t \in Token : Count(s, t) <= S[t]
  <2> HIDE DEF tm
  <2> QED
    BY <1>6, <1>7
<1>9. Accounts(h, T, lost, {}) /\ h.template = g.template /\ Keeps(g, h, {})
  <2>1. T = [t \in Token |-> S[t] - Count(s, t)]
    BY <1>7
  <2> HIDE DEF T
  <2> QED
    BY <1>5, <1>7, <1>8, <2>1, DoneUsingAccounts
<1>10. \A t \in Token : T[t] = Count(tm, t) /\ Z[t] = 0
  <2> HIDE DEF tm
  <2>1. \A t \in Token : T[t] = Count(tm, t)
    BY <1>6
  <2> HIDE DEF T
  <2> QED
    BY <1>6, <2>1
<1>11. PICK m \in Nat : u \in [1 .. m -> TokenOrNull] /\ \A t : Count(u, t) = Count(tm, t)
  <2>1. u = [i \in DOMAIN tmplts |-> tm[tmplts[i]]]
    BY <1>5, <1>9
  <2>2. DOMAIN tm = Template /\ \A x \in DOMAIN tm : tm[x] \in TokenOrNull
    BY <1>4
  <2> HIDE DEF u, tm
  <2> QED
    BY <1>1, <1>4, <2>1, <2>2, ListCounts
<1> HIDE DEF T, u, h
<1>12. \A t \in Token : Count(u, t) <= T[t]
  <2> HIDE DEF tm
  <2> QED
    BY <1>6, <1>10, <1>11
<1>13. Accounts(k, Z, lost, {}) /\ Keeps(h, k, {})
  <2>1. Z = [t \in Token |-> T[t] - Count(u, t)]
    BY <1>11
  <2> HIDE DEF Z
  <2> QED
    BY <1>9, <1>11, <1>12, <2>1, DoneUsingAccounts
<1> HIDE DEF Z, k, tm
<1>14. k \in Heap
  BY <1>13 DEF Accounts
<1>15. /\ heap' \in Heap /\ heap'.ref_count = k.ref_count /\ heap'.value = k.value
       /\ heap'.bin = {} /\ heap'.template = [p \in Template |-> NULL]
  BY <1>2, <1>14 DEF Heap, TokenOrNull
<1>16. Accounts(heap', Z, lost, {})
  BY <1>13, <1>15 DEF Accounts
<1>17. IsQueue(event_q')
  BY <1>3, FS_EmptySet DEF IsQueue
<1>18. Held(heap'.template, event_q', copies') = Z
  <2>1. Held(heap'.template, event_q', copies') \in [Token -> Nat]
    BY <1>15, <1>17, HeldIsNat DEF TokenOrNull
  <2>2. \A t \in Token : Held(heap'.template, event_q', copies')[t] = 0
    <3> TAKE t \in Token
    <3> DEFINE tn == [p \in Template |-> NULL]
    <3>1. {x \in DOMAIN tn : tn[x] = t} = {}
      BY NullIsNoToken
    <3>2. {x \in DOMAIN TokensOf(<<>>) : TokensOf(<<>>)[x] = t} = {}
      BY DEF TokensOf
    <3>3. Count(tn, t) = 0 /\ Count(TokensOf(<<>>), t) = 0
      BY <3>1, <3>2, FS_EmptySet DEF Count
    <3> HIDE DEF tn
    <3>4. Held(tn, <<>>, {})[t] = 0
      BY <3>3 DEF Held
    <3> QED
      BY <1>3, <1>15, <3>4 DEF tn
  <2>3. Z \in [Token -> Nat]
    BY <1>13 DEF Accounts
  <2> QED
    BY <1>10, <2>1, <2>2, <2>3
<1>19. Keeps(heap, heap', {})
  BY <1>5, <1>9, <1>13, <1>15 DEF Keeps
<1>20. Unshared(heap, heap')
  BY <1>19, KeepsIsUnshared
<1> QED
  BY <1>3, <1>15, <1>16, <1>17, <1>18, <1>20, FS_EmptySet DEF IInv

\* Every template has a token of its own.
LEMMA InitAccounts == Init => IInv
<1> SUFFICES ASSUME Init PROVE IInv
  OBVIOUS
<1> DEFINE f == CHOOSE g \in [Template -> Token] : IsInjective(g)
           R == Held(f, <<>>, {})
<1>1. f \in [Template -> Token] /\ IsInjective(f)
  BY TokensAssumption
<1>2. /\ heap = [ref_count |-> [t \in Token |-> IF \E p \in Template : f[p] = t THEN 1 ELSE 0],
                 value |-> [t \in Token |-> NULL], bin |-> {}, template |-> f]
      /\ copies = {} /\ event_q = <<>> /\ lost = {}
  BY DEF Init
<1> HIDE DEF f
<1>3. /\ heap \in Heap /\ heap.bin = {} /\ heap.template = f
      /\ \A t \in Token : /\ heap.value[t] = NULL
                          /\ heap.ref_count[t] = IF \E p \in Template : f[p] = t THEN 1 ELSE 0
  <2>1. f \in [Template -> TokenOrNull]
    BY <1>1 DEF TokenOrNull
  <2>2. [t \in Token |-> IF \E p \in Template : f[p] = t THEN 1 ELSE 0] \in [Token -> Nat]
    OBVIOUS
  <2>3. [t \in Token |-> NULL] \in [Token -> Value \cup {NULL}]
    OBVIOUS
  <2> QED
    BY <1>2, <2>1, <2>2, <2>3 DEF Heap
<1>4. IsQueue(event_q)
  BY <1>2, FS_EmptySet DEF IsQueue
<1>5. R \in [Token -> Nat] /\ \A t \in Token : R[t] = heap.ref_count[t]
  <2>1. R \in [Token -> Nat]
    BY <1>1, <1>2, <1>4, HeldIsNat DEF TokenOrNull
  <2>2. ASSUME NEW t \in Token PROVE R[t] = heap.ref_count[t]
    <3>1. {x \in DOMAIN TokensOf(<<>>) : TokensOf(<<>>)[x] = t} = {}
      BY DEF TokensOf
    <3>2. Count(TokensOf(<<>>), t) = 0
      BY <3>1, FS_EmptySet DEF Count
    <3>3. Count(f, t) = IF \E p \in Template : f[p] = t THEN 1 ELSE 0
      <4>1. CASE \E p \in Template : f[p] = t
        <5>1. PICK p \in Template : f[p] = t
          BY <4>1
        <5>2. {x \in DOMAIN f : f[x] = t} = {p}
          BY <1>1, <5>1 DEF IsInjective
        <5> QED
          BY <4>1, <5>2, FS_Singleton DEF Count
      <4>2. CASE ~\E p \in Template : f[p] = t
        <5>1. {x \in DOMAIN f : f[x] = t} = {}
          BY <1>1, <4>2
        <5> QED
          BY <4>2, <5>1, FS_EmptySet DEF Count
      <4> QED
        BY <4>1, <4>2
    <3>4. R[t] = Count(f, t) + Count(TokensOf(<<>>), t) + (IF t \in {} THEN 1 ELSE 0)
      BY DEF Held
    <3> HIDE DEF R
    <3> QED
      BY <1>3, <3>2, <3>3, <3>4
  <2> QED
    BY <2>1, <2>2
<1> HIDE DEF R
<1>6. Accounts(heap, R, lost, {})
  BY <1>2, <1>3, <1>5 DEF Accounts
<1> QED
  BY <1>2, <1>3, <1>4, <1>6, FS_EmptySet DEF IInv, R

-----------------------------------------------------------------------------
(* The theorems                                                            *)

LEMMA StepPreserves ==
  ASSUME IInv, [Next]_vars
  PROVE  IInv' /\ Unshared(heap, heap')
<1>1. ASSUME NEW p \in Port, Set(p) \/ SetToken(p) \/ SetNewToken(p) \/ WriteCopy(p)
      PROVE  IInv' /\ Unshared(heap, heap')
  BY <1>1, SetPreserves, SetTokenPreserves, SetNewTokenPreserves, WriteCopyPreserves
<1>2. ASSUME NEW a \in Action,
             ScheduleToken(a) \/ ScheduleNewToken(a) \/ ScheduleValue(a) \/ Message(a)
      PROVE  IInv' /\ Unshared(heap, heap')
  BY <1>2, ScheduleTokenPreserves, ScheduleNewTokenPreserves, ScheduleValuePreserves,
     MessagePreserves
<1>3. CASE NextTag
  BY <1>3, NextTagPreserves
<1>4. CASE Terminate
  BY <1>4, TerminatePreserves
<1>5. CASE UNCHANGED vars
  BY <1>5 DEF vars, IInv, Unshared
<1> QED
  BY <1>1, <1>2, <1>3, <1>4, <1>5 DEF Next

\* After every operation of lf_token.c and schedule.c the heap accounts for all
\* the references that templates, queued events and the list of copies hold.
THEOREM Accounting == Spec => []IInv
<1>1. Init => IInv
  BY InitAccounts
<1>2. IInv /\ [Next]_vars => IInv'
  BY StepPreserves
<1> QED
  BY <1>1, <1>2, PTL DEF Spec

LEMMA ReferencesAreHeld ==
  ASSUME IInv, NEW t \in Token
  PROVE  References(t) = Held(heap.template, event_q, copies)[t]
<1>1. DOMAIN heap.template = Template
  BY HeldNow
<1>2. \A i \in DOMAIN event_q : TokensOf(event_q)[i] = event_q[i].token
  BY DEF TokensOf
<1>3. Count(heap.template, t) = Cardinality({p \in Template : heap.template[p] = t})
  BY <1>1 DEF Count
<1>4. Count(TokensOf(event_q), t) = Cardinality({i \in DOMAIN event_q : event_q[i].token = t})
  <2>1. {i \in DOMAIN TokensOf(event_q) : TokensOf(event_q)[i] = t}
          = {i \in DOMAIN event_q : event_q[i].token = t}
    BY <1>2 DEF TokensOf
  <2> QED
    BY <2>1 DEF Count
<1> QED
  BY <1>3, <1>4 DEF References, Held

\* A token is counted as often as it is referred to, so that it is neither
\* freed prematurely nor kept (lf_token.h): only the references that
\* lf_schedule_trigger() loses stay in the count.
THEOREM TokensCounted == Spec => []Counted
<1>1. IInv => Counted
  <2> SUFFICES ASSUME IInv, NEW t \in Token
               PROVE  /\ References(t) <= heap.ref_count[t]
                      /\ t \notin lost => References(t) = heap.ref_count[t]
                      /\ t \in heap.bin => heap.ref_count[t] = 0
                      /\ heap.ref_count[t] = 0 => heap.value[t] = NULL
    BY DEF Counted
  <2>1. References(t) = Held(heap.template, event_q, copies)[t]
    BY ReferencesAreHeld
  <2> QED
    BY <2>1 DEF IInv, Accounts
<1> QED
  BY <1>1, Accounting, PTL

\* lf_set() in a template whose token others refer to, and a receiver that gets
\* a writable copy, do not change the payload the others read; nor does a token
\* that is recycled while a reference is left.
THEOREM PayloadsStay == Spec => SharedUnchanged
<1>1. IInv => \A t \in Token : /\ References(t) \in Nat /\ heap.ref_count[t] \in Nat
                              /\ References(t) <= heap.ref_count[t]
  <2> SUFFICES ASSUME IInv, NEW t \in Token
               PROVE  /\ References(t) \in Nat /\ heap.ref_count[t] \in Nat
                      /\ References(t) <= heap.ref_count[t]
    OBVIOUS
  <2> DEFINE R == Held(heap.template, event_q, copies)
  <2>1. References(t) = R[t]
    BY ReferencesAreHeld
  <2>2. R \in [Token -> Nat] /\ heap.ref_count \in [Token -> Nat]
    BY HeldNow
  <2>3. R[t] <= heap.ref_count[t]
    BY DEF IInv, Accounts
  <2> HIDE DEF R
  <2> QED
    BY <2>1, <2>2, <2>3
<1>2. (IInv => \A t \in Token : /\ References(t) \in Nat /\ heap.ref_count[t] \in Nat
                               /\ References(t) <= heap.ref_count[t])'
  BY <1>1, PTL
<1>3. IInv /\ IInv' /\ [Next]_vars
        => [\A t \in Token : References(t) > 1 /\ References(t)' > 0 =>
              heap.value'[t] = heap.value[t]]_vars
  <2> SUFFICES ASSUME IInv, IInv', [Next]_vars, NEW t \in Token,
                      References(t) > 1, References(t)' > 0
               PROVE  heap.value'[t] = heap.value[t]
    OBVIOUS
  <2>1. heap.ref_count[t] > 1
    BY <1>1
  <2>2. heap'.ref_count[t] > 0
    <3>1. References(t)' \in Nat /\ heap'.ref_count[t] \in Nat
          /\ References(t)' <= heap'.ref_count[t]
      BY <1>2
    <3> QED
      BY <3>1
  <2>3. Unshared(heap, heap')
    BY StepPreserves
  <2> QED
    BY <2>1, <2>2, <2>3 DEF Unshared
<1> QED
  BY <1>3, Accounting, PTL DEF Spec, SharedUnchanged

\* Nothing leaks: when termination() has freed all tokens, only those of which
\* lf_schedule_trigger() lost a reference are left with a count.
THEOREM NothingLeaks == Spec => [](terminated => \A t \in Token \ lost : heap.ref_count[t] = 0)
<1> DEFINE Gone == /\ event_q = <<>> /\ copies = {}
                   /\ heap.template = [p \in Template |-> NULL]
           EInv == terminated => Gone
<1>1. Init => EInv
  BY DEF Init
<1>2. IInv /\ EInv /\ [Next]_vars => EInv'
  <2> SUFFICES ASSUME IInv, EInv, [Next]_vars PROVE EInv'
    OBVIOUS
  <2>1. CASE Terminate
    <3>1. heap'.template = [p \in Template |-> NULL]
      BY <2>1, TerminatePreserves
    <3> QED
      BY <2>1, <3>1 DEF Terminate
  <2>2. CASE UNCHANGED vars
    BY <2>2 DEF vars
  <2>3. CASE Next /\ ~Terminate
    <3>1. ~terminated /\ terminated' = terminated
      BY <2>3 DEF Next, Set, SetToken, SetNewToken, WriteCopy, ScheduleToken, ScheduleNewToken,
        ScheduleValue, Message, Schedule, React, NextTag
    <3> QED
      BY <3>1
  <2> QED
    BY <2>1, <2>2, <2>3
<1>3. IInv /\ EInv => (terminated => \A t \in Token \ lost : heap.ref_count[t] = 0)
  <2> SUFFICES ASSUME IInv, Gone, NEW t \in Token, t \notin lost
               PROVE  heap.ref_count[t] = 0
    OBVIOUS
  <2>1. {p \in Template : heap.template[p] = t} = {}
    BY NullIsNoToken
  <2>2. {i \in DOMAIN event_q : event_q[i].token = t} = {}
    OBVIOUS
  <2>3. References(t) = 0
    BY <2>1, <2>2, FS_EmptySet DEF References
  <2>4. References(t) = heap.ref_count[t]
    <3>1. References(t) = Held(heap.template, event_q, copies)[t]
      BY ReferencesAreHeld
    <3> HIDE DEF Gone
    <3> QED
      BY <3>1 DEF IInv, Accounts
  <2> QED
    BY <2>3, <2>4
<1> QED
  BY <1>1, <1>2, <1>3, Accounting, PTL DEF Spec
=============================================================================
