----------------------- MODULE WebhookDispatcherProofs -----------------------
(***************************************************************************)
(* Theorems of WebhookDispatcher, for every set of messages and endpoints, *)
(* every batch size, every limit of retries and of concurrent requests.    *)
(***************************************************************************)
EXTENDS WebhookDispatcher, FiniteSetTheorems, SequenceTheorems, TLAPS

\* No two endpoints have the same identifier.
UniqueIds == \A i, j \in DOMAIN endpoints : endpoints[i].id = endpoints[j].id => i = j

\* stop() waits in a dispatcher that is running and polls no more.
StopWaits == stopping => running /\ ~polling

\* Copy c is in an item of the sequence s, and in one only.
Has(s, c) == \E i \in DOMAIN s : c \in CopiesOf(s[i])

Once(s, c) ==
    \A i, j \in DOMAIN s : c \in CopiesOf(s[i]) /\ c \in CopiesOf(s[j]) => i = j

\* Message m is in the buffer s once at most.
HeldOnce(s, m) == \A i, j \in DOMAIN s : s[i] = m /\ s[j] = m => i = j

Buffered(c) == c[1] \in Elements(buffers[c[2]])

Queued(c) == Has(queue, c)

Underway(c) == \E r \in active : c \in CopiesOf(r.item)

\* Copy c is in no place twice, in no two places, and in one while it is pending.
InOnePlace(c) ==
    /\ HeldOnce(buffers[c[2]], c[1])
    /\ Once(queue, c)
    /\ \A q, r \in active : c \in CopiesOf(q.item) /\ c \in CopiesOf(r.item) => q = r
    /\ ~(Buffered(c) /\ Queued(c))
    /\ ~(Buffered(c) /\ Underway(c))
    /\ ~(Queued(c) /\ Underway(c))
    /\ outcome[c] = "pending" <=> Buffered(c) \/ Queued(c) \/ Underway(c)

AllInOnePlace == \A c \in Copies : InOnePlace(c)

\* The inductive invariant.
IInv ==
    /\ TypeOK
    /\ IsFiniteSet(active)
    /\ UniqueIds
    /\ StopWaits
    /\ StoppedIsQuiet
    /\ BufferedHasTimer
    /\ AllInOnePlace

-----------------------------------------------------------------------------
(* Sequences of items.                                                     *)

LEMMA CopiesOfFacts ==
    ASSUME NEW c \in Copies, NEW x
    PROVE  c \in CopiesOf(x) <=> c[1] \in Elements(x.messages) /\ c[2] = x.id
  BY DEF Copies, CopiesOf

LEMMA MessagesFacts ==
    ASSUME NEW s \in Seq(Messages), NEW m \in Messages
    PROVE  /\ Append(s, m) \in Seq(Messages)
           /\ Append(s, m) # <<>>
           /\ Len(Append(s, m)) = Len(s) + 1
           /\ Elements(Append(s, m)) = Elements(s) \cup {m}
           /\ \A x \in Messages :
                HeldOnce(s, x) /\ (x = m => x \notin Elements(s)) => HeldOnce(Append(s, m), x)
<1> DEFINE u == Append(s, m)
<1>1. /\ u \in Seq(Messages) /\ u # <<>> /\ Len(u) = Len(s) + 1
      /\ \A i \in 1 .. Len(s) : u[i] = s[i]
      /\ u[Len(s) + 1] = m
  BY AppendProperties
<1> HIDE DEF u
<1>2. Len(s) \in Nat /\ DOMAIN s = 1 .. Len(s) /\ DOMAIN u = 1 .. (Len(s) + 1)
  BY <1>1, LenProperties
<1>3. Elements(u) \subseteq Elements(s) \cup {m}
  <2> SUFFICES ASSUME NEW i \in DOMAIN u PROVE u[i] \in Elements(s) \cup {m}
    BY DEF Elements
  <2>1. i \in 1 .. Len(s) \/ i = Len(s) + 1
    BY <1>2
  <2> QED
    BY <1>1, <1>2, <2>1 DEF Elements
<1>4. Elements(s) \subseteq Elements(u)
  <2> SUFFICES ASSUME NEW i \in DOMAIN s PROVE s[i] \in Elements(u)
    BY DEF Elements
  <2>1. i \in DOMAIN u /\ u[i] = s[i]
    BY <1>1, <1>2
  <2> QED
    BY <2>1 DEF Elements
<1>5. m \in Elements(u)
  <2>1. Len(s) + 1 \in DOMAIN u
    BY <1>2
  <2> QED
    BY <1>1, <2>1 DEF Elements
<1>6. ASSUME NEW x \in Messages, HeldOnce(s, x), x = m => x \notin Elements(s)
      PROVE  HeldOnce(u, x)
  <2> SUFFICES ASSUME NEW i \in DOMAIN u, NEW j \in DOMAIN u, u[i] = x, u[j] = x
               PROVE  i = j
    BY DEF HeldOnce
  <2>1. \A k \in DOMAIN u : (k \in DOMAIN s /\ u[k] = s[k]) \/ k = Len(s) + 1
    BY <1>1, <1>2
  <2>2. CASE x = m
    <3>1. \A k \in DOMAIN s : s[k] # x
      BY <1>6, <2>2 DEF Elements
    <3> QED
      BY <2>1, <3>1
  <2>3. CASE x # m
    BY <1>1, <1>6, <2>1, <2>3 DEF HeldOnce
  <2> QED
    BY <2>2, <2>3
<1> QED
  BY <1>1, <1>3, <1>4, <1>5, <1>6 DEF u

LEMMA NoMessages ==
    /\ <<>> \in Seq(Messages)
    /\ Len(<<>>) = 0
    /\ Elements(<<>>) = {}
    /\ \A m \in Messages : HeldOnce(<<>>, m)
BY EmptySeq DEF Elements, HeldOnce

LEMMA OneMessage ==
    ASSUME NEW m \in Messages
    PROVE  <<m>> \in Seq(Messages) /\ Elements(<<m>>) = {m}
BY DEF Elements

\* One item behind the others.
LEMMA SingleHas ==
    ASSUME NEW x \in Items
    PROVE  /\ <<x>> \in Seq(Items)
           /\ \A c : Has(<<x>>, c) <=> c \in CopiesOf(x)
           /\ \A c : Once(<<x>>, c)
<1>1. <<x>> \in Seq(Items) /\ DOMAIN <<x>> = {1} /\ <<x>>[1] = x
  OBVIOUS
<1> QED
  BY <1>1 DEF Has, Once

\* Items behind items.
LEMMA ConcatHas ==
    ASSUME NEW p \in Seq(Items), NEW q \in Seq(Items), NEW u, u = p \o q
    PROVE  /\ u \in Seq(Items)
           /\ \A c : Has(u, c) <=> Has(p, c) \/ Has(q, c)
           /\ \A c : Once(p, c) /\ Once(q, c) /\ ~(Has(p, c) /\ Has(q, c)) => Once(u, c)
<1>1. /\ u \in Seq(Items)
      /\ Len(u) = Len(p) + Len(q)
      /\ \A i \in 1 .. (Len(p) + Len(q)) :
           u[i] = IF i <= Len(p) THEN p[i] ELSE q[i - Len(p)]
  BY ConcatProperties
<1>2. Len(p) \in Nat /\ DOMAIN p = 1 .. Len(p) /\ Len(q) \in Nat /\ DOMAIN q = 1 .. Len(q)
  BY LenProperties
<1>3. DOMAIN u = 1 .. (Len(p) + Len(q))
  BY <1>1, LenProperties
<1>4. \A i \in DOMAIN p : i \in DOMAIN u /\ u[i] = p[i]
  BY <1>1, <1>2, <1>3
<1>5. \A j \in DOMAIN q : j + Len(p) \in DOMAIN u /\ u[j + Len(p)] = q[j]
  BY <1>1, <1>2, <1>3
<1>6. \A i \in DOMAIN u : \/ i \in DOMAIN p /\ u[i] = p[i]
                          \/ i - Len(p) \in DOMAIN q /\ u[i] = q[i - Len(p)]
  BY <1>1, <1>2, <1>3
<1>7. ASSUME NEW c
      PROVE  Has(u, c) <=> Has(p, c) \/ Has(q, c)
  <2>1. Has(p, c) => Has(u, c)
    BY <1>4 DEF Has
  <2>2. Has(q, c) => Has(u, c)
    BY <1>5 DEF Has
  <2>3. Has(u, c) => Has(p, c) \/ Has(q, c)
    BY <1>6 DEF Has
  <2> QED
    BY <2>1, <2>2, <2>3
<1>8. ASSUME NEW c, Once(p, c), Once(q, c), ~(Has(p, c) /\ Has(q, c))
      PROVE  Once(u, c)
  <2> SUFFICES ASSUME NEW i \in DOMAIN u, NEW j \in DOMAIN u,
                      c \in CopiesOf(u[i]), c \in CopiesOf(u[j])
               PROVE  i = j
    BY DEF Once
  <2>1. CASE Has(p, c)
    <3>1. ~Has(q, c)
      BY <1>8, <2>1
    <3>2. /\ i \in DOMAIN p /\ c \in CopiesOf(p[i])
          /\ j \in DOMAIN p /\ c \in CopiesOf(p[j])
      BY <1>6, <3>1 DEF Has
    <3> QED
      BY <1>8, <3>2 DEF Once
  <2>2. CASE ~Has(p, c)
    <3>1. /\ i - Len(p) \in DOMAIN q /\ c \in CopiesOf(q[i - Len(p)])
          /\ j - Len(p) \in DOMAIN q /\ c \in CopiesOf(q[j - Len(p)])
      BY <1>6, <2>2 DEF Has
    <3>2. i - Len(p) = j - Len(p)
      BY <1>8, <3>1 DEF Once
    <3> QED
      BY <1>2, <1>3, <3>2
  <2> QED
    BY <2>1, <2>2
<1> QED
  BY <1>1, <1>7, <1>8

\* A copy in s is in one of the first n items or in u, and in one of them only.
CutInTwo(s, n, u) ==
    \A c : /\ Has(s, c) <=> Has(u, c) \/ \E i \in 1 .. n : c \in CopiesOf(s[i])
           /\ Once(s, c) => /\ Once(u, c)
                            /\ ~(Has(u, c) /\ \E i \in 1 .. n : c \in CopiesOf(s[i]))

\* What is left when the first n items are taken.
LEMMA SuffixHas ==
    ASSUME NEW s \in Seq(Items), NEW n \in 0 .. Len(s), NEW u, u = SubSeq(s, n + 1, Len(s))
    PROVE  u \in Seq(Items) /\ CutInTwo(s, n, u)
<1>1. Len(s) \in Nat /\ DOMAIN s = 1 .. Len(s) /\ n \in Nat /\ n <= Len(s)
  BY LenProperties
<1>2. \A i \in (n + 1) .. Len(s) : s[i] \in Items
  BY <1>1, ElementOfSeq
<1>3. /\ u \in Seq(Items)
      /\ Len(u) = IF n + 1 <= Len(s) THEN Len(s) - (n + 1) + 1 ELSE 0
      /\ \A i \in 1 .. (Len(s) - (n + 1) + 1) : u[i] = s[(n + 1) + i - 1]
  BY <1>1, <1>2, SubSeqProperties
<1>4. DOMAIN u = 1 .. (Len(s) - n)
  <2>1. Len(u) = Len(s) - n
    <3>1. Len(u) = IF n + 1 <= Len(s) THEN Len(s) - (n + 1) + 1 ELSE 0
      BY <1>3
    <3>2. Len(s) \in Nat /\ n \in Nat /\ n <= Len(s)
      BY <1>1
    <3>3. n + 1 <= Len(s) \/ n = Len(s)
      BY <3>2
    <3> QED
      BY <3>1, <3>2, <3>3
  <2> QED
    BY <1>3, <2>1, LenProperties
<1>5. \A i \in DOMAIN u : i + n \in DOMAIN s /\ u[i] = s[i + n] /\ ~(i + n <= n)
  BY <1>1, <1>3, <1>4
<1>6. \A j \in DOMAIN s : \/ j \in 1 .. n
                          \/ j - n \in DOMAIN u /\ s[j] = u[j - n]
  BY <1>1, <1>3, <1>4
<1>7. \A j \in 1 .. n : j \in DOMAIN s /\ j <= n
  BY <1>1
<1>8. ASSUME NEW c
      PROVE  Has(s, c) <=> Has(u, c) \/ \E i \in 1 .. n : c \in CopiesOf(s[i])
  <2>1. Has(u, c) => Has(s, c)
    BY <1>5 DEF Has
  <2>2. (\E i \in 1 .. n : c \in CopiesOf(s[i])) => Has(s, c)
    BY <1>7 DEF Has
  <2>3. Has(s, c) => Has(u, c) \/ \E i \in 1 .. n : c \in CopiesOf(s[i])
    BY <1>6 DEF Has
  <2> QED
    BY <2>1, <2>2, <2>3
<1>9. ASSUME NEW c, Once(s, c)
      PROVE  /\ Once(u, c)
             /\ ~(Has(u, c) /\ \E i \in 1 .. n : c \in CopiesOf(s[i]))
  <2>1. Once(u, c)
    <3> SUFFICES ASSUME NEW i \in DOMAIN u, NEW j \in DOMAIN u,
                        c \in CopiesOf(u[i]), c \in CopiesOf(u[j])
                 PROVE  i = j
      BY DEF Once
    <3>1. i + n = j + n
      BY <1>5, <1>9 DEF Once
    <3> QED
      BY <1>1, <1>4, <3>1
  <2>2. ~(Has(u, c) /\ \E i \in 1 .. n : c \in CopiesOf(s[i]))
    <3> SUFFICES ASSUME NEW i \in DOMAIN u, c \in CopiesOf(u[i]),
                        NEW j \in 1 .. n, c \in CopiesOf(s[j])
                 PROVE  FALSE
      BY DEF Has
    <3>1. i + n = j
      BY <1>5, <1>7, <1>9 DEF Once
    <3> QED
      BY <1>5, <1>7, <3>1
  <2> QED
    BY <2>1, <2>2
<1> QED
  BY <1>3, <1>8, <1>9 DEF CutInTwo

-----------------------------------------------------------------------------
(* What is queued at once.                                                 *)

\* An enumeration of a finite set meets each of its members once.
LEMMA OrderFacts ==
    ASSUME NEW S, IsFiniteSet(S), NEW order \in SetToSeqs(S)
    PROVE  /\ Cardinality(S) \in Nat
           /\ order \in [1 .. Cardinality(S) -> S]
           /\ \A i, j \in 1 .. Cardinality(S) : order[i] = order[j] => i = j
           /\ \A x \in S : \E i \in 1 .. Cardinality(S) : order[i] = x
<1> DEFINE n == Cardinality(S)
<1>1. n \in Nat
  BY FS_CardinalityType
<1>2. order \in [1 .. n -> S] /\ \A i, j \in 1 .. n : i # j => order[i] # order[j]
  BY DEF SetToSeqs
<1>3. IsFiniteSet(1 .. n) /\ Cardinality(1 .. n) = n
  BY <1>1, FS_Interval
<1> HIDE DEF n
<1>4. order \in Injection(1 .. n, S)
  BY <1>2 DEF Injection, IsInjective
<1>5. order \in Surjection(1 .. n, S)
  <2>1. Cardinality(1 .. n) = Cardinality(S) <=> order \in Surjection(1 .. n, S)
    BY <1>4, FS_Injection
  <2>2. Cardinality(1 .. n) = Cardinality(S)
    BY <1>3 DEF n
  <2> QED
    BY <2>1, <2>2
<1>6. \A x \in S : \E i \in 1 .. n : order[i] = x
  BY <1>5 DEF Surjection
<1> QED
  BY <1>1, <1>2, <1>6 DEF n

LEMMA EndpointFacts ==
    ASSUME TypeOK
    PROVE  /\ Len(endpoints) \in Nat
           /\ DOMAIN endpoints = 1 .. Len(endpoints)
           /\ \A i \in DOMAIN endpoints : endpoints[i] \in Endpoints
           /\ \A e \in Elements(endpoints) : e \in Endpoints /\ e.id \in EndpointIds
<1>1. endpoints \in Seq(Endpoints)
  BY DEF TypeOK
<1>2. /\ Len(endpoints) \in Nat
      /\ DOMAIN endpoints = 1 .. Len(endpoints)
      /\ \A i \in DOMAIN endpoints : endpoints[i] \in Endpoints
  BY <1>1, LenProperties, ElementOfSeq
<1> QED
  BY <1>2, WebhookAssumption DEF Elements

\* Two listed endpoints of one identifier are one.
LEMMA OneEndpoint ==
    ASSUME UniqueIds, NEW d \in Elements(endpoints), NEW e \in Elements(endpoints), d.id = e.id
    PROVE  d = e
<1>1. PICK i \in DOMAIN endpoints : endpoints[i] = d
  BY DEF Elements
<1>2. PICK j \in DOMAIN endpoints : endpoints[j] = e
  BY DEF Elements
<1> QED
  BY <1>1, <1>2 DEF UniqueIds

LEMMA ItemType ==
    ASSUME NEW id \in EndpointIds, NEW s \in Seq(Messages)
    PROVE  Item(id, s) \in Items /\ Item(id, s).id = id /\ Item(id, s).messages = s
  BY WebhookAssumption DEF Item, Items

\* What flushing the buffers of S puts on the queue.
LEMMA FlushedItems ==
    ASSUME TypeOK, NEW S \in SUBSET EndpointIds, NEW order \in SetToSeqs(S),
           NEW u, u = [i \in DOMAIN order |-> Item(order[i], buffers[order[i]])]
    PROVE  /\ u \in Seq(Items)
           /\ \A c \in Copies : Has(u, c) <=> c[2] \in S /\ Buffered(c)
           /\ \A c \in Copies : Once(u, c)
<1> DEFINE n == Cardinality(S)
<1>1. IsFiniteSet(S)
  BY WebhookAssumption, FS_Subset
<1>2. /\ n \in Nat /\ order \in [1 .. n -> S]
      /\ \A i, j \in 1 .. n : order[i] = order[j] => i = j
      /\ \A x \in S : \E i \in 1 .. n : order[i] = x
  BY <1>1, OrderFacts
<1> HIDE DEF n
<1>3. DOMAIN u = 1 .. n
  BY <1>2
<1>4. \A i \in 1 .. n : /\ order[i] \in S /\ u[i] = Item(order[i], buffers[order[i]])
                        /\ u[i] \in Items
                        /\ u[i].id = order[i] /\ u[i].messages = buffers[order[i]]
  BY <1>2, ItemType DEF TypeOK
<1>5. u \in Seq(Items)
  <2>1. u \in [1 .. n -> Items]
    BY <1>2, <1>4
  <2> QED
    BY <1>2, <2>1
<1>6. \A c \in Copies : \A i \in 1 .. n :
        c \in CopiesOf(u[i]) <=> c[2] = order[i] /\ Buffered(c)
  <2> SUFFICES ASSUME NEW c \in Copies, NEW i \in 1 .. n
               PROVE  c \in CopiesOf(u[i]) <=> c[2] = order[i] /\ Buffered(c)
    OBVIOUS
  <2>1. c \in CopiesOf(u[i]) <=> c[1] \in Elements(u[i].messages) /\ c[2] = u[i].id
    BY CopiesOfFacts
  <2> QED
    BY <1>4, <2>1 DEF Buffered
<1>7. \A c \in Copies : Has(u, c) <=> c[2] \in S /\ Buffered(c)
  BY <1>2, <1>3, <1>4, <1>6 DEF Has
<1>8. \A c \in Copies : Once(u, c)
  BY <1>2, <1>3, <1>6 DEF Once
<1> QED
  BY <1>5, <1>7, <1>8

LEMMA ItemForType ==
    ASSUME TypeOK, NEW m \in Messages, NEW e \in Elements(endpoints)
    PROVE  /\ ItemFor(m, e) \in Items
           /\ ItemFor(m, e).id = e.id
           /\ e.batched => Elements(ItemFor(m, e).messages) = Elements(buffers[e.id]) \cup {m}
           /\ ~e.batched => Elements(ItemFor(m, e).messages) = {m}
<1>1. e.id \in EndpointIds /\ buffers[e.id] \in Seq(Messages)
  BY EndpointFacts DEF TypeOK
<1>2. CASE e.batched
  <2> DEFINE s == Append(buffers[e.id], m)
  <2>1. s \in Seq(Messages) /\ Elements(s) = Elements(buffers[e.id]) \cup {m}
    BY <1>1, MessagesFacts
  <2>2. ItemFor(m, e) = Item(e.id, s)
    BY <1>2 DEF ItemFor
  <2> HIDE DEF s
  <2> QED
    BY <1>1, <1>2, <2>1, <2>2, ItemType
<1>3. CASE ~e.batched
  <2> DEFINE s == <<m>>
  <2>1. s \in Seq(Messages) /\ Elements(s) = {m}
    BY OneMessage
  <2>2. ItemFor(m, e) = Item(e.id, s)
    BY <1>3 DEF ItemFor
  <2> HIDE DEF s
  <2> QED
    BY <1>1, <1>3, <2>1, <2>2, ItemType
<1> QED
  BY <1>2, <1>3

\* What a message puts on the queue.
LEMMA QueuedItems ==
    ASSUME TypeOK, UniqueIds, NEW m \in Messages,
           NEW order \in Ascending({i \in DOMAIN endpoints : endpoints[i] \in Queues(m)}),
           NEW u, u = [k \in DOMAIN order |-> ItemFor(m, endpoints[order[k]])]
    PROVE  /\ u \in Seq(Items)
           /\ \A c \in Copies : Has(u, c) <=> \E e \in Queues(m) : c \in CopiesOf(ItemFor(m, e))
           /\ \A c \in Copies : Once(u, c)
<1> DEFINE S == {i \in DOMAIN endpoints : endpoints[i] \in Queues(m)}
           n == Cardinality(S)
<1>1. IsFiniteSet(S)
  <2>1. IsFiniteSet(1 .. Len(endpoints))
    BY EndpointFacts, FS_Interval
  <2>2. S \in SUBSET (1 .. Len(endpoints))
    BY EndpointFacts
  <2> QED
    BY <2>1, <2>2, FS_Subset
<1>2. order \in SetToSeqs(S)
  BY DEF Ascending
<1>3. /\ n \in Nat /\ order \in [1 .. n -> S]
      /\ \A i, j \in 1 .. n : order[i] = order[j] => i = j
      /\ \A x \in S : \E i \in 1 .. n : order[i] = x
  BY <1>1, <1>2, OrderFacts
<1> HIDE DEF n
<1>4. Queues(m) \subseteq Elements(endpoints)
  BY DEF Queues, Takers
<1>5. \A k \in 1 .. n : /\ order[k] \in DOMAIN endpoints
                        /\ endpoints[order[k]] \in Queues(m)
                        /\ u[k] = ItemFor(m, endpoints[order[k]])
  BY <1>3
<1>6. \A e \in Queues(m) : \E k \in 1 .. n : endpoints[order[k]] = e
  BY <1>3, <1>4 DEF Elements
<1>7. DOMAIN u = 1 .. n
  BY <1>3
<1> HIDE DEF S
<1>8. u \in Seq(Items)
  <2>1. \A k \in 1 .. n : u[k] \in Items
    BY <1>4, <1>5, ItemForType
  <2>2. u \in [1 .. n -> Items]
    BY <1>7, <2>1
  <2> QED
    BY <1>3, <2>2
<1>9. \A c \in Copies : Has(u, c) <=> \E e \in Queues(m) : c \in CopiesOf(ItemFor(m, e))
  BY <1>5, <1>6, <1>7 DEF Has
<1>10. ASSUME NEW c \in Copies
       PROVE  Once(u, c)
  <2> SUFFICES ASSUME NEW i \in 1 .. n, NEW j \in 1 .. n,
                      c \in CopiesOf(u[i]), c \in CopiesOf(u[j])
               PROVE  i = j
    BY <1>7 DEF Once
  <2>1. \A k \in 1 .. n : c \in CopiesOf(u[k]) => c[2] = endpoints[order[k]].id
    <3> SUFFICES ASSUME NEW k \in 1 .. n, c \in CopiesOf(u[k])
                 PROVE  c[2] = endpoints[order[k]].id
      OBVIOUS
    <3>1. u[k].id = endpoints[order[k]].id
      BY <1>4, <1>5, ItemForType
    <3> QED
      BY <3>1, CopiesOfFacts
  <2>2. order[i] = order[j]
    BY <1>5, <2>1 DEF UniqueIds
  <2> QED
    BY <1>3, <2>2
<1> QED
  BY <1>8, <1>9, <1>10

-----------------------------------------------------------------------------
(* Endpoints that come and go.                                             *)

LEMMA AddedEndpoint ==
    ASSUME TypeOK, UniqueIds, NEW e \in Endpoints, AddEndpoint(e)
    PROVE  endpoints' \in Seq(Endpoints) /\ UniqueIds'
<1>1. /\ endpoints \in Seq(Endpoints)
      /\ Len(endpoints) \in Nat /\ DOMAIN endpoints = 1 .. Len(endpoints)
      /\ \A i \in DOMAIN endpoints : endpoints[i] \in Endpoints
  BY EndpointFacts DEF TypeOK
<1>2. CASE e.id \in Configured
  <2>1. endpoints' = [i \in DOMAIN endpoints |->
                        IF endpoints[i].id = e.id THEN e ELSE endpoints[i]]
    BY <1>2 DEF AddEndpoint
  <2>2. endpoints' \in [1 .. Len(endpoints) -> Endpoints]
    BY <1>1, <2>1
  <2>3. endpoints' \in Seq(Endpoints)
    BY <1>1, <2>2
  <2>4. \A i \in DOMAIN endpoints : endpoints'[i].id = endpoints[i].id
    BY <2>1
  <2>5. UniqueIds'
    BY <2>1, <2>4 DEF UniqueIds
  <2> QED
    BY <2>3, <2>5
<1>3. CASE e.id \notin Configured
  <2>1. endpoints' = Append(endpoints, e)
    BY <1>3 DEF AddEndpoint
  <2>2. /\ endpoints' \in Seq(Endpoints)
        /\ Len(endpoints') = Len(endpoints) + 1
        /\ \A i \in 1 .. Len(endpoints) : endpoints'[i] = endpoints[i]
        /\ endpoints'[Len(endpoints) + 1] = e
    BY <1>1, <2>1, AppendProperties
  <2>3. DOMAIN endpoints' = 1 .. (Len(endpoints) + 1)
    BY <2>2, LenProperties
  <2>4. \A i \in DOMAIN endpoints' : \/ i \in DOMAIN endpoints /\ endpoints'[i] = endpoints[i]
                                     \/ i = Len(endpoints) + 1 /\ endpoints'[i] = e
    BY <1>1, <2>2, <2>3
  <2>5. \A i \in DOMAIN endpoints : endpoints[i].id # e.id
    BY <1>3 DEF Configured, Elements
  <2>6. UniqueIds'
    BY <2>4, <2>5 DEF UniqueIds
  <2> QED
    BY <2>2, <2>6
<1> QED
  BY <1>2, <1>3

LEMMA RemovedEndpoint ==
    ASSUME TypeOK, UniqueIds, NEW id \in EndpointIds, RemoveEndpoint(id)
    PROVE  endpoints' \in Seq(Endpoints) /\ UniqueIds'
<1>1. /\ Len(endpoints) \in Nat /\ DOMAIN endpoints = 1 .. Len(endpoints)
      /\ \A i \in DOMAIN endpoints : endpoints[i] \in Endpoints
  BY EndpointFacts
<1>2. PICK i \in DOMAIN endpoints : endpoints' = RemoveAt(endpoints, i)
  BY DEF RemoveEndpoint
<1> DEFINE p == SubSeq(endpoints, 1, i - 1)
           q == SubSeq(endpoints, i + 1, Len(endpoints))
<1>3. endpoints' = p \o q
  BY <1>2 DEF RemoveAt
<1>4. i \in Nat /\ 1 <= i /\ i <= Len(endpoints)
  BY <1>1
<1>5. /\ p \in Seq(Endpoints)
      /\ Len(p) = IF 1 <= i - 1 THEN (i - 1) - 1 + 1 ELSE 0
      /\ \A k \in 1 .. ((i - 1) - 1 + 1) : p[k] = endpoints[1 + k - 1]
  <2>1. \A k \in 1 .. (i - 1) : endpoints[k] \in Endpoints
    BY <1>1, <1>4
  <2>2. 1 \in Int /\ i - 1 \in Int
    BY <1>4
  <2> QED
    BY <2>1, <2>2, SubSeqProperties
<1>6. /\ q \in Seq(Endpoints)
      /\ Len(q) = IF i + 1 <= Len(endpoints) THEN Len(endpoints) - (i + 1) + 1 ELSE 0
      /\ \A k \in 1 .. (Len(endpoints) - (i + 1) + 1) : q[k] = endpoints[(i + 1) + k - 1]
  <2>1. \A k \in (i + 1) .. Len(endpoints) : endpoints[k] \in Endpoints
    BY <1>1, <1>4
  <2>2. i + 1 \in Int /\ Len(endpoints) \in Int
    BY <1>1, <1>4
  <2> QED
    BY <2>1, <2>2, SubSeqProperties
<1> HIDE DEF p, q
<1> DEFINE n == Len(endpoints)
<1>7. n \in Nat
  BY <1>1
<1>8. Len(p) = i - 1
  <2>1. Len(p) = IF 1 <= i - 1 THEN (i - 1) - 1 + 1 ELSE 0
    BY <1>5
  <2> QED
    BY <1>4, <2>1
<1>9. Len(q) = n - i
  <2>1. Len(q) = IF i + 1 <= n THEN n - (i + 1) + 1 ELSE 0
    BY <1>6
  <2>2. i + 1 <= n \/ i = n
    BY <1>4, <1>7
  <2> QED
    BY <1>4, <1>7, <2>1, <2>2
<1>10. /\ endpoints' \in Seq(Endpoints)
       /\ Len(endpoints') = Len(p) + Len(q)
       /\ \A k \in 1 .. (Len(p) + Len(q)) :
            endpoints'[k] = IF k <= Len(p) THEN p[k] ELSE q[k - Len(p)]
  BY <1>3, <1>5, <1>6, ConcatProperties
<1>11. DOMAIN endpoints' = 1 .. (n - 1)
  <2>1. Len(endpoints') = n - 1
    BY <1>4, <1>7, <1>8, <1>9, <1>10
  <2> QED
    BY <1>10, <2>1, LenProperties
<1>12. \A k \in 1 .. (n - 1) : \/ k < i /\ endpoints'[k] = endpoints[k]
                               \/ k >= i /\ endpoints'[k] = endpoints[k + 1]
  <2> SUFFICES ASSUME NEW k \in 1 .. (n - 1)
               PROVE  \/ k < i /\ endpoints'[k] = endpoints[k]
                      \/ k >= i /\ endpoints'[k] = endpoints[k + 1]
    OBVIOUS
  <2>1. CASE k < i
    <3>1. k \in 1 .. ((i - 1) - 1 + 1) /\ k <= i - 1 /\ 1 + k - 1 = k
      BY <1>4, <1>7, <2>1
    <3>2. p[k] = endpoints[k]
      BY <1>5, <3>1
    <3>3. k \in 1 .. (Len(p) + Len(q)) /\ k <= Len(p)
      BY <1>4, <1>7, <1>8, <1>9, <3>1
    <3> QED
      BY <1>10, <2>1, <3>2, <3>3
  <2>2. CASE k >= i
    <3>1. /\ k - (i - 1) \in 1 .. (n - (i + 1) + 1)
          /\ (i + 1) + (k - (i - 1)) - 1 = k + 1
          /\ ~(k <= i - 1)
      BY <1>4, <1>7, <2>2
    <3>2. q[k - (i - 1)] = endpoints[k + 1]
      BY <1>6, <3>1
    <3>3. Len(p) + Len(q) = n - 1
      BY <1>4, <1>7, <1>8, <1>9
    <3>4. k \in 1 .. (Len(p) + Len(q))
      BY <3>3
    <3>5. ~(k <= Len(p)) /\ k - Len(p) = k - (i - 1)
      BY <1>8, <3>1
    <3> QED
      BY <1>10, <2>2, <3>2, <3>4, <3>5
  <2> QED
    BY <1>4, <1>7, <2>1, <2>2
<1> DEFINE Was(k, a) == (k < i /\ a = k) \/ (k >= i /\ a = k + 1)
<1>13. \A k \in 1 .. (n - 1) : \E a \in DOMAIN endpoints :
          endpoints'[k] = endpoints[a] /\ Was(k, a)
  <2> SUFFICES ASSUME NEW k \in 1 .. (n - 1)
               PROVE  \E a \in DOMAIN endpoints : endpoints'[k] = endpoints[a] /\ Was(k, a)
    OBVIOUS
  <2>1. k \in DOMAIN endpoints /\ k + 1 \in DOMAIN endpoints
    BY <1>1, <1>7
  <2>2. CASE k < i /\ endpoints'[k] = endpoints[k]
    BY <2>1, <2>2
  <2>3. CASE k >= i /\ endpoints'[k] = endpoints[k + 1]
    BY <2>1, <2>3
  <2> QED
    BY <1>12, <2>2, <2>3
<1>14. \A k, l \in 1 .. (n - 1) : \A a : Was(k, a) /\ Was(l, a) => k = l
  BY <1>4, <1>7
<1> HIDE DEF Was
<1>15. UniqueIds'
  <2> SUFFICES ASSUME NEW k \in 1 .. (n - 1), NEW l \in 1 .. (n - 1),
                      endpoints'[k].id = endpoints'[l].id
               PROVE  k = l
    BY <1>11 DEF UniqueIds
  <2>1. PICK a \in DOMAIN endpoints : endpoints'[k] = endpoints[a] /\ Was(k, a)
    BY <1>13
  <2>2. PICK b \in DOMAIN endpoints : endpoints'[l] = endpoints[b] /\ Was(l, b)
    BY <1>13
  <2>3. a = b
    BY <2>1, <2>2 DEF UniqueIds
  <2> QED
    BY <1>14, <2>1, <2>2, <2>3
<1> QED
  BY <1>10, <1>15

-----------------------------------------------------------------------------
(* The invariant and the steps.                                            *)

LEMMA InitIInv == Init => IInv
<1> SUFFICES ASSUME Init PROVE IInv
  OBVIOUS
<1> USE DEF Init
<1>1. endpoints \in Seq(Endpoints) /\ UniqueIds
  <2>1. PICK n \in 0 .. Cardinality(EndpointIds) : endpoints \in [1 .. n -> Endpoints]
    OBVIOUS
  <2>2. Cardinality(EndpointIds) \in Nat
    BY WebhookAssumption, FS_CardinalityType
  <2>3. n \in Nat
    BY <2>2
  <2>4. endpoints \in Seq(Endpoints)
    BY <2>1, <2>3
  <2> QED
    BY <2>4 DEF UniqueIds
<1>2. IsFiniteSet(active) /\ Cardinality(active) = 0
  BY FS_EmptySet
<1>3. queue \in Seq(Items) /\ \A c : ~Has(queue, c) /\ Once(queue, c)
  BY EmptySeq DEF Has, Once
<1>4. /\ buffers \in [EndpointIds -> Seq(Messages)]
      /\ \A e \in EndpointIds : Len(buffers[e]) < MaxSize
  BY NoMessages, WebhookAssumption
<1>5. TypeOK
  <2>1. {subscribed, running, polling, stopping} \subseteq BOOLEAN
    OBVIOUS
  <2>2. Cardinality(active) <= MaxConcurrent
    BY <1>2, WebhookAssumption
  <2>3. outcome \in [Copies -> Outcomes]
    BY DEF Outcomes
  <2>4. /\ timers \subseteq EndpointIds
        /\ active \subseteq Requests
    OBVIOUS
  <2> HIDE DEF Init
  <2> QED
    BY <1>1, <1>3, <1>4, <2>1, <2>2, <2>3, <2>4 DEF TypeOK
<1>6. StopWaits /\ StoppedIsQuiet /\ BufferedHasTimer
  BY DEF StopWaits, StoppedIsQuiet, BufferedHasTimer
<1>7. ASSUME NEW c \in Copies
      PROVE  InOnePlace(c)
  <2>1. buffers[c[2]] = <<>> /\ c[1] \in Messages
    BY DEF Copies
  <2>2. ~Buffered(c) /\ HeldOnce(buffers[c[2]], c[1])
    BY <2>1, NoMessages DEF Buffered
  <2>3. ~Underway(c) /\ ~Queued(c) /\ outcome[c] # "pending"
    BY <1>3 DEF Underway, Queued
  <2> QED
    BY <1>3, <2>2, <2>3 DEF InOnePlace
<1> QED
  BY <1>1, <1>2, <1>5, <1>6, <1>7 DEF IInv, AllInOnePlace

\* A step that moves no copy.
LEMMA SamePlaces ==
    ASSUME IInv, UNCHANGED <<buffers, timers, queue, active, outcome>>,
           {subscribed', running', polling', stopping'} \subseteq BOOLEAN,
           endpoints' \in Seq(Endpoints), UniqueIds', StopWaits', StoppedIsQuiet'
    PROVE  IInv'
<1>1. TypeOK'
  BY DEF IInv, TypeOK
<1>2. BufferedHasTimer' /\ IsFiniteSet(active)'
  BY DEF IInv, BufferedHasTimer
<1>3. AllInOnePlace'
  BY DEF IInv, AllInOnePlace, InOnePlace, Buffered, Queued, Underway
<1> QED
  BY <1>1, <1>2, <1>3 DEF IInv

\* The batch of one endpoint goes from its buffer to the queue.
LEMMA FlushBatchStep ==
    ASSUME IInv, NEW id \in EndpointIds, FlushBatch(id)
    PROVE  IInv'
<1> DEFINE x == Item(id, buffers[id])
<1>1. /\ TypeOK /\ IsFiniteSet(active) /\ UniqueIds /\ StopWaits /\ StoppedIsQuiet
      /\ BufferedHasTimer /\ AllInOnePlace
  BY DEF IInv
<1>2. /\ queue' = Append(queue, x)
      /\ buffers' = [buffers EXCEPT ![id] = <<>>]
      /\ timers' = timers \ {id}
      /\ UNCHANGED <<endpoints, subscribed, running, polling, stopping, active, outcome>>
  BY DEF FlushBatch
<1>3. x \in Items /\ x.id = id /\ x.messages = buffers[id]
  BY <1>1, ItemType DEF TypeOK
<1> HIDE DEF x
<1>4. queue \in Seq(Items) /\ queue' = queue \o <<x>> /\ <<x>> \in Seq(Items)
  BY <1>1, <1>2, <1>3, AppendIsConcat DEF TypeOK
<1>5. /\ queue' \in Seq(Items)
      /\ \A c : Has(queue', c) <=> Has(queue, c) \/ Has(<<x>>, c)
      /\ \A c : Once(queue, c) /\ Once(<<x>>, c) /\ ~(Has(queue, c) /\ Has(<<x>>, c))
                  => Once(queue', c)
  BY <1>4, ConcatHas
<1>6. \A c : (Has(<<x>>, c) <=> c \in CopiesOf(x)) /\ Once(<<x>>, c)
  BY <1>3, SingleHas
<1>7. \A e \in EndpointIds : buffers'[e] = IF e = id THEN <<>> ELSE buffers[e]
  BY <1>1, <1>2 DEF TypeOK
<1>8. TypeOK'
  <2>1. /\ buffers' \in [EndpointIds -> Seq(Messages)]
        /\ \A e \in EndpointIds : Len(buffers'[e]) < MaxSize
    BY <1>1, <1>2, <1>7, NoMessages, WebhookAssumption DEF TypeOK
  <2> QED
    BY <1>1, <1>2, <1>5, <2>1 DEF TypeOK
<1>9. BufferedHasTimer'
  BY <1>1, <1>2, <1>7 DEF BufferedHasTimer
<1>10. UniqueIds' /\ StopWaits' /\ StoppedIsQuiet' /\ IsFiniteSet(active)'
  BY <1>1, <1>2 DEF UniqueIds, StopWaits, StoppedIsQuiet
<1>11. ASSUME NEW c \in Copies
       PROVE  InOnePlace(c)'
  <2>1. InOnePlace(c) /\ c[1] \in Messages /\ c[2] \in EndpointIds
    BY <1>1 DEF AllInOnePlace, Copies
  <2>2. c \in CopiesOf(x) <=> c[2] = id /\ Buffered(c)
    BY <1>3, CopiesOfFacts DEF Buffered
  <2>3. Queued(c)' <=> Queued(c) \/ (c[2] = id /\ Buffered(c))
    BY <1>5, <1>6, <2>2 DEF Queued
  <2>4. Once(queue', c)
    BY <1>5, <1>6, <2>1, <2>2 DEF InOnePlace, Queued
  <2>5. /\ Buffered(c)' <=> Buffered(c) /\ c[2] # id
        /\ HeldOnce(buffers'[c[2]], c[1])
    BY <1>7, <2>1, NoMessages DEF Buffered, InOnePlace
  <2>6. Underway(c)' <=> Underway(c)
    BY <1>2 DEF Underway
  <2> QED
    BY <1>2, <2>1, <2>3, <2>4, <2>5, <2>6 DEF InOnePlace
<1> QED
  BY <1>8, <1>9, <1>10, <1>11 DEF IInv, AllInOnePlace

\* All batches go from their buffers to the queue.
LEMMA BeginStopStep ==
    ASSUME IInv, BeginStop
    PROVE  IInv'
<1> DEFINE S == {e \in EndpointIds : buffers[e] # <<>>}
<1>1. /\ TypeOK /\ IsFiniteSet(active) /\ UniqueIds /\ StopWaits /\ StoppedIsQuiet
      /\ BufferedHasTimer /\ AllInOnePlace
  BY DEF IInv
<1>2. /\ running /\ ~stopping
      /\ stopping' = TRUE
      /\ polling' = FALSE
      /\ buffers' = [e \in EndpointIds |-> <<>>]
      /\ timers' = timers \ S
      /\ UNCHANGED <<endpoints, subscribed, running, active, outcome>>
  BY DEF BeginStop, FlushAllBatches
<1>3. PICK order \in SetToSeqs(S) :
         queue' = queue \o [i \in DOMAIN order |-> Item(order[i], buffers[order[i]])]
  BY DEF BeginStop, FlushAllBatches
<1>4. S \in SUBSET EndpointIds
  OBVIOUS
<1>5. \A e \in EndpointIds : e \notin S => buffers[e] = <<>>
  OBVIOUS
<1> HIDE DEF S
<1> DEFINE u == [i \in DOMAIN order |-> Item(order[i], buffers[order[i]])]
<1>6. /\ u \in Seq(Items)
      /\ \A c \in Copies : Has(u, c) <=> c[2] \in S /\ Buffered(c)
      /\ \A c \in Copies : Once(u, c)
  BY <1>1, <1>4, FlushedItems
<1>7. queue' = queue \o u
  BY <1>3
<1> HIDE DEF u
<1>8. /\ queue' \in Seq(Items)
      /\ \A c : Has(queue', c) <=> Has(queue, c) \/ Has(u, c)
      /\ \A c : Once(queue, c) /\ Once(u, c) /\ ~(Has(queue, c) /\ Has(u, c))
                  => Once(queue', c)
  <2>1. queue \in Seq(Items)
    BY <1>1 DEF TypeOK
  <2> QED
    BY <1>6, <1>7, <2>1, ConcatHas
<1>9. TypeOK'
  <2>1. /\ buffers' \in [EndpointIds -> Seq(Messages)]
        /\ \A e \in EndpointIds : Len(buffers'[e]) < MaxSize
    BY <1>2, NoMessages, WebhookAssumption
  <2> QED
    BY <1>1, <1>2, <1>8, <2>1 DEF TypeOK
<1>10. BufferedHasTimer'
  BY <1>2 DEF BufferedHasTimer
<1>11. UniqueIds' /\ StopWaits' /\ StoppedIsQuiet' /\ IsFiniteSet(active)'
  BY <1>1, <1>2 DEF UniqueIds, StopWaits, StoppedIsQuiet
<1>12. ASSUME NEW c \in Copies
       PROVE  InOnePlace(c)'
  <2>1. InOnePlace(c) /\ c[1] \in Messages /\ c[2] \in EndpointIds
    BY <1>1 DEF AllInOnePlace, Copies
  <2>2. Has(u, c) <=> Buffered(c)
    <3>1. Buffered(c) => c[2] \in S
      BY <1>5, <2>1, NoMessages DEF Buffered
    <3> QED
      BY <1>6, <3>1
  <2>3. Queued(c)' <=> Queued(c) \/ Buffered(c)
    BY <1>8, <2>2 DEF Queued
  <2>4. Once(queue', c)
    BY <1>6, <1>8, <2>1, <2>2 DEF InOnePlace, Queued
  <2>5. /\ ~Buffered(c)'
        /\ HeldOnce(buffers'[c[2]], c[1])
    BY <1>2, <2>1, NoMessages DEF Buffered
  <2>6. Underway(c)' <=> Underway(c)
    BY <1>2 DEF Underway
  <2> QED
    BY <1>2, <2>1, <2>3, <2>4, <2>5, <2>6 DEF InOnePlace
<1> QED
  BY <1>9, <1>10, <1>11, <1>12 DEF IInv, AllInOnePlace

\* A message is held back or queued for each endpoint that takes it.
LEMMA HandleStep ==
    ASSUME IInv, NEW m \in Messages, HandleSUOMessage(m)
    PROVE  IInv'
<1> DEFINE batching == {e \in Takers(m) : e.batched}
           full == {e.id : e \in {e \in batching : Fills(e)}}
           held == {e.id : e \in batching} \ full
           taken == {m} \X {e.id : e \in Takers(m)}
<1>1. /\ TypeOK /\ IsFiniteSet(active) /\ UniqueIds /\ StopWaits /\ StoppedIsQuiet
      /\ BufferedHasTimer /\ AllInOnePlace
  BY DEF IInv
<1>2. /\ \A e \in EndpointIds : outcome[<<m, e>>] = "none"
      /\ buffers' = [e \in EndpointIds |->
                       IF e \in full THEN <<>>
                       ELSE IF e \in held THEN Append(buffers[e], m)
                       ELSE buffers[e]]
      /\ timers' = (timers \ full) \cup held
      /\ outcome' = [c \in Copies |-> IF c \in taken THEN "pending" ELSE outcome[c]]
      /\ UNCHANGED <<endpoints, subscribed, running, polling, stopping, active>>
  BY DEF HandleSUOMessage, Settle, ArmedFor
<1>3. PICK order \in Ascending({i \in DOMAIN endpoints : endpoints[i] \in Queues(m)}) :
         queue' = queue \o [k \in DOMAIN order |-> ItemFor(m, endpoints[order[k]])]
  BY DEF HandleSUOMessage
<1>4. \A e \in Takers(m) : e \in Elements(endpoints) /\ e \in Endpoints /\ e.id \in EndpointIds
  BY <1>1, EndpointFacts DEF Takers
<1>5. \A d, e \in Takers(m) : d.id = e.id => d = e
  BY <1>1, <1>4, OneEndpoint
<1>6. full \subseteq EndpointIds /\ held \subseteq EndpointIds
  BY <1>4
\* The one endpoint that takes m, if any, decides.
<1>7. \A e \in Takers(m) : /\ e.id \in full <=> e.batched /\ Fills(e)
                           /\ e.id \in held <=> e.batched /\ ~Fills(e)
                           /\ e \in Queues(m) <=> ~(e.batched /\ ~Fills(e))
  <2> SUFFICES ASSUME NEW e \in Takers(m)
               PROVE  /\ e.id \in full <=> e.batched /\ Fills(e)
                      /\ e.id \in held <=> e.batched /\ ~Fills(e)
                      /\ e \in Queues(m) <=> ~(e.batched /\ ~Fills(e))
    OBVIOUS
  <2>1. e.id \in full <=> e.batched /\ Fills(e)
    BY <1>5
  <2>2. e.id \in {d.id : d \in batching} <=> e.batched
    BY <1>5
  <2>3. e \in Queues(m) <=> ~(e.batched /\ ~Fills(e))
    BY DEF Queues
  <2> QED
    BY <2>1, <2>2, <2>3
<1>8. \A id \in full \cup held : \E e \in Takers(m) : e.id = id
  OBVIOUS
<1>9. \A id : id \in full => id \notin held
  OBVIOUS
<1>10. \A c \in Copies : c \in taken <=> c[1] = m /\ \E e \in Takers(m) : e.id = c[2]
  BY DEF Copies
<1>11. Queues(m) \subseteq Takers(m)
  BY DEF Queues
<1> HIDE DEF full, held, taken, batching
<1> DEFINE u == [k \in DOMAIN order |-> ItemFor(m, endpoints[order[k]])]
<1>12. /\ u \in Seq(Items)
       /\ \A c \in Copies : Has(u, c) <=> \E e \in Queues(m) : c \in CopiesOf(ItemFor(m, e))
       /\ \A c \in Copies : Once(u, c)
  BY <1>1, QueuedItems
<1>13. queue' = queue \o u
  BY <1>3
<1> HIDE DEF u
<1>14. /\ queue' \in Seq(Items)
       /\ \A c : Has(queue', c) <=> Has(queue, c) \/ Has(u, c)
       /\ \A c : Once(queue, c) /\ Once(u, c) /\ ~(Has(queue, c) /\ Has(u, c))
                   => Once(queue', c)
  <2>1. queue \in Seq(Items)
    BY <1>1 DEF TypeOK
  <2> QED
    BY <1>12, <1>13, <2>1, ConcatHas
<1>15. \A id \in EndpointIds : /\ buffers[id] \in Seq(Messages)
                               /\ Len(buffers[id]) \in Nat
                               /\ Len(buffers[id]) < MaxSize
  BY <1>1, LenProperties DEF TypeOK
<1>16. \A id \in EndpointIds : buffers'[id] = IF id \in full THEN <<>>
                                              ELSE IF id \in held THEN Append(buffers[id], m)
                                              ELSE buffers[id]
  BY <1>2
<1>17. ASSUME NEW id \in EndpointIds
       PROVE  buffers'[id] \in Seq(Messages) /\ Len(buffers'[id]) < MaxSize
  <2>1. CASE id \in full
    <3>1. buffers'[id] = <<>>
      BY <1>16, <2>1
    <3>2. Len(<<>>) < MaxSize
      BY NoMessages, WebhookAssumption
    <3> QED
      BY <3>1, <3>2, NoMessages
  <2>2. CASE id \in held
    <3>1. PICK e \in Takers(m) : e.id = id
      BY <1>8, <2>2
    <3>2. ~(Len(buffers[id]) + 1 >= MaxSize)
      BY <1>7, <2>2, <3>1 DEF Fills
    <3>3. buffers'[id] = Append(buffers[id], m)
      BY <1>9, <1>16, <2>2
    <3>4. buffers'[id] \in Seq(Messages) /\ Len(buffers'[id]) = Len(buffers[id]) + 1
      BY <1>15, <3>3, MessagesFacts
    <3>5. MaxSize \in Nat /\ Len(buffers[id]) \in Nat
      BY <1>15, WebhookAssumption
    <3> QED
      BY <3>2, <3>4, <3>5
  <2>3. CASE id \notin full /\ id \notin held
    BY <1>15, <1>16, <2>3
  <2> QED
    BY <2>1, <2>2, <2>3
<1>18. TypeOK'
  <2>1. /\ buffers' \in [EndpointIds -> Seq(Messages)]
        /\ \A e \in EndpointIds : Len(buffers'[e]) < MaxSize
    BY <1>2, <1>17
  <2>2. outcome' \in [Copies -> Outcomes]
    BY <1>1, <1>2 DEF TypeOK, Outcomes
  <2>3. timers' \subseteq EndpointIds
    BY <1>1, <1>2, <1>6 DEF TypeOK
  <2> QED
    BY <1>1, <1>2, <1>14, <2>1, <2>2, <2>3 DEF TypeOK
<1>19. BufferedHasTimer'
  BY <1>1, <1>2, <1>16 DEF BufferedHasTimer
<1>20. UniqueIds' /\ StopWaits' /\ StoppedIsQuiet' /\ IsFiniteSet(active)'
  BY <1>1, <1>2 DEF UniqueIds, StopWaits, StoppedIsQuiet
<1>21. ASSUME NEW c \in Copies
       PROVE  InOnePlace(c)'
  <2>1. /\ InOnePlace(c) /\ c[1] \in Messages /\ c[2] \in EndpointIds
        /\ c = <<c[1], c[2]>>
    BY <1>1 DEF AllInOnePlace, Copies
  <2>2. c[1] = m => ~Buffered(c) /\ ~Queued(c) /\ ~Underway(c)
    BY <1>2, <2>1 DEF InOnePlace
  <2>3. Underway(c)' <=> Underway(c)
    BY <1>2 DEF Underway
  <2>4. Queued(c)' <=> Queued(c) \/ Has(u, c)
    BY <1>14 DEF Queued
  <2>5. HeldOnce(buffers[c[2]], c[1])
    BY <2>1 DEF InOnePlace
  <2>6. outcome'[c] = IF c \in taken THEN "pending" ELSE outcome[c]
    BY <1>2
  <2>7. buffers[c[2]] \in Seq(Messages)
    BY <1>15, <2>1
  <2>8. CASE ~\E e \in Takers(m) : e.id = c[2]
    <3>1. c[2] \notin full /\ c[2] \notin held /\ c \notin taken
      BY <1>8, <1>10, <2>8
    <3>2. buffers'[c[2]] = buffers[c[2]]
      BY <1>16, <2>1, <3>1
    <3>3. ~Has(u, c)
      <4>1. \A e \in Queues(m) : ItemFor(m, e).id # c[2]
        BY <1>1, <1>4, <1>11, <2>8, ItemForType
      <4> QED
        BY <1>12, <4>1, CopiesOfFacts
    <3>4. Once(queue', c)
      BY <1>12, <1>14, <2>1, <3>3 DEF InOnePlace
    <3>5. (Buffered(c)' <=> Buffered(c)) /\ HeldOnce(buffers'[c[2]], c[1])
      BY <2>5, <3>2 DEF Buffered
    <3> QED
      BY <1>2, <2>1, <2>3, <2>4, <2>6, <3>1, <3>3, <3>4, <3>5 DEF InOnePlace
  <2>9. ASSUME NEW e \in Takers(m), e.id = c[2]
        PROVE  InOnePlace(c)'
    <3> DEFINE x == ItemFor(m, e)
    <3>1. c \in taken <=> c[1] = m
      BY <1>10, <2>9
    <3>2. Has(u, c) <=> e \in Queues(m) /\ c[1] \in Elements(x.messages)
      <4>1. \A d \in Queues(m) : c \in CopiesOf(ItemFor(m, d)) => d = e
        <5> SUFFICES ASSUME NEW d \in Queues(m), c \in CopiesOf(ItemFor(m, d))
                     PROVE  d = e
          OBVIOUS
        <5>1. d \in Takers(m) /\ ItemFor(m, d).id = d.id
          BY <1>1, <1>4, <1>11, ItemForType
        <5>2. ItemFor(m, d).id = c[2]
          BY CopiesOfFacts
        <5> QED
          BY <1>5, <2>9, <5>1, <5>2
      <4>2. x.id = c[2]
        BY <1>1, <1>4, <2>9, ItemForType
      <4>3. c \in CopiesOf(x) <=> c[1] \in Elements(x.messages)
        BY <4>2, CopiesOfFacts
      <4> QED
        BY <1>12, <4>1, <4>3
    <3>3. /\ e.batched => Elements(x.messages) = Elements(buffers[c[2]]) \cup {m}
          /\ ~e.batched => Elements(x.messages) = {m}
      BY <1>1, <1>4, <2>9, ItemForType
    <3> HIDE DEF x
    <3>4. CASE e.batched /\ Fills(e)
      <4>1. buffers'[c[2]] = <<>>
        BY <1>7, <1>16, <2>1, <2>9, <3>4
      <4>2. ~Buffered(c)' /\ HeldOnce(buffers'[c[2]], c[1])
        BY <2>1, <4>1, NoMessages DEF Buffered
      <4>3. Has(u, c) <=> c[1] = m \/ Buffered(c)
        BY <1>7, <3>2, <3>3, <3>4 DEF Buffered
      <4>4. Once(queue', c)
        BY <1>12, <1>14, <2>1, <2>2, <4>3 DEF InOnePlace, Queued
      <4> QED
        BY <1>2, <2>1, <2>2, <2>3, <2>4, <2>6, <3>1, <4>2, <4>3, <4>4 DEF InOnePlace
    <3>5. CASE e.batched /\ ~Fills(e)
      <4>1. buffers'[c[2]] = Append(buffers[c[2]], m)
        BY <1>7, <1>9, <1>16, <2>1, <2>9, <3>5
      <4>2. /\ Elements(buffers'[c[2]]) = Elements(buffers[c[2]]) \cup {m}
            /\ HeldOnce(buffers'[c[2]], c[1])
        BY <2>1, <2>2, <2>5, <2>7, <4>1, MessagesFacts DEF Buffered
      <4>3. Buffered(c)' <=> c[1] = m \/ Buffered(c)
        BY <4>2 DEF Buffered
      <4>4. ~Has(u, c)
        BY <1>7, <3>2, <3>5
      <4>5. Once(queue', c)
        BY <1>12, <1>14, <2>1, <4>4 DEF InOnePlace
      <4> QED
        BY <1>2, <2>1, <2>2, <2>3, <2>4, <2>6, <3>1, <4>2, <4>3, <4>4, <4>5 DEF InOnePlace
    <3>6. CASE ~e.batched
      <4>1. buffers'[c[2]] = buffers[c[2]]
        BY <1>7, <1>16, <2>1, <2>9, <3>6
      <4>2. (Buffered(c)' <=> Buffered(c)) /\ HeldOnce(buffers'[c[2]], c[1])
        BY <2>5, <4>1 DEF Buffered
      <4>3. Has(u, c) <=> c[1] = m
        BY <1>7, <3>2, <3>3, <3>6
      <4>4. Once(queue', c)
        BY <1>12, <1>14, <2>1, <2>2, <4>3 DEF InOnePlace, Queued
      <4> QED
        BY <1>2, <2>1, <2>2, <2>3, <2>4, <2>6, <3>1, <4>2, <4>3, <4>4 DEF InOnePlace
    <3> QED
      BY <3>4, <3>5, <3>6
  <2> QED
    BY <2>8, <2>9
<1> QED
  BY <1>18, <1>19, <1>20, <1>21 DEF IInv, AllInOnePlace

\* The first items of the queue become requests or are dropped.
LEMMA ProcessQueueStep ==
    ASSUME IInv, ProcessQueue
    PROVE  IInv'
<1> DEFINE n == IF Room < Len(queue) THEN Room ELSE Len(queue)
           taken == {queue[i] : i \in 1 .. n}
           known == {item \in taken : item.id \in Configured}
           new == {Begun(item) : item \in known}
           dropped == UNION {CopiesOf(item) : item \in taken \ known}
<1>1. /\ TypeOK /\ IsFiniteSet(active) /\ UniqueIds /\ StopWaits /\ StoppedIsQuiet
      /\ BufferedHasTimer /\ AllInOnePlace
  BY DEF IInv
<1>2. /\ polling /\ n > 0
      /\ queue' = SubSeq(queue, n + 1, Len(queue))
      /\ active' = active \cup new
      /\ outcome' = [c \in Copies |-> IF c \in dropped THEN "dropped" ELSE outcome[c]]
      /\ UNCHANGED <<endpoints, subscribed, running, polling, stopping, buffers, timers>>
  BY DEF ProcessQueue, Settle
<1>3. /\ queue \in Seq(Items) /\ Len(queue) \in Nat /\ DOMAIN queue = 1 .. Len(queue)
      /\ Cardinality(active) \in Nat /\ MaxConcurrent \in Nat
  BY <1>1, LenProperties, FS_CardinalityType, WebhookAssumption DEF TypeOK
<1>4. n \in 0 .. Len(queue) /\ n + Cardinality(active) <= MaxConcurrent
  BY <1>2, <1>3 DEF Room
<1> HIDE DEF n
<1>5. n \in Nat /\ \A i \in 1 .. n : i \in DOMAIN queue /\ queue[i] \in Items
  BY <1>3, <1>4, ElementOfSeq
<1>6. known \subseteq Items /\ taken \subseteq Items
  BY <1>5
<1>7. IsFiniteSet(new) /\ Cardinality(new) <= n /\ Cardinality(new) \in Nat
  <2> DEFINE f == [i \in 1 .. n |-> queue[i]]
             g == [item \in known |-> Begun(item)]
  <2>1. IsFiniteSet(1 .. n) /\ Cardinality(1 .. n) = n
    BY <1>5, FS_Interval
  <2>2. f \in Surjection(1 .. n, taken)
    BY DEF Surjection
  <2>3. IsFiniteSet(taken) /\ Cardinality(taken) <= n
    BY <2>1, <2>2, FS_Surjection
  <2>4. IsFiniteSet(known) /\ Cardinality(known) <= Cardinality(taken)
    BY <2>3, FS_Subset
  <2>5. g \in Surjection(known, new)
    BY DEF Surjection
  <2> HIDE DEF taken, known, new
  <2>6. IsFiniteSet(new) /\ Cardinality(new) <= Cardinality(known)
    BY <2>4, <2>5, FS_Surjection
  <2>7. Cardinality(taken) \in Nat /\ Cardinality(known) \in Nat /\ Cardinality(new) \in Nat
    BY <2>3, <2>4, <2>6, FS_CardinalityType
  <2> QED
    BY <1>5, <2>3, <2>4, <2>6, <2>7
<1>8. /\ \A r \in new : r.item \in known /\ r = Begun(r.item)
      /\ \A x \in known : Begun(x) \in new /\ Begun(x).item = x
  BY DEF Begun
<1>9. new \subseteq Requests
  <2> SUFFICES ASSUME NEW x \in known PROVE Begun(x) \in Requests
    OBVIOUS
  <2>1. PICK e \in Elements(endpoints) : e.id = x.id
    BY DEF Configured
  <2>2. \A b \in Elements(endpoints) : b \in Endpoints
    BY <1>1, ElementOfSeq, LenProperties DEF TypeOK, Elements
  <2>3. RetriesOf(x.id) \in 0 .. MaxRetries
    BY <2>1, <2>2, WebhookAssumption DEF RetriesOf
  <2> QED
    BY <1>6, <2>3 DEF Begun, Requests
<1>10. taken = {queue[i] : i \in 1 .. n}
  OBVIOUS
<1>11. \A x \in taken : x \in known <=> x.id \in Configured
  OBVIOUS
<1>12. known \subseteq taken
  OBVIOUS
<1>13. \A c : c \in dropped <=> \E x \in taken : x \notin known /\ c \in CopiesOf(x)
  OBVIOUS
<1> HIDE DEF taken, known, new, dropped
<1>14. IsFiniteSet(active') /\ Cardinality(active') <= MaxConcurrent
  <2>1. /\ IsFiniteSet(active')
        /\ Cardinality(active') =
             Cardinality(active) + Cardinality(new) - Cardinality(active \cap new)
    BY <1>1, <1>2, <1>7, FS_Union
  <2>2. Cardinality(active \cap new) \in Nat
    <3>1. active \cap new \in SUBSET active
      OBVIOUS
    <3> QED
      BY <1>1, <3>1, FS_Subset, FS_CardinalityType
  <2> QED
    BY <1>3, <1>4, <1>5, <1>7, <2>1, <2>2
<1>15. queue' \in Seq(Items) /\ CutInTwo(queue, n, queue')
  <2>1. queue \in Seq(Items) /\ n \in 0 .. Len(queue)
    BY <1>3, <1>4
  <2>2. queue' = SubSeq(queue, n + 1, Len(queue))
    BY <1>2
  <2> QED
    BY <2>1, <2>2, SuffixHas
<1>16. TypeOK'
  <2>1. active' \subseteq Requests
    BY <1>1, <1>2, <1>9 DEF TypeOK
  <2>2. outcome' \in [Copies -> Outcomes]
    BY <1>1, <1>2 DEF TypeOK, Outcomes
  <2> QED
    BY <1>1, <1>2, <1>14, <1>15, <2>1, <2>2 DEF TypeOK
<1>17. UniqueIds' /\ StopWaits' /\ BufferedHasTimer'
  BY <1>1, <1>2 DEF UniqueIds, StopWaits, BufferedHasTimer
<1>18. StoppedIsQuiet'
  BY <1>1, <1>2 DEF StoppedIsQuiet
<1>19. ASSUME NEW c \in Copies
       PROVE  InOnePlace(c)'
  <2> DEFINE A == \E x \in taken : c \in CopiesOf(x)
             B == \E x \in known : c \in CopiesOf(x)
  <2>1. InOnePlace(c)
    BY <1>1 DEF AllInOnePlace
  <2>2. /\ Queued(c) <=> Queued(c)' \/ A
        /\ ~(Queued(c)' /\ A)
        /\ Once(queue', c)
    <3>1. A <=> \E i \in 1 .. n : c \in CopiesOf(queue[i])
      BY <1>10
    <3> QED
      BY <1>15, <2>1, <3>1 DEF Queued, InOnePlace, CutInTwo
  <2>3. /\ B <=> A /\ c[2] \in Configured
        /\ c \in dropped <=> A /\ c[2] \notin Configured
    <3>1. \A x \in taken : c \in CopiesOf(x) => x.id = c[2]
      BY CopiesOfFacts
    <3> QED
      BY <1>11, <1>12, <1>13, <3>1
  <2>4. Underway(c)' <=> Underway(c) \/ B
    BY <1>2, <1>8 DEF Underway
  <2>5. \A x, y \in taken : c \in CopiesOf(x) /\ c \in CopiesOf(y) => x = y
    BY <1>5, <1>10, <2>1 DEF InOnePlace, Once
  <2>6. \A r \in new : c \in CopiesOf(r.item) => A
    BY <1>8, <1>12
  <2>7. ASSUME NEW q \in active', NEW r \in active',
               c \in CopiesOf(q.item), c \in CopiesOf(r.item)
        PROVE  q = r
    <3>1. CASE A
      <4>1. ~Underway(c)
        BY <2>1, <2>2, <3>1 DEF InOnePlace
      <4>2. q \in new /\ r \in new
        BY <1>2, <2>7, <4>1 DEF Underway
      <4>3. q.item = r.item
        BY <1>8, <1>12, <2>5, <2>7, <4>2
      <4> QED
        BY <1>8, <4>2, <4>3
    <3>2. CASE ~A
      <4>1. q \in active /\ r \in active
        BY <1>2, <2>6, <2>7, <3>2
      <4> QED
        BY <2>1, <2>7, <4>1 DEF InOnePlace
    <3> QED
      BY <3>1, <3>2
  <2>8. (Buffered(c)' <=> Buffered(c)) /\ HeldOnce(buffers'[c[2]], c[1])
    BY <1>2, <2>1 DEF Buffered, InOnePlace
  <2>9. outcome'[c] = IF c \in dropped THEN "dropped" ELSE outcome[c]
    BY <1>2
  <2> HIDE DEF A, B
  <2>10. /\ ~(Buffered(c)' /\ Queued(c)')
         /\ ~(Buffered(c)' /\ Underway(c)')
         /\ ~(Queued(c)' /\ Underway(c)')
         /\ outcome'[c] = "pending" <=> Buffered(c)' \/ Queued(c)' \/ Underway(c)'
    BY <2>1, <2>2, <2>3, <2>4, <2>8, <2>9 DEF InOnePlace
  <2> QED
    BY <2>2, <2>7, <2>8, <2>10 DEF InOnePlace
<1> QED
  BY <1>14, <1>16, <1>17, <1>18, <1>19 DEF IInv, AllInOnePlace

\* A request that is under way, and what is left of the others without it.
LEMMA RequestFacts ==
    ASSUME TypeOK, IsFiniteSet(active), NEW r \in active
    PROVE  /\ r.item \in Items /\ r.stage \in {"sending", "asleep"}
           /\ r.item.messages \in Seq(Messages) /\ r.item.id \in EndpointIds
           /\ r.item.attempts \in 0 .. MaxRetries /\ r.retries \in 0 .. MaxRetries
           /\ IsFiniteSet(active \ {r})
           /\ Cardinality(active \ {r}) \in Nat
           /\ Cardinality(active \ {r}) + 1 <= MaxConcurrent
<1>1. r \in Requests /\ Cardinality(active) <= MaxConcurrent
  BY DEF TypeOK
<1>2. r.item \in Items /\ r.stage \in {"sending", "asleep"} /\ r.retries \in 0 .. MaxRetries
  BY <1>1 DEF Requests
<1>3. /\ IsFiniteSet(active \ {r})
      /\ Cardinality(active \ {r}) = Cardinality(active) - 1
  BY FS_RemoveElement
<1>4. Cardinality(active) \in Nat /\ Cardinality(active \ {r}) \in Nat
  BY <1>3, FS_CardinalityType
<1>5. Cardinality(active \ {r}) + 1 <= MaxConcurrent
  BY <1>1, <1>3, <1>4, WebhookAssumption
<1> QED
  BY <1>2, <1>3, <1>4, <1>5 DEF Items

\* The copies of a request are nowhere else.
LEMMA RequestCopies ==
    ASSUME AllInOnePlace, NEW r \in active, NEW c \in Copies
    PROVE  /\ InOnePlace(c)
           /\ c \in CopiesOf(r.item) => /\ ~Buffered(c) /\ ~Queued(c)
                                        /\ \A q \in active \ {r} : c \notin CopiesOf(q.item)
           /\ c \notin CopiesOf(r.item) =>
                (Underway(c) <=> \E q \in active \ {r} : c \in CopiesOf(q.item))
  BY DEF AllInOnePlace, InOnePlace, Underway

\* A request ends.
LEMMA EndStep ==
    ASSUME IInv, NEW r \in active, NEW how \in {"sent", "failed"},
           active' = active \ {r}, Settle(CopiesOf(r.item), how),
           UNCHANGED <<endpoints, subscribed, running, polling, stopping, buffers, timers, queue>>
    PROVE  IInv'
<1>1. /\ TypeOK /\ IsFiniteSet(active) /\ UniqueIds /\ StopWaits /\ StoppedIsQuiet
      /\ BufferedHasTimer /\ AllInOnePlace
  BY DEF IInv
<1>2. outcome' = [c \in Copies |-> IF c \in CopiesOf(r.item) THEN how ELSE outcome[c]]
  BY DEF Settle
<1>3. IsFiniteSet(active') /\ Cardinality(active') <= MaxConcurrent
  <2>1. /\ IsFiniteSet(active')
        /\ Cardinality(active') \in Nat
        /\ Cardinality(active') + 1 <= MaxConcurrent
    BY <1>1, RequestFacts
  <2> QED
    BY <2>1, WebhookAssumption
<1>4. TypeOK'
  <2>1. outcome' \in [Copies -> Outcomes]
    BY <1>1, <1>2 DEF TypeOK, Outcomes
  <2>2. active' \subseteq Requests
    BY <1>1 DEF TypeOK
  <2> QED
    BY <1>1, <1>3, <2>1, <2>2 DEF TypeOK
<1>5. UniqueIds' /\ StopWaits' /\ StoppedIsQuiet' /\ BufferedHasTimer'
  BY <1>1 DEF UniqueIds, StopWaits, StoppedIsQuiet, BufferedHasTimer
<1>6. ASSUME NEW c \in Copies
      PROVE  InOnePlace(c)'
  <2>1. /\ InOnePlace(c)
        /\ c \in CopiesOf(r.item) => /\ ~Buffered(c) /\ ~Queued(c)
                                     /\ \A q \in active \ {r} : c \notin CopiesOf(q.item)
        /\ c \notin CopiesOf(r.item) =>
             (Underway(c) <=> \E q \in active \ {r} : c \in CopiesOf(q.item))
    BY <1>1, RequestCopies
  <2>2. (Buffered(c)' <=> Buffered(c)) /\ (Queued(c)' <=> Queued(c))
    BY DEF Buffered, Queued
  <2>3. Underway(c)' <=> Underway(c) /\ c \notin CopiesOf(r.item)
    BY <2>1 DEF Underway
  <2>4. outcome'[c] = IF c \in CopiesOf(r.item) THEN how ELSE outcome[c]
    BY <1>2
  <2>5. /\ HeldOnce(buffers'[c[2]], c[1]) /\ Once(queue', c)
        /\ \A p, q \in active' : c \in CopiesOf(p.item) /\ c \in CopiesOf(q.item) => p = q
    BY <2>1 DEF InOnePlace
  <2> QED
    BY <2>1, <2>2, <2>3, <2>4, <2>5 DEF InOnePlace
<1> QED
  BY <1>3, <1>4, <1>5, <1>6 DEF IInv, AllInOnePlace

\* A request fails and sleeps.
LEMMA RetryStep ==
    ASSUME IInv, NEW r \in active, r.item.attempts < r.retries,
           active' = (active \ {r}) \cup {Asleep(r)},
           UNCHANGED <<endpoints, subscribed, running, polling, stopping, buffers, timers, queue,
                       outcome>>
    PROVE  IInv'
<1> DEFINE s == Asleep(r)
<1>1. /\ TypeOK /\ IsFiniteSet(active) /\ UniqueIds /\ StopWaits /\ StoppedIsQuiet
      /\ BufferedHasTimer /\ AllInOnePlace
  BY DEF IInv
<1>2. /\ r.item \in Items /\ r.retries \in 0 .. MaxRetries
      /\ IsFiniteSet(active \ {r})
      /\ Cardinality(active \ {r}) \in Nat
      /\ Cardinality(active \ {r}) + 1 <= MaxConcurrent
  BY <1>1, RequestFacts
<1>3. /\ Retried(r.item) \in Items
      /\ Retried(r.item).id = r.item.id
      /\ Retried(r.item).messages = r.item.messages
  <2>1. r.item.attempts + 1 \in 0 .. MaxRetries
    BY <1>2, WebhookAssumption DEF Items
  <2> QED
    BY <1>2, <2>1 DEF Retried, Items
<1>4. s \in Requests /\ s.item = Retried(r.item)
  <2>1. r \in Requests
    BY <1>1 DEF TypeOK
  <2> QED
    BY <1>3, <2>1 DEF Asleep, Requests
<1>5. active' = (active \ {r}) \cup {s}
  OBVIOUS
<1> HIDE DEF s
<1>6. IsFiniteSet(active') /\ Cardinality(active') <= MaxConcurrent
  <2> DEFINE others == active \ {r}
  <2>1. /\ IsFiniteSet(others)
        /\ Cardinality(others) \in Nat
        /\ Cardinality(others) + 1 <= MaxConcurrent
    BY <1>2
  <2>2. active' = others \cup {s}
    BY <1>5
  <2> HIDE DEF others
  <2>3. /\ IsFiniteSet(active')
        /\ Cardinality(active') =
             IF s \in others THEN Cardinality(others) ELSE Cardinality(others) + 1
    BY <2>1, <2>2, FS_AddElement
  <2> QED
    BY <2>1, <2>3, WebhookAssumption
<1>7. TypeOK'
  <2>1. active' \subseteq Requests
    BY <1>1, <1>4, <1>5 DEF TypeOK
  <2> QED
    BY <1>1, <1>6, <2>1 DEF TypeOK
<1>8. UniqueIds' /\ StopWaits' /\ BufferedHasTimer'
  BY <1>1 DEF UniqueIds, StopWaits, BufferedHasTimer
<1>9. StoppedIsQuiet'
  BY <1>1 DEF StoppedIsQuiet
<1>10. ASSUME NEW c \in Copies
       PROVE  InOnePlace(c)'
  <2>1. /\ InOnePlace(c)
        /\ c \in CopiesOf(r.item) => /\ ~Buffered(c) /\ ~Queued(c)
                                     /\ \A q \in active \ {r} : c \notin CopiesOf(q.item)
        /\ c \notin CopiesOf(r.item) =>
             (Underway(c) <=> \E q \in active \ {r} : c \in CopiesOf(q.item))
    BY <1>1, RequestCopies
  <2>2. c \in CopiesOf(s.item) <=> c \in CopiesOf(r.item)
    BY <1>3, <1>4, CopiesOfFacts
  <2>3. (Buffered(c)' <=> Buffered(c)) /\ (Queued(c)' <=> Queued(c))
    BY DEF Buffered, Queued
  <2>4. Underway(c)' <=> Underway(c)
    <3>1. Underway(c)' <=> \/ c \in CopiesOf(s.item)
                           \/ \E q \in active \ {r} : c \in CopiesOf(q.item)
      BY <1>5 DEF Underway
    <3>2. c \in CopiesOf(r.item) => Underway(c)
      BY DEF Underway
    <3> QED
      BY <2>1, <2>2, <3>1, <3>2
  <2>5. \A p, q \in active' : c \in CopiesOf(p.item) /\ c \in CopiesOf(q.item) => p = q
    <3>1. CASE c \in CopiesOf(r.item)
      BY <1>5, <2>1, <3>1
    <3>2. CASE c \notin CopiesOf(r.item)
      <4>1. \A p \in active' : c \in CopiesOf(p.item) => p \in active
        BY <1>5, <2>2, <3>2
      <4> QED
        BY <2>1, <4>1 DEF InOnePlace
    <3> QED
      BY <3>1, <3>2
  <2>6. HeldOnce(buffers'[c[2]], c[1]) /\ Once(queue', c) /\ outcome'[c] = outcome[c]
    BY <2>1 DEF InOnePlace
  <2> QED
    BY <2>1, <2>3, <2>4, <2>5, <2>6 DEF InOnePlace
<1> QED
  BY <1>6, <1>7, <1>8, <1>9, <1>10 DEF IInv, AllInOnePlace

\* A request wakes up and queues its item again.
LEMMA WakeStep ==
    ASSUME IInv, NEW r \in active, Wake(r)
    PROVE  IInv'
<1> DEFINE x == r.item
<1>1. /\ TypeOK /\ IsFiniteSet(active) /\ UniqueIds /\ StopWaits /\ StoppedIsQuiet
      /\ BufferedHasTimer /\ AllInOnePlace
  BY DEF IInv
<1>2. /\ active' = active \ {r}
      /\ queue' = queue \o <<x>>
      /\ UNCHANGED <<endpoints, subscribed, running, polling, stopping, buffers, timers, outcome>>
  BY DEF Wake, Requeued
<1>3. /\ x \in Items
      /\ IsFiniteSet(active') /\ Cardinality(active') <= MaxConcurrent
  <2>1. /\ r.item \in Items /\ IsFiniteSet(active \ {r})
        /\ Cardinality(active \ {r}) \in Nat
        /\ Cardinality(active \ {r}) + 1 <= MaxConcurrent
    BY <1>1, RequestFacts
  <2>2. MaxConcurrent \in Nat
    BY WebhookAssumption
  <2> QED
    BY <1>2, <2>1, <2>2
<1> HIDE DEF x
<1>4. queue \in Seq(Items) /\ <<x>> \in Seq(Items)
  BY <1>1, <1>3, SingleHas DEF TypeOK
<1>5. /\ queue' \in Seq(Items)
      /\ \A c : Has(queue', c) <=> Has(queue, c) \/ Has(<<x>>, c)
      /\ \A c : Once(queue, c) /\ Once(<<x>>, c) /\ ~(Has(queue, c) /\ Has(<<x>>, c))
                  => Once(queue', c)
  <2>1. queue' = queue \o <<x>>
    BY <1>2
  <2> QED
    BY <1>4, <2>1, ConcatHas
<1>6. \A c : (Has(<<x>>, c) <=> c \in CopiesOf(x)) /\ Once(<<x>>, c)
  BY <1>3, SingleHas
<1>7. TypeOK'
  <2>1. active' \subseteq Requests
    BY <1>1, <1>2 DEF TypeOK
  <2> QED
    BY <1>1, <1>2, <1>3, <1>5, <2>1 DEF TypeOK
<1>8. UniqueIds' /\ StopWaits' /\ StoppedIsQuiet' /\ BufferedHasTimer'
  BY <1>1, <1>2 DEF UniqueIds, StopWaits, StoppedIsQuiet, BufferedHasTimer
<1>9. ASSUME NEW c \in Copies
      PROVE  InOnePlace(c)'
  <2>1. /\ InOnePlace(c)
        /\ c \in CopiesOf(x) => /\ ~Buffered(c) /\ ~Queued(c)
                                /\ \A q \in active \ {r} : c \notin CopiesOf(q.item)
        /\ c \notin CopiesOf(x) =>
             (Underway(c) <=> \E q \in active \ {r} : c \in CopiesOf(q.item))
    BY <1>1, RequestCopies DEF x
  <2>2. Buffered(c)' <=> Buffered(c)
    BY <1>2 DEF Buffered
  <2>3. Queued(c)' <=> Queued(c) \/ c \in CopiesOf(x)
    BY <1>5, <1>6 DEF Queued
  <2>4. Underway(c)' <=> Underway(c) /\ c \notin CopiesOf(x)
    BY <1>2, <2>1 DEF Underway
  <2>5. c \in CopiesOf(x) => Underway(c)
    BY DEF Underway, x
  <2>6. Once(queue', c)
    BY <1>5, <1>6, <2>1 DEF InOnePlace, Queued
  <2>7. /\ HeldOnce(buffers'[c[2]], c[1]) /\ outcome'[c] = outcome[c]
        /\ \A p, q \in active' : c \in CopiesOf(p.item) /\ c \in CopiesOf(q.item) => p = q
    BY <1>2, <2>1 DEF InOnePlace
  <2> QED
    BY <2>1, <2>2, <2>3, <2>4, <2>5, <2>6, <2>7 DEF InOnePlace
<1> QED
  BY <1>3, <1>7, <1>8, <1>9 DEF IInv, AllInOnePlace

LEMMA NextIInv == IInv /\ [Next]_vars => IInv'
<1> SUFFICES ASSUME IInv, [Next]_vars PROVE IInv'
  OBVIOUS
<1>1. /\ TypeOK /\ UniqueIds /\ StopWaits /\ StoppedIsQuiet
      /\ {subscribed, running, polling, stopping} \subseteq BOOLEAN
      /\ endpoints \in Seq(Endpoints)
  BY DEF IInv, TypeOK
<1>2. CASE Start
  <2>1. UniqueIds' /\ StopWaits' /\ StoppedIsQuiet'
    BY <1>1, <1>2 DEF Start, UniqueIds, StopWaits, StoppedIsQuiet
  <2> QED
    BY <1>1, <1>2, <2>1, SamePlaces DEF Start
<1>3. CASE BeginStop
  BY <1>3, BeginStopStep
<1>4. CASE EndStop
  <2>1. UniqueIds' /\ StopWaits' /\ StoppedIsQuiet'
    BY <1>1, <1>4 DEF EndStop, NothingActive, UniqueIds, StopWaits, StoppedIsQuiet
  <2> QED
    BY <1>1, <1>4, <2>1, SamePlaces DEF EndStop
<1>5. CASE RemoveAllListeners
  <2>1. UniqueIds' /\ StopWaits' /\ StoppedIsQuiet'
    BY <1>1, <1>5 DEF RemoveAllListeners, UniqueIds, StopWaits, StoppedIsQuiet
  <2> QED
    BY <1>1, <1>5, <2>1, SamePlaces DEF RemoveAllListeners
<1>6. ASSUME NEW m \in Messages, HandleSUOMessage(m) PROVE IInv'
  BY <1>6, HandleStep
<1>7. ASSUME NEW id \in EndpointIds, FlushBatch(id) PROVE IInv'
  BY <1>7, FlushBatchStep
<1>8. CASE ProcessQueue
  BY <1>8, ProcessQueueStep
<1>9. ASSUME NEW r \in active, Succeed(r) PROVE IInv'
  BY <1>9, EndStep DEF Succeed
<1>10. ASSUME NEW r \in active, Fail(r) PROVE IInv'
  <2>1. CASE r.item.attempts < r.retries
    BY <1>10, <2>1, RetryStep DEF Fail
  <2>2. CASE ~(r.item.attempts < r.retries)
    BY <1>10, <2>2, EndStep DEF Fail
  <2> QED
    BY <2>1, <2>2
<1>11. ASSUME NEW r \in active, Wake(r) PROVE IInv'
  BY <1>11, WakeStep
<1>12. ASSUME NEW e \in Endpoints, AddEndpoint(e) PROVE IInv'
  <2>1. endpoints' \in Seq(Endpoints) /\ UniqueIds'
    BY <1>1, <1>12, AddedEndpoint
  <2>2. UNCHANGED <<subscribed, running, polling, stopping, buffers, timers, queue, active,
                    outcome>>
    BY <1>12 DEF AddEndpoint
  <2>3. StopWaits' /\ StoppedIsQuiet'
    BY <1>1, <2>2 DEF StopWaits, StoppedIsQuiet
  <2> QED
    BY <1>1, <2>1, <2>2, <2>3, SamePlaces
<1>13. ASSUME NEW id \in EndpointIds, RemoveEndpoint(id) PROVE IInv'
  <2>1. endpoints' \in Seq(Endpoints) /\ UniqueIds'
    BY <1>1, <1>13, RemovedEndpoint
  <2>2. UNCHANGED <<subscribed, running, polling, stopping, buffers, timers, queue, active,
                    outcome>>
    BY <1>13 DEF RemoveEndpoint
  <2>3. StopWaits' /\ StoppedIsQuiet'
    BY <1>1, <2>2 DEF StopWaits, StoppedIsQuiet
  <2> QED
    BY <1>1, <2>1, <2>2, <2>3, SamePlaces
<1>14. CASE UNCHANGED vars
  <2>1. UniqueIds' /\ StopWaits' /\ StoppedIsQuiet'
    BY <1>1, <1>14 DEF vars, UniqueIds, StopWaits, StoppedIsQuiet
  <2> QED
    BY <1>1, <1>14, <2>1, SamePlaces DEF vars
<1> QED
  BY <1>2, <1>3, <1>4, <1>5, <1>6, <1>7, <1>8, <1>9, <1>10, <1>11, <1>12, <1>13, <1>14
     DEF Next

LEMMA Invariance == Spec => []IInv
<1> QED
  BY InitIInv, NextIInv, PTL DEF Spec

\* What is in no place twice and in one place only has one place.
LEMMA OneOfThePlaces == AllInOnePlace => EachCopyInOnePlace
<1> SUFFICES ASSUME AllInOnePlace, NEW c \in Copies
             PROVE  Cardinality(Places(c)) = IF outcome[c] = "pending" THEN 1 ELSE 0
  BY DEF EachCopyInOnePlace
<1> DEFINE B == {<<"buffer", i>> : i \in {i \in DOMAIN buffers[c[2]] : buffers[c[2]][i] = c[1]}}
           Q == {<<"queue", i>> : i \in {i \in DOMAIN queue : c \in CopiesOf(queue[i])}}
           R == {<<"request", r>> : r \in {r \in active : c \in CopiesOf(r.item)}}
<1>1. InOnePlace(c)
  BY DEF AllInOnePlace
<1>2. Places(c) = B \cup Q \cup R
  BY DEF Places
<1>3. IF Buffered(c) THEN \E p : B = {p} ELSE B = {}
  <2>1. CASE Buffered(c)
    <3>1. PICK i \in DOMAIN buffers[c[2]] : buffers[c[2]][i] = c[1]
      BY <2>1 DEF Buffered, Elements
    <3>2. \A j \in DOMAIN buffers[c[2]] : buffers[c[2]][j] = c[1] => i = j
      BY <1>1, <3>1 DEF InOnePlace, HeldOnce
    <3>3. B = {<<"buffer", i>>}
      BY <3>1, <3>2
    <3> QED
      BY <2>1, <3>3
  <2>2. CASE ~Buffered(c)
    BY <2>2 DEF Buffered, Elements
  <2> QED
    BY <2>1, <2>2
<1>4. IF Queued(c) THEN \E p : Q = {p} ELSE Q = {}
  <2>1. CASE Queued(c)
    <3>1. PICK i \in DOMAIN queue : c \in CopiesOf(queue[i])
      BY <2>1 DEF Queued, Has
    <3>2. \A j \in DOMAIN queue : c \in CopiesOf(queue[j]) => i = j
      BY <1>1, <3>1 DEF InOnePlace, Once
    <3>3. Q = {<<"queue", i>>}
      BY <3>1, <3>2
    <3> QED
      BY <2>1, <3>3
  <2>2. CASE ~Queued(c)
    BY <2>2 DEF Queued, Has
  <2> QED
    BY <2>1, <2>2
<1>5. IF Underway(c) THEN \E p : R = {p} ELSE R = {}
  <2>1. CASE Underway(c)
    <3>1. PICK r \in active : c \in CopiesOf(r.item)
      BY <2>1 DEF Underway
    <3>2. \A q \in active : c \in CopiesOf(q.item) => r = q
      BY <1>1, <3>1 DEF InOnePlace
    <3>3. R = {<<"request", r>>}
      BY <3>1, <3>2
    <3> QED
      BY <2>1, <3>3
  <2>2. CASE ~Underway(c)
    BY <2>2 DEF Underway
  <2> QED
    BY <2>1, <2>2
<1> HIDE DEF B, Q, R
<1>6. IF outcome[c] = "pending" THEN \E p : Places(c) = {p} ELSE Places(c) = {}
  <2>1. CASE Buffered(c)
    BY <1>1, <1>2, <1>3, <1>4, <1>5, <2>1 DEF InOnePlace
  <2>2. CASE Queued(c)
    BY <1>1, <1>2, <1>3, <1>4, <1>5, <2>2 DEF InOnePlace
  <2>3. CASE Underway(c)
    BY <1>1, <1>2, <1>3, <1>4, <1>5, <2>3 DEF InOnePlace
  <2>4. CASE ~Buffered(c) /\ ~Queued(c) /\ ~Underway(c)
    BY <1>1, <1>2, <1>3, <1>4, <1>5, <2>4 DEF InOnePlace
  <2> QED
    BY <2>1, <2>2, <2>3, <2>4
<1> QED
  BY <1>6, FS_EmptySet, FS_Singleton

-----------------------------------------------------------------------------
(* The custody of copies.                                                  *)

Accepted == {c \in Copies : outcome[c] # "none"}

Pending == {c \in Copies : outcome[c] = "pending"}

Waiting == {c \in Copies : Buffered(c) \/ Queued(c)}

OnTheWay == {c \in Copies : Underway(c)}

Sent == {c \in Copies : outcome[c] = "sent"}

GivenUp == {c \in Copies : outcome[c] \in {"failed", "dropped"}}

\* What waits and what is under way share the pending copies.
Shared == Waiting \cap OnTheWay = {} /\ Pending = Waiting \cup OnTheWay

LEMMA PendingIsShared ==
    ASSUME AllInOnePlace, AllInOnePlace'
    PROVE  Shared /\ Shared'
<1>1. Shared
  BY DEF AllInOnePlace, InOnePlace, Waiting, OnTheWay, Pending, Shared
<1>2. Shared'
  BY DEF AllInOnePlace, InOnePlace, Waiting, OnTheWay, Pending, Shared
<1> QED
  BY <1>1, <1>2

\* Steps of Custody in the words of the dispatcher.
LEMMA TakeMaps ==
    ASSUME NEW S \in SUBSET Copies, S \cap Accepted = {},
           NEW begun \in SUBSET (Waiting \cup S),
           NEW gone \in SUBSET ((Waiting \cup S) \ begun),
           Accepted' = Accepted \cup S, OnTheWay' = OnTheWay \cup begun,
           GivenUp' = GivenUp \cup gone,
           Waiting' = (Waiting \cup S) \ (begun \cup gone), Sent' = Sent
    PROVE  Custodian!Next
<1>1. S \in SUBSET (Copies \ Accepted)
  OBVIOUS
<1>2. /\ Accepted = {c \in Copies : outcome[c] # "none"}
      /\ Waiting = {c \in Copies : \/ c[1] \in Elements(buffers[c[2]])
                                   \/ \E i \in DOMAIN queue : c \in CopiesOf(queue[i])}
      /\ OnTheWay = {c \in Copies : \E r \in active : c \in CopiesOf(r.item)}
      /\ Sent = {c \in Copies : outcome[c] = "sent"}
      /\ GivenUp = {c \in Copies : outcome[c] \in {"failed", "dropped"}}
  BY DEF Accepted, Waiting, Buffered, Queued, Has, OnTheWay, Underway, Sent, GivenUp
<1>3. Custodian!Take(S)
  BY <1>2 DEF Custodian!Take, Accepted, Waiting, Buffered, Queued, Has, OnTheWay, Underway,
              Sent, GivenUp
<1> QED
  BY <1>1, <1>2, <1>3 DEF Custodian!Next

LEMMA ReleaseMaps ==
    ASSUME NEW S \in SUBSET OnTheWay, NEW back \in SUBSET S,
           OnTheWay' = OnTheWay \ S, Waiting' = Waiting \cup back,
           S \ back \subseteq Sent' \cup GivenUp',
           \E out \in SUBSET OnTheWay : Sent' = Sent \cup out,
           \E gone \in SUBSET OnTheWay : GivenUp' = GivenUp \cup gone,
           Accepted' = Accepted
    PROVE  Custodian!Next
<1>1. OnTheWay = {c \in Copies : \E r \in active : c \in CopiesOf(r.item)}
  BY DEF OnTheWay, Underway
<1>2. Custodian!Release(S)
  BY DEF Custodian!Release, Accepted, Waiting, Buffered, Queued, Has, OnTheWay, Underway,
         Sent, GivenUp
<1> QED
  BY <1>1, <1>2 DEF Custodian!Next

LEMMA StaysMaps ==
    ASSUME Accepted' = Accepted, Waiting' = Waiting, OnTheWay' = OnTheWay, Sent' = Sent,
           GivenUp' = GivenUp
    PROVE  UNCHANGED Custodian!vars
  BY DEF Custodian!vars, Accepted, Waiting, Buffered, Queued, Has, OnTheWay, Underway, Sent,
         GivenUp

\* A step that changes no request and no outcome.
LEMMA CalmStep ==
    ASSUME AllInOnePlace, AllInOnePlace', active' = active, outcome' = outcome
    PROVE  UNCHANGED Custodian!vars
<1>1. Pending' = Pending /\ OnTheWay' = OnTheWay /\ Accepted' = Accepted /\ Sent' = Sent
      /\ GivenUp' = GivenUp
  BY DEF Pending, OnTheWay, Underway, Accepted, Sent, GivenUp
<1>2. /\ Waiting \cap OnTheWay = {} /\ Pending = Waiting \cup OnTheWay
      /\ Waiting' \cap OnTheWay' = {} /\ Pending' = Waiting' \cup OnTheWay'
  BY PendingIsShared DEF Shared
<1>3. Waiting' = Waiting
  BY <1>1, <1>2
<1> QED
  BY <1>1, <1>3, StaysMaps

\* The endpoints that take a message have its copies in their buffers or queued.
LEMMA HandleTakes ==
    ASSUME AllInOnePlace, AllInOnePlace', NEW m \in Messages, HandleSUOMessage(m)
    PROVE  Custodian!Next
<1> DEFINE taken == {c \in Copies : c \in {m} \X {e.id : e \in Takers(m)}}
<1>1. /\ \A e \in EndpointIds : outcome[<<m, e>>] = "none"
      /\ active' = active
      /\ outcome' = [c \in Copies |-> IF c \in {m} \X {e.id : e \in Takers(m)}
                                        THEN "pending" ELSE outcome[c]]
  BY DEF HandleSUOMessage, Settle
<1>2. \A c \in taken : outcome[c] = "none"
  BY <1>1 DEF Copies
<1>3. \A c \in Copies : outcome'[c] = IF c \in taken THEN "pending" ELSE outcome[c]
  BY <1>1
<1>4. taken \subseteq Copies
  OBVIOUS
<1> HIDE DEF taken
<1>5. /\ taken \cap Accepted = {} /\ Accepted' = Accepted \cup taken
      /\ Sent' = Sent /\ GivenUp' = GivenUp
  BY <1>2, <1>3, <1>4 DEF Accepted, Sent, GivenUp
<1>6. Pending' = Pending \cup taken /\ Pending \cap taken = {}
  BY <1>2, <1>3, <1>4 DEF Pending
<1>7. OnTheWay' = OnTheWay
  BY <1>1 DEF OnTheWay, Underway
<1>8. /\ Waiting \cap OnTheWay = {} /\ Pending = Waiting \cup OnTheWay
      /\ Waiting' \cap OnTheWay' = {} /\ Pending' = Waiting' \cup OnTheWay'
  BY PendingIsShared DEF Shared
<1>9. Waiting' = Waiting \cup taken
  BY <1>6, <1>7, <1>8
<1> DEFINE nothing == {}
<1>10. /\ nothing \in SUBSET (Waiting \cup taken)
       /\ nothing \in SUBSET ((Waiting \cup taken) \ nothing)
       /\ OnTheWay' = OnTheWay \cup nothing /\ GivenUp' = GivenUp \cup nothing
       /\ Waiting' = (Waiting \cup taken) \ (nothing \cup nothing)
  BY <1>5, <1>7, <1>9
<1> HIDE DEF nothing
<1> QED
  BY <1>4, <1>5, <1>10, TakeMaps

\* What is taken off the queue sets out, and is given up where its endpoint is gone.
LEMMA ProcessQueueTakes ==
    ASSUME IInv, AllInOnePlace', ProcessQueue
    PROVE  Custodian!Next
<1> DEFINE n == IF Room < Len(queue) THEN Room ELSE Len(queue)
           taken == {queue[i] : i \in 1 .. n}
           known == {item \in taken : item.id \in Configured}
           new == {Begun(item) : item \in known}
           dropped == UNION {CopiesOf(item) : item \in taken \ known}
           begun == {c \in Copies : \E x \in known : c \in CopiesOf(x)}
           gone == {c \in Copies : c \in dropped}
           nothing == {}
<1>1. AllInOnePlace /\ TypeOK /\ IsFiniteSet(active)
  BY DEF IInv
<1>2. /\ active' = active \cup new
      /\ outcome' = [c \in Copies |-> IF c \in dropped THEN "dropped" ELSE outcome[c]]
  BY DEF ProcessQueue, Settle
<1>3. n \in 0 .. Len(queue) /\ DOMAIN queue = 1 .. Len(queue)
  <2>1. /\ Len(queue) \in Nat /\ DOMAIN queue = 1 .. Len(queue)
        /\ Cardinality(active) \in Nat /\ MaxConcurrent \in Nat
    BY <1>1, LenProperties, FS_CardinalityType, WebhookAssumption DEF TypeOK
  <2>2. n > 0
    BY DEF ProcessQueue
  <2> QED
    BY <2>1, <2>2 DEF Room
<1> HIDE DEF n
<1>4. \A x \in taken : \E i \in DOMAIN queue : x = queue[i]
  BY <1>3
<1>5. \A r \in new : r.item \in known
  BY DEF Begun
<1>6. \A x \in known : \E r \in new : r.item = x
  <2> SUFFICES ASSUME NEW x \in known PROVE \E r \in new : r.item = x
    OBVIOUS
  <2>1. Begun(x) \in new /\ Begun(x).item = x
    BY DEF Begun
  <2> QED
    BY <2>1
<1>7. \A c : c \in dropped <=> \E x \in taken : x \notin known /\ c \in CopiesOf(x)
  OBVIOUS
<1>8. known \subseteq taken
  OBVIOUS
<1>9. \A x \in taken : x \in known <=> x.id \in Configured
  OBVIOUS
<1> HIDE DEF taken, known, new, dropped
<1>10. begun \subseteq Waiting /\ gone \subseteq Waiting
  BY <1>4, <1>7, <1>8 DEF Waiting, Queued, Has
<1>11. gone \cap begun = {}
  <2>1. \A c \in Copies : \A x \in taken : c \in CopiesOf(x) => x.id = c[2]
    BY CopiesOfFacts
  <2> QED
    BY <1>7, <1>8, <1>9, <2>1
<1>12. OnTheWay' = OnTheWay \cup begun
  BY <1>2, <1>5, <1>6 DEF OnTheWay, Underway
<1>13. \A c \in Copies : outcome'[c] = IF c \in gone THEN "dropped" ELSE outcome[c]
  BY <1>2
<1>14. gone \subseteq Copies /\ begun \subseteq Copies
  OBVIOUS
<1> HIDE DEF gone, begun
<1>15. /\ Waiting \cap OnTheWay = {} /\ Pending = Waiting \cup OnTheWay
       /\ Waiting' \cap OnTheWay' = {} /\ Pending' = Waiting' \cup OnTheWay'
  BY <1>1, PendingIsShared DEF Shared
<1>16. \A c \in gone : outcome[c] = "pending"
  BY <1>10, <1>15 DEF Pending
<1>17. /\ Accepted' = Accepted /\ Sent' = Sent /\ GivenUp' = GivenUp \cup gone
       /\ Pending' = Pending \ gone
  BY <1>13, <1>14, <1>16 DEF Accepted, Sent, GivenUp, Pending
<1>18. Waiting' = Waiting \ (begun \cup gone)
  BY <1>10, <1>11, <1>12, <1>15, <1>17
<1>19. /\ nothing \in SUBSET Copies /\ nothing \cap Accepted = {}
       /\ begun \in SUBSET (Waiting \cup nothing)
       /\ gone \in SUBSET ((Waiting \cup nothing) \ begun)
       /\ Accepted' = Accepted \cup nothing
       /\ Waiting' = (Waiting \cup nothing) \ (begun \cup gone)
  BY <1>10, <1>11, <1>17, <1>18
<1> HIDE DEF nothing
<1> QED
  BY <1>12, <1>17, <1>19, TakeMaps

\* The copies a request carries.
Carried(r) == {c \in Copies : c \in CopiesOf(r.item)}

\* A request ends, and its copies with it.
LEMMA EndReleases ==
    ASSUME AllInOnePlace, AllInOnePlace', NEW r \in active, NEW how \in {"sent", "failed"},
           active' = active \ {r}, Settle(CopiesOf(r.item), how)
    PROVE  Custodian!Next
<1> DEFINE S == Carried(r)
           nothing == {}
<1>1. \A c \in Copies : outcome'[c] = IF c \in S THEN how ELSE outcome[c]
  BY DEF Settle, Carried
<1>2. S \subseteq OnTheWay
  BY DEF Carried, OnTheWay, Underway
<1>3. OnTheWay' = OnTheWay \ S
  BY RequestCopies DEF Carried, OnTheWay, Underway
<1>4. /\ Waiting \cap OnTheWay = {} /\ Pending = Waiting \cup OnTheWay
      /\ Waiting' \cap OnTheWay' = {} /\ Pending' = Waiting' \cup OnTheWay'
  BY PendingIsShared DEF Shared
<1>5. OnTheWay \subseteq Copies
  BY DEF OnTheWay
<1> HIDE DEF S
<1>6. \A c \in S : outcome[c] = "pending"
  BY <1>2, <1>4 DEF Pending
<1>7. Pending' = Pending \ S /\ Accepted' = Accepted
  BY <1>1, <1>2, <1>5, <1>6 DEF Pending, Accepted
<1>8. Waiting' = Waiting
  BY <1>2, <1>3, <1>4, <1>7
<1>9. /\ Sent' = IF how = "sent" THEN Sent \cup S ELSE Sent
      /\ GivenUp' = IF how = "sent" THEN GivenUp ELSE GivenUp \cup S
  BY <1>1, <1>2, <1>5, <1>6 DEF Sent, GivenUp
<1>10. /\ \E out \in SUBSET OnTheWay : Sent' = Sent \cup out
       /\ \E gone \in SUBSET OnTheWay : GivenUp' = GivenUp \cup gone
  <2>1. Sent' = Sent \cup S \/ Sent' = Sent \cup {}
    BY <1>9
  <2>2. GivenUp' = GivenUp \cup S \/ GivenUp' = GivenUp \cup {}
    BY <1>9
  <2> QED
    BY <1>2, <2>1, <2>2
<1>11. /\ nothing \in SUBSET S
       /\ Waiting' = Waiting \cup nothing
       /\ S \ nothing \subseteq Sent' \cup GivenUp'
  BY <1>8, <1>9
<1> HIDE DEF nothing
<1> QED
  BY <1>2, <1>3, <1>7, <1>10, <1>11, ReleaseMaps

\* A request that fails and sleeps keeps its copies.
LEMMA RetryKeeps ==
    ASSUME IInv, AllInOnePlace', NEW r \in active,
           active' = (active \ {r}) \cup {Asleep(r)},
           outcome' = outcome
    PROVE  UNCHANGED Custodian!vars
<1> DEFINE s == Asleep(r)
<1>1. AllInOnePlace /\ TypeOK /\ IsFiniteSet(active)
  BY DEF IInv
<1>2. s.item.id = r.item.id /\ s.item.messages = r.item.messages
  <2>1. r.item \in Items
    BY <1>1, RequestFacts
  <2>2. r \in Requests
    BY <1>1 DEF TypeOK
  <2> QED
    BY <2>1, <2>2 DEF Asleep, Retried, Items, Requests
<1>3. active' = (active \ {r}) \cup {s}
  OBVIOUS
<1> HIDE DEF s
<1>4. \A c \in Copies : c \in CopiesOf(s.item) <=> c \in CopiesOf(r.item)
  BY <1>2, CopiesOfFacts
<1>5. OnTheWay' = OnTheWay
  BY <1>3, <1>4 DEF OnTheWay, Underway
<1>6. Pending' = Pending /\ Accepted' = Accepted /\ Sent' = Sent /\ GivenUp' = GivenUp
  BY DEF Pending, Accepted, Sent, GivenUp
<1>7. /\ Waiting \cap OnTheWay = {} /\ Pending = Waiting \cup OnTheWay
      /\ Waiting' \cap OnTheWay' = {} /\ Pending' = Waiting' \cup OnTheWay'
  BY <1>1, PendingIsShared DEF Shared
<1>8. Waiting' = Waiting
  BY <1>5, <1>6, <1>7
<1> QED
  BY <1>5, <1>6, <1>8, StaysMaps

\* What a request carried waits again.
LEMMA WakeReleases ==
    ASSUME AllInOnePlace, AllInOnePlace', NEW r \in active, Wake(r)
    PROVE  Custodian!Next
<1> DEFINE S == Carried(r)
           nothing == {}
<1>1. active' = active \ {r} /\ outcome' = outcome
  BY DEF Wake
<1>2. S \subseteq OnTheWay
  BY DEF Carried, OnTheWay, Underway
<1>3. OnTheWay' = OnTheWay \ S
  BY <1>1, RequestCopies DEF Carried, OnTheWay, Underway
<1>4. Pending' = Pending /\ Accepted' = Accepted /\ Sent' = Sent /\ GivenUp' = GivenUp
  BY <1>1 DEF Pending, Accepted, Sent, GivenUp
<1>5. /\ Waiting \cap OnTheWay = {} /\ Pending = Waiting \cup OnTheWay
      /\ Waiting' \cap OnTheWay' = {} /\ Pending' = Waiting' \cup OnTheWay'
  BY PendingIsShared DEF Shared
<1> HIDE DEF S
<1>6. Waiting' = Waiting \cup S
  BY <1>2, <1>3, <1>4, <1>5
<1>7. /\ \E out \in SUBSET OnTheWay : Sent' = Sent \cup out
      /\ \E gone \in SUBSET OnTheWay : GivenUp' = GivenUp \cup gone
  <2>1. Sent' = Sent \cup {} /\ GivenUp' = GivenUp \cup {}
    BY <1>4
  <2> QED
    BY <2>1
<1>8. S \in SUBSET S /\ S \ S \subseteq Sent' \cup GivenUp'
  OBVIOUS
<1> QED
  BY <1>2, <1>3, <1>4, <1>6, <1>7, <1>8, ReleaseMaps

LEMMA InitCustody == Init => Custodian!Init
<1> SUFFICES ASSUME Init PROVE Custodian!Init
  OBVIOUS
<1>1. /\ \A c \in Copies : outcome[c] = "none"
      /\ queue = <<>> /\ active = {}
  BY DEF Init
<1>2. \A c \in Copies : Elements(buffers[c[2]]) = {}
  BY NoMessages DEF Init, Copies
<1>3. DOMAIN queue = {}
  BY <1>1
<1> QED
  BY <1>1, <1>2, <1>3 DEF Custodian!Init

LEMMA NextCustody == IInv /\ IInv' /\ [Next]_vars => [Custodian!Next]_(Custodian!vars)
<1> SUFFICES ASSUME IInv, IInv', [Next]_vars
             PROVE  Custodian!Next \/ UNCHANGED Custodian!vars
  OBVIOUS
<1>1. AllInOnePlace /\ AllInOnePlace'
  BY DEF IInv
<1>2. CASE Start
  BY <1>1, <1>2, CalmStep DEF Start
<1>3. CASE BeginStop
  BY <1>1, <1>3, CalmStep DEF BeginStop
<1>4. CASE EndStop
  BY <1>1, <1>4, CalmStep DEF EndStop
<1>5. CASE RemoveAllListeners
  BY <1>1, <1>5, CalmStep DEF RemoveAllListeners
<1>6. ASSUME NEW m \in Messages, HandleSUOMessage(m) PROVE Custodian!Next
  BY <1>1, <1>6, HandleTakes
<1>7. ASSUME NEW id \in EndpointIds, FlushBatch(id) PROVE UNCHANGED Custodian!vars
  BY <1>1, <1>7, CalmStep DEF FlushBatch
<1>8. CASE ProcessQueue
  BY <1>1, <1>8, ProcessQueueTakes
<1>9. ASSUME NEW r \in active, Succeed(r) PROVE Custodian!Next
  BY <1>1, <1>9, EndReleases DEF Succeed
<1>10. ASSUME NEW r \in active, Fail(r)
       PROVE  Custodian!Next \/ UNCHANGED Custodian!vars
  <2>1. CASE r.item.attempts < r.retries
    BY <1>1, <1>10, <2>1, RetryKeeps DEF Fail
  <2>2. CASE ~(r.item.attempts < r.retries)
    BY <1>1, <1>10, <2>2, EndReleases DEF Fail
  <2> QED
    BY <2>1, <2>2
<1>11. ASSUME NEW r \in active, Wake(r) PROVE Custodian!Next
  BY <1>1, <1>11, WakeReleases
<1>12. ASSUME NEW e \in Endpoints, AddEndpoint(e) PROVE UNCHANGED Custodian!vars
  BY <1>1, <1>12, CalmStep DEF AddEndpoint
<1>13. ASSUME NEW id \in EndpointIds, RemoveEndpoint(id) PROVE UNCHANGED Custodian!vars
  BY <1>1, <1>13, CalmStep DEF RemoveEndpoint
<1>14. CASE UNCHANGED vars
  BY <1>1, <1>14, CalmStep DEF vars
<1> QED
  BY <1>2, <1>3, <1>4, <1>5, <1>6, <1>7, <1>8, <1>9, <1>10, <1>11, <1>12, <1>13, <1>14
     DEF Next

-----------------------------------------------------------------------------
\* The dispatcher's state is of the declared types: a batch never grows to
\* maxSize, and no more requests are under way or asleep than
\* maxConcurrentRequests (webhook-dispatcher.ts:239-242, 298-311).
THEOREM TypeCorrect == Spec => []TypeOK
BY Invariance, PTL DEF IInv

\* What is held back for a batch has a timer that will flush it, whatever
\* flushed the batches before it (webhook-dispatcher.ts:233-264).
THEOREM BatchesAreTimed == Spec => []BufferedHasTimer
BY Invariance, PTL DEF IInv

\* Once stop() has returned no request is under way or asleep, also when one
\* was to be retried while stop() waited (webhook-dispatcher.ts:157-163).
THEOREM StopWaitsForAll == Spec => []StoppedIsQuiet
BY Invariance, PTL DEF IInv

\* A message that an endpoint takes is in one place until it has ended and in
\* none after it: no flush, retry, stop, restart or change of the endpoints
\* loses it or sends it twice (webhook-dispatcher.ts:219-264, 298-374).
THEOREM NoCopyLostOrDoubled == Spec => []EachCopyInOnePlace
<1>1. IInv => EachCopyInOnePlace
  BY OneOfThePlaces DEF IInv
<1> QED
  BY <1>1, Invariance, PTL

\* The dispatcher implements the custody of copies: a copy that an endpoint takes
\* is held back or underway until it is sent or given up, it leaves its request
\* only for one of these, and nothing brings it back after that
\* (webhook-dispatcher.ts:219-264, 298-374).
THEOREM RefinesCustody == Spec => ImplementsCustody
BY InitCustody, NextCustody, Invariance, PTL DEF Spec, ImplementsCustody, Custodian!Spec
=============================================================================
