--------------------------- MODULE UOSCacheProofs ---------------------------
(***************************************************************************)
(* Theorems of UOSCache, for every set of keys, capacity and time to live. *)
(* The cache is one record, so the lemmas are about the operators on it:   *)
(* each keeps a sound cache sound.                                         *)
(***************************************************************************)
EXTENDS UOSCache, FiniteSetTheorems, TLAPS

Counted(c) ==
    /\ IsFiniteSet(c.keys)
    /\ c.size = Cardinality(c.keys)
    /\ c.size <= MaxSize

Ordered(c) == InOrder(c.keys, c.head, c.tail, c.prev, c.next, c.newer)

\* The inductive invariant says of the cache that it is sound.
Sound(c) == c \in CacheType /\ Counted(c) /\ Ordered(c)

\* What a loop still has to visit is in the cache, since nothing interrupts it.
LoopInv ==
    /\ work \in {"none", "touch", "delete"}
    /\ work = "none" => todo = {}
    /\ todo \subseteq cache.keys
    /\ work = "delete" => \A k \in todo : Expired(cache, k)

IInv == Sound(cache) /\ LoopInv

\* How a cache r comes from a cache c, as far as the entries and their order of
\* use go: without k, with k the latest, or with k stored.
Lost(c, k, r) ==
    /\ r.keys = c.keys \ {k}
    /\ r.newer = [a \in Keys |-> IF a \in r.keys THEN c.newer[a] \cap r.keys ELSE {}]
    /\ \A a \in Keys \ {k} : r.age[a] = c.age[a]
    /\ r.size + 1 = c.size

Moved(c, k, r) ==
    /\ r.keys = c.keys
    /\ r.age = c.age
    /\ r.newer = [a \in Keys |-> IF a \in c.keys \ {k} THEN c.newer[a] \cup {k} ELSE {}]

Stored(c, k, r) ==
    /\ k \in r.keys
    /\ r.newer = [a \in Keys |-> IF a \in r.keys \ {k}
                                   THEN (c.newer[a] \cap r.keys) \cup {k} ELSE {}]
    /\ \/ k \in c.keys /\ r.keys = c.keys
       \/ k \notin c.keys /\ c.size < MaxSize /\ r.keys = c.keys \cup {k}
       \/ \E victim \in c.keys :
            /\ k \notin c.keys
            /\ c.size = MaxSize
            /\ c.newer[victim] = c.keys \ {victim}
            /\ r.keys = (c.keys \ {victim}) \cup {k}

-----------------------------------------------------------------------------
(* The list, apart from the record.                                        *)

\* Only the links of the entries matter.
LEMMA OrderIsOfEntries ==
    ASSUME NEW S, NEW h, NEW t, NEW p, NEW n, NEW w, NEW p2, NEW n2, NEW w2,
           InOrder(S, h, t, p, n, w),
           \A a \in S : p2[a] = p[a] /\ n2[a] = n[a] /\ w2[a] = w[a]
    PROVE  InOrder(S, h, t, p2, n2, w2)
<1>1. \A k \in S :
         /\ h = k <=> p2[k] = Null
         /\ t = k <=> n2[k] = Null
         /\ w2[k] \subseteq S \ {k}
         /\ p2[k] = Null => w2[k] = {}
         /\ p2[k] # Null => p2[k] \in S /\ n2[p2[k]] = k /\ w2[k] = w2[p2[k]] \cup {p2[k]}
         /\ n2[k] # Null => n2[k] \in S /\ p2[n2[k]] = k
  BY DEF InOrder
<1>2. S # {} => h \in S /\ t \in S /\ w2[t] = S \ {t}
  BY DEF InOrder
<1> QED
  BY <1>1, <1>2 DEF InOrder

\* Unlinking an entry leaves the others in their order.
LEMMA OrderWithout ==
    ASSUME NEW S \in SUBSET Keys, NEW h, NEW t,
           NEW p \in [Keys -> Keys \cup {Null}], NEW n \in [Keys -> Keys \cup {Null}],
           NEW w \in [Keys -> SUBSET Keys],
           InOrder(S, h, t, p, n, w), NEW k \in S,
           NEW h2, p[k] = Null => h2 = n[k], p[k] # Null => h2 = h,
           NEW t2, n[k] = Null => t2 = p[k], n[k] # Null => t2 = t,
           NEW n2, \A a \in S \ {k} : n2[a] = IF a = p[k] THEN n[k] ELSE n[a],
           NEW p2, \A a \in S \ {k} : p2[a] = IF a = n[k] THEN p[k] ELSE p[a],
           NEW w2, \A a \in S : w2[a] = w[a] \ {k}
    PROVE  InOrder(S \ {k}, h2, t2, p2, n2, w2)
<1> DEFINE R == S \ {k}
<1> USE CacheAssumption
<1>1. p[k] # k /\ n[k] # k
  BY DEF InOrder
<1>2. \A a \in R : n2[a] = IF a = p[k] THEN n[k] ELSE n[a]
  OBVIOUS
<1>3. \A a \in R : p2[a] = IF a = n[k] THEN p[k] ELSE p[a]
  OBVIOUS
<1>4. ASSUME NEW a \in R
      PROVE  /\ h2 = a <=> p2[a] = Null
             /\ t2 = a <=> n2[a] = Null
             /\ w2[a] \subseteq R \ {a}
             /\ p2[a] = Null => w2[a] = {}
             /\ p2[a] # Null => p2[a] \in R /\ n2[p2[a]] = a /\ w2[a] = w2[p2[a]] \cup {p2[a]}
             /\ n2[a] # Null => n2[a] \in R /\ p2[n2[a]] = a
  <2>1. h2 = a <=> p2[a] = Null
    BY <1>1, <1>3 DEF InOrder
  <2>2. t2 = a <=> n2[a] = Null
    BY <1>1, <1>2 DEF InOrder
  <2>3. w2[a] \subseteq R \ {a}
    BY DEF InOrder
  <2>4. p2[a] = Null => w2[a] = {}
    BY <1>1, <1>3 DEF InOrder
  <2>5. ASSUME p2[a] # Null
        PROVE  p2[a] \in R /\ n2[p2[a]] = a /\ w2[a] = w2[p2[a]] \cup {p2[a]}
    <3>1. CASE a = n[k]
      <4>1. p[a] = k /\ p2[a] = p[k] /\ p[k] # Null
        BY <3>1, <2>5, <1>3 DEF InOrder
      <4>2. p[k] \in R /\ n2[p[k]] = a
        BY <3>1, <4>1, <1>1, <1>2 DEF InOrder
      <4>3. w[a] = (w[p[k]] \cup {p[k]}) \cup {k}
        BY <4>1, <3>1 DEF InOrder
      <4>4. k \notin w[p[k]]
        BY <4>1 DEF InOrder
      <4> QED
        BY <4>1, <4>2, <4>3, <4>4
    <3>2. CASE a # n[k]
      <4>1. p2[a] = p[a] /\ p[a] \in S /\ n[p[a]] = a /\ w[a] = w[p[a]] \cup {p[a]}
        BY <3>2, <2>5, <1>3 DEF InOrder
      <4>2. p[a] \in R /\ p[a] # p[k]
        BY <4>1, <3>2, <1>1 DEF InOrder
      <4> QED
        BY <4>1, <4>2, <1>2
    <3> QED
      BY <3>1, <3>2
  <2>6. ASSUME n2[a] # Null
        PROVE  n2[a] \in R /\ p2[n2[a]] = a
    <3>1. CASE a = p[k]
      BY <3>1, <2>6, <1>1, <1>2, <1>3 DEF InOrder
    <3>2. CASE a # p[k]
      BY <3>2, <2>6, <1>1, <1>2, <1>3 DEF InOrder
    <3> QED
      BY <3>1, <3>2
  <2> QED
    BY <2>1, <2>2, <2>3, <2>4, <2>5, <2>6
<1>5. R = {} => h2 = Null /\ t2 = Null
  BY <1>1 DEF InOrder
<1>6. R # {} => h2 \in R /\ t2 \in R /\ w2[t2] = R \ {t2}
  <2> SUFFICES ASSUME R # {} PROVE h2 \in R /\ t2 \in R /\ w2[t2] = R \ {t2}
    OBVIOUS
  <2>1. h2 \in R
    BY <1>1 DEF InOrder
  <2>2. CASE n[k] = Null
    <3>1. t = k /\ w[k] = S \ {k} /\ t2 = p[k]
      BY <2>2 DEF InOrder
    <3>2. p[k] # Null
      BY <3>1 DEF InOrder
    <3>3. p[k] \in R /\ w[k] = w[p[k]] \cup {p[k]} /\ p[k] \notin w[p[k]]
      BY <3>2, <1>1 DEF InOrder
    <3> QED
      BY <2>1, <3>1, <3>3
  <2>3. CASE n[k] # Null
    <3>1. t2 = t /\ t \in R /\ w[t] = S \ {t}
      BY <2>3 DEF InOrder
    <3> QED
      BY <2>1, <3>1
  <2> QED
    BY <2>2, <2>3
<1> QED
  BY <1>4, <1>5, <1>6 DEF InOrder

\* Linking an entry in at the head makes it the latest.
LEMMA OrderWith ==
    ASSUME NEW S \in SUBSET Keys, NEW h, NEW t,
           NEW p \in [Keys -> Keys \cup {Null}], NEW n \in [Keys -> Keys \cup {Null}],
           NEW w, InOrder(S, h, t, p, n, w), NEW k \in Keys \ S,
           NEW t2, t = Null => t2 = k, t # Null => t2 = t,
           NEW n2, n2[k] = h, \A a \in S : n2[a] = n[a],
           NEW p2, p2[k] = Null, \A a \in S : p2[a] = IF a = h THEN k ELSE p[a],
           NEW w2, \A a \in S : w2[a] = w[a] \cup {k}, w2[k] = {}
    PROVE  InOrder(S \cup {k}, k, t2, p2, n2, w2)
<1> DEFINE R == S \cup {k}
<1> USE CacheAssumption
<1>1. h # k /\ t # k
  BY DEF InOrder
<1>2. /\ n2[k] = h
      /\ p2[k] = Null
      /\ \A a \in S : n2[a] = n[a] /\ p2[a] = IF a = h THEN k ELSE p[a]
  BY <1>1
<1>3. ASSUME NEW a \in R
      PROVE  /\ k = a <=> p2[a] = Null
             /\ t2 = a <=> n2[a] = Null
             /\ w2[a] \subseteq R \ {a}
             /\ p2[a] = Null => w2[a] = {}
             /\ p2[a] # Null => p2[a] \in R /\ n2[p2[a]] = a /\ w2[a] = w2[p2[a]] \cup {p2[a]}
             /\ n2[a] # Null => n2[a] \in R /\ p2[n2[a]] = a
  <2>1. CASE a = k
    BY <2>1, <1>1, <1>2 DEF InOrder
  <2>2. CASE a # k
    <3>0. a \in S
      BY <2>2
    <3>1. (k = a <=> p2[a] = Null) /\ (t2 = a <=> n2[a] = Null)
      BY <3>0, <1>1, <1>2 DEF InOrder
    <3>2. w2[a] \subseteq R \ {a} /\ p2[a] # Null
      BY <3>0, <1>1, <1>2 DEF InOrder
    <3>3. p2[a] \in R /\ n2[p2[a]] = a /\ w2[a] = w2[p2[a]] \cup {p2[a]}
      <4>1. CASE a = h
        BY <4>1, <3>0, <1>1, <1>2 DEF InOrder
      <4>2. CASE a # h
        BY <4>2, <3>0, <1>1, <1>2 DEF InOrder
      <4> QED
        BY <4>1, <4>2
    <3>4. n2[a] # Null => n2[a] \in R /\ p2[n2[a]] = a
      BY <3>0, <1>1, <1>2 DEF InOrder
    <3> QED
      BY <3>1, <3>2, <3>3, <3>4
  <2> QED
    BY <2>1, <2>2
<1>4. k \in R /\ t2 \in R /\ w2[t2] = R \ {t2}
  BY <1>1 DEF InOrder
<1> QED
  BY <1>3, <1>4 DEF InOrder

-----------------------------------------------------------------------------
(* The operators on the record.                                            *)

\* An entry that leaves takes its node out of the list.
LEMMA UnlinkSound ==
    ASSUME NEW c, Sound(c), NEW k \in c.keys, NEW r, r = Unmap(RemoveNode(c, k), k)
    PROVE  /\ Sound(r)
           /\ r.keys = c.keys \ {k}
           /\ r.size + 1 = c.size
           /\ r.newer = [a \in Keys |-> IF a \in c.keys \ {k} THEN c.newer[a] \ {k} ELSE {}]
           /\ \A a \in Keys \ {k} : r.age[a] = c.age[a]
<1> DEFINE h2 == IF c.prev[k] = Null THEN c.next[k] ELSE c.head
           t2 == IF c.next[k] = Null THEN c.prev[k] ELSE c.tail
           n2 == IF c.prev[k] = Null THEN c.next ELSE [c.next EXCEPT ![c.prev[k]] = c.next[k]]
           p2 == IF c.next[k] = Null THEN c.prev ELSE [c.prev EXCEPT ![c.next[k]] = c.prev[k]]
           w2 == [a \in Keys |-> IF a \in c.keys \ {k} THEN c.newer[a] \ {k} ELSE {}]
<1>1. c \in CacheType /\ k \in Keys
  BY DEF Sound, CacheType
<1>2. r = [keys |-> c.keys \ {k}, head |-> h2, tail |-> t2,
           prev |-> [p2 EXCEPT ![k] = Null], next |-> [n2 EXCEPT ![k] = Null],
           size |-> c.size - 1, age |-> [c.age EXCEPT ![k] = 0], newer |-> w2]
  BY <1>1 DEF Unmap, RemoveNode, CacheType
<1>3. Counted(r) /\ r.size \in Nat /\ r.size + 1 = c.size
  <2>1. /\ IsFiniteSet(c.keys)
        /\ c.size = Cardinality(c.keys)
        /\ c.size <= MaxSize
        /\ c.size \in Nat
    BY <1>1 DEF Sound, Counted, CacheType
  <2>2. IsFiniteSet(c.keys \ {k}) /\ Cardinality(c.keys \ {k}) = Cardinality(c.keys) - 1
    BY <2>1, FS_RemoveElement
  <2>3. Cardinality(c.keys \ {k}) \in Nat
    BY <2>2, FS_CardinalityType
  <2> QED
    BY <1>2, <2>1, <2>2, <2>3, CacheAssumption DEF Counted
<1>4. h2 \in Keys \cup {Null} /\ t2 \in Keys \cup {Null}
  BY <1>1 DEF CacheType
<1>5. n2 \in [Keys -> Keys \cup {Null}] /\ p2 \in [Keys -> Keys \cup {Null}]
  BY <1>1 DEF CacheType
<1>6. w2 \in [Keys -> SUBSET Keys]
  BY <1>1 DEF CacheType
<1>7. r \in CacheType
  <2>1. [c.age EXCEPT ![k] = 0] \in [Keys -> 0..TTL + 1]
    BY <1>1, CacheAssumption DEF CacheType
  <2>2. [n2 EXCEPT ![k] = Null] \in [Keys -> Keys \cup {Null}]
    BY <1>5
  <2>3. [p2 EXCEPT ![k] = Null] \in [Keys -> Keys \cup {Null}]
    BY <1>5
  <2> HIDE DEF h2, t2, n2, p2, w2
  <2> QED
    BY <1>1, <1>2, <1>3, <1>4, <1>6, <2>1, <2>2, <2>3 DEF CacheType
<1>8. InOrder(c.keys \ {k}, h2, t2, p2, n2, w2)
  <2>1. /\ InOrder(c.keys, c.head, c.tail, c.prev, c.next, c.newer)
        /\ c.keys \in SUBSET Keys
        /\ c.prev \in [Keys -> Keys \cup {Null}]
        /\ c.next \in [Keys -> Keys \cup {Null}]
        /\ c.newer \in [Keys -> SUBSET Keys]
    BY <1>1 DEF Sound, Ordered, CacheType
  <2>2. \A a \in c.keys \ {k} : w2[a] = c.newer[a] \ {k}
    BY <2>1
  <2>3. w2[k] = {} /\ c.newer[k] \ {k} = c.newer[k]
    BY <2>1, <1>1 DEF InOrder
  <2> DEFINE w3 == [a \in Keys |-> c.newer[a] \ {k}]
  <2>4. \A a \in c.keys : w3[a] = c.newer[a] \ {k}
    BY <2>1
  <2>5. w3 \in [Keys -> SUBSET Keys]
    BY <2>1
  <2>8. /\ c.prev[k] = Null => h2 = c.next[k]
        /\ c.prev[k] # Null => h2 = c.head
        /\ c.next[k] = Null => t2 = c.prev[k]
        /\ c.next[k] # Null => t2 = c.tail
    OBVIOUS
  <2>9. /\ \A a \in c.keys \ {k} : n2[a] = IF a = c.prev[k] THEN c.next[k] ELSE c.next[a]
        /\ \A a \in c.keys \ {k} : p2[a] = IF a = c.next[k] THEN c.prev[k] ELSE c.prev[a]
    BY <2>1, CacheAssumption
  <2>6. InOrder(c.keys \ {k}, h2, t2, p2, n2, w3)
    <3> HIDE DEF h2, t2, n2, p2, w3
    <3> QED
      BY <2>1, <2>4, <2>5, <2>8, <2>9, OrderWithout
  <2>7. \A a \in c.keys \ {k} : w2[a] = w3[a]
    BY <2>1
  <2> HIDE DEF h2, t2, n2, p2, w2, w3
  <2> QED
    BY <2>6, <2>7, OrderIsOfEntries
<1>9. InOrder(r.keys, r.head, r.tail, r.prev, r.next, r.newer)
  <2> DEFINE n3 == [n2 EXCEPT ![k] = Null]
             p3 == [p2 EXCEPT ![k] = Null]
  <2>1. \A a \in c.keys \ {k} : p3[a] = p2[a] /\ n3[a] = n2[a]
    BY <1>1, <1>5 DEF CacheType
  <2>2. r.keys = c.keys \ {k} /\ r.head = h2 /\ r.tail = t2
    BY <1>2
  <2>3. r.prev = p3 /\ r.next = n3 /\ r.newer = w2
    BY <1>2
  <2> HIDE DEF h2, t2, n2, p2, w2, n3, p3
  <2> QED
    BY <1>8, <2>1, <2>2, <2>3, OrderIsOfEntries
<1>10. \A a \in Keys \ {k} : r.age[a] = c.age[a]
  BY <1>1, <1>2 DEF CacheType
<1> QED
  BY <1>2, <1>3, <1>7, <1>9, <1>10 DEF Sound, Ordered

\* An entry that is used again moves to the head and nothing else changes.
LEMMA MoveSound ==
    ASSUME NEW c, Sound(c), NEW k \in c.keys, NEW r, r = MoveToHead(c, k)
    PROVE  Sound(r) /\ Moved(c, k, r)
<1> DEFINE h2 == IF c.prev[k] = Null THEN c.next[k] ELSE c.head
           t2 == IF c.next[k] = Null THEN c.prev[k] ELSE c.tail
           n2 == IF c.prev[k] = Null THEN c.next ELSE [c.next EXCEPT ![c.prev[k]] = c.next[k]]
           p2 == IF c.next[k] = Null THEN c.prev ELSE [c.prev EXCEPT ![c.next[k]] = c.prev[k]]
           w2 == [a \in Keys |-> c.newer[a] \ {k}]
           t3 == IF t2 = Null THEN k ELSE t2
           n3 == [n2 EXCEPT ![k] = h2]
           p3 == [a \in Keys |-> IF a = h2 THEN k ELSE IF a = k THEN Null ELSE p2[a]]
           w3 == [a \in Keys |-> IF a \in c.keys \ {k} THEN c.newer[a] \cup {k} ELSE {}]
           R  == c.keys \ {k}
<1>1. /\ c \in CacheType
      /\ k \in Keys
      /\ c.keys \in SUBSET Keys
      /\ c.prev \in [Keys -> Keys \cup {Null}]
      /\ c.next \in [Keys -> Keys \cup {Null}]
      /\ c.newer \in [Keys -> SUBSET Keys]
      /\ InOrder(c.keys, c.head, c.tail, c.prev, c.next, c.newer)
  BY DEF Sound, Ordered, CacheType
<1>2. r = [keys |-> c.keys, head |-> k, tail |-> t3, prev |-> p3, next |-> n3,
           size |-> c.size, age |-> c.age, newer |-> w3]
  BY <1>1 DEF MoveToHead, AddToHead, RemoveNode, CacheType
<1>3. /\ n2 \in [Keys -> Keys \cup {Null}]
      /\ p2 \in [Keys -> Keys \cup {Null}]
      /\ w2 \in [Keys -> SUBSET Keys]
      /\ h2 \in Keys \cup {Null}
      /\ t2 \in Keys \cup {Null}
  BY <1>1 DEF CacheType
<1>4. InOrder(R, h2, t2, p2, n2, w2)
  <2>1. \A a \in c.keys : w2[a] = c.newer[a] \ {k}
    BY <1>1
  <2>2. /\ c.prev[k] = Null => h2 = c.next[k]
        /\ c.prev[k] # Null => h2 = c.head
        /\ c.next[k] = Null => t2 = c.prev[k]
        /\ c.next[k] # Null => t2 = c.tail
    OBVIOUS
  <2>3. /\ \A a \in c.keys \ {k} : n2[a] = IF a = c.prev[k] THEN c.next[k] ELSE c.next[a]
        /\ \A a \in c.keys \ {k} : p2[a] = IF a = c.next[k] THEN c.prev[k] ELSE c.prev[a]
    BY <1>1, CacheAssumption
  <2> HIDE DEF h2, t2, n2, p2, w2
  <2> QED
    BY <1>1, <1>3, <2>1, <2>2, <2>3, OrderWithout
<1>5. InOrder(R \cup {k}, k, t3, p3, n3, w3)
  <2>1. \A a \in R : w3[a] = w2[a] \cup {k}
    BY <1>1
  <2>2. w3[k] = {}
    BY <1>1
  <2>3. R \in SUBSET Keys /\ k \in Keys \ R
    BY <1>1
  <2>4. (t2 = Null => t3 = k) /\ (t2 # Null => t3 = t2)
    OBVIOUS
  <2>5. h2 # k
    <3> HIDE DEF R, h2, t2, n2, p2, w2
    <3> QED
      BY <1>1, <1>4, CacheAssumption DEF InOrder, R
  <2>6. n3[k] = h2 /\ \A a \in R : n3[a] = n2[a]
    BY <1>1, <1>3
  <2>7. p3[k] = Null /\ \A a \in R : p3[a] = IF a = h2 THEN k ELSE p2[a]
    BY <1>1, <2>5
  <2> HIDE DEF R, h2, t2, n2, p2, w2, t3, n3, p3, w3
  <2> QED
    BY <1>3, <1>4, <2>1, <2>2, <2>3, <2>4, <2>6, <2>7, OrderWith
<1>6. r \in CacheType
  <2>1. /\ n3 \in [Keys -> Keys \cup {Null}]
        /\ p3 \in [Keys -> Keys \cup {Null}]
        /\ w3 \in [Keys -> SUBSET Keys]
        /\ t3 \in Keys \cup {Null}
    <3> HIDE DEF h2, t2, n2, p2, w2
    <3> QED
      BY <1>1, <1>3
  <2> HIDE DEF n3, p3, w3, t3
  <2> QED
    BY <1>1, <1>2, <2>1 DEF CacheType
<1>7. Counted(r)
  BY <1>2 DEF Sound, Counted
<1>8. Ordered(r)
  <2>1. R \cup {k} = c.keys
    OBVIOUS
  <2> HIDE DEF n3, p3, w3, t3, R
  <2> QED
    BY <1>2, <1>5, <2>1 DEF Ordered
<1> QED
  BY <1>2, <1>6, <1>7, <1>8 DEF Sound, Moved

\* A new entry comes in at the head, where there is room for it.
LEMMA AddSound ==
    ASSUME NEW c, Sound(c), NEW k \in Keys \ c.keys, c.size < MaxSize,
           NEW r, r = Add(c, k)
    PROVE  /\ Sound(r)
           /\ r.keys = c.keys \cup {k}
           /\ r.age = c.age
           /\ r.newer = [a \in Keys |-> IF a \in c.keys THEN c.newer[a] \cup {k} ELSE {}]
<1> DEFINE t3 == IF c.tail = Null THEN k ELSE c.tail
           n3 == [c.next EXCEPT ![k] = c.head]
           p3 == [a \in Keys |-> IF a = c.head THEN k ELSE IF a = k THEN Null ELSE c.prev[a]]
           w3 == [a \in Keys |-> IF a \in c.keys THEN c.newer[a] \cup {k} ELSE {}]
<1>1. /\ c \in CacheType
      /\ c.keys \in SUBSET Keys
      /\ c.prev \in [Keys -> Keys \cup {Null}]
      /\ c.next \in [Keys -> Keys \cup {Null}]
      /\ c.newer \in [Keys -> SUBSET Keys]
      /\ InOrder(c.keys, c.head, c.tail, c.prev, c.next, c.newer)
  BY DEF Sound, Ordered, CacheType
<1>2. r = [keys |-> c.keys \cup {k}, head |-> k, tail |-> t3, prev |-> p3,
           next |-> n3, size |-> c.size + 1, age |-> c.age, newer |-> w3]
  BY <1>1 DEF Add, AddToHead, CacheType
<1>3. InOrder(c.keys \cup {k}, k, t3, p3, n3, w3)
  <2>1. (\A a \in c.keys : w3[a] = c.newer[a] \cup {k}) /\ w3[k] = {}
    BY <1>1
  <2>2. (c.tail = Null => t3 = k) /\ (c.tail # Null => t3 = c.tail)
    OBVIOUS
  <2>3. c.head # k
    BY <1>1, CacheAssumption DEF InOrder
  <2>4. n3[k] = c.head /\ \A a \in c.keys : n3[a] = c.next[a]
    BY <1>1
  <2>5. p3[k] = Null /\ \A a \in c.keys : p3[a] = IF a = c.head THEN k ELSE c.prev[a]
    BY <1>1, <2>3
  <2> HIDE DEF t3, n3, p3, w3
  <2> QED
    BY <1>1, <2>1, <2>2, <2>4, <2>5, OrderWith
<1>4. r \in CacheType
  <2>1. /\ n3 \in [Keys -> Keys \cup {Null}]
        /\ p3 \in [Keys -> Keys \cup {Null}]
        /\ w3 \in [Keys -> SUBSET Keys]
        /\ t3 \in Keys \cup {Null}
    BY <1>1 DEF CacheType
  <2> HIDE DEF n3, p3, w3, t3
  <2> QED
    BY <1>1, <1>2, <2>1 DEF CacheType
<1>5. Counted(r)
  <2>1. /\ IsFiniteSet(c.keys)
        /\ c.size = Cardinality(c.keys)
        /\ c.size \in Nat
    BY <1>1 DEF Sound, Counted, CacheType
  <2>2. /\ IsFiniteSet(c.keys \cup {k})
        /\ Cardinality(c.keys \cup {k}) = Cardinality(c.keys) + 1
    BY <2>1, FS_AddElement
  <2> QED
    BY <1>2, <2>1, <2>2, CacheAssumption DEF Counted
<1>6. Ordered(r)
  <2> HIDE DEF n3, p3, w3, t3
  <2> QED
    BY <1>2, <1>3 DEF Ordered
<1> QED
  BY <1>2, <1>4, <1>5, <1>6 DEF Sound

\* Eviction takes the entry all the others were used after.
LEMMA EvictSound ==
    ASSUME NEW c, Sound(c), Full(c), NEW r, r = EvictLRU(c)
    PROVE  /\ Sound(r)
           /\ c.tail \in c.keys
           /\ c.newer[c.tail] = c.keys \ {c.tail}
           /\ r.keys = c.keys \ {c.tail}
           /\ r.size < MaxSize
           /\ r.newer = [a \in Keys |->
                          IF a \in c.keys \ {c.tail} THEN c.newer[a] \ {c.tail} ELSE {}]
<1>1. /\ c.keys # {}
      /\ c.size <= MaxSize
      /\ c.size \in Nat
  BY FS_EmptySet, CacheAssumption DEF Sound, Counted, CacheType, Full
<1>2. c.tail \in c.keys /\ c.newer[c.tail] = c.keys \ {c.tail}
  BY <1>1 DEF Sound, Ordered, InOrder
<1>3. c.tail # Null
  BY <1>2, CacheAssumption DEF Sound, CacheType
<1>4. r = Unmap(RemoveNode(c, c.tail), c.tail)
  BY <1>3 DEF EvictLRU
<1>5. /\ Sound(r)
      /\ r.keys = c.keys \ {c.tail}
      /\ r.size + 1 = c.size
      /\ r.newer = [a \in Keys |->
                          IF a \in c.keys \ {c.tail} THEN c.newer[a] \ {c.tail} ELSE {}]
  BY <1>2, <1>4, UnlinkSound
<1>6. r.size < MaxSize
  BY <1>1, <1>5, CacheAssumption DEF Sound, CacheType
<1> QED
  BY <1>2, <1>5, <1>6

LEMMA RefreshSound ==
    ASSUME NEW c, Sound(c), NEW k \in Keys, NEW r, r = Refresh(c, k)
    PROVE  Sound(r) /\ r.keys = c.keys /\ r.newer = c.newer /\ r.size = c.size
<1>1. c \in CacheType
  BY DEF Sound
<1>2. r = [keys |-> c.keys, head |-> c.head, tail |-> c.tail, prev |-> c.prev,
           next |-> c.next, size |-> c.size, age |-> [c.age EXCEPT ![k] = 0],
           newer |-> c.newer]
  BY <1>1 DEF Refresh, CacheType
<1>3. r \in CacheType
  BY <1>1, <1>2, CacheAssumption DEF CacheType
<1> QED
  BY <1>2, <1>3 DEF Sound, Counted, Ordered

\* What set() does, in terms of the entries and their order of use: it renews an
\* entry, or adds one, or puts one in the place of the least recently used.
LEMMA SetSound ==
    ASSUME NEW c, Sound(c), NEW k \in Keys, NEW r, r = Set(c, k)
    PROVE  Sound(r) /\ Stored(c, k, r)
<1>1. c \in CacheType /\ c.size <= MaxSize
  BY DEF Sound, Counted
<1>2. \A a \in c.keys : c.newer[a] \subseteq c.keys
  BY DEF Sound, Ordered, InOrder
<1>3. CASE k \in c.keys
  <2> DEFINE m == Refresh(c, k)
  <2>1. Sound(m) /\ m.keys = c.keys /\ m.newer = c.newer
    BY RefreshSound
  <2>2. r = MoveToHead(m, k)
    BY <1>3 DEF Set
  <2> HIDE DEF m
  <2>3. Sound(r) /\ Moved(m, k, r)
    BY <1>3, <2>1, <2>2, MoveSound
  <2>4. \A a \in c.keys : c.newer[a] \cap c.keys = c.newer[a]
    BY <1>2
  <2> QED
    BY <1>3, <2>1, <2>3, <2>4 DEF Moved, Stored
<1>4. CASE k \notin c.keys /\ ~Full(c)
  <2> DEFINE m == Refresh(c, k)
  <2>1. Sound(m) /\ m.keys = c.keys /\ m.newer = c.newer /\ m.size = c.size
    BY RefreshSound
  <2>2. r = Add(m, k)
    BY <1>4 DEF Set
  <2>3. c.size < MaxSize
    BY <1>1, <1>4, CacheAssumption DEF Full, CacheType
  <2> HIDE DEF m
  <2>4. /\ Sound(r)
        /\ r.keys = c.keys \cup {k}
        /\ r.newer = [a \in Keys |-> IF a \in c.keys THEN c.newer[a] \cup {k} ELSE {}]
    BY <1>4, <2>1, <2>2, <2>3, AddSound
  <2>5. \A a \in c.keys : c.newer[a] \cap r.keys = c.newer[a]
    BY <1>2, <2>4
  <2>6. c.keys = r.keys \ {k}
    BY <1>4, <2>4
  <2> QED
    BY <1>4, <2>3, <2>4, <2>5, <2>6 DEF Stored
<1>5. CASE k \notin c.keys /\ Full(c)
  <2> DEFINE e == EvictLRU(c)
             m == Refresh(e, k)
             v == c.tail
  <2>1. /\ Sound(e)
        /\ v \in c.keys
        /\ c.newer[v] = c.keys \ {v}
        /\ e.keys = c.keys \ {v}
        /\ e.size < MaxSize
        /\ e.newer = [a \in Keys |-> IF a \in c.keys \ {v} THEN c.newer[a] \ {v} ELSE {}]
    BY <1>5, EvictSound
  <2>2. r = Add(m, k)
    BY <1>5 DEF Set
  <2> HIDE DEF e
  <2>3. Sound(m) /\ m.keys = e.keys /\ m.newer = e.newer /\ m.size = e.size
    BY <2>1, RefreshSound
  <2> HIDE DEF m
  <2>4. k \in Keys \ m.keys /\ m.size < MaxSize
    BY <1>5, <2>1, <2>3
  <2>5. /\ Sound(r)
        /\ r.keys = m.keys \cup {k}
        /\ r.newer = [a \in Keys |-> IF a \in m.keys THEN m.newer[a] \cup {k} ELSE {}]
    BY <2>2, <2>3, <2>4, AddSound
  <2>6. c.size = MaxSize
    BY <1>1, <1>5, CacheAssumption DEF Full, CacheType
  <2>7. r.keys = (c.keys \ {v}) \cup {k} /\ m.keys = r.keys \ {k}
    BY <1>5, <2>1, <2>3, <2>5
  <2>8. \A a \in m.keys : m.newer[a] \cup {k} = (c.newer[a] \cap r.keys) \cup {k}
    <3> SUFFICES ASSUME NEW a \in m.keys
                 PROVE  m.newer[a] \cup {k} = (c.newer[a] \cap r.keys) \cup {k}
      OBVIOUS
    <3>1. a \in c.keys /\ a # v /\ a \in Keys
      BY <1>1, <2>1, <2>3 DEF CacheType
    <3>2. m.newer[a] = c.newer[a] \ {v} /\ c.newer[a] \subseteq c.keys
      BY <1>2, <2>1, <2>3, <3>1
    <3> QED
      BY <1>5, <2>7, <3>2
  <2>9. r.newer = [a \in Keys |-> IF a \in r.keys \ {k}
                                    THEN (c.newer[a] \cap r.keys) \cup {k} ELSE {}]
    BY <2>5, <2>7, <2>8
  <2> QED
    BY <1>5, <2>1, <2>5, <2>6, <2>7, <2>9 DEF Stored
<1> QED
  BY <1>3, <1>4, <1>5

\* What delete() and the sweep do to an entry.
LEMMA DeleteSound ==
    ASSUME NEW c, Sound(c), NEW k \in c.keys, NEW r, r = Delete(c, k)
    PROVE  Sound(r) /\ Lost(c, k, r)
<1>1. /\ Sound(r)
      /\ r.keys = c.keys \ {k}
      /\ r.newer = [a \in Keys |-> IF a \in c.keys \ {k} THEN c.newer[a] \ {k} ELSE {}]
      /\ \A a \in Keys \ {k} : r.age[a] = c.age[a]
      /\ r.size + 1 = c.size
  BY UnlinkSound DEF Delete
<1>2. \A a \in c.keys : c.newer[a] \ {k} = c.newer[a] \cap (c.keys \ {k})
  BY DEF Sound, Ordered, InOrder
<1> QED
  BY <1>1, <1>2 DEF Lost

\* What get() does: it drops an expired entry, or makes a live one the latest.
LEMMA GetSound ==
    ASSUME NEW c, Sound(c), NEW k \in Keys, NEW r, r = Get(c, k)
    PROVE  /\ Sound(r)
           /\ \/ r = c /\ k \notin c.keys
              \/ /\ k \in c.keys /\ Expired(c, k)
                 /\ r = Delete(c, k)
              \/ /\ k \in c.keys /\ ~Expired(c, k)
                 /\ r = MoveToHead(c, k)
<1>1. CASE k \notin c.keys
  BY <1>1 DEF Get
<1>2. CASE k \in c.keys /\ Expired(c, k)
  BY <1>2, DeleteSound DEF Get
<1>3. CASE k \in c.keys /\ ~Expired(c, k)
  BY <1>3, MoveSound DEF Get
<1> QED
  BY <1>1, <1>2, <1>3

\* The clock touches the ages only.
LEMMA TickSound ==
    ASSUME NEW c, Sound(c), NEW r,
           r = [c EXCEPT !.age = [k \in Keys |-> IF k \in c.keys /\ ~Expired(c, k)
                                                   THEN @[k] + 1 ELSE @[k]]]
    PROVE  /\ Sound(r)
           /\ r.keys = c.keys
           /\ r.newer = c.newer
           /\ \A k \in c.keys : Expired(c, k) => Expired(r, k)
<1> DEFINE g == [k \in Keys |-> IF k \in c.keys /\ ~Expired(c, k)
                                  THEN c.age[k] + 1 ELSE c.age[k]]
<1>1. c \in CacheType
  BY DEF Sound
<1>2. r = [keys |-> c.keys, head |-> c.head, tail |-> c.tail, prev |-> c.prev,
           next |-> c.next, size |-> c.size, age |-> g, newer |-> c.newer]
  BY <1>1 DEF CacheType
<1>3. g \in [Keys -> 0..TTL + 1]
  BY <1>1, CacheAssumption DEF CacheType, Expired
<1>5. \A k \in c.keys : Expired(c, k) => Expired(r, k)
  BY <1>1, <1>2 DEF CacheType, Expired
<1> HIDE DEF g
<1>4. r \in CacheType
  BY <1>1, <1>2, <1>3 DEF CacheType
<1> QED
  BY <1>2, <1>4, <1>5 DEF Sound, Counted, Ordered

LEMMA EmptySound == Sound(Empty)
<1>1. Empty \in CacheType
  BY CacheAssumption DEF Empty, CacheType
<1>2. Counted(Empty)
  BY FS_EmptySet, CacheAssumption DEF Empty, Counted
<1>3. Ordered(Empty)
  BY DEF Empty, Ordered, InOrder
<1> QED
  BY <1>1, <1>2, <1>3 DEF Sound

-----------------------------------------------------------------------------
(* The steps.                                                              *)

LEMMA InitIInv == Init => IInv
<1> SUFFICES ASSUME Init PROVE IInv
  OBVIOUS
<1>1. LoopInv
  BY DEF Init, LoopInv
<1> QED
  BY <1>1, EmptySound DEF Init, IInv

\* One step of a loop, or of anything else, as it changes the cache.
LEMMA NextInv == IInv /\ [Next]_vars => Sound(cache') /\ LoopInv'
<1> SUFFICES ASSUME IInv, [Next]_vars PROVE Sound(cache') /\ LoopInv'
  OBVIOUS
<1>0. Sound(cache) /\ LoopInv /\ cache.keys \in SUBSET Keys
  BY DEF IInv, Sound, CacheType
<1>1. ASSUME NEW k \in Keys, SetEntry(k) PROVE Sound(cache') /\ LoopInv'
  <2>1. Sound(cache')
    BY <1>0, <1>1, SetSound DEF SetEntry
  <2> QED
    BY <1>0, <1>1, <2>1 DEF SetEntry, Idle, LoopInv
<1>2. ASSUME NEW k \in Keys, GetEntry(k) PROVE Sound(cache') /\ LoopInv'
  <2>1. Sound(cache')
    BY <1>0, <1>2, GetSound DEF GetEntry
  <2> QED
    BY <1>0, <1>2, <2>1 DEF GetEntry, Idle, LoopInv
<1>3. ASSUME NEW k \in Keys, MergeEntry(k) PROVE Sound(cache') /\ LoopInv'
  <2>1. Sound(Get(cache, k))
    BY <1>0, GetSound
  <2>2. Sound(Set(Get(cache, k), k))
    BY <2>1, SetSound
  <2> QED
    BY <1>0, <1>3, <2>2 DEF MergeEntry, Idle, LoopInv
<1>4. ASSUME NEW d \in Devices, GetAllModules(d) PROVE Sound(cache') /\ LoopInv'
  BY <1>0, <1>4 DEF GetAllModules, LoopInv
<1>5. CASE CleanupExpired
  BY <1>0, <1>5 DEF CleanupExpired, LoopInv
<1>6. CASE LoopEnds
  BY <1>0, <1>6 DEF LoopEnds, LoopInv
<1>7. ASSUME NEW k \in Keys, Touch(k) PROVE Sound(cache') /\ LoopInv'
  <2>1. CASE Expired(cache, k)
    BY <1>0, <1>7, <2>1 DEF Touch, LoopInv
  <2>2. CASE ~Expired(cache, k)
    <3>1. k \in cache.keys /\ cache' = MoveToHead(cache, k)
      BY <1>0, <1>7, <2>2 DEF Touch, LoopInv
    <3>2. Sound(cache') /\ Moved(cache, k, cache')
      BY <1>0, <3>1, MoveSound
    <3> QED
      BY <1>0, <1>7, <3>2 DEF Touch, LoopInv, Moved
  <2> QED
    BY <2>1, <2>2
<1>8. ASSUME NEW k \in Keys, SweepDelete(k) PROVE Sound(cache') /\ LoopInv'
  <2>1. k \in cache.keys /\ cache' = Delete(cache, k)
    BY <1>0, <1>8 DEF SweepDelete, LoopInv
  <2>2. Sound(cache') /\ Lost(cache, k, cache')
    BY <1>0, <2>1, DeleteSound
  <2> QED
    BY <1>0, <1>8, <2>2 DEF SweepDelete, LoopInv, Expired, Lost
<1>9. CASE Tick
  <2>1. /\ Sound(cache')
        /\ cache'.keys = cache.keys
        /\ \A k \in cache.keys : Expired(cache, k) => Expired(cache', k)
    BY <1>0, <1>9, TickSound DEF Tick
  <2> QED
    BY <1>0, <1>9, <2>1 DEF Tick, LoopInv, Expired
<1>10. CASE Clear
  BY <1>0, <1>10, EmptySound DEF Clear, Idle, LoopInv
<1>11. ASSUME NEW k \in Keys, DeleteEntry(k) PROVE Sound(cache') /\ LoopInv'
  <2>1. Sound(cache')
    BY <1>0, <1>11, DeleteSound DEF DeleteEntry, Delete
  <2> QED
    BY <1>0, <1>11, <2>1 DEF DeleteEntry, Idle, LoopInv
<1>12. CASE UNCHANGED vars
  BY <1>0, <1>12 DEF vars, LoopInv, Expired
<1> QED
  BY <1>1, <1>2, <1>3, <1>4, <1>5, <1>6, <1>7, <1>8, <1>9, <1>10, <1>11, <1>12
     DEF Next, Serve, Loop

LEMMA NextIInv == IInv /\ [Next]_vars => IInv'
  BY NextInv DEF IInv, Sound, Counted, Ordered

LEMMA Invariance == Spec => []IInv
<1>1. Init => IInv
  BY InitIInv
<1>2. IInv /\ [Next]_vars => IInv'
  BY NextIInv
<1> QED
  BY <1>1, <1>2, PTL DEF Spec

\* The state of the cache keeps its types under every operation.
THEOREM TypeCorrect == Spec => []TypeOK
<1>1. IInv => TypeOK
  BY DEF IInv, Sound, LoopInv, TypeOK, CacheType
<1> QED
  BY <1>1, Invariance, PTL

\* stats.size, by which set() decides to evict, counts the entries exactly and
\* never passes the capacity.
THEOREM CounterIsExact == Spec => []SizeIsCount
<1>1. IInv => SizeIsCount
  BY DEF IInv, Sound, Counted, SizeIsCount
<1> QED
  BY <1>1, Invariance, PTL

\* The linked list holds the entries of the map in the order of their last use,
\* from either end.
THEOREM ListKeepsRecency == Spec => []ListIsRecency
<1>1. IInv => ListIsRecency
  BY DEF IInv, Sound, Ordered, ListIsRecency
<1> QED
  BY <1>1, Invariance, PTL

-----------------------------------------------------------------------------
(* Entries that leave, and the order they leave in.                        *)

\* Storing an entry after reading it comes to storing it: when the read dropped
\* it there is room for it.
LEMMA MergeStores ==
    ASSUME NEW c, Sound(c), NEW k \in Keys
    PROVE  Stored(c, k, Set(Get(c, k), k))
<1> DEFINE g == Get(c, k)
           r == Set(g, k)
<1>1. Sound(g)
  BY GetSound
<1>2. Stored(g, k, r)
  BY <1>1, SetSound
<1>3. \A a \in c.keys : c.newer[a] \subseteq c.keys
  BY DEF Sound, Ordered, InOrder
<1>4. CASE k \notin c.keys
  BY <1>2, <1>4 DEF Get
<1>5. CASE k \in c.keys /\ Expired(c, k)
  <2>1. g = Delete(c, k)
    BY <1>5 DEF Get
  <2>2. Lost(c, k, g)
    BY <1>5, <2>1, DeleteSound
  <2>3. g.size \in Nat /\ c.size \in Nat /\ c.size <= MaxSize
    BY <1>1 DEF Sound, CacheType, Counted
  <2> HIDE DEF g, r
  <2>4. k \notin g.keys /\ g.size # MaxSize
    BY <2>2, <2>3, CacheAssumption DEF Lost
  <2>5. r.keys = c.keys
    <3>1. r.keys = g.keys \cup {k}
      BY <1>2, <2>4 DEF Stored
    <3> QED
      BY <1>5, <2>2, <3>1 DEF Lost
  <2>6. \A a \in r.keys \ {k} : g.newer[a] \cap r.keys = c.newer[a] \cap g.keys
    <3> SUFFICES ASSUME NEW a \in r.keys \ {k}
                 PROVE  g.newer[a] \cap r.keys = c.newer[a] \cap g.keys
      OBVIOUS
    <3>1. a \in g.keys /\ a \in Keys
      BY <2>2, <2>5 DEF Lost, Sound, CacheType
    <3>2. g.newer[a] = c.newer[a] \cap g.keys
      BY <2>2, <3>1 DEF Lost
    <3> QED
      BY <2>2, <2>5, <3>2 DEF Lost
  <2>7. \A a \in r.keys \ {k} :
           (g.newer[a] \cap r.keys) \cup {k} = (c.newer[a] \cap r.keys) \cup {k}
    BY <2>2, <2>5, <2>6 DEF Lost
  <2>8. r.newer = [a \in Keys |-> IF a \in r.keys \ {k}
                                    THEN (c.newer[a] \cap r.keys) \cup {k} ELSE {}]
    BY <1>2, <2>7 DEF Stored
  <2>9. Stored(c, k, r)
    BY <1>5, <2>5, <2>8 DEF Stored
  <2> QED
    BY <2>9 DEF r, g
<1>6. CASE k \in c.keys /\ ~Expired(c, k)
  <2>1. g = MoveToHead(c, k)
    BY <1>6 DEF Get
  <2>2. Moved(c, k, g)
    BY <1>6, <2>1, MoveSound
  <2> HIDE DEF g, r
  <2>3. r.keys = c.keys
    BY <1>2, <1>6, <2>2 DEF Stored, Moved
  <2>4. \A a \in r.keys \ {k} :
           (g.newer[a] \cap r.keys) \cup {k} = (c.newer[a] \cap r.keys) \cup {k}
    <3> SUFFICES ASSUME NEW a \in r.keys \ {k}
                 PROVE  (g.newer[a] \cap r.keys) \cup {k} = (c.newer[a] \cap r.keys) \cup {k}
      OBVIOUS
    <3>1. a \in c.keys \ {k} /\ a \in Keys
      BY <2>3 DEF Sound, CacheType
    <3>2. g.newer[a] = c.newer[a] \cup {k}
      BY <2>2, <3>1 DEF Moved
    <3> QED
      BY <3>2
  <2>5. r.newer = [a \in Keys |-> IF a \in r.keys \ {k}
                                    THEN (c.newer[a] \cap r.keys) \cup {k} ELSE {}]
    BY <1>2, <2>4 DEF Stored
  <2>6. Stored(c, k, r)
    BY <1>6, <2>3, <2>5 DEF Stored
  <2> QED
    BY <2>6 DEF r, g
<1> QED
  BY <1>4, <1>5, <1>6

\* Storing, moving and losing an entry are steps of the abstract cache.
LEMMA StoredRefines ==
    ASSUME Sound(cache), NEW k \in Keys, Stored(cache, k, cache')
    PROVE  Recency!Next
<1>1. cache.keys \in SUBSET Keys /\ cache.size = Recency!Cardinality(cache.keys)
  <2>1. Recency!Cardinality(cache.keys) = Cardinality(cache.keys)
    BY DEF Recency!Cardinality, Cardinality
  <2> QED
    BY <2>1 DEF Sound, CacheType, Counted
<1>2. cache'.newer = [a \in Keys |-> IF a \in cache'.keys \ {k}
                                      THEN (cache.newer[a] \cap cache'.keys) \cup {k} ELSE {}]
  BY DEF Stored
<1>3. CASE k \in cache.keys /\ cache'.keys = cache.keys
  <2>1. Recency!Use(k)
    BY <1>2, <1>3 DEF Recency!Use, Recency!Latest
  <2> QED
    BY <2>1 DEF Recency!Next
<1>4. CASE k \notin cache.keys /\ cache.size < MaxSize /\ cache'.keys = cache.keys \cup {k}
  <2>1. Recency!Cardinality(cache.keys) < MaxSize
    BY <1>1, <1>4
  <2>2. cache'.newer = Recency!Latest(cache'.keys, k)
    BY <1>2 DEF Recency!Latest
  <2>3. Recency!Insert(k)
    BY <1>4, <2>1, <2>2 DEF Recency!Insert, Recency!Latest
  <2> QED
    BY <2>3 DEF Recency!Next
<1>5. ASSUME NEW victim \in cache.keys,
             /\ k \notin cache.keys
             /\ cache.size = MaxSize
             /\ cache.newer[victim] = cache.keys \ {victim}
             /\ cache'.keys = (cache.keys \ {victim}) \cup {k}
      PROVE  Recency!Next
  <2>3. Recency!Cardinality(cache.keys) = MaxSize
    BY <1>1, <1>5
  <2>4. cache'.newer = Recency!Latest(cache'.keys, k)
    BY <1>2 DEF Recency!Latest
  <2>1. Recency!Replace(k, victim)
    BY <1>5, <2>3, <2>4 DEF Recency!Replace, Recency!Latest
  <2>2. victim \in Keys
    BY <1>1
  <2> QED
    BY <2>1, <2>2 DEF Recency!Next
<1> QED
  BY <1>3, <1>4, <1>5 DEF Stored

LEMMA MovedRefines ==
    ASSUME Sound(cache), NEW k \in cache.keys, Moved(cache, k, cache')
    PROVE  Recency!Next
<1>1. \A a \in cache.keys : cache.newer[a] \cap cache.keys = cache.newer[a]
  BY DEF Sound, Ordered, InOrder
<1>2. Recency!Use(k)
  BY <1>1 DEF Moved, Recency!Use, Recency!Latest
<1>3. k \in Keys
  BY DEF Sound, CacheType
<1> QED
  BY <1>2, <1>3 DEF Recency!Next

LEMMA LostRefines ==
    ASSUME NEW k \in Keys, Lost(cache, k, cache')
    PROVE  Recency!Next
<1>1. Recency!Drop({k})
  BY DEF Lost, Recency!Drop, Recency!Remaining
<1>2. {k} \in SUBSET Keys
  OBVIOUS
<1> QED
  BY <1>1, <1>2 DEF Recency!Next

LEMMA StepRefines == IInv /\ [Next]_vars => [Recency!Next]_(Recency!vars)
<1> SUFFICES ASSUME IInv, [Next]_vars PROVE [Recency!Next]_(Recency!vars)
  OBVIOUS
<1>0. Sound(cache) /\ LoopInv /\ cache.keys \in SUBSET Keys
  BY DEF IInv, Sound, CacheType
<1>1. ASSUME NEW k \in Keys, SetEntry(k) PROVE Recency!Next
  BY <1>0, <1>1, SetSound, StoredRefines DEF SetEntry
<1>2. ASSUME NEW k \in Keys, GetEntry(k) PROVE Recency!Next \/ UNCHANGED cache
  <2>1. CASE k \notin cache.keys
    BY <1>2, <2>1 DEF GetEntry, Get
  <2>2. CASE k \in cache.keys /\ Expired(cache, k)
    <3>1. cache' = Delete(cache, k)
      BY <1>2, <2>2 DEF GetEntry, Get
    <3>2. Lost(cache, k, cache')
      BY <1>0, <2>2, <3>1, DeleteSound
    <3> QED
      BY <3>2, LostRefines
  <2>3. CASE k \in cache.keys /\ ~Expired(cache, k)
    <3>1. cache' = MoveToHead(cache, k)
      BY <1>2, <2>3 DEF GetEntry, Get
    <3>2. Moved(cache, k, cache')
      BY <1>0, <2>3, <3>1, MoveSound
    <3> QED
      BY <1>0, <2>3, <3>2, MovedRefines
  <2> QED
    BY <2>1, <2>2, <2>3
<1>3. ASSUME NEW k \in Keys, MergeEntry(k) PROVE Recency!Next
  <2>1. Stored(cache, k, cache')
    BY <1>0, <1>3, MergeStores DEF MergeEntry
  <2> QED
    BY <1>0, <2>1, StoredRefines
<1>4. ASSUME NEW k \in Keys, Touch(k) PROVE Recency!Next \/ UNCHANGED cache
  <2>1. CASE Expired(cache, k)
    BY <1>4, <2>1 DEF Touch
  <2>2. CASE ~Expired(cache, k)
    <3>1. k \in cache.keys /\ cache' = MoveToHead(cache, k)
      BY <1>0, <1>4, <2>2 DEF Touch, LoopInv
    <3>2. Moved(cache, k, cache')
      BY <1>0, <3>1, MoveSound
    <3> QED
      BY <1>0, <3>1, <3>2, MovedRefines
  <2> QED
    BY <2>1, <2>2
<1>5. ASSUME NEW k \in Keys, SweepDelete(k) PROVE Recency!Next
  <2>1. k \in cache.keys /\ cache' = Delete(cache, k)
    BY <1>0, <1>5 DEF SweepDelete, LoopInv
  <2>2. Lost(cache, k, cache')
    BY <1>0, <2>1, DeleteSound
  <2> QED
    BY <2>2, LostRefines
<1>6. CASE Tick
  <2>1. cache'.keys = cache.keys /\ cache'.newer = cache.newer
    BY <1>0, <1>6, TickSound DEF Tick
  <2> QED
    BY <2>1 DEF Recency!vars
<1>7. CASE Clear
  <2>1. cache' = Empty
    BY <1>7 DEF Clear
  <2>2. Recency!Drop(Keys)
    BY <1>0, <2>1 DEF Recency!Drop, Recency!Remaining, Empty
  <2>3. Keys \in SUBSET Keys
    OBVIOUS
  <2> QED
    BY <2>2, <2>3 DEF Recency!Next
<1>8. ASSUME NEW k \in Keys, DeleteEntry(k) PROVE Recency!Next \/ UNCHANGED cache
  <2>1. CASE k \in cache.keys
    <3>1. cache' = Delete(cache, k)
      BY <1>8 DEF DeleteEntry
    <3>2. Lost(cache, k, cache')
      BY <1>0, <2>1, <3>1, DeleteSound
    <3> QED
      BY <3>2, LostRefines
  <2>2. CASE k \notin cache.keys
    BY <1>8, <2>2 DEF DeleteEntry, Delete
  <2> QED
    BY <2>1, <2>2
<1>9. UNCHANGED cache => UNCHANGED Recency!vars
  BY DEF Recency!vars
<1>10. ASSUME NEW d \in Devices, GetAllModules(d) PROVE UNCHANGED cache
  BY <1>10 DEF GetAllModules
<1>11. CleanupExpired \/ LoopEnds \/ UNCHANGED vars => UNCHANGED cache
  BY DEF CleanupExpired, LoopEnds, vars
<1> QED
  BY <1>1, <1>2, <1>3, <1>4, <1>5, <1>6, <1>7, <1>8, <1>9, <1>10, <1>11
     DEF Next, Serve, Loop

\* The linked list implements the cache that holds at most MaxSize entries and
\* makes room with the one used longest ago.
THEOREM RefinesRecency == Spec => ImplementsRecency
<1>1. Init => Recency!Init
  BY DEF Init, Empty, Recency!Init
<1>2. IInv /\ [Next]_vars => [Recency!Next]_(Recency!vars)
  BY StepRefines
<1> QED
  BY <1>1, <1>2, Invariance, PTL DEF Spec, ImplementsRecency, Recency!Spec

\* What may take an entry away: the end of its life, its removal, or a newcomer.
Leave(k) ==
    \/ Expired(cache, k)
    \/ DeleteEntry(k) \/ Clear
    \/ /\ Cardinality(cache.keys) = MaxSize
       /\ cache.newer[k] = cache.keys \ {k}
       /\ cache'.keys \ cache.keys # {}

LEMMA StoredKeeps ==
    ASSUME Sound(cache), NEW k \in Keys, Stored(cache, k, cache'),
           NEW a \in cache.keys \ cache'.keys
    PROVE  Leave(a)
<1>1. cache.size = Cardinality(cache.keys)
  BY DEF Sound, Counted
<1>2. PICK victim \in cache.keys :
        /\ k \notin cache.keys
        /\ cache.size = MaxSize
        /\ cache.newer[victim] = cache.keys \ {victim}
        /\ cache'.keys = (cache.keys \ {victim}) \cup {k}
  BY DEF Stored
<1>3. a = victim /\ k \in cache'.keys \ cache.keys
  BY <1>2
<1> QED
  BY <1>1, <1>2, <1>3 DEF Leave

LEMMA StepKeeps ==
    IInv /\ [Next]_vars => \A a \in cache.keys \ cache'.keys : Leave(a)
<1> SUFFICES ASSUME IInv, [Next]_vars, NEW a \in cache.keys \ cache'.keys PROVE Leave(a)
  OBVIOUS
<1>0. Sound(cache) /\ LoopInv /\ cache.keys \in SUBSET Keys
  BY DEF IInv, Sound, CacheType
<1>1. ASSUME NEW k \in Keys, SetEntry(k) PROVE Leave(a)
  BY <1>0, <1>1, SetSound, StoredKeeps DEF SetEntry
<1>2. ASSUME NEW k \in Keys, GetEntry(k) PROVE Leave(a)
  <2>1. CASE k \in cache.keys /\ Expired(cache, k)
    <3>1. cache' = Delete(cache, k)
      BY <1>2, <2>1 DEF GetEntry, Get
    <3>2. Lost(cache, k, cache')
      BY <1>0, <2>1, <3>1, DeleteSound
    <3>3. a = k
      BY <3>2 DEF Lost
    <3> QED
      BY <2>1, <3>3 DEF Leave
  <2>2. CASE k \in cache.keys /\ ~Expired(cache, k)
    <3>1. cache' = MoveToHead(cache, k)
      BY <1>2, <2>2 DEF GetEntry, Get
    <3>2. Moved(cache, k, cache')
      BY <1>0, <2>2, <3>1, MoveSound
    <3> QED
      BY <3>2 DEF Moved
  <2>3. CASE k \notin cache.keys
    BY <1>2, <2>3 DEF GetEntry, Get
  <2> QED
    BY <2>1, <2>2, <2>3
<1>3. ASSUME NEW k \in Keys, MergeEntry(k) PROVE Leave(a)
  <2>1. Stored(cache, k, cache')
    BY <1>0, <1>3, MergeStores DEF MergeEntry
  <2> QED
    BY <1>0, <2>1, StoredKeeps
<1>4. ASSUME NEW k \in Keys, Touch(k) PROVE Leave(a)
  <2>1. CASE Expired(cache, k)
    BY <1>4, <2>1 DEF Touch
  <2>2. CASE ~Expired(cache, k)
    <3>1. k \in cache.keys /\ cache' = MoveToHead(cache, k)
      BY <1>0, <1>4, <2>2 DEF Touch, LoopInv
    <3>2. Moved(cache, k, cache')
      BY <1>0, <3>1, MoveSound
    <3> QED
      BY <3>2 DEF Moved
  <2> QED
    BY <2>1, <2>2
<1>5. ASSUME NEW k \in Keys, SweepDelete(k) PROVE Leave(a)
  <2>1. k \in cache.keys /\ Expired(cache, k) /\ cache' = Delete(cache, k)
    BY <1>0, <1>5 DEF SweepDelete, LoopInv
  <2>2. Lost(cache, k, cache')
    BY <1>0, <2>1, DeleteSound
  <2>3. a = k
    BY <2>2 DEF Lost
  <2> QED
    BY <2>1, <2>3 DEF Leave
<1>6. CASE Tick
  <2>1. cache'.keys = cache.keys
    BY <1>0, <1>6, TickSound DEF Tick
  <2> QED
    BY <2>1
<1>7. ASSUME NEW d \in Devices, GetAllModules(d) PROVE Leave(a)
  BY <1>7 DEF GetAllModules
<1>8. CASE CleanupExpired \/ LoopEnds \/ UNCHANGED vars
  BY <1>8 DEF CleanupExpired, LoopEnds, vars
<1>9. ASSUME NEW k \in Keys, DeleteEntry(k) PROVE Leave(a)
  <2>1. CASE k \in cache.keys
    <3>1. Lost(cache, k, cache')
      BY <1>0, <1>9, <2>1, DeleteSound DEF DeleteEntry
    <3>2. a = k
      BY <3>1 DEF Lost
    <3> QED
      BY <1>9, <3>2 DEF Leave
  <2>2. CASE k \notin cache.keys
    BY <1>9, <2>2 DEF DeleteEntry, Delete
  <2> QED
    BY <2>1, <2>2
<1>10. CASE Clear
  BY <1>10 DEF Leave
<1> QED
  BY <1>1, <1>2, <1>3, <1>4, <1>5, <1>6, <1>7, <1>8, <1>9, <1>10 DEF Next, Serve, Loop

\* A live entry leaves the cache in one way nobody asked for: the cache is full,
\* another entry comes in and this one was used longest ago.
THEOREM KeepsLiveEntries == Spec => LiveEntriesStay
<1>1. Init => IInv
  BY InitIInv
<1>2. IInv /\ [Next]_vars => IInv'
  BY NextIInv
<1>3. IInv /\ [Next]_vars =>
        [\A k \in cache.keys \ cache'.keys :
          \/ Expired(cache, k)
          \/ DeleteEntry(k) \/ Clear
          \/ /\ Cardinality(cache.keys) = MaxSize
             /\ cache.newer[k] = cache.keys \ {k}
             /\ cache'.keys \ cache.keys # {}]_vars
  BY StepKeeps DEF Leave
<1> QED
  BY <1>1, <1>2, <1>3, PTL DEF Spec, LiveEntriesStay
=============================================================================
