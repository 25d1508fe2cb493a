-------------------------- MODULE RfidPipelineProofs --------------------------
(***************************************************************************)
(* Theorems of RfidPipeline, for every number of sensors, every set of     *)
(* tags, every cleanup interval and every set of windows, in whatever order *)
(* they are configured.                                                    *)
(***************************************************************************)
EXTENDS RfidPipeline, FiniteSetTheorems, SequenceTheorems, TLAPS

\* No window since a change was announced was shorter than what least remembers.
LeastIsLeast == \A c \in Changes : least[c] <= window

\* A change without an entry was announced more than twice the shortest window
\* since then ago: the cleanup goes by the window of the moment.
EntriesCover == \A c \in Changes \ entries : said[c] > 2 * least[c]

\* The inductive invariant.
IInv ==
    /\ TypeOK
    /\ LeastIsLeast
    /\ EntriesCover
    /\ ViewFollowsStore

\* What the store may hold.
Stores == Snapshots \cup {Lost}

LEMMA WindowFacts ==
    ASSUME NEW w \in Windows
    PROVE  w \in Nat /\ MaxAge \in Nat /\ 2 * w < MaxAge
BY RfidAssumption

LEMMA AgeFacts ==
    ASSUME TypeOK, NEW c \in Changes
    PROVE  /\ said[c] \in Nat /\ said[c] <= MaxAge
           /\ least[c] \in Windows /\ least[c] \in Nat /\ 2 * least[c] < MaxAge
           /\ window \in Windows /\ window \in Nat /\ 2 * window < MaxAge
           /\ MaxAge \in Nat
<1>1. /\ said[c] \in 0 .. MaxAge
      /\ least[c] \in Windows
      /\ window \in Windows
  BY DEF TypeOK
<1>2. MaxAge \in Nat
  BY RfidAssumption
<1> QED
  BY <1>1, <1>2, WindowFacts

-----------------------------------------------------------------------------
(* Sequences of changes.                                                   *)

LEMMA SingleFacts ==
    ASSUME NEW c \in Changes
    PROVE  /\ <<c>> \in Seq(Changes)
           /\ <<c>> # <<>>
           /\ Len(<<c>>) = 1
           /\ <<c>>[1] = c
           /\ Elements(<<c>>) = {c}
  BY DEF Elements

LEMMA EmptyFacts == <<>> \in Seq(Changes) /\ Elements(<<>>) = {}
BY EmptySeq DEF Elements

LEMMA ElementsFacts ==
    ASSUME NEW s \in Seq(Changes)
    PROVE  /\ Elements(s) \subseteq Changes
           /\ IsFiniteSet(Elements(s))
           /\ \A i \in DOMAIN s : s[i] \in Elements(s)
           /\ s # <<>> => s[Len(s)] \in Elements(s)
<1>1. Len(s) \in Nat /\ DOMAIN s = 1..Len(s) /\ s \in [1..Len(s) -> Changes]
  BY LenProperties
<1>2. Elements(s) \subseteq Changes
  BY <1>1 DEF Elements
<1>3. IsFiniteSet(Elements(s))
  <2>1. s \in Surjection(1..Len(s), Elements(s))
    BY <1>1 DEF Surjection, Elements
  <2>2. IsFiniteSet(1..Len(s))
    BY <1>1, FS_Interval
  <2> QED
    BY <2>1, <2>2, FS_Surjection
<1>4. \A i \in DOMAIN s : s[i] \in Elements(s)
  BY DEF Elements
<1>5. s # <<>> => Len(s) \in DOMAIN s
  BY <1>1, EmptySeq
<1> QED
  BY <1>2, <1>3, <1>4, <1>5

LEMMA ConcatFacts ==
    ASSUME NEW p \in Seq(Changes), NEW q \in Seq(Changes)
    PROVE  /\ p \o q \in Seq(Changes)
           /\ Elements(p \o q) = Elements(p) \cup Elements(q)
           /\ p \o q = <<>> <=> p = <<>> /\ q = <<>>
           /\ q # <<>> => (p \o q)[Len(p \o q)] = q[Len(q)]
           /\ q = <<>> => p \o q = p
<1> DEFINE u == p \o q
<1>1. /\ u \in Seq(Changes)
      /\ Len(u) = Len(p) + Len(q)
      /\ \A i \in 1..(Len(p) + Len(q)) :
           u[i] = IF i <= Len(p) THEN p[i] ELSE q[i - Len(p)]
  BY ConcatProperties
<1>2. u = <<>> <=> p = <<>> /\ q = <<>>
  BY ConcatEqualIffEmpty
<1>3. q = <<>> => u = p
  BY ConcatEmptySeq
<1> HIDE DEF u
<1>4. Len(p) \in Nat /\ DOMAIN p = 1..Len(p) /\ Len(q) \in Nat /\ DOMAIN q = 1..Len(q)
  BY LenProperties
<1>5. DOMAIN u = 1..(Len(p) + Len(q))
  BY <1>1, LenProperties
<1>6. Elements(u) \subseteq Elements(p) \cup Elements(q)
  <2> SUFFICES ASSUME NEW i \in DOMAIN u PROVE u[i] \in Elements(p) \cup Elements(q)
    BY DEF Elements
  <2>1. CASE i <= Len(p)
    BY <1>1, <1>4, <1>5, <2>1 DEF Elements
  <2>2. CASE ~(i <= Len(p))
    <3>1. i - Len(p) \in DOMAIN q /\ u[i] = q[i - Len(p)]
      BY <1>1, <1>4, <1>5, <2>2
    <3> QED
      BY <3>1 DEF Elements
  <2> QED
    BY <2>1, <2>2
<1>7. Elements(p) \subseteq Elements(u)
  <2> SUFFICES ASSUME NEW i \in DOMAIN p PROVE p[i] \in Elements(u)
    BY DEF Elements
  <2>1. i \in DOMAIN u /\ u[i] = p[i]
    BY <1>1, <1>4, <1>5
  <2> QED
    BY <2>1 DEF Elements
<1>8. Elements(q) \subseteq Elements(u)
  <2> SUFFICES ASSUME NEW i \in DOMAIN q PROVE q[i] \in Elements(u)
    BY DEF Elements
  <2>1. i + Len(p) \in DOMAIN u /\ u[i + Len(p)] = q[i]
    BY <1>1, <1>4, <1>5
  <2> QED
    BY <2>1 DEF Elements
<1>9. q # <<>> => u[Len(u)] = q[Len(q)]
  <2> SUFFICES ASSUME q # <<>> PROVE u[Len(u)] = q[Len(q)]
    OBVIOUS
  <2>1. Len(q) \in 1..Len(q)
    BY <1>4, EmptySeq
  <2> QED
    BY <1>1, <1>4, <2>1
<1> QED
  BY <1>1, <1>2, <1>3, <1>6, <1>7, <1>8, <1>9 DEF u

-----------------------------------------------------------------------------
(* The changes from one store to the next.                                 *)

LEMMA TagAtType ==
    ASSUME NEW st \in Stores, NEW s \in Sensors
    PROVE  TagAt(st, s) \in Tags \cup {NoTag}
  BY DEF Stores, Snapshots, TagAt

\* The departure and the arrival at a sensor, one change each or none.
LEMMA PartFacts ==
    ASSUME NEW old \in Stores, NEW new \in Stores, NEW s \in Sensors
    PROVE  /\ \/ Departure(old, new, s) = <<>>
              \/ /\ TagAt(old, s) \in Tags
                 /\ Detached(s, TagAt(old, s)) \in Changes
                 /\ Departure(old, new, s) = <<Detached(s, TagAt(old, s))>>
           /\ \/ Arrival(old, new, s) = <<>>
              \/ /\ TagAt(new, s) \in Tags
                 /\ Attached(s, TagAt(new, s)) \in Changes
                 /\ Arrival(old, new, s) = <<Attached(s, TagAt(new, s))>>
           /\ Departure(old, new, s) = <<>> <=> TagAt(old, s) \in {NoTag, TagAt(new, s)}
           /\ Arrival(old, new, s) = <<>> <=> TagAt(new, s) \in {NoTag, TagAt(old, s)}
<1>1. TagAt(old, s) \in Tags \cup {NoTag} /\ TagAt(new, s) \in Tags \cup {NoTag}
  BY TagAtType
<1>2. \A t \in Tags : Detached(s, t) \in Changes /\ Attached(s, t) \in Changes
  BY DEF Detached, Attached, Changes
<1>3. CASE TagAt(old, s) \in {NoTag, TagAt(new, s)}
  BY <1>1, <1>2, <1>3, RfidAssumption DEF Departure, Arrival
<1>4. CASE TagAt(old, s) \notin {NoTag, TagAt(new, s)}
  BY <1>1, <1>2, <1>4, RfidAssumption DEF Departure, Arrival
<1> QED
  BY <1>3, <1>4

\* One change or none is announced whole or not at all.
LEMMA UnrepeatedFacts ==
    ASSUME NEW p, p = <<>> \/ \E c \in Changes : p = <<c>>
    PROVE  /\ p \in Seq(Changes) /\ Unrepeated(p) \in Seq(Changes)
           /\ Unrepeated(p) = <<>> \/ Unrepeated(p) = p
           /\ \A c \in Elements(Unrepeated(p)) : ~Duplicate(c)
           /\ p # <<>> => /\ Len(p) = 1
                          /\ ~Duplicate(p[Len(p)]) => Unrepeated(p) = p
<1>1. CASE p = <<>>
  BY <1>1, EmptyFacts DEF Unrepeated
<1>2. CASE p # <<>>
  <2>1. PICK c \in Changes : p = <<c>>
    BY <1>2
  <2>2. /\ p \in Seq(Changes) /\ p # <<>> /\ Len(p) = 1
        /\ p[1] = c /\ Elements(p) = {c}
    BY <2>1, SingleFacts
  <2>3. Unrepeated(p) = IF Duplicate(c) THEN <<>> ELSE p
    BY <2>2 DEF Unrepeated
  <2> QED
    BY <2>2, <2>3, EmptyFacts
<1> QED
  BY <1>1, <1>2

\* What changes at a sensor and what of it is announced.
LEMMA ChangesFacts ==
    ASSUME NEW old \in Stores, NEW new \in Stores, NEW s \in Sensors
    PROVE  LET all == ChangesAt(old, new, s)
               out == Announced(old, new, s)
           IN  /\ all \in Seq(Changes)
               /\ out \in Seq(Changes)
               /\ \A c \in Elements(out) : ~Duplicate(c)
               /\ all = <<>> <=> TagAt(old, s) = TagAt(new, s)
               /\ all = <<>> => out = <<>>
               /\ all # <<>> /\ ~Duplicate(all[Len(all)]) =>
                    out # <<>> /\ TagAfter(out[Len(out)]) = TagAt(new, s)
<1> DEFINE d == Departure(old, new, s)
           a == Arrival(old, new, s)
           before == TagAt(old, s)
           now == TagAt(new, s)
<1>1. /\ d = <<>> \/ (Detached(s, before) \in Changes /\ d = <<Detached(s, before)>>)
      /\ a = <<>> \/ (Attached(s, now) \in Changes /\ a = <<Attached(s, now)>>)
      /\ d = <<>> <=> before \in {NoTag, now}
      /\ a = <<>> <=> now \in {NoTag, before}
  BY PartFacts
<1>2. ChangesAt(old, new, s) = d \o a /\ Announced(old, new, s) = Unrepeated(d) \o Unrepeated(a)
  BY DEF ChangesAt, Announced
<1> HIDE DEF d, a, before, now
<1>3. /\ d \in Seq(Changes) /\ Unrepeated(d) \in Seq(Changes)
      /\ Unrepeated(d) = <<>> \/ Unrepeated(d) = d
      /\ \A c \in Elements(Unrepeated(d)) : ~Duplicate(c)
      /\ d # <<>> => /\ Len(d) = 1
                     /\ ~Duplicate(d[Len(d)]) => Unrepeated(d) = d
  BY <1>1, UnrepeatedFacts
<1>4. /\ a \in Seq(Changes) /\ Unrepeated(a) \in Seq(Changes)
      /\ Unrepeated(a) = <<>> \/ Unrepeated(a) = a
      /\ \A c \in Elements(Unrepeated(a)) : ~Duplicate(c)
      /\ a # <<>> => /\ Len(a) = 1
                     /\ ~Duplicate(a[Len(a)]) => Unrepeated(a) = a
  BY <1>1, UnrepeatedFacts
<1> DEFINE all == d \o a
           out == Unrepeated(d) \o Unrepeated(a)
<1>5. /\ all \in Seq(Changes)
      /\ all = <<>> <=> d = <<>> /\ a = <<>>
      /\ a # <<>> => all[Len(all)] = a[Len(a)]
      /\ a = <<>> => all = d
  BY <1>3, <1>4, ConcatFacts
<1>6. /\ out \in Seq(Changes)
      /\ Elements(out) = Elements(Unrepeated(d)) \cup Elements(Unrepeated(a))
      /\ out = <<>> <=> Unrepeated(d) = <<>> /\ Unrepeated(a) = <<>>
      /\ Unrepeated(a) # <<>> => out[Len(out)] = Unrepeated(a)[Len(Unrepeated(a))]
      /\ Unrepeated(a) = <<>> => out = Unrepeated(d)
  BY <1>3, <1>4, ConcatFacts
<1> HIDE DEF all, out
<1>7. all = <<>> <=> before = now
  BY <1>1, <1>5
<1>8. all = <<>> => out = <<>>
  BY <1>3, <1>4, <1>5, <1>6
<1>9. ASSUME all # <<>>, ~Duplicate(all[Len(all)])
      PROVE  out # <<>> /\ TagAfter(out[Len(out)]) = now
  <2>1. CASE a # <<>>
    <3>1. Unrepeated(a) = a
      BY <1>4, <1>5, <1>9, <2>1
    <3>2. out # <<>> /\ out[Len(out)] = a[1]
      BY <1>4, <1>6, <2>1, <3>1
    <3>3. a[1] = Attached(s, now)
      BY <1>1, <2>1
    <3> QED
      BY <3>2, <3>3 DEF TagAfter, Attached
  <2>2. CASE a = <<>>
    <3>1. d # <<>> /\ Unrepeated(d) = d
      BY <1>3, <1>5, <1>9, <2>2
    <3>2. Unrepeated(a) = <<>>
      BY <1>4, <2>2
    <3>3. out # <<>> /\ out[Len(out)] = d[1]
      BY <1>3, <1>6, <3>1, <3>2
    <3>4. d[1] = Detached(s, before)
      BY <1>1, <3>1
    <3>5. now = NoTag
      BY <1>1, <1>5, <1>7, <1>9, <2>2
    <3> QED
      BY <3>3, <3>4, <3>5 DEF TagAfter, Detached
  <2> QED
    BY <2>1, <2>2
<1>10. \A c \in Elements(out) : ~Duplicate(c)
  BY <1>3, <1>4, <1>6
<1> QED
  BY <1>2, <1>5, <1>6, <1>7, <1>8, <1>9, <1>10 DEF all, out, before, now

\* The changes of all sensors together are finitely many.
LEMMA UnionFacts ==
    ASSUME NEW F \in [Sensors -> Seq(Changes)],
           NEW all, all = UNION {Elements(F[s]) : s \in Sensors}
    PROVE  /\ all \subseteq Changes
           /\ Cardinality(all) \in Nat
           /\ \A s \in Sensors : Elements(F[s]) \subseteq all
<1> DEFINE parts == {Elements(F[s]) : s \in Sensors}
           part == [s \in Sensors |-> Elements(F[s])]
<1>1. \A s \in Sensors : Elements(F[s]) \subseteq Changes /\ IsFiniteSet(Elements(F[s]))
  BY ElementsFacts
<1>2. IsFiniteSet(parts)
  <2>1. part \in Surjection(Sensors, parts)
    BY DEF Surjection
  <2> QED
    BY <2>1, FS_Surjection, RfidAssumption
<1>3. \A P \in parts : IsFiniteSet(P)
  BY <1>1
<1>4. IsFiniteSet(UNION parts)
  BY <1>2, <1>3, FS_UNION
<1>5. Cardinality(all) \in Nat
  BY <1>4, FS_CardinalityType
<1> QED
  BY <1>1, <1>5

\* What Announce does to the adapter's state, the events and the consumer.
LEMMA AnnounceStep ==
    ASSUME TypeOK, LeastIsLeast, EntriesCover,
           NEW old \in Stores, NEW new \in Stores, Announce(old, new)
    PROVE  /\ announced' \in [Sensors -> Seq(Changes)]
           /\ emitCallCount' \in 0 .. CleanupInterval - 1
           /\ entries' \subseteq Changes
           /\ said' \in [Changes -> 0 .. MaxAge]
           /\ least' \in [Changes -> Windows]
           /\ view' \in [Sensors -> Tags \cup {NoTag}]
           /\ excused' \subseteq Sensors
           /\ queries' \in Nat
           /\ \A c \in Changes : least'[c] <= window
           /\ \A c \in Changes \ entries' : said'[c] > 2 * least'[c]
           /\ \A s \in Sensors : \A c \in Elements(announced'[s]) : ~Duplicate(c)
           /\ \A s \in Sensors \ excused' :
                \/ view'[s] = TagAt(new, s)
                \/ /\ TagAt(old, s) = TagAt(new, s)
                   /\ view'[s] = view[s]
                   /\ s \notin excused
<1> DEFINE changes == [s \in Sensors |-> ChangesAt(old, new, s)]
           out == [s \in Sensors |-> Announced(old, new, s)]
           made == UNION {Elements(changes[s]) : s \in Sensors}
           told == UNION {Elements(out[s]) : s \in Sensors}
           attempts == emitCallCount + Cardinality(made)
<1>1. /\ announced' = out
      /\ emitCallCount' = CallCount(attempts)
      /\ entries' = EntriesKept(attempts >= CleanupInterval) \cup told
      /\ said' = [c \in Changes |-> IF c \in told THEN 0 ELSE said[c]]
      /\ least' = [c \in Changes |-> IF c \in told THEN window ELSE least[c]]
      /\ view' = [s \in Sensors |->
                    IF out[s] = <<>> THEN view[s] ELSE TagAfter(out[s][Len(out[s])])]
      /\ excused' = {s \in Sensors :
                       IF changes[s] = <<>> THEN s \in excused
                       ELSE Duplicate(changes[s][Len(changes[s])])}
      /\ queries' = IF kind = "V6800" THEN Cardinality(told) ELSE 0
  BY DEF Announce
<1>2. \A s \in Sensors :
         /\ changes[s] \in Seq(Changes)
         /\ out[s] \in Seq(Changes)
         /\ \A c \in Elements(out[s]) : ~Duplicate(c)
         /\ changes[s] = <<>> <=> TagAt(old, s) = TagAt(new, s)
         /\ changes[s] = <<>> => out[s] = <<>>
         /\ changes[s] # <<>> /\ ~Duplicate(changes[s][Len(changes[s])]) =>
              out[s] # <<>> /\ TagAfter(out[s][Len(out[s])]) = TagAt(new, s)
  BY ChangesFacts
<1>3. changes \in [Sensors -> Seq(Changes)] /\ out \in [Sensors -> Seq(Changes)]
  BY <1>2
<1>4. Cardinality(made) \in Nat
  BY <1>3, UnionFacts
<1>5. told \subseteq Changes /\ Cardinality(told) \in Nat
  BY <1>3, UnionFacts
<1> HIDE DEF changes, out, made, told
<1>6. announced' \in [Sensors -> Seq(Changes)]
  BY <1>1, <1>3
<1>7. emitCallCount' \in 0 .. CleanupInterval - 1
  <2>1. attempts \in Nat /\ CleanupInterval \in Nat \ {0}
    BY <1>4, RfidAssumption DEF TypeOK
  <2> HIDE DEF attempts
  <2>2. attempts % CleanupInterval \in 0 .. CleanupInterval - 1
    BY <2>1
  <2> QED
    BY <1>1, <2>2 DEF CallCount
<1>8. entries' \subseteq Changes
  BY <1>1, <1>5 DEF EntriesKept, TypeOK
<1>9. said' \in [Changes -> 0 .. MaxAge]
  BY <1>1, RfidAssumption DEF TypeOK
<1>10. view' \in [Sensors -> Tags \cup {NoTag}]
  <2>1. \A c \in Changes : TagAfter(c) \in Tags \cup {NoTag}
    BY DEF TagAfter, Changes
  <2>2. \A s \in Sensors : out[s] # <<>> => out[s][Len(out[s])] \in Changes
    BY <1>2, ElementsFacts
  <2> QED
    BY <1>1, <2>1, <2>2 DEF TypeOK
<1>11. excused' \subseteq Sensors
  BY <1>1
<1>12. queries' \in Nat
  BY <1>1, <1>5
<1>13. ASSUME NEW c \in Changes \ entries' PROVE said'[c] > 2 * least'[c]
  <2>1. /\ c \notin told /\ said'[c] = said[c] /\ least'[c] = least[c]
        /\ c \notin EntriesKept(attempts >= CleanupInterval)
    BY <1>1, <1>13
  <2>2. CASE c \notin entries
    BY <2>1, <2>2 DEF EntriesCover
  <2>3. CASE c \in entries
    <3>1. ~(said[c] <= 2 * window)
      BY <2>1, <2>3 DEF EntriesKept
    <3>2. said[c] \in Nat /\ window \in Nat /\ least[c] \in Nat /\ least[c] <= window
      BY <1>13, AgeFacts DEF LeastIsLeast
    <3> QED
      BY <2>1, <3>1, <3>2
  <2> QED
    BY <2>2, <2>3
<1>14. \A s \in Sensors : \A c \in Elements(announced'[s]) : ~Duplicate(c)
  BY <1>1, <1>2
<1>15. ASSUME NEW s \in Sensors \ excused'
       PROVE  \/ view'[s] = TagAt(new, s)
              \/ /\ TagAt(old, s) = TagAt(new, s)
                 /\ view'[s] = view[s]
                 /\ s \notin excused
  <2>1. CASE changes[s] = <<>>
    BY <1>1, <1>2, <2>1
  <2>2. CASE changes[s] # <<>>
    BY <1>1, <1>2, <2>2
  <2> QED
    BY <2>1, <2>2
<1>16. least' \in [Changes -> Windows]
  BY <1>1 DEF TypeOK
<1>17. ASSUME NEW c \in Changes PROVE least'[c] <= window
  <2>1. window \in Nat /\ least[c] <= window
    BY RfidAssumption DEF TypeOK, LeastIsLeast
  <2> QED
    BY <1>1, <2>1
<1> QED
  BY <1>6, <1>7, <1>8, <1>9, <1>10, <1>11, <1>12, <1>13, <1>14, <1>15, <1>16, <1>17

-----------------------------------------------------------------------------
(* From what a device sends to a snapshot.                                 *)

LEMMA FrameIsSnapshot ==
    ASSUME NEW f \in Frames
    PROVE  FrameSnapshot(f) \in Snapshots
<1> DEFINE read == {f.slots[i] : i \in {i \in DOMAIN f.slots : i <= f.count}}
           S == {slot[1] : slot \in read}
<1>1. read \subseteq Sensors \X Tags
  BY DEF Frames
<1>2. FrameSnapshot(f) = [s \in S |-> (CHOOSE slot \in read : slot[1] = s)[2]]
  BY DEF FrameSnapshot
<1> HIDE DEF read
<1>3. S \in SUBSET Sensors
  BY <1>1
<1>4. ASSUME NEW s \in S
      PROVE  (CHOOSE slot \in read : slot[1] = s)[2] \in Tags
  <2>1. \E slot \in read : slot[1] = s
    OBVIOUS
  <2>2. (CHOOSE slot \in read : slot[1] = s) \in read
    BY <2>1
  <2> QED
    BY <1>1, <2>2
<1> HIDE DEF S
<1>5. FrameSnapshot(f) \in [S -> Tags \cup {NoTag}]
  BY <1>2, <1>4
<1> QED
  BY <1>3, <1>5 DEF Snapshots

LEMMA ListIsSnapshot ==
    ASSUME NEW l \in Lists
    PROVE  ListSnapshot(l) \in Snapshots
<1> DEFINE S == {s \in DOMAIN l : l[s].u_state = 1}
<1>1. PICK D \in SUBSET Sensors : l \in [D -> [u_state : {0, 1}, tag_code : Tags \cup {NoTag}]]
  BY DEF Lists
<1>2. S \in SUBSET Sensors /\ \A s \in S : l[s].tag_code \in Tags \cup {NoTag}
  BY <1>1
<1>3. ListSnapshot(l) = [s \in S |-> l[s].tag_code]
  BY DEF ListSnapshot
<1> HIDE DEF S
<1>4. ListSnapshot(l) \in [S -> Tags \cup {NoTag}]
  BY <1>2, <1>3
<1> QED
  BY <1>2, <1>4 DEF Snapshots

-----------------------------------------------------------------------------
(* The invariant and the steps.                                            *)

\* Nothing a step announces was announced within the window.
NothingRepeated ==
    \A s \in Sensors : \A i \in DOMAIN announced'[s] :
        LET c == announced'[s][i]
        IN  said[c] >= window \/ said[c] > 2 * least[c]

LEMMA InitIInv == Init => IInv
<1> SUFFICES ASSUME Init PROVE IInv
  OBVIOUS
<1> USE DEF Init
<1>1. TypeOK
  <2>1. announced \in [Sensors -> Seq(Changes)]
    BY EmptyFacts
  <2>2. emitCallCount \in 0 .. CleanupInterval - 1
    BY RfidAssumption
  <2>3. said \in [Changes -> 0 .. MaxAge]
    BY RfidAssumption
  <2> QED
    BY <2>1, <2>2, <2>3 DEF TypeOK
<1>2. LeastIsLeast /\ EntriesCover
  <2>1. window \in Nat /\ MaxAge \in Nat /\ 2 * window < MaxAge
    BY RfidAssumption
  <2> QED
    BY <2>1 DEF LeastIsLeast, EntriesCover
<1>3. ViewFollowsStore
  BY DEF ViewFollowsStore, TagAt
<1> QED
  BY <1>1, <1>2, <1>3 DEF IInv

\* A step that announces nothing keeps the types of what it announces.
LEMMA SilentFacts ==
    ASSUME Silent
    PROVE  /\ announced' \in [Sensors -> Seq(Changes)]
           /\ queries' \in Nat
           /\ NothingRepeated
<1>1. announced' = [s \in Sensors |-> <<>>] /\ queries' = 0
  BY DEF Silent
<1>2. NothingRepeated
  BY <1>1 DEF NothingRepeated
<1> QED
  BY <1>1, <1>2, EmptyFacts

\* A step that leaves the tags, the window's entries and their ages alone.
LEMMA QuietStep ==
    ASSUME IInv,
           kind' \in {"V5008", "V6800"}, running' \in BOOLEAN,
           announced' \in [Sensors -> Seq(Changes)], queries' \in Nat,
           UNCHANGED <<caching, window, stored, entries, said, emitCallCount, view,
                       excused, least>>
    PROVE  IInv'
<1>1. TypeOK'
  BY DEF IInv, TypeOK
<1>2. LeastIsLeast' /\ EntriesCover'
  BY DEF IInv, LeastIsLeast, EntriesCover
<1>3. ViewFollowsStore'
  BY DEF IInv, ViewFollowsStore, TagAt
<1> QED
  BY <1>1, <1>2, <1>3 DEF IInv

\* A snapshot, whoever stores it.
LEMMA HandleStep ==
    ASSUME IInv, NEW snapshot \in Snapshots, NEW identified \in BOOLEAN,
           HandleRfidSnapshot(snapshot, identified)
    PROVE  IInv' /\ NothingRepeated
<1> DEFINE previous == IF ManagerStores(identified) THEN snapshot ELSE stored
<1>1. /\ TypeOK /\ LeastIsLeast /\ EntriesCover /\ ViewFollowsStore
      /\ previous \in Stores /\ snapshot \in Stores
      /\ UNCHANGED <<kind, caching, running, window>>
      /\ stored' = IF running THEN snapshot ELSE previous
      /\ ~caching => previous = stored
  BY DEF IInv, TypeOK, Stores, HandleRfidSnapshot, ManagerStores
<1>2. CASE running
  <2>1. Announce(previous, snapshot)
    BY <1>2 DEF HandleRfidSnapshot
  <2> HIDE DEF previous
  <2>2. /\ announced' \in [Sensors -> Seq(Changes)]
        /\ emitCallCount' \in 0 .. CleanupInterval - 1
        /\ entries' \subseteq Changes
        /\ said' \in [Changes -> 0 .. MaxAge]
        /\ least' \in [Changes -> Windows]
        /\ view' \in [Sensors -> Tags \cup {NoTag}]
        /\ excused' \subseteq Sensors
        /\ queries' \in Nat
        /\ \A c \in Changes : least'[c] <= window
        /\ \A c \in Changes \ entries' : said'[c] > 2 * least'[c]
        /\ \A s \in Sensors : \A c \in Elements(announced'[s]) : ~Duplicate(c)
        /\ \A s \in Sensors \ excused' :
             \/ view'[s] = TagAt(snapshot, s)
             \/ /\ TagAt(previous, s) = TagAt(snapshot, s)
                /\ view'[s] = view[s]
                /\ s \notin excused
    BY <1>1, <2>1, AnnounceStep
  <2>3. stored' = snapshot
    BY <1>1, <1>2
  <2>4. TypeOK'
    BY <1>1, <2>2, <2>3 DEF TypeOK, Stores
  <2>5. LeastIsLeast' /\ EntriesCover'
    BY <1>1, <2>2 DEF LeastIsLeast, EntriesCover
  <2>6. ViewFollowsStore'
    <3> SUFFICES ASSUME ~caching, NEW s \in Sensors \ excused'
                 PROVE  view'[s] = TagAt(snapshot, s)
      BY <1>1, <2>3 DEF ViewFollowsStore, TagAt
    <3>1. CASE view'[s] = TagAt(snapshot, s)
      BY <3>1
    <3>2. CASE /\ TagAt(previous, s) = TagAt(snapshot, s)
               /\ view'[s] = view[s]
               /\ s \notin excused
      BY <1>1, <3>2 DEF ViewFollowsStore
    <3> QED
      BY <2>2, <3>1, <3>2
  <2>7. NothingRepeated
    <3> SUFFICES ASSUME NEW s \in Sensors, NEW i \in DOMAIN announced'[s]
                 PROVE  \/ said[announced'[s][i]] >= window
                        \/ said[announced'[s][i]] > 2 * least[announced'[s][i]]
      BY DEF NothingRepeated
    <3> DEFINE c == announced'[s][i]
    <3>1. c \in Elements(announced'[s]) /\ Elements(announced'[s]) \subseteq Changes
      BY <2>2, ElementsFacts
    <3>2. ~Duplicate(c) /\ c \in Changes
      BY <2>2, <3>1
    <3> HIDE DEF c
    <3>3. said[c] \in Nat /\ window \in Nat /\ window \in Windows
      BY <1>1, <3>2, RfidAssumption DEF TypeOK
    <3>4. said[c] >= window \/ said[c] > 2 * least[c]
      <4>1. CASE c \notin entries
        BY <1>1, <3>2, <3>3, <4>1 DEF EntriesCover
      <4>2. CASE c \in entries
        BY <3>2, <3>3, <4>2 DEF Duplicate
      <4> QED
        BY <4>1, <4>2
    <3> QED
      BY <3>4 DEF c
  <2> QED
    BY <2>4, <2>5, <2>6, <2>7 DEF IInv
<1>3. CASE ~running
  <2>1. Silent /\ UNCHANGED <<entries, said, emitCallCount, view, excused, least>>
    BY <1>3 DEF HandleRfidSnapshot
  <2>2. /\ announced' \in [Sensors -> Seq(Changes)]
        /\ queries' \in Nat
        /\ NothingRepeated
    BY <2>1, SilentFacts
  <2> HIDE DEF previous
  <2>3. TypeOK'
    BY <1>1, <1>3, <2>1, <2>2 DEF TypeOK, Stores
  <2>4. LeastIsLeast' /\ EntriesCover'
    BY <1>1, <2>1 DEF LeastIsLeast, EntriesCover
  <2>5. ViewFollowsStore'
    BY <1>1, <1>3, <2>1 DEF ViewFollowsStore, TagAt
  <2> QED
    BY <2>2, <2>3, <2>4, <2>5 DEF IInv
<1> QED
  BY <1>2, <1>3

LEMMA NextIInv == IInv /\ [Next]_vars => IInv' /\ [NothingRepeated]_vars
<1> SUFFICES ASSUME IInv, [Next]_vars
             PROVE  IInv' /\ [NothingRepeated]_vars
  OBVIOUS
<1>1. TypeOK /\ LeastIsLeast /\ EntriesCover /\ ViewFollowsStore
  BY DEF IInv
<1>2. CASE Start
  <2>1. IInv'
    BY <1>1, <1>2, SilentFacts, QuietStep DEF Start, TypeOK
  <2> QED
    BY <1>2, <2>1, SilentFacts DEF Start
<1>3. CASE Stop
  <2>1. IInv'
    BY <1>1, <1>3, SilentFacts, QuietStep DEF Stop, TypeOK
  <2> QED
    BY <1>3, <2>1, SilentFacts DEF Stop
<1>4. ASSUME NEW w \in Windows, UpdateConfig(w)
      PROVE  IInv' /\ NothingRepeated
  <2>1. /\ window' = w /\ Silent
        /\ least' = [c \in Changes |-> IF said[c] = MaxAge \/ w < least[c] THEN w ELSE least[c]]
        /\ UNCHANGED <<kind, caching, running, stored, entries, said, emitCallCount,
                       view, excused>>
    BY <1>4 DEF UpdateConfig
  <2>2. TypeOK'
    <3>1. least' \in [Changes -> Windows]
      BY <1>1, <2>1 DEF TypeOK
    <3> QED
      BY <1>1, <1>4, <2>1, <3>1, SilentFacts DEF TypeOK
  <2>3. /\ w \in Nat /\ MaxAge \in Nat /\ 2 * w < MaxAge
        /\ \A c \in Changes : least[c] \in Nat /\ said[c] \in Nat
    BY <1>1, WindowFacts, AgeFacts
  <2>4. LeastIsLeast'
    <3> SUFFICES ASSUME NEW c \in Changes PROVE least'[c] <= w
      BY <2>1 DEF LeastIsLeast
    <3> QED
      BY <2>1, <2>3
  <2>5. EntriesCover'
    <3> SUFFICES ASSUME NEW c \in Changes \ entries PROVE said[c] > 2 * least'[c]
      BY <2>1 DEF EntriesCover
    <3>1. said[c] > 2 * least[c]
      BY <1>1 DEF EntriesCover
    <3> QED
      BY <2>1, <2>3, <3>1
  <2>6. ViewFollowsStore'
    BY <1>1, <2>1 DEF ViewFollowsStore, TagAt
  <2> QED
    BY <2>1, <2>2, <2>4, <2>5, <2>6, SilentFacts DEF IInv
<1>5. CASE V5008Snapshot
  BY <1>5, FrameIsSnapshot, HandleStep DEF V5008Snapshot
<1>6. CASE V6800Snapshot
  BY <1>6, ListIsSnapshot, HandleStep DEF V6800Snapshot
<1>7. CASE V6800Event
  <2>1. /\ announced' = [s \in Sensors |-> <<>>]
        /\ queries' \in Nat
        /\ UNCHANGED <<kind, caching, running, window, stored, entries, said,
                       emitCallCount, view, excused, least>>
    BY <1>7 DEF V6800Event
  <2>2. announced' \in [Sensors -> Seq(Changes)]
    BY <2>1, EmptyFacts
  <2>3. IInv'
    BY <1>1, <2>1, <2>2, QuietStep DEF TypeOK
  <2>4. NothingRepeated
    BY <2>1 DEF NothingRepeated
  <2> QED
    BY <2>3, <2>4
<1>8. CASE OtherTelemetry
  <2>1. /\ caching /\ stored' = [s \in {} |-> NoTag] /\ Silent
        /\ UNCHANGED <<kind, caching, running, window, entries, said, emitCallCount,
                       view, excused, least>>
    BY <1>8 DEF OtherTelemetry
  <2>2. stored' \in Snapshots
    <3>1. stored' \in [{} -> Tags \cup {NoTag}]
      BY <2>1
    <3> QED
      BY <3>1 DEF Snapshots
  <2>3. TypeOK'
    BY <1>1, <2>1, <2>2, SilentFacts DEF TypeOK
  <2>4. LeastIsLeast' /\ EntriesCover'
    BY <1>1, <2>1 DEF LeastIsLeast, EntriesCover
  <2>5. ViewFollowsStore'
    BY <2>1 DEF ViewFollowsStore
  <2> QED
    BY <2>1, <2>3, <2>4, <2>5, SilentFacts DEF IInv
<1>9. CASE Forget
  <2>1. /\ stored # Lost /\ stored' = Lost /\ Silent
        /\ excused' = excused \cup {s \in Sensors : TagAt(stored, s) # NoTag}
        /\ UNCHANGED <<kind, caching, running, window, entries, said, emitCallCount, view,
                       least>>
    BY <1>9 DEF Forget
  <2>2. TypeOK'
    BY <1>1, <2>1, SilentFacts DEF TypeOK
  <2>3. LeastIsLeast' /\ EntriesCover'
    BY <1>1, <2>1 DEF LeastIsLeast, EntriesCover
  <2>4. ViewFollowsStore'
    <3> SUFFICES ASSUME ~caching, NEW s \in Sensors \ excused'
                 PROVE  view[s] = NoTag
      BY <2>1 DEF ViewFollowsStore, TagAt
    <3>1. s \notin excused /\ TagAt(stored, s) = NoTag
      BY <2>1
    <3> QED
      BY <1>1, <3>1 DEF ViewFollowsStore
  <2> QED
    BY <2>1, <2>2, <2>3, <2>4, SilentFacts DEF IInv
<1>10. CASE Tick
  <2>1. /\ said' = [c \in Changes |-> IF said[c] < MaxAge THEN said[c] + 1 ELSE MaxAge]
        /\ least' = [c \in Changes |-> IF said[c] + 1 < MaxAge THEN least[c] ELSE window]
        /\ Silent
        /\ UNCHANGED <<kind, caching, running, window, stored, entries, emitCallCount,
                       view, excused>>
    BY <1>10 DEF Tick
  <2>2. said' \in [Changes -> 0 .. MaxAge] /\ least' \in [Changes -> Windows]
    BY <1>1, <2>1, RfidAssumption DEF TypeOK
  <2>3. TypeOK'
    BY <1>1, <2>1, <2>2, SilentFacts DEF TypeOK
  <2>4. /\ window \in Nat /\ MaxAge \in Nat /\ 2 * window < MaxAge
        /\ \A c \in Changes : /\ least[c] \in Nat /\ said[c] \in Nat /\ said[c] <= MaxAge
                              /\ 2 * least[c] < MaxAge
    BY <1>1, WindowFacts, AgeFacts DEF TypeOK
  <2>5. LeastIsLeast'
    <3> SUFFICES ASSUME NEW c \in Changes PROVE least'[c] <= window
      BY <2>1 DEF LeastIsLeast
    <3>1. least[c] <= window
      BY <1>1 DEF LeastIsLeast
    <3> QED
      BY <2>1, <2>4, <3>1
  <2>6. EntriesCover'
    <3> SUFFICES ASSUME NEW c \in Changes \ entries PROVE said'[c] > 2 * least'[c]
      BY <2>1 DEF EntriesCover
    <3>1. said[c] > 2 * least[c]
      BY <1>1 DEF EntriesCover
    <3>2. /\ said'[c] = IF said[c] < MaxAge THEN said[c] + 1 ELSE MaxAge
          /\ least'[c] = IF said[c] + 1 < MaxAge THEN least[c] ELSE window
      BY <2>1
    <3> QED
      BY <2>4, <3>1, <3>2
  <2>7. ViewFollowsStore'
    BY <1>1, <2>1 DEF ViewFollowsStore, TagAt
  <2> QED
    BY <2>1, <2>3, <2>5, <2>6, <2>7, SilentFacts DEF IInv
<1>11. CASE UNCHANGED vars
  <2>1. IInv'
    BY <1>1, <1>11, QuietStep DEF vars, TypeOK
  <2> QED
    BY <1>11, <2>1
<1> QED
  BY <1>2, <1>3, <1>4, <1>5, <1>6, <1>7, <1>8, <1>9, <1>10, <1>11 DEF Next

LEMMA Invariance == Spec => []IInv
<1>1. IInv /\ [Next]_vars => IInv'
  BY NextIInv
<1> QED
  BY InitIInv, <1>1, PTL DEF Spec

-----------------------------------------------------------------------------
\* The adapter's state is of the declared types: the counter of attempts stays
\* below CLEANUP_INTERVAL, and only changes of known sensors and tags enter the
\* window (rfid-unifier.ts:332-360).
THEOREM TypeCorrect == Spec => []TypeOK
BY Invariance, PTL DEF IInv

\* Where the cache manager is off the bus (enableCache is off, which is not the default)
\* who folds the adapter's unified events knows the tags the cache knows, but for the
\* sensors whose last change repeated one of the window or whose record was lost
\* (rfid-unifier.ts:112-275).
THEOREM ConsumerKnowsTheTags == Spec => []ViewFollowsStore
BY Invariance, PTL DEF IInv

\* Where the cache manager is on the bus, as by default, the folded events say nothing
\* of the tags of a V5008 module: the manager has stored every snapshot before the adapter
\* compares, and nothing is ever announced (uos-cache-manager.ts:192-211,
\* rfid-unifier.ts:130-160).
THEOREM CachedSnapshotsAreSilent ==
    Spec => [][caching /\ kind = "V5008" => \A s \in Sensors : announced'[s] = <<>>]_vars
<1> DEFINE A == caching /\ kind = "V5008" => \A s \in Sensors : announced'[s] = <<>>
<1>1. ASSUME Next PROVE A
  <2> SUFFICES ASSUME caching, kind = "V5008", NEW s \in Sensors PROVE announced'[s] = <<>>
    OBVIOUS
  <2>1. CASE announced' = [r \in Sensors |-> <<>>]
    BY <2>1
  <2>2. CASE V5008Snapshot
    <3>1. PICK snapshot \in Snapshots : HandleRfidSnapshot(snapshot, TRUE)
      BY <2>2, FrameIsSnapshot DEF V5008Snapshot
    <3>2. CASE running
      <4>1. Announce(snapshot, snapshot)
        BY <3>1, <3>2 DEF HandleRfidSnapshot, ManagerStores
      <4>2. announced'[s] = Announced(snapshot, snapshot, s)
        BY <4>1 DEF Announce
      <4>3. Announced(snapshot, snapshot, s) = <<>>
        BY ChangesFacts DEF Stores
      <4> QED
        BY <4>2, <4>3
    <3>3. CASE ~running
      BY <3>1, <3>3 DEF HandleRfidSnapshot, Silent
    <3> QED
      BY <3>2, <3>3
  <2>3. announced' = [r \in Sensors |-> <<>>] \/ V5008Snapshot
    BY <1>1 DEF Next, Start, Stop, UpdateConfig, V6800Snapshot, V6800Event,
                OtherTelemetry, Forget, Tick, Silent
  <2> QED
    BY <2>1, <2>2, <2>3
<1>2. [Next]_vars => [A]_vars
  BY <1>1
<1> QED
  BY <1>2, PTL DEF Spec

\* A change is announced twice within the window only where a window less than half
\* as long as the time between has been in force meanwhile, whatever cleanup or restart
\* came between and however the windows are configured (rfid-unifier.ts:332-360, 469-478).
THEOREM NoChangeRepeated == Spec => AnnouncedOncePerWindow
<1>1. IInv /\ [Next]_vars => [NothingRepeated]_vars
  BY NextIInv
<1>2. Spec => [][NothingRepeated]_vars
  BY <1>1, Invariance, PTL DEF Spec
<1> QED
  BY <1>2 DEF AnnouncedOncePerWindow, NothingRepeated
=============================================================================
