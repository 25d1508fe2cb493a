------------------------ MODULE DatabaseWriterProofs ------------------------
(***************************************************************************)
(* Theorems of DatabaseWriter, for every set of messages, keys and flushes *)
(* and every batch size, queue size and number of attempts.                *)
(***************************************************************************)
EXTENDS DatabaseWriter, SequenceTheorems, TLAPS

\* A sequence without repetition.
Distinct(s) == \A i, j \in DOMAIN s : s[i] = s[j] => i = j

\* The messages a flush has taken.
BatchSet(f) == SeqSet(flush[f].batch)

\* A message the writer need not hold any more.
Settled(m) == rows[m] > 0 \/ lost[m] # "no"

\* What the writer holds has been received.
HeldIsReceived ==
    /\ SeqSet(queue) \subseteq received
    /\ \A f \in Active : BatchSet(f) \subseteq received

\* The queue and the batches are disjoint and none holds a message twice: a
\* batch that goes back to the queue keeps it so.
Apart ==
    /\ Distinct(queue)
    /\ \A f \in Active : Distinct(flush[f].batch)
    /\ \A f \in Active : BatchSet(f) \cap SeqSet(queue) = {}
    /\ \A f, g \in Active : f # g => BatchSet(f) \cap BatchSet(g) = {}

\* A flush passes a message only when it is saved or given up.
PassedIsSettled ==
    \A f \in Active : \A i \in 1..(flush[f].at - 1) : Settled(flush[f].batch[i])

\* What is not settled is in the queue or in a batch.
Accounted ==
    \A m \in received :
        Settled(m) \/ m \in SeqSet(queue) \/ \E f \in Active : m \in BatchSet(f)

\* The inductive invariant.
IInv ==
    /\ TypeOK
    /\ QueueBound
    /\ HeldIsReceived
    /\ Apart
    /\ PassedIsSettled
    /\ Accounted

-----------------------------------------------------------------------------
(* Sequences as sets.                                                      *)

LEMMA SeqSetFacts ==
    ASSUME NEW S, NEW s \in Seq(S)
    PROVE  /\ SeqSet(s) \subseteq S
           /\ Len(s) \in Nat
           /\ DOMAIN s = 1..Len(s)
           /\ \A i \in 1..Len(s) : s[i] \in SeqSet(s)
           /\ \A x \in SeqSet(s) : \E i \in 1..Len(s) : s[i] = x
<1>1. Len(s) \in Nat /\ DOMAIN s = 1..Len(s)
  BY LenProperties
<1>2. \A i \in 1..Len(s) : s[i] \in S
  BY ElementOfSeq
<1> QED
  BY <1>1, <1>2 DEF SeqSet

LEMMA EmptySeqSet == SeqSet(<<>>) = {} /\ Distinct(<<>>) /\ Len(<<>>) = 0
BY EmptySeq DEF SeqSet, Distinct

LEMMA ConcatFacts ==
    ASSUME NEW S, NEW s \in Seq(S), NEW t \in Seq(S)
    PROVE  /\ s \o t \in Seq(S)
           /\ SeqSet(s \o t) = SeqSet(s) \cup SeqSet(t)
           /\ Distinct(s) /\ Distinct(t) /\ SeqSet(s) \cap SeqSet(t) = {} => Distinct(s \o t)
<1> DEFINE u == s \o t
<1>1. /\ u \in Seq(S)
      /\ Len(u) = Len(s) + Len(t)
      /\ \A i \in 1..(Len(s) + Len(t)) :
           u[i] = IF i <= Len(s) THEN s[i] ELSE t[i - Len(s)]
  BY ConcatProperties
<1> HIDE DEF u
<1>2. Len(s) \in Nat /\ DOMAIN s = 1..Len(s) /\ Len(t) \in Nat /\ DOMAIN t = 1..Len(t)
  BY LenProperties
<1>3. DOMAIN u = 1..(Len(s) + Len(t))
  BY <1>1, LenProperties
<1>4. SeqSet(u) \subseteq SeqSet(s) \cup SeqSet(t)
  <2> SUFFICES ASSUME NEW i \in DOMAIN u PROVE u[i] \in SeqSet(s) \cup SeqSet(t)
    BY DEF SeqSet
  <2>1. CASE i <= Len(s)
    BY <1>1, <1>2, <1>3, <2>1 DEF SeqSet
  <2>2. CASE ~(i <= Len(s))
    <3>1. i - Len(s) \in DOMAIN t /\ u[i] = t[i - Len(s)]
      BY <1>1, <1>2, <1>3, <2>2
    <3> QED
      BY <3>1 DEF SeqSet
  <2> QED
    BY <2>1, <2>2
<1>5. SeqSet(s) \subseteq SeqSet(u)
  <2> SUFFICES ASSUME NEW i \in DOMAIN s PROVE s[i] \in SeqSet(u)
    BY DEF SeqSet
  <2>1. i \in DOMAIN u /\ u[i] = s[i]
    BY <1>1, <1>2, <1>3
  <2> QED
    BY <2>1 DEF SeqSet
<1>6. SeqSet(t) \subseteq SeqSet(u)
  <2> SUFFICES ASSUME NEW i \in DOMAIN t PROVE t[i] \in SeqSet(u)
    BY DEF SeqSet
  <2>1. i + Len(s) \in DOMAIN u /\ u[i + Len(s)] = t[i]
    BY <1>1, <1>2, <1>3
  <2> QED
    BY <2>1 DEF SeqSet
<1>7. ASSUME Distinct(s), Distinct(t), SeqSet(s) \cap SeqSet(t) = {}
      PROVE  Distinct(u)
  <2> SUFFICES ASSUME NEW i \in DOMAIN u, NEW j \in DOMAIN u, u[i] = u[j]
               PROVE  i = j
    BY DEF Distinct
  <2>1. ASSUME NEW k \in DOMAIN u, k <= Len(s)
        PROVE  k \in DOMAIN s /\ u[k] = s[k] /\ u[k] \in SeqSet(s)
    BY <1>1, <1>2, <1>3, <2>1 DEF SeqSet
  <2>2. ASSUME NEW k \in DOMAIN u, ~(k <= Len(s))
        PROVE  k - Len(s) \in DOMAIN t /\ u[k] = t[k - Len(s)] /\ u[k] \in SeqSet(t)
    <3>1. k - Len(s) \in DOMAIN t /\ u[k] = t[k - Len(s)]
      BY <1>1, <1>2, <1>3, <2>2
    <3> QED
      BY <3>1 DEF SeqSet
  <2>3. CASE i <= Len(s) /\ j <= Len(s)
    BY <1>7, <2>1, <2>3 DEF Distinct
  <2>4. CASE ~(i <= Len(s)) /\ ~(j <= Len(s))
    <3>1. i - Len(s) = j - Len(s)
      BY <1>7, <2>2, <2>4 DEF Distinct
    <3> QED
      BY <1>2, <1>3, <3>1
  <2>5. (i <= Len(s)) <=> (j <= Len(s))
    BY <1>7, <2>1, <2>2
  <2> QED
    BY <2>3, <2>4, <2>5
<1> QED
  BY <1>1, <1>4, <1>5, <1>6, <1>7 DEF u

LEMMA TailFacts ==
    ASSUME NEW S, NEW s \in Seq(S), s # <<>>
    PROVE  /\ Tail(s) \in Seq(S)
           /\ Len(Tail(s)) = Len(s) - 1
           /\ Head(s) \in S
           /\ SeqSet(Tail(s)) \subseteq SeqSet(s)
           /\ SeqSet(s) \subseteq SeqSet(Tail(s)) \cup {Head(s)}
           /\ Distinct(s) => Distinct(Tail(s))
<1> DEFINE t == Tail(s)
<1>1. /\ t \in Seq(S) /\ Head(s) \in S /\ Len(t) = Len(s) - 1
      /\ \A i \in 1..Len(t) : t[i] = s[i + 1]
  BY HeadTailProperties
<1>2. Head(s) = s[1]
  OBVIOUS
<1> HIDE DEF t
<1>3. Len(s) \in Nat /\ DOMAIN s = 1..Len(s) /\ Len(t) \in Nat /\ DOMAIN t = 1..Len(t)
  BY <1>1, LenProperties
<1>4. \A i \in DOMAIN t : i + 1 \in DOMAIN s /\ t[i] = s[i + 1]
  BY <1>1, <1>3
<1>5. SeqSet(t) \subseteq SeqSet(s)
  BY <1>4 DEF SeqSet
<1>6. SeqSet(s) \subseteq SeqSet(t) \cup {Head(s)}
  <2> SUFFICES ASSUME NEW i \in DOMAIN s, i # 1 PROVE s[i] \in SeqSet(t)
    BY <1>2 DEF SeqSet
  <2>1. i - 1 \in DOMAIN t /\ (i - 1) + 1 = i
    BY <1>1, <1>3
  <2>2. t[i - 1] = s[i]
    BY <1>4, <2>1
  <2> QED
    BY <2>1, <2>2 DEF SeqSet
<1>7. Distinct(s) => Distinct(t)
  <2> SUFFICES ASSUME Distinct(s), NEW i \in DOMAIN t, NEW j \in DOMAIN t, t[i] = t[j]
               PROVE  i = j
    BY DEF Distinct
  <2>1. i + 1 = j + 1
    BY <1>4 DEF Distinct
  <2> QED
    BY <1>3, <2>1
<1> QED
  BY <1>1, <1>5, <1>6, <1>7 DEF t

LEMMA AppendFacts ==
    ASSUME NEW S, NEW s \in Seq(S), NEW x \in S
    PROVE  /\ Append(s, x) \in Seq(S)
           /\ Append(s, x) # <<>>
           /\ Len(Append(s, x)) = Len(s) + 1
           /\ SeqSet(Append(s, x)) = SeqSet(s) \cup {x}
           /\ Distinct(s) /\ x \notin SeqSet(s) => Distinct(Append(s, x))
<1>1. <<x>> \in Seq(S) /\ SeqSet(<<x>>) = {x} /\ Distinct(<<x>>)
  BY DEF SeqSet, Distinct
<1>2. Append(s, x) = s \o <<x>>
  BY AppendIsConcat
<1>3. /\ Append(s, x) \in Seq(S) /\ Append(s, x) # <<>>
      /\ Len(Append(s, x)) = Len(s) + 1
  BY AppendProperties
<1>4. /\ SeqSet(s \o <<x>>) = SeqSet(s) \cup SeqSet(<<x>>)
      /\ Distinct(s) /\ Distinct(<<x>>) /\ SeqSet(s) \cap SeqSet(<<x>>) = {}
           => Distinct(s \o <<x>>)
  BY <1>1, ConcatFacts
<1> QED
  BY <1>1, <1>2, <1>3, <1>4

-----------------------------------------------------------------------------
(* The steps of the writer on its queue and its flushes.                   *)

\* What the queue is after an arrival, in room or in place of the oldest.
LEMMA EnqueueFacts ==
    ASSUME TypeOK, NEW m \in Messages
    PROVE  /\ Enqueue(m) \in Seq(Messages)
           /\ Enqueue(m) # <<>>
           /\ QueueBound => Len(Enqueue(m)) <= MaxQueueSize
           /\ m \in SeqSet(Enqueue(m))
           /\ SeqSet(Enqueue(m)) \subseteq SeqSet(queue) \cup {m}
           /\ SeqSet(queue) \subseteq SeqSet(Enqueue(m))
                \cup (IF Len(queue) >= MaxQueueSize THEN {Head(queue)} ELSE {})
           /\ Len(queue) >= MaxQueueSize => Head(queue) \in Messages
           /\ Distinct(queue) /\ m \notin SeqSet(queue) => Distinct(Enqueue(m))
<1> DEFINE rest == IF Len(queue) >= MaxQueueSize THEN Tail(queue) ELSE queue
<1>1. /\ queue \in Seq(Messages) /\ Len(queue) \in Nat
      /\ MaxQueueSize \in Nat \ {0}
  BY WriterAssumption, LenProperties DEF TypeOK
<1>2. CASE Len(queue) >= MaxQueueSize
  <2>1. rest = Tail(queue)
    BY <1>2
  <2>2. queue # <<>>
    BY <1>1, <1>2, EmptySeq
  <2>3. /\ rest \in Seq(Messages)
        /\ Len(rest) = Len(queue) - 1
        /\ Head(queue) \in Messages
        /\ SeqSet(rest) \subseteq SeqSet(queue)
        /\ SeqSet(queue) \subseteq SeqSet(rest) \cup {Head(queue)}
        /\ Distinct(queue) => Distinct(rest)
    BY <1>1, <2>1, <2>2, TailFacts
  <2> HIDE DEF rest
  <2>4. /\ Append(rest, m) \in Seq(Messages)
        /\ Append(rest, m) # <<>>
        /\ Len(Append(rest, m)) = Len(rest) + 1
        /\ SeqSet(Append(rest, m)) = SeqSet(rest) \cup {m}
        /\ Distinct(rest) /\ m \notin SeqSet(rest) => Distinct(Append(rest, m))
    BY <2>3, AppendFacts
  <2>5. Enqueue(m) = Append(rest, m)
    BY DEF Enqueue, rest
  <2>6. QueueBound => Len(Enqueue(m)) <= MaxQueueSize
    BY <1>1, <2>3, <2>4, <2>5 DEF QueueBound
  <2> QED
    BY <1>2, <2>3, <2>4, <2>5, <2>6
<1>3. CASE ~(Len(queue) >= MaxQueueSize)
  <2>1. Enqueue(m) = Append(queue, m)
    BY <1>3 DEF Enqueue
  <2>2. /\ Append(queue, m) \in Seq(Messages)
        /\ Append(queue, m) # <<>>
        /\ Len(Append(queue, m)) = Len(queue) + 1
        /\ SeqSet(Append(queue, m)) = SeqSet(queue) \cup {m}
        /\ Distinct(queue) /\ m \notin SeqSet(queue) => Distinct(Append(queue, m))
    BY <1>1, AppendFacts
  <2>3. Len(Enqueue(m)) <= MaxQueueSize
    BY <1>1, <1>3, <2>1, <2>2
  <2> QED
    BY <1>3, <2>1, <2>2, <2>3
<1> QED
  BY <1>2, <1>3

\* A save that is tried is a state a flush may have.
LEMMA TryingState ==
    ASSUME NEW b \in Seq(Messages), NEW i \in 1..Len(b),
           NEW attempts \in [Keys -> 0..RetryCount]
    PROVE  /\ Trying(b, i, attempts) \in FlushState
           /\ Trying(b, i, attempts).batch = b
           /\ Trying(b, i, attempts).at = i
           /\ Trying(b, i, attempts).phase = "trying"
<1>1. b[i] \in Messages /\ Len(b) \in Nat
  BY ElementOfSeq, LenProperties
<1>2. attempts[KeyOf[b[i]]] \in 0..RetryCount /\ i \in Nat
  BY <1>1, WriterAssumption
<1> QED
  BY <1>2 DEF Trying, FlushState

LEMMA IdleState == Idle \in FlushState /\ Idle.phase = "idle"
<1>1. <<>> \in Seq(Messages)
  BY EmptySeq
<1>2. 0 \in 0..RetryCount
  BY WriterAssumption
<1> QED
  BY <1>1, <1>2 DEF Idle, FlushState

\* The message a flush is at.
LEMMA CurrentFacts ==
    ASSUME TypeOK, NEW f \in Active
    PROVE  /\ f \in Flushes
           /\ flush[f] \in FlushState
           /\ flush[f].batch \in Seq(Messages)
           /\ flush[f].at \in 1..Len(flush[f].batch)
           /\ Len(flush[f].batch) \in Nat
           /\ Current(f) \in Messages
           /\ KeyOf[Current(f)] \in Keys
           /\ Current(f) = flush[f].batch[flush[f].at]
<1>1. f \in Flushes /\ flush[f] \in FlushState /\ flush[f].batch \in Seq(Messages)
  BY DEF TypeOK, Active, FlushState
<1>2. flush[f].at \in 1..Len(flush[f].batch)
  BY DEF TypeOK
<1>3. Current(f) \in Messages
  BY <1>1, <1>2, ElementOfSeq DEF Current
<1> QED
  BY <1>1, <1>2, <1>3, LenProperties, WriterAssumption DEF Current

\* A flush that starts takes the queue it is given as its batch.
LEMMA FlushTakes ==
    ASSUME TypeOK, NEW f \in Flushes, NEW q \in Seq(Messages), q # <<>>, FlushBatch(f, q)
    PROVE  /\ f \notin Active
           /\ Active' = Active \cup {f}
           /\ flush' \in [Flushes -> FlushState]
           /\ flush'[f].batch = q
           /\ flush'[f].at = 1
           /\ 1 \in 1..Len(q)
           /\ \A g \in Flushes \ {f} : flush'[g] = flush[g]
           /\ queue' = <<>>
           /\ timer' = FALSE
<1>1. 1 \in 1..Len(q)
  BY EmptySeq
<1>2. retryAttempts \in [Keys -> 0..RetryCount] /\ flush \in [Flushes -> FlushState]
  BY DEF TypeOK
<1> DEFINE new == Trying(q, 1, retryAttempts)
<1>3. /\ new \in FlushState
      /\ new.batch = q /\ new.at = 1 /\ new.phase = "trying"
  BY <1>1, <1>2, TryingState
<1>4. flush' = [flush EXCEPT ![f] = new] /\ flush[f].phase = "idle"
  BY DEF FlushBatch
<1> HIDE DEF new
<1>5. flush' \in [Flushes -> FlushState] /\ flush'[f] = new
  BY <1>2, <1>3, <1>4
<1>6. \A g \in Flushes \ {f} : flush'[g] = flush[g]
  BY <1>2, <1>4
<1>7. Active' = Active \cup {f} /\ f \notin Active
  BY <1>3, <1>4, <1>5, <1>6 DEF Active
<1> QED
  BY <1>1, <1>3, <1>5, <1>6, <1>7 DEF FlushBatch

\* A flush goes to the next message of its batch or ends.
LEMMA NextMessageMoves ==
    ASSUME TypeOK, NEW f \in Active, NEW attempts \in [Keys -> 0..RetryCount],
           NextMessage(f, attempts)
    PROVE  /\ flush' \in [Flushes -> FlushState]
           /\ \A g \in Flushes \ {f} : flush'[g] = flush[g]
           /\ stopper' \in Flushes \cup {NoFlush}
           /\ running' \in BOOLEAN
           /\ \/ /\ flush'[f].batch = flush[f].batch
                 /\ flush'[f].at = flush[f].at + 1
                 /\ flush[f].at + 1 \in 1..Len(flush[f].batch)
                 /\ Active' = Active
              \/ /\ flush[f].at = Len(flush[f].batch)
                 /\ Active' = Active \ {f}
<1>1. /\ f \in Flushes
      /\ flush[f].batch \in Seq(Messages)
      /\ flush[f].at \in 1..Len(flush[f].batch)
      /\ Len(flush[f].batch) \in Nat
  BY CurrentFacts
<1>2. flush \in [Flushes -> FlushState] /\ stopper \in Flushes \cup {NoFlush}
  BY DEF TypeOK
<1>3. running \in BOOLEAN
  BY DEF TypeOK
<1>4. CASE flush[f].at < Len(flush[f].batch)
  <2> DEFINE new == Trying(flush[f].batch, flush[f].at + 1, attempts)
  <2>1. flush[f].at + 1 \in 1..Len(flush[f].batch)
    BY <1>1, <1>4
  <2>2. /\ new \in FlushState /\ new.batch = flush[f].batch
        /\ new.at = flush[f].at + 1 /\ new.phase = "trying"
    BY <1>1, <2>1, TryingState
  <2>3. /\ flush' = [flush EXCEPT ![f] = new]
        /\ running' = running /\ stopper' = stopper
    BY <1>4 DEF NextMessage
  <2> HIDE DEF new
  <2>4. /\ flush' \in [Flushes -> FlushState]
        /\ flush'[f] = new
        /\ \A g \in Flushes \ {f} : flush'[g] = flush[g]
    BY <1>1, <1>2, <2>2, <2>3
  <2>5. Active' = Active
    BY <2>2, <2>4 DEF Active
  <2>6. running' \in BOOLEAN
    BY <1>3, <2>3
  <2> QED
    BY <1>2, <2>1, <2>2, <2>3, <2>4, <2>5, <2>6
<1>5. CASE ~(flush[f].at < Len(flush[f].batch))
  <2>1. flush' = [flush EXCEPT ![f] = Idle] /\ FlushEnds(f)
    BY <1>5 DEF NextMessage
  <2>2. /\ flush' \in [Flushes -> FlushState]
        /\ flush'[f] = Idle
        /\ \A g \in Flushes \ {f} : flush'[g] = flush[g]
    BY <1>1, <1>2, <2>1, IdleState
  <2>3. Active' = Active \ {f}
    BY <2>2, IdleState DEF Active
  <2>4. stopper' \in Flushes \cup {NoFlush}
    BY <1>2, <2>1 DEF FlushEnds
  <2>5. running' \in BOOLEAN
    BY <1>3, <2>1 DEF FlushEnds
  <2>6. flush[f].at = Len(flush[f].batch)
    BY <1>1, <1>5
  <2> QED
    BY <2>2, <2>3, <2>4, <2>5, <2>6
<1> QED
  BY <1>4, <1>5

\* A flush that tries or sleeps is active.
LEMMA PhaseActive ==
    ASSUME NEW f \in Flushes, flush[f].phase = "trying" \/ flush[f].phase = "sleeping"
    PROVE  f \in Active
  BY DEF Active

-----------------------------------------------------------------------------
(* Types.                                                                  *)

LEMMA InitIInv == Init => IInv
<1> SUFFICES ASSUME Init PROVE IInv
  OBVIOUS
<1> USE WriterAssumption DEF Init
<1>1. Active = {}
  BY IdleState DEF Active
<1>2. SeqSet(queue) = {} /\ Distinct(queue) /\ Len(queue) = 0
  BY EmptySeqSet
<1>3. TypeOK
  <2>1. queue \in Seq(Messages)
    BY EmptySeq
  <2>2. flush \in [Flushes -> FlushState]
    BY IdleState
  <2>3. retryAttempts \in [Keys -> 0..RetryCount]
    OBVIOUS
  <2> QED
    BY <1>1, <2>1, <2>2, <2>3 DEF TypeOK
<1> QED
  BY <1>1, <1>2, <1>3 DEF IInv, QueueBound, HeldIsReceived, Apart, PassedIsSettled, Accounted

\* A flush that starts keeps the types.
LEMMA FlushTypeOK ==
    ASSUME TypeOK, NEW f \in Flushes, NEW q \in Seq(Messages), q # <<>>, FlushBatch(f, q)
    PROVE  /\ queue' \in Seq(Messages)
           /\ timer' \in BOOLEAN
           /\ flush' \in [Flushes -> FlushState]
           /\ \A g \in Active' : flush'[g].at \in 1..Len(flush'[g].batch)
<1>1. /\ Active' = Active \cup {f}
      /\ flush' \in [Flushes -> FlushState]
      /\ flush'[f].batch = q /\ flush'[f].at = 1 /\ 1 \in 1..Len(q)
      /\ \A g \in Flushes \ {f} : flush'[g] = flush[g]
      /\ queue' = <<>> /\ timer' = FALSE
  BY FlushTakes
<1>2. \A g \in Active : g \in Flushes /\ flush[g].at \in 1..Len(flush[g].batch)
  BY CurrentFacts
<1> QED
  BY <1>1, <1>2, EmptySeq

\* A flush that moves on keeps the types.
LEMMA NextMessageTypeOK ==
    ASSUME TypeOK, NEW f \in Active, NEW attempts \in [Keys -> 0..RetryCount],
           NextMessage(f, attempts)
    PROVE  /\ flush' \in [Flushes -> FlushState]
           /\ stopper' \in Flushes \cup {NoFlush}
           /\ running' \in BOOLEAN
           /\ \A g \in Active' : flush'[g].at \in 1..Len(flush'[g].batch)
<1>1. /\ flush' \in [Flushes -> FlushState]
      /\ stopper' \in Flushes \cup {NoFlush}
      /\ running' \in BOOLEAN
      /\ \A g \in Flushes \ {f} : flush'[g] = flush[g]
      /\ \/ /\ flush'[f].batch = flush[f].batch
            /\ flush'[f].at = flush[f].at + 1
            /\ flush[f].at + 1 \in 1..Len(flush[f].batch)
            /\ Active' = Active
         \/ Active' = Active \ {f}
  BY NextMessageMoves
<1>2. \A g \in Active : g \in Flushes /\ flush[g].at \in 1..Len(flush[g].batch)
  BY CurrentFacts
<1> QED
  BY <1>1, <1>2

\* A failed attempt is one the limit allows.
LEMMA AttemptFacts ==
    ASSUME TypeOK, NEW f \in Flushes, AttemptFails(f)
    PROVE  /\ f \in Active
           /\ flush[f].attempts + 1 \in 0..RetryCount
           /\ retryAttempts' \in [Keys -> 0..RetryCount]
           /\ tried' \in [Messages -> Nat]
           /\ tried' # tried
<1>1. f \in Active
  BY PhaseActive DEF AttemptFails
<1>2. Current(f) \in Messages /\ KeyOf[Current(f)] \in Keys /\ flush[f] \in FlushState
  BY <1>1, CurrentFacts
<1>3. flush[f].attempts \in 0..RetryCount /\ ~(flush[f].attempts >= RetryCount)
  BY <1>2 DEF FlushState, AttemptFails, Exhausted
<1>4. flush[f].attempts + 1 \in 0..RetryCount
  BY <1>3, WriterAssumption
<1>5. retryAttempts' = [retryAttempts EXCEPT ![KeyOf[Current(f)]] = flush[f].attempts + 1]
  BY DEF AttemptFails
<1>6. retryAttempts \in [Keys -> 0..RetryCount] /\ tried \in [Messages -> Nat]
  BY DEF TypeOK
<1>7. retryAttempts' \in [Keys -> 0..RetryCount]
  BY <1>2, <1>4, <1>5, <1>6
<1>8. tried' = [tried EXCEPT ![Current(f)] = @ + 1]
  BY DEF AttemptFails
<1>9. tried' \in [Messages -> Nat] /\ tried'[Current(f)] = tried[Current(f)] + 1
  BY <1>2, <1>6, <1>8
<1>10. tried' # tried
  BY <1>2, <1>6, <1>9
<1> QED
  BY <1>1, <1>4, <1>7, <1>9, <1>10

\* A save that fails in the middle of a batch leaves the batch as it is.
LEMMA SleepFacts ==
    ASSUME TypeOK, NEW f \in Flushes, SaveFails(f) \/ Wake(f)
    PROVE  /\ f \in Active
           /\ flush' \in [Flushes -> FlushState]
           /\ flush'[f].batch = flush[f].batch
           /\ flush'[f].at = flush[f].at
           /\ \A g \in Flushes \ {f} : flush'[g] = flush[g]
           /\ Active' = Active
<1>1. f \in Active
  BY PhaseActive DEF SaveFails, AttemptFails, Wake
<1>2. flush[f] \in FlushState /\ flush \in [Flushes -> FlushState]
  BY <1>1, CurrentFacts DEF TypeOK
<1>3. CASE SaveFails(f)
  <2>1. flush[f].attempts + 1 \in 0..RetryCount
    BY <1>3, AttemptFacts DEF SaveFails
  <2> DEFINE new == [flush[f] EXCEPT !.attempts = @ + 1, !.phase = "sleeping"]
  <2>2. /\ new \in FlushState /\ new.batch = flush[f].batch
        /\ new.at = flush[f].at /\ new.phase = "sleeping"
    BY <1>2, <2>1 DEF FlushState
  <2>3. flush' = [flush EXCEPT ![f] = new]
    BY <1>2, <1>3 DEF SaveFails
  <2> HIDE DEF new
  <2>4. /\ flush' \in [Flushes -> FlushState] /\ flush'[f] = new
        /\ \A g \in Flushes \ {f} : flush'[g] = flush[g]
    BY <1>2, <2>2, <2>3
  <2>5. Active' = Active
    BY <1>1, <2>2, <2>4 DEF Active
  <2> QED
    BY <1>1, <2>2, <2>4, <2>5
<1>4. CASE Wake(f)
  <2> DEFINE new == [flush[f] EXCEPT !.phase = "trying"]
  <2>2. /\ new \in FlushState /\ new.batch = flush[f].batch
        /\ new.at = flush[f].at /\ new.phase = "trying"
    BY <1>2 DEF FlushState
  <2>3. flush' = [flush EXCEPT ![f] = new]
    BY <1>2, <1>4 DEF Wake
  <2> HIDE DEF new
  <2>4. /\ flush' \in [Flushes -> FlushState] /\ flush'[f] = new
        /\ \A g \in Flushes \ {f} : flush'[g] = flush[g]
    BY <1>2, <2>2, <2>3
  <2>5. Active' = Active
    BY <1>1, <2>2, <2>4 DEF Active
  <2> QED
    BY <1>1, <2>2, <2>4, <2>5
<1> QED
  BY <1>3, <1>4

\* A flush that fails for good ends.
LEMMA FlushFailsFacts ==
    ASSUME TypeOK, NEW f \in Flushes, FlushFails(f)
    PROVE  /\ f \in Active
           /\ flush' \in [Flushes -> FlushState]
           /\ flush'[f] = Idle
           /\ \A g \in Flushes \ {f} : flush'[g] = flush[g]
           /\ Active' = Active \ {f}
<1>1. f \in Active
  BY AttemptFacts DEF FlushFails
<1>2. flush \in [Flushes -> FlushState] /\ flush' = [flush EXCEPT ![f] = Idle]
  BY DEF FlushFails, TypeOK
<1>3. /\ flush' \in [Flushes -> FlushState] /\ flush'[f] = Idle
      /\ \A g \in Flushes \ {f} : flush'[g] = flush[g]
  BY <1>2, IdleState
<1>4. Active' = Active \ {f}
  BY <1>3, IdleState DEF Active
<1> QED
  BY <1>1, <1>3, <1>4

\* Only the end of a failed flush names a key in the log.
LEMMA ReportedGrows ==
    ASSUME TypeOK, [Next]_vars
    PROVE  reported \subseteq reported' /\ reported' \subseteq Keys
<1>1. CASE UNCHANGED reported
  BY <1>1 DEF TypeOK
<1>2. ASSUME NEW f \in Flushes, FlushFails(f)
      PROVE  reported \subseteq reported' /\ reported' \subseteq Keys
  <2>1. KeyOf[Current(f)] \in Keys
    BY <1>2, FlushFailsFacts, CurrentFacts
  <2>2. reported' = reported \cup {KeyOf[Current(f)]}
    BY <1>2 DEF FlushFails
  <2> QED
    BY <2>1, <2>2 DEF TypeOK
<1>3. UNCHANGED reported \/ \E f \in Flushes : FlushFails(f)
  BY DEF Next, FlushStep, Connect, Start, Stop, Disconnect, RemoveAllListeners,
         HandleSUOMessage, BatchTimeout, ForceFlush, SkipExhausted, SaveSucceeds,
         SaveFails, Wake, vars
<1> QED
  BY <1>1, <1>2, <1>3

\* The variables keep their types.
LEMMA NextTypeOK == TypeOK /\ [Next]_vars => TypeOK'
<1> SUFFICES ASSUME TypeOK, [Next]_vars PROVE TypeOK'
  OBVIOUS
<1>0. reported' \subseteq Keys
  BY ReportedGrows
<1> USE WriterAssumption, <1>0
<1>1. CASE Connect \/ Start \/ Disconnect \/ RemoveAllListeners \/ UNCHANGED vars
  <2>1. UNCHANGED <<stopper, queue, timer, flush, retryAttempts, received, rows, tried, lost>>
    BY <1>1 DEF Connect, Start, Disconnect, RemoveAllListeners, vars
  <2>2. connected' \in BOOLEAN /\ running' \in BOOLEAN /\ subscribed' \in BOOLEAN
    BY <1>1 DEF Connect, Start, Disconnect, RemoveAllListeners, vars, TypeOK
  <2> QED
    BY <2>1, <2>2 DEF TypeOK, Active
<1>2. CASE Stop
  <2>1. UNCHANGED <<connected, subscribed, retryAttempts, received, rows, tried, lost>>
    BY <1>2 DEF Stop
  <2>2. CASE queue = <<>>
    <3>1. running' = FALSE /\ timer' = FALSE /\ UNCHANGED <<stopper, queue, flush>>
      BY <1>2, <2>2 DEF Stop
    <3> QED
      BY <2>1, <3>1 DEF TypeOK, Active
  <2>3. CASE queue # <<>>
    <3>1. PICK f \in Flushes : FlushBatch(f, queue) /\ stopper' = f /\ UNCHANGED running
      BY <1>2, <2>3 DEF Stop
    <3>2. queue \in Seq(Messages)
      BY DEF TypeOK
    <3>3. /\ queue' \in Seq(Messages) /\ timer' \in BOOLEAN
          /\ flush' \in [Flushes -> FlushState]
          /\ \A g \in Active' : flush'[g].at \in 1..Len(flush'[g].batch)
      BY <2>3, <3>1, <3>2, FlushTypeOK
    <3> QED
      BY <2>1, <3>1, <3>3 DEF TypeOK
  <2> QED
    BY <2>2, <2>3
<1>3. ASSUME NEW m \in Messages, HandleSUOMessage(m) PROVE TypeOK'
  <2>1. /\ UNCHANGED <<connected, running, subscribed, stopper, retryAttempts, rows, tried>>
        /\ received' = received \cup {m}
    BY <1>3 DEF HandleSUOMessage
  <2>2. /\ Enqueue(m) \in Seq(Messages) /\ Enqueue(m) # <<>>
        /\ Len(queue) >= MaxQueueSize => Head(queue) \in Messages
    BY EnqueueFacts
  <2>3. lost' \in [Messages -> {"no", "offline", "full", "exhausted", "overflow"}]
    BY <1>3, <2>2 DEF HandleSUOMessage, TypeOK
  <2>4. CASE UNCHANGED <<queue, timer, flush>>
    BY <2>1, <2>3, <2>4 DEF TypeOK, Active
  <2>5. ASSUME NEW f \in Flushes, FlushBatch(f, Enqueue(m)) PROVE TypeOK'
    <3>1. /\ queue' \in Seq(Messages) /\ timer' \in BOOLEAN
          /\ flush' \in [Flushes -> FlushState]
          /\ \A g \in Active' : flush'[g].at \in 1..Len(flush'[g].batch)
      BY <2>2, <2>5, FlushTypeOK
    <3> QED
      BY <2>1, <2>3, <3>1 DEF TypeOK
  <2>6. CASE queue' = Enqueue(m) /\ ScheduleBatchFlush /\ UNCHANGED flush
    BY <2>1, <2>2, <2>3, <2>6 DEF TypeOK, Active, ScheduleBatchFlush
  <2> QED
    BY <1>3, <2>4, <2>5, <2>6 DEF HandleSUOMessage
<1>4. CASE BatchTimeout \/ ForceFlush
  <2>1. UNCHANGED <<connected, running, subscribed, stopper, retryAttempts, received, rows,
                    tried, lost>>
    BY <1>4 DEF BatchTimeout, ForceFlush
  <2>2. ASSUME NEW f \in Flushes, queue # <<>>, FlushBatch(f, queue) PROVE TypeOK'
    <3>1. queue \in Seq(Messages)
      BY DEF TypeOK
    <3>2. /\ queue' \in Seq(Messages) /\ timer' \in BOOLEAN
          /\ flush' \in [Flushes -> FlushState]
          /\ \A g \in Active' : flush'[g].at \in 1..Len(flush'[g].batch)
      BY <2>2, <3>1, FlushTypeOK
    <3> QED
      BY <2>1, <3>2 DEF TypeOK
  <2>3. CASE timer' = FALSE /\ UNCHANGED <<queue, flush>>
    BY <2>1, <2>3 DEF TypeOK, Active
  <2> QED
    BY <1>4, <2>2, <2>3 DEF BatchTimeout, ForceFlush
<1>5. ASSUME NEW f \in Flushes, SkipExhausted(f) PROVE TypeOK'
  <2>1. f \in Active
    BY <1>5, PhaseActive DEF SkipExhausted
  <2>2. Current(f) \in Messages
    BY <2>1, CurrentFacts
  <2>3. /\ UNCHANGED <<connected, subscribed, queue, timer, retryAttempts, received, rows, tried>>
        /\ lost' = [lost EXCEPT ![Current(f)] = "exhausted"]
        /\ NextMessage(f, retryAttempts)
    BY <1>5 DEF SkipExhausted
  <2>4. retryAttempts \in [Keys -> 0..RetryCount]
    BY DEF TypeOK
  <2>5. /\ flush' \in [Flushes -> FlushState] /\ stopper' \in Flushes \cup {NoFlush}
        /\ running' \in BOOLEAN
        /\ \A g \in Active' : flush'[g].at \in 1..Len(flush'[g].batch)
    BY <2>1, <2>3, <2>4, NextMessageTypeOK
  <2>6. lost' \in [Messages -> {"no", "offline", "full", "exhausted", "overflow"}]
    BY <2>2, <2>3 DEF TypeOK
  <2> QED
    BY <2>3, <2>5, <2>6 DEF TypeOK
<1>6. ASSUME NEW f \in Flushes, SaveSucceeds(f) PROVE TypeOK'
  <2>1. f \in Active
    BY <1>6, PhaseActive DEF SaveSucceeds
  <2>2. Current(f) \in Messages /\ KeyOf[Current(f)] \in Keys
    BY <2>1, CurrentFacts
  <2>3. /\ UNCHANGED <<connected, subscribed, queue, timer, received, tried, lost>>
        /\ rows' = [rows EXCEPT ![Current(f)] = @ + 1]
        /\ retryAttempts' = [retryAttempts EXCEPT ![KeyOf[Current(f)]] = 0]
        /\ NextMessage(f, retryAttempts')
    BY <1>6 DEF SaveSucceeds
  <2>4. retryAttempts' \in [Keys -> 0..RetryCount] /\ rows' \in [Messages -> Nat]
    BY <2>2, <2>3 DEF TypeOK
  <2>5. /\ flush' \in [Flushes -> FlushState] /\ stopper' \in Flushes \cup {NoFlush}
        /\ running' \in BOOLEAN
        /\ \A g \in Active' : flush'[g].at \in 1..Len(flush'[g].batch)
    BY <2>1, <2>3, <2>4, NextMessageTypeOK
  <2> QED
    BY <2>3, <2>4, <2>5 DEF TypeOK
<1>7. ASSUME NEW f \in Flushes, SaveFails(f) \/ Wake(f) PROVE TypeOK'
  <2>1. /\ flush' \in [Flushes -> FlushState]
        /\ flush'[f].batch = flush[f].batch /\ flush'[f].at = flush[f].at
        /\ \A g \in Flushes \ {f} : flush'[g] = flush[g]
        /\ Active' = Active
    BY <1>7, SleepFacts
  <2>2. \A g \in Active' : flush'[g].at \in 1..Len(flush'[g].batch)
    BY <2>1 DEF TypeOK, Active
  <2>3. retryAttempts' \in [Keys -> 0..RetryCount] /\ tried' \in [Messages -> Nat]
    BY <1>7, AttemptFacts DEF SaveFails, Wake, TypeOK
  <2>4. UNCHANGED <<connected, running, subscribed, stopper, queue, timer, received, rows, lost>>
    BY <1>7 DEF SaveFails, Wake
  <2> QED
    BY <2>1, <2>2, <2>3, <2>4 DEF TypeOK
<1>8. ASSUME NEW f \in Flushes, FlushFails(f) PROVE TypeOK'
  <2>1. /\ f \in Active
        /\ flush' \in [Flushes -> FlushState]
        /\ \A g \in Flushes \ {f} : flush'[g] = flush[g]
        /\ Active' = Active \ {f}
    BY <1>8, FlushFailsFacts
  <2>2. \A g \in Active' : flush'[g].at \in 1..Len(flush'[g].batch)
    BY <2>1 DEF TypeOK, Active
  <2>3. retryAttempts' \in [Keys -> 0..RetryCount] /\ tried' \in [Messages -> Nat]
    BY <1>8, AttemptFacts DEF FlushFails
  <2>4. UNCHANGED <<connected, subscribed, timer, received, rows>> /\ FlushEnds(f)
    BY <1>8 DEF FlushFails
  <2>5. stopper' \in Flushes \cup {NoFlush}
    BY <2>4 DEF FlushEnds, TypeOK
  <2>6. running' \in BOOLEAN
    BY <2>4 DEF FlushEnds, TypeOK
  <2>7. queue \in Seq(Messages) /\ flush[f].batch \in Seq(Messages)
    BY <2>1, CurrentFacts DEF TypeOK
  <2>8. queue' \in Seq(Messages)
    <3>1. flush[f].batch \o queue \in Seq(Messages)
      BY <2>7, ConcatFacts
    <3>2. queue' = flush[f].batch \o queue \/ queue' = queue
      BY <1>8 DEF FlushFails, Requeue
    <3> QED
      BY <2>7, <3>1, <3>2
  <2>9. lost' \in [Messages -> {"no", "offline", "full", "exhausted", "overflow"}]
    BY <1>8 DEF FlushFails, TypeOK
  <2> QED
    BY <2>1, <2>2, <2>3, <2>4, <2>5, <2>6, <2>8, <2>9 DEF TypeOK
<1> QED
  BY <1>1, <1>2, <1>3, <1>4, <1>5, <1>6, <1>7, <1>8 DEF Next, FlushStep

-----------------------------------------------------------------------------
(* Where the messages are.                                                 *)

\* What is saved or given up stays so.
LEMMA SettledStands ==
    ASSUME TypeOK, [Next]_vars, NEW m \in Messages, Settled(m)
    PROVE  Settled(m)'
<1> USE DEF Settled
<1>0. /\ rows \in [Messages -> Nat]
      /\ lost \in [Messages -> {"no", "offline", "full", "exhausted", "overflow"}]
  BY DEF TypeOK
<1>1. CASE rows' = rows /\ lost' = lost
  BY <1>1
<1>2. ASSUME NEW n \in Messages, HandleSUOMessage(n) PROVE Settled(m)'
  <2>1. rows' = rows
    BY <1>2 DEF HandleSUOMessage
  <2>2. lost[m] # "no" => lost'[m] # "no"
    BY <1>0, <1>2 DEF HandleSUOMessage
  <2> QED
    BY <2>1, <2>2
<1>3. ASSUME NEW f \in Flushes, SkipExhausted(f) PROVE Settled(m)'
  BY <1>0, <1>3 DEF SkipExhausted
<1>4. ASSUME NEW f \in Flushes, SaveSucceeds(f) PROVE Settled(m)'
  <2>1. rows' = [rows EXCEPT ![Current(f)] = @ + 1] /\ lost' = lost
    BY <1>4 DEF SaveSucceeds
  <2> QED
    BY <1>0, <2>1
<1>5. ASSUME NEW f \in Flushes, FlushFails(f) PROVE Settled(m)'
  <2>1. rows' = rows
    BY <1>5 DEF FlushFails
  <2>2. lost[m] # "no" => lost'[m] # "no"
    BY <1>0, <1>5 DEF FlushFails
  <2> QED
    BY <2>1, <2>2
<1>6. ASSUME NEW f \in Flushes, SaveFails(f) \/ Wake(f) PROVE Settled(m)'
  BY <1>1, <1>6 DEF SaveFails, Wake
<1>7. CASE Connect \/ Start \/ Stop \/ Disconnect \/ RemoveAllListeners \/ BatchTimeout
           \/ ForceFlush \/ UNCHANGED vars
  BY <1>1, <1>7 DEF Connect, Start, Stop, Disconnect, RemoveAllListeners, BatchTimeout,
                    ForceFlush, vars
<1> QED
  BY <1>2, <1>3, <1>4, <1>5, <1>6, <1>7 DEF Next, FlushStep

\* The conjuncts of the invariant that speak of where the messages are.
Placed == QueueBound /\ HeldIsReceived /\ Apart /\ PassedIsSettled /\ Accounted

\* Settled, once the step is taken.
SettledNext(m) == rows'[m] > 0 \/ lost'[m] # "no"

LEMMA PassedStands ==
    ASSUME IInv, [Next]_vars, NEW f \in Active, NEW i \in 1..(flush[f].at - 1)
    PROVE  SettledNext(flush[f].batch[i])
<1>1. Settled(flush[f].batch[i])
  BY DEF IInv, PassedIsSettled
<1>2. flush[f].batch[i] \in Messages
  <2>1. /\ flush[f].batch \in Seq(Messages) /\ flush[f].at \in 1..Len(flush[f].batch)
        /\ Len(flush[f].batch) \in Nat
    BY CurrentFacts DEF IInv
  <2>2. i \in 1..Len(flush[f].batch)
    BY <2>1
  <2> QED
    BY <2>1, <2>2, ElementOfSeq
<1>3. ASSUME NEW m \in Messages, Settled(m) PROVE SettledNext(m)
  BY <1>3, SettledStands DEF IInv, Settled, SettledNext
<1> QED
  BY <1>1, <1>2, <1>3

\* A step that moves no message keeps them.
LEMMA StandStill ==
    ASSUME IInv, [Next]_vars, queue' = queue, received' = received, Active' = Active,
           \A g \in Active : /\ flush'[g].batch = flush[g].batch
                             /\ flush'[g].at = flush[g].at
    PROVE  Placed'
<1>1. ASSUME NEW m \in Messages, Settled(m) PROVE Settled(m)'
  BY <1>1, SettledStands DEF IInv
<1>2. \A g \in Active : BatchSet(g)' = BatchSet(g)
  BY DEF BatchSet
<1>3. QueueBound' /\ HeldIsReceived'
  BY <1>2 DEF IInv, QueueBound, HeldIsReceived
<1>4. Apart'
  BY <1>2 DEF IInv, Apart
<1>5. PassedIsSettled'
  <2> SUFFICES ASSUME NEW f \in Active, NEW i \in 1..(flush[f].at - 1)
               PROVE  Settled(flush[f].batch[i])'
    BY DEF PassedIsSettled
  <2>1. SettledNext(flush[f].batch[i])
    BY PassedStands
  <2>2. flush'[f].batch = flush[f].batch
    OBVIOUS
  <2> QED
    BY <2>1, <2>2 DEF Settled, SettledNext
<1>6. Accounted'
  <2> SUFFICES ASSUME NEW m \in received, ~Settled(m)'
               PROVE  m \in SeqSet(queue) \/ \E f \in Active : m \in BatchSet(f)'
    BY DEF Accounted
  <2>1. m \in Messages
    BY DEF IInv, TypeOK
  <2> QED
    BY <1>1, <1>2, <2>1 DEF IInv, Accounted
<1> QED
  BY <1>3, <1>4, <1>5, <1>6 DEF Placed

\* A new queue, in place of the old one or taken at once by a flush, keeps them
\* if it is apart from the batches and loses nothing.
LEMMA QueueMoves ==
    ASSUME IInv, TypeOK', [Next]_vars,
           NEW q \in Seq(Messages), Len(q) <= MaxQueueSize, Distinct(q),
           SeqSet(q) \subseteq received', received \subseteq received',
           \A g \in Active : BatchSet(g) \cap SeqSet(q) = {},
           \A m \in received' :
              SettledNext(m) \/ m \in SeqSet(q) \/ \E g \in Active : m \in BatchSet(g),
           \/ queue' = q /\ flush' = flush
           \/ q # <<>> /\ \E f \in Flushes : FlushBatch(f, q)
    PROVE  Placed'
<1>0. TypeOK /\ MaxQueueSize \in Nat \ {0}
  BY WriterAssumption DEF IInv
<1>1. CASE queue' = q /\ flush' = flush
  <2>1. Active' = Active /\ \A g \in Active : BatchSet(g)' = BatchSet(g)
    BY <1>1 DEF Active, BatchSet
  <2>2. QueueBound' /\ HeldIsReceived'
    BY <1>1, <2>1 DEF IInv, QueueBound, HeldIsReceived
  <2>3. Apart'
    BY <1>1, <2>1 DEF IInv, Apart
  <2>4. PassedIsSettled'
    <3> SUFFICES ASSUME NEW f \in Active, NEW i \in 1..(flush[f].at - 1)
                 PROVE  Settled(flush[f].batch[i])'
      BY <1>1, <2>1 DEF PassedIsSettled
    <3> QED
      BY <1>1, PassedStands DEF Settled, SettledNext
  <2>5. Accounted'
    BY <1>1, <2>1 DEF Accounted, Settled, SettledNext
  <2> QED
    BY <2>2, <2>3, <2>4, <2>5 DEF Placed
<1>2. ASSUME q # <<>>, NEW f \in Flushes, FlushBatch(f, q)
      PROVE  Placed'
  <2>1. /\ f \notin Active
        /\ Active' = Active \cup {f}
        /\ flush'[f].batch = q
        /\ flush'[f].at = 1
        /\ \A g \in Flushes \ {f} : flush'[g] = flush[g]
        /\ queue' = <<>>
    BY <1>0, <1>2, FlushTakes
  <2>2. /\ BatchSet(f)' = SeqSet(q)
        /\ \A g \in Active : flush'[g] = flush[g] /\ BatchSet(g)' = BatchSet(g)
    BY <2>1 DEF BatchSet, Active
  <2>3. SeqSet(queue') = {} /\ Distinct(queue') /\ Len(queue') = 0
    BY <2>1, EmptySeqSet
  <2>4. QueueBound'
    BY <1>0, <2>3 DEF QueueBound
  <2>5. HeldIsReceived'
    <3>1. \A g \in Active : BatchSet(g)' \subseteq received'
      BY <2>2 DEF IInv, HeldIsReceived
    <3> QED
      BY <2>1, <2>2, <2>3, <3>1 DEF HeldIsReceived
  <2>6. Apart'
    <3>1. \A g \in Active' : Distinct(flush'[g].batch)
      BY <2>1, <2>2 DEF IInv, Apart
    <3>2. \A g, h \in Active' : g # h => BatchSet(g)' \cap BatchSet(h)' = {}
      BY <2>1, <2>2 DEF IInv, Apart
    <3> QED
      BY <2>3, <3>1, <3>2 DEF Apart
  <2>7. PassedIsSettled'
    <3>1. ASSUME NEW g \in Active, NEW i \in 1..(flush[g].at - 1)
          PROVE  Settled(flush[g].batch[i])'
      BY <2>2, PassedStands DEF Settled, SettledNext
    <3>2. 1..(flush'[f].at - 1) = {}
      BY <2>1
    <3> QED
      BY <2>1, <2>2, <3>1, <3>2 DEF PassedIsSettled
  <2>8. Accounted'
    BY <2>1, <2>2 DEF Accounted, Settled, SettledNext
  <2> QED
    BY <2>4, <2>5, <2>6, <2>7, <2>8 DEF Placed
<1> QED
  BY <1>1, <1>2

\* A flush that moves past a message it has settled keeps them.
LEMMA FlushMoves ==
    ASSUME IInv, TypeOK', [Next]_vars, NEW f \in Active, SettledNext(Current(f)),
           queue' = queue, received' = received,
           NEW attempts \in [Keys -> 0..RetryCount], NextMessage(f, attempts)
    PROVE  Placed'
<1>0. TypeOK
  BY DEF IInv
<1>1. /\ \A g \in Flushes \ {f} : flush'[g] = flush[g]
      /\ \/ /\ flush'[f].batch = flush[f].batch
            /\ flush'[f].at = flush[f].at + 1
            /\ flush[f].at + 1 \in 1..Len(flush[f].batch)
            /\ Active' = Active
         \/ /\ flush[f].at = Len(flush[f].batch)
            /\ Active' = Active \ {f}
  BY <1>0, NextMessageMoves
<1>2. /\ flush[f].at \in 1..Len(flush[f].batch) /\ Len(flush[f].batch) \in Nat
      /\ flush[f].batch \in Seq(Messages)
      /\ Current(f) = flush[f].batch[flush[f].at]
  BY <1>0, CurrentFacts
<1>3. \A i \in 1..flush[f].at : SettledNext(flush[f].batch[i])
  <2> SUFFICES ASSUME NEW i \in 1..flush[f].at PROVE SettledNext(flush[f].batch[i])
    OBVIOUS
  <2>1. CASE i = flush[f].at
    BY <1>2, <2>1
  <2>2. CASE i # flush[f].at
    <3>1. i \in 1..(flush[f].at - 1)
      BY <1>2, <2>2
    <3> QED
      BY <3>1, PassedStands
  <2> QED
    BY <2>1, <2>2
<1>4. /\ Active' \subseteq Active
      /\ \A g \in Active' : flush'[g].batch = flush[g].batch /\ BatchSet(g)' = BatchSet(g)
      /\ \A g \in Active' \ {f} : flush'[g].at = flush[g].at
  BY <1>1 DEF BatchSet, Active
<1>5. QueueBound' /\ HeldIsReceived'
  BY <1>4 DEF IInv, QueueBound, HeldIsReceived
<1>6. Apart'
  BY <1>4 DEF IInv, Apart
<1>7. PassedIsSettled'
  <2> SUFFICES ASSUME NEW g \in Active', NEW i \in 1..(flush'[g].at - 1)
               PROVE  Settled(flush[g].batch[i])'
    BY <1>4 DEF PassedIsSettled
  <2>1. CASE g = f
    <3>1. flush'[f].at = flush[f].at + 1
      BY <1>1, <2>1
    <3>2. i \in 1..flush[f].at
      BY <1>2, <2>1, <3>1
    <3> QED
      BY <1>3, <1>4, <2>1, <3>2 DEF Settled, SettledNext
  <2>2. CASE g # f
    <3>1. g \in Active /\ i \in 1..(flush[g].at - 1)
      BY <1>4, <2>2
    <3> QED
      BY <1>4, <3>1, PassedStands DEF Settled, SettledNext
  <2> QED
    BY <2>1, <2>2
<1>8. Accounted'
  <2> SUFFICES ASSUME NEW m \in received, ~SettledNext(m), m \notin SeqSet(queue)
               PROVE  \E g \in Active' : m \in BatchSet(g)'
    BY DEF Accounted, Settled, SettledNext
  <2>1. m \in Messages /\ ~Settled(m)
    BY <1>0, SettledStands DEF TypeOK, Settled, SettledNext
  <2>2. PICK g \in Active : m \in BatchSet(g)
    BY <2>1 DEF IInv, Accounted
  <2>3. CASE g \in Active'
    BY <1>4, <2>2, <2>3
  <2>4. CASE g \notin Active'
    <3>1. g = f /\ flush[f].at = Len(flush[f].batch)
      BY <1>1, <2>4
    <3>2. PICK i \in 1..Len(flush[f].batch) : flush[f].batch[i] = m
      BY <1>2, <2>2, <3>1, SeqSetFacts DEF BatchSet
    <3> QED
      BY <1>3, <3>1, <3>2
  <2> QED
    BY <2>3, <2>4
<1> QED
  BY <1>5, <1>6, <1>7, <1>8 DEF Placed

\* A flush that fails for good gives its batch back to the queue, or up.
LEMMA FlushGivesUp ==
    ASSUME IInv, TypeOK', [Next]_vars, NEW f \in Flushes, FlushFails(f)
    PROVE  Placed'
<1>0. TypeOK /\ received' = received
  BY DEF IInv, FlushFails
<1>1. /\ f \in Active
      /\ \A g \in Flushes \ {f} : flush'[g] = flush[g]
      /\ Active' = Active \ {f}
  BY <1>0, FlushFailsFacts
<1>2. /\ \A g \in Active' : g \in Active \ {f} /\ flush'[g] = flush[g]
      /\ \A g \in Active' : BatchSet(g)' = BatchSet(g)
  BY <1>1 DEF Active, BatchSet
<1>3. PassedIsSettled'
  <2> SUFFICES ASSUME NEW g \in Active', NEW i \in 1..(flush[g].at - 1)
               PROVE  Settled(flush[g].batch[i])'
    BY <1>2 DEF PassedIsSettled
  <2> QED
    BY <1>2, PassedStands DEF Settled, SettledNext
<1>4. /\ flush[f].batch \in Seq(Messages) /\ Len(flush[f].batch) \in Nat
      /\ flush[f].at \in 1..Len(flush[f].batch)
      /\ queue \in Seq(Messages) /\ Len(queue) \in Nat
  BY <1>0, <1>1, CurrentFacts, LenProperties DEF TypeOK
<1>5. \A m \in received : m \in Messages /\ (Settled(m) => SettledNext(m))
  BY <1>0, SettledStands DEF TypeOK, Settled, SettledNext
<1>6. CASE RequeueFits(f)
  <2> DEFINE q == flush[f].batch \o queue
  <2>1. queue' = q
    BY <1>6 DEF FlushFails, Requeue
  <2>2. Len(q) = Len(flush[f].batch) + Len(queue)
    BY <1>4, ConcatProperties
  <2>3. /\ SeqSet(q) = BatchSet(f) \cup SeqSet(queue)
        /\ Distinct(flush[f].batch) /\ Distinct(queue) /\ BatchSet(f) \cap SeqSet(queue) = {}
             => Distinct(q)
    BY <1>4, ConcatFacts DEF BatchSet
  <2> HIDE DEF q
  <2>4. QueueBound'
    BY <1>4, <1>6, <2>1, <2>2 DEF QueueBound, RequeueFits
  <2>5. HeldIsReceived'
    BY <1>0, <1>1, <1>2, <2>1, <2>3 DEF IInv, HeldIsReceived
  <2>6. Apart'
    <3>1. Distinct(queue')
      BY <1>1, <2>1, <2>3 DEF IInv, Apart
    <3>2. \A g \in Active' : Distinct(flush'[g].batch) /\ BatchSet(g)' \cap SeqSet(queue') = {}
      BY <1>1, <1>2, <2>1, <2>3 DEF IInv, Apart
    <3>3. \A g, h \in Active' : g # h => BatchSet(g)' \cap BatchSet(h)' = {}
      BY <1>2 DEF IInv, Apart
    <3> QED
      BY <3>1, <3>2, <3>3 DEF Apart
  <2>7. Accounted'
    <3> SUFFICES ASSUME NEW m \in received, ~SettledNext(m), m \notin SeqSet(q)
                 PROVE  \E g \in Active' : m \in BatchSet(g)'
      BY <1>0, <2>1 DEF Accounted, Settled, SettledNext
    <3>1. PICK g \in Active : m \in BatchSet(g)
      BY <1>5, <2>3 DEF IInv, Accounted
    <3> QED
      BY <1>1, <1>2, <2>3, <3>1
  <2> QED
    BY <1>3, <2>4, <2>5, <2>6, <2>7 DEF Placed
<1>7. CASE ~RequeueFits(f)
  <2>1. /\ queue' = queue
        /\ lost' = [m \in Messages |->
             IF \E i \in flush[f].at..Len(flush[f].batch) : flush[f].batch[i] = m
               THEN "overflow" ELSE lost[m]]
    BY <1>7 DEF FlushFails
  <2>2. QueueBound' /\ HeldIsReceived'
    BY <1>0, <1>2, <2>1 DEF IInv, QueueBound, HeldIsReceived
  <2>3. Apart'
    BY <1>2, <2>1 DEF IInv, Apart
  <2>4. Accounted'
    <3> SUFFICES ASSUME NEW m \in received, ~SettledNext(m), m \notin SeqSet(queue)
                 PROVE  \E g \in Active' : m \in BatchSet(g)'
      BY <1>0, <2>1 DEF Accounted, Settled, SettledNext
    <3>1. PICK g \in Active : m \in BatchSet(g)
      BY <1>5 DEF IInv, Accounted
    <3>2. CASE g # f
      BY <1>1, <1>2, <3>1, <3>2
    <3>3. CASE g = f
      <4>1. PICK i \in 1..Len(flush[f].batch) : flush[f].batch[i] = m
        BY <1>4, <3>1, <3>3, SeqSetFacts DEF BatchSet
      <4>2. CASE i \in 1..(flush[f].at - 1)
        BY <1>1, <4>1, <4>2, PassedStands
      <4>3. CASE i \in flush[f].at..Len(flush[f].batch)
        <5>1. lost'[m] = "overflow"
          BY <1>5, <2>1, <4>1, <4>3
        <5> QED
          BY <5>1 DEF SettledNext
      <4>4. i \in 1..(flush[f].at - 1) \/ i \in flush[f].at..Len(flush[f].batch)
        BY <1>4
      <4> QED
        BY <4>2, <4>3, <4>4
    <3> QED
      BY <3>2, <3>3
  <2> QED
    BY <1>3, <2>2, <2>3, <2>4 DEF Placed
<1> QED
  BY <1>6, <1>7

\* The queue a flush takes is apart from the batches and loses nothing.
LEMMA QueueTaken ==
    ASSUME IInv, TypeOK', [Next]_vars, NEW f \in Flushes, queue # <<>>,
           FlushBatch(f, queue), UNCHANGED received
    PROVE  Placed'
<1>1. /\ queue \in Seq(Messages) /\ Len(queue) <= MaxQueueSize /\ Distinct(queue)
      /\ SeqSet(queue) \subseteq received
      /\ \A g \in Active : BatchSet(g) \cap SeqSet(queue) = {}
  BY DEF IInv, TypeOK, QueueBound, HeldIsReceived, Apart
<1>2. \A m \in received :
         SettledNext(m) \/ m \in SeqSet(queue) \/ \E g \in Active : m \in BatchSet(g)
  <2>1. \A m \in received : m \in Messages /\ (Settled(m) => SettledNext(m))
    BY SettledStands DEF IInv, TypeOK, Settled, SettledNext
  <2> QED
    BY <2>1 DEF IInv, Accounted
<1> QED
  BY <1>1, <1>2, QueueMoves

\* An arrival keeps them: the message is given up, or it is in the new queue.
LEMMA ArrivalKeeps ==
    ASSUME IInv, TypeOK', [Next]_vars, NEW m \in Messages, HandleSUOMessage(m)
    PROVE  Placed'
<1>0. TypeOK /\ queue \in Seq(Messages) /\ received \subseteq Messages
  BY DEF IInv, TypeOK
<1>1. received' = received \cup {m} /\ m \notin received
  BY DEF HandleSUOMessage
<1>2. \A n \in received : Settled(n) => SettledNext(n)
  BY <1>0, SettledStands DEF Settled, SettledNext
<1>3. m \notin SeqSet(queue) /\ \A g \in Active : m \notin BatchSet(g)
  BY <1>1 DEF IInv, HeldIsReceived
<1>4. lost \in [Messages -> {"no", "offline", "full", "exhausted", "overflow"}]
  BY <1>0 DEF TypeOK
<1>5. CASE ~connected
  <2>1. lost' = [lost EXCEPT ![m] = "offline"] /\ UNCHANGED <<queue, timer, flush>>
    BY <1>5 DEF HandleSUOMessage
  <2>2. SettledNext(m)
    BY <1>4, <2>1 DEF SettledNext
  <2>3. \A n \in received' :
          SettledNext(n) \/ n \in SeqSet(queue) \/ \E g \in Active : n \in BatchSet(g)
    BY <1>1, <1>2, <2>2 DEF IInv, Accounted
  <2>4. /\ Len(queue) <= MaxQueueSize /\ Distinct(queue)
        /\ SeqSet(queue) \subseteq received' /\ received \subseteq received'
        /\ \A g \in Active : BatchSet(g) \cap SeqSet(queue) = {}
    BY <1>1 DEF IInv, QueueBound, HeldIsReceived, Apart
  <2> QED
    BY <1>0, <2>1, <2>3, <2>4, QueueMoves
<1>6. CASE connected
  <2> DEFINE q == Enqueue(m)
  <2>1. /\ q \in Seq(Messages)
        /\ q # <<>>
        /\ Len(q) <= MaxQueueSize
        /\ m \in SeqSet(q)
        /\ SeqSet(q) \subseteq SeqSet(queue) \cup {m}
        /\ SeqSet(queue) \subseteq SeqSet(q)
             \cup (IF Len(queue) >= MaxQueueSize THEN {Head(queue)} ELSE {})
        /\ Len(queue) >= MaxQueueSize => Head(queue) \in Messages
        /\ Distinct(q)
    BY <1>0, <1>3, EnqueueFacts DEF IInv, Apart
  <2>2. /\ lost' = IF Len(queue) >= MaxQueueSize
                     THEN [lost EXCEPT ![Head(queue)] = "full"] ELSE lost
        /\ \/ \E f \in Flushes : FlushBatch(f, q)
           \/ queue' = q /\ flush' = flush
    BY <1>6 DEF HandleSUOMessage
  <2> HIDE DEF q
  <2>3. Len(queue) >= MaxQueueSize => SettledNext(Head(queue))
    BY <1>4, <2>1, <2>2 DEF SettledNext
  <2>4. \A n \in SeqSet(queue) : SettledNext(n) \/ n \in SeqSet(q)
    BY <2>1, <2>3
  <2>5. \A n \in received' :
          SettledNext(n) \/ n \in SeqSet(q) \/ \E g \in Active : n \in BatchSet(g)
    BY <1>1, <1>2, <2>1, <2>4 DEF IInv, Accounted
  <2>6. SeqSet(q) \subseteq received' /\ received \subseteq received'
    BY <1>1, <2>1 DEF IInv, HeldIsReceived
  <2>7. \A g \in Active : BatchSet(g) \cap SeqSet(q) = {}
    BY <1>3, <2>1 DEF IInv, Apart
  <2> QED
    BY <2>1, <2>2, <2>5, <2>6, <2>7, QueueMoves
<1> QED
  BY <1>5, <1>6

LEMMA NextIInv == IInv /\ [Next]_vars => IInv'
<1> SUFFICES ASSUME IInv, [Next]_vars PROVE IInv'
  OBVIOUS
<1>0. TypeOK /\ TypeOK'
  BY NextTypeOK DEF IInv
<1> SUFFICES Placed'
  BY <1>0 DEF IInv, Placed
<1>1. CASE UNCHANGED <<queue, flush, received>>
  <2>1. Active' = Active
    BY <1>1 DEF Active
  <2> QED
    BY <1>1, <2>1, StandStill
<1>2. CASE Connect \/ Start \/ Disconnect \/ RemoveAllListeners \/ UNCHANGED vars
  BY <1>1, <1>2 DEF Connect, Start, Disconnect, RemoveAllListeners, vars
<1>3. CASE Stop \/ BatchTimeout \/ ForceFlush
  <2>1. \/ UNCHANGED <<queue, flush, received>>
        \/ queue # <<>> /\ UNCHANGED received /\ \E f \in Flushes : FlushBatch(f, queue)
    BY <1>3 DEF Stop, BatchTimeout, ForceFlush
  <2> QED
    BY <1>0, <1>1, <2>1, QueueTaken
<1>4. ASSUME NEW m \in Messages, HandleSUOMessage(m) PROVE Placed'
  BY <1>0, <1>4, ArrivalKeeps
<1>5. ASSUME NEW f \in Flushes, SkipExhausted(f) PROVE Placed'
  <2>1. f \in Active
    BY <1>5, PhaseActive DEF SkipExhausted
  <2>2. /\ lost' = [lost EXCEPT ![Current(f)] = "exhausted"]
        /\ NextMessage(f, retryAttempts)
        /\ queue' = queue /\ received' = received
    BY <1>5 DEF SkipExhausted
  <2>3. retryAttempts \in [Keys -> 0..RetryCount]
    BY <1>0 DEF TypeOK
  <2>4. SettledNext(Current(f))
    BY <1>0, <2>1, <2>2, CurrentFacts DEF TypeOK, SettledNext
  <2> QED
    BY <1>0, <2>1, <2>2, <2>3, <2>4, FlushMoves
<1>6. ASSUME NEW f \in Flushes, SaveSucceeds(f) PROVE Placed'
  <2>1. f \in Active
    BY <1>6, PhaseActive DEF SaveSucceeds
  <2>2. /\ rows' = [rows EXCEPT ![Current(f)] = @ + 1]
        /\ NextMessage(f, retryAttempts')
        /\ queue' = queue /\ received' = received
    BY <1>6 DEF SaveSucceeds
  <2>3. retryAttempts' \in [Keys -> 0..RetryCount]
    BY <1>0 DEF TypeOK
  <2>4. SettledNext(Current(f))
    <3>1. Current(f) \in Messages /\ rows \in [Messages -> Nat]
      BY <1>0, <2>1, CurrentFacts DEF TypeOK
    <3>2. rows'[Current(f)] = rows[Current(f)] + 1 /\ rows[Current(f)] \in Nat
      BY <2>2, <3>1
    <3> QED
      BY <3>2 DEF SettledNext
  <2> QED
    BY <1>0, <2>1, <2>2, <2>3, <2>4, FlushMoves
<1>7. ASSUME NEW f \in Flushes, SaveFails(f) \/ Wake(f) PROVE Placed'
  <2>1. queue' = queue /\ received' = received
    BY <1>7 DEF SaveFails, Wake
  <2>2. /\ flush'[f].batch = flush[f].batch
        /\ flush'[f].at = flush[f].at
        /\ \A g \in Flushes \ {f} : flush'[g] = flush[g]
        /\ Active' = Active
    BY <1>0, <1>7, SleepFacts
  <2>3. \A g \in Active : flush'[g].batch = flush[g].batch /\ flush'[g].at = flush[g].at
    BY <2>2 DEF Active
  <2> QED
    BY <2>1, <2>2, <2>3, StandStill
<1>8. ASSUME NEW f \in Flushes, FlushFails(f) PROVE Placed'
  BY <1>0, <1>8, FlushGivesUp
<1> QED
  BY <1>2, <1>3, <1>4, <1>5, <1>6, <1>7, <1>8 DEF Next, FlushStep

LEMMA Invariance == Spec => []IInv
BY InitIInv, NextIInv, PTL DEF Spec

-----------------------------------------------------------------------------
(* What the log has named before a message is passed over.                 *)

\* The log has named every key whose attempts are used up.
UsedUp(attempts, keys) == \A k \in Keys : attempts[k] >= RetryCount => k \in keys

\* A flush at the limit is at a message whose key the log has named.
Named(s, keys) ==
    s.phase # "idle" /\ s.attempts >= RetryCount => KeyOf[s.batch[s.at]] \in keys

\* So is every message that was passed over.
SkipsAreReported ==
    /\ UsedUp(retryAttempts, reported)
    /\ \A f \in Flushes : Named(flush[f], reported)
    /\ \A m \in Messages : lost[m] = "exhausted" => KeyOf[m] \in reported

LEMMA TryingNamed ==
    ASSUME NEW b \in Seq(Messages), NEW i \in 1..Len(b), NEW attempts, NEW keys,
           UsedUp(attempts, keys)
    PROVE  Named(Trying(b, i, attempts), keys)
<1>1. b[i] \in Messages
  BY ElementOfSeq
<1>2. KeyOf[b[i]] \in Keys
  BY <1>1, WriterAssumption
<1> QED
  BY <1>2 DEF Trying, UsedUp, Named

\* What the map has used up after a step is reported, if it was before.
LEMMA UsedUpStands ==
    ASSUME TypeOK, [Next]_vars, SkipsAreReported
    PROVE  UsedUp(retryAttempts', reported')
<1>0. reported \subseteq reported'
  BY ReportedGrows
<1>1. CASE UNCHANGED retryAttempts
  BY <1>0, <1>1 DEF SkipsAreReported, UsedUp
<1>2. ASSUME NEW f \in Flushes, SaveSucceeds(f) PROVE UsedUp(retryAttempts', reported')
  <2>1. retryAttempts' = [retryAttempts EXCEPT ![KeyOf[Current(f)]] = 0]
    BY <1>2 DEF SaveSucceeds
  <2>2. retryAttempts \in [Keys -> 0..RetryCount]
    BY DEF TypeOK
  <2> QED
    BY <1>0, <2>1, <2>2, WriterAssumption DEF SkipsAreReported, UsedUp
<1>3. ASSUME NEW f \in Flushes, SaveFails(f) PROVE UsedUp(retryAttempts', reported')
  <2>1. /\ retryAttempts' = [retryAttempts EXCEPT ![KeyOf[Current(f)]] =
                                                  flush[f].attempts + 1]
        /\ flush[f].attempts + 1 < RetryCount
    BY <1>3 DEF SaveFails, AttemptFails
  <2>2. retryAttempts \in [Keys -> 0..RetryCount] /\ flush[f].attempts + 1 \in Nat
    BY <1>3, AttemptFacts DEF TypeOK, SaveFails
  <2> QED
    BY <1>0, <2>1, <2>2, WriterAssumption DEF SkipsAreReported, UsedUp
<1>4. ASSUME NEW f \in Flushes, FlushFails(f) PROVE UsedUp(retryAttempts', reported')
  <2>1. /\ retryAttempts' = [retryAttempts EXCEPT ![KeyOf[Current(f)]] =
                                                  flush[f].attempts + 1]
        /\ reported' = reported \cup {KeyOf[Current(f)]}
    BY <1>4 DEF FlushFails, AttemptFails
  <2>2. retryAttempts \in [Keys -> 0..RetryCount]
    BY DEF TypeOK
  <2> QED
    BY <2>1, <2>2 DEF SkipsAreReported, UsedUp
<1>5. \/ UNCHANGED retryAttempts
      \/ \E f \in Flushes : SaveSucceeds(f) \/ SaveFails(f) \/ FlushFails(f)
  BY DEF Next, FlushStep, Connect, Start, Stop, Disconnect, RemoveAllListeners,
         HandleSUOMessage, BatchTimeout, ForceFlush, SkipExhausted, Wake, vars
<1> QED
  BY <1>1, <1>2, <1>3, <1>4, <1>5

\* A flush that starts or moves on reads the map; one that retries is under the limit.
LEMMA NamedStands ==
    ASSUME TypeOK, [Next]_vars, SkipsAreReported, NEW g \in Flushes
    PROVE  Named(flush'[g], reported')
<1>0. /\ reported \subseteq reported' /\ UsedUp(retryAttempts', reported')
      /\ flush \in [Flushes -> FlushState]
      /\ queue \in Seq(Messages)
  BY ReportedGrows, UsedUpStands DEF TypeOK
<1>1. ASSUME flush'[g] = flush[g] PROVE Named(flush'[g], reported')
  BY <1>0, <1>1 DEF SkipsAreReported, Named
<1>2. ASSUME flush'[g] = Idle PROVE Named(flush'[g], reported')
  BY <1>2, IdleState DEF Named
<1>3. ASSUME NEW f \in Flushes, NEW q \in Seq(Messages), q # <<>>, FlushBatch(f, q),
             retryAttempts' = retryAttempts
      PROVE  Named(flush'[g], reported')
  <2>1. flush' = [flush EXCEPT ![f] = Trying(q, 1, retryAttempts)]
    BY <1>3 DEF FlushBatch
  <2>2. 1 \in 1..Len(q)
    BY <1>3, EmptySeq
  <2>3. Named(Trying(q, 1, retryAttempts), reported')
    BY <1>0, <1>3, <2>2, TryingNamed
  <2> QED
    BY <1>0, <1>1, <2>1, <2>3
<1>4. ASSUME NEW f \in Active, NextMessage(f, retryAttempts')
      PROVE  Named(flush'[g], reported')
  <2> DEFINE new == Trying(flush[f].batch, flush[f].at + 1, retryAttempts')
  <2>1. /\ f \in Flushes /\ flush[f].batch \in Seq(Messages)
        /\ flush[f].at \in 1..Len(flush[f].batch) /\ Len(flush[f].batch) \in Nat
    BY CurrentFacts
  <2>2. CASE flush[f].at < Len(flush[f].batch)
    <3>1. flush' = [flush EXCEPT ![f] = new]
      BY <1>4, <2>2 DEF NextMessage
    <3>2. flush[f].at + 1 \in 1..Len(flush[f].batch)
      BY <2>1, <2>2
    <3>3. Named(new, reported')
      BY <1>0, <2>1, <3>2, TryingNamed
    <3> HIDE DEF new
    <3> QED
      BY <1>0, <1>1, <3>1, <3>3
  <2>3. CASE ~(flush[f].at < Len(flush[f].batch))
    <3>1. flush' = [flush EXCEPT ![f] = Idle]
      BY <1>4, <2>3 DEF NextMessage
    <3> QED
      BY <1>0, <1>1, <1>2, <3>1
  <2> QED
    BY <2>2, <2>3
<1>5. ASSUME NEW f \in Flushes, SkipExhausted(f) \/ SaveSucceeds(f)
      PROVE  Named(flush'[g], reported')
  <2>1. f \in Active
    BY <1>5, PhaseActive DEF SkipExhausted, SaveSucceeds
  <2>2. NextMessage(f, retryAttempts')
    <3>1. CASE SkipExhausted(f)
      <4>1. NextMessage(f, retryAttempts) /\ retryAttempts' = retryAttempts
        BY <3>1 DEF SkipExhausted
      <4> QED
        BY <4>1
    <3>2. CASE SaveSucceeds(f)
      BY <3>2 DEF SaveSucceeds
    <3> QED
      BY <1>5, <3>1, <3>2
  <2> QED
    BY <1>4, <2>1, <2>2
<1>6. ASSUME NEW f \in Flushes, SaveFails(f) PROVE Named(flush'[g], reported')
  <2>1. /\ flush' = [flush EXCEPT ![f].attempts = @ + 1, ![f].phase = "sleeping"]
        /\ flush[f].attempts + 1 < RetryCount
    BY <1>6 DEF SaveFails
  <2>2. flush[f].attempts + 1 \in Nat
    BY <1>6, AttemptFacts DEF SaveFails
  <2>3. flush'[f].attempts = flush[f].attempts + 1
    BY <1>0, <2>1 DEF FlushState
  <2>4. Named(flush'[f], reported')
    BY <2>1, <2>2, <2>3, WriterAssumption DEF Named
  <2> QED
    BY <1>0, <1>1, <2>1, <2>4
<1>7. ASSUME NEW f \in Flushes, Wake(f) PROVE Named(flush'[g], reported')
  <2>1. flush' = [flush EXCEPT ![f].phase = "trying"] /\ flush[f].phase = "sleeping"
    BY <1>7 DEF Wake
  <2>2. /\ flush'[f].attempts = flush[f].attempts
        /\ flush'[f].batch = flush[f].batch /\ flush'[f].at = flush[f].at
    BY <1>0, <2>1 DEF FlushState
  <2>3. Named(flush'[f], reported')
    BY <1>0, <2>1, <2>2 DEF SkipsAreReported, Named
  <2> QED
    BY <1>0, <1>1, <2>1, <2>3
<1>8. ASSUME NEW f \in Flushes, FlushFails(f) PROVE Named(flush'[g], reported')
  BY <1>1, <1>2, <1>8, FlushFailsFacts
<1>9. ASSUME NEW m \in Messages, HandleSUOMessage(m) PROVE Named(flush'[g], reported')
  <2>1. CASE flush' = flush
    BY <1>1, <2>1
  <2>2. CASE \E f \in Flushes : FlushBatch(f, Enqueue(m))
    <3>1. Enqueue(m) \in Seq(Messages) /\ Enqueue(m) # <<>>
      BY EnqueueFacts
    <3>2. retryAttempts' = retryAttempts
      BY <1>9 DEF HandleSUOMessage
    <3> QED
      BY <1>3, <2>2, <3>1, <3>2
  <2> QED
    BY <1>9, <2>1, <2>2 DEF HandleSUOMessage
<1>10. CASE Stop \/ BatchTimeout \/ ForceFlush
  <2>1. /\ retryAttempts' = retryAttempts
        /\ \/ flush' = flush
           \/ queue # <<>> /\ \E f \in Flushes : FlushBatch(f, queue)
    BY <1>10 DEF Stop, BatchTimeout, ForceFlush
  <2> QED
    BY <1>0, <1>1, <1>3, <2>1
<1>11. CASE Connect \/ Start \/ Disconnect \/ RemoveAllListeners \/ UNCHANGED vars
  BY <1>1, <1>11 DEF Connect, Start, Disconnect, RemoveAllListeners, vars
<1> QED
  BY <1>5, <1>6, <1>7, <1>8, <1>9, <1>10, <1>11 DEF Next, FlushStep

LEMMA SkipsAreReportedNext ==
    TypeOK /\ [Next]_vars /\ SkipsAreReported => SkipsAreReported'
<1> SUFFICES ASSUME TypeOK, [Next]_vars, SkipsAreReported PROVE SkipsAreReported'
  OBVIOUS
<1>1. reported \subseteq reported' /\ UsedUp(retryAttempts', reported')
  BY ReportedGrows, UsedUpStands
<1>2. \A f \in Flushes : Named(flush'[f], reported')
  BY NamedStands
<1>3. \A m \in Messages : lost'[m] = "exhausted" => KeyOf[m] \in reported'
  <2> SUFFICES ASSUME NEW m \in Messages, lost'[m] = "exhausted", lost[m] # "exhausted"
               PROVE  KeyOf[m] \in reported'
    BY <1>1 DEF SkipsAreReported
  <2>0. lost \in [Messages -> {"no", "offline", "full", "exhausted", "overflow"}]
    BY DEF TypeOK
  <2>1. \A n \in Messages : ~HandleSUOMessage(n)
    BY <2>0 DEF HandleSUOMessage
  <2>2. \A f \in Flushes : ~FlushFails(f)
    BY <2>0 DEF FlushFails
  <2>3. lost' # lost
    OBVIOUS
  <2>4. PICK f \in Flushes : SkipExhausted(f)
    BY <2>1, <2>2, <2>3 DEF Next, FlushStep, Connect, Start, Stop, Disconnect,
       RemoveAllListeners, BatchTimeout, ForceFlush, SaveSucceeds, SaveFails, Wake, vars
  <2>5. f \in Active
    BY <2>4, PhaseActive DEF SkipExhausted
  <2>6. lost' = [lost EXCEPT ![Current(f)] = "exhausted"] /\ Current(f) \in Messages
    BY <2>4, <2>5, CurrentFacts DEF SkipExhausted
  <2>7. m = Current(f)
    BY <2>0, <2>6
  <2>8. KeyOf[flush[f].batch[flush[f].at]] \in reported
    BY <2>4, <2>5 DEF SkipsAreReported, Named, SkipExhausted, Exhausted, Active
  <2> QED
    BY <1>1, <2>7, <2>8 DEF Current
<1> QED
  BY <1>1, <1>2, <1>3 DEF SkipsAreReported

LEMMA SkippedWereReported == Spec => []SkipsAreReported
<1>1. Init => SkipsAreReported
  BY IdleState, WriterAssumption DEF Init, SkipsAreReported, UsedUp, Named
<1>2. IInv => TypeOK
  BY DEF IInv
<1> QED
  BY <1>1, <1>2, Invariance, SkipsAreReportedNext, PTL DEF Spec

-----------------------------------------------------------------------------
(* The custody of messages.                                                *)

Waiting == SeqSet(queue)

OnTheWay == UNION {BatchSet(f) : f \in Active}

Delivered == {m \in Messages : rows[m] > 0}

GivenUp == {m \in Messages : lost[m] # "no"}

\* Steps of Custody in the words of the writer.
LEMMA TakeMaps ==
    ASSUME NEW S \in SUBSET Messages, S \cap received = {},
           NEW begun \in SUBSET (Waiting \cup S),
           NEW gone \in SUBSET ((Waiting \cup S) \ begun),
           received' = received \cup S, OnTheWay' = OnTheWay \cup begun,
           GivenUp' = GivenUp \cup gone,
           Waiting' = (Waiting \cup S) \ (begun \cup gone), Delivered' = Delivered
    PROVE  Custodian!Next
<1>1. S \in SUBSET (Messages \ received)
  OBVIOUS
<1>2. /\ Waiting = SeqSet(queue)
      /\ OnTheWay = UNION {SeqSet(flush[f].batch) : f \in Active}
      /\ Delivered = {m \in Messages : rows[m] > 0}
      /\ GivenUp = {m \in Messages : lost[m] # "no"}
  BY DEF Waiting, OnTheWay, BatchSet, Delivered, GivenUp
<1>3. Custodian!Take(S)
  BY <1>2 DEF Custodian!Take, Waiting, OnTheWay, BatchSet, Delivered, GivenUp
<1> QED
  BY <1>1, <1>3 DEF Custodian!Next

LEMMA ReleaseMaps ==
    ASSUME NEW S \in SUBSET OnTheWay, NEW back \in SUBSET S,
           OnTheWay' = OnTheWay \ S, Waiting' = Waiting \cup back,
           S \ back \subseteq Delivered' \cup GivenUp',
           \E out \in SUBSET OnTheWay : Delivered' = Delivered \cup out,
           \E gone \in SUBSET OnTheWay : GivenUp' = GivenUp \cup gone,
           received' = received
    PROVE  Custodian!Next
<1>1. OnTheWay = UNION {SeqSet(flush[f].batch) : f \in Active}
  BY DEF OnTheWay, BatchSet
<1>2. Custodian!Release(S)
  BY DEF Custodian!Release, Waiting, OnTheWay, BatchSet, Delivered, GivenUp
<1> QED
  BY <1>1, <1>2 DEF Custodian!Next

LEMMA StaysMaps ==
    ASSUME UNCHANGED <<queue, received, rows, lost>>, Active' = Active,
           \A f \in Active : flush'[f].batch = flush[f].batch
    PROVE  UNCHANGED Custodian!vars
<1>1. {SeqSet(flush[f].batch) : f \in Active}' = {SeqSet(flush[f].batch) : f \in Active}
  OBVIOUS
<1> QED
  BY <1>1 DEF Custodian!vars

\* A flush that starts is the way out of all it takes.
LEMMA FlushSetsOut ==
    ASSUME TypeOK, NEW f \in Flushes, NEW q \in Seq(Messages), q # <<>>, FlushBatch(f, q)
    PROVE  OnTheWay' = OnTheWay \cup SeqSet(q) /\ Waiting' = {}
<1>1. /\ f \notin Active /\ Active' = Active \cup {f}
      /\ flush'[f].batch = q
      /\ \A g \in Flushes \ {f} : flush'[g] = flush[g]
      /\ queue' = <<>>
  BY FlushTakes
<1>2. BatchSet(f)' = SeqSet(q) /\ \A g \in Active : BatchSet(g)' = BatchSet(g)
  BY <1>1 DEF BatchSet, Active
<1>3. OnTheWay' = OnTheWay \cup SeqSet(q)
  BY <1>1, <1>2 DEF OnTheWay
<1> QED
  BY <1>1, <1>3, EmptySeqSet DEF Waiting

\* A flush that ends has its batch to itself.
LEMMA FlushComesHome ==
    ASSUME IInv, NEW f \in Active, Active' = Active \ {f},
           \A g \in Flushes \ {f} : flush'[g] = flush[g]
    PROVE  BatchSet(f) \subseteq OnTheWay /\ OnTheWay' = OnTheWay \ BatchSet(f)
<1>1. \A g \in Active' : g \in Active \ {f} /\ BatchSet(g)' = BatchSet(g)
  BY DEF Active, BatchSet
<1>2. \A g \in Active \ {f} : BatchSet(g) \cap BatchSet(f) = {}
  BY DEF IInv, Apart
<1>3. OnTheWay' \subseteq OnTheWay \ BatchSet(f)
  BY <1>1, <1>2 DEF OnTheWay
<1>4. OnTheWay \ BatchSet(f) \subseteq OnTheWay'
  BY <1>1 DEF OnTheWay
<1> QED
  BY <1>3, <1>4 DEF OnTheWay

\* A flush takes the queue.
LEMMA QueueSetsOut ==
    ASSUME TypeOK, NEW f \in Flushes, queue # <<>>, FlushBatch(f, queue),
           UNCHANGED <<received, rows, lost>>
    PROVE  Custodian!Next
<1> DEFINE nothing == {}
<1>1. queue \in Seq(Messages)
  BY DEF TypeOK
<1>2. OnTheWay' = OnTheWay \cup Waiting /\ Waiting' = {}
  BY <1>1, FlushSetsOut DEF Waiting
<1>3. Delivered' = Delivered /\ GivenUp' = GivenUp
  BY DEF Delivered, GivenUp
<1>4. /\ nothing \in SUBSET Messages /\ nothing \cap received = {}
      /\ Waiting \in SUBSET (Waiting \cup nothing)
      /\ nothing \in SUBSET ((Waiting \cup nothing) \ Waiting)
      /\ received' = received \cup nothing /\ GivenUp' = GivenUp \cup nothing
      /\ Waiting' = (Waiting \cup nothing) \ (Waiting \cup nothing)
  BY <1>2, <1>3
<1> HIDE DEF nothing
<1> QED
  BY <1>2, <1>3, <1>4, TakeMaps

\* The oldest message leaves a full queue for good.
Pushed == IF Len(queue) >= MaxQueueSize THEN {Head(queue)} ELSE {}

LEMMA EnqueueExchanges ==
    ASSUME IInv, NEW m \in Messages, m \notin received
    PROVE  /\ Pushed \subseteq SeqSet(queue)
           /\ SeqSet(Enqueue(m)) = (SeqSet(queue) \cup {m}) \ Pushed
<1>1. TypeOK /\ queue \in Seq(Messages) /\ Distinct(queue) /\ m \notin SeqSet(queue)
  BY DEF IInv, TypeOK, Apart, HeldIsReceived
<1>2. Len(queue) \in Nat /\ MaxQueueSize \in Nat \ {0} /\ DOMAIN queue = 1..Len(queue)
  BY <1>1, WriterAssumption, LenProperties
<1>3. /\ m \in SeqSet(Enqueue(m))
      /\ SeqSet(Enqueue(m)) \subseteq SeqSet(queue) \cup {m}
      /\ SeqSet(queue) \subseteq SeqSet(Enqueue(m)) \cup Pushed
  BY <1>1, EnqueueFacts DEF Pushed
<1>4. CASE Len(queue) >= MaxQueueSize
  <2>1. queue # <<>> /\ 1 \in 1..Len(queue)
    BY <1>1, <1>2, <1>4, EmptySeq
  <2>2. Head(queue) = queue[1] /\ Head(queue) \in SeqSet(queue)
    BY <1>2, <2>1 DEF SeqSet
  <2> DEFINE t == Tail(queue)
  <2>3. /\ t \in Seq(Messages) /\ Len(t) = Len(queue) - 1
        /\ \A i \in 1..Len(t) : t[i] = queue[i + 1]
    BY <1>1, <2>1, HeadTailProperties
  <2>4. Enqueue(m) = Append(t, m)
    BY <1>4 DEF Enqueue
  <2> HIDE DEF t
  <2>5. Head(queue) \notin SeqSet(t)
    <3> SUFFICES ASSUME NEW i \in 1..Len(t) PROVE t[i] # Head(queue)
      BY <2>3, SeqSetFacts
    <3>1. i + 1 \in DOMAIN queue /\ 1 \in DOMAIN queue /\ i + 1 # 1
      BY <1>2, <2>1, <2>3
    <3>2. queue[i + 1] # queue[1]
      BY <1>1, <3>1 DEF Distinct
    <3> QED
      BY <2>2, <2>3, <3>2
  <2>6. SeqSet(Enqueue(m)) = SeqSet(t) \cup {m}
    BY <2>3, <2>4, AppendFacts
  <2>7. Pushed = {Head(queue)}
    BY <1>4 DEF Pushed
  <2> QED
    BY <1>1, <1>3, <2>2, <2>5, <2>6, <2>7
<1>5. CASE ~(Len(queue) >= MaxQueueSize)
  <2>1. Pushed = {}
    BY <1>5 DEF Pushed
  <2> QED
    BY <1>3, <2>1
<1> QED
  BY <1>4, <1>5

\* An arrival that is not connected is given up; another one joins the queue, from
\* which the oldest may be pushed and the rest may set out.
LEMMA ArrivalTakes ==
    ASSUME IInv, NEW m \in Messages, HandleSUOMessage(m)
    PROVE  Custodian!Next
<1> DEFINE S == {m}
           nothing == {}
<1>1. /\ m \notin received /\ received' = received \cup S /\ rows' = rows
  BY DEF HandleSUOMessage
<1>2. /\ TypeOK /\ queue \in Seq(Messages) /\ m \notin SeqSet(queue)
      /\ lost \in [Messages -> {"no", "offline", "full", "exhausted", "overflow"}]
  BY <1>1 DEF IInv, TypeOK, HeldIsReceived
<1>3. Delivered' = Delivered
  BY <1>1 DEF Delivered
<1>4. S \in SUBSET Messages /\ S \cap received = {}
  BY <1>1
<1>5. CASE ~connected
  <2>1. lost' = [lost EXCEPT ![m] = "offline"] /\ UNCHANGED <<queue, flush>>
    BY <1>5 DEF HandleSUOMessage
  <2>2. GivenUp' = GivenUp \cup S
    BY <1>2, <2>1 DEF GivenUp
  <2>3. Waiting' = Waiting
    BY <2>1 DEF Waiting
  <2>4. OnTheWay' = OnTheWay
    BY <2>1 DEF OnTheWay, BatchSet, Active
  <2>5. /\ nothing \in SUBSET (Waiting \cup S)
        /\ S \in SUBSET ((Waiting \cup S) \ nothing)
        /\ OnTheWay' = OnTheWay \cup nothing
        /\ Waiting' = (Waiting \cup S) \ (nothing \cup S)
    BY <1>2, <2>3, <2>4 DEF Waiting
  <2> HIDE DEF S, nothing
  <2> QED
    BY <1>1, <1>3, <1>4, <2>2, <2>5, TakeMaps
<1>6. CASE connected
  <2> DEFINE q == Enqueue(m)
             begun == SeqSet(q)
  <2>1. /\ lost' = IF Len(queue) >= MaxQueueSize
                     THEN [lost EXCEPT ![Head(queue)] = "full"] ELSE lost
        /\ \/ \E f \in Flushes : FlushBatch(f, q)
           \/ queue' = q /\ flush' = flush
    BY <1>6 DEF HandleSUOMessage
  <2>2. Pushed \subseteq Waiting /\ SeqSet(q) = (Waiting \cup S) \ Pushed
    BY <1>1, EnqueueExchanges DEF Waiting
  <2>3. q \in Seq(Messages) /\ q # <<>>
    BY <1>2, EnqueueFacts
  <2>4. Waiting \subseteq Messages
    BY <1>2, SeqSetFacts DEF Waiting
  <2>5. GivenUp' = GivenUp \cup Pushed
    BY <1>2, <2>1, <2>2, <2>4 DEF GivenUp, Pushed
  <2> HIDE DEF S, q
  <2>6. Pushed \in SUBSET ((Waiting \cup S) \ nothing)
    BY <2>2
  <2>7. CASE queue' = q /\ flush' = flush
    <3>1. Waiting' = SeqSet(q)
      BY <2>7 DEF Waiting
    <3>2. OnTheWay' = OnTheWay
      BY <2>7 DEF OnTheWay, BatchSet, Active
    <3>3. /\ nothing \in SUBSET (Waiting \cup S)
          /\ OnTheWay' = OnTheWay \cup nothing
          /\ Waiting' = (Waiting \cup S) \ (nothing \cup Pushed)
      BY <2>2, <3>1, <3>2
    <3> HIDE DEF nothing
    <3> QED
      BY <1>1, <1>3, <1>4, <2>5, <2>6, <3>3, TakeMaps
  <2>8. ASSUME NEW f \in Flushes, FlushBatch(f, q) PROVE Custodian!Next
    <3>1. OnTheWay' = OnTheWay \cup begun /\ Waiting' = {}
      BY <1>2, <2>3, <2>8, FlushSetsOut
    <3>2. /\ begun \in SUBSET (Waiting \cup S)
          /\ Pushed \in SUBSET ((Waiting \cup S) \ begun)
          /\ Waiting' = (Waiting \cup S) \ (begun \cup Pushed)
      BY <2>2, <3>1
    <3> HIDE DEF begun
    <3> QED
      BY <1>1, <1>3, <1>4, <2>5, <3>1, <3>2, TakeMaps
  <2> QED
    BY <2>1, <2>7, <2>8
<1> QED
  BY <1>5, <1>6

\* What the current message of a flush is when it is settled.
Settles(f) ==
    \/ Delivered' = Delivered \cup {Current(f)} /\ GivenUp' = GivenUp
    \/ Delivered' = Delivered /\ GivenUp' = GivenUp \cup {Current(f)}

\* A flush that passes a message goes on, or ends with a batch that is all settled.
LEMMA MovesRelease ==
    ASSUME IInv, [Next]_vars, NEW f \in Active, Settles(f),
           queue' = queue, received' = received,
           NEW attempts \in [Keys -> 0..RetryCount], NextMessage(f, attempts)
    PROVE  Custodian!Next
<1> DEFINE S == BatchSet(f)
           nothing == {}
<1>1. TypeOK
  BY DEF IInv
<1>2. /\ f \in Flushes
      /\ flush[f].at \in 1..Len(flush[f].batch) /\ Len(flush[f].batch) \in Nat
      /\ flush[f].batch \in Seq(Messages) /\ Current(f) \in Messages
      /\ Current(f) = flush[f].batch[flush[f].at]
  BY <1>1, CurrentFacts
<1>3. /\ \A g \in Flushes \ {f} : flush'[g] = flush[g]
      /\ \/ flush'[f].batch = flush[f].batch /\ Active' = Active
         \/ flush[f].at = Len(flush[f].batch) /\ Active' = Active \ {f}
  BY <1>1, NextMessageMoves
<1>4. Current(f) \in OnTheWay
  <2>1. Current(f) \in BatchSet(f)
    BY <1>2, SeqSetFacts DEF BatchSet
  <2> QED
    BY <2>1 DEF OnTheWay
<1>5. /\ \E out \in SUBSET OnTheWay : Delivered' = Delivered \cup out
      /\ \E gone \in SUBSET OnTheWay : GivenUp' = GivenUp \cup gone
  <2>1. \E out \in {{}, {Current(f)}} : Delivered' = Delivered \cup out
    BY DEF Settles
  <2>2. \E gone \in {{}, {Current(f)}} : GivenUp' = GivenUp \cup gone
    BY DEF Settles
  <2> QED
    BY <1>4, <2>1, <2>2
<1>6. Waiting' = Waiting
  BY DEF Waiting
<1>7. CASE flush'[f].batch = flush[f].batch /\ Active' = Active
  <2>1. \A g \in Active : BatchSet(g)' = BatchSet(g)
    BY <1>3, <1>7 DEF BatchSet, Active
  <2>2. OnTheWay' = OnTheWay
    BY <1>7, <2>1 DEF OnTheWay
  <2>3. /\ nothing \in SUBSET OnTheWay /\ nothing \in SUBSET nothing
        /\ OnTheWay' = OnTheWay \ nothing /\ Waiting' = Waiting \cup nothing
        /\ nothing \ nothing \subseteq Delivered' \cup GivenUp'
    BY <1>6, <2>2
  <2> HIDE DEF nothing
  <2> QED
    BY <1>5, <2>3, ReleaseMaps
<1>8. CASE flush[f].at = Len(flush[f].batch) /\ Active' = Active \ {f}
  <2>1. S \subseteq OnTheWay /\ OnTheWay' = OnTheWay \ S
    BY <1>3, <1>8, FlushComesHome
  <2>2. S \subseteq Delivered' \cup GivenUp'
    <3> SUFFICES ASSUME NEW i \in 1..Len(flush[f].batch)
                 PROVE  flush[f].batch[i] \in Delivered' \cup GivenUp'
      BY <1>2, SeqSetFacts DEF BatchSet
    <3>1. CASE i = flush[f].at
      BY <1>2, <3>1 DEF Settles
    <3>2. CASE i # flush[f].at
      <4>1. i \in 1..(flush[f].at - 1)
        BY <1>2, <1>8, <3>2
      <4>2. SettledNext(flush[f].batch[i])
        BY <4>1, PassedStands
      <4>3. flush[f].batch[i] \in Messages
        BY <1>2, ElementOfSeq
      <4> QED
        BY <4>2, <4>3 DEF SettledNext, Delivered, GivenUp
    <3> QED
      BY <3>1, <3>2
  <2>3. /\ nothing \in SUBSET S /\ Waiting' = Waiting \cup nothing
        /\ S \ nothing \subseteq Delivered' \cup GivenUp'
    BY <1>6, <2>2
  <2> HIDE DEF S, nothing
  <2> QED
    BY <1>5, <2>1, <2>3, ReleaseMaps
<1> QED
  BY <1>3, <1>7, <1>8

\* A flush that fails for good brings its batch back, or what is not saved of it is
\* given up.
LEMMA FailureReleases ==
    ASSUME IInv, [Next]_vars, NEW f \in Flushes, FlushFails(f)
    PROVE  Custodian!Next
<1> DEFINE S == BatchSet(f)
           nothing == {}
<1>1. TypeOK /\ received' = received /\ rows' = rows
  BY DEF IInv, FlushFails
<1>2. /\ f \in Active
      /\ \A g \in Flushes \ {f} : flush'[g] = flush[g]
      /\ Active' = Active \ {f}
  BY <1>1, FlushFailsFacts
<1>3. S \subseteq OnTheWay /\ OnTheWay' = OnTheWay \ S
  BY <1>2, FlushComesHome
<1>4. Delivered' = Delivered /\ Delivered' = Delivered \cup nothing
  BY <1>1 DEF Delivered
<1>5. /\ flush[f].batch \in Seq(Messages) /\ Len(flush[f].batch) \in Nat
      /\ flush[f].at \in 1..Len(flush[f].batch)
      /\ queue \in Seq(Messages)
  BY <1>1, <1>2, CurrentFacts DEF TypeOK
<1>6. CASE RequeueFits(f)
  <2>1. queue' = flush[f].batch \o queue /\ lost' = lost
    BY <1>6 DEF FlushFails, Requeue
  <2>2. SeqSet(flush[f].batch \o queue) = S \cup SeqSet(queue)
    BY <1>5, ConcatFacts DEF BatchSet
  <2>3. Waiting' = Waiting \cup S
    BY <2>1, <2>2 DEF Waiting
  <2>4. GivenUp' = GivenUp \cup nothing
    BY <2>1 DEF GivenUp
  <2>5. /\ S \in SUBSET S /\ S \ S \subseteq Delivered' \cup GivenUp'
        /\ nothing \in SUBSET OnTheWay
    OBVIOUS
  <2> HIDE DEF S, nothing
  <2> QED
    BY <1>1, <1>3, <1>4, <2>3, <2>4, <2>5, ReleaseMaps
<1>7. CASE ~RequeueFits(f)
  <2> DEFINE gone == {m \in Messages : \E i \in flush[f].at..Len(flush[f].batch) :
                                          flush[f].batch[i] = m}
  <2>1. /\ queue' = queue
        /\ lost' = [m \in Messages |->
             IF \E i \in flush[f].at..Len(flush[f].batch) : flush[f].batch[i] = m
               THEN "overflow" ELSE lost[m]]
    BY <1>7 DEF FlushFails
  <2>2. Waiting' = Waiting
    BY <2>1 DEF Waiting
  <2>3. GivenUp' = GivenUp \cup gone
    BY <2>1 DEF GivenUp
  <2>4. gone \subseteq S
    <3>1. \A i \in flush[f].at..Len(flush[f].batch) : i \in 1..Len(flush[f].batch)
      BY <1>5
    <3> QED
      BY <1>5, <3>1, SeqSetFacts DEF BatchSet
  <2>5. S \subseteq Delivered' \cup GivenUp'
    <3> SUFFICES ASSUME NEW i \in 1..Len(flush[f].batch)
                 PROVE  flush[f].batch[i] \in Delivered' \cup GivenUp'
      BY <1>5, SeqSetFacts DEF BatchSet
    <3>1. flush[f].batch[i] \in Messages
      BY <1>5, ElementOfSeq
    <3>2. CASE i \in 1..(flush[f].at - 1)
      BY <1>2, <3>1, <3>2, PassedStands DEF SettledNext, Delivered, GivenUp
    <3>3. CASE i \in flush[f].at..Len(flush[f].batch)
      <4>1. flush[f].batch[i] \in gone
        BY <3>1, <3>3
      <4> QED
        BY <2>3, <4>1
    <3> QED
      BY <1>5, <3>2, <3>3
  <2> HIDE DEF gone
  <2>6. /\ nothing \in SUBSET S /\ Waiting' = Waiting \cup nothing
        /\ S \ nothing \subseteq Delivered' \cup GivenUp'
        /\ nothing \in SUBSET OnTheWay /\ gone \in SUBSET OnTheWay
    BY <1>3, <2>2, <2>4, <2>5
  <2> HIDE DEF S, nothing
  <2> QED
    BY <1>1, <1>3, <1>4, <2>3, <2>6, ReleaseMaps
<1> QED
  BY <1>6, <1>7

LEMMA InitCustody == Init => Custodian!Init
<1> SUFFICES ASSUME Init PROVE Custodian!Init
  OBVIOUS
<1>1. Active = {}
  BY IdleState DEF Init, Active
<1>2. SeqSet(queue) = {}
  BY EmptySeqSet DEF Init
<1>3. \A m \in Messages : ~(rows[m] > 0) /\ lost[m] = "no"
  <2> SUFFICES ASSUME NEW m \in Messages PROVE ~(rows[m] > 0) /\ lost[m] = "no"
    OBVIOUS
  <2>1. rows[m] = 0 /\ lost[m] = "no"
    BY DEF Init
  <2> QED
    BY <2>1
<1> QED
  BY <1>1, <1>2, <1>3 DEF Init, Custodian!Init

LEMMA NextCustody == IInv /\ [Next]_vars => [Custodian!Next]_(Custodian!vars)
<1> SUFFICES ASSUME IInv, [Next]_vars
             PROVE  Custodian!Next \/ UNCHANGED Custodian!vars
  OBVIOUS
<1>0. TypeOK
  BY DEF IInv
<1>1. CASE UNCHANGED <<queue, flush, received, rows, lost>>
  <2>1. Active' = Active
    BY <1>1 DEF Active
  <2> QED
    BY <1>1, <2>1, StaysMaps
<1>2. CASE Connect \/ Start \/ Disconnect \/ RemoveAllListeners \/ UNCHANGED vars
  BY <1>1, <1>2 DEF Connect, Start, Disconnect, RemoveAllListeners, vars
<1>3. CASE Stop \/ BatchTimeout \/ ForceFlush
  <2>1. \/ UNCHANGED <<queue, flush, received, rows, lost>>
        \/ /\ queue # <<>> /\ UNCHANGED <<received, rows, lost>>
           /\ \E f \in Flushes : FlushBatch(f, queue)
    BY <1>3 DEF Stop, BatchTimeout, ForceFlush
  <2> QED
    BY <1>0, <1>1, <2>1, QueueSetsOut
<1>4. ASSUME NEW m \in Messages, HandleSUOMessage(m) PROVE Custodian!Next
  BY <1>4, ArrivalTakes
<1>5. ASSUME NEW f \in Flushes, SkipExhausted(f) PROVE Custodian!Next
  <2>1. f \in Active
    BY <1>5, PhaseActive DEF SkipExhausted
  <2>2. /\ lost' = [lost EXCEPT ![Current(f)] = "exhausted"]
        /\ NextMessage(f, retryAttempts)
        /\ UNCHANGED <<queue, received, rows>>
    BY <1>5 DEF SkipExhausted
  <2>3. /\ retryAttempts \in [Keys -> 0..RetryCount] /\ Current(f) \in Messages
        /\ lost \in [Messages -> {"no", "offline", "full", "exhausted", "overflow"}]
    BY <1>0, <2>1, CurrentFacts DEF TypeOK
  <2>4. Settles(f)
    <3>1. Delivered' = Delivered
      BY <2>2 DEF Delivered
    <3>2. GivenUp' = GivenUp \cup {Current(f)}
      BY <2>2, <2>3 DEF GivenUp
    <3> QED
      BY <3>1, <3>2 DEF Settles
  <2> QED
    BY <2>1, <2>2, <2>3, <2>4, MovesRelease
<1>6. ASSUME NEW f \in Flushes, SaveSucceeds(f) PROVE Custodian!Next
  <2>1. f \in Active
    BY <1>6, PhaseActive DEF SaveSucceeds
  <2>2. /\ rows' = [rows EXCEPT ![Current(f)] = @ + 1]
        /\ retryAttempts' = [retryAttempts EXCEPT ![KeyOf[Current(f)]] = 0]
        /\ NextMessage(f, retryAttempts')
        /\ UNCHANGED <<queue, received, lost>>
    BY <1>6 DEF SaveSucceeds
  <2>3. /\ retryAttempts \in [Keys -> 0..RetryCount] /\ Current(f) \in Messages
        /\ KeyOf[Current(f)] \in Keys /\ rows \in [Messages -> Nat]
    BY <1>0, <2>1, CurrentFacts DEF TypeOK
  <2>4. retryAttempts' \in [Keys -> 0..RetryCount]
    BY <2>2, <2>3, WriterAssumption
  <2>5. Settles(f)
    <3>1. GivenUp' = GivenUp
      BY <2>2 DEF GivenUp
    <3>2. Delivered' = Delivered \cup {Current(f)}
      BY <2>2, <2>3 DEF Delivered
    <3> QED
      BY <3>1, <3>2 DEF Settles
  <2> QED
    BY <2>1, <2>2, <2>4, <2>5, MovesRelease
<1>7. ASSUME NEW f \in Flushes, SaveFails(f) \/ Wake(f) PROVE UNCHANGED Custodian!vars
  <2>1. UNCHANGED <<queue, received, rows, lost>>
    BY <1>7 DEF SaveFails, Wake
  <2>2. /\ flush'[f].batch = flush[f].batch
        /\ \A g \in Flushes \ {f} : flush'[g] = flush[g]
        /\ Active' = Active
    BY <1>0, <1>7, SleepFacts
  <2>3. \A g \in Active : flush'[g].batch = flush[g].batch
    BY <2>2 DEF Active
  <2> QED
    BY <2>1, <2>2, <2>3, StaysMaps
<1>8. ASSUME NEW f \in Flushes, FlushFails(f) PROVE Custodian!Next
  BY <1>8, FailureReleases
<1> QED
  BY <1>2, <1>3, <1>4, <1>5, <1>6, <1>7, <1>8 DEF Next, FlushStep

-----------------------------------------------------------------------------
(* The theorems.                                                           *)

\* The writer keeps its variables in their types: no flush runs off its batch,
\* and no attempt counter goes past retryCount (database-writer.ts:153-187).
THEOREM TypeCorrect == Spec => []TypeOK
BY Invariance, PTL DEF IInv

\* Neither an arrival nor a batch that comes back makes the queue longer than
\* maxQueueSize (database-writer.ts:102-109, 167).
THEOREM QueueIsBounded == Spec => []QueueBound
BY Invariance, PTL DEF IInv

\* For any number of overlapping flushes no message is held twice
\* (database-writer.ts:144-151, 168).
THEOREM EveryMessageHeldOnce == Spec => []HeldOnce
<1>1. IInv => HeldOnce
  <2> SUFFICES ASSUME IInv PROVE HeldOnce
    OBVIOUS
  <2>1. ASSUME NEW f \in Active, NEW i \in DOMAIN flush[f].batch
        PROVE  flush[f].batch[i] \notin SeqSet(queue)
    BY DEF IInv, Apart, BatchSet, SeqSet
  <2> QED
    BY <2>1 DEF IInv, Apart, Distinct, BatchSet, HeldOnce
<1> QED
  BY <1>1, Invariance, PTL

\* What was received has a row, is still held or was given up with a line in the
\* log, for any number of flushes.  The exception is a message passed over because the
\* attempts of its key are used up: the loop never runs and nothing is logged, but the
\* log named the key when they were (database-writer.ts:94-201).
THEOREM NoMessageVanishes == Spec => []NothingVanishes
<1>1. ASSUME IInv, NEW m \in received, ~Settled(m) PROVE m \in Held
  <2>1. CASE m \in SeqSet(queue)
    BY <2>1 DEF Held
  <2>2. CASE m \notin SeqSet(queue)
    <3>1. PICK f \in Active : m \in BatchSet(f)
      BY <1>1, <2>2 DEF IInv, Accounted
    <3>2. /\ flush[f].batch \in Seq(Messages) /\ Len(flush[f].batch) \in Nat
          /\ flush[f].at \in 1..Len(flush[f].batch)
      BY <1>1, CurrentFacts DEF IInv
    <3>3. PICK i \in 1..Len(flush[f].batch) : flush[f].batch[i] = m
      BY <3>1, <3>2, SeqSetFacts DEF BatchSet
    <3>4. i \notin 1..(flush[f].at - 1)
      BY <1>1, <3>3 DEF IInv, PassedIsSettled
    <3>5. i \in flush[f].at..Len(flush[f].batch)
      BY <3>2, <3>4
    <3> QED
      BY <3>3, <3>5 DEF Held
  <2> QED
    BY <2>1, <2>2
<1>2. ASSUME IInv, SkipsAreReported, NEW m \in received, lost[m] # "no"
      PROVE  lost[m] \in Logged \/ (lost[m] = "exhausted" /\ KeyOf[m] \in reported)
  <2>1. m \in Messages /\ lost[m] \in {"no", "offline", "full", "exhausted", "overflow"}
    BY <1>2 DEF IInv, TypeOK
  <2> QED
    BY <1>2, <2>1 DEF Logged, SkipsAreReported
<1>3. IInv /\ SkipsAreReported => NothingVanishes
  BY <1>1, <1>2 DEF NothingVanishes, Settled
<1> QED
  BY <1>3, Invariance, SkippedWereReported, PTL

LEMMA OnlyFailureStrandsStep ==
    IInv /\ [Next]_vars =>
      [(queue' # <<>> /\ ~timer') =>
         \/ queue # <<>> /\ ~timer
         \/ tried' # tried /\ \E f \in Active : flush'[f] = Idle]_vars
<1> SUFFICES ASSUME IInv, Next, queue' # <<>>, ~timer', ~(queue # <<>> /\ ~timer)
             PROVE  tried' # tried /\ \E f \in Active : flush'[f] = Idle
  OBVIOUS
<1>0. TypeOK
  BY DEF IInv
<1>1. ~(queue' = queue /\ timer' = timer)
  OBVIOUS
<1>2. ASSUME NEW f \in Flushes, NEW q, FlushBatch(f, q) PROVE FALSE
  BY <1>2 DEF FlushBatch
<1>3. CASE Connect \/ Start \/ Disconnect \/ RemoveAllListeners
  BY <1>1, <1>3 DEF Connect, Start, Disconnect, RemoveAllListeners
<1>4. CASE Stop \/ BatchTimeout \/ ForceFlush
  <2>1. (\E f \in Flushes : FlushBatch(f, queue)) \/ (queue = <<>> /\ queue' = queue)
    BY <1>4 DEF Stop, BatchTimeout, ForceFlush
  <2> QED
    BY <1>2, <2>1
<1>5. ASSUME NEW m \in Messages, HandleSUOMessage(m) PROVE FALSE
  <2>1. \/ UNCHANGED <<queue, timer>>
        \/ \E f \in Flushes : FlushBatch(f, Enqueue(m))
        \/ timer' = TRUE
    BY <1>5 DEF HandleSUOMessage, ScheduleBatchFlush
  <2> QED
    BY <1>1, <1>2, <2>1
<1>6. ASSUME NEW f \in Flushes, SkipExhausted(f) \/ SaveSucceeds(f) \/ SaveFails(f) \/ Wake(f)
      PROVE  FALSE
  BY <1>1, <1>6 DEF SkipExhausted, SaveSucceeds, SaveFails, Wake
<1>7. ASSUME NEW f \in Flushes, FlushFails(f)
      PROVE  tried' # tried /\ \E g \in Active : flush'[g] = Idle
  <2>1. f \in Active /\ flush'[f] = Idle
    BY <1>0, <1>7, FlushFailsFacts
  <2>2. tried' # tried
    BY <1>0, <1>7, AttemptFacts DEF FlushFails
  <2> QED
    BY <2>1, <2>2
<1> QED
  BY <1>3, <1>4, <1>5, <1>6, <1>7 DEF Next, FlushStep

\* A queue is left without a timer only by a flush that failed for good
\* (database-writer.ts:123-134, 147, 168).
THEOREM OnlyFailuresStrand == Spec => OnlyFailureStrands
<1>1. IInv /\ [Next]_vars =>
        [(queue' # <<>> /\ ~timer') =>
           \/ queue # <<>> /\ ~timer
           \/ tried' # tried /\ \E f \in Active : flush'[f] = Idle]_vars
  BY OnlyFailureStrandsStep
<1> QED
  BY <1>1, Invariance, PTL DEF Spec, OnlyFailureStrands

\* The writer implements the custody of messages, for any number of overlapping
\* flushes: a message waits or is underway until it has a row or is given up, and
\* goes back to the queue only from a batch that failed (database-writer.ts:94-201).
THEOREM RefinesCustody == Spec => ImplementsCustody
BY InitCustody, NextCustody, Invariance, PTL DEF Spec, ImplementsCustody, Custodian!Spec
=============================================================================
