------------------------- MODULE ApplicationProofs -------------------------
(***************************************************************************)
(* Theorems of Application, for every set of configurations and types of   *)
(* messages and all bounds.                                                *)
(*                                                                         *)
(* The inductive invariant says where start() and stop() can be together   *)
(* (Phases), that nothing before a message in its way has a greater number *)
(* (Ordered), that stop() waits for its turn at most once and with only    *)
(* normalizers behind it (Resuming), and that what stop() has passed is    *)
(* stopped (Stopped).                                                      *)
(***************************************************************************)
EXTENDS Application, SequenceTheorems, WellFoundedInduction, TLAPS

Starting == {"api", "relay", "websocket", "done"}

\* Where start(), stop(), the link and its flag can be together.
Phases ==
    /\ startAt = "new" => ~isRunning /\ signals = 0
    /\ isRunning <=> startAt # "new" /\ signals = 0
    /\ signals = 0 <=> stopAt = "no"
    /\ signals > 0 /\ ~early => startAt = "done"
    /\ startAt \in {"new", "database"} => link = "none" /\ attempts = 0
    /\ startAt \in Starting => isConnected \/ link = "none"
    /\ link = "none" => ~isConnected /\ topics = 0
    /\ link \in {"up", "down"} => isConnected
    /\ link = "up" => attempts = 0
    /\ link \in {"connecting", "down"} => attempts <= MaxAttempts
    /\ stopAt \in {"broker", "resuming"} => startAt \notin {"new", "database"}
    /\ stopAt = "broker" => link = "ending"
    /\ stopAt = "resuming" => link = "none"
    /\ ~early /\ stopAt \notin {"no", "broker"} => link = "none"
    /\ startAt # "new" \/ running = {}

IsMessage(job) == job.do # "stop"

\* Who comes after whom: a message is published before it is normalized behind
\* it, and normalized before it is parsed.
Ordered ==
    /\ \A i \in DOMAIN turns :
         IsMessage(turns[i]) => turns[i].left = 0 /\ turns[i].m.n <= received
    /\ \A i, j \in DOMAIN turns :
         i < j /\ IsMessage(turns[i]) /\ turns[i].do = turns[j].do =>
             turns[i].m.n < turns[j].m.n
    /\ \A i, j \in DOMAIN turns :
         turns[i].do = "normalize" /\ turns[j].do = "parse" => turns[i].m.n < turns[j].m.n
    /\ \A i \in DOMAIN published : published[i].n <= received
    /\ \A i, j \in DOMAIN published : i < j => published[i].n < published[j].n
    /\ \A i \in DOMAIN published, j \in DOMAIN turns :
         IsMessage(turns[j]) => published[i].n < turns[j].m.n

\* stop() has its turn at k: first behind everything and one turn more, then
\* behind messages that are already parsed.
ResumesIn(q, k) ==
    /\ q[k].do = "stop"
    /\ \A j \in DOMAIN q : q[j].do = "stop" => j = k
    /\ \/ q[k].left = 1 /\ \A j \in DOMAIN q : j > k => q[j].do = "normalize"
       \/ /\ q[k].left = 0
          /\ \A j \in DOMAIN q : j # k => j < k /\ q[j].do = "normalize"

Resuming ==
    /\ stopAt # "resuming" => \A i \in DOMAIN turns : IsMessage(turns[i])
    /\ stopAt = "resuming" => \E k \in DOMAIN turns : ResumesIn(turns, k)
    /\ ~early /\ stopAt \notin {"no", "broker", "resuming"} => turns = <<>>

\* p is stopped before q.
Before(p, q) ==
    \E i, j \in DOMAIN StopOrder : i < j /\ StopOrder[i] = p /\ StopOrder[j] = q

Stopped ==
    ~early =>
      /\ \A p \in Stops : Before(p, stopAt) => p \notin running
      /\ Before("database", stopAt) => ~connected
      /\ stopAt \in Stops \ {"broker"} => "cache" \notin running
      /\ stopAt \in Stops \ {"broker", "writer", "database"} =>
           running \cap {"smartHB", "adapter", "watchdog", "command"} = {}
      /\ exited = "0" /\ signals = 1 => stopAt = "done"

IInv == TypeOK /\ Phases /\ Ordered /\ Resuming /\ Stopped

-----------------------------------------------------------------------------
(* The next part.                                                          *)

LEMMA LeastIndex ==
    ASSUME NEW T, T \subseteq Nat, T # {}
    PROVE  \E i \in T : \A j \in T : i <= j
<1>1. \E i \in T : \A j \in T : <<j, i>> \notin OpToRel(<, Nat)
  <2> HIDE DEF OpToRel
  <2> QED
    BY NatLessThanWellFounded, WFMin
<1>2. PICK i \in T : \A j \in T : <<j, i>> \notin OpToRel(<, Nat)
  BY <1>1
<1>3. \A j \in T : ~(j < i)
  BY <1>2 DEF OpToRel
<1> QED
  BY <1>3

LEMMA AfterIsNext ==
    ASSUME NEW order, DOMAIN order = 1 .. Len(order), Len(order) \in Nat,
           NEW active, NEW a \in 1 .. Len(order) - 1,
           \A i, j \in 1 .. Len(order) : order[i] = order[j] => i = j,
           order[Len(order)] \in active
    PROVE  \E i \in a + 1 .. Len(order) :
             /\ After(order, order[a], active) = order[i]
             /\ order[i] \in active
             /\ \A j \in a + 1 .. i - 1 : order[j] \notin active
<1> DEFINE at == CHOOSE i \in DOMAIN order : order[i] = order[a]
           good(i) == order[i] \in active /\ \A j \in a + 1 .. i - 1 : order[j] \notin active
           T == {i \in a + 1 .. Len(order) : order[i] \in active}
<1>2. at = a
  OBVIOUS
<1>3. T \subseteq Nat /\ T # {}
  OBVIOUS
<1>4. PICK i \in T : \A j \in T : i <= j
  <2> HIDE DEF T
  <2> QED
    BY <1>3, LeastIndex
<1>5. i \in a + 1 .. Len(order) /\ good(i)
  BY <1>4
<1>6. (CHOOSE k \in a + 1 .. Len(order) : good(k)) \in a + 1 .. Len(order)
      /\ good(CHOOSE k \in a + 1 .. Len(order) : good(k))
  <2> HIDE DEF good
  <2> QED
    BY <1>5
<1>7. After(order, order[a], active) = order[CHOOSE k \in a + 1 .. Len(order) : good(k)]
  BY <1>2 DEF After
<1> QED
  BY <1>6, <1>7

LEMMA StartOrderIs ==
    /\ Len(StartOrder) = 7 /\ DOMAIN StartOrder = 1 .. 7
    /\ \A i, j \in 1 .. 7 : StartOrder[i] = StartOrder[j] => i = j
    /\ StartOrder[1] = "new" /\ StartOrder[2] = "database" /\ StartOrder[3] = "broker"
    /\ StartOrder[4] = "api" /\ StartOrder[5] = "relay" /\ StartOrder[6] = "websocket"
    /\ StartOrder[7] = "done"
<1>1. /\ Len(StartOrder) = 7 /\ DOMAIN StartOrder = 1 .. 7
      /\ StartOrder[1] = "new" /\ StartOrder[2] = "database" /\ StartOrder[3] = "broker"
      /\ StartOrder[4] = "api" /\ StartOrder[5] = "relay" /\ StartOrder[6] = "websocket"
      /\ StartOrder[7] = "done"
  BY DEF StartOrder
<1>3. ASSUME NEW i \in 1 .. 7, NEW j \in 1 .. 7, StartOrder[i] = StartOrder[j]
      PROVE  i = j
  <2>1. i \in {1, 2, 3, 4, 5, 6, 7} /\ j \in {1, 2, 3, 4, 5, 6, 7}
    OBVIOUS
  <2> QED
    BY <2>1, <1>1, <1>3
<1> QED
  BY <1>1, <1>3

LEMMA StopOrderIs ==
    /\ Len(StopOrder) = 8
    /\ DOMAIN StopOrder = 1 .. 8
    /\ \A i, j \in 1 .. 8 : StopOrder[i] = StopOrder[j] => i = j
    /\ StopOrder[1] = "broker" /\ StopOrder[2] = "writer" /\ StopOrder[3] = "database"
    /\ StopOrder[4] = "webhook" /\ StopOrder[5] = "websocket" /\ StopOrder[6] = "relay"
    /\ StopOrder[7] = "api" /\ StopOrder[8] = "done"
<1>1. /\ Len(StopOrder) = 8 /\ DOMAIN StopOrder = 1 .. 8
      /\ StopOrder[1] = "broker" /\ StopOrder[2] = "writer" /\ StopOrder[3] = "database"
      /\ StopOrder[4] = "webhook" /\ StopOrder[5] = "websocket" /\ StopOrder[6] = "relay"
      /\ StopOrder[7] = "api" /\ StopOrder[8] = "done"
  BY DEF StopOrder
<1>3. ASSUME NEW i \in 1 .. 8, NEW j \in 1 .. 8, StopOrder[i] = StopOrder[j]
      PROVE  i = j
  <2>1. i \in {1, 2, 3, 4, 5, 6, 7, 8} /\ j \in {1, 2, 3, 4, 5, 6, 7, 8}
    OBVIOUS
  <2> QED
    BY <2>1, <1>1, <1>3
<1> QED
  BY <1>1, <1>3

\* start() goes on to a later part, and does not pass the broker.
LEMMA StartsAfterIs ==
    ASSUME NEW p \in {"new", "database", "broker", "api", "relay", "websocket"}
    PROVE  /\ p = "new" => StartsAfter(p) \in {"database", "broker"}
           /\ p = "database" => StartsAfter(p) = "broker"
           /\ p \notin {"new", "database"} => StartsAfter(p) \in Starting
<1>1. PICK a \in 1 .. 6 : StartOrder[a] = p /\ (a <= 3 => p \in {"new", "database", "broker"})
  BY StartOrderIs
<1>2. "done" \in Awaited /\ "broker" \in Awaited
  BY DEF Awaited
<1>3. PICK i \in a + 1 .. 7 :
        StartsAfter(p) = StartOrder[i] /\ \A j \in a + 1 .. i - 1 : StartOrder[j] \notin Awaited
  <2>1. StartsAfter(p) = After(StartOrder, StartOrder[a], Awaited)
    BY <1>1 DEF StartsAfter
  <2>2. \E i \in a + 1 .. Len(StartOrder) :
          /\ After(StartOrder, StartOrder[a], Awaited) = StartOrder[i]
          /\ StartOrder[i] \in Awaited
          /\ \A j \in a + 1 .. i - 1 : StartOrder[j] \notin Awaited
    <3>1. /\ a \in 1 .. Len(StartOrder) - 1 /\ Len(StartOrder) \in Nat
         /\ DOMAIN StartOrder = 1 .. Len(StartOrder)
      BY StartOrderIs
    <3>2. \A i, j \in 1 .. Len(StartOrder) : StartOrder[i] = StartOrder[j] => i = j
      BY StartOrderIs
    <3>3. StartOrder[Len(StartOrder)] \in Awaited
      BY <1>2, StartOrderIs
    <3> QED
      BY <3>1, <3>2, <3>3, AfterIsNext
  <2> QED
    BY <2>1, <2>2, StartOrderIs
<1>4. a < 3 => i <= 3
  BY <1>2, <1>3, StartOrderIs
<1> QED
  BY <1>1, <1>3, <1>4, StartOrderIs DEF Starting

\* stop() goes on to a later part, passing over inactive ones.
LEMMA StopsAfterIs ==
    ASSUME NEW p \in Stops \ {"done"}
    PROVE  \E a \in 1 .. 7, i \in 2 .. 8 :
             /\ a < i /\ StopOrder[a] = p /\ StopOrder[i] = StopsAfter(p)
             /\ \A j \in a + 1 .. i - 1 : StopOrder[j] \notin Active
<1>1. PICK a \in 1 .. 7 : StopOrder[a] = p
  BY StopOrderIs DEF Stops
<1>2. "done" \in Active
  BY DEF Active
<1>3. PICK i \in a + 1 .. 8 :
        StopsAfter(p) = StopOrder[i] /\ \A j \in a + 1 .. i - 1 : StopOrder[j] \notin Active
  <2>1. StopsAfter(p) = After(StopOrder, StopOrder[a], Active)
    BY <1>1 DEF StopsAfter
  <2>2. \E i \in a + 1 .. Len(StopOrder) :
          /\ After(StopOrder, StopOrder[a], Active) = StopOrder[i]
          /\ StopOrder[i] \in Active
          /\ \A j \in a + 1 .. i - 1 : StopOrder[j] \notin Active
    <3>1. /\ a \in 1 .. Len(StopOrder) - 1 /\ Len(StopOrder) \in Nat
         /\ DOMAIN StopOrder = 1 .. Len(StopOrder)
      BY StopOrderIs
    <3>2. \A i, j \in 1 .. Len(StopOrder) : StopOrder[i] = StopOrder[j] => i = j
      BY StopOrderIs
    <3>3. StopOrder[Len(StopOrder)] \in Active
      BY <1>2, StopOrderIs
    <3> QED
      BY <3>1, <3>2, <3>3, AfterIsNext
  <2> QED
    BY <2>1, <2>2, StopOrderIs
<1> QED
  BY <1>1, <1>3

-----------------------------------------------------------------------------
(* What start() and stop() do when they go on.                             *)

Links == {"none", "connecting", "up", "down", "ending"}

RelayLinks == {"none", "connecting", "up", "down"}

LEMMA StartProceedsIs ==
    ASSUME TypeOK, NEW p \in {"new", "database", "broker", "api", "relay", "websocket"},
           NEW self \in SUBSET Parts, StartProceeds(p, self)
    PROVE  /\ startAt' \in Milestones /\ running' \subseteq Parts
           /\ link' \in Links /\ relayLink' \in RelayLinks
           /\ p = "new" => startAt' \in {"database", "broker"}
           /\ p = "database" => startAt' = "broker"
           /\ startAt' = "broker" => link' = "connecting"
           /\ startAt' # "broker" => link' = link
           /\ p \notin {"new", "database"} => startAt' \in Starting /\ link' = link
<1>1. startAt' = StartsAfter(p)
  BY DEF StartProceeds
<1>2. startAt' \in Milestones
  BY <1>1, StartsAfterIs, StartOrderIs DEF Milestones, Starting
<1>3. StartedAfter(p) \subseteq Parts
  BY DEF StartedAfter, Parts
<1>4. running' \subseteq Parts
  BY <1>3 DEF StartProceeds, TypeOK
<1>5. relayLink' \in RelayLinks
  BY DEF StartProceeds, TypeOK, RelayLinks
<1> QED
  BY <1>1, <1>2, <1>4, <1>5, StartsAfterIs DEF StartProceeds, TypeOK, Links, Starting

LEMMA StopProceedsIs ==
    ASSUME TypeOK, NEW p \in Stops \ {"done"}, StopProceeds(p)
    PROVE  /\ stopAt' \in Stops \ {"broker"}
           /\ running' \subseteq Parts
           /\ relayLink' \in RelayLinks
           /\ exited' = IF stopAt' = "done" THEN "0" ELSE exited
<1>1. stopAt' = StopsAfter(p)
  BY DEF StopProceeds
<1>2. stopAt' \in Stops \ {"broker"}
  BY <1>1, StopsAfterIs, StopOrderIs DEF Stops
<1> QED
  BY <1>2 DEF StopProceeds, TypeOK, RelayLinks

-----------------------------------------------------------------------------
(* The turns.                                                              *)

LEMMA SequencesAre ==
    ASSUME TypeOK
    PROVE  /\ Len(turns) \in Nat /\ DOMAIN turns = 1 .. Len(turns)
           /\ \A i \in 1 .. Len(turns) : turns[i] \in Job
           /\ Len(published) \in Nat /\ DOMAIN published = 1 .. Len(published)
           /\ \A i \in 1 .. Len(published) : published[i] \in Message
<1>1. turns \in Seq(Job) /\ published \in Seq(Message)
  BY DEF TypeOK
<1> QED
  BY <1>1, LenProperties, ElementOfSeq

\* The first turn is taken, and perhaps another asked for.
LEMMA QueueMoves ==
    ASSUME NEW s \in Seq(Job), s # <<>>, NEW job \in Job
    PROVE  /\ Head(s) = s[1] /\ Head(s) \in Job /\ Len(s) \in Nat \ {0}
           /\ Tail(s) \in Seq(Job) /\ Len(Tail(s)) = Len(s) - 1
           /\ DOMAIN Tail(s) = 1 .. Len(s) - 1
           /\ \A i \in 1 .. Len(s) - 1 : Tail(s)[i] = s[i + 1]
           /\ Append(Tail(s), job) \in Seq(Job) /\ Len(Append(Tail(s), job)) = Len(s)
           /\ DOMAIN Append(Tail(s), job) = 1 .. Len(s)
           /\ \A i \in 1 .. Len(s) - 1 : Append(Tail(s), job)[i] = s[i + 1]
           /\ Append(Tail(s), job)[Len(s)] = job
           /\ Tail(s) \o <<job>> = Append(Tail(s), job) /\ Tail(s) \o <<>> = Tail(s)
<1>1. Len(s) \in Nat \ {0} /\ Head(s) = s[1]
  BY EmptySeq
<1>2. /\ Head(s) \in Job /\ Tail(s) \in Seq(Job) /\ Len(Tail(s)) = Len(s) - 1
      /\ \A i \in 1 .. Len(s) - 1 : Tail(s)[i] = s[i + 1]
  BY HeadTailProperties
<1>3. /\ Append(Tail(s), job) \in Seq(Job) /\ Len(Append(Tail(s), job)) = Len(s)
      /\ \A i \in 1 .. Len(s) - 1 : Append(Tail(s), job)[i] = Tail(s)[i]
      /\ Append(Tail(s), job)[Len(s)] = job
  BY <1>1, <1>2, AppendProperties
<1>4. /\ DOMAIN Tail(s) = 1 .. Len(s) - 1
      /\ DOMAIN Append(Tail(s), job) = 1 .. Len(s)
  BY <1>2, <1>3, LenProperties
<1>5. Tail(s) \o <<job>> = Append(Tail(s), job) /\ Tail(s) \o <<>> = Tail(s)
  BY <1>2, AppendIsConcat, ConcatEmptySeq
<1> QED
  BY <1>1, <1>2, <1>3, <1>4, <1>5

LEMMA QueueGrows ==
    ASSUME NEW S, NEW s \in Seq(S), NEW e \in S
    PROVE  /\ Append(s, e) \in Seq(S) /\ Len(s) \in Nat /\ Len(Append(s, e)) = Len(s) + 1
           /\ DOMAIN Append(s, e) = 1 .. Len(s) + 1
           /\ \A i \in 1 .. Len(s) : Append(s, e)[i] = s[i]
           /\ Append(s, e)[Len(s) + 1] = e
           /\ s \o <<e>> = Append(s, e) /\ s \o <<>> = s
<1>1. Append(s, e) \in Seq(S) /\ Len(Append(s, e)) = Len(s) + 1
  BY AppendProperties
<1>2. DOMAIN Append(s, e) = 1 .. Len(s) + 1 /\ Len(s) \in Nat
  BY <1>1, LenProperties
<1>3. s \o <<e>> = Append(s, e) /\ s \o <<>> = s
  BY AppendIsConcat, ConcatEmptySeq
<1> QED
  BY <1>1, <1>2, <1>3, AppendProperties

StopJob == [do |-> "stop", left |-> 1, m |-> 0]

LEMMA JobsAre ==
    /\ StopJob \in Job /\ StopResumes = <<StopJob>>
    /\ \A job \in Job : job.left > 0 => [job EXCEPT !.left = @ - 1] \in Job
    /\ \A job \in Job : job.do = "parse" => [job EXCEPT !.do = "normalize"] \in Job
    /\ \A job \in Job : IsMessage(job) => job.m \in Message
    /\ \A job \in Job : job.left \in Nat /\ job.do \in {"parse", "normalize", "stop"}
    /\ \A message \in Message : [do |-> "parse", left |-> 0, m |-> message] \in Job
BY DEF StopJob, Job, StopResumes, IsMessage

-----------------------------------------------------------------------------
(* Types.                                                                  *)

\* What the steps of the queue do to it.
LEMMA WaitIs ==
    ASSUME TypeOK, Wait
    PROVE  /\ turns # <<>> /\ turns[1].left > 0
           /\ turns' = Append(Tail(turns), [turns[1] EXCEPT !.left = @ - 1])
           /\ [turns[1] EXCEPT !.left = @ - 1] \in Job
<1>1. turns \in Seq(Job) /\ turns # <<>>
  BY DEF TypeOK, Wait
<1>2. Head(turns) = turns[1] /\ turns[1] \in Job
  BY <1>1, QueueMoves, JobsAre
<1> QED
  BY <1>1, <1>2, JobsAre DEF Wait

LEMMA HandleRawMessageIs ==
    ASSUME TypeOK, HandleRawMessage
    PROVE  /\ turns # <<>> /\ turns[1].do = "parse"
           /\ [turns[1] EXCEPT !.do = "normalize"] \in Job
           /\ \/ turns' = Tail(turns)
              \/ turns' = Append(Tail(turns), [turns[1] EXCEPT !.do = "normalize"])
<1>1. turns \in Seq(Job) /\ turns # <<>> /\ Head(turns).do = "parse"
  BY DEF TypeOK, HandleRawMessage, Due
<1>2. Head(turns) = turns[1] /\ turns[1] \in Job
  BY <1>1, QueueMoves, JobsAre
<1>3. [turns[1] EXCEPT !.do = "normalize"] \in Job
  BY <1>1, <1>2, JobsAre
<1>4. \/ turns' = Tail(turns) \o <<>>
      \/ turns' = Tail(turns) \o <<[turns[1] EXCEPT !.do = "normalize"]>>
  BY <1>2 DEF HandleRawMessage
<1> QED
  BY <1>1, <1>2, <1>3, <1>4, QueueMoves

LEMMA HandleSIFMessageIs ==
    ASSUME TypeOK, HandleSIFMessage
    PROVE  /\ turns # <<>> /\ turns[1].do = "normalize" /\ turns[1].m \in Message
           /\ turns' = Tail(turns) /\ published' = Append(published, turns[1].m)
<1>1. turns \in Seq(Job) /\ turns # <<>> /\ Head(turns).do = "normalize"
  BY DEF TypeOK, HandleSIFMessage, Due
<1>2. Head(turns) = turns[1] /\ turns[1] \in Job
  BY <1>1, QueueMoves, JobsAre
<1> QED
  BY <1>1, <1>2, JobsAre DEF HandleSIFMessage, IsMessage

LEMMA ResumeIs ==
    ASSUME TypeOK, Resume
    PROVE  turns # <<>> /\ turns[1].do = "stop" /\ turns[1].left = 0 /\ turns' = Tail(turns)
<1>1. turns \in Seq(Job) /\ turns # <<>>
  BY DEF TypeOK, Resume, Due
<1>2. Head(turns) = turns[1]
  BY <1>1, QueueMoves, JobsAre
<1> QED
  BY <1>1, <1>2 DEF Resume, Due

LEMMA ReceiveIs ==
    ASSUME TypeOK, NEW device \in Devices, NEW type \in Types, Receive(device, type)
    PROVE  \E m \in Message :
             /\ m.n = received + 1 /\ received' = received + 1 /\ received' \in 1 .. MaxMessages
             /\ turns' = Append(turns, [do |-> "parse", left |-> 0, m |-> m])
             /\ [do |-> "parse", left |-> 0, m |-> m] \in Job
<1> DEFINE m == [n |-> received', device |-> device, type |-> type]
<1>1. received' = received + 1 /\ received' \in 1 .. MaxMessages
  BY ApplicationAssumption DEF TypeOK, Receive
<1>2. m \in Message /\ m.n = received + 1
  BY <1>1 DEF Message
<1>3. turns' = Append(turns, [do |-> "parse", left |-> 0, m |-> m])
  BY DEF Receive, MoreTurns
<1>4. [do |-> "parse", left |-> 0, m |-> m] \in Job
  BY <1>2, JobsAre
<1> QED
  BY <1>1, <1>2, <1>3, <1>4

LEMMA BrokerEndsIs ==
    ASSUME TypeOK, BrokerEnds
    PROVE  turns' = IF stopAt = "broker" THEN Append(turns, StopJob) ELSE turns
<1>1. turns \in Seq(Job)
  BY DEF TypeOK
<1>2. turns' = turns \o (IF stopAt = "broker" THEN <<StopJob>> ELSE <<>>)
  BY JobsAre DEF BrokerEnds, Ended
<1> QED
  BY <1>1, <1>2, JobsAre, QueueGrows

\* The queue and what came out of it stay sequences of jobs and messages.
LEMMA SequencesStep ==
    ASSUME TypeOK, [Next]_vars
    PROVE  turns' \in Seq(Job) /\ published' \in Seq(Message)
<1>0. turns \in Seq(Job) /\ published \in Seq(Message)
  BY DEF TypeOK
<1>1. CASE Wait
  BY <1>0, <1>1, WaitIs, QueueMoves DEF Wait
<1>2. CASE HandleRawMessage
  BY <1>0, <1>2, HandleRawMessageIs, QueueMoves DEF HandleRawMessage
<1>3. CASE HandleSIFMessage
  <2>1. turns # <<>> /\ turns' = Tail(turns)
        /\ \E m \in Message : published' = Append(published, m)
    BY <1>3, HandleSIFMessageIs
  <2> QED
    BY <1>0, <2>1, HeadTailProperties, AppendProperties
<1>4. CASE Resume
  BY <1>0, <1>4, ResumeIs, QueueMoves, JobsAre DEF Resume
<1>5. CASE BrokerEnds
  <2>1. /\ turns' = IF stopAt = "broker" THEN Append(turns, StopJob) ELSE turns
        /\ published' = published
    BY <1>5, BrokerEndsIs DEF BrokerEnds
  <2>2. Append(turns, StopJob) \in Seq(Job)
    BY <1>0, JobsAre, AppendProperties
  <2> QED
    BY <1>0, <2>1, <2>2
<1>6. ASSUME NEW device \in Devices, NEW type \in Types, Receive(device, type)
      PROVE  turns' \in Seq(Job) /\ published' \in Seq(Message)
  <2>1. \E job \in Job : turns' = Append(turns, job)
    BY <1>6, ReceiveIs
  <2>2. published' = published
    BY <1>6 DEF Receive
  <2> QED
    BY <1>0, <2>1, <2>2, AppendProperties
<1>7. CASE UNCHANGED <<turns, published>>
  BY <1>0, <1>7
<1> QED
  BY <1>1, <1>2, <1>3, <1>4, <1>5, <1>6, <1>7
     DEF Next, vars, pipeline, Start, DatabaseAnswers, PartAnswers, StopAnswers, BrokerFails,
         BrokerConnects, Subscribed, LinkCloses, Reconnect, Signal, RelayLinkChanges

LEMMA TypeStep ==
    ASSUME TypeOK, Phases, [Next]_vars
    PROVE  TypeOK'
<1>0. turns' \in Seq(Job) /\ published' \in Seq(Message)
  BY SequencesStep
<1> USE ApplicationAssumption
<1>1. CASE Start
  <2>1. StartProceeds("new", {}) /\ {} \in SUBSET Parts
    BY <1>1 DEF Start
  <2>2. /\ startAt' \in Milestones /\ running' \subseteq Parts
        /\ link' \in Links /\ relayLink' \in RelayLinks
    BY <2>1, StartProceedsIs
  <2> QED
    BY <1>0, <1>1, <2>2 DEF Start, TypeOK, Links, RelayLinks, pipeline, process, fixed
<1>2. ASSUME NEW ok \in BOOLEAN, DatabaseAnswers(ok)
      PROVE  TypeOK'
  <2>1. StartProceeds("database", IF ok THEN {"writer"} ELSE {})
    BY <1>2 DEF DatabaseAnswers
  <2>2. (IF ok THEN {"writer"} ELSE {}) \in SUBSET Parts
    BY DEF Parts
  <2>3. /\ startAt' \in Milestones /\ running' \subseteq Parts
        /\ link' \in Links /\ relayLink' \in RelayLinks
    BY <2>1, <2>2, StartProceedsIs
  <2> QED
    BY <1>0, <1>2, <2>3 DEF DatabaseAnswers, TypeOK, Links, RelayLinks, pipeline, process, fixed
<1>3. ASSUME NEW p \in {"api", "relay", "websocket"}, NEW ok \in BOOLEAN, PartAnswers(p, ok)
      PROVE  TypeOK'
  <2>1. StartProceeds(p, IF ok THEN {p} ELSE {})
    BY <1>3 DEF PartAnswers
  <2>2. (IF ok THEN {p} ELSE {}) \in SUBSET Parts
    BY DEF Parts
  <2>3. /\ startAt' \in Milestones /\ running' \subseteq Parts
        /\ link' \in Links /\ relayLink' \in RelayLinks
    BY <2>1, <2>2, StartProceedsIs
  <2> QED
    BY <1>0, <1>3, <2>3 DEF PartAnswers, TypeOK, Links, RelayLinks, pipeline, process, fixed
<1>4. CASE Subscribed
  <2>1. topics' \in 0 .. 2
    BY <1>4 DEF Subscribed, TypeOK
  <2>2. CASE topics' = 2 /\ startAt = "broker"
    <3>1. StartProceeds("broker", {}) /\ {} \in SUBSET Parts
      BY <1>4, <2>2 DEF Subscribed
    <3>2. /\ startAt' \in Milestones /\ running' \subseteq Parts
          /\ link' \in Links /\ relayLink' \in RelayLinks
      BY <3>1, StartProceedsIs
    <3> QED
      BY <1>0, <1>4, <2>1, <3>2 DEF Subscribed, TypeOK, Links, RelayLinks, pipeline, process, fixed
  <2>3. CASE ~(topics' = 2 /\ startAt = "broker")
    BY <1>0, <1>4, <2>1, <2>3 DEF Subscribed, TypeOK, pipeline, process, fixed
  <2> QED
    BY <2>2, <2>3
<1>5. CASE Reconnect
  <2>1. attempts' \in 0 .. MaxAttempts + 1
    BY <1>5 DEF Reconnect, TypeOK, Phases
  <2> QED
    BY <1>0, <1>5, <2>1 DEF Reconnect, TypeOK, pipeline, process, fixed
<1>6. CASE Signal
  <2>1. signals' \in 0 .. MaxSignals
    <3>1. signals < MaxSignals /\ signals' = signals + 1 /\ signals \in 0 .. MaxSignals
      BY <1>6 DEF Signal, TypeOK
    <3> QED
      BY <3>1
  <2>2. early' \in BOOLEAN /\ isRunning' \in BOOLEAN /\ connected' \in BOOLEAN
    BY <1>6 DEF Signal, TypeOK
  <2>3. UNCHANGED <<enabled, suoRepository, startAt, attempts, topics, received>>
    BY <1>6 DEF Signal, pipeline, fixed
  <2>4. /\ stopAt' \in Stops \cup {"no", "resuming"} /\ running' \subseteq Parts
        /\ relayLink' \in RelayLinks /\ exited' \in {"no", "0", "1"}
        /\ link' \in Links /\ isConnected' \in BOOLEAN
    <3>1. CASE isRunning /\ ~isConnected
      <4>1. /\ StopProceeds("broker") /\ "broker" \in Stops \ {"done"}
            /\ UNCHANGED <<link, isConnected>>
        BY <1>6, <3>1, StopOrderIs DEF Signal, Stops
      <4> QED
        BY <4>1, StopProceedsIs DEF TypeOK, Links
    <3>2. CASE isRunning /\ isConnected
      <4>1. /\ stopAt' = "broker" /\ link' = "ending" /\ "broker" \in Stops
            /\ UNCHANGED <<running, isConnected, relayLink, exited>>
        BY <1>6, <3>2, StopOrderIs DEF Signal, Stops
      <4> QED
        BY <4>1 DEF TypeOK, Links, RelayLinks
    <3>3. CASE ~isRunning
      <4>1. exited' = "0" /\ UNCHANGED <<stopAt, running, link, isConnected, relayLink>>
        BY <1>6, <3>3 DEF Signal
      <4> QED
        BY <4>1 DEF TypeOK, Links, RelayLinks
    <3> QED
      BY <3>1, <3>2, <3>3
  <2> QED
    BY <1>0, <2>1, <2>2, <2>3, <2>4 DEF TypeOK, Links, RelayLinks
<1>7. CASE Resume
  <2>1. StopProceeds("broker") /\ "broker" \in Stops \ {"done"}
    BY <1>7, StopOrderIs DEF Resume, Stops
  <2>2. /\ stopAt' \in Stops \ {"broker"} /\ running' \subseteq Parts
        /\ relayLink' \in RelayLinks /\ exited' \in {"no", "0", "1"}
    BY <2>1, StopProceedsIs DEF TypeOK
  <2> QED
    BY <1>0, <1>7, <2>2 DEF Resume, TypeOK, RelayLinks, broker, fixed
<1>8. ASSUME NEW p \in {"writer", "database", "webhook", "websocket", "relay", "api"},
             NEW ok \in BOOLEAN, StopAnswers(p, ok)
      PROVE  TypeOK'
  <2>1. connected' \in BOOLEAN
    BY <1>8 DEF StopAnswers, TypeOK
  <2>2. CASE ok
    <3>1. StopProceeds(p) /\ p \in Stops \ {"done"}
      BY <1>8, <2>2, StopOrderIs DEF StopAnswers, Stops
    <3>2. /\ stopAt' \in Stops \ {"broker"} /\ running' \subseteq Parts
          /\ relayLink' \in RelayLinks /\ exited' \in {"no", "0", "1"}
      BY <3>1, StopProceedsIs DEF TypeOK
    <3> QED
      BY <1>0, <1>8, <2>1, <3>2 DEF StopAnswers, TypeOK, RelayLinks, broker, pipeline, fixed
  <2>3. CASE ~ok
    BY <1>0, <1>8, <2>1, <2>3 DEF StopAnswers, TypeOK, broker, pipeline, fixed
  <2> QED
    BY <2>2, <2>3
<1>9. ASSUME NEW device \in Devices, NEW type \in Types, Receive(device, type)
      PROVE  TypeOK'
  <2>1. received' \in 0 .. MaxMessages
    <3>1. received' \in 1 .. MaxMessages
      BY <1>9, ReceiveIs
    <3> QED
      BY <3>1
  <2> QED
    BY <1>0, <1>9, <2>1 DEF Receive, TypeOK, broker, process, fixed
<1>10. CASE BrokerEnds
  <2>1. /\ link' = "none" /\ isConnected' \in BOOLEAN /\ topics' = 0
        /\ stopAt' \in {stopAt, "resuming"}
        /\ UNCHANGED <<enabled, suoRepository, isRunning, startAt, running, connected, attempts,
                       relayLink, received, signals, early, exited>>
    BY <1>10 DEF BrokerEnds, process, fixed
  <2> QED
    BY <1>0, <2>1 DEF TypeOK
<1>11. CASE BrokerFails \/ BrokerConnects \/ LinkCloses \/ RelayLinkChanges
  <2>1. /\ exited' \in {exited, "1"} /\ link' \in {link, "up", "down"}
        /\ attempts' \in {attempts, 0} /\ topics' \in {topics, 0}
        /\ relayLink' \in {relayLink, "up", "down"}
    BY <1>11
       DEF BrokerFails, BrokerConnects, LinkCloses, RelayLinkChanges, broker, process
  <2>3. isConnected' \in BOOLEAN
    BY <1>11 DEF BrokerFails, BrokerConnects, LinkCloses, RelayLinkChanges, broker, TypeOK
  <2>2. UNCHANGED <<enabled, suoRepository, isRunning, startAt, stopAt, running, connected,
                    received, signals, early>>
    BY <1>11
       DEF BrokerFails, BrokerConnects, LinkCloses, RelayLinkChanges, pipeline, process, fixed
  <2> QED
    BY <1>0, <2>1, <2>2, <2>3 DEF TypeOK
<1>12. CASE Wait \/ HandleRawMessage \/ HandleSIFMessage
  <2>1. UNCHANGED <<enabled, suoRepository, isRunning, startAt, stopAt, running, connected, link,
                    isConnected, attempts, topics, relayLink, received, signals, early, exited>>
    BY <1>12 DEF Wait, HandleRawMessage, HandleSIFMessage, broker, process, fixed
  <2> QED
    BY <1>0, <2>1 DEF TypeOK
<1>13. CASE UNCHANGED vars
  BY <1>0, <1>13 DEF vars, TypeOK, broker, pipeline, process, fixed
<1> QED
  BY <1>1, <1>2, <1>3, <1>4, <1>5, <1>6, <1>7, <1>8, <1>9, <1>10, <1>11, <1>12, <1>13 DEF Next

-----------------------------------------------------------------------------
(* Phases.                                                                 *)

\* What leaves the phases alone.
PhasesKept ==
    UNCHANGED <<isRunning, startAt, stopAt, running, link, isConnected, attempts, topics, signals,
                early>>

LEMMA KeepingPhases ==
    ASSUME Phases, PhasesKept
    PROVE  Phases'
BY DEF Phases, PhasesKept, Starting

\* Resume comes when stop() waits for its turn.
LEMMA ResumeIsAwaited ==
    ASSUME TypeOK, Resuming, Resume
    PROVE  stopAt = "resuming"
<1>1. 1 \in DOMAIN turns /\ turns[1].do = "stop"
  <2>1. turns # <<>> /\ turns[1].do = "stop" /\ turns \in Seq(Job)
    BY ResumeIs DEF TypeOK
  <2> QED
    BY <2>1, EmptySeq, SequencesAre
<1> QED
  BY <1>1 DEF Resuming, IsMessage

LEMMA PhasesStep ==
    ASSUME TypeOK, Phases, Resuming, [Next]_vars
    PROVE  Phases'
<1> USE ApplicationAssumption
<1>0. signals \in Nat /\ attempts \in Nat /\ stopAt \in Stops \cup {"no", "resuming"}
  BY DEF TypeOK
<1>1. CASE Start
  <2>1. StartProceeds("new", {}) /\ {} \in SUBSET Parts
    BY <1>1 DEF Start
  <2>2. /\ startAt' \in {"database", "broker"}
        /\ startAt' = "broker" => link' = "connecting"
        /\ startAt' # "broker" => link' = link
    BY <2>1, StartProceedsIs
  <2>3. /\ startAt = "new" /\ isRunning' = TRUE
        /\ UNCHANGED <<stopAt, isConnected, attempts, topics, signals, early>>
    BY <1>1 DEF Start, process
  <2> QED
    BY <1>0, <2>2, <2>3 DEF Phases, Starting
<1>2. ASSUME NEW ok \in BOOLEAN, DatabaseAnswers(ok)
      PROVE  Phases'
  <2>1. StartProceeds("database", IF ok THEN {"writer"} ELSE {})
    BY <1>2 DEF DatabaseAnswers
  <2>2. (IF ok THEN {"writer"} ELSE {}) \in SUBSET Parts
    BY DEF Parts
  <2>3. startAt' = "broker" /\ link' = "connecting"
    BY <2>1, <2>2, StartProceedsIs
  <2>4. /\ startAt = "database"
        /\ UNCHANGED <<isRunning, stopAt, isConnected, attempts, topics, signals, early>>
    BY <1>2 DEF DatabaseAnswers, process
  <2> QED
    BY <1>0, <2>3, <2>4 DEF Phases, Starting
<1>3. ASSUME NEW p \in {"api", "relay", "websocket"}, NEW ok \in BOOLEAN, PartAnswers(p, ok)
      PROVE  Phases'
  <2>1. StartProceeds(p, IF ok THEN {p} ELSE {})
    BY <1>3 DEF PartAnswers
  <2>2. (IF ok THEN {p} ELSE {}) \in SUBSET Parts
    BY DEF Parts
  <2>3. startAt' \in Starting /\ link' = link
    BY <2>1, <2>2, StartProceedsIs
  <2>4. /\ startAt = p /\ startAt \in Starting
        /\ UNCHANGED <<isRunning, stopAt, isConnected, attempts, topics, signals, early>>
    BY <1>3 DEF PartAnswers, process, Starting
  <2> QED
    BY <1>0, <2>3, <2>4 DEF Phases, Starting
<1>4. CASE Subscribed
  <2>1. link = "up" /\ UNCHANGED <<isRunning, stopAt, isConnected, attempts, signals, early>>
    BY <1>4 DEF Subscribed, process
  <2>2. CASE topics' = 2 /\ startAt = "broker"
    <3>1. StartProceeds("broker", {}) /\ {} \in SUBSET Parts
      BY <1>4, <2>2 DEF Subscribed
    <3>2. startAt' \in Starting /\ link' = link
      BY <3>1, StartProceedsIs
    <3> QED
      BY <1>0, <2>1, <2>2, <3>2 DEF Phases, Starting
  <2>3. CASE ~(topics' = 2 /\ startAt = "broker")
    <3>1. UNCHANGED <<startAt, running, link>>
      BY <1>4, <2>3 DEF Subscribed
    <3> QED
      BY <1>0, <2>1, <3>1 DEF Phases, Starting
  <2> QED
    BY <2>2, <2>3
<1>5. CASE Reconnect
  <2>1. /\ link \in {"connecting", "down"} /\ attempts' = attempts + 1
        /\ link' = IF attempts' > MaxAttempts THEN "ending" ELSE link
        /\ UNCHANGED <<isRunning, startAt, stopAt, running, isConnected, topics, signals, early>>
    BY <1>5 DEF Reconnect, process, GivesUp
  <2> QED
    BY <1>0, <2>1 DEF Phases, Starting
<1>6. CASE Signal
  <2>1. /\ startAt # "new" /\ signals' = signals + 1 /\ ~isRunning'
        /\ early' = IF signals = 0 THEN startAt # "done" ELSE early
        /\ UNCHANGED <<startAt, attempts, topics>>
    BY <1>6 DEF Signal
  <2>2. CASE isRunning /\ ~isConnected
    <3>1. StopProceeds("broker") /\ "broker" \in Stops \ {"done"} /\ UNCHANGED <<link, isConnected>>
      BY <1>6, <2>2, StopOrderIs DEF Signal, Stops
    <3>2. stopAt' \in Stops \ {"broker"}
      BY <3>1, StopProceedsIs
    <3>3. stopAt' \notin {"no", "broker", "resuming"}
      BY <3>2, StopOrderIs DEF Stops
    <3>4. signals = 0
      BY <2>2 DEF Phases
    <3>5. startAt # "new" /\ signals' = 1 /\ ~isRunning' /\ UNCHANGED <<startAt, attempts, topics>>
      BY <2>1, <3>4
    <3>6. ~early' => startAt = "done"
      BY <2>1, <3>4
    <3> QED
      BY <1>0, <2>2, <3>1, <3>3, <3>4, <3>5, <3>6 DEF Phases, Starting
  <2>3. CASE isRunning /\ isConnected
    <3>1. stopAt' = "broker" /\ link' = "ending" /\ UNCHANGED <<running, isConnected>>
      BY <1>6, <2>3 DEF Signal
    <3>2. signals = 0
      BY <2>3 DEF Phases
    <3>3. startAt # "new" /\ signals' = 1 /\ ~isRunning' /\ UNCHANGED <<startAt, attempts, topics>>
      BY <2>1, <3>2
    <3>4. ~early' => startAt = "done"
      BY <2>1, <3>2
    <3> QED
      BY <1>0, <2>3, <3>1, <3>2, <3>3, <3>4 DEF Phases, Starting
  <2>4. CASE ~isRunning
    <3>1. UNCHANGED <<stopAt, running, link, isConnected>>
      BY <1>6, <2>4 DEF Signal
    <3>2. signals > 0
      BY <1>0, <2>1, <2>4 DEF Phases
    <3> QED
      BY <1>0, <2>1, <2>4, <3>1, <3>2 DEF Phases, Starting
  <2> QED
    BY <2>2, <2>3, <2>4
<1>7. CASE Resume
  <2>1. stopAt = "resuming"
    BY <1>7, ResumeIsAwaited
  <2>2. StopProceeds("broker") /\ "broker" \in Stops \ {"done"}
    BY <1>7, StopOrderIs DEF Resume, Stops
  <2>3. stopAt' \in Stops \ {"broker"}
    BY <2>2, StopProceedsIs
  <2>4. stopAt' \notin {"no", "broker", "resuming"}
    BY <2>3, StopOrderIs DEF Stops
  <2>5. UNCHANGED <<isRunning, startAt, link, isConnected, attempts, topics, signals, early>>
    BY <1>7 DEF Resume, broker
  <2> QED
    BY <1>0, <2>1, <2>4, <2>5 DEF Phases, Starting
<1>8. ASSUME NEW p \in {"writer", "database", "webhook", "websocket", "relay", "api"},
             NEW ok \in BOOLEAN, StopAnswers(p, ok)
      PROVE  Phases'
  <2>1. /\ stopAt = p
        /\ UNCHANGED <<isRunning, startAt, link, isConnected, attempts, topics, signals, early>>
    BY <1>8 DEF StopAnswers, broker
  <2>2. stopAt' \notin {"no", "broker", "resuming"} /\ (startAt = "new" => running' = running)
    <3>1. startAt # "new"
      BY <1>0, <2>1 DEF Phases
    <3>2. CASE ok
      <4>1. StopProceeds(p) /\ p \in Stops \ {"done"}
        BY <1>8, <3>2, StopOrderIs DEF StopAnswers, Stops
      <4>2. stopAt' \in Stops \ {"broker"}
        BY <4>1, StopProceedsIs
      <4> QED
        BY <3>1, <4>2, StopOrderIs DEF Stops
    <3>3. CASE ~ok
      BY <1>8, <2>1, <3>1, <3>3 DEF StopAnswers
    <3> QED
      BY <3>2, <3>3
  <2> QED
    BY <1>0, <2>1, <2>2 DEF Phases, Starting
<1>9. ASSUME NEW device \in Devices, NEW type \in Types, Receive(device, type)
      PROVE  Phases'
  BY <1>9, KeepingPhases DEF Receive, PhasesKept, broker, process
<1>10. CASE BrokerEnds
  <2>1. /\ link = "ending" /\ link' = "none" /\ ~isConnected' /\ topics' = 0
        /\ stopAt' = IF stopAt = "broker" THEN "resuming" ELSE stopAt
        /\ UNCHANGED <<isRunning, startAt, running, attempts, signals, early>>
    BY <1>10 DEF BrokerEnds, process
  <2> QED
    BY <1>0, <2>1 DEF Phases, Starting
<1>11. CASE BrokerConnects
  <2>1. /\ link \in {"connecting", "down"} /\ link' = "up" /\ isConnected' /\ attempts' = 0
        /\ UNCHANGED <<isRunning, startAt, stopAt, running, topics, signals, early>>
    BY <1>11 DEF BrokerConnects, process
  <2> QED
    BY <1>0, <2>1 DEF Phases, Starting
<1>12. CASE LinkCloses
  <2>1. /\ link = "up" /\ link' = "down" /\ topics' = 0
        /\ UNCHANGED <<isRunning, startAt, stopAt, running, isConnected, attempts, signals, early>>
    BY <1>12 DEF LinkCloses, process
  <2> QED
    BY <1>0, <2>1 DEF Phases, Starting
<1>13. CASE BrokerFails \/ RelayLinkChanges
  BY <1>13, KeepingPhases DEF BrokerFails, RelayLinkChanges, PhasesKept, broker, process
<1>14. CASE Wait \/ HandleRawMessage \/ HandleSIFMessage
  BY <1>14, KeepingPhases
     DEF Wait, HandleRawMessage, HandleSIFMessage, PhasesKept, broker, process
<1>15. CASE UNCHANGED vars
  BY <1>15, KeepingPhases DEF vars, PhasesKept, broker, process
<1> QED
  BY <1>1, <1>2, <1>3, <1>4, <1>5, <1>6, <1>7, <1>8, <1>9, <1>10, <1>11, <1>12, <1>13, <1>14,
     <1>15 DEF Next

-----------------------------------------------------------------------------
(* The order of messages.                                                  *)

\* Messages that stay or move up keep their order.
Shifted(d) ==
    \A i \in DOMAIN turns' :
        /\ i \in Nat
        /\ IsMessage(turns'[i]) => i + d \in DOMAIN turns /\ turns'[i] = turns[i + d]

LEMMA ShiftedTurns ==
    ASSUME Ordered, NEW d \in {0, 1}, Shifted(d), received' = received
    PROVE  /\ \A i \in DOMAIN turns' :
                IsMessage(turns'[i]) => turns'[i].left = 0 /\ turns'[i].m.n <= received'
           /\ \A i, j \in DOMAIN turns' :
                i < j /\ IsMessage(turns'[i]) /\ turns'[i].do = turns'[j].do =>
                    turns'[i].m.n < turns'[j].m.n
           /\ \A i, j \in DOMAIN turns' :
                turns'[i].do = "normalize" /\ turns'[j].do = "parse" =>
                    turns'[i].m.n < turns'[j].m.n
<1>1. \A i \in DOMAIN turns' :
        IsMessage(turns'[i]) => turns'[i].left = 0 /\ turns'[i].m.n <= received'
  BY DEF Shifted, Ordered
<1>2. ASSUME NEW i \in DOMAIN turns', NEW j \in DOMAIN turns', i < j, IsMessage(turns'[i]),
             turns'[i].do = turns'[j].do
      PROVE  turns'[i].m.n < turns'[j].m.n
  <2>1. IsMessage(turns'[j])
    BY <1>2 DEF IsMessage
  <2>2. /\ i + d \in DOMAIN turns /\ turns'[i] = turns[i + d]
        /\ j + d \in DOMAIN turns /\ turns'[j] = turns[j + d]
        /\ i + d < j + d
    BY <1>2, <2>1 DEF Shifted
  <2> QED
    BY <1>2, <2>2 DEF Ordered
<1>3. ASSUME NEW i \in DOMAIN turns', NEW j \in DOMAIN turns', turns'[i].do = "normalize",
             turns'[j].do = "parse"
      PROVE  turns'[i].m.n < turns'[j].m.n
  <2>1. IsMessage(turns'[i]) /\ IsMessage(turns'[j])
    BY <1>3 DEF IsMessage
  <2>2. /\ i + d \in DOMAIN turns /\ turns'[i] = turns[i + d]
        /\ j + d \in DOMAIN turns /\ turns'[j] = turns[j + d]
    BY <2>1 DEF Shifted
  <2> QED
    BY <1>3, <2>2 DEF Ordered
<1> QED
  BY <1>1, <1>2, <1>3

LEMMA ShiftedOrder ==
    ASSUME Ordered, NEW d \in {0, 1}, Shifted(d), UNCHANGED <<published, received>>
    PROVE  Ordered'
<1>1. \A i \in DOMAIN published', j \in DOMAIN turns' :
        IsMessage(turns'[j]) => published'[i].n < turns'[j].m.n
  BY DEF Shifted, Ordered
<1> QED
  BY <1>1, ShiftedTurns DEF Ordered, IsMessage

LEMMA OrderedStep ==
    ASSUME TypeOK, Ordered, [Next]_vars
    PROVE  Ordered'
<1>0. turns \in Seq(Job) /\ published \in Seq(Message) /\ received \in Nat
  BY ApplicationAssumption DEF TypeOK
<1> DEFINE n == Len(turns)
<1>q. n \in Nat /\ DOMAIN turns = 1 .. n /\ \A i \in 1 .. n : turns[i] \in Job
  BY SequencesAre
<1>n. \A i \in 1 .. n : IsMessage(turns[i]) => turns[i].m.n \in Nat
  BY <1>q, JobsAre DEF Message
<1>1. CASE Wait
  <2> DEFINE job == [turns[1] EXCEPT !.left = @ - 1]
  <2>1. turns # <<>> /\ turns[1].left > 0 /\ turns' = Append(Tail(turns), job) /\ job \in Job
    BY <1>1, WaitIs
  <2>2. n \in Nat \ {0}
    BY <1>0, <2>1, QueueMoves, JobsAre
  <2>3. ~IsMessage(turns[1])
    BY <1>q, <2>1, <2>2 DEF Ordered
  <2>4. ~IsMessage(job) /\ job.do = "stop"
    BY <1>q, <2>2, <2>3 DEF IsMessage, Job
  <2>5. /\ DOMAIN turns' = 1 .. n /\ turns'[n] = job
        /\ \A i \in 1 .. n - 1 : turns'[i] = turns[i + 1]
    BY <1>0, <2>1, QueueMoves
  <2>6. UNCHANGED <<published, received>>
    BY <1>1 DEF Wait
  <2> HIDE DEF n, job
  <2>7. Shifted(1)
    BY <1>q, <2>2, <2>4, <2>5 DEF Shifted
  <2> QED
    BY <2>6, <2>7, ShiftedOrder
<1>2. CASE HandleRawMessage
  <2> DEFINE job == [turns[1] EXCEPT !.do = "normalize"]
  <2>1. /\ turns # <<>> /\ turns[1].do = "parse" /\ job \in Job
        /\ turns' = Tail(turns) \/ turns' = Append(Tail(turns), job)
    BY <1>2, HandleRawMessageIs
  <2>2. n \in Nat \ {0}
    BY <1>0, <2>1, QueueMoves
  <2>3. /\ job.do = "normalize" /\ job.left = turns[1].left /\ job.m = turns[1].m
        /\ IsMessage(turns[1]) /\ IsMessage(job)
    BY <1>q, <2>1, <2>2 DEF IsMessage, Job
  <2>4. UNCHANGED <<published, received>>
    BY <1>2 DEF HandleRawMessage
  <2>5. \A j \in 2 .. n :
          /\ turns[j].do = "parse" => turns[1].m.n < turns[j].m.n
          /\ turns[j].do = "normalize" => turns[j].m.n < turns[1].m.n
    BY <1>q, <2>1, <2>2, <2>3 DEF Ordered
  <2>6. CASE turns' = Tail(turns)
    <3>1. DOMAIN turns' = 1 .. n - 1 /\ \A i \in 1 .. n - 1 : turns'[i] = turns[i + 1]
      BY <1>0, <2>1, <2>6, QueueMoves
    <3> HIDE DEF n
    <3>2. Shifted(1)
      BY <1>q, <2>2, <3>1 DEF Shifted
    <3> QED
      BY <2>4, <3>2, ShiftedOrder
  <2>7. CASE turns' = Append(Tail(turns), job)
    <3>1. /\ DOMAIN turns' = 1 .. n /\ turns'[n] = job
          /\ \A i \in 1 .. n - 1 : turns'[i] = turns[i + 1]
      BY <1>0, <2>1, <2>7, QueueMoves
    <3> HIDE DEF n, job
    <3>2. \A i \in DOMAIN turns' :
            IsMessage(turns'[i]) => turns'[i].left = 0 /\ turns'[i].m.n <= received'
      BY <1>q, <2>2, <2>3, <2>4, <3>1 DEF Ordered
    <3>3. \A i, j \in DOMAIN turns' :
            i < j /\ IsMessage(turns'[i]) /\ turns'[i].do = turns'[j].do =>
                turns'[i].m.n < turns'[j].m.n
      <4> SUFFICES ASSUME NEW i \in 1 .. n, NEW j \in 1 .. n, i < j, IsMessage(turns'[i]),
                          turns'[i].do = turns'[j].do
                   PROVE  turns'[i].m.n < turns'[j].m.n
        BY <3>1
      <4>1. i \in 1 .. n - 1 /\ turns'[i] = turns[i + 1] /\ i + 1 \in 2 .. n
        BY <2>2, <3>1
      <4>2. CASE j = n
        BY <2>3, <2>5, <3>1, <4>1, <4>2
      <4>3. CASE j # n
        <5>1. /\ i + 1 \in DOMAIN turns /\ j + 1 \in DOMAIN turns /\ i + 1 < j + 1
              /\ turns'[j] = turns[j + 1]
          BY <1>q, <2>2, <3>1, <4>1, <4>3
        <5>2. IsMessage(turns[i + 1]) /\ turns[i + 1].do = turns[j + 1].do
          BY <4>1, <5>1
        <5>3. turns[i + 1].m.n < turns[j + 1].m.n
          BY <5>1, <5>2 DEF Ordered
        <5> QED
          BY <4>1, <5>1, <5>3
      <4> QED
        BY <4>2, <4>3
    <3>4. \A i, j \in DOMAIN turns' :
            turns'[i].do = "normalize" /\ turns'[j].do = "parse" => turns'[i].m.n < turns'[j].m.n
      <4> SUFFICES ASSUME NEW i \in 1 .. n, NEW j \in 1 .. n, turns'[i].do = "normalize",
                          turns'[j].do = "parse"
                   PROVE  turns'[i].m.n < turns'[j].m.n
        BY <3>1
      <4>1. j \in 1 .. n - 1 /\ turns'[j] = turns[j + 1] /\ j + 1 \in 2 .. n
        BY <2>2, <2>3, <3>1
      <4>2. CASE i = n
        <5>1. turns[j + 1].do = "parse" /\ turns'[i].m = turns[1].m
          BY <2>3, <3>1, <4>1, <4>2
        <5>2. turns[1].m.n < turns[j + 1].m.n
          BY <2>5, <4>1, <5>1
        <5>3. turns'[i].m.n = turns[1].m.n /\ turns'[j].m.n = turns[j + 1].m.n
          BY <4>1, <5>1
        <5> QED
          BY <5>2, <5>3
      <4>3. CASE i # n
        <5>1. /\ i + 1 \in DOMAIN turns /\ turns'[i] = turns[i + 1]
              /\ j + 1 \in DOMAIN turns
          BY <1>q, <2>2, <3>1, <4>1, <4>3
        <5>2. turns[i + 1].do = "normalize" /\ turns[j + 1].do = "parse"
          BY <4>1, <5>1
        <5>3. turns[i + 1].m.n < turns[j + 1].m.n
          BY <5>1, <5>2 DEF Ordered
        <5> QED
          BY <4>1, <5>1, <5>3
      <4> QED
        BY <4>2, <4>3
    <3>5. \A i \in DOMAIN published', j \in DOMAIN turns' :
            IsMessage(turns'[j]) => published'[i].n < turns'[j].m.n
      BY <1>q, <2>2, <2>3, <2>4, <3>1 DEF Ordered
    <3> QED
      BY <2>4, <3>2, <3>3, <3>4, <3>5 DEF Ordered, IsMessage
  <2> QED
    BY <2>1, <2>6, <2>7
<1>3. CASE HandleSIFMessage
  <2> DEFINE m == turns[1].m
             k == Len(published)
  <2>1. /\ turns # <<>> /\ turns[1].do = "normalize" /\ m \in Message
        /\ turns' = Tail(turns) /\ published' = Append(published, m)
    BY <1>3, HandleSIFMessageIs
  <2>2. /\ n \in Nat \ {0} /\ DOMAIN turns' = 1 .. n - 1
        /\ \A i \in 1 .. n - 1 : turns'[i] = turns[i + 1]
    BY <1>0, <2>1, QueueMoves, JobsAre
  <2>3. /\ k \in Nat /\ DOMAIN published = 1 .. k /\ DOMAIN published' = 1 .. k + 1
        /\ published'[k + 1] = m /\ \A i \in 1 .. k : published'[i] = published[i]
    BY <1>0, <2>1, QueueGrows, SequencesAre
  <2>4. received' = received
    BY <1>3 DEF HandleSIFMessage
  <2>5. IsMessage(turns[1]) /\ 1 \in DOMAIN turns
    BY <1>q, <2>1, <2>2 DEF IsMessage
  <2>6. \A j \in 2 .. n : IsMessage(turns[j]) => m.n < turns[j].m.n
    <3>1. \A j \in 2 .. n : IsMessage(turns[j]) => turns[j].do \in {"normalize", "parse"}
      BY <1>q, JobsAre DEF IsMessage
    <3> HIDE DEF n
    <3> QED
      BY <1>q, <2>1, <2>5, <3>1 DEF Ordered
  <2>7. m.n <= received /\ \A i \in 1 .. k : published[i].n < m.n
    BY <2>3, <2>5 DEF Ordered
  <2> HIDE DEF n, m, k
  <2>8. /\ \A i \in DOMAIN published' : published'[i].n <= received'
        /\ \A i, j \in DOMAIN published' : i < j => published'[i].n < published'[j].n
    BY <2>3, <2>4, <2>7 DEF Ordered
  <2>9. \A i \in DOMAIN published', j \in DOMAIN turns' :
          IsMessage(turns'[j]) => published'[i].n < turns'[j].m.n
    <3> SUFFICES ASSUME NEW i \in 1 .. k + 1, NEW j \in 1 .. n - 1, IsMessage(turns[j + 1])
                 PROVE  published'[i].n < turns[j + 1].m.n
      BY <2>2, <2>3
    <3>1. j + 1 \in 2 .. n /\ j + 1 \in DOMAIN turns
      BY <1>q, <2>2
    <3>2. CASE i = k + 1
      BY <2>3, <2>6, <3>1, <3>2
    <3>3. CASE i # k + 1
      BY <2>3, <3>1, <3>3 DEF Ordered
    <3> QED
      BY <3>2, <3>3
  <2>10. /\ \A i \in DOMAIN turns' :
              IsMessage(turns'[i]) => turns'[i].left = 0 /\ turns'[i].m.n <= received'
         /\ \A i, j \in DOMAIN turns' :
              i < j /\ IsMessage(turns'[i]) /\ turns'[i].do = turns'[j].do =>
                  turns'[i].m.n < turns'[j].m.n
         /\ \A i, j \in DOMAIN turns' :
              turns'[i].do = "normalize" /\ turns'[j].do = "parse" =>
                  turns'[i].m.n < turns'[j].m.n
    <3>1. Shifted(1)
      BY <1>q, <2>2 DEF Shifted
    <3> QED
      BY <2>4, <3>1, ShiftedTurns
  <2> QED
    BY <2>8, <2>9, <2>10 DEF Ordered, IsMessage
<1>4. CASE Resume
  <2>1. turns # <<>> /\ turns' = Tail(turns)
    BY <1>4, ResumeIs
  <2>2. /\ n \in Nat \ {0} /\ DOMAIN turns' = 1 .. n - 1
        /\ \A i \in 1 .. n - 1 : turns'[i] = turns[i + 1]
    BY <1>0, <2>1, QueueMoves, JobsAre
  <2>3. UNCHANGED <<published, received>>
    BY <1>4 DEF Resume
  <2> HIDE DEF n
  <2>4. Shifted(1)
    BY <1>q, <2>2 DEF Shifted
  <2> QED
    BY <2>3, <2>4, ShiftedOrder
<1>5. CASE BrokerEnds
  <2>1. turns' = IF stopAt = "broker" THEN Append(turns, StopJob) ELSE turns
    BY <1>5, BrokerEndsIs
  <2>2. UNCHANGED <<published, received>>
    BY <1>5 DEF BrokerEnds
  <2>3. CASE stopAt = "broker"
    <3>1. /\ DOMAIN turns' = 1 .. n + 1 /\ turns'[n + 1] = StopJob
          /\ \A i \in 1 .. n : turns'[i] = turns[i]
      BY <1>0, <2>1, <2>3, QueueGrows, JobsAre
    <3>2. ~IsMessage(turns'[n + 1]) /\ turns'[n + 1].do = "stop"
      BY <3>1 DEF IsMessage, StopJob
    <3> HIDE DEF n
    <3>3. Shifted(0)
      BY <1>q, <3>1, <3>2 DEF Shifted
    <3> QED
      BY <2>2, <3>3, ShiftedOrder
  <2>4. CASE stopAt # "broker"
    BY <2>1, <2>2, <2>4 DEF Ordered
  <2> QED
    BY <2>3, <2>4
<1>6. ASSUME NEW device \in Devices, NEW type \in Types, Receive(device, type)
      PROVE  Ordered'
  <2>1. PICK m \in Message :
          /\ m.n = received + 1 /\ received' = received + 1
          /\ turns' = Append(turns, [do |-> "parse", left |-> 0, m |-> m])
          /\ [do |-> "parse", left |-> 0, m |-> m] \in Job
    BY <1>6, ReceiveIs
  <2> DEFINE job == [do |-> "parse", left |-> 0, m |-> m]
  <2>2. /\ DOMAIN turns' = 1 .. n + 1 /\ turns'[n + 1] = job
        /\ \A i \in 1 .. n : turns'[i] = turns[i]
    BY <1>0, <2>1, QueueGrows
  <2>3. /\ job.do = "parse" /\ job.left = 0 /\ job.m.n = received + 1 /\ IsMessage(job)
    BY <2>1 DEF IsMessage
  <2>4. published' = published
    BY <1>6 DEF Receive
  <2>5. \A i \in 1 .. n : IsMessage(turns[i]) => turns[i].m.n < received + 1
    BY <1>0, <1>q, <1>n DEF Ordered
  <2>6. \A i \in DOMAIN published : published[i].n < received + 1
    <3>1. \A i \in DOMAIN published : published[i].n \in Nat
      BY SequencesAre DEF Message
    <3> QED
      BY <1>0, <3>1 DEF Ordered
  <2> HIDE DEF n, job
  <2>7. \A i \in DOMAIN turns' :
          IsMessage(turns'[i]) => turns'[i].left = 0 /\ turns'[i].m.n <= received'
    BY <1>0, <1>q, <1>n, <2>1, <2>2, <2>3 DEF Ordered
  <2>8. \A i, j \in DOMAIN turns' :
          i < j /\ IsMessage(turns'[i]) /\ turns'[i].do = turns'[j].do =>
              turns'[i].m.n < turns'[j].m.n
    BY <1>q, <2>2, <2>3, <2>5 DEF Ordered
  <2>9. \A i, j \in DOMAIN turns' :
          turns'[i].do = "normalize" /\ turns'[j].do = "parse" => turns'[i].m.n < turns'[j].m.n
    BY <1>q, <2>2, <2>3, <2>5 DEF Ordered, IsMessage
  <2>10. \A i \in DOMAIN published' : published'[i].n <= received'
    <3>1. \A i \in DOMAIN published : published[i].n \in Nat
      BY SequencesAre DEF Message
    <3> QED
      BY <1>0, <2>1, <2>4, <2>6, <3>1
  <2>11. \A i \in DOMAIN published', j \in DOMAIN turns' :
          IsMessage(turns'[j]) => published'[i].n < turns'[j].m.n
    BY <1>q, <2>2, <2>3, <2>4, <2>6 DEF Ordered
  <2> QED
    BY <2>4, <2>7, <2>8, <2>9, <2>10, <2>11 DEF Ordered, IsMessage
<1>7. CASE UNCHANGED <<turns, published, received>>
  BY <1>7 DEF Ordered
<1> QED
  BY <1>1, <1>2, <1>3, <1>4, <1>5, <1>6, <1>7
     DEF Next, vars, pipeline, Start, DatabaseAnswers, PartAnswers, StopAnswers, BrokerFails,
         BrokerConnects, Subscribed, LinkCloses, Reconnect, Signal, RelayLinkChanges

-----------------------------------------------------------------------------
(* The turn of stop().                                                     *)

LEMMA ResumingStep ==
    ASSUME TypeOK, Phases, Ordered, Resuming, [Next]_vars
    PROVE  Resuming'
<1>0. turns \in Seq(Job)
  BY DEF TypeOK
<1> DEFINE n == Len(turns)
<1>q. n \in Nat /\ DOMAIN turns = 1 .. n /\ \A i \in 1 .. n : turns[i] \in Job
  BY SequencesAre
<1>d. \A i \in 1 .. n : turns[i].do \in {"parse", "normalize", "stop"}
  BY <1>q, JobsAre
<1>e. turns # <<>> => n \in Nat \ {0}
  BY <1>0, EmptySeq
<1>1. CASE Wait
  <2> DEFINE job == [turns[1] EXCEPT !.left = @ - 1]
  <2>1. turns # <<>> /\ turns[1].left > 0 /\ turns' = Append(Tail(turns), job) /\ job \in Job
    BY <1>1, WaitIs
  <2>2. n \in Nat \ {0} /\ turns[1].do = "stop"
    BY <1>e, <1>q, <2>1 DEF Ordered, IsMessage
  <2>3. stopAt = "resuming"
    BY <1>q, <2>2 DEF Resuming, IsMessage
  <2>4. PICK k \in 1 .. n : ResumesIn(turns, k)
    BY <1>q, <2>3 DEF Resuming
  <2>5. k = 1 /\ turns[1].left = 1 /\ \A j \in 2 .. n : turns[j].do = "normalize"
    BY <1>q, <2>1, <2>2, <2>4 DEF ResumesIn
  <2>6. job.do = "stop" /\ job.left = 0
    BY <1>q, <2>2, <2>5 DEF Job
  <2>7. /\ DOMAIN turns' = 1 .. n /\ turns'[n] = job
        /\ \A i \in 1 .. n - 1 : turns'[i] = turns[i + 1]
    BY <1>0, <2>1, QueueMoves
  <2>8. UNCHANGED <<stopAt, early>>
    BY <1>1 DEF Wait, process
  <2> HIDE DEF n, job
  <2>9. \A j \in 1 .. n - 1 : turns'[j].do = "normalize"
    BY <2>2, <2>5, <2>7
  <2>10. n \in DOMAIN turns' /\ ResumesIn(turns', n)
    BY <2>2, <2>6, <2>7, <2>9 DEF ResumesIn
  <2> QED
    BY <2>3, <2>8, <2>10 DEF Resuming
<1>2. CASE HandleRawMessage
  <2> DEFINE job == [turns[1] EXCEPT !.do = "normalize"]
  <2>1. /\ turns # <<>> /\ turns[1].do = "parse" /\ job \in Job
        /\ turns' = Tail(turns) \/ turns' = Append(Tail(turns), job)
    BY <1>2, HandleRawMessageIs
  <2>2. n \in Nat \ {0} /\ job.do = "normalize"
    BY <1>e, <1>q, <2>1 DEF Job
  <2>3. \A i \in 1 .. n - 1 : turns'[i] = turns[i + 1]
    BY <1>0, <2>1, QueueMoves
  <2>4. PICK m \in {n - 1, n} : DOMAIN turns' = 1 .. m /\ (m = n => turns'[n] = job)
    <3>1. CASE turns' = Tail(turns)
      BY <1>0, <2>1, <2>2, <3>1, QueueMoves
    <3>2. CASE turns' = Append(Tail(turns), job)
      BY <1>0, <2>1, <3>2, QueueMoves
    <3> QED
      BY <2>1, <3>1, <3>2
  <2>5. UNCHANGED <<stopAt, early>>
    BY <1>2 DEF HandleRawMessage, process
  <2> HIDE DEF n, job
  <2>a. \A j \in DOMAIN turns' :
          \/ j \in 1 .. n - 1 /\ j + 1 \in 2 .. n /\ turns'[j] = turns[j + 1]
          \/ j = n /\ turns'[j].do = "normalize"
    BY <2>2, <2>3, <2>4
  <2>6. CASE stopAt = "resuming"
    <3>1. PICK k \in 1 .. n : ResumesIn(turns, k)
      BY <1>q, <2>6 DEF Resuming
    <3>2. k # 1 /\ turns[k].left = 1 /\ \A j \in 1 .. n : j > k => turns[j].do = "normalize"
      BY <1>q, <2>1, <2>2, <3>1 DEF ResumesIn
    <3>3. k - 1 \in DOMAIN turns' /\ turns'[k - 1] = turns[k] /\ k - 1 < n
      BY <2>2, <2>3, <2>4, <3>2
    <3>4. \A j \in DOMAIN turns' : j > k - 1 => turns'[j].do = "normalize"
      <4> SUFFICES ASSUME NEW j \in DOMAIN turns', j > k - 1
                   PROVE  turns'[j].do = "normalize"
        OBVIOUS
      <4>1. CASE j \in 1 .. n - 1 /\ j + 1 \in 2 .. n /\ turns'[j] = turns[j + 1]
        <5>1. j + 1 \in 1 .. n /\ j + 1 > k
          BY <2>2, <4>1
        <5> QED
          BY <3>2, <4>1, <5>1
      <4> QED
        BY <2>a, <4>1
    <3>5. \A j \in DOMAIN turns' : turns'[j].do = "stop" => j = k - 1
      <4> SUFFICES ASSUME NEW j \in DOMAIN turns', turns'[j].do = "stop"
                   PROVE  j = k - 1
        OBVIOUS
      <4>1. j \in 1 .. n - 1 /\ j + 1 \in 2 .. n /\ turns[j + 1].do = "stop"
        BY <2>a
      <4>2. j + 1 = k
        BY <1>q, <2>2, <3>1, <4>1 DEF ResumesIn
      <4> QED
        BY <2>2, <4>1, <4>2
    <3>6. ResumesIn(turns', k - 1)
      BY <3>1, <3>2, <3>3, <3>4, <3>5 DEF ResumesIn
    <3> QED
      BY <2>5, <2>6, <3>3, <3>6 DEF Resuming
  <2>7. CASE stopAt # "resuming"
    <3>1. \A i \in 1 .. n : turns[i].do # "stop"
      BY <1>q, <2>7 DEF Resuming, IsMessage
    <3>2. \A i \in DOMAIN turns' : turns'[i].do # "stop"
      BY <2>2, <2>a, <3>1
    <3> QED
      BY <1>q, <2>2, <2>5, <2>7, <3>2 DEF Resuming, IsMessage
  <2> QED
    BY <2>6, <2>7
<1>3. CASE HandleSIFMessage
  <2>1. turns # <<>> /\ turns[1].do = "normalize" /\ turns' = Tail(turns)
    BY <1>3, HandleSIFMessageIs
  <2>2. /\ n \in Nat \ {0} /\ DOMAIN turns' = 1 .. n - 1
        /\ \A i \in 1 .. n - 1 : turns'[i] = turns[i + 1]
    BY <1>0, <2>1, QueueMoves, JobsAre
  <2>3. UNCHANGED <<stopAt, early>>
    BY <1>3 DEF HandleSIFMessage, process
  <2> HIDE DEF n
  <2>4. CASE stopAt = "resuming"
    <3>1. PICK k \in 1 .. n : ResumesIn(turns, k)
      BY <1>q, <2>4 DEF Resuming
    <3>2. k # 1
      BY <2>1, <3>1 DEF ResumesIn
    <3>3. k - 1 \in DOMAIN turns' /\ turns'[k - 1] = turns[k]
      BY <2>2, <3>2
    <3>4. \A j \in DOMAIN turns' : turns'[j].do = "stop" => j = k - 1
      BY <1>q, <2>2, <3>1 DEF ResumesIn
    <3>5. \/ turns[k].left = 1 /\ \A j \in DOMAIN turns' : j > k - 1 => turns'[j].do = "normalize"
          \/ /\ turns[k].left = 0
             /\ \A j \in DOMAIN turns' : j # k - 1 => j < k - 1 /\ turns'[j].do = "normalize"
      <4>1. \A j \in DOMAIN turns' : j + 1 \in DOMAIN turns /\ turns'[j] = turns[j + 1]
        BY <1>q, <2>2
      <4>2. CASE turns[k].left = 1 /\ \A j \in DOMAIN turns : j > k => turns[j].do = "normalize"
        BY <2>2, <4>1, <4>2
      <4>3. CASE /\ turns[k].left = 0
                 /\ \A j \in DOMAIN turns : j # k => j < k /\ turns[j].do = "normalize"
        BY <2>2, <4>1, <4>3
      <4> QED
        BY <3>1, <4>2, <4>3 DEF ResumesIn
    <3>6. ResumesIn(turns', k - 1)
      BY <3>1, <3>3, <3>4, <3>5 DEF ResumesIn
    <3> QED
      BY <2>3, <2>4, <3>3, <3>6 DEF Resuming
  <2>5. CASE stopAt # "resuming"
    <3>1. \A i \in DOMAIN turns' : IsMessage(turns'[i])
      BY <1>q, <2>2, <2>5 DEF Resuming
    <3> QED
      BY <2>1, <2>3, <2>5, <3>1 DEF Resuming, IsMessage
  <2> QED
    BY <2>4, <2>5
<1>4. CASE Resume
  <2>1. turns # <<>> /\ turns[1].do = "stop" /\ turns[1].left = 0 /\ turns' = Tail(turns)
    BY <1>4, ResumeIs
  <2>2. PICK k \in 1 .. n : ResumesIn(turns, k)
    BY <1>4, <1>q, ResumeIsAwaited DEF Resuming
  <2>3. n \in Nat \ {0}
    BY <1>e, <2>1
  <2>4. k = 1
    BY <1>q, <2>1, <2>2, <2>3 DEF ResumesIn
  <2>5. n = 1
    <3>1. n \in 1 .. n => n = 1 \/ n < 1
      BY <1>q, <2>1, <2>2, <2>4 DEF ResumesIn
    <3> QED
      BY <2>3, <3>1
  <2>6. turns' \in Seq(Job) /\ Len(turns') = 0
    BY <1>0, <2>1, <2>5, HeadTailProperties
  <2>7. turns' = <<>> /\ DOMAIN turns' = {}
    BY <2>6, EmptySeq, LenProperties
  <2>8. StopProceeds("broker") /\ "broker" \in Stops \ {"done"}
    BY <1>4, StopOrderIs DEF Resume, Stops
  <2>9. stopAt' \in Stops
    BY <2>8, StopProceedsIs
  <2>10. stopAt' # "resuming"
    BY <2>9, StopOrderIs DEF Stops
  <2> QED
    BY <2>7, <2>10 DEF Resuming
<1>5. CASE BrokerEnds
  <2>1. turns' = IF stopAt = "broker" THEN Append(turns, StopJob) ELSE turns
    BY <1>5, BrokerEndsIs
  <2>2. /\ stopAt' = IF stopAt = "broker" THEN "resuming" ELSE stopAt
        /\ early' = early /\ link = "ending"
    BY <1>5 DEF BrokerEnds, process
  <2>3. CASE stopAt = "broker"
    <3>1. /\ DOMAIN turns' = 1 .. n + 1 /\ turns'[n + 1] = StopJob
          /\ \A i \in 1 .. n : turns'[i] = turns[i]
      BY <1>0, <2>1, <2>3, QueueGrows, JobsAre
    <3>2. StopJob.do = "stop" /\ StopJob.left = 1
      BY DEF StopJob
    <3>3. \A i \in 1 .. n : turns[i].do # "stop"
      BY <1>q, <2>3 DEF Resuming, IsMessage
    <3> HIDE DEF n
    <3>4. n + 1 \in DOMAIN turns' /\ ResumesIn(turns', n + 1)
      BY <1>q, <3>1, <3>2, <3>3 DEF ResumesIn
    <3> QED
      BY <2>2, <2>3, <3>4 DEF Resuming
  <2>4. CASE stopAt # "broker"
    <3>1. stopAt # "resuming"
      BY <2>2 DEF Phases
    <3> QED
      BY <2>1, <2>2, <2>4, <3>1 DEF Resuming, IsMessage
  <2> QED
    BY <2>3, <2>4
<1>6. ASSUME NEW device \in Devices, NEW type \in Types, Receive(device, type)
      PROVE  Resuming'
  <2>1. PICK job \in Job : turns' = Append(turns, job) /\ job.do = "parse"
    <3>1. PICK m \in Message : /\ turns' = Append(turns, [do |-> "parse", left |-> 0, m |-> m])
                             /\ [do |-> "parse", left |-> 0, m |-> m] \in Job
      BY <1>6, ReceiveIs
    <3> QED
      BY <3>1
  <2>2. /\ DOMAIN turns' = 1 .. n + 1 /\ turns'[n + 1] = job
        /\ \A i \in 1 .. n : turns'[i] = turns[i]
    BY <1>0, <2>1, QueueGrows
  <2>3. link \in {"up", "ending"} /\ UNCHANGED <<stopAt, early>>
    BY <1>6 DEF Receive, process
  <2>4. stopAt # "resuming" /\ (~early => stopAt \in {"no", "broker"})
    BY <2>3 DEF Phases
  <2>5. \A i \in 1 .. n : IsMessage(turns[i])
    BY <1>q, <2>4 DEF Resuming
  <2> HIDE DEF n
  <2>6. \A i \in DOMAIN turns' : IsMessage(turns'[i])
    BY <1>q, <2>1, <2>2, <2>5 DEF IsMessage
  <2> QED
    BY <2>3, <2>4, <2>6 DEF Resuming, IsMessage
<1>7. CASE Signal
  <2>1. turns = <<>> /\ turns' = turns
    BY <1>7 DEF Signal, Idle, pipeline
  <2>2. DOMAIN turns = {}
    BY <1>0, <2>1, EmptySeq, LenProperties
  <2>3. stopAt # "resuming"
    BY <2>2 DEF Resuming
  <2>4. stopAt' # "resuming"
    <3>1. CASE isRunning /\ ~isConnected
      <4>1. StopProceeds("broker") /\ "broker" \in Stops \ {"done"}
        BY <1>7, <3>1, StopOrderIs DEF Signal, Stops
      <4>2. stopAt' \in Stops
        BY <4>1, StopProceedsIs
      <4> QED
        BY <4>2, StopOrderIs DEF Stops
    <3>2. CASE ~(isRunning /\ ~isConnected)
      BY <1>7, <2>3, <3>2 DEF Signal
    <3> QED
      BY <3>1, <3>2
  <2> QED
    BY <2>1, <2>2, <2>4 DEF Resuming
<1>8. ASSUME NEW p \in {"writer", "database", "webhook", "websocket", "relay", "api"},
             NEW ok \in BOOLEAN, StopAnswers(p, ok)
      PROVE  Resuming'
  <2>1. turns = <<>> /\ turns' = turns /\ stopAt = p
    BY <1>8 DEF StopAnswers, Idle, pipeline
  <2>2. DOMAIN turns = {}
    BY <1>0, <2>1, EmptySeq, LenProperties
  <2>3. stopAt' # "resuming"
    <3>1. CASE ok
      <4>1. StopProceeds(p) /\ p \in Stops \ {"done"}
        BY <1>8, <3>1, StopOrderIs DEF StopAnswers, Stops
      <4>2. stopAt' \in Stops
        BY <4>1, StopProceedsIs
      <4> QED
        BY <4>2, StopOrderIs DEF Stops
    <3>2. CASE ~ok
      BY <1>8, <2>1, <3>2 DEF StopAnswers
    <3> QED
      BY <3>1, <3>2
  <2> QED
    BY <2>1, <2>2, <2>3 DEF Resuming
<1>9. CASE UNCHANGED <<turns, stopAt, early>>
  BY <1>9 DEF Resuming, ResumesIn, IsMessage
<1> QED
  BY <1>1, <1>2, <1>3, <1>4, <1>5, <1>6, <1>7, <1>8, <1>9
     DEF Next, vars, pipeline, process, Start, DatabaseAnswers, PartAnswers, BrokerFails,
         BrokerConnects, Subscribed, LinkCloses, Reconnect, RelayLinkChanges

-----------------------------------------------------------------------------
(* What has been stopped.                                                  *)

LEMMA NothingBefore ==
    ASSUME NEW r, NEW q \in {"no", "resuming", "broker"}
    PROVE  ~Before(r, q)
<1>1. \A j \in 2 .. 8 : StopOrder[j] \notin {"no", "resuming", "broker"}
  <2>1. \A j \in 2 .. 8 : j \in {2, 3, 4, 5, 6, 7, 8}
    OBVIOUS
  <2> QED
    BY <2>1, StopOrderIs
<1>2. SUFFICES ASSUME NEW i \in 1 .. 8, NEW j \in 1 .. 8, i < j, StopOrder[j] = q
               PROVE  FALSE
  BY StopOrderIs DEF Before
<1>3. j \in 2 .. 8
  BY <1>2
<1> QED
  BY <1>1, <1>2, <1>3

\* stop() waits for nothing, or for the broker only.
LEMMA NotStoppingYet ==
    ASSUME stopAt' \in {"no", "resuming", "broker"}, exited' # "0"
    PROVE  Stopped'
<1>1. \A r : ~Before(r, stopAt')
  BY NothingBefore
<1>2. stopAt' \notin Stops \ {"broker"}
  BY StopOrderIs, NothingBefore DEF Stops
<1> QED
  BY <1>1, <1>2 DEF Stopped

\* stop() is where it was.
LEMMA StoppedIsKept ==
    ASSUME Stopped, stopAt' = stopAt, early' = early, running' \subseteq running,
           connected' => connected, exited' = "0" => signals' # 1
    PROVE  Stopped'
<1>1. SUFFICES ASSUME ~early' PROVE Stopped'
  BY DEF Stopped
<1>2. ~early
  BY <1>1
<1>3. /\ \A p \in Stops : Before(p, stopAt) => p \notin running
      /\ Before("database", stopAt) => ~connected
      /\ stopAt \in Stops \ {"broker"} => "cache" \notin running
      /\ stopAt \in Stops \ {"broker", "writer", "database"} =>
           running \cap {"smartHB", "adapter", "watchdog", "command"} = {}
  BY <1>2 DEF Stopped
<1>4. /\ \A p \in Stops : Before(p, stopAt') => p \notin running'
      /\ stopAt' \in Stops \ {"broker"} => "cache" \notin running'
      /\ stopAt' \in Stops \ {"broker", "writer", "database"} =>
           running' \cap {"smartHB", "adapter", "watchdog", "command"} = {}
  BY <1>3
<1>5. Before("database", stopAt') => ~connected'
  BY <1>3
<1>6. exited' = "0" /\ signals' = 1 => stopAt' = "done"
  OBVIOUS
<1> QED
  BY <1>4, <1>5, <1>6 DEF Stopped

\* stop() goes on after p, and passes what is not active.
LEMMA StopProceedsStops ==
    ASSUME NEW p \in Stops \ {"done"}, StopProceeds(p), exited = "no",
           \A r \in Stops : Before(r, p) => r \notin running,
           Before("database", p) => ~connected',
           p = "database" => ~connected'
    PROVE  Stopped'
<1>1. PICK a \in 1 .. 7, i \in 2 .. 8 :
        /\ a < i /\ StopOrder[a] = p /\ StopOrder[i] = StopsAfter(p)
        /\ \A j \in a + 1 .. i - 1 : StopOrder[j] \notin Active
  BY StopsAfterIs
<1>2. /\ stopAt' = StopOrder[i] /\ p \notin running' /\ running' \subseteq running
      /\ exited' = "0" => stopAt' = "done"
      /\ running' \cap StoppedBefore(stopAt') = {}
  BY <1>1 DEF StopProceeds
<1>3. \A j \in a + 1 .. i - 1 :
        StopOrder[j] \notin running /\ (StopOrder[j] = "database" => ~connected')
  BY <1>1 DEF Active
<1>4. ASSUME NEW r, Before(r, stopAt')
      PROVE  Before(r, p) \/ r = p \/ \E k \in a + 1 .. i - 1 : r = StopOrder[k]
  <2>1. PICK k \in 1 .. 8, l \in 1 .. 8 : k < l /\ StopOrder[k] = r /\ StopOrder[l] = stopAt'
    BY <1>4, StopOrderIs DEF Before
  <2>2. l = i
    BY <1>2, <2>1, StopOrderIs
  <2>3. CASE k < a
    BY <1>1, <2>1, <2>3, StopOrderIs DEF Before
  <2>4. CASE k = a
    BY <1>1, <2>1, <2>4
  <2>5. CASE k > a
    <3>1. k \in a + 1 .. i - 1
      BY <2>1, <2>2, <2>5
    <3> QED
      BY <2>1, <3>1
  <2> QED
    BY <2>3, <2>4, <2>5
<1>5. ASSUME NEW r \in Stops, Before(r, stopAt')
      PROVE  r \notin running'
  BY <1>2, <1>3, <1>4, <1>5
<1>6. ASSUME Before("database", stopAt')
      PROVE  ~connected'
  BY <1>3, <1>4, <1>6
<1>7. /\ "cache" \notin running'
      /\ stopAt' \in Stops \ {"broker", "writer", "database"} =>
           running' \cap {"smartHB", "adapter", "watchdog", "command"} = {}
  BY <1>2 DEF StoppedBefore
<1> QED
  BY <1>2, <1>5, <1>6, <1>7 DEF Stopped

LEMMA StoppedStep ==
    ASSUME TypeOK, Phases, Stopped, [Next]_vars
    PROVE  Stopped'
<1>a. ASSUME Alive
      PROVE  exited = "no"
  BY <1>a DEF Alive
\* Until start() is done there is no signal, or it came early.
<1>s. startAt # "done" => stopAt = "no" \/ early
  BY DEF Phases, TypeOK
<1>e. ASSUME early' PROVE Stopped'
  BY <1>e DEF Stopped
<1>k. ASSUME startAt # "done", UNCHANGED <<stopAt, early>>, exited' # "0"
      PROVE  Stopped'
  BY <1>s, <1>e, <1>k, NotStoppingYet
<1>1. CASE Start
  <2>1. startAt # "done" /\ UNCHANGED <<stopAt, early>> /\ exited' # "0"
    BY <1>1, <1>a DEF Start, process, Alive
  <2> QED
    BY <1>k, <2>1
<1>2. ASSUME NEW ok \in BOOLEAN, DatabaseAnswers(ok)
      PROVE  Stopped'
  <2>1. startAt # "done" /\ UNCHANGED <<stopAt, early>> /\ exited' # "0"
    BY <1>2 DEF DatabaseAnswers, process, Alive, Idle
  <2> QED
    BY <1>k, <2>1
<1>3. ASSUME NEW ok \in BOOLEAN, NEW p \in {"api", "relay", "websocket"}, PartAnswers(p, ok)
      PROVE  Stopped'
  <2>1. startAt # "done" /\ UNCHANGED <<stopAt, early>> /\ exited' # "0"
    BY <1>3 DEF PartAnswers, process, Alive, Idle
  <2> QED
    BY <1>k, <2>1
<1>4. CASE Subscribed
  <2>1. UNCHANGED <<stopAt, early, connected, signals>> /\ exited' # "0"
    BY <1>4 DEF Subscribed, process, Alive, Idle
  <2>2. CASE startAt = "broker"
    BY <1>k, <2>1, <2>2
  <2>3. CASE startAt # "broker"
    <3>1. running' = running
      BY <1>4, <2>3 DEF Subscribed
    <3> QED
      BY <2>1, <3>1, StoppedIsKept
  <2> QED
    BY <2>2, <2>3
<1>5. CASE Signal
  <2>1. exited = "no" /\ signals' = signals + 1 /\ signals \in Nat /\ startAt # "new"
    BY <1>5 DEF Signal, Idle, Alive, TypeOK
  <2>2. connected' = connected
    BY <1>5 DEF Signal
  <2>3. CASE ~isRunning
    <3>1. signals # 0
      BY <2>1, <2>3 DEF Phases
    <3>2. UNCHANGED <<stopAt, running>> /\ early' = early
      BY <1>5, <2>3, <3>1 DEF Signal
    <3>3. signals' # 1
      BY <2>1, <3>1
    <3> QED
      BY <2>2, <3>2, <3>3, StoppedIsKept
  <2>4. CASE isRunning /\ isConnected
    <3>1. stopAt' = "broker" /\ exited' = exited
      BY <1>5, <2>4 DEF Signal
    <3> QED
      BY <2>1, <3>1, NotStoppingYet
  <2>5. CASE isRunning /\ ~isConnected
    <3>1. StopProceeds("broker") /\ "broker" \in Stops \ {"done"}
      BY <1>5, <2>5, StopOrderIs DEF Signal, Stops
    <3> QED
      BY <2>1, <3>1, NothingBefore, StopProceedsStops
  <2> QED
    BY <2>3, <2>4, <2>5
<1>6. CASE Resume
  <2>1. StopProceeds("broker") /\ "broker" \in Stops \ {"done"} /\ exited = "no"
    BY <1>6, StopOrderIs DEF Resume, Stops, Due, Alive
  <2> QED
    BY <2>1, NothingBefore, StopProceedsStops
<1>7. ASSUME NEW p \in {"writer", "database", "webhook", "websocket", "relay", "api"},
             NEW ok \in BOOLEAN, StopAnswers(p, ok)
      PROVE  Stopped'
  <2>1. /\ stopAt = p /\ exited = "no" /\ UNCHANGED <<early, signals>>
        /\ connected' => connected
    BY <1>7 DEF StopAnswers, Idle, Alive, TypeOK
  <2>2. CASE ok
    <3>1. StopProceeds(p) /\ p \in Stops \ {"done"}
      BY <1>7, <2>2, StopOrderIs DEF StopAnswers, Stops
    <3>2. p = "database" => ~connected'
      BY <1>7, <2>2 DEF StopAnswers
    <3>3. CASE ~early
      <4>1. /\ \A r \in Stops : Before(r, p) => r \notin running
            /\ Before("database", p) => ~connected'
        BY <2>1, <3>3 DEF Stopped
      <4> QED
        BY <2>1, <3>1, <3>2, <4>1, StopProceedsStops
    <3> QED
      BY <1>e, <2>1, <3>3
  <2>3. CASE ~ok
    <3>1. UNCHANGED <<stopAt, running>> /\ exited' = "1"
      BY <1>7, <2>3 DEF StopAnswers
    <3> QED
      BY <2>1, <3>1, StoppedIsKept
  <2> QED
    BY <2>2, <2>3
<1>8. CASE BrokerEnds
  <2>1. /\ exited' # "0" /\ UNCHANGED <<early, running, connected, signals>>
        /\ stopAt' = IF stopAt = "broker" THEN "resuming" ELSE stopAt
    BY <1>8 DEF BrokerEnds, Alive, process
  <2>2. CASE stopAt = "broker"
    BY <2>1, <2>2, NotStoppingYet
  <2>3. CASE stopAt # "broker"
    BY <2>1, <2>3, StoppedIsKept
  <2> QED
    BY <2>2, <2>3
<1>9. CASE \/ BrokerFails \/ BrokerConnects \/ LinkCloses \/ Reconnect
            \/ Wait \/ HandleRawMessage \/ HandleSIFMessage \/ RelayLinkChanges
  <2>1. UNCHANGED <<stopAt, early, running, connected, signals>> /\ exited' # "0"
    BY <1>9
       DEF BrokerFails, BrokerConnects, LinkCloses, Reconnect, Wait, HandleRawMessage,
           HandleSIFMessage, RelayLinkChanges, process, Alive, Idle, Due
  <2> QED
    BY <2>1, StoppedIsKept
<1>r. ASSUME NEW device \in Devices, NEW type \in Types, Receive(device, type)
      PROVE  Stopped'
  <2>1. UNCHANGED <<stopAt, early, running, connected, signals>> /\ exited' # "0"
    BY <1>r DEF Receive, process, Alive
  <2> QED
    BY <2>1, StoppedIsKept
<1>10. CASE UNCHANGED vars
  BY <1>10 DEF vars, process, Stopped
<1> QED
  BY <1>1, <1>2, <1>3, <1>4, <1>5, <1>6, <1>7, <1>8, <1>9, <1>r, <1>10 DEF Next

-----------------------------------------------------------------------------
(* The theorems.                                                           *)

LEMMA InitIInv ==
    ASSUME Init PROVE IInv
<1>1. turns = <<>> /\ published = <<>> /\ DOMAIN turns = {} /\ DOMAIN published = {}
  <2>1. \A s : s = <<>> => s \in Seq(Job) /\ Len(s) = 0
    BY EmptySeq
  <2> QED
    BY <2>1, LenProperties DEF Init
<1>2. TypeOK
  <2>1. startAt \in Milestones /\ stopAt \in Stops \cup {"no", "resuming"}
    BY StartOrderIs DEF Init, Milestones
  <2>2. /\ attempts \in 0 .. MaxAttempts + 1 /\ received \in 0 .. MaxMessages
        /\ signals \in 0 .. MaxSignals
    BY ApplicationAssumption DEF Init
  <2>3. turns \in Seq(Job) /\ published \in Seq(Message)
    BY <1>1, EmptySeq
  <2>4. connected \in BOOLEAN /\ suoRepository \in BOOLEAN /\ isRunning \in BOOLEAN
    BY DEF Init
  <2>5. isConnected \in BOOLEAN /\ early \in BOOLEAN
    BY DEF Init
  <2>6. /\ enabled \in Configurations /\ running \subseteq Parts
        /\ link \in {"none", "connecting", "up", "down", "ending"} /\ topics \in 0 .. 2
        /\ relayLink \in {"none", "connecting", "up", "down"} /\ exited \in {"no", "0", "1"}
    BY DEF Init
  <2> QED
    BY <2>1, <2>2, <2>3, <2>4, <2>5, <2>6 DEF TypeOK
<1>3. Phases
  BY ApplicationAssumption DEF Init, Phases, Starting
<1>4. Ordered
  BY <1>1 DEF Ordered
<1>5. Resuming
  BY <1>1 DEF Init, Resuming
<1>6. Stopped
  BY NotStoppingYet, NothingBefore, StopOrderIs DEF Init, Stopped, Stops
<1> QED
  BY <1>2, <1>3, <1>4, <1>5, <1>6 DEF IInv

LEMMA NextIInv ==
    ASSUME IInv, [Next]_vars PROVE IInv'
<1>1. TypeOK /\ Phases /\ Ordered /\ Resuming /\ Stopped
  BY DEF IInv
<1>2. TypeOK'
  BY <1>1, TypeStep
<1>3. Phases'
  BY <1>1, PhasesStep
<1>4. Ordered'
  BY <1>1, OrderedStep
<1>5. Resuming'
  BY <1>1, ResumingStep
<1>6. Stopped'
  BY <1>1, StoppedStep
<1> QED
  BY <1>2, <1>3, <1>4, <1>5, <1>6 DEF IInv

LEMMA Invariance == Spec => []IInv
<1>1. Init => IInv
  BY InitIInv
<1>2. IInv /\ [Next]_vars => IInv'
  BY NextIInv
<1> QED
  BY <1>1, <1>2, PTL DEF Spec

\* The state of the application always has the shape its parts rely on
\* (app.ts:441, app.ts:566).
THEOREM TypeCorrect == Spec => []TypeOK
<1>1. IInv => TypeOK
  BY DEF IInv
<1> QED
  BY <1>1, Invariance, PTL

\* The messages of one device come out on the bus in the order they came in
\* (app.ts:296, app.ts:337).
THEOREM OrderIsKept == Spec => []MessagesInOrder
<1>1. IInv => MessagesInOrder
  BY DEF IInv, Ordered, MessagesInOrder
<1> QED
  BY <1>1, Invariance, PTL

\* When stop() goes on to the consumers, no message is under way and none can
\* come any more (app.ts:575-590).
THEOREM ConsumersStopLast == Spec => []NothingUnderWay
<1>1. IInv => NothingUnderWay
  BY DEF IInv, Phases, Resuming, NothingUnderWay
<1> QED
  BY <1>1, Invariance, PTL

\* One signal after start() stops whatever had been started (app.ts:395-409,
\* app.ts:566-653).
THEOREM OneSignalSuffices == Spec => []OneSignalStopsAll
<1>1. ASSUME IInv, exited = "0", ~early, signals = 1
      PROVE  running = {} /\ ~connected /\ link \in {"none", "ending"}
  <2>1. stopAt = "done"
    BY <1>1 DEF IInv, Stopped
  <2>2. \A j \in 1 .. 7 : Before(StopOrder[j], "done") /\ StopOrder[j] \in Stops
    BY StopOrderIs DEF Before, Stops
  <2>3. \A j \in 1 .. 7 : StopOrder[j] \notin running
    BY <1>1, <2>1, <2>2 DEF IInv, Stopped
  <2>4. running \cap {"writer", "webhook", "websocket", "relay", "api"} = {}
    BY <2>3, StopOrderIs
  <2>5. "done" \in Stops
    BY StopOrderIs DEF Stops
  <2>6. running \cap {"cache", "smartHB", "adapter", "watchdog", "command"} = {}
    BY <1>1, <2>1, <2>5 DEF IInv, Stopped
  <2>7. running \subseteq Parts
    BY <1>1 DEF IInv, TypeOK
  <2>8. ~connected
    BY <1>1, <2>1, <2>2, StopOrderIs DEF IInv, Stopped
  <2>9. link = "none"
    BY <1>1, <2>1 DEF IInv, Phases
  <2> QED
    BY <2>4, <2>6, <2>7, <2>8, <2>9 DEF Parts
<1>2. IInv => OneSignalStopsAll
  BY <1>1 DEF OneSignalStopsAll
<1> QED
  BY <1>2, Invariance, PTL
=============================================================================
