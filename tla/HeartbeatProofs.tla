--------------------------- MODULE HeartbeatProofs ---------------------------
(***************************************************************************)
(* Theorems about who counts as alive: the clients of WebSocketServer, for *)
(* every finite set of connections and every limit, and the modules of     *)
(* ModuleHealth under the tasks of Watchdog, for every set of modules and  *)
(* of names, every list of tasks and every threshold.                      *)
(***************************************************************************)
EXTENDS WebSocketServer, ModuleHealth, FiniteSetTheorems, SequenceTheorems,
        WellFoundedInduction, TLAPS

-----------------------------------------------------------------------------
(* The clients of the WebSocket server.                                    *)

\* stop() empties the map before the server is down, and nobody gets in until
\* the next start.
MapOnlyWhileRunning == server # "running" => clients = {}

\* A client leaves the map no later than its connection ends.
ClientHasConnection == \A c \in clients : socket[c] # "none"

\* An open client that owes no answer was heard since the last beat.
HeardSinceBeat ==
    \A c \in clients : socket[c] = "open" /\ c \notin unanswered => age[c] <= sinceBeat

\* The inductive invariant.
IInv ==
    /\ TypeOK
    /\ MapOnlyWhileRunning
    /\ ClientHasConnection
    /\ HeardSinceBeat
    /\ CountIsReported

-----------------------------------------------------------------------------
\* The map is finite, and its size grows by at most one.
LEMMA ClientCount ==
    ASSUME TypeOK
    PROVE  /\ IsFiniteSet(clients)
           /\ Cardinality(clients) \in Nat
           /\ \A S \in SUBSET clients : Cardinality(S) \in Nat
                                        /\ Cardinality(S) <= Cardinality(clients)
           /\ \A c : Cardinality(clients \cup {c}) <= Cardinality(clients) + 1
           /\ \A c : Cardinality(clients \cup {c}) \in Nat
<1>1. IsFiniteSet(clients) /\ Cardinality(clients) \in Nat
  BY WebSocketAssumption, FS_Subset, FS_CardinalityType DEF TypeOK
<1>2. ASSUME NEW S \in SUBSET clients
      PROVE  Cardinality(S) \in Nat /\ Cardinality(S) <= Cardinality(clients)
  BY <1>1, FS_Subset, FS_CardinalityType
<1>3. ASSUME NEW c
      PROVE  /\ Cardinality(clients \cup {c}) <= Cardinality(clients) + 1
             /\ Cardinality(clients \cup {c}) \in Nat
  <2>1. Cardinality(clients \cup {c}) =
          IF c \in clients THEN Cardinality(clients) ELSE Cardinality(clients) + 1
    BY <1>1, FS_AddElement
  <2> QED
    BY <1>1, <2>1
<1> QED
  BY <1>1, <1>2, <1>3

LEMMA InitIInv == Init => IInv
<1> SUFFICES ASSUME Init PROVE IInv
  OBVIOUS
<1> USE WebSocketAssumption DEF Init
<1>1. Cardinality(clients) = 0
  BY FS_EmptySet
<1>2. TypeOK
  <2>1. /\ devices \in [Clients -> SUBSET Devices]
        /\ types \in [Clients -> SUBSET Types]
        /\ sent \in [Clients -> SUBSET Devices]
        /\ renounced \in [Clients -> SUBSET Devices]
    BY DEF Nothing
  <2>2. age \in [Clients -> 0 .. TooOld] /\ sinceBeat \in 0 .. Interval + Lateness
    BY DEF TooOld
  <2>3. Cardinality(clients) <= MaxClients /\ connectedClients \in 0 .. MaxClients
    BY <1>1
  <2> QED
    BY <2>1, <2>2, <2>3 DEF TypeOK
<1> QED
  BY <1>1, <1>2 DEF IInv, MapOnlyWhileRunning, ClientHasConnection, HeardSinceBeat,
                    CountIsReported

-----------------------------------------------------------------------------
\* The variables keep their types.
LEMMA NextTypeOK == TypeOK /\ [Next]_vars => TypeOK'
<1> SUFFICES ASSUME TypeOK, [Next]_vars PROVE TypeOK'
  OBVIOUS
<1> USE WebSocketAssumption
<1>0. Nothing \in [Clients -> SUBSET Devices] /\ 0 \in 0 .. TooOld
  BY DEF Nothing, TooOld
<1>1. CASE Start
  BY <1>0, <1>1 DEF Start, TypeOK, wishes, clock
<1>2. CASE Listening
  BY <1>0, <1>2 DEF Listening, TypeOK, wishes
<1>3. CASE ListenFails
  BY <1>0, <1>3 DEF ListenFails, TypeOK, wishes, clock
<1>4. CASE BeginStop
  <2>1. Cardinality(clients') = 0
    BY <1>4, FS_EmptySet DEF BeginStop
  <2>2. Cardinality(clients') <= MaxClients
    BY <2>1
  <2> QED
    BY <1>0, <1>4, <2>2 DEF BeginStop, TypeOK, wishes, clock
<1>5. CASE EndStop
  BY <1>0, <1>5 DEF EndStop, TypeOK, wishes, clock
<1>6. CASE RemoveAllListeners
  BY <1>0, <1>6 DEF RemoveAllListeners, TypeOK, wishes, clock
<1>7. ASSUME NEW c \in Clients, HandleConnection(c) PROVE TypeOK'
  <2>1. CASE Room
    <3>0. clients' = clients \cup {c} /\ Cardinality(clients) < MaxClients
      BY <1>7, <2>1 DEF HandleConnection, Room
    <3>1. Cardinality(clients') <= MaxClients /\ Cardinality(clients') \in Nat
      <4>1. /\ Cardinality(clients \cup {c}) <= Cardinality(clients) + 1
            /\ Cardinality(clients \cup {c}) \in Nat
            /\ Cardinality(clients) \in Nat
        BY ClientCount
      <4> QED
        BY <3>0, <4>1
    <3>2. connectedClients' \in 0 .. MaxClients
      BY <1>7, <2>1, <3>1 DEF HandleConnection
    <3> QED
      BY <1>0, <1>7, <2>1, <3>1, <3>2 DEF HandleConnection, TypeOK
  <2>2. CASE ~Room
    BY <1>0, <1>7, <2>2 DEF HandleConnection, TypeOK, wishes, clock
  <2> QED
    BY <2>1, <2>2
<1>8. ASSUME NEW c \in Clients, Leave(c) PROVE TypeOK'
  BY <1>0, <1>8 DEF Leave, TypeOK, wishes, clock
<1>9. ASSUME NEW c \in Clients, Vanish(c) PROVE TypeOK'
  BY <1>0, <1>9 DEF Vanish, TypeOK, wishes, clock
<1>10. ASSUME NEW c \in Clients, HandleClientDisconnect(c) PROVE TypeOK'
  <2>1. Cardinality(clients') <= MaxClients /\ Cardinality(clients') \in Nat
    BY <1>10, ClientCount DEF HandleClientDisconnect, TypeOK
  <2>2. connectedClients' \in 0 .. MaxClients
    BY <1>10, <2>1 DEF HandleClientDisconnect
  <2> QED
    BY <1>0, <1>10, <2>1, <2>2 DEF HandleClientDisconnect, TypeOK, wishes, clock
<1>11. ASSUME NEW c \in Clients, Pong(c) PROVE TypeOK'
  BY <1>0, <1>11 DEF Pong, TypeOK, wishes, clock
<1>12. ASSUME NEW c \in Clients, NEW D \in SUBSET Devices, NEW T \in SUBSET Types,
              HandleSubscribe(c, D, T) \/ HandleUnsubscribe(c, D, T)
       PROVE  TypeOK'
  <2>1. /\ devices' \in [Clients -> SUBSET Devices]
        /\ types' \in [Clients -> SUBSET Types]
        /\ renounced' \in [Clients -> SUBSET Devices]
    BY <1>12 DEF HandleSubscribe, HandleUnsubscribe, TypeOK
  <2> QED
    BY <1>0, <1>12, <2>1 DEF HandleSubscribe, HandleUnsubscribe, TypeOK, clock
<1>13. CASE Heartbeat
  <2>1. Cardinality(clients') <= MaxClients /\ Cardinality(clients') \in Nat
    BY <1>13, ClientCount DEF Heartbeat, TypeOK
  <2>2. connectedClients' \in 0 .. MaxClients
    BY <1>13, <2>1 DEF Heartbeat, CountAtBeat
  <2>3. age' \in [Clients -> 0 .. TooOld]
    BY <1>13 DEF Heartbeat, TypeOK, AgeAfterBeat
  <2>4. sinceBeat' \in 0 .. Interval + Lateness /\ unanswered' \subseteq Clients
    BY <1>13 DEF Heartbeat, TypeOK
  <2>5. socket' \in [Clients -> {"none", "open", "closing"}]
    BY <1>13 DEF Heartbeat, TypeOK
  <2> QED
    BY <1>0, <1>13, <2>1, <2>2, <2>3, <2>4, <2>5 DEF Heartbeat, TypeOK, wishes, clock
<1>14. ASSUME NEW d \in Devices, NEW t \in Types, HandleSUOMessage(d, t) PROVE TypeOK'
  <2>1. sent' \in [Clients -> SUBSET Devices]
    BY <1>14 DEF HandleSUOMessage
  <2> QED
    BY <1>14, <2>1 DEF HandleSUOMessage, TypeOK, wishes, clock
<1>15. CASE PassTime
  <2>1. age' \in [Clients -> 0 .. TooOld]
    BY <1>15 DEF PassTime, TypeOK, TooOld
  <2> QED
    BY <1>0, <1>15, <2>1 DEF PassTime, TypeOK, wishes
<1>16. CASE UNCHANGED vars
  BY <1>16 DEF vars, wishes, TypeOK
<1> QED
  BY <1>1, <1>2, <1>3, <1>4, <1>5, <1>6, <1>7, <1>8, <1>9, <1>10, <1>11, <1>12, <1>13,
     <1>14, <1>15, <1>16 DEF Next

-----------------------------------------------------------------------------
\* The rest of the invariant is kept by every step.
LEMMA NextIInv == IInv /\ [Next]_vars => IInv'
<1> SUFFICES ASSUME IInv, [Next]_vars PROVE IInv'
  OBVIOUS
<1>0. TypeOK /\ TypeOK'
  BY NextTypeOK DEF IInv
<1> DEFINE Rest == /\ MapOnlyWhileRunning /\ ClientHasConnection /\ HeardSinceBeat
                   /\ CountIsReported
<1> SUFFICES Rest'
  BY <1>0 DEF IInv
<1> USE DEF IInv, MapOnlyWhileRunning, ClientHasConnection, HeardSinceBeat, CountIsReported
<1>1. CASE Start \/ Listening \/ ListenFails
  <2>1. UNCHANGED <<clients, socket, connectedClients>>
    BY <1>1 DEF Start, Listening, ListenFails
  <2>2. server # "running" /\ server # "stopping" /\ server' # "stopping"
    BY <1>1 DEF Start, Listening, ListenFails
  <2> QED
    BY <2>1, <2>2
<1>2. CASE BeginStop
  BY <1>2 DEF BeginStop
<1>3. CASE EndStop
  <2>1. /\ clients = {} /\ clients' = clients
        /\ connectedClients' = 0 /\ server' = "stopped"
    BY <1>3 DEF EndStop
  <2> QED
    BY <2>1, FS_EmptySet
<1>4. CASE RemoveAllListeners \/ (\E d \in Devices, t \in Types : HandleSUOMessage(d, t))
           \/ UNCHANGED vars
  <2>1. UNCHANGED <<server, clients, socket, age, sinceBeat, unanswered,
                    connectedClients>>
    BY <1>4 DEF RemoveAllListeners, HandleSUOMessage, clock, vars
  <2> QED
    BY <2>1
<1>5. ASSUME NEW c \in Clients, HandleConnection(c) PROVE Rest'
  <2>1. server = "running" /\ server' = server /\ socket[c] = "none" /\ c \notin clients
    BY <1>5 DEF HandleConnection
  <2>2. CASE Room
    <3>1. /\ clients' = clients \cup {c}
          /\ connectedClients' = Cardinality(clients')
          /\ socket'[c] = "open" /\ age'[c] = 0 /\ sinceBeat' = sinceBeat
          /\ unanswered' = unanswered \ {c}
          /\ \A b \in clients : socket'[b] = socket[b] /\ age'[b] = age[b]
      BY <1>0, <1>5, <2>1, <2>2 DEF HandleConnection, TypeOK
    <3> QED
      BY <1>0, <2>1, <3>1 DEF TypeOK
  <2>3. CASE ~Room
    <3>1. /\ UNCHANGED <<clients, age, sinceBeat, unanswered, connectedClients>>
          /\ \A b \in clients : socket'[b] = socket[b]
      BY <1>0, <1>5, <2>1, <2>3 DEF HandleConnection, TypeOK
    <3> QED
      BY <2>1, <3>1
  <2> QED
    BY <2>2, <2>3
<1>6. ASSUME NEW c \in Clients,
             \/ Leave(c) \/ Vanish(c)
             \/ \E D \in SUBSET Devices, T \in SUBSET Types :
                  HandleSubscribe(c, D, T) \/ HandleUnsubscribe(c, D, T)
      PROVE  Rest'
  <2>1. /\ UNCHANGED <<server, clients, age, sinceBeat, unanswered, connectedClients>>
        /\ \A b \in clients : socket'[b] = socket[b] \/ socket'[b] = "closing"
    BY <1>0, <1>6 DEF Leave, Vanish, HandleSubscribe, HandleUnsubscribe, TypeOK, clock
  <2> QED
    BY <2>1
<1>7. ASSUME NEW c \in Clients, HandleClientDisconnect(c) PROVE Rest'
  <2>1. /\ UNCHANGED <<server, age, sinceBeat, unanswered>>
        /\ clients' = clients \ {c}
        /\ connectedClients' = Cardinality(clients')
        /\ \A b \in Clients \ {c} : socket'[b] = socket[b]
    BY <1>0, <1>7 DEF HandleClientDisconnect, TypeOK, clock
  <2>2. clients' \subseteq Clients \ {c}
    BY <1>0, <2>1 DEF TypeOK
  <2> QED
    BY <2>1, <2>2
<1>8. ASSUME NEW c \in Clients, Pong(c) PROVE Rest'
  <2>1. /\ UNCHANGED <<server, clients, socket, sinceBeat, connectedClients>>
        /\ age'[c] = 0 /\ unanswered' = unanswered \ {c}
        /\ \A b \in Clients \ {c} : age'[b] = age[b]
    BY <1>0, <1>8 DEF Pong, TypeOK
  <2> QED
    BY <1>0, <2>1 DEF TypeOK
<1>9. CASE PassTime
  <2>1. /\ UNCHANGED <<server, clients, socket, unanswered, connectedClients>>
        /\ sinceBeat' = sinceBeat + 1
        /\ \A b \in clients : age'[b] <= age[b] + 1
    BY <1>0, <1>9 DEF PassTime, TypeOK, TooOld
  <2>2. HeardSinceBeat'
    <3> SUFFICES ASSUME NEW b \in clients, socket[b] = "open", b \notin unanswered
                 PROVE  age'[b] <= sinceBeat'
      BY <2>1
    <3>1. age[b] \in Nat /\ age'[b] \in Nat /\ sinceBeat \in Nat
      BY <1>0 DEF TypeOK, TooOld
    <3> QED
      BY <2>1, <3>1
  <2> QED
    BY <2>1, <2>2
<1>10. CASE Heartbeat
  <2>1. /\ server = "running" /\ server' = server
        /\ clients' \subseteq clients /\ clients' = clients \ Overdue
        /\ connectedClients' = Cardinality(clients')
        /\ \A b \in clients' : socket'[b] = socket[b]
        /\ \A b \in clients' : socket[b] = "open" => b \in unanswered'
    BY <1>0, <1>10 DEF Heartbeat, TypeOK, CountAtBeat
  <2> QED
    BY <2>1
<1> QED
  BY <1>1, <1>2, <1>3, <1>4, <1>5, <1>6, <1>7, <1>8, <1>9, <1>10 DEF Next

LEMMA Invariance == Spec => []IInv
BY InitIInv, NextIInv, PTL DEF Spec

-----------------------------------------------------------------------------
\* The server keeps its variables in their types, the size of the map and the
\* reported count within maxClients (websocket-server.ts:165-177).
THEOREM TypeCorrect == Spec => []TypeOK
BY Invariance, PTL DEF IInv

\* For any number of connections, the reported number of clients is the size
\* of the map, except while a stop() waits (websocket-server.ts:177, 207, 368, 459).
THEOREM StatusCountsClients == Spec => []CountIsReported
BY Invariance, PTL DEF IInv

\* A stopped or stopping server has no client, so that a start begins with an
\* empty map (websocket-server.ts:139-180).
THEOREM StoppedHasNoClients == Spec => []MapOnlyWhileRunning
BY Invariance, PTL DEF IInv

\* Who is dropped at a beat owes an answer, or the beat is late.
DroppedFor(c) == c \in unanswered \/ sinceBeat > 2 * Interval

LEMMA AnsweringClientStaysStep == IInv /\ [Next]_vars => [
         server = "running" /\ server' = "running" =>
         \A c \in clients \ clients' :
            socket[c] = "open" /\ socket'[c] = "closing" => DroppedFor(c)]_vars
<1> SUFFICES ASSUME IInv, Next,
                    server = "running", server' = "running",
                    NEW c \in clients \ clients',
                    socket[c] = "open", socket'[c] = "closing"
             PROVE  DroppedFor(c)
  OBVIOUS
<1>0. TypeOK /\ c \in Clients
  BY DEF IInv, TypeOK
<1>1. CASE Heartbeat
  <2>1. age[c] > 2 * Interval
    BY <1>1 DEF Heartbeat, Overdue
  <2>2. c \notin unanswered => age[c] <= sinceBeat
    BY DEF IInv, HeardSinceBeat
  <2>3. age[c] \in Nat /\ sinceBeat \in Nat /\ 2 * Interval \in Nat
    BY <1>0, WebSocketAssumption DEF TypeOK, TooOld
  <2> QED
    BY <2>1, <2>2, <2>3 DEF DroppedFor
<1>2. ASSUME NEW b \in Clients, HandleClientDisconnect(b) PROVE DroppedFor(c)
  <2>1. b = c /\ socket'[c] = "none"
    BY <1>0, <1>2 DEF HandleClientDisconnect, TypeOK
  <2> QED
    BY <2>1
<1>3. CASE Start \/ Listening \/ ListenFails \/ BeginStop \/ EndStop \/ RemoveAllListeners
           \/ PassTime
  BY <1>3 DEF Start, Listening, ListenFails, BeginStop, EndStop, RemoveAllListeners, PassTime
<1>4. ASSUME NEW b \in Clients,
             HandleConnection(b) \/ Leave(b) \/ Vanish(b) \/ Pong(b)
      PROVE  DroppedFor(c)
  BY <1>4 DEF HandleConnection, Leave, Vanish, Pong
<1>5. ASSUME NEW b \in Clients, NEW D \in SUBSET Devices, NEW T \in SUBSET Types,
             HandleSubscribe(b, D, T) \/ HandleUnsubscribe(b, D, T)
      PROVE  DroppedFor(c)
  BY <1>5 DEF HandleSubscribe, HandleUnsubscribe
<1>6. ASSUME NEW d \in Devices, NEW t \in Types, HandleSUOMessage(d, t)
      PROVE  DroppedFor(c)
  BY <1>6 DEF HandleSUOMessage
<1> QED
  BY <1>1, <1>2, <1>3, <1>4, <1>5, <1>6 DEF Next

\* The heartbeat drops an open client only for a ping it has not answered,
\* whatever else happens between the beats and however late they run; only a
\* beat that is itself more than an interval late drops a client that has
\* answered every ping (websocket-server.ts:241-248, 442-456).
THEOREM AnsweringClientsStay == Spec => AnsweringClientStays
<1>1. IInv /\ [Next]_vars => [server = "running" /\ server' = "running" =>
         \A c \in clients \ clients' :
            socket[c] = "open" /\ socket'[c] = "closing" => DroppedFor(c)]_vars
  BY AnsweringClientStaysStep
<1> QED
  BY <1>1, Invariance, PTL DEF Spec, AnsweringClientStays, DroppedFor

-----------------------------------------------------------------------------
(* The tasks of the watchdog.                                              *)

\* The map has an interval under the name of what it runs.
IntervalsAreNamed ==
    \A n \in Names : taskIntervals[n] # NoTask => taskIntervals[n].name = n

\* Name n occurs once at most in the list.
OnceIn(list, n) ==
    \A i, j \in DOMAIN list : list[i].name = n /\ list[j].name = n => i = j

NamesOccurOnce == \A n \in Names \ repeated : OnceIn(tasks, n)

\* Only of a name that was added twice can an interval be lost.
OnlyRepeatedLeak == \A w \in leaked : w.name \in repeated

\* The map has an interval for the enabled tasks of the list, and no other.
IntervalIsListed ==
    \A n \in Names \ repeated :
        /\ taskIntervals[n] # NoTask => isRunning
        /\ taskIntervals[n] # NoTask =>
             \E i \in EnabledIn(tasks) :
                tasks[i].name = n /\ taskIntervals[n] = WorkOf(tasks[i])
        /\ isRunning => \A i \in EnabledIn(tasks) :
             tasks[i].name = n => taskIntervals[n] = WorkOf(tasks[i])

\* The inductive invariant of the scheduler.
WatchdogInv ==
    /\ TypeOKWatchdog
    /\ IntervalsAreNamed
    /\ NamesOccurOnce
    /\ OnlyRepeatedLeak
    /\ IntervalIsListed

LEMMA WorkFacts ==
    ASSUME NEW t \in Task
    PROVE  /\ WorkOf(t) \in Work /\ WorkOf(t).name = t.name /\ WorkOf(t) # NoTask
           /\ t.name \in Names /\ t.enabled \in BOOLEAN
BY WatchdogAssumption DEF Task, Work, WorkOf

\* A finite set has an order, and the order has every element once.
LEMMA SetToSeqFacts ==
    ASSUME NEW S, IsFiniteSet(S)
    PROVE  /\ SetToSeq(S) \in Seq(S)
           /\ \A i, j \in DOMAIN SetToSeq(S) : SetToSeq(S)[i] = SetToSeq(S)[j] => i = j
<1> DEFINE n == Cardinality(S)
<1>1. n \in Nat /\ ExistsBijection(1 .. n, S)
  BY FS_CardinalityType
<1>2. PICK f \in Bijection(1 .. n, S) : TRUE
  BY <1>1 DEF ExistsBijection
<1>3. f \in [1 .. n -> S] /\ IsInjective(f)
  BY <1>2 DEF Bijection, Injection, IsInjective
<1>4. SetToSeq(S) \in [1 .. n -> S] /\ IsInjective(SetToSeq(S))
  BY <1>3 DEF SetToSeq
<1>5. SetToSeq(S) \in Seq(S)
  BY <1>1, <1>4
<1> QED
  BY <1>4, <1>5 DEF IsInjective

\* An enumeration of a finite set meets each of its members once.
LEMMA OrderFacts ==
    ASSUME NEW S, IsFiniteSet(S), NEW order \in SetToSeqs(S)
    PROVE  /\ Cardinality(S) \in Nat
           /\ order \in [1 .. Cardinality(S) -> S]
           /\ \A i, j \in 1 .. Cardinality(S) : order[i] = order[j] => i = j
           /\ \A x \in S : \E i \in 1 .. Cardinality(S) : order[i] = x
<1> DEFINE n == Cardinality(S)
<1>1. n \in Nat
  BY FS_CardinalityType
<1>2. order \in [1 .. n -> S] /\ \A i, j \in 1 .. n : i # j => order[i] # order[j]
  BY DEF SetToSeqs
<1>3. IsFiniteSet(1 .. n) /\ Cardinality(1 .. n) = n
  BY <1>1, FS_Interval
<1> HIDE DEF n
<1>4. order \in Injection(1 .. n, S)
  BY <1>2 DEF Injection, IsInjective
<1>5. order \in Surjection(1 .. n, S)
  <2>1. Cardinality(1 .. n) = Cardinality(S) <=> order \in Surjection(1 .. n, S)
    BY <1>4, FS_Injection
  <2>2. Cardinality(1 .. n) = Cardinality(S)
    BY <1>3 DEF n
  <2> QED
    BY <2>1, <2>2
<1>6. \A x \in S : \E i \in 1 .. n : order[i] = x
  BY <1>5 DEF Surjection
<1> QED
  BY <1>1, <1>2, <1>6 DEF n

LEMMA LeastOf ==
    ASSUME NEW T, T \subseteq Nat, T # {}
    PROVE  \E i \in T : \A j \in T : i <= j
<1>1. \E i \in T : \A j \in T : <<j, i>> \notin OpToRel(<, Nat)
  <2> HIDE DEF OpToRel
  <2> QED
    BY NatLessThanWellFounded, WFMin
<1>2. PICK i \in T : \A j \in T : <<j, i>> \notin OpToRel(<, Nat)
  BY <1>1
<1>3. \A j \in T : ~(j < i)
  BY <1>2 DEF OpToRel
<1> QED
  BY <1>3

LEMMA InitialTasksFacts ==
    ASSUME NEW c \in Config
    PROVE  /\ InitialTasks(c) \in Seq(Task)
           /\ \A n : OnceIn(InitialTasks(c), n)
<1> DEFINE made(n) == [name |-> n, enabled |-> n \notin c.off, own |-> FALSE]
           S == {made(n) : n \in Defaults}
<1>1. IsFiniteSet(Defaults)
  BY WatchdogAssumption, FS_Subset
<1>2. IsFiniteSet(S)
  <2>1. [n \in Defaults |-> made(n)] \in Surjection(Defaults, S)
    BY DEF Surjection
  <2> QED
    BY <1>1, <2>1, FS_Surjection
<1>3. ASSUME NEW n \in Defaults PROVE made(n) \in Task /\ made(n).name = n
  <2> DEFINE b == n \notin c.off
  <2>1. b \in BOOLEAN
    OBVIOUS
  <2> HIDE DEF b
  <2>2. [name |-> n, enabled |-> b, own |-> FALSE] \in Task
    BY <2>1, WatchdogAssumption DEF Task
  <2>3. [name |-> n, enabled |-> b, own |-> FALSE].name = n
    OBVIOUS
  <2> QED
    BY <2>2, <2>3 DEF b
<1>5. InitialTasks(c) = SetToSeq(S)
  BY DEF InitialTasks
<1> HIDE DEF made
<1>4. S \subseteq Task /\ \A s, t \in S : s.name = t.name => s = t
  BY <1>3
<1> HIDE DEF S
<1>6. /\ SetToSeq(S) \in Seq(S)
      /\ \A i, j \in DOMAIN SetToSeq(S) : SetToSeq(S)[i] = SetToSeq(S)[j] => i = j
  BY <1>2, SetToSeqFacts
<1>7. \A i \in DOMAIN SetToSeq(S) : SetToSeq(S)[i] \in S
  BY <1>6, LenProperties, ElementOfSeq
<1>8. SetToSeq(S) \in Seq(Task)
  BY <1>4, <1>6
<1>9. \A n : OnceIn(SetToSeq(S), n)
  BY <1>4, <1>6, <1>7 DEF OnceIn
<1> QED
  BY <1>5, <1>8, <1>9

\* Scheduling a list on an empty map gives every name that occurs once the
\* interval of its task, and loses none of them.
LEMMA ScheduleAllFacts ==
    ASSUME TypeOKWatchdog, NEW list \in Seq(Task), ScheduleAll(list)
    PROVE  /\ taskIntervals' \in [Names -> Work \cup {NoTask}]
           /\ leaked' \subseteq Work
           /\ \A n \in Names : taskIntervals'[n] # NoTask =>
                \E i \in EnabledIn(list) :
                   list[i].name = n /\ taskIntervals'[n] = WorkOf(list[i])
           /\ \A n \in Names : OnceIn(list, n) =>
                \A i \in EnabledIn(list) :
                   list[i].name = n => taskIntervals'[n] = WorkOf(list[i])
           /\ \A w \in leaked' : w \in leaked \/ ~OnceIn(list, w.name)
<1> DEFINE last(n) == {i \in EnabledIn(list) : list[i].name = n /\ IsLastIn(list, i)}
           lost == {i \in EnabledIn(list) : ~IsLastIn(list, i)}
<1>1. /\ taskIntervals' = [n \in Names |->
            IF last(n) = {} THEN NoTask ELSE WorkOf(list[CHOOSE i \in last(n) : TRUE])]
      /\ leaked' = leaked \cup {WorkOf(list[i]) : i \in lost}
  BY DEF ScheduleAll
<1>2. \A i \in DOMAIN list : list[i] \in Task
  BY LenProperties, ElementOfSeq
<1>3. \A i \in DOMAIN list : i \in Nat
  BY LenProperties
<1>4. \A i \in EnabledIn(list) : i \in DOMAIN list
  BY DEF EnabledIn
<1>5. \A n : last(n) # {} => /\ (CHOOSE i \in last(n) : TRUE) \in last(n)
                             /\ last(n) \subseteq EnabledIn(list)
  OBVIOUS
<1>6. ASSUME NEW n \in Names, taskIntervals'[n] # NoTask
      PROVE  \E i \in EnabledIn(list) :
                list[i].name = n /\ taskIntervals'[n] = WorkOf(list[i])
  <2>1. last(n) # {} /\ taskIntervals'[n] = WorkOf(list[CHOOSE i \in last(n) : TRUE])
    BY <1>1, <1>6
  <2>2. (CHOOSE i \in last(n) : TRUE) \in last(n)
    BY <1>5, <2>1
  <2> QED
    BY <2>1, <2>2
<1>7. ASSUME NEW n \in Names, OnceIn(list, n), NEW i \in EnabledIn(list), list[i].name = n
      PROVE  taskIntervals'[n] = WorkOf(list[i])
  <2>1. IsLastIn(list, i)
    BY <1>3, <1>4, <1>7 DEF IsLastIn, OnceIn
  <2>2. i \in last(n)
    BY <1>7, <2>1
  <2>3. last(n) = {i}
    BY <1>4, <1>7, <2>2 DEF OnceIn
  <2>4. (CHOOSE j \in last(n) : TRUE) = i
    BY <2>3
  <2> QED
    BY <1>1, <2>2, <2>4
<1>8. ASSUME NEW i \in lost PROVE ~OnceIn(list, WorkOf(list[i]).name)
  <2>1. PICK j \in EnabledIn(list) : list[j].name = list[i].name /\ ~(j <= i)
    BY <1>8 DEF IsLastIn
  <2>2. i \in DOMAIN list /\ j \in DOMAIN list /\ i # j
    BY <1>3, <1>4, <2>1
  <2> QED
    BY <2>1, <2>2 DEF OnceIn, WorkOf
<1>9. taskIntervals' \in [Names -> Work \cup {NoTask}]
  <2>1. \A n \in Names : taskIntervals'[n] \in Work \cup {NoTask}
    BY <1>2, <1>4, <1>6, WorkFacts
  <2> HIDE DEF last
  <2> QED
    BY <1>1, <2>1
<1>10. leaked' \subseteq Work
  BY <1>1, <1>2, <1>4, WorkFacts DEF TypeOKWatchdog
<1>11. \A w \in leaked' : w \in leaked \/ ~OnceIn(list, w.name)
  BY <1>1, <1>8
<1> QED
  BY <1>6, <1>7, <1>9, <1>10, <1>11

\* Scheduling one task, after which the list has it last or enabled.
LEMMA ScheduleFacts ==
    ASSUME TypeOKWatchdog, IntervalsAreNamed, NEW t \in Task, Schedule(t)
    PROVE  /\ taskIntervals' \in [Names -> Work \cup {NoTask}]
           /\ leaked' \subseteq Work
           /\ taskIntervals'[t.name] = WorkOf(t)
           /\ \A n \in Names : n # t.name => taskIntervals'[n] = taskIntervals[n]
           /\ \A w \in leaked' : w \in leaked \/ (taskIntervals[t.name] = w /\ w # NoTask
                                                    /\ w.name = t.name)
<1>1. /\ taskIntervals' = [taskIntervals EXCEPT ![t.name] = WorkOf(t)]
      /\ leaked' = leaked \cup ({taskIntervals[t.name]} \ {NoTask})
  BY DEF Schedule
<1>2. taskIntervals \in [Names -> Work \cup {NoTask}] /\ leaked \subseteq Work
  BY DEF TypeOKWatchdog
<1>3. WorkOf(t) \in Work /\ t.name \in Names
  BY WorkFacts
<1>4. \A w \in leaked' : w \in leaked \/ (taskIntervals[t.name] = w /\ w # NoTask)
  BY <1>1
<1>5. taskIntervals[t.name] # NoTask => taskIntervals[t.name].name = t.name
  BY <1>3 DEF IntervalsAreNamed
<1>6. leaked' \subseteq Work
  BY <1>1, <1>2, <1>3
<1>7. /\ taskIntervals' \in [Names -> Work \cup {NoTask}]
      /\ taskIntervals'[t.name] = WorkOf(t)
      /\ \A n \in Names : n # t.name => taskIntervals'[n] = taskIntervals[n]
  BY <1>1, <1>2, <1>3
<1> QED
  BY <1>4, <1>5, <1>6, <1>7

\* Scheduling a list that is the list from now on, on an empty map.
LEMMA ScheduleAllInv ==
    ASSUME WatchdogInv, ScheduleAll(tasks'), isRunning', enabled' \in BOOLEAN,
           isRunning' \in BOOLEAN,
           tasks' \in Seq(Task), \A n \in Names \ repeated : OnceIn(tasks', n),
           UNCHANGED repeated
    PROVE  WatchdogInv'
<1> DEFINE list == tasks'
<1>0. TypeOKWatchdog /\ list \in Seq(Task) /\ ScheduleAll(list)
  BY DEF WatchdogInv
<1> HIDE DEF list
<1>1. /\ taskIntervals' \in [Names -> Work \cup {NoTask}]
      /\ leaked' \subseteq Work
      /\ \A n \in Names : taskIntervals'[n] # NoTask =>
           \E i \in EnabledIn(list) :
              list[i].name = n /\ taskIntervals'[n] = WorkOf(list[i])
      /\ \A n \in Names : OnceIn(list, n) =>
           \A i \in EnabledIn(list) :
              list[i].name = n => taskIntervals'[n] = WorkOf(list[i])
      /\ \A w \in leaked' : w \in leaked \/ ~OnceIn(list, w.name)
  BY <1>0, ScheduleAllFacts
<1> USE DEF list
<1>2. TypeOKWatchdog'
  BY <1>1 DEF WatchdogInv, TypeOKWatchdog
<1>3. \A i \in EnabledIn(list) : list[i] \in Task
  BY LenProperties, ElementOfSeq DEF EnabledIn
<1>4. IntervalsAreNamed'
  BY <1>1, <1>3, WorkFacts DEF IntervalsAreNamed
<1>5. NamesOccurOnce'
  BY DEF NamesOccurOnce
<1>6. OnlyRepeatedLeak'
  <2> SUFFICES ASSUME NEW w \in leaked' PROVE w.name \in repeated
    BY DEF OnlyRepeatedLeak
  <2>1. CASE w \in leaked
    BY <2>1 DEF WatchdogInv, OnlyRepeatedLeak
  <2>2. CASE ~OnceIn(list, w.name)
    <3>1. w.name \in Names
      BY <1>1 DEF Work
    <3> QED
      BY <2>2, <3>1
  <2> QED
    BY <1>1, <2>1, <2>2
<1>7. IntervalIsListed'
  BY <1>1 DEF IntervalIsListed
<1> QED
  BY <1>2, <1>4, <1>5, <1>6, <1>7 DEF WatchdogInv

LEMMA InitWatchdogInv == InitWatchdog => WatchdogInv
<1> SUFFICES ASSUME InitWatchdog PROVE WatchdogInv
  OBVIOUS
<1>1. [enabled |-> TRUE, off |-> {}] \in Config
  BY DEF Config
<1>2. tasks \in Seq(Task) /\ \A n : OnceIn(tasks, n)
  BY <1>1, InitialTasksFacts DEF InitWatchdog
<1>3. \A n \in Names : taskIntervals[n] = NoTask
  BY DEF InitWatchdog, UnscheduleAll
<1>4. TypeOKWatchdog
  BY <1>2 DEF InitWatchdog, TypeOKWatchdog, UnscheduleAll
<1>5. NamesOccurOnce
  BY <1>2 DEF NamesOccurOnce
<1>6. IntervalsAreNamed /\ IntervalIsListed
  BY <1>3 DEF InitWatchdog, IntervalsAreNamed, IntervalIsListed
<1>7. OnlyRepeatedLeak
  BY DEF InitWatchdog, OnlyRepeatedLeak
<1> QED
  BY <1>4, <1>5, <1>6, <1>7 DEF WatchdogInv

LEMMA StartTasksInv ==
    ASSUME WatchdogInv, StartTasks
    PROVE  WatchdogInv'
<1>1. ScheduleAll(tasks') /\ isRunning' /\ isRunning' \in BOOLEAN /\ enabled' \in BOOLEAN
  BY DEF StartTasks, WatchdogInv, TypeOKWatchdog
<1>2. UNCHANGED repeated /\ tasks' = tasks /\ tasks' \in Seq(Task)
  BY DEF StartTasks, WatchdogInv, TypeOKWatchdog
<1>3. \A n \in Names \ repeated : OnceIn(tasks', n)
  BY <1>2 DEF WatchdogInv, NamesOccurOnce
<1> QED
  BY <1>1, <1>2, <1>3, ScheduleAllInv

LEMMA StopTasksInv ==
    ASSUME WatchdogInv, StopTasks
    PROVE  WatchdogInv'
<1>1. /\ isRunning' = FALSE /\ taskIntervals' = [n \in Names |-> NoTask]
      /\ UNCHANGED <<enabled, tasks, leaked, repeated>>
  BY DEF StopTasks, UnscheduleAll
<1>2. \A n \in Names : taskIntervals'[n] = NoTask
  BY <1>1
<1>3. TypeOKWatchdog'
  BY <1>1 DEF WatchdogInv, TypeOKWatchdog
<1>4. NamesOccurOnce' /\ OnlyRepeatedLeak'
  BY <1>1 DEF WatchdogInv, NamesOccurOnce, OnlyRepeatedLeak
<1>5. IntervalsAreNamed' /\ IntervalIsListed'
  BY <1>1, <1>2 DEF IntervalsAreNamed, IntervalIsListed
<1> QED
  BY <1>3, <1>4, <1>5 DEF WatchdogInv

LEMMA AppendFacts ==
    ASSUME NEW list \in Seq(Task), NEW t \in Task
    PROVE  /\ Append(list, t) \in Seq(Task)
           /\ Len(list) + 1 \in DOMAIN Append(list, t)
           /\ Append(list, t)[Len(list) + 1] = t
           /\ \A i \in DOMAIN list :
                i \in DOMAIN Append(list, t) /\ Append(list, t)[i] = list[i] /\ i # Len(list) + 1
           /\ \A i \in DOMAIN Append(list, t) : i \in DOMAIN list \/ i = Len(list) + 1
<1>1. /\ Append(list, t) \in Seq(Task)
      /\ Len(Append(list, t)) = Len(list) + 1
      /\ \A i \in 1 .. Len(list) : Append(list, t)[i] = list[i]
      /\ Append(list, t)[Len(list) + 1] = t
  BY AppendProperties
<1>2. Len(list) \in Nat /\ DOMAIN list = 1 .. Len(list)
  BY LenProperties
<1>3. DOMAIN Append(list, t) = 1 .. Len(list) + 1
  BY <1>1, LenProperties
<1> QED
  BY <1>1, <1>2, <1>3

\* A task that comes last is the only one of its name, or the name is repeated.
LEMMA AddTaskNames ==
    ASSUME WatchdogInv, NEW t \in Task, AddTask(t)
    PROVE  /\ NamesOccurOnce'
           /\ \A n \in Names \ repeated' : n \notin repeated
           /\ t.name \notin repeated' => Listed(t.name) = {}
<1>1. tasks \in Seq(Task) /\ tasks' = Append(tasks, t) /\ repeated \subseteq Names
  BY DEF AddTask, WatchdogInv, TypeOKWatchdog
<1>2. repeated' = IF Listed(t.name) = {} THEN repeated ELSE repeated \cup {t.name}
  BY DEF AddTask
<1>3. \A n \in Names \ repeated' : n \notin repeated
  BY <1>2
<1>4. t.name \notin repeated' => Listed(t.name) = {}
  BY <1>2
<1>5. ASSUME NEW n \in Names \ repeated' PROVE OnceIn(tasks', n)
  <2>1. OnceIn(tasks, n)
    BY <1>3 DEF WatchdogInv, NamesOccurOnce
  <2>2. t.name = n => \A i \in DOMAIN tasks : tasks[i].name # n
    BY <1>4 DEF Listed
  <2>3. /\ tasks'[Len(tasks) + 1] = t
        /\ \A i \in DOMAIN tasks : tasks'[i] = tasks[i]
        /\ \A i \in DOMAIN tasks' : i \in DOMAIN tasks \/ i = Len(tasks) + 1
    BY <1>1, AppendFacts
  <2> QED
    BY <2>1, <2>2, <2>3 DEF OnceIn
<1> QED
  BY <1>3, <1>4, <1>5 DEF NamesOccurOnce

\* The interval of a name that is not repeated, after a task came last.
LEMMA AddTaskIntervals ==
    ASSUME WatchdogInv, NEW t \in Task, AddTask(t),
           IF isRunning /\ t.enabled
           THEN taskIntervals'[t.name] = WorkOf(t)
           ELSE taskIntervals'[t.name] = taskIntervals[t.name],
           \A n \in Names : n # t.name => taskIntervals'[n] = taskIntervals[n]
    PROVE  IntervalIsListed'
<1>0. tasks \in Seq(Task) /\ tasks' = Append(tasks, t) /\ isRunning' = isRunning
  BY DEF AddTask, WatchdogInv, TypeOKWatchdog
<1> DEFINE last == Len(tasks) + 1
<1>1. /\ last \in DOMAIN tasks' /\ tasks'[last] = t
      /\ \A i \in DOMAIN tasks :
           i \in DOMAIN tasks' /\ tasks'[i] = tasks[i] /\ i # last
      /\ \A i \in DOMAIN tasks' : i \in DOMAIN tasks \/ i = last
  BY <1>0, AppendFacts
<1> HIDE DEF last
<1>2. /\ \A i \in EnabledIn(tasks) : i \in EnabledIn(tasks)' /\ tasks'[i] = tasks[i]
      /\ t.enabled => last \in EnabledIn(tasks)'
      /\ \A i \in EnabledIn(tasks)' : i \in EnabledIn(tasks) \/ (i = last /\ t.enabled)
  BY <1>1 DEF EnabledIn
<1> SUFFICES ASSUME NEW n \in Names \ repeated'
             PROVE  /\ taskIntervals'[n] # NoTask => isRunning'
                    /\ taskIntervals'[n] # NoTask =>
                         \E i \in EnabledIn(tasks)' :
                            tasks'[i].name = n /\ taskIntervals'[n] = WorkOf(tasks'[i])
                    /\ isRunning' => \A i \in EnabledIn(tasks)' :
                         tasks'[i].name = n => taskIntervals'[n] = WorkOf(tasks'[i])
  BY DEF IntervalIsListed, EnabledIn
<1>3. n \in Names \ repeated
  BY AddTaskNames
<1>4. /\ taskIntervals[n] # NoTask => isRunning
      /\ taskIntervals[n] # NoTask =>
           \E i \in EnabledIn(tasks) :
              tasks[i].name = n /\ taskIntervals[n] = WorkOf(tasks[i])
      /\ isRunning => \A i \in EnabledIn(tasks) :
           tasks[i].name = n => taskIntervals[n] = WorkOf(tasks[i])
  BY <1>3 DEF WatchdogInv, IntervalIsListed
<1>5. CASE n # t.name
  <2>1. taskIntervals'[n] = taskIntervals[n]
    BY <1>5
  <2>2. ASSUME taskIntervals'[n] # NoTask
        PROVE  \E i \in EnabledIn(tasks)' :
                  tasks'[i].name = n /\ taskIntervals'[n] = WorkOf(tasks'[i])
    <3>1. PICK i \in EnabledIn(tasks) :
             tasks[i].name = n /\ taskIntervals[n] = WorkOf(tasks[i])
      BY <1>4, <2>1, <2>2
    <3>2. i \in EnabledIn(tasks)' /\ tasks'[i] = tasks[i]
      BY <1>2
    <3>3. tasks'[i].name = n /\ taskIntervals'[n] = WorkOf(tasks'[i])
      BY <2>1, <3>1, <3>2
    <3> QED
      BY <3>2, <3>3
  <2>3. ASSUME isRunning, NEW i \in EnabledIn(tasks)', tasks'[i].name = n
        PROVE  taskIntervals'[n] = WorkOf(tasks'[i])
    <3>1. i # last
      BY <1>1, <1>5, <2>3
    <3>2. i \in EnabledIn(tasks)
      BY <1>2, <3>1
    <3> QED
      BY <1>2, <1>4, <2>1, <2>3, <3>2
  <2> QED
    BY <1>0, <1>4, <2>1, <2>2, <2>3
<1>6. CASE n = t.name
  <2>1. Listed(n) = {}
    BY <1>6, AddTaskNames
  <2>2. \A i \in EnabledIn(tasks) : tasks[i].name # n
    BY <2>1 DEF Listed, EnabledIn
  <2>3. taskIntervals[n] = NoTask
    BY <1>4, <2>2
  <2>4. CASE isRunning /\ t.enabled
    <3>1. taskIntervals'[n] = WorkOf(t)
      BY <1>6, <2>4
    <3>2. last \in EnabledIn(tasks)' /\ tasks'[last] = t
      BY <1>1, <1>2, <2>4
    <3>3. \A i \in EnabledIn(tasks)' : tasks'[i].name = n => i = last
      BY <1>2, <2>2
    <3> QED
      BY <1>0, <1>6, <2>4, <3>1, <3>2, <3>3
  <2>5. CASE ~(isRunning /\ t.enabled)
    <3>1. taskIntervals'[n] = NoTask
      BY <1>6, <2>3, <2>5
    <3>2. isRunning => ~t.enabled
      BY <2>5
    <3>3. ASSUME isRunning, NEW i \in EnabledIn(tasks)' PROVE tasks'[i].name # n
      <4>1. i \in EnabledIn(tasks)
        BY <1>2, <3>2, <3>3
      <4> QED
        BY <1>2, <2>2, <4>1
    <3> QED
      BY <1>0, <3>1, <3>3
  <2> QED
    BY <2>4, <2>5
<1> QED
  BY <1>5, <1>6

LEMMA AddTaskInv ==
    ASSUME WatchdogInv, NEW t \in Task, AddTask(t)
    PROVE  WatchdogInv'
<1>0. TypeOKWatchdog /\ IntervalsAreNamed
  BY DEF WatchdogInv
<1>1. /\ tasks' = Append(tasks, t) /\ UNCHANGED <<isRunning, enabled>>
      /\ IF isRunning /\ t.enabled THEN Schedule(t) ELSE AsScheduled
  BY DEF AddTask
<1>2. t.name \in Names
  BY WorkFacts
<1>3. NamesOccurOnce'
  BY AddTaskNames
<1>4. repeated' \subseteq Names /\ repeated \subseteq repeated'
  BY <1>0, <1>2 DEF AddTask, TypeOKWatchdog
<1>5. tasks' \in Seq(Task)
  BY <1>0, <1>1, AppendFacts DEF TypeOKWatchdog
<1>6. CASE isRunning /\ t.enabled
  <2>1. /\ taskIntervals' \in [Names -> Work \cup {NoTask}]
        /\ leaked' \subseteq Work
        /\ taskIntervals'[t.name] = WorkOf(t)
        /\ \A n \in Names : n # t.name => taskIntervals'[n] = taskIntervals[n]
        /\ \A w \in leaked' : w \in leaked \/ (taskIntervals[t.name] = w /\ w # NoTask
                                                 /\ w.name = t.name)
    BY <1>0, <1>1, <1>6, ScheduleFacts
  <2>2. TypeOKWatchdog'
    BY <1>0, <1>1, <1>4, <1>5, <2>1 DEF TypeOKWatchdog
  <2>3. IntervalsAreNamed'
    BY <1>0, <2>1, WorkFacts DEF IntervalsAreNamed
  <2>4. IntervalIsListed'
    BY <1>6, <2>1, AddTaskIntervals
  <2>5. taskIntervals[t.name] # NoTask => t.name \in repeated'
    <3> SUFFICES ASSUME taskIntervals[t.name] # NoTask, t.name \notin repeated'
                 PROVE  FALSE
      OBVIOUS
    <3>1. t.name \in Names \ repeated /\ Listed(t.name) = {}
      BY <1>2, <1>4, AddTaskNames
    <3>2. \E i \in EnabledIn(tasks) : tasks[i].name = t.name
      BY <3>1 DEF WatchdogInv, IntervalIsListed
    <3> QED
      BY <3>1, <3>2 DEF Listed, EnabledIn
  <2>6. OnlyRepeatedLeak'
    BY <1>4, <2>1, <2>5 DEF WatchdogInv, OnlyRepeatedLeak
  <2> QED
    BY <1>3, <2>2, <2>3, <2>4, <2>6 DEF WatchdogInv
<1>7. CASE ~(isRunning /\ t.enabled)
  <2>1. UNCHANGED <<taskIntervals, leaked>>
    BY <1>1, <1>7 DEF AsScheduled
  <2>2. TypeOKWatchdog'
    BY <1>0, <1>1, <1>4, <1>5, <2>1 DEF TypeOKWatchdog
  <2>3. IntervalsAreNamed'
    BY <1>0, <2>1 DEF IntervalsAreNamed
  <2>4. IntervalIsListed'
    BY <1>7, <2>1, AddTaskIntervals
  <2>5. OnlyRepeatedLeak'
    BY <1>4, <2>1 DEF WatchdogInv, OnlyRepeatedLeak
  <2> QED
    BY <1>3, <2>2, <2>3, <2>4, <2>5 DEF WatchdogInv
<1> QED
  BY <1>6, <1>7

\* The list without the tasks of n: what is left is what had another name.
LEMMA RemoveTaskList ==
    ASSUME WatchdogInv, NEW n \in Names, RemoveTask(n)
    PROVE  /\ tasks' \in Seq(Task)
           /\ \A k \in DOMAIN tasks' : \E i \in DOMAIN tasks :
                tasks'[k] = tasks[i] /\ tasks[i].name # n
           /\ \A i \in DOMAIN tasks : tasks[i].name # n =>
                \E k \in DOMAIN tasks' : tasks'[k] = tasks[i]
           /\ \A m : OnceIn(tasks, m) => OnceIn(tasks', m)
<1> DEFINE S == DOMAIN tasks \ Listed(n)
           len == Cardinality(S)
<1>1. PICK order \in SetToSeqs(S) : tasks' = [k \in DOMAIN order |-> tasks[order[k]]]
  BY DEF RemoveTask, InOrderOf
<1>2. IsFiniteSet(DOMAIN tasks)
  BY LenProperties, FS_Interval DEF WatchdogInv, TypeOKWatchdog
<1>3. IsFiniteSet(S)
  BY <1>2, FS_Subset
<1>4. \A i \in DOMAIN tasks : i \in S <=> tasks[i].name # n
  BY DEF Listed
<1>5. \A i \in DOMAIN tasks : tasks[i] \in Task
  BY LenProperties, ElementOfSeq DEF WatchdogInv, TypeOKWatchdog
<1> S \subseteq DOMAIN tasks
  OBVIOUS
<1> HIDE DEF S
<1>6. /\ len \in Nat
      /\ order \in [1 .. len -> S]
      /\ \A i, j \in 1 .. len : order[i] = order[j] => i = j
      /\ \A x \in S : \E i \in 1 .. len : order[i] = x
  BY <1>3, OrderFacts
<1> HIDE DEF len
<1>7. DOMAIN tasks' = 1 .. len /\ \A k \in 1 .. len : tasks'[k] = tasks[order[k]]
  BY <1>1, <1>6
<1>8. \A k \in 1 .. len : order[k] \in DOMAIN tasks /\ tasks[order[k]].name # n
  BY <1>4, <1>6
<1>9. tasks' \in Seq(Task)
  <2>1. tasks' \in [1 .. len -> Task]
    BY <1>1, <1>5, <1>6, <1>8
  <2> QED
    BY <1>6, <2>1
<1>10. \A i \in DOMAIN tasks : tasks[i].name # n =>
         \E k \in DOMAIN tasks' : tasks'[k] = tasks[i]
  BY <1>4, <1>6, <1>7
<1>11. ASSUME NEW m, OnceIn(tasks, m) PROVE OnceIn(tasks', m)
  <2> SUFFICES ASSUME NEW k \in 1 .. len, NEW l \in 1 .. len,
                      tasks'[k].name = m, tasks'[l].name = m
               PROVE  k = l
    BY <1>7 DEF OnceIn
  <2>1. order[k] = order[l]
    BY <1>7, <1>8, <1>11 DEF OnceIn
  <2> QED
    BY <1>6, <2>1
<1> QED
  BY <1>7, <1>8, <1>9, <1>10, <1>11

LEMMA RemoveTaskInv ==
    ASSUME WatchdogInv, NEW n \in Names, RemoveTask(n)
    PROVE  WatchdogInv'
<1>0. TypeOKWatchdog
  BY DEF WatchdogInv
<1>1. /\ taskIntervals' = [taskIntervals EXCEPT ![n] = NoTask]
      /\ UNCHANGED <<isRunning, enabled, leaked, repeated>>
  BY DEF RemoveTask, Unschedule
<1>2. /\ tasks' \in Seq(Task)
      /\ \A k \in DOMAIN tasks' : \E i \in DOMAIN tasks :
           tasks'[k] = tasks[i] /\ tasks[i].name # n
      /\ \A i \in DOMAIN tasks : tasks[i].name # n =>
           \E k \in DOMAIN tasks' : tasks'[k] = tasks[i]
      /\ \A m : OnceIn(tasks, m) => OnceIn(tasks', m)
  BY RemoveTaskList
<1>3. /\ taskIntervals' \in [Names -> Work \cup {NoTask}]
      /\ taskIntervals'[n] = NoTask
      /\ \A m \in Names : m # n => taskIntervals'[m] = taskIntervals[m]
  BY <1>0, <1>1 DEF TypeOKWatchdog
<1>4. TypeOKWatchdog'
  BY <1>0, <1>1, <1>2, <1>3 DEF TypeOKWatchdog
<1>5. IntervalsAreNamed'
  BY <1>3 DEF WatchdogInv, IntervalsAreNamed
<1>6. NamesOccurOnce' /\ OnlyRepeatedLeak'
  BY <1>1, <1>2 DEF WatchdogInv, NamesOccurOnce, OnlyRepeatedLeak
<1>7. \A k \in EnabledIn(tasks)' : \E i \in EnabledIn(tasks) :
        tasks'[k] = tasks[i] /\ tasks[i].name # n
  BY <1>2 DEF EnabledIn
<1>8. \A i \in EnabledIn(tasks) : tasks[i].name # n =>
        \E k \in EnabledIn(tasks)' : tasks'[k] = tasks[i]
  BY <1>2 DEF EnabledIn
<1>9. ASSUME NEW m \in Names \ repeated
      PROVE  /\ taskIntervals'[m] # NoTask => isRunning
             /\ taskIntervals'[m] # NoTask =>
                  \E k \in EnabledIn(tasks)' :
                     tasks'[k].name = m /\ taskIntervals'[m] = WorkOf(tasks'[k])
             /\ isRunning => \A k \in EnabledIn(tasks)' :
                  tasks'[k].name = m => taskIntervals'[m] = WorkOf(tasks'[k])
  <2>1. CASE m = n
    BY <1>3, <1>7, <2>1
  <2>2. CASE m # n
    <3>1. taskIntervals'[m] = taskIntervals[m]
      BY <1>3, <2>2
    <3>2. /\ taskIntervals[m] # NoTask => isRunning
          /\ taskIntervals[m] # NoTask =>
               \E i \in EnabledIn(tasks) :
                  tasks[i].name = m /\ taskIntervals[m] = WorkOf(tasks[i])
          /\ isRunning => \A i \in EnabledIn(tasks) :
               tasks[i].name = m => taskIntervals[m] = WorkOf(tasks[i])
      BY DEF WatchdogInv, IntervalIsListed
    <3>3. ASSUME taskIntervals'[m] # NoTask
          PROVE  \E k \in EnabledIn(tasks)' :
                    tasks'[k].name = m /\ taskIntervals'[m] = WorkOf(tasks'[k])
      BY <1>8, <2>2, <3>1, <3>2, <3>3
    <3>4. ASSUME isRunning, NEW k \in EnabledIn(tasks)', tasks'[k].name = m
          PROVE  taskIntervals'[m] = WorkOf(tasks'[k])
      BY <1>7, <3>1, <3>2, <3>4
    <3> QED
      BY <3>1, <3>2, <3>3, <3>4
  <2> QED
    BY <2>1, <2>2
<1>10. IntervalIsListed'
  BY <1>1, <1>9 DEF IntervalIsListed, EnabledIn
<1> QED
  BY <1>4, <1>5, <1>6, <1>10 DEF WatchdogInv

LEMMA FirstFacts ==
    ASSUME TypeOKWatchdog, NEW n, Listed(n) # {}
    PROVE  First(n) \in DOMAIN tasks /\ tasks[First(n)] \in Task /\ tasks[First(n)].name = n
<1>1. Listed(n) \subseteq DOMAIN tasks /\ \A i \in Listed(n) : tasks[i].name = n
  BY DEF Listed
<1>2. DOMAIN tasks \subseteq Nat /\ \A i \in DOMAIN tasks : tasks[i] \in Task
  BY LenProperties, ElementOfSeq DEF TypeOKWatchdog
<1>3. Listed(n) \subseteq Nat
  BY <1>1, <1>2
<1>4. \E i \in Listed(n) : \A j \in Listed(n) : i <= j
  BY <1>3, LeastOf
<1>5. First(n) \in Listed(n)
  BY <1>4 DEF First
<1> QED
  BY <1>1, <1>2, <1>5

\* Enabling or disabling the task at a place of the list.
Switched(list, at, on) == [list EXCEPT ![at].enabled = on]

LEMMA SwitchFacts ==
    ASSUME NEW list \in Seq(Task), NEW at \in DOMAIN list, NEW on \in BOOLEAN
    PROVE  LET new == Switched(list, at, on) IN
           /\ new \in Seq(Task)
           /\ DOMAIN new = DOMAIN list
           /\ \A i \in DOMAIN list :
                new[i].name = list[i].name /\ WorkOf(new[i]) = WorkOf(list[i])
           /\ \A i \in DOMAIN list \ {at} : i \in EnabledIn(new) <=> i \in EnabledIn(list)
           /\ at \in EnabledIn(new) <=> on
<1> DEFINE t == [list[at] EXCEPT !.enabled = on]
           new == Switched(list, at, on)
<1>1. list[at] \in Task
  BY LenProperties, ElementOfSeq
<1>2. t \in Task /\ t.name = list[at].name /\ t.own = list[at].own
  BY <1>1 DEF Task
<1>3. t.enabled = on
  BY <1>1 DEF Task
<1>4. new = [list EXCEPT ![at] = t]
  BY DEF Switched
<1> HIDE DEF t, new
<1>5. new \in Seq(Task) /\ DOMAIN new = DOMAIN list
  BY <1>2, <1>4, LenProperties, ExceptSeq
<1>6. new[at] = t /\ \A i \in DOMAIN list \ {at} : new[i] = list[i]
  BY <1>4
<1>7. \A i \in DOMAIN list : new[i].name = list[i].name /\ WorkOf(new[i]) = WorkOf(list[i])
  BY <1>2, <1>6 DEF WorkOf
<1>8. \A i \in DOMAIN list \ {at} : i \in EnabledIn(new) <=> i \in EnabledIn(list)
  BY <1>5, <1>6 DEF EnabledIn
<1>9. at \in EnabledIn(new) <=> on
  BY <1>3, <1>5, <1>6, Zenon DEF EnabledIn
<1> QED
  BY <1>5, <1>7, <1>8, <1>9 DEF new

\* The interval of the name whose first task is switched, if it is not repeated.
LEMMA SetTaskEnabledIntervals ==
    ASSUME WatchdogInv, NEW n \in Names, NEW on \in BOOLEAN, SetTaskEnabled(n, on),
           \A m \in Names : m # n => taskIntervals'[m] = taskIntervals[m],
           CASE isRunning /\ on /\ taskIntervals[n] = NoTask ->
                  taskIntervals'[n] = WorkOf(tasks[First(n)])
             [] isRunning /\ ~on -> taskIntervals'[n] = NoTask
             [] OTHER -> taskIntervals'[n] = taskIntervals[n]
    PROVE  IntervalIsListed'
<1> DEFINE at == First(n)
<1>0. TypeOKWatchdog /\ tasks \in Seq(Task) /\ Listed(n) # {}
  BY DEF WatchdogInv, TypeOKWatchdog, SetTaskEnabled
<1>1. at \in DOMAIN tasks /\ tasks[at].name = n
  BY <1>0, FirstFacts
<1>2. tasks' = Switched(tasks, at, on) /\ UNCHANGED <<isRunning, repeated>>
  BY DEF SetTaskEnabled, Switched
<1> HIDE DEF at
<1>3. /\ DOMAIN tasks' = DOMAIN tasks
      /\ \A i \in DOMAIN tasks :
           tasks'[i].name = tasks[i].name /\ WorkOf(tasks'[i]) = WorkOf(tasks[i])
      /\ \A i \in DOMAIN tasks \ {at} : i \in EnabledIn(tasks') <=> i \in EnabledIn(tasks)
      /\ at \in EnabledIn(tasks') <=> on
  BY <1>0, <1>1, <1>2, SwitchFacts
<1>4. EnabledIn(tasks)' = EnabledIn(tasks')
  BY DEF EnabledIn
<1>5. EnabledIn(tasks) \subseteq DOMAIN tasks /\ EnabledIn(tasks') \subseteq DOMAIN tasks
  BY <1>3 DEF EnabledIn
<1>6. ASSUME NEW m \in Names \ repeated
      PROVE  /\ taskIntervals'[m] # NoTask => isRunning
             /\ taskIntervals'[m] # NoTask =>
                  \E i \in EnabledIn(tasks') :
                     tasks'[i].name = m /\ taskIntervals'[m] = WorkOf(tasks'[i])
             /\ isRunning => \A i \in EnabledIn(tasks') :
                  tasks'[i].name = m => taskIntervals'[m] = WorkOf(tasks'[i])
  <2>1. /\ taskIntervals[m] # NoTask => isRunning
        /\ taskIntervals[m] # NoTask =>
             \E i \in EnabledIn(tasks) :
                tasks[i].name = m /\ taskIntervals[m] = WorkOf(tasks[i])
        /\ isRunning => \A i \in EnabledIn(tasks) :
             tasks[i].name = m => taskIntervals[m] = WorkOf(tasks[i])
    BY DEF WatchdogInv, IntervalIsListed
  <2>2. OnceIn(tasks, m)
    BY DEF WatchdogInv, NamesOccurOnce
  <2>3. CASE m # n
    <3>1. taskIntervals'[m] = taskIntervals[m]
      BY <2>3
    <3>2. \A i \in DOMAIN tasks : tasks[i].name = m =>
            (i \in EnabledIn(tasks') <=> i \in EnabledIn(tasks))
      BY <1>1, <1>3, <2>3
    <3> QED
      BY <1>3, <1>5, <2>1, <3>1, <3>2
  <2>4. CASE m = n
    <3>1. \A i \in DOMAIN tasks : tasks[i].name = n => i = at
      BY <1>1, <2>2, <2>4 DEF OnceIn
    <3>2. \A i \in EnabledIn(tasks') : tasks'[i].name = n => i = at /\ on
      BY <1>3, <1>5, <3>1
    <3>3. tasks'[at].name = n /\ WorkOf(tasks'[at]) = WorkOf(tasks[at])
      BY <1>1, <1>3
    <3>4. CASE isRunning /\ on /\ taskIntervals[n] = NoTask
      <4>1. taskIntervals'[n] = WorkOf(tasks[at])
        BY <3>4 DEF at
      <4> QED
        BY <1>3, <2>4, <3>2, <3>3, <3>4, <4>1
    <3>5. CASE isRunning /\ ~on
      <4>1. taskIntervals'[n] = NoTask
        BY <3>5
      <4> QED
        BY <2>4, <3>2, <3>5, <4>1
    <3>6. CASE isRunning /\ on /\ taskIntervals[n] # NoTask
      <4>1. taskIntervals'[n] = taskIntervals[n]
        BY <3>6
      <4>2. taskIntervals[n] = WorkOf(tasks[at])
        BY <1>5, <2>1, <2>4, <3>1, <3>6
      <4> QED
        BY <1>3, <2>4, <3>2, <3>3, <3>6, <4>1, <4>2
    <3>7. CASE ~isRunning
      <4>1. taskIntervals'[n] = taskIntervals[n]
        BY <3>7
      <4> QED
        BY <2>1, <2>4, <3>7, <4>1
    <3> QED
      BY <3>4, <3>5, <3>6, <3>7
  <2> QED
    BY <2>3, <2>4
<1> QED
  BY <1>2, <1>4, <1>6 DEF IntervalIsListed

LEMMA SetTaskEnabledInv ==
    ASSUME WatchdogInv, NEW n \in Names, NEW on \in BOOLEAN, SetTaskEnabled(n, on)
    PROVE  WatchdogInv'
<1>0. TypeOKWatchdog /\ IntervalsAreNamed /\ tasks \in Seq(Task) /\ Listed(n) # {}
  BY DEF WatchdogInv, TypeOKWatchdog, SetTaskEnabled
<1>1. /\ First(n) \in DOMAIN tasks
      /\ tasks[First(n)] \in Task
      /\ tasks[First(n)].name = n
  BY <1>0, FirstFacts
<1>2. /\ tasks' = Switched(tasks, First(n), on)
      /\ UNCHANGED <<isRunning, enabled, repeated>>
      /\ CASE isRunning /\ on /\ taskIntervals[n] = NoTask -> Schedule(tasks[First(n)])
           [] isRunning /\ ~on -> Unschedule(n)
           [] OTHER -> AsScheduled
  BY DEF SetTaskEnabled, EnablingArms, Switched
<1>3. /\ tasks' \in Seq(Task)
      /\ DOMAIN tasks' = DOMAIN tasks
      /\ \A i \in DOMAIN tasks : tasks'[i].name = tasks[i].name
  BY <1>0, <1>1, <1>2, SwitchFacts
<1>4. taskIntervals \in [Names -> Work \cup {NoTask}] /\ leaked \subseteq Work
  BY <1>0 DEF TypeOKWatchdog
<1>5. /\ taskIntervals' \in [Names -> Work \cup {NoTask}]
      /\ leaked' = leaked
      /\ \A m \in Names : m # n => taskIntervals'[m] = taskIntervals[m]
      /\ taskIntervals'[n] # NoTask => taskIntervals'[n].name = n
      /\ CASE isRunning /\ on /\ taskIntervals[n] = NoTask ->
                taskIntervals'[n] = WorkOf(tasks[First(n)])
           [] isRunning /\ ~on -> taskIntervals'[n] = NoTask
           [] OTHER -> taskIntervals'[n] = taskIntervals[n]
  <2>1. CASE isRunning /\ on /\ taskIntervals[n] = NoTask
    <3>1. Schedule(tasks[First(n)])
      BY <1>2, <2>1
    <3>2. /\ taskIntervals' = [taskIntervals EXCEPT ![n] = WorkOf(tasks[First(n)])]
          /\ leaked' = leaked
      BY <1>1, <2>1, <3>1 DEF Schedule
    <3>3. WorkOf(tasks[First(n)]) \in Work /\ WorkOf(tasks[First(n)]).name = n
      BY <1>1, WorkFacts
    <3> QED
      BY <1>4, <2>1, <3>2, <3>3
  <2>2. CASE isRunning /\ ~on
    <3>1. Unschedule(n)
      BY <1>2, <2>2
    <3> QED
      BY <1>4, <2>2, <3>1 DEF Unschedule
  <2>3. CASE ~isRunning \/ (on /\ taskIntervals[n] # NoTask)
    <3>1. UNCHANGED <<taskIntervals, leaked>>
      BY <1>2, <2>3 DEF AsScheduled
    <3> QED
      BY <1>0, <1>4, <2>3, <3>1 DEF IntervalsAreNamed
  <2> QED
    BY <2>1, <2>2, <2>3
<1>6. TypeOKWatchdog'
  BY <1>0, <1>2, <1>3, <1>5 DEF TypeOKWatchdog
<1>7. IntervalsAreNamed'
  BY <1>0, <1>5 DEF IntervalsAreNamed
<1>8. NamesOccurOnce'
  BY <1>2, <1>3 DEF WatchdogInv, NamesOccurOnce, OnceIn
<1>9. OnlyRepeatedLeak'
  BY <1>2, <1>5 DEF WatchdogInv, OnlyRepeatedLeak
<1>10. IntervalIsListed'
  <2>1. \A m \in Names : m # n => taskIntervals'[m] = taskIntervals[m]
    BY <1>5
  <2>2. (CASE isRunning /\ on /\ taskIntervals[n] = NoTask ->
                taskIntervals'[n] = WorkOf(tasks[First(n)])
           [] isRunning /\ ~on -> taskIntervals'[n] = NoTask
           [] OTHER -> taskIntervals'[n] = taskIntervals[n])
    BY <1>5
  <2> QED
    BY <2>1, <2>2, SetTaskEnabledIntervals
<1> QED
  BY <1>6, <1>7, <1>8, <1>9, <1>10 DEF WatchdogInv

LEMMA UpdateConfigInv ==
    ASSUME WatchdogInv, NEW c \in Config, UpdateConfig(c)
    PROVE  WatchdogInv'
<1>0. TypeOKWatchdog /\ c.enabled \in BOOLEAN
  BY DEF WatchdogInv, Config
<1>1. /\ enabled' = c.enabled
      /\ tasks' = InitialTasks(c)
      /\ isRunning' = (isRunning /\ c.enabled)
      /\ repeated' = repeated
  BY DEF UpdateConfig
<1>2. tasks' \in Seq(Task) /\ \A n : OnceIn(tasks', n)
  BY <1>1, InitialTasksFacts
<1>3. isRunning' \in BOOLEAN /\ enabled' \in BOOLEAN
  BY <1>0, <1>1
<1>4. NamesOccurOnce'
  BY <1>1, <1>2 DEF NamesOccurOnce
<1>5. CASE isRunning'
  <2>1. ScheduleAll(tasks')
    BY <1>5 DEF UpdateConfig
  <2> QED
    BY <1>1, <1>2, <1>3, <1>5, <2>1, ScheduleAllInv
<1>6. CASE isRunning /\ ~isRunning'
  <2>1. taskIntervals' = [n \in Names |-> NoTask] /\ leaked' = leaked
    BY <1>6 DEF UpdateConfig, UnscheduleAll
  <2>2. TypeOKWatchdog'
    BY <1>0, <1>1, <1>2, <1>3, <2>1 DEF TypeOKWatchdog
  <2>3. IntervalsAreNamed' /\ IntervalIsListed'
    BY <1>6, <2>1 DEF IntervalsAreNamed, IntervalIsListed
  <2>4. OnlyRepeatedLeak'
    BY <1>1, <2>1 DEF WatchdogInv, OnlyRepeatedLeak
  <2> QED
    BY <1>4, <2>2, <2>3, <2>4 DEF WatchdogInv
<1>7. CASE ~isRunning /\ ~isRunning'
  <2>1. UNCHANGED <<taskIntervals, leaked>>
    BY <1>7 DEF UpdateConfig, AsScheduled
  <2>2. TypeOKWatchdog'
    BY <1>0, <1>1, <1>2, <1>3, <2>1 DEF TypeOKWatchdog
  <2>3. \A n \in Names \ repeated : taskIntervals[n] = NoTask
    BY <1>7 DEF WatchdogInv, IntervalIsListed
  <2>4. IntervalsAreNamed' /\ IntervalIsListed'
    BY <1>1, <1>7, <2>1, <2>3 DEF WatchdogInv, IntervalsAreNamed, IntervalIsListed
  <2>5. OnlyRepeatedLeak'
    BY <1>1, <2>1 DEF WatchdogInv, OnlyRepeatedLeak
  <2> QED
    BY <1>4, <2>2, <2>4, <2>5 DEF WatchdogInv
<1> QED
  BY <1>1, <1>5, <1>6, <1>7

LEMMA WatchdogStutter ==
    ASSUME WatchdogInv, UNCHANGED watchdog
    PROVE  WatchdogInv'
BY DEF watchdog, WatchdogInv, TypeOKWatchdog, IntervalsAreNamed, NamesOccurOnce, OnceIn,
       OnlyRepeatedLeak, IntervalIsListed, EnabledIn

-----------------------------------------------------------------------------
(* The records of the modules.                                             *)

DeviceIsKnown ==
    /\ kind \in {"V5008", "V6800"}
    /\ alive \subseteq Modules

\* A module without a record has no heartbeat and is not online.
RecordsAreSound ==
    /\ hb \in [Modules -> 0 .. Never]
    /\ isOnline \in [Modules -> BOOLEAN]
    /\ stored \in [Modules -> 0 .. Gone]
    /\ \A a \in Modules : ~HasRecord(a) => hb[a] = Never /\ ~isOnline[a]

\* A record of the repair that is complete lists modules.
RepairIsSound == complete \in BOOLEAN /\ (complete => gathered # {})

\* The inductive invariant of the device under its watchdog.
HealthInv == WatchdogInv /\ DeviceIsKnown /\ RecordsAreSound /\ RepairIsSound

\* What OfflineIsOverdue says of a step.
OfflineStep ==
    \A a \in Modules : isOnline[a] /\ ~isOnline'[a] /\ HasRecord(a)' => hb[a] = OfflineAge + 1

\* What SilentIsNotRenewed says of a step.
SilentStep ==
    \A a \in Modules \ alive :
        ~isOnline[a] => ~isOnline'[a] /\ (stored'[a] >= stored[a] \/ MergedTellsOf(a))

RecordsStep == RecordsAreSound' /\ OfflineStep /\ SilentStep

LEMMA ThresholdFacts ==
    /\ OfflineAge \in Nat /\ Ttl \in Nat
    /\ Never \in Nat /\ OfflineAge + 1 \in 0 .. Never /\ Never = OfflineAge + 2
    /\ Gone \in Nat /\ Gone = Ttl + 1 /\ Gone # 0
BY HealthAssumption DEF Never, Gone

\* A step after which a record is what a condition made of it.
LEMMA OnlineFacts ==
    ASSUME NEW S, isOnline' = [a \in Modules |-> isOnline[a] \/ a \in S],
           isOnline \in [Modules -> BOOLEAN]
    PROVE  /\ isOnline' \in [Modules -> BOOLEAN]
           /\ \A a \in Modules : isOnline'[a] <=> isOnline[a] \/ a \in S
<1> DEFINE b(a) == isOnline[a] \/ a \in S
<1>1. \A a \in Modules : b(a) \in BOOLEAN
  OBVIOUS
<1>2. isOnline' = [a \in Modules |-> b(a)]
  OBVIOUS
<1> HIDE DEF b
<1>3. isOnline' \in [Modules -> BOOLEAN] /\ \A a \in Modules : isOnline'[a] = b(a)
  BY <1>1, <1>2
<1> QED
  BY <1>3, Zenon DEF b

LEMMA OfflineFacts ==
    ASSUME NEW S, isOnline' = [a \in Modules |-> isOnline[a] /\ a \notin S],
           isOnline \in [Modules -> BOOLEAN]
    PROVE  /\ isOnline' \in [Modules -> BOOLEAN]
           /\ \A a \in Modules : isOnline'[a] <=> isOnline[a] /\ a \notin S
<1> DEFINE b(a) == isOnline[a] /\ a \notin S
<1>1. \A a \in Modules : b(a) \in BOOLEAN
  OBVIOUS
<1>2. isOnline' = [a \in Modules |-> b(a)]
  OBVIOUS
<1> HIDE DEF b
<1>3. isOnline' \in [Modules -> BOOLEAN] /\ \A a \in Modules : isOnline'[a] = b(a)
  BY <1>1, <1>2
<1> QED
  BY <1>3, Zenon DEF b

\* Whatever a handler writes because of a message is a record of a module that
\* the message is about.
LEMMA WritesAreAbout ==
    ASSUME NEW s
    PROVE  /\ UpdateHeartbeat(s) \subseteq ManagerWrites(s)
           /\ ManagerWrites(s) \subseteq About(s)
           /\ UpdateRfidStateInCache(s) \subseteq About(s)
<1>1. NamedIn(s) \subseteq AddressesIn(s)
  BY DEF NamedIn, AddressesIn
<1>2. UpdateHeartbeat(s) \subseteq ManagerWrites(s)
  BY DEF ManagerWrites
<1>3. UpdateDeviceInfo(s) \subseteq About(s) /\ UpdateHeartbeat(s) \subseteq About(s)
  BY DEF UpdateDeviceInfo, UpdateHeartbeat, About
<1>4. UpdateRfidSnapshot(s) \subseteq About(s) /\ UpdateReading(s) \subseteq About(s)
  BY <1>1 DEF UpdateRfidSnapshot, UpdateReading, About
<1>5. UpdateDoorState(s) \subseteq About(s) /\ UpdateRfidStateInCache(s) \subseteq About(s)
  BY DEF UpdateDoorState, UpdateRfidStateInCache, About
<1>6. ManagerWrites(s) \subseteq About(s)
  BY <1>3, <1>4, <1>5 DEF ManagerWrites
<1> QED
  BY <1>2, <1>5, <1>6

\* What gets past the repair and what the repair takes in is of the message, and
\* the merged record lists no module but those the repair had and those the
\* message is about.
LEMMA EmittedIsGathered ==
    ASSUME NEW suos, NEW passed \in SUBSET SelfContained(suos), Gather(suos, passed)
    PROVE  /\ Past(suos, passed) \subseteq suos
           /\ Emitted \subseteq gathered \cup UNION {About(s) : s \in suos}
<1>1. Past(suos, passed) \subseteq suos
  BY DEF Past, SelfContained
<1>2. ASSUME NEW s \in Merged(suos) PROVE s \in suos /\ AddressesIn(s) \subseteq About(s)
  BY <1>2 DEF Merged, IsDevMod, About
<1>3. CASE Repairing /\ Merged(suos) # {}
  <2>1. gathered' = gathered \cup UNION {AddressesIn(s) : s \in Merged(suos)}
    BY <1>3 DEF Gather
  <2>2. UNION {AddressesIn(s) : s \in Merged(suos)} \subseteq UNION {About(s) : s \in suos}
    BY <1>2
  <2> QED
    BY <1>1, <2>1, <2>2 DEF Emitted
<1>4. CASE ~(Repairing /\ Merged(suos) # {})
  <2>1. gathered' = gathered
    BY <1>4 DEF Gather, repair
  <2> QED
    BY <1>1, <2>1 DEF Emitted
<1> QED
  BY <1>3, <1>4

LEMMA ReceiveRecords ==
    ASSUME RecordsAreSound, NEW suos, Receive(suos)
    PROVE  RecordsStep
<1>0. PICK passed \in SUBSET SelfContained(suos) :
        LET past == Past(suos, passed)
            heard == IF Caching THEN UNION {UpdateHeartbeat(s) : s \in past} ELSE {}
            scanned == IF Adapting THEN UNION {UpdateRfidStateInCache(s) : s \in past} ELSE {}
            managed == IF Caching THEN Emitted \cup UNION {ManagerWrites(s) : s \in past}
                                  ELSE {}
            renewed == managed \cup scanned
        IN  /\ (UNION {About(s) : s \in suos}) \cap Modules \subseteq alive
            /\ Gather(suos, passed)
            /\ hb' = [a \in Modules |-> IF a \in heard THEN 0 ELSE hb[a]]
            /\ isOnline' = [a \in Modules |-> isOnline[a] \/ a \in heard \cup scanned]
            /\ stored' = [a \in Modules |-> IF a \in renewed THEN 0 ELSE stored[a]]
  BY DEF Receive
<1> DEFINE past == Past(suos, passed)
           heard == IF Caching THEN UNION {UpdateHeartbeat(s) : s \in past} ELSE {}
           scanned == IF Adapting THEN UNION {UpdateRfidStateInCache(s) : s \in past} ELSE {}
           managed == IF Caching THEN Emitted \cup UNION {ManagerWrites(s) : s \in past} ELSE {}
           renewed == managed \cup scanned
           online == heard \cup scanned
           about == UNION {About(s) : s \in suos}
<1>1. /\ about \cap Modules \subseteq alive
      /\ Gather(suos, passed)
      /\ hb' = [a \in Modules |-> IF a \in heard THEN 0 ELSE hb[a]]
      /\ isOnline' = [a \in Modules |-> isOnline[a] \/ a \in online]
      /\ stored' = [a \in Modules |-> IF a \in renewed THEN 0 ELSE stored[a]]
  BY <1>0
<1>2. past \subseteq suos /\ Emitted \subseteq gathered \cup about
  BY <1>1, EmittedIsGathered
<1>3. heard \subseteq managed /\ managed \subseteq Emitted \cup about /\ scanned \subseteq about
  <2> HIDE DEF past
  <2>1. heard \subseteq managed
    BY WritesAreAbout
  <2>2. managed \subseteq Emitted \cup about
    BY <1>2, WritesAreAbout
  <2>3. scanned \subseteq about
    BY <1>2, WritesAreAbout
  <2> QED
    BY <2>1, <2>2, <2>3
<1>4. heard \subseteq about
  <2> HIDE DEF past
  <2> QED
    BY <1>2, WritesAreAbout
<1>5. /\ online \subseteq renewed /\ heard \subseteq renewed
      /\ online \subseteq about /\ renewed \subseteq Emitted \cup about
  BY <1>3, <1>4
<1> HIDE DEF past, heard, scanned, managed, renewed, online, about
<1>6. /\ isOnline' \in [Modules -> BOOLEAN]
      /\ \A a \in Modules : isOnline'[a] <=> isOnline[a] \/ a \in online
  BY <1>1, OnlineFacts DEF RecordsAreSound
<1>7. /\ hb' \in [Modules -> 0 .. Never]
      /\ \A a \in Modules \ heard : hb'[a] = hb[a]
  BY <1>1, ThresholdFacts DEF RecordsAreSound
<1>8. /\ stored' \in [Modules -> 0 .. Gone]
      /\ \A a \in Modules \ renewed : stored'[a] = stored[a]
      /\ \A a \in Modules : a \in renewed => stored'[a] # Gone
  BY <1>1, ThresholdFacts DEF RecordsAreSound
<1>9. ASSUME NEW a \in Modules, ~(stored'[a] # Gone)
      PROVE  hb'[a] = Never /\ ~isOnline'[a]
  <2>1. a \notin renewed /\ a \notin heard /\ a \notin online
    BY <1>5, <1>8, <1>9
  <2>2. stored[a] = Gone
    BY <1>8, <1>9, <2>1
  <2>3. hb[a] = Never /\ ~isOnline[a]
    BY <2>2 DEF RecordsAreSound, HasRecord
  <2> QED
    BY <1>6, <1>7, <2>1, <2>3
<1>10. RecordsAreSound'
  BY <1>6, <1>7, <1>8, <1>9 DEF RecordsAreSound, HasRecord, Never, Gone
<1>11. OfflineStep
  BY <1>6 DEF OfflineStep
<1>12. SilentStep
  <2> SUFFICES ASSUME NEW a \in Modules \ alive, ~isOnline[a]
               PROVE  ~isOnline'[a] /\ (stored'[a] >= stored[a] \/ MergedTellsOf(a))
    BY DEF SilentStep
  <2>1. a \notin about /\ a \notin online
    BY <1>1, <1>5
  <2>2. CASE a \in Emitted
    <3>1. a \in gathered
      BY <1>2, <2>1, <2>2
    <3>2. MergedTellsOf(a)
      BY <2>2, <3>1 DEF MergedTellsOf
    <3> QED
      BY <1>6, <2>1, <3>2
  <2>3. CASE a \notin Emitted
    <3>1. a \notin renewed
      BY <1>5, <2>1, <2>3
    <3>2. stored'[a] = stored[a] /\ stored[a] \in 0 .. Gone
      BY <1>8, <3>1 DEF RecordsAreSound
    <3>3. stored'[a] >= stored[a]
      BY <3>2, ThresholdFacts
    <3> QED
      BY <1>6, <2>1, <3>3
  <2> QED
    BY <2>2, <2>3
<1> QED
  BY <1>10, <1>11, <1>12 DEF RecordsStep

LEMMA ForgetRecords ==
    ASSUME RecordsAreSound, NEW a \in Modules, Forget(a)
    PROVE  RecordsStep
<1>1. /\ hb' = [hb EXCEPT ![a] = Never]
      /\ isOnline' = [isOnline EXCEPT ![a] = FALSE]
      /\ stored' = [stored EXCEPT ![a] = Gone]
  BY DEF Forget
<1>2. /\ isOnline' \in [Modules -> BOOLEAN]
      /\ ~isOnline'[a]
      /\ \A b \in Modules \ {a} : isOnline'[b] = isOnline[b]
  BY <1>1 DEF RecordsAreSound
<1>3. /\ hb' \in [Modules -> 0 .. Never]
      /\ hb'[a] = Never
      /\ \A b \in Modules \ {a} : hb'[b] = hb[b]
  BY <1>1, ThresholdFacts DEF RecordsAreSound
<1>4. /\ stored' \in [Modules -> 0 .. Gone]
      /\ stored'[a] = Gone
      /\ \A b \in Modules \ {a} : stored'[b] = stored[b]
  BY <1>1, ThresholdFacts DEF RecordsAreSound
<1>5. RecordsAreSound'
  BY <1>2, <1>3, <1>4 DEF RecordsAreSound, HasRecord, Never, Gone
<1>6. OfflineStep
  BY <1>2, <1>4 DEF OfflineStep, HasRecord, Gone
<1>7. SilentStep
  <2>1. \A b \in Modules : stored[b] \in 0 .. Gone
    BY DEF RecordsAreSound
  <2>2. \A b \in Modules : stored'[b] >= stored[b]
    BY <1>4, <2>1, ThresholdFacts
  <2> QED
    BY <1>2, <2>2 DEF SilentStep
<1> QED
  BY <1>5, <1>6, <1>7 DEF RecordsStep

LEMMA TickRecords ==
    ASSUME RecordsAreSound, Tick
    PROVE  RecordsStep
<1>1. /\ stored' = [a \in Modules |-> IF HasRecord(a) THEN stored[a] + 1 ELSE Gone]
      /\ hb' = [a \in Modules |->
                  CASE a \in Expired -> Never
                    [] a \notin Expired /\ hb[a] <= OfflineAge -> hb[a] + 1
                    [] OTHER -> hb[a]]
      /\ isOnline' = [a \in Modules |-> isOnline[a] /\ a \notin Expired]
  BY DEF Tick
<1>2. /\ isOnline' \in [Modules -> BOOLEAN]
      /\ \A a \in Modules : isOnline'[a] <=> isOnline[a] /\ a \notin Expired
  BY <1>1, OfflineFacts DEF RecordsAreSound
<1>3. ASSUME NEW a \in Modules
      PROVE  /\ stored'[a] \in 0 .. Gone
             /\ stored'[a] >= stored[a]
             /\ a \in Expired => stored'[a] = Gone
             /\ stored'[a] = Gone => a \in Expired \/ stored[a] = Gone
  BY <1>1, ThresholdFacts DEF RecordsAreSound, HasRecord, Expired
<1>4. ASSUME NEW a \in Modules
      PROVE  /\ hb'[a] \in 0 .. Never
             /\ a \in Expired => hb'[a] = Never
             /\ hb[a] = Never => hb'[a] = Never
  <2>1. hb[a] \in 0 .. Never
    BY DEF RecordsAreSound
  <2>2. \/ a \in Expired /\ hb'[a] = Never
        \/ a \notin Expired /\ hb[a] <= OfflineAge /\ hb'[a] = hb[a] + 1
        \/ a \notin Expired /\ ~(hb[a] <= OfflineAge) /\ hb'[a] = hb[a]
    BY <1>1
  <2> QED
    BY <2>1, <2>2, ThresholdFacts
<1>5. hb' \in [Modules -> 0 .. Never] /\ stored' \in [Modules -> 0 .. Gone]
  BY <1>1, <1>3, <1>4
<1>6. ASSUME NEW a \in Modules, stored'[a] = Gone
      PROVE  hb'[a] = Never /\ ~isOnline'[a]
  <2>1. CASE a \in Expired
    BY <1>2, <1>4, <2>1
  <2>2. CASE stored[a] = Gone
    <3>1. hb[a] = Never /\ ~isOnline[a]
      BY <2>2 DEF RecordsAreSound, HasRecord
    <3> QED
      BY <1>2, <1>4, <3>1
  <2> QED
    BY <1>3, <1>6, <2>1, <2>2
<1>7. RecordsAreSound'
  BY <1>2, <1>5, <1>6 DEF RecordsAreSound, HasRecord, Never, Gone
<1>8. OfflineStep
  BY <1>2, <1>3 DEF OfflineStep, HasRecord, Gone
<1>9. SilentStep
  BY <1>2, <1>3 DEF SilentStep
<1> QED
  BY <1>7, <1>8, <1>9 DEF RecordsStep

LEMMA CheckRecords ==
    ASSUME RecordsAreSound, CheckHealth
    PROVE  RecordsStep
<1>1. /\ isOnline' = [a \in Modules |-> isOnline[a] /\ a \notin OverdueModules]
      /\ stored' = [a \in Modules |-> IF a \in OverdueModules THEN 0 ELSE stored[a]]
      /\ hb' = hb
  BY DEF CheckHealth
<1>2. \A a \in OverdueModules :
        a \in Modules /\ HasRecord(a) /\ hb[a] = OfflineAge + 1 /\ isOnline[a]
  BY DEF OverdueModules
<1>3. /\ isOnline' \in [Modules -> BOOLEAN]
      /\ \A a \in Modules : isOnline'[a] <=> isOnline[a] /\ a \notin OverdueModules
  BY <1>1, OfflineFacts DEF RecordsAreSound
<1>4. /\ stored' \in [Modules -> 0 .. Gone]
      /\ \A a \in Modules \ OverdueModules : stored'[a] = stored[a]
      /\ \A a \in OverdueModules : stored'[a] = 0
  BY <1>1, <1>2, ThresholdFacts DEF RecordsAreSound
<1>5. ASSUME NEW a \in Modules, stored'[a] = Gone
      PROVE  hb'[a] = Never /\ ~isOnline'[a]
  <2>1. a \notin OverdueModules
    BY <1>4, <1>5, ThresholdFacts
  <2>2. hb[a] = Never /\ ~isOnline[a]
    BY <1>4, <1>5, <2>1 DEF RecordsAreSound, HasRecord
  <2> QED
    BY <1>1, <1>3, <2>2
<1>6. RecordsAreSound'
  BY <1>1, <1>3, <1>4, <1>5 DEF RecordsAreSound, HasRecord, Never, Gone
<1>7. OfflineStep
  BY <1>2, <1>3 DEF OfflineStep
<1>8. SilentStep
  <2> SUFFICES ASSUME NEW a \in Modules \ alive, ~isOnline[a]
               PROVE  ~isOnline'[a] /\ stored'[a] >= stored[a]
    BY DEF SilentStep
  <2>1. a \notin OverdueModules
    BY <1>2
  <2>2. stored'[a] = stored[a] /\ stored[a] \in 0 .. Gone
    BY <1>4, <2>1 DEF RecordsAreSound
  <2>3. stored'[a] >= stored[a]
    BY <2>2, ThresholdFacts
  <2> QED
    BY <1>3, <2>3
<1> QED
  BY <1>6, <1>7, <1>8 DEF RecordsStep

LEMMA RecordsStutter ==
    ASSUME RecordsAreSound, UNCHANGED records
    PROVE  RecordsStep
<1>1. hb' = hb /\ isOnline' = isOnline /\ stored' = stored
  BY DEF records
<1>2. RecordsAreSound'
  BY <1>1 DEF RecordsAreSound, HasRecord, Never, Gone
<1>3. OfflineStep
  BY <1>1 DEF OfflineStep
<1>4. \A a \in Modules : stored[a] \in 0 .. Gone
  BY DEF RecordsAreSound
<1>5. \A a \in Modules : stored'[a] >= stored[a]
  BY <1>1, <1>4, ThresholdFacts
<1>6. SilentStep
  BY <1>1, <1>5 DEF SilentStep
<1> QED
  BY <1>2, <1>3, <1>6 DEF RecordsStep

LEMMA RunRecords ==
    ASSUME RecordsAreSound, NEW works, Run(works)
    PROVE  RecordsStep
<1>1. CASE HealthCheck \in works
  BY <1>1, CheckRecords DEF Run
<1>2. CASE HealthCheck \notin works
  BY <1>2, RecordsStutter DEF Run
<1> QED
  BY <1>1, <1>2

-----------------------------------------------------------------------------
(* The device under its watchdog.                                          *)

LEMMA DeviceStutter ==
    ASSUME DeviceIsKnown, UNCHANGED device
    PROVE  DeviceIsKnown'
BY DEF device, DeviceIsKnown

LEMMA RepairStutter ==
    ASSUME RepairIsSound, UNCHANGED repair
    PROVE  RepairIsSound'
BY DEF repair, RepairIsSound

LEMMA GatherIsSound ==
    ASSUME RepairIsSound, NEW suos, NEW passed, Gather(suos, passed)
    PROVE  RepairIsSound'
<1>1. CASE Repairing /\ Merged(suos) # {}
  BY <1>1 DEF Gather, RepairIsSound
<1>2. CASE ~(Repairing /\ Merged(suos) # {})
  BY <1>2, RepairStutter DEF Gather
<1> QED
  BY <1>1, <1>2

LEMMA InitHealthInv == InitHealth => HealthInv
<1> SUFFICES ASSUME InitHealth PROVE HealthInv
  OBVIOUS
<1>1. WatchdogInv
  BY InitWatchdogInv DEF InitHealth
<1>2. DeviceIsKnown
  BY DEF InitHealth, DeviceIsKnown
<1>3. RecordsAreSound
  BY ThresholdFacts DEF InitHealth, RecordsAreSound, HasRecord
<1>4. RepairIsSound
  BY DEF InitHealth, RepairIsSound
<1> QED
  BY <1>1, <1>2, <1>3, <1>4 DEF HealthInv

LEMMA NextHealthInv ==
    ASSUME HealthInv, [NextHealth]_health
    PROVE  HealthInv' /\ RecordsStep
<1>0. WatchdogInv /\ DeviceIsKnown /\ RecordsAreSound /\ RepairIsSound
  BY DEF HealthInv
<1>1. ASSUME NEW suos, Receive(suos) PROVE HealthInv' /\ RecordsStep
  <2>1. WatchdogInv' /\ DeviceIsKnown'
    BY <1>0, <1>1, WatchdogStutter, DeviceStutter DEF Receive
  <2>2. RecordsStep
    BY <1>0, <1>1, ReceiveRecords
  <2>3. RepairIsSound'
    BY <1>0, <1>1, GatherIsSound DEF Receive
  <2> QED
    BY <2>1, <2>2, <2>3 DEF HealthInv, RecordsStep
<1>2. ASSUME NEW a \in Modules, Forget(a) PROVE HealthInv' /\ RecordsStep
  <2>1. WatchdogInv' /\ DeviceIsKnown' /\ RepairIsSound'
    BY <1>0, <1>2, WatchdogStutter, DeviceStutter, RepairStutter DEF Forget
  <2>2. RecordsStep
    BY <1>0, <1>2, ForgetRecords
  <2> QED
    BY <2>1, <2>2 DEF HealthInv, RecordsStep
<1>3. ASSUME NEW a \in Modules, Silence(a) PROVE HealthInv' /\ RecordsStep
  <2>1. WatchdogInv' /\ RecordsStep /\ RepairIsSound'
    BY <1>0, <1>3, WatchdogStutter, RecordsStutter, RepairStutter DEF Silence
  <2>2. DeviceIsKnown'
    BY <1>0, <1>3 DEF Silence, DeviceIsKnown
  <2> QED
    BY <2>1, <2>2 DEF HealthInv, RecordsStep
<1>4. ASSUME Tick PROVE HealthInv' /\ RecordsStep
  <2>1. WatchdogInv' /\ DeviceIsKnown' /\ RepairIsSound'
    BY <1>0, <1>4, WatchdogStutter, DeviceStutter, RepairStutter DEF Tick
  <2>2. RecordsStep
    BY <1>0, <1>4, TickRecords
  <2> QED
    BY <2>1, <2>2 DEF HealthInv, RecordsStep
<1>5. ASSUME StartWatchdog PROVE HealthInv' /\ RecordsStep
  <2>1. WatchdogInv' /\ DeviceIsKnown' /\ RepairIsSound'
    BY <1>0, <1>5, StartTasksInv, DeviceStutter, RepairStutter DEF StartWatchdog
  <2>2. RecordsStep
    BY <1>0, <1>5, RunRecords DEF StartWatchdog
  <2> QED
    BY <2>1, <2>2 DEF HealthInv, RecordsStep
<1>6. ASSUME StopWatchdog PROVE HealthInv' /\ RecordsStep
  <2>1. WatchdogInv' /\ DeviceIsKnown' /\ RepairIsSound'
    BY <1>0, <1>6, StopTasksInv, DeviceStutter, RepairStutter DEF StopWatchdog
  <2>2. RecordsStep
    BY <1>0, <1>6, RecordsStutter DEF StopWatchdog
  <2> QED
    BY <2>1, <2>2 DEF HealthInv, RecordsStep
<1>7. ASSUME NEW t \in Task, AddWatchdogTask(t) PROVE HealthInv' /\ RecordsStep
  <2>1. WatchdogInv' /\ DeviceIsKnown' /\ RepairIsSound'
    BY <1>0, <1>7, AddTaskInv, DeviceStutter, RepairStutter DEF AddWatchdogTask
  <2>2. RecordsStep
    BY <1>0, <1>7, RunRecords DEF AddWatchdogTask
  <2> QED
    BY <2>1, <2>2 DEF HealthInv, RecordsStep
<1>8. ASSUME NEW n \in Names, RemoveWatchdogTask(n) PROVE HealthInv' /\ RecordsStep
  <2>1. WatchdogInv' /\ DeviceIsKnown' /\ RepairIsSound'
    BY <1>0, <1>8, RemoveTaskInv, DeviceStutter, RepairStutter DEF RemoveWatchdogTask
  <2>2. RecordsStep
    BY <1>0, <1>8, RecordsStutter DEF RemoveWatchdogTask
  <2> QED
    BY <2>1, <2>2 DEF HealthInv, RecordsStep
<1>9. ASSUME NEW n \in Names, NEW on \in BOOLEAN, SetWatchdogTask(n, on)
      PROVE  HealthInv' /\ RecordsStep
  <2>1. WatchdogInv' /\ DeviceIsKnown' /\ RepairIsSound'
    BY <1>0, <1>9, SetTaskEnabledInv, DeviceStutter, RepairStutter DEF SetWatchdogTask
  <2>2. RecordsStep
    BY <1>0, <1>9, RunRecords DEF SetWatchdogTask
  <2> QED
    BY <2>1, <2>2 DEF HealthInv, RecordsStep
<1>10. ASSUME NEW c \in Config, UpdateWatchdog(c) PROVE HealthInv' /\ RecordsStep
  <2>1. WatchdogInv' /\ DeviceIsKnown' /\ RepairIsSound'
    BY <1>0, <1>10, UpdateConfigInv, DeviceStutter, RepairStutter DEF UpdateWatchdog
  <2>2. RecordsStep
    BY <1>0, <1>10, RunRecords DEF UpdateWatchdog
  <2> QED
    BY <2>1, <2>2 DEF HealthInv, RecordsStep
<1>11. ASSUME NEW w \in Work, Fire(w) PROVE HealthInv' /\ RecordsStep
  <2>1. WatchdogInv' /\ DeviceIsKnown' /\ RepairIsSound'
    BY <1>0, <1>11, WatchdogStutter, DeviceStutter, RepairStutter DEF Fire
  <2>2. RecordsStep
    BY <1>0, <1>11, RunRecords DEF Fire
  <2> QED
    BY <2>1, <2>2 DEF HealthInv, RecordsStep
<1>12. ASSUME UNCHANGED health PROVE HealthInv' /\ RecordsStep
  <2>1. WatchdogInv' /\ DeviceIsKnown' /\ RecordsStep /\ RepairIsSound'
    BY <1>0, <1>12, WatchdogStutter, DeviceStutter, RecordsStutter, RepairStutter DEF health
  <2> QED
    BY <2>1 DEF HealthInv, RecordsStep
<1>13. ASSUME RestartRepair PROVE HealthInv' /\ RecordsStep
  <2>1. WatchdogInv' /\ DeviceIsKnown' /\ RecordsStep
    BY <1>0, <1>13, WatchdogStutter, DeviceStutter, RecordsStutter DEF RestartRepair
  <2>2. RepairIsSound'
    BY <1>13 DEF RestartRepair, RepairIsSound
  <2> QED
    BY <2>1, <2>2 DEF HealthInv, RecordsStep
<1>14. \A n \in Names, on \in BOOLEAN : [name |-> n, enabled |-> on, own |-> TRUE] \in Task
  BY DEF Task
<1> QED
  BY <1>1, <1>2, <1>3, <1>4, <1>5, <1>6, <1>7, <1>8, <1>9, <1>10, <1>11, <1>12, <1>13,
     <1>14
     DEF NextHealth

LEMMA HealthInvariance == HealthSpec => []HealthInv
<1>1. HealthInv /\ [NextHealth]_health => HealthInv'
  BY NextHealthInv
<1> QED
  BY <1>1, InitHealthInv, PTL DEF HealthSpec

-----------------------------------------------------------------------------
(* Theorems about the modules and the tasks of the watchdog.               *)

\* The watchdog and the records hold what the code says they hold, a module
\* without a record counts as offline, and no age runs past its threshold.
THEOREM HealthTypeCorrect == HealthSpec => []TypeOKHealth
<1>1. HealthInv => TypeOKHealth
  BY DEF HealthInv, WatchdogInv, DeviceIsKnown, RecordsAreSound, RepairIsSound, TypeOKHealth
<1> QED
  BY <1>1, HealthInvariance, PTL

\* The intervals of a name that was not added twice are those of its enabled
\* tasks, and there are none when the watchdog does not run: adding, removing,
\* enabling, reconfiguring, stopping and starting in any order cannot bring the
\* list and the map apart (watchdog.ts:142-154, 371-421, 448-465).
THEOREM TasksRunAsListed == HealthSpec => []TasksFireAsListed
<1>1. ASSUME HealthInv PROVE TasksFireAsListed
  <2>0. WatchdogInv
    BY <1>1 DEF HealthInv
  <2> SUFFICES ASSUME NEW n \in Names \ repeated
               PROVE  {w \in Firing : w.name = n} =
                        {WorkOf(tasks[i]) : i \in {i \in Listed(n) : isRunning /\ tasks[i].enabled}}
    BY DEF TasksFireAsListed
  <2>1. /\ taskIntervals[n] # NoTask => isRunning
        /\ taskIntervals[n] # NoTask =>
             \E i \in EnabledIn(tasks) :
                tasks[i].name = n /\ taskIntervals[n] = WorkOf(tasks[i])
        /\ isRunning => \A i \in EnabledIn(tasks) :
             tasks[i].name = n => taskIntervals[n] = WorkOf(tasks[i])
    BY <2>0 DEF WatchdogInv, IntervalIsListed
  <2>2. \A i : i \in {j \in Listed(n) : isRunning /\ tasks[j].enabled} <=>
               i \in EnabledIn(tasks) /\ tasks[i].name = n /\ isRunning
    BY DEF Listed, EnabledIn
  <2>3. \A i \in EnabledIn(tasks) :
          WorkOf(tasks[i]) # NoTask /\ WorkOf(tasks[i]).name = tasks[i].name
    <3>1. \A i \in EnabledIn(tasks) : tasks[i] \in Task
      BY <2>0, LenProperties, ElementOfSeq DEF EnabledIn, WatchdogInv, TypeOKWatchdog
    <3> QED
      BY <3>1, WorkFacts
  <2>4. ASSUME NEW w \in Firing, w.name = n
        PROVE  \E i \in EnabledIn(tasks) : tasks[i].name = n /\ isRunning /\ w = WorkOf(tasks[i])
    <3>1. w \notin leaked
      BY <2>0, <2>4 DEF WatchdogInv, OnlyRepeatedLeak
    <3>2. PICK m \in Names : taskIntervals[m] # NoTask /\ w = taskIntervals[m]
      BY <3>1 DEF Firing
    <3>3. m = n
      BY <2>0, <2>4, <3>2 DEF WatchdogInv, IntervalsAreNamed
    <3> QED
      BY <2>1, <3>2, <3>3
  <2>5. ASSUME NEW i \in EnabledIn(tasks), tasks[i].name = n, isRunning
        PROVE  WorkOf(tasks[i]) \in Firing /\ WorkOf(tasks[i]).name = n
    <3>1. taskIntervals[n] = WorkOf(tasks[i]) /\ taskIntervals[n] # NoTask
      BY <2>1, <2>3, <2>5
    <3> QED
      BY <2>3, <2>5, <3>1 DEF Firing
  <2> QED
    BY <2>2, <2>4, <2>5
<1> QED
  BY <1>1, HealthInvariance, PTL

\* A module that keeps its record goes offline only when its heartbeats have
\* stopped: neither a task, nor a configuration, nor a message, however they
\* follow each other, marks one that was heard (watchdog.ts:216-231).
THEOREM OnlyOverdueGoOffline == HealthSpec => OfflineIsOverdue
<1>1. HealthInv /\ [NextHealth]_health => [OfflineStep]_health
  BY NextHealthInv DEF RecordsStep
<1>2. HealthSpec => [][OfflineStep]_health
  BY <1>1, HealthInvariance, PTL DEF HealthSpec
<1> QED
  BY <1>2 DEF OfflineIsOverdue, OfflineStep

\* The record of a module that is offline and that nobody tells of any more
\* stays offline, and a message of another module or a check of any task does not
\* make it young again, but for the merged record of the repair as it becomes
\* complete (watchdog.ts:228-231, device-info-repair.ts:90-100,
\* uos-cache-manager.ts:155-165).
THEOREM SilentAreNotRenewed == HealthSpec => SilentIsNotRenewed
<1>1. HealthInv /\ [NextHealth]_health => [SilentStep]_health
  BY NextHealthInv DEF RecordsStep
<1>2. HealthSpec => [][SilentStep]_health
  BY <1>1, HealthInvariance, PTL DEF HealthSpec
<1> QED
  BY <1>2 DEF SilentIsNotRenewed, SilentStep
=============================================================================
