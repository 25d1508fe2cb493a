--------------------------- MODULE WebSocketServer ---------------------------
(***************************************************************************)
(* The WebSocket output: clients connect up to a limit, choose the devices *)
(* and message types they want, and are dropped when they stop answering.  *)
(*                                                                         *)
(* Time passes in units of which heartbeatInterval is a number: an answer  *)
(* is heard at any time between two beats, and a beat, set an interval     *)
(* after the last one ran, may itself run late.  What the application does *)
(* with the server is part of the module: stop() when it is active, then   *)
(* removeAllListeners() before another start.                              *)
(***************************************************************************)
EXTENDS Naturals, FiniteSets

CONSTANTS
    Clients,        \* connections that can be open at a time
    Devices,        \* device identifiers
    Types,          \* SUO message types
    MaxClients,     \* maxClients
    Interval,       \* heartbeatInterval
    Lateness        \* bound: how late a beat may run

ASSUME WebSocketAssumption ==
    /\ IsFiniteSet(Clients)
    /\ MaxClients \in Nat
    /\ Interval \in Nat \ {0}
    /\ Lateness \in Nat

VARIABLES
    subscribed,        \* the handler is on the bus
    server,            \* of the HTTP server: stopped, listening, running or stopping
    socket,            \* readyState of each connection; none until there is one
    present,           \* the peer of the connection is there and answers
    clients,           \* the clients map
    devices,           \* subscribedDevices of each client
    types,             \* subscribedTypes
    age,               \* time since lastPingAt, no older than TooOld
    sinceBeat,         \* time since the interval was set or last fired
    connectedClients,  \* status.connectedClients
    sent,              \* the devices whose message the last step sent to each client
    unanswered,        \* ghost: clients not heard since a ping was sent to them
    renounced          \* ghost: devices a client unsubscribed from, and not again to

vars == <<subscribed, server, socket, present, clients, devices, types, age, sinceBeat,
          connectedClients, sent, unanswered, renounced>>

\* What a client asked for.
wishes == <<devices, types, renounced>>

\* What the heartbeat goes by.
clock == <<age, sinceBeat, unanswered>>

\* No message sent, no device asked for.
Nothing == [c \in Clients |-> {}]

\* The first age the comparison finds too old; older ones are not told apart.
TooOld == 2 * Interval + 1

Init ==
    /\ subscribed = FALSE
    /\ server = "stopped"
    /\ socket = [c \in Clients |-> "none"]
    /\ present = {}
    /\ clients = {}
    /\ devices = Nothing
    /\ types = Nothing
    /\ age = [c \in Clients |-> 0]
    /\ sinceBeat = 0
    /\ connectedClients = 0
    /\ sent = Nothing
    /\ unanswered = {}
    /\ renounced = Nothing

-----------------------------------------------------------------------------
(* The server.                                                             *)

\* A server that is not enabled is never created.
Start ==
    /\ server = "stopped"
    /\ ~subscribed
    /\ subscribed' = TRUE
    /\ server' = "listening"
    /\ sent' = Nothing
    /\ UNCHANGED <<socket, present, clients, clock, connectedClients, wishes>>

\* The interval is set as the port opens.
Listening ==
    /\ server = "listening"
    /\ server' = "running"
    /\ sinceBeat' = 0
    /\ sent' = Nothing
    /\ UNCHANGED <<subscribed, socket, present, clients, age, unanswered,
                   connectedClients, wishes>>

\* The port is taken: start() fails and the handler stays on the bus.
ListenFails ==
    /\ server = "listening"
    /\ server' = "stopped"
    /\ sent' = Nothing
    /\ UNCHANGED <<subscribed, socket, present, clients, clock, connectedClients, wishes>>

\* The handler stays on the bus: off() is given another function.
BeginStop ==
    /\ server = "running"
    /\ server' = "stopping"
    /\ socket' = [c \in Clients |-> IF c \in clients THEN "closing" ELSE socket[c]]
    /\ clients' = {}
    /\ sent' = Nothing
    /\ UNCHANGED <<subscribed, present, clock, connectedClients, wishes>>

\* The HTTP server closes once every connection has.
EndStop ==
    /\ server = "stopping"
    /\ \A c \in Clients : socket[c] = "none"
    /\ server' = "stopped"
    /\ connectedClients' = 0
    /\ sent' = Nothing
    /\ UNCHANGED <<subscribed, socket, present, clients, clock, wishes>>

\* The end of the application's stop().
RemoveAllListeners ==
    /\ subscribed
    /\ server = "stopped"
    /\ subscribed' = FALSE
    /\ sent' = Nothing
    /\ UNCHANGED <<server, socket, present, clients, clock, connectedClients, wishes>>

-----------------------------------------------------------------------------
(* Clients.                                                                *)

\* Mutation: the limit lets one more in.
RoomForOneMore == Cardinality(clients) <= MaxClients

Room == Cardinality(clients) < MaxClients

HandleConnection(c) ==
    /\ server = "running"
    /\ socket[c] = "none"
    /\ present' = present \cup {c}
    /\ IF Room
         THEN /\ socket' = [socket EXCEPT ![c] = "open"]
              /\ clients' = clients \cup {c}
              /\ age' = [age EXCEPT ![c] = 0]
              /\ unanswered' = unanswered \ {c}
              /\ devices' = [devices EXCEPT ![c] = {}]
              /\ types' = [types EXCEPT ![c] = {}]
              /\ renounced' = [renounced EXCEPT ![c] = {}]
              /\ connectedClients' = Cardinality(clients')
         ELSE /\ socket' = [socket EXCEPT ![c] = "closing"]
              /\ UNCHANGED <<clients, age, unanswered, connectedClients, wishes>>
    /\ sent' = Nothing
    /\ UNCHANGED <<subscribed, server, sinceBeat>>

\* The client closes, and the server answers.
Leave(c) ==
    /\ c \in present
    /\ socket[c] = "open"
    /\ socket' = [socket EXCEPT ![c] = "closing"]
    /\ sent' = Nothing
    /\ UNCHANGED <<subscribed, server, present, clients, clock, connectedClients, wishes>>

\* The client, or the way to it, is gone without a word.
Vanish(c) ==
    /\ c \in present
    /\ present' = present \ {c}
    /\ sent' = Nothing
    /\ UNCHANGED <<subscribed, server, socket, clients, clock, connectedClients, wishes>>

\* The connection ends; the same event for a client the map no longer has.
HandleClientDisconnect(c) ==
    /\ socket[c] # "none"
    /\ socket' = [socket EXCEPT ![c] = "none"]
    /\ present' = present \ {c}
    /\ clients' = clients \ {c}
    /\ connectedClients' = Cardinality(clients')
    /\ sent' = Nothing
    /\ UNCHANGED <<subscribed, server, clock, wishes>>

\* A client that is in the map and can be heard; other messages are answered
\* and change nothing.
Speaks(c) == c \in clients /\ c \in present /\ socket[c] = "open"

HandleSubscribe(c, D, T) ==
    /\ Speaks(c)
    /\ devices' = [devices EXCEPT ![c] = @ \cup D]
    /\ types' = [types EXCEPT ![c] = @ \cup T]
    /\ renounced' = [renounced EXCEPT ![c] = @ \ D]
    /\ sent' = Nothing
    /\ UNCHANGED <<subscribed, server, socket, present, clients, clock, connectedClients>>

HandleUnsubscribe(c, D, T) ==
    /\ Speaks(c)
    /\ devices' = [devices EXCEPT ![c] = @ \ D]
    /\ types' = [types EXCEPT ![c] = @ \ T]
    /\ renounced' = [renounced EXCEPT ![c] = @ \cup (D \cap devices[c])]
    /\ sent' = Nothing
    /\ UNCHANGED <<subscribed, server, socket, present, clients, clock, connectedClients>>

\* The answer to any ping sent so far.
Pong(c) ==
    /\ Speaks(c)
    /\ age' = [age EXCEPT ![c] = 0]
    /\ unanswered' = unanswered \ {c}
    /\ sent' = Nothing
    /\ UNCHANGED <<subscribed, server, socket, present, clients, sinceBeat,
                   connectedClients, wishes>>

-----------------------------------------------------------------------------
(* The heartbeat.                                                          *)

PassTime ==
    /\ server = "running"
    /\ sinceBeat < Interval + Lateness
    /\ sinceBeat' = sinceBeat + 1
    /\ age' = [c \in Clients |->
                 IF c \in clients /\ age[c] < TooOld THEN age[c] + 1 ELSE age[c]]
    /\ sent' = Nothing
    /\ UNCHANGED <<subscribed, server, socket, present, clients, unanswered,
                   connectedClients, wishes>>

\* Mutation: one interval is enough.
OverdueAtOnce == {c \in clients : age[c] > Interval}

\* Clients whose lastPingAt is more than two intervals ago at this beat.
Overdue == {c \in clients : age[c] > 2 * Interval}

\* Mutation: the count is left to the close events.
CountAtBeatLater(remaining) == connectedClients

CountAtBeat(remaining) == Cardinality(remaining)

\* Mutation: lastPingAt is set when the ping is sent.
AgeFromPing(c) == IF socket[c] = "open" THEN 0 ELSE age[c]

AgeAfterBeat(c) == age[c]

Heartbeat ==
    /\ server = "running"
    /\ sinceBeat >= Interval
    /\ sinceBeat' = 0
    /\ clients' = clients \ Overdue
    /\ socket' = [c \in Clients |-> IF c \in Overdue THEN "closing" ELSE socket[c]]
    /\ age' = [c \in Clients |-> IF c \in clients \ Overdue THEN AgeAfterBeat(c) ELSE age[c]]
    /\ unanswered' = unanswered \cup {c \in clients \ Overdue : socket[c] = "open"}
    /\ connectedClients' = CountAtBeat(clients')
    /\ sent' = Nothing
    /\ UNCHANGED <<subscribed, server, present, wishes>>

-----------------------------------------------------------------------------
\* No device in the list means every device, and so for types.
Wants(c, d, t) ==
    /\ devices[c] = {} \/ d \in devices[c]
    /\ types[c] = {} \/ t \in types[c]

HandleSUOMessage(d, t) ==
    /\ subscribed
    /\ sent' = [c \in Clients |->
                  {e \in {d} : c \in clients /\ Wants(c, d, t) /\ socket[c] = "open"}]
    /\ UNCHANGED <<subscribed, server, socket, present, clients, clock,
                   connectedClients, wishes>>

Next ==
    \/ Start
    \/ Listening
    \/ ListenFails
    \/ BeginStop
    \/ EndStop
    \/ RemoveAllListeners
    \/ \E c \in Clients :
         \/ HandleConnection(c)
         \/ Leave(c)
         \/ Vanish(c)
         \/ HandleClientDisconnect(c)
         \/ Pong(c)
         \/ \E D \in SUBSET Devices, T \in SUBSET Types :
              HandleSubscribe(c, D, T) \/ HandleUnsubscribe(c, D, T)
    \/ PassTime
    \/ Heartbeat
    \/ \E d \in Devices, t \in Types : HandleSUOMessage(d, t)

Spec == Init /\ [][Next]_vars

\* Time passes and the heartbeat interval fires while the server runs, and a
\* socket that is closing is closed in the end: the ws library destroys it
\* after its timeout.
Fairness ==
    /\ WF_vars(PassTime)
    /\ WF_vars(Heartbeat)
    /\ WF_vars(EndStop)
    /\ \A c \in Clients : WF_vars(socket[c] = "closing" /\ HandleClientDisconnect(c))

FairSpec == Spec /\ Fairness

-----------------------------------------------------------------------------
TypeOK ==
    /\ subscribed \in BOOLEAN
    /\ server \in {"stopped", "listening", "running", "stopping"}
    /\ socket \in [Clients -> {"none", "open", "closing"}]
    /\ present \subseteq Clients
    /\ clients \subseteq Clients
    /\ Cardinality(clients) <= MaxClients
    /\ devices \in [Clients -> SUBSET Devices]
    /\ types \in [Clients -> SUBSET Types]
    /\ age \in [Clients -> 0 .. TooOld]
    /\ sinceBeat \in 0 .. Interval + Lateness
    /\ connectedClients \in 0 .. MaxClients
    /\ sent \in [Clients -> SUBSET Devices]
    /\ unanswered \subseteq Clients
    /\ renounced \in [Clients -> SUBSET Devices]

\* The number of clients the status reports is the number there are, whichever
\* of connection, disconnection, heartbeat and stop took one away and whichever
\* close event comes late; only a stop() that waits reports the old one
\* (websocket-server.ts:177, 207, 368, 459).
CountIsReported == server # "stopping" => connectedClients = Cardinality(clients)

\* The heartbeat drops an open client only when a ping it was sent is still
\* unanswered, unless the beat itself runs more than an interval late: then a
\* client that answered every ping is older than two intervals too.  One ping
\* may be all: an answer is heard after its beat, and the beats drift, so that
\* the second beat after it may be more than two intervals later
\* (websocket-server.ts:241-248, 442-456).
AnsweringClientStays ==
    [][server = "running" /\ server' = "running" =>
         \A c \in clients \ clients' :
            socket[c] = "open" /\ socket'[c] = "closing" =>
              c \in unanswered \/ sinceBeat > 2 * Interval]_vars

\* Who is gone without a word does not hold its place for ever, not even in the
\* middle of closing (websocket-server.ts:444-451).
GoneClientIsDropped ==
    \A c \in Clients : c \in clients /\ c \notin present ~> c \notin clients

\* src/README.md:755 "Unsubscribe from devices/types": who has unsubscribed
\* from a device gets no message of it.
UnsubscribedGetsNothing ==
    [][\A c \in Clients : sent'[c] \cap renounced[c] = {}]_vars
=============================================================================
