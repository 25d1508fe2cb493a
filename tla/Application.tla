---------------------------- MODULE Application ----------------------------
(***************************************************************************)
(* The application: it starts its parts one after the other, takes the     *)
(* messages of the devices from the broker through two asynchronous        *)
(* functions to the bus, and stops its parts when a signal arrives.        *)
(*                                                                         *)
(* Code that waits goes on in a later turn, and turns are taken in the     *)
(* order they are asked for.  Packets that arrive together are all handled *)
(* before the first turn; timers, answers and signals come when no turn is *)
(* left.  What the parts do with a message, and whether the device info    *)
(* repair withholds it, is left to their own modules.                      *)
(***************************************************************************)
EXTENDS Naturals, Sequences

CONSTANTS
    Configurations, \* sets of optional parts that are enabled
    Types,          \* types of messages; "list" is flattened, "unknown" refused
    MaxAttempts,    \* maxReconnectAttempts
    MaxMessages,    \* bound on messages
    MaxSignals      \* bound on signals

ASSUME ApplicationAssumption ==
    /\ "unknown" \in Types
    /\ MaxAttempts \in Nat
    /\ MaxMessages \in Nat
    /\ MaxSignals \in Nat

VARIABLES
    enabled,       \* the optional parts that are enabled
    isRunning,     \* isRunning
    startAt,       \* what start() waits for
    stopAt,        \* what stop() waits for
    running,       \* parts whose isRunning is set
    connected,     \* isConnected of the database
    suoRepository, \* whether the device controller has a repository
    link,          \* the client of the broker
    isConnected,   \* isConnected of the subscriber
    attempts,      \* reconnectAttempts
    topics,        \* topics subscribed to, of two
    relayLink,     \* the client of the relay
    turns,         \* what goes on in the next turns
    received,      \* number of messages received
    published,     \* messages that came out on the bus
    signals,       \* number of signals
    early,         \* ghost: the first signal came before start() was done
    exited         \* the exit code, "no" while the process runs

broker == <<link, isConnected, attempts, topics>>
pipeline == <<turns, received, published>>
process == <<signals, early, exited>>
fixed == <<enabled, suoRepository>>
vars == <<fixed, isRunning, startAt, stopAt, running, connected, broker, relayLink, pipeline,
          process>>

Devices == {"V5008", "V6800"}

Message == [n : 1 .. MaxMessages, device : Devices, type : Types]

\* One turn: what it goes on with, and after how many more turns.
Job == [do : {"parse", "normalize"}, left : 0 .. 2, m : Message]
       \cup [do : {"stop"}, left : 0 .. 2, m : {0}]

Alive == exited = "no"

\* Nothing else is waiting for its turn.
Idle == Alive /\ turns = <<>>

\* The part of order that comes next after p, passing over those not in active.
After(order, p, active) ==
    LET at == CHOOSE i \in DOMAIN order : order[i] = p
    IN  order[CHOOSE i \in at + 1 .. Len(order) :
                /\ order[i] \in active
                /\ \A j \in at + 1 .. i - 1 : order[j] \notin active]

-----------------------------------------------------------------------------
\* The controllers are made with the application, and the device controller
\* makes its repository if the database is connected then.
Init ==
    /\ enabled \in Configurations
    /\ isRunning = FALSE
    /\ startAt = "new"
    /\ stopAt = "no"
    /\ running = {}
    /\ connected = FALSE
    /\ suoRepository = connected
    /\ link = "none"
    /\ isConnected = FALSE
    /\ attempts = 0
    /\ topics = 0
    /\ relayLink = "none"
    /\ turns = <<>>
    /\ received = 0
    /\ published = <<>>
    /\ signals = 0
    /\ early = FALSE
    /\ exited = "no"

-----------------------------------------------------------------------------
(* start().                                                                *)

StartOrder == <<"new", "database", "broker", "api", "relay", "websocket", "done">>

Milestones == {StartOrder[i] : i \in DOMAIN StartOrder}

Awaited == {"broker", "done"} \cup enabled

\* What start() waits for after p.
StartsAfter(p) == After(StartOrder, p, Awaited)

\* What start() sets going while it passes p, waiting for nothing.
StartedAfter(p) ==
    (CASE p = "new" -> {"cache"} \cap enabled
       [] p = "broker" -> ({"smartHB", "adapter"} \cap enabled) \cup {"watchdog", "command"}
       [] OTHER -> {})
    \cup (IF StartsAfter(p) = "done" THEN {"webhook"} \cap enabled ELSE {})

\* start() goes on after p, with p itself when it succeeded.
StartProceeds(p, self) ==
    /\ startAt' = StartsAfter(p)
    /\ running' = running \cup self \cup StartedAfter(p)
    /\ link' = IF startAt' = "broker" THEN "connecting" ELSE link
    /\ relayLink' = CASE startAt' = "relay" -> "connecting"
                      [] p = "relay" /\ self # {} -> "up"
                      [] OTHER -> relayLink

Start ==
    /\ Alive
    /\ startAt = "new"
    /\ isRunning' = TRUE
    /\ StartProceeds("new", {})
    /\ UNCHANGED <<fixed, stopAt, connected, isConnected, attempts, topics, pipeline, process>>

\* Without the database the application goes on without its writer.
DatabaseAnswers(ok) ==
    /\ Idle
    /\ startAt = "database"
    /\ connected' = ok
    /\ StartProceeds("database", IF ok THEN {"writer"} ELSE {})
    /\ UNCHANGED <<fixed, isRunning, stopAt, isConnected, attempts, topics, pipeline, process>>

\* The API server or an output listens, or cannot, and the next is started.
PartAnswers(p, ok) ==
    /\ Idle
    /\ startAt = p
    /\ p \in {"api", "relay", "websocket"}
    /\ StartProceeds(p, IF ok THEN {p} ELSE {})
    /\ UNCHANGED <<fixed, isRunning, stopAt, connected, isConnected, attempts, topics, pipeline,
                   process>>

\* The broker refuses the connection or a topic: start() throws.
BrokerFails ==
    /\ Idle
    /\ startAt = "broker"
    /\ link \in {"connecting", "up"}
    /\ exited' = "1"
    /\ UNCHANGED <<fixed, isRunning, startAt, stopAt, running, connected, broker, relayLink,
                   pipeline, signals, early>>

-----------------------------------------------------------------------------
(* The subscriber.                                                         *)

BrokerConnects ==
    /\ Idle
    /\ link \in {"connecting", "down"}
    /\ link' = "up"
    /\ isConnected' = TRUE
    /\ attempts' = 0
    /\ UNCHANGED <<fixed, isRunning, startAt, stopAt, running, connected, topics, relayLink,
                   pipeline, process>>

\* The second topic ends connect(), if start() still waits for it.
Subscribed ==
    /\ Idle
    /\ link = "up"
    /\ topics < 2
    /\ topics' = topics + 1
    /\ IF topics' = 2 /\ startAt = "broker"
         THEN StartProceeds("broker", {})
         ELSE UNCHANGED <<startAt, running, link, relayLink>>
    /\ UNCHANGED <<fixed, isRunning, stopAt, connected, isConnected, attempts, pipeline, process>>

\* isConnected is not told.
LinkCloses ==
    /\ Idle
    /\ link = "up"
    /\ link' = "down"
    /\ topics' = 0
    /\ UNCHANGED <<fixed, isRunning, startAt, stopAt, running, connected, isConnected, attempts,
                   relayLink, pipeline, process>>

GivesUp(n) == n > MaxAttempts

\* One attempt too many ends the client, and nothing connects again; start()
\* goes on waiting if it still does.
Reconnect ==
    /\ Idle
    /\ link \in {"connecting", "down"}
    /\ attempts' = attempts + 1
    /\ link' = IF GivesUp(attempts') THEN "ending" ELSE link
    /\ UNCHANGED <<fixed, isRunning, startAt, stopAt, running, connected, isConnected, topics,
                   relayLink, pipeline, process>>

\* Mutation: it goes on in the first turn after that.
ResumesSooner == <<[do |-> "stop", left |-> 0, m |-> 0]>>

\* stop() goes on two turns after the client has ended: one for the promise of
\* end(), one for that of disconnect().
StopResumes == <<[do |-> "stop", left |-> 1, m |-> 0]>>

\* Mutation: who asks for the end of a client that has given up hears nothing.
EndedUnlessGivenUp == IF stopAt = "broker" /\ attempts <= MaxAttempts THEN StopResumes ELSE <<>>

Ended == IF stopAt = "broker" THEN StopResumes ELSE <<>>

BrokerEnds ==
    /\ Alive
    /\ link = "ending"
    /\ link' = "none"
    /\ isConnected' = FALSE
    /\ topics' = 0
    /\ turns' = turns \o Ended
    /\ stopAt' = IF stopAt = "broker" THEN "resuming" ELSE stopAt
    /\ UNCHANGED <<fixed, isRunning, startAt, running, connected, attempts, relayLink, received,
                   published, process>>

-----------------------------------------------------------------------------
(* Messages.                                                               *)

\* Mutation: a list of modules is parsed in two turns.
ListsTakeLonger(type) == IF type = "list" THEN 1 ELSE 0

\* parse() and normalize() wait for nothing, whatever the message.
MoreTurns(type) == 0

\* A packet of a topic that is subscribed to, until the client has ended.
Receive(device, type) ==
    /\ Alive
    /\ link \in {"up", "ending"}
    /\ topics >= IF device = "V5008" THEN 1 ELSE 2
    /\ received < MaxMessages
    /\ received' = received + 1
    /\ turns' = Append(turns, [do |-> "parse", left |-> MoreTurns(type),
                               m |-> [n |-> received', device |-> device, type |-> type]])
    /\ UNCHANGED <<fixed, isRunning, startAt, stopAt, running, connected, broker, relayLink,
                   published, process>>

\* A function still waits.
Wait ==
    /\ Alive
    /\ turns # <<>> /\ Head(turns).left > 0
    /\ turns' = Append(Tail(turns), [Head(turns) EXCEPT !.left = @ - 1])
    /\ UNCHANGED <<fixed, isRunning, startAt, stopAt, running, connected, broker, relayLink,
                   received, published, process>>

Due(what) == Alive /\ turns # <<>> /\ Head(turns).left = 0 /\ Head(turns).do = what

\* A message that is parsed goes to the normalizer; one that is not is logged.
HandleRawMessage ==
    /\ Due("parse")
    /\ turns' = Tail(turns) \o
                  (IF Head(turns).m.type = "unknown" THEN <<>>
                   ELSE <<[Head(turns) EXCEPT !.do = "normalize"]>>)
    /\ UNCHANGED <<fixed, isRunning, startAt, stopAt, running, connected, broker, relayLink,
                   received, published, process>>

\* All that a message says comes out in one turn.
HandleSIFMessage ==
    /\ Due("normalize")
    /\ turns' = Tail(turns)
    /\ published' = Append(published, Head(turns).m)
    /\ UNCHANGED <<fixed, isRunning, startAt, stopAt, running, connected, broker, relayLink,
                   received, process>>

-----------------------------------------------------------------------------
(* stop().                                                                 *)

\* Mutation: the webhooks are left out.
StopOrderWithoutWebhook == <<"broker", "writer", "database", "websocket", "relay", "api", "done">>

StopOrder == <<"broker", "writer", "database", "webhook", "websocket", "relay", "api", "done">>

Stops == {StopOrder[i] : i \in DOMAIN StopOrder}

Active == running \cup {"done"} \cup (IF connected' THEN {"database"} ELSE {})

\* What stop() waits for after p: parts that are not active are passed over.
StopsAfter(p) == After(StopOrder, p, Active)

\* Parts stopped without waiting, by the part that comes after them.
StoppedBefore(q) ==
    {"cache"} \cup (IF q \in {"writer", "database"} THEN {}
                    ELSE {"smartHB", "adapter", "watchdog", "command"})

\* stop() goes on after p, up to the next part it waits for, or ends.
StopProceeds(p) ==
    LET q == StopsAfter(p)
    IN  /\ stopAt' = q
        /\ running' = running \ ({p} \cup StoppedBefore(q))
        /\ exited' = IF q = "done" THEN "0" ELSE exited
        /\ relayLink' = IF p = "relay" THEN "none" ELSE relayLink

\* A signal or an uncaught exception, once start() has set the handlers: stop(),
\* then exit.  If it finds isRunning cleared, stop() has nothing to wait for.
Signal ==
    /\ Idle
    /\ startAt # "new"
    /\ signals < MaxSignals
    /\ signals' = signals + 1
    /\ early' = IF signals = 0 THEN startAt # "done" ELSE early
    /\ isRunning' = FALSE
    /\ connected' = connected
    /\ CASE ~isRunning ->
              /\ exited' = "0"
              /\ UNCHANGED <<stopAt, running, link, isConnected, relayLink>>
         [] isRunning /\ isConnected ->
              /\ stopAt' = "broker"
              /\ link' = "ending"
              /\ UNCHANGED <<running, isConnected, relayLink, exited>>
         [] isRunning /\ ~isConnected ->
              /\ StopProceeds("broker")
              /\ UNCHANGED <<link, isConnected>>
    /\ UNCHANGED <<fixed, startAt, attempts, topics, pipeline>>

Resume ==
    /\ Due("stop")
    /\ connected' = connected
    /\ turns' = Tail(turns)
    /\ StopProceeds("broker")
    /\ UNCHANGED <<fixed, isRunning, startAt, broker, received, published, signals, early>>

\* The writer has flushed, the pool has ended, a server has closed; the pool may
\* fail, and then the rest is not stopped.
StopAnswers(p, ok) ==
    /\ Idle
    /\ stopAt = p
    /\ p \in {"writer", "database", "webhook", "websocket", "relay", "api"}
    /\ ok \/ p = "database"
    /\ connected' = (connected /\ (p # "database" \/ ~ok))
    /\ IF ok THEN StopProceeds(p)
             ELSE exited' = "1" /\ UNCHANGED <<stopAt, running, relayLink>>
    /\ UNCHANGED <<fixed, isRunning, startAt, broker, pipeline, signals, early>>

-----------------------------------------------------------------------------
\* The relay's client connects and loses its link by itself, also after a
\* start that failed.
RelayLinkChanges ==
    /\ Idle
    /\ startAt # "relay"
    /\ \/ relayLink \in {"connecting", "down"} /\ relayLink' = "up"
       \/ relayLink = "up" /\ relayLink' = "down"
    /\ UNCHANGED <<fixed, isRunning, startAt, stopAt, running, connected, broker, pipeline,
                   process>>

Next ==
    \/ Start
    \/ \E ok \in BOOLEAN :
         \/ DatabaseAnswers(ok)
         \/ \E p \in {"api", "relay", "websocket"} : PartAnswers(p, ok)
         \/ \E p \in {"writer", "database", "webhook", "websocket", "relay", "api"} :
              StopAnswers(p, ok)
    \/ BrokerFails \/ BrokerConnects \/ Subscribed \/ LinkCloses \/ Reconnect \/ BrokerEnds
    \/ \E device \in Devices, type \in Types : Receive(device, type)
    \/ Wait \/ HandleRawMessage \/ HandleSIFMessage \/ Resume
    \/ Signal
    \/ RelayLinkChanges

Spec == Init /\ [][Next]_vars

\* Turns are taken, a client that is told to end does, and so does whatever
\* stop() waits for.
Fairness ==
    /\ WF_vars(Wait \/ HandleRawMessage \/ HandleSIFMessage \/ Resume)
    /\ WF_vars(BrokerEnds)
    /\ WF_vars(\E p \in Stops, ok \in BOOLEAN : StopAnswers(p, ok))

FairSpec == Spec /\ Fairness

-----------------------------------------------------------------------------
Parts ==
    {"cache", "writer", "smartHB", "adapter", "watchdog", "command", "api", "relay", "websocket",
     "webhook"}

TypeOK ==
    /\ enabled \in Configurations
    /\ isRunning \in BOOLEAN
    /\ startAt \in Milestones
    /\ stopAt \in Stops \cup {"no", "resuming"}
    /\ running \subseteq Parts
    /\ connected \in BOOLEAN /\ suoRepository \in BOOLEAN
    /\ link \in {"none", "connecting", "up", "down", "ending"}
    /\ isConnected \in BOOLEAN
    /\ attempts \in 0 .. MaxAttempts + 1
    /\ topics \in 0 .. 2
    /\ relayLink \in {"none", "connecting", "up", "down"}
    /\ turns \in Seq(Job)
    /\ received \in 0 .. MaxMessages
    /\ published \in Seq(Message)
    /\ signals \in 0 .. MaxSignals
    /\ early \in BOOLEAN
    /\ exited \in {"no", "0", "1"}

\* The messages of one device come out on the bus in the order they came in,
\* though each goes through two asynchronous functions of its own and nothing
\* makes one wait for another (app.ts:296, app.ts:337).
MessagesInOrder ==
    \A i, j \in DOMAIN published :
        i < j /\ published[i].device = published[j].device => published[i].n < published[j].n

\* When stop() goes on to the consumers, no message is under way and none can
\* come any more: what the broker delivered has reached the writer before its
\* last flush, unless the signal came during start() (app.ts:575-590).
NothingUnderWay ==
    ~early /\ stopAt \notin {"no", "broker", "resuming"} =>
        /\ turns = <<>>
        /\ topics = 0 /\ link = "none"

\* One signal after start() stops whatever had been started, and not before
\* does the process exit with 0 (app.ts:395-409, app.ts:566-653).
OneSignalStopsAll ==
    exited = "0" /\ ~early /\ signals = 1 =>
        running = {} /\ ~connected /\ link \in {"none", "ending"}

\* The process exits after a signal, whenever it comes and whatever start() is
\* waiting for (app.ts:396-409).
SignalEndsProcess == signals > 0 ~> ~Alive

\* The shutdown is graceful: when the process exits with 0, its parts have been
\* stopped and its connections closed (app.ts:400-402).
GracefulShutdown == exited = "0" => running = {} /\ ~connected /\ link # "up"

\* While the API is served and the database is connected, the device controller
\* can query the history of a device (device-controller.ts:198).
HistoryIsServed == "api" \in running /\ connected => suoRepository
=============================================================================
