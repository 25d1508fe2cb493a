--------------------------- MODULE CommandService ---------------------------
(***************************************************************************)
(* The command service: it publishes the commands the API requests,        *)
(* retries each on a timer and settles it with the result its device       *)
(* reports.                                                                *)
(*                                                                         *)
(* Every handler runs to completion on the event loop, so each is one      *)
(* action; what interleaves is requests, results, timers, start and stop.  *)
(* `before` is the insertion order of pendingCommands.  A timer is         *)
(* <<c, n>>, the one set after the n-th publish of c.                      *)
(***************************************************************************)
EXTENDS Naturals, FiniteSets

CONSTANTS
    Commands,        \* command identifiers
    Devices,         \* device identifiers
    CommandTypes,    \* message types a request or a result may carry
    Buildable,       \* the types the payload builders know
    MaxRetriesBound, \* largest maxRetries a configuration may hold
    MaxHandlers,     \* bound on the handlers left subscribed by restarts
    MaxAccepted      \* bound on the handler runs for one identifier

ASSUME CommandAssumption ==
    /\ Buildable \subseteq CommandTypes
    /\ "none" \notin CommandTypes
    /\ "timeout" \notin CommandTypes
    /\ MaxRetriesBound \in Nat
    /\ MaxHandlers \in Nat
    /\ MaxAccepted \in Nat

VARIABLES
    running,     \* isRunning
    handlers,    \* handler pairs subscribed to the event bus
    maxRetries,  \* config.maxRetries
    pendingCommands, \* the status object of each command, or Absent
    before,      \* <<c, d>>: c was inserted into pendingCommands before d
    commandTimeouts, \* the publish whose timer is held, or 0
    armed,       \* timers the runtime will fire
    accepted,    \* handler runs that took a request, per identifier
    published,   \* COMMAND_PUBLISH events emitted, per identifier
    settledBy    \* history: what removed the command from pendingCommands

vars == <<running, handlers, maxRetries, pendingCommands, before,
          commandTimeouts, armed, accepted, published, settledBy>>

\* A handler leaves no status "pending": it publishes or fails before it returns.
Status == [device : Devices, type : CommandTypes,
           state : {"sent", "failed"}, retryCount : 0..MaxRetriesBound]

Absent == [state |-> "absent"]

Pending == {c \in Commands : pendingCommands[c] # Absent}

Sent(c) == pendingCommands[c].state = "sent"

TimersOf(c) == {timer \in armed : timer[1] = c}

-----------------------------------------------------------------------------
Init ==
    /\ running = FALSE
    /\ handlers = 0
    /\ maxRetries \in 0..MaxRetriesBound
    /\ pendingCommands = [c \in Commands |-> Absent]
    /\ before = {}
    /\ commandTimeouts = [c \in Commands |-> 0]
    /\ armed = {}
    /\ accepted = [c \in Commands |-> 0]
    /\ published = [c \in Commands |-> 0]
    /\ settledBy = [c \in Commands |-> "none"]

-----------------------------------------------------------------------------
Start ==
    /\ ~running
    /\ handlers < MaxHandlers                          \* bound
    /\ running' = TRUE
    /\ handlers' = handlers + 1
    /\ UNCHANGED <<maxRetries, pendingCommands, before, commandTimeouts, armed,
                   accepted, published, settledBy>>

\* The two off() calls pass fresh bound functions, which match no listener:
\* the handlers stay.  Only timers still held in commandTimeouts are cleared.
Stop ==
    /\ running
    /\ running' = FALSE
    /\ armed' = armed \ {<<c, commandTimeouts[c]>> : c \in Commands}
    /\ commandTimeouts' = [c \in Commands |-> 0]
    /\ UNCHANGED <<handlers, maxRetries, pendingCommands, before, accepted,
                   published, settledBy>>

\* The application removes every listener after it has stopped its services.
RemoveAllListeners ==
    /\ ~running
    /\ handlers' = 0
    /\ UNCHANGED <<running, maxRetries, pendingCommands, before, commandTimeouts,
                   armed, accepted, published, settledBy>>

UpdateConfig(m) ==
    /\ maxRetries' = m
    /\ UNCHANGED <<running, handlers, pendingCommands, before, commandTimeouts,
                   armed, accepted, published, settledBy>>

-----------------------------------------------------------------------------
\* The API makes a fresh identifier for every request.
Requestable(c) ==
    /\ accepted[c] = 0
    /\ handlers <= MaxAccepted                          \* bound

\* Each subscribed handler stores a new status and publishes; the Map keeps
\* the position of a key it already has, and the last timer set is the held one.
\* The event carries any type; one the builders reject ends in the catch block.
HandleCommandRequest(c, d, t) ==
    /\ handlers > 0
    /\ Requestable(c)
    /\ before' = before \cup {<<b, c>> : b \in Pending}
    /\ accepted' = [accepted EXCEPT ![c] = @ + handlers]
    /\ pendingCommands' = [pendingCommands EXCEPT ![c] =
         [device |-> d, type |-> t, retryCount |-> 0,
          state |-> IF t \in Buildable THEN "sent" ELSE "failed"]]
    /\ IF t \in Buildable
         THEN /\ published' = [published EXCEPT ![c] = @ + handlers]
              /\ armed' = armed \cup
                   {<<c, n>> : n \in (published[c] + 1)..(published[c] + handlers)}
              /\ commandTimeouts' = [commandTimeouts EXCEPT ![c] = published[c] + handlers]
         ELSE UNCHANGED <<published, armed, commandTimeouts>>
    /\ UNCHANGED <<running, handlers, maxRetries, settledBy>>

\* Mutation: the command is reported settled but not deleted.
ForgetKeepingStatus(S, by) ==
    /\ settledBy' = [c \in Commands |-> IF c \in S THEN by ELSE settledBy[c]]
    /\ UNCHANGED <<pendingCommands, before>>

\* Remove the commands of S from pendingCommands.
Forget(S, by) ==
    /\ pendingCommands' = [c \in Commands |->
                             IF c \in S THEN Absent ELSE pendingCommands[c]]
    /\ before' = {p \in before : p[1] \notin S /\ p[2] \notin S}
    /\ settledBy' = [c \in Commands |-> IF c \in S THEN by ELSE settledBy[c]]

\* The commands that the subscribed handlers settle for one result of d: each
\* takes the first sent command of the device, whatever its type.
ResultTargets(d) ==
    LET candidates == {c \in Commands : Sent(c) /\ pendingCommands[c].device = d}
    IN  {c \in candidates :
           Cardinality({b \in candidates : <<b, c>> \in before}) < handlers}

HandleCommandResult(d, t) ==
    /\ ResultTargets(d) # {}
    /\ Forget(ResultTargets(d), t)
    /\ armed' = armed \ {<<c, commandTimeouts[c]>> : c \in ResultTargets(d)}
    /\ commandTimeouts' = [c \in Commands |->
                       IF c \in ResultTargets(d) THEN 0 ELSE commandTimeouts[c]]
    /\ UNCHANGED <<running, handlers, maxRetries, accepted, published>>

-----------------------------------------------------------------------------
\* Mutation: the test for an already settled command is missing.
TimeoutOfSettledRepublishes(c, n) ==
    /\ <<c, n>> \in armed
    /\ c \notin Pending
    /\ armed' = armed \ {<<c, n>>}
    /\ published' = [published EXCEPT ![c] = @ + 1]
    /\ UNCHANGED <<running, handlers, maxRetries, pendingCommands, before,
                   commandTimeouts, accepted, settledBy>>

\* A timer whose command is gone does nothing.
TimeoutOfSettled(c, n) ==
    /\ <<c, n>> \in armed
    /\ c \notin Pending
    /\ armed' = armed \ {<<c, n>>}
    /\ UNCHANGED <<running, handlers, maxRetries, pendingCommands, before,
                   commandTimeouts, accepted, published, settledBy>>

MayRetry(c) == pendingCommands[c].retryCount < maxRetries

\* Mutation: the retry sets no timer.
RearmNothing(c, n) == armed \ {<<c, n>>}

\* Mutation: the timer that fired keeps firing.
RearmAsInterval(c, n) == armed \cup {<<c, published[c] + 1>>}

\* The timer that fired is spent; the publish of the retry sets the next one.
Rearm(c, n) == (armed \ {<<c, n>>}) \cup {<<c, published[c] + 1>>}

\* Mutation: the handler ends without the delete.
KeepHandle(c) == commandTimeouts

\* The delete that ends the handler: it also drops the timer a retry just set.
DropHandle(c) == [commandTimeouts EXCEPT ![c] = 0]

TimeoutRetry(c, n) ==
    /\ <<c, n>> \in armed
    /\ c \in Pending
    /\ MayRetry(c)
    /\ IF pendingCommands[c].type \in Buildable
         THEN /\ pendingCommands' = [pendingCommands EXCEPT
                     ![c].retryCount = @ + 1, ![c].state = "sent"]
              /\ published' = [published EXCEPT ![c] = @ + 1]
              /\ armed' = Rearm(c, n)
         ELSE /\ pendingCommands' = [pendingCommands EXCEPT
                     ![c].retryCount = @ + 1, ![c].state = "failed"]
              /\ armed' = armed \ {<<c, n>>}
              /\ UNCHANGED published
    /\ commandTimeouts' = DropHandle(c)
    /\ UNCHANGED <<running, handlers, maxRetries, before, accepted, settledBy>>

TimeoutGiveUp(c, n) ==
    /\ <<c, n>> \in armed
    /\ c \in Pending
    /\ ~MayRetry(c)
    /\ Forget({c}, "timeout")
    /\ armed' = armed \ {<<c, n>>}
    /\ commandTimeouts' = DropHandle(c)
    /\ UNCHANGED <<running, handlers, maxRetries, accepted, published>>

HandleCommandTimeout(c, n) ==
    TimeoutOfSettled(c, n) \/ TimeoutRetry(c, n) \/ TimeoutGiveUp(c, n)

-----------------------------------------------------------------------------
Traffic ==
    \/ \E c \in Commands, d \in Devices, t \in CommandTypes :
         HandleCommandRequest(c, d, t)
    \/ \E d \in Devices, t \in CommandTypes : HandleCommandResult(d, t)
    \/ \E timer \in armed : HandleCommandTimeout(timer[1], timer[2])

Next ==
    \/ Start
    \/ Stop
    \/ RemoveAllListeners
    \/ \E m \in 0..MaxRetriesBound : UpdateConfig(m)
    \/ Traffic

Spec == Init /\ [][Next]_vars

\* A timer that is armed fires; nothing obliges anyone to request or to answer.
Fairness == \A c \in Commands :
              WF_vars(\E timer \in TimersOf(c) : HandleCommandTimeout(c, timer[2]))

FairSpec == Spec /\ Fairness

-----------------------------------------------------------------------------
TypeOK ==
    /\ running \in BOOLEAN
    /\ handlers \in 0..MaxHandlers
    /\ maxRetries \in 0..MaxRetriesBound
    /\ pendingCommands \in [Commands -> Status \cup {Absent}]
    /\ before \subseteq Commands \X Commands
    /\ commandTimeouts \in [Commands -> Nat]
    /\ armed \subseteq Commands \X (Nat \ {0})
    /\ accepted \in [Commands -> Nat]
    /\ published \in [Commands -> Nat]
    /\ settledBy \in [Commands -> CommandTypes \cup {"none", "timeout"}]

\* Retries are bounded whatever interleaves: a command goes to its device once
\* per handler run that took it and at most MaxRetriesBound times more.
PublishBound ==
    \A c \in Commands : published[c] <= accepted[c] + MaxRetriesBound

\* commandTimeouts never holds a timer that fired or whose command is gone, so
\* clearing what it holds never misses a timer it claims to track.
HeldTimerIsLive ==
    \A c \in Commands :
        commandTimeouts[c] # 0 => <<c, commandTimeouts[c]>> \in armed /\ c \in Pending

\* Retry chains do not multiply: a command never has more timers running than
\* handler runs that took it, although most of them are untracked.
OneTimerPerAcceptance ==
    \A c \in Commands : Cardinality(TimersOf(c)) <= accepted[c]

\* Once a result or the retry limit removed a command, the timers it left
\* behind neither publish it again nor bring it back.
SettledIsFinal ==
    [][\A c \in Commands : settledBy[c] # "none" =>
          /\ published'[c] = published[c]
          /\ c \notin Pending'
          /\ settledBy'[c] = settledBy[c]]_vars

\* Only stop() takes the last timer of a sent command away; otherwise a sent
\* command always has one that will retry it or give it up.
TimerNeverLost ==
    [][\A c \in Commands :
          (Sent(c)' /\ TimersOf(c)' = {})
             => (Sent(c) /\ TimersOf(c) = {}) \/ running' # running]_vars

\* command-service.ts:99 "Clear all timeouts".
StopClearsTimers == [][running /\ ~running' => armed' = {}]_vars

\* command-service.ts:88 "Unsubscribe from events".
StoppedServiceIsIdle == [][~running /\ ~running' => accepted' = accepted]_vars

\* command-service.ts:333 "Find pending command by device and command type".
ResultMatchesType ==
    [][\A c \in Commands : settledBy'[c] # settledBy[c] =>
          settledBy'[c] \in {"timeout", pendingCommands[c].type}]_vars

-----------------------------------------------------------------------------
\* The life of a command as a client may rely on it.
Phase(c) ==
    CASE accepted[c] = 0 -> "unknown"
      [] accepted[c] # 0 /\ c \notin Pending -> "closed"
      [] c \in Pending /\ Sent(c) -> "open"
      [] OTHER -> "rejected"

Lifecycle == INSTANCE CommandLifecycle WITH
    phase <- [c \in Commands |-> Phase(c)],
    attempts <- published,
    MaxCopies <- MaxHandlers,
    MaxRetries <- MaxRetriesBound

\* The service implements the life of a command.
ImplementsLifecycle == Lifecycle!Spec

\* No sent command that has a timer stays open for ever: it is answered, given
\* up or found unbuildable, however its timers interleave with configuration
\* changes and requests, unless the service is stopped.
ClosesEveryCommand ==
    \A c \in Commands :
        Sent(c) /\ TimersOf(c) # {} ~> ~Sent(c) \/ ~running
=============================================================================
