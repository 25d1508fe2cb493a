--------------------------- MODULE DatabaseWriter ---------------------------
(***************************************************************************)
(* The database writer: it queues the messages of the event bus and saves  *)
(* them in batches, each message retried with a growing delay.             *)
(*                                                                         *)
(* A flush is a coroutine: it takes the whole queue, then awaits one save  *)
(* after another, while messages keep arriving and other flushes start.    *)
(* What runs between two awaits is one action.                             *)
(***************************************************************************)
EXTENDS Naturals, Sequences

CONSTANTS
    Messages,      \* each arrives at most once
    Keys,          \* type:device:messageId, shared by the parts of one message
    KeyOf,         \* the key of each message
    Poison,        \* messages whose insert the database rejects every time
    Flushes,       \* identities for concurrent flushes; bounds their number
    NoFlush,       \* no flush
    BatchSize,     \* config.batchSize
    MaxQueueSize,  \* config.maxQueueSize
    RetryCount     \* config.retryCount

ASSUME WriterAssumption ==
    /\ KeyOf \in [Messages -> Keys]
    /\ Poison \subseteq Messages
    /\ NoFlush \notin Flushes
    /\ BatchSize \in Nat \ {0}
    /\ MaxQueueSize \in Nat \ {0}
    /\ RetryCount \in Nat \ {0}

VARIABLES
    connected,     \* db.isDatabaseConnected()
    running,       \* isRunning
    subscribed,    \* the handler is on the event bus
    stopper,       \* the flush stop() is awaiting, or NoFlush
    queue,         \* messageQueue
    timer,         \* batchTimeout is set
    flush,         \* the state of each flush
    retryAttempts, \* failed attempts per key; 0 when the key is absent
    received,      \* history: messages the bus delivered
    rows,          \* history: rows written, per message
    tried,         \* history: failed attempts, per message
    lost,          \* history: why the writer let go of a message unsaved
    reported       \* history: keys the log named when their last attempt failed

vars == <<connected, running, subscribed, stopper, queue, timer, flush,
          retryAttempts, received, rows, tried, lost, reported>>

Idle == [batch |-> <<>>, at |-> 0, attempts |-> 0, phase |-> "idle"]

Active == {f \in Flushes : flush[f].phase # "idle"}

Current(f) == flush[f].batch[flush[f].at]

SeqSet(s) == {s[i] : i \in DOMAIN s}

\* Messages the writer still holds: queued, or in a batch and not passed over.
Held == SeqSet(queue) \cup
        UNION {{flush[f].batch[i] : i \in flush[f].at..Len(flush[f].batch)} : f \in Active}

-----------------------------------------------------------------------------
Init ==
    /\ connected = FALSE
    /\ running = FALSE
    /\ subscribed = FALSE
    /\ stopper = NoFlush
    /\ queue = <<>>
    /\ timer = FALSE
    /\ flush = [f \in Flushes |-> Idle]
    /\ retryAttempts = [k \in Keys |-> 0]
    /\ received = {}
    /\ rows = [m \in Messages |-> 0]
    /\ tried = [m \in Messages |-> 0]
    /\ lost = [m \in Messages |-> "no"]
    /\ reported = {}

-----------------------------------------------------------------------------
\* The application connects before it starts the writer.  A connect that failed
\* leaves its pool behind, so the next one returns at once, and the writer then
\* starts without a connection.
Connect ==
    /\ ~running /\ ~subscribed
    /\ connected' = TRUE
    /\ UNCHANGED <<running, subscribed, stopper, queue, timer, flush,
                   retryAttempts, received, rows, tried, lost, reported>>

Start ==
    /\ ~running
    /\ ~subscribed                           \* bound: one subscription at a time
    /\ running' = TRUE
    /\ subscribed' = TRUE
    /\ UNCHANGED <<connected, stopper, queue, timer, flush, retryAttempts,
                   received, rows, tried, lost, reported>>

\* saveMessageWithRetry begins with the attempts the map holds for the key.
Trying(b, i, attempts) ==
    [batch |-> b, at |-> i, attempts |-> attempts[KeyOf[b[i]]], phase |-> "trying"]

\* Mutation: the whole queue is copied but not taken.
FlushCopy(f, q) ==
    /\ flush[f].phase = "idle"
    /\ flush' = [flush EXCEPT ![f] = Trying(q, 1, retryAttempts)]
    /\ queue' = q
    /\ timer' = FALSE

\* flushBatch up to its first await: take the queue, clear the timer.
FlushBatch(f, q) ==
    /\ flush[f].phase = "idle"
    /\ flush' = [flush EXCEPT ![f] = Trying(q, 1, retryAttempts)]
    /\ queue' = <<>>
    /\ timer' = FALSE

\* stop() returns when the flush it awaits ends; the handler stays subscribed.
Stop ==
    /\ running
    /\ stopper = NoFlush                     \* bound: no second stop() meanwhile
    /\ IF queue = <<>>
         THEN /\ running' = FALSE
              /\ timer' = FALSE
              /\ UNCHANGED <<stopper, queue, flush>>
         ELSE \E f \in Flushes :
                /\ FlushBatch(f, queue)
                /\ stopper' = f
                /\ UNCHANGED running
    /\ UNCHANGED <<connected, subscribed, retryAttempts, received, rows, tried, lost,
                   reported>>

\* The application disconnects the database once the writer stopped.
Disconnect ==
    /\ ~running /\ subscribed /\ connected
    /\ connected' = FALSE
    /\ UNCHANGED <<running, subscribed, stopper, queue, timer, flush,
                   retryAttempts, received, rows, tried, lost, reported>>

\* ... and removes every listener of the bus last.
RemoveAllListeners ==
    /\ ~running /\ ~connected
    /\ subscribed' = FALSE
    /\ UNCHANGED <<connected, running, stopper, queue, timer, flush,
                   retryAttempts, received, rows, tried, lost, reported>>

-----------------------------------------------------------------------------
\* Backpressure: a full queue gives up its oldest message.
Enqueue(m) ==
    Append(IF Len(queue) >= MaxQueueSize THEN Tail(queue) ELSE queue, m)

\* Mutation: an arrival below the batch size sets no timer.
ScheduleNothing == UNCHANGED timer

ScheduleBatchFlush == timer' = TRUE

HandleSUOMessage(m) ==
    /\ subscribed
    /\ m \notin received
    /\ received' = received \cup {m}
    /\ \/ /\ ~connected
          /\ lost' = [lost EXCEPT ![m] = "offline"]
          /\ UNCHANGED <<queue, timer, flush>>
       \/ /\ connected
          /\ lost' = IF Len(queue) >= MaxQueueSize
                       THEN [lost EXCEPT ![Head(queue)] = "full"] ELSE lost
          /\ \/ /\ Len(Enqueue(m)) >= BatchSize
                /\ \E f \in Flushes : FlushBatch(f, Enqueue(m))
             \/ /\ Len(Enqueue(m)) < BatchSize
                /\ queue' = Enqueue(m)
                /\ ScheduleBatchFlush
                /\ UNCHANGED flush
    /\ UNCHANGED <<connected, running, subscribed, stopper, retryAttempts, rows, tried,
                   reported>>

BatchTimeout ==
    /\ timer
    /\ \/ /\ queue # <<>>
          /\ \E f \in Flushes : FlushBatch(f, queue)
       \/ /\ queue = <<>>
          /\ timer' = FALSE
          /\ UNCHANGED <<queue, flush>>
    /\ UNCHANGED <<connected, running, subscribed, stopper, retryAttempts,
                   received, rows, tried, lost, reported>>

ForceFlush ==
    /\ queue # <<>>
    /\ \E f \in Flushes : FlushBatch(f, queue)
    /\ UNCHANGED <<connected, running, subscribed, stopper, retryAttempts,
                   received, rows, tried, lost, reported>>

-----------------------------------------------------------------------------
\* A flush that ends resumes the stop() that awaits it.
FlushEnds(f) ==
    /\ running' = (running /\ stopper # f)
    /\ stopper' = IF stopper = f THEN NoFlush ELSE stopper

\* Go to the next message of the batch, or end the flush.
NextMessage(f, attempts) ==
    IF flush[f].at < Len(flush[f].batch)
      THEN /\ flush' = [flush EXCEPT ![f] =
                          Trying(flush[f].batch, flush[f].at + 1, attempts)]
           /\ UNCHANGED <<running, stopper>>
      ELSE /\ flush' = [flush EXCEPT ![f] = Idle]
           /\ FlushEnds(f)

\* Mutation: one attempt too few.
ExhaustedEarly(f) == flush[f].attempts + 1 >= RetryCount

Exhausted(f) == flush[f].attempts >= RetryCount

\* The attempts of the key are used up: the loop body never runs, nothing is
\* logged and the message passes for saved.
SkipExhausted(f) ==
    /\ flush[f].phase = "trying"
    /\ Exhausted(f)
    /\ lost' = [lost EXCEPT ![Current(f)] = "exhausted"]
    /\ NextMessage(f, retryAttempts)
    /\ UNCHANGED <<connected, subscribed, queue, timer, retryAttempts, received,
                   rows, tried, reported>>

SaveSucceeds(f) ==
    /\ flush[f].phase = "trying"
    /\ ~Exhausted(f)
    /\ connected
    /\ Current(f) \notin Poison
    /\ rows' = [rows EXCEPT ![Current(f)] = @ + 1]
    /\ retryAttempts' = [retryAttempts EXCEPT ![KeyOf[Current(f)]] = 0]
    /\ NextMessage(f, retryAttempts')
    /\ UNCHANGED <<connected, subscribed, queue, timer, received, tried, lost,
                   reported>>

\* A failed save: record the attempt in the map, from the local counter.
AttemptFails(f) ==
    /\ flush[f].phase = "trying"
    /\ ~Exhausted(f)
    /\ retryAttempts' = [retryAttempts EXCEPT ![KeyOf[Current(f)]] = flush[f].attempts + 1]
    /\ tried' = [tried EXCEPT ![Current(f)] = @ + 1]

SaveFails(f) ==
    /\ AttemptFails(f)
    /\ flush[f].attempts + 1 < RetryCount
    /\ flush' = [flush EXCEPT ![f].attempts = @ + 1, ![f].phase = "sleeping"]
    /\ UNCHANGED <<connected, running, subscribed, stopper, queue, timer,
                   received, rows, lost, reported>>

Wake(f) ==
    /\ flush[f].phase = "sleeping"
    /\ flush' = [flush EXCEPT ![f].phase = "trying"]
    /\ UNCHANGED <<connected, running, subscribed, stopper, queue, timer,
                   retryAttempts, received, rows, tried, lost, reported>>

\* Mutation: the size of the queue is tested without the batch.
RequeueFitsAlone(f) == Len(queue) <= MaxQueueSize

RequeueFits(f) == Len(queue) + Len(flush[f].batch) <= MaxQueueSize

\* Mutation: only what the batch had left goes back, the failed message not.
RequeueRest(f) == SubSeq(flush[f].batch, flush[f].at + 1, Len(flush[f].batch)) \o queue

\* The whole batch goes back, the messages it already saved included.
Requeue(f) == flush[f].batch \o queue

\* The last attempt fails: the log names the key, the flush gives up on the
\* whole batch.
FlushFails(f) ==
    /\ AttemptFails(f)
    /\ flush[f].attempts + 1 >= RetryCount
    /\ reported' = reported \cup {KeyOf[Current(f)]}
    /\ IF RequeueFits(f)
         THEN queue' = Requeue(f) /\ UNCHANGED lost
         ELSE /\ UNCHANGED queue
              /\ lost' = [m \in Messages |->
                   IF \E i \in flush[f].at..Len(flush[f].batch) : flush[f].batch[i] = m
                     THEN "overflow" ELSE lost[m]]
    /\ flush' = [flush EXCEPT ![f] = Idle]
    /\ FlushEnds(f)
    /\ UNCHANGED <<connected, subscribed, timer, received, rows>>

-----------------------------------------------------------------------------
FlushStep(f) ==
    \/ SkipExhausted(f)
    \/ SaveSucceeds(f)
    \/ SaveFails(f)
    \/ Wake(f)
    \/ FlushFails(f)

Next ==
    \/ Start
    \/ Stop
    \/ Disconnect
    \/ RemoveAllListeners
    \/ Connect
    \/ \E m \in Messages : HandleSUOMessage(m)
    \/ BatchTimeout
    \/ ForceFlush
    \/ \E f \in Flushes : FlushStep(f)

Spec == Init /\ [][Next]_vars

\* Timers fire and every awaited save returns, one way or the other.
Fairness ==
    /\ WF_vars(BatchTimeout)
    /\ \A f \in Flushes : WF_vars(FlushStep(f))

\* The writer of a process that is not being shut down.
UpNext ==
    \/ Connect
    \/ Start
    \/ \E m \in Messages : HandleSUOMessage(m)
    \/ BatchTimeout
    \/ \E f \in Flushes : FlushStep(f)

UpSpec == Init /\ [][UpNext]_vars /\ Fairness

\* ... while no save fails to the last attempt.
TransientNext ==
    \/ Connect
    \/ Start
    \/ \E m \in Messages : HandleSUOMessage(m)
    \/ BatchTimeout
    \/ \E f \in Flushes : SaveSucceeds(f) \/ SaveFails(f) \/ Wake(f) \/ SkipExhausted(f)

TransientSpec ==
    /\ Init
    /\ [][TransientNext]_vars
    /\ WF_vars(BatchTimeout)
    /\ \A f \in Flushes :
         /\ WF_vars(Wake(f) \/ SkipExhausted(f))
         /\ WF_vars(SaveSucceeds(f))

-----------------------------------------------------------------------------
FlushState == [batch : Seq(Messages), at : Nat, attempts : 0..RetryCount,
               phase : {"idle", "trying", "sleeping"}]

TypeOK ==
    /\ connected \in BOOLEAN /\ running \in BOOLEAN /\ subscribed \in BOOLEAN
    /\ stopper \in Flushes \cup {NoFlush}
    /\ queue \in Seq(Messages)
    /\ timer \in BOOLEAN
    /\ flush \in [Flushes -> FlushState]
    /\ \A f \in Active : flush[f].at \in 1..Len(flush[f].batch)
    /\ retryAttempts \in [Keys -> 0..RetryCount]
    /\ received \subseteq Messages
    /\ rows \in [Messages -> Nat]
    /\ tried \in [Messages -> Nat]
    /\ lost \in [Messages -> {"no", "offline", "full", "exhausted", "overflow"}]
    /\ reported \subseteq Keys

\* Backpressure holds on both ways into the queue, arrival and re-queueing.
QueueBound == Len(queue) <= MaxQueueSize

\* Reasons the code logs when it lets go of a message: dropped unconnected, pushed
\* out of the full queue, left of a batch whose failure it reports
\* (database-writer.ts:95-107, 161-164).
Logged == {"offline", "full", "overflow"}

\* Whatever flushes overlap, what was received has a row, is still held, or was let
\* go of with a line in the log, with one exception: a message that finds the
\* attempts of its key used up passes for saved and no line says so
\* (database-writer.ts:178-201).  That happens only after the log named the key.
NothingVanishes ==
    \A m \in received :
        \/ rows[m] > 0
        \/ m \in Held
        \/ lost[m] \in Logged
        \/ lost[m] = "exhausted" /\ KeyOf[m] \in reported

\* Overlapping flushes never hold the same message twice.
HeldOnce ==
    /\ \A i, j \in DOMAIN queue : queue[i] = queue[j] => i = j
    /\ \A f \in Active :
         /\ \A i \in DOMAIN flush[f].batch : flush[f].batch[i] \notin SeqSet(queue)
         /\ \A g \in Active \ {f} :
              SeqSet(flush[f].batch) \cap SeqSet(flush[g].batch) = {}

\* A message waits in the queue without a timer only after a failed flush put
\* it back; an arrival or a flush never leaves it so.
OnlyFailureStrands ==
    [][(queue' # <<>> /\ ~timer') =>
         \/ queue # <<>> /\ ~timer
         \/ tried' # tried /\ \E f \in Active : flush'[f] = Idle]_vars

\* What the writer promises of a message, whatever flushes overlap: it waits in the
\* queue or is underway in a batch until it has a row or is given up, it goes back
\* only from a batch that failed, and once it is in neither it does not come back
\* (database-writer.ts:94-201).
Custodian == INSTANCE Custody WITH
    Items <- Messages,
    accepted <- received,
    waiting <- SeqSet(queue),
    underway <- UNION {SeqSet(flush[f].batch) : f \in Active},
    delivered <- {m \in Messages : rows[m] > 0},
    abandoned <- {m \in Messages : lost[m] # "no"}

ImplementsCustody == Custodian!Spec

\* Failures that stop short of the last attempt cost nothing: every message
\* taken while connected gets a row, unless the full queue pushed it out.
TransientFailuresAreAbsorbed ==
    \A m \in Messages \ Poison : m \in Held ~> (rows[m] > 0 \/ lost[m] = "full")

\* README.md:328 "Max queue wait time (ms)".
QueuedIsFlushed == \A m \in Messages : m \in SeqSet(queue) ~> m \notin SeqSet(queue)

\* database-writer.ts:82 "Flush remaining messages": no save is left under way
\* for the disconnect that follows to break.
StopAwaitsEverySave == [][running /\ ~running' => \A f \in Flushes : flush'[f] = Idle]_vars

\* prd.md:290 "Retry failed writes 3 times, then log and discard".
DiscardedWasRetried ==
    \A m \in Messages : lost[m] = "exhausted" => tried[m] >= RetryCount
=============================================================================
