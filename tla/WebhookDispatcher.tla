-------------------------- MODULE WebhookDispatcher --------------------------
(***************************************************************************)
(* The webhook dispatcher: messages are batched or not, queued for every   *)
(* endpoint they are meant for, and sent by a bounded number of requests,  *)
(* each of which may fail, sleep and queue its message again.              *)
(*                                                                         *)
(* A copy is a message for one endpoint.  What the application does with   *)
(* the dispatcher is part of the module: stop() once at a time, then       *)
(* removeAllListeners() before it may start again.                         *)
(***************************************************************************)
EXTENDS Integers, Sequences, FiniteSets, SequencesExt

CONSTANTS
    Messages,       \* records: deviceIds, deviceTypes and suoTypes of one message, and id
    EndpointIds,    \* identifiers of endpoints
    Endpoints,      \* endpoint configurations: id, enabled, batched, retries, filter
    MaxSize,        \* batchConfig.maxSize
    MaxRetries,     \* bound: the most retries of a configuration
    MaxConcurrent   \* maxConcurrentRequests

ASSUME WebhookAssumption ==
    /\ IsFiniteSet(EndpointIds)
    /\ \A e \in Endpoints : e.id \in EndpointIds
    /\ \A e \in Endpoints : {e.enabled, e.batched} \subseteq BOOLEAN
    /\ \A e \in Endpoints : e.retries \in 0 .. MaxRetries
    /\ MaxSize \in Nat \ {0}
    /\ MaxRetries \in Nat
    /\ MaxConcurrent \in Nat \ {0}

VARIABLES
    endpoints,      \* config.endpoints
    subscribed,     \* the handler is on the bus
    running,        \* isRunning
    polling,        \* processingInterval is armed
    stopping,       \* a stop() is waiting for active requests
    buffers,        \* batchBuffers: the messages held back for each endpoint
    timers,         \* endpoints whose flush timer is armed
    queue,          \* messageQueue
    active,         \* the requests activeRequests counts, those asleep among them
    outcome         \* ghost: what became of each copy

vars == <<endpoints, subscribed, running, polling, stopping, buffers, timers,
          queue, active, outcome>>

Copies == Messages \X EndpointIds

Outcomes == {"none", "pending", "sent", "failed", "dropped"}

\* A queued message, or a batch of them.
Item(id, messages) == [id |-> id, messages |-> messages, attempts |-> 0]

Items == [id : EndpointIds, messages : Seq(Messages), attempts : 0 .. MaxRetries]

\* An active request: its fetch has not returned, or it sleeps before a retry;
\* retries is the limit its endpoint had when it set out.
Requests == [item : Items, stage : {"sending", "asleep"}, retries : 0 .. MaxRetries]

Elements(seq) == {seq[i] : i \in DOMAIN seq}

CopiesOf(item) == Elements(item.messages) \X {item.id}

Configured == {e.id : e \in Elements(endpoints)}

\* The copies of S have come to an end, or have begun.
Settle(S, how) == outcome' = [c \in Copies |-> IF c \in S THEN how ELSE outcome[c]]

-----------------------------------------------------------------------------
Init ==
    /\ endpoints \in {s \in UNION {[1 .. n -> Endpoints] : n \in 0 .. Cardinality(EndpointIds)} :
                        \A i, j \in DOMAIN s : s[i].id = s[j].id => i = j}
    /\ subscribed = FALSE
    /\ running = FALSE
    /\ polling = FALSE
    /\ stopping = FALSE
    /\ buffers = [e \in EndpointIds |-> <<>>]
    /\ timers = {}
    /\ queue = <<>>
    /\ active = {}
    /\ outcome = [c \in Copies |-> "none"]

\* A dispatcher that is not enabled is never created.
Start ==
    /\ ~running
    /\ ~subscribed
    /\ subscribed' = TRUE
    /\ polling' = TRUE
    /\ running' = TRUE
    /\ UNCHANGED <<endpoints, stopping, buffers, timers, queue, active, outcome>>

\* Flushes every buffer, in the order the buffers were made, which is not kept.
FlushAllBatches ==
    LET full == {e \in EndpointIds : buffers[e] # <<>>}
    IN  /\ \E order \in SetToSeqs(full) :
             queue' = queue \o [i \in DOMAIN order |-> Item(order[i], buffers[order[i]])]
        /\ buffers' = [e \in EndpointIds |-> <<>>]
        /\ timers' = timers \ full

\* The handler stays on the bus: off() is given another function.
BeginStop ==
    /\ running
    /\ ~stopping
    /\ stopping' = TRUE
    /\ polling' = FALSE
    /\ FlushAllBatches
    /\ UNCHANGED <<endpoints, subscribed, running, active, outcome>>

\* Mutation: requests that sleep before a retry are not waited for.
NothingSending == {r \in active : r.stage = "sending"} = {}

NothingActive == active = {}

EndStop ==
    /\ stopping
    /\ NothingActive
    /\ stopping' = FALSE
    /\ running' = FALSE
    /\ UNCHANGED <<endpoints, subscribed, polling, buffers, timers, queue, active,
                   outcome>>

\* The end of the application's stop().
RemoveAllListeners ==
    /\ subscribed
    /\ ~running
    /\ subscribed' = FALSE
    /\ UNCHANGED <<endpoints, running, polling, stopping, buffers, timers, queue,
                   active, outcome>>

-----------------------------------------------------------------------------
(* Messages.                                                               *)

\* An empty list filters nothing.
ShouldSendToEndpoint(m, e) ==
    \A field \in DOMAIN e.filter : e.filter[field] = {} \/ m[field] \in e.filter[field]

Takers(m) == {e \in Elements(endpoints) : e.enabled /\ ShouldSendToEndpoint(m, e)}

\* The buffer of e is full with one message more.
Fills(e) == Len(buffers[e.id]) + 1 >= MaxSize

\* The endpoints something is queued for at once, and what it is.
Queues(m) == {e \in Takers(m) : e.batched => Fills(e)}

ItemFor(m, e) == Item(e.id, IF e.batched THEN Append(buffers[e.id], m) ELSE <<m>>)

\* The positions of S as the loop over the endpoints meets them.
Ascending(S) ==
    {order \in SetToSeqs(S) : \A i, j \in DOMAIN order : i < j => order[i] < order[j]}

\* Mutation: the timer is armed where the buffer is made.
ArmedForNewBuffer(ids) ==
    {id \in ids : \A m \in Messages : outcome[<<m, id>>] = "none"}

\* The first message of a batch arms the timer.
ArmedFor(ids) == ids

\* Each message arrives once.
HandleSUOMessage(m) ==
    LET batching == {e \in Takers(m) : e.batched}
        full == {e.id : e \in {e \in batching : Fills(e)}}
        held == {e.id : e \in batching} \ full
    IN  /\ subscribed
        /\ \A e \in EndpointIds : outcome[<<m, e>>] = "none"
        /\ Takers(m) # {}
        /\ \E order \in Ascending({i \in DOMAIN endpoints : endpoints[i] \in Queues(m)}) :
             queue' = queue \o [k \in DOMAIN order |-> ItemFor(m, endpoints[order[k]])]
        /\ buffers' = [e \in EndpointIds |->
                         IF e \in full THEN <<>>
                         ELSE IF e \in held THEN Append(buffers[e], m)
                         ELSE buffers[e]]
        /\ timers' = (timers \ full) \cup ArmedFor(held)
        /\ Settle({m} \X {e.id : e \in Takers(m)}, "pending")
        /\ UNCHANGED <<endpoints, subscribed, running, polling, stopping, active>>

\* The flush timer fires; whatever empties a buffer clears its timer.
FlushBatch(id) ==
    /\ id \in timers
    /\ queue' = Append(queue, Item(id, buffers[id]))
    /\ buffers' = [buffers EXCEPT ![id] = <<>>]
    /\ timers' = timers \ {id}
    /\ UNCHANGED <<endpoints, subscribed, running, polling, stopping, active, outcome>>

-----------------------------------------------------------------------------
(* Requests.                                                               *)

\* Mutation: only requests whose fetch is pending count.
RoomAwake == MaxConcurrent - Cardinality({r \in active : r.stage = "sending"})

Room == MaxConcurrent - Cardinality(active)

\* maxRetries of the endpoint's own retryConfig, or of the default.
RetriesOf(id) == (CHOOSE e \in Elements(endpoints) : e.id = id).retries

\* The endpoint is looked up once, as the request is made.
Begun(item) == [item |-> item, stage |-> "sending", retries |-> RetriesOf(item.id)]

\* The interval fires: as many messages as there is room for are taken, and
\* those whose endpoint is gone end there.
ProcessQueue ==
    LET n == IF Room < Len(queue) THEN Room ELSE Len(queue)
        taken == {queue[i] : i \in 1 .. n}
        known == {item \in taken : item.id \in Configured}
    IN  /\ polling
        /\ n > 0
        /\ queue' = SubSeq(queue, n + 1, Len(queue))
        /\ active' = active \cup {Begun(item) : item \in known}
        /\ Settle(UNION {CopiesOf(item) : item \in taken \ known}, "dropped")
        /\ UNCHANGED <<endpoints, subscribed, running, polling, stopping, buffers, timers>>

Succeed(r) ==
    /\ r.stage = "sending"
    /\ active' = active \ {r}
    /\ Settle(CopiesOf(r.item), "sent")
    /\ UNCHANGED <<endpoints, subscribed, running, polling, stopping, buffers, timers, queue>>

\* Mutation: the attempts start again with every retry.
RetriedAfresh(item) == item

Retried(item) == [item EXCEPT !.attempts = @ + 1]

Asleep(r) == [r EXCEPT !.item = Retried(@), !.stage = "asleep"]

\* An error, a status that is not ok, or the abort after retryConfig.timeout.
Fail(r) ==
    /\ r.stage = "sending"
    /\ IF r.item.attempts < r.retries
         THEN /\ active' = (active \ {r}) \cup {Asleep(r)}
              /\ UNCHANGED outcome
         ELSE /\ active' = active \ {r}
              /\ Settle(CopiesOf(r.item), "failed")
    /\ UNCHANGED <<endpoints, subscribed, running, polling, stopping, buffers, timers, queue>>

\* Mutation: the message is queued before the sleep and again after it.
RequeuedTwice(item) == <<item, item>>

\* Mutation: a retry that stop() overtakes is not queued any more.
RequeuedWhilePolling(item) == IF polling THEN <<item>> ELSE <<>>

Requeued(item) == <<item>>

\* retryDelay is over.
Wake(r) ==
    /\ r.stage = "asleep"
    /\ active' = active \ {r}
    /\ queue' = queue \o Requeued(r.item)
    /\ UNCHANGED <<endpoints, subscribed, running, polling, stopping, buffers, timers, outcome>>

-----------------------------------------------------------------------------
(* Endpoints come and go; buffers, queue and requests stay.                *)

AddEndpoint(e) ==
    /\ endpoints' =
         IF e.id \in Configured
           THEN [i \in DOMAIN endpoints |-> IF endpoints[i].id = e.id THEN e ELSE endpoints[i]]
           ELSE Append(endpoints, e)
    /\ UNCHANGED <<subscribed, running, polling, stopping, buffers, timers, queue, active,
                   outcome>>

RemoveEndpoint(id) ==
    /\ \E i \in DOMAIN endpoints :
         /\ endpoints[i].id = id
         /\ endpoints' = RemoveAt(endpoints, i)
    /\ UNCHANGED <<subscribed, running, polling, stopping, buffers, timers, queue, active,
                   outcome>>

-----------------------------------------------------------------------------
Next ==
    \/ Start
    \/ BeginStop
    \/ EndStop
    \/ RemoveAllListeners
    \/ \E m \in Messages : HandleSUOMessage(m)
    \/ \E id \in EndpointIds : FlushBatch(id)
    \/ ProcessQueue
    \/ \E r \in active : Succeed(r) \/ Fail(r) \/ Wake(r)
    \/ \E e \in Endpoints : AddEndpoint(e)
    \/ \E id \in EndpointIds : RemoveEndpoint(id)

Spec == Init /\ [][Next]_vars

\* The end of the fetch or of the sleep of the request that carries copy c.
Proceed(c) == \E r \in active : c \in CopiesOf(r.item) /\ (Succeed(r) \/ Fail(r) \/ Wake(r))

\* Timers and the interval fire, and a fetch returns or is aborted.
Fairness ==
    /\ WF_vars(ProcessQueue)
    /\ \A id \in EndpointIds : WF_vars(FlushBatch(id))
    /\ \A c \in Copies : WF_vars(Proceed(c))

FairSpec == Spec /\ Fairness

-----------------------------------------------------------------------------
TypeOK ==
    /\ endpoints \in Seq(Endpoints)
    /\ {subscribed, running, polling, stopping} \subseteq BOOLEAN
    /\ buffers \in [EndpointIds -> Seq(Messages)]
    /\ \A e \in EndpointIds : Len(buffers[e]) < MaxSize
    /\ timers \subseteq EndpointIds
    /\ queue \in Seq(Items)
    /\ active \subseteq Requests
    /\ Cardinality(active) <= MaxConcurrent
    /\ outcome \in [Copies -> Outcomes]

\* Where a copy is on its way.
Places(c) ==
    {<<"buffer", i>> : i \in {i \in DOMAIN buffers[c[2]] : buffers[c[2]][i] = c[1]}}
      \cup {<<"queue", i>> : i \in {i \in DOMAIN queue : c \in CopiesOf(queue[i])}}
      \cup {<<"request", r>> : r \in {r \in active : c \in CopiesOf(r.item)}}

\* A copy that was taken is in one place until it has ended, and then in none:
\* batches, retries, stops and endpoints that come and go neither lose a
\* message nor send it twice (webhook-dispatcher.ts:219-264, 298-374).
EachCopyInOnePlace ==
    \A c \in Copies : Cardinality(Places(c)) = IF outcome[c] = "pending" THEN 1 ELSE 0

\* What the dispatcher promises of a copy, whatever else shares its requests and
\* whenever stop() comes: it waits in a buffer or the queue, or is underway in a
\* request, until it is sent or given up, and nothing sends it after that
\* (webhook-dispatcher.ts:219-264, 298-374).
Custodian == INSTANCE Custody WITH
    Items <- Copies,
    accepted <- {c \in Copies : outcome[c] # "none"},
    waiting <- {c \in Copies : \/ c[1] \in Elements(buffers[c[2]])
                              \/ \E i \in DOMAIN queue : c \in CopiesOf(queue[i])},
    underway <- {c \in Copies : \E r \in active : c \in CopiesOf(r.item)},
    delivered <- {c \in Copies : outcome[c] = "sent"},
    abandoned <- {c \in Copies : outcome[c] \in {"failed", "dropped"}}

ImplementsCustody == Custodian!Spec

\* What is held back for a batch has a timer that will flush it, also after a
\* full batch cleared the last one (webhook-dispatcher.ts:233-264).
BufferedHasTimer == \A e \in EndpointIds : buffers[e] # <<>> => e \in timers

\* Once stop() has returned no request is under way nor wakes up to be one
\* (webhook-dispatcher.ts:157-163).
StoppedIsQuiet == ~running => active = {} /\ ~polling

\* As long as the dispatcher is not stopped every copy comes to an end,
\* whatever other endpoints do to the requests they share.
EveryCopyEnds ==
    \A c \in Copies : outcome[c] = "pending" ~> (outcome[c] # "pending" \/ ~polling)
=============================================================================
