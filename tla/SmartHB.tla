------------------------------- MODULE SmartHB -------------------------------
(***************************************************************************)
(* SmartHB with its device info repair: the handler that sees every device *)
(* message first, merges the partial records a device sends, keeps them    *)
(* from the outputs until they are complete, and queries what is missing.  *)
(*                                                                         *)
(* A message and every event it emits on the way run to completion, so a   *)
(* message is one action.  Two trackers query devices, each with its own   *)
(* cooldown: the repair and the older fallback of the heartbeat handler.   *)
(* The outputs, and the cache manager among them, are the handlers of the  *)
(* bus without a priority.                                                 *)
(***************************************************************************)
EXTENDS Naturals, Sequences

CONSTANTS
    Devices,       \* device identifiers
    Slots,         \* module indices of a device
    Boards,        \* modules; a board stands for its moduleId, uTotal and fwVer
    Addresses,     \* a device's own fields: ip and mac; V5008 also fwVer, mask, gwIp
    None,          \* a field the record does not have
    Info           \* the query for a device's own fields

ASSUME SmartHBAssumption ==
    /\ None \notin Boards
    /\ None \notin Addresses
    /\ Info \notin Slots

VARIABLES
    kind,          \* what each device is; never changes
    running,       \* isRunning, and the handler is on the bus
    config,        \* triggerOnHeartbeat and enableDeviceInfoRepair
    partial,       \* partialDevMod of each device
    isComplete,    \* DeviceRepairState.isComplete
    asked,         \* queries of the repair that are in their cooldown
    askedLegacy,   \* queries of the heartbeat handler that are
    cachedInfo,    \* the cache holds device information
    cachedHb,      \* modules the cache has seen a heartbeat of
    delivered      \* SUO_DEV_MOD records the last step passed to the outputs

vars == <<kind, running, config, partial, isComplete, asked, askedLegacy,
          cachedInfo, cachedHb, delivered>>

Config == [trigger : BOOLEAN, repair : BOOLEAN]

Queries == Slots \cup {Info}

-----------------------------------------------------------------------------
(* Device records.                                                         *)

\* Which board each slot holds, or which firmware: MODULE_INFO has no
\* identifiers, a heartbeat no firmware.
Placement == [Slots -> Boards \cup {None}]

Vacant == [s \in Slots |-> None]

DevMod == [net : Addresses \cup {None}, id : Placement, fw : Placement]

Blank == [net |-> None, id |-> Vacant, fw |-> Vacant]

\* The modules a record lists.
Listed(m) == {s \in Slots : m.id[s] # None \/ m.fw[s] # None}

MergePlacement(old, new) ==
    [s \in Slots |-> IF new[s] = None THEN old[s] ELSE new[s]]

\* Field by field, what comes in wins unless it is missing.
Merge(old, new) ==
    [net |-> IF new.net = None THEN old.net ELSE new.net,
     id  |-> MergePlacement(old.id, new.id),
     fw  |-> MergePlacement(old.fw, new.fw)]

Complete(m) ==
    /\ m.net # None
    /\ Listed(m) # {}
    /\ \A s \in Listed(m) : m.id[s] # None /\ m.fw[s] # None

\* What the repair queries.  A record that lists no module is incomplete too,
\* yet there is nothing to ask for.
Missing(m) ==
    {q \in Queries : \/ q = Info /\ m.net = None
                     \/ q \in Listed(m) /\ (m.id[q] = None \/ m.fw[q] = None)}

-----------------------------------------------------------------------------
Init ==
    /\ kind \in [Devices -> {"V5008", "V6800"}]
    /\ running = FALSE
    /\ config \in Config
    /\ partial = [d \in Devices |-> Blank]
    /\ isComplete = [d \in Devices |-> FALSE]
    /\ asked = [d \in Devices |-> {}]
    /\ askedLegacy = [d \in Devices |-> {}]
    /\ cachedInfo = [d \in Devices |-> FALSE]
    /\ cachedHb = [d \in Devices |-> {}]
    /\ delivered = [d \in Devices |-> <<>>]

\* The step passes the records of s, all of d, to the outputs.
Deliver(d, s) == delivered' = [e \in Devices |-> IF e = d THEN s ELSE <<>>]

Quiet == delivered' = [d \in Devices |-> <<>>]

-----------------------------------------------------------------------------
\* A module that is not enabled is never started.
Start ==
    /\ ~running
    /\ running' = TRUE
    /\ Quiet
    /\ UNCHANGED <<kind, config, partial, isComplete, asked, askedLegacy,
                   cachedInfo, cachedHb>>

Stop ==
    /\ running
    /\ running' = FALSE
    /\ Quiet
    /\ UNCHANGED <<kind, config, partial, isComplete, asked, askedLegacy,
                   cachedInfo, cachedHb>>

\* A new configuration starts the repair afresh; the fallback keeps its queries.
UpdateConfig(c) ==
    /\ config' = c
    /\ partial' = [d \in Devices |-> Blank]
    /\ isComplete' = [d \in Devices |-> FALSE]
    /\ asked' = [d \in Devices |-> {}]
    /\ Quiet
    /\ UNCHANGED <<kind, running, askedLegacy, cachedInfo, cachedHb>>

-----------------------------------------------------------------------------
(* Messages.                                                               *)

\* A message that is not complete by itself is kept from the outputs.
Passed(m) == IF Complete(m) THEN <<m>> ELSE <<>>

\* Mutation: a record is announced only if the last message was a part of it.
EmittedForParts(d, m) ==
    LET merged == Merge(partial[d], m)
    IN  IF Complete(merged) /\ ~isComplete[d] /\ ~Complete(m) THEN <<merged>> ELSE <<>>

\* The first time a device's record is complete the repair emits it.  The flag
\* is set before, so the handler, entered again for that record, merges it with
\* itself, emits nothing more and lets it pass.
Emitted(d, m) ==
    LET merged == Merge(partial[d], m)
    IN  IF Complete(merged) /\ ~isComplete[d] THEN <<merged>> ELSE <<>>

\* Mutation: a record that lost its completeness keeps the flag.
FlagSticks(d, m) == isComplete[d] \/ Complete(Merge(partial[d], m))

Flag(d, m) == Complete(Merge(partial[d], m))

ProcessDevMod(d, m) ==
    /\ partial' = [partial EXCEPT ![d] = Merge(@, m)]
    /\ isComplete' = [isComplete EXCEPT ![d] = Flag(d, m)]
    /\ asked' = [asked EXCEPT ![d] = @ \cup Missing(Merge(partial[d], m))]

\* Mutation: an incomplete message passes once the device's record is complete.
OutputsOfAnyPart(d, m) ==
    Emitted(d, m) \o (IF Flag(d, m) THEN <<m>> ELSE Passed(m))

\* The nested emission comes before the message itself.
Outputs(d, m) == Emitted(d, m) \o Passed(m)

\* Whichever way a record goes, the cache then holds the device's info: the
\* repair stores what it merged, the cache manager what passes.
StoreInfo(d) == cachedInfo' = [cachedInfo EXCEPT ![d] = TRUE]

HandleDevMod(d, m) ==
    /\ IF running /\ config.repair
         THEN ProcessDevMod(d, m) /\ Deliver(d, Outputs(d, m))
         ELSE Deliver(d, <<m>>) /\ UNCHANGED <<partial, isComplete, asked>>
    /\ StoreInfo(d)
    /\ UNCHANGED <<kind, running, config, askedLegacy, cachedHb>>

\* Mutation: the fallback runs before the repair has stored what it merged.
InfoCachedBefore(d) == cachedInfo[d]

\* The fallback looks in the cache as the repair has left it in this very step.
InfoCached(d) == cachedInfo'[d]

\* processModuleHeartbeat for each module of the heartbeat.
LegacyQueries(d, b) ==
    LET plugged == {s \in Slots : b[s] # None}
    IN  (plugged \ cachedHb[d]) \cup {q \in {Info} : plugged # {} /\ ~InfoCached(d)}

\* The cache manager stores the heartbeat last.
UpdateHeartbeat(d, b) ==
    cachedHb' = [cachedHb EXCEPT ![d] = @ \cup {s \in Slots : b[s] # None}]

HeartbeatRecord(b) == [Blank EXCEPT !.id = b]

HandleHeartbeat(d, b) ==
    LET m == HeartbeatRecord(b)
    IN  /\ IF running /\ config.trigger /\ config.repair
             THEN /\ ProcessDevMod(d, m)
                  /\ Deliver(d, Emitted(d, m))
                  /\ StoreInfo(d)
             ELSE Quiet /\ UNCHANGED <<partial, isComplete, asked, cachedInfo>>
        /\ IF running /\ config.trigger
             THEN askedLegacy' = [askedLegacy EXCEPT ![d] = @ \cup LegacyQueries(d, b)]
             ELSE UNCHANGED askedLegacy
        /\ UpdateHeartbeat(d, b)
        /\ UNCHANGED <<kind, running, config>>

-----------------------------------------------------------------------------
(* What devices send.  Any placement may come at any time: modules are     *)
(* plugged, unplugged and swapped, and messages overtake one another.      *)

Heartbeat(d) == \E b \in Placement : HandleHeartbeat(d, b)

DeviceInfo(d) ==
    /\ kind[d] = "V5008"
    /\ \E a \in Addresses : HandleDevMod(d, [Blank EXCEPT !.net = a])

ModuleInfo(d) ==
    /\ kind[d] = "V5008"
    /\ \E f \in Placement \ {Vacant} : HandleDevMod(d, [Blank EXCEPT !.fw = f])

\* The firmware of the listed modules, which the message may leave out.
FirmwareOf(b) == {f \in Placement : \A s \in Slots : f[s] \in {b[s], None}}

DevModInfo(d) ==
    /\ kind[d] = "V6800"
    /\ \E a \in Addresses, b \in Placement : \E f \in FirmwareOf(b) :
         HandleDevMod(d, [net |-> a, id |-> b, fw |-> f])

ModChngEvent(d) ==
    /\ kind[d] = "V6800"
    /\ \E b \in Placement : \E f \in FirmwareOf(b) :
         HandleDevMod(d, [net |-> None, id |-> b, fw |-> f])

-----------------------------------------------------------------------------
(* Time passes.                                                            *)

EndCooldown(d, q) ==
    /\ q \in asked[d]
    /\ asked' = [asked EXCEPT ![d] = @ \ {q}]
    /\ Quiet
    /\ UNCHANGED <<kind, running, config, partial, isComplete, askedLegacy,
                   cachedInfo, cachedHb>>

EndLegacyCooldown(d, q) ==
    /\ q \in askedLegacy[d]
    /\ askedLegacy' = [askedLegacy EXCEPT ![d] = @ \ {q}]
    /\ Quiet
    /\ UNCHANGED <<kind, running, config, partial, isComplete, asked,
                   cachedInfo, cachedHb>>

\* The cache expires or evicts an entry.
ForgetInfo(d) ==
    /\ cachedInfo[d]
    /\ cachedInfo' = [cachedInfo EXCEPT ![d] = FALSE]
    /\ Quiet
    /\ UNCHANGED <<kind, running, config, partial, isComplete, asked, askedLegacy,
                   cachedHb>>

ForgetModule(d, s) ==
    /\ s \in cachedHb[d]
    /\ cachedHb' = [cachedHb EXCEPT ![d] = @ \ {s}]
    /\ Quiet
    /\ UNCHANGED <<kind, running, config, partial, isComplete, asked, askedLegacy,
                   cachedInfo>>

-----------------------------------------------------------------------------
Message(d) ==
    \/ Heartbeat(d)
    \/ DeviceInfo(d)
    \/ ModuleInfo(d)
    \/ DevModInfo(d)
    \/ ModChngEvent(d)

Passing(d) ==
    \/ \E q \in Queries : EndCooldown(d, q) \/ EndLegacyCooldown(d, q)
    \/ ForgetInfo(d)
    \/ \E s \in Slots : ForgetModule(d, s)

Next ==
    \/ Start
    \/ Stop
    \/ \E c \in Config : UpdateConfig(c)
    \/ \E d \in Devices : Message(d) \/ Passing(d)

Spec == Init /\ [][Next]_vars

-----------------------------------------------------------------------------
TypeOK ==
    /\ kind \in [Devices -> {"V5008", "V6800"}]
    /\ running \in BOOLEAN
    /\ config \in Config
    /\ partial \in [Devices -> DevMod]
    /\ isComplete \in [Devices -> BOOLEAN]
    /\ asked \in [Devices -> SUBSET Queries]
    /\ askedLegacy \in [Devices -> SUBSET Queries]
    /\ cachedInfo \in [Devices -> BOOLEAN]
    /\ cachedHb \in [Devices -> SUBSET Slots]
    /\ delivered \in [Devices -> Seq(DevMod)]

\* The flag that decides whether a record is announced tells the truth about
\* it, whatever modules come and go after the first completion
\* (device-info-repair.ts:92-100).
FlagIsTruth == \A d \in Devices : isComplete[d] <=> Complete(partial[d])

\* While the repair works the outputs, the database among them, get complete
\* records only, by emission or by passing (smart-hb.ts:132-135).
OutputsGetCompleteRecords ==
    [][running /\ config.repair =>
         \A d \in Devices : \A i \in DOMAIN delivered'[d] : Complete(delivered'[d][i])]_vars

\* Whenever the parts of a device's record become whole, the first time or
\* again after a module joined, the outputs get the whole record.
CompletionIsDelivered ==
    [][\A d \in Devices :
         Complete(partial'[d]) /\ ~Complete(partial[d]) =>
            \E i \in DOMAIN delivered'[d] : delivered'[d][i] = partial'[d]]_vars

\* Though the two trackers do not know each other's cooldowns, the fallback never
\* asks a device for its own fields while the repair sees to that: however often the
\* cache forgets them, the repair has stored its record, whole or not, before the
\* fallback looks (smart-hb.ts:184-198, device-info-repair.ts:88).
InfoIsAskedByOne ==
    [][config.repair =>
         \A d \in Devices : Info \in askedLegacy'[d] => Info \in askedLegacy[d]]_vars

\* specs/architecture.md:271 "Complete -> Save SUO_DEV_MOD to DB": a message
\* whose merge leaves a changed and complete record has it saved.
CompleteMergeIsSaved ==
    [][running /\ config.repair =>
         \A d \in Devices :
            kind[d] = "V5008" /\ Complete(partial'[d]) /\ partial'[d] # partial[d] =>
               \E i \in DOMAIN delivered'[d] : delivered'[d][i] = partial'[d]]_vars
=============================================================================
