---------------------------- MODULE ModuleHealth ----------------------------
(***************************************************************************)
(* The module records of one device in the cache, as the cache manager and *)
(* the protocol adapter write them, and the watchdog that runs over them   *)
(* and marks those offline whose heartbeats have stopped.                  *)
(*                                                                         *)
(* Between the device and the manager is SmartHB, which keeps a partial    *)
(* device record back and puts a merged one on the bus when it has become  *)
(* complete.  That one lists every module the device ever told of, also    *)
(* those that are gone.  Module SmartHB has the fields that make a record  *)
(* complete; here it is complete when nothing rules it out.  The repair is *)
(* on, as the application has it (app.ts:77).                              *)
(*                                                                         *)
(* Of a record the model keeps the age of the last heartbeat, whether the  *)
(* module counts as online, and how long ago the record was stored, which  *)
(* is what makes it expire.  Readings are merged field by field and do not *)
(* touch these.                                                            *)
(***************************************************************************)
EXTENDS Watchdog, DeviceMessages

CONSTANTS
    Modules,       \* the addresses whose records are followed
    OfflineAge,    \* heartbeats older than this are overdue
    Ttl,           \* age at which a record expires
    Caching,       \* enableCache: the cache manager's handler is on the bus
    Adapting,      \* protocolAdapter.enabled: the protocol adapter's is
    Repairing,     \* modules.smartHB.enabled: SmartHB's is, and before theirs
    Triggering     \* triggerOnHeartbeat

ASSUME HealthAssumption ==
    /\ Modules \subseteq Addresses
    /\ OfflineAge \in Nat
    /\ Ttl \in Nat
    /\ Caching \in BOOLEAN
    /\ Adapting \in BOOLEAN
    /\ Repairing \in BOOLEAN
    /\ Triggering \in BOOLEAN
    /\ "deviceHealthCheck" \in Defaults

VARIABLES
    kind,      \* what the device is; never changes
    alive,     \* modules that messages of the device still tell of
    hb,        \* time since lastSeenHb
    isOnline,  \* isOnline
    stored,    \* time since the record was stored
    gathered,  \* modules that the repair's merged record of the device lists
    complete   \* DeviceRepairState.isComplete

records == <<hb, isOnline, stored>>
device == <<kind, alive>>
repair == <<gathered, complete>>
health == <<watchdog, device, records, repair>>

Never == OfflineAge + 2
Gone == Ttl + 1

HasRecord(a) == stored[a] # Gone

HealthCheck == [name |-> "deviceHealthCheck", own |-> FALSE]

-----------------------------------------------------------------------------
InitHealth ==
    /\ InitWatchdog
    /\ kind \in {"V5008", "V6800"}
    /\ alive = Modules
    /\ hb = [a \in Modules |-> Never]
    /\ isOnline = [a \in Modules |-> FALSE]
    /\ stored = [a \in Modules |-> Gone]
    /\ gathered = {}
    /\ complete = FALSE

-----------------------------------------------------------------------------
(* Messages.                                                               *)

AddressesIn(suo) == {e.address : e \in suo.modules}

NamedIn(suo) == {e.address : e \in {e \in suo.modules : e.id}}

\* The record of every module is made or renewed, its heartbeat time is not.
UpdateDeviceInfo(suo) == IF suo.suoType = "SUO_DEV_MOD" THEN AddressesIn(suo) ELSE {}

UpdateHeartbeat(suo) == IF suo.suoType = "SUO_HEARTBEAT" THEN AddressesIn(suo) ELSE {}

\* Tags and readings of a module without an identifier are passed over.
UpdateRfidSnapshot(suo) == IF suo.suoType = "SUO_RFID_SNAPSHOT" THEN NamedIn(suo) ELSE {}

UpdateReading(suo) ==
    IF suo.suoType \in {"SUO_TEMP_HUM", "SUO_NOISE_LEVEL"} THEN NamedIn(suo) ELSE {}

UpdateDoorState(suo) == IF suo.suoType = "SUO_DOOR_STATE" THEN AddressesIn(suo) ELSE {}

\* The adapter's record of tags asks for no identifier.
UpdateRfidStateInCache(suo) == IF suo.suoType = "SUO_RFID_SNAPSHOT" THEN AddressesIn(suo) ELSE {}

\* The handler of the manager: the records it writes.
ManagerWrites(suo) ==
    UNION {UpdateDeviceInfo(suo), UpdateHeartbeat(suo), UpdateRfidSnapshot(suo),
           UpdateReading(suo), UpdateDoorState(suo)}

\* The modules whose identity or readings a message carries.
About(suo) == IF suo.suoType = "SUO_COMMAND_RESULT" THEN {} ELSE AddressesIn(suo)

-----------------------------------------------------------------------------
(* The repair.                                                             *)

IsDevMod(suo) == suo.suoType = "SUO_DEV_MOD"

\* What SmartHB takes into its record of the device.
Merged(suos) ==
    {s \in suos : IsDevMod(s) \/ (s.suoType = "SUO_HEARTBEAT" /\ Triggering)}

\* A device record can be complete by itself if it lists modules, each with its
\* identifier.
SelfContained(suos) ==
    {s \in suos : IsDevMod(s) /\ s.modules # {} /\ \A e \in s.modules : e.id}

\* The record grows by the modules a message lists; fields it has it keeps, so
\* only another module makes a complete one incomplete.  One that is complete
\* by itself, in passed, leaves nothing to ask for the modules it lists.
Gather(suos, passed) ==
    IF Repairing /\ Merged(suos) # {}
      THEN /\ gathered' = gathered \cup UNION {AddressesIn(s) : s \in Merged(suos)}
           /\ complete' \in {b \in BOOLEAN : b => gathered' # {}}
           /\ complete /\ gathered' = gathered => complete'
           /\ passed # {} /\ gathered' \subseteq UNION {AddressesIn(s) : s \in passed} =>
                complete'
      ELSE UNCHANGED repair

\* Mutation: a complete record is put on the bus with every message.
EmittedEachTime == IF complete' THEN gathered' ELSE {}

\* The modules of the merged record that goes on the bus as it becomes complete.
Emitted == IF complete' /\ ~complete THEN gathered' ELSE {}

\* What gets past SmartHB: of the device records those complete by themselves.
Past(suos, passed) ==
    IF Repairing THEN {s \in suos : ~IsDevMod(s)} \cup passed ELSE suos

\* SmartHB.updateConfig: the repair starts afresh.
RestartRepair ==
    /\ Repairing
    /\ gathered' = {}
    /\ complete' = FALSE
    /\ UNCHANGED <<watchdog, device, records>>

-----------------------------------------------------------------------------
(* The handlers.                                                           *)

\* SmartHB's handler, the manager's, then the adapter's, for all that one
\* message of the device puts on the bus: a record is made where there is none,
\* a heartbeat or the adapter makes its module online, and all renew it.
Receive(suos) == \E passed \in SUBSET SelfContained(suos) :
    LET past == Past(suos, passed)
        heard == IF Caching THEN UNION {UpdateHeartbeat(s) : s \in past} ELSE {}
        scanned == IF Adapting THEN UNION {UpdateRfidStateInCache(s) : s \in past} ELSE {}
        managed == IF Caching THEN Emitted \cup UNION {ManagerWrites(s) : s \in past} ELSE {}
        renewed == managed \cup scanned
    IN  /\ (UNION {About(s) : s \in suos}) \cap Modules \subseteq alive
        /\ Gather(suos, passed)
        /\ hb' = [a \in Modules |-> IF a \in heard THEN 0 ELSE hb[a]]
        /\ isOnline' = [a \in Modules |-> isOnline[a] \/ a \in heard \cup scanned]
        /\ stored' = [a \in Modules |-> IF a \in renewed THEN 0 ELSE stored[a]]
        /\ UNCHANGED <<watchdog, device>>

\* The record of a is deleted, expired or evicted.
Forget(a) ==
    /\ HasRecord(a)
    /\ hb' = [hb EXCEPT ![a] = Never]
    /\ isOnline' = [isOnline EXCEPT ![a] = FALSE]
    /\ stored' = [stored EXCEPT ![a] = Gone]
    /\ UNCHANGED <<watchdog, device, repair>>

Expired == {a \in Modules : HasRecord(a) /\ stored[a] = Ttl}

\* An expired record is not seen any more, whenever it is removed.
Tick ==
    /\ stored' = [a \in Modules |-> IF HasRecord(a) THEN stored[a] + 1 ELSE Gone]
    /\ hb' = [a \in Modules |->
                CASE a \in Expired -> Never
                  [] a \notin Expired /\ hb[a] <= OfflineAge -> hb[a] + 1
                  [] OTHER -> hb[a]]
    /\ isOnline' = [a \in Modules |-> isOnline[a] /\ a \notin Expired]
    /\ UNCHANGED <<watchdog, device, repair>>

\* A module is pulled out or breaks, and nothing tells of it any more.
Silence(a) ==
    /\ a \in alive
    /\ alive' = alive \ {a}
    /\ UNCHANGED <<watchdog, kind, records, repair>>

-----------------------------------------------------------------------------
(* The watchdog.                                                           *)

\* Mutation: any message counts as a sign of life.
OverdueByRecord == {a \in Modules : HasRecord(a) /\ stored[a] > OfflineAge /\ isOnline[a]}

\* Mutation: the records of modules that are offline are written again.
OverdueEachTime == {a \in Modules : HasRecord(a) /\ hb[a] = OfflineAge + 1}

\* Modules that count as online and whose heartbeats have stopped; without any
\* heartbeat nothing has.
OverdueModules == {a \in Modules : HasRecord(a) /\ hb[a] = OfflineAge + 1 /\ isOnline[a]}

\* Every module that is overdue is stored again as offline.
CheckHealth ==
    /\ isOnline' = [a \in Modules |-> isOnline[a] /\ a \notin OverdueModules]
    /\ stored' = [a \in Modules |-> IF a \in OverdueModules THEN 0 ELSE stored[a]]
    /\ UNCHANGED hb

\* The other tasks look at the cache and write to the log.
Run(works) == IF HealthCheck \in works THEN CheckHealth ELSE UNCHANGED records

StartWatchdog == StartTasks /\ Run(RunsAtStart(tasks)) /\ UNCHANGED <<device, repair>>

StopWatchdog == StopTasks /\ UNCHANGED <<device, records, repair>>

AddWatchdogTask(t) ==
    AddTask(t) /\ Run(RunsWhenAdded(t)) /\ UNCHANGED <<device, repair>>

RemoveWatchdogTask(n) == RemoveTask(n) /\ UNCHANGED <<device, records, repair>>

SetWatchdogTask(n, on) ==
    SetTaskEnabled(n, on) /\ Run(RunsWhenSet(n, on)) /\ UNCHANGED <<device, repair>>

UpdateWatchdog(c) ==
    UpdateConfig(c) /\ Run(RunsWhenUpdated(c)) /\ UNCHANGED <<device, repair>>

\* An interval fires.
Fire(w) == w \in Firing /\ Run({w}) /\ UNCHANGED <<watchdog, device, repair>>

NextHealth ==
    \/ kind = "V5008" /\ \E suos \in V5008Outputs : Receive(suos)
    \/ kind = "V6800" /\ \E suos \in V6800Outputs : Receive(suos)
    \/ \E a \in Modules : Forget(a) \/ Silence(a)
    \/ Tick
    \/ RestartRepair
    \/ StartWatchdog
    \/ StopWatchdog
    \/ \E n \in Names :
         \/ \E on \in BOOLEAN :
              \/ AddWatchdogTask([name |-> n, enabled |-> on, own |-> TRUE])
              \/ SetWatchdogTask(n, on)
         \/ RemoveWatchdogTask(n)
    \/ \E c \in Config : UpdateWatchdog(c)
    \/ \E w \in Work : Fire(w)

HealthSpec == InitHealth /\ [][NextHealth]_health

\* Time passes, and an interval that is set fires again and again.
HealthFairness == WF_health(Tick) /\ WF_health(Fire(HealthCheck))

FairHealthSpec == HealthSpec /\ HealthFairness

-----------------------------------------------------------------------------
TypeOKHealth ==
    /\ TypeOKWatchdog
    /\ kind \in {"V5008", "V6800"}
    /\ alive \subseteq Modules
    /\ hb \in [Modules -> 0 .. Never]
    /\ isOnline \in [Modules -> BOOLEAN]
    /\ stored \in [Modules -> 0 .. Gone]
    /\ \A a \in Modules : ~HasRecord(a) => hb[a] = Never /\ ~isOnline[a]
    /\ complete \in BOOLEAN
    /\ complete => gathered # {}

\* The list has the health check enabled, no other task took its interval, and
\* the watchdog runs.
Watching ==
    /\ isRunning
    /\ "deviceHealthCheck" \notin repeated
    /\ \E i \in DOMAIN tasks : WorkOf(tasks[i]) = HealthCheck /\ tasks[i].enabled

\* A module that keeps its record is marked offline only when its heartbeats have
\* stopped, whichever task runs and however often (watchdog.ts:216-231).
OfflineIsOverdue ==
    [][\A a \in Modules : isOnline[a] /\ ~isOnline'[a] /\ HasRecord(a)' =>
         hb[a] = OfflineAge + 1]_health

\* A record that lists a is put on the bus for another module's sake.
MergedTellsOf(a) == a \in gathered /\ Emitted # {}

\* The record of a module that is offline and that nobody tells of any more
\* stays offline, and no check, task, or message of another module renews it,
\* but for the merged record: that renews it when a module the device had not
\* told of is new in it and its fields have all come (watchdog.ts:228-231,
\* device-info-repair.ts:90-100, uos-cache-manager.ts:155-165).
SilentIsNotRenewed ==
    [][\A a \in Modules \ alive :
         ~isOnline[a] =>
            ~isOnline'[a] /\ (stored'[a] >= stored[a] \/ MergedTellsOf(a))]_health

\* A module whose heartbeats have stopped is marked offline however many other
\* messages of it arrive and though the adapter makes it online with each
\* snapshot, as long as the watchdog watches (watchdog.ts:222-231).
SilentGoesOffline ==
    \A a \in Modules :
        (hb[a] = OfflineAge + 1 /\ isOnline[a]) ~>
            (~isOnline[a] \/ hb[a] <= OfflineAge \/ ~Watching)

\* Marking a module offline stores its record anew, and so does every merged
\* record that lists it, but neither keeps or remakes the record of a module
\* nobody tells of any more without end: in the end it has expired for good
\* (watchdog.ts:229-231, device-info-repair.ts:90-100).
SilentIsForgotten == \A a \in Modules : a \notin alive ~> []~HasRecord(a)
=============================================================================
