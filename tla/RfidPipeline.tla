----------------------------- MODULE RfidPipeline -----------------------------
(***************************************************************************)
(* What becomes of the tags of one module: the device's snapshot is parsed *)
(* and normalised, the cache manager stores it, the protocol adapter       *)
(* compares it with what is stored and announces the differences as        *)
(* unified events, unless it announced the same a moment ago.              *)
(*                                                                         *)
(* The handlers of a message, and those of the events they emit, run to    *)
(* completion, so a message is one action.  The consumer is any output: it *)
(* knows the tags by the unified events alone.                             *)
(***************************************************************************)
EXTENDS Naturals, Sequences, FiniteSets

CONSTANTS
    Sensors,          \* sensor positions of the module
    Tags,             \* tag identifiers
    NoTag,            \* a position without a tag
    Lost,             \* the cache has no record of the module
    Windows,          \* values dedupWindowMs may have
    CleanupInterval,  \* CLEANUP_INTERVAL
    MaxAge            \* longest time since an announcement that is told apart

ASSUME RfidAssumption ==
    /\ IsFiniteSet(Sensors)
    /\ NoTag \notin Tags
    /\ Windows \subseteq Nat
    /\ CleanupInterval \in Nat \ {0}
    /\ MaxAge \in Nat
    /\ \A w \in Windows : 2 * w < MaxAge

VARIABLES
    kind,          \* what the device is; never changes
    caching,       \* the cache manager's handler is on the bus, before the adapter's
    running,       \* the adapter's isRunning, and its handler is on the bus
    window,        \* dedupWindowMs
    stored,        \* rfidSnapshot of the module's record, or Lost
    entries,       \* keys of dedupWindow
    said,          \* time since each change was last announced, to MaxAge
    emitCallCount,
    announced,     \* unified events of the last step, by sensor
    queries,       \* snapshot queries the last step published
    view,          \* ghost: the tags as the consumer knows them
    excused,       \* ghost: sensors whose last change was dropped or forgotten
    least          \* ghost: shortest window in force since each change was last
                   \* announced, or the present one if that is MaxAge ago

vars == <<kind, caching, running, window, stored, entries, said, emitCallCount,
          announced, queries, view, excused, least>>

\* Sensors that are not listed have no tag; a listed one may have none either.
Snapshots == UNION {[S -> Tags \cup {NoTag}] : S \in SUBSET Sensors}

Changes == [sensor : Sensors, tag : Tags, action : {"ATTACHED", "DETACHED"}]

TagAt(snapshot, s) ==
    IF snapshot # Lost /\ s \in DOMAIN snapshot THEN snapshot[s] ELSE NoTag

-----------------------------------------------------------------------------
(* From what a device sends to a snapshot.                                 *)

\* A V5008 frame says how many slots it has, and ends where it ends.
Frames ==
    {f \in [count : 0 .. Cardinality(Sensors) + 1,
            slots : UNION {[1 .. n -> Sensors \X Tags] : n \in 0 .. Cardinality(Sensors)}] :
        \A i, j \in DOMAIN f.slots : f.slots[i][1] = f.slots[j][1] => i = j}

\* No more slots than the frame says and no more than it has room for.
FrameSnapshot(f) ==
    LET read == {f.slots[i] : i \in {i \in DOMAIN f.slots : i <= f.count}}
    IN  [s \in {slot[1] : slot \in read} |-> (CHOOSE slot \in read : slot[1] = s)[2]]

\* A V6800 lists positions with u_state; tag_code may be missing or empty.
Lists == UNION {[S -> [u_state : {0, 1}, tag_code : Tags \cup {NoTag}]] : S \in SUBSET Sensors}

ListSnapshot(l) ==
    [s \in {s \in DOMAIN l : l[s].u_state = 1} |-> l[s].tag_code]

-----------------------------------------------------------------------------
(* Changes and their announcement.                                         *)

Attached(s, t) == [sensor |-> s, tag |-> t, action |-> "ATTACHED"]
Detached(s, t) == [sensor |-> s, tag |-> t, action |-> "DETACHED"]

\* Mutation: what the snapshot does not list any more is not looked at.
ListedDeparture(old, new, s) ==
    IF s \notin DOMAIN new \/ TagAt(old, s) \in {NoTag, TagAt(new, s)}
      THEN <<>> ELSE <<Detached(s, TagAt(old, s))>>

\* The tag that is gone, or gave way to another.
Departure(old, new, s) ==
    IF TagAt(old, s) \in {NoTag, TagAt(new, s)}
      THEN <<>> ELSE <<Detached(s, TagAt(old, s))>>

\* The tag that is new; without a record every tag that is there is.
Arrival(old, new, s) ==
    IF TagAt(new, s) \in {NoTag, TagAt(old, s)}
      THEN <<>> ELSE <<Attached(s, TagAt(new, s))>>

\* A tag that gives way to another is detached first.
ChangesAt(old, new, s) == Departure(old, new, s) \o Arrival(old, new, s)

Duplicate(c) == c \in entries /\ said[c] < window

Elements(seq) == {seq[i] : i \in DOMAIN seq}

\* A change, unless it repeats one of the window.
Unrepeated(change) == IF \E c \in Elements(change) : Duplicate(c) THEN <<>> ELSE change

\* The changes of s that are announced.
Announced(old, new, s) ==
    Unrepeated(Departure(old, new, s)) \o Unrepeated(Arrival(old, new, s))

\* Mutation: entries are cleaned up before their window ends.
EntriesWithinHalf(cleaned) ==
    IF cleaned THEN {c \in entries : 2 * said[c] < window} ELSE entries

\* Every CleanupInterval-th attempt removes the entries older than two windows.
EntriesKept(cleaned) ==
    IF cleaned THEN {c \in entries : said[c] <= 2 * window} ELSE entries

CallCount(attempts) == attempts % CleanupInterval

TagAfter(c) == IF c.action = "ATTACHED" THEN c.tag ELSE NoTag

\* emitRFIDEvent for every change from old to new.
Announce(old, new) ==
    LET changes == [s \in Sensors |-> ChangesAt(old, new, s)]
        out == [s \in Sensors |-> Announced(old, new, s)]
        made == UNION {Elements(changes[s]) : s \in Sensors}
        told == UNION {Elements(out[s]) : s \in Sensors}
        attempts == emitCallCount + Cardinality(made)
    IN  /\ announced' = out
        /\ emitCallCount' = CallCount(attempts)
        /\ entries' = EntriesKept(attempts >= CleanupInterval) \cup told
        /\ said' = [c \in Changes |-> IF c \in told THEN 0 ELSE said[c]]
        /\ least' = [c \in Changes |-> IF c \in told THEN window ELSE least[c]]
        /\ view' = [s \in Sensors |->
                      IF out[s] = <<>> THEN view[s] ELSE TagAfter(out[s][Len(out[s])])]
        /\ excused' = {s \in Sensors :
                         IF changes[s] = <<>> THEN s \in excused
                         ELSE Duplicate(changes[s][Len(changes[s])])}
        \* Each event of a V6800 module comes back to the adapter, which asks.
        /\ queries' = IF kind = "V6800" THEN Cardinality(told) ELSE 0

Silent ==
    /\ announced' = [s \in Sensors |-> <<>>]
    /\ queries' = 0

-----------------------------------------------------------------------------
Init ==
    /\ kind \in {"V5008", "V6800"}
    /\ caching \in BOOLEAN
    /\ running = FALSE
    /\ window \in Windows
    /\ stored = Lost
    /\ entries = {}
    /\ said = [c \in Changes |-> MaxAge]
    /\ emitCallCount = 0
    /\ announced = [s \in Sensors |-> <<>>]
    /\ queries = 0
    /\ view = [s \in Sensors |-> NoTag]
    /\ excused = {}
    /\ least = [c \in Changes |-> window]

\* An adapter that is not enabled is never started.
Start ==
    /\ ~running
    /\ running' = TRUE
    /\ Silent
    /\ UNCHANGED <<kind, caching, window, stored, entries, said, emitCallCount,
                   view, excused, least>>

\* The handler is off the bus; the deduplication window stays as it is.
Stop ==
    /\ running
    /\ running' = FALSE
    /\ Silent
    /\ UNCHANGED <<kind, caching, window, stored, entries, said, emitCallCount,
                   view, excused, least>>

\* Any window follows any other.
UpdateConfig(w) ==
    /\ window' = w
    /\ least' = [c \in Changes |-> IF said[c] = MaxAge \/ w < least[c] THEN w ELSE least[c]]
    /\ Silent
    /\ UNCHANGED <<kind, caching, running, stored, entries, said, emitCallCount,
                   view, excused>>

\* The cache manager skips a snapshot without a module identifier.
ManagerStores(identified) == caching /\ identified

\* The cache manager's handler runs first, the adapter's after it.
HandleRfidSnapshot(snapshot, identified) ==
    LET previous == IF ManagerStores(identified) THEN snapshot ELSE stored
    IN  /\ stored' = IF running THEN snapshot ELSE previous
        /\ IF running
             THEN Announce(previous, snapshot)
             ELSE Silent /\ UNCHANGED <<entries, said, emitCallCount, view, excused, least>>
        /\ UNCHANGED <<kind, caching, running, window>>

\* A V5008 module always has an identifier.
V5008Snapshot ==
    /\ kind = "V5008"
    /\ \E snapshot \in {FrameSnapshot(f) : f \in Frames} : HandleRfidSnapshot(snapshot, TRUE)

V6800Snapshot ==
    /\ kind = "V6800"
    /\ \E snapshot \in {ListSnapshot(l) : l \in Lists}, identified \in BOOLEAN :
         HandleRfidSnapshot(snapshot, identified)

\* The device's own event is not trusted: it makes the adapter ask.
V6800Event ==
    /\ kind = "V6800"
    /\ announced' = [s \in Sensors |-> <<>>]
    /\ queries' = IF running THEN 1 ELSE 0
    /\ UNCHANGED <<kind, caching, running, window, stored, entries, said, emitCallCount,
                   view, excused, least>>

\* Any other message of the module has the cache manager create its record.
OtherTelemetry ==
    /\ caching
    /\ stored = Lost
    /\ stored' = [s \in {} |-> NoTag]
    /\ Silent
    /\ UNCHANGED <<kind, caching, running, window, entries, said, emitCallCount,
                   view, excused, least>>

\* The cache expires or evicts the record, tags and all.
Forget ==
    /\ stored # Lost
    /\ stored' = Lost
    /\ excused' = excused \cup {s \in Sensors : TagAt(stored, s) # NoTag}
    /\ Silent
    /\ UNCHANGED <<kind, caching, running, window, entries, said, emitCallCount, view,
                   least>>

Tick ==
    /\ \E c \in Changes : said[c] < MaxAge
    /\ said' = [c \in Changes |-> IF said[c] < MaxAge THEN said[c] + 1 ELSE MaxAge]
    /\ least' = [c \in Changes |-> IF said[c] + 1 < MaxAge THEN least[c] ELSE window]
    /\ Silent
    /\ UNCHANGED <<kind, caching, running, window, stored, entries, emitCallCount,
                   view, excused>>

Next ==
    \/ Start
    \/ Stop
    \/ \E w \in Windows : UpdateConfig(w)
    \/ V5008Snapshot
    \/ V6800Snapshot
    \/ V6800Event
    \/ OtherTelemetry
    \/ Forget
    \/ Tick

Spec == Init /\ [][Next]_vars

-----------------------------------------------------------------------------
TypeOK ==
    /\ kind \in {"V5008", "V6800"}
    /\ caching \in BOOLEAN
    /\ running \in BOOLEAN
    /\ window \in Windows
    /\ stored \in Snapshots \cup {Lost}
    /\ entries \subseteq Changes
    /\ said \in [Changes -> 0 .. MaxAge]
    /\ emitCallCount \in 0 .. CleanupInterval - 1
    /\ announced \in [Sensors -> Seq(Changes)]
    /\ queries \in Nat
    /\ view \in [Sensors -> Tags \cup {NoTag}]
    /\ excused \subseteq Sensors
    /\ least \in [Changes -> Windows]

\* Where the adapter alone stores snapshots, who folds its events knows what
\* the cache knows: a swap in its two halves, a tag no longer listed, a restart
\* in between.  The exceptions are the sensors whose last change repeated one
\* of the window, and those the cache lost (rfid-unifier.ts:112-275).
ViewFollowsStore ==
    ~caching => \A s \in Sensors \ excused : view[s] = TagAt(stored, s)

\* No cleanup or restart lets a change be announced twice within the window.  A
\* reconfiguration can: the cleanup goes by the window of the moment, so a change is
\* repeated within a longer one, but only once twice the shortest window in force
\* since its announcement has passed (rfid-unifier.ts:332-360, 469-478).
AnnouncedOncePerWindow ==
    [][\A s \in Sensors : \A i \in DOMAIN announced'[s] :
          LET c == announced'[s][i]
          IN  said[c] >= window \/ said[c] > 2 * least[c]]_vars

\* rfid-unifier.ts:80 "Emit SUO_RFID_EVENT for any changes (ATTACHED/DETACHED)":
\* a handled snapshot that changes what is stored of a sensor is announced.
EveryChangeIsAnnounced ==
    [][running /\ stored # Lost /\ stored' # Lost =>
         \A s \in Sensors :
            TagAt(stored', s) # TagAt(stored, s) => announced'[s] # <<>>]_vars
=============================================================================
