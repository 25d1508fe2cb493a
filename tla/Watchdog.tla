------------------------------ MODULE Watchdog ------------------------------
(***************************************************************************)
(* The scheduler of the watchdog: a list of named tasks, and for every     *)
(* name the interval that runs it.                                         *)
(*                                                                         *)
(* The list may hold a name twice, the map of intervals cannot: scheduling *)
(* a name again lets go of the interval it had, which nothing can clear    *)
(* any more.  What the tasks do is left to the modules that extend this    *)
(* one; a task that fails is caught and logged.                            *)
(***************************************************************************)
EXTENDS Naturals, Sequences, FiniteSets, SequencesExt

CONSTANTS
    Defaults,      \* names of the tasks the watchdog comes with
    Names,         \* those and the names of tasks added to it
    ConfigNames,   \* names a configuration may mention, known or not
    MaxTasks,      \* bound on the length of the list
    NoTask         \* no interval

ASSUME WatchdogAssumption ==
    /\ Defaults \subseteq Names
    /\ IsFiniteSet(Names)
    /\ NoTask \notin [name : Names, own : BOOLEAN]
    /\ MaxTasks \in Nat

VARIABLES
    isRunning,     \* isRunning
    enabled,       \* config.enabled
    tasks,         \* the list
    taskIntervals, \* the task whose interval the map has, by name
    leaked,        \* tasks whose intervals run though the map lost them
    repeated       \* ghost: names added while the list had them

watchdog == <<isRunning, enabled, tasks, taskIntervals, leaked, repeated>>

\* A task of the list; what it runs is its own, or that of its name.
Task == [name : Names, enabled : BOOLEAN, own : BOOLEAN]

\* What an interval runs; enabled is not looked at.
Work == [name : Names, own : BOOLEAN]

WorkOf(t) == [name |-> t.name, own |-> t.own]

\* A configuration, and the tasks it turns off; off matters when the tasks are
\* made from it and not later.
Config == [enabled : BOOLEAN, off : SUBSET ConfigNames]

\* What runs from time to time.
Firing == leaked \cup {taskIntervals[n] : n \in {n \in Names : taskIntervals[n] # NoTask}}

Listed(n) == {i \in DOMAIN tasks : tasks[i].name = n}

-----------------------------------------------------------------------------
\* Mutation: a configured task that is not there is added.
TasksWithUnknown(c) ==
    SetToSeq({[name |-> n, enabled |-> n \notin c.off, own |-> FALSE] :
                n \in Defaults \cup c.off})

\* The default tasks, whatever was in the list; a name the configuration
\* mentions and the watchdog does not have is passed over.
InitialTasks(c) ==
    SetToSeq({[name |-> n, enabled |-> n \notin c.off, own |-> FALSE] : n \in Defaults})

\* setInterval for t: the map has this interval now, and forgets any other.
Schedule(t) ==
    /\ taskIntervals' = [taskIntervals EXCEPT ![t.name] = WorkOf(t)]
    /\ leaked' = leaked \cup ({taskIntervals[t.name]} \ {NoTask})

\* clearInterval and delete for one name.
Unschedule(n) ==
    /\ taskIntervals' = [taskIntervals EXCEPT ![n] = NoTask]
    /\ UNCHANGED leaked

AsScheduled == UNCHANGED <<taskIntervals, leaked>>

EnabledIn(list) == {i \in DOMAIN list : list[i].enabled}

\* No other enabled task of the list after i has its name.
IsLastIn(list, i) == \A j \in EnabledIn(list) : list[j].name = list[i].name => j <= i

\* Schedule every enabled task of the list, in its order, on an empty map.
ScheduleAll(list) ==
    LET last(n) == {i \in EnabledIn(list) : list[i].name = n /\ IsLastIn(list, i)}
    IN  /\ taskIntervals' = [n \in Names |->
              IF last(n) = {} THEN NoTask ELSE WorkOf(list[CHOOSE i \in last(n) : TRUE])]
        /\ leaked' = leaked \cup
              {WorkOf(list[i]) : i \in {i \in EnabledIn(list) : ~IsLastIn(list, i)}}

UnscheduleAll == [n \in Names |-> NoTask]

-----------------------------------------------------------------------------
InitWatchdog ==
    /\ isRunning = FALSE
    /\ enabled = TRUE
    /\ tasks = InitialTasks([enabled |-> TRUE, off |-> {}])
    /\ taskIntervals = UnscheduleAll
    /\ leaked = {}
    /\ repeated = {}

StartTasks ==
    /\ ~isRunning
    /\ enabled
    /\ isRunning' = TRUE
    /\ ScheduleAll(tasks)
    /\ UNCHANGED <<enabled, tasks, repeated>>

\* stop() clears what the map has.
StopTasks ==
    /\ isRunning
    /\ isRunning' = FALSE
    /\ taskIntervals' = UnscheduleAll
    /\ UNCHANGED <<enabled, tasks, leaked, repeated>>

\* Nothing looks whether the name is taken.
AddTask(t) ==
    /\ Len(tasks) < MaxTasks
    /\ IF isRunning /\ t.enabled THEN Schedule(t) ELSE AsScheduled
    /\ tasks' = Append(tasks, t)
    /\ repeated' = IF Listed(t.name) = {} THEN repeated ELSE repeated \cup {t.name}
    /\ UNCHANGED <<isRunning, enabled>>

\* The positions of S in the order of the list.
InOrderOf(S) ==
    {order \in SetToSeqs(S) : \A i, j \in DOMAIN order : i < j => order[i] < order[j]}

RemoveTask(n) ==
    /\ Unschedule(n)
    /\ \E order \in InOrderOf(DOMAIN tasks \ Listed(n)) :
         tasks' = [k \in DOMAIN order |-> tasks[order[k]]]
    /\ UNCHANGED <<isRunning, enabled, repeated>>

\* The first task of the name is meant.
First(n) == CHOOSE i \in Listed(n) : \A j \in Listed(n) : i <= j

\* Mutation: a task that is enabled already is scheduled once more.
EnablingArmsAgain(n) == TRUE

\* Only a name without an interval is scheduled when its task is enabled.
EnablingArms(n) == taskIntervals[n] = NoTask

SetTaskEnabled(n, on) ==
    /\ Listed(n) # {}
    /\ tasks' = [tasks EXCEPT ![First(n)].enabled = on]
    /\ CASE isRunning /\ on /\ EnablingArms(n) -> Schedule(tasks[First(n)])
         [] isRunning /\ ~on -> Unschedule(n)
         [] OTHER -> AsScheduled
    /\ UNCHANGED <<isRunning, enabled, repeated>>

\* The list is made anew: tasks that were added, or turned off, are forgotten.
UpdateConfig(c) ==
    /\ enabled' = c.enabled
    /\ tasks' = InitialTasks(c)
    /\ isRunning' = (isRunning /\ c.enabled)
    /\ CASE isRunning' -> ScheduleAll(tasks')
         [] isRunning /\ ~isRunning' ->
              taskIntervals' = UnscheduleAll /\ UNCHANGED leaked
         [] OTHER -> AsScheduled
    /\ UNCHANGED repeated

-----------------------------------------------------------------------------
(* A task runs when it is scheduled, and then with every interval.  What   *)
(* each operation runs at once:                                            *)

RunsAtStart(list) == {WorkOf(list[i]) : i \in EnabledIn(list)}

RunsWhenAdded(t) == IF isRunning /\ t.enabled THEN {WorkOf(t)} ELSE {}

RunsWhenSet(n, on) ==
    IF isRunning /\ on /\ EnablingArms(n) THEN {WorkOf(tasks[First(n)])} ELSE {}

RunsWhenUpdated(c) == IF isRunning /\ c.enabled THEN RunsAtStart(InitialTasks(c)) ELSE {}

-----------------------------------------------------------------------------
TypeOKWatchdog ==
    /\ isRunning \in BOOLEAN
    /\ enabled \in BOOLEAN
    /\ tasks \in Seq(Task)
    /\ taskIntervals \in [Names -> Work \cup {NoTask}]
    /\ leaked \subseteq Work
    /\ repeated \subseteq Names

\* Whatever was added, removed, enabled, reconfigured, stopped and started, a
\* task runs just when the list has it enabled and the watchdog runs, unless
\* its name was added twice (watchdog.ts:142-154, 371-421, 448-465).
TasksFireAsListed ==
    \A n \in Names \ repeated :
        {w \in Firing : w.name = n} =
            {WorkOf(tasks[i]) : i \in {i \in Listed(n) : isRunning /\ tasks[i].enabled}}
=============================================================================
