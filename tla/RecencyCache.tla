---------------------------- MODULE RecencyCache ----------------------------
(***************************************************************************)
(* What a bounded cache promises: it holds at most MaxSize entries, and an *)
(* entry that makes room for another is the one used longest ago.  The     *)
(* order of use is given by newer[k], the entries used since k was.        *)
(***************************************************************************)
EXTENDS Naturals, FiniteSets

CONSTANTS
    Keys,          \* what an entry can be stored under
    MaxSize        \* capacity

VARIABLES
    keys,          \* the entries held
    newer          \* newer[k]: the entries used after k was last used

vars == <<keys, newer>>

Init ==
    /\ keys = {}
    /\ newer = [k \in Keys |-> {}]

\* The use order once k is the latest of S and nothing else is remembered.
Latest(S, k) ==
    [a \in Keys |-> IF a \in S \ {k} THEN (newer[a] \cap S) \cup {k} ELSE {}]

\* The use order of what remains.
Remaining(S) == [a \in Keys |-> IF a \in S THEN newer[a] \cap S ELSE {}]

Use(k) ==
    /\ k \in keys
    /\ newer' = Latest(keys, k)
    /\ UNCHANGED keys

Insert(k) ==
    /\ k \notin keys
    /\ Cardinality(keys) < MaxSize
    /\ keys' = keys \cup {k}
    /\ newer' = Latest(keys', k)

\* Only the entry that all the others were used after may make room.
Replace(k, victim) ==
    /\ k \notin keys
    /\ Cardinality(keys) = MaxSize
    /\ victim \in keys
    /\ newer[victim] = keys \ {victim}
    /\ keys' = (keys \ {victim}) \cup {k}
    /\ newer' = Latest(keys', k)

Drop(S) ==
    /\ keys' = keys \ S
    /\ newer' = Remaining(keys')

Next ==
    \/ \E k \in Keys : Use(k) \/ Insert(k)
    \/ \E k, victim \in Keys : Replace(k, victim)
    \/ \E S \in SUBSET Keys : Drop(S)

Spec == Init /\ [][Next]_vars
=============================================================================
