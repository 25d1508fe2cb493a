------------------------------- MODULE Custody -------------------------------
(***************************************************************************)
(* What a stage between the bus and the outside promises of the items it   *)
(* accepts: an item is in its custody, waiting or underway, until it is    *)
(* delivered or given up, and what has left custody never comes back.      *)
(*                                                                         *)
(* An item that was delivered or given up may still be underway, beside    *)
(* others, go back to the waiting ones with them, and be delivered again.  *)
(***************************************************************************)

CONSTANT
    Items          \* what can be accepted, each of them once

VARIABLES
    accepted,      \* items that arrived
    waiting,       \* items held back
    underway,      \* items on their way out
    delivered,     \* items that got out
    abandoned      \* items given up at some time

vars == <<accepted, waiting, underway, delivered, abandoned>>

Init ==
    /\ accepted = {}
    /\ waiting = {}
    /\ underway = {}
    /\ delivered = {}
    /\ abandoned = {}

\* The items of S arrive; of all that wait some set out and some are given up.
Take(S) ==
    /\ accepted' = accepted \cup S
    /\ \E begun \in SUBSET (waiting \cup S) :
         /\ underway' = underway \cup begun
         /\ \E gone \in SUBSET ((waiting \cup S) \ begun) :
              /\ abandoned' = abandoned \cup gone
              /\ waiting' = (waiting \cup S) \ (begun \cup gone)
    /\ UNCHANGED delivered

\* The items of S are not underway any more; those that do not wait again were
\* delivered or given up, now or before.
Release(S) ==
    /\ underway' = underway \ S
    /\ \E back \in SUBSET S :
         /\ waiting' = waiting \cup back
         /\ S \ back \subseteq delivered' \cup abandoned'
    /\ \E out \in SUBSET underway : delivered' = delivered \cup out
    /\ \E gone \in SUBSET underway : abandoned' = abandoned \cup gone
    /\ UNCHANGED accepted

Next ==
    \/ \E S \in SUBSET (Items \ accepted) : Take(S)
    \/ \E S \in SUBSET underway : Release(S)

Spec == Init /\ [][Next]_vars
=============================================================================
