-------------------------- MODULE CommandLifecycle --------------------------
(***************************************************************************)
(* What the command service promises, without timers, maps or handlers:    *)
(* a command is submitted, transmitted a bounded number of times, and      *)
(* closed once - by an answer of its device or by giving up.  A closed     *)
(* command is never transmitted again.                                     *)
(***************************************************************************)
EXTENDS Naturals

CONSTANTS
    Commands,      \* command identifiers
    MaxCopies,     \* how many handlers one submission may reach
    MaxRetries     \* transmissions a submission may add to the first one

VARIABLES
    phase,         \* "unknown", "open", "rejected" or "closed", per command
    accepted,      \* submissions taken, per command
    attempts       \* transmissions made, per command

vars == <<phase, accepted, attempts>>

Init ==
    /\ phase = [c \in Commands |-> "unknown"]
    /\ accepted = [c \in Commands |-> 0]
    /\ attempts = [c \in Commands |-> 0]

\* Every handler the submission reaches transmits it, or none can.
Submit(c) ==
    /\ phase[c] = "unknown"
    /\ \E k \in 1..MaxCopies :
         /\ accepted' = [accepted EXCEPT ![c] = @ + k]
         /\ \/ /\ phase' = [phase EXCEPT ![c] = "open"]
               /\ attempts' = [attempts EXCEPT ![c] = @ + k]
            \/ /\ phase' = [phase EXCEPT ![c] = "rejected"]
               /\ UNCHANGED attempts

Retry(c) ==
    /\ phase[c] \in {"open", "rejected"}
    /\ \/ /\ attempts[c] < accepted[c] + MaxRetries
          /\ attempts' = [attempts EXCEPT ![c] = @ + 1]
          /\ phase' = [phase EXCEPT ![c] = "open"]
       \/ /\ phase' = [phase EXCEPT ![c] = "rejected"]
          /\ UNCHANGED attempts
    /\ UNCHANGED accepted

\* One answer may close several commands when several handlers see it.
Close(S) ==
    /\ \A c \in S : phase[c] \in {"open", "rejected"}
    /\ phase' = [c \in Commands |-> IF c \in S THEN "closed" ELSE phase[c]]
    /\ UNCHANGED <<accepted, attempts>>

Next ==
    \/ \E c \in Commands : Submit(c) \/ Retry(c)
    \/ \E S \in SUBSET Commands : Close(S)

Spec == Init /\ [][Next]_vars
=============================================================================
