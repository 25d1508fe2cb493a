------------------------ MODULE CommandServiceProofs ------------------------
(***************************************************************************)
(* Theorems of CommandService, for every set of commands, devices and      *)
(* types and every value of the bounds.                                    *)
(***************************************************************************)
EXTENDS CommandService, FiniteSetTheorems, TLAPS

\* A command that left pendingCommands was taken before and is not in it.
SettledIsGone ==
    \A c \in Commands : settledBy[c] # "none" => c \notin Pending /\ accepted[c] # 0

\* An identifier nobody requested was never published.
UnknownIsIdle ==
    \A c \in Commands : accepted[c] = 0 => published[c] = 0 /\ c \notin Pending

\* While a command is pending its publishes are accounted for one by one.
PendingAccounts ==
    \A c \in Commands :
        c \in Pending => published[c] <= accepted[c] + pendingCommands[c].retryCount

\* The inductive invariant.
IInv ==
    /\ TypeOK
    /\ HeldTimerIsLive
    /\ SettledIsGone
    /\ UnknownIsIdle
    /\ PendingAccounts
    /\ PublishBound

-----------------------------------------------------------------------------
\* The status of a pending command is a status object.
LEMMA PendingStatus ==
    ASSUME TypeOK, NEW c \in Commands
    PROVE  /\ c \in Pending <=> pendingCommands[c] \in Status
           /\ Sent(c) => c \in Pending
<1>1. pendingCommands[c] \in Status \cup {Absent}
  BY DEF TypeOK
<1>2. \A s \in Status : s.state # "absent"
  BY DEF Status
<1>3. Absent.state = "absent"
  BY DEF Absent
<1> QED
  BY <1>1, <1>2, <1>3 DEF Pending, Sent

LEMMA InitIInv == Init => IInv
<1> SUFFICES ASSUME Init PROVE IInv
  OBVIOUS
<1> USE CommandAssumption DEF Init
<1>1. TypeOK
  <2>1. pendingCommands \in [Commands -> Status \cup {Absent}]
    OBVIOUS
  <2>2. handlers \in 0..MaxHandlers
    OBVIOUS
  <2> QED
    BY <2>1, <2>2, Zenon DEF TypeOK
<1>2. HeldTimerIsLive
  BY DEF HeldTimerIsLive
<1>3. SettledIsGone
  BY DEF SettledIsGone
<1>4. UnknownIsIdle /\ PendingAccounts /\ PublishBound
  BY DEF UnknownIsIdle, PendingAccounts, PublishBound, Pending
<1> QED
  BY <1>1, <1>2, <1>3, <1>4 DEF IInv

-----------------------------------------------------------------------------
\* The variables keep their types.
LEMMA NextTypeOK == TypeOK /\ [Next]_vars => TypeOK'
<1> SUFFICES ASSUME TypeOK, [Next]_vars PROVE TypeOK'
  OBVIOUS
<1> USE CommandAssumption DEF TypeOK
<1>1. CASE Start
  BY <1>1 DEF Start
<1>2. CASE Stop
  BY <1>2 DEF Stop
<1>3. CASE RemoveAllListeners
  BY <1>3 DEF RemoveAllListeners
<1>4. ASSUME NEW m \in 0..MaxRetriesBound, UpdateConfig(m) PROVE TypeOK'
  BY <1>4 DEF UpdateConfig
<1>5. ASSUME NEW c \in Commands, NEW d \in Devices, NEW t \in CommandTypes,
             HandleCommandRequest(c, d, t)
      PROVE  TypeOK'
  <2> DEFINE s == [device |-> d, type |-> t, retryCount |-> 0,
                   state |-> IF t \in Buildable THEN "sent" ELSE "failed"]
             new == {<<c, n>> : n \in (published[c] + 1)..(published[c] + handlers)}
  <2>1. s \in Status
    BY DEF Status
  <2>2. pendingCommands' \in [Commands -> Status \cup {Absent}]
    BY <1>5, <2>1 DEF HandleCommandRequest
  <2>3. before' \subseteq Commands \X Commands
    BY <1>5 DEF HandleCommandRequest, Pending
  <2>4. new \subseteq Commands \X (Nat \ {0})
    OBVIOUS
  <2>5. armed' \subseteq Commands \X (Nat \ {0})
    BY <1>5, <2>4 DEF HandleCommandRequest
  <2>6. /\ accepted' \in [Commands -> Nat]
        /\ published' \in [Commands -> Nat]
        /\ commandTimeouts' \in [Commands -> Nat]
    BY <1>5 DEF HandleCommandRequest
  <2> QED
    BY <1>5, <2>2, <2>3, <2>5, <2>6 DEF HandleCommandRequest
<1>6. ASSUME NEW d \in Devices, NEW t \in CommandTypes, HandleCommandResult(d, t)
      PROVE  TypeOK'
  BY <1>6 DEF HandleCommandResult, Forget
<1>7. ASSUME NEW timer \in armed, HandleCommandTimeout(timer[1], timer[2])
      PROVE  TypeOK'
  <2> DEFINE c == timer[1]  n == timer[2]
  <2>0. c \in Commands /\ n \in Nat \ {0}
    OBVIOUS
  <2>1. CASE TimeoutOfSettled(c, n)
    BY <2>1 DEF TimeoutOfSettled
  <2>2. CASE TimeoutRetry(c, n)
    <3>1. pendingCommands[c] \in Status
      BY <2>0, <2>2, PendingStatus DEF TimeoutRetry, MayRetry, Rearm, DropHandle
    <3>2. \A st \in {"sent", "failed"} :
            [pendingCommands EXCEPT ![c].retryCount = @ + 1, ![c].state = st]
               \in [Commands -> Status \cup {Absent}]
      <4> TAKE st \in {"sent", "failed"}
      <4> DEFINE s == [pendingCommands[c] EXCEPT !.retryCount = @ + 1, !.state = st]
      <4>1. pendingCommands[c].retryCount + 1 \in 0..MaxRetriesBound
        BY <3>1, <2>2 DEF Status, TimeoutRetry, MayRetry
      <4>2. s \in Status
        BY <3>1, <4>1 DEF Status
      <4> QED
        BY <4>2, <2>0
    <3>3. pendingCommands' \in [Commands -> Status \cup {Absent}]
      BY <3>2, <2>2 DEF TimeoutRetry, MayRetry, Rearm, DropHandle
    <3> QED
      BY <3>3, <2>0, <2>2 DEF TimeoutRetry, MayRetry, Rearm, DropHandle
  <2>3. CASE TimeoutGiveUp(c, n)
    BY <2>0, <2>3 DEF TimeoutGiveUp, DropHandle, Forget
  <2> QED
    BY <1>7, <2>1, <2>2, <2>3 DEF HandleCommandTimeout
<1>8. CASE UNCHANGED vars
  BY <1>8 DEF vars
<1> QED
  BY <1>1, <1>2, <1>3, <1>4, <1>5, <1>6, <1>7, <1>8 DEF Next, Traffic

-----------------------------------------------------------------------------
\* Commands leave pendingCommands only through Forget, and only those of S.
LEMMA ForgetPending ==
    ASSUME TypeOK, NEW S \in SUBSET Commands, NEW by, Forget(S, by)
    PROVE  /\ Pending' = Pending \ S
           /\ \A c \in Commands \ S : pendingCommands'[c] = pendingCommands[c]
           /\ \A c \in S : settledBy'[c] = by
           /\ \A c \in Commands \ S : settledBy'[c] = settledBy[c]
  BY DEF TypeOK, Forget, Pending

\* The rest of the invariant is kept by every step.
LEMMA NextIInv == IInv /\ [Next]_vars => IInv'
<1> SUFFICES ASSUME IInv, [Next]_vars PROVE IInv'
  OBVIOUS
<1>0. TypeOK /\ TypeOK'
  BY NextTypeOK DEF IInv
<1> DEFINE Rest == /\ HeldTimerIsLive /\ SettledIsGone /\ UnknownIsIdle
                   /\ PendingAccounts /\ PublishBound
<1> SUFFICES Rest'
  BY <1>0 DEF IInv
<1> USE CommandAssumption
<1>1. CASE Start \/ RemoveAllListeners \/ (\E m \in 0..MaxRetriesBound : UpdateConfig(m))
           \/ UNCHANGED vars
  <2>1. UNCHANGED <<pendingCommands, commandTimeouts, armed, accepted, published, settledBy>>
    BY <1>1 DEF Start, RemoveAllListeners, UpdateConfig, vars
  <2> QED
    BY <2>1 DEF IInv, HeldTimerIsLive, SettledIsGone, UnknownIsIdle, PendingAccounts,
                PublishBound, Pending
<1>2. CASE Stop
  <2>1. HeldTimerIsLive'
    BY <1>2 DEF Stop, HeldTimerIsLive
  <2>2. (SettledIsGone /\ UnknownIsIdle /\ PendingAccounts /\ PublishBound)'
    BY <1>2 DEF Stop, IInv, SettledIsGone, UnknownIsIdle, PendingAccounts, PublishBound,
                Pending
  <2> QED
    BY <2>1, <2>2
<1>3. ASSUME NEW c \in Commands, NEW d \in Devices, NEW t \in CommandTypes,
             HandleCommandRequest(c, d, t)
      PROVE  Rest'
  <2> DEFINE s == [device |-> d, type |-> t, retryCount |-> 0,
                   state |-> IF t \in Buildable THEN "sent" ELSE "failed"]
             new == {<<c, n>> : n \in (published[c] + 1)..(published[c] + handlers)}
  <2>1. s # Absent /\ s.retryCount = 0
    BY <1>3 DEF Absent
  <2>2. /\ pendingCommands' = [pendingCommands EXCEPT ![c] = s]
        /\ accepted' = [accepted EXCEPT ![c] = @ + handlers]
        /\ settledBy' = settledBy
        /\ handlers \in Nat \ {0}
    BY <1>3, <1>0 DEF HandleCommandRequest, TypeOK
  <2>3. Pending' = Pending \cup {c}
    BY <1>0, <2>1, <2>2 DEF Pending, TypeOK
  <2>4. accepted[c] = 0
    BY <1>3 DEF HandleCommandRequest, Requestable
  <2>5. published[c] <= accepted[c]
    BY <2>4, <1>0 DEF IInv, UnknownIsIdle, TypeOK
  <2>6. /\ published'[c] <= accepted'[c]
        /\ accepted'[c] # 0
        /\ \A b \in Commands \ {c} : /\ published'[b] = published[b]
                                     /\ accepted'[b] = accepted[b]
                                     /\ pendingCommands'[b] = pendingCommands[b]
                                     /\ commandTimeouts'[b] = commandTimeouts[b]
    BY <1>0, <1>3, <2>2, <2>5 DEF HandleCommandRequest, TypeOK
  <2>7. HeldTimerIsLive'
    <3>1. armed \subseteq armed'
      BY <1>3 DEF HandleCommandRequest
    <3>2. CASE t \in Buildable
      <4>1. /\ commandTimeouts'[c] = published[c] + handlers
            /\ armed' = armed \cup new
        BY <1>0, <1>3, <3>2 DEF HandleCommandRequest, TypeOK
      <4>2. published[c] + handlers \in (published[c] + 1)..(published[c] + handlers)
        BY <1>0, <2>2 DEF TypeOK
      <4>3. <<c, commandTimeouts'[c]>> \in armed'
        BY <4>1, <4>2
      <4> QED
        BY <2>3, <2>6, <3>1, <4>3 DEF IInv, HeldTimerIsLive
    <3>3. CASE t \notin Buildable
      <4>1. commandTimeouts' = commandTimeouts
        BY <1>3, <3>3 DEF HandleCommandRequest
      <4> QED
        BY <2>3, <3>1, <4>1 DEF IInv, HeldTimerIsLive
    <3> QED
      BY <3>2, <3>3
  <2>8. SettledIsGone'
    BY <2>2, <2>3, <2>4, <2>6 DEF IInv, SettledIsGone
  <2>9. UnknownIsIdle'
    BY <2>3, <2>6 DEF IInv, UnknownIsIdle
  <2>10. PendingAccounts'
    <3>1. pendingCommands'[c].retryCount = 0
      BY <1>0, <2>1, <2>2 DEF TypeOK
    <3> QED
      BY <1>0, <2>3, <2>6, <3>1 DEF IInv, PendingAccounts, TypeOK
  <2>11. PublishBound'
    BY <1>0, <2>6 DEF IInv, PublishBound, TypeOK
  <2> QED
    BY <2>7, <2>8, <2>9, <2>10, <2>11
<1>4. ASSUME NEW d \in Devices, NEW t \in CommandTypes, HandleCommandResult(d, t)
      PROVE  Rest'
  <2> DEFINE S == ResultTargets(d)
  <2>1. S \subseteq Pending /\ S \in SUBSET Commands
    BY <1>0, PendingStatus DEF ResultTargets
  <2>2. Forget(S, t)
    BY <1>4 DEF HandleCommandResult
  <2>3. /\ Pending' = Pending \ S
        /\ \A c \in Commands \ S : pendingCommands'[c] = pendingCommands[c]
        /\ \A c \in Commands \ S : settledBy'[c] = settledBy[c]
    BY <1>0, <2>1, <2>2, ForgetPending
  <2>4. accepted' = accepted /\ published' = published
    BY <1>4 DEF HandleCommandResult
  <2>5. HeldTimerIsLive'
    <3> SUFFICES ASSUME NEW c \in Commands, commandTimeouts'[c] # 0
                 PROVE  <<c, commandTimeouts'[c]>> \in armed' /\ c \in Pending'
      BY DEF HeldTimerIsLive
    <3>1. c \notin S /\ commandTimeouts'[c] = commandTimeouts[c]
      BY <1>4 DEF HandleCommandResult
    <3>2. <<c, commandTimeouts[c]>> \in armed /\ c \in Pending
      BY <3>1 DEF IInv, HeldTimerIsLive
    <3>3. armed' = armed \ {<<b, commandTimeouts[b]>> : b \in S}
      BY <1>4 DEF HandleCommandResult
    <3> QED
      BY <2>3, <3>1, <3>2, <3>3
  <2>6. SettledIsGone'
    BY <2>1, <2>3, <2>4 DEF IInv, SettledIsGone, UnknownIsIdle
  <2>7. (UnknownIsIdle /\ PendingAccounts /\ PublishBound)'
    BY <2>1, <2>3, <2>4 DEF IInv, UnknownIsIdle, PendingAccounts, PublishBound
  <2> QED
    BY <2>5, <2>6, <2>7
<1>5. ASSUME NEW timer \in armed, HandleCommandTimeout(timer[1], timer[2])
      PROVE  Rest'
  <2> DEFINE c == timer[1]  n == timer[2]
  <2>0. c \in Commands /\ n \in Nat \ {0}
    BY <1>0 DEF TypeOK
  <2>1. CASE TimeoutOfSettled(c, n)
    <3>1. c \notin Pending /\ commandTimeouts[c] = 0
      BY <2>0, <2>1 DEF TimeoutOfSettled, IInv, HeldTimerIsLive
    <3>2. HeldTimerIsLive'
      BY <2>1, <3>1 DEF TimeoutOfSettled, IInv, HeldTimerIsLive, Pending
    <3>3. (SettledIsGone /\ UnknownIsIdle /\ PendingAccounts /\ PublishBound)'
      BY <2>1 DEF TimeoutOfSettled, IInv, SettledIsGone, UnknownIsIdle, PendingAccounts,
                  PublishBound, Pending
    <3> QED
      BY <3>2, <3>3
  <2>2. CASE TimeoutRetry(c, n)
    <3>1. pendingCommands[c] \in Status /\ c \in Pending
      BY <2>0, <2>2, <1>0, PendingStatus DEF TimeoutRetry, MayRetry, Rearm, DropHandle
    <3>2. /\ pendingCommands[c].retryCount \in 0..MaxRetriesBound
          /\ pendingCommands[c].retryCount < maxRetries
          /\ maxRetries <= MaxRetriesBound
      BY <1>0, <2>2, <3>1 DEF TimeoutRetry, MayRetry, Rearm, DropHandle, Status, TypeOK
    <3>3. /\ \E st \in {"sent", "failed"} :
               pendingCommands' = [pendingCommands EXCEPT
                                     ![c].retryCount = @ + 1, ![c].state = st]
          /\ published' = published \/ published' = [published EXCEPT ![c] = @ + 1]
          /\ commandTimeouts' = [commandTimeouts EXCEPT ![c] = 0]
          /\ armed \ {<<c, n>>} \subseteq armed'
          /\ accepted' = accepted /\ settledBy' = settledBy
      BY <2>2 DEF TimeoutRetry, MayRetry, Rearm, DropHandle
    <3>4. /\ pendingCommands'[c].retryCount = pendingCommands[c].retryCount + 1
          /\ pendingCommands'[c] # Absent
          /\ \A b \in Commands \ {c} : pendingCommands'[b] = pendingCommands[b]
      <4>1. PICK st \in {"sent", "failed"} :
               pendingCommands' = [pendingCommands EXCEPT
                                     ![c].retryCount = @ + 1, ![c].state = st]
        BY <3>3
      <4>2. /\ pendingCommands'[c] =
                 [pendingCommands[c] EXCEPT !.retryCount = @ + 1, !.state = st]
            /\ \A b \in Commands \ {c} : pendingCommands'[b] = pendingCommands[b]
        BY <1>0, <2>0, <4>1 DEF TypeOK
      <4>3. /\ pendingCommands'[c].retryCount = pendingCommands[c].retryCount + 1
            /\ pendingCommands'[c].state = st
        BY <3>1, <4>2 DEF Status
      <4>4. st # "absent" /\ Absent.state = "absent"
        BY DEF Absent
      <4> QED
        BY <4>2, <4>3, <4>4
    <3>5. Pending' = Pending
      BY <2>0, <3>1, <3>4 DEF Pending
    <3>6. HeldTimerIsLive'
      BY <1>0, <2>0, <3>3, <3>5 DEF IInv, HeldTimerIsLive, TypeOK
    <3>7. /\ published'[c] <= published[c] + 1
          /\ \A b \in Commands \ {c} : published'[b] = published[b]
      BY <1>0, <2>0, <3>3 DEF TypeOK
    <3>8. PendingAccounts'
      BY <1>0, <2>0, <3>1, <3>2, <3>3, <3>4, <3>5, <3>7 DEF IInv, PendingAccounts, TypeOK
    <3>9. PublishBound'
      BY <1>0, <2>0, <3>1, <3>2, <3>3, <3>7 DEF IInv, PendingAccounts, PublishBound, TypeOK
    <3>10. (SettledIsGone /\ UnknownIsIdle)'
      BY <2>0, <3>1, <3>3, <3>5, <3>7 DEF IInv, SettledIsGone, UnknownIsIdle
    <3> QED
      BY <3>6, <3>8, <3>9, <3>10
  <2>3. CASE TimeoutGiveUp(c, n)
    <3>1. c \in Pending /\ Forget({c}, "timeout")
      BY <2>3 DEF TimeoutGiveUp, DropHandle
    <3>2. /\ Pending' = Pending \ {c}
          /\ \A b \in Commands \ {c} : pendingCommands'[b] = pendingCommands[b]
          /\ \A b \in Commands \ {c} : settledBy'[b] = settledBy[b]
      <4>1. {c} \in SUBSET Commands
        BY <2>0
      <4> QED
        BY <1>0, <3>1, <4>1, ForgetPending
    <3>3. accepted' = accepted /\ published' = published
      BY <2>3 DEF TimeoutGiveUp, DropHandle
    <3>4. HeldTimerIsLive'
      BY <1>0, <2>0, <2>3, <3>2 DEF TimeoutGiveUp, DropHandle, IInv, HeldTimerIsLive, TypeOK
    <3>5. (SettledIsGone /\ UnknownIsIdle /\ PendingAccounts /\ PublishBound)'
      BY <3>1, <3>2, <3>3 DEF IInv, SettledIsGone, UnknownIsIdle, PendingAccounts,
                              PublishBound
    <3> QED
      BY <3>4, <3>5
  <2> QED
    BY <1>5, <2>1, <2>2, <2>3 DEF HandleCommandTimeout
<1> QED
  BY <1>1, <1>2, <1>3, <1>4, <1>5 DEF Next, Traffic

-----------------------------------------------------------------------------
LEMMA Invariance == Spec => []IInv
<1>1. Init => IInv
  BY InitIInv
<1>2. IInv /\ [Next]_vars => IInv'
  BY NextIInv
<1> QED
  BY <1>1, <1>2, PTL DEF Spec

\* Every variable keeps its type, for every set of commands and every bound.
THEOREM TypeCorrect == Spec => []TypeOK
<1>1. IInv => TypeOK
  BY DEF IInv
<1> QED
  BY <1>1, Invariance, PTL

\* The device sees a command once per accepting handler run and at most
\* MaxRetriesBound times more, whatever timers, results and restarts do.
THEOREM PublishesAreBounded == Spec => []PublishBound
<1>1. IInv => PublishBound
  BY DEF IInv
<1> QED
  BY <1>1, Invariance, PTL

\* What commandTimeouts holds is always a timer still running for a pending
\* command.
THEOREM HeldTimersAreLive == Spec => []HeldTimerIsLive
<1>1. IInv => HeldTimerIsLive
  BY DEF IInv
<1> QED
  BY <1>1, Invariance, PTL

-----------------------------------------------------------------------------
LEMMA StepSettledIsFinal ==
    ASSUME IInv, [Next]_vars, NEW c \in Commands, settledBy[c] # "none"
    PROVE  /\ published'[c] = published[c]
           /\ c \notin Pending'
           /\ settledBy'[c] = settledBy[c]
<1>0. TypeOK /\ c \notin Pending /\ accepted[c] # 0
  BY DEF IInv, SettledIsGone
<1>1. CASE \/ Start \/ Stop \/ RemoveAllListeners \/ UNCHANGED vars
           \/ \E m \in 0..MaxRetriesBound : UpdateConfig(m)
  BY <1>0, <1>1 DEF Start, Stop, RemoveAllListeners, UpdateConfig, vars, Pending
<1>2. ASSUME NEW b \in Commands, NEW d \in Devices, NEW t \in CommandTypes,
             HandleCommandRequest(b, d, t)
      PROVE  /\ published'[c] = published[c]
             /\ c \notin Pending'
             /\ settledBy'[c] = settledBy[c]
  <2>1. b # c
    BY <1>0, <1>2 DEF HandleCommandRequest, Requestable
  <2> QED
    BY <1>0, <1>2, <2>1 DEF HandleCommandRequest, TypeOK, Pending
<1>3. ASSUME NEW S \in SUBSET Pending, NEW by, Forget(S, by), published' = published
      PROVE  /\ published'[c] = published[c]
             /\ c \notin Pending'
             /\ settledBy'[c] = settledBy[c]
  <2>1. S \in SUBSET Commands /\ c \notin S
    BY <1>0 DEF Pending
  <2> QED
    BY <1>0, <1>3, <2>1, ForgetPending
<1>4. ASSUME NEW d \in Devices, NEW t \in CommandTypes, HandleCommandResult(d, t)
      PROVE  /\ published'[c] = published[c]
             /\ c \notin Pending'
             /\ settledBy'[c] = settledBy[c]
  <2>1. ResultTargets(d) \in SUBSET Pending
    BY <1>0, PendingStatus DEF ResultTargets
  <2> QED
    BY <1>3, <1>4, <2>1 DEF HandleCommandResult
<1>5. ASSUME NEW timer \in armed, HandleCommandTimeout(timer[1], timer[2])
      PROVE  /\ published'[c] = published[c]
             /\ c \notin Pending'
             /\ settledBy'[c] = settledBy[c]
  <2> DEFINE b == timer[1]  n == timer[2]
  <2>0. b \in Commands
    BY <1>0 DEF TypeOK
  <2>1. CASE TimeoutOfSettled(b, n)
    BY <1>0, <2>1 DEF TimeoutOfSettled, Pending
  <2>2. CASE TimeoutRetry(b, n)
    <3>1. b # c
      BY <1>0, <2>2 DEF TimeoutRetry, MayRetry, Rearm, DropHandle
    <3>2. pendingCommands'[c] = pendingCommands[c] /\ published'[c] = published[c]
      BY <1>0, <2>0, <2>2, <3>1 DEF TimeoutRetry, MayRetry, Rearm, DropHandle, TypeOK
    <3> QED
      BY <1>0, <2>2, <3>2 DEF TimeoutRetry, MayRetry, Rearm, DropHandle, Pending
  <2>3. CASE TimeoutGiveUp(b, n)
    <3>1. {b} \in SUBSET Pending
      BY <2>3 DEF TimeoutGiveUp, DropHandle
    <3> QED
      BY <1>3, <2>3, <3>1 DEF TimeoutGiveUp, DropHandle
  <2> QED
    BY <1>5, <2>1, <2>2, <2>3 DEF HandleCommandTimeout
<1> QED
  BY <1>1, <1>2, <1>4, <1>5 DEF Next, Traffic

\* A command that was answered or given up is never published again, by none
\* of the timers it left behind, and stays settled.
THEOREM SettledStaysSettled == Spec => SettledIsFinal
<1>1. IInv /\ [Next]_vars =>
        [\A c \in Commands : settledBy[c] # "none" =>
           /\ published'[c] = published[c]
           /\ c \notin Pending'
           /\ settledBy'[c] = settledBy[c]]_vars
  BY StepSettledIsFinal
<1> QED
  BY <1>1, Invariance, PTL DEF Spec, SettledIsFinal

-----------------------------------------------------------------------------
LEMMA StepTimerNeverLost ==
    ASSUME IInv, [Next]_vars, NEW c \in Commands,
           Sent(c)', TimersOf(c)' = {}, running' = running
    PROVE  Sent(c) /\ TimersOf(c) = {}
<1>0. TypeOK /\ TypeOK'
  BY NextTypeOK DEF IInv
\* A step that leaves the status and the timers of c alone is harmless.
<1>1. ASSUME pendingCommands'[c] = pendingCommands[c],
             \A timer \in armed : timer[1] = c => timer \in armed'
      PROVE  Sent(c) /\ TimersOf(c) = {}
  BY <1>1 DEF Sent, TimersOf
<1>2. pendingCommands'[c].state = "sent" /\ pendingCommands'[c] # Absent
  BY DEF Sent, Absent
<1>3. CASE \/ Start \/ Stop \/ RemoveAllListeners \/ UNCHANGED vars
           \/ \E m \in 0..MaxRetriesBound : UpdateConfig(m)
  BY <1>1, <1>3, <1>0 DEF Start, Stop, RemoveAllListeners, UpdateConfig, vars, TypeOK
<1>4. ASSUME NEW b \in Commands, NEW d \in Devices, NEW t \in CommandTypes,
             HandleCommandRequest(b, d, t)
      PROVE  Sent(c) /\ TimersOf(c) = {}
  <2>1. CASE b = c
    <3>1. t \in Buildable
      BY <1>0, <1>2, <1>4, <2>1 DEF HandleCommandRequest, TypeOK
    <3>2. armed' = armed \cup
            {<<c, n>> : n \in (published[c] + 1)..(published[c] + handlers)}
      BY <1>4, <2>1, <3>1 DEF HandleCommandRequest
    <3>3. published[c] + 1 \in (published[c] + 1)..(published[c] + handlers)
      BY <1>0, <1>4 DEF HandleCommandRequest, TypeOK
    <3>4. <<c, published[c] + 1>> \in armed'
      BY <3>2, <3>3
    <3> QED
      BY <3>4 DEF TimersOf
  <2>2. CASE b # c
    <3>1. pendingCommands'[c] = pendingCommands[c] /\ armed \subseteq armed'
      BY <1>0, <1>4, <2>2 DEF HandleCommandRequest, TypeOK
    <3> QED
      BY <1>1, <3>1
  <2> QED
    BY <2>1, <2>2
<1>5. ASSUME NEW d \in Devices, NEW t \in CommandTypes, HandleCommandResult(d, t)
      PROVE  Sent(c) /\ TimersOf(c) = {}
  <2> DEFINE S == ResultTargets(d)
  <2>1. /\ pendingCommands' = [b \in Commands |-> IF b \in S THEN Absent ELSE pendingCommands[b]]
        /\ armed' = armed \ {<<b, commandTimeouts[b]>> : b \in S}
    BY <1>5 DEF HandleCommandResult, Forget
  <2>2. c \notin S /\ pendingCommands'[c] = pendingCommands[c]
    BY <1>2, <2>1
  <2>3. \A timer \in armed : timer[1] = c => timer \in armed'
    BY <2>1, <2>2
  <2> QED
    BY <1>1, <2>2, <2>3
<1>6. ASSUME NEW timer \in armed, HandleCommandTimeout(timer[1], timer[2])
      PROVE  Sent(c) /\ TimersOf(c) = {}
  <2> DEFINE b == timer[1]  n == timer[2]
  <2>0. b \in Commands
    BY <1>0 DEF TypeOK
  <2>1. CASE TimeoutOfSettled(b, n)
    <3>1. pendingCommands'[c] = pendingCommands[c] /\ armed' = armed \ {<<b, n>>}
      BY <2>1 DEF TimeoutOfSettled
    <3>2. b # c
      BY <1>2, <2>1, <3>1 DEF TimeoutOfSettled, Pending
    <3> QED
      BY <1>1, <3>1, <3>2
  <2>2. CASE TimeoutRetry(b, n)
    <3>1. CASE b = c
      <4>1. pendingCommands[c].type \in Buildable
        <5>1. pendingCommands[c] \in Status
          BY <1>0, <2>2, <3>1, PendingStatus DEF TimeoutRetry, MayRetry, Rearm, DropHandle
        <5>2. CASE pendingCommands[c].type \notin Buildable
          <6>1. pendingCommands' = [pendingCommands EXCEPT
                   ![c].retryCount = @ + 1, ![c].state = "failed"]
            BY <2>2, <3>1, <5>2 DEF TimeoutRetry, MayRetry, Rearm, DropHandle
          <6>2. pendingCommands'[c].state = "failed"
            BY <1>0, <5>1, <6>1 DEF TypeOK, Status
          <6> QED
            BY <1>2, <6>2
        <5> QED
          BY <5>2
      <4>2. <<c, published[c] + 1>> \in armed'
        BY <2>2, <3>1, <4>1 DEF TimeoutRetry, MayRetry, Rearm, DropHandle
      <4> QED
        BY <4>2 DEF TimersOf
    <3>2. CASE b # c
      <4>1. pendingCommands'[c] = pendingCommands[c] /\ armed \ {<<b, n>>} \subseteq armed'
        BY <1>0, <2>2, <3>2 DEF TimeoutRetry, MayRetry, Rearm, DropHandle, TypeOK
      <4> QED
        BY <1>1, <3>2, <4>1
    <3> QED
      BY <3>1, <3>2
  <2>3. CASE TimeoutGiveUp(b, n)
    <3>1. /\ pendingCommands' = [a \in Commands |->
                                   IF a \in {b} THEN Absent ELSE pendingCommands[a]]
          /\ armed' = armed \ {<<b, n>>}
      BY <2>3 DEF TimeoutGiveUp, DropHandle, Forget
    <3>2. b # c /\ pendingCommands'[c] = pendingCommands[c]
      BY <1>2, <3>1
    <3> QED
      BY <1>1, <3>1, <3>2
  <2> QED
    BY <1>6, <2>1, <2>2, <2>3 DEF HandleCommandTimeout
<1> QED
  BY <1>3, <1>4, <1>5, <1>6 DEF Next, Traffic

\* Only stop() can leave a sent command without a timer.
THEOREM TimersAreKept == Spec => TimerNeverLost
<1>1. IInv /\ [Next]_vars =>
        [\A c \in Commands :
           (Sent(c)' /\ TimersOf(c)' = {})
             => (Sent(c) /\ TimersOf(c) = {}) \/ running' # running]_vars
  BY StepTimerNeverLost
<1> QED
  BY <1>1, Invariance, PTL DEF Spec, TimerNeverLost

-----------------------------------------------------------------------------
(* Counting timers.                                                        *)

\* The timers of a command are counted by the handler runs that took it.
Counted(c) ==
    /\ IsFiniteSet(TimersOf(c))
    /\ Cardinality(TimersOf(c)) <= accepted[c]

\* The timers that k publishes of c set are no more than k.
LEMMA NewTimersCount ==
    ASSUME NEW c, NEW n \in Nat, NEW k \in Nat,
           NEW T, T = {<<c, i>> : i \in (n + 1)..(n + k)}
    PROVE  IsFiniteSet(T) /\ Cardinality(T) <= k
<1> DEFINE I == (n + 1)..(n + k)
           f == [i \in I |-> <<c, i>>]
<1>1. IsFiniteSet(I)
  BY FS_Interval
<1>2. Cardinality(I) = IF n + 1 > n + k THEN 0 ELSE (n + k) - (n + 1) + 1
  BY FS_Interval
<1>3. Cardinality(I) = k
  BY <1>2
<1>4. f \in Surjection(I, T)
  BY DEF Surjection
<1> HIDE DEF I, f
<1>5. IsFiniteSet(T) /\ Cardinality(T) <= Cardinality(I)
  BY <1>1, <1>4, FS_Surjection
<1> QED
  BY <1>3, <1>5

\* One timer for another, or none for some, does not raise the count.
LEMMA FewerTimers ==
    ASSUME NEW S, IsFiniteSet(S), NEW T \in SUBSET S
    PROVE  IsFiniteSet(T) /\ Cardinality(T) <= Cardinality(S) /\ Cardinality(T) \in Nat
  BY FS_Subset, FS_CardinalityType

LEMMA TimerReplaced ==
    ASSUME NEW S, IsFiniteSet(S), NEW x \in S, NEW y
    PROVE  /\ IsFiniteSet((S \ {x}) \cup {y})
           /\ Cardinality((S \ {x}) \cup {y}) <= Cardinality(S)
<1> DEFINE R == S \ {x}
<1>1. IsFiniteSet(R) /\ Cardinality(R) = Cardinality(S) - 1
  BY FS_RemoveElement
<1>2. Cardinality(S) \in Nat /\ Cardinality(R) \in Nat
  BY <1>1, FS_CardinalityType
<1> HIDE DEF R
<1>3. /\ IsFiniteSet(R \cup {y})
      /\ Cardinality(R \cup {y}) = IF y \in R THEN Cardinality(R) ELSE Cardinality(R) + 1
  BY <1>1, FS_AddElement
<1>4. Cardinality(R \cup {y}) <= Cardinality(S)
  BY <1>1, <1>2, <1>3
<1> QED
  BY <1>3, <1>4 DEF R

LEMMA InitCounted == Init => \A c \in Commands : Counted(c)
<1> SUFFICES ASSUME Init, NEW c \in Commands PROVE Counted(c)
  OBVIOUS
<1>1. TimersOf(c) = {} /\ accepted[c] = 0
  BY DEF Init, TimersOf
<1> QED
  BY <1>1, FS_EmptySet DEF Counted

LEMMA NextCounted ==
    ASSUME TypeOK, TypeOK', [Next]_vars, NEW c \in Commands, Counted(c)
    PROVE  Counted(c)'
<1>0. /\ accepted[c] \in Nat /\ published[c] \in Nat /\ handlers \in Nat
      /\ IsFiniteSet(TimersOf(c)) /\ Cardinality(TimersOf(c)) <= accepted[c]
      /\ Cardinality(TimersOf(c)) \in Nat
  BY FS_CardinalityType, CommandAssumption DEF TypeOK, Counted
\* A step that sets no timer of c.
<1>1. ASSUME TimersOf(c)' \subseteq TimersOf(c), accepted'[c] = accepted[c]
      PROVE  Counted(c)'
  <2>1. /\ IsFiniteSet(TimersOf(c)') /\ Cardinality(TimersOf(c)') <= Cardinality(TimersOf(c))
        /\ Cardinality(TimersOf(c)') \in Nat
    BY <1>0, <1>1, FewerTimers
  <2>2. Cardinality(TimersOf(c)') <= accepted'[c]
    BY <1>0, <1>1, <2>1
  <2> QED
    BY <2>1, <2>2 DEF Counted
<1>2. CASE \/ Start \/ Stop \/ RemoveAllListeners \/ UNCHANGED vars
           \/ \E m \in 0..MaxRetriesBound : UpdateConfig(m)
  <2>1. armed' \subseteq armed /\ accepted' = accepted
    BY <1>2 DEF Start, Stop, RemoveAllListeners, UpdateConfig, vars
  <2> QED
    BY <1>1, <2>1 DEF TimersOf
<1>3. ASSUME NEW b \in Commands, NEW d \in Devices, NEW t \in CommandTypes,
             HandleCommandRequest(b, d, t)
      PROVE  Counted(c)'
  <2> DEFINE new == {<<b, n>> : n \in (published[b] + 1)..(published[b] + handlers)}
  <2>0. /\ armed' = armed \/ armed' = armed \cup new
        /\ accepted' = [accepted EXCEPT ![b] = @ + handlers]
    BY <1>3 DEF HandleCommandRequest
  <2>1. CASE b # c
    <3>1. accepted'[c] = accepted[c]
      BY <2>0, <2>1 DEF TypeOK
    <3>2. \A timer \in new : timer[1] = b
      OBVIOUS
    <3>3. TimersOf(c)' \subseteq TimersOf(c)
      BY <2>0, <2>1, <3>2 DEF TimersOf
    <3> QED
      BY <1>1, <3>1, <3>3
  <2>2. CASE b = c
    <3>1. accepted[c] = 0 /\ accepted'[c] = handlers
      BY <1>3, <2>0, <2>2 DEF HandleCommandRequest, Requestable, TypeOK
    <3>2. TimersOf(c) = {}
      BY <1>0, <3>1, FS_EmptySet
    <3>3. TimersOf(c)' \subseteq new
      BY <2>0, <3>2 DEF TimersOf
    <3>4. new = {<<c, n>> : n \in (published[c] + 1)..(published[c] + handlers)}
      BY <2>2
    <3> HIDE DEF new
    <3>5. IsFiniteSet(new) /\ Cardinality(new) <= handlers
      BY <1>0, <3>4, NewTimersCount
    <3>6. /\ IsFiniteSet(TimersOf(c)') /\ Cardinality(TimersOf(c)') <= Cardinality(new)
          /\ Cardinality(TimersOf(c)') \in Nat /\ Cardinality(new) \in Nat
      BY <3>5, <3>3, FewerTimers, FS_CardinalityType
    <3>7. Cardinality(TimersOf(c)') <= accepted'[c]
      BY <1>0, <3>1, <3>5, <3>6
    <3> QED
      BY <3>6, <3>7 DEF Counted
  <2> QED
    BY <2>1, <2>2
<1>4. ASSUME NEW d \in Devices, NEW t \in CommandTypes, HandleCommandResult(d, t)
      PROVE  Counted(c)'
  <2>1. armed' \subseteq armed /\ accepted' = accepted
    BY <1>4 DEF HandleCommandResult
  <2> QED
    BY <1>1, <2>1 DEF TimersOf
<1>5. ASSUME NEW timer \in armed, HandleCommandTimeout(timer[1], timer[2])
      PROVE  Counted(c)'
  <2> DEFINE b == timer[1]  n == timer[2]
  <2>0. <<b, n>> \in armed /\ accepted' = accepted
    BY <1>5 DEF HandleCommandTimeout, TimeoutOfSettled, TimeoutRetry, TimeoutGiveUp
  <2>1. armed' = armed \ {<<b, n>>} \/ armed' = (armed \ {<<b, n>>}) \cup {<<b, published[b] + 1>>}
    BY <1>5 DEF HandleCommandTimeout, TimeoutOfSettled, TimeoutRetry, TimeoutGiveUp, Rearm
  <2> HIDE DEF b, n
  <2>2. CASE armed' = armed \ {<<b, n>>}
    BY <1>1, <2>0, <2>2 DEF TimersOf
  <2>3. CASE b # c /\ armed' = (armed \ {<<b, n>>}) \cup {<<b, published[b] + 1>>}
    BY <1>1, <2>0, <2>3 DEF TimersOf
  <2>4. CASE b = c /\ armed' = (armed \ {<<c, n>>}) \cup {<<c, published[c] + 1>>}
    <3>1. <<c, n>> \in TimersOf(c)
      BY <2>0, <2>4 DEF TimersOf
    <3>2. TimersOf(c)' = (TimersOf(c) \ {<<c, n>>}) \cup {<<c, published[c] + 1>>}
      BY <2>4 DEF TimersOf
    <3> DEFINE S == TimersOf(c)
               x == <<c, n>>
               y == <<c, published[c] + 1>>
    <3>3. IsFiniteSet(S) /\ x \in S
      BY <1>0, <3>1
    <3> HIDE DEF S, x, y
    <3>4. /\ IsFiniteSet((S \ {x}) \cup {y})
          /\ Cardinality((S \ {x}) \cup {y}) <= Cardinality(S)
      BY <3>3, TimerReplaced
    <3>5. /\ IsFiniteSet(TimersOf(c)')
          /\ Cardinality(TimersOf(c)') <= Cardinality(TimersOf(c))
      BY <3>2, <3>4 DEF S, x, y
    <3>6. Cardinality(TimersOf(c)') \in Nat
      BY <3>5, FS_CardinalityType
    <3>7. Cardinality(TimersOf(c)') <= accepted'[c]
      BY <1>0, <2>0, <3>5, <3>6
    <3> QED
      BY <3>5, <3>7 DEF Counted
  <2> QED
    BY <2>1, <2>2, <2>3, <2>4
<1> QED
  BY <1>2, <1>3, <1>4, <1>5 DEF Next, Traffic

\* A command never has more timers running than handler runs that took it, for
\* any number of handlers, restarts and retries.
THEOREM TimersDoNotMultiply == Spec => []OneTimerPerAcceptance
<1> DEFINE AllCounted == \A c \in Commands : Counted(c)
<1>1. Init => AllCounted
  BY InitCounted
<1>2. IInv /\ AllCounted /\ [Next]_vars => AllCounted'
  BY NextTypeOK, NextCounted DEF IInv
<1>3. AllCounted => OneTimerPerAcceptance
  BY DEF Counted, OneTimerPerAcceptance
<1> QED
  BY <1>1, <1>2, <1>3, Invariance, PTL DEF Spec

-----------------------------------------------------------------------------
PhaseFn == [c \in Commands |-> Phase(c)]

\* The phase of a command, read off its two facts: was it ever taken, and what
\* does pendingCommands hold for it.
LEMMA PhaseValues ==
    ASSUME NEW c \in Commands, TypeOK, UnknownIsIdle
    PROVE  /\ accepted[c] = 0 => Phase(c) = "unknown"
           /\ accepted[c] # 0 /\ c \notin Pending => Phase(c) = "closed"
           /\ c \in Pending /\ Sent(c) => Phase(c) = "open"
           /\ c \in Pending /\ ~Sent(c) => Phase(c) = "rejected"
  BY DEF Phase, UnknownIsIdle

\* A status kept and a count kept is a phase kept.
LEMMA PhaseFrame ==
    ASSUME NEW c \in Commands, pendingCommands'[c] = pendingCommands[c],
           accepted'[c] = accepted[c]
    PROVE  Phase(c)' = Phase(c)
  BY DEF Phase, Pending, Sent

LEMMA StepRefines == IInv /\ [Next]_vars => [Lifecycle!Next]_(Lifecycle!vars)
<1> SUFFICES ASSUME IInv, [Next]_vars PROVE [Lifecycle!Next]_(Lifecycle!vars)
  OBVIOUS
<1>0. IInv' /\ TypeOK /\ TypeOK' /\ UnknownIsIdle /\ UnknownIsIdle'
  BY NextIInv DEF IInv
<1> USE DEF Lifecycle!vars
<1>1. CASE \/ Start \/ Stop \/ RemoveAllListeners \/ UNCHANGED vars
           \/ \E m \in 0..MaxRetriesBound : UpdateConfig(m)
  <2>1. UNCHANGED <<pendingCommands, accepted, published>>
    BY <1>1 DEF Start, Stop, RemoveAllListeners, UpdateConfig, vars
  <2>2. PhaseFn' = PhaseFn
    BY <2>1, PhaseFrame DEF PhaseFn
  <2> QED
    BY <2>1, <2>2 DEF PhaseFn
<1>2. ASSUME NEW c \in Commands, NEW d \in Devices, NEW t \in CommandTypes,
             HandleCommandRequest(c, d, t)
      PROVE  Lifecycle!Submit(c)
  <2>1. PhaseFn[c] = "unknown"
    <3>1. accepted[c] = 0
      BY <1>2 DEF HandleCommandRequest, Requestable
    <3> QED
      BY <1>0, <3>1, PhaseValues DEF PhaseFn
  <2>2. /\ handlers \in 1..MaxHandlers
        /\ accepted' = [accepted EXCEPT ![c] = @ + handlers]
    BY <1>0, <1>2, CommandAssumption DEF HandleCommandRequest, TypeOK
  <2>3. \A b \in Commands \ {c} : PhaseFn'[b] = PhaseFn[b]
    <3> SUFFICES ASSUME NEW b \in Commands \ {c} PROVE Phase(b)' = Phase(b)
      BY DEF PhaseFn
    <3>1. pendingCommands'[b] = pendingCommands[b] /\ accepted'[b] = accepted[b]
      BY <1>0, <1>2 DEF HandleCommandRequest, TypeOK
    <3> QED
      BY <3>1, PhaseFrame
  <2>4. pendingCommands'[c].state = IF t \in Buildable THEN "sent" ELSE "failed"
    BY <1>0, <1>2 DEF HandleCommandRequest, TypeOK
  <2>5. c \in Pending'
    BY <2>4 DEF Pending, Absent
  <2>6. PhaseFn'[c] = IF t \in Buildable THEN "open" ELSE "rejected"
    BY <1>0, <2>4, <2>5 DEF Phase, Sent, UnknownIsIdle, PhaseFn
  <2>7. PhaseFn' = [PhaseFn EXCEPT ![c] = IF t \in Buildable THEN "open" ELSE "rejected"]
    BY <2>3, <2>6 DEF PhaseFn
  <2>8. published' = IF t \in Buildable
                     THEN [published EXCEPT ![c] = @ + handlers] ELSE published
    BY <1>2 DEF HandleCommandRequest
  <2> QED
    BY <2>1, <2>2, <2>7, <2>8 DEF Lifecycle!Submit, PhaseFn
<1>3. ASSUME NEW S \in SUBSET Pending, NEW by, Forget(S, by),
             UNCHANGED <<accepted, published>>
      PROVE  Lifecycle!Close(S) /\ S \in SUBSET Commands
  <2>1. S \in SUBSET Commands
    BY DEF Pending
  <2>2. /\ Pending' = Pending \ S
        /\ \A c \in Commands \ S : pendingCommands'[c] = pendingCommands[c]
    BY <1>0, <1>3, <2>1, ForgetPending
  <2>3. \A c \in S : PhaseFn[c] \in {"open", "rejected"}
    BY <1>0, <2>1, PhaseValues DEF PhaseFn
  <2>4. \A c \in S : PhaseFn'[c] = "closed"
    BY <1>0, <1>3, <2>1, <2>2 DEF Phase, UnknownIsIdle, PhaseFn
  <2>5. \A c \in Commands \ S : PhaseFn'[c] = PhaseFn[c]
    BY <1>3, <2>2, PhaseFrame DEF PhaseFn
  <2>6. PhaseFn' = [c \in Commands |-> IF c \in S THEN "closed" ELSE PhaseFn[c]]
    BY <2>4, <2>5 DEF PhaseFn
  <2> QED
    BY <1>3, <2>1, <2>3, <2>6 DEF Lifecycle!Close, PhaseFn
<1>4. ASSUME NEW d \in Devices, NEW t \in CommandTypes, HandleCommandResult(d, t)
      PROVE  \E S \in SUBSET Commands : Lifecycle!Close(S)
  <2>1. ResultTargets(d) \in SUBSET Pending
    BY <1>0, PendingStatus DEF ResultTargets
  <2> QED
    BY <1>3, <1>4, <2>1 DEF HandleCommandResult
<1>5. ASSUME NEW timer \in armed, HandleCommandTimeout(timer[1], timer[2])
      PROVE  [Lifecycle!Next]_(Lifecycle!vars)
  <2> DEFINE c == timer[1]  n == timer[2]
  <2>0. c \in Commands
    BY <1>0 DEF TypeOK
  <2>1. CASE TimeoutOfSettled(c, n)
    <3>1. UNCHANGED <<pendingCommands, accepted, published>>
      BY <2>1 DEF TimeoutOfSettled
    <3>2. PhaseFn' = PhaseFn
      BY <3>1, PhaseFrame DEF PhaseFn
    <3> QED
      BY <3>1, <3>2 DEF PhaseFn
  <2>2. CASE TimeoutRetry(c, n)
    <3>1. c \in Pending /\ pendingCommands[c] \in Status
      BY <1>0, <2>0, <2>2, PendingStatus DEF TimeoutRetry, MayRetry, Rearm, DropHandle
    <3>2. PhaseFn[c] \in {"open", "rejected"}
      BY <1>0, <2>0, <3>1, PhaseValues DEF PhaseFn
    <3>3. \A b \in Commands \ {c} : PhaseFn'[b] = PhaseFn[b]
      <4> SUFFICES ASSUME NEW b \in Commands \ {c} PROVE Phase(b)' = Phase(b)
        BY DEF PhaseFn
      <4>1. pendingCommands'[b] = pendingCommands[b] /\ accepted'[b] = accepted[b]
        BY <1>0, <2>0, <2>2 DEF TimeoutRetry, MayRetry, Rearm, DropHandle, TypeOK
      <4> QED
        BY <4>1, PhaseFrame
    <3>4. accepted' = accepted
      BY <2>2 DEF TimeoutRetry, MayRetry, Rearm, DropHandle
    <3>5. CASE pendingCommands[c].type \in Buildable
      <4>1. pendingCommands' = [pendingCommands EXCEPT
               ![c].retryCount = @ + 1, ![c].state = "sent"]
        BY <2>2, <3>5 DEF TimeoutRetry, MayRetry, Rearm, DropHandle
      <4>2. pendingCommands'[c].state = "sent"
        BY <1>0, <2>0, <3>1, <4>1 DEF TypeOK, Status
      <4>3. PhaseFn'[c] = "open"
        BY <1>0, <2>0, <4>2 DEF Phase, Sent, Pending, Absent, UnknownIsIdle, PhaseFn
      <4>4. PhaseFn' = [PhaseFn EXCEPT ![c] = "open"]
        BY <3>3, <4>3 DEF PhaseFn
      <4>5. published' = [published EXCEPT ![c] = @ + 1]
        BY <2>2, <3>5 DEF TimeoutRetry, MayRetry, Rearm, DropHandle
      <4>6. published[c] < accepted[c] + MaxRetriesBound
        BY <1>0, <2>0, <3>4, <4>5, CommandAssumption DEF IInv, PublishBound, TypeOK
      <4> QED
        BY <2>0, <3>2, <3>4, <4>4, <4>5, <4>6
           DEF Lifecycle!Next, Lifecycle!Retry, PhaseFn
    <3>6. CASE pendingCommands[c].type \notin Buildable
      <4>1. pendingCommands' = [pendingCommands EXCEPT
               ![c].retryCount = @ + 1, ![c].state = "failed"]
        BY <2>2, <3>6 DEF TimeoutRetry, MayRetry, Rearm, DropHandle
      <4>2. pendingCommands'[c].state = "failed"
        BY <1>0, <2>0, <3>1, <4>1 DEF TypeOK, Status
      <4>3. PhaseFn'[c] = "rejected"
        BY <1>0, <2>0, <4>2 DEF Phase, Sent, Pending, Absent, UnknownIsIdle, PhaseFn
      <4>4. PhaseFn' = [PhaseFn EXCEPT ![c] = "rejected"]
        BY <3>3, <4>3 DEF PhaseFn
      <4>5. published' = published
        BY <2>2, <3>6 DEF TimeoutRetry, MayRetry, Rearm, DropHandle
      <4> QED
        BY <2>0, <3>2, <3>4, <4>4, <4>5 DEF Lifecycle!Next, Lifecycle!Retry, PhaseFn
    <3> QED
      BY <3>5, <3>6
  <2>3. CASE TimeoutGiveUp(c, n)
    <3>1. {c} \in SUBSET Pending
      BY <2>3 DEF TimeoutGiveUp, DropHandle
    <3>2. Lifecycle!Close({c}) /\ {c} \in SUBSET Commands
      BY <1>3, <2>3, <3>1 DEF TimeoutGiveUp, DropHandle
    <3> QED
      BY <3>2 DEF Lifecycle!Next
  <2> QED
    BY <1>5, <2>1, <2>2, <2>3 DEF HandleCommandTimeout
<1> QED
  BY <1>1, <1>2, <1>4, <1>5 DEF Next, Traffic, Lifecycle!Next

\* The service implements the life cycle a client relies on: from the moment it
\* is taken a command is open, rejected or closed, closed once and for all, and
\* transmitted a bounded number of times.
THEOREM RefinesLifecycle == Spec => ImplementsLifecycle
<1>1. Init => Lifecycle!Init
  <2> SUFFICES ASSUME Init PROVE Lifecycle!Init
    OBVIOUS
  <2>1. \A c \in Commands : Phase(c) = "unknown"
    BY InitIInv, PhaseValues DEF Init, IInv
  <2> QED
    BY <2>1 DEF Init, Lifecycle!Init
<1>2. IInv /\ [Next]_vars => [Lifecycle!Next]_(Lifecycle!vars)
  BY StepRefines
<1> QED
  BY <1>1, <1>2, Invariance, PTL DEF Spec, ImplementsLifecycle, Lifecycle!Spec
=============================================================================
