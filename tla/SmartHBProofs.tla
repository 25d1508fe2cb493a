---------------------------- MODULE SmartHBProofs ----------------------------
(***************************************************************************)
(* Theorems of SmartHB, for every set of devices, slots, boards and        *)
(* addresses.                                                              *)
(***************************************************************************)
EXTENDS SmartHB, SequenceTheorems, TLAPS

\* The flag needs the types only; the action properties need the flag.
IInv == TypeOK /\ FlagIsTruth

\* What a step does apart from messages.
Housekeeping ==
    \/ Start
    \/ Stop
    \/ \E c \in Config : UpdateConfig(c)
    \/ \E d \in Devices : Passing(d)

-----------------------------------------------------------------------------
(* Records.                                                                *)

LEMMA BlankIsRecord == Blank \in DevMod /\ ~Complete(Blank) /\ Vacant \in Placement
BY DEF Blank, DevMod, Placement, Vacant, Complete

\* Merging records gives a record.
LEMMA MergeIsRecord ==
    ASSUME NEW old \in DevMod, NEW new \in DevMod
    PROVE  Merge(old, new) \in DevMod
<1>1. MergePlacement(old.id, new.id) \in Placement
  BY DEF MergePlacement, DevMod, Placement
<1>2. MergePlacement(old.fw, new.fw) \in Placement
  BY DEF MergePlacement, DevMod, Placement
<1>3. (IF new.net = None THEN old.net ELSE new.net) \in Addresses \cup {None}
  BY DEF DevMod
<1> QED
  BY <1>1, <1>2, <1>3 DEF Merge, DevMod

\* What a merged record becomes has its modules, and is complete if it was and no
\* module is new.
GrowsTo(old, new) ==
    /\ Listed(old) \subseteq Listed(new)
    /\ Complete(old) /\ Listed(new) \subseteq Listed(old) => Complete(new)

LEMMA MergeGrows ==
    ASSUME NEW old \in DevMod, NEW new \in DevMod
    PROVE  GrowsTo(old, Merge(old, new))
<1> DEFINE merged == Merge(old, new)
<1>1. /\ merged.net = IF new.net = None THEN old.net ELSE new.net
      /\ \A s \in Slots : /\ merged.id[s] = IF new.id[s] = None THEN old.id[s] ELSE new.id[s]
                          /\ merged.fw[s] = IF new.fw[s] = None THEN old.fw[s] ELSE new.fw[s]
  BY DEF Merge, MergePlacement
<1> HIDE DEF merged
<1>2. Listed(old) \subseteq Listed(merged)
  BY <1>1 DEF Listed
<1>3. ASSUME Complete(old), Listed(merged) \subseteq Listed(old) PROVE Complete(merged)
  <2>1. merged.net # None
    BY <1>1, <1>3 DEF Complete
  <2>2. Listed(merged) # {}
    BY <1>2, <1>3 DEF Complete
  <2>3. ASSUME NEW s \in Listed(merged) PROVE merged.id[s] # None /\ merged.fw[s] # None
    <3>1. s \in Slots /\ old.id[s] # None /\ old.fw[s] # None
      BY <1>3, <2>3 DEF Complete, Listed
    <3> QED
      BY <1>1, <3>1
  <2> QED
    BY <2>1, <2>2, <2>3 DEF Complete
<1> QED
  BY <1>2, <1>3 DEF GrowsTo, merged

LEMMA HeartbeatIsRecord ==
    ASSUME NEW b \in Placement
    PROVE  HeartbeatRecord(b) \in DevMod
BY BlankIsRecord DEF HeartbeatRecord, DevMod, Blank

\* A sequence of complete records.
Whole(s) == s \in Seq(DevMod) /\ \A i \in 1..Len(s) : Complete(s[i])

LEMMA EmptyIsWhole == Whole(<<>>)
<1>1. <<>> \in Seq(DevMod) /\ Len(<<>>) = 0
  BY EmptySeq
<1> QED
  BY <1>1 DEF Whole

LEMMA OneIsWhole ==
    ASSUME NEW r \in DevMod, Complete(r)
    PROVE  Whole(<<r>>)
<1>1. <<r>> \in Seq(DevMod) /\ Len(<<r>>) = 1 /\ <<r>>[1] = r
  OBVIOUS
<1>2. \A i \in 1..1 : i = 1
  OBVIOUS
<1> QED
  BY <1>1, <1>2 DEF Whole

\* What the repair emits and what passes are complete records.
LEMMA OutputsAreComplete ==
    ASSUME NEW d \in Devices, NEW m \in DevMod, partial[d] \in DevMod
    PROVE  Whole(Emitted(d, m)) /\ Whole(Outputs(d, m))
<1> DEFINE merged == Merge(partial[d], m)
<1>1. merged \in DevMod
  BY MergeIsRecord
<1>2. Emitted(d, m) = <<>> \/ Emitted(d, m) = <<merged>>
  BY DEF Emitted
<1>3. Emitted(d, m) = <<>> \/ Complete(merged)
  BY DEF Emitted
<1> HIDE DEF merged
<1>4. Whole(Emitted(d, m))
  BY <1>1, <1>2, <1>3, EmptyIsWhole, OneIsWhole
<1>5. Whole(Passed(m))
  BY EmptyIsWhole, OneIsWhole DEF Passed
<1>6. Emitted(d, m) \in Seq(DevMod) /\ Passed(m) \in Seq(DevMod)
  BY <1>4, <1>5 DEF Whole
<1> DEFINE e == Emitted(d, m)
           p == Passed(m)
<1>7. /\ Outputs(d, m) \in Seq(DevMod)
      /\ Len(Outputs(d, m)) = Len(e) + Len(p)
      /\ \A i \in 1..Len(e) + Len(p) :
           Outputs(d, m)[i] = IF i <= Len(e) THEN e[i] ELSE p[i - Len(e)]
  BY <1>6, ConcatProperties DEF Outputs
<1>8. Len(e) \in Nat /\ Len(p) \in Nat
  BY <1>6, LenProperties
<1> HIDE DEF e, p
<1>9. ASSUME NEW i \in 1..Len(Outputs(d, m))
      PROVE  Complete(Outputs(d, m)[i])
  <2>1. CASE i <= Len(e)
    <3>1. i \in 1..Len(e) /\ Outputs(d, m)[i] = e[i]
      BY <1>7, <1>8, <1>9, <2>1
    <3> QED
      BY <1>4, <3>1 DEF Whole, e
  <2>2. CASE i > Len(e)
    <3>1. i - Len(e) \in 1..Len(p) /\ Outputs(d, m)[i] = p[i - Len(e)]
      BY <1>7, <1>8, <1>9, <2>2
    <3> QED
      BY <1>5, <3>1 DEF Whole, p
  <2> QED
    BY <1>7, <1>8, <1>9, <2>1, <2>2
<1> QED
  BY <1>4, <1>7, <1>9 DEF Whole

\* A record that becomes complete is the first of the outputs.
LEMMA CompletedIsEmitted ==
    ASSUME NEW d \in Devices, NEW m \in DevMod, partial[d] \in DevMod,
           Complete(Merge(partial[d], m)), ~isComplete[d]
    PROVE  /\ 1 \in DOMAIN Emitted(d, m) /\ Emitted(d, m)[1] = Merge(partial[d], m)
           /\ 1 \in DOMAIN Outputs(d, m) /\ Outputs(d, m)[1] = Merge(partial[d], m)
<1> DEFINE merged == Merge(partial[d], m)
<1>1. merged \in DevMod
  BY MergeIsRecord
<1>2. Emitted(d, m) = <<merged>>
  BY DEF Emitted
<1> HIDE DEF merged
<1>3. Passed(m) \in Seq(DevMod)
  BY EmptySeq DEF Passed
<1>4. <<merged>> \in Seq(DevMod) /\ Len(<<merged>>) = 1 /\ <<merged>>[1] = merged
  BY <1>1
<1>5. /\ Outputs(d, m) \in Seq(DevMod)
      /\ Len(Outputs(d, m)) = 1 + Len(Passed(m))
      /\ \A i \in 1..1 + Len(Passed(m)) :
           Outputs(d, m)[i] = IF i <= 1 THEN <<merged>>[i] ELSE Passed(m)[i - 1]
  BY <1>2, <1>3, <1>4, ConcatProperties DEF Outputs
<1>6. Len(Passed(m)) \in Nat
  BY <1>3, LenProperties
<1>7. 1 \in 1..Len(Outputs(d, m)) /\ Outputs(d, m)[1] = merged
  BY <1>4, <1>5, <1>6
<1>8. 1 \in DOMAIN Outputs(d, m)
  BY <1>5, <1>7, LenProperties
<1>9. 1 \in DOMAIN Emitted(d, m) /\ Emitted(d, m)[1] = merged
  BY <1>2, <1>4, LenProperties
<1> QED
  BY <1>7, <1>8, <1>9 DEF merged

-----------------------------------------------------------------------------
(* Steps.                                                                  *)

\* Every step handles a record, handles a heartbeat or is housekeeping.
LEMMA StepKinds ==
    ASSUME Next
    PROVE  \/ \E d \in Devices, m \in DevMod : HandleDevMod(d, m)
           \/ \E d \in Devices, b \in Placement : HandleHeartbeat(d, b)
           \/ Housekeeping
<1>1. ASSUME NEW d \in Devices, Message(d)
      PROVE  \/ \E m \in DevMod : HandleDevMod(d, m)
             \/ \E b \in Placement : HandleHeartbeat(d, b)
  <2>1. CASE Heartbeat(d)
    BY <2>1 DEF Heartbeat
  <2>2. CASE DeviceInfo(d)
    <3>1. \A a \in Addresses : [Blank EXCEPT !.net = a] \in DevMod
      BY BlankIsRecord DEF DevMod, Blank
    <3> QED
      BY <2>2, <3>1 DEF DeviceInfo
  <2>3. CASE ModuleInfo(d)
    <3>1. \A f \in Placement : [Blank EXCEPT !.fw = f] \in DevMod
      BY BlankIsRecord DEF DevMod, Blank
    <3> QED
      BY <2>3, <3>1 DEF ModuleInfo
  <2>4. CASE DevModInfo(d)
    <3>1. \A a \in Addresses, b \in Placement, f \in Placement :
            [net |-> a, id |-> b, fw |-> f] \in DevMod
      BY DEF DevMod
    <3> QED
      BY <2>4, <3>1 DEF DevModInfo, FirmwareOf
  <2>5. CASE ModChngEvent(d)
    <3>1. \A b \in Placement, f \in Placement :
            [net |-> None, id |-> b, fw |-> f] \in DevMod
      BY DEF DevMod
    <3> QED
      BY <2>5, <3>1 DEF ModChngEvent, FirmwareOf
  <2> QED
    BY <1>1, <2>1, <2>2, <2>3, <2>4, <2>5 DEF Message
<1> QED
  BY <1>1 DEF Next, Housekeeping

\* The repair's part of a message keeps the invariant.
LEMMA ProcessKeeps ==
    ASSUME IInv, NEW d \in Devices, NEW m \in DevMod, ProcessDevMod(d, m)
    PROVE  /\ partial' \in [Devices -> DevMod]
           /\ isComplete' \in [Devices -> BOOLEAN]
           /\ asked' \in [Devices -> SUBSET Queries]
           /\ \A e \in Devices : isComplete'[e] <=> Complete(partial'[e])
           /\ partial'[d] = Merge(partial[d], m)
           /\ \A e \in Devices \ {d} : partial'[e] = partial[e]
<1>1. Merge(partial[d], m) \in DevMod
  BY MergeIsRecord DEF IInv, TypeOK
<1>2. Missing(Merge(partial[d], m)) \subseteq Queries
  BY DEF Missing
<1>3. Flag(d, m) \in BOOLEAN
  BY DEF Flag, Complete
<1>4. /\ partial' \in [Devices -> DevMod]
      /\ partial'[d] = Merge(partial[d], m)
      /\ \A e \in Devices \ {d} : partial'[e] = partial[e]
  BY <1>1 DEF ProcessDevMod, IInv, TypeOK
<1>5. /\ isComplete' \in [Devices -> BOOLEAN]
      /\ isComplete'[d] = Flag(d, m)
      /\ \A e \in Devices \ {d} : isComplete'[e] = isComplete[e]
  BY <1>3 DEF ProcessDevMod, IInv, TypeOK
<1>6. asked' \in [Devices -> SUBSET Queries]
  BY <1>2 DEF ProcessDevMod, IInv, TypeOK
<1>7. \A e \in Devices : isComplete'[e] <=> Complete(partial'[e])
  BY <1>4, <1>5 DEF Flag, IInv, FlagIsTruth
<1> QED
  BY <1>4, <1>5, <1>6, <1>7

LEMMA QuietIsTyped == Quiet => delivered' \in [Devices -> Seq(DevMod)]
<1>1. <<>> \in Seq(DevMod)
  BY EmptySeq
<1> QED
  BY <1>1 DEF Quiet

LEMMA DeliverIsTyped ==
    ASSUME NEW d \in Devices, NEW s \in Seq(DevMod), Deliver(d, s)
    PROVE  delivered' \in [Devices -> Seq(DevMod)]
<1>1. <<>> \in Seq(DevMod)
  BY EmptySeq
<1> QED
  BY <1>1 DEF Deliver

\* A step that passes nothing, or whole records only, passes whole records.
LEMMA QuietIsWhole ==
    Quiet => \A e \in Devices : \A i \in DOMAIN delivered'[e] : Complete(delivered'[e][i])
<1>1. DOMAIN <<>> = {}
  OBVIOUS
<1> QED
  BY <1>1 DEF Quiet

LEMMA DeliverIsWhole ==
    ASSUME NEW d \in Devices, NEW s, Whole(s), Deliver(d, s)
    PROVE  \A e \in Devices : \A i \in DOMAIN delivered'[e] : Complete(delivered'[e][i])
<1>1. DOMAIN <<>> = {}
  OBVIOUS
<1>2. DOMAIN s = 1..Len(s)
  BY LenProperties DEF Whole
<1>3. /\ delivered'[d] = s
      /\ \A e \in Devices \ {d} : delivered'[e] = <<>>
  BY DEF Deliver
<1> QED
  BY <1>1, <1>2, <1>3 DEF Whole

LEMMA InitIInv == Init => IInv
<1> SUFFICES ASSUME Init PROVE IInv
  OBVIOUS
<1>1. TypeOK
  <2>1. <<>> \in Seq(DevMod)
    BY EmptySeq
  <2> QED
    BY <2>1, BlankIsRecord DEF Init, TypeOK
<1>2. FlagIsTruth
  BY BlankIsRecord DEF Init, FlagIsTruth
<1> QED
  BY <1>1, <1>2 DEF IInv

LEMMA StepIInv == IInv /\ [Next]_vars => IInv'
<1> SUFFICES ASSUME IInv, [Next]_vars PROVE IInv'
  OBVIOUS
<1> USE DEF IInv
<1>1. ASSUME NEW d \in Devices, NEW m \in DevMod, HandleDevMod(d, m)
      PROVE  IInv'
  <2>1. cachedInfo' \in [Devices -> BOOLEAN]
    BY <1>1 DEF HandleDevMod, StoreInfo, TypeOK
  <2>2. CASE running /\ config.repair
    <3>1. ProcessDevMod(d, m) /\ Deliver(d, Outputs(d, m))
      BY <1>1, <2>2 DEF HandleDevMod
    <3>2. Outputs(d, m) \in Seq(DevMod)
      BY OutputsAreComplete DEF TypeOK, Whole
    <3>3. delivered' \in [Devices -> Seq(DevMod)]
      BY <3>1, <3>2, DeliverIsTyped
    <3> QED
      BY <1>1, <2>1, <3>1, <3>3, ProcessKeeps DEF HandleDevMod, TypeOK, FlagIsTruth
  <2>3. CASE ~(running /\ config.repair)
    <3>1. Deliver(d, <<m>>) /\ UNCHANGED <<partial, isComplete, asked>>
      BY <1>1, <2>3 DEF HandleDevMod
    <3>2. <<m>> \in Seq(DevMod)
      OBVIOUS
    <3>3. delivered' \in [Devices -> Seq(DevMod)]
      BY <3>1, <3>2, DeliverIsTyped
    <3> QED
      BY <1>1, <2>1, <3>1, <3>3 DEF HandleDevMod, TypeOK, FlagIsTruth
  <2> QED
    BY <2>2, <2>3
<1>2. ASSUME NEW d \in Devices, NEW b \in Placement, HandleHeartbeat(d, b)
      PROVE  IInv'
  <2> DEFINE m == HeartbeatRecord(b)
  <2>0. m \in DevMod
    BY HeartbeatIsRecord
  <2>1. cachedHb' \in [Devices -> SUBSET Slots]
    BY <1>2 DEF HandleHeartbeat, UpdateHeartbeat, TypeOK
  <2>2. askedLegacy' \in [Devices -> SUBSET Queries]
    <3>1. LegacyQueries(d, b) \subseteq Queries
      BY DEF LegacyQueries, Queries
    <3> QED
      BY <1>2, <3>1 DEF HandleHeartbeat, TypeOK
  <2>3. CASE running /\ config.trigger /\ config.repair
    <3>1. ProcessDevMod(d, m) /\ Deliver(d, Emitted(d, m)) /\ StoreInfo(d)
      BY <1>2, <2>3 DEF HandleHeartbeat
    <3>2. Emitted(d, m) \in Seq(DevMod)
      BY <2>0, OutputsAreComplete DEF TypeOK, Whole
    <3>3. delivered' \in [Devices -> Seq(DevMod)]
      BY <3>1, <3>2, DeliverIsTyped
    <3>4. cachedInfo' \in [Devices -> BOOLEAN]
      BY <3>1 DEF StoreInfo, TypeOK
    <3>5. UNCHANGED <<kind, running, config>>
      BY <1>2 DEF HandleHeartbeat
    <3> HIDE DEF m
    <3> QED
      BY <2>0, <2>1, <2>2, <3>1, <3>3, <3>4, <3>5, ProcessKeeps DEF TypeOK, FlagIsTruth
  <2>4. CASE ~(running /\ config.trigger /\ config.repair)
    <3>1. Quiet /\ UNCHANGED <<kind, running, config, partial, isComplete, asked, cachedInfo>>
      BY <1>2, <2>4 DEF HandleHeartbeat
    <3> QED
      BY <2>1, <2>2, <3>1, QuietIsTyped DEF TypeOK, FlagIsTruth
  <2> QED
    BY <2>3, <2>4
<1>3. CASE Start \/ Stop
  BY <1>3, QuietIsTyped DEF Start, Stop, TypeOK, FlagIsTruth
<1>4. ASSUME NEW c \in Config, UpdateConfig(c)
      PROVE  IInv'
  BY <1>4, BlankIsRecord, QuietIsTyped DEF UpdateConfig, TypeOK, FlagIsTruth
<1>5. ASSUME NEW d \in Devices, Passing(d)
      PROVE  IInv'
  <2>1. ASSUME NEW q \in Queries, EndCooldown(d, q) PROVE IInv'
    BY <2>1, QuietIsTyped DEF EndCooldown, TypeOK, FlagIsTruth
  <2>2. ASSUME NEW q \in Queries, EndLegacyCooldown(d, q) PROVE IInv'
    BY <2>2, QuietIsTyped DEF EndLegacyCooldown, TypeOK, FlagIsTruth
  <2>3. CASE ForgetInfo(d)
    BY <2>3, QuietIsTyped DEF ForgetInfo, TypeOK, FlagIsTruth
  <2>4. ASSUME NEW s \in Slots, ForgetModule(d, s) PROVE IInv'
    BY <2>4, QuietIsTyped DEF ForgetModule, TypeOK, FlagIsTruth
  <2> QED
    BY <1>5, <2>1, <2>2, <2>3, <2>4 DEF Passing
<1>6. CASE UNCHANGED vars
  BY <1>6 DEF vars, TypeOK, FlagIsTruth
<1> QED
  BY <1>1, <1>2, <1>3, <1>4, <1>5, <1>6, StepKinds DEF Housekeeping

LEMMA Invariance == Spec => []IInv
BY InitIInv, StepIInv, PTL DEF Spec

\* Every state of SmartHB is of the declared types.
THEOREM TypeCorrect == Spec => []TypeOK
<1>1. IInv => TypeOK
  BY DEF IInv
<1> QED
  BY <1>1, Invariance, PTL

\* isComplete says of every device's record whether it is complete, whatever
\* the order in which its parts and modules come.
THEOREM FlagIsRight == Spec => []FlagIsTruth
<1>1. IInv => FlagIsTruth
  BY DEF IInv
<1> QED
  BY <1>1, Invariance, PTL

\* While the repair works, no message brings the outputs an incomplete record,
\* neither by passing nor by what the repair emits for it.
THEOREM OutputsAreWhole == Spec => OutputsGetCompleteRecords
<1> DEFINE A == running /\ config.repair =>
                  \A d \in Devices : \A i \in DOMAIN delivered'[d] : Complete(delivered'[d][i])
<1>1. ASSUME IInv, Next
      PROVE  A
  <2> SUFFICES ASSUME running, config.repair
               PROVE  \A d \in Devices :
                        \A i \in DOMAIN delivered'[d] : Complete(delivered'[d][i])
    OBVIOUS
  <2>1. ASSUME NEW d \in Devices, NEW m \in DevMod, HandleDevMod(d, m)
        PROVE  A
    <3>1. Deliver(d, Outputs(d, m)) /\ partial[d] \in DevMod
      BY <1>1, <2>1 DEF HandleDevMod, IInv, TypeOK
    <3> QED
      BY <3>1, OutputsAreComplete, DeliverIsWhole
  <2>2. ASSUME NEW d \in Devices, NEW b \in Placement, HandleHeartbeat(d, b)
        PROVE  A
    <3>1. Quiet \/ Deliver(d, Emitted(d, HeartbeatRecord(b)))
      BY <2>2 DEF HandleHeartbeat
    <3>2. HeartbeatRecord(b) \in DevMod /\ partial[d] \in DevMod
      BY <1>1, HeartbeatIsRecord DEF IInv, TypeOK
    <3> QED
      BY <3>1, <3>2, OutputsAreComplete, DeliverIsWhole, QuietIsWhole
  <2>3. CASE Housekeeping
    <3>1. Quiet
      BY <2>3 DEF Housekeeping, Start, Stop, UpdateConfig, Passing, EndCooldown,
                  EndLegacyCooldown, ForgetInfo, ForgetModule
    <3> QED
      BY <3>1, QuietIsWhole
  <2> QED
    BY <1>1, <2>1, <2>2, <2>3, StepKinds
<1>2. IInv /\ [Next]_vars => [A]_vars
  BY <1>1
<1> QED
  BY <1>2, Invariance, PTL DEF Spec, OutputsGetCompleteRecords

\* The step that makes a device's record whole, the first time or again, brings
\* the whole record to the outputs.
THEOREM WholeRecordIsDelivered == Spec => CompletionIsDelivered
<1> DEFINE A == \A d \in Devices :
                  Complete(partial'[d]) /\ ~Complete(partial[d]) =>
                     \E i \in DOMAIN delivered'[d] : delivered'[d][i] = partial'[d]
<1>1. ASSUME IInv, Next
      PROVE  A
  <2>1. ASSUME NEW d \in Devices, NEW m \in DevMod, ProcessDevMod(d, m),
               Deliver(d, Emitted(d, m)) \/ Deliver(d, Outputs(d, m))
        PROVE  A
    <3>1. /\ partial'[d] = Merge(partial[d], m)
          /\ \A e \in Devices \ {d} : partial'[e] = partial[e]
      BY <1>1, <2>1, ProcessKeeps
    <3>2. delivered'[d] \in {Emitted(d, m), Outputs(d, m)}
      BY <2>1 DEF Deliver
    <3>3. ASSUME Complete(partial'[d]), ~Complete(partial[d])
          PROVE  1 \in DOMAIN delivered'[d] /\ delivered'[d][1] = partial'[d]
      <4>1. ~isComplete[d] /\ partial[d] \in DevMod
        BY <1>1, <3>3 DEF IInv, FlagIsTruth, TypeOK
      <4>2. Complete(Merge(partial[d], m))
        BY <3>1, <3>3
      <4> QED
        BY <3>1, <3>2, <4>1, <4>2, CompletedIsEmitted
    <3> QED
      BY <3>1, <3>3
  <2>2. ASSUME partial' = partial
        PROVE  A
    BY <2>2
  <2>3. ASSUME NEW d \in Devices, NEW m \in DevMod, HandleDevMod(d, m)
        PROVE  A
    <3>1. \/ partial' = partial
          \/ ProcessDevMod(d, m) /\ Deliver(d, Outputs(d, m))
      BY <2>3 DEF HandleDevMod
    <3> QED
      BY <2>1, <2>2, <3>1
  <2>4. ASSUME NEW d \in Devices, NEW b \in Placement, HandleHeartbeat(d, b)
        PROVE  A
    <3>1. \/ partial' = partial
          \/ /\ ProcessDevMod(d, HeartbeatRecord(b))
             /\ Deliver(d, Emitted(d, HeartbeatRecord(b)))
      BY <2>4 DEF HandleHeartbeat
    <3> QED
      BY <2>1, <2>2, <3>1, HeartbeatIsRecord
  <2>5. CASE \E c \in Config : UpdateConfig(c)
    BY <2>5, BlankIsRecord DEF UpdateConfig
  <2>6. CASE Housekeeping
    <3>1. partial' = partial \/ \E c \in Config : UpdateConfig(c)
      BY <2>6 DEF Housekeeping, Start, Stop, Passing, EndCooldown,
                  EndLegacyCooldown, ForgetInfo, ForgetModule
    <3> QED
      BY <2>2, <2>5, <3>1
  <2> QED
    BY <1>1, <2>3, <2>4, <2>6, StepKinds
<1>2. IInv /\ [Next]_vars => [A]_vars
  BY <1>1
<1> QED
  BY <1>2, Invariance, PTL DEF Spec, CompletionIsDelivered

\* A device's merged record keeps every module it ever listed, also those that are
\* gone, and once complete it stays complete until a module is new in it; only a
\* new configuration empties it (suo.types.ts:315-370, device-info-repair.ts:74-100).
THEOREM RecordsOnlyGrow ==
    Spec => [][\A d \in Devices : partial'[d] = Blank \/ GrowsTo(partial[d], partial'[d])]_vars
<1> DEFINE A == \A d \in Devices : partial'[d] = Blank \/ GrowsTo(partial[d], partial'[d])
<1>1. ASSUME IInv, Next
      PROVE  A
  <2>0. \A d \in Devices : partial[d] \in DevMod
    BY <1>1 DEF IInv, TypeOK
  <2>1. ASSUME partial' = partial PROVE A
    BY <2>1 DEF GrowsTo
  <2>2. ASSUME NEW d \in Devices, NEW m \in DevMod,
               partial' = [partial EXCEPT ![d] = Merge(@, m)]
        PROVE  A
    <3> SUFFICES ASSUME NEW e \in Devices PROVE GrowsTo(partial[e], partial'[e])
      OBVIOUS
    <3>1. CASE e = d
      <4>1. partial'[e] = Merge(partial[e], m)
        BY <1>1, <2>2, <3>1 DEF IInv, TypeOK
      <4> QED
        BY <2>0, <4>1, MergeGrows
    <3>2. CASE e # d
      <4>1. partial'[e] = partial[e]
        BY <1>1, <2>2, <3>2 DEF IInv, TypeOK
      <4> QED
        BY <4>1 DEF GrowsTo
    <3> QED
      BY <3>1, <3>2
  <2>3. ASSUME NEW d \in Devices, NEW m \in DevMod, HandleDevMod(d, m)
        PROVE  A
    BY <2>1, <2>2, <2>3 DEF HandleDevMod, ProcessDevMod
  <2>4. ASSUME NEW d \in Devices, NEW b \in Placement, HandleHeartbeat(d, b)
        PROVE  A
    <3>1. partial' = partial \/ ProcessDevMod(d, HeartbeatRecord(b))
      BY <2>4 DEF HandleHeartbeat
    <3> QED
      BY <2>1, <2>2, <3>1, HeartbeatIsRecord DEF ProcessDevMod
  <2>5. CASE Housekeeping
    <3>1. partial' = partial \/ \A d \in Devices : partial'[d] = Blank
      BY <2>5 DEF Housekeeping, Start, Stop, UpdateConfig, Passing, EndCooldown,
                  EndLegacyCooldown, ForgetInfo, ForgetModule
    <3> QED
      BY <2>1, <3>1
  <2> QED
    BY <1>1, <2>3, <2>4, <2>5, StepKinds
<1>2. IInv /\ [Next]_vars => [A]_vars
  BY <1>1
<1> QED
  BY <1>2, Invariance, PTL DEF Spec

\* While the repair works only the repair asks a device for its own fields: what it
\* stores of every heartbeat is there when the fallback looks, in the same step
\* (smart-hb.ts:184-198, device-info-repair.ts:88).
THEOREM OneTrackerAsks == Spec => InfoIsAskedByOne
<1> DEFINE A == config.repair =>
                  \A d \in Devices : Info \in askedLegacy'[d] => Info \in askedLegacy[d]
<1>1. ASSUME IInv, Next
      PROVE  A
  <2> SUFFICES ASSUME config.repair
               PROVE  \A d \in Devices : Info \in askedLegacy'[d] => Info \in askedLegacy[d]
    OBVIOUS
  <2>1. ASSUME NEW d \in Devices, NEW b \in Placement, HandleHeartbeat(d, b)
        PROVE  A
    <3>1. CASE running /\ config.trigger
      <4>1. cachedInfo' = [cachedInfo EXCEPT ![d] = TRUE]
        BY <2>1, <3>1 DEF HandleHeartbeat, StoreInfo
      <4>2. cachedInfo'[d] = TRUE
        BY <1>1, <4>1 DEF IInv, TypeOK
      <4>3. Info \notin LegacyQueries(d, b)
        BY <4>2, SmartHBAssumption DEF LegacyQueries, InfoCached
      <4>4. askedLegacy' = [askedLegacy EXCEPT ![d] = @ \cup LegacyQueries(d, b)]
        BY <2>1, <3>1 DEF HandleHeartbeat
      <4> QED
        BY <1>1, <4>3, <4>4 DEF IInv, TypeOK
    <3>2. CASE ~(running /\ config.trigger)
      <4>1. askedLegacy' = askedLegacy
        BY <2>1, <3>2 DEF HandleHeartbeat
      <4> QED
        BY <4>1
    <3> QED
      BY <3>1, <3>2
  <2>2. ASSUME NEW d \in Devices, NEW m \in DevMod, HandleDevMod(d, m)
        PROVE  A
    BY <2>2 DEF HandleDevMod
  <2>3. ASSUME NEW d \in Devices, Passing(d)
        PROVE  A
    BY <1>1, <2>3 DEF Passing, EndCooldown, EndLegacyCooldown, ForgetInfo,
                      ForgetModule, IInv, TypeOK
  <2>4. CASE Housekeeping
    BY <2>3, <2>4 DEF Housekeeping, Start, Stop, UpdateConfig
  <2> QED
    BY <1>1, <2>1, <2>2, <2>4, StepKinds
<1>2. IInv /\ [Next]_vars => [A]_vars
  BY <1>1
<1> QED
  BY <1>2, Invariance, PTL DEF Spec, InfoIsAskedByOne
=============================================================================
