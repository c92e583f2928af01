------------------------ MODULE DotnetConsumerProofs ------------------------
(***************************************************************************)
(* Proofs about DotnetConsumer for any finite set of partitions, any       *)
(* number of messages in each and any number of disruptions.               *)
(*                                                                         *)
(* Each step is first summed up by what it does to the few things the      *)
(* accounting is about (lemma Effects); the invariant and the refinement   *)
(* then follow from these summaries.                                       *)
(***************************************************************************)
EXTENDS DotnetConsumer, FiniteSetTheorems, TLAPS

(* A message determines its partition and its offset, and is not None. *)
LEMMA Pairs ==
    /\ \A p \in Partitions, i \in Offsets : <<p, i>> \in Messages
    /\ \A p, i : <<p, i>> # None
    /\ \A m \in Messages : m[1] \in Partitions /\ m[2] \in Offsets /\ m = <<m[1], m[2]>>
<1>1. \A p \in Partitions, i \in Offsets : <<p, i>> \in Messages
  BY DEF Messages
<1>2. \A p, i : <<p, i>> # None
  BY DEF None
<1>3. \A m \in Messages : m[1] \in Partitions /\ m[2] \in Offsets /\ m = <<m[1], m[2]>>
  BY DEF Messages
<1> QED  BY <1>1, <1>2, <1>3

LEMMA Offset == LogLength \in Nat /\ Offsets = 1 .. LogLength
  BY LogAssumption DEF Offsets

(* Init establishes the invariant: nothing has been read or committed. *)
LEMMA InitInv == Init => IInv
<1> SUFFICES ASSUME Init PROVE IInv
  OBVIOUS
<1> USE Offset DEF Init
<1>1. TypeOK
  BY LogAssumption, RequestAssumption
  DEF TypeOK, FromStart, ZeroMetrics, NoRequests, Reasons, HostStates, LoopStates
<1>2. ReadInv /\ CommittedInv
  BY DEF ReadInv, CommittedInv, FromStart
<1>3. CurrentInv
  BY Pairs DEF CurrentInv
<1>4. OrderInv
  BY DEF OrderInv, Routed
<1> QED  BY <1>1, <1>2, <1>3, <1>4 DEF IInv

-----------------------------------------------------------------------------
(* Types.                                                                  *)

(* The message in process is a message wherever the loop works on one. *)
LEMMA InProcess ==
    IInv /\ pc \notin {"consume", "stopped"} =>
        /\ current \in Messages
        /\ current[1] \in Partitions
        /\ current[2] \in Offsets
        /\ current = <<current[1], current[2]>>
<1> SUFFICES ASSUME IInv, pc \notin {"consume", "stopped"} PROVE current \in Messages
  BY Pairs
<1> QED  BY DEF IInv, TypeOK, CurrentInv

LEMMA CommitType ==
    IInv /\ pc \notin {"consume", "stopped"} /\ CommitCurrent =>
        committed' \in [Partitions -> 1 .. LogLength + 1]
<1> SUFFICES ASSUME IInv, pc \notin {"consume", "stopped"}, CommitCurrent
             PROVE  committed' \in [Partitions -> 1 .. LogLength + 1]
  OBVIOUS
<1>1. current[2] + 1 \in 1 .. LogLength + 1
  BY InProcess, Offset
<1>2. committed \in [Partitions -> 1 .. LogLength + 1]
  BY DEF IInv, TypeOK
<1> QED  BY <1>1, <1>2, InProcess DEF CommitCurrent

LEMMA IncType ==
    TypeOK => \A c \in {"processed"} \cup Reasons :
        Inc(c) => metrics' \in [{"processed"} \cup Reasons -> Nat]
<1> SUFFICES ASSUME TypeOK, NEW c \in {"processed"} \cup Reasons, Inc(c)
             PROVE  metrics' \in [{"processed"} \cup Reasons -> Nat]
  OBVIOUS
<1>1. metrics \in [{"processed"} \cup Reasons -> Nat]
  BY DEF TypeOK
<1> QED  BY <1>1 DEF Inc

LEMMA DisruptionType ==
    TypeOK /\ Disruption => disruptions' \in 0 .. MaxDisruptions /\ calm' \in BOOLEAN
<1> SUFFICES ASSUME TypeOK, Disruption
             PROVE  disruptions' \in 0 .. MaxDisruptions /\ calm' \in BOOLEAN
  OBVIOUS
<1>1. disruptions \in 0 .. MaxDisruptions
  BY DEF TypeOK
<1>2. disruptions' \in 0 .. MaxDisruptions
  BY <1>1, LogAssumption DEF Disruption
<1> QED  BY <1>2 DEF Disruption

(* Every step keeps the variables in their types. *)
LEMMA TypeStep == IInv /\ [Next]_vars => TypeOK'
<1> SUFFICES ASSUME IInv, [Next]_vars PROVE TypeOK'
  OBVIOUS
<1>a. TypeOK
  BY DEF IInv
<1>1. ASSUME NEW p \in Partitions, Consume(p) PROVE TypeOK'
  <2>1. current' \in Messages
    BY <1>1, Pairs DEF Consume
  <2>2. position' \in [Partitions -> 1 .. LogLength + 1]
    BY <1>a, <1>1, Offset DEF TypeOK, Consume
  <2>3. pc' \in LoopStates
    BY <1>1 DEF Consume, LoopStates
  <2> QED  BY <1>a, <1>1, <2>1, <2>2, <2>3 DEF TypeOK, Consume, kafkaVars, LoopFrame
<1>2. CASE LoopEnds
  BY <1>a, <1>2 DEF TypeOK, LoopEnds, kafkaVars, LoopFrame, LoopStates
<1>3. CASE WorkCancelled
  BY <1>a, <1>3, InProcess DEF TypeOK, WorkCancelled, LoopFrame, LoopStates
<1>4. CASE ProduceProcessed
  BY <1>a, <1>4, InProcess DEF TypeOK, ProduceProcessed, LoopFrame, LoopStates
<1>5. CASE ProduceProcessedFails
  <2>1. metrics' \in [{"processed"} \cup Reasons -> Nat]
    BY <1>a, <1>5, IncType DEF TypeOK, ProduceProcessedFails, Reasons
  <2>2. processed' \in SUBSET Messages /\ acknowledged' \in SUBSET processed'
    BY <1>a, <1>5, InProcess DEF TypeOK, ProduceProcessedFails
  <2> QED  BY <1>a, <1>5, <2>1, <2>2 DEF TypeOK, ProduceProcessedFails, LoopFrame, LoopStates
<1>6. CASE Commit
  <2>1. metrics' \in [{"processed"} \cup Reasons -> Nat]
    BY <1>a, <1>6, IncType DEF Commit
  <2>2. committed' \in [Partitions -> 1 .. LogLength + 1]
    BY <1>6, CommitType DEF Commit
  <2> QED  BY <1>a, <1>6, <2>1, <2>2 DEF TypeOK, Commit, LoopFrame, LoopStates
<1>7. CASE CommitThrows
  <2>1. committed' \in [Partitions -> 1 .. LogLength + 1]
    BY <1>a, <1>7, CommitType DEF CommitThrows, TypeOK
  <2> QED  BY <1>a, <1>7, <2>1 DEF TypeOK, CommitThrows, LoopFrame, LoopStates
<1>8. CASE ProduceFailed
  BY <1>a, <1>8, InProcess DEF TypeOK, ProduceFailed, LoopFrame, LoopStates
<1>9. CASE ProduceFailedThrows
  <2>1. metrics' \in [{"processed"} \cup Reasons -> Nat]
    BY <1>a, <1>9, IncType DEF TypeOK, ProduceFailedThrows, Reasons
  <2>2. failed' \in SUBSET Messages /\ gaveUp' \in SUBSET Messages
    BY <1>a, <1>9, InProcess DEF TypeOK, ProduceFailedThrows
  <2> QED  BY <1>a, <1>9, <2>1, <2>2 DEF TypeOK, ProduceFailedThrows, LoopFrame, LoopStates
<1>10. CASE CommitAgain
  <2>1. metrics' \in [{"processed"} \cup Reasons -> Nat]
    BY <1>a, <1>10, IncType DEF CommitAgain, Reasons
  <2>2. committed' \in [Partitions -> 1 .. LogLength + 1]
    BY <1>10, CommitType DEF CommitAgain
  <2> QED  BY <1>a, <1>10, <2>1, <2>2 DEF TypeOK, CommitAgain, LoopFrame, LoopStates
<1>11. CASE CommitAgainThrows
  <2>1. committed' \in [Partitions -> 1 .. LogLength + 1]
    BY <1>a, <1>11, CommitType DEF CommitAgainThrows, TypeOK
  <2> QED  BY <1>a, <1>11, <2>1, DisruptionType
           DEF TypeOK, CommitAgainThrows, LoopStates, HostStates
<1>12. CASE Rebalance
  BY <1>a, <1>12, DisruptionType DEF TypeOK, Rebalance, kafkaVars
<1>13. CASE Stop \/ Crash
  BY <1>a, <1>13, DisruptionType DEF TypeOK, Stop, Crash, HostFrame, HostStates, kafkaVars
<1>14. CASE HostStops
  BY <1>a, <1>14 DEF TypeOK, HostStops, HostFrame, HostStates, kafkaVars
<1>15. CASE Restart
  BY <1>a, <1>15, RequestAssumption
  DEF TypeOK, Restart, HostStates, LoopStates, ZeroMetrics, NoRequests, Reasons, kafkaVars
<1>16. CASE UNCHANGED vars
  BY <1>a, <1>16 DEF TypeOK, vars
<1>17. ASSUME NEW r \in Reasons, RequestFails(r) PROVE TypeOK'
  <2>1. metrics' \in [{"processed"} \cup Reasons -> Nat]
    BY <1>a, <1>17, IncType DEF RequestFails
  <2>2. fromRequests' \in [Reasons -> 0 .. MaxRequestFailures]
    BY <1>a, <1>17, RequestAssumption DEF TypeOK, RequestFails
  <2> QED  BY <1>a, <1>17, <2>1, <2>2 DEF TypeOK, RequestFails, kafkaVars
<1> QED
  BY <1>1, <1>2, <1>3, <1>4, <1>5, <1>6, <1>7, <1>8, <1>9, <1>10, <1>11, <1>12, <1>13,
     <1>14, <1>15, <1>16, <1>17
  DEF Next, Loop

-----------------------------------------------------------------------------
(* What a step does.                                                       *)

(* Settles the message in process: it is routed or given up, alone. *)
Settles ==
    /\ pc \notin {"consume", "stopped"}
    /\ committed' = committed
    /\ \/ Routed' = Routed \cup {current} /\ gaveUp' = gaveUp
       \/ Routed' = Routed /\ gaveUp' = gaveUp \cup {current}

(* Commits its offset, alone. *)
Commits ==
    /\ pc \in {"commit", "commitAgain"}
    /\ CommitCurrent
    /\ Routed' = Routed /\ gaveUp' = gaveUp

Quiet == UNCHANGED <<Routed, gaveUp, committed>>

(* Every step is one of these three. *)
LEMMA Effects == [Next]_vars => Settles \/ Commits \/ Quiet
<1> SUFFICES ASSUME [Next]_vars PROVE Settles \/ Commits \/ Quiet
  OBVIOUS
<1>1. CASE ProduceProcessed \/ ProduceProcessedFails \/ WorkCancelled
  BY <1>1 DEF ProduceProcessed, ProduceProcessedFails, WorkCancelled, Settles, Quiet, Routed
<1>2. CASE ProduceFailed \/ ProduceFailedThrows
  BY <1>2 DEF ProduceFailed, ProduceFailedThrows, Settles, Quiet, Routed
<1>3. CASE Commit \/ CommitAgain
  BY <1>3 DEF Commit, CommitAgain, Commits, Routed
<1>4. CASE CommitThrows \/ CommitAgainThrows
  BY <1>4 DEF CommitThrows, CommitAgainThrows, Commits, Quiet, Routed
<1>5. CASE (\E p \in Partitions : Consume(p)) \/ LoopEnds
  BY <1>5 DEF Consume, LoopEnds, Quiet, Routed, kafkaVars
<1>6. CASE Rebalance \/ Stop \/ HostStops \/ Crash \/ Restart
  BY <1>6 DEF Rebalance, Stop, HostStops, Crash, Restart, HostFrame, Quiet, Routed, kafkaVars
<1>7. CASE UNCHANGED vars
  BY <1>7 DEF vars, Quiet, Routed
<1>8. CASE \E r \in Reasons : RequestFails(r)
  BY <1>8 DEF RequestFails, Quiet, Routed, kafkaVars
<1> QED  BY <1>1, <1>2, <1>3, <1>4, <1>5, <1>6, <1>7, <1>8 DEF Next, Loop

LEMMA AccountedGrows == [Next]_vars => Accounted \subseteq Accounted'
  BY Effects DEF Settles, Commits, Quiet, Accounted

(* Where the loop goes: it takes the next message, carries on with the one *)
(* it has, which is accounted for before its commit, lets it go once it is *)
(* accounted for, goes back to the committed offsets, or ends.             *)
Takes ==
    \E p \in Partitions :
        /\ pc = "consume" /\ pc' \notin {"consume", "commit", "commitAgain", "stopped"}
        /\ position[p] \in Offsets
        /\ current' = <<p, position[p]>>
        /\ position' = [position EXCEPT ![p] = @ + 1]

CarriesOn ==
    /\ UNCHANGED <<current, position>>
    /\ pc' = pc \/ {pc, pc'} \cap {"consume", "stopped"} = {}
    /\ pc' = pc \/ (pc' \in {"commit", "commitAgain"} => current \in Accounted')

LetsGo ==
    /\ pc \in {"commit", "commitAgain"} /\ pc' = "consume"
    /\ current' = None
    /\ UNCHANGED position

GoesBack == pc' = "consume" /\ current' = None /\ position' = committed

Ends == pc' = "stopped" /\ current' = None

LEMMA Moves == IInv /\ [Next]_vars => Takes \/ CarriesOn \/ LetsGo \/ GoesBack \/ Ends
<1> SUFFICES ASSUME IInv, [Next]_vars
             PROVE  Takes \/ CarriesOn \/ LetsGo \/ GoesBack \/ Ends
  OBVIOUS
<1>1. CASE \E p \in Partitions : Consume(p)
  BY <1>1 DEF Consume, Takes
<1>2. CASE ProduceProcessed \/ ProduceProcessedFails \/ CommitThrows
  BY <1>2 DEF ProduceProcessed, ProduceProcessedFails, CommitThrows, CarriesOn,
              Accounted, Routed
<1>3. CASE ProduceFailed \/ ProduceFailedThrows
  BY <1>3 DEF ProduceFailed, ProduceFailedThrows, CarriesOn, Accounted, Routed
<1>4. CASE Commit \/ CommitAgain
  BY <1>4 DEF Commit, CommitAgain, LetsGo
<1>5. CASE LoopEnds
  BY <1>5 DEF IInv, CurrentInv, LoopEnds, Ends
<1>6. CASE WorkCancelled \/ CommitAgainThrows
  BY <1>6 DEF WorkCancelled, CommitAgainThrows, Ends
<1>7. CASE Rebalance
  BY <1>7 DEF IInv, CurrentInv, Rebalance, GoesBack
<1>8. CASE Restart
  BY <1>8 DEF Restart, GoesBack
<1>9. CASE Stop \/ HostStops \/ Crash
  BY <1>9 DEF Stop, HostStops, Crash, HostFrame, CarriesOn
<1>10. CASE UNCHANGED vars
  BY <1>10 DEF vars, CarriesOn
<1>11. CASE \E r \in Reasons : RequestFails(r)
  BY <1>11 DEF RequestFails, CarriesOn
<1> QED
  BY <1>1, <1>2, <1>3, <1>4, <1>5, <1>6, <1>7, <1>8, <1>9, <1>10, <1>11 DEF Next, Loop

-----------------------------------------------------------------------------
(* The steps of the invariant.                                             *)

(* The loop leaves only accounted messages behind. *)
LEMMA ReadStep == IInv /\ [Next]_vars => ReadInv'
<1> SUFFICES ASSUME IInv, [Next]_vars, pc' # "stopped",
                    NEW p \in Partitions, NEW k \in 1 .. position'[p] - 1
             PROVE  <<p, k>> \in Accounted' \/ <<p, k>> = current'
  BY DEF ReadInv
<1>1. TypeOK /\ Accounted \subseteq Accounted'
  BY AccountedGrows DEF IInv
<1>2. <<p, k>> # None
  BY Pairs
<1>3. ASSUME pc # "stopped", k \in 1 .. position[p] - 1
      PROVE  <<p, k>> \in Accounted \/ (<<p, k>> = current /\ pc # "consume")
  BY <1>2, <1>3 DEF IInv, ReadInv, CurrentInv
<1>4. CASE GoesBack
  BY <1>1, <1>4 DEF IInv, CommittedInv, GoesBack
<1>5. CASE CarriesOn
  BY <1>1, <1>3, <1>5 DEF CarriesOn
<1>6. CASE LetsGo
  <2>1. current \in Accounted
    BY <1>6 DEF IInv, CurrentInv, LetsGo
  <2> QED  BY <1>1, <1>3, <1>6, <2>1 DEF LetsGo
<1>7. CASE Takes
  <2>1. PICK q \in Partitions : /\ pc = "consume"
                                /\ position[q] \in Offsets
                                /\ current' = <<q, position[q]>>
                                /\ position' = [position EXCEPT ![q] = @ + 1]
    BY <1>7 DEF Takes
  <2>2. k \in 1 .. position[p] - 1 \/ (p = q /\ k = position[q])
    <3>1. position[p] \in Int /\ position[q] \in Int
      BY <1>1, Offset DEF TypeOK
    <3>2. position'[p] = IF p = q THEN position[p] + 1 ELSE position[p]
      BY <1>1, <2>1 DEF TypeOK
    <3> QED  BY <3>1, <3>2
  <2> QED  BY <1>1, <1>3, <2>1, <2>2
<1> QED  BY <1>4, <1>5, <1>6, <1>7, Moves DEF Ends

(* An offset is committed only over accounted messages. *)
LEMMA CommittedStep == IInv /\ [Next]_vars => CommittedInv'
<1> SUFFICES ASSUME IInv, [Next]_vars,
                    NEW p \in Partitions, NEW k \in 1 .. committed'[p] - 1
             PROVE  <<p, k>> \in Accounted'
  BY DEF CommittedInv
<1>1. TypeOK /\ Accounted \subseteq Accounted'
  BY AccountedGrows DEF IInv
<1>2. CASE committed' = committed
  BY <1>1, <1>2 DEF IInv, CommittedInv
<1>3. CASE Commits
  <2>1. current \in Accounted
    BY <1>3 DEF IInv, CurrentInv, Commits
  <2>2. PICK q \in Partitions, i \in Offsets : current = <<q, i>>
    BY <1>3, InProcess DEF Commits
  <2>3. \A n \in 1 .. i - 1 : <<q, n>> \in Accounted
    BY <2>2 DEF IInv, CurrentInv
  <2>4. CASE p = q
    <3>1. committed'[p] = i + 1
      BY <1>1, <1>3, <2>2, <2>4 DEF TypeOK, Commits, CommitCurrent
    <3>2. k = i \/ k \in 1 .. i - 1
      BY <3>1, Offset
    <3> QED  BY <1>1, <2>1, <2>2, <2>3, <2>4, <3>2
  <2>5. CASE p # q
    <3>1. committed'[p] = committed[p]
      BY <1>1, <1>3, <2>2, <2>5 DEF TypeOK, Commits, CommitCurrent
    <3> QED  BY <1>1, <3>1 DEF IInv, CommittedInv
  <2> QED  BY <2>4, <2>5
<1> QED  BY <1>2, <1>3, Effects DEF Settles, Quiet

(* The message in process has only accounted messages before it, and is    *)
(* accounted for itself when its commit begins.                            *)
LEMMA CurrentStep == IInv /\ [Next]_vars => CurrentInv'
<1> SUFFICES ASSUME IInv, [Next]_vars PROVE CurrentInv'
  OBVIOUS
<1>1. CurrentInv /\ Accounted \subseteq Accounted'
  BY AccountedGrows DEF IInv
<1>2. CASE GoesBack \/ Ends \/ LetsGo
  BY <1>2, Pairs DEF GoesBack, Ends, LetsGo, CurrentInv
<1>3. CASE CarriesOn
  BY <1>1, <1>3 DEF CarriesOn, CurrentInv
<1>4. CASE Takes
  <2>1. PICK q \in Partitions :
            /\ pc = "consume" /\ pc' \notin {"consume", "commit", "commitAgain", "stopped"}
            /\ position[q] \in Offsets
            /\ current' = <<q, position[q]>>
    BY <1>4 DEF Takes
  <2>2. \A k \in 1 .. position[q] - 1 : <<q, k>> \in Accounted'
    BY <1>1, <2>1, Pairs DEF IInv, ReadInv, CurrentInv
  <2> QED  BY <2>1, <2>2, Pairs DEF CurrentInv
<1> QED  BY <1>2, <1>3, <1>4, Moves

(* What is routed is the message in process, so order is kept. *)
LEMMA OrderStep == IInv /\ [Next]_vars => OrderInv'
<1> SUFFICES ASSUME IInv, [Next]_vars,
                    NEW p \in Partitions, NEW i \in Offsets, <<p, i>> \in Routed',
                    NEW k \in 1 .. i - 1
             PROVE  <<p, k>> \in Accounted'
  BY DEF OrderInv
<1>1. <<p, i>> \in Routed \/ <<p, i>> = current
  BY Effects DEF Settles, Commits, Quiet
<1>2. <<p, k>> \in Accounted
  BY <1>1 DEF IInv, OrderInv, CurrentInv
<1> QED  BY <1>2, AccountedGrows

LEMMA NextInv == IInv /\ [Next]_vars => IInv'
  BY TypeStep, ReadStep, CommittedStep, CurrentStep, OrderStep DEF IInv

-----------------------------------------------------------------------------
(* The theorems.                                                           *)

(* The invariant of the loop (ConsumeLoopAsync, ProcessMessageAsync). *)
THEOREM Inductive == Spec => []IInv
  BY InitInv, NextInv, PTL DEF Spec

(* The variables have their types. *)
THEOREM TypeCorrect == Spec => []TypeOK
<1>1. IInv => TypeOK
  BY DEF IInv
<1> QED  BY <1>1, Inductive, PTL

(* A message whose offset is committed is on an output topic, or its write *)
(* to orders.failed failed in the catch block.                             *)
THEOREM NothingElseLost == Spec => []CommittedAccounted
<1>1. IInv => CommittedAccounted
  BY Pairs, Offset DEF IInv, TypeOK, CommittedInv, CommittedAccounted, CommittedMessages
<1> QED  BY <1>1, Inductive, PTL

(* Within a partition no message is routed before the earlier ones are     *)
(* accounted for.                                                          *)
THEOREM InOrder == Spec => []NoOvertaking
<1>1. IInv => NoOvertaking
  <2> SUFFICES ASSUME IInv, NEW m \in Routed, NEW k \in 1 .. m[2] - 1
               PROVE  <<m[1], k>> \in Accounted
    BY DEF NoOvertaking
  <2>1. m \in Messages
    BY DEF IInv, TypeOK, Routed
  <2> QED  BY <2>1, Pairs DEF IInv, OrderInv
<1> QED  BY <1>1, Inductive, PTL

(* Every step is a step of the abstract router, or invisible to it. *)
LEMMA StepRefines == IInv /\ [Next]_vars => [Router!Next]_(Router!vars)
<1> SUFFICES ASSUME IInv, [Next]_vars PROVE Router!Next \/ UNCHANGED Router!vars
  OBVIOUS
<1>1. Router!Settled = Accounted /\ Router!Offsets = Offsets
  BY DEF Router!Settled, Accounted, Router!Offsets, Offsets
<1>2. ASSUME pc \notin {"consume", "stopped"}
      PROVE  \E p \in Partitions, i \in Offsets : current = <<p, i>> /\ Router!Ready(p, i)
  <2>1. PICK p \in Partitions, i \in Offsets : current = <<p, i>>
    BY <1>2, InProcess
  <2>2. \A k \in 1 .. i - 1 : <<p, k>> \in Accounted
    BY <2>1 DEF IInv, CurrentInv
  <2> QED  BY <1>1, <2>1, <2>2 DEF Router!Ready
<1>3. CASE Settles
  <2>1. PICK p \in Partitions, i \in Offsets : current = <<p, i>> /\ Router!Ready(p, i)
    BY <1>2, <1>3 DEF Settles
  <2>2. Router!Route(p, i) \/ Router!GiveUp(p, i)
    BY <1>3, <2>1 DEF Settles, Router!Route, Router!GiveUp
  <2> QED  BY <1>1, <2>2 DEF Router!Next
<1>4. CASE Commits
  <2>1. PICK p \in Partitions, i \in Offsets : current = <<p, i>> /\ Router!Ready(p, i)
    BY <1>2, <1>4 DEF Commits
  <2>2. current \in Accounted
    BY <1>4 DEF IInv, CurrentInv, Commits
  <2>3. Router!Ready(p, i + 1)
    BY <1>1, <2>1, <2>2, Offset DEF Router!Ready
  <2>4. Router!Commit(p, i)
    BY <1>4, <2>1, <2>3 DEF Commits, CommitCurrent, Router!Commit
  <2> QED  BY <1>1, <2>4 DEF Router!Next
<1>5. CASE Quiet
  BY <1>5 DEF Quiet, Router!vars
<1> QED  BY <1>3, <1>4, <1>5, Effects

(* The .NET consumer implements the at-least-once router. *)
THEOREM Refinement == Spec => ImplementsDelivery
<1>1. Init => Router!Init
  BY DEF Init, Router!Init, Routed, FromStart, Router!Messages
<1> QED  BY <1>1, StepRefines, Inductive, PTL DEF Spec, ImplementsDelivery, Router!Spec

-----------------------------------------------------------------------------
(* Counting the messages the loop is through with.                         *)

LEMMA MessagesFinite == IsFiniteSet(Messages)
<1>1. IsFiniteSet(Offsets)
  BY Offset, FS_Interval
<1> QED  BY <1>1, PartitionsAssumption, FS_Product DEF Messages

(* The message in process is the last one the loop has taken. *)
Latest == current # None => position[current[1]] = current[2] + 1

(* Taking a message adds none to those the loop is through with ... *)
LEMMA ThroughTaken ==
  ASSUME TypeOK, current = None, NEW p \in Partitions, Consume(p)
  PROVE  Through' = Through /\ Latest'
<1> USE Offset
<1>1. /\ current' = <<p, position[p]>>
      /\ position[p] \in Nat
      /\ position'[p] = position[p] + 1
      /\ \A q \in Partitions \ {p} : position'[q] = position[q]
  BY DEF Consume, TypeOK
<1>2. ASSUME NEW m \in Messages
      PROVE  m[2] < position'[m[1]] /\ m # current' <=> m[2] < position[m[1]] /\ m # current
  <2>1. m[1] \in Partitions /\ m[2] \in Nat /\ m = <<m[1], m[2]>> /\ m # None
    BY Pairs
  <2>2. m # current' <=> m[1] # p \/ m[2] # position[p]
    BY <1>1, <2>1
  <2> QED  BY <1>1, <2>1, <2>2
<1>3. Through' = Through
  BY <1>2 DEF Through
<1>4. Latest'
  BY <1>1 DEF Latest
<1> QED  BY <1>3, <1>4

(* ... and letting one go adds that one. *)
LEMMA ThroughLetGo ==
  ASSUME TypeOK, Latest, current \in Messages, current' = None, position' = position
  PROVE  /\ current \notin Through /\ Through' = Through \cup {current}
         /\ Latest'
<1>1. current[1] \in Partitions /\ current[2] \in Nat /\ current # None
  BY Pairs, Offset
<1>2. current[2] < position[current[1]]
  BY <1>1 DEF Latest
<1> QED  BY <1>2, Pairs DEF Through, Latest

LEMMA ThroughStays ==
  ASSUME UNCHANGED <<position, current>>
  PROVE  Through' = Through /\ Latest = Latest'
  BY DEF Through, Latest

LEMMA OneMore ==
  ASSUME NEW S \in SUBSET Messages, NEW m \in Messages \ S
  PROVE  Cardinality(S) \in Nat /\ Cardinality(S \cup {m}) = Cardinality(S) + 1
  BY MessagesFinite, FS_Subset, FS_CardinalityType, FS_AddElement

-----------------------------------------------------------------------------
(* Without a disruption: the counters.                                     *)

(* How many failures of the message in process the producer has counted at *)
(* most: one for each write that lies behind it.                           *)
Failures == IF pc = "deadLetter" THEN 1 ELSE IF pc = "commitAgain" THEN 2 ELSE 0

(* The consumer's own failures, with the requests' share on the other side *)
(* of each comparison.                                                     *)
Counted ==
    /\ fromRequests["processing"] <= metrics["processing"]
    /\ fromRequests["kafka"] <= metrics["kafka"]
    /\ metrics["processed"] + metrics["processing"]
         = Cardinality(Through) + fromRequests["processing"]
    /\ metrics["kafka"] + 2 * fromRequests["processing"]
         <= 2 * metrics["processing"] + fromRequests["kafka"] + Failures

SteadyInv ==
    disruptions = 0 =>
        /\ host = "running" /\ pc # "stopped"
        /\ Latest
        /\ Counted

LEMMA FailuresAre ==
    /\ pc \in {"consume", "work", "commit", "stopped"} => Failures = 0
    /\ pc = "deadLetter" => Failures = 1
    /\ pc = "commitAgain" => Failures = 2
  BY DEF Failures

LEMMA SteadyInit == Init => SteadyInv
<1> SUFFICES ASSUME Init PROVE SteadyInv
  OBVIOUS
<1>1. Through = {}
  BY Pairs, Offset DEF Init, Through, FromStart
<1>2. /\ metrics["processed"] = 0 /\ metrics["processing"] = 0 /\ metrics["kafka"] = 0
      /\ fromRequests["processing"] = 0 /\ fromRequests["kafka"] = 0
  BY DEF Init, ZeroMetrics, NoRequests, Reasons
<1> QED  BY <1>1, <1>2, FailuresAre, FS_EmptySet DEF Init, SteadyInv, Counted, Latest

LEMMA SteadyStep == IInv /\ SteadyInv /\ [Next]_vars => SteadyInv'
<1> SUFFICES ASSUME IInv, SteadyInv, [Next]_vars, disruptions' = 0
             PROVE  /\ host' = "running" /\ pc' # "stopped"
                    /\ Latest'
                    /\ Counted'
  BY DEF SteadyInv
<1> DEFINE Goal ==
      /\ host' = "running" /\ pc' # "stopped"
      /\ Latest'
      /\ Counted'
<1>a. TypeOK /\ CurrentInv /\ disruptions \in Nat
  BY DEF IInv, TypeOK
<1>b. disruptions = 0 /\ ~(Rebalance \/ Stop \/ Crash \/ CommitAgainThrows)
  <2>1. Rebalance \/ Stop \/ Crash \/ CommitAgainThrows => disruptions' = disruptions + 1
    BY DEF Rebalance, Stop, Crash, CommitAgainThrows, Disruption
  <2>2. disruptions' = disruptions \/ disruptions' = disruptions + 1
    BY <2>1 DEF Next, Loop, Consume, LoopEnds, WorkCancelled, ProduceProcessed,
                ProduceProcessedFails, Commit, CommitThrows, ProduceFailed,
                ProduceFailedThrows, CommitAgain, LoopFrame, HostStops, Restart,
                RequestFails, vars
  <2> QED  BY <1>a, <2>1, <2>2
<1>c. host = "running" /\ pc # "stopped" /\ Latest /\ Counted
  BY <1>b DEF SteadyInv
<1>d. /\ metrics["processed"] \in Nat /\ metrics["processing"] \in Nat
      /\ metrics["kafka"] \in Nat
      /\ fromRequests["processing"] \in Nat /\ fromRequests["kafka"] \in Nat
  BY <1>a, RequestAssumption DEF TypeOK, Reasons
<1>h. Loop => fromRequests' = fromRequests
  BY DEF Loop, Consume, LoopEnds, WorkCancelled, ProduceProcessed, ProduceProcessedFails,
         Commit, CommitThrows, ProduceFailed, ProduceFailedThrows, CommitAgain, LoopFrame
<1>e. Failures \in {0, 1, 2}
  BY DEF Failures
<1>f. ~Cancelled /\ ~Disposed
  BY <1>c DEF Cancelled, Disposed
<1>g. /\ pc' \in {"consume", "work", "commit", "stopped"} => Failures' = 0
      /\ pc' = "deadLetter" => Failures' = 1
      /\ pc' = "commitAgain" => Failures' = 2
  BY DEF Failures
<1>1. ASSUME NEW p \in Partitions, Consume(p) PROVE Goal
  <2>1. /\ pc = "consume" /\ pc' \in {"deadLetter", "work"}
        /\ host' = host /\ metrics' = metrics /\ fromRequests' = fromRequests
    BY <1>1 DEF Consume, LoopFrame
  <2>2. Through' = Through /\ Latest'
    BY <1>1, <1>a, <2>1, ThroughTaken DEF CurrentInv
  <2>3. Failures = 0 /\ Failures' \in {0, 1}
    BY <1>g, <2>1, FailuresAre
  <2> QED  BY <1>c, <1>d, <2>1, <2>2, <2>3 DEF Counted
<1>2. CASE ProduceProcessed \/ ProduceProcessedFails \/ CommitThrows
  <2>1. /\ pc \in {"work", "commit"} /\ pc' \in {"commit", "deadLetter"}
        /\ pc' = "commit" => metrics' = metrics
        /\ host' = host /\ UNCHANGED <<position, current>>
    BY <1>2 DEF ProduceProcessed, ProduceProcessedFails, CommitThrows
  <2>2. /\ metrics'["processed"] = metrics["processed"]
        /\ metrics'["processing"] = metrics["processing"]
        /\ metrics'["kafka"] \in {metrics["kafka"], metrics["kafka"] + 1}
    BY <1>2, <1>a DEF ProduceProcessed, ProduceProcessedFails, CommitThrows, Inc, TypeOK, Reasons
  <2>3. Through' = Through /\ Latest'
    BY <1>c, <2>1, ThroughStays
  <2>4. Failures = 0 /\ (pc' = "commit" => Failures' = 0) /\ (pc' = "deadLetter" => Failures' = 1)
    BY <1>g, <2>1, FailuresAre
  <2>5. fromRequests' = fromRequests
    BY <1>h, <1>2 DEF Loop
  <2> QED  BY <1>c, <1>d, <2>1, <2>2, <2>3, <2>4, <2>5 DEF Counted
<1>3. CASE ProduceFailed \/ ProduceFailedThrows
  <2>1. /\ pc = "deadLetter" /\ pc' = "commitAgain"
        /\ host' = host /\ UNCHANGED <<position, current>>
    BY <1>3 DEF ProduceFailed, ProduceFailedThrows
  <2>2. /\ metrics'["processed"] = metrics["processed"]
        /\ metrics'["processing"] = metrics["processing"]
        /\ metrics'["kafka"] \in {metrics["kafka"], metrics["kafka"] + 1}
    BY <1>3, <1>a DEF ProduceFailed, ProduceFailedThrows, Inc, TypeOK, Reasons
  <2>3. Through' = Through /\ Latest'
    BY <1>c, <2>1, ThroughStays
  <2>4. Failures = 1 /\ Failures' = 2
    BY <1>g, <2>1, FailuresAre
  <2>5. fromRequests' = fromRequests
    BY <1>h, <1>3 DEF Loop
  <2> QED  BY <1>c, <1>d, <2>1, <2>2, <2>3, <2>4, <2>5 DEF Counted
<1>4. CASE Commit \/ CommitAgain
  <2>1. /\ pc \in {"commit", "commitAgain"} /\ pc' = "consume" /\ current' = None
        /\ host' = host /\ position' = position
    BY <1>4 DEF Commit, CommitAgain
  <2>2. current \in Messages /\ Through \in SUBSET Messages
    BY <2>1, InProcess DEF Through
  <2>3. current \notin Through /\ Through' = Through \cup {current} /\ Latest'
    BY <1>a, <1>c, <2>1, <2>2, ThroughLetGo
  <2>4. Cardinality(Through) \in Nat /\ Cardinality(Through') = Cardinality(Through) + 1
    BY <2>2, <2>3, OneMore
  <2>5. /\ metrics'["kafka"] = metrics["kafka"]
        /\ \/ /\ pc = "commit" /\ metrics'["processed"] = metrics["processed"] + 1
              /\ metrics'["processing"] = metrics["processing"]
           \/ /\ pc = "commitAgain" /\ metrics'["processed"] = metrics["processed"]
              /\ metrics'["processing"] = metrics["processing"] + 1
    BY <1>4, <1>a DEF Commit, CommitAgain, Inc, TypeOK, Reasons
  <2>6. /\ pc = "commit" => Failures = 0
        /\ pc = "commitAgain" => Failures = 2
        /\ Failures' = 0
    BY <1>g, <2>1, FailuresAre
  <2>7. fromRequests' = fromRequests
    BY <1>h, <1>4 DEF Loop
  <2> QED  BY <1>c, <1>d, <2>1, <2>3, <2>4, <2>5, <2>6, <2>7 DEF Counted
<1>5. CASE LoopEnds \/ WorkCancelled \/ HostStops \/ Restart
  BY <1>5, <1>c, <1>f DEF LoopEnds, WorkCancelled, HostStops, Restart
<1>6. CASE UNCHANGED vars
  BY <1>6, <1>c, ThroughStays DEF vars, Failures, Counted
<1>7. ASSUME NEW r \in Reasons, RequestFails(r) PROVE Goal
  <2>1. UNCHANGED <<pc, host, position, current>>
    BY <1>7 DEF RequestFails
  <2>2. /\ metrics'["processed"] = metrics["processed"]
        /\ \/ /\ metrics'["processing"] = metrics["processing"] + 1
              /\ fromRequests'["processing"] = fromRequests["processing"] + 1
              /\ metrics'["kafka"] = metrics["kafka"]
              /\ fromRequests'["kafka"] = fromRequests["kafka"]
           \/ /\ metrics'["kafka"] = metrics["kafka"] + 1
              /\ fromRequests'["kafka"] = fromRequests["kafka"] + 1
              /\ metrics'["processing"] = metrics["processing"]
              /\ fromRequests'["processing"] = fromRequests["processing"]
    BY <1>7, <1>a DEF RequestFails, Inc, TypeOK, Reasons
  <2>3. Through' = Through /\ Latest' /\ Failures' = Failures
    BY <1>c, <2>1, ThroughStays DEF Failures
  <2>4. Cardinality(Through) \in Nat
    BY MessagesFinite, FS_Subset, FS_CardinalityType DEF Through
  <2>5. Counted'
    <3>1. /\ fromRequests["processing"] <= metrics["processing"]
          /\ fromRequests["kafka"] <= metrics["kafka"]
          /\ metrics["processed"] + metrics["processing"]
               = Cardinality(Through) + fromRequests["processing"]
          /\ metrics["kafka"] + 2 * fromRequests["processing"]
               <= 2 * metrics["processing"] + fromRequests["kafka"] + Failures
      BY <1>c DEF Counted
    <3>2. /\ fromRequests'["processing"] <= metrics'["processing"]
          /\ fromRequests'["kafka"] <= metrics'["kafka"]
          /\ metrics'["processed"] + metrics'["processing"]
               = Cardinality(Through) + fromRequests'["processing"]
          /\ metrics'["kafka"] + 2 * fromRequests'["processing"]
               <= 2 * metrics'["processing"] + fromRequests'["kafka"] + Failures
      BY <1>d, <1>e, <2>2, <2>4, <3>1
    <3> QED  BY <2>3, <3>2 DEF Counted
  <2> QED  BY <1>c, <2>1, <2>3, <2>5
<1> QED
  BY <1>b, <1>1, <1>2, <1>3, <1>4, <1>5, <1>6, <1>7 DEF Next, Loop

(* Each message the loop is through with is counted once, next to what the *)
(* requests of the process add to the same counters (ProcessMessageAsync,  *)
(* KafkaProducerService.ProduceAsync, PlaceOrderHandler.Handle).           *)
THEOREM CountedJustOnce == Spec => []CountedOnce
<1>1. Init => IInv /\ SteadyInv
  BY InitInv, SteadyInit
<1>2. (IInv /\ SteadyInv) /\ [Next]_vars => (IInv /\ SteadyInv)'
  BY NextInv, SteadyStep
<1>3. IInv /\ SteadyInv => CountedOnce
  <2> SUFFICES ASSUME IInv, SteadyInv, disruptions = 0
               PROVE  /\ metrics["processed"] + OwnFailures("processing") = Cardinality(Through)
                      /\ OwnFailures("kafka") \in
                           0 .. 2 * (OwnFailures("processing") + IF current = None THEN 0 ELSE 1)
    BY DEF CountedOnce
  <2> DEFINE open == IF current = None THEN 0 ELSE 1
  <2>1. /\ metrics["processed"] \in Nat
        /\ metrics["processing"] \in Nat /\ metrics["kafka"] \in Nat
        /\ fromRequests["processing"] \in Nat /\ fromRequests["kafka"] \in Nat
    BY RequestAssumption DEF IInv, TypeOK, Reasons
  <2>2. Counted
    BY DEF SteadyInv
  <2>3. Failures \in {0, 1, 2} /\ Failures <= 2 * open /\ open \in {0, 1}
    BY DEF IInv, CurrentInv, Failures
  <2>4. Through \subseteq Messages
    BY DEF Through
  <2>5. Cardinality(Through) \in Nat
    BY <2>4, MessagesFinite, FS_Subset, FS_CardinalityType
  <2>6. metrics["processed"] + OwnFailures("processing") = Cardinality(Through)
    BY <2>1, <2>2, <2>5 DEF Counted, OwnFailures
  <2>7. OwnFailures("kafka") \in 0 .. 2 * (OwnFailures("processing") + open)
    <3> HIDE DEF open
    <3> QED  BY <2>1, <2>2, <2>3 DEF Counted, OwnFailures
  <2> QED  BY <2>6, <2>7
<1> QED  BY <1>1, <1>2, <1>3, PTL DEF Spec

-----------------------------------------------------------------------------
(* While nothing fails.                                                    *)

Tally(p, q) ==
    /\ metrics["processed"] = p
    /\ metrics["processing"] = q + fromRequests["processing"]
    /\ metrics["kafka"] = fromRequests["kafka"]

CalmInv ==
    calm =>
        /\ disruptions = 0
        /\ pc \in {"work", "commit"} => current \notin poison
        /\ pc \in {"deadLetter", "commitAgain"} => current \in poison
        /\ processed = (Through \ poison) \cup (IF pc = "commit" THEN {current} ELSE {})
        /\ failed = (Through \cap poison) \cup (IF pc = "commitAgain" THEN {current} ELSE {})
        /\ Through = CommittedMessages
        /\ Tally(Cardinality(Through \ poison), Cardinality(Through \cap poison))

LEMMA CalmInit == Init => CalmInv
<1> SUFFICES ASSUME Init PROVE CalmInv
  OBVIOUS
<1>1. Through = {} /\ CommittedMessages = {}
  BY Pairs, Offset DEF Init, Through, CommittedMessages, FromStart
<1>2. Tally(0, 0)
  BY DEF Init, ZeroMetrics, NoRequests, Reasons, Tally
<1>3. Through \ poison = {} /\ Through \cap poison = {}
  BY <1>1
<1> QED  BY <1>1, <1>2, <1>3, FS_EmptySet DEF Init, CalmInv

(* The committed messages when the loop commits the latest one.            *)
LEMMA CommitLatest ==
  ASSUME TypeOK, Latest, current \in Messages, CommitCurrent, Through = CommittedMessages
  PROVE  CommittedMessages' = CommittedMessages \cup {current}
<1> DEFINE p == current[1]  i == current[2]
<1>1. /\ p \in Partitions /\ i \in Nat /\ current = <<p, i>> /\ current # None
      /\ committed'[p] = i + 1 /\ \A q \in Partitions \ {p} : committed'[q] = committed[q]
      /\ position[p] = i + 1
  BY Pairs, Offset DEF TypeOK, CommitCurrent, Latest
<1>2. ASSUME NEW m \in Messages
      PROVE  m[2] < committed'[m[1]] <=> m[2] < committed[m[1]] \/ m = current
  <2>1. m[1] \in Partitions /\ m[2] \in Nat /\ m = <<m[1], m[2]>>
    BY Pairs, Offset
  <2>2. m[2] < position[m[1]] /\ m # current <=> m[2] < committed[m[1]]
    BY DEF Through, CommittedMessages
  <2>3. CASE m[1] = p
    <3>1. m = current <=> m[2] = i
      BY <1>1, <2>1, <2>3
    <3> QED  BY <1>1, <2>1, <2>2, <2>3, <3>1
  <2>4. CASE m[1] # p
    BY <1>1, <2>1, <2>4
  <2> QED  BY <2>3, <2>4
<1> QED  BY <1>2 DEF CommittedMessages

LEMMA CalmStep == IInv /\ SteadyInv /\ CalmInv /\ [Next]_vars => CalmInv'
<1> SUFFICES ASSUME IInv, SteadyInv, CalmInv, [Next]_vars, calm' PROVE CalmInv'
  BY DEF CalmInv
<1>a. TypeOK /\ CurrentInv
  BY DEF IInv
<1>b. /\ ~(Rebalance \/ Stop \/ Crash \/ CommitAgainThrows)
      /\ ~(ProduceProcessedFails \/ CommitThrows \/ ProduceFailedThrows)
  BY DEF Rebalance, Stop, Crash, CommitAgainThrows, Disruption, ProduceProcessedFails,
         CommitThrows, ProduceFailedThrows
<1>c. calm
  BY <1>b DEF Next, Loop, Consume, LoopEnds, WorkCancelled, ProduceProcessed, Commit,
              ProduceFailed, CommitAgain, HostStops, Restart, RequestFails, vars
<1>d. host = "running" /\ Latest /\ ~Cancelled /\ disruptions = 0
  BY <1>c DEF CalmInv, SteadyInv, Cancelled
<1> DEFINE T == Through \ poison  F == Through \cap poison
<1>e. /\ pc \in {"work", "commit"} => current \notin poison
      /\ pc \in {"deadLetter", "commitAgain"} => current \in poison
      /\ processed = T \cup (IF pc = "commit" THEN {current} ELSE {})
      /\ failed = F \cup (IF pc = "commitAgain" THEN {current} ELSE {})
      /\ Through = CommittedMessages
      /\ Tally(Cardinality(T), Cardinality(F))
  BY <1>c DEF CalmInv
<1>1. ASSUME NEW p \in Partitions, Consume(p) PROVE CalmInv'
  <2>1. /\ pc = "consume" /\ pc' = IF current' \in poison THEN "deadLetter" ELSE "work"
        /\ UNCHANGED <<metrics, fromRequests, committed, processed, failed, poison, disruptions>>
    BY <1>1 DEF Consume, kafkaVars, LoopFrame
  <2>2. Through' = Through
    BY <1>1, <1>a, <2>1, ThroughTaken DEF CurrentInv
  <2> QED  BY <1>d, <1>e, <2>1, <2>2 DEF CalmInv, CommittedMessages, Tally
<1>2. CASE ProduceProcessed
  <2>1. /\ pc = "work" /\ pc' = "commit" /\ processed' = processed \cup {current}
        /\ UNCHANGED <<metrics, fromRequests, committed, failed, poison, disruptions,
                       position, current>>
    BY <1>2 DEF ProduceProcessed, LoopFrame
  <2>2. Through' = Through
    BY <2>1, ThroughStays
  <2> QED  BY <1>d, <1>e, <2>1, <2>2 DEF CalmInv, CommittedMessages, Tally
<1>3. CASE ProduceFailed
  <2>1. /\ pc = "deadLetter" /\ pc' = "commitAgain" /\ failed' = failed \cup {current}
        /\ UNCHANGED <<metrics, fromRequests, committed, processed, poison, disruptions,
                       position, current>>
    BY <1>3 DEF ProduceFailed, LoopFrame
  <2>2. Through' = Through
    BY <2>1, ThroughStays
  <2> QED  BY <1>d, <1>e, <2>1, <2>2 DEF CalmInv, CommittedMessages, Tally
<1>4. CASE Commit \/ CommitAgain
  <2>1. /\ pc \in {"commit", "commitAgain"} /\ pc' = "consume" /\ current' = None
        /\ CommitCurrent
        /\ UNCHANGED <<fromRequests, processed, failed, poison, disruptions, position>>
    BY <1>4 DEF Commit, CommitAgain, LoopFrame
  <2>2. current \in Messages /\ T \in SUBSET Messages /\ F \in SUBSET Messages
    BY <2>1, InProcess DEF Through
  <2>3. current \notin Through /\ Through' = Through \cup {current}
    BY <1>a, <1>d, <2>1, <2>2, ThroughLetGo
  <2>4. Through' = CommittedMessages'
    BY <1>a, <1>d, <1>e, <2>1, <2>2, <2>3, CommitLatest
  <2>5. CASE pc = "commit"
    <3>1. T' = T \cup {current} /\ F' = F /\ current \notin T
      BY <1>e, <2>1, <2>3, <2>5
    <3>2. Cardinality(T') = Cardinality(T) + 1
      BY <2>2, <3>1, OneMore
    <3>3. Tally(Cardinality(T), Cardinality(F))'
      <4>1. Cardinality(F') = Cardinality(F)
        BY <3>1
      <4>2. /\ metrics'["processed"] = metrics["processed"] + 1
            /\ metrics'["processing"] = metrics["processing"]
            /\ metrics'["kafka"] = metrics["kafka"]
        BY <1>4, <1>a, <2>5 DEF Commit, CommitAgain, Inc, TypeOK, Reasons
      <4> QED  BY <1>e, <2>1, <3>2, <4>1, <4>2 DEF Tally
    <3>4. processed' = T' /\ failed' = F'
      BY <1>e, <2>1, <2>5, <3>1
    <3> QED  BY <1>d, <2>1, <2>4, <3>3, <3>4 DEF CalmInv
  <2>6. CASE pc = "commitAgain"
    <3>1. F' = F \cup {current} /\ T' = T /\ current \notin F
      BY <1>e, <2>1, <2>3, <2>6
    <3>2. Cardinality(F') = Cardinality(F) + 1
      BY <2>2, <3>1, OneMore
    <3>3. Tally(Cardinality(T), Cardinality(F))'
      <4>1. Cardinality(T') = Cardinality(T)
        BY <3>1
      <4>2. /\ metrics'["processed"] = metrics["processed"]
            /\ metrics'["processing"] = metrics["processing"] + 1
            /\ metrics'["kafka"] = metrics["kafka"]
        BY <1>4, <1>a, <2>6 DEF Commit, CommitAgain, Inc, TypeOK, Reasons
      <4>3. Cardinality(F) \in Nat
        BY <2>2, <3>1, OneMore
      <4>4. fromRequests["processing"] \in Nat
        BY <1>a, RequestAssumption DEF TypeOK, Reasons
      <4> QED  BY <1>e, <2>1, <3>2, <4>1, <4>2, <4>3, <4>4 DEF Tally
    <3>4. processed' = T' /\ failed' = F'
      BY <1>e, <2>1, <2>6, <3>1
    <3> QED  BY <1>d, <2>1, <2>4, <3>3, <3>4 DEF CalmInv
  <2> QED  BY <2>1, <2>5, <2>6
<1>5. CASE LoopEnds \/ WorkCancelled \/ HostStops \/ Restart
  BY <1>5, <1>d DEF LoopEnds, WorkCancelled, HostStops, Restart
<1>6. CASE UNCHANGED vars
  <2>1. Through' = Through
    BY <1>6, ThroughStays DEF vars
  <2> QED  BY <1>6, <2>1 DEF vars, CalmInv, CommittedMessages, Tally
<1>7. ASSUME NEW r \in Reasons, RequestFails(r) PROVE CalmInv'
  <2>1. UNCHANGED <<pc, committed, processed, failed, poison, disruptions, position, current>>
    BY <1>7 DEF RequestFails, kafkaVars
  <2>2. Through' = Through
    BY <2>1, ThroughStays
  <2>3. Cardinality(F) \in Nat
    BY MessagesFinite, FS_Subset, FS_CardinalityType DEF Through
  <2>4. \A c \in Reasons : fromRequests[c] \in Nat
    BY <1>a, RequestAssumption DEF TypeOK
  <2>5. Tally(Cardinality(T), Cardinality(F))'
    <3>1. /\ metrics'["processed"] = Cardinality(T)
          /\ metrics'["processing"] = Cardinality(F) + fromRequests'["processing"]
          /\ metrics'["kafka"] = fromRequests'["kafka"]
      BY <1>7, <1>a, <1>e, <2>3, <2>4 DEF RequestFails, Inc, Tally, TypeOK, Reasons
    <3> QED  BY <2>1, <2>2, <3>1 DEF Tally
  <2> QED  BY <1>d, <1>e, <2>1, <2>2, <2>5 DEF CalmInv, CommittedMessages
<1> QED
  BY <1>b, <1>1, <1>2, <1>3, <1>4, <1>5, <1>6, <1>7 DEF Next, Loop

(* While nothing goes wrong delivery is exactly once, and counted once.    *)
THEOREM ExactlyOnce == Spec => []CalmExactlyOnce
<1>1. Init => IInv /\ SteadyInv /\ CalmInv
  BY InitInv, SteadyInit, CalmInit
<1>2. (IInv /\ SteadyInv /\ CalmInv) /\ [Next]_vars => (IInv /\ SteadyInv /\ CalmInv)'
  BY NextInv, SteadyStep, CalmStep
<1>3. IInv /\ CalmInv => CalmExactlyOnce
  <2> SUFFICES ASSUME IInv, CalmInv, calm PROVE CalmExactlyOnce
    BY DEF CalmExactlyOnce
  <2>1. Through \cap poison \subseteq Messages
    BY DEF Through
  <2>2. Cardinality(Through \cap poison) \in Nat
    BY <2>1, MessagesFinite, FS_Subset, FS_CardinalityType
  <2>3. fromRequests["processing"] \in Nat /\ fromRequests["kafka"] \in Nat
    BY RequestAssumption DEF IInv, TypeOK, Reasons
  <2>4. /\ OwnFailures("processing") = Cardinality(Through \cap poison)
        /\ OwnFailures("kafka") = 0
    BY <2>2, <2>3 DEF CalmInv, Tally, OwnFailures
  <2> QED  BY <2>4 DEF CalmInv, CalmExactlyOnce, Tally
<1> QED  BY <1>1, <1>2, <1>3, PTL DEF Spec

-----------------------------------------------------------------------------
(* Progress.  The way back to Consume is a chain of leads-to steps whose   *)
(* length no constant changes; that every message is reached needs an      *)
(* induction over the log, and stays with TLC.  The prover cannot evaluate *)
(* ENABLED: what it means, that a guard holds, is the hypothesis of the    *)
(* theorem.                                                                *)

InMessage == host = "running" /\ pc \notin {"consume", "stopped"}

StepsEnabled ==
    /\ InMessage => ENABLED <<Loop>>_vars
    /\ host \in {"stopping", "disposed"} => ENABLED <<HostStops>>_vars
    /\ host = "down" => ENABLED <<Restart>>_vars

Consuming == host = "running" /\ pc = "consume"
Working(where) == host = "running" /\ pc = where
Ending(where) == host = where
Stopped == host # "running"

LEMMA StoppedMeansCancelled ==
  ASSUME IInv, pc = "stopped" => host # "running", [Next]_vars
  PROVE  (pc = "stopped" => host # "running")'
  <1>1. CASE Loop
    BY <1>1 DEF Loop, Consume, LoopEnds, WorkCancelled, ProduceProcessed, ProduceProcessedFails,
                Commit, CommitThrows, ProduceFailed, ProduceFailedThrows, CommitAgain, Cancelled
  <1>2. CASE ~Loop
    BY <1>2 DEF Next, CommitAgainThrows, Rebalance, Stop, HostStops, Crash, Restart, HostFrame,
                RequestFails, vars
  <1> QED
    BY <1>1, <1>2

\* A step of the loop takes the message to its next place, whatever throws.
LoopGoesOn ==
    /\ Working("work") =>
         Working("work")' \/ Working("commit")' \/ Working("deadLetter")' \/ Stopped'
    /\ Working("commit") =>
         Working("commit")' \/ Working("deadLetter")' \/ Consuming' \/ Stopped'
    /\ Working("deadLetter") => Working("deadLetter")' \/ Working("commitAgain")' \/ Stopped'
    /\ Working("commitAgain") => Working("commitAgain")' \/ Consuming' \/ Stopped'
    /\ Loop => /\ Working("work") => ~Working("work")'
               /\ Working("commit") => ~Working("commit")'
               /\ Working("deadLetter") => ~Working("deadLetter")'
               /\ Working("commitAgain") => ~Working("commitAgain")'

StopGoesOn ==
    /\ Ending("stopping") => Ending("stopping")' \/ Ending("disposed")' \/ Ending("down")'
    /\ Ending("disposed") => Ending("disposed")' \/ Ending("down")'
    /\ Ending("down") => Ending("down")' \/ Consuming'
    /\ HostStops => /\ Ending("stopping") => ~Ending("stopping")'
                    /\ Ending("disposed") => ~Ending("disposed")'
    /\ Restart => ~Ending("down")'

LEMMA LoopMoves == IInv /\ [Next]_vars => LoopGoesOn
  <1> SUFFICES ASSUME IInv, [Next]_vars PROVE LoopGoesOn
    OBVIOUS
  <1> USE DEF LoopGoesOn, Working, Consuming, Stopped
  <1>1. CASE Loop
    BY <1>1 DEF Loop, Consume, LoopEnds, WorkCancelled, ProduceProcessed, ProduceProcessedFails,
                Commit, CommitThrows, ProduceFailed, ProduceFailedThrows, CommitAgain, Cancelled
  <1>2. CASE ~Loop
    <2>1. CASE CommitAgainThrows \/ Rebalance \/ Stop \/ HostStops \/ Crash \/ UNCHANGED vars
      BY <1>2, <2>1 DEF CommitAgainThrows, Rebalance, Stop, HostStops, Crash, HostFrame, vars
    <2>2. CASE Restart
      BY <1>2, <2>2 DEF Restart
    <2>3. CASE \E r \in Reasons : RequestFails(r)
      BY <1>2, <2>3 DEF RequestFails
    <2> QED
      BY <1>2, <2>1, <2>2, <2>3 DEF Next
  <1> QED
    BY <1>1, <1>2

LEMMA StopMoves == IInv /\ [Next]_vars => StopGoesOn
  <1> SUFFICES ASSUME IInv, [Next]_vars PROVE StopGoesOn
    OBVIOUS
  <1> USE DEF StopGoesOn, Ending, Consuming
  <1>1. CASE Loop \/ Rebalance \/ (\E r \in Reasons : RequestFails(r)) \/ UNCHANGED vars
    <2>1. UNCHANGED host /\ ~HostStops /\ ~Restart
      BY <1>1 DEF Loop, Consume, LoopEnds, WorkCancelled, ProduceProcessed, ProduceProcessedFails,
                  Commit, CommitThrows, ProduceFailed, ProduceFailedThrows, CommitAgain,
                  Rebalance, RequestFails, HostStops, Restart, vars
    <2> QED
      BY <2>1
  <1>2. CASE Stop \/ HostStops \/ Crash \/ CommitAgainThrows
    BY <1>2 DEF Stop, HostStops, Crash, CommitAgainThrows, Up, Restart
  <1>3. CASE Restart
    BY <1>3 DEF Restart, HostStops
  <1> QED
    BY <1>1, <1>2, <1>3 DEF Next

\* The consumer comes back to Consume, in a host that is not stopping, again
\* and again: nothing that throws in ProcessMessageAsync keeps the loop, and
\* when the commit in its catch block ends it, the host stops and the container
\* is started again (ExecuteAsync, whose exception the host treats as fatal; unless-stopped).
THEOREM LoopComesBack == FairSpec /\ []StepsEnabled => []<>(host = "running" /\ pc = "consume")
  <1> DEFINE CancelledOnly == pc = "stopped" => host # "running"
  <1>1. Init => CancelledOnly
    BY DEF Init
  <1>2. IInv /\ CancelledOnly /\ [Next]_vars => CancelledOnly'
    BY StoppedMeansCancelled
  <1>3. IInv /\ [Next]_vars => LoopGoesOn /\ StopGoesOn
    BY LoopMoves, StopMoves
  <1>4. IInv /\ CancelledOnly =>
          \/ Consuming \/ Working("work") \/ Working("commit") \/ Working("deadLetter")
          \/ Working("commitAgain")
          \/ Ending("stopping") \/ Ending("disposed") \/ Ending("down")
    BY DEF IInv, TypeOK, HostStates, LoopStates, Consuming, Working, Ending
  <1>5. Stopped => ~Consuming /\ ~Working("work") /\ ~Working("commit")
                   /\ ~Working("deadLetter") /\ ~Working("commitAgain")
    BY DEF Stopped, Consuming, Working
  <1>6. StepsEnabled =>
          /\ Working("work") \/ Working("commit") \/ Working("deadLetter")
               \/ Working("commitAgain") => ENABLED <<Loop>>_vars
          /\ Ending("stopping") \/ Ending("disposed") => ENABLED <<HostStops>>_vars
          /\ Ending("down") => ENABLED <<Restart>>_vars
    BY DEF StepsEnabled, InMessage, Working, Ending
  <1>7. Consuming <=> host = "running" /\ pc = "consume"
    BY DEF Consuming
  <1> QED
    BY <1>1, <1>2, <1>3, <1>4, <1>5, <1>6, <1>7, Inductive, PTL
       DEF FairSpec, Spec, LoopGoesOn, StopGoesOn

-----------------------------------------------------------------------------
(* What the progress comes to.                                             *)

\* What a running loop has read is on an output topic or its write to
\* orders.failed failed; a message that a cancellation or a failed commit let
\* go is read again (ConsumeLoopAsync; a message dropped ends the loop).
THEOREM ReadMeansEnded ==
  Spec => [](pc = "consume" =>
               \A m \in Messages : m[2] < position[m[1]] => m \in Accounted)
  <1>1. IInv => (pc = "consume" =>
                   \A m \in Messages : m[2] < position[m[1]] => m \in Accounted)
    <2> SUFFICES ASSUME IInv, pc = "consume", NEW m \in Messages, m[2] < position[m[1]]
                 PROVE  m \in Accounted
      OBVIOUS
    <2>1. m[1] \in Partitions /\ m = <<m[1], m[2]>> /\ m # None /\ current = None
      BY Pairs DEF IInv, CurrentInv
    <2>2. m[2] \in 1 .. position[m[1]] - 1
      BY <2>1, Pairs, Offset DEF IInv, TypeOK
    <2> QED
      BY <2>1, <2>2 DEF IInv, ReadInv
  <1> QED
    BY <1>1, Inductive, PTL

(* How many steps are left.  The loop has at most six for a message it has *)
(* not taken; a rebalance or a restart gives it all of them again, and of  *)
(* those there are at most MaxDisruptions, each with the steps of a stop.  *)

Untaken == {m \in Messages : m[2] >= position[m[1]]}

LeftOf == [stopped |-> 0, consume |-> 1, commitAgain |-> 2, deadLetter |-> 3,
           commit |-> 4, work |-> 5]
HostLeft == [running |-> 0, down |-> 1, disposed |-> 2, stopping |-> 3]

InLoop == 6 * Cardinality(Untaken) + LeftOf[pc]
Round == 6 * Cardinality(Messages) + 6
Budget == 4 * (MaxDisruptions - disruptions) + HostLeft[host]
StepsLeft == Budget * Round + InLoop

InBounds ==
    /\ LeftOf[pc] \in 0 .. 5 /\ HostLeft[host] \in 0 .. 3
    /\ Cardinality(Untaken) \in Nat
    /\ InLoop \in 0 .. Round - 1 /\ Round \in Nat
    /\ Budget \in 0 .. 4 * MaxDisruptions + 3

LEMMA Sizes == TypeOK => InBounds
  <1> SUFFICES ASSUME TypeOK PROVE InBounds
    OBVIOUS
  <1>1. LeftOf[pc] \in 0 .. 5
    BY DEF TypeOK, LoopStates, LeftOf
  <1>2. HostLeft[host] \in 0 .. 3
    BY DEF TypeOK, HostStates, HostLeft
  <1>3. Cardinality(Messages) \in Nat /\ Cardinality(Untaken) \in Nat
        /\ Cardinality(Untaken) <= Cardinality(Messages)
    BY MessagesFinite, FS_Subset, FS_CardinalityType DEF Untaken
  <1>4. MaxDisruptions \in Nat /\ disruptions \in 0 .. MaxDisruptions
    BY LogAssumption DEF TypeOK
  <1> QED
    BY <1>1, <1>2, <1>3, <1>4 DEF InBounds, InLoop, Round, Budget

LEMMA SizesNext == TypeOK' => InBounds'
  BY Sizes, PTL

\* The larger digit decides.
LEMMA Digits ==
  ASSUME NEW a \in Nat, NEW b \in Nat, NEW r \in Nat, NEW x \in Int, NEW y \in Int,
         a < b, 0 <= y, x < r
  PROVE  a * r + x < b * r + y
  <1>1. b - 1 - a \in Nat
    OBVIOUS
  <1>2. (b - 1 - a) * r \in Nat
    BY <1>1
  <1>3. b * r = a * r + r + (b - 1 - a) * r
    OBVIOUS
  <1> QED
    BY <1>2, <1>3

LEMMA ConsumeTakes ==
  ASSUME TypeOK, NEW p \in Partitions, Consume(p)
  PROVE  Cardinality(Untaken') = Cardinality(Untaken) - 1
  <1> DEFINE m == <<p, position[p]>>
  <1>1. m \in Untaken
    BY Pairs, Offset DEF Consume, Untaken, TypeOK
  <1>2. Untaken' = Untaken \ {m}
    <2>1. position[p] \in Nat /\ \A n \in Messages : n[2] \in Nat /\ position[n[1]] \in Nat
      BY Pairs, Offset DEF TypeOK
    <2>2. \A n \in Messages : position'[n[1]] = IF n[1] = p THEN position[p] + 1 ELSE position[n[1]]
      BY Pairs DEF Consume, TypeOK
    <2>3. \A n \in Messages : n = m <=> n[1] = p /\ n[2] = position[p]
      BY Pairs
    <2>4. \A n \in Messages : n[2] >= position'[n[1]] <=> n[2] >= position[n[1]] /\ n # m
      BY <2>1, <2>2, <2>3
    <2> QED
      BY <2>4 DEF Untaken
  <1>3. IsFiniteSet(Untaken)
    BY MessagesFinite, FS_Subset DEF Untaken
  <1> QED
    BY <1>1, <1>2, <1>3, FS_RemoveElement

RequestStep == \E r \in Reasons : RequestFails(r)

LEMMA RequestsCostNothing == RequestStep => StepsLeft' = StepsLeft
  BY DEF RequestStep, RequestFails, StepsLeft, Budget, Round, InLoop, Untaken, Messages

LEMMA StepCounts == IInv /\ [Next]_vars => [RequestStep \/ StepsLeft' < StepsLeft]_vars
  <1> SUFFICES ASSUME IInv, Next, ~RequestStep PROVE StepsLeft' < StepsLeft
    BY DEF vars
  <1>1. TypeOK /\ TypeOK'
    BY TypeStep DEF IInv
  <1>2. /\ LeftOf[pc] \in 0 .. 5 /\ LeftOf[pc'] \in 0 .. 5
        /\ Cardinality(Untaken) \in Nat /\ Cardinality(Untaken') \in Nat
        /\ InLoop \in 0 .. Round - 1 /\ InLoop' \in 0 .. Round - 1
        /\ Round \in Nat /\ Round' = Round /\ Budget \in Nat /\ Budget' \in Nat
    <2>1. Round' = Round
      BY DEF Round, Messages
    <2>2. InBounds
      BY <1>1, Sizes
    <2>3. InBounds'
      BY <1>1, SizesNext
    <2>4. /\ LeftOf[pc] \in 0 .. 5 /\ Cardinality(Untaken) \in Nat
          /\ InLoop \in 0 .. Round - 1 /\ Round \in Nat /\ Budget \in Nat
      BY <2>2, LogAssumption DEF InBounds
    <2>5. /\ LeftOf[pc'] \in 0 .. 5 /\ Cardinality(Untaken') \in Nat
          /\ InLoop' \in 0 .. Round - 1 /\ Budget' \in Nat
      BY <2>1, <2>3, LogAssumption DEF InBounds, LeftOf
    <2> QED
      BY <2>1, <2>4, <2>5
  <1>3. ASSUME Budget' = Budget, InLoop' < InLoop PROVE StepsLeft' < StepsLeft
    <2> DEFINE a == Budget * Round
               x == InLoop'
    <2>1. a \in Nat /\ x \in Int /\ InLoop \in Int /\ x < InLoop
      BY <1>2, <1>3
    <2>2. StepsLeft = a + InLoop /\ StepsLeft' = a + x
      BY <1>2, <1>3 DEF StepsLeft
    <2> HIDE DEF a, x
    <2> QED
      BY <2>1, <2>2
  <1>4. ASSUME Budget' < Budget PROVE StepsLeft' < StepsLeft
    <2> DEFINE a == Budget'
               x == InLoop'
    <2>1. a \in Nat /\ a < Budget /\ x \in Int /\ x < Round
      BY <1>2, <1>4
    <2> HIDE DEF a, x
    <2>2. a * Round + x < Budget * Round + InLoop
      BY <1>2, <2>1, Digits
    <2> QED
      BY <1>2, <2>2 DEF StepsLeft, a, x
  <1>5. CASE Loop
    <2>1. Budget' = Budget
      BY <1>5 DEF Loop, Consume, LoopEnds, WorkCancelled, ProduceProcessed, ProduceProcessedFails,
                  Commit, CommitThrows, ProduceFailed, ProduceFailedThrows, CommitAgain,
                  LoopFrame, Budget
    <2>2. CASE \E p \in Partitions : Consume(p)
      <3>1. Cardinality(Untaken') = Cardinality(Untaken) - 1
        BY <1>1, <2>2, ConsumeTakes
      <3>2. LeftOf[pc] = 1
        BY <2>2 DEF Consume, LeftOf
      <3> QED
        BY <1>2, <1>3, <2>1, <3>1, <3>2 DEF InLoop, LeftOf
    <2>3. CASE ~\E p \in Partitions : Consume(p)
      <3>1. Untaken' = Untaken
        BY <1>5, <2>3 DEF Loop, LoopEnds, WorkCancelled, ProduceProcessed, ProduceProcessedFails,
                          Commit, CommitThrows, ProduceFailed, ProduceFailedThrows, CommitAgain,
                          Untaken, Messages
      <3>2. LeftOf[pc'] < LeftOf[pc]
        BY <1>5, <2>3 DEF Loop, LoopEnds, WorkCancelled, ProduceProcessed, ProduceProcessedFails,
                          Commit, CommitThrows, ProduceFailed, ProduceFailedThrows, CommitAgain,
                          LeftOf
      <3> QED
        BY <1>2, <1>3, <2>1, <3>1, <3>2 DEF InLoop, LeftOf
    <2> QED
      BY <2>2, <2>3
  <1>6. CASE Rebalance \/ Stop \/ Crash \/ CommitAgainThrows
    <2>1. disruptions' = disruptions + 1 /\ disruptions \in Nat /\ MaxDisruptions \in Nat
      BY <1>1, <1>6, LogAssumption DEF Rebalance, Stop, Crash, CommitAgainThrows, Disruption, TypeOK
    <2>2. HostLeft[host] \in 0 .. 3 /\ HostLeft[host'] \in 0 .. 3
      BY <1>1, <1>6 DEF TypeOK, HostStates, HostLeft
    <2> QED
      BY <1>4, <2>1, <2>2 DEF Budget, HostLeft
  <1>7. CASE HostStops \/ Restart
    <2>1. HostLeft[host'] < HostLeft[host] /\ disruptions' = disruptions
      BY <1>7 DEF HostStops, Restart, HostLeft
    <2>2. HostLeft[host] \in Nat /\ HostLeft[host'] \in Nat
          /\ 4 * (MaxDisruptions - disruptions) \in Nat
      BY <1>1, LogAssumption DEF TypeOK, HostStates, HostLeft
    <2> QED
      BY <1>4, <2>1, <2>2 DEF Budget, HostLeft
  <1> QED
    BY <1>5, <1>6, <1>7 DEF Next, RequestStep

\* The consumer never turns in a circle: every step of the loop, of the broker
\* and of the host uses up one of a bounded number, which the requests served
\* besides leave alone, so without further disruptions the loop comes to the
\* end of the log (ConsumeLoopAsync; what is read twice is paid for by a
\* disruption).
THEOREM RunIsBounded ==
  Spec => /\ [](StepsLeft \in 0 .. (4 * MaxDisruptions + 4) * Round)
          /\ [][IF RequestStep THEN StepsLeft' = StepsLeft ELSE StepsLeft' < StepsLeft]_vars
  <1>1. IInv => StepsLeft \in 0 .. (4 * MaxDisruptions + 4) * Round
    <2> SUFFICES ASSUME IInv PROVE StepsLeft \in 0 .. (4 * MaxDisruptions + 4) * Round
      OBVIOUS
    <2>1. /\ InLoop \in 0 .. Round - 1 /\ Round \in Nat
          /\ Budget \in Nat /\ Budget < 4 * MaxDisruptions + 4 /\ MaxDisruptions \in Nat
      BY Sizes, LogAssumption DEF IInv, InBounds
    <2>2. Budget * Round \in Nat /\ (4 * MaxDisruptions + 4) * Round \in Nat
      BY <2>1
    <2>3. Budget * Round + InLoop < (4 * MaxDisruptions + 4) * Round + 0
      BY <2>1, Digits
    <2> QED
      BY <2>1, <2>2, <2>3 DEF StepsLeft
  <1>2. IInv /\ [Next]_vars
          => [IF RequestStep THEN StepsLeft' = StepsLeft ELSE StepsLeft' < StepsLeft]_vars
    BY StepCounts, RequestsCostNothing
  <1> QED
    BY <1>1, <1>2, Inductive, PTL DEF Spec
=============================================================================
