-------------------------- MODULE GoConsumerProofs --------------------------
(***************************************************************************)
(* Proofs about GoConsumer for any finite set of partitions, any number of *)
(* messages in each and any number of rebalances, stops and crashes.       *)
(*                                                                         *)
(* The set of accounted messages only grows, so the argument is about the  *)
(* three places that say where the loop is: the reader's position, the     *)
(* group's offset and the message in process.  Each of them has only       *)
(* accounted messages before it.  While nothing has failed they are all    *)
(* at the same message, which is the reason for ExactlyOnce.               *)
(***************************************************************************)
EXTENDS GoConsumer, FiniteSetTheorems, TLAPS

(* A message determines its partition and its offset, and is not None. *)
LEMMA Pairs ==
    /\ \A p \in Partitions, i \in Offsets :
          <<p, i>> \in Messages /\ <<p, i>> # None
    /\ \A m \in Messages :
          m[1] \in Partitions /\ m[2] \in Offsets /\ m = <<m[1], m[2]>> /\ m # None
<1>1. \A p \in Partitions, i \in Offsets : <<p, i>> \in Messages
  BY DEF Messages
<1>2. \A p, i : <<p, i>> # None
  BY DEF None
<1>3. \A m \in Messages : m[1] \in Partitions /\ m[2] \in Offsets /\ m = <<m[1], m[2]>>
  BY DEF Messages
<1> QED  BY <1>1, <1>2, <1>3

LEMMA Counters ==
    /\ DOMAIN CounterAfter = {"commitProcessed", "commitFailed", "commitPoison"}
    /\ \A c \in DOMAIN CounterAfter :
          CounterAfter[c] \in {"processed", "processing", "deserialization"}
  BY DEF CounterAfter

LEMMA Offset == LogLength \in Nat /\ Offsets = 1 .. LogLength
  BY LogAssumption DEF Offsets

(* Init establishes the invariant: nothing has been read or committed. *)
LEMMA InitInv == Init => IInv
<1> SUFFICES ASSUME Init PROVE IInv
  OBVIOUS
<1> USE Offset, Pairs, Counters DEF Init
<1>1. TypeOK
  BY LogAssumption DEF TypeOK, FromStart, ZeroMetrics, Stages, Many, Messages
<1>2. ReadInv /\ CommittedInv
  BY DEF ReadInv, CommittedInv, FromStart
<1>3. CurrentInv
  BY DEF CurrentInv
<1>4. OrderInv
  BY DEF OrderInv, Routed
<1> QED  BY <1>1, <1>2, <1>3, <1>4 DEF IInv

-----------------------------------------------------------------------------
(* Types.                                                                  *)

(* Every step keeps the variables in their types. *)
LEMMA TypeStep == IInv /\ [Next]_vars => TypeOK'
<1> SUFFICES ASSUME IInv, [Next]_vars PROVE TypeOK'
  OBVIOUS
<1> USE Offset, Counters DEF IInv
<1>a. TypeOK /\ (pc \notin {"fetch", "stopped"} => current \in Messages)
  BY DEF TypeOK, CurrentInv
<1>b. Disruption => disruptions' \in 0 .. MaxDisruptions /\ calm' \in BOOLEAN
  <2>1. disruptions \in 0 .. MaxDisruptions
    BY <1>a DEF TypeOK
  <2>2. Disruption => disruptions' \in 0 .. MaxDisruptions
    BY <2>1, LogAssumption DEF Disruption
  <2>3. Disruption => calm' \in BOOLEAN
    BY DEF Disruption
  <2> QED  BY <2>2, <2>3
<1>1. ASSUME NEW p \in Partitions, Fetch(p) PROVE TypeOK'
  <2>1. current' \in Messages
    BY <1>1, Pairs DEF Fetch
  <2>2. position' \in [Partitions -> 1 .. LogLength + 1]
    BY <1>a, <1>1 DEF TypeOK, Fetch
  <2>3. pc' \in {"work", "commitPoison"}
    BY <1>1 DEF Fetch
  <2> QED  BY <1>a, <1>1, <2>1, <2>2, <2>3 DEF TypeOK, Fetch, kafkaVars
<1>2. CASE LoopEnds
  BY <1>a, <1>2 DEF TypeOK, LoopEnds, kafkaVars
<1>3. CASE SleepCancelled
  BY <1>a, <1>3 DEF TypeOK, SleepCancelled, kafkaVars
<1>4. CASE ProduceProcessed
  <2>1. processed' \in [Messages -> 0 .. Many]
    <3>1. PICK n \in 1 .. Many : WriteProcessed(n)
      BY <1>4 DEF ProduceProcessed
    <3>2. \A x \in 0 .. Many : AtMostMany(x + n) \in 0 .. Many
      BY DEF AtMostMany, Many
    <3>3. processed \in [Messages -> 0 .. Many]
      BY <1>a DEF TypeOK
    <3> QED  BY <3>1, <3>2, <3>3 DEF WriteProcessed
  <2>2. calm' \in BOOLEAN
    BY <1>a, <1>4 DEF TypeOK, ProduceProcessed
  <2> QED  BY <1>a, <1>4, <2>1, <2>2 DEF TypeOK, ProduceProcessed
<1>5. CASE ProduceProcessedFails
  <2>1. processed' \in [Messages -> 0 .. Many]
    BY <1>a, <1>5 DEF TypeOK, ProduceProcessedFails, WriteProcessed, AtMostMany, Many
  <2>2. calm' \in BOOLEAN
    BY <1>a, <1>5 DEF TypeOK, ProduceProcessedFails
  <2> QED  BY <1>a, <1>5, <2>1, <2>2 DEF TypeOK, ProduceProcessedFails
<1>6. CASE ProduceFailed
  BY <1>a, <1>6 DEF TypeOK, ProduceFailed, WriteFailed
<1>7. CASE Commit
  <2>1. current[1] \in Partitions /\ current[2] \in Offsets
    BY <1>a, <1>7, Pairs DEF Commit
  <2>2. committed' \in [Partitions -> 1 .. LogLength + 1]
    <3>1. current[2] + 1 \in 1 .. LogLength + 1
      BY <2>1
    <3>2. committed \in [Partitions -> 1 .. LogLength + 1]
      BY <1>a DEF TypeOK
    <3>3. \/ committed' = [committed EXCEPT ![current[1]] = current[2] + 1]
          \/ committed' = committed
      BY <1>7 DEF Commit
    <3> QED  BY <2>1, <3>1, <3>2, <3>3
  <2>3. metrics' \in [{"processed", "processing", "deserialization"} -> Nat]
    BY <1>a, <1>7 DEF TypeOK, Commit, Inc
  <2> QED  BY <1>a, <1>7, <2>2, <2>3 DEF TypeOK, Commit
<1>8. CASE Rebalance
  BY <1>a, <1>8, <1>b DEF TypeOK, Rebalance, kafkaVars
<1>9. CASE Cancel
  BY <1>a, <1>9, <1>b DEF TypeOK, Cancel, StopFrame, Stages, kafkaVars
<1>10. CASE CloseClients
  BY <1>a, <1>10 DEF TypeOK, CloseClients, StopFrame, Stages, kafkaVars
<1>11. CASE Crash
  BY <1>a, <1>11, <1>b DEF TypeOK, Crash, StopFrame, Stages, kafkaVars
<1>12. CASE Restart
  BY <1>a, <1>12 DEF TypeOK, Restart, Stages, ZeroMetrics, kafkaVars
<1>13. CASE UNCHANGED vars
  BY <1>a, <1>13 DEF TypeOK, vars
<1> QED
  BY <1>1, <1>2, <1>3, <1>4, <1>5, <1>6, <1>7, <1>8, <1>9, <1>10, <1>11, <1>12, <1>13
  DEF Next, Loop

-----------------------------------------------------------------------------
(* Accounting.                                                             *)

(* A message that is on orders.processed stays there. *)
LEMMA CopiesStay ==
    TypeOK /\ (ProduceProcessed \/ ProduceProcessedFails) =>
        \A m \in Messages : processed[m] > 0 => processed'[m] > 0
<1> SUFFICES ASSUME TypeOK, ProduceProcessed \/ ProduceProcessedFails,
                    NEW m \in Messages, processed[m] > 0
             PROVE  processed'[m] > 0
  OBVIOUS
<1>1. processed \in [Messages -> 0 .. Many]
  BY DEF TypeOK
<1>2. \A x, n \in 0 .. Many : x > 0 => AtMostMany(x + n) > 0
  BY DEF AtMostMany, Many
<1>3. processed' = processed \/ \E n \in 0 .. Many : WriteProcessed(n)
  BY DEF ProduceProcessed, ProduceProcessedFails, Many
<1> QED  BY <1>1, <1>2, <1>3 DEF WriteProcessed

(* Nothing that is accounted for is ever lost again: topics only grow, and *)
(* so do the two history sets. *)
LEMMA AccountedGrows == IInv /\ [Next]_vars => Accounted \subseteq Accounted'
<1> SUFFICES ASSUME IInv, [Next]_vars PROVE Accounted \subseteq Accounted'
  OBVIOUS
<1>1. TypeOK
  BY DEF IInv
<1>2. CASE ProduceProcessed \/ ProduceProcessedFails
  <2>1. \A m \in Messages : processed[m] > 0 => processed'[m] > 0
    BY <1>1, <1>2, CopiesStay
  <2> QED  BY <1>2, <2>1 DEF Accounted, Routed, ProduceProcessed, ProduceProcessedFails
<1>3. CASE ProduceFailed
  BY <1>3 DEF ProduceFailed, WriteFailed, Accounted, Routed
<1>4. CASE SleepCancelled
  BY <1>4 DEF SleepCancelled, Accounted, Routed, kafkaVars
<1>5. CASE Commit
  BY <1>5 DEF Commit, Accounted, Routed
<1>6. CASE (\E p \in Partitions : Fetch(p)) \/ LoopEnds
  BY <1>6 DEF Fetch, LoopEnds, Accounted, Routed, kafkaVars
<1>7. CASE Rebalance \/ Cancel \/ CloseClients \/ Crash \/ Restart
  BY <1>7 DEF Rebalance, Cancel, CloseClients, Crash, Restart, StopFrame, Accounted,
              Routed, kafkaVars
<1>8. CASE UNCHANGED vars
  BY <1>8 DEF vars, Accounted, Routed
<1> QED  BY <1>2, <1>3, <1>4, <1>5, <1>6, <1>7, <1>8 DEF Next, Loop

(* Only the message in process is ever routed. *)
LEMMA RoutedStep == IInv /\ [Next]_vars => Routed' \subseteq Routed \cup {current}
<1> SUFFICES ASSUME IInv, [Next]_vars PROVE Routed' \subseteq Routed \cup {current}
  OBVIOUS
<1>1. TypeOK
  BY DEF IInv
<1>2. CASE ProduceProcessed \/ ProduceProcessedFails
  <2>1. \A m \in Messages \ {current} : processed'[m] = processed[m]
    BY <1>1, <1>2 DEF TypeOK, ProduceProcessed, ProduceProcessedFails, WriteProcessed
  <2> QED  BY <1>2, <2>1 DEF Routed, ProduceProcessed, ProduceProcessedFails
<1>3. CASE ProduceFailed
  BY <1>3 DEF ProduceFailed, WriteFailed, Routed
<1>4. CASE SleepCancelled \/ Commit \/ LoopEnds \/ (\E p \in Partitions : Fetch(p))
  BY <1>4 DEF SleepCancelled, Commit, LoopEnds, Fetch, Routed, kafkaVars
<1>5. CASE Rebalance \/ Cancel \/ CloseClients \/ Crash \/ Restart
  BY <1>5 DEF Rebalance, Cancel, CloseClients, Crash, Restart, StopFrame, Routed, kafkaVars
<1>6. CASE UNCHANGED vars
  BY <1>6 DEF vars, Routed
<1> QED  BY <1>2, <1>3, <1>4, <1>5, <1>6 DEF Next, Loop

(* The message in process is let go only once it is accounted for, except  *)
(* by a restart, which sets the reader back.                               *)
LEMMA LetGo ==
    IInv /\ [Next]_vars =>
        current' = current \/ current = None \/ current \in Accounted' \/ position' = committed
<1> SUFFICES ASSUME IInv, [Next]_vars
             PROVE  \/ current' = current \/ current = None
                    \/ current \in Accounted' \/ position' = committed
  OBVIOUS
<1>1. CASE SleepCancelled
  BY <1>1 DEF SleepCancelled, Accounted
<1>2. CASE Commit
  BY <1>2, AccountedGrows DEF IInv, CurrentInv, Commit
<1>3. CASE \E p \in Partitions : Fetch(p)
  BY <1>3 DEF IInv, CurrentInv, Fetch
<1>4. CASE Restart
  BY <1>4 DEF Restart
<1>5. CASE LoopEnds \/ ProduceProcessed \/ ProduceProcessedFails \/ ProduceFailed
  BY <1>5 DEF LoopEnds, ProduceProcessed, ProduceProcessedFails, ProduceFailed
<1>6. CASE Rebalance \/ Cancel \/ CloseClients \/ Crash
  BY <1>6 DEF Rebalance, Cancel, CloseClients, Crash, StopFrame
<1>7. CASE UNCHANGED vars
  BY <1>7 DEF vars
<1> QED  BY <1>1, <1>2, <1>3, <1>4, <1>5, <1>6, <1>7 DEF Next, Loop

(* The reader moves on by one message, which is then in process, or back   *)
(* to the committed offsets.                                               *)
LEMMA PositionStep ==
    IInv /\ [Next]_vars =>
        \/ position' = position
        \/ position' = committed
        \/ \E q \in Partitions :
              /\ position[q] \in Offsets
              /\ current' = <<q, position[q]>>
              /\ position' = [position EXCEPT ![q] = @ + 1]
<1> SUFFICES ASSUME [Next]_vars
             PROVE  \/ position' = position
                    \/ position' = committed
                    \/ \E q \in Partitions :
                          /\ position[q] \in Offsets
                          /\ current' = <<q, position[q]>>
                          /\ position' = [position EXCEPT ![q] = @ + 1]
  OBVIOUS
<1>1. CASE \E p \in Partitions : Fetch(p)
  BY <1>1 DEF Fetch
<1>2. CASE Rebalance \/ Restart
  BY <1>2 DEF Rebalance, Restart
<1>3. CASE LoopEnds \/ SleepCancelled \/ ProduceProcessed \/ ProduceProcessedFails
           \/ ProduceFailed \/ Commit
  BY <1>3 DEF LoopEnds, SleepCancelled, ProduceProcessed, ProduceProcessedFails,
              ProduceFailed, Commit
<1>4. CASE Cancel \/ CloseClients \/ Crash
  BY <1>4 DEF Cancel, CloseClients, Crash, StopFrame
<1>5. CASE UNCHANGED vars
  BY <1>5 DEF vars
<1> QED  BY <1>1, <1>2, <1>3, <1>4, <1>5 DEF Next, Loop

(* The reader leaves only accounted messages behind. *)
LEMMA ReadStep == IInv /\ [Next]_vars => ReadInv'
<1> SUFFICES ASSUME IInv, [Next]_vars,
                    NEW p \in Partitions, NEW k \in 1 .. position'[p] - 1
             PROVE  <<p, k>> \in Accounted' \/ <<p, k>> = current'
  BY DEF ReadInv
<1> USE Offset
<1>1. TypeOK /\ TypeOK' /\ Accounted \subseteq Accounted'
  BY TypeStep, AccountedGrows DEF IInv
<1>2. CASE position' = committed
  BY <1>1, <1>2 DEF IInv, CommittedInv
<1>3. CASE position' = position /\ position' # committed
  <2>1. <<p, k>> \in Accounted \/ <<p, k>> = current
    BY <1>3 DEF IInv, ReadInv
  <2>2. <<p, k>> # None
    BY DEF None
  <2> QED  BY <1>1, <1>3, <2>1, <2>2, LetGo
<1>4. ASSUME NEW q \in Partitions, position[q] \in Offsets,
             current' = <<q, position[q]>>, position' = [position EXCEPT ![q] = @ + 1],
             position' # committed
      PROVE  <<p, k>> \in Accounted' \/ <<p, k>> = current'
  <2>1. CASE p = q /\ k = position[q]
    BY <1>4, <2>1
  <2>3. k \in 1 .. position[p] - 1 \/ (p = q /\ k = position[q])
    <3>1. position[p] \in Int /\ position[q] \in Int
      BY <1>1 DEF TypeOK
    <3>2. position'[p] = IF p = q THEN position[p] + 1 ELSE position[p]
      BY <1>1, <1>4 DEF TypeOK
    <3> QED  BY <3>1, <3>2
  <2>2. CASE k \in 1 .. position[p] - 1
    <3>1. <<p, k>> \in Accounted \/ <<p, k>> = current
      BY <2>2 DEF IInv, ReadInv
    <3>2. <<p, k>> # None
      BY DEF None
    <3> QED  BY <1>1, <1>4, <3>1, <3>2, LetGo
  <2> QED  BY <2>1, <2>2, <2>3
<1> QED  BY <1>2, <1>3, <1>4, PositionStep

(* An offset is committed only over accounted messages. *)
LEMMA CommittedStep == IInv /\ [Next]_vars => CommittedInv'
<1> SUFFICES ASSUME IInv, [Next]_vars,
                    NEW p \in Partitions, NEW k \in 1 .. committed'[p] - 1
             PROVE  <<p, k>> \in Accounted'
  BY DEF CommittedInv
<1> USE Offset
<1>1. TypeOK /\ Accounted \subseteq Accounted'
  BY AccountedGrows DEF IInv
<1>2. CASE committed' = committed
  BY <1>1, <1>2 DEF IInv, CommittedInv
<1>3. CASE Commit /\ committed' = [committed EXCEPT ![current[1]] = current[2] + 1]
  <2>1. current \in Messages /\ current \in Accounted
    <3>1. pc \in DOMAIN CounterAfter /\ pc \notin {"fetch", "stopped"}
      BY <1>3, Counters DEF Commit
    <3> QED  BY <1>1, <3>1 DEF IInv, CurrentInv, TypeOK
  <2>2. PICK q \in Partitions, i \in Offsets : current = <<q, i>>
    BY <2>1, Pairs
  <2>3. \A n \in 1 .. i - 1 : <<q, n>> \in Accounted
    BY <2>2 DEF IInv, CurrentInv
  <2>4. CASE p = q
    <3>1. committed'[p] = i + 1
      BY <1>1, <1>3, <2>2, <2>4 DEF TypeOK
    <3>2. k = i \/ k \in 1 .. i - 1
      BY <3>1
    <3> QED  BY <1>1, <2>1, <2>2, <2>3, <2>4, <3>2
  <2>5. CASE p # q
    <3>1. committed'[p] = committed[p]
      BY <1>1, <1>3, <2>2, <2>5 DEF TypeOK
    <3> QED  BY <1>1, <3>1 DEF IInv, CommittedInv
  <2> QED  BY <2>4, <2>5
<1>4. Commit \/ committed' = committed
  BY DEF Next, Loop, Fetch, LoopEnds, SleepCancelled, ProduceProcessed,
         ProduceProcessedFails, ProduceFailed, Rebalance, Cancel, CloseClients, Crash,
         Restart, StopFrame, kafkaVars, vars
<1> QED  BY <1>2, <1>3, <1>4 DEF Commit

(* The message in process has only accounted messages before it, and is    *)
(* accounted for itself when its commit begins.                            *)
LEMMA CurrentStep == IInv /\ [Next]_vars => CurrentInv'
<1> SUFFICES ASSUME IInv, [Next]_vars PROVE CurrentInv'
  OBVIOUS
<1> USE Offset, Counters
<1>1. TypeOK /\ CurrentInv /\ Accounted \subseteq Accounted'
  BY AccountedGrows DEF IInv
<1>2. ASSUME current' = current, pc' \notin {"fetch", "stopped"},
             pc \notin {"fetch", "stopped"},
             pc' \in DOMAIN CounterAfter => pc' = pc \/ current \in Accounted'
      PROVE  CurrentInv'
  BY <1>1, <1>2 DEF CurrentInv
<1>3. ASSUME current' = None, pc' \in {"fetch", "stopped"} PROVE CurrentInv'
  BY <1>3, Pairs DEF CurrentInv
<1>4. ASSUME NEW p \in Partitions, Fetch(p) PROVE CurrentInv'
  <2>1. current = None /\ position[p] \in Offsets /\ current' = <<p, position[p]>>
    BY <1>1, <1>4 DEF Fetch, CurrentInv
  <2>2. pc' = IF current' \in poison' THEN "commitPoison" ELSE "work"
    BY <1>4 DEF Fetch
  <2>3. \A k \in 1 .. position[p] - 1 : <<p, k>> \in Accounted'
    BY <1>1, <2>1, Pairs DEF IInv, ReadInv, None
  <2>4. pc' \in DOMAIN CounterAfter => current' \in Accounted'
    BY <2>2 DEF Accounted
  <2>5. \A q \in Partitions, i \in Offsets : current' = <<q, i>> =>
            \A k \in 1 .. i - 1 : <<q, k>> \in Accounted'
    BY <2>1, <2>3
  <2>6. current' # None /\ pc' \notin {"fetch", "stopped"}
    BY <2>1, <2>2, Pairs
  <2> QED  BY <2>4, <2>5, <2>6 DEF CurrentInv
<1>5. CASE ProduceProcessed
  <2>1. processed'[current] > 0 /\ current \in Messages
    BY <1>1, <1>5 DEF TypeOK, CurrentInv, ProduceProcessed, WriteProcessed, AtMostMany, Many
  <2>2. current \in Accounted'
    BY <2>1 DEF Accounted, Routed
  <2> QED  BY <1>2, <1>5, <2>2 DEF ProduceProcessed
<1>6. CASE ProduceProcessedFails
  BY <1>2, <1>6 DEF ProduceProcessedFails
<1>7. CASE ProduceFailed
  <2>1. current \in Accounted'
    BY <1>7 DEF ProduceFailed, WriteFailed, Accounted, Routed
  <2> QED  BY <1>2, <1>7, <2>1 DEF ProduceFailed
<1>8. CASE SleepCancelled \/ Commit \/ Restart
  BY <1>3, <1>8 DEF SleepCancelled, Commit, Restart
<1>9. CASE LoopEnds
  BY <1>1, <1>3, <1>9 DEF LoopEnds, CurrentInv
<1>10. CASE Rebalance \/ Cancel \/ CloseClients \/ Crash \/ UNCHANGED vars
  <2>1. current' = current /\ pc' = pc
    BY <1>10 DEF Rebalance, Cancel, CloseClients, Crash, StopFrame, vars
  <2> QED  BY <1>1, <2>1 DEF CurrentInv
<1> QED
  BY <1>4, <1>5, <1>6, <1>7, <1>8, <1>9, <1>10 DEF Next, Loop

(* What is routed is the message in process, so order is kept. *)
LEMMA OrderStep == IInv /\ [Next]_vars => OrderInv'
<1> SUFFICES ASSUME IInv, [Next]_vars,
                    NEW p \in Partitions, NEW i \in Offsets, <<p, i>> \in Routed',
                    NEW k \in 1 .. i - 1
             PROVE  <<p, k>> \in Accounted'
  BY DEF OrderInv
<1>1. <<p, k>> \in Accounted
  BY RoutedStep DEF IInv, OrderInv, CurrentInv
<1> QED  BY <1>1, AccountedGrows

LEMMA NextInv == IInv /\ [Next]_vars => IInv'
  BY TypeStep, ReadStep, CommittedStep, CurrentStep, OrderStep DEF IInv

-----------------------------------------------------------------------------
(* The invariant of the consume loop (Consumer.Start, processMessage). *)
THEOREM Inductive == Spec => []IInv
  BY InitInv, NextInv, PTL DEF Spec

(* The variables have their types. *)
THEOREM TypeCorrect == Spec => []TypeOK
<1>1. IInv => TypeOK
  BY DEF IInv
<1> QED  BY <1>1, Inductive, PTL

(* A message whose offset is committed was routed, was not JSON, or was    *)
(* lost in one of the two ways processMessage has, whatever rebalances,    *)
(* crashes and restarts there are.                                         *)
THEOREM NothingElseLost == Spec => []CommittedAccounted
<1>1. IInv => CommittedAccounted
  BY Pairs, Offset DEF IInv, TypeOK, CommittedInv, CommittedAccounted, CommittedMessages
<1> QED  BY <1>1, Inductive, PTL

(* Within a partition no message is routed before the earlier ones are     *)
(* accounted for.                                                          *)
THEOREM InOrder == Spec => []NoOvertaking
<1>1. IInv => NoOvertaking
  <2> SUFFICES ASSUME IInv, NEW m \in Routed, NEW k \in 1 .. m[2] - 1
               PROVE  <<m[1], k>> \in Accounted
    BY DEF NoOvertaking
  <2>1. m \in Messages
    BY DEF IInv, TypeOK, Routed
  <2> QED  BY <2>1, Pairs DEF IInv, OrderInv
<1> QED  BY <1>1, Inductive, PTL

-----------------------------------------------------------------------------
(* The refinement.                                                         *)

(* What the abstract router sees of the state. *)
LEMMA SettledIsAccounted ==
    /\ Router!Settled = Accounted
    /\ Router!Offsets = Offsets
    /\ Router!Messages = Messages
  BY DEF Router!Settled, Accounted, Router!Offsets, Offsets, Router!Messages, Messages

(* The router may settle the message in process. *)
LEMMA CurrentReady ==
    IInv /\ current # None =>
        \E p \in Partitions, i \in Offsets : current = <<p, i>> /\ Router!Ready(p, i)
<1> SUFFICES ASSUME IInv, current # None
             PROVE  \E p \in Partitions, i \in Offsets :
                        current = <<p, i>> /\ Router!Ready(p, i)
  OBVIOUS
<1>1. PICK p \in Partitions, i \in Offsets : current = <<p, i>>
  BY Pairs DEF IInv, TypeOK
<1>2. \A k \in 1 .. i - 1 : <<p, k>> \in Accounted
  BY <1>1 DEF IInv, CurrentInv
<1> QED  BY <1>1, <1>2, SettledIsAccounted DEF Router!Ready

LEMMA RouterSteps ==
    \A p \in Partitions, i \in Offsets :
        Router!Route(p, i) \/ Router!GiveUp(p, i) \/ Router!Commit(p, i) => Router!Next
  BY SettledIsAccounted DEF Router!Next

(* Every step of the consumer is a step of the router, or invisible to it. *)
LEMMA StepRefines == IInv /\ [Next]_vars => [Router!Next]_(Router!vars)
<1> SUFFICES ASSUME IInv, [Next]_vars PROVE Router!Next \/ UNCHANGED Router!vars
  OBVIOUS
<1> USE Offset
<1>1. CASE ProduceProcessed \/ ProduceProcessedFails
  <2>1. current # None /\ pc = "work"
    BY <1>1 DEF IInv, CurrentInv, ProduceProcessed, ProduceProcessedFails
  <2>2. PICK p \in Partitions, i \in Offsets : current = <<p, i>> /\ Router!Ready(p, i)
    BY <2>1, CurrentReady
  <2>3. Routed' = Routed \cup {current} \/ Routed' = Routed
    <3>1. Routed \subseteq Routed'
      <4>1. \A m \in Messages : processed[m] > 0 => processed'[m] > 0
        BY <1>1, CopiesStay DEF IInv
      <4> QED  BY <1>1, <4>1 DEF Routed, ProduceProcessed, ProduceProcessedFails
    <3> QED  BY <3>1, RoutedStep
  <2>4. UNCHANGED <<poison, gaveUp, abandoned, committed>>
    BY <1>1 DEF ProduceProcessed, ProduceProcessedFails
  <2>5. CASE Routed' = Routed \cup {current}
    BY <2>2, <2>4, <2>5, RouterSteps DEF Router!Route
  <2>6. CASE Routed' = Routed
    BY <2>4, <2>6 DEF Router!vars
  <2> QED  BY <2>3, <2>5, <2>6
<1>2. CASE ProduceFailed
  <2>1. current # None /\ pc = "produceFailed"
    BY <1>2 DEF IInv, CurrentInv, ProduceFailed
  <2>2. PICK p \in Partitions, i \in Offsets : current = <<p, i>> /\ Router!Ready(p, i)
    BY <2>1, CurrentReady
  <2>3. UNCHANGED <<poison, processed, abandoned, committed>>
    BY <1>2 DEF ProduceFailed
  <2>4. CASE failed' = failed \cup {current} /\ gaveUp' = gaveUp
    BY <2>2, <2>3, <2>4, RouterSteps DEF Router!Route, Routed
  <2>5. CASE failed' = failed /\ gaveUp' = gaveUp \cup {current}
    BY <2>2, <2>3, <2>5, RouterSteps DEF Router!GiveUp, Routed
  <2> QED  BY <1>2, <2>4, <2>5 DEF ProduceFailed, WriteFailed
<1>3. CASE SleepCancelled
  <2>1. current # None
    BY <1>3 DEF IInv, CurrentInv, SleepCancelled
  <2>2. PICK p \in Partitions, i \in Offsets : current = <<p, i>> /\ Router!Ready(p, i)
    BY <2>1, CurrentReady
  <2>3. /\ UNCHANGED <<poison, processed, failed, gaveUp, committed>>
        /\ abandoned' = abandoned \cup {current}
    BY <1>3 DEF SleepCancelled, kafkaVars
  <2> QED  BY <2>2, <2>3, RouterSteps DEF Router!GiveUp, Routed
<1>4. CASE Commit /\ committed' # committed
  <2>1. pc \in DOMAIN CounterAfter /\ pc \notin {"fetch", "stopped"}
    BY <1>4, Counters DEF Commit
  <2>2. current # None /\ current \in Accounted
    BY <2>1 DEF IInv, CurrentInv
  <2>3. PICK p \in Partitions, i \in Offsets : current = <<p, i>> /\ Router!Ready(p, i)
    BY <2>2, CurrentReady
  <2>4. Router!Ready(p, i + 1)
    BY <2>2, <2>3, SettledIsAccounted DEF Router!Ready
  <2>5. committed' = [committed EXCEPT ![p] = i + 1]
    BY <1>4, <2>3 DEF Commit
  <2>6. UNCHANGED <<poison, processed, failed, gaveUp, abandoned>>
    BY <1>4 DEF Commit
  <2> QED  BY <2>4, <2>5, <2>6, RouterSteps DEF Router!Commit, Routed
<1>5. CASE Commit /\ committed' = committed
  BY <1>5 DEF Commit, Router!vars, Routed
<1>6. CASE (\E p \in Partitions : Fetch(p)) \/ LoopEnds
  BY <1>6 DEF Fetch, LoopEnds, Router!vars, Routed, kafkaVars
<1>7. CASE Rebalance \/ Cancel \/ CloseClients \/ Crash \/ Restart
  BY <1>7 DEF Rebalance, Cancel, CloseClients, Crash, Restart, StopFrame, Router!vars,
              Routed, kafkaVars
<1>8. CASE UNCHANGED vars
  BY <1>8 DEF vars, Router!vars, Routed
<1> QED  BY <1>1, <1>2, <1>3, <1>4, <1>5, <1>6, <1>7, <1>8 DEF Next, Loop

(* The Go consumer implements the at-least-once router. *)
THEOREM Refinement == Spec => ImplementsDelivery
<1>1. Init => Router!Init
  BY SettledIsAccounted DEF Init, Router!Init, Routed, FromStart
<1> QED  BY <1>1, StepRefines, Inductive, PTL DEF Spec, ImplementsDelivery, Router!Spec

-----------------------------------------------------------------------------
(* While nothing fails.                                                    *)

LEMMA MessagesFinite == IsFiniteSet(Messages)
<1>1. IsFiniteSet(Offsets)
  BY Offset, FS_Interval
<1> QED  BY <1>1, PartitionsAssumption, FS_Product DEF Messages

LEMMA OneMore ==
  ASSUME NEW S \in SUBSET Messages, NEW m \in Messages \ S
  PROVE  Cardinality(S) \in Nat /\ Cardinality(S \cup {m}) = Cardinality(S) + 1
  BY MessagesFinite, FS_Subset, FS_CardinalityType, FS_AddElement

(* The messages the loop is through with, and those of them, or in         *)
(* process, that have been written.                                        *)
Through == {m \in Messages : m[2] < position[m[1]] /\ m # current}
Written == (Through \ poison) \cup (IF pc = "commitProcessed" THEN {current} ELSE {})

(* Without a failure main has not begun to stop, and the message in        *)
(* process is the last one that was fetched.                               *)
CalmInv ==
    calm =>
        /\ stage = "running" /\ pc \in {"fetch", "work", "commitProcessed", "commitPoison"}
        /\ pc # "fetch" => position[current[1]] = current[2] + 1
        /\ pc \in {"work", "commitProcessed"} => current \notin poison
        /\ pc = "commitPoison" => current \in poison
        /\ failed = {}
        /\ \A m \in Messages : processed[m] = IF m \in Written THEN 1 ELSE 0
        /\ Through = CommittedMessages
        /\ metrics["processed"] = Cardinality(Through \ poison)
        /\ metrics["deserialization"] = Cardinality(Through \cap poison)

LEMMA CalmInit == Init => CalmInv
<1> SUFFICES ASSUME Init PROVE CalmInv
  OBVIOUS
<1>1. Through = {} /\ CommittedMessages = {}
  BY Pairs, Offset DEF Init, Through, CommittedMessages, FromStart
<1>2. Through \ poison = {} /\ Through \cap poison = {} /\ Written = {}
  BY <1>1 DEF Init, Written
<1>3. metrics["processed"] = 0 /\ metrics["deserialization"] = 0
  BY DEF Init, ZeroMetrics
<1> QED  BY <1>1, <1>2, <1>3, FS_EmptySet DEF Init, CalmInv

(* A fetch changes nothing about what the loop is through with.            *)
LEMMA FetchThrough ==
  ASSUME TypeOK, current = None, NEW p \in Partitions, Fetch(p)
  PROVE  /\ Through' = Through
         /\ position'[current'[1]] = current'[2] + 1
<1> USE Offset
<1>1. /\ current' = <<p, position[p]>>
      /\ position[p] \in Nat
      /\ position'[p] = position[p] + 1
      /\ \A q \in Partitions \ {p} : position'[q] = position[q]
  BY DEF Fetch, TypeOK
<1>2. ASSUME NEW m \in Messages
      PROVE  m[2] < position'[m[1]] /\ m # current' <=> m[2] < position[m[1]] /\ m # current
  <2>1. m[1] \in Partitions /\ m[2] \in Nat /\ m = <<m[1], m[2]>> /\ m # None
    BY Pairs
  <2>2. m # current' <=> m[1] # p \/ m[2] # position[p]
    BY <1>1, <2>1
  <2> QED  BY <1>1, <2>1, <2>2
<1> QED  BY <1>1, <1>2 DEF Through

(* A commit that takes effect moves the offset past the same message.      *)
LEMMA CommitThrough ==
  ASSUME TypeOK, current \in Messages, position[current[1]] = current[2] + 1,
         Through = CommittedMessages, current' = None, position' = position,
         committed' = [committed EXCEPT ![current[1]] = current[2] + 1]
  PROVE  /\ current \notin Through
         /\ Through' = Through \cup {current}
         /\ CommittedMessages' = Through'
<1> DEFINE p == current[1]  i == current[2]
<1>1. /\ p \in Partitions /\ i \in Nat /\ current = <<p, i>> /\ current # None
      /\ committed'[p] = i + 1 /\ \A q \in Partitions \ {p} : committed'[q] = committed[q]
      /\ position[p] = i + 1
  BY Pairs, Offset DEF TypeOK
<1>2. current \notin Through /\ Through' = Through \cup {current}
  BY <1>1, Pairs DEF Through
<1>3. ASSUME NEW m \in Messages
      PROVE  m[2] < committed'[m[1]] <=> m[2] < committed[m[1]] \/ m = current
  <2>1. m[1] \in Partitions /\ m[2] \in Nat /\ m = <<m[1], m[2]>>
    BY Pairs, Offset
  <2>2. m[2] < position[m[1]] /\ m # current <=> m[2] < committed[m[1]]
    BY DEF Through, CommittedMessages
  <2>3. CASE m[1] = p
    <3>1. m = current <=> m[2] = i
      BY <1>1, <2>1, <2>3
    <3> QED  BY <1>1, <2>1, <2>2, <2>3, <3>1
  <2>4. CASE m[1] # p
    BY <1>1, <2>1, <2>4
  <2> QED  BY <2>3, <2>4
<1>4. CommittedMessages' = CommittedMessages \cup {current}
  BY <1>3 DEF CommittedMessages
<1> QED  BY <1>2, <1>4

LEMMA CalmStep == IInv /\ CalmInv /\ [Next]_vars => CalmInv'
<1> SUFFICES ASSUME IInv, CalmInv, [Next]_vars, calm' PROVE CalmInv'
  BY DEF CalmInv
<1>a. TypeOK /\ CurrentInv
  BY DEF IInv
<1>b. ~(Rebalance \/ Cancel \/ Crash \/ ProduceProcessedFails)
  BY DEF Rebalance, Cancel, Crash, Disruption, ProduceProcessedFails
<1>c. calm
  BY <1>b DEF Next, Loop, Fetch, LoopEnds, SleepCancelled, ProduceProcessed, ProduceFailed,
              Commit, CloseClients, Restart, vars
<1>d. /\ stage = "running" /\ ~ContextDone
      /\ pc \in {"fetch", "work", "commitProcessed", "commitPoison"}
      /\ pc # "fetch" => position[current[1]] = current[2] + 1
      /\ pc \in {"work", "commitProcessed"} => current \notin poison
      /\ pc = "commitPoison" => current \in poison
      /\ failed = {}
      /\ \A m \in Messages : processed[m] = IF m \in Written THEN 1 ELSE 0
      /\ Through = CommittedMessages
      /\ metrics["processed"] = Cardinality(Through \ poison)
      /\ metrics["deserialization"] = Cardinality(Through \cap poison)
  BY <1>c DEF CalmInv, ContextDone
<1>1. ASSUME NEW p \in Partitions, Fetch(p) PROVE CalmInv'
  <2>1. /\ pc = "fetch" /\ pc' = IF current' \in poison THEN "commitPoison" ELSE "work"
        /\ UNCHANGED <<metrics, committed, processed, failed, poison, stage>>
    BY <1>1 DEF Fetch, kafkaVars
  <2>2. Through' = Through /\ position'[current'[1]] = current'[2] + 1
    BY <1>1, <1>a, <2>1, FetchThrough DEF CurrentInv
  <2>3. Written' = Written
    BY <2>1, <2>2 DEF Written
  <2> QED  BY <1>d, <2>1, <2>2, <2>3 DEF CalmInv, CommittedMessages
<1>2. CASE ProduceProcessed
  <2>1. /\ pc = "work" /\ pc' = "commitProcessed"
        /\ UNCHANGED <<metrics, committed, failed, poison, stage, position, current>>
    BY <1>2 DEF ProduceProcessed
  <2>2. current \in Messages /\ Through' = Through
    BY <1>a, <2>1 DEF TypeOK, CurrentInv, Through
  <2>3. current \notin Through /\ current \notin Written
    BY <2>1 DEF Through, Written
  <2>4. Written' = Written \cup {current}
    BY <1>d, <2>1, <2>2 DEF Written
  <2>5. processed' = [processed EXCEPT ![current] = 1]
    <3>1. PICK n \in 1 .. Many : WriteProcessed(n) /\ calm' = (calm /\ n = 1)
      BY <1>2 DEF ProduceProcessed
    <3>2. n = 1
      BY <3>1
    <3>3. processed[current] = 0 /\ AtMostMany(0 + 1) = 1
      BY <1>d, <2>2, <2>3 DEF AtMostMany, Many
    <3>4. processed' = [processed EXCEPT ![current] = AtMostMany(@ + 1)]
      BY <3>1, <3>2 DEF WriteProcessed
    <3> QED  BY <3>3, <3>4
  <2>6. \A m \in Messages : processed'[m] = IF m \in Written' THEN 1 ELSE 0
    BY <1>a, <1>d, <2>2, <2>4, <2>5 DEF TypeOK
  <2> QED  BY <1>d, <2>1, <2>2, <2>6 DEF CalmInv, CommittedMessages
<1>3. CASE Commit
  <2>1. /\ pc \in {"commitProcessed", "commitPoison"} /\ pc' = "fetch" /\ current' = None
        /\ committed' = [committed EXCEPT ![current[1]] = current[2] + 1]
        /\ UNCHANGED <<processed, failed, poison, stage, position>>
    BY <1>3, <1>d, Counters DEF Commit
  <2>2. current \in Messages /\ Through \in SUBSET Messages
    BY <1>a, <2>1 DEF TypeOK, CurrentInv, Through
  <2>3. /\ current \notin Through /\ Through' = Through \cup {current}
        /\ CommittedMessages' = Through'
    BY <1>a, <1>d, <2>1, <2>2, CommitThrough
  <2>4. Written' = Written
    BY <1>d, <2>1, <2>3 DEF Written
  <2>5. /\ metrics'["processed"] = Cardinality(Through' \ poison)
        /\ metrics'["deserialization"] = Cardinality(Through' \cap poison)
    <3>1. CASE pc = "commitProcessed"
      <4>1. /\ Through' \ poison = (Through \ poison) \cup {current}
            /\ Through' \cap poison = Through \cap poison
        BY <1>d, <2>3, <3>1
      <4>2. Cardinality(Through' \ poison) = Cardinality(Through \ poison) + 1
        BY <2>2, <2>3, <4>1, OneMore
      <4>3. /\ metrics'["processed"] = metrics["processed"] + 1
            /\ metrics'["deserialization"] = metrics["deserialization"]
        BY <1>3, <1>a, <3>1 DEF Commit, Inc, CounterAfter, TypeOK
      <4> QED  BY <1>d, <4>1, <4>2, <4>3
    <3>2. CASE pc = "commitPoison"
      <4>1. /\ Through' \cap poison = (Through \cap poison) \cup {current}
            /\ Through' \ poison = Through \ poison
        BY <1>d, <2>3, <3>2
      <4>2. Cardinality(Through' \cap poison) = Cardinality(Through \cap poison) + 1
        BY <2>2, <2>3, <4>1, OneMore
      <4>3. /\ metrics'["deserialization"] = metrics["deserialization"] + 1
            /\ metrics'["processed"] = metrics["processed"]
        BY <1>3, <1>a, <3>2 DEF Commit, Inc, CounterAfter, TypeOK
      <4> QED  BY <1>d, <4>1, <4>2, <4>3
    <3> QED  BY <2>1, <3>1, <3>2
  <2> QED  BY <1>d, <2>1, <2>3, <2>4, <2>5 DEF CalmInv
<1>4. CASE LoopEnds \/ SleepCancelled \/ ProduceFailed \/ CloseClients \/ Restart
  BY <1>4, <1>d DEF LoopEnds, SleepCancelled, ProduceFailed, CloseClients, Restart
<1>5. CASE UNCHANGED vars
  BY <1>5, <1>d DEF vars, CalmInv, Through, Written, CommittedMessages
<1> QED
  BY <1>b, <1>1, <1>2, <1>3, <1>4, <1>5 DEF Next, Loop

(* While nothing goes wrong delivery is exactly once, and counted once.    *)
THEOREM ExactlyOnce == Spec => []CalmExactlyOnce
<1>1. Init => IInv /\ CalmInv
  BY InitInv, CalmInit
<1>2. (IInv /\ CalmInv) /\ [Next]_vars => (IInv /\ CalmInv)'
  BY NextInv, CalmStep
<1>3. CalmInv => CalmExactlyOnce
  BY DEF CalmInv, CalmExactlyOnce, Through, Written
<1> QED  BY <1>1, <1>2, <1>3, PTL DEF Spec

-----------------------------------------------------------------------------
(* Progress.  The loop is one goroutine and a stop has four steps, so the  *)
(* way back to FetchMessage is a chain of leads-to steps whose length no   *)
(* constant changes; that every message is reached needs an induction over *)
(* the log, and stays with TLC.  The prover cannot evaluate ENABLED: what  *)
(* it means, that a guard holds, is the hypothesis of the theorem.         *)

InMessage == stage = "running" /\ pc \notin {"fetch", "stopped"}
Stopping == stage \in {"cancelled", "producerClosed", "readerClosed"}

StepsEnabled ==
    /\ InMessage => ENABLED <<Loop>>_vars
    /\ Stopping => ENABLED <<CloseClients>>_vars
    /\ stage = "down" => ENABLED <<Restart>>_vars

Fetching == stage = "running" /\ pc = "fetch"
Working(where) == stage = "running" /\ pc = where
Committing == stage = "running" /\ pc \in DOMAIN CounterAfter
Ending(where) == stage = where
Stopped == stage # "running"

LEMMA StoppedMeansDone ==
  ASSUME IInv, pc = "stopped" => stage # "running", [Next]_vars
  PROVE  (pc = "stopped" => stage # "running")'
  BY DEF Next, Loop, Fetch, LoopEnds, SleepCancelled, ProduceProcessed, ProduceProcessedFails,
         ProduceFailed, Commit, Rebalance, Cancel, CloseClients, Crash, Restart, StopFrame,
         ContextDone, vars

\* A step of the loop takes the message to its next place, and the last one
\* back to FetchMessage, whatever the write or the commit returned.
LoopGoesOn ==
    /\ Working("work") =>
         Working("work")' \/ Working("produceFailed")' \/ Committing' \/ Stopped'
    /\ Working("produceFailed") => Working("produceFailed")' \/ Committing' \/ Stopped'
    /\ Committing => Committing' \/ Fetching' \/ Stopped'
    /\ Loop => /\ Working("work") => ~Working("work")'
               /\ Working("produceFailed") => ~Working("produceFailed")'
               /\ Committing => ~Committing'

StopGoesOn ==
    /\ Ending("cancelled") =>
         Ending("cancelled")' \/ Ending("producerClosed")' \/ Ending("down")'
    /\ Ending("producerClosed") =>
         Ending("producerClosed")' \/ Ending("readerClosed")' \/ Ending("down")'
    /\ Ending("readerClosed") => Ending("readerClosed")' \/ Ending("down")'
    /\ Ending("down") => Ending("down")' \/ Fetching'
    /\ CloseClients => /\ Ending("cancelled") => ~Ending("cancelled")'
                       /\ Ending("producerClosed") => ~Ending("producerClosed")'
                       /\ Ending("readerClosed") => ~Ending("readerClosed")'
    /\ Restart => ~Ending("down")'

LEMMA LoopMoves == IInv /\ [Next]_vars => LoopGoesOn
  <1> SUFFICES ASSUME IInv, [Next]_vars PROVE LoopGoesOn
    OBVIOUS
  <1> USE Counters DEF LoopGoesOn, Working, Committing, Fetching, Stopped
  <1>1. CASE Loop
    BY <1>1 DEF Loop, Fetch, LoopEnds, SleepCancelled, ProduceProcessed, ProduceProcessedFails,
                ProduceFailed, Commit, ContextDone
  <1>2. CASE ~Loop
    <2>1. CASE Rebalance \/ Cancel \/ CloseClients \/ Crash \/ UNCHANGED vars
      BY <1>2, <2>1 DEF Rebalance, Cancel, CloseClients, Crash, StopFrame, vars
    <2>2. CASE Restart
      BY <1>2, <2>2 DEF Restart
    <2> QED
      BY <1>2, <2>1, <2>2 DEF Next
  <1> QED
    BY <1>1, <1>2

LEMMA StopMoves == IInv /\ [Next]_vars => StopGoesOn
  <1> SUFFICES ASSUME IInv, [Next]_vars PROVE StopGoesOn
    OBVIOUS
  <1> USE DEF StopGoesOn, Ending, Fetching
  <1>1. CASE Loop \/ Rebalance \/ UNCHANGED vars
    <2>1. UNCHANGED stage /\ ~CloseClients /\ ~Restart
      BY <1>1 DEF Loop, Fetch, LoopEnds, SleepCancelled, ProduceProcessed, ProduceProcessedFails,
                  ProduceFailed, Commit, Rebalance, CloseClients, Restart, vars
    <2> QED
      BY <2>1
  <1>2. CASE Cancel \/ CloseClients \/ Crash
    BY <1>2 DEF Cancel, CloseClients, Crash, Up, Restart
  <1>3. CASE Restart
    BY <1>3 DEF Restart, CloseClients
  <1> QED
    BY <1>1, <1>2, <1>3 DEF Next

\* The consumer comes back to FetchMessage, in a process that is not being
\* stopped, again and again: no write that fails, no commit that fails and no
\* message that is not JSON keeps the loop, and a stop or a crash ends in a new
\* process (Start and processMessage; restart: unless-stopped).
THEOREM LoopComesBack == FairSpec /\ []StepsEnabled => []<>(stage = "running" /\ pc = "fetch")
  <1> DEFINE DoneOnly == pc = "stopped" => stage # "running"
  <1>1. Init => DoneOnly
    BY DEF Init
  <1>2. IInv /\ DoneOnly /\ [Next]_vars => DoneOnly'
    BY StoppedMeansDone
  <1>3. IInv /\ [Next]_vars => LoopGoesOn /\ StopGoesOn
    BY LoopMoves, StopMoves
  <1>4. IInv /\ DoneOnly =>
          \/ Fetching \/ Working("work") \/ Working("produceFailed") \/ Committing
          \/ Ending("cancelled") \/ Ending("producerClosed") \/ Ending("readerClosed")
          \/ Ending("down")
    BY DEF IInv, TypeOK, Stages, Fetching, Working, Committing, Ending
  <1>5. Stopped => ~Fetching /\ ~Working("work") /\ ~Working("produceFailed") /\ ~Committing
    BY DEF Stopped, Fetching, Working, Committing
  <1>6. StepsEnabled =>
          /\ Working("work") \/ Working("produceFailed") \/ Committing => ENABLED <<Loop>>_vars
          /\ Ending("cancelled") \/ Ending("producerClosed") \/ Ending("readerClosed")
               => ENABLED <<CloseClients>>_vars
          /\ Ending("down") => ENABLED <<Restart>>_vars
    BY Counters DEF StepsEnabled, InMessage, Stopping, Working, Committing, Ending
  <1>7. Fetching <=> stage = "running" /\ pc = "fetch"
    BY DEF Fetching
  <1> QED
    BY <1>1, <1>2, <1>3, <1>4, <1>5, <1>6, <1>7, Inductive, PTL
       DEF FairSpec, Spec, LoopGoesOn, StopGoesOn

-----------------------------------------------------------------------------
(* What the progress comes to.                                             *)

\* Messages whose outcome does not depend on a commit any more.
Outcome == Routed \cup poison \cup gaveUp

\* Message k of a partition is before everything the loop has to do with the
\* partition, or after it.
Ahead(p, k) == /\ k >= position[p] /\ k >= committed[p]
               /\ \A i \in Offsets : current = <<p, i>> => k >= i
Behind(p, k) == /\ k < position[p] /\ k < committed[p]
                /\ \A i \in Offsets : current = <<p, i>> => k < i

\* A running process has an outcome for everything between.
PassedInv ==
    /\ pc \in DOMAIN CounterAfter => current \in Outcome
    /\ stage = "running" =>
         \A p \in Partitions, k \in Offsets :
            <<p, k>> \in Outcome \/ <<p, k>> = current \/ Ahead(p, k) \/ Behind(p, k)

LEMMA OutcomeGrows == IInv /\ [Next]_vars => Outcome \subseteq Outcome'
  <1> SUFFICES ASSUME IInv, [Next]_vars PROVE Outcome \subseteq Outcome'
    OBVIOUS
  <1> USE DEF Outcome, Routed
  <1>1. TypeOK
    BY DEF IInv
  <1>2. CASE ProduceProcessed \/ ProduceProcessedFails
    <2>1. \A m \in Messages : processed[m] > 0 => processed'[m] > 0
      BY <1>1, <1>2, CopiesStay
    <2> QED
      BY <1>2, <2>1 DEF ProduceProcessed, ProduceProcessedFails
  <1>3. CASE ProduceFailed
    BY <1>3 DEF ProduceFailed, WriteFailed
  <1>4. CASE Commit \/ SleepCancelled \/ LoopEnds \/ \E p \in Partitions : Fetch(p)
    BY <1>4 DEF Commit, SleepCancelled, LoopEnds, Fetch, kafkaVars
  <1>5. CASE Rebalance \/ Cancel \/ CloseClients \/ Crash \/ Restart
    BY <1>5 DEF Rebalance, Cancel, CloseClients, Crash, Restart, StopFrame, kafkaVars
  <1>6. CASE UNCHANGED vars
    BY <1>6 DEF vars
  <1> QED
    BY <1>2, <1>3, <1>4, <1>5, <1>6 DEF Next, Loop

LEMMA CommitHasOutcome ==
  ASSUME IInv, PassedInv, [Next]_vars, pc' \in DOMAIN CounterAfter
  PROVE  current' \in Outcome'
  <1> USE Counters DEF Outcome
  <1>1. TypeOK /\ (pc \notin {"fetch", "stopped"} => current \in Messages)
    BY DEF IInv, TypeOK, CurrentInv
  <1>2. CASE ProduceProcessed
    <2>1. PICK n \in 1 .. Many : WriteProcessed(n)
      BY <1>2 DEF ProduceProcessed
    <2>2. current' = current /\ current \in Messages
      BY <1>1, <1>2 DEF ProduceProcessed
    <2>3. processed[current] \in 0 .. Many
      BY <1>1, <2>2 DEF TypeOK
    <2>4. AtMostMany(processed[current] + n) > 0
      BY <2>1, <2>3 DEF AtMostMany, Many
    <2>5. processed'[current] > 0
      BY <1>1, <2>1, <2>2, <2>4 DEF WriteProcessed, TypeOK
    <2> QED
      BY <2>2, <2>5 DEF Routed
  <1>3. CASE ProduceFailed
    BY <1>3 DEF ProduceFailed, WriteFailed, Routed
  <1>4. CASE \E p \in Partitions : Fetch(p)
    BY <1>4 DEF Fetch
  <1>5. CASE UNCHANGED <<pc, current>>
    BY <1>5, OutcomeGrows DEF PassedInv
  <1>6. CASE Rebalance \/ Cancel \/ CloseClients \/ Crash \/ UNCHANGED vars
    BY <1>5, <1>6 DEF Rebalance, Cancel, CloseClients, Crash, StopFrame, vars
  <1>7. ~(LoopEnds \/ SleepCancelled \/ ProduceProcessedFails \/ Commit \/ Restart)
    BY DEF LoopEnds, SleepCancelled, ProduceProcessedFails, Commit, Restart
  <1> QED
    BY <1>2, <1>3, <1>4, <1>6, <1>7 DEF Next, Loop

LEMMA PassedStep == IInv /\ PassedInv /\ [Next]_vars => PassedInv'
  <1> SUFFICES ASSUME IInv, PassedInv, [Next]_vars, stage' = "running",
                      NEW p \in Partitions, NEW k \in Offsets,
                      <<p, k>> \notin Outcome', <<p, k>> # current'
               PROVE  Ahead(p, k)' \/ Behind(p, k)'
    BY CommitHasOutcome DEF PassedInv
  <1> USE Offset, Pairs DEF Ahead, Behind
  <1>1. TypeOK /\ CurrentInv
    BY DEF IInv
  <1>2. k \in Nat /\ position[p] \in Nat /\ committed[p] \in Nat
    BY <1>1 DEF TypeOK
  <1>3. <<p, k>> \notin Outcome
    BY OutcomeGrows
  <1>4. CASE Restart
    BY <1>2, <1>4 DEF Restart, kafkaVars
  <1>5. stage = "running" \/ Restart
    BY DEF Next, Loop, Fetch, LoopEnds, SleepCancelled, ProduceProcessed, ProduceProcessedFails,
           ProduceFailed, Commit, Rebalance, Cancel, CloseClients, Crash, vars
  <1>6. CASE stage = "running" /\ ~Restart
    <2>1. <<p, k>> = current \/ Ahead(p, k) \/ Behind(p, k)
      BY <1>3, <1>6 DEF PassedInv
    <2>2. ASSUME NEW q \in Partitions, Fetch(q) PROVE Ahead(p, k)' \/ Behind(p, k)'
      <3>1. /\ current = None /\ current' = <<q, position[q]>>
            /\ position'[q] = position[q] + 1
            /\ p # q => position'[p] = position[p]
            /\ committed' = committed
        BY <1>1, <2>2 DEF Fetch, CurrentInv, TypeOK, kafkaVars
      <3>2. CASE p = q
        <4>1. k # position[p]
          BY <3>1, <3>2
        <4>2. Ahead(p, k) \/ Behind(p, k)
          BY <2>1, <3>1
        <4>3. \A i \in Offsets : current' = <<p, i>> => i = position[p]
          BY <3>1, <3>2
        <4> QED
          BY <1>2, <3>1, <3>2, <4>1, <4>2, <4>3
      <3>3. CASE p # q
        <4>1. \A i \in Offsets : current' # <<p, i>>
          BY <3>1, <3>3
        <4> QED
          BY <2>1, <3>1, <3>3, <4>1
      <3> QED
        BY <3>2, <3>3
    <2>3. CASE Commit
      <3>1. current \in Outcome /\ current \in Messages /\ current' = None /\ position' = position
        BY <1>1, <2>3, Counters DEF Commit, PassedInv, CurrentInv, TypeOK
      <3>2. Ahead(p, k) \/ Behind(p, k)
        BY <1>3, <2>1, <3>1
      <3>3. \A i \in Offsets : current' # <<p, i>>
        BY <3>1
      <3>4. CASE committed' = committed
        BY <3>1, <3>2, <3>3, <3>4
      <3>5. CASE committed' = [committed EXCEPT ![current[1]] = current[2] + 1]
        <4>1. CASE current[1] = p
          <5>1. current = <<p, current[2]>> /\ current[2] \in Offsets
            BY <3>1, <4>1
          <5>2. committed'[p] = current[2] + 1
            BY <1>1, <3>5, <4>1 DEF TypeOK
          <5>3. k # current[2]
            BY <1>3, <3>1, <5>1
          <5> QED
            BY <1>2, <3>1, <3>2, <3>3, <5>1, <5>2, <5>3
        <4>2. CASE current[1] # p
          <5>1. committed'[p] = committed[p]
            BY <1>1, <3>5, <4>2 DEF TypeOK
          <5> QED
            BY <3>1, <3>2, <3>3, <5>1
        <4> QED
          BY <4>1, <4>2
      <3> QED
        BY <2>3, <3>4, <3>5 DEF Commit
    <2>4. CASE Rebalance
      <3>1. position' = committed /\ committed' = committed /\ current' = current
        BY <2>4 DEF Rebalance, kafkaVars
      <3> QED
        BY <2>1, <3>1
    <2>5. CASE UNCHANGED <<position, committed, current>>
      BY <2>1, <2>5
    <2>6. CASE ProduceProcessed \/ ProduceProcessedFails \/ ProduceFailed \/ UNCHANGED vars
      BY <2>5, <2>6 DEF ProduceProcessed, ProduceProcessedFails, ProduceFailed, vars
    <2>7. ~(LoopEnds \/ SleepCancelled \/ Cancel \/ CloseClients \/ Crash)
      BY <1>6 DEF LoopEnds, SleepCancelled, Cancel, CloseClients, Crash, ContextDone
    <2> QED
      BY <1>6, <2>2, <2>3, <2>4, <2>6, <2>7 DEF Next, Loop
  <1> QED
    BY <1>4, <1>5, <1>6

\* What a running process has read is decided: routed, not JSON, given up, or
\* dropped by a cancelled sleep and passed by a later commit.  Nothing is
\* dropped and merely forgotten: it would be delivered again (processMessage
\* without a commit; the restart at the committed offsets).
THEOREM ReadMeansEnded ==
  Spec => [](stage = "running" /\ pc = "fetch" =>
               \A m \in Messages : m[2] < position[m[1]] =>
                  m \in Routed \cup poison \cup gaveUp \cup (abandoned \cap CommittedMessages))
  <1> DEFINE goal == stage = "running" /\ pc = "fetch" =>
               \A m \in Messages : m[2] < position[m[1]] =>
                  m \in Routed \cup poison \cup gaveUp \cup (abandoned \cap CommittedMessages)
  <1>1. Init => PassedInv
    <2> SUFFICES ASSUME Init PROVE PassedInv
      OBVIOUS
    <2>1. /\ pc \notin DOMAIN CounterAfter /\ current = None
          /\ \A p \in Partitions : position[p] = 1 /\ committed[p] = 1
      BY Counters DEF Init, FromStart
    <2> QED
      BY <2>1, Offset, Pairs DEF PassedInv, Ahead
  <1>2. IInv /\ PassedInv => goal
    <2> SUFFICES ASSUME IInv, PassedInv, stage = "running", pc = "fetch",
                        NEW m \in Messages, m[2] < position[m[1]], m \notin Outcome
                 PROVE  m \in abandoned \cap CommittedMessages
      BY DEF Outcome
    <2>1. /\ m[1] \in Partitions /\ m[2] \in Offsets /\ m = <<m[1], m[2]>>
          /\ current = None /\ m # None
      BY Pairs DEF IInv, CurrentInv
    <2>2. m[2] \in Nat /\ position[m[1]] \in Nat
      BY <2>1, Offset DEF IInv, TypeOK
    <2>3. m[2] < committed[m[1]]
      BY <2>1, <2>2 DEF PassedInv, Ahead, Behind
    <2>4. m \in Accounted
      <3>1. committed[m[1]] \in Nat /\ m[2] \in 1 .. committed[m[1]] - 1
        BY <2>1, <2>3, Offset DEF IInv, TypeOK
      <3> QED
        BY <2>1, <3>1 DEF IInv, CommittedInv
    <2> QED
      BY <2>3, <2>4 DEF Accounted, Outcome, CommittedMessages
  <1> QED
    BY <1>1, <1>2, PassedStep, Inductive, PTL DEF Spec

-----------------------------------------------------------------------------
(* How many steps are left.  The loop has at most five for a message the    *)
(* reader has not passed; a rebalance or a restart gives the reader all of *)
(* them again, and of those there are at most MaxDisruptions, each with    *)
(* the steps of a stop after it.                                           *)

Unread == {m \in Messages : m[2] >= position[m[1]]}

LeftOf == [stopped |-> 0, fetch |-> 1, commitProcessed |-> 2, commitFailed |-> 2,
           commitPoison |-> 2, produceFailed |-> 3, work |-> 4]
StagesLeft == [running |-> 0, down |-> 1, readerClosed |-> 2, producerClosed |-> 3,
               cancelled |-> 4]

InProcess == 5 * Cardinality(Unread) + LeftOf[pc]
Round == 5 * Cardinality(Messages) + 5
Budget == 5 * (MaxDisruptions - disruptions) + StagesLeft[stage]
StepsLeft == Budget * Round + InProcess

InBounds ==
    /\ LeftOf[pc] \in 0 .. 4 /\ StagesLeft[stage] \in 0 .. 4
    /\ Cardinality(Unread) \in Nat
    /\ InProcess \in 0 .. Round - 1 /\ Round \in Nat
    /\ Budget \in 0 .. 5 * MaxDisruptions + 4

LEMMA Sizes == TypeOK => InBounds
  <1> SUFFICES ASSUME TypeOK PROVE InBounds
    OBVIOUS
  <1>1. LeftOf[pc] \in 0 .. 4
    BY Counters DEF TypeOK, LeftOf
  <1>2. StagesLeft[stage] \in 0 .. 4
    BY DEF TypeOK, Stages, StagesLeft
  <1>3. Cardinality(Messages) \in Nat /\ Cardinality(Unread) \in Nat
        /\ Cardinality(Unread) <= Cardinality(Messages)
    BY MessagesFinite, FS_Subset, FS_CardinalityType DEF Unread
  <1>4. MaxDisruptions \in Nat /\ disruptions \in 0 .. MaxDisruptions
    BY LogAssumption DEF TypeOK
  <1> QED
    BY <1>1, <1>2, <1>3, <1>4 DEF InBounds, InProcess, Round, Budget

LEMMA SizesNext == TypeOK' => InBounds'
  BY Sizes, PTL

\* The larger digit decides.
LEMMA Digits ==
  ASSUME NEW a \in Nat, NEW b \in Nat, NEW r \in Nat, NEW x \in Int, NEW y \in Int,
         a < b, 0 <= y, x < r
  PROVE  a * r + x < b * r + y
  <1>1. b - 1 - a \in Nat
    OBVIOUS
  <1>2. (b - 1 - a) * r \in Nat
    BY <1>1
  <1>3. b * r = a * r + r + (b - 1 - a) * r
    OBVIOUS
  <1> QED
    BY <1>2, <1>3

LEMMA FetchReads ==
  ASSUME TypeOK, NEW p \in Partitions, Fetch(p)
  PROVE  Cardinality(Unread') = Cardinality(Unread) - 1
  <1> DEFINE m == <<p, position[p]>>
  <1>1. m \in Unread
    BY Pairs, Offset DEF Fetch, Unread, TypeOK
  <1>2. Unread' = Unread \ {m}
    <2>1. position[p] \in Nat /\ \A n \in Messages : n[2] \in Nat /\ position[n[1]] \in Nat
      BY Pairs, Offset DEF TypeOK
    <2>2. \A n \in Messages : position'[n[1]] = IF n[1] = p THEN position[p] + 1 ELSE position[n[1]]
      BY Pairs DEF Fetch, TypeOK
    <2>3. \A n \in Messages : n = m <=> n[1] = p /\ n[2] = position[p]
      BY Pairs
    <2>4. \A n \in Messages : n[2] >= position'[n[1]] <=> n[2] >= position[n[1]] /\ n # m
      BY <2>1, <2>2, <2>3
    <2> QED
      BY <2>4 DEF Unread
  <1>3. IsFiniteSet(Unread)
    BY MessagesFinite, FS_Subset DEF Unread
  <1> QED
    BY <1>1, <1>2, <1>3, FS_RemoveElement

LEMMA StepCounts == IInv /\ [Next]_vars => [StepsLeft' < StepsLeft]_vars
  <1> SUFFICES ASSUME IInv, Next PROVE StepsLeft' < StepsLeft
    BY DEF vars
  <1>1. TypeOK /\ TypeOK'
    BY TypeStep DEF IInv
  <1>2. /\ LeftOf[pc] \in 0 .. 4 /\ LeftOf[pc'] \in 0 .. 4
        /\ Cardinality(Unread) \in Nat /\ Cardinality(Unread') \in Nat
        /\ InProcess \in 0 .. Round - 1 /\ InProcess' \in 0 .. Round - 1
        /\ Round \in Nat /\ Round' = Round /\ Budget \in Nat /\ Budget' \in Nat
    <2>1. Round' = Round
      BY DEF Round, Messages
    <2>2. InBounds
      BY <1>1, Sizes
    <2>3. InBounds'
      BY <1>1, SizesNext
    <2>4. /\ LeftOf[pc] \in 0 .. 4 /\ Cardinality(Unread) \in Nat
          /\ InProcess \in 0 .. Round - 1 /\ Round \in Nat /\ Budget \in Nat
      BY <2>2, LogAssumption DEF InBounds
    <2>5. /\ LeftOf[pc'] \in 0 .. 4 /\ Cardinality(Unread') \in Nat
          /\ InProcess' \in 0 .. Round - 1 /\ Budget' \in Nat
      BY <2>1, <2>3, LogAssumption DEF InBounds, LeftOf
    <2> QED
      BY <2>1, <2>4, <2>5
  <1>3. ASSUME Budget' = Budget, InProcess' < InProcess PROVE StepsLeft' < StepsLeft
    <2> DEFINE a == Budget * Round
               x == InProcess'
    <2>1. a \in Nat /\ x \in Int /\ InProcess \in Int /\ x < InProcess
      BY <1>2, <1>3
    <2>2. StepsLeft = a + InProcess /\ StepsLeft' = a + x
      BY <1>2, <1>3 DEF StepsLeft
    <2> HIDE DEF a, x
    <2> QED
      BY <2>1, <2>2
  <1>4. ASSUME Budget' < Budget PROVE StepsLeft' < StepsLeft
    <2> DEFINE a == Budget'
               x == InProcess'
    <2>1. a \in Nat /\ a < Budget /\ x \in Int /\ x < Round
      BY <1>2, <1>4
    <2> HIDE DEF a, x
    <2>2. a * Round + x < Budget * Round + InProcess
      BY <1>2, <2>1, Digits
    <2> QED
      BY <1>2, <2>2 DEF StepsLeft, a, x
  <1>5. CASE Loop
    <2>1. Budget' = Budget
      BY <1>5 DEF Loop, Fetch, LoopEnds, SleepCancelled, ProduceProcessed, ProduceProcessedFails,
                  ProduceFailed, Commit, Budget
    <2>2. CASE \E p \in Partitions : Fetch(p)
      <3>1. Cardinality(Unread') = Cardinality(Unread) - 1
        BY <1>1, <2>2, FetchReads
      <3>2. LeftOf[pc] = 1
        BY <2>2 DEF Fetch, LeftOf
      <3> QED
        BY <1>2, <1>3, <2>1, <3>1, <3>2 DEF InProcess, LeftOf
    <2>3. CASE ~\E p \in Partitions : Fetch(p)
      <3>1. Unread' = Unread
        BY <1>5, <2>3 DEF Loop, LoopEnds, SleepCancelled, ProduceProcessed, ProduceProcessedFails,
                          ProduceFailed, Commit, Unread, Messages
      <3>2. LeftOf[pc'] < LeftOf[pc]
        BY <1>5, <2>3, Counters
           DEF Loop, LoopEnds, SleepCancelled, ProduceProcessed, ProduceProcessedFails,
               ProduceFailed, Commit, LeftOf
      <3> QED
        BY <1>2, <1>3, <2>1, <3>1, <3>2 DEF InProcess, LeftOf
    <2> QED
      BY <2>2, <2>3
  <1>6. CASE Rebalance \/ Cancel \/ Crash
    <2>1. disruptions' = disruptions + 1 /\ disruptions \in Nat /\ MaxDisruptions \in Nat
      BY <1>1, <1>6, LogAssumption DEF Rebalance, Cancel, Crash, Disruption, TypeOK
    <2>2. /\ StagesLeft[stage] \in 0 .. 4 /\ StagesLeft[stage'] \in 0 .. 4
          /\ StagesLeft[stage'] # 4 \/ StagesLeft[stage] # 0 \/ stage' = "cancelled"
      BY <1>1, <1>6 DEF TypeOK, Stages, StagesLeft
    <2> QED
      BY <1>2, <1>4, <2>1, <2>2 DEF Budget, StagesLeft
  <1>7. CASE CloseClients \/ Restart
    <2>1. StagesLeft[stage'] < StagesLeft[stage] /\ disruptions' = disruptions
      BY <1>7 DEF CloseClients, Restart, StagesLeft
    <2>2. StagesLeft[stage] \in Nat /\ StagesLeft[stage'] \in Nat
          /\ 5 * (MaxDisruptions - disruptions) \in Nat
      BY <1>1, LogAssumption DEF TypeOK, Stages, StagesLeft
    <2> QED
      BY <1>4, <2>1, <2>2 DEF Budget, StagesLeft
  <1> QED
    BY <1>5, <1>6, <1>7 DEF Next

\* The consumer never turns in a circle: every step there is, of the loop, of
\* the broker and of main, uses up one of a bounded number, so without further
\* disruptions the loop comes to the end of the log (Start; the retries and
\* redeliveries around it are all paid for by a disruption).
THEOREM RunIsBounded ==
  Spec => /\ [](StepsLeft \in 0 .. (5 * MaxDisruptions + 5) * Round)
          /\ [][StepsLeft' < StepsLeft]_vars
  <1>1. IInv => StepsLeft \in 0 .. (5 * MaxDisruptions + 5) * Round
    <2> SUFFICES ASSUME IInv PROVE StepsLeft \in 0 .. (5 * MaxDisruptions + 5) * Round
      OBVIOUS
    <2>1. /\ InProcess \in 0 .. Round - 1 /\ Round \in Nat
          /\ Budget \in Nat /\ Budget < 5 * MaxDisruptions + 5 /\ MaxDisruptions \in Nat
      BY Sizes, LogAssumption DEF IInv, InBounds
    <2>2. Budget * Round \in Nat /\ (5 * MaxDisruptions + 5) * Round \in Nat
      BY <2>1
    <2>3. Budget * Round + InProcess < (5 * MaxDisruptions + 5) * Round + 0
      BY <2>1, Digits
    <2> QED
      BY <2>1, <2>2, <2>3 DEF StepsLeft
  <1> QED
    BY <1>1, StepCounts, Inductive, PTL DEF Spec
=============================================================================
