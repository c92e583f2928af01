------------------------- MODULE DotnetServiceProofs -------------------------
(***************************************************************************)
(* What is proved of the .NET service for any finite set of orders: its    *)
(* types, that the counters balance, and that an answer means what the     *)
(* topic holds.  A request moves from one place to another; how many are   *)
(* at a place then changes by at most one (lemma Moved), and each property *)
(* follows from what the step counts.                                      *)
(***************************************************************************)
EXTENDS DotnetService, FiniteSetTheorems, TLAPS

\* From the drain on, a request is open only if the wait for it was given up.
Deserted ==
  host \in {"flushing", "disposed"} /\ At(Open) # {} => timedOut

IInv == TypeOK /\ MetricsBalance /\ Deserted /\ AnswersMeanTopic

Count(places) == Cardinality(At(places))

-----------------------------------------------------------------------------
(* Counting.                                                               *)

LEMMA Counted ==
  ASSUME NEW places
  PROVE  IsFiniteSet(At(places)) /\ Count(places) \in Nat
  <1>1. At(places) \subseteq Orders
    BY DEF At
  <1> QED
    BY <1>1, OrdersAreFinite, FS_Subset, FS_CardinalityType DEF Count

\* One request goes elsewhere.
LEMMA Moved ==
  ASSUME TypeOK, NEW o \in Orders, NEW where, Goto(o, where), NEW places
  PROVE  /\ request[o] \in places /\ where \notin places =>
              Count(places)' = Count(places) - 1
         /\ request[o] \notin places /\ where \in places =>
              Count(places)' = Count(places) + 1
         /\ (request[o] \in places <=> where \in places) =>
              Count(places)' = Count(places)
  <1>1. /\ request'[o] = where
        /\ \A p \in Orders \ {o} : request'[p] = request[p]
    BY DEF Goto, TypeOK
  <1>2. IsFiniteSet(At(places)) /\ Count(places) \in Nat
    BY Counted
  <1>3. CASE request[o] \in places /\ where \notin places
    <2>1. At(places)' = At(places) \ {o} /\ o \in At(places)
      BY <1>1, <1>3 DEF At
    <2> QED
      BY <1>2, <1>3, <2>1, FS_RemoveElement DEF Count
  <1>4. CASE request[o] \notin places /\ where \in places
    <2>1. At(places)' = At(places) \cup {o} /\ o \notin At(places)
      BY <1>1, <1>4 DEF At
    <2> QED
      BY <1>2, <1>4, <2>1, FS_AddElement DEF Count
  <1>5. CASE request[o] \in places <=> where \in places
    <2>1. At(places)' = At(places)
      BY <1>1, <1>5 DEF At
    <2> QED
      BY <1>5, <2>1 DEF Count
  <1> QED
    BY <1>3, <1>4, <1>5

LEMMA Stayed ==
  ASSUME UNCHANGED request, NEW places
  PROVE  At(places)' = At(places) /\ Count(places)' = Count(places)
  BY DEF At, Count

-----------------------------------------------------------------------------
(* Types.                                                                  *)

LEMMA InitHolds == Init => IInv
  <1> SUFFICES ASSUME Init PROVE IInv
    OBVIOUS
  <1>1. \A places : At(places) # {} => "none" \in places
    BY DEF Init, At
  <1>2. \A places : "none" \notin places => Count(places) = 0
    BY <1>1, FS_EmptySet DEF Count
  <1>3. TypeOK
    <2>1. metrics \in [Counters -> Nat] /\ fromConsumer \in [Reasons -> 0 .. MaxConsumerFailures]
      BY BoundAssumption DEF Init
    <2> QED
      BY <2>1 DEF Init, TypeOK, HostStates
  <1>4. Cardinality(At({"500"}) \cap placed) = 0
    BY FS_EmptySet DEF Init
  <1>5. MetricsBalance
    BY <1>2 DEF Init, MetricsBalance, OwnFailures, Counters, Reasons, Count, Disposed
  <1>6. AnswersMeanTopic
    BY <1>1, <1>4 DEF Init, AnswersMeanTopic, OwnFailures, Counters, Reasons
  <1> QED
    BY <1>3, <1>5, <1>6 DEF IInv, Deserted, Init

LEMMA NextTyped == TypeOK /\ [Next]_vars => TypeOK'
  <1> SUFFICES ASSUME TypeOK, [Next]_vars PROVE TypeOK'
    OBVIOUS
  <1> USE DEF TypeOK, Open, Answers, Counters, Reasons, HostStates, Goto, Inc,
              RequestFrame, HostFrame
  <1>1. ASSUME NEW o \in Orders, Post(o) \/ Refuse(o) PROVE TypeOK'
    BY <1>1 DEF Post, Refuse
  <1>2. ASSUME NEW o \in Orders, Handle(o) \/ RollFails(o) \/ Publish(o) PROVE TypeOK'
    BY <1>2 DEF Handle, RollFails, Publish
  <1>3. ASSUME NEW o \in Orders, Produce(o) PROVE TypeOK'
    BY <1>3 DEF Produce
  <1>4. ASSUME NEW o \in Orders, Written(o) \/ WriteFails(o) PROVE TypeOK'
    BY <1>4 DEF Written, WriteFails
  <1>5. CASE Stop \/ Drained \/ DrainTimeout \/ Exit \/ BrokerSwitch
    BY <1>5 DEF Stop, Drained, DrainTimeout, Exit, BrokerSwitch
  <1>6. CASE Dispose
    BY <1>6 DEF Dispose, At
  <1>7. CASE UNCHANGED vars
    BY <1>7 DEF vars
  <1>8. ASSUME NEW r \in Reasons, ConsumerFails(r) PROVE TypeOK'
    <2>1. fromConsumer' \in [Reasons -> 0 .. MaxConsumerFailures]
      BY <1>8, BoundAssumption DEF ConsumerFails
    <2> QED
      BY <1>8, <2>1 DEF ConsumerFails
  <1> QED
    BY <1>1, <1>2, <1>3, <1>4, <1>5, <1>6, <1>7, <1>8 DEF Next

-----------------------------------------------------------------------------
(* The requests the host leaves behind.                                    *)

RequestStep(o) == \/ Refuse(o) \/ Handle(o) \/ RollFails(o) \/ Publish(o)
                  \/ Produce(o) \/ Written(o) \/ WriteFails(o)

LEMMA StepsOfOpen ==
  ASSUME NEW o \in Orders, RequestStep(o)
  PROVE  o \in At(Open) /\ UNCHANGED <<host, timedOut>>
  BY DEF RequestStep, Refuse, Handle, RollFails, Publish, Produce, Written, WriteFails,
         RequestFrame, At, Open

LEMMA DesertedKept == TypeOK /\ Deserted /\ [Next]_vars => Deserted'
  <1> SUFFICES ASSUME TypeOK, Deserted, [Next]_vars PROVE Deserted'
    OBVIOUS
  <1>1. ASSUME NEW o \in Orders, Post(o) PROVE Deserted'
    BY <1>1 DEF Post, RequestFrame, Deserted
  <1>2. ASSUME NEW o \in Orders, RequestStep(o) PROVE Deserted'
    BY <1>2, StepsOfOpen DEF Deserted
  <1>3. CASE Drained
    BY <1>3 DEF Drained, HostFrame, Deserted, At
  <1>4. CASE DrainTimeout
    BY <1>4 DEF DrainTimeout, Deserted
  <1>5. CASE Stop \/ Dispose \/ Exit \/ BrokerSwitch \/ UNCHANGED vars
    BY <1>5 DEF Stop, Dispose, Exit, BrokerSwitch, HostFrame, vars, Deserted, At
  <1>6. CASE \E r \in Reasons : ConsumerFails(r)
    BY <1>6 DEF ConsumerFails, Deserted, At
  <1> QED
    BY <1>1, <1>2, <1>3, <1>4, <1>5, <1>6 DEF Next, RequestStep

-----------------------------------------------------------------------------
(* The counters.                                                           *)

LEMMA CountedNext ==
  ASSUME NEW places
  PROVE  Count(places)' \in Nat
  <1>1. At(places)' \subseteq Orders
    BY DEF At
  <1> QED
    BY <1>1, OrdersAreFinite, FS_Subset, FS_CardinalityType DEF Count

\* What the consumer counts is not the requests' own.
LEMMA OwnUntouched ==
  ASSUME TypeOK, NEW r \in Reasons, ConsumerFails(r)
  PROVE  /\ OwnFailures("processing")' = OwnFailures("processing")
         /\ OwnFailures("kafka")' = OwnFailures("kafka")
         /\ \A c \in Counters \ Reasons : metrics'[c] = metrics[c]
  <1>1. \A c \in Reasons : metrics[c] \in Nat /\ fromConsumer[c] \in Nat
    BY BoundAssumption DEF TypeOK, Counters
  <1>2. \A c \in Reasons :
           /\ metrics'[c] = IF c = r THEN metrics[c] + 1 ELSE metrics[c]
           /\ fromConsumer'[c] = IF c = r THEN fromConsumer[c] + 1 ELSE fromConsumer[c]
    BY DEF ConsumerFails, Inc, TypeOK, Counters
  <1>3. \A c \in Counters \ Reasons : metrics'[c] = metrics[c]
    BY DEF ConsumerFails, Inc, TypeOK, Counters
  <1> QED
    BY <1>1, <1>2, <1>3 DEF OwnFailures, Reasons

\* A share on one side of an equation, or taken off the other.
LEMMA Shares ==
  ASSUME NEW r \in Nat, NEW p \in Nat, NEW q \in Nat, NEW h \in Nat, NEW u \in Nat,
         NEW f \in Nat, NEW x
  PROVE  /\ x = q - f /\ r + f = p + q + h => r = p + x + h
         /\ x = q - f /\ q = u + f => x = u
         /\ x = q - f /\ r + f >= p + q + h => r >= p + x + h
  OBVIOUS

LEMMA BalanceKept == IInv /\ Deserted' /\ [Next]_vars => MetricsBalance'
  <1> SUFFICES ASSUME IInv, Deserted', [Next]_vars PROVE MetricsBalance'
    OBVIOUS
  <1> DEFINE Kept(m, t) ==
        /\ m["received"] + fromConsumer["processing"]
             = m["published"] + m["processing"] + Count({"handling"})'
        /\ m["observed"] = Count({"202"})'
        /\ m["processing"] = Count({"422"})' + fromConsumer["processing"]
        /\ m["published"] + fromConsumer["kafka"]
             >= m["observed"] + m["kafka"] + Count({"calling", "writing"})'
        /\ ~t => m["published"] + fromConsumer["kafka"]
                   = m["observed"] + m["kafka"] + Count({"calling", "writing"})'
  <1>b. TypeOK /\ MetricsBalance /\ Deserted
    BY DEF IInv
  <1>d. /\ \A c \in Counters : metrics[c] \in Nat
        /\ fromConsumer["processing"] \in Nat /\ fromConsumer["kafka"] \in Nat
    BY <1>b, BoundAssumption DEF TypeOK, Reasons
  <1>e. \A places : Count(places) \in Nat
    BY Counted
  <1>f. \A places : Count(places)' \in Nat
    BY CountedNext
  <1> USE <1>d, <1>e DEF Counters, Reasons
  <1>c. /\ metrics["received"] + fromConsumer["processing"]
             = metrics["published"] + metrics["processing"] + Count({"handling"})
        /\ metrics["observed"] = Count({"202"})
        /\ metrics["processing"] = Count({"422"}) + fromConsumer["processing"]
        /\ metrics["published"] + fromConsumer["kafka"]
             >= metrics["observed"] + metrics["kafka"] + Count({"calling", "writing"})
        /\ ~timedOut => metrics["published"] + fromConsumer["kafka"]
                          = metrics["observed"] + metrics["kafka"] + Count({"calling", "writing"})
    <2> DEFINE calling == Count({"calling", "writing"})  handling == Count({"handling"})
               refused == Count({"422"})  accepted == Count({"202"})
    <2>1. /\ metrics["received"] = metrics["published"] + OwnFailures("processing") + handling
          /\ metrics["observed"] = accepted /\ OwnFailures("processing") = refused
          /\ metrics["published"] >= metrics["observed"] + OwnFailures("kafka") + calling
          /\ ~timedOut =>
               metrics["published"] = metrics["observed"] + OwnFailures("kafka") + calling
      BY <1>b DEF MetricsBalance, Count
    <2>2. calling \in Nat /\ handling \in Nat /\ refused \in Nat /\ accepted \in Nat
      BY <1>e
    <2> HIDE DEF calling, handling, refused, accepted
    <2>3. /\ metrics["received"] + fromConsumer["processing"]
               = metrics["published"] + metrics["processing"] + handling
          /\ metrics["processing"] = refused + fromConsumer["processing"]
      BY <2>1, <2>2 DEF OwnFailures
    <2>4. /\ metrics["published"] + fromConsumer["kafka"]
               >= metrics["observed"] + metrics["kafka"] + calling
          /\ ~timedOut => metrics["published"] + fromConsumer["kafka"]
                            = metrics["observed"] + metrics["kafka"] + calling
      BY <2>1, <2>2 DEF OwnFailures
    <2> QED
      BY <2>1, <2>3, <2>4 DEF calling, handling, refused, accepted
  <1>1. ASSUME NEW o \in Orders, Post(o) \/ Refuse(o) PROVE Kept(metrics', timedOut')
    <2>1. /\ Count({"handling"})' = Count({"handling"})
          /\ Count({"202"})' = Count({"202"}) /\ Count({"422"})' = Count({"422"})
          /\ Count({"calling", "writing"})' = Count({"calling", "writing"})
      BY <1>b, <1>1, Moved DEF Post, Refuse
    <2>2. metrics' = metrics /\ timedOut' = timedOut
      BY <1>1 DEF Post, Refuse, RequestFrame
    <2> QED
      BY <1>c, <2>1, <2>2
  <1>2. ASSUME NEW o \in Orders, Handle(o) PROVE Kept(metrics', timedOut')
    <2>1. /\ Count({"handling"})' = Count({"handling"}) + 1
          /\ Count({"202"})' = Count({"202"}) /\ Count({"422"})' = Count({"422"})
          /\ Count({"calling", "writing"})' = Count({"calling", "writing"})
      BY <1>b, <1>2, Moved DEF Handle
    <2>2. metrics' = [metrics EXCEPT !["received"] = @ + 1] /\ timedOut' = timedOut
      BY <1>2 DEF Handle, Inc, RequestFrame
    <2> QED
      BY <1>b, <1>c, <2>1, <2>2 DEF TypeOK
  <1>3. ASSUME NEW o \in Orders, RollFails(o) PROVE Kept(metrics', timedOut')
    <2>1. /\ Count({"handling"})' = Count({"handling"}) - 1
          /\ Count({"202"})' = Count({"202"}) /\ Count({"422"})' = Count({"422"}) + 1
          /\ Count({"calling", "writing"})' = Count({"calling", "writing"})
      BY <1>b, <1>3, Moved DEF RollFails
    <2>2. metrics' = [metrics EXCEPT !["processing"] = @ + 1] /\ timedOut' = timedOut
      BY <1>3 DEF RollFails, Inc, RequestFrame
    <2> QED
      BY <1>b, <1>c, <2>1, <2>2 DEF TypeOK
  <1>4. ASSUME NEW o \in Orders, Publish(o) PROVE Kept(metrics', timedOut')
    <2>1. /\ Count({"handling"})' = Count({"handling"}) - 1
          /\ Count({"202"})' = Count({"202"}) /\ Count({"422"})' = Count({"422"})
          /\ Count({"calling", "writing"})' = Count({"calling", "writing"}) + 1
      BY <1>b, <1>4, Moved DEF Publish
    <2>2. metrics' = [metrics EXCEPT !["published"] = @ + 1] /\ timedOut' = timedOut
      BY <1>4 DEF Publish, Inc, RequestFrame
    <2>3. /\ metrics'["published"] = metrics["published"] + 1
          /\ \A c \in Counters \ {"published"} : metrics'[c] = metrics[c]
      BY <1>b, <2>2 DEF TypeOK
    <2> HIDE <1>d, <1>e
    <2>4. /\ metrics["published"] \in Nat /\ metrics["observed"] \in Nat
          /\ metrics["kafka"] \in Nat /\ metrics["processing"] \in Nat
          /\ Count({"handling"}) \in Nat /\ Count({"calling", "writing"}) \in Nat
          /\ fromConsumer["processing"] \in Nat /\ fromConsumer["kafka"] \in Nat
      BY <1>d, <1>e
    <2> QED
      BY <1>c, <2>1, <2>2, <2>3, <2>4
  <1>5. ASSUME NEW o \in Orders, Produce(o) PROVE Kept(metrics', timedOut')
    <2>1. /\ Count({"handling"})' = Count({"handling"})
          /\ Count({"202"})' = Count({"202"}) /\ Count({"422"})' = Count({"422"})
      BY <1>b, <1>5, Moved DEF Produce
    <2>2. metrics' = metrics /\ timedOut' = timedOut
      BY <1>5 DEF Produce, RequestFrame
    <2>3. CASE Disposed
      <3>1. Count({"calling", "writing"})' = Count({"calling", "writing"}) - 1
        BY <1>b, <1>5, <2>3, Moved DEF Produce
      <3>2. timedOut
        BY <1>b, <1>5, <2>3 DEF Produce, Disposed, Up, Deserted, At, Open
      <3> QED
        BY <1>c, <2>1, <2>2, <3>1, <3>2
    <2>4. CASE ~Disposed
      <3>1. Count({"calling", "writing"})' = Count({"calling", "writing"})
        BY <1>b, <1>5, <2>4, Moved DEF Produce
      <3> QED
        BY <1>c, <2>1, <2>2, <3>1
    <2> QED
      BY <2>3, <2>4
  <1>6. ASSUME NEW o \in Orders, Written(o) PROVE Kept(metrics', timedOut')
    <2>1. /\ Count({"handling"})' = Count({"handling"})
          /\ Count({"202"})' = Count({"202"}) + 1 /\ Count({"422"})' = Count({"422"})
          /\ Count({"calling", "writing"})' = Count({"calling", "writing"}) - 1
      BY <1>b, <1>6, Moved DEF Written
    <2>2. metrics' = [metrics EXCEPT !["observed"] = @ + 1] /\ timedOut' = timedOut
      BY <1>6 DEF Written, Inc, RequestFrame
    <2> QED
      BY <1>b, <1>c, <2>1, <2>2 DEF TypeOK
  <1>7. ASSUME NEW o \in Orders, WriteFails(o) PROVE Kept(metrics', timedOut')
    <2>1. /\ Count({"handling"})' = Count({"handling"})
          /\ Count({"202"})' = Count({"202"}) /\ Count({"422"})' = Count({"422"})
          /\ Count({"calling", "writing"})' = Count({"calling", "writing"}) - 1
      BY <1>b, <1>7, Moved DEF WriteFails
    <2>2. metrics' = [metrics EXCEPT !["kafka"] = @ + 1] /\ timedOut' = timedOut
      BY <1>7 DEF WriteFails, Inc, RequestFrame
    <2> QED
      BY <1>b, <1>c, <2>1, <2>2 DEF TypeOK
  <1>8. ASSUME Stop \/ Drained \/ DrainTimeout \/ Dispose \/ Exit \/ BrokerSwitch
                \/ UNCHANGED vars
        PROVE  Kept(metrics', timedOut')
    <2>1. UNCHANGED <<request, metrics, fromConsumer>> /\ (timedOut => timedOut')
      BY <1>8 DEF Stop, Drained, DrainTimeout, Dispose, Exit, BrokerSwitch, HostFrame, vars
    <2> QED
      BY <1>c, <2>1, Stayed
  <1>9. ASSUME NEW r \in Reasons, ConsumerFails(r) PROVE MetricsBalance'
    <2>1. UNCHANGED <<request, timedOut, host>>
      BY <1>9 DEF ConsumerFails
    <2>2. /\ OwnFailures("processing")' = OwnFailures("processing")
          /\ OwnFailures("kafka")' = OwnFailures("kafka")
          /\ \A c \in Counters \ Reasons : metrics'[c] = metrics[c]
      BY <1>b, <1>9, OwnUntouched
    <2>3. \A places : At(places)' = At(places)
      BY <2>1, Stayed
    <2>4. /\ metrics'["received"] = metrics["received"]
          /\ metrics'["published"] = metrics["published"]
          /\ metrics'["observed"] = metrics["observed"]
      BY <2>2
    <2> HIDE <1>d, <1>e
    <2> QED
      BY <1>b, <2>1, <2>2, <2>3, <2>4 DEF MetricsBalance, Disposed
  <1>10. CASE fromConsumer' = fromConsumer /\ Kept(metrics', timedOut')
    <2> DEFINE calling == Count({"calling", "writing"})'  handling == Count({"handling"})'
               refused == Count({"422"})'  accepted == Count({"202"})'
    <2>1. /\ metrics'["received"] + fromConsumer["processing"]
               = metrics'["published"] + metrics'["processing"] + handling
          /\ metrics'["observed"] = accepted
          /\ metrics'["processing"] = refused + fromConsumer["processing"]
          /\ metrics'["published"] + fromConsumer["kafka"]
               >= metrics'["observed"] + metrics'["kafka"] + calling
          /\ ~timedOut' => metrics'["published"] + fromConsumer["kafka"]
                             = metrics'["observed"] + metrics'["kafka"] + calling
      BY <1>10
    <2>2. calling \in Nat /\ handling \in Nat /\ refused \in Nat /\ accepted \in Nat
      BY <1>f
    <2>3. /\ metrics'["received"] \in Nat /\ metrics'["published"] \in Nat
          /\ metrics'["observed"] \in Nat
          /\ metrics'["processing"] \in Nat /\ metrics'["kafka"] \in Nat
      BY <1>b, NextTyped DEF TypeOK
    <2>4. /\ OwnFailures("processing")' = metrics'["processing"] - fromConsumer["processing"]
          /\ OwnFailures("kafka")' = metrics'["kafka"] - fromConsumer["kafka"]
      BY <1>10 DEF OwnFailures
    <2>7. fromConsumer["processing"] \in Nat /\ fromConsumer["kafka"] \in Nat
      BY <1>d
    <2> HIDE <1>d, <1>e
    <2> HIDE DEF calling, handling, refused, accepted
    <2>5. /\ metrics'["received"]
               = metrics'["published"] + OwnFailures("processing")' + handling
          /\ OwnFailures("processing")' = refused
      BY <2>1, <2>2, <2>3, <2>4, <2>7, Shares
    <2>6. metrics'["published"] >= metrics'["observed"] + OwnFailures("kafka")' + calling
      BY <2>1, <2>2, <2>3, <2>4, <2>7, Shares
    <2>8. ASSUME ~timedOut'
          PROVE  metrics'["published"] = metrics'["observed"] + OwnFailures("kafka")' + calling
      <3>1. metrics'["published"] + fromConsumer["kafka"]
              = metrics'["observed"] + metrics'["kafka"] + calling
        BY <2>1, <2>8
      <3> QED
        BY <2>2, <2>3, <2>4, <2>7, <3>1, Shares
    <2> QED
      BY <2>1, <2>5, <2>6, <2>8
      DEF MetricsBalance, Count, Deserted, Disposed, calling, handling, refused, accepted
  <1>11. fromConsumer' = fromConsumer \/ \E r \in Reasons : ConsumerFails(r)
    BY DEF Next, Post, Refuse, Handle, RollFails, Publish, Produce, Written, WriteFails,
           RequestFrame, Stop, Drained, DrainTimeout, Dispose, Exit, BrokerSwitch, HostFrame, vars
  <1> QED
    BY <1>1, <1>2, <1>3, <1>4, <1>5, <1>6, <1>7, <1>8, <1>9, <1>10, <1>11 DEF Next

-----------------------------------------------------------------------------
(* The answers.                                                            *)

Absent == {"none", "reading", "handling", "calling", "400", "422"}
Doubtful == At({"500"}) \cap placed

LEMMA AnswersKept == IInv /\ [Next]_vars => AnswersMeanTopic'
  <1> SUFFICES ASSUME IInv, [Next]_vars PROVE AnswersMeanTopic'
    OBVIOUS
  <1>a. /\ TypeOK /\ metrics["kafka"] \in Nat
        /\ fromConsumer["kafka"] \in Nat
    BY BoundAssumption DEF IInv, TypeOK, Counters, Reasons
  <1>k. OwnFailures("kafka") \in Int
    BY <1>a DEF OwnFailures
  <1>b. /\ At({"202"}) \subseteq placed
        /\ At(Absent) \cap placed = {}
        /\ Cardinality(Doubtful) <= OwnFailures("kafka")
    BY DEF IInv, AnswersMeanTopic, Absent, Doubtful
  <1>c. IsFiniteSet(Doubtful) /\ Cardinality(Doubtful) \in Nat
    BY Counted, FS_Subset, FS_CardinalityType DEF Doubtful
  <1>d. SUFFICES /\ At({"202"})' \subseteq placed'
                 /\ At(Absent)' \cap placed' = {}
                 /\ Cardinality(Doubtful)' <= OwnFailures("kafka")'
    BY DEF AnswersMeanTopic, Absent, Doubtful
  <1>1. ASSUME NEW o \in Orders, Post(o) \/ Refuse(o) \/ Handle(o) \/ RollFails(o)
                                  \/ Publish(o) \/ Produce(o)
        PROVE  /\ At({"202"})' \subseteq placed'
               /\ At(Absent)' \cap placed' = {}
               /\ Cardinality(Doubtful)' <= OwnFailures("kafka")'
    <2>1. /\ placed' = placed /\ OwnFailures("kafka")' = OwnFailures("kafka")
          /\ o \in At(Absent)
      BY <1>1, <1>a DEF TypeOK, Counters, Reasons, Post, Refuse, Handle, RollFails, Publish,
                       Produce, RequestFrame, Inc, OwnFailures, At, Absent
    <2>2. PICK where \in Absent \cup {"writing", "500"} : Goto(o, where)
      BY <1>1 DEF Post, Refuse, Handle, RollFails, Publish, Produce, Absent
    <2>3. /\ request'[o] = where
          /\ \A p \in Orders \ {o} : request'[p] = request[p]
      BY <1>a, <2>2 DEF Goto, TypeOK
    <2>4. o \notin placed
      BY <1>b, <2>1
    <2>5. Doubtful' = Doubtful
      BY <2>1, <2>3, <2>4 DEF Doubtful, At
    <2>6. At({"202"})' \subseteq placed' /\ At(Absent)' \cap placed' = {}
      BY <1>b, <2>1, <2>2, <2>3, <2>4 DEF At, Absent
    <2> QED
      BY <1>b, <2>1, <2>5, <2>6
  <1>2. ASSUME NEW o \in Orders, Written(o)
        PROVE  /\ At({"202"})' \subseteq placed'
               /\ At(Absent)' \cap placed' = {}
               /\ Cardinality(Doubtful)' <= OwnFailures("kafka")'
    <2>1. /\ placed' = placed \cup {o} /\ OwnFailures("kafka")' = OwnFailures("kafka")
          /\ request[o] = "writing" /\ request'[o] = "202"
          /\ \A p \in Orders \ {o} : request'[p] = request[p]
      BY <1>2, <1>a DEF TypeOK, Counters, Written, Inc, Goto, OwnFailures, RequestFrame
    <2>2. Doubtful' = Doubtful
      BY <2>1 DEF Doubtful, At
    <2> QED
      BY <1>b, <2>1, <2>2 DEF At, Absent
  <1>3. ASSUME NEW o \in Orders, WriteFails(o)
        PROVE  /\ At({"202"})' \subseteq placed'
               /\ At(Absent)' \cap placed' = {}
               /\ Cardinality(Doubtful)' <= OwnFailures("kafka")'
    <2>1. /\ placed' \in {placed, placed \cup {o}}
          /\ OwnFailures("kafka")' = OwnFailures("kafka") + 1
          /\ request[o] = "writing" /\ request'[o] = "500"
          /\ \A p \in Orders \ {o} : request'[p] = request[p]
      BY <1>3, <1>a
      DEF TypeOK, Counters, Reasons, WriteFails, Inc, Goto, OwnFailures, RequestFrame
    <2>2. Doubtful' \subseteq Doubtful \cup {o}
      BY <2>1 DEF Doubtful, At
    <2>3. /\ IsFiniteSet(Doubtful \cup {o})
          /\ Cardinality(Doubtful \cup {o}) <= Cardinality(Doubtful) + 1
      <3> DEFINE D == Doubtful
      <3>1. IsFiniteSet(D) /\ Cardinality(D) \in Nat
        BY <1>c
      <3> HIDE DEF D
      <3>2. /\ IsFiniteSet(D \cup {o})
            /\ Cardinality(D \cup {o}) = IF o \in D THEN Cardinality(D) ELSE Cardinality(D) + 1
        BY <3>1, FS_AddElement
      <3>3. Cardinality(D \cup {o}) <= Cardinality(D) + 1
        BY <3>1, <3>2
      <3> QED
        BY <3>2, <3>3 DEF D
    <2>4. Cardinality(Doubtful') <= Cardinality(Doubtful \cup {o})
      BY <2>2, <2>3, FS_Subset
    <2>5. Cardinality(Doubtful') \in Nat /\ Cardinality(Doubtful \cup {o}) \in Nat
      BY <2>2, <2>3, FS_Subset, FS_CardinalityType
    <2>6. Cardinality(Doubtful') <= OwnFailures("kafka")'
      BY <1>k, <1>b, <1>c, <2>1, <2>3, <2>4, <2>5
    <2> QED
      BY <1>b, <2>1, <2>6 DEF At, Absent
  <1>4. CASE Dispose
    <2>1. /\ placed \subseteq placed' /\ placed' \subseteq placed \cup At({"writing"})
          /\ request' = request /\ OwnFailures("kafka")' = OwnFailures("kafka")
      BY <1>4 DEF Dispose, HostFrame, OwnFailures
    <2>2. Doubtful' = Doubtful
      BY <2>1 DEF Doubtful, At
    <2> QED
      BY <1>b, <2>1, <2>2 DEF At, Absent
  <1>5. CASE Stop \/ Drained \/ DrainTimeout \/ Exit \/ BrokerSwitch \/ UNCHANGED vars
    <2>1. UNCHANGED <<request, placed>> /\ OwnFailures("kafka")' = OwnFailures("kafka")
      BY <1>5 DEF Stop, Drained, DrainTimeout, Exit, BrokerSwitch, HostFrame, OwnFailures, vars
    <2> QED
      BY <1>b, <2>1 DEF At, Doubtful
  <1>6. ASSUME NEW r \in Reasons, ConsumerFails(r)
        PROVE  /\ At({"202"})' \subseteq placed'
               /\ At(Absent)' \cap placed' = {}
               /\ Cardinality(Doubtful)' <= OwnFailures("kafka")'
    <2>1. UNCHANGED <<request, placed>> /\ OwnFailures("kafka")' = OwnFailures("kafka")
      BY <1>6, <1>a, OwnUntouched DEF ConsumerFails
    <2> QED
      BY <1>b, <2>1 DEF At, Doubtful
  <1> QED
    BY <1>1, <1>2, <1>3, <1>4, <1>5, <1>6 DEF Next

-----------------------------------------------------------------------------
LEMMA Inductive == Spec => []IInv
  <1>1. IInv /\ [Next]_vars => IInv'
    BY NextTyped, DesertedKept, BalanceKept, AnswersKept DEF IInv
  <1> QED
    BY <1>1, InitHolds, PTL DEF Spec

\* The counters balance: every order is in the handler or was counted on its
\* way out, but for those that met a disposed producer after the timeout, and
\* OrdersFailed holds nothing besides but the failures of the consumer of the
\* same process (PlaceOrderHandler.Handle, KafkaConsumerService.cs:128).
THEOREM CountersBalance == Spec => []MetricsBalance
  <1>1. IInv => MetricsBalance
    BY DEF IInv
  <1> QED
    BY <1>1, Inductive, PTL

\* An order that was accepted is on the topic, one that was refused is not,
\* and each 500 for an order that is there was counted as a failed write.
THEOREM AnswersHold == Spec => []AnswersMeanTopic
  <1>1. IInv => AnswersMeanTopic
    BY DEF IInv
  <1> QED
    BY <1>1, Inductive, PTL
=============================================================================
