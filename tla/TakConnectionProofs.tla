-------------------------- MODULE TakConnectionProofs --------------------------
(***************************************************************************)
(* Theorems about TakConnection for every set of producers, every queue    *)
(* limit, every backoff range and every bound.  The inductive invariant is *)
(* the conjunction of what the runs check with two facts about the task:   *)
(* what it writes is an item, and where "connected" can be seen.           *)
(***************************************************************************)
EXTENDS TakConnection, FiniteSetTheorems, SequenceTheorems, TLAPS

WriteHasItem == pc = "write" => inflight # 0

ConnectedAt ==
  state = "connected" => \/ pc \in Session \cup {"dry", "loop"}
                         \/ pc = "idle" /\ stop

--------------------------------------------------------------------------------
(* Moving one producer to another step changes the number of producers at  *)
(* a set of steps by what it enters and what it leaves.                    *)
LEMMA ProducerMoves ==
  ASSUME NEW f \in [Producers -> Phases], NEW p \in Producers,
         NEW to \in Phases, NEW steps
  PROVE  LET before == {q \in Producers : f[q] \in steps}
             after  == {q \in Producers : [f EXCEPT ![p] = to][q] \in steps}
         IN  /\ Cardinality(before) \in Nat
             /\ Cardinality(after) \in Nat
             /\ Cardinality(after) <= Cardinality(Producers)
             /\ Cardinality(Producers) \in Nat
             /\ Cardinality(after) = Cardinality(before)
                                     + (IF to \in steps THEN 1 ELSE 0)
                                     - (IF f[p] \in steps THEN 1 ELSE 0)
<1> DEFINE before == {q \in Producers : f[q] \in steps}
           after  == {q \in Producers : [f EXCEPT ![p] = to][q] \in steps}
           others == before \ {p}
<1>1. IsFiniteSet(Producers) /\ Cardinality(Producers) \in Nat
  BY ProducersAssumption, FS_CardinalityType
<1>2. /\ IsFiniteSet(before) /\ IsFiniteSet(after) /\ IsFiniteSet(others)
      /\ Cardinality(after) <= Cardinality(Producers)
  <2>1. before \in SUBSET Producers /\ after \in SUBSET Producers /\ others \in SUBSET Producers
    OBVIOUS
  <2> HIDE DEF before, after, others
  <2>2. QED  BY <1>1, <2>1, FS_Subset
<1>3. Cardinality(before) \in Nat /\ Cardinality(after) \in Nat /\ Cardinality(others) \in Nat
  BY <1>2, FS_CardinalityType
<1>4. Cardinality(others) = Cardinality(before) - (IF f[p] \in steps THEN 1 ELSE 0)
  <2>1. p \in before <=> f[p] \in steps
    OBVIOUS
  <2> HIDE DEF before
  <2>2. Cardinality(before \ {p}) = IF p \in before THEN Cardinality(before) - 1
                                                    ELSE Cardinality(before)
    BY <1>2, FS_RemoveElement
  <2>3. QED  BY <1>3, <2>1, <2>2
<1>5. Cardinality(after) = Cardinality(others) + (IF to \in steps THEN 1 ELSE 0)
  <2>1. CASE to \in steps
    <3>1. after = others \cup {p} /\ p \notin others
      BY <2>1
    <3> HIDE DEF after, others
    <3>2. QED  BY <1>2, <1>3, <2>1, <3>1, FS_AddElement
  <2>2. CASE to \notin steps
    <3>1. after = others
      BY <2>2
    <3> HIDE DEF after, others
    <3>2. QED  BY <1>3, <2>2, <3>1
  <2>3. QED  BY <2>1, <2>2
<1> HIDE DEF before, after, others
<1>6. /\ Cardinality(before) \in Nat
      /\ Cardinality(after) \in Nat
      /\ Cardinality(after) <= Cardinality(Producers)
      /\ Cardinality(Producers) \in Nat
      /\ Cardinality(after) = Cardinality(before)
                              + (IF to \in steps THEN 1 ELSE 0)
                              - (IF f[p] \in steps THEN 1 ELSE 0)
  BY <1>1, <1>2, <1>3, <1>4, <1>5
<1>7. QED  BY <1>6 DEF before, after

LEMMA PhaseMoves ==
  ASSUME phase \in [Producers -> Phases], NEW p \in Producers, NEW to \in Phases,
         phase' = [phase EXCEPT ![p] = to], NEW steps
  PROVE  /\ Cardinality(Within(steps)) \in Nat
         /\ Cardinality(Within(steps))' \in Nat
         /\ Cardinality(Within(steps))' <= Cardinality(Producers)
         /\ Cardinality(Within(steps))' = Cardinality(Within(steps))
                                          + (IF to \in steps THEN 1 ELSE 0)
                                          - (IF phase[p] \in steps THEN 1 ELSE 0)
<1>1. Within(steps)' = {q \in Producers : [phase EXCEPT ![p] = to][q] \in steps}
  BY DEF Within
<1>2. Within(steps) = {q \in Producers : phase[q] \in steps}
  BY DEF Within
<1>3. QED  BY <1>1, <1>2, ProducerMoves

Appending == Cardinality(Within({"append"}))
InEnqueue == Cardinality(Within({"evict", "append"}))

(* Both counts are numbers.                                                *)
LEMMA CallCounts == Appending \in Nat /\ InEnqueue \in Nat /\ Cardinality(Producers) \in Nat
<1>1. Within({"append"}) \in SUBSET Producers /\ Within({"evict", "append"}) \in SUBSET Producers
  BY DEF Within
<1>2. IsFiniteSet(Within({"append"})) /\ IsFiniteSet(Within({"evict", "append"}))
  BY <1>1, ProducersAssumption, FS_Subset
<1>3. QED  BY <1>2, ProducersAssumption, FS_CardinalityType DEF Appending, InEnqueue

(* One call of enqueue moves on.                                           *)
LEMMA CallMoves ==
  ASSUME TypeQueue, NEW p \in Producers, NEW to \in Phases,
         phase' = [phase EXCEPT ![p] = to]
  PROVE  /\ Appending' \in Nat /\ Appending' <= Cardinality(Producers)
         /\ to = "append" /\ phase[p] # "append" => Appending' = Appending + 1
         /\ to # "append" /\ phase[p] = "append" => Appending' = Appending - 1
         /\ to # "append" /\ phase[p] # "append" => Appending' = Appending
         /\ InEnqueue' \in Nat
         /\ to # "idle" /\ phase[p] = "idle" => InEnqueue' = InEnqueue + 1
         /\ to = "idle" /\ phase[p] # "idle" => InEnqueue' = InEnqueue - 1
         /\ to # "idle" /\ phase[p] # "idle" => InEnqueue' = InEnqueue
<1>1. phase \in [Producers -> Phases] /\ phase[p] \in Phases
  BY DEF TypeQueue
<1>2. ASSUME NEW ph \in Phases
      PROVE  /\ ph \in {"append"} <=> ph = "append"
             /\ ph \in {"evict", "append"} <=> ph # "idle"
  BY DEF Phases
<1>3. /\ Appending' \in Nat /\ Appending' <= Cardinality(Producers)
      /\ Appending' = Appending + (IF to \in {"append"} THEN 1 ELSE 0)
                                - (IF phase[p] \in {"append"} THEN 1 ELSE 0)
  BY <1>1, PhaseMoves DEF Appending
<1>4. /\ InEnqueue' \in Nat
      /\ InEnqueue' = InEnqueue + (IF to \in {"evict", "append"} THEN 1 ELSE 0)
                                - (IF phase[p] \in {"evict", "append"} THEN 1 ELSE 0)
  BY <1>1, PhaseMoves DEF InEnqueue
<1>5. (to \in {"append"}) = (to = "append") /\ (phase[p] \in {"append"}) = (phase[p] = "append")
  OBVIOUS
<1>6. Appending' = Appending + (IF to = "append" THEN 1 ELSE 0)
                             - (IF phase[p] = "append" THEN 1 ELSE 0)
  BY <1>3, <1>5
<1>7. (IF to \in {"evict", "append"} THEN 1 ELSE 0) = (IF to = "idle" THEN 0 ELSE 1)
  BY <1>2
<1>8. (IF phase[p] \in {"evict", "append"} THEN 1 ELSE 0) = (IF phase[p] = "idle" THEN 0 ELSE 1)
  BY <1>1, <1>2
<1>9. InEnqueue' = InEnqueue + (IF to = "idle" THEN 0 ELSE 1)
                             - (IF phase[p] = "idle" THEN 0 ELSE 1)
  BY <1>4, <1>7, <1>8
<1>10. QED  BY <1>3, <1>4, <1>6, <1>9, CallCounts

(* The bound of the backoff is kept by one more doubling.                  *)
LEMMA DoubledInRange ==
  ASSUME NEW d \in ReconnectMin .. ReconnectMax
  PROVE  Doubled(d) \in ReconnectMin .. ReconnectMax
BY ReconnectAssumption DEF Doubled

(* Every step of the module, in the shape the proofs split it.             *)
LEMMA StepCases ==
  ASSUME [Next]_vars
  PROVE  \/ \E p \in Producers : EnqueueCount(p) \/ EnqueueEvict(p) \/ EnqueueAppend(p)
         \/ Age \/ Start \/ Stop \/ StopReturn
         \/ RunExit \/ RunAttempt \/ ConnectOk \/ ConnectFail \/ BackoffEnd
         \/ PresenceOk \/ PresenceFail \/ GroupsDone
         \/ PumpStopped \/ PumpBeat \/ Drain \/ DrainEmpty
         \/ WriteOk \/ WriteFail \/ SessionClosed \/ DryStopped \/ DryDrain
         \/ UNCHANGED vars
BY DEF Next, Enqueue, Task, Run, Connect, Greet, Pump, Write, DryPump

--------------------------------------------------------------------------------
LEMMA InitTypeOK == Init => TypeOK
<1> SUFFICES ASSUME Init PROVE TypeOK
  OBVIOUS
<1>1. stop \in BOOLEAN
  BY DEF Init
<1>2. stopping \in 0 .. MaxStops /\ delay \in ReconnectMin .. ReconnectMax
  BY ReconnectAssumption, BoundsAssumption DEF Init
<1>3. state \in States /\ pc \in PCs
  BY DEF Init, States, PCs
<1>4. profile \in [dry : BOOLEAN, presence : BOOLEAN]
  BY DEF Init
<1>5. TypeQueue
  BY DEF Init, TypeQueue, Phases
<1>6. QED  BY <1>1, <1>2, <1>3, <1>4, <1>5 DEF TypeOK, TypeTask

(* Typing is inductive, in its two parts.                                  *)
LEMMA StepTypeTask == TypeTask /\ [Next]_vars => TypeTask'
<1> SUFFICES ASSUME TypeTask, [Next]_vars PROVE TypeTask'
  OBVIOUS
<1> USE DEF TypeTask, taskVars, Goto, PCs, States
<1>1. ASSUME NEW p \in Producers, EnqueueCount(p) \/ EnqueueEvict(p) \/ EnqueueAppend(p)
      PROVE  TypeTask'
  BY <1>1 DEF EnqueueCount, EnqueueEvict, EnqueueAppend
<1>2. CASE Age  BY <1>2 DEF Age
<1>3. CASE Start
  <2>1. stop' \in BOOLEAN
    BY <1>3 DEF Start
  <2>2. pc' \in PCs /\ delay' \in ReconnectMin .. ReconnectMax
    BY <1>3, ReconnectAssumption DEF Start
  <2>3. UNCHANGED <<profile, state, stopping>>
    BY <1>3 DEF Start
  <2>4. QED  BY <2>1, <2>2, <2>3
<1>4. CASE Stop  BY <1>4, BoundsAssumption DEF Stop
<1>5. CASE StopReturn  BY <1>5, BoundsAssumption DEF StopReturn
<1>6. CASE RunExit \/ RunAttempt \/ ConnectOk \/ ConnectFail
  BY <1>6 DEF RunExit, RunAttempt, ConnectOk, ConnectFail
<1>7. CASE BackoffEnd  BY <1>7, DoubledInRange DEF BackoffEnd
<1>8. CASE PresenceOk \/ PresenceFail \/ GroupsDone
  BY <1>8 DEF PresenceOk, PresenceFail, GroupsDone
<1>9. CASE PumpStopped \/ PumpBeat \/ Drain \/ DrainEmpty
  BY <1>9 DEF PumpStopped, PumpBeat, Drain, DrainEmpty
<1>10. CASE WriteOk \/ WriteFail  BY <1>10 DEF WriteOk, WriteFail
<1>11. CASE SessionClosed \/ DryStopped \/ DryDrain
  BY <1>11, ReconnectAssumption DEF SessionClosed, DryStopped, DryDrain
<1>12. CASE UNCHANGED vars  BY <1>12 DEF vars
<1>13. QED
  BY StepCases, <1>1, <1>2, <1>3, <1>4, <1>5, <1>6, <1>7, <1>8, <1>9, <1>10, <1>11, <1>12

LEMMA StepTypeQueue == TypeQueue /\ [Next]_vars => TypeQueue'
<1> SUFFICES ASSUME TypeQueue, [Next]_vars PROVE TypeQueue'
  OBVIOUS
<1> USE DEF TypeQueue, queueVars, metrics, Phases
<1>1. ASSUME NEW p \in Producers, EnqueueCount(p) PROVE TypeQueue'
  BY <1>1 DEF EnqueueCount
<1>2. ASSUME NEW p \in Producers, EnqueueEvict(p) PROVE TypeQueue'
  <2>1. CASE queue = <<>>
    BY <1>2, <2>1 DEF EnqueueEvict
  <2>2. CASE queue # <<>>
    <3>1. Tail(queue) \in Seq(Nat)
      BY <2>2
    <3>2. /\ queue' = Tail(queue) /\ dropped' = dropped + 1
          /\ phase' = [phase EXCEPT ![p] = "append"]
          /\ UNCHANGED <<inflight, generated, sent, appended, horizon, lost, lastSent>>
      BY <1>2, <2>2 DEF EnqueueEvict, QueueWithoutOldest, CountDropped
    <3>3. QED  BY <3>1, <3>2
  <2>3. QED  BY <2>1, <2>2
<1>3. ASSUME NEW p \in Producers, EnqueueAppend(p) PROVE TypeQueue'
  BY <1>3 DEF EnqueueAppend
<1>4. CASE Drain \/ DryDrain
  <2>1. queue # <<>>
    BY <1>4 DEF Drain, DryDrain
  <2>2. Head(queue) \in Nat /\ Tail(queue) \in Seq(Nat)
    BY <2>1
  <2>3. CASE Drain
    BY <2>2, <2>3 DEF Drain, Taken, CountDropped
  <2>4. CASE DryDrain
    BY <2>2, <2>4 DEF DryDrain, Taken, CountDropped, CountSent
  <2>5. QED  BY <1>4, <2>3, <2>4
<1>5. CASE WriteOk \/ WriteFail
  BY <1>5 DEF WriteOk, WriteFail, CountSent
<1>6. CASE Age  BY <1>6 DEF Age
<1>7. CASE Start \/ Stop \/ StopReturn \/ RunExit \/ RunAttempt \/ ConnectOk \/ ConnectFail
  BY <1>7 DEF Start, Stop, StopReturn, RunExit, RunAttempt, ConnectOk, ConnectFail
<1>8. CASE BackoffEnd \/ PresenceOk \/ PresenceFail \/ GroupsDone \/ PumpStopped \/ PumpBeat
           \/ DrainEmpty \/ SessionClosed \/ DryStopped
  BY <1>8 DEF BackoffEnd, PresenceOk, PresenceFail, GroupsDone, PumpStopped, PumpBeat,
              DrainEmpty, SessionClosed, DryStopped
<1>9. CASE UNCHANGED vars  BY <1>9 DEF vars
<1>10. QED
  BY StepCases, <1>1, <1>2, <1>3, <1>4, <1>5, <1>6, <1>7, <1>8, <1>9

(* The manager's state is well typed in every reachable state, for every   *)
(* configuration; in particular the backoff of _run stays in its range.    *)
THEOREM TypeCorrect == Spec => []TypeOK
<1>1. TypeOK /\ [Next]_vars => TypeOK'
  BY StepTypeTask, StepTypeQueue DEF TypeOK
<1>2. QED  BY InitTypeOK, <1>1, PTL DEF Spec
--------------------------------------------------------------------------------
(* Only enqueue moves a producer; the rest of the module leaves both       *)
(* counts of producers alone.                                              *)

LEMMA QueueAlone ==
  ASSUME \/ Age \/ Start \/ Stop \/ StopReturn
         \/ RunExit \/ RunAttempt \/ ConnectOk \/ ConnectFail \/ BackoffEnd
         \/ PresenceOk \/ PresenceFail \/ GroupsDone
         \/ PumpStopped \/ PumpBeat \/ DrainEmpty
         \/ WriteOk \/ WriteFail \/ SessionClosed \/ DryStopped
         \/ UNCHANGED vars
  PROVE  UNCHANGED <<queue, phase, generated, appended>>
<1> USE DEF queueVars, metrics
<1>1. CASE Age \/ Start \/ Stop \/ StopReturn \/ RunExit \/ RunAttempt
  BY <1>1 DEF Age, Start, Stop, StopReturn, RunExit, RunAttempt
<1>2. CASE ConnectOk \/ ConnectFail \/ BackoffEnd \/ PresenceOk \/ PresenceFail \/ GroupsDone
  BY <1>2 DEF ConnectOk, ConnectFail, BackoffEnd, PresenceOk, PresenceFail, GroupsDone
<1>3. CASE PumpStopped \/ PumpBeat \/ DrainEmpty \/ WriteOk \/ WriteFail
  BY <1>3 DEF PumpStopped, PumpBeat, DrainEmpty, WriteOk, WriteFail, CountSent
<1>4. CASE SessionClosed \/ DryStopped \/ UNCHANGED vars
  BY <1>4 DEF SessionClosed, DryStopped, vars
<1>5. QED  BY <1>1, <1>2, <1>3, <1>4

LEMMA InitQueueBound == Init => QueueBound
<1> SUFFICES ASSUME Init PROVE QueueBound
  OBVIOUS
<1>1. Within({"append"}) = {} /\ Len(queue) = 0
  BY DEF Init, Within
<1>2. Cardinality(Producers) \in Nat /\ Cardinality(Producers) # 0
  BY ProducersAssumption, FS_CardinalityType, FS_EmptySet
<1>3. Cardinality(Within({"append"})) = 0
  BY <1>1, FS_EmptySet
<1>4. QED  BY <1>1, <1>2, <1>3, QueueMaxAssumption DEF QueueBound

(* A call that finds room below the limit is one of at most               *)
(* Cardinality(Producers) that may append; one that evicts only replaces.  *)
LEMMA StepQueueBound == TypeQueue /\ QueueBound /\ [Next]_vars => QueueBound'
<1> SUFFICES ASSUME TypeQueue, QueueBound, [Next]_vars PROVE QueueBound'
  OBVIOUS
<1> USE DEF Phases
<1>0. /\ Len(queue) \in Nat /\ QueueMax \in Nat
      /\ Len(queue) + Appending <= QueueMax + Cardinality(Producers) - 1
  BY QueueMaxAssumption DEF TypeQueue, QueueBound, Appending
<1> DEFINE Bound == Len(queue) + Appending <= QueueMax + Cardinality(Producers) - 1
<1>a. SUFFICES Bound'
  BY DEF QueueBound, Appending
<1>1. ASSUME NEW p \in Producers, EnqueueCount(p) PROVE Bound'
  <2>1. CASE Full
    <3>1. phase' = [phase EXCEPT ![p] = "evict"] /\ phase[p] = "idle" /\ queue' = queue
      BY <1>1, <2>1 DEF EnqueueCount
    <3>2. Appending' = Appending
      BY <3>1, CallMoves, CallCounts
    <3>3. QED  BY <1>0, <3>1, <3>2, CallCounts
  <2>2. CASE ~Full
    <3>1. phase' = [phase EXCEPT ![p] = "append"] /\ phase[p] = "idle" /\ queue' = queue
      BY <1>1, <2>2 DEF EnqueueCount
    <3>2. Appending' \in Nat /\ Appending' <= Cardinality(Producers)
      BY <3>1, CallMoves, CallCounts
    <3>3. QED  BY <1>0, <2>2, <3>1, <3>2, CallCounts DEF Full
  <2>3. QED  BY <2>1, <2>2
<1>2. ASSUME NEW p \in Producers, EnqueueEvict(p) PROVE Bound'
  <2>1. CASE queue # <<>>
    <3>1. phase' = [phase EXCEPT ![p] = "append"] /\ phase[p] = "evict" /\ queue' = Tail(queue)
      BY <1>2, <2>1 DEF EnqueueEvict, QueueWithoutOldest
    <3>2. Appending' = Appending + 1
      BY <3>1, CallMoves, CallCounts
    <3>3. Len(queue') = Len(queue) - 1
      BY <2>1, <3>1 DEF TypeQueue
    <3>4. QED  BY <1>0, <3>2, <3>3, CallCounts
  <2>2. CASE queue = <<>>
    <3>1. phase' = [phase EXCEPT ![p] = "idle"] /\ phase[p] = "evict" /\ queue' = queue
      BY <1>2, <2>2 DEF EnqueueEvict
    <3>2. Appending' = Appending
      BY <3>1, CallMoves, CallCounts
    <3>3. QED  BY <1>0, <3>1, <3>2, CallCounts
  <2>3. QED  BY <2>1, <2>2
<1>3. ASSUME NEW p \in Producers, EnqueueAppend(p) PROVE Bound'
  <2>1. /\ phase' = [phase EXCEPT ![p] = "idle"] /\ phase[p] = "append"
        /\ queue' = Append(queue, appended + 1)
    BY <1>3 DEF EnqueueAppend
  <2>2. Appending' = Appending - 1
    BY <2>1, CallMoves, CallCounts
  <2>3. Len(queue') = Len(queue) + 1
    BY <2>1 DEF TypeQueue
  <2>4. QED  BY <1>0, <2>2, <2>3, CallCounts
<1>4. CASE Drain \/ DryDrain
  <2>1. queue # <<>> /\ queue' = Tail(queue) /\ phase' = phase
    BY <1>4 DEF Drain, DryDrain
  <2>2. Len(queue') = Len(queue) - 1
    BY <2>1 DEF TypeQueue
  <2>3. Appending' = Appending
    BY <2>1 DEF Appending, Within
  <2>4. QED  BY <1>0, <2>2, <2>3, CallCounts
<1>5. ASSUME UNCHANGED <<queue, phase>> PROVE Bound'
  BY <1>0, <1>5 DEF Appending, Within
<1>6. QED
  BY StepCases, QueueAlone, <1>1, <1>2, <1>3, <1>4, <1>5

(* Whatever the threads do, the queue stays within queue_max plus the      *)
(* number of other threads that may be inside enqueue().                   *)
THEOREM QueueBounded == Spec => []QueueBound
<1>1. TypeOK /\ QueueBound /\ [Next]_vars => (TypeOK /\ QueueBound)'
  BY StepTypeTask, StepTypeQueue, StepQueueBound DEF TypeOK
<1>2. Init => TypeOK /\ QueueBound
  BY InitTypeOK, InitQueueBound
<1>3. QED  BY <1>1, <1>2, PTL DEF Spec
--------------------------------------------------------------------------------
(* Order.  The queue is a run of consecutive numbers, so what leaves it at *)
(* the head is older than all that stays.                                  *)

Order == OldestFirst /\ SentInOrder /\ WriteHasItem

LEMMA InitOrder == Init => Order
<1> SUFFICES ASSUME Init PROVE Order
  OBVIOUS
<1>1. Len(queue) = 0 /\ appended = 0 /\ lastSent = 0 /\ inflight = 0 /\ pc = "idle"
  BY DEF Init
<1>2. QED  BY <1>1 DEF Order, OldestFirst, SentInOrder, WriteHasItem

(* What taking the oldest item does to the run.                            *)
LEMMA TakeOldest ==
  ASSUME TypeQueue, OldestFirst, queue # <<>>, queue' = Tail(queue), appended' = appended
  PROVE  /\ OldestFirst'
         /\ Len(queue') = Len(queue) - 1 /\ Len(queue) \in Nat \ {0}
         /\ Head(queue) = appended - Len(queue) + 1
         /\ Head(queue) \in Nat \ {0}
         /\ appended \in Nat /\ Len(queue) <= appended
<1>1. /\ Tail(queue) \in Seq(Nat) /\ Len(Tail(queue)) = Len(queue) - 1
      /\ \A i \in 1 .. Len(Tail(queue)) : Tail(queue)[i] = queue[i + 1]
      /\ Len(queue) \in Nat \ {0}
  BY HeadTailProperties, EmptySeq DEF TypeQueue
<1>2. Head(queue) = queue[1] /\ appended \in Nat
  BY DEF TypeQueue
<1>3. Head(queue) = appended - Len(queue) + 1 /\ Len(queue) <= appended
  BY <1>1, <1>2 DEF OldestFirst
<1>4. \A i \in 1 .. Len(Tail(queue)) : Tail(queue)[i] = appended - Len(Tail(queue)) + i
  BY <1>1, <1>2 DEF OldestFirst
<1>5. OldestFirst'
  BY <1>1, <1>2, <1>3, <1>4 DEF OldestFirst
<1>6. QED  BY <1>1, <1>2, <1>3, <1>5

LEMMA StepOrder == TypeQueue /\ Order /\ [Next]_vars => Order'
<1> SUFFICES ASSUME TypeQueue, Order, [Next]_vars PROVE Order'
  OBVIOUS
<1>0. OldestFirst /\ SentInOrder /\ WriteHasItem
  BY DEF Order
<1>1. /\ queue' = queue /\ appended' = appended
      /\ inflight' = inflight /\ lastSent' = lastSent
      /\ pc' = pc \/ (pc # "write" /\ pc' # "write")
      => Order'
  BY <1>0 DEF Order, OldestFirst, SentInOrder, WriteHasItem
<1>2. ASSUME NEW p \in Producers, EnqueueCount(p) PROVE Order'
  BY <1>1, <1>2 DEF EnqueueCount, taskVars
<1>3. ASSUME NEW p \in Producers, EnqueueEvict(p) PROVE Order'
  <2>1. UNCHANGED <<pc, inflight, appended, lastSent>>
    BY <1>3 DEF EnqueueEvict, taskVars
  <2>2. CASE queue = <<>>
    <3>1. UNCHANGED queue
      BY <1>3, <2>2 DEF EnqueueEvict
    <3>2. QED  BY <1>1, <2>1, <3>1
  <2>3. CASE queue # <<>>
    <3>1. queue' = Tail(queue)
      BY <1>3, <2>3 DEF EnqueueEvict, QueueWithoutOldest
    <3>2. /\ OldestFirst' /\ Len(queue') = Len(queue) - 1
          /\ Len(queue) \in Nat /\ appended \in Nat
      BY <1>0, <2>1, <2>3, <3>1, TakeOldest
    <3>3. SentInOrder'
      BY <1>0, <2>1, <3>2 DEF SentInOrder, TypeQueue
    <3>4. QED  BY <1>0, <2>1, <3>2, <3>3 DEF Order, WriteHasItem
  <2>4. QED  BY <2>2, <2>3
<1>4. ASSUME NEW p \in Producers, EnqueueAppend(p) PROVE Order'
  <2>1. /\ queue' = Append(queue, appended + 1) /\ appended' = appended + 1
        /\ UNCHANGED <<pc, inflight, lastSent>>
    BY <1>4 DEF EnqueueAppend, taskVars
  <2>2. /\ Len(queue') = Len(queue) + 1 /\ Len(queue) \in Nat
        /\ appended \in Nat
        /\ \A i \in 1 .. Len(queue) : queue'[i] = queue[i]
        /\ queue'[Len(queue) + 1] = appended + 1
    BY <2>1 DEF TypeQueue
  <2>3. OldestFirst'
    BY <1>0, <2>1, <2>2 DEF OldestFirst
  <2>4. SentInOrder'
    BY <1>0, <2>1, <2>2 DEF SentInOrder, TypeQueue
  <2>5. QED  BY <1>0, <2>1, <2>3, <2>4 DEF Order, WriteHasItem
<1>5. CASE Drain
  <2>1. /\ queue # <<>> /\ queue' = Tail(queue) /\ UNCHANGED <<appended, lastSent>>
        /\ \/ pc' = "pump" /\ UNCHANGED inflight
           \/ pc' = "write" /\ inflight' = Head(queue)
        /\ pc # "write"
    BY <1>5 DEF Drain, Goto, Taken
  <2>2. /\ OldestFirst' /\ Len(queue') = Len(queue) - 1 /\ Len(queue) \in Nat \ {0}
        /\ Head(queue) = appended - Len(queue) + 1 /\ Head(queue) # 0
        /\ appended \in Nat /\ Len(queue) <= appended
    BY <1>0, <2>1, TakeOldest
  <2>3. inflight = 0 /\ lastSent \in Nat
    BY <1>0, <2>1 DEF SentInOrder, TypeQueue
  <2>4. SentInOrder'
    BY <1>0, <2>1, <2>2, <2>3 DEF SentInOrder
  <2>5. WriteHasItem'
    BY <2>1, <2>2 DEF WriteHasItem
  <2>6. QED  BY <2>2, <2>4, <2>5 DEF Order
<1>6. CASE DryDrain
  <2>1. /\ queue # <<>> /\ queue' = Tail(queue) /\ UNCHANGED <<appended, inflight>>
        /\ lastSent' = lastSent \/ lastSent' = Head(queue)
        /\ pc = "dry" /\ pc' = "dry"
    BY <1>6 DEF DryDrain, Goto, Taken
  <2>2. /\ OldestFirst' /\ Len(queue') = Len(queue) - 1 /\ Len(queue) \in Nat \ {0}
        /\ Head(queue) = appended - Len(queue) + 1 /\ Head(queue) # 0
        /\ appended \in Nat /\ Len(queue) <= appended
    BY <1>0, <2>1, TakeOldest
  <2>3. inflight = 0 /\ lastSent \in Nat
    BY <1>0, <2>1 DEF SentInOrder, TypeQueue
  <2>4. SentInOrder'
    BY <1>0, <2>1, <2>2, <2>3 DEF SentInOrder
  <2>5. QED  BY <2>1, <2>2, <2>4 DEF Order, WriteHasItem
<1>7. CASE WriteOk \/ WriteFail
  <2>1. /\ UNCHANGED <<queue, appended>> /\ inflight' = 0 /\ pc = "write" /\ pc' # "write"
        /\ lastSent' = lastSent \/ lastSent' = inflight
    BY <1>7 DEF WriteOk, WriteFail, Goto
  <2>2. QED
    BY <1>0, <2>1 DEF Order, OldestFirst, SentInOrder, WriteHasItem
<1>8. CASE Age \/ Start \/ Stop \/ StopReturn \/ RunExit \/ RunAttempt \/ ConnectOk \/ ConnectFail
  BY <1>1, <1>8 DEF Age, Start, Stop, StopReturn, RunExit, RunAttempt, ConnectOk, ConnectFail,
                    Goto, queueVars, taskVars
<1>9. CASE BackoffEnd \/ PresenceOk \/ PresenceFail \/ GroupsDone
  BY <1>1, <1>9 DEF BackoffEnd, PresenceOk, PresenceFail, GroupsDone, Goto, queueVars
<1>10. CASE PumpStopped \/ PumpBeat \/ DrainEmpty \/ SessionClosed \/ DryStopped
  BY <1>1, <1>10 DEF PumpStopped, PumpBeat, DrainEmpty, SessionClosed, DryStopped, Goto, queueVars
<1>11. CASE UNCHANGED vars  BY <1>1, <1>11 DEF vars
<1>12. QED
  BY StepCases, <1>2, <1>3, <1>4, <1>5, <1>6, <1>7, <1>8, <1>9, <1>10, <1>11

(* The queue is always the newest items, oldest first, and items are       *)
(* written in order, each at most once, also when a thread evicts while    *)
(* the pump writes.                                                        *)
THEOREM Ordered == Spec => [](OldestFirst /\ SentInOrder)
<1>1. TypeOK /\ Order /\ [Next]_vars => (TypeOK /\ Order)'
  BY StepTypeTask, StepTypeQueue, StepOrder DEF TypeOK
<1>2. Init => TypeOK /\ Order
  BY InitTypeOK, InitOrder
<1>3. Order => OldestFirst /\ SentInOrder
  BY DEF Order
<1>4. QED  BY <1>1, <1>2, <1>3, PTL DEF Spec
--------------------------------------------------------------------------------
(* Accounting: every step moves a report from one place to another.        *)

Writing == IF inflight = 0 THEN 0 ELSE 1
Places == sent + dropped + lost + Len(queue) + Writing + InEnqueue

LEMMA InitAccounting == Init => Accounting
<1> SUFFICES ASSUME Init PROVE Accounting
  OBVIOUS
<1>1. Within({"evict", "append"}) = {} /\ Len(queue) = 0
  BY DEF Init, Within
<1>2. Cardinality(Within({"evict", "append"})) = 0
  BY <1>1, FS_EmptySet
<1>3. QED  BY <1>1, <1>2 DEF Accounting, Init

LEMMA StepAccounting ==
  TypeOK /\ Order /\ Accounting /\ [Next]_vars => Accounting'
<1> SUFFICES ASSUME TypeOK, Order, Accounting, [Next]_vars PROVE Accounting'
  OBVIOUS
<1>0. /\ Len(queue) \in Nat /\ InEnqueue \in Nat
      /\ generated \in Nat /\ sent \in Nat /\ dropped \in Nat /\ lost \in Nat
      /\ Writing \in Nat /\ generated = Places
  BY CallCounts DEF TypeOK, TypeQueue, Accounting, Places, InEnqueue, Writing
<1>a. SUFFICES generated' = Places'
  BY DEF Accounting, Places, InEnqueue, Writing
<1>c. inflight' = inflight => Writing' = Writing
  BY DEF Writing
<1>b. phase' = phase => InEnqueue' = InEnqueue
  BY DEF InEnqueue, Within
<1>1. ASSUME NEW p \in Producers, EnqueueCount(p) PROVE generated' = Places'
  <2>1. PICK to \in {"evict", "append"} : phase' = [phase EXCEPT ![p] = to]
    BY <1>1 DEF EnqueueCount
  <2>2. /\ phase[p] = "idle" /\ generated' = generated + 1
        /\ UNCHANGED <<sent, dropped, lost, queue, inflight>>
    BY <1>1 DEF EnqueueCount
  <2>3. InEnqueue' = InEnqueue + 1
    BY <2>1, <2>2, CallMoves DEF TypeOK, Phases
  <2>4. QED  BY <1>0, <1>c, <2>2, <2>3 DEF Places
<1>2. ASSUME NEW p \in Producers, EnqueueEvict(p) PROVE generated' = Places'
  <2>1. CASE queue = <<>>
    <3>1. /\ phase[p] = "evict" /\ phase' = [phase EXCEPT ![p] = "idle"]
          /\ lost' = lost + 1 /\ UNCHANGED <<generated, sent, dropped, queue, inflight>>
      BY <1>2, <2>1 DEF EnqueueEvict, metrics
    <3>2. InEnqueue' = InEnqueue - 1
      BY <3>1, CallMoves DEF TypeOK, Phases
    <3>3. QED  BY <1>0, <1>c, <3>1, <3>2 DEF Places
  <2>2. CASE queue # <<>>
    <3>1. /\ phase[p] = "evict" /\ phase' = [phase EXCEPT ![p] = "append"]
          /\ queue' = Tail(queue)
      BY <1>2, <2>2 DEF EnqueueEvict, QueueWithoutOldest
    <3>a. /\ dropped' = dropped + 1 /\ generated' = generated /\ sent' = sent
          /\ lost' = lost /\ inflight' = inflight
      BY <1>2, <2>2 DEF EnqueueEvict, CountDropped
    <3>2. InEnqueue' = InEnqueue
      BY <3>1, CallMoves DEF TypeOK, Phases
    <3>3. Len(queue') = Len(queue) - 1
      BY <2>2, <3>1 DEF TypeOK, TypeQueue
    <3>4. QED  BY <1>0, <1>c, <3>2, <3>3, <3>a DEF Places
  <2>3. QED  BY <2>1, <2>2
<1>3. ASSUME NEW p \in Producers, EnqueueAppend(p) PROVE generated' = Places'
  <2>1. /\ phase[p] = "append" /\ phase' = [phase EXCEPT ![p] = "idle"]
        /\ queue' = Append(queue, appended + 1)
        /\ UNCHANGED <<generated, sent, dropped, lost, inflight>>
    BY <1>3 DEF EnqueueAppend, metrics
  <2>2. InEnqueue' = InEnqueue - 1
    BY <2>1, CallMoves DEF TypeOK, Phases
  <2>3. Len(queue') = Len(queue) + 1
    BY <2>1 DEF TypeOK, TypeQueue
  <2>4. QED  BY <1>0, <1>c, <2>1, <2>2, <2>3 DEF Places
<1>4. CASE Drain
  <2>1. /\ queue # <<>> /\ queue' = Tail(queue) /\ UNCHANGED <<generated, sent, lost, phase, appended>>
        /\ \/ dropped' = dropped + 1 /\ UNCHANGED inflight
           \/ dropped' = dropped /\ inflight' = Head(queue)
        /\ pc # "write"
    BY <1>4 DEF Drain, Goto, Taken, CountDropped, metrics
  <2>2. Len(queue') = Len(queue) - 1 /\ Head(queue) # 0
    BY <2>1, TakeOldest DEF TypeOK, Order
  <2>3. inflight = 0
    BY <2>1 DEF Order, SentInOrder
  <2>4. QED  BY <1>0, <1>b, <2>1, <2>2, <2>3 DEF Places, Writing
<1>5. CASE DryDrain
  <2>1. /\ queue # <<>> /\ queue' = Tail(queue)
        /\ UNCHANGED <<generated, lost, phase, inflight, appended>>
        /\ \/ dropped' = dropped + 1 /\ UNCHANGED sent
           \/ sent' = sent + 1 /\ UNCHANGED dropped
    BY <1>5 DEF DryDrain, CountDropped, CountSent
  <2>2. Len(queue') = Len(queue) - 1
    BY <2>1, TakeOldest DEF TypeOK, Order
  <2>3. QED  BY <1>0, <1>b, <1>c, <2>1, <2>2 DEF Places
<1>6. CASE WriteOk \/ WriteFail
  <2>1. /\ pc = "write" /\ inflight' = 0 /\ UNCHANGED <<generated, dropped, queue, phase>>
        /\ \/ sent' = sent + 1 /\ UNCHANGED lost
           \/ lost' = lost + 1 /\ UNCHANGED sent
    BY <1>6 DEF WriteOk, WriteFail, Goto, CountSent, metrics
  <2>2. inflight # 0
    BY <2>1 DEF Order, WriteHasItem
  <2>3. QED  BY <1>0, <1>b, <2>1, <2>2 DEF Places, Writing
<1>7. UNCHANGED <<generated, sent, dropped, lost, queue, inflight, phase>> => generated' = Places'
  BY <1>0, <1>b, <1>c DEF Places
<1>8. CASE Age \/ Start \/ Stop \/ StopReturn \/ RunExit \/ RunAttempt \/ ConnectOk \/ ConnectFail
  BY <1>7, <1>8 DEF Age, Start, Stop, StopReturn, RunExit, RunAttempt, ConnectOk, ConnectFail,
                    queueVars, metrics
<1>9. CASE BackoffEnd \/ PresenceOk \/ PresenceFail \/ GroupsDone
  BY <1>7, <1>9 DEF BackoffEnd, PresenceOk, PresenceFail, GroupsDone, queueVars, metrics
<1>10. CASE PumpStopped \/ PumpBeat \/ DrainEmpty \/ SessionClosed \/ DryStopped
  BY <1>7, <1>10 DEF PumpStopped, PumpBeat, DrainEmpty, SessionClosed, DryStopped, queueVars, metrics
<1>11. CASE UNCHANGED vars  BY <1>7, <1>11 DEF vars
<1>12. QED
  BY StepCases, <1>1, <1>2, <1>3, <1>4, <1>5, <1>6, <1>8, <1>9, <1>10, <1>11

(* No report disappears from the books: what was generated is sent,        *)
(* dropped, queued, in a call, in a write, or was lost in a failed write.  *)
THEOREM Accounted == Spec => []Accounting
<1>1. TypeOK /\ Order /\ Accounting /\ [Next]_vars => (TypeOK /\ Order /\ Accounting)'
  BY StepTypeTask, StepTypeQueue, StepOrder, StepAccounting DEF TypeOK
<1>2. Init => TypeOK /\ Order /\ Accounting
  BY InitTypeOK, InitOrder, InitAccounting
<1>3. QED  BY <1>1, <1>2, PTL DEF Spec

--------------------------------------------------------------------------------
(* The manager implements the abstract channel: appends are acceptances,   *)
(* counted sends are deliveries, every other step stutters.                *)
THEOREM Implements == Spec => IsLossyFifo
<1>1. Init => Channel!Init
  BY DEF Init, Channel!Init
<1>2. TypeOK /\ Order /\ [Next]_vars => [Channel!Next]_(Channel!chanVars)
  <2> SUFFICES ASSUME TypeOK, Order, [Next]_vars PROVE [Channel!Next]_(Channel!chanVars)
    OBVIOUS
  <2> USE DEF Channel!chanVars
  <2>1. ASSUME NEW p \in Producers, EnqueueAppend(p) PROVE Channel!Accept
    BY <2>1 DEF EnqueueAppend, metrics, Channel!Accept
  <2>2. ASSUME NEW p \in Producers, EnqueueCount(p) \/ EnqueueEvict(p)
        PROVE  UNCHANGED Channel!chanVars
    BY <2>2 DEF EnqueueCount, EnqueueEvict, metrics, CountDropped
  <2>3. CASE WriteOk
    <3>1. /\ lastSent' = inflight /\ sent' = sent + 1 /\ appended' = appended /\ pc = "write"
      BY <2>3 DEF WriteOk, Goto, CountSent
    <3>2. inflight # 0
      BY <3>1 DEF Order, WriteHasItem
    <3>3. /\ lastSent < inflight /\ inflight <= appended - Len(queue)
          /\ Len(queue) \in Nat /\ inflight \in Nat /\ lastSent \in Nat /\ appended \in Nat
      BY <3>2 DEF Order, SentInOrder, TypeOK, TypeQueue
    <3>4. inflight \in (lastSent + 1) .. appended
      BY <3>3
    <3>5. Channel!Deliver
      BY <3>1, <3>4 DEF Channel!Deliver
    <3>6. QED  BY <3>5 DEF Channel!Next
  <2>4. CASE DryDrain
    <3>1. /\ queue # <<>> /\ queue' = Tail(queue) /\ appended' = appended
          /\ \/ UNCHANGED <<lastSent, sent>>
             \/ lastSent' = Head(queue) /\ sent' = sent + 1
      BY <2>4 DEF DryDrain, CountSent, CountDropped, Taken
    <3>2. /\ Head(queue) = appended - Len(queue) + 1 /\ Len(queue) \in Nat \ {0}
          /\ Head(queue) \in Nat /\ appended \in Nat
      BY <3>1, TakeOldest DEF TypeOK, Order
    <3>3. lastSent <= appended - Len(queue) /\ lastSent \in Nat
      BY DEF Order, SentInOrder, TypeOK, TypeQueue
    <3>4. Head(queue) \in (lastSent + 1) .. appended
      BY <3>2, <3>3
    <3>5. QED  BY <3>1, <3>4 DEF Channel!Next, Channel!Deliver
  <2>5. CASE WriteFail \/ Drain \/ Age \/ Start \/ Stop \/ StopReturn \/ RunExit \/ RunAttempt
    BY <2>5 DEF WriteFail, Drain, Age, Start, Stop, StopReturn, RunExit, RunAttempt,
                CountDropped, queueVars, metrics
  <2>6. CASE ConnectOk \/ ConnectFail \/ BackoffEnd \/ PresenceOk \/ PresenceFail \/ GroupsDone
    BY <2>6 DEF ConnectOk, ConnectFail, BackoffEnd, PresenceOk, PresenceFail, GroupsDone,
                queueVars, metrics
  <2>7. CASE PumpStopped \/ PumpBeat \/ DrainEmpty \/ SessionClosed \/ DryStopped
    BY <2>7 DEF PumpStopped, PumpBeat, DrainEmpty, SessionClosed, DryStopped, queueVars, metrics
  <2>8. CASE UNCHANGED vars  BY <2>8 DEF vars
  <2>9. QED
    BY StepCases, <2>1, <2>2, <2>3, <2>4, <2>5, <2>6, <2>7, <2>8 DEF Channel!Next
<1>3. TypeOK /\ Order /\ [Next]_vars => (TypeOK /\ Order)'
  BY StepTypeTask, StepTypeQueue, StepOrder DEF TypeOK
<1>4. Init => TypeOK /\ Order
  BY InitTypeOK, InitOrder
<1>5. QED  BY <1>1, <1>2, <1>3, <1>4, PTL DEF Spec, IsLossyFifo, Channel!Spec

--------------------------------------------------------------------------------
(* "connected" without a session is seen only behind a stop.               *)

LEMMA StepConnected == ConnectedAt /\ [Next]_vars => ConnectedAt'
<1> SUFFICES ASSUME ConnectedAt, [Next]_vars PROVE ConnectedAt'
  OBVIOUS
<1> USE DEF ConnectedAt, Session, Goto, taskVars
<1>1. UNCHANGED <<state, pc, stop>> => ConnectedAt'
  OBVIOUS
<1>2. ASSUME NEW p \in Producers, EnqueueCount(p) \/ EnqueueEvict(p) \/ EnqueueAppend(p)
      PROVE  ConnectedAt'
  BY <1>1, <1>2 DEF EnqueueCount, EnqueueEvict, EnqueueAppend
<1>3. CASE Age \/ UNCHANGED vars
  BY <1>1, <1>3 DEF Age, vars
<1>4. CASE Start \/ Stop \/ StopReturn
  BY <1>4 DEF Start, Stop, StopReturn
<1>5. CASE RunExit \/ RunAttempt \/ ConnectOk \/ ConnectFail \/ BackoffEnd
  BY <1>5 DEF RunExit, RunAttempt, ConnectOk, ConnectFail, BackoffEnd
<1>6. CASE PresenceOk \/ PresenceFail \/ GroupsDone \/ PumpStopped \/ PumpBeat
  BY <1>6 DEF PresenceOk, PresenceFail, GroupsDone, PumpStopped, PumpBeat
<1>7. CASE Drain \/ DrainEmpty \/ WriteOk \/ WriteFail
  BY <1>7 DEF Drain, DrainEmpty, WriteOk, WriteFail
<1>8. CASE SessionClosed \/ DryStopped \/ DryDrain
  BY <1>8 DEF SessionClosed, DryStopped, DryDrain
<1>9. QED
  BY StepCases, <1>2, <1>3, <1>4, <1>5, <1>6, <1>7, <1>8

(* The state the UI shows is "connected" only while a session is open, or  *)
(* after a stop whose wait ran out before the task ended.                  *)
THEOREM ConnectedLive == Spec => []ConnectedIsLive
<1>1. Init => ConnectedAt
  BY DEF Init, ConnectedAt
<1>2. ConnectedAt => ConnectedIsLive
  BY DEF ConnectedAt, ConnectedIsLive
<1>3. QED  BY <1>1, <1>2, StepConnected, PTL DEF Spec
================================================================================
