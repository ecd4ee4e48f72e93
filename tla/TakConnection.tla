----------------------------- MODULE TakConnection -----------------------------
(***************************************************************************)
(* One TakConnectionManager (src/radiotak/gateway/tak/__init__.py): the    *)
(* bounded CoT queue, the asyncio task that connects, announces presence   *)
(* and drains the queue, its reconnect backoff, and start() / stop().      *)
(*                                                                         *)
(* enqueue() is called from the event loop (NDJSON) and from worker        *)
(* threads (the APRS feeds run the pipeline in asyncio.to_thread), so one  *)
(* call is several steps: count and look at the length, evict, append.     *)
(* Code of the event loop runs between two awaits without another          *)
(* coroutine, but a worker thread may run between any two of those steps.  *)
(*                                                                         *)
(* A CoT item is the number of its append; its age is abstracted to        *)
(* `horizon`: the items appended up to it are older than                   *)
(* stale_drop_seconds.  Presence and disconnect reports add one to both    *)
(* cot_generated and cot_sent (_write_xml): the two cancel in every        *)
(* property here, and they are not counted.                                *)
(***************************************************************************)
EXTENDS Integers, Sequences, FiniteSets

CONSTANTS
  Producers,     \* threads that call enqueue
  EventLoop,     \* the producer that is the event-loop thread
  QueueMax,      \* queue_max (200)
  ReconnectMin,  \* reconnect_min (2 s)
  ReconnectMax,  \* reconnect_max (60 s)
  MaxItems,      \* bound: calls of enqueue
  MaxStops       \* bound: calls of stop() waiting at the same time

ASSUME ProducersAssumption == IsFiniteSet(Producers) /\ EventLoop \in Producers
ASSUME QueueMaxAssumption == QueueMax \in Nat \ {0}
ASSUME ReconnectAssumption ==
  /\ ReconnectMin \in Nat \ {0}
  /\ ReconnectMax \in Nat
  /\ ReconnectMin <= ReconnectMax
ASSUME BoundsAssumption == MaxItems \in Nat /\ MaxStops \in Nat

VARIABLES
  profile,   \* [dry, presence]: dry_run (or no host) and send_presence
  state,     \* state, the ConnectionState the UI shows
  pc,        \* where the task of _run is; "idle": no task, or it is done
  delay,     \* the local variable of _run
  stop,      \* the _stop event
  stopping,  \* calls of stop() waiting for the task
  queue,     \* _queue
  phase,     \* producer -> step of its enqueue call
  inflight,  \* item taken from the queue whose write has not returned, or 0
  generated, \* metrics.cot_generated, without presence reports
  sent,      \* metrics.cot_sent, without presence reports
  dropped,   \* metrics.cot_dropped
  appended,  \* items appended so far; an item is its place in this count
  horizon,   \* items up to this one have outlived stale_drop_seconds
  lost,      \* items in no counter: a failed write, or an eviction that raised
  lastSent   \* the last item counted in cot_sent, or 0

taskVars  == <<state, pc, delay, stop, stopping>>
metrics   == <<generated, sent, dropped>>
queueVars == <<queue, inflight, metrics, appended, lost, lastSent>>
vars == <<profile, state, pc, delay, stop, stopping, queue, phase, inflight,
          generated, sent, dropped, appended, horizon, lost, lastSent>>

States == {"disconnected", "connecting", "connected", "tls_error"}
PCs == {"idle", "loop", "dry", "connecting", "hello", "groups", "hello2",
        "pump", "beat", "drain", "write", "leave", "abort", "backoff"}
Phases == {"idle", "evict", "append"}
\* the task holds an open writer
Session == {"hello", "groups", "hello2", "pump", "beat", "drain", "write",
            "leave", "abort"}

Doubled(d) == IF d * 2 <= ReconnectMax THEN d * 2 ELSE ReconnectMax

Full == Len(queue) >= QueueMax

QueueWithoutOldest == Tail(queue)

\* Mutant: pop() for popleft() in _drain_queue.
TakesNewest == queue[Len(queue)]
Taken == Head(queue)

\* Mutant: a report is discarded without counting it.
DropUncounted == UNCHANGED metrics
CountDropped == dropped' = dropped + 1 /\ UNCHANGED <<generated, sent>>
CountSent == sent' = sent + 1 /\ UNCHANGED <<generated, dropped>>

Init ==
  /\ profile \in [dry : BOOLEAN, presence : BOOLEAN]
  /\ state = "disconnected" /\ pc = "idle" /\ delay = ReconnectMin
  /\ stop = FALSE /\ stopping = 0
  /\ queue = <<>> /\ phase = [p \in Producers |-> "idle"]
  /\ inflight = 0 /\ appended = 0 /\ horizon = 0 /\ lost = 0 /\ lastSent = 0
  /\ generated = 0 /\ sent = 0 /\ dropped = 0

--------------------------------------------------------------------------------
(* enqueue(): a worker thread may lose the processor between the steps.    *)

EnqueueCount(p) ==
  /\ phase[p] = "idle"
  /\ generated < MaxItems
  /\ generated' = generated + 1 /\ UNCHANGED <<sent, dropped>>
  /\ phase' = [phase EXCEPT ![p] = IF Full THEN "evict" ELSE "append"]
  /\ UNCHANGED <<profile, taskVars, queue, inflight, appended, horizon, lost, lastSent>>

\* popleft of a queue that others emptied meanwhile raises IndexError
EnqueueEvict(p) ==
  /\ phase[p] = "evict"
  /\ \/ /\ queue # <<>>
        /\ queue' = QueueWithoutOldest
        /\ CountDropped
        /\ phase' = [phase EXCEPT ![p] = "append"]
        /\ UNCHANGED lost
     \/ /\ queue = <<>>
        /\ phase' = [phase EXCEPT ![p] = "idle"]
        /\ lost' = lost + 1
        /\ UNCHANGED <<queue, metrics>>
  /\ UNCHANGED <<profile, taskVars, inflight, appended, horizon, lastSent>>

EnqueueAppend(p) ==
  /\ phase[p] = "append"
  /\ queue' = Append(queue, appended + 1)
  /\ appended' = appended + 1
  /\ phase' = [phase EXCEPT ![p] = "idle"]
  /\ UNCHANGED <<profile, taskVars, inflight, metrics, horizon, lost, lastSent>>

Enqueue(p) == EnqueueCount(p) \/ EnqueueEvict(p) \/ EnqueueAppend(p)

\* The clock: one more item, queued or not, is now older than the threshold.
Age ==
  /\ horizon < appended
  /\ horizon' = horizon + 1
  /\ UNCHANGED <<profile, taskVars, queueVars, phase>>

--------------------------------------------------------------------------------
(* The coroutines.  A step runs on the event loop, so not while the event  *)
(* loop itself is inside enqueue().                                        *)

LoopFree == phase[EventLoop] = "idle"

Goto(from, to) == LoopFree /\ pc = from /\ pc' = to

Start ==
  /\ LoopFree
  /\ stop' = FALSE
  /\ IF pc = "idle" THEN pc' = "loop" /\ delay' = ReconnectMin
                    ELSE UNCHANGED <<pc, delay>>
  /\ UNCHANGED <<profile, state, stopping, queueVars, phase, horizon>>

Stop ==
  /\ LoopFree
  /\ stopping < MaxStops
  /\ stop' = TRUE
  /\ IF pc = "idle" THEN state' = "disconnected" /\ UNCHANGED stopping
                    ELSE stopping' = stopping + 1 /\ UNCHANGED state
  /\ UNCHANGED <<profile, pc, delay, queueVars, phase, horizon>>

\* asyncio.wait returned: the task is done, or five seconds have passed
StopReturn ==
  /\ LoopFree
  /\ stopping > 0
  /\ stopping' = stopping - 1
  /\ state' = "disconnected"
  /\ UNCHANGED <<profile, pc, delay, stop, queueVars, phase, horizon>>

RunExit ==
  /\ stop
  /\ Goto("loop", "idle")
  /\ UNCHANGED <<profile, state, delay, stop, stopping, queueVars, phase, horizon>>

\* in a dry run there is no await before the pump
RunAttempt ==
  /\ ~stop
  /\ Goto("loop", IF profile.dry THEN "dry" ELSE "connecting")
  /\ state' = IF profile.dry THEN "connected" ELSE "connecting"
  /\ UNCHANGED <<profile, delay, stop, stopping, queueVars, phase, horizon>>

\* open_connection returned; `_stop` is not looked at before the pump
ConnectOk ==
  /\ Goto("connecting", IF profile.presence THEN "hello" ELSE "groups")
  /\ state' = "connected"
  /\ UNCHANGED <<profile, delay, stop, stopping, queueVars, phase, horizon>>

ConnectFail ==
  /\ Goto("connecting", "backoff")
  /\ state' = "tls_error"
  /\ UNCHANGED <<profile, delay, stop, stopping, queueVars, phase, horizon>>

\* Mutant: the loop is `while True`, _stop is only looked at by the pump.
BackoffRetriesStopped ==
  /\ Goto("backoff", "connecting")
  /\ delay' = Doubled(delay)
  /\ UNCHANGED <<profile, state, stop, stopping, queueVars, phase, horizon>>

\* Mutant: an error ends the task.
BackoffGivesUp ==
  /\ Goto("backoff", "idle")
  /\ UNCHANGED <<profile, state, delay, stop, stopping, queueVars, phase, horizon>>

BackoffEnd ==
  /\ Goto("backoff", "loop")
  /\ delay' = Doubled(delay)
  /\ UNCHANGED <<profile, state, stop, stopping, queueVars, phase, horizon>>

--------------------------------------------------------------------------------
(* The session: presence, Marti groups, presence, then the pump.           *)

\* Mutant: a pump iteration sends a heartbeat or an item, never both.
PresenceOrDrain ==
  /\ \/ Goto("hello", "groups")
     \/ Goto("hello2", "pump")
     \/ Goto("beat", "pump")
  /\ UNCHANGED <<profile, state, delay, stop, stopping, queueVars, phase, horizon>>

\* a presence report that is written whole
PresenceOk ==
  /\ \/ Goto("hello", "groups")
     \/ Goto("hello2", "pump")
     \/ Goto("beat", "drain")
  /\ UNCHANGED <<profile, state, delay, stop, stopping, queueVars, phase, horizon>>

PresenceFail ==
  /\ pc \in {"hello", "hello2", "beat"} /\ Goto(pc, "abort")
  /\ UNCHANGED <<profile, state, delay, stop, stopping, queueVars, phase, horizon>>

\* _apply_groups logs its own failures
GroupsDone ==
  /\ Goto("groups", IF profile.presence THEN "hello2" ELSE "pump")
  /\ UNCHANGED <<profile, state, delay, stop, stopping, queueVars, phase, horizon>>

PumpStopped ==
  /\ stop
  /\ Goto("pump", "leave")
  /\ UNCHANGED <<profile, state, delay, stop, stopping, queueVars, phase, horizon>>

\* PRESENCE_INTERVAL_SECONDS have passed
PumpBeat ==
  /\ ~stop /\ profile.presence
  /\ Goto("pump", "beat")
  /\ UNCHANGED <<profile, state, delay, stop, stopping, queueVars, phase, horizon>>

\* _drain_queue up to its await; after a beat there is no second look at _stop
Drain ==
  /\ \/ pc = "drain"
     \/ pc = "pump" /\ ~stop
  /\ queue # <<>>
  /\ queue' = Tail(queue)
  /\ IF Taken <= horizon
       THEN /\ Goto(pc, "pump")
            /\ CountDropped
            /\ UNCHANGED inflight
       ELSE /\ Goto(pc, "write")
            /\ inflight' = Taken
            /\ UNCHANGED metrics
  /\ UNCHANGED <<profile, state, delay, stop, stopping, appended, lost, lastSent,
                 phase, horizon>>

DrainEmpty ==
  /\ queue = <<>>
  /\ Goto("drain", "pump")
  /\ UNCHANGED <<profile, state, delay, stop, stopping, queueVars, phase, horizon>>

WriteOk ==
  /\ Goto("write", "pump")
  /\ CountSent
  /\ lastSent' = inflight
  /\ inflight' = 0
  /\ UNCHANGED <<profile, state, delay, stop, stopping, queue, appended, lost,
                 phase, horizon>>

\* Mutant: a failed write puts its item back at the wrong end.
WriteFailRequeues ==
  /\ Goto("write", "abort")
  /\ queue' = Append(queue, inflight)
  /\ inflight' = 0
  /\ UNCHANGED <<profile, state, delay, stop, stopping, metrics, appended, lost,
                 lastSent, phase, horizon>>

\* the item was popped before the write, and nobody puts it back
WriteFail ==
  /\ Goto("write", "abort")
  /\ lost' = lost + 1
  /\ inflight' = 0
  /\ UNCHANGED <<profile, state, delay, stop, stopping, queue, metrics, appended,
                 lastSent, phase, horizon>>

\* Mutant: the handler of a failed session forgets the state.
SessionClosedSilently ==
  /\ \/ Goto("leave", "loop") /\ delay' = ReconnectMin /\ UNCHANGED state
     \/ Goto("abort", "backoff") /\ UNCHANGED <<delay, state>>
  /\ UNCHANGED <<profile, stop, stopping, queueVars, phase, horizon>>

\* finally: disconnect report (errors swallowed), close, wait_closed
SessionClosed ==
  /\ \/ Goto("leave", "loop") /\ delay' = ReconnectMin /\ UNCHANGED state
     \/ Goto("abort", "backoff") /\ state' = "tls_error" /\ UNCHANGED delay
  /\ UNCHANGED <<profile, stop, stopping, queueVars, phase, horizon>>

--------------------------------------------------------------------------------
(* A dry run has no writer: an iteration of its pump is one step.          *)

DryStopped ==
  /\ stop
  /\ Goto("dry", "loop")
  /\ delay' = ReconnectMin
  /\ UNCHANGED <<profile, state, stop, stopping, queueVars, phase, horizon>>

DryDrain ==
  /\ ~stop
  /\ Goto("dry", "dry")
  /\ queue # <<>>
  /\ queue' = Tail(queue)
  /\ IF Taken <= horizon
       THEN /\ CountDropped
            /\ UNCHANGED lastSent
       ELSE /\ CountSent
            /\ lastSent' = Taken
  /\ UNCHANGED <<profile, state, delay, stop, stopping, inflight, appended, lost,
                 phase, horizon>>

--------------------------------------------------------------------------------
Run == RunExit \/ RunAttempt
Connect == ConnectOk \/ ConnectFail
Greet == PresenceOk \/ PresenceFail \/ GroupsDone
Pump == PumpStopped \/ PumpBeat \/ Drain \/ DrainEmpty
Write == WriteOk \/ WriteFail
DryPump == DryStopped \/ DryDrain

Task == Run \/ Connect \/ BackoffEnd \/ Greet \/ Pump \/ Write \/ SessionClosed \/ DryPump

Next ==
  \/ \E p \in Producers : Enqueue(p)
  \/ Age
  \/ Start \/ Stop \/ StopReturn
  \/ Task

Spec == Init /\ [][Next]_vars

(***************************************************************************)
(* Fairness.  The event loop keeps running ready coroutines, and every     *)
(* await of the task ends: a sleep expires, a connect or a write returns   *)
(* or raises in the end (the operating system gives up on a dead peer),    *)
(* and so does the wait of stop().  Which way it ends is never assumed.    *)
(* A thread inside enqueue() finishes its call.  Nobody has to call        *)
(* enqueue, start or stop.  The one repeating choice, a heartbeat against  *)
(* a drain, needs no fairness: a beat is followed by a drain.              *)
(***************************************************************************)
Fairness ==
  /\ WF_vars(Task)
  /\ WF_vars(StopReturn)
  /\ \A p \in Producers : WF_vars(EnqueueEvict(p) \/ EnqueueAppend(p))

FairSpec == Spec /\ Fairness

--------------------------------------------------------------------------------
(* Type invariant: the task and its controls, the queue and its counters.  *)
TypeTask ==
  /\ profile \in [dry : BOOLEAN, presence : BOOLEAN]
  /\ state \in States
  /\ pc \in PCs
  /\ delay \in ReconnectMin .. ReconnectMax
  /\ stop \in BOOLEAN
  /\ stopping \in 0 .. MaxStops

TypeQueue ==
  /\ queue \in Seq(Nat)
  /\ phase \in [Producers -> Phases]
  /\ inflight \in Nat
  /\ generated \in Nat /\ sent \in Nat /\ dropped \in Nat
  /\ appended \in Nat
  /\ horizon \in Nat
  /\ lost \in Nat
  /\ lastSent \in Nat

TypeOK == TypeTask /\ TypeQueue

Within(steps) == {p \in Producers : phase[p] \in steps}

(* The queue never holds more than queue_max items, plus one for every     *)
(* further thread that may sit between the length test and the append of   *)
(* enqueue() (lines 141-146): the overshoot does not build up.             *)
QueueBound ==
  Len(queue) + Cardinality(Within({"append"})) <= QueueMax + Cardinality(Producers) - 1

(* Every CoT that was counted in cot_generated is in exactly one place:    *)
(* still in an enqueue call, queued, being written, sent, dropped, or lost *)
(* with a write that failed after the pop of _drain_queue (line 212).      *)
Accounting ==
  generated = sent + dropped + lost + Len(queue)
                      + (IF inflight = 0 THEN 0 ELSE 1)
                      + Cardinality(Within({"evict", "append"}))

(* The queue is a run of consecutive appends that ends with the newest:    *)
(* what enqueue evicts and what _drain_queue takes is always the oldest.   *)
OldestFirst ==
  /\ Len(queue) <= appended
  /\ \A i \in 1 .. Len(queue) : queue[i] = appended - Len(queue) + i

(* Items reach the server in order and at most once: what is being written *)
(* is newer than what was sent and older than what is queued.              *)
SentInOrder ==
  /\ lastSent <= appended - Len(queue)
  /\ inflight # 0 => /\ pc = "write"
                     /\ lastSent < inflight
                     /\ inflight <= appended - Len(queue)

(* The manager shows "connected" only with an open session (or its dry     *)
(* equivalent), unless stop() gave up waiting: a connect that completes    *)
(* after the five seconds sets the state behind stop()'s back.             *)
ConnectedIsLive ==
  state = "connected" => \/ stop
                         \/ pc \in Session \cup {"dry", "loop"}

(* stop() followed by no start() ends the task, whatever the network does. *)
StopEnds == stop ~> (pc = "idle" \/ ~stop)

(* A manager that is not stopped never gives up: a failure is followed by  *)
(* another attempt (the loop of _run, lines 161-174).                      *)
KeepsTrying == (pc \in {"backoff", "abort"}) ~> (pc = "connecting" \/ stop)

(* While the session lasts, a queued item leaves the queue: the heartbeat  *)
(* cannot starve the drain.                                                *)
Queued(n) == \E i \in 1 .. Len(queue) : queue[i] = n
QueueMoves ==
  \A n \in 1 .. MaxItems :
    (Queued(n) /\ pc = "pump") ~> (~Queued(n) \/ pc \notin Session)

Channel == INSTANCE LossyFifo WITH accepted <- appended, delivered <- lastSent,
                               deliveries <- sent
(* The manager implements the lossy FIFO channel of module LossyFifo.      *)
IsLossyFifo == Channel!Spec
================================================================================
