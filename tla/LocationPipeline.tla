--------------------------- MODULE LocationPipeline ---------------------------
(***************************************************************************)
(* LocationPipeline.process_event (src/radiotak/gateway/pipeline.py) and   *)
(* what its callers do with the result: allowlist, age, rate limit and     *)
(* duplicate suppression, then one CoT per enabled TAK server.             *)
(*                                                                         *)
(* The NDJSON listener calls it on the event loop, so nothing else of the  *)
(* event loop (operator pages, manager changes) runs in between.  The APRS *)
(* feeds (RF and APRS-IS) call it in worker threads, two at a time, and    *)
(* share the dedupe table and the manager registry with the loop.          *)
(*                                                                         *)
(* duplicate_suppression is on, as by default, and every server has a host.*)
(* A report is a number; positions are places, "less than min_move apart"  *)
(* is "the same place".  The clock ticks in seconds.  A manager's queue is *)
(* the sequence of reports it was given, with the server each was styled   *)
(* for; draining is the business of module TakConnection.                  *)
(***************************************************************************)
EXTENDS Integers, Sequences, FiniteSets

CONSTANTS
  Feeds,          \* threads that run the pipeline
  EventLoop,      \* the feed that is the event loop (NDJSON)
  Radios,         \* CoT uids, one per radio and system
  Heard,          \* feed -> radios it can report
  Places,
  Servers,
  NoServer,       \* the style of the fallback CoT
  MinInterval,    \* min_interval_seconds (2)
  HeartbeatS,     \* stationary_heartbeat_seconds (45)
  MaxClock,       \* bound: seconds
  MaxReports      \* bound: reports received

ASSUME FeedsAssumption == EventLoop \in Feeds /\ Heard \in [Feeds -> SUBSET Radios]
ASSUME NoServerAssumption == NoServer \notin Servers
ASSUME IntervalAssumption == MinInterval \in Nat /\ HeartbeatS \in Nat /\ MinInterval <= HeartbeatS
ASSUME BoundsAssumption == MaxClock \in Nat /\ MaxReports \in Nat

VARIABLES
  clock,     \* time.monotonic(), in seconds
  enabled,   \* TakServer rows; nothing clears their column enabled
  unused,    \* servers not added yet
  adding,    \* the server tak_add is about to register, or NoServer
  managers,  \* servers with an entry in tak_registry
  lastSent,  \* dedupe.last_sent: radio -> [at, place], at = -1 for none
  pc,        \* feed -> step of its process_event call
  job,       \* feed -> the report it works on
  outbox,    \* server -> what enqueue() of its manager was called with
  forwards,  \* history: the reports that passed the gate, in that order
  unserved,  \* history: <<report, server>> that found no manager
  alone,     \* history: radios of which no two calls overlapped or failed late
  received   \* number of reports so far

rows == <<enabled, unused, adding>>
shared == <<rows, managers>>
vars == <<clock, shared, lastSent, pc, job, outbox,
          forwards, unserved, alone, received>>

Never == -1
NoJob == [n |-> 0]
Unsent(p) == [at |-> Never, place |-> p]
Steps == {"idle", "observe", "gate", "select", "enqueue", "commit", "remember", "again"}
Report(f) ==
  [n : {received + 1}, radio : Heard[f], place : Places, kind : {"plain", "old", "emergency"},
   at : {Never}, todo : {{}}, style : {NoServer}]

\* after start_all, which an exception may have ended half way
Init ==
  /\ clock = 0
  /\ enabled \in SUBSET Servers /\ unused = Servers \ enabled /\ adding = NoServer
  /\ managers \in SUBSET enabled
  /\ \E p \in Places : lastSent = [r \in Radios |-> Unsent(p)]
  /\ pc = [f \in Feeds |-> "idle"]
  /\ job = [f \in Feeds |-> NoJob]
  /\ outbox = [s \in Servers |-> <<>>]
  /\ forwards = <<>> /\ unserved = {} /\ alone = Radios /\ received = 0

Busy(f) == pc[f] # "idle"
Goto(f, from, to) == pc[f] = from /\ pc' = [pc EXCEPT ![f] = to]

\* a step that leaves the frame of the call alone, or returns
Go(f, from, to) ==
  /\ Goto(f, from, to)
  /\ job' = IF to = "idle" THEN [job EXCEPT ![f] = NoJob] ELSE job

--------------------------------------------------------------------------------
Receive(f) ==
  /\ received < MaxReports
  /\ f = EventLoop => adding = NoServer
  /\ Goto(f, "idle", "observe")
  /\ \E report \in Report(f) :
       /\ job' = [job EXCEPT ![f] = report]
       /\ alone' = IF \E g \in Feeds \ {f} : Busy(g) /\ job[g].radio = report.radio
                     THEN alone \ {report.radio} ELSE alone
  /\ received' = received + 1
  /\ UNCHANGED <<clock, shared, lastSent, outbox, forwards, unserved>>

\* observe_or_create and is_forward_allowed, the business of module AllowList
Observe(f) ==
  /\ \E allowed \in BOOLEAN : Go(f, "observe", IF allowed THEN "gate" ELSE "idle")
  /\ UNCHANGED <<clock, shared, lastSent, outbox, forwards, unserved, alone, received>>

\* Mutant: an emergency alone decides, min_interval is never applied.
NotRateLimited(f) == FALSE
RateLimited(f) == clock - lastSent[job[f].radio].at < MinInterval

\* Mutant: a radio that does not move is held back for min_interval only.
StationaryForInterval(f) ==
  /\ lastSent[job[f].radio].place = job[f].place
  /\ clock - lastSent[job[f].radio].at < MinInterval

\* Mutant: suppressed for good, whatever the heartbeat.
StationaryForever(f) == lastSent[job[f].radio].place = job[f].place
Stationary(f) ==
  /\ lastSent[job[f].radio].place = job[f].place
  /\ clock - lastSent[job[f].radio].at < HeartbeatS

Suppressed(f) ==
  /\ job[f].kind # "emergency"
  /\ lastSent[job[f].radio].at # Never
  /\ RateLimited(f) \/ Stationary(f)

TooOld(f) == job[f].kind = "old"

\* TOO OLD, RATE LIMITED and DUPLICATE / STATIONARY only store the observation
GateDrop(f) ==
  /\ Go(f, "gate", "idle")
  /\ TooOld(f) \/ Suppressed(f)
  /\ UNCHANGED <<clock, shared, lastSent, outbox, forwards, unserved, alone, received>>

GatePass(f) ==
  /\ Goto(f, "gate", "select")
  /\ ~TooOld(f) /\ ~Suppressed(f)
  /\ job' = [job EXCEPT ![f].at = clock]
  /\ forwards' = Append(forwards, [n |-> job[f].n, radio |-> job[f].radio, at |-> clock,
                                   place |-> job[f].place, emergency |-> job[f].kind = "emergency",
                                   feed |-> f])
  /\ UNCHANGED <<clock, shared, lastSent, outbox, unserved, alone, received>>

EnqueueAll(n, style) ==
  outbox' = [s \in Servers |-> IF s \in managers
                                 THEN Append(outbox[s], [n |-> n, style |-> style])
                                 ELSE outbox[s]]

\* the enabled servers; without any, the fallback CoT goes to every manager
Select(f) ==
  /\ IF enabled = {}
       THEN /\ Goto(f, "select", "commit")
            /\ EnqueueAll(job[f].n, NoServer)
            /\ UNCHANGED job
       ELSE /\ Goto(f, "select", "enqueue")
            /\ job' = [job EXCEPT ![f].todo = enabled]
            /\ UNCHANGED outbox
  /\ UNCHANGED <<clock, shared, lastSent, forwards, unserved, alone, received>>

\* enqueue_for(server), or enqueue_all when the server has no manager: "stash on
\* registry-wide for later reconnect" puts it in the queues of the others
EnqueueOne(f) ==
  /\ pc[f] = "enqueue"
  /\ \E s \in job[f].todo :
       /\ job' = [job EXCEPT ![f].todo = @ \ {s},
                             ![f].style = IF @ = NoServer THEN s ELSE @]
       /\ Goto(f, "enqueue", IF job[f].todo = {s} THEN "commit" ELSE "enqueue")
       /\ IF s \in managers
            THEN /\ outbox' = [outbox EXCEPT ![s] = Append(@, [n |-> job[f].n, style |-> s])]
                 /\ UNCHANGED unserved
            ELSE /\ EnqueueAll(job[f].n, s)
                 /\ unserved' = unserved \cup {<<job[f].n, s>>}
  /\ UNCHANGED <<clock, shared, lastSent, forwards, alone, received>>

Commit(f) ==
  /\ Go(f, "commit", "remember")
  /\ UNCHANGED <<clock, shared, lastSent, outbox, forwards, unserved, alone, received>>

\* Mutant: every feed hands the result to the registry once more.
AllLoopBack(f) == "again"
\* the NDJSON listener hands result.cot_xml to the registry once more
AfterProcess(f) == IF f = EventLoop THEN "again" ELSE "idle"

Remember(f) ==
  /\ Go(f, "remember", AfterProcess(f))
  /\ lastSent' = [lastSent EXCEPT ![job[f].radio] = [at |-> job[f].at, place |-> job[f].place]]
  /\ UNCHANGED <<clock, shared, outbox, forwards, unserved, alone, received>>

Again(f) ==
  /\ Go(f, "again", "idle")
  /\ EnqueueAll(job[f].n, job[f].style)
  /\ UNCHANGED <<clock, shared, lastSent, forwards, unserved, alone, received>>

\* a commit raises ("database is locked"): the call ends where it is
CommitFails(f) ==
  /\ \/ Go(f, "observe", "idle") /\ UNCHANGED alone
     \/ Go(f, "commit", "idle") /\ alone' = alone \ {job[f].radio}
  /\ UNCHANGED <<clock, shared, lastSent, outbox, forwards, unserved, received>>

Process(f) ==
  \/ Receive(f) \/ Observe(f) \/ GateDrop(f) \/ GatePass(f) \/ Select(f)
  \/ EnqueueOne(f) \/ Commit(f) \/ Remember(f) \/ Again(f) \/ CommitFails(f)

--------------------------------------------------------------------------------
(* What the operator and the TAK runtime change, on the event loop.        *)

LoopFree == pc[EventLoop] = "idle" /\ adding = NoServer

\* tak_add commits the row, which worker threads see, and then registers
AddServer(s) ==
  /\ LoopFree /\ s \in unused
  /\ enabled' = enabled \cup {s} /\ unused' = unused \ {s} /\ adding' = s
  /\ UNCHANGED <<clock, managers, lastSent, pc, job, outbox, forwards, unserved, alone, received>>

\* an entry of the registry, with an empty queue
Register(s) ==
  /\ managers' = managers \cup {s}
  /\ outbox' = [outbox EXCEPT ![s] = <<>>]

AddServerEnd ==
  /\ adding # NoServer /\ Register(adding) /\ adding' = NoServer
  /\ UNCHANGED <<clock, enabled, unused, lastSent, pc, job, forwards, unserved, alone, received>>

\* restart and tak_test; the row may be deleted while the old manager stops
NewManager(s) ==
  /\ LoopFree /\ s \in enabled \cup managers
  /\ Register(s)
  /\ UNCHANGED <<clock, rows, lastSent, pc, job, forwards, unserved, alone, received>>

\* tak_delete: the entry of the registry stays
DeleteServer(s) ==
  /\ LoopFree /\ s \in enabled
  /\ enabled' = enabled \ {s}
  /\ UNCHANGED <<clock, unused, adding, managers, lastSent, pc, job, outbox, forwards, unserved,
                 alone, received>>

Tick ==
  /\ clock < MaxClock
  /\ clock' = clock + 1
  /\ UNCHANGED <<shared, lastSent, pc, job, outbox, forwards, unserved, alone, received>>

Next ==
  \/ \E f \in Feeds : Process(f)
  \/ \E s \in Servers : AddServer(s) \/ NewManager(s) \/ DeleteServer(s)
  \/ AddServerEnd
  \/ Tick

Spec == Init /\ [][Next]_vars

--------------------------------------------------------------------------------
(* Type invariant. *)
TypeOK ==
  /\ clock \in 0 .. MaxClock
  /\ enabled \subseteq Servers /\ unused \subseteq Servers \ enabled
  /\ adding \in enabled \cup {NoServer} /\ managers \subseteq Servers \ (unused \cup {adding})
  /\ lastSent \in [Radios -> [at : Never .. MaxClock, place : Places]]
  /\ pc \in [Feeds -> Steps]
  /\ \A f \in Feeds : pc[f] # "idle" =>
       /\ job[f].n \in 1 .. received /\ job[f].radio \in Heard[f]
       /\ job[f].place \in Places /\ job[f].at \in Never .. clock
       /\ job[f].todo \subseteq Servers /\ job[f].style \in Servers \cup {NoServer}
  /\ \A s \in Servers : outbox[s] \in Seq([n : 1 .. MaxReports, style : Servers \cup {NoServer}])
  /\ alone \subseteq Radios /\ received \in 0 .. MaxReports

\* i is forwarded before j, for one radio
Earlier(i, j) == i < j /\ forwards[i].radio = forwards[j].radio

\* the interval between forwards i and j of one radio is kept
Spaced(i, j) ==
  Earlier(i, j) /\ ~forwards[j].emergency => forwards[j].at - forwards[i].at >= MinInterval

(* Minimum seconds between forwarded updates for the same radio (the help  *)
(* text of min_interval, src/radiotak/web/help_text.py:287), emergencies   *)
(* apart: the check and the update of last_sent (lines 301 and 384) are    *)
(* far apart, so it is kept for a radio whose calls neither overlap nor    *)
(* fail in between.                                                        *)
MinIntervalKeptAlone ==
  \A i, j \in DOMAIN forwards : forwards[i].radio \in alone => Spaced(i, j)

(* The same for every radio, as the help text has it.                      *)
MinIntervalKept == \A i, j \in DOMAIN forwards : Spaced(i, j)

(* A radio that stands still is forwarded once per heartbeat: between two  *)
(* reports of one place there is the heartbeat, a move or an emergency.    *)
HeartbeatKept ==
  \A i, j \in DOMAIN forwards :
    (/\ Earlier(i, j) /\ forwards[i].radio \in alone
     /\ forwards[i].place = forwards[j].place /\ ~forwards[j].emergency)
      => \/ forwards[j].at - forwards[i].at >= HeartbeatS
         \/ \E k \in (i + 1) .. (j - 1) : Earlier(i, k)

(* A report is suppressed only when a forwarded one stands in for it: sent *)
(* within the interval, or within the heartbeat from the same place.  In   *)
(* particular suppressed reports do not extend the suppression, and a      *)
(* report that failed half way does not suppress its retry.                *)
SuppressionIsCovered ==
  [][\A f \in Feeds :
       (pc[f] = "gate" /\ pc'[f] = "idle" /\ job[f].kind # "old") =>
         \E i \in DOMAIN forwards :
           /\ forwards[i].radio = job[f].radio
           /\ \/ clock - forwards[i].at < MinInterval
              \/ /\ clock - forwards[i].at < HeartbeatS
                 /\ forwards[i].place = job[f].place]_vars

(* An APRS position goes through the pipeline once, without a loopback or  *)
(* a second enqueue (_handle_position, service.py:137): no manager gets it *)
(* twice, and each gets the CoT styled for its own server, unless another  *)
(* enabled server had no manager.                                          *)
FromAprs(n) == \E i \in DOMAIN forwards : forwards[i].n = n /\ forwards[i].feed # EventLoop
Unserved(n) == \E u \in unserved : u[1] = n
AprsEnqueuedOnce ==
  \A s \in Servers : \A i, j \in DOMAIN outbox[s] :
    LET n == outbox[s][i].n IN
    FromAprs(n) /\ ~Unserved(n) =>
      /\ outbox[s][i].style \in {s, NoServer}
      /\ outbox[s][j].n = n => i = j
================================================================================
