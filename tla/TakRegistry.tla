------------------------------ MODULE TakRegistry ------------------------------
(***************************************************************************)
(* The TAK manager registry and what starts and stops managers: replace()  *)
(* (src/radiotak/gateway/tak/__init__.py), restart()                       *)
(* (src/radiotak/services/tak_runtime.py) and the /tak pages that delete a *)
(* server, test it or save its settings (src/radiotak/web/routers).        *)
(*                                                                         *)
(* One server row.  Requests are coroutines of one event loop: they give   *)
(* way only where they await, which is the wait of at most 5 s for a       *)
(* stopped manager's task.  A manager is here its task, in less detail     *)
(* than module TakConnection: only where it waits and what it tells the    *)
(* TAK server about the gateway's presence matter.                         *)
(***************************************************************************)
EXTENDS Integers, FiniteSets

CONSTANTS
  Requests,     \* requests handled at a time
  Presence,     \* send_presence (FALSE for a streaming feed)
  MaxManagers   \* bound: managers made

ASSUME SwitchAssumption == Presence \in BOOLEAN
ASSUME BoundAssumption == MaxManagers \in Nat

VARIABLES
  row,       \* the TakServer row exists
  made,      \* managers made so far: 1 .. made
  entry,     \* tak_registry._managers[server_id], None for no key
  task,      \* manager -> where its task is
  stop,      \* manager -> its stop event
  pc,        \* request -> step
  job,       \* request -> the managers it handles
  presence,  \* what the TAK server last heard about the device uid
  overlap,   \* history: two requests have waited at a time
  late       \* history: a stopped task has outlived the 5 s wait

registry == <<row, made, entry>>
vars == <<registry, task, stop, pc, job, presence, overlap, late>>

None == 0
Managers == 1 .. MaxManagers
New == made + 1
Idle == [old |-> None, new |-> None]
Tasks == {"none", "attempt", "connecting", "announce", "groups", "session", "bye", "closing",
          "backoff", "done"}
Ended == {"none", "done"}
Connected == {"announce", "groups", "session", "bye"}

Live(m) == task[m] \notin Ended

Init ==
  /\ row = TRUE
  /\ made \in {0, 1} /\ made <= MaxManagers  \* start_all: auto_connect or not
  /\ entry = made
  /\ task = [m \in Managers |-> IF m <= made THEN "attempt" ELSE "none"]
  /\ stop = [m \in Managers |-> FALSE]
  /\ pc = [r \in Requests |-> "idle"]
  /\ job = [r \in Requests |-> Idle]
  /\ presence = "unknown" /\ overlap = FALSE /\ late = FALSE

--------------------------------------------------------------------------------
(* A manager's task.                                                       *)

Move(m, from, to) == task[m] = from /\ task' = [task EXCEPT ![m] = to]
Quiet == UNCHANGED <<registry, stop, pc, job, overlap, late>>

Attempt(m) ==
  /\ Move(m, "attempt", IF stop[m] THEN "done" ELSE "connecting")
  /\ Quiet /\ UNCHANGED presence

ConnectOk(m) ==
  /\ Move(m, "connecting", IF Presence THEN "announce" ELSE "groups")
  /\ Quiet /\ UNCHANGED presence

ConnectFail(m) == Move(m, "connecting", "backoff") /\ Quiet /\ UNCHANGED presence

Announce(m) == Move(m, "announce", "groups") /\ presence' = "online" /\ Quiet

\* the Marti PUT, then the presence again
Groups(m) ==
  /\ Move(m, "groups", "session")
  /\ presence' = IF Presence THEN "online" ELSE presence
  /\ Quiet

Heartbeat(m) ==
  /\ Presence /\ task[m] = "session" /\ ~stop[m]
  /\ presence' = "online"
  /\ Quiet /\ UNCHANGED task

Leave(m) ==
  /\ Move(m, "session", IF Presence THEN "bye" ELSE "closing")
  /\ stop[m]
  /\ Quiet /\ UNCHANGED presence

\* a write raises; finally: tries to say goodbye
Broken(m) ==
  /\ \E from \in {"announce", "session"} : Move(m, from, IF Presence THEN "bye" ELSE "closing")
  /\ Quiet /\ UNCHANGED presence

\* the goodbye gets through, or the connection is gone
Bye(m) ==
  /\ Move(m, "bye", "closing")
  /\ presence' \in {presence, "offline"}
  /\ Quiet

\* wait_closed, then the loop of _run
Close(m) == Move(m, "closing", "attempt") /\ Quiet /\ UNCHANGED presence

BackoffEnd(m) == Move(m, "backoff", "attempt") /\ Quiet /\ UNCHANGED presence

Run(m) ==
  \/ Attempt(m) \/ ConnectOk(m) \/ ConnectFail(m) \/ Announce(m) \/ Groups(m) \/ Heartbeat(m)
  \/ Leave(m) \/ Broken(m) \/ Bye(m) \/ Close(m) \/ BackoffEnd(m)

--------------------------------------------------------------------------------
(* The requests.                                                           *)

Waiting(r) == pc[r] # "idle"
Wait(r, step, old, new) ==
  /\ pc' = [pc EXCEPT ![r] = step]
  /\ job' = [job EXCEPT ![r] = [old |-> old, new |-> new]]
  /\ stop' = [stop EXCEPT ![old] = TRUE]
  /\ overlap' = (overlap \/ \E q \in Requests \ {r} : Waiting(q))

\* the task is over, or 5 s are
WaitOver(r) == late' = (late \/ Live(job[r].old))

Return(r) == pc' = [pc EXCEPT ![r] = "idle"] /\ job' = [job EXCEPT ![r] = Idle]

\* registers m and starts its task
Install(m) ==
  /\ entry' = m
  /\ task' = [task EXCEPT ![m] = "attempt"]

\* Mutant: the new manager is registered and started while the old one stops.
RestartAtOnce(r) ==
  /\ pc[r] = "idle" /\ row /\ New \in Managers
  /\ made' = New
  /\ Install(New)
  /\ stop' = [m \in Managers |-> m = entry \/ stop[m]]
  /\ UNCHANGED <<row, pc, job, presence, overlap, late>>

\* Mutant: an existing manager is replaced without being told to stop.
RestartWithoutStop(r) ==
  /\ pc[r] = "idle" /\ row /\ New \in Managers
  /\ made' = New
  /\ Install(New)
  /\ UNCHANGED <<row, stop, pc, job, presence, overlap, late>>

\* tak_runtime.restart up to the wait in replace(); also tak_add's
Restart(r) ==
  /\ pc[r] = "idle" /\ row /\ New \in Managers
  /\ made' = New
  /\ IF entry = None
       THEN Install(New) /\ UNCHANGED <<stop, pc, job, overlap>>
       ELSE Wait(r, "replace", entry, New) /\ UNCHANGED <<entry, task>>
  /\ UNCHANGED <<row, presence, late>>

\* with the row deleted meanwhile the commit raises, but the task runs
RestartEnd(r) ==
  /\ pc[r] = "replace" /\ WaitOver(r)
  /\ Install(job[r].new) /\ Return(r)
  /\ UNCHANGED <<row, made, stop, presence, overlap>>

\* Mutant: the row goes, its manager stays.
DeleteRow(r) ==
  /\ pc[r] = "idle" /\ row
  /\ row' = FALSE
  /\ UNCHANGED <<made, entry, task, stop, pc, job, presence, overlap, late>>

\* tak_delete: the row, then the manager; the registry keeps its entry
Delete(r) ==
  /\ pc[r] = "idle" /\ row
  /\ row' = FALSE
  /\ IF entry = None THEN UNCHANGED <<stop, pc, job, overlap>>
                     ELSE Wait(r, "delete", entry, None)
  /\ UNCHANGED <<made, entry, task, presence, late>>

DeleteEnd(r) ==
  /\ pc[r] = "delete" /\ WaitOver(r) /\ Return(r)
  /\ UNCHANGED <<registry, task, stop, presence, overlap>>

\* tak_test starts a manager for a server that has none
Test(r) ==
  /\ pc[r] = "idle" /\ row /\ entry = None /\ New \in Managers
  /\ made' = New
  /\ Install(New)
  /\ UNCHANGED <<row, stop, pc, job, presence, overlap, late>>

Request(r) == Restart(r) \/ RestartEnd(r) \/ Delete(r) \/ DeleteEnd(r) \/ Test(r)

Next == (\E m \in Managers : Run(m)) \/ (\E r \in Requests : Request(r))
Spec == Init /\ [][Next]_vars

--------------------------------------------------------------------------------
(* Type invariant. *)
TypeOK ==
  /\ row \in BOOLEAN /\ made \in 0 .. MaxManagers /\ entry \in 0 .. made
  /\ task \in [Managers -> Tasks] /\ stop \in [Managers -> BOOLEAN]
  /\ \A m \in Managers : m > made => task[m] = "none"
  /\ pc \in [Requests -> {"idle", "replace", "delete"}]
  /\ job \in [Requests -> [old : 0 .. made, new : 0 .. made]]
  /\ \A r \in Requests : pc[r] = "replace" => job[r].new # None /\ task[job[r].new] = "none"
  /\ presence \in {"unknown", "online", "offline"} /\ overlap \in BOOLEAN /\ late \in BOOLEAN

(* A manager that runs and was not told to stop is the registered one, so  *)
(* that a page can still reach it: unless two requests waited at a time    *)
(* for the same manager, in which case the second replace() forgets what   *)
(* the first has started.                                                  *)
NoOrphan ==
  \A m \in Managers : Live(m) /\ ~stop[m] /\ ~overlap => entry = m

(* A deleted server has no manager that goes on, unless its deletion       *)
(* overlapped a restart.                                                   *)
DeletedStops ==
  ~row /\ ~overlap => \A m \in Managers : Live(m) => stop[m]

(* When stopped tasks end in time, one session at a time uses the device   *)
(* uid: replace() waits for the old manager before it starts the new one.  *)
OneSession ==
  \A m, n \in Managers : task[m] \in Connected /\ task[n] \in Connected => m = n \/ overlap \/ late

(* and the TAK server sees the gateway online while the registered manager *)
(* is in its session: no goodbye of an older manager comes after it.       *)
SessionIsOnline ==
  entry # None /\ task[entry] = "session" /\ Presence => presence = "online" \/ overlap \/ late
================================================================================
