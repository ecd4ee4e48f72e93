--------------------------- MODULE TakRegistryProofs ---------------------------
(***************************************************************************)
(* Proofs about module TakRegistry, for any set of requests and any number *)
(* of managers.  None of NoOrphan, DeletedStops and SessionIsOnline is     *)
(* inductive: each speaks of managers, and what makes it true is what the  *)
(* requests that wait have done and will do.  RInv adds that.              *)
(***************************************************************************)
EXTENDS TakRegistry, TLAPS

(* While no two requests have waited at a time, the one that waits holds   *)
(* the registered manager, which it has told to stop, and ...              *)
Alone == \A q, r \in Requests : Waiting(q) /\ Waiting(r) => q = r
Held == \A r \in Requests : Waiting(r) => entry # None /\ job[r].old = entry /\ stop[entry]

(* ... a server that is gone has no restart under way, and ...             *)
NotRevived == ~row => \A r \in Requests : pc[r] # "replace"
AllStopped == ~row => \A m \in Managers : Live(m) => stop[m]

(* ... when stopped tasks end in time, only the registered manager lives.  *)
OneLives == ~late => \A m \in Managers : Live(m) => entry = m
Online == ~late /\ entry # None /\ task[entry] = "session" /\ Presence => presence = "online"

Orderly ==
  /\ Alone /\ Held /\ NotRevived /\ AllStopped /\ OneLives /\ Online
  /\ \A m \in Managers : Live(m) /\ ~stop[m] => entry = m

(* Whatever has happened, two restarts that wait have made two managers.   *)
Distinct ==
  \A q, r \in Requests :
    pc[q] = "replace" /\ pc[r] = "replace" /\ job[q].new = job[r].new => q = r

RInv == TypeOK /\ Distinct /\ (~overlap => Orderly)

--------------------------------------------------------------------------------
(* The first state.                                                        *)
LEMMA InitInv == Init => RInv
<1> SUFFICES ASSUME Init PROVE RInv
  OBVIOUS
<1> USE SwitchAssumption, BoundAssumption
<1>1. TypeOK
  <2>1. made \in 0 .. MaxManagers /\ entry \in 0 .. made /\ made \in Nat
    BY DEF Init
  <2>2. task \in [Managers -> Tasks] /\ stop \in [Managers -> BOOLEAN]
        /\ \A m \in Managers : m > made => task[m] = "none"
    BY <2>1 DEF Init, Managers, Tasks
  <2>3. Idle \in [old : 0 .. made, new : 0 .. made]
    BY <2>1 DEF Idle, None
  <2>4. job \in [Requests -> [old : 0 .. made, new : 0 .. made]]
        /\ pc \in [Requests -> {"idle", "replace", "delete"}]
        /\ \A r \in Requests : pc[r] # "replace"
    BY <2>3 DEF Init
  <2> QED
    BY <2>1, <2>2, <2>4 DEF Init, TypeOK
<1>2. \A m \in Managers : Live(m) => entry = m
  BY DEF Init, Managers, Live, Ended
<1>3. Alone /\ Held /\ NotRevived /\ AllStopped
  BY DEF Init, Alone, Held, NotRevived, AllStopped, Waiting
<1>4. Online
  BY DEF Init, Online, Managers, None
<1>5. Distinct
  BY DEF Init, Distinct
<1> QED
  BY <1>1, <1>2, <1>3, <1>4, <1>5 DEF RInv, Orderly, OneLives

(* What a manager's task does keeps the invariant: it revives no manager,  *)
(* and only the registered one can be in its session or say goodbye.       *)
LEMMA RunKeeps ==
  ASSUME RInv, NEW m \in Managers, Run(m)
  PROVE  RInv'
<1> USE SwitchAssumption, BoundAssumption
<1>1. Quiet /\ (Live(m) /\ task' = [task EXCEPT ![m] = task'[m]]
      /\ task'[m] \in Tasks \ {"none"} /\ presence' \in {"unknown", "online", "offline"})
  <2>1. Quiet
    BY DEF Run, Attempt, ConnectOk, ConnectFail, Announce, Groups, Heartbeat, Leave, Broken, Bye,
           Close, BackoffEnd
  <2>2. task \in [Managers -> Tasks] /\ presence \in {"unknown", "online", "offline"}
    BY DEF RInv, TypeOK
  <2>3. Live(m)
    BY DEF Run, Attempt, ConnectOk, ConnectFail, Announce, Groups, Heartbeat, Leave, Broken, Bye,
           Close, BackoffEnd, Move, Live, Ended
  <2>4. task' = [task EXCEPT ![m] = task'[m]] /\ task'[m] \in Tasks \ {"none"}
    BY <2>2 DEF Run, Attempt, ConnectOk, ConnectFail, Announce, Groups, Heartbeat, Leave, Broken,
           Bye, Close, BackoffEnd, Move, Tasks
  <2>5. presence' \in {"unknown", "online", "offline"}
    BY <2>2 DEF Run, Attempt, ConnectOk, ConnectFail, Announce, Groups, Heartbeat, Leave, Broken,
           Bye, Close, BackoffEnd
  <2> QED
    BY <2>1, <2>3, <2>4, <2>5
<1>2. m <= made
  BY <1>1 DEF RInv, TypeOK, Live, Ended, Managers
<1>3. TypeOK'
  <2>1. task' \in [Managers -> Tasks]
    BY <1>1 DEF RInv, TypeOK
  <2>2. \A n \in Managers : n > made' => task'[n] = "none"
    BY <1>1, <1>2 DEF RInv, TypeOK, Quiet, registry, Managers
  <2>3. \A r \in Requests : pc'[r] = "replace" => job'[r].new # None /\ task'[job'[r].new] = "none"
    <3> TAKE r \in Requests
    <3> HAVE pc'[r] = "replace"
    <3>1. job'[r].new = job[r].new /\ job[r].new # None /\ task[job[r].new] = "none"
      BY <1>1 DEF RInv, TypeOK, Quiet
    <3>2. job[r].new # m
      BY <1>1, <3>1 DEF Live, Ended
    <3>3. job[r].new \in Managers
      BY <3>1, <1>1 DEF RInv, TypeOK, Managers, None
    <3> QED
      BY <1>1, <3>1, <3>2, <3>3 DEF RInv, TypeOK
  <2> QED
    BY <1>1, <2>1, <2>2, <2>3 DEF RInv, TypeOK, Quiet, registry
<1>4. ASSUME ~overlap' PROVE Orderly'
  <2>1. Orderly
    BY <1>1, <1>4 DEF RInv, Quiet
  <2>2. \A n \in Managers : Live(n)' => Live(n)
    BY <1>1 DEF RInv, TypeOK, Live
  <2>3. Alone' /\ Held' /\ NotRevived'
    BY <1>1, <2>1 DEF Orderly, Alone, Held, NotRevived, Waiting, Quiet, registry
  <2>4. AllStopped' /\ OneLives' /\ (\A n \in Managers : Live(n) /\ ~stop[n] => entry = n)'
    BY <1>1, <2>1, <2>2 DEF Orderly, AllStopped, OneLives, Quiet, registry
  <2>5. Online'
    <3> SUFFICES ASSUME ~late, entry # None, task'[entry] = "session", Presence
                 PROVE  presence' = "online"
      BY <1>1 DEF Online, Quiet, registry
    <3>1. entry = m
      BY <1>1, <2>1 DEF Orderly, OneLives
    <3>2. task[m] = "session" => presence = "online"
      BY <2>1, <3>1 DEF Orderly, Online
    <3> QED
      BY <3>1, <3>2 DEF Run, Attempt, ConnectOk, ConnectFail, Announce, Groups, Heartbeat, Leave,
           Broken, Bye, Close, BackoffEnd, Move, RInv, TypeOK
  <2> QED
    BY <2>3, <2>4, <2>5 DEF Orderly
<1>5. Distinct'
  BY <1>1 DEF RInv, Distinct, Quiet
<1> QED
  BY <1>3, <1>4, <1>5 DEF RInv

--------------------------------------------------------------------------------
(* The steps of the requests, by what they do to the registry.             *)

(* A request that finds a manager tells it to stop and waits.              *)
LEMMA WaitKeeps ==
  ASSUME RInv, NEW r \in Requests, pc[r] = "idle", entry # None,
         NEW step \in {"replace", "delete"}, NEW new \in 0 .. made',
         Wait(r, step, entry, new), UNCHANGED <<entry, task, presence, late>>,
         \/ row' = row /\ row /\ made' = New /\ New \in Managers /\ new = New /\ step = "replace"
         \/ row' = FALSE /\ row /\ made' = made /\ new = None /\ step = "delete"
  PROVE  RInv'
<1> USE SwitchAssumption, BoundAssumption
<1>1. entry \in Managers /\ made \in Nat /\ made' \in Nat /\ made <= made' /\ made' <= MaxManagers
  BY DEF RInv, TypeOK, Managers, None, New
<1>2. pc' = [pc EXCEPT ![r] = step] /\ job' = [job EXCEPT ![r] = [old |-> entry, new |-> new]]
      /\ stop' = [stop EXCEPT ![entry] = TRUE]
  BY DEF Wait
<1>3. TypeOK'
  <2>1. \A q \in Requests : pc'[q] = "replace" => job'[q].new # None /\ task'[job'[q].new] = "none"
    <3> TAKE q \in Requests
    <3> HAVE pc'[q] = "replace"
    <3>1. CASE q = r
      <4>1. step = "replace"
        BY <3>1, <1>2 DEF RInv, TypeOK
      <4>2. new = made + 1 /\ new \in Managers
        BY <4>1 DEF New
      <4>3. job'[r].new = new
        BY <1>2 DEF RInv, TypeOK
      <4> QED
        BY <3>1, <4>2, <4>3, <1>1 DEF RInv, TypeOK, None, Managers
    <3>2. CASE q # r
      BY <3>2, <1>2 DEF RInv, TypeOK
    <3> QED
      BY <3>1, <3>2
  <2>2. job' \in [Requests -> [old : 0 .. made', new : 0 .. made']]
    <3>1. job \in [Requests -> [old : 0 .. made', new : 0 .. made']]
      <4>1. 0 .. made \subseteq 0 .. made'
        BY <1>1
      <4> QED
        BY <4>1 DEF RInv, TypeOK
    <3>2. entry \in 0 .. made'
      BY <1>1 DEF RInv, TypeOK
    <3> QED
      BY <1>2, <3>1, <3>2
  <2>3. pc' \in [Requests -> {"idle", "replace", "delete"}] /\ stop' \in [Managers -> BOOLEAN]
    BY <1>2 DEF RInv, TypeOK
  <2>4. row' \in BOOLEAN /\ made' \in 0 .. MaxManagers /\ entry' \in 0 .. made'
        /\ \A n \in Managers : n > made' => task'[n] = "none"
    <3>1. \A n \in Managers : n > made => task[n] = "none"
      BY DEF RInv, TypeOK
    <3>2. entry' = entry /\ task' = task /\ entry \in 0 .. made
      BY DEF RInv, TypeOK
    <3>3. \A n \in Managers : n > made' => task'[n] = "none"
      BY <1>1, <3>1, <3>2 DEF Managers
    <3>4. made' \in 0 .. MaxManagers /\ entry' \in 0 .. made'
      BY <1>1, <3>2
    <3>5. row' \in BOOLEAN
      BY Zenon DEF RInv, TypeOK
    <3> QED
      BY <3>3, <3>4, <3>5
  <2>5. overlap' \in BOOLEAN
    BY DEF Wait, RInv, TypeOK
  <2> QED
    BY <2>1, <2>2, <2>3, <2>4, <2>5 DEF RInv, TypeOK
<1>4. ASSUME ~overlap' PROVE Orderly'
  <2>1. ~overlap /\ \A q \in Requests \ {r} : ~Waiting(q)
    BY <1>4 DEF Wait
  <2>2. Orderly
    BY <2>1 DEF RInv
  <2>3. \A q \in Requests : Waiting(q)' => q = r
    BY <2>1, <1>2 DEF Waiting, RInv, TypeOK
  <2>4. job'[r].old = entry /\ stop'[entry]
    BY <1>1, <1>2 DEF RInv, TypeOK
  <2>5. Alone' /\ Held'
    BY <2>3, <2>4 DEF Alone, Held
  <2>6. NotRevived'
    BY <2>3, <1>2 DEF NotRevived, Waiting, RInv, TypeOK
  <2>7. \A n \in Managers : stop[n] => stop'[n]
    BY <1>2, <1>1 DEF RInv, TypeOK
  <2>8. \A n \in Managers : Live(n)' => stop'[n]
    BY <2>2, <2>4, <2>7 DEF Orderly, Live
  <2>9. OneLives' /\ Online'
    BY <2>2 DEF Orderly, OneLives, Online, Live
  <2> QED
    BY <2>5, <2>6, <2>8, <2>9 DEF Orderly, AllStopped
<1>5. Distinct'
  <2> SUFFICES ASSUME NEW p \in Requests, NEW q \in Requests, pc'[p] = "replace",
                      pc'[q] = "replace", job'[p].new = job'[q].new
               PROVE  p = q
    BY DEF Distinct
  <2>1. \A k \in Requests \ {r} : pc'[k] = pc[k] /\ job'[k] = job[k]
    BY <1>2 DEF RInv, TypeOK
  <2>2. \A k \in Requests \ {r} : job'[k].new <= made
    <3> TAKE k \in Requests \ {r}
    <3>1. job[k].new \in 0 .. made
      BY DEF RInv, TypeOK
    <3> QED
      BY <2>1, <3>1, <1>1
  <2>3. pc'[r] = "replace" => job'[r].new = made + 1
    <3>1. pc'[r] = step /\ job'[r].new = new
      BY <1>2 DEF RInv, TypeOK
    <3> QED
      BY <3>1 DEF New
  <2>4. \A k \in Requests \ {r} : pc'[r] = "replace" => job'[k].new # job'[r].new
    BY <2>2, <2>3, <1>1 DEF RInv, TypeOK
  <2> QED
    BY <2>1, <2>4 DEF RInv, Distinct
<1> QED
  BY <1>3, <1>4, <1>5 DEF RInv

(* A request that finds no manager registers one at once.                  *)
LEMMA InstallKeeps ==
  ASSUME RInv, entry = None, row, New \in Managers, made' = New, Install(New),
         UNCHANGED <<row, stop, pc, job, presence, overlap, late>>
  PROVE  RInv'
<1> USE SwitchAssumption, BoundAssumption
<1>1. made \in Nat /\ made' = made + 1 /\ made' <= MaxManagers /\ New = made + 1
  BY DEF RInv, TypeOK, New, Managers
<1>2. task' = [task EXCEPT ![New] = "attempt"] /\ entry' = New
  BY DEF Install
<1>3. TypeOK'
  <2>1. \A q \in Requests : pc'[q] = "replace" => job'[q].new # None /\ task'[job'[q].new] = "none"
    <3> TAKE q \in Requests
    <3> HAVE pc'[q] = "replace"
    <3>1. job[q].new # None /\ task[job[q].new] = "none" /\ job[q].new \in 0 .. made
      BY DEF RInv, TypeOK
    <3>2. job[q].new # New
      BY <3>1, <1>1
    <3> QED
      BY <3>1, <3>2, <1>1, <1>2 DEF RInv, TypeOK, Managers, None
  <2>2. job' \in [Requests -> [old : 0 .. made', new : 0 .. made']]
    <3>1. 0 .. made \subseteq 0 .. made'
      BY <1>1
    <3> QED
      BY <3>1 DEF RInv, TypeOK
  <2>3. task' \in [Managers -> Tasks]
    BY <1>2 DEF RInv, TypeOK, Tasks
  <2>4. \A n \in Managers : n > made' => task'[n] = "none"
    BY <1>1, <1>2 DEF RInv, TypeOK, Managers
  <2>5. made' \in 0 .. MaxManagers /\ entry' \in 0 .. made'
    BY <1>1, <1>2
  <2> QED
    BY <2>1, <2>2, <2>3, <2>4, <2>5 DEF RInv, TypeOK
<1>4. ASSUME ~overlap' PROVE Orderly'
  <2>1. Orderly
    BY <1>4 DEF RInv
  <2>2. \A r \in Requests : ~Waiting(r)
    BY <2>1 DEF Orderly, Held
  <2>3. Alone' /\ Held' /\ NotRevived' /\ AllStopped'
    BY <2>2 DEF Alone, Held, NotRevived, AllStopped, Waiting
  <2>4. \A n \in Managers : Live(n)' => Live(n) \/ n = New
    BY <1>2 DEF Live, RInv, TypeOK
  <2>5. \A n \in Managers : Live(n) => stop[n] /\ late
    BY <2>1 DEF Orderly, OneLives, None, Managers
  <2>6. task'[New] = "attempt"
    BY <1>2 DEF RInv, TypeOK
  <2> QED
    BY <1>2, <2>3, <2>4, <2>5, <2>6 DEF Orderly, OneLives, Online
<1>5. Distinct'
  BY DEF RInv, Distinct
<1> QED
  BY <1>3, <1>4, <1>5 DEF RInv

(* A wait is over: a restart registers the manager it made.                *)
LEMMA RestartEndKeeps ==
  ASSUME RInv, NEW r \in Requests, RestartEnd(r)
  PROVE  RInv'
<1> USE SwitchAssumption, BoundAssumption
<1> DEFINE n == job[r].new
           o == job[r].old
<1>1. n \in Managers /\ n <= made /\ made \in Nat /\ task[n] = "none"
  <2>1. n # None /\ n \in 0 .. made /\ made \in 0 .. MaxManagers /\ task[n] = "none"
    BY DEF RInv, TypeOK, RestartEnd
  <2> QED
    BY <2>1 DEF Managers, None
<1>2. entry' = n /\ task' = [task EXCEPT ![n] = "attempt"] /\ pc' = [pc EXCEPT ![r] = "idle"]
      /\ job' = [job EXCEPT ![r] = Idle] /\ late' = (late \/ Live(o))
      /\ pc[r] = "replace" /\ UNCHANGED <<row, made, stop, presence, overlap>>
  BY DEF RestartEnd, Install, Return, WaitOver
<1>3. \A q \in Requests \ {r} : pc'[q] = pc[q] /\ job'[q] = job[q]
  BY <1>2 DEF RInv, TypeOK
<1>4. pc'[r] = "idle" /\ job'[r] = Idle
  BY <1>2 DEF RInv, TypeOK
<1>5. TypeOK'
  <2>1. \A q \in Requests : pc'[q] = "replace" => job'[q].new # None /\ task'[job'[q].new] = "none"
    <3> TAKE q \in Requests
    <3> HAVE pc'[q] = "replace"
    <3>1. q # r /\ pc[q] = "replace" /\ job'[q] = job[q]
      BY <1>3, <1>4
    <3>2. job[q].new # n
      BY <1>2, <3>1 DEF RInv, Distinct
    <3>3. job[q].new # None /\ job[q].new \in 0 .. made /\ task[job[q].new] = "none"
      BY <3>1 DEF RInv, TypeOK
    <3> QED
      BY <1>2, <3>1, <3>2, <3>3 DEF RInv, TypeOK
  <2>2. Idle \in [old : 0 .. made, new : 0 .. made]
    BY <1>1 DEF Idle, None
  <2>3. job' \in [Requests -> [old : 0 .. made, new : 0 .. made]]
        /\ pc' \in [Requests -> {"idle", "replace", "delete"}]
    BY <1>2, <2>2 DEF RInv, TypeOK
  <2>4. task' \in [Managers -> Tasks] /\ \A k \in Managers : k > made => task'[k] = "none"
    BY <1>1, <1>2 DEF RInv, TypeOK, Tasks
  <2>5. entry' \in 0 .. made /\ late' \in BOOLEAN
    BY <1>1, <1>2 DEF Managers, Live, RInv, TypeOK
  <2> QED
    BY <1>2, <2>1, <2>3, <2>4, <2>5 DEF RInv, TypeOK
<1>6. Distinct'
  BY <1>3, <1>4 DEF RInv, Distinct
<1>7. ASSUME ~overlap' PROVE Orderly'
  <2>1. Orderly
    BY <1>2, <1>7 DEF RInv
  <2>2. entry = o /\ stop[o] /\ row
    BY <1>2, <2>1 DEF Orderly, Held, NotRevived, Waiting
  <2>3. \A q \in Requests : pc'[q] = "idle"
    <3>1. \A q \in Requests \ {r} : pc[q] = "idle"
      BY <1>2, <2>1 DEF Orderly, Alone, Waiting
    <3> QED
      BY <1>3, <1>4, <3>1
  <2>4. Alone' /\ Held' /\ NotRevived' /\ AllStopped'
    BY <1>2, <2>2, <2>3 DEF Alone, Held, NotRevived, AllStopped, Waiting
  <2>5. \A k \in Managers : Live(k)' => Live(k) \/ k = n
    BY <1>1, <1>2 DEF Live, RInv, TypeOK
  <2>6. \A k \in Managers : Live(k) /\ ~stop[k] => k = o
    BY <2>1, <2>2 DEF Orderly
  <2>7. \A k \in Managers : Live(k) /\ ~late' => FALSE
    BY <1>2, <2>1, <2>2 DEF Orderly, OneLives
  <2>8. task'[n] = "attempt"
    BY <1>1, <1>2 DEF RInv, TypeOK
  <2> QED
    BY <1>2, <2>2, <2>4, <2>5, <2>6, <2>7, <2>8 DEF Orderly, OneLives, Online
<1> QED
  BY <1>5, <1>6, <1>7 DEF RInv

(* ... or a deletion has stopped the manager.                              *)
LEMMA DeleteEndKeeps ==
  ASSUME RInv, NEW r \in Requests, DeleteEnd(r)
  PROVE  RInv'
<1> USE SwitchAssumption, BoundAssumption
<1>1. pc' = [pc EXCEPT ![r] = "idle"] /\ job' = [job EXCEPT ![r] = Idle]
      /\ late' = (late \/ Live(job[r].old)) /\ UNCHANGED <<registry, task, stop, presence, overlap>>
  BY DEF DeleteEnd, Return, WaitOver
<1>2. \A q \in Requests \ {r} : pc'[q] = pc[q] /\ job'[q] = job[q]
  BY <1>1 DEF RInv, TypeOK
<1>3. pc'[r] = "idle" /\ job'[r] = Idle
  BY <1>1 DEF RInv, TypeOK
<1>4. TypeOK'
  <2>1. made \in Nat
    BY DEF RInv, TypeOK
  <2>2. Idle \in [old : 0 .. made, new : 0 .. made]
    BY <2>1 DEF Idle, None
  <2>3. job' \in [Requests -> [old : 0 .. made, new : 0 .. made]]
        /\ pc' \in [Requests -> {"idle", "replace", "delete"}]
    BY <1>1, <2>2 DEF RInv, TypeOK
  <2>4. \A q \in Requests : pc'[q] = "replace" => job'[q].new # None /\ task'[job'[q].new] = "none"
    BY <1>1, <1>2, <1>3 DEF RInv, TypeOK
  <2>5. late' \in BOOLEAN
    BY <1>1 DEF Live, RInv, TypeOK
  <2> QED
    BY <1>1, <2>3, <2>4, <2>5 DEF RInv, TypeOK, registry
<1>5. Distinct'
  BY <1>2, <1>3 DEF RInv, Distinct
<1>6. ASSUME ~overlap' PROVE Orderly'
  <2>1. Orderly
    BY <1>1, <1>6 DEF RInv
  <2>2. Alone' /\ Held' /\ NotRevived'
    BY <1>1, <1>2, <1>3, <2>1 DEF Orderly, Alone, Held, NotRevived, Waiting, registry
  <2> QED
    BY <1>1, <2>1, <2>2 DEF Orderly, AllStopped, OneLives, Online, Live, registry
<1> QED
  BY <1>4, <1>5, <1>6 DEF RInv

(* A deletion that finds no manager only takes the row away.               *)
LEMMA DeleteAloneKeeps ==
  ASSUME RInv, entry = None, row' = FALSE,
         UNCHANGED <<made, entry, task, stop, pc, job, presence, overlap, late>>
  PROVE  RInv'
<1>1. TypeOK' /\ Distinct'
  BY DEF RInv, TypeOK, Distinct
<1>2. ASSUME ~overlap' PROVE Orderly'
  <2>1. Orderly
    BY <1>2 DEF RInv
  <2>2. \A r \in Requests : ~Waiting(r)
    BY <2>1 DEF Orderly, Held
  <2>3. Alone' /\ Held' /\ NotRevived'
    BY <2>2 DEF Alone, Held, NotRevived, Waiting
  <2>4. \A m \in Managers : Live(m) => stop[m]
    BY <2>1 DEF Orderly, None, Managers
  <2> QED
    BY <2>1, <2>3, <2>4 DEF Orderly, AllStopped, OneLives, Online, Live
<1> QED
  BY <1>1, <1>2 DEF RInv

--------------------------------------------------------------------------------
(* Every step keeps the invariant.                                         *)
LEMMA StepKeeps == RInv /\ [Next]_vars => RInv'
<1> SUFFICES ASSUME RInv, [Next]_vars PROVE RInv'
  OBVIOUS
<1>1. ASSUME NEW m \in Managers, Run(m) PROVE RInv'
  BY <1>1, RunKeeps
<1>2. ASSUME NEW r \in Requests, Restart(r) PROVE RInv'
  <2>1. CASE entry = None
    BY <1>2, <2>1, InstallKeeps DEF Restart
  <2>2. CASE entry # None
    <3>1. New \in 0 .. made'
      BY <1>2, BoundAssumption DEF Restart, New, Managers, RInv, TypeOK
    <3>2. /\ Wait(r, "replace", entry, New) /\ UNCHANGED <<entry, task, presence, late>>
          /\ pc[r] = "idle" /\ row /\ row' = row /\ made' = New /\ New \in Managers
      BY <1>2, <2>2 DEF Restart
    <3> QED
      BY <2>2, <3>1, <3>2, WaitKeeps
  <2> QED
    BY <2>1, <2>2
<1>3. ASSUME NEW r \in Requests, RestartEnd(r) PROVE RInv'
  BY <1>3, RestartEndKeeps
<1>4. ASSUME NEW r \in Requests, Delete(r) PROVE RInv'
  <2>1. CASE entry = None
    BY <1>4, <2>1, DeleteAloneKeeps DEF Delete
  <2>2. CASE entry # None
    <3>1. None \in 0 .. made'
      BY <1>4, BoundAssumption DEF Delete, None, RInv, TypeOK
    <3>2. /\ Wait(r, "delete", entry, None) /\ UNCHANGED <<entry, task, presence, late>>
          /\ pc[r] = "idle" /\ row /\ row' = FALSE /\ made' = made
      BY <1>4, <2>2 DEF Delete
    <3> QED
      BY <2>2, <3>1, <3>2, WaitKeeps
  <2> QED
    BY <2>1, <2>2
<1>5. ASSUME NEW r \in Requests, DeleteEnd(r) PROVE RInv'
  BY <1>5, DeleteEndKeeps
<1>6. ASSUME NEW r \in Requests, Test(r) PROVE RInv'
  BY <1>6, InstallKeeps DEF Test
<1>7. CASE UNCHANGED vars
  BY <1>7 DEF vars, registry, RInv, TypeOK, Distinct, Orderly, Alone, Held, NotRevived, AllStopped,
     OneLives, Online, Live, Waiting
<1> QED
  BY <1>1, <1>2, <1>3, <1>4, <1>5, <1>6, <1>7 DEF Next, Request

LEMMA Inductive == Spec => []RInv
<1> QED
  BY InitInv, StepKeeps, PTL DEF Spec

(* A manager that runs and was not told to stop is the registered one      *)
(* (replace() in gateway/tak/__init__.py), as long as no two requests have *)
(* waited for the same manager.                                            *)
THEOREM NoneOrphaned == Spec => []NoOrphan
<1>1. RInv => NoOrphan
  BY DEF RInv, Orderly, NoOrphan
<1> QED
  BY <1>1, Inductive, PTL

(* Deleting a TAK server (tak_delete) ends whatever ran for it.            *)
THEOREM DeletedStop == Spec => []DeletedStops
<1>1. RInv => DeletedStops
  BY DEF RInv, Orderly, AllStopped, DeletedStops
<1> QED
  BY <1>1, Inductive, PTL

(* The goodbye of an older manager never comes after the presence of the   *)
(* one that replaced it, when stopped tasks end within the 5 s of stop().  *)
THEOREM SessionOnline == Spec => []SessionIsOnline
<1>1. RInv => SessionIsOnline
  BY DEF RInv, TypeOK, Orderly, Online, SessionIsOnline
<1> QED
  BY <1>1, Inductive, PTL

(* One manager at a time has a session under the device uid, with the same *)
(* proviso (replace() waits for the old manager before it starts a new     *)
(* one).                                                                   *)
THEOREM OneUser == Spec => []OneSession
<1>1. RInv => OneSession
  BY DEF RInv, Orderly, OneLives, OneSession, Connected, Live, Ended
<1> QED
  BY <1>1, Inductive, PTL
================================================================================
