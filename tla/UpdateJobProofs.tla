---------------------------- MODULE UpdateJobProofs ----------------------------
(***************************************************************************)
(* Proofs about module UpdateJob, for any number of releases and faults.   *)
(* The state file and the threads are told apart only by what each thread  *)
(* still has to do: OnlyLast, Answers and Fresh say that.                  *)
(***************************************************************************)
EXTENDS UpdateJob, FiniteSetTheorems, TLAPS

(* The thread start_update_job looks at is the only one there can be, and  *)
(* none outlives the process.                                              *)
OnlyLast ==
  /\ \A t \in Threads : Alive(t) => t = last /\ proc # "down"
  /\ last \in Threads \cup {None}

(* A thread on its way out leaves a final state, or could not save it; the *)
(* restart is never answered in time, so that none leaves "restarting".    *)
Answers ==
  /\ \A t \in Threads : job[t] = "ending" => file \notin Busy \/ lost
  /\ \A t \in Threads : job[t] = "succeeded" => dev
  /\ file # "restarting"
  /\ BusyIsAlive

(* Past the fetch, the tree is as new as what was asked for.               *)
Fetched == {"decoder", "install", "restart", "answer", "succeeded"}
Fresh ==
  /\ upstream \in Int /\ tree \in Int /\ goal \in Int
  /\ tree <= upstream /\ goal <= upstream
  /\ \A t \in Threads : job[t] \in Fetched => tree >= goal
  /\ DoneIsNew

UInv == job \in [Threads -> Steps] /\ OnlyLast /\ Answers /\ Fresh

--------------------------------------------------------------------------------
LEMMA InitInv == Init => UInv
<1> SUFFICES ASSUME Init PROVE UInv
  OBVIOUS
<1>1. job \in [Threads -> Steps] /\ \A t \in Threads : job[t] = "none"
  BY DEF Init, Steps
<1> QED
  BY <1>1 DEF Init, UInv, OnlyLast, Answers, Fresh, Fetched, DoneIsNew, BusyIsAlive, Busy, Alive

(* Whatever a thread does is its own step and leaves the other alone.      *)
LEMMA GotoIsLocal ==
  ASSUME UInv, NEW t \in Threads, NEW from \in Steps, NEW to \in Steps, Goto(t, from, to)
  PROVE  /\ job' \in [Threads -> Steps] /\ job[t] = from /\ job'[t] = to
         /\ \A u \in Threads \ {t} : job'[u] = job[u]
BY DEF Goto, UInv

(* A thread that neither saves a state nor fetches.                        *)
LEMMA WorkKeeps ==
  ASSUME UInv, UNCHANGED dev, NEW t \in Threads,
         CheckDecoder(t) \/ InstallDecoder(t) \/ AskRestart(t) \/ Answered(t) \/ Raise(t) \/ End(t)
  PROVE  UInv'
<1> DEFINE from == job[t]
           to == job'[t]
<1>1. /\ job' = [job EXCEPT ![t] = to] /\ to \in Steps
      /\ from # "none" /\ to # "ending" /\ (to = "none" => from = "ending")
      /\ (to \in Fetched => from \in Fetched) /\ (to = "succeeded" => dev)
  <2>1. CASE CheckDecoder(t)
    BY <2>1 DEF CheckDecoder, Goto, UInv, Steps, Logging, Fetched
  <2>2. CASE InstallDecoder(t)
    BY <2>2 DEF InstallDecoder, Goto, UInv, Steps, Logging, Fetched
  <2>3. CASE AskRestart(t)
    BY <2>3 DEF AskRestart, Goto, UInv, Steps, Logging, Fetched
  <2>4. CASE Answered(t)
    BY <2>4 DEF Answered, Goto, UInv, Steps, Logging, Fetched
  <2>5. CASE Raise(t)
    BY <2>5 DEF Raise, Goto, UInv, Steps, Logging, Fetched
  <2>6. CASE End(t)
    BY <2>6 DEF End, Goto, UInv, Steps, Logging, Fetched
  <2> QED
    BY <2>1, <2>2, <2>3, <2>4, <2>5, <2>6
<1>2. job' \in [Threads -> Steps] /\ \A u \in Threads \ {t} : job'[u] = job[u]
  BY <1>1 DEF UInv
<1>3. UNCHANGED <<dev, upstream, tree, proc, file, last, goal, lost>>
  BY DEF CheckDecoder, InstallDecoder, AskRestart, Answered, Raise, End, versions, process,
         decoding, history
<1>4. OnlyLast'
  BY <1>1, <1>2, <1>3 DEF UInv, OnlyLast, Alive
<1>5. Answers'
  <2>1. \A u \in Threads : job'[u] = "ending" => job[u] = "ending"
    BY <1>1, <1>2
  <2>2. \A u \in Threads : job'[u] = "succeeded" => dev
    BY <1>1, <1>2 DEF UInv, Answers
  <2>3. BusyIsAlive'
    <3> SUFFICES ASSUME file \in Busy, proc # "down", ~lost PROVE \E u \in Threads : Alive(u)'
      BY <1>3 DEF BusyIsAlive
    <3>1. to # "none"
      BY <1>1, <1>2 DEF UInv, Answers
    <3> QED
      BY <1>2, <3>1 DEF Alive
  <2> QED
    BY <1>3, <2>1, <2>2, <2>3 DEF UInv, Answers
<1>6. Fresh'
  <2>1. \A u \in Threads : job'[u] \in Fetched => \E v \in Threads : job[v] \in Fetched
    BY <1>1, <1>2
  <2> QED
    BY <1>3, <2>1 DEF UInv, Fresh, DoneIsNew
<1> QED
  BY <1>2, <1>4, <1>5, <1>6 DEF UInv

(* The fetch brings the newest release, or the job fails.                  *)
LEMMA FetchKeeps ==
  ASSUME UInv, UNCHANGED dev, NEW t \in Threads, Fetch(t)
  PROVE  UInv'
<1>1. PICK to \in {"decoder", "refused"} :
        Goto(t, "fetch", to) /\ tree' \in {upstream, tree} /\ (to = "decoder" => tree' = upstream)
  BY DEF Fetch
<1>2. /\ job' \in [Threads -> Steps] /\ job[t] = "fetch" /\ job'[t] = to
      /\ \A u \in Threads \ {t} : job'[u] = job[u]
  BY <1>1, GotoIsLocal DEF Steps, Logging
<1>3. UNCHANGED <<dev, upstream, proc, file, last, goal, lost>>
  BY DEF Fetch, process, history
<1>4. OnlyLast'
  BY <1>2, <1>3 DEF UInv, OnlyLast, Alive
<1>5. Answers'
  BY <1>2, <1>3 DEF UInv, Answers, BusyIsAlive, Alive
<1>6. Fresh'
  <2>1. tree' >= tree /\ tree' <= upstream /\ tree' \in Int /\ (to = "decoder" => tree' >= goal)
    BY <1>1 DEF UInv, Fresh
  <2>2. \A u \in Threads : job'[u] \in Fetched => tree' >= goal
    BY <1>2, <2>1 DEF UInv, Fresh, Fetched
  <2> QED
    BY <1>3, <2>1, <2>2 DEF UInv, Fresh, DoneIsNew
<1> QED
  BY <1>2, <1>4, <1>5, <1>6 DEF UInv

(* The steps that save a state: the first of a job, and its last.          *)
LEMMA SaveKeeps ==
  ASSUME UInv, UNCHANGED dev, NEW t \in Threads, Save(t) \/ Report(t) \/ Handle(t)
  PROVE  UInv'
<1>1. PICK from \in Steps, to \in {"fetch", "ending"} :
        /\ Goto(t, from, to) /\ from # "none"
        /\ to = "ending" => file' \in {"done", "failed"} \/ (file' = file /\ lost')
        /\ to = "fetch" => file' = "running"
        /\ file' = "done" => file = "done" \/ from = "succeeded"
  <2>1. CASE Save(t)
    BY <2>1 DEF Save, Steps, Logging
  <2>2. CASE Report(t)
    BY <2>2 DEF Report, Steps, Logging, UInv, Answers, Goto
  <2>3. CASE Handle(t)
    BY <2>3 DEF Handle, Steps, Logging
  <2> QED
    BY <2>1, <2>2, <2>3
<1>2. /\ job' \in [Threads -> Steps] /\ job[t] = from /\ job'[t] = to
      /\ \A u \in Threads \ {t} : job'[u] = job[u]
  BY <1>1, GotoIsLocal DEF Steps, Logging
<1>3. UNCHANGED <<dev, upstream, tree, proc, last, goal>>
  BY DEF Save, Report, Handle, versions, process, history
<1>4. \A u \in Threads \ {t} : job[u] = "none"
  BY <1>1, <1>2 DEF UInv, OnlyLast, Alive
<1>5. OnlyLast'
  BY <1>1, <1>2, <1>3, <1>4 DEF UInv, OnlyLast, Alive
<1>6. Answers'
  <2>1. \A u \in Threads : job'[u] = "ending" => file' \notin Busy \/ lost'
    BY <1>1, <1>2, <1>4 DEF Busy
  <2>2. \A u \in Threads : job'[u] # "succeeded"
    BY <1>2, <1>4
  <2>3. file' # "restarting"
    BY <1>1 DEF UInv, Answers
  <2>4. BusyIsAlive'
    BY <1>2 DEF BusyIsAlive, Alive
  <2> QED
    BY <2>1, <2>2, <2>3, <2>4 DEF Answers
<1>7. Fresh'
  <2>1. \A u \in Threads : job'[u] \notin Fetched
    BY <1>2, <1>4 DEF Fetched
  <2>2. DoneIsNew'
    BY <1>1, <1>2, <1>3 DEF UInv, Fresh, DoneIsNew, Fetched
  <2> QED
    BY <1>3, <2>1, <2>2 DEF UInv, Fresh
<1> QED
  BY <1>2, <1>5, <1>6, <1>7 DEF UInv

(* A job starts when none is alive, or its thread cannot be started.       *)
LEMMA StartKeeps ==
  ASSUME UInv, UNCHANGED dev, StartJob
  PROVE  UInv'
<1>1. PICK t \in Threads :
        /\ last' = t
        /\ (job' = [job EXCEPT ![t] = "save"] /\ lost' = FALSE) \/ (job' = job /\ lost' = TRUE)
  BY DEF StartJob, Begin
<1>2. \A u \in Threads : job[u] = "none"
  BY DEF StartJob, IsAlive, UInv, OnlyLast, Alive, Threads, None
<1>3. /\ job' \in [Threads -> Steps] /\ \A u \in Threads \ {t} : job'[u] = "none"
      /\ job'[t] = "save" \/ (job'[t] = "none" /\ lost')
  BY <1>1, <1>2 DEF UInv, Steps, Logging
<1>4. /\ UNCHANGED <<upstream, tree, proc>> /\ proc = "up"
      /\ file' = "running" /\ goal' = upstream
  BY DEF StartJob, Begin, versions, process
<1>5. OnlyLast'
  BY <1>1, <1>3, <1>4 DEF OnlyLast, Alive
<1>6. Answers'
  <2>1. BusyIsAlive'
    BY <1>3 DEF BusyIsAlive, Alive
  <2> QED
    BY <1>3, <1>4, <2>1 DEF Answers
<1>7. Fresh'
  BY <1>3, <1>4 DEF UInv, Fresh, Fetched, DoneIsNew
<1> QED
  BY <1>3, <1>5, <1>6, <1>7 DEF UInv

(* The process ends with its threads, and reads the file when it is back.  *)
LEMMA ProcessKeeps ==
  ASSUME UInv, UNCHANGED dev, Exit \/ Crash \/ Boot
  PROVE  UInv'
<1>1. CASE Exit \/ Crash
  <2>1. /\ proc' = "down" /\ job' = [t \in Threads |-> "none"] /\ last' = None
        /\ UNCHANGED <<upstream, tree, file, lost, goal>>
    BY <1>1 DEF Exit, Crash, Gone, versions, history
  <2>2. job' \in [Threads -> Steps] /\ \A t \in Threads : job'[t] = "none"
    BY <2>1 DEF Steps
  <2>3. OnlyLast' /\ Answers'
    BY <2>1, <2>2 DEF UInv, OnlyLast, Answers, Alive, BusyIsAlive
  <2> QED
    BY <2>1, <2>2, <2>3 DEF UInv, Fresh, Fetched, DoneIsNew
<1>2. CASE Boot
  <2>1. proc = "down" /\ proc' = "up" /\ UNCHANGED <<upstream, tree, job, last, goal>>
    BY <1>2 DEF Boot
  <2>2. \A t \in Threads : job[t] = "none"
    BY <2>1 DEF UInv, OnlyLast, Alive
  <2>3. \/ file' \notin Busy /\ (file' = "done" => file = "done")
        \/ lost' /\ file' = file
    BY <1>2 DEF Boot, Reconciled, Busy, UInv, Answers
  <2>4. OnlyLast'
    BY <2>1, <2>2 DEF UInv, OnlyLast, Alive
  <2>5. Answers'
    BY <2>1, <2>2, <2>3 DEF UInv, Answers, BusyIsAlive, Busy
  <2>6. Fresh'
    BY <2>1, <2>2, <2>3 DEF UInv, Fresh, Fetched, DoneIsNew
  <2> QED
    BY <2>1, <2>4, <2>5, <2>6 DEF UInv
<1> QED
  BY <1>1, <1>2

(* Releases, install scripts, decoder upgrades and restarts from outside   *)
(* touch no job.                                                           *)
LEMMA OthersKeep ==
  ASSUME UInv, UNCHANGED dev,
         \/ Publish \/ StartupCheck \/ UpgradeButton \/ UpgradeEnd \/ RestartOutside \/ StopService
         \/ \E i \in Installers : Script(i)
  PROVE  UInv'
<1>1. /\ UNCHANGED <<tree, file, job, last, lost, goal>>
      /\ proc' \in {proc, "stopping"} /\ (proc' = "down" <=> proc = "down")
  BY DEF Publish, StartupCheck, UpgradeButton, UpgradeEnd, RestartOutside, StopService, Script, versions,
         process, history
<1>2. upstream' \in {upstream, upstream + 1}
  BY DEF Publish, StartupCheck, UpgradeButton, UpgradeEnd, RestartOutside, StopService, Script, versions
<1>3. OnlyLast' /\ Answers'
  BY <1>1 DEF UInv, OnlyLast, Answers, Alive, BusyIsAlive
<1>4. Fresh'
  BY <1>1, <1>2 DEF UInv, Fresh, DoneIsNew
<1> QED
  BY <1>1, <1>3, <1>4 DEF UInv

LEMMA StepKeeps == UInv /\ [Next]_vars => UInv'
<1> SUFFICES ASSUME UInv, [Next]_vars PROVE UInv'
  OBVIOUS
<1>1. CASE UNCHANGED vars
  BY <1>1 DEF vars, versions, process, history, UInv, OnlyLast, Answers, Fresh, Alive, BusyIsAlive,
     DoneIsNew
<1>2. CASE Next
  <2>1. ASSUME NEW t \in Threads, Run(t) \/ Raise(t), UNCHANGED dev PROVE UInv'
    BY <2>1, WorkKeeps, FetchKeeps, SaveKeeps DEF Run
  <2> QED
    BY <1>2, <2>1, StartKeeps, ProcessKeeps, OthersKeep DEF Next
<1> QED
  BY <1>1, <1>2

LEMMA Inductive == Spec => []UInv
<1> QED
  BY InitInv, StepKeeps, PTL DEF Spec

(* Two update jobs never work at a time (start_update_job).                *)
THEOREM OneAtATime == Spec => []OneJob
<1>1. UInv => OneJob
  <2> SUFFICES ASSUME UInv PROVE OneJob
    OBVIOUS
  <2> DEFINE S == {t \in Threads : Alive(t)}
  <2>1. S \subseteq {last}
    BY DEF UInv, OnlyLast
  <2>2. IsFiniteSet({last}) /\ Cardinality({last}) = 1
    BY FS_Singleton
  <2>3. Cardinality(S) <= 1
    BY <2>1, <2>2, FS_Subset
  <2> QED
    BY <2>3 DEF OneJob
<1> QED
  BY <1>1, Inductive, PTL

(* A state file that says busy has a job behind it, unless the last job    *)
(* could not save its end: an update can be started again                  *)
(* (start_update_job returns early while it is busy).                      *)
THEOREM BusyAlive == Spec => []BusyIsAlive
<1>1. UInv => BusyIsAlive
  BY DEF UInv, Answers
<1> QED
  BY <1>1, Inductive, PTL

(* "done" is shown only over a tree as new as what was asked for           *)
(* (_run_update_job).                                                      *)
THEOREM DoneNew == Spec => []DoneIsNew
<1>1. UInv => DoneIsNew
  BY DEF UInv, Fresh
<1> QED
  BY <1>1, Inductive, PTL
================================================================================
