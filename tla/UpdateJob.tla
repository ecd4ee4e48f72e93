------------------------------- MODULE UpdateJob -------------------------------
(***************************************************************************)
(* The console updating itself (src/radiotak/services/updater.py), the     *)
(* decoder upgrade threads (services/modules.py) and what systemd does to  *)
(* the console's process (deploy/systemd/radiotak.service).                *)
(*                                                                         *)
(* The job's state is a file that outlives the process; its thread and the *)
(* commands it waits for do not.  The helper runs a blocking "systemctl    *)
(* restart" as a child of the very service it stops, so systemd ends that  *)
(* child with the rest of the control group.  Every log line is a write of *)
(* the state file and may raise.  Releases are numbered, and each ships a  *)
(* decoder build of its own; the SDR module is installed.  Its install.sh  *)
(* removes the old build before it unpacks the new one, and ends with the  *)
(* process.  The VERSION stamp and pip, whose results are ignored, are     *)
(* part of the fetch.                                                      *)
(***************************************************************************)
EXTENDS Integers, FiniteSets

CONSTANTS
  MaxVersion, \* bound: releases
  MaxFaults   \* bound: crashes, failed writes and restarts from outside

ASSUME BoundAssumption == MaxVersion \in Nat \ {0} /\ MaxFaults \in Nat

VARIABLES
  dev,      \* DevPlatform
  upstream, \* newest release
  tree,     \* release checked out
  decoder,  \* decoder build installed; None: one without the mark of a build; NoApp: none at all
  proc,     \* "up", "stopping" (has SIGTERM) or "down"
  request,  \* systemd has a restart of the service pending
  file,     \* "state" in the state file
  job,      \* thread -> step of _run_update_job
  last,     \* _job_thread, None before the first
  checked,  \* the check of upgrade_decoder_on_startup is over
  upgrade,  \* build the upgrade thread installs; None: not running
  tag,      \* build the job installs
  stage,    \* installer -> how far its install.sh is
  faults,   \* crashes, failed writes and outside restarts so far
  lost,     \* history: the last job has ended, or never began, and could not save that
  excused,  \* history: a step the decoder depends on failed since boot
  goal,     \* history: newest release when the job was asked for
  outcome   \* history: a job asked for the restart, and it has happened

versions == <<upstream, tree, decoder>>
process == <<proc, request, checked>>
decoding == <<upgrade, tag, stage>>
history == <<lost, excused, goal, outcome>>
vars == <<dev, versions, process, file, job, last, decoding, faults, history>>

None == 0
NoApp == -1
Installers == {"job", "thread"}
Stages == {"ready", "download", "unpack", "mark", "done"}
Versions == 1 .. MaxVersion
Threads == 1 .. 2
Busy == {"running", "restarting"}
States == Busy \cup {"idle", "done", "failed"}
Logging == {"save", "fetch", "decoder", "install", "restart", "answer", "succeeded", "refused"}
Steps == Logging \cup {"none", "broken", "ending"}

Alive(t) == job[t] # "none"
IsAlive == last # None /\ Alive(last)

Init ==
  /\ dev \in BOOLEAN
  /\ upstream = 1 /\ tree = 1 /\ decoder \in {None, 1}
  /\ proc = "up" /\ request = FALSE /\ checked = FALSE
  /\ file = "idle"
  /\ job = [t \in Threads |-> "none"] /\ last = None
  /\ upgrade = None /\ tag = None /\ stage = [i \in Installers |-> "ready"]
  /\ faults = 0 /\ lost = FALSE /\ excused = FALSE /\ goal = 1 /\ outcome = "none"

Goto(t, from, to) == job[t] = from /\ job' = [job EXCEPT ![t] = to]
Fault == faults < MaxFaults /\ faults' = faults + 1

Publish ==
  /\ upstream < MaxVersion /\ upstream' = upstream + 1
  /\ UNCHANGED <<tree, decoder, process, file, job, last, decoding, faults, history>>

--------------------------------------------------------------------------------
(* start_update_job, in a request, and _run_update_job, in its thread.     *)

\* "running" is saved before the thread is started, which may fail
Begin ==
  /\ \E t \in Threads :
       /\ ~Alive(t) /\ last' = t
       /\ \/ job' = [job EXCEPT ![t] = "save"] /\ lost' = FALSE /\ UNCHANGED faults
          \/ Fault /\ lost' = TRUE /\ UNCHANGED job
  /\ file' = "running"
  /\ goal' = upstream /\ outcome' = "none"
  /\ UNCHANGED <<versions, process, decoding, excused>>

\* Mutant: the thread of the last job is not looked at.
StartUnchecked == proc = "up" /\ file \notin Busy /\ Begin

StartJob == proc = "up" /\ ~IsAlive /\ file \notin Busy /\ Begin

\* the version is read first, outside the try: when that raises, nobody saves the end
Save(t) ==
  /\ \/ Goto(t, "save", "fetch") /\ file' = "running" /\ lost' = FALSE /\ UNCHANGED faults
     \/ Goto(t, "save", "ending") /\ Fault /\ lost' = TRUE /\ UNCHANGED file
  /\ UNCHANGED <<versions, process, last, decoding, excused, goal, outcome>>

\* Mutant: a failed fetch is logged and the job goes on.
FetchUnchecked(t) ==
  /\ Goto(t, "fetch", "decoder") /\ tree' \in {upstream, tree}
  /\ UNCHANGED <<upstream, decoder, process, file, last, decoding, faults, history>>

Fetch(t) ==
  /\ \/ Goto(t, "fetch", "decoder") /\ tree' = upstream
     \/ Goto(t, "fetch", "refused") /\ UNCHANGED tree
  /\ UNCHANGED <<upstream, decoder, process, file, last, decoding, faults, history>>

\* decoder_upgrade_needed: there is a build, and not the one of this release; DevPlatform has no
\* decoder of its own to upgrade
Needed == ~dev /\ decoder \notin {tree, NoApp}

CheckDecoder(t) ==
  /\ Goto(t, "decoder", IF Needed THEN "install" ELSE "restart")
  /\ tag' = IF Needed THEN tree ELSE tag
  /\ UNCHANGED <<versions, process, file, last, upgrade, stage, faults, history>>

\* install.sh is through, or it failed wherever it was, and leaves what there is by then
ScriptEnds(i) ==
  /\ excused' = (excused \/ stage[i] # "done")
  /\ stage' = [stage EXCEPT ![i] = "ready"]

\* the job goes on in either case
InstallDecoder(t) ==
  /\ Goto(t, "install", "restart") /\ tag' = None /\ ScriptEnds("job")
  /\ UNCHANGED <<versions, process, file, last, upgrade, faults, lost, goal, outcome>>

\* service_action("radiotak", "restart"): sudo refuses, or systemctl waits
AskRestart(t) ==
  /\ \/ dev /\ Goto(t, "restart", "succeeded") /\ UNCHANGED <<request, excused, outcome>>
     \/ /\ ~dev /\ Goto(t, "restart", "answer")
        /\ request' = TRUE /\ outcome' = "asked" /\ UNCHANGED excused
     \/ /\ ~dev /\ Goto(t, "restart", "refused")
        /\ excused' = TRUE /\ UNCHANGED <<request, outcome>>
  /\ UNCHANGED <<versions, proc, checked, file, last, decoding, faults, lost, goal>>

\* systemctl has SIGTERM too: its exit code is not 0
Answered(t) ==
  /\ proc = "stopping" /\ Goto(t, "answer", "refused")
  /\ UNCHANGED <<versions, process, file, last, decoding, faults, history>>

Report(t) ==
  /\ \/ Goto(t, "succeeded", "ending") /\ file' = IF dev THEN "done" ELSE "restarting"
     \/ Goto(t, "refused", "ending") /\ file' = "failed"
  /\ lost' = FALSE
  /\ UNCHANGED <<versions, process, last, decoding, faults, excused, goal, outcome>>

\* a write of the state file raises, here or in a log line
Raise(t) ==
  /\ Fault /\ job[t] \in Logging /\ Goto(t, job[t], "broken")
  /\ excused' = TRUE
  /\ UNCHANGED <<versions, process, file, last, decoding, lost, goal, outcome>>

\* Mutant: an exception ends the thread silently.
HandleSilently(t) ==
  /\ Goto(t, "broken", "ending")
  /\ UNCHANGED <<versions, process, file, last, decoding, faults, history>>

\* the handler's own save may raise as well
Handle(t) ==
  /\ Goto(t, "broken", "ending")
  /\ \/ file' = "failed" /\ lost' = FALSE /\ UNCHANGED faults
     \/ Fault /\ lost' = TRUE /\ UNCHANGED file
  /\ UNCHANGED <<versions, process, last, decoding, excused, goal, outcome>>

End(t) ==
  /\ Goto(t, "ending", "none")
  /\ UNCHANGED <<versions, process, file, last, decoding, faults, history>>

Run(t) ==
  \/ Save(t) \/ Fetch(t) \/ CheckDecoder(t) \/ InstallDecoder(t) \/ AskRestart(t)
  \/ Answered(t) \/ Report(t) \/ Handle(t) \/ End(t)

--------------------------------------------------------------------------------
(* install.sh, run by the job or by the decoder upgrade thread.            *)

Build(i) == IF i = "job" THEN tag ELSE upgrade
At(i, from, to) == stage[i] = from /\ stage' = [stage EXCEPT ![i] = to]

\* the build is downloaded unless it is there; the old one is removed, the new one is unpacked
\* and moved to its place, if no other installer has, and marked
Script(i) ==
  /\ Build(i) # None
  /\ \/ At(i, "ready", IF decoder = Build(i) THEN "done" ELSE "download") /\ UNCHANGED decoder
     \/ At(i, "download", "unpack") /\ decoder' = NoApp
     \/ At(i, "unpack", "mark") /\ decoder' = IF decoder = NoApp THEN None ELSE decoder
     \/ At(i, "mark", "done") /\ decoder # NoApp /\ decoder' = Build(i)
  /\ UNCHANGED <<upstream, tree, process, file, job, last, upgrade, tag, faults, history>>

--------------------------------------------------------------------------------
(* The decoder upgrade thread: upgrade_decoder_async, called by the check  *)
(* made once after start-up and by a button.                               *)

UpgradeAsync == upgrade' = IF dev \/ upgrade # None THEN upgrade ELSE tree

\* Mutant: the check at start-up is not made.
NoStartupCheck ==
  /\ proc # "down" /\ ~checked /\ checked' = TRUE
  /\ UNCHANGED <<versions, proc, request, file, job, last, decoding, faults, history>>

StartupCheck ==
  /\ proc # "down" /\ ~checked /\ checked' = TRUE
  /\ IF Needed THEN UpgradeAsync ELSE UNCHANGED upgrade
  /\ UNCHANGED <<versions, proc, request, file, job, last, tag, stage, faults, history>>

UpgradeButton ==
  /\ proc = "up" /\ UpgradeAsync
  /\ UNCHANGED <<versions, process, file, job, last, tag, stage, faults, history>>

UpgradeEnd ==
  /\ upgrade # None /\ upgrade' = None /\ ScriptEnds("thread")
  /\ UNCHANGED <<versions, process, file, job, last, tag, faults, lost, goal, outcome>>

--------------------------------------------------------------------------------
(* The process.                                                            *)

\* /system/restart or a shell
RestartOutside ==
  /\ Fault /\ proc = "up" /\ ~dev /\ request' = TRUE
  /\ UNCHANGED <<versions, proc, checked, file, job, last, decoding, history>>

StopService ==
  /\ request /\ proc = "up" /\ proc' = "stopping"
  /\ UNCHANGED <<versions, request, checked, file, job, last, decoding, faults, history>>

\* every thread ends, and every command, an install.sh in the middle too
Gone ==
  /\ proc' = "down" /\ job' = [t \in Threads |-> "none"] /\ last' = None
  /\ upgrade' = None /\ tag' = None /\ stage' = [i \in Installers |-> "ready"]
  /\ UNCHANGED <<versions, request, checked, file, history>>

Exit == proc = "stopping" /\ Gone /\ UNCHANGED faults
Crash == proc # "down" /\ Fault /\ Gone

\* Mutant: only a restarting job is looked at.
ReconciledRestarting(state) == IF state = "restarting" THEN "done" ELSE state

\* reconcile_update_state_on_startup
Reconciled(state) ==
  CASE state = "restarting" -> "done" [] state = "running" -> "failed" [] OTHER -> state

Boot ==
  /\ proc = "down" /\ proc' = "up" /\ request' = FALSE /\ checked' = FALSE
  /\ \/ file' = Reconciled(file) /\ lost' = FALSE /\ UNCHANGED faults
     \/ file \in Busy /\ Fault /\ lost' = TRUE /\ UNCHANGED file
  /\ excused' = FALSE
  /\ outcome' = IF outcome = "asked" THEN "restarted" ELSE outcome
  /\ UNCHANGED <<upstream, tree, decoder, job, last, decoding, goal>>

Next ==
  /\ UNCHANGED dev
  /\ \/ Publish \/ StartJob \/ StartupCheck \/ UpgradeButton \/ UpgradeEnd
     \/ RestartOutside \/ StopService \/ Exit \/ Crash \/ Boot
     \/ \E t \in Threads : Run(t) \/ Raise(t)
     \/ \E i \in Installers : Script(i)

Spec == Init /\ [][Next]_vars

\* Threads run, commands and restarts come to an end; systemd starts the
\* service again (Restart=always).
Fairness ==
  /\ WF_vars(UNCHANGED dev /\ StartupCheck) /\ WF_vars(UNCHANGED dev /\ UpgradeEnd)
  /\ WF_vars(UNCHANGED dev /\ StopService) /\ WF_vars(UNCHANGED dev /\ Exit)
  /\ WF_vars(UNCHANGED dev /\ Boot)
  /\ \A t \in Threads : WF_vars(UNCHANGED dev /\ Run(t))
FairSpec == Spec /\ Fairness

--------------------------------------------------------------------------------
(* Type invariant. *)
TypeOK ==
  /\ dev \in BOOLEAN /\ upstream \in Versions /\ tree \in Versions
  /\ decoder \in Versions \cup {None, NoApp} /\ tree <= upstream
  /\ proc \in {"up", "stopping", "down"} /\ request \in BOOLEAN /\ checked \in BOOLEAN
  /\ file \in (IF dev THEN States \ {"restarting"} ELSE States)
  /\ job \in [Threads -> Steps] /\ last \in Threads \cup {None}
  /\ upgrade \in Versions \cup {None} /\ tag \in Versions \cup {None}
  /\ stage \in [Installers -> Stages]
  /\ faults \in 0 .. MaxFaults /\ lost \in BOOLEAN /\ excused \in BOOLEAN
  /\ goal \in Versions /\ outcome \in {"none", "asked", "restarted"}

(* Two update jobs never work at a time, whatever the state file says      *)
(* while a job's thread is still on its way out (start_update_job).        *)
OneJob == Cardinality({t \in Threads : Alive(t)}) <= 1

(* The state file says an update is under way only while one is, or while  *)
(* the process is being replaced: otherwise no update can be started again *)
(* (start_update_job returns early).  The excuse is a job that could not   *)
(* save its end: the disk refused, the version could not be read, or the   *)
(* thread could not be started.                                            *)
BusyIsAlive == file \in Busy /\ proc # "down" /\ ~lost => \E t \in Threads : Alive(t)

(* "done" is shown only when the tree holds the release that was the       *)
(* newest one when the update was asked for, or a newer one.               *)
DoneIsNew == file = "done" => tree >= goal

(* An update ends, also when the process is restarted or dies in it.       *)
UpdateEnds == (file \in Busy /\ ~lost) ~> (file \notin Busy \/ lost)

(* An install.sh that was broken off after it had removed the old build,   *)
(* with none at work: decoder_upgrade_needed finds nothing to upgrade.     *)
Stripped == decoder = NoApp /\ upgrade = None /\ tag = None

(* The decoder follows the checkout (docstring of                          *)
(* upgrade_decoder_on_startup: "Self-heal"), also when the process dies    *)
(* between the fetch and the decoder upgrade or while a build is           *)
(* downloaded or marked, unless a step failed, or an install was broken    *)
(* off between the removal of the old build and the arrival of the new.    *)
(* It holds once no more updates are started: each of them restarts the    *)
(* process, and so ends the install that the start-up check has begun.     *)
DecoderFollows ==
  <>[](\A t \in Threads : ~Alive(t)) =>
    ((~dev /\ decoder # tree) ~> (decoder = tree \/ excused \/ Stripped))

(* updater.py:309: a job that asked for the restart is shown as finished   *)
(* once the new process is up.                                             *)
RestartReportedDone == outcome = "restarted" => file # "failed"

(* modules.py:143: the decoder installer does not run twice at a time.     *)
OneInstall == ~(upgrade # None /\ tag # None)
================================================================================
