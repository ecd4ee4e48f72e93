---------------------------- MODULE SdrSourcesProofs ----------------------------
(***************************************************************************)
(* Proofs about module SdrSources, for any table of systems and keys, any  *)
(* number of dongles and any handler that fails half way. What the pages   *)
(* show and what is written are two counts over one table, compared by     *)
(* induction over its rows.                                                *)
(***************************************************************************)
EXTENDS SdrSources, FiniteSetTheorems, WellFoundedInduction, TLAPS

(* OneOwner is inductive once the services are Boolean.                    *)
Booleans == sdrtrunk \in BOOLEAN /\ direwolf \in BOOLEAN /\ excused \in BOOLEAN
SInv == Booleans /\ sticks \in Nat /\ OneOwner

LEMMA InitInv == Init => SInv
<1>1. Init => sticks \in Nat
  BY DEF Init
<1>2. Init => Booleans /\ OneOwner
  BY Zenon DEF Init, Booleans, OneOwner
<1> QED
  BY <1>1, <1>2 DEF SInv

(* A step that starts neither service keeps the excuse.                    *)
LEMMA NothingStarts ==
  ASSUME SInv, NEW reason \in BOOLEAN, Excuse(reason),
         sdrtrunk' \in BOOLEAN, sdrtrunk' => sdrtrunk, direwolf' \in BOOLEAN, direwolf' => direwolf,
         sticks' \in Nat, sticks' < 2 => sticks < 2
  PROVE  SInv'
<1>1. excused' \in BOOLEAN
  BY Zenon DEF Excuse
<1>2. OneOwner'
  <2>1. ASSUME sdrtrunk', direwolf', sticks' < 2 PROVE excused'
    <3>1. excused
      BY <2>1, Zenon DEF SInv, OneOwner
    <3> QED
      BY <2>1, <3>1, Zenon DEF Excuse
  <2> QED
    BY <2>1, Zenon DEF OneOwner
<1> QED
  BY <1>1, <1>2, Zenon DEF SInv, Booleans

(* A step that starts one counts with the other, or is excused.            *)
LEMMA StartIsGated ==
  ASSUME SInv, NEW reason \in BOOLEAN, Excuse(reason), sdrtrunk' \in BOOLEAN,
         direwolf' \in BOOLEAN, sticks' = sticks,
         reason \/ ~sdrtrunk' \/ ~direwolf' \/ ~(sticks < 2)
  PROVE  SInv'
<1>1. excused' \in BOOLEAN
  BY Zenon DEF Excuse
<1>2. OneOwner'
  <2>1. ASSUME sdrtrunk', direwolf', sticks' < 2 PROVE excused'
    <3>1. reason
      BY <2>1, Zenon
    <3> QED
      BY <2>1, <3>1, Zenon DEF Excuse
  <2> QED
    BY <2>1, Zenon DEF OneOwner
<1> QED
  BY <1>1, <1>2, Zenon DEF SInv, Booleans

(* What the handlers do to the services.                                   *)
LEMMA RestartBool ==
  ASSUME SInv, NEW list, NEW keys, NEW now, NEW outcome \in Outcomes,
         RestartDecoder(list, keys, now, outcome)
  PROVE  sdrtrunk' \in BOOLEAN
<1>1. sdrtrunk \in BOOLEAN
  BY Zenon DEF SInv, Booleans
<1> QED
  BY <1>1 DEF RestartDecoder, Loads, Unloads, decoder

LEMMA StopDecoderBool ==
  ASSUME SInv, StopDecoder \/ UNCHANGED <<decoder, center>>
  PROVE  sdrtrunk' \in BOOLEAN /\ (sdrtrunk' => sdrtrunk)
<1>1. sdrtrunk \in BOOLEAN
  BY Zenon DEF SInv, Booleans
<1>2. sdrtrunk' = FALSE \/ sdrtrunk' = sdrtrunk
  BY Zenon DEF StopDecoder, Unloads, decoder
<1>3. CASE sdrtrunk' = FALSE
  BY <1>3, Zenon
<1>4. CASE sdrtrunk' = sdrtrunk
  BY <1>1, <1>4, Zenon
<1> QED
  BY <1>2, <1>3, <1>4, Zenon

LEMMA StopDirewolfBool ==
  ASSUME SInv, StopDirewolf \/ UNCHANGED direwolf
  PROVE  direwolf' \in BOOLEAN /\ (direwolf' => direwolf)
<1>1. direwolf \in BOOLEAN
  BY Zenon DEF SInv, Booleans
<1>2. direwolf' = FALSE \/ direwolf' = direwolf
  BY Zenon DEF StopDirewolf
<1>3. CASE direwolf' = FALSE
  BY <1>3, Zenon
<1>4. CASE direwolf' = direwolf
  BY <1>1, <1>4, Zenon
<1> QED
  BY <1>2, <1>3, <1>4, Zenon

LEMMA Gate ==
  ASSUME SInv, EnsureSdrtrunk
  PROVE  /\ direwolf' \in BOOLEAN /\ (direwolf' => direwolf) /\ StillThere \in BOOLEAN
         /\ StillThere \/ ~direwolf' \/ ~(sticks < 2)
<1>1. direwolf' \in BOOLEAN /\ (direwolf' => direwolf)
  <2>1. StopDirewolf \/ UNCHANGED direwolf
    BY DEF EnsureSdrtrunk
  <2> QED
    BY <2>1, StopDirewolfBool, Zenon
<1>2. StillThere \in BOOLEAN
  BY Zenon DEF StillThere, Conflict
<1>3. StillThere \/ ~direwolf' \/ ~(sticks < 2)
  BY <1>1, Zenon DEF StillThere, Conflict
<1> QED
  BY <1>1, <1>2, <1>3, Zenon

LEMMA RebuildKeeps ==
  ASSUME SInv, CommitAndRebuild
  PROVE  SInv'
<1>1. Excuse(FALSE) /\ UNCHANGED decoder
  BY DEF CommitAndRebuild
<1>2. Excuse(FALSE) /\ sdrtrunk' = sdrtrunk /\ direwolf' = direwolf /\ sticks' = sticks
  BY <1>1 DEF CommitAndRebuild, decoder
<1> QED
  BY <1>2, NothingStarts, Zenon DEF SInv, Booleans

LEMMA RestartKeeps ==
  ASSUME SInv, NEW gated \in BOOLEAN, CommitAndRestart(gated), direwolf' \in BOOLEAN,
         gated => EnsureSdrtrunk
  PROVE  SInv'
<1>1. Excuse(~gated \/ StillThere) /\ sticks' = sticks
  BY DEF CommitAndRestart
<1>2. sdrtrunk' \in BOOLEAN
  <2>1. CASE \E written \in BOOLEAN, outcome \in Outcomes :
               RestartDecoder(playlist', keyFile', ListeningCenter(center, playlist'), outcome)
    BY <2>1, RestartBool
  <2>2. CASE UNCHANGED decoder
    BY <2>2, Zenon DEF decoder, SInv, Booleans
  <2> QED
    BY <2>1, <2>2 DEF CommitAndRestart
<1>3. (~gated \/ StillThere) \in BOOLEAN
  BY Zenon
<1>4. (~gated \/ StillThere) \/ ~sdrtrunk' \/ ~direwolf' \/ ~(sticks < 2)
  BY Gate, Zenon
<1> QED
  BY <1>1, <1>2, <1>3, <1>4, StartIsGated, Zenon

(* The handlers of the SDR page.                                           *)
LEMMA PageKeeps ==
  ASSUME SInv,
         \/ \E s \in Systems : SystemAdd(s) \/ SystemUpdate(s) \/ SystemDelete(s) \/ SdrListen(s)
         \/ \E k \in Keys : KeyAdd(k) \/ KeyDelete(k)
         \/ DeviceSave \/ SdrApply \/ SdrStop
  PROVE  SInv'
<1>0. direwolf \in BOOLEAN /\ sdrtrunk \in BOOLEAN /\ sticks \in Nat
  BY Zenon DEF SInv, Booleans
<1>1. ASSUME NEW s \in Systems, SystemAdd(s) PROVE SInv'
  BY <1>0, <1>1, RebuildKeeps, RestartKeeps, Zenon DEF SystemAdd
<1>2. ASSUME NEW s \in Systems, SystemUpdate(s) \/ SystemDelete(s) PROVE SInv'
  BY <1>2, RebuildKeeps, Zenon DEF SystemUpdate, SystemDelete
<1>3. ASSUME NEW s \in Systems, SdrListen(s) PROVE SInv'
  <2>1. CASE EnsureSdrtrunk /\ CommitAndRestart(TRUE)
    BY <2>1, RestartKeeps, Gate, Zenon
  <2>2. CASE UNCHANGED direwolf /\ CommitAndRestart(FALSE)
    BY <1>0, <2>2, RestartKeeps, Zenon
  <2> QED
    BY <1>3, <2>1, <2>2, Zenon DEF SdrListen
<1>4. ASSUME NEW k \in Keys, KeyAdd(k) \/ KeyDelete(k) PROVE SInv'
  <2>1. Excuse(FALSE) /\ direwolf' = direwolf /\ sticks' = sticks
    BY <1>4 DEF KeyAdd, KeyDelete, KeysChanged
  <2>2. UNCHANGED decoder \/ \E outcome \in Outcomes :
          RestartIfRunning(playlist', keyFile', ListeningCenter(center, playlist'), outcome)
    BY <1>4, Zenon DEF KeyAdd, KeyDelete, KeysChanged
  <2>3. sdrtrunk' \in BOOLEAN /\ (sdrtrunk' => sdrtrunk)
    <3>1. CASE UNCHANGED decoder
      BY <1>0, <3>1, Zenon DEF decoder
    <3>2. ASSUME NEW outcome \in Outcomes,
                 RestartIfRunning(playlist', keyFile', ListeningCenter(center, playlist'), outcome)
          PROVE  sdrtrunk' \in BOOLEAN /\ (sdrtrunk' => sdrtrunk)
      <4>1. CASE sdrtrunk
        BY <3>2, <4>1, RestartBool, Zenon DEF RestartIfRunning
      <4>2. CASE ~sdrtrunk
        BY <1>0, <3>2, <4>2, Zenon DEF RestartIfRunning, decoder
      <4> QED
        BY <4>1, <4>2, Zenon
    <3> QED
      BY <2>2, <3>1, <3>2, Zenon
  <2> QED
    BY <1>0, <2>1, <2>3, NothingStarts, Zenon
<1>5. CASE DeviceSave
  BY <1>5, RebuildKeeps, Zenon DEF DeviceSave
<1>6. CASE SdrApply
  <2>1. Excuse(TRUE) /\ direwolf' = direwolf /\ sticks' = sticks
    BY <1>6 DEF SdrApply
  <2>2. sdrtrunk' \in BOOLEAN
    <3>1. PICK outcome \in Outcomes :
            RestartDecoder(playlist', keyFile', ListeningCenter(center, playlist'), outcome)
      BY <1>6 DEF SdrApply
    <3> QED
      BY <3>1, RestartBool, Zenon
  <2> QED
    BY <1>0, <2>1, <2>2, StartIsGated, Zenon
<1>7. CASE SdrStop
  <2>1. Excuse(FALSE) /\ direwolf' = direwolf /\ sticks' = sticks /\ StopDecoder
    BY <1>7 DEF SdrStop
  <2> QED
    BY <1>0, <2>1, StopDecoderBool, NothingStarts, Zenon
<1> QED
  BY <1>1, <1>2, <1>3, <1>4, <1>5, <1>6, <1>7, Zenon

(* The handlers of the hub and of the APRS page.                           *)
LEMMA HubKeeps ==
  ASSUME SInv, (\E s \in Systems : HubListen(s)) \/ HubStart \/ AprsStart \/ AprsStop
  PROVE  SInv'
<1>0. direwolf \in BOOLEAN /\ sdrtrunk \in BOOLEAN /\ sticks \in Nat
  BY Zenon DEF SInv, Booleans
<1>1. ASSUME NEW s \in Systems, HubListen(s) PROVE SInv'
  <2>1. CASE EnsureSdrtrunk /\ CommitAndRestart(TRUE)
    BY <2>1, RestartKeeps, Gate, Zenon
  <2>2. CASE CommitAndRebuild
    BY <2>2, RebuildKeeps, Zenon
  <2>3. CASE EnsureSdrtrunk /\ UNCHANGED <<table, files, decoder, center, sticks, degraded>>
             /\ Excuse(FALSE)
    <3>1. sdrtrunk' = sdrtrunk /\ sticks' = sticks /\ Excuse(FALSE) /\ EnsureSdrtrunk
      BY <2>3 DEF decoder
    <3> QED
      BY <1>0, <3>1, Gate, NothingStarts, Zenon
  <2> QED
    BY <1>1, <2>1, <2>2, <2>3, Zenon DEF HubListen
<1>2. CASE HubStart
  <2>1. EnsureSdrtrunk /\ Excuse(StillThere) /\ sticks' = sticks
    BY <1>2 DEF HubStart
  <2>2. sdrtrunk' \in BOOLEAN
    BY <1>2, RestartBool DEF HubStart
  <2> QED
    BY <2>1, <2>2, Gate, StartIsGated, Zenon
<1>3. CASE AprsStart
  <2>1. EnsureAprsRf /\ direwolf' \in BOOLEAN /\ sticks' = sticks
        /\ Excuse(Conflict(sdrtrunk) /\ sdrtrunk')
    BY <1>3 DEF AprsStart
  <2>2. sdrtrunk' \in BOOLEAN /\ (sdrtrunk' => sdrtrunk)
    BY <2>1, StopDecoderBool, Zenon DEF EnsureAprsRf
  <2>3. (Conflict(sdrtrunk) /\ sdrtrunk') \/ ~sdrtrunk' \/ ~direwolf' \/ ~(sticks < 2)
    BY <2>2, Zenon DEF Conflict
  <2>4. (Conflict(sdrtrunk) /\ sdrtrunk') \in BOOLEAN
    BY Zenon
  <2> QED
    BY <2>1, <2>2, <2>3, <2>4, StartIsGated, Zenon
<1>4. CASE AprsStop
  <2>1. StopDirewolf /\ Excuse(FALSE) /\ sdrtrunk' = sdrtrunk /\ sticks' = sticks
    BY <1>4 DEF AprsStop, decoder
  <2> QED
    BY <1>0, <2>1, StopDirewolfBool, NothingStarts, Zenon
<1> QED
  BY <1>1, <1>2, <1>3, <1>4, Zenon

(* Dongles come and go; a crashed decoder starts again.                    *)
LEMMA WorldKeeps ==
  ASSUME SInv, Plug \/ Unplug \/ DecoderCrashes
  PROVE  SInv'
<1>0. direwolf \in BOOLEAN /\ sdrtrunk \in BOOLEAN /\ sticks \in Nat
  BY Zenon DEF SInv, Booleans
<1>1. CASE Plug
  <2>1. sticks' = sticks + 1 /\ sdrtrunk' = sdrtrunk /\ direwolf' = direwolf /\ Excuse(FALSE)
    BY <1>1 DEF Plug, decoder
  <2>2. sticks' \in Nat /\ (sticks' < 2 => sticks < 2)
    BY <1>0, <2>1
  <2> QED
    BY <1>0, <2>1, <2>2, NothingStarts, Zenon
<1>2. CASE Unplug
  <2>1. sticks' \in Nat
    BY <1>0, <1>2 DEF Unplug
  <2>2. sdrtrunk' = sdrtrunk /\ direwolf' = direwolf /\ Excuse(TRUE)
    BY <1>2 DEF Unplug, decoder
  <2>3. excused' \in BOOLEAN /\ (sdrtrunk' /\ direwolf' => excused')
    BY <2>2, Zenon DEF Excuse
  <2> QED
    BY <1>0, <2>1, <2>2, <2>3, Zenon DEF SInv, Booleans, OneOwner
<1>3. CASE DecoderCrashes
  <2>1. sdrtrunk /\ sdrtrunk' = TRUE /\ direwolf' = direwolf /\ sticks' = sticks /\ Excuse(FALSE)
    BY <1>3 DEF DecoderCrashes, Loads
  <2> QED
    BY <1>0, <2>1, NothingStarts, Zenon
<1> QED
  BY <1>1, <1>2, <1>3, Zenon

LEMMA Inductive == Spec => []SInv
<1>1. SInv /\ [Next]_vars => SInv'
  <2>1. CASE UNCHANGED vars
    BY <2>1, Zenon DEF vars, decoder, SInv, Booleans, OneOwner
  <2> QED
    BY <2>1, PageKeeps, HubKeeps, WorldKeeps, Zenon DEF Next
<1> QED
  BY <1>1, InitInv, PTL DEF Spec

(* The hub and the APRS page never start the second service on the only    *)
(* dongle themselves (exclusivity_conflict in services/listening.py).      *)
THEOREM OneOwns == Spec => []OneOwner
<1>1. SInv => OneOwner
  BY DEF SInv
<1> QED
  BY <1>1, Inductive, PTL

--------------------------------------------------------------------------------
(* Files.  What FilesFollow leaves open is the key file while a secret is  *)
(* missing: it has the keys that have one, so that writing it again        *)
(* changes nothing.                                                        *)
Loaded == sdrtrunk => loaded = keyFile
Follow ==
  /\ playlist # NoFile => playlist = PlaylistOf(Order, rows, slots)
  /\ keyFile = keyRows \cap secrets
  /\ Loaded

FInv == degraded \in Nat /\ (degraded = 0 => Follow)

(* A handler that failed, or ran after one that did, leaves a mark.        *)
LEMMA Degrades ==
  ASSUME FInv, NEW failed \in BOOLEAN, Degrade(failed), ~failed /\ degraded = 0 => Follow'
  PROVE  FInv'
<1>1. CASE failed \/ degraded > 0
  <2>1. degraded' = degraded + 1
    BY <1>1 DEF Degrade
  <2> QED
    BY <2>1 DEF FInv
<1>2. CASE ~(failed \/ degraded > 0)
  <2>1. degraded' = 0 /\ ~failed /\ degraded = 0
    BY <1>2 DEF Degrade, FInv
  <2> QED
    BY <2>1 DEF FInv
<1> QED
  BY <1>1, <1>2

(* A restart that was not refused loads the keys it was given.             *)
LEMMA RestartLoads ==
  ASSUME NEW list, NEW keys, NEW now, NEW outcome, outcome # "kept",
         RestartDecoder(list, keys, now, outcome)
  PROVE  sdrtrunk' => loaded' = keys
<1>1. CASE Loads(list, keys)
  BY <1>1 DEF Loads
<1>2. CASE Unloads
  BY <1>2 DEF Unloads
<1> QED
  BY <1>1, <1>2 DEF RestartDecoder

(* A rebuild that wrote the key file.                                      *)
LEMMA RebuildFollows ==
  ASSUME Rebuild(TRUE), Loaded' PROVE Follow'
BY DEF Rebuild, Publishable, Follow

(* A step that changes neither table nor files nor degraded, and of the    *)
(* decoder at most that it stops or starts with the files.                 *)
LEMMA LeavesFiles ==
  ASSUME FInv, UNCHANGED <<table, files, degraded>>,
         UNCHANGED decoder \/ sdrtrunk' = FALSE \/ loaded' = keyFile
  PROVE  FInv'
<1>1. ASSUME Follow PROVE Follow'
  <2>1. Loaded'
    <3>1. CASE UNCHANGED decoder
      BY <1>1, <3>1 DEF Follow, Loaded, decoder, files
    <3>2. CASE sdrtrunk' = FALSE
      BY <3>2 DEF Loaded
    <3>3. CASE loaded' = keyFile
      BY <3>3 DEF Loaded, files
    <3> QED
      BY <3>1, <3>2, <3>3
  <2> QED
    BY <1>1, <2>1 DEF Follow, table, files
<1> QED
  BY <1>1 DEF FInv

LEMMA RebuildKeepsFiles ==
  ASSUME FInv, CommitAndRebuild
  PROVE  FInv'
<1>1. CASE UNCHANGED <<files, center>> /\ Degrade(TRUE)
  BY <1>1, Degrades
<1>2. ASSUME NEW written \in BOOLEAN, Rebuild(written), Degrade(~written) PROVE FInv'
  <2>1. ASSUME written, degraded = 0 PROVE Follow'
    <3>1. Rebuild(TRUE)
      BY <1>2, <2>1
    <3>2. keyFile' = keyFile /\ UNCHANGED decoder
      BY <2>1, <3>1 DEF CommitAndRebuild, Rebuild, Publishable, FInv, Follow
    <3>3. Loaded'
      BY <2>1, <3>2 DEF FInv, Follow, Loaded, decoder
    <3> QED
      BY <3>1, <3>3, RebuildFollows
  <2> QED
    BY <1>2, <2>1, Degrades
<1> QED
  BY <1>1, <1>2 DEF CommitAndRebuild

LEMMA RestartKeepsFiles ==
  ASSUME FInv, NEW gated, CommitAndRestart(gated)
  PROVE  FInv'
<1>1. CASE UNCHANGED <<files, decoder, center>> /\ Degrade(TRUE)
  BY <1>1, Degrades
<1>2. ASSUME NEW written \in BOOLEAN, NEW outcome \in Outcomes, Rebuild(written),
             RestartDecoder(playlist', keyFile', ListeningCenter(center, playlist'), outcome),
             Degrade(~written \/ outcome = "kept")
      PROVE  FInv'
  <2>1. ASSUME ~(~written \/ outcome = "kept") PROVE Follow'
    <3>1. Rebuild(TRUE)
      BY <1>2, <2>1
    <3>2. Loaded'
      BY <1>2, <2>1, RestartLoads DEF Loaded
    <3> QED
      BY <3>1, <3>2, RebuildFollows
  <2>2. (~written \/ outcome = "kept") \in BOOLEAN
    BY Zenon
  <2> QED
    BY <1>2, <2>1, <2>2, Degrades
<1> QED
  BY <1>1, <1>2 DEF CommitAndRestart

(* The handlers of the keys.                                               *)
LEMMA KeysKeepFiles ==
  ASSUME FInv, KeysChanged
  PROVE  FInv'
<1>1. CASE Degrade(TRUE)
  BY <1>1, Degrades
<1>2. ASSUME NEW outcome \in Outcomes, Rebuild(TRUE), Degrade(outcome = "kept"),
             RestartIfRunning(playlist', keyFile', ListeningCenter(center, playlist'), outcome)
      PROVE  FInv'
  <2>1. ASSUME outcome # "kept" PROVE Follow'
    <3>1. Loaded'
      <4>1. CASE sdrtrunk
        BY <1>2, <2>1, <4>1, RestartLoads DEF Loaded, RestartIfRunning
      <4>2. CASE ~sdrtrunk
        BY <1>2, <4>2 DEF Loaded, RestartIfRunning, decoder
      <4> QED
        BY <4>1, <4>2
    <3> QED
      BY <1>2, <3>1, RebuildFollows
  <2>2. (outcome = "kept") \in BOOLEAN
    BY Zenon
  <2> QED
    BY <1>2, <2>1, <2>2, Degrades
<1> QED
  BY <1>1, <1>2 DEF KeysChanged

LEMMA FilesStep == FInv /\ [Next]_vars => FInv'
<1> SUFFICES ASSUME FInv, [Next]_vars PROVE FInv'
  OBVIOUS
<1>1. ASSUME NEW s \in Systems, SystemAdd(s) \/ SystemUpdate(s) \/ SystemDelete(s) \/ SdrListen(s)
      PROVE  FInv'
  BY <1>1, RebuildKeepsFiles, RestartKeepsFiles
     DEF SystemAdd, SystemUpdate, SystemDelete, SdrListen
<1>2. ASSUME NEW s \in Systems, HubListen(s) PROVE FInv'
  <2>1. CASE CommitAndRestart(TRUE) \/ CommitAndRebuild
    BY <2>1, RebuildKeepsFiles, RestartKeepsFiles
  <2>2. CASE UNCHANGED <<table, files, decoder, center, sticks, degraded>>
    BY <2>2, LeavesFiles
  <2> QED
    BY <1>2, <2>1, <2>2 DEF HubListen
<1>3. ASSUME NEW k \in Keys, KeyAdd(k) \/ KeyDelete(k) PROVE FInv'
  <2>1. KeysChanged \/ Degrade(TRUE)
    BY <1>3 DEF KeyAdd, KeyDelete
  <2> QED
    BY <2>1, KeysKeepFiles, Degrades
<1>4. CASE DeviceSave
  BY <1>4, RebuildKeepsFiles DEF DeviceSave
<1>5. CASE SdrStop \/ AprsStart \/ AprsStop \/ Plug \/ Unplug
  <2>1. UNCHANGED <<table, files, degraded>>
    BY <1>5 DEF SdrStop, AprsStart, AprsStop, Plug, Unplug
  <2>2. UNCHANGED decoder \/ sdrtrunk' = FALSE
    BY <1>5 DEF SdrStop, AprsStart, AprsStop, Plug, Unplug, EnsureAprsRf, StopDecoder, Unloads
  <2> QED
    BY <2>1, <2>2, LeavesFiles
<1>6. CASE HubStart
  <2>1. PICK outcome \in Outcomes :
          RestartDecoder(playlist, keyFile, center, outcome) /\ Degrade(outcome = "kept")
    BY <1>6 DEF HubStart
  <2>2. ASSUME outcome # "kept", degraded = 0 PROVE Follow'
    <3>1. Loaded'
      BY <1>6, <2>1, <2>2, RestartLoads DEF Loaded, HubStart, files
    <3> QED
      BY <1>6, <2>2, <3>1 DEF FInv, Follow, HubStart, files, table
  <2>3. (outcome = "kept") \in BOOLEAN
    BY Zenon
  <2> QED
    BY <2>1, <2>2, <2>3, Degrades
<1>7. CASE DecoderCrashes
  <2>1. UNCHANGED <<table, files, degraded>> /\ loaded' = keyFile
    BY <1>7 DEF DecoderCrashes, Loads
  <2> QED
    BY <2>1, LeavesFiles
<1>8. CASE SdrApply
  <2>1. PICK written \in BOOLEAN, outcome \in Outcomes :
          /\ Rebuild(written)
          /\ RestartDecoder(playlist', keyFile', ListeningCenter(center, playlist'), outcome)
          /\ degraded' = IF written /\ outcome # "kept" THEN 0 ELSE MaxBroken
    BY <1>8 DEF SdrApply
  <2>2. CASE written /\ outcome # "kept"
    <3>1. Loaded'
      BY <2>1, <2>2, RestartLoads DEF Loaded
    <3>2. Rebuild(TRUE) /\ degraded' = 0
      BY <2>1, <2>2
    <3> QED
      BY <3>1, <3>2, RebuildFollows DEF FInv
  <2>3. CASE ~(written /\ outcome # "kept")
    <3>1. degraded' = MaxBroken
      BY <2>1, <2>3
    <3> QED
      BY <3>1, BoundAssumption DEF FInv
  <2> QED
    BY <2>2, <2>3
<1>9. CASE UNCHANGED vars
  BY <1>9, LeavesFiles DEF vars
<1> QED
  BY <1>1, <1>2, <1>3, <1>4, <1>5, <1>6, <1>7, <1>8, <1>9 DEF Next

(* Whatever page is used in whatever order, as long as none has failed     *)
(* half way or an apply has made up for it: the playlist is that of the    *)
(* table, the key file has its keys, and a running decoder those of the    *)
(* file (rebuild_default_playlist, write_decoder_keyfile).                 *)
THEOREM Followed == Spec => []FilesFollow
<1>1. Init => FInv
  BY DEF Init, FInv, Follow, Loaded
<1>2. FInv => FilesFollow
  <2> SUFFICES ASSUME FInv, degraded = 0
               PROVE  /\ playlist # NoFile => playlist = PlaylistOf(Order, rows, slots)
                      /\ secrets = keyRows => keyFile = keyRows
                      /\ sdrtrunk => loaded = keyFile
    BY Zenon DEF FilesFollow
  <2> QED
    BY DEF FInv, Follow, Loaded
<1> QED
  BY <1>1, <1>2, FilesStep, PTL DEF Spec

--------------------------------------------------------------------------------
(* What the pages show and what is written.                                *)

(* A set of numbers has a least one.                                       *)
LEMMA LeastNumber ==
  ASSUME NEW T, T \subseteq Nat, T # {}
  PROVE  \E m \in T : \A k \in T : m <= k
<1> DEFINE Runs == {0 .. k : k \in T}
           R == StrictSubsetOrdering(Nat)
<1>1. IsWellFoundedOn(R, FiniteSubsetsOf(Nat)) BY FS_StrictSubsetOrderingWellFounded
<1>2. Runs \subseteq FiniteSubsetsOf(Nat) /\ Runs # {}
  <2>1. ASSUME NEW k \in T PROVE 0 .. k \in SUBSET Nat /\ IsFiniteSet(0 .. k)
    <3>1. 0 \in Int /\ k \in Int OBVIOUS
    <3> QED BY <3>1, FS_Interval
  <2> QED BY <2>1 DEF FiniteSubsetsOf
<1>3. PICK run \in Runs : \A other \in Runs : ~(<<other, run>> \in R)
  <2> HIDE DEF Runs, R
  <2> QED BY <1>1, <1>2, WFMin
<1>4. PICK m \in T : run = 0 .. m OBVIOUS
<1>5. ASSUME NEW k \in T, k < m PROVE FALSE
  <2>1. 0 .. k \in Runs /\ 0 .. k \subseteq 0 .. m /\ 0 .. k # 0 .. m 
    <3>1. k \in Nat /\ m \in Nat /\ m \in 0 .. m /\ m \notin 0 .. k BY <1>5
    <3> QED BY <1>5, <3>1
  <2>2. 0 .. k \in SUBSET Nat /\ 0 .. m \in SUBSET Nat OBVIOUS
  <2>3. <<0 .. k, 0 .. m>> \in R BY <2>1, <2>2 DEF StrictSubsetOrdering
  <2> QED BY <1>3, <1>4, <2>1, <2>3
<1> QED BY <1>5


(* The counts of the two loops, and what they have handed tuners to.       *)
Autos(list) == {k \in DOMAIN list : list[k].auto}
AutosBefore(list, j) == {k \in 1 .. j - 1 : list[k].auto}
Taken(list, tuners) ==
  {list[j].system : j \in {k \in DOMAIN list : list[k].auto /\ Cardinality(AutosBefore(list, k)) < tuners}}
Ons(flags, n) == {k \in 1 .. n : flags[k]}
Active(flags, tuners, n) ==
  {Order[i] : i \in {k \in 1 .. n : flags[k] /\ Cardinality(Ons(flags, k - 1)) < tuners}}

(* A channel more.                                                         *)
LEMMA ChannelMore ==
  ASSUME NEW list \in Seq(Channels), NEW e \in Channels, NEW tuners
  PROVE  /\ Append(list, e) \in Seq(Channels)
         /\ IsFiniteSet(Autos(list))
         /\ e.auto => Cardinality(Autos(Append(list, e))) = Cardinality(Autos(list)) + 1
         /\ ~e.auto => Autos(Append(list, e)) = Autos(list)
         /\ Taken(Append(list, e), tuners) =
              IF e.auto /\ Cardinality(Autos(list)) < tuners THEN Taken(list, tuners) \cup {e.system}
              ELSE Taken(list, tuners)
<1> DEFINE more == Append(list, e)
           last == Len(list) + 1
<1>1. /\ more \in Seq(Channels) /\ DOMAIN list = 1 .. Len(list) /\ Len(list) \in Nat
      /\ DOMAIN more = 1 .. last /\ \A i \in DOMAIN list : more[i] = list[i]
      /\ more[last] = e
  OBVIOUS
<1>2. DOMAIN more = DOMAIN list \cup {last} /\ last \notin DOMAIN list BY <1>1
<1> HIDE DEF more, last
<1>3. IsFiniteSet(Autos(list))
  <2>1. IsFiniteSet(1 .. Len(list)) BY <1>1, FS_Interval
  <2>2. Autos(list) \subseteq 1 .. Len(list) BY <1>1 DEF Autos
  <2> QED BY <2>1, <2>2, FS_Subset
<1>4. last \notin Autos(list) BY <1>2 DEF Autos
<1>5. e.auto => Autos(more) = Autos(list) \cup {last} BY <1>1, <1>2 DEF Autos
<1>6. ~e.auto => Autos(more) = Autos(list) BY <1>1, <1>2 DEF Autos
<1>7. e.auto => Cardinality(Autos(more)) = Cardinality(Autos(list)) + 1 BY <1>3, <1>4, <1>5, FS_AddElement
<1>8. \A j \in DOMAIN list : AutosBefore(more, j) = AutosBefore(list, j)
  <2>1. \A j \in DOMAIN list : \A k \in 1 .. j - 1 : k \in DOMAIN list BY <1>1
  <2> QED BY <1>1, <2>1 DEF AutosBefore
<1>9. AutosBefore(more, last) = Autos(list)
  <2>1. 1 .. last - 1 = DOMAIN list BY <1>1 DEF last
  <2> QED BY <1>1, <2>1 DEF AutosBefore, Autos
<1>10. Taken(more, tuners) =
         IF e.auto /\ Cardinality(Autos(list)) < tuners THEN Taken(list, tuners) \cup {e.system}
         ELSE Taken(list, tuners)
  <2> DEFINE Gets(s, k) == s[k].auto /\ Cardinality(AutosBefore(s, k)) < tuners
  <2>1. \A k \in DOMAIN list : more[k] = list[k] /\ (Gets(more, k) <=> Gets(list, k)) BY <1>1, <1>8
  <2>2. Gets(more, last) <=> e.auto /\ Cardinality(Autos(list)) < tuners BY <1>1, <1>9
  <2>3. /\ Taken(more, tuners) = {more[j].system : j \in {k \in DOMAIN more : Gets(more, k)}}
        /\ Taken(list, tuners) = {list[j].system : j \in {k \in DOMAIN list : Gets(list, k)}}
    BY DEF Taken
  <2> HIDE DEF Gets
  <2>4. Taken(more, tuners) = Taken(list, tuners) \cup (IF Gets(more, last) THEN {more[last].system} ELSE {})
    BY <1>2, <2>1, <2>3
  <2> QED BY <1>1, <2>2, <2>4
<1> QED BY <1>1, <1>3, <1>6, <1>7, <1>10 DEF more

(* A row more.                                                             *)
LEMMA RowMore ==
  ASSUME NEW flags, NEW n \in Nat \ {0}, NEW tuners
  PROVE  /\ IsFiniteSet(Ons(flags, n - 1))
         /\ flags[n] => Cardinality(Ons(flags, n)) = Cardinality(Ons(flags, n - 1)) + 1
         /\ ~flags[n] => Ons(flags, n) = Ons(flags, n - 1)
         /\ Active(flags, tuners, n) =
              IF flags[n] /\ Cardinality(Ons(flags, n - 1)) < tuners THEN Active(flags, tuners, n - 1) \cup {Order[n]}
              ELSE Active(flags, tuners, n - 1)
<1>1. 1 .. n = 1 .. n - 1 \cup {n} /\ n \notin 1 .. n - 1 /\ n - 1 \in Nat OBVIOUS
<1>2. IsFiniteSet(Ons(flags, n - 1))
  <2>1. IsFiniteSet(1 .. n - 1) BY <1>1, FS_Interval
  <2>2. Ons(flags, n - 1) \subseteq 1 .. n - 1 BY DEF Ons
  <2> QED BY <2>1, <2>2, FS_Subset
<1>3. n \notin Ons(flags, n - 1) BY <1>1 DEF Ons
<1>4. flags[n] => Ons(flags, n) = Ons(flags, n - 1) \cup {n} BY <1>1 DEF Ons
<1>5. ~flags[n] => Ons(flags, n) = Ons(flags, n - 1) BY <1>1 DEF Ons
<1>6. flags[n] => Cardinality(Ons(flags, n)) = Cardinality(Ons(flags, n - 1)) + 1 BY <1>2, <1>3, <1>4, FS_AddElement
<1>7. Active(flags, tuners, n) =
        IF flags[n] /\ Cardinality(Ons(flags, n - 1)) < tuners THEN Active(flags, tuners, n - 1) \cup {Order[n]}
        ELSE Active(flags, tuners, n - 1)
  <2> DEFINE Gets(k) == flags[k] /\ Cardinality(Ons(flags, k - 1)) < tuners
  <2>1. /\ Active(flags, tuners, n) = {Order[i] : i \in {k \in 1 .. n : Gets(k)}}
        /\ Active(flags, tuners, n - 1) = {Order[i] : i \in {k \in 1 .. n - 1 : Gets(k)}}
        /\ Gets(n) <=> flags[n] /\ Cardinality(Ons(flags, n - 1)) < tuners
    BY DEF Active
  <2> HIDE DEF Gets
  <2> QED BY <1>1, <2>1
<1> QED BY <1>2, <1>5, <1>6, <1>7

--------------------------------------------------------------------------------
(* list is the recursive function that SystemsFromRows takes the last of.  *)
Kept(before, order, sys, n) ==
  LET row == sys[order[n]]
  IN  IF row # NoRow /\ row.enabled /\ row.tuned
        THEN Append(before, [system |-> order[n], auto |-> row.auto]) ELSE before
Keeping(order, sys, n, list) ==
  list = [m \in 0 .. n |-> IF m = 0 THEN <<>> ELSE Kept(list[m - 1], order, sys, m)]

(* That function exists, by the least length that would have none.         *)
LEMMA KeepingExists ==
  ASSUME NEW order, NEW sys, NEW n \in Nat
  PROVE  \E g : Keeping(order, sys, n, g)
<1> DEFINE Without == {m \in Nat : ~\E g : Keeping(order, sys, m, g)}
<1> SUFFICES ASSUME Without # {} PROVE FALSE OBVIOUS
<1>0. Without \subseteq Nat OBVIOUS
<1>1. PICK m \in Without : \A k \in Without : m <= k
  <2> HIDE DEF Without
  <2> QED BY <1>0, LeastNumber
<1>2. CASE m = 0
  <2>1. Keeping(order, sys, 0, [i \in 0 .. 0 |-> <<>>]) BY DEF Keeping
  <2> QED BY <1>1, <1>2, <2>1
<1>3. CASE m # 0
  <2>1. m - 1 \in Nat /\ m - 1 \notin Without BY <1>1, <1>3
  <2>2. PICK g : Keeping(order, sys, m - 1, g) BY <2>1
  <2> DEFINE h == [i \in 0 .. m |-> IF i = m THEN Kept(g[m - 1], order, sys, m) ELSE g[i]]
  <2>3. ASSUME NEW i \in 0 .. m
        PROVE  h[i] = IF i = 0 THEN <<>> ELSE Kept(h[i - 1], order, sys, i)
    BY <1>3, <2>2, <2>3 DEF Keeping
  <2>4. h = [i \in 0 .. m |-> IF i = 0 THEN <<>> ELSE Kept(h[i - 1], order, sys, i)] BY <2>3
  <2>5. Keeping(order, sys, m, h) BY <2>4 DEF Keeping
  <2> QED BY <1>1, <2>5
<1> QED BY <1>2, <1>3

(* It goes over the rows one by one (systems_from_db_rows).                *)
LEMMA KeepsUnfold ==
  ASSUME NEW sys
  PROVE  \E g : /\ SystemsFromRows(Order, sys) = g[Len(Order)] /\ g[0] = <<>>
                /\ \A m \in 1 .. Len(Order) : g[m] = Kept(g[m - 1], Order, sys, m)
<1> DEFINE g == CHOOSE g : Keeping(Order, sys, Len(Order), g)
<1>0. Len(Order) \in Nat BY OrderAssumption
<1>1. Keeping(Order, sys, Len(Order), g) BY <1>0, KeepingExists
<1>2. SystemsFromRows(Order, sys) = g[Len(Order)] BY DEF SystemsFromRows, Keeping, Kept
<1> HIDE DEF g
<1>3. ASSUME NEW i \in 0 .. Len(Order)
      PROVE  g[i] = IF i = 0 THEN <<>> ELSE Kept(g[i - 1], Order, sys, i)
  BY <1>1 DEF Keeping
<1>4. g[0] = <<>> BY <1>0, <1>3
<1>5. ASSUME NEW i \in 1 .. Len(Order) PROVE g[i] = Kept(g[i - 1], Order, sys, i)
  <2>1. i \in 0 .. Len(Order) /\ i # 0 BY <1>0
  <2> QED BY <1>3, <2>1
<1> QED BY <1>2, <1>4, <1>5
(* After every row: as many channels start as rows listen, and the same    *)
(* have got a tuner.                                                       *)
Together(list, flags, tuners, n) ==
  /\ list \in Seq(Channels)
  /\ Cardinality(Autos(list)) = Cardinality(Ons(flags, n))
  /\ Taken(list, tuners) = Active(flags, tuners, n)

(* One row on, of a listening system or of another.                        *)
LEMMA RowsTogether ==
  ASSUME NEW sys \in [Systems -> Row \cup {NoRow}], NEW tuners, NEW flags, NEW before, NEW n \in 1 .. Len(Order),
         flags[n] = IsListening(sys[Order[n]]),
         IsListening(sys[Order[n]]) => sys[Order[n]].tuned,
         Together(before, flags, tuners, n - 1)
  PROVE  Together(Kept(before, Order, sys, n), flags, tuners, n)
<1> DEFINE row == sys[Order[n]]
           e == [system |-> Order[n], auto |-> row.auto]
<1>1. n \in Nat \ {0} /\ Order[n] \in Systems
  <2>1. DOMAIN Order = 1 .. Len(Order) /\ Len(Order) \in Nat BY OrderAssumption
  <2> QED BY <2>1, OrderAssumption DEF Systems
<1>2. before \in Seq(Channels) BY DEF Together
<1>3. CASE row # NoRow /\ row.enabled /\ row.tuned
  <2>1. row \in Row /\ e \in Channels BY <1>1, <1>3 DEF Row, Channels
  <2>2. flags[n] <=> e.auto BY <1>3 DEF IsListening
  <2>3. Kept(before, Order, sys, n) = Append(before, e) BY <1>3 DEF Kept
  <2> HIDE DEF e
  <2>4. /\ Append(before, e) \in Seq(Channels)
        /\ IsFiniteSet(Autos(before))
        /\ e.auto => Cardinality(Autos(Append(before, e))) = Cardinality(Autos(before)) + 1
        /\ ~e.auto => Autos(Append(before, e)) = Autos(before)
        /\ Taken(Append(before, e), tuners) =
             IF e.auto /\ Cardinality(Autos(before)) < tuners THEN Taken(before, tuners) \cup {e.system}
             ELSE Taken(before, tuners)
    BY <1>2, <2>1, ChannelMore
  <2>5. /\ flags[n] => Cardinality(Ons(flags, n)) = Cardinality(Ons(flags, n - 1)) + 1
        /\ ~flags[n] => Ons(flags, n) = Ons(flags, n - 1)
        /\ Active(flags, tuners, n) =
             IF flags[n] /\ Cardinality(Ons(flags, n - 1)) < tuners THEN Active(flags, tuners, n - 1) \cup {Order[n]}
             ELSE Active(flags, tuners, n - 1)
    BY <1>1, RowMore
  <2>6. e.system = Order[n] BY DEF e
  <2>7. Cardinality(Autos(Append(before, e))) = Cardinality(Ons(flags, n))
    BY <2>2, <2>4, <2>5 DEF Together
  <2>8. Taken(Append(before, e), tuners) = Active(flags, tuners, n)
    BY <2>2, <2>4, <2>5, <2>6 DEF Together
  <2> QED BY <2>3, <2>4, <2>7, <2>8 DEF Together
<1>4. CASE ~(row # NoRow /\ row.enabled /\ row.tuned)
  <2>1. ~flags[n] BY <1>4 DEF IsListening
  <2>2. Kept(before, Order, sys, n) = before BY <1>4 DEF Kept
  <2>3. Ons(flags, n) = Ons(flags, n - 1) /\ Active(flags, tuners, n) = Active(flags, tuners, n - 1)
    BY <1>1, <2>1, RowMore
  <2> QED BY <2>2, <2>3 DEF Together
<1> QED BY <1>3, <1>4

(* What the page shows is what is written, over any table whose listening  *)
(* systems have control channels.                                          *)
LEMMA TablesAgree ==
  ASSUME NEW sys \in [Systems -> Row \cup {NoRow}], NEW tuners,
         \A s \in Systems : IsListening(sys[s]) => sys[s].tuned
  PROVE  LET states == AssignListenStates([i \in DOMAIN Order |-> IsListening(sys[Order[i]])], tuners)
         IN  Started(PlaylistOf(Order, sys, tuners)) = {Order[i] : i \in {j \in DOMAIN Order : states[j] = "active"}}
<1> DEFINE flags == [i \in DOMAIN Order |-> IsListening(sys[Order[i]])]
           states == AssignListenStates(flags, tuners)
           list == SystemsFromRows(Order, sys)
<1>1. /\ Len(Order) \in Nat /\ DOMAIN Order = 1 .. Len(Order)
      /\ \A i \in 1 .. Len(Order) : Order[i] \in Systems
  BY OrderAssumption DEF Systems
<1>2. \A i \in 1 .. Len(Order) :
        /\ flags[i] = IsListening(sys[Order[i]])
        /\ IsListening(sys[Order[i]]) => sys[Order[i]].tuned
  BY <1>1
<1>3. PICK g : /\ list = g[Len(Order)] /\ g[0] = <<>>
               /\ \A m \in 1 .. Len(Order) : g[m] = Kept(g[m - 1], Order, sys, m)
  BY KeepsUnfold
<1> HIDE DEF flags, list
<1>4. Together(<<>>, flags, tuners, 0)
  <2>1. Autos(<<>>) = {} /\ Ons(flags, 0) = {} BY DEF Autos, Ons
  <2>2. Taken(<<>>, tuners) = {} /\ Active(flags, tuners, 0) = {} BY DEF Taken, Active
  <2>3. <<>> \in Seq(Channels) OBVIOUS
  <2> QED BY <2>1, <2>2, <2>3 DEF Together
<1>5. Together(list, flags, tuners, Len(Order))
  <2> DEFINE Apart == {m \in 0 .. Len(Order) : ~Together(g[m], flags, tuners, m)}
  <2> SUFFICES ASSUME Apart # {} PROVE FALSE BY <1>1, <1>3
  <2>1. Apart \subseteq Nat BY <1>1
  <2>2. PICK m \in Apart : \A k \in Apart : m <= k
    <3> HIDE DEF Apart
    <3> QED BY <2>1, LeastNumber
  <2>3. m # 0 BY <1>3, <1>4
  <2>4. m \in 1 .. Len(Order) /\ m - 1 \in 0 .. Len(Order) /\ ~(m <= m - 1) BY <1>1, <2>3
  <2>5. Together(g[m - 1], flags, tuners, m - 1) BY <2>2, <2>4
  <2>6. g[m] = Kept(g[m - 1], Order, sys, m) BY <1>3, <2>4
  <2>7. PICK before : before = g[m - 1] OBVIOUS
  <2>8. Together(Kept(before, Order, sys, m), flags, tuners, m)
    BY <1>2, <2>4, <2>5, <2>7, RowsTogether
  <2> QED BY <2>6, <2>7, <2>8
<1>6. Started(PlaylistOf(Order, sys, tuners)) = Taken(list, tuners)
  <2> DEFINE cut == ApplyTunerSlots(list, tuners)
  <2>1. list \in Seq(Channels) BY <1>5 DEF Together
  <2>2. ASSUME NEW i \in DOMAIN list
        PROVE  /\ cut[i].system = list[i].system
               /\ cut[i].auto <=> list[i].auto /\ Cardinality(AutosBefore(list, i)) < tuners
    <3>1. list[i] \in Channels BY <2>1
    <3>2. cut[i] = [list[i] EXCEPT !.auto = @ /\ Cardinality(AutosBefore(list, i)) < tuners]
      BY DEF ApplyTunerSlots, Before, AutosBefore
    <3> QED BY <3>1, <3>2 DEF Channels
  <2>3. DOMAIN cut = DOMAIN list BY DEF ApplyTunerSlots
  <2>4. PlaylistOf(Order, sys, tuners) = cut BY DEF PlaylistOf, list
  <2> HIDE DEF cut
  <2> QED BY <2>2, <2>3, <2>4 DEF Started, Taken
<1>7. {Order[i] : i \in {j \in DOMAIN Order : states[j] = "active"}} = Active(flags, tuners, Len(Order))
  <2>1. ASSUME NEW j \in DOMAIN Order
        PROVE  states[j] = "active" <=> flags[j] /\ Cardinality(Ons(flags, j - 1)) < tuners
    <3>1. DOMAIN flags = DOMAIN Order BY DEF flags
    <3>2. states[j] = ListenState(flags, tuners, j) BY <3>1 DEF AssignListenStates
    <3> QED BY <3>2 DEF ListenState, Before, Ons
  <2> HIDE DEF states
  <2> QED BY <1>1, <2>1 DEF Active
<1> QED BY <1>5, <1>6, <1>7 DEF Together, flags

--------------------------------------------------------------------------------
(* The rows of the table are rows.                                         *)
RowsOK == rows \in [Systems -> Row \cup {NoRow}]
(* Every handler leaves a row or none.                                     *)
LEMMA RowsStep == RowsOK /\ [Next]_vars => RowsOK'
<1> SUFFICES ASSUME RowsOK, [Next]_vars PROVE RowsOK' OBVIOUS
<1>1. ASSUME NEW s \in Systems, NEW row \in Row \cup {NoRow}, rows' = [rows EXCEPT ![s] = row] PROVE RowsOK'
  BY <1>1 DEF RowsOK
<1>2. ASSUME UNCHANGED rows PROVE RowsOK' BY <1>2 DEF RowsOK
<1>3. ASSUME NEW s \in Systems, SystemAdd(s) PROVE RowsOK' BY <1>1, <1>3 DEF SystemAdd, Row
<1>4. ASSUME NEW s \in Systems, SystemDelete(s) PROVE RowsOK' BY <1>1, <1>4 DEF SystemDelete
<1>5. ASSUME NEW s \in Systems, SystemUpdate(s) PROVE RowsOK'
  <2>1. rows[s] \in Row BY <1>5 DEF SystemUpdate, RowsOK
  <2>2. PICK tuned \in BOOLEAN : rows' = [rows EXCEPT ![s].tuned = tuned] BY <1>5 DEF SystemUpdate
  <2>3. [rows[s] EXCEPT !.tuned = tuned] \in Row BY <2>1 DEF Row
  <2>4. rows' = [rows EXCEPT ![s] = [rows[s] EXCEPT !.tuned = tuned]] BY <2>2
  <2> QED BY <1>1, <2>3, <2>4
<1>6. ASSUME NEW s \in Systems, SdrListen(s) \/ HubListen(s) PROVE RowsOK'
  <2>1. UNCHANGED rows \/ \E on \in BOOLEAN : rows[s] # NoRow /\ rows' = [rows EXCEPT ![s] = SetRowListening(@, on)]
    BY <1>6 DEF SdrListen, HubListen, table
  <2>2. ASSUME NEW on \in BOOLEAN, rows[s] # NoRow, rows' = [rows EXCEPT ![s] = SetRowListening(@, on)]
        PROVE  RowsOK'
    <3>1. rows[s] \in Row BY <2>2 DEF RowsOK
    <3>2. SetRowListening(rows[s], on) \in Row BY <3>1 DEF SetRowListening, Row
    <3>3. rows' = [rows EXCEPT ![s] = SetRowListening(rows[s], on)] BY <2>2
    <3> QED BY <1>1, <3>2, <3>3
  <2> QED BY <1>2, <2>1, <2>2
<1>7. ASSUME NEW k \in Keys, KeyAdd(k) \/ KeyDelete(k) PROVE RowsOK'
  BY <1>2, <1>7 DEF KeyAdd, KeyDelete, KeysChanged
<1>8. CASE DeviceSave \/ SdrStop \/ HubStart \/ AprsStart \/ AprsStop \/ Plug \/ Unplug \/ DecoderCrashes \/ SdrApply
  BY <1>2, <1>8
     DEF DeviceSave, SdrStop, HubStart, AprsStart, AprsStop, Plug, Unplug, DecoderCrashes, SdrApply, table
<1>9. CASE UNCHANGED vars BY <1>2, <1>9 DEF vars, table
<1> QED BY <1>3, <1>4, <1>5, <1>6, <1>7, <1>8, <1>9 DEF Next

(* What the pages show as active are the channels that were written to     *)
(* start, as long as every listening system has control channels           *)
(* (assign_listen_states, systems_from_db_rows, apply_tuner_slots).        *)
THEOREM ShownIsWritten == Spec => []ShownAsWritten
<1>1. Init => RowsOK BY DEF Init, RowsOK
<1>2. RowsOK /\ FilesFollow => ShownAsWritten
  <2> SUFFICES ASSUME RowsOK, FilesFollow, degraded = 0, playlist # NoFile,
                      \A s \in Systems : IsListening(rows[s]) => rows[s].tuned
               PROVE  Started(playlist) = Shown(slots)
    BY DEF ShownAsWritten
  <2>1. playlist = PlaylistOf(Order, rows, slots) BY Zenon DEF FilesFollow
  <2>2. PICK sys \in [Systems -> Row \cup {NoRow}] : sys = rows BY DEF RowsOK
  <2>3. PICK tuners : tuners = slots OBVIOUS
  <2>4. \A s \in Systems : IsListening(sys[s]) => sys[s].tuned BY <2>2
  <2>5. LET states == AssignListenStates([i \in DOMAIN Order |-> IsListening(sys[Order[i]])], tuners)
        IN  Started(PlaylistOf(Order, sys, tuners)) = {Order[i] : i \in {j \in DOMAIN Order : states[j] = "active"}}
    BY <2>4, TablesAgree
  <2> QED BY <2>1, <2>2, <2>3, <2>5 DEF Shown
<1> QED BY <1>1, <1>2, RowsStep, Followed, PTL DEF Spec
================================================================================
