------------------------------- MODULE SdrSources -------------------------------
(***************************************************************************)
(* The console's control of what the dongles hear: the table of radio      *)
(* systems, the traffic keys, the files written from them for the decoder  *)
(* (playlist, key file, saved tuner center), and the two services that     *)
(* want a dongle, SDRTrunk and Direwolf.                                   *)
(*                                                                         *)
(* Every page handler runs on the event loop without an await after its    *)
(* form is read, so it is one step, with one outcome per point where it    *)
(* can fail.  Both modules are installed.  A traffic key is its ALGID and  *)
(* KID; the key file and the decoder's index are sets of them.             *)
(***************************************************************************)
EXTENDS Playlist

CONSTANTS
  Order,     \* the radio systems in the order of the table
  Keys,      \* the traffic keys an operator may enter
  MaxSticks, \* bound: dongles plugged in
  MaxBroken  \* bound: handlers run since one failed half way, until all is applied

ASSUME OrderAssumption == Order \in Seq(ToSet(Order))
ASSUME BoundAssumption == MaxSticks \in Nat /\ MaxBroken \in Nat \ {0}

VARIABLES
  rows,      \* radio_systems
  keyRows,   \* traffic_keys
  secrets,   \* of these, the keys whose file is under secrets/
  sticks,    \* dongles list_sdr_devices finds
  playlist,  \* default.xml, NoFile before the first rebuild
  slots,     \* history: the tuners counted when it was written
  keyFile,   \* traffic_keys.json
  center,    \* tuner_configuration.json: Factory, or a system's control channel
  sdrtrunk,  \* the service is active
  playing,   \* the systems it decodes
  loaded,    \* the keys it has indexed
  direwolf,  \* the service is active
  excused,   \* history: both run since an unplugged stick, a start nobody gated or a failed stop
  degraded   \* history: handlers since one failed half way, 0 when all was applied

table == <<rows, keyRows, secrets>>
files == <<playlist, slots, keyFile>>
decoder == <<sdrtrunk, playing, loaded>>
vars == <<table, files, decoder, center, sticks, direwolf, excused, degraded>>

Systems == ToSet(Order)

Init ==
  /\ rows = [s \in Systems |-> NoRow] /\ keyRows = {} /\ secrets = {}
  /\ sticks = 0
  /\ playlist = NoFile /\ slots = 0 /\ keyFile = {} /\ center = NoFile
  /\ sdrtrunk = FALSE /\ playing = {} /\ loaded = {} /\ direwolf = FALSE
  /\ excused = FALSE /\ degraded = 0

--------------------------------------------------------------------------------
(* systemd, and what SDRTrunk does when it starts and stops.               *)

\* the channels of the playlist that start; a missing file has none
Startable(list) == IF list = NoFile THEN {} ELSE Started(list)

Loads(list, keys) == sdrtrunk' = TRUE /\ playing' = Startable(list) /\ loaded' = keys
Unloads == sdrtrunk' = FALSE /\ playing' = {} /\ loaded' = {}

\* on its way out SDRTrunk saves the frequency of a channel, or the factory
\* default when no channel had claimed the stick
Left(now) == IF sdrtrunk THEN playing \cup {Factory} ELSE {now}

\* service_action(unit, "stop"): systemctl may fail and change nothing
StopDecoder ==
  \/ sdrtrunk /\ Unloads /\ center' \in Left(center)
  \/ UNCHANGED <<decoder, center>>
StopDirewolf == direwolf' \in {FALSE, direwolf}

\* _restart_decoder: stop, restamp the center, start.  A decoder that does not stop
\* keeps its playlist and keys, as starting it again does nothing.
Outcomes == {"started", "failed", "kept"}
RestartDecoder(list, keys, now, outcome) ==
  \/ outcome = "kept" /\ sdrtrunk /\ UNCHANGED decoder /\ center' = ReapplyCenter(now, list)
  \/ /\ outcome # "kept"
     /\ \E left \in Left(now) : center' = ReapplyCenter(left, list)
     /\ IF outcome = "started" THEN Loads(list, keys) ELSE Unloads

\* Mutant: the decoder keeps the keys it has.
RestartNever(list, keys, now, outcome) == outcome = "failed" /\ UNCHANGED decoder /\ center' = now

RestartIfRunning(list, keys, now, outcome) ==
  IF sdrtrunk THEN RestartDecoder(list, keys, now, outcome)
  ELSE outcome = "failed" /\ UNCHANGED decoder /\ center' = now

\* both services run after this step, for this reason or an earlier one
Degrade(failed) == degraded' = IF failed \/ degraded > 0 THEN degraded + 1 ELSE 0
Excuse(reason) == excused' = (sdrtrunk' /\ direwolf' /\ (excused \/ reason))

--------------------------------------------------------------------------------
(* Who may use the only dongle.                                            *)

\* Mutant: one dongle is enough for both.
ConflictNever(peerActive) == peerActive /\ sticks < 1

\* exclusivity_conflict: the peer is active and there is no second dongle
Conflict(peerActive) == peerActive /\ sticks < 2

\* ensure_sdrtrunk_for_listen: no conflict, or a confirmed one, which stops Direwolf;
\* its exit code is not looked at
EnsureSdrtrunk == IF Conflict(direwolf) THEN StopDirewolf ELSE UNCHANGED direwolf
EnsureAprsRf == IF Conflict(sdrtrunk) THEN StopDecoder ELSE UNCHANGED <<decoder, center>>
\* Direwolf was told to stop and did not
StillThere == Conflict(direwolf) /\ direwolf'

--------------------------------------------------------------------------------
(* Files.                                                                  *)

\* write_decoder_keyfile: the rows whose secret can be read
Publishable == keyRows' \cap secrets'

\* rebuild_default_playlist over the committed table; a key file that cannot be
\* written is passed over
Rebuild(keyFileWritten) ==
  /\ playlist' = PlaylistOf(Order, rows', sticks) /\ slots' = sticks
  /\ keyFile' = IF keyFileWritten THEN Publishable ELSE keyFile

\* a handler that commits, rebuilds and leaves the decoder alone; it may raise
\* between the commit and the rebuild
CommitAndRebuild ==
  /\ UNCHANGED <<keyRows, secrets, sticks, decoder, direwolf>>
  /\ \/ \E written \in BOOLEAN :
          /\ Rebuild(written) /\ center' = ListeningCenter(center, playlist')
          /\ Degrade(~written)
     \/ UNCHANGED <<files, center>> /\ Degrade(TRUE)
  /\ Excuse(FALSE)

\* a handler that commits, rebuilds and restarts the decoder
CommitAndRestart(gated) ==
  /\ UNCHANGED <<keyRows, secrets, sticks>>
  /\ \/ \E written \in BOOLEAN, outcome \in Outcomes :
          /\ Rebuild(written)
          /\ RestartDecoder(playlist', keyFile', ListeningCenter(center, playlist'), outcome)
          /\ Degrade(~written \/ outcome = "kept")
     \/ UNCHANGED <<files, decoder, center>> /\ Degrade(TRUE)
  /\ Excuse(~gated \/ StillThere)

--------------------------------------------------------------------------------
(* Handlers of the SDR page.                                               *)

\* sdr_system_add
SystemAdd(s) ==
  /\ rows[s] = NoRow
  /\ \E auto \in BOOLEAN :
       rows' = [rows EXCEPT ![s] = [enabled |-> TRUE, auto |-> auto, tuned |-> TRUE]]
  /\ \/ CommitAndRebuild
     \/ UNCHANGED direwolf /\ CommitAndRestart(FALSE)

\* sdr_system_update: any list of control channels, the empty one too
SystemUpdate(s) ==
  /\ rows[s] # NoRow
  /\ \E tuned \in BOOLEAN : rows' = [rows EXCEPT ![s].tuned = tuned]
  /\ CommitAndRebuild

\* sdr_system_delete
SystemDelete(s) == rows[s] # NoRow /\ rows' = [rows EXCEPT ![s] = NoRow] /\ CommitAndRebuild

\* sdr_device_save, and sdr_apply without a start
DeviceSave == UNCHANGED rows /\ CommitAndRebuild

\* sdr_system_listen: off restarts the decoder too
SdrListen(s) ==
  /\ rows[s] # NoRow
  /\ \/ rows' = [rows EXCEPT ![s] = SetRowListening(@, TRUE)] /\ EnsureSdrtrunk /\ CommitAndRestart(TRUE)
     \/ /\ rows' = [rows EXCEPT ![s] = SetRowListening(@, FALSE)] /\ UNCHANGED direwolf
        /\ CommitAndRestart(FALSE)

\* sdr_apply with a start, sdr_service start and restart: nobody asks for Direwolf.
\* When all of it works, everything is as the table says again.
SdrApply ==
  /\ UNCHANGED <<table, sticks, direwolf>>
  /\ \E written \in BOOLEAN, outcome \in Outcomes :
       /\ Rebuild(written)
       /\ RestartDecoder(playlist', keyFile', ListeningCenter(center, playlist'), outcome)
       /\ degraded' = IF written /\ outcome # "kept" THEN 0 ELSE MaxBroken
  /\ Excuse(TRUE)

\* sdr_service stop, systems_sdrtrunk_stop
SdrStop ==
  StopDecoder /\ UNCHANGED <<table, files, sticks, direwolf, degraded>> /\ Excuse(FALSE)

\* what sdr_key_add and sdr_key_delete do once the row is committed: it may raise before the
\* key file is written, or before the decoder, if it runs, is restarted
KeysChanged ==
  /\ UNCHANGED <<rows, sticks, direwolf>>
  /\ \/ UNCHANGED <<files, decoder, center>> /\ Degrade(TRUE)
     \/ keyFile' = Publishable /\ UNCHANGED <<playlist, slots, decoder, center>> /\ Degrade(TRUE)
     \/ \E outcome \in Outcomes :
          /\ Rebuild(TRUE)
          /\ RestartIfRunning(playlist', keyFile', ListeningCenter(center, playlist'), outcome)
          /\ Degrade(outcome = "kept")
  /\ Excuse(FALSE)

\* add_key
KeyAdd(k) ==
  k \notin keyRows /\ keyRows' = keyRows \cup {k} /\ secrets' = secrets \cup {k} /\ KeysChanged

\* delete_key: the secret goes first and stays gone when the commit of the row raises
KeyDelete(k) ==
  /\ k \in keyRows /\ secrets' = secrets \ {k}
  /\ \/ keyRows' = keyRows \ {k} /\ KeysChanged
     \/ /\ UNCHANGED <<keyRows, rows, sticks, direwolf, files, decoder, center>>
        /\ Degrade(TRUE) /\ Excuse(FALSE)

--------------------------------------------------------------------------------
(* Handlers of the hub and of the APRS page.                               *)

\* systems_sdr_listen: off leaves the decoder as it is.  A row deleted meanwhile is
\* found missing after Direwolf was stopped.
HubListen(s) ==
  \/ /\ rows[s] # NoRow /\ rows' = [rows EXCEPT ![s] = SetRowListening(@, TRUE)]
     /\ EnsureSdrtrunk /\ CommitAndRestart(TRUE)
  \/ rows[s] # NoRow /\ rows' = [rows EXCEPT ![s] = SetRowListening(@, FALSE)] /\ CommitAndRebuild
  \/ /\ rows[s] = NoRow /\ EnsureSdrtrunk
     /\ UNCHANGED <<table, files, decoder, center, sticks, degraded>> /\ Excuse(FALSE)

\* systems_sdrtrunk_start: nothing is rebuilt
HubStart ==
  /\ EnsureSdrtrunk
  /\ \E outcome \in Outcomes :
       /\ RestartDecoder(playlist, keyFile, center, outcome)
       /\ Degrade(outcome = "kept")
  /\ UNCHANGED <<table, files, sticks>> /\ Excuse(StillThere)

\* systems_aprs_rf_start, aprs_service_action start and restart: ensure_aprs_rf, then Direwolf
AprsStart ==
  /\ EnsureAprsRf
  /\ direwolf' \in BOOLEAN
  /\ UNCHANGED <<table, files, sticks, degraded>> /\ Excuse(Conflict(sdrtrunk) /\ sdrtrunk')

\* systems_aprs_rf_stop, aprs_service_action stop
AprsStop ==
  StopDirewolf /\ UNCHANGED <<table, files, decoder, center, sticks, degraded>> /\ Excuse(FALSE)

--------------------------------------------------------------------------------
(* The world: dongles come and go, systemd restarts a crashed decoder.     *)

Plug ==
  /\ sticks < MaxSticks /\ sticks' = sticks + 1
  /\ UNCHANGED <<table, files, decoder, center, direwolf, degraded>> /\ Excuse(FALSE)
Unplug ==
  /\ sticks > 0 /\ sticks' = sticks - 1
  /\ UNCHANGED <<table, files, decoder, center, direwolf, degraded>> /\ Excuse(TRUE)
DecoderCrashes ==
  /\ sdrtrunk /\ Loads(playlist, keyFile) /\ center' \in Left(center)
  /\ UNCHANGED <<table, files, sticks, direwolf, degraded>> /\ Excuse(FALSE)

Next ==
  \/ /\ degraded < MaxBroken
     /\ \/ \E s \in Systems : SystemAdd(s) \/ SystemUpdate(s) \/ SystemDelete(s) \/ SdrListen(s) \/ HubListen(s)
        \/ \E k \in Keys : KeyAdd(k) \/ KeyDelete(k)
        \/ DeviceSave \/ SdrStop \/ HubStart \/ AprsStart \/ AprsStop
        \/ Plug \/ Unplug \/ DecoderCrashes
  \/ SdrApply

Spec == Init /\ [][Next]_vars

--------------------------------------------------------------------------------
Channels == [system: Systems, auto: BOOLEAN]

TypeOK ==
  /\ rows \in [Systems -> Row \cup {NoRow}]
  /\ keyRows \subseteq Keys /\ secrets \subseteq keyRows /\ keyFile \subseteq Keys
  /\ sticks \in 0 .. MaxSticks /\ slots \in 0 .. MaxSticks
  /\ playlist = NoFile \/ playlist \in Seq(Channels)
  /\ center \in Systems \cup {Factory, NoFile}
  /\ sdrtrunk \in BOOLEAN /\ playing \subseteq Systems /\ loaded \subseteq Keys
  /\ direwolf \in BOOLEAN /\ excused \in BOOLEAN /\ degraded \in 0 .. MaxBroken

\* Both services run on fewer than two dongles only since a dongle was unplugged, since a
\* start on the SDR page, which does not ask, or since the peer did not stop when told to:
\* the hub and the APRS page never start the second one themselves (exclusivity_conflict).
OneOwner == sdrtrunk /\ direwolf /\ sticks < 2 => excused

\* As long as no handler failed half way, and again after an apply that worked: the playlist
\* is that of the table, the key file has the keys of the table, and a running decoder has
\* indexed exactly these, so that a removed key is not matched any more.
FilesFollow ==
  degraded = 0 =>
    /\ playlist # NoFile => playlist = PlaylistOf(Order, rows, slots)
    /\ secrets = keyRows => keyFile = keyRows
    /\ sdrtrunk => loaded = keyFile

\* the systems the SDR page shows as active when it counts so many tuners
Shown(tuners) ==
  LET states == AssignListenStates([i \in DOMAIN Order |-> IsListening(rows[Order[i]])], tuners)
  IN  {Order[i] : i \in {j \in DOMAIN Order : states[j] = "active"}}

\* What the SDR page shows as active (assign_listen_states) are the channels that were written
\* to start (systems_from_db_rows, apply_tuner_slots), as long as every listening system has
\* control channels: one that has none takes a tuner on the page and none in the playlist.
ShownAsWritten ==
  (degraded = 0 /\ playlist # NoFile /\ \A s \in Systems : IsListening(rows[s]) => rows[s].tuned)
    => Started(playlist) = Shown(slots)

\* What the docstring of _restart_decoder says: after a restart from the console the center is that of
\* a listening system.
RestartOnListening ==
  [][(HubStart \/ SdrApply) /\ playlist' # NoFile /\ Started(playlist') # {}
       => center' \in Started(playlist') \cup {NoFile}]_vars
================================================================================
