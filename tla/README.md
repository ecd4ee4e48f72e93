# RadioTAK: a TLA+ verification project

RadioTAK is an appliance that hears radios (an SDRTrunk decoder for trunked
systems, Direwolf and APRS-IS for APRS), decides which of them may be shown, and
forwards their positions to TAK servers as Cursor-on-Target (CoT) messages. It is one
Python process (FastAPI, asyncio, SQLite) with worker threads, and a set of
Java classes patched into the decoder. This directory models what it keeps and how its parts
act on each other in TLA+, model-checks that with TLC, and proves its most important properties with
TLAPS. All paths below are relative to `src/`.

## 1. Inventory

| Component | State it keeps | Operations | Correct when |
|---|---|---|---|
| TAK connection manager, `radiotak/gateway/tak/__init__.py` (`TakConnectionManager`) | bounded queue, task, stop event, connection state, backoff, counters | `enqueue` (any thread), `start`, `stop`, `_run`, `_connect_and_pump`, `_drain_queue` | reports go out in order and at most once, losses are counted, a failure is retried, a stop ends the task |
| TAK registry and runtime, same file (`TakManagerRegistry`) and `radiotak/services/tak_runtime.py` | server id → manager | `upsert`, `replace`, `enqueue_all`, `enqueue_for`, `stop_all`, `restart` | every running manager is reachable, a deleted server has none, one session per device uid |
| TAK enrollment, `radiotak/gateway/tak/enrollment.py` and the `/tak` pages | certificate and key files, the row of the server | `enroll_client`, `import_integration_cert_zip`, `import_pkcs12`, save, delete | a certificate has its own key and is the one shown, an enrolled server is connected to |
| Location pipeline, `radiotak/gateway/pipeline.py` | `dedupe.last_sent`, listeners | `process_dict`, `process_event`, `process_decode` | rate limit, heartbeat of stationary radios, and no report suppressed without one that stands for it |
| Allowlist, `radiotak/gateway/identities.py`, `modules/aprs_rf_gateway/service.py`, the `/units` pages, `radiotak/services/heard_history.py` | `RadioIdentity` rows | `find_identity`, `observe_or_create`, `ensure_aprs_unit_approved`, `is_forward_allowed`, pages, `clear_heard_history` | a blocked radio is not forwarded, only the operator (or auto-approval) approves |
| Listening sources and tuner, `radiotak/services/listening.py`, `modules/sdr_location_gateway` | the table of systems, playlist, key file, tuner center, which decoder runs | start, stop, listen, apply, key and device pages | one decoder per dongle, the files follow the table, what is shown as active was written |
| Encrypted calls, `radiotak/services/encryption_archive.py`, `traffic_keys.py`, `process_decode` | archive rows, last call of an identity, keys | `record_decode`, `observe_call`, `collect_heard_keysets`, ALGID and KID rules | a call is one row, a heard keyset is the key of the call |
| Update job and decoder upgrade, `radiotak/services/updater.py`, `modules.py`, `radiotak/platform` | state file, job thread, upgrade flag, checkout, decoder build | `start_update_job`, `_run_update_job`, `update_now`, `reconcile_update_state_on_startup`, `upgrade_decoder_async` | one job at a time, it always ends, its outcome is the truth, the decoder follows the checkout |
| NDJSON client of the decoder, `integrations/sdrtrunk/patch/NdjsonTcpClient.java` | bounded queue, socket, running and peer-closed flags, three kinds of threads | `send`, `runLoop`, `startPeerWatch`, `stop` | decoder threads never block, a dead connection is noticed and replaced, oldest lines go first |
| NDJSON listener and replay, `modules/sdr_location_gateway/sdrtrunk/adapter.py` | connection counters | `listen_ndjson_tcp`, `replay_jsonl` | a bad line does not end the feed |
| APRS gateway, `modules/aprs_rf_gateway` | two feed tasks, packet queues, consumer threads, KISS decoder | `_rf_loop`, `_is_loop`, `_handle_position`, `start_service`, `stop_service` | frames are whole, packets are ingested in order and once, but for what a thread left behind brings |
| Hubs and event bus, `radiotak/gateway/events.py`, `sdrtrunk/audio.py`, `spectrum.py` | subscriber queues | `publish`, `subscribe`, websocket handlers | a slow page disturbs no other, and is sent the newest |
| Alerts, `radiotak/services/alerts.py` | seen and acknowledged ids, in memory | `collect_alerts`, `acknowledge` | acknowledged stays acknowledged, announced once |
| Settings and sessions, `radiotak/services/settings_store.py`, `radiotak/auth` | `settings.json`, `auth.json`, the secret key | load with migration, save, set-up, log-in | a session lasts, what is saved is loaded |
| Decoder exporters (Java), CoT formatting, retention, audit, installers, browser scripts and others | | see `PROJECT.json` | |

How they interact. The decoder's exporters send lines through `NdjsonTcpClient` to
the listener, which runs the pipeline on the event loop. The APRS feeds run the
pipeline in worker threads (`asyncio.to_thread`), so two threads and the loop share the
dedupe table, the manager registry and the database, each with its own session. The
pipeline asks the allowlist, and gives CoTs to the managers through the registry; each
manager's task, on the event loop, drains its queue to its server. Pages change
servers, certificates, units, sources and settings from the event loop, and start the update job, a thread
whose last step has systemd replace the process. What the pipeline does is published to the hubs, whose websockets are
read by the open pages.

What is hard here: calls of worker threads between any two statements of the loop's
code; state read before a commit or an `await` and used after it; managers that outlive
the wait for their stop; commits that raise "database is locked" half way; several files written one after
the other, or emptied before they are written; a job whose state file outlives its thread, and an installer that is killed with it;
a set that a thread changes while the loop walks it; sockets that die silently and threads left behind on
them. `PROJECT.json` lists each of these at its line under `hazards`.

## 2. Modules

| Module | Models | Composes / implements |
|---|---|---|
| `LossyFifo` | the promise of an outbound channel: a subsequence of the accepted items is delivered, in order, each once | abstract |
| `TakConnection` | one manager: `enqueue` in three steps per thread, the task with all its awaits, backoff, `start`, `stop`, dry run | implements `LossyFifo` |
| `TakRegistry` | requests that restart, test and delete one server, the tasks of the managers they make, the presence the server sees | coarser `TakConnection` tasks |
| `Credentials` | enrollment, import, save and delete of one server, for its files, its row and its manager | `RestartManager` stands for `TakRegistry` |
| `LocationPipeline` | `process_event` in the loop and in APRS threads, the routing to managers | `Observe` stands for `AllowList` |
| `AllowList` | the rows of one radio id, stale sessions, auto-approval, pages, clear | |
| `Playlist` | the channels of the playlist and their tuners, as functions of the table | |
| `SdrSources` | the handlers that change or start what the dongles hear, each with its points of failure | extends `Playlist` |
| `CipherIds` | the readings of ALGID and KID, as functions | |
| `EncryptedCalls` | `process_decode`: match, last call, archive, purge; the key pages | extends `CipherIds` |
| `UpdateJob` | job thread, state file, reconciliation, systemd, upgrade thread | |
| `NdjsonClient` | decoder threads, export thread, socket watchers, stop | implements `LossyFifo` |
| `LiveHubs` | the event bus and the frame hubs with their websockets | |
| `Alerts` | alerts, worked out by each request, and the store of what was seen and acknowledged | |
| `ConsoleFiles` | `settings.json` and `auth.json`, written in place by the loop and by a thread; sessions | |
| `KissStream` | the KISS decoder over connections cut off anywhere | |
| `AprsFeeds` | the APRS-IS loop, its consumer threads and their queues | |
| `Console` | the sum of `Credentials`, `LiveHubs`, `Alerts`, `ConsoleFiles`, `KissStream`, `AprsFeeds` and `EncryptedCalls` | instances of them |
| `MC*` | values of the constants and symmetry | |
| `*Proofs` | theorems about the module they are named after | |

**TakConnection.** A CoT is the number of its append; its age is `horizon` (items up to
it are older than `stale_drop_seconds`). `phase[p]` is where thread `p` is inside
`enqueue` (lines 139-146); `pc` is the await the task stands at; `stop` is the event,
`stopping` counts calls of `stop()` that wait. Code of the event loop is atomic between
two awaits with respect to other coroutines and to an `enqueue` of the loop itself, never
with respect to worker threads. One exception: `Drain` takes the test for emptiness (210) and the popleft (212) as one step.
For the queue to be emptied in between, as many threads would have to stand between their eviction and their append as the
queue is long (200); the popleft would raise, and the connection be retried. Presence reports are counted by the code in both
`cot_generated` and `cot_sent`; they cancel in every property and are left out.

**TakRegistry.** `entry` is `_managers[server_id]`; requests are coroutines that give way
only in the 5 s wait of `stop()`. `overlap` (two requests have waited at a time) and `late`
(a task outlived the wait) are history variables: the properties hold without these
two events, and fail with them, which is how far the code goes.

**Credentials.** Certificates and keys are named after the enrollment or the upload they came with.
A request gives way while it waits for the Marti answers and while the old manager stops; a write to the store is not undone
when a later step fails: `Fails` is a commit that raises, or the reading of the certificate before it, and `StoreFails` the commit of an
enrollment. An import awaits nothing between its files and its commit and is one step, with one outcome per point where it can fail; a write of a
file that fails is not modelled. A PKCS#12 file may hold no key or no certificate; without a certificate the import succeeds all the
same, and the row names the old `client.pem` and shows nothing of it (`Blank`). `mixed` records that an import or a commit failed, that a PKCS#12 file came
without a key or a certificate, or that an enrollment was overtaken or cut off: after that, certificate and key
may differ. A server is added with a manager that runs dry (it counts reports as sent), so
`EnrolledIsReal` asks that every way to a certificate replaces it; a request that wrote the missing file and then failed (`failed`) does not, until
the next save or restart.

**LocationPipeline.** Positions less than `min_move` apart are one place; the clock ticks in
seconds. The gate (`GateDrop`, `GatePass`) reads `lastSent` at line 301, `Remember` writes
it at line 384, the commits lie in between. `alone` is the set of radios of which no two
calls have overlapped and none failed after its gate; the interval and the heartbeat are
promised for those, and `pipeline_two_feeds` shows what happens to the others.
The servers are rows that `tak_add` inserts and `tak_delete` removes; nothing in the source
clears `enabled`, and a deleted server's manager stays in the registry. A report for a server
that is not registered yet goes to the managers of the others (`unserved`), which
`AprsEnqueuedOnce` excepts.
`enqueue_all` is one step, although the code iterates a live dict.

**AllowList.** One radio id, several rows, numbered as they are inserted: the id is a UUID and
never used again, and a query returns rows in the order of insertion. `job[t]` is what thread `t` holds in
its session; a commit writes only the changed columns, and a row deleted meanwhile makes
it fail. `quiet`, `barred` and `granted` are history.

**SdrSources** and **Playlist.** A system has control channels or none (`tuned`), and is listening or not;
`AssignListenStates` and `ApplyTunerSlots` are the two counts of tuners, one for the page and one for the
playlist, and `SystemsFromRows` is the loop that leaves out what the playlist has no channel for. Every handler is one step, since none awaits after its form is read, with one outcome
per point where it can fail. Stopping SDRTrunk saves the tuner center (`Left`), starting it reads the
playlist and indexes the keys (`Loads`). `degraded` counts handlers since one failed half way, until an apply that
worked; `excused` records that both services run for a reason the console does not gate.

**CipherIds** and **EncryptedCalls.** A text is its digits and whether it has the prefix 0x;
the readings are those of `coerce_algid`, `coerce_kid`, `parse_int_id`, `resolve_encryption_ids` and
`str()`, in the order in which the pipeline, the pages and the key form apply them. The clock goes
in steps of the dedupe window's scale, and events may arrive with an older time.

**UpdateJob.** Steps of `_run_update_job` as the thread's program counter. The helper runs
`systemctl restart` and waits; systemd ends the whole control group, the waiting client
included, so the answer to the job is never 0 (`Answered`). On DevPlatform a restart is a
no-op that succeeds. `Reconciled` is applied at `Boot`. `Raise` is a write of the state file
that fails, in a log line or a result. `lost` records a job that ended, or never began, without saving that: the save of its final
state failed, `current_version()` raised before the `try` (486), or the thread could not be started after "running" was saved (560). These are the ways in which a state
stays "running" without a thread until the next start of the process. `Script` is the decoder's `install.sh`, run by the job or by the
upgrade thread: it downloads, removes the old build, unpacks and moves the new one, and marks it; the process may end, and the script fail, between
any two of these. `decoder` is `None` for a build without its mark, which is installed again, and `NoApp` for none at all, which `Needed` takes for nothing to
upgrade: `DecoderFollows` excepts an installation left that way (`Stripped`). It holds once no more updates are started, as each of them restarts the process and kills the install
the start-up check has begun. An installer that outlives the 900 s of `run_priv` is not modelled.

**NdjsonClient.** `send` is offer, poll, offer; `closeQuietly` is one step; a connection is
assigned and its watcher started in one step, since the order of those statements cannot
be observed by the older watcher's flag write, which is a step of its own.

**LiveHubs.** `hub` picks the event bus or a frame hub; the audio and the spectrum hub
work the same but for the sound of encrypted calls. The bus discards a subscriber whose queue is full,
a frame hub drops that queue's oldest frame. `publish` of the bus is a walk over the set of subscribers, by the loop as by a thread:
it begins (`Publish`), puts the event in one queue at a time (`Deliver`), raises when the set has another size than when it began (`WalkEnds`), and discards the
full ones afterwards (`Discard`). A thread may discard during the loop's walk: the loop's publish raises, and the pages behind miss that event (`disturbed`, which
`LoopEventsArrive` excepts for their arrival, and not for order). `put_nowait` on one queue is one step. The frame hubs are published to by the loop only. The greeting of a
page is sent before the `try`, so that a page that leaves during it leaves its queue behind (`leaked`).

**Alerts.** An id is a sequence of words. Each request works out the alerts from the state of the host,
the decoder and the servers (`world`) and hands over what it knows; `Pruned` forgets what is no longer listed.

**ConsoleFiles.** A change of the settings is a load, `write_text`'s open, which empties the file, and its write: three steps
(`Begin`, `OpenSettings`, `EndSettings`, and the same for the thread of a pipeline, which loads, migrates an old default and writes back what it read). The other side may load, open or write,
or the process end, in between, so that what is written may be stale, or made of a file that the other had just emptied. The session is checked before the form is awaited (`asking`), the
settings are loaded after. `cut` is set when a write does not end, when two overlap, and when the loop goes on to write what it made of an empty file: it may then make a new secret key,
with which every session ends.

**KissStream**, **AprsFeeds.** Bytes are the four that matter to KISS and any other. The stream is what
was sent and a cursor in it (`place`: the frame, the byte, and the half of an escape); `Byte` is what Direwolf writes there, `Feed` what the decoder does with it. A connection that
ends leaves the decoder as it is for the next one (`Drop`); a read that raises, and a consumer that leaves `kiss_frames`, take decoder and bytes with them (`Leave`). A consumer thread of APRS-IS reads
packets and asks the event loop to queue each one; a thread that is left behind may connect again by itself (`immortal=True`). Its callback reads the variable `queue` of the
call of `_is_loop` that made it, which each round binds anew: all callbacks of one call put into the newest queue (`Sharers`, `sees`), and a consumer left behind (`strays`) makes the running loop ingest packets twice or out
of order. `IngestedInOrder` excepts these; a call of `_is_loop` that a stop ended has its own variable, and what is left of it brings nothing. The executor starts a consumer at once.

**Console.** The seven components share no variable. The initial state picks one of them (`part`), whose
steps are then the steps of the run, and the variables of the others rest: the run explores the sum of the
seven state spaces, not their product.

## 3. Runs

| Run | Shows | Bounds |
|---|---|---|
| `tak_safety` | accounting, order, meaning of "connected", refinement of `LossyFifo` | three threads, queue of 2, 5 calls of `enqueue`, 2 waiting stops |
| `tak_liveness` | a stop ends the task, a failure is retried, the queue moves | two threads, 3 calls, one waiting stop |
| `registry` | no orphan, deleted servers stop, last presence is "online" | two requests, three managers |
| `pipeline` | interval, heartbeat, cover of suppressed reports | two threads, no server, two stations, two places, 3 reports, clock 0 to 2 |
| `pipeline_two_feeds` | **violated**: two feeds forward one station twice within the interval | no faults needed |
| `pipeline_routing` | each manager gets the CoT styled for its server, and an APRS report once | loop and two threads, two servers, one place, 2 reports, no time |
| `allow` | hard block, auto-approval in time, operator's approval | two feeds and the loop, two inserted rows, three reports |
| `update` | one job, busy means alive, done means new, jobs end, the decoder follows | two releases, two faults (crash, failed write, thread not started, outside restart); `install.sh` killed or failing at any step |
| `update_reported` | **violated**: a job that had the console restarted ends as "failed" | no faults |
| `ndjson` | one connection, dead peers noticed and replaced, refinement of `LossyFifo` | two threads, queue of 2, 3 lines, 2 connections |
| `sources` | one owner of the only dongle, files that follow the table, what is shown as active was written | two systems, one key, up to two dongles, one handler after one that failed half way |
| `console` | certificates and keys belong together and enrolled servers are connected to; events and frames arrive; alerts stay acknowledged and are announced once; sessions last and settings are loaded as saved; frames whole, packets in order; keysets and archived calls | per part, in `MCConsole.cfg`: two requests and three certificates; two pages, one thread, queues of one, three events or frames; six states of the world, two acknowledgements; two browsers, one password, three secret keys; two KISS frames of two bytes; two connections, queues of one, two packets; one radio, five algorithms, four times |

Why the bounds suffice: every interesting event needs one overflow of a queue, one
replaced manager, one pair of overlapping calls, one failure half way or one restart, and each bound allows at
least one more than that, so that the event meets the state left by an earlier one. The managers' and
the decoder client's queues of two show order and eviction; the hubs and the feeds show them with queues of one, since what is held there is the queue with what is on its way. Three managers a replaced replacement, two releases a decoder that
lags behind, two systems a dongle too few, two connections a thread left behind, and the five algorithms
are one of each kind the readings tell apart (with a name, with a letter in the number, without a name, not of the registry).
`LocationPipeline` with two servers and a clock is too large for a run of minutes; the interval and the heartbeat do not
depend on servers, and routing does not depend on time, so each has a run of its own. Deadlock is checked only where
the system cannot stop: bounded inputs make the others stop, and their cfg says so.

Fairness. `TakConnection`: the event loop runs what is ready, and every await
ends one way or the other (a sleep, a connect, a write, the wait of `stop()`); which way is never assumed,
and nobody has to call anything. `UpdateJob`: threads run, commands come to an end,
systemd stops and restarts the service (`Restart=always`); a step that can fail may always
fail, and `install.sh` need not get on. That a command comes to an end assumes that it closes its output: the time-out of `_stream_cmd` does not
act while it stays open. `NdjsonClient`: the export and watcher threads run and their calls return; sending and stopping are
not assumed. The other modules state safety only, and no fairness.

### Disagreements

Two runs end in a counterexample and are `findings` in `PROJECT.json`: the rate limit with two feeds, and the
successful update reported as failed. Five more sentences of the repository do not hold; their configurations are
kept beside the modules, to be run by hand:

| cfg (module) | Property | The sentence | What the counterexample shows |
|---|---|---|---|
| `MCAllowClear.cfg` (`MCAllowList`) | `ApprovedKept` | docstring of `services/heard_history.py`: approved units are kept | a feed approves a row between the select and the delete of the clear |
| `UpdateOneInstall.cfg` (`UpdateJob`) | `OneInstall` | the lock in `services/modules.py:143` | the job installs the decoder at `updater.py:467` without it, beside the upgrade thread |
| `SourcesCenter.cfg` (`MCSdrSources`) | `RestartOnListening` | docstring of `_restart_decoder`, `modules/sdr_location_gateway/router.py:47`: "onto the listening CC" | the first channel of the playlist is stamped, listening or not |
| `ConsoleAck.cfg` (`MCConsole`) | `AckHoldsForAll` | docstring of `services/alerts.py`: "acknowledgements suppress until the condition clears" | of the idle waterfall only one of the requests knows; the others make the store forget its acknowledgement |
| `ConsoleCipher.cfg` (`MCConsole`) | `UnknownStaysNamed` | comment of `ALGID_NAMES` in `services/traffic_keys.py` | an algorithm outside the registry whose number reads as another one is shown as that one |

One more is an exception in `SavedIsLoaded`: the migration of `settings_store.py:91` takes a stale time of 120 s that an operator
of a fresh installation chose for the old default, and makes it 1200 s.

## 4. Proofs

Each is for every value of the constants, under the named assumptions of the module, which TLC evaluates on every run.

| Module | Theorems | Inductive invariant, and why it is needed |
|---|---|---|
| `TakConnectionProofs` | `TypeCorrect`, `QueueBounded`, `Ordered`, `Accounted`, `ConnectedLive`, `Implements` | A thread that has passed the length test is a claim on a place: queue and claims are counted together, with the cardinality of the set of claiming threads. The queue is a run of consecutive numbers that ends with the last append, and everything written precedes it; each step is then an `Accept`, a `Deliver` or a stutter of `LossyFifo`. |
| `TakRegistryProofs` | `NoneOrphaned`, `DeletedStop`, `SessionOnline`, `OneUser` | `Orderly`, up to the first overlap: at most one request waits, for the registered manager; every other manager was told to stop, and has left its session unless a wait ran out. |
| `LocationPipelineProofs` | `IntervalKept`, `HeartbeatIsKept`, `Covered` | `last_sent` is the last forward of a radio, except while the one call that will write it is between its gate and `Remember`; every entry is backed by a forward. |
| | `EnqueuedOnce` | `OInv`: every call has a report of its own (`OwnReport`); the managers it has still to give it to lack it, unless a server had none (`NotYet`); a manager that has it has it once, in its own style or in none (`Once`). Only the event loop routes a report again (`Again`), and the property is about the threads'. |
| `AllowListProofs` | `OnlyOperator`, `HardBlockHolds`, `ApprovedInTime` | For the operator: without auto-approval no call gets to the steps that approve, and the edit form has read what is there. For the other two: what a session has read stays true of the table under the steps of the other feeds (`StaysBlocked`, `StaysApproved`), because `find_identity` takes the oldest row and theirs are younger (`Extends`); that there is an oldest one is well-foundedness of the natural numbers. |
| `UpdateJobProofs` | `OneAtATime`, `BusyAlive`, `DoneNew` | Only the last thread is alive; a file that says busy is answered by it; the tree is fresh from the fetch on. |
| `NdjsonClientProofs` | `OneAtMost`, `Implements`, `Refused` | What is open is the socket the step holds; as in `TakConnection`, the queue is a run of numbers behind what was written. |
| `SdrSourcesProofs` | `OneOwns`, `Followed` | Both services run only with an excuse; unless degraded, playlist, key file and loaded keys are those of the table. |
| | `ShownIsWritten` | That the playlist is the table's is `Followed`; what is left is about the two counts. The page counts the listening systems up to a position, the playlist the channels that `SystemsFromRows` kept; by induction over the position, the kept channels are those of the listening systems, in order, so that the n-th of one is the n-th of the other (`RowsTogether`, `TablesAgree`). |
| `ConsoleProofs` | `Shown`, `Real`, `Cleaned` | `IInv`: what a request has stored and not yet committed is what lies in the files, as long as no other request came between and none failed; the row then catches up in one step. A manager that does not connect is one whose row or files lack something, unless a request has failed since it was made. |
| | `EventsArrive`, `FramesFresh` | `HubsInv`, of all a page holds: shown, on its way and queued, in this order. Taking and sending move an element within it; publishing puts a greater number at its end; dropping the oldest of the queue takes one out of its middle (`DropHeld`), which leaves the order, and the newest is put behind. Of the event the loop is walking with: a page the walk has met holds it last or is to be discarded, any other holds older ones only (`Marked`), and unless a thread disturbed the walk nobody but these two is subscribed. |
| | `AckLasts`, `AnnouncedOnce` | `AlertsInv`: what lasts since it was acknowledged is still in the store with its age, and what was announced and lasts was seen by the last request. Both but for the idle waterfall, because the requests agree on every other condition (`SameConditions`). |
| | `SessionsKept`, `SavedKept` | `FilesInv`: not the file alone but every copy of it, in the write of the loop, in what it writes after that and in the thread's hand, has the key of the sessions (`OneKey`), until `cut`; an empty file has a writer. What the operator saved is in the file or in the loop's write, and no thread is writing an older one (`LastSaved`). |
| | `FramesKept` | `KissInv`: what the decoder holds is the payload up to the cursor, unless a connection ended in it; the escape flag is the half of an escape at the cursor. |
| | `PacketsInOrder` | `FeedsInv`: what one consumer brought is in order, ingested before queued before asked for before still to be read (`Chain`); only the present connection and the strays put packets into the present queue (`Own`); what anyone else has brought was read before the present connection was made (`Older`). |
| | `KeysetFilled`, `CallsOnce` | `CallsInv`: what is remembered of a radio are the texts of its call's ids. That the texts are read back as those ids, for every number, is induction on the digits (`ReadBack`); that the text of an algorithm of the registry, decimal or hexadecimal, is never taken for that of another is a case analysis over the registry (`AlgidRead`). `RecordDecode` adds a row only if none of the key is within the window, and merging moves no row's time. |
| | `ServesCredentials` | `ConsoleInv` puts the invariants together by `part`; a step of the console is a step of that component. |

Theorems whose property is in no run (`TypeCorrect`, `QueueBounded`, `OneUser`, `Cleaned`, `Refused`) were confirmed by TLC with the
constants of their component's run before they were proved, as were the type invariants of all modules that
have one, which the runs leave out.

Assumptions. Those of `Console` say what the code fixes: a queue has room for one, times and bounds are numbers, an ALGID is a byte and that of an
encrypted net is not 0x80, a KID has 16 bits, and the values that stand for "no file", "an empty file" and "no id" are none of the
others. `SdrSources` assumes that the table of systems is in some order. The others are of the same kind.

Induction. The library's induction theorems take an operator as parameter, which none of the provers
instantiates. Where a function is recursive (`Value`, `Digits`, `SystemsFromRows`) the proofs take the least number for which the claim fails;
that there is one (`LeastNumber`) comes from the well-founded ordering of finite sets, which is stated without such a parameter.

Model-checked only: all liveness (`StopEnds`, `KeepsTrying`, `QueueMoves` of the managers; `UpdateEnds`, `DecoderFollows` of the updates;
`PeerLossNoticed` of the NDJSON client), since fairness and ENABLED are out of the prover's reach. Every safety invariant and every action property
that a passing run checks is stated by a theorem.
No module declares a RECURSIVE operator.

## 5. Not modelled, and why

* Formatting and validation: CoT, Marti XML, playlist XML, marker styles, GeoChat, AX.25, the mapping of an APRS packet, the fields of
  the event schema. They are functions of one message, and unit tests reach them.
* The Java exporters: they build lines and spectra from objects of SDRTrunk, whose threads and reference counts (of
  audio segments, for instance) are not in the repository; a model of `dispose` against the pump would guess them.
* The NDJSON listener's reading of lines, and replay: sequential; a connection that ends on an exception loses lines, which the
  channel allows.
* `enqueue_all` per manager, `stop_all` at shutdown, the replay manager of `upsert`; a CoT of a replaced manager's queue is lost with it.
* Database, retention, audit: table definitions and deletes by age. A commit is atomic. It may fail in `AllowList`, `LocationPipeline`, `SdrSources` and `Credentials`; elsewhere
  it is taken to succeed, but for that of a request whose server's row has gone (`TakRegistry`).
* What makes everybody wait and leaves no state wrong: `install_module` and the connect to APRS-IS on the event loop. A connect of the
  decoder's client that completes after its `stop()` and stays open: the exporters are stopped only when the decoder exits.
* The rate limit of the log-in, CSRF tokens, expiry of sessions, the gauges of `hearing.py` (an input of `Alerts`), branding,
  diagnostics, tailscale, logging, the time zone: they keep no state another component depends on.
* Browser scripts, templates, and the installers but for the decoder's `install.sh` (in `UpdateJob`): presentation, and sequences of commands.

Not composed: `LocationPipeline` takes the allowlist's answer as an arbitrary choice (`Observe`), and `Credentials` the
replacement of a manager as one step. Each promises more to its user than it needs, and the product with the
other module is beyond a run of minutes.
