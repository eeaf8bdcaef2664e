# Specification of the Chipmo Sentry camera agent

TLA+ models of the concurrent core of `sentry-agent-pc`, the TLC instances that
check them, and TLAPS proofs of every safety and action property those instances check.  Paths below are relative to
`src/sentry_agent_pc/` in the repository; a property quotes the line it is about.

    tlc -workers 2 -config StreamPusher.cfg StreamPusher      # a run (MCClipStore, MCEdgeBehavior for those two)
    tlapm StreamPusherProofs.tla                              # the proofs, likewise the other modules named *Proofs

`PROJECT.json` lists the runs, the source lines every definition stands for, a mutant
per property (a plausible bug that the property catches), the hazards and the theorems.

## 1. The system

The agent is one Windows process in a shop.  It relays cameras to the cloud and,
for cameras in the `edge_pc` tier, analyses them itself.

    window (gui/app.py), one thread, ticks every 30 s
      |-- discovery_service: register, delete, reconcile ----> state.py (sealed file)
      |-- scan and add dialogs --> scan threads, registrations --> resolve_stream --> ffmpeg probes
      |-- StreamController.refresh/stop --> StreamPusher     --> one ffmpeg relay per camera
      |                                 --> LocalMediaMTX    --> the local hub
      |                                 --> CloudflaredTunnel--> cloudflared
      |-- live page --> _CameraReader --> a decode thread and an edge worker per camera
      |-- updater: silent check and dialog --> temp file --> batch script --> restart
      `-- EdgeController.refresh/stop   --> _CamWorker       --> a decode thread per camera
             EdgeRuntime --> EdgePipeline --> EdgeBehavior   (risk, episodes)
                                          --> EdgeClipRecorder
                                                |-- SegmentRecorder (ring, its own thread and ffmpeg)
                                                |-- clip queue and worker thread
                                                |-- ClipStore (clips.json and the mp4 files)
                                                `-- upload_clip --> BackendClient

| Component | State | Operations | Meets others through |
|---|---|---|---|
| StreamPusher (`streaming/pusher.py`) | `_states`: path to `_PushState` (target, stop, proc, thread) | `sync`, `stop_all`, relay thread: probe, launch, recheck, wait, backoff | StreamController's lock; the children; `st.proc`, which both sides read without a lock |
| LocalMediaMTX (`streaming/local_mediamtx.py`) | hub process, the served paths | `sync`, `stop`, `local_url` | sources of pusher, decode threads and live view |
| CloudflaredTunnel (`streaming/tunnel.py`) | `_proc`, `_url`, `_thread`, `_stop` | `start`, `stop`, the supervisor | the heartbeat reads the URL |
| StreamController (`streaming/controller.py`) | pusher, hub, tunnel | `refresh`, `stop` | window tick, reconcile thread |
| EdgeController (`edge/controller.py`) | `_workers`, `_stopped`, `_cfg_version` | `refresh`, `stop`, decode threads, configuration poll | EdgeRuntime, backend |
| EdgeRuntime (`edge/runtime.py`) | `_pipes`, `_recs`, `cfg` | `start_camera`, `stop_camera`, `process`, `apply_config` | decode threads, without joining them |
| EdgeBehavior (`edge/behavior.py`) | tracks with risk, latches, timing gates, episode | `update` per frame | episodes to the recorder, the oldest open start to the ring |
| SegmentRecorder (`edge/recorder.py`) | segment files, protect floor, ffmpeg | `start`, thread with `prune`, `set_protect_floor`, `stop` | floor set by the decode thread, files read by the clip worker |
| EdgeClipRecorder | bounded queue, `_stopping` | `submit`, worker, `stop` | sentinel in the queue |
| ClipStore | `clips.json`, clip files | `add`, `set_status`, `records` | several store objects, one file |
| Agent state (`state.py`, `services/discovery_service.py`) | sealed file, `_existing_file_unreadable` | `load_state`, `save_state`, `mutate_state`, `reconcile_with_backend`, pairing | every thread; the backend's list of cameras, read at the start, by the refresh button and after edits |
| Clip upload (`edge/uploader.py`, `gui/app.py`) | the attempts left | `upload_clip`, the operator's escalation | the clip file, which may be pruned; the backend |
| Path resolver (`services/discovery_service.py`, `discovery/`) | batch, pool, children | `resolve_stream`, `_probe_until_hit`, `probe` | the camera, which bans after too many rejected logins |
| Scan and registration (`gui/scan_dialog.py`, `gui/add_dialog.py`) | table, buttons, `_reg_failures` | scan threads, chains of registrations | `after(0, ...)`; state file and backend; the reconcile that a refreshed list starts |
| Live view (`gui/local_view.py`) | readers: `_pin`, `status`, `_edge_ready`, `_edge_failed`, frames | decode thread, edge worker, focus, leave, configuration poll | `_active`, `_stop_event`; a second recorder and store |
| Updater (`updater.py`, `gui/update_dialog.py`) | temp zip, `_update_in_progress`, install folder | check, download, verify, swap script | the silent flow and all dialogs, closed ones too, share the temp file of a release |
| Window, edit dialog, zone editor, floor plan, detector, command line | see `PROJECT.json` | | |

What is hard here: nobody joins the decode threads or (after a time limit) the relay
threads; a stop may fall between `Popen` and the assignment that would let it find the
child; the prune, the floor and the clip worker share a directory without a lock; bounded
queues meet a shutdown sentinel; the index and the state file are read, changed and
rewritten by several threads, and network calls lie between read and write; processes
outlive the thread that should have ended them.  Section 7 and the hazards of
`PROJECT.json` give each at its line.

What makes each component correct:

- pusher and tunnel: no child without a thread that waits for it, a stop ends thread and
  child, no stop means no end of supervision, the table is what was requested;
- ring, queue, recorder: footage of open episodes survives, the disk is bounded, episodes
  are cut in order and at most once, stopping returns;
- clip store: files and index agree, only retention deletes a file;
- state file: no edit and no pairing is lost, and the camera list comes to agree with the backend;
- stream controller: nothing after stop, and in the end every camera is pushed as file and backend want it;
- resolver: no further batch after a rejected password, no premature "not found", no probe for ever;
- scan and registration: a camera the agent knows is not created again, the dialog closes only when all is done;
- live view: the picture never freezes, a hidden or left page gives the cameras back;
- updater: only what was verified is swapped in, the program comes back, failures are retried;
- edge engine: no recorder without owner, nothing after stop, configuration and sources arrive as far as they can be taken over;
- behaviour: no high risk without an episode, every episode handed over once, one-shot criteria bank when their gate lets them.

## 2. Modules

| Module | Models | Actors, that is processes that interleave |
|---|---|---|
| `StreamPusher` | pusher.py | the lock holder (`sync`, `stop_all`), a thread per relay, the children |
| `SegmentRing` | the ring of recorder.py, and the floor as pipeline.py and behavior.py move it | ring thread, decode thread, stopper, clock |
| `ClipQueue` | queue, worker and shutdown of `EdgeClipRecorder` | submitter, worker, stopper |
| `EpisodeBuffer` | what the queue promises: a buffer that drops the oldest | |
| `EdgeRecorder` | one camera: `SegmentRing` and `ClipQueue` composed with `build_clip` | all of theirs |
| `ClipStore` | the index with its lock per store object, the upload of its clips | clip workers, window, escalations, kill |
| `AgentState` | state.py, registering, deleting, renaming, reconnecting, tiers, reconcile, pairing | editors, reconcilers, dialog, web |
| `CloudflaredTunnel` | tunnel.py and the refresh that wants it | controller, supervisor, child |
| `EdgeController` | controller.py, runtime.py, config_poller.py | controller, decode threads, poll, operator, pairing |
| `EdgeBehavior` | behavior.py | the frames of one camera |
| `StreamController` | streaming/controller.py with local_mediamtx.py | refresh threads, window, hub process, user and backend |
| `RtspSearch` | the search for a path as its caller sees it: batch after batch until an answer | |
| `PathSearch` | `resolve_stream`, `_probe_until_hit`, `probe` | searching thread, pool workers, ffmpeg probes |
| `ScanDialog` | scan_dialog.py, add_dialog.py, `scan`, `register_camera`, the reconcile of `refresh_cameras` | window, scan threads, chains of registrations, reconciles, backend |
| `LiveView` | local_view.py | window, decode thread and edge worker of each reader, poll |
| `Updater` | updater.py, update_dialog.py, the check of app.py | silent flow, dialogs, threads of closed dialogs, window, batch script, GitHub |

| Module | Proves about |
|---|---|
| `StreamPusherProofs` | `StreamPusher` |
| `EdgeRecorderProofs` | `EdgeRecorder` and with it `SegmentRing` and `ClipQueue`; that the queue implements `EpisodeBuffer` |
| `EdgeControllerProofs` | `EdgeController`, `EdgeBehavior` |
| `ClipStoreProofs` | `ClipStore` |
| `AgentStateProofs` | `AgentState` |
| `CloudflaredTunnelProofs` | `CloudflaredTunnel`, `StreamController` |
| `PathSearchProofs` | `PathSearch` and that it implements `RtspSearch`, `LiveView` |
| `ScanDialogProofs` | `ScanDialog`, `Updater` |

`MCClipStore` and `MCEdgeBehavior` give values to constants that a configuration file cannot write.

One action is one stretch of code between two points at which another thread can be seen: a lock
region is one action when nothing outside looks into it, and is split where another thread
reads what it changes without the lock.  Examples:

- `StreamPusher`: `_stop_locked` is three actions (`StopLocked` pops the relay and sets its
  event, `ReadProc` reads `st.proc`, `ReapVictim` ends that child), because the relay thread launches
  and assigns in between; the launch is `PopenOk`, `AssignProc`, `Recheck`.
- `SegmentRing`: `prune` reads the floor (`PruneRead`) and deletes later (`PruneDelete`).
- `ClipQueue`: `submit` is `Submit` (the `_stopping` test), `PutNowait`, `Evict`, `Reput`;
  each queue operation is atomic, their sequence is not.
- `ClipStore`: `write_text` empties the file (`SaveOpen`) before it writes it (`SaveWrite`).
- `AgentState`: `mutate_state` holds the lock from `MutateLoad` to `MutateWrite`;
  `reconcile_with_backend` holds it only in `ReconcileSave`.
- `CloudflaredTunnel`: `Store` is the assignment of `_proc` after `PopenOk`.
- `StreamController`: a refresh holds the lock from `Begin` to `Push`, with the network call and the
  health wait in between; `local_url` does not take it, `status` does.
- `PathSearch`: a worker takes a path (`Take`) before it starts and registers its child (`Launch`), so the
  cancellation and the killing (`Cancel`, `Kill`) can fall in between.
- `ScanDialog`: what a thread posts with `after(0, ...)` arrives later, in an action of its own.  The backend has
  a new camera (`Create`) before the file has (`AppendRecord`), and a reconcile reads the file (`ReconcileLoads`),
  waits for the backend and writes what it read (`ReconcileSaves`); `blank` marks cameras it saved without an address.
- `LiveView`: `ReadFrame` publishes a raw frame and `Check` then looks at the worker, as
  `_consume` does without a lock; `_edge_ready` may change in between.  Versions of the edge configuration
  are only ever compared with the one the backend serves, so `current` and `pipe` say whether page and pipeline
  have that one, and `Publish` makes all of them old.
- `Updater`: opening the temp file, receiving it, digest, signature and swap are separate, since another
  flow can open the same file between any two.  A dialog that is closed by its title bar during a download leaves
  its thread at work (`LeaveDownload`), which says nothing at its end (`EndsUnheard`).
- `EdgeController`: `Process` picks the pipeline by camera, as `EdgeRuntime.process` does, and
  `ProcessDone` leaves it; in between the camera may have been restarted.  A worker has two versions of the
  configuration: `hot`, what `apply_config` changes in a running pipeline and recorder, and `built`, what waits
  for the next `start_camera` (the length of segments, the keep window, the detector).
- `EdgeBehavior`: each step that builds a track also says how many episodes it hands over (`Keep`, `Close`,
  `DropStale`), as `update` collects what they return; `owed` counts frames with a risk that calls for a clip
  against them.

Data is kept only as far as a property tells it apart: a stream is a model value and a codec, a segment is
its second, an episode is a number or its window, a clip is its rank by age, a camera is its uuid with
tier, name and "has a URL", an ffmpeg command is "transcodes or not", a release is its number and an
archive whole, cut or spoilt, a probe's outcome is hit, rejected or miss.  Boxes, keypoints and
polygons in `EdgeBehavior` are reduced to what their tests yield.  Variables marked "history" exist for
properties, those marked "bound" limit the instance.

### Refinement

`EdgeRecorder` composes `SegmentRing` and `ClipQueue`: one
decode step changes episodes of the ring and, when episodes end, feeds the queue in the order of
the code (floor first, then `submit` for each); `stop` marks the queue, ends the ring,
then sends the sentinel; the clip worker lists the ring's files while they are being pruned.  That each step of it
is a step of both parts holds by construction and is no property; what is checked is that the whole implements
`EpisodeBuffer` (`BufferSpec`).  There an episode waits or is refused, the oldest is taken or
dropped, and only a closing camera refuses the newest; below, `put_nowait`, `get_nowait` and the second `put_nowait` are
steps of their own that the worker's `get` and the sentinel of `stop` fall between.  The episode being submitted counts
as waiting, so a dropped one is always the oldest.

`PathSearch` implements `RtspSearch`: under the mapping at `Abstract` the concurrent batch with its
pool, deadline and cancellation is the sequential search that advances by one batch, answers
and starts nothing after a rejection (`SearchSpec`).  TLC checks it on the instance below,
`PathSearchProofs` proves it for every instance, as
`EdgeRecorderProofs` does for `BufferSpec`.

## 3. Runs

| Run | Instance | Shows |
|---|---|---|
| `StreamPusher` | 1 path, codecs h264 and hevc, 2 relays, 2 children | supervision, the stop/launch race, no churn, stop takes effect |
| `EdgeRecorder` | 1 track, 4 s of clock, 3 episodes, queue of 2, 1 death | footage of open episodes, keep window against a bounded disk, no ring after the stop, newest gets in, the queue drops the oldest |
| `ClipStore` | 2 workers on a store, the window on another, 4 clips, cap of 2, 2 upload attempts, 1 status or escalation, 1 kill | index and files agree while only workers write; only retention deletes |
| `AgentState` | 2 editors, 1 reconciler, 2 cameras, 1 pairing, 1 edit, web edit or failed unsealing | no lost edit, pairing is what was chosen, agreement with the backend while the list goes on being refreshed |
| `CloudflaredTunnel` | 2 children, backoff 2 to 5 | URL of the running child, no child without its thread, stop outside of a launch |
| `EdgeController` | 1 camera, 2 sources, 2 workers, 2 edits of stream or pairing, 2 configurations, 1 failed start | no orphan recorder, stop is final, one configuration, sources and configurations arrive |
| `EdgeBehavior` | 1 place, 7 observations, default weights, 1 s steps | an episode for every high risk and only one, one-shot criteria in time |
| `LiveView` | 1 camera with hub, sub-stream and main stream, 1 visit, 2 failed inferences, any number of configurations | the picture moves, a hidden tile gives the camera back, leaving ends the readers |
| `Updater` | 2 releases, 2 tries, the silent flow and 2 dialogs, a disk that fills | whole archives only, unless another flow interfered; the program comes back, updates are retried |
| `PathSearch` | 2 batches of 3 paths, 2 workers | refinement of the search, giving up only over probes that missed, probes end |
| `StreamController` | 1 camera, 2 URLs, 2 push bases, 1 parked refresh, 1 change, 2 upsets of the hub | nothing after stop, settles |
| `ScanDialog` | 2 cameras, 1 of them at the backend only, 2 scans, 2 chains, 1 reconcile | a known camera is not created again, closing |

Why these bounds are enough for what they show:

- *StreamPusher.* The races are between one stopped relay, its successor on the same path and
  the lock holder; two relays and two children are the least that has an old and a new of each.
  A relay slot is reused when nothing refers to it, so runs are unbounded in length.
  Several paths do not share state except through the table; the theorems cover
  any number of them.
- *EdgeRecorder.* `Keep = MaxEpisode = 1` puts keep window, pre-roll and leak limit all inside four
  seconds, so that floors that protect, floors that expire and rings that die all occur.
  `Pre + Lag <= Keep` is the assumption the code's defaults satisfy (3 s against 45 s).  One track
  that opens three times gives a waiting, an evicted and a new episode in a queue of two.
- *ClipStore.* Twice as many clips as the cap; two workers can finish in either order, a save can be in progress
  in two store objects at once and be cut by a kill, an upload can be lost once and repeated.
- *AgentState.* Losing an edit takes two read-modify-write cycles; two editors on two
  cameras have every pair of edits on the same and on different cameras.
- *CloudflaredTunnel, EdgeController.* An old and a new child, worker, source and
  configuration.
- *EdgeBehavior.* Ages above 4 s are alike since every duration of the configuration is at most
  3 s; durations are rounded up to the step of one second and the risk down to whole points.
  A single place suffices as tracks do not influence one another.
- *LiveView.* Readers share only the page's flags and the error map, so one is enough for what is checked; within
  a visit the tile may be shown and hidden without bound.  Two failed inferences stand for the 30 of the code.
- *Updater.* A release and its successor, which the silent flow and two dialogs download: of three flows one may
  write the file, one hold it and one have come before.  Files of different releases are different files, so one
  release to download is enough; the theorem covers any number.  Two tries repeat a request once and let the copy
  stop half way; they stand for the 3 signature requests and the 60 rounds of the copy loop.
- *PathSearch.* More paths than workers in a batch, so that some are queued, some taken, some running when
  it is abandoned, and a batch after it.  The theorem covers any number.
- *StreamController.* One refresh at work and one parked; the second waits for the lock exactly where a stop or an
  upset of the hub can overtake it.
- *ScanDialog.* Two rows make a chain with a next row, two chains a retry or a form beside the dialog,
  two scans a table replaced under a chain.  One reconcile can read before a chain appends and save after it,
  and a retry then registers the camera again.  Reconciles that overlap with each other, where the second saves
  what the first one lost, and any number of chains are covered by the theorem.

`CHECK_DEADLOCK FALSE` stands in the runs that end: their clock, episodes, clips, edits or scans are
bounded, or the program quits.

`SegmentRing.cfg` and `ClipQueue.cfg` check what is liveness of a part of the recorder and is not carried over by a
refinement of safety: the ring ends with its camera (`StopEndsRing`), and `stop()` returns although
its `put(None)` has no timeout (`StopReturns`).  Both pass.

## 4. Fairness

Weak fairness is assumed of threads that can run (Python threads are scheduled by the OS), and of
`sync`/`refresh`, which the 30 s tick repeats.  The tick refreshes only a paired computer (app.py 1835), so
`EdgeController` and `StreamController` assume a refresh only while it is paired, and what they promise of sources
and configurations is promised to a computer that stays paired.  Strong fairness appears only for an outcome that is
retried for ever: a launch of ffmpeg or cloudflared (`Spawn`, `PopenOk`), a request to the
backend (`Fetch`, `FetchOk`, the tick's refresh of `StreamController`), a download, digest, signature or copy of the
updater, and `EdgeController.stop` getting its lock.  Reads of streams end because
OpenCV has its own timeout, clip cutting and uploads because they have timeouts in the code.
In `LiveView` the threads of a reader and the page's poll are fair, the user is not; in `PathSearch` a worker
ends its probe because ffmpeg has a timeout.  In `Updater` the timers, the silent
flow and the script are fair, the user and the threads of the dialogs are not.  `ScanDialog` checks safety only.
A reconcile is started by nobody but `refresh_cameras`: at the start, by the button and after edits.  No fairness is
assumed of that, nor that the backend answers it; a started reconcile goes on.  That the list is
refreshed again and again and some fetch succeeds is the hypothesis `Refreshed` of the property `Agreement` instead.
Not assumed: that a child prints another line or ends by itself, that anybody installs ffmpeg, that the user
does anything.  `EdgeBehavior` has no fairness: without further frames an episode stays open in the
code as well.

## 5. Proofs

Every safety invariant and every action property that the runs of section 3 check is a theorem of the
specification too: for any number of cameras, threads, children, clips and hosts, and any values of the timing
constants under the assumptions below.

| Module | Theorem | States (`Spec => []...` where it is an invariant) |
|---|---|---|
| `StreamPusherProofs` | `ChildrenSupervised`, `StopRaceClosed`, `RelaysReachable` | `NoUnsupervisedChild`, `StoppedChildIsReaped`, `UnstoppedIsRegistered` |
| | `NoNeedlessRestart` | `NoChurn`: a running relay is replaced only if its camera is unwanted or changed |
| `EdgeRecorderProofs` | `DropsTheOldest` | the recorder implements `EpisodeBuffer` (`BufferSpec`) |
| | `OpenFootageKept`, `RetentionBounds`, `RingEndsDown` | `OpenEpisodesKeepFootage`, `RetentionWindow`, `NoRingAfterStop` |
| | `NewestIsQueued`, `WorkerInOrder` | `NewestGetsIn`; the worker takes episodes in order, none twice |
| `EdgeControllerProofs` | `RecordersHaveOwners`, `StopIsFinal`, `ConfigurationIsOne` | `RecordersOwned`, `StoppedForGood`, `OneConfiguration` |
| | `NoThreadForgotten` | after `stop()` each decode thread has ended or was told to |
| | `EpisodesHandedOver`, `ZoneCriteriaBank` | `EpisodesAccounted`, `ZonesBankInTime` |
| | `ZonesBankOnce`, `BehaviorTypes` | a zone criterion banks at most once per track; the risk stays between 0 and its cap |
| `ClipStoreProofs` | `RetentionOnly`, `IndexAndFilesAgree` | `NoEarlyDeletion`, `IndexMatchesFiles` |
| `AgentStateProofs` | `EditsLast`, `PairingLasts`, `LockProtects` | `EditsKept`, `PairingIsChosen`; what was loaded under the lock is current |
| `CloudflaredTunnelProofs` | `ChildrenSupervised`, `UrlIsCurrent`, `ChildrenInReach` | `NoUnsupervisedChild`, `UrlOfThisChild`; a stored child is in the reach of a stop |
| | `RefreshAfterStop`, `ControllerTypes` | `StoppedStaysDown`; the types of `StreamController` |
| `PathSearchProofs` | `SearchRefines` | `PathSearch` implements `RtspSearch` (`SearchSpec`) |
| | `GivesUpLast`, `NoProbeForgotten` | `GivesUpHonestly`; on giving up no probe is missing |
| | `ReadyIsServed` | a tile that counts on its worker's frames has a worker at work (safety half of `TileNeverFreezes`) |
| | `NoneForgotten`, `LeftForGood` | a live reader is on screen or told to stop; one that has ended stays so (safety half of `LeavingEndsReaders`) |
| | `RecorderStopped`, `LiveTypes` | no recorder of the live page outlives its worker; the types of `LiveView` |
| `ScanDialogProofs` | `NoneTwice`, `ClosesOverSuccess` | `CreatedOnce`, `ClosesWhenDone` |
| | `UpdateIsWhole`, `UpdaterTypes` | `SwapsWhatItChecked`; the types of `Updater` |
| | `SilentUpdatesAlone` | `_update_in_progress` is up exactly while the silent update is at work or stuck in a failed swap |
| | `NeverLost` | a program that left for an update has the script that starts it again (safety half of `ComesBack`) |

Each module also has `TypeCorrect` for its first component and the theorem that its inductive invariant holds (`Invariance`,
`RingInvariance`, `QueueInvariance`, `CameraInvariance`, `BaseInvariance`, `SearchInvariant`, `CountInvariant`,
`BehaviorInvariance`, `UpdateInvariance`, `LiveInvariance`).
Four modules hold a second component as well and extend both: the controller that owns the tunnel, the behaviour
that a pipeline feeds, the updater as the other dialog with threads, the live page that opens what the resolver
found.  For that reason `StreamController`, `EdgeBehavior`, `Updater` and `LiveView` give their specification
names with a prefix (`SCSpec`, `EBSpec`, `UDSpec`, `LVSpec`, and so on).

### Why the properties are not inductive alone

*Relay supervisor.*  `IInv` adds

- `FreshWhenSpawned`: a child waits between `Popen` and `st.proc = proc` exactly at `"spawned"`;
- `OldChildIsDead`: outside of assignment, recheck and `communicate`, what `st.proc` holds has ended.  It is why a
  launch that overwrites `st.proc` loses no running child;
- `TableConsistent`: a registered relay has the path it is registered for and is not stopped;
- `VictimConsistent`: while `_stop_locked` works, its relay is stopped and out of the table.

The argument for `StoppedChildIsReaped` is the one the comment at pusher.py 393-406 makes: the stop event is
set before `st.proc` is read, and `st.proc` is assigned before the event is tested, so at least one side sees
the other.  `NoChurn` needs `TargetsKnown`, that a relay stopped to be replaced belongs to a camera the
current sync wants.

*Ring.*  The prune decides on a cutoff and deletes later, while frames go on.  `CutoffIsSafe` says what the cutoff
spares: the pre-roll of every episode open now, whether it opened before or after the prune read the floor, and the newest
`Keep` seconds.  That an episode opening in between is spared is where `Pre + Lag <= Keep` is needed: with
`FrameIsRecent` its pre-roll begins within the keep window.  `FloorCoversOpen` allows one exception, the
frame that opens an episode and sets the floor right after it.

*Queue.*  `QueueInOrder` and `SubmittedIsNew` order what waits, what the worker has and what is being submitted;
`NewestGetsIn` then needs room for one (`MaxQueue > 0`).  For `DropsTheOldest` the head of an ordered queue is the
oldest of what waits (`HeadIsOldest`), the episode in the submitter's hand is newer than all of it, and a
slot that was freed can only be lost to the sentinel, so the camera closes (`StoppingIsSet`).

*Edge controller.*  `ThreadsOwned` (a running decode thread is registered or was told to stop) and `MadeIsStarting` (a
recorder is started in the span of the lock that makes it) are what other actors could break;
`StoppedStartsNothing` says that from `stop()` on no camera is planned, so a refresh finds nothing to start.
`OneConfiguration` is two claims: a running pipeline has the hot part of the runtime's version, which needs
that start and apply exclude each other by the runtime's lock, and what it was built with is not later, which needs that versions
only grow on their way from the backend (`VersionsGrow`).

*Behaviour.*  `owed` is one exactly while the track of a place is suspicious: the frame that shows a high risk opens the
episode (`AdvancedEpisodes`), a frame without one leaves the track as it is or hands over one, and a track that is dropped hands over
the episode it has open (`DroppedFacts`).  Each step of `update` in between keeps the fields this rests on.  For the zone
criteria, `Ripe` says that a criterion that shows has what it takes to show again, and `Unscored` that one that
has not banked is still to be scored.

*Clip index.*  `NoEarlyDeletion` holds with any interleaving, since what one prune deletes is old or has `MaxClips`
newer clips listed, and listed clips were built (`OnlyBuiltClips`): a counting argument over the interval of
newer clips.  `IndexMatchesFiles` needs `LockHeld`, `OwnClips` and `Agreement`, which says of each point of
`add` how files, index and the list in hand differ.

*State file.*  `LoadedIsCurrent`: between load and save of `mutate_state` the file does not change, because whoever
else writes holds the lock or spoils the history the property excuses.  `ShowsOrOwes` then
carries the file's cameras from save to save; `RegisteredFirst` and `DeletedFirst` order file and backend.

*Tunnel.*  `StoredChildInReach` is the code's weaker truth about `stop`: a child is found by the next stop once it has been
stored.  `NoUnsupervisedChild` needs that a stop gives back what it took (`VictimOnlyInStop`).
For the controller, `DownForGood` adds that after `stop()` nobody is inside `refresh`.

*Path search.*  `SearchInv`: while the answer is open, a probe has been rejected exactly if a
rejection lies among the outcomes of the present batch that the searching thread has not used up.  `Collect` starts the
next batch only when there is none, so no batch follows a rejection.  `SkipsNone`: every path of a batch that
is through missed, and of the present batch each path a worker has taken is still its own, missed, or has
said more; with the count of futures that gives `GivesUpHonestly`.  `CountInv` counts the futures: what the
thread has not seen is what lies ready, runs or waits (`Counted`), and no path is probed twice (`OwnPath`).

*Scan dialog.*  `OneAtATime` and `EachAccounted` bound the creations: the backend has a camera once more than it was lost
only if the file has it or a chain is about to append it, so the check for duplicates or the one running chain keeps it from
being created; a stale list that a reconcile saves may bring a camera back between check and
creation, which is why the clause on chains at `"create"` does not mention the file.  `ChainUnderWay` says that what is
asked for and not in the file is still to do unless a row failed, which is what the closing rests on.

*Updater.*  `OverlapsKnown`: who has a file in hand while another flow writes it has been disturbed, whichever of the two
came first.  With it `FileIsHashed` says what a flow that was not disturbed may rely on (`Reliable`): while it
receives, it was the last to open the file; then its digest is that of the file; past the checksum the file is whole.
An abandoned download is a flow like any other.

*Live page.*  `StopsExactly` ties the stop events to the visits, `Started` the places of the threads; with them a
late `Check` of a reader that was left can start a worker, but a reader whose threads have ended has none to
do so.  `ReadyHasWorker` rests on the order in `_consume`: `_edge_ready` is lowered before a worker is started anew.

### Assumptions

Named assumptions of the modules, evaluated by TLC on every run:

- `Pre + Lag <= Keep` (recorder): the default pre-roll and the lag of a frame against 45 s of ring;
- `MaxQueue > 0` (recorder), `0 < RestartMin <= RestartMax` (pusher), `RestartMin <= RestartMax` (tunnel), `MaxClips > 0`;
- editors and reconcilers are different threads, the window is no clip worker, a search has finitely many workers;
- the durations, thresholds and the cap of `EdgeBehavior` are numbers, no gate longer than `Cap` (`CountAssumption` and
  the module's assumptions), releases and tries of `Updater` at least one (`UpdaterAssumption`), visits and failed
  inferences of `LiveView` too (`LiveAssumption`);
- `None`, `Nothing` and `Absent` are not values of the sets they mark the absence from.

Hypotheses of single theorems, where the code does not give them:

- `NamesDiffer` (both theorems on clips): no two clips are of the same camera and second.  Without it a prune of one
  deletes the file of the other (`OneFilePerClip`, section 6);
- `StoreIsShared` (`IndexAndFilesAgree`): the workers have one store, as those of one EdgeRuntime do.  With several stores
  the locks exclude nobody (`NeverCorrupt`, section 6);

What the properties excuse they excuse as theorems too: `EditsKept` a load that failed and a reconcile that saved
an outdated list, `CreatedOnce` and `ClosesWhenDone` a second chain started during the first and what a reconcile took off
the file, `SwapsWhatItChecked` a file that another flow opened, wrote or deleted.  Section 6 shows each of these happening.

### Only model-checked

- Liveness: `StopTakesEffect`, `Agreement`, `StopOutsideLaunchEnds`, `SourcesFollowed`, `ConfigurationArrives`,
  `ComesBack`, `KeepsUpToDate`, `ProbesEnd`, `Settles` and the three properties of `LiveView`.  Liveness under fairness, and
  ENABLED, are outside of the prover.
- The counterexamples of section 6.

## 6. Where code and documentation disagree

None of the runs above is about these.  Each property below states what the quoted line says without the excuses of
section 3, and TLC shows a counterexample under the configuration file of its row
(`tlc -config StreamPusher_divergences.cfg StreamPusher`).  Where a file lists several properties, TLC stops at the
first it finds violated: leave only the line in question to see its own counterexample.

| Configuration | Property | Code | Documentation |
|---|---|---|---|
| `StreamPusher_divergences` | `WantedIsRelayed` | a missing binary ends the thread but the relay stays in `_states` (pusher.py 429), so `sync` never starts it again | pusher.py 280 "Start relays not yet running" |
| `StreamPusher_divergences` | `OnePublisherPerPath` | `_stop_locked` waits for the child, not for the thread (345) | pusher.py 255 "one ffmpeg relay per camera" |
| `ClipQueue_sentinel` | `SentinelSurvives` | `submit` tests `_stopping` before it evicts (recorder.py 465-471) | recorder.py 453-455 "can never discard the shutdown sentinel" |
| `EdgeRecorder_divergences` | `FootageKeptUntilCut` | the floor is cleared in the frame that closes the episode (pipeline.py 164), before the worker lists the segments | recorder.py 376-378 "until the clip is cut" |
| `EdgeRecorder_divergences` | `PostRollComplete` | the clip is cut as soon as the episode closes (behavior.py 520) | recorder.py 4-6 "ends `post` seconds AFTER it ended" |
| `ClipStore_stores` | `NeverCorrupt` | one lock per store object, several objects (runtime.py 46, local_view.py 43, app.py 928) | local_view.py 37-38 "never corrupt the index JSON" |
| `ClipStore_divergences` | `NothingOrphaned` | the index is rewritten in place (recorder.py 278) | recorder.py 11-13 "deleting old clip files" |
| `ClipStore_divergences` | `StatusPersists` | a worker's `add` overwrites a status set meanwhile (recorder.py 248) | recorder.py 252-253 "and persist" |
| `ClipStore_second` | `OneFilePerClip` | the clip id is camera and whole second (recorder.py 190) | recorder.py 11-12 "one mp4" per episode |
| `ClipStore_divergences` | `OneAlertPerClip` | an upload whose answer was lost is sent again (uploader.py 62), and the operator may escalate a clip that is being uploaded (app.py 1045) | backend_client.py 29-31 "a half-applied write must not be replayed", 324 "Non-retriable" |
| `ClipStore_stores` | `UploadFindsFile` | a file pruned before its upload raises out of `upload_clip` (backend_client.py 344) | uploader.py 45 "Never raises" |
| `AgentState_divergences` | `EditsStay` | `reconcile_with_backend` saves the state it loaded before its network call (discovery_service.py 514) and so drops the URL of a camera registered meanwhile | state.py 67-68 "lost updates" |
| `AgentState_divergences` | `PairingStays` | the same save undoes an unpairing | state.py 67-68 |
| `AgentState_rename` | `NamesFollow` | a new name alone does not change the signature (481-511), so it is not saved | discovery_service.py 461-462 "refresh its name/path" |
| `AgentState_transient` | `NeverWiped` | one flag for all threads: another load clears it (state.py 257) | state.py 73-75 |
| `CloudflaredTunnel_divergences` | `NothingOutlivesTheApp` | a stop in a launch finds no `_proc` (tunnel.py 164) | tunnel.py 13-14 "can't outlive the app" |
| `CloudflaredTunnel_divergences` | `WantedIsServed` | after it the thread blocks in `wait()` and `start` does nothing (86, 159) | tunnel.py 13-14 "restart with backoff" |
| `EdgeController_divergences` | `OneDecodeLoop` | an old decode thread feeds the new pipeline (controller.py 88, runtime.py 103) | controller.py 3-4 "ONE decode loop" |
| `EdgeController_divergences` | `UnpairedStops` | the tick does not refresh an unpaired computer (app.py 1835-1836), so the teardown is not reached | controller.py 211-214 |
| `EdgeController_divergences` | `WantedIsAnalysed` | the worker is registered before it starts (controller.py 243) | controller.py 196-197 |
| `EdgeBehavior_divergences` | `ConcealNeedsEvidence` | a conceal refreshes the latch it needs (behavior.py 335) | behavior.py 106-107 |
| `EdgeBehavior_divergences` | `NoGhosts` | matching comes before dropping (behavior.py 297) | behavior.py 563 |
| `LiveView_divergences` | `EngineStatusIsTrue` | a reader that has given up keeps `_edge_ready`, which is looked at first (local_view.py 639-647, 1187) | local_view.py 1184-1185 "all gave up" |
| `LiveView_divergences` | `GlowIsLive` | the border looks at the picture and the last `max_risk`, not at the status (local_view.py 922) | local_view.py 920-921 "frameless (calm) otherwise / when not live" |
| `LiveView_late` | `PollConfigures` | a pipeline that is built after the poll starts from the default tunables, while the page's version counts it as configured (local_view.py 506-516, config_poller.py 51) | local_view.py 1203 "hot-apply ... to the running pipelines" |
| `LiveView_divergences` | `OneRecorderPerCamera` | leaving waits 1.5 s, and a second visit starts its recorder beside the first's | local_view.py 37-38, recorder.py's directory per camera |
| `Updater_divergences` | `NotStuck` | a swap that raises runs in a callback after `on_done(True)`, and nobody lowers the flag | app.py 2588 "a stuck True can't freeze all future updates" |
| `Updater_divergences` | `OneRelease` | the script starts the program after a copy that failed half way | updater.py 318 and the comments of the script |
| `Updater_divergences` | `NobodyElseWrote` | flows of one release, closed dialogs among them, write the same temp file (updater.py 230) | updater.py 223 "the gate against a tampered/partial release" |
| `PathSearch_divergences` | `FewRejections` | a worker whose login was rejected takes the next path before the searching thread has seen the rejection (discovery_service.py 196-217) | discovery_service.py 172 "up to `workers` auth attempts" |
| `PathSearch_divergences` | `NoneLeftOver` | a probe that launches after the set was copied is not killed (discovery_service.py 223) | discovery_service.py 186 "KILLED on return rather than lingering" |
| `PathSearch_divergences` | `BlamesWrongPassword` | ffmpeg repeats the URL in its errors, and a 401 in it reads as a rejection (rtsp_probe.py 65, 130) | rtsp_probe.py 56 "REJECTED the credentials" |
| `StreamController_divergences` | `UrlNeverWaits` | the hub's own lock is held through its health wait, and `local_url` takes it (local_mediamtx.py 120) | controller.py 71-76 "would freeze the GUI for up to ~8s" |
| `StreamController_divergences` | `UnpairedStops` | the tick does not refresh an unpaired computer (app.py 1835), so the teardown is not reached | controller.py 101-104 |
| `ScanDialog_divergences` | `NeverTwice` | two chains pass the duplicate check before either has saved | discovery_service.py 572-573 |
| `ScanDialog_divergences` | `NeverReplayed` | the user's retry after a lost answer, or after a reconcile took the address off, creates the camera again | backend_client.py 29-31 |
| `ScanDialog_divergences` | `KeepsLocalRecords` | a reconcile saves the list it read before a camera was appended, and gives that camera a record without address (discovery_service.py 498-514) | discovery_service.py 461 "keep the local record" |
| `ScanDialog_divergences` | `FailureStaysVisible` | chains share `_reg_failures`, and a start resets it | scan_dialog.py 303-306 |
| `ScanDialog_divergences` | `OneRowPerCamera` | a camera that announces two addresses, or answers both searches, gets two rows | discovery_service.py 343 "dedups by IP" |
| `ScanDialog_divergences` | `GreenStaysGreen` | a retry takes the selected rows again, the registered ones included | scan_dialog.py 305-308 |
| `ScanDialog_divergences` | `ListCatchesUp` | a dialog closed during a chain never calls `on_done` | scan_dialog.py 110 |

## 7. Not modelled, and what comes next

Parts whose logic is presentation, drawing, neural networks, one-shot I/O or pure
geometry are left out; `PROJECT.json` gives the reason for each.  Within modelled files:
argument lists of ffmpeg, logging and status texts, the score breakdown of a clip, the poster
of overlay tracks, the layout of the grid, the migration of the sealed file, the retry loop of idempotent
requests.  A write of the state file is assumed to succeed.  The command line (main.py) registers cameras and
saves the state file from a process of its own (main.py 146, 212, 326): the lock of state.py is no lock
between processes, so what `AgentState` shows holds while only the window's process writes.

Limits of what is shown:

- an episode that is open when its camera is stopped or restarted is lost with the pipeline (`stop_camera` pops it);
  `EpisodesAccounted` is about the frames of one pipeline;
- `Pre + Lag <= Keep` is an assumption: a new configuration may set a longer pre-roll in a running recorder
  (runtime.py 128) while its ring keeps the old window, and nothing in `EdgeConfig.from_dict` compares the two;
- in `ScanDialog` cameras are not deleted meanwhile, here or on the web; `AgentState` has those edits;
- in `Updater` an open dialog keeps the user from the main window, not from an older dialog, and no more dialogs exist
  at once than `Dialog` has; `UpdateIsWhole` is for any number.

What could be added with the modules as they are:

1. The command line as a second process on the state file, with a write that fails.
2. A second visit of the live page with the headless engine on the same camera.
3. The refinement of `StreamController`'s tunnel by `CloudflaredTunnel`, so far two modules that agree on `start` and `stop`.
