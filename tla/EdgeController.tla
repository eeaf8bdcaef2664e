--------------------------- MODULE EdgeController ---------------------------
(***************************************************************************)
(* The headless edge engine: EdgeController and its decode workers         *)
(* (edge/controller.py), the EdgeRuntime they share (edge/runtime.py) and  *)
(* the poll of the edge configuration (edge/config_poller.py).             *)
(*   - refresh() and stop() run under the controller's lock, so the        *)
(*     controller is one actor, ctl, whichever thread calls it;            *)
(*   - every worker has a decode thread, which nobody joins;               *)
(*   - one thread polls the backend for a new configuration.               *)
(* What the runtime does under its own lock is one step.  A worker is a    *)
(* slot, with the pipeline and the recorder that its start builds; a slot  *)
(* is used again once nothing refers to it.  A source stands for the       *)
(* stream URL together with the zones, the pair a worker is compared by.   *)
(***************************************************************************)
EXTENDS Integers

CONSTANTS
    Camera,     \* mediamtx paths
    Source,     \* stream URL and zones of a camera
    Worker,     \* slots of _CamWorker objects
    None,       \* no camera, no source, no worker
    MaxEdits,   \* bound: how often the cameras to analyse change
    MaxVersion, \* bound: the last version of the configuration
    MaxFails    \* bound: how many starts fail, the detector does not load

ASSUME BoundsAssumption == MaxEdits \in Nat /\ MaxVersion \in Nat \ {0} /\ MaxFails \in Nat
ASSUME NoneAssumption == None \notin Camera \cup Source \cup Worker

VARIABLES
    want,    \* the file's cameras to analyse, with the source of each
    paired,  \* the file's agent_jwt is set
    quit,    \* _poll_stop: the window has called stop()
    stopped, \* _stopped
    ctl,     \* where refresh or stop is while it holds the lock
    plan,    \* the wanted sources refresh has read
    cam,     \* the camera refresh is busy with
    victim,  \* the worker it is stopping, or starting
    workers, \* _workers
    of,      \* camera_id of each worker
    src,     \* src_url and zones of each worker
    stop,    \* _stop of each worker
    pc,      \* where each worker's decode thread is
    busy,    \* the pipeline each decode thread is inside
    pipes,   \* _pipes
    rec,     \* the recorder of each slot
    hot,     \* the version of what apply_config changes in a slot: gate, thresholds, pre, post
    built,   \* the version of what only its start sets: segment_sec, keep_sec, the detector's items
    cfg,     \* the version of the runtime's cfg
    ppc,     \* where the poll thread is
    polled,  \* the version it has fetched
    last,    \* _cfg_version
    remote,  \* the version the backend serves
    budget   \* what is left of the bounds

outside == <<want, paired, remote>>
flags   == <<quit, stopped>>
hold    == <<plan, cam, victim>>
known   == <<workers, of, src, stop>>
control == <<flags, ctl, hold, known>>
threads == <<pc, busy>>
runtime == <<pipes, rec, hot, built, cfg>>
poller  == <<ppc, polled, last>>
vars == <<outside, control, threads, runtime, poller, budget>>

Wanted == [Camera -> Source \cup {None}]

TypeOK ==
    /\ want \in Wanted /\ plan \in Wanted /\ paired \in BOOLEAN
    /\ quit \in BOOLEAN /\ stopped \in BOOLEAN
    /\ ctl \in {"idle", "refresh", "stopping", "recStop", "starting", "recStart", "threads"}
    /\ cam \in Camera \cup {None}
    /\ victim \in Worker \cup {None}
    /\ workers \in [Camera -> Worker \cup {None}]
    /\ of \in [Worker -> Camera \cup {None}]
    /\ src \in [Worker -> Source \cup {None}]
    /\ stop \in [Worker -> BOOLEAN]
    /\ pc \in [Worker -> {"none", "open", "nap", "read", "frame", "process", "done"}]
    /\ busy \in [Worker -> Worker \cup {None}]
    /\ pipes \in [Camera -> Worker \cup {None}]
    /\ rec \in [Worker -> {"none", "made", "runs", "stopped"}]
    /\ hot \in [Worker -> 0 .. MaxVersion] /\ built \in [Worker -> 0 .. MaxVersion]
    /\ cfg \in 0 .. MaxVersion
    /\ ppc \in {"poll", "apply", "wait", "off"}
    /\ polled \in 0 .. MaxVersion /\ last \in 0 .. MaxVersion
    /\ remote \in 1 .. MaxVersion
    /\ budget \in [edits : 0 .. MaxEdits, fails : 0 .. MaxFails]

\* Version 0 stands for the defaults, and for the -1 of a poller that has not polled.
Init ==
    /\ want = [c \in Camera |-> None] /\ plan = [c \in Camera |-> None] /\ paired = TRUE
    /\ quit = FALSE /\ stopped = FALSE
    /\ ctl = "idle" /\ cam = None /\ victim = None
    /\ workers = [c \in Camera |-> None]
    /\ of = [w \in Worker |-> None] /\ src = [w \in Worker |-> None]
    /\ stop = [w \in Worker |-> FALSE]
    /\ pc = [w \in Worker |-> "none"]
    /\ busy = [w \in Worker |-> None]
    /\ pipes = [c \in Camera |-> None]
    /\ rec = [w \in Worker |-> "none"]
    /\ hot = [w \in Worker |-> 0] /\ built = [w \in Worker |-> 0]
    /\ cfg = 0
    /\ ppc = "poll" /\ polled = 0 /\ last = 0
    /\ remote = 1
    /\ budget = [edits |-> MaxEdits, fails |-> MaxFails]

Goto(from, to) == ctl = from /\ ctl' = to

(***************************************************************************)
(* What a refresh reads, and the backend                                   *)
(***************************************************************************)

\* A camera's tier, stream or zones change, or the hub comes or goes.
Edit(c, s) ==
    /\ budget.edits > 0 /\ budget' = [budget EXCEPT !.edits = @ - 1]
    /\ want[c] # s /\ want' = [want EXCEPT ![c] = s]
    /\ UNCHANGED <<paired, remote, control, threads, runtime, poller>>

\* The user pairs or unpairs the computer.
Pair ==
    /\ budget.edits > 0 /\ budget' = [budget EXCEPT !.edits = @ - 1]
    /\ paired' = ~paired
    /\ UNCHANGED <<want, remote, control, threads, runtime, poller>>

\* An operator publishes another configuration.
Publish ==
    /\ remote < MaxVersion /\ remote' = remote + 1
    /\ UNCHANGED <<want, paired, control, threads, runtime, poller, budget>>

(***************************************************************************)
(* EdgeController.refresh and stop, under the lock                         *)
(***************************************************************************)

\* What refresh reads: no camera when the computer is unpaired.
Read == IF paired THEN want ELSE [c \in Camera |-> None]

\* Mutant of Refresh: a refresh that was waiting for the lock revives a stopped controller.
RefreshAlways ==
    /\ Goto("idle", "refresh")
    /\ plan' = Read
    /\ UNCHANGED <<outside, flags, cam, victim, known, threads, runtime, poller, budget>>

\* refresh, on a thread of the window's tick, which was started while the computer was paired, or
\* after the AI mode of a camera was switched; the computer may be unpaired by now.
Refresh ==
    /\ Goto("idle", "refresh")
    /\ ~stopped
    /\ plan' = Read
    /\ UNCHANGED <<outside, flags, cam, victim, known, threads, runtime, poller, budget>>

\* stop() sets _poll_stop before it asks for the lock ...
Quit ==
    /\ ~quit /\ quit' = TRUE
    /\ UNCHANGED <<outside, stopped, ctl, hold, known, threads, runtime, poller, budget>>

\* ... and then stops every worker.
Stop ==
    /\ Goto("idle", "refresh")
    /\ quit /\ ~stopped /\ stopped' = TRUE
    /\ plan' = [c \in Camera |-> None]
    /\ UNCHANGED <<outside, quit, cam, victim, known, threads, runtime, poller, budget>>

\* Mutant of Outdated: a worker goes only with its camera.
Unwanted(c) == workers[c] # None /\ plan[c] = None

\* The worker's camera is not wanted any more, or not with this source.
Outdated(c) == workers[c] # None /\ src[workers[c]] # plan[c]

\* _CamWorker.stop sets the event ...
StopWorker(c) ==
    /\ Goto("refresh", "stopping")
    /\ Outdated(c)
    /\ cam' = c /\ victim' = workers[c]
    /\ stop' = [stop EXCEPT ![workers[c]] = TRUE]
    /\ workers' = [workers EXCEPT ![c] = None]
    /\ UNCHANGED <<outside, flags, plan, of, src, threads, runtime, poller, budget>>

\* Mutant of StopCamera: only the pipeline is taken out.
ForgetRecorder ==
    /\ Goto("stopping", "refresh")
    /\ pipes' = [pipes EXCEPT ![cam] = None]
    /\ cam' = None /\ victim' = None
    /\ UNCHANGED <<outside, flags, plan, known, threads, rec, hot, built, cfg, poller, budget>>

\* ... stop_camera takes the pipeline and the recorder out ...
StopCamera ==
    /\ Goto("stopping", "recStop")
    /\ victim' = pipes[cam]
    /\ pipes' = [pipes EXCEPT ![cam] = None]
    /\ UNCHANGED <<outside, flags, plan, cam, known, threads, rec, hot, built, cfg, poller, budget>>

\* ... and stops the recorder, if there was one.
StopRecorder ==
    /\ Goto("recStop", "refresh")
    /\ rec' = [w \in Worker |-> IF w = victim THEN "stopped" ELSE rec[w]]
    /\ cam' = None /\ victim' = None
    /\ UNCHANGED <<outside, flags, plan, known, threads, pipes, hot, built, cfg, poller, budget>>

\* A slot nobody refers to.
Free(w) ==
    /\ pc[w] \in {"none", "done"}
    /\ \A c \in Camera : w \notin {workers[c], pipes[c]}
    /\ \A v \in Worker : busy[v] # w

\* Once the old workers have been stopped, the missing ones are registered ...
StartWorker(c, w) ==
    /\ Goto("refresh", "starting")
    /\ \A d \in Camera : ~Outdated(d)
    /\ plan[c] # None /\ workers[c] = None
    /\ Free(w)
    /\ cam' = c /\ victim' = w
    /\ workers' = [workers EXCEPT ![c] = w]
    /\ of' = [of EXCEPT ![w] = c]
    /\ src' = [src EXCEPT ![w] = plan[c]]
    /\ stop' = [stop EXCEPT ![w] = FALSE]
    /\ pc' = [pc EXCEPT ![w] = "none"]
    /\ rec' = [rec EXCEPT ![w] = "none"]
    /\ hot' = [hot EXCEPT ![w] = 0] /\ built' = [built EXCEPT ![w] = 0]
    /\ UNCHANGED <<outside, flags, plan, busy, pipes, cfg, poller, budget>>

\* ... start_camera builds recorder, detector and pipeline and enters them ...
StartCamera ==
    /\ Goto("starting", "recStart")
    /\ IF pipes[cam] # None
         THEN UNCHANGED <<pipes, rec, hot, built>>
         ELSE /\ pipes' = [pipes EXCEPT ![cam] = victim]
              /\ rec' = [rec EXCEPT ![victim] = "made"]
              /\ hot' = [hot EXCEPT ![victim] = cfg] /\ built' = [built EXCEPT ![victim] = cfg]
    /\ UNCHANGED <<outside, flags, hold, known, threads, cfg, poller, budget>>

\* ... or raises when the detector does not load, which ends the whole refresh ...
StartFails ==
    /\ Goto("starting", "idle")
    /\ budget.fails > 0 /\ budget' = [budget EXCEPT !.fails = @ - 1]
    /\ cam' = None /\ victim' = None
    /\ UNCHANGED <<outside, flags, plan, known, threads, runtime, poller>>

\* ... the recorder starts, outside of the runtime's lock ...
StartRecorder ==
    /\ Goto("recStart", "threads")
    /\ rec' = [w \in Worker |-> IF w = victim /\ rec[w] = "made" THEN "runs" ELSE rec[w]]
    /\ UNCHANGED <<outside, flags, hold, known, threads, pipes, hot, built, cfg, poller, budget>>

\* ... and the decode thread.
StartThreads ==
    /\ Goto("threads", "refresh")
    /\ pc' = [pc EXCEPT ![victim] = "open"]
    /\ cam' = None /\ victim' = None
    /\ UNCHANGED <<outside, flags, plan, known, busy, runtime, poller, budget>>

\* The end of refresh, and of stop(), which ends with stop_all.
Done ==
    /\ Goto("refresh", "idle")
    /\ \A c \in Camera : ~Outdated(c) /\ (plan[c] # None => workers[c] # None)
    /\ pipes' = IF stopped THEN [c \in Camera |-> None] ELSE pipes
    /\ rec' = [w \in Worker |-> IF stopped /\ \E c \in Camera : pipes[c] = w
                                THEN "stopped" ELSE rec[w]]
    /\ UNCHANGED <<outside, flags, hold, known, threads, hot, built, cfg, poller, budget>>

(***************************************************************************)
(* The decode thread of a worker                                           *)
(***************************************************************************)

Thread(w, from, to) ==
    /\ pc[w] = from /\ pc' = [pc EXCEPT ![w] = to]
    /\ UNCHANGED <<outside, control, runtime, poller, budget>>

\* The head of a loop tests _stop.
Unless(w, next) == IF stop[w] THEN "done" ELSE next

\* The stream opens, or not.
Open(w) ==
    /\ \/ Thread(w, "open", Unless(w, "read"))
       \/ Thread(w, "open", Unless(w, "nap"))
    /\ UNCHANGED busy

NapOver(w) == Thread(w, "nap", Unless(w, "open")) /\ UNCHANGED busy

\* cap.read returns a frame, however long it has blocked, or no frame.
ReadFrame(w) == Thread(w, "read", "frame") /\ UNCHANGED busy
ReadFails(w) == Thread(w, "read", Unless(w, "nap")) /\ UNCHANGED busy

\* EdgeRuntime.process looks up the camera's pipeline, the one that is there now ...
Process(w) ==
    /\ Thread(w, "frame", "process")
    /\ busy' = [busy EXCEPT ![w] = pipes[of[w]]]

\* ... and runs the frame through it; after that the loop tests _stop.
ProcessDone(w) ==
    /\ Thread(w, "process", Unless(w, "read"))
    /\ busy' = [busy EXCEPT ![w] = None]
(***************************************************************************)
(* The poll of the configuration                                           *)
(***************************************************************************)

\* Mutant of Fetch: a failed fetch counts as a poll of the version.
FetchOrForget ==
    /\ ppc = "poll"
    /\ IF quit THEN ppc' = "off" /\ UNCHANGED <<polled, last>>
       ELSE \/ paired /\ polled' = remote /\ UNCHANGED last
               /\ ppc' = IF remote = last THEN "wait" ELSE "apply"
            \/ ppc' = "wait" /\ last' = remote /\ UNCHANGED polled
    /\ UNCHANGED <<outside, control, threads, runtime, budget>>

\* The loop ends after stop(); otherwise the backend answers a paired computer, with a version
\* that is new or not ...
Fetch ==
    /\ ppc = "poll"
    /\ IF quit THEN ppc' = "off" /\ UNCHANGED polled
       ELSE paired /\ polled' = remote /\ ppc' = IF remote = last THEN "wait" ELSE "apply"
    /\ UNCHANGED <<outside, control, threads, runtime, last, budget>>

\* ... or the fetch fails.
FetchFails ==
    /\ ppc = "poll" /\ ~quit /\ ppc' = "wait"
    /\ UNCHANGED <<outside, control, threads, runtime, polled, last, budget>>

\* EdgePipeline.apply_config for each pipeline the runtime has, and pre and post of its recorder.
Configured(v) == [w \in Worker |-> IF \E c \in Camera : pipes[c] = w THEN v ELSE hot[w]]

\* Mutant of Apply: only what runs gets the new configuration.
ApplyToPipes ==
    /\ ppc = "apply" /\ ppc' = "wait"
    /\ hot' = Configured(polled)
    /\ last' = polled
    /\ UNCHANGED <<outside, control, threads, pipes, rec, built, cfg, polled, budget>>

\* EdgeRuntime.apply_config: the cameras that run take what can be changed in them, those that
\* will start take the whole of it.
Apply ==
    /\ ppc = "apply" /\ ppc' = "wait"
    /\ cfg' = polled
    /\ hot' = Configured(polled)
    /\ last' = polled
    /\ UNCHANGED <<outside, control, threads, pipes, rec, built, polled, budget>>

\* Thirty seconds later, or at once after stop().
PollAgain ==
    /\ ppc = "wait" /\ ppc' = IF quit THEN "off" ELSE "poll"
    /\ UNCHANGED <<outside, control, threads, runtime, polled, last, budget>>

(***************************************************************************)
(* The specification                                                       *)
(***************************************************************************)

\* What refresh and stop do once they have the lock.
Controller ==
    \/ Stop \/ Done
    \/ \E c \in Camera : StopWorker(c) \/ \E w \in Worker : StartWorker(c, w)
    \/ StopCamera \/ StopRecorder \/ StartCamera \/ StartRecorder \/ StartThreads

Decode(w) ==
    Open(w) \/ NapOver(w) \/ ReadFrame(w) \/ ReadFails(w) \/ Process(w) \/ ProcessDone(w)

Next ==
    \/ \E c \in Camera, s \in Source \cup {None} : Edit(c, s)
    \/ Pair \/ Publish \/ Quit
    \/ Refresh \/ Controller \/ StartFails
    \/ \E w \in Worker : Decode(w)
    \/ Fetch \/ FetchFails \/ Apply \/ PollAgain

Spec == Init /\ [][Next]_vars

\* The window's tick refreshes every 30 s, but only while the computer is paired (app.py
\* 1835-1836, 1867-1876); a refresh that has the lock goes on, stop() gets the lock in the end, a
\* read of the stream ends sooner or later (OpenCV has its own timeout), and the backend answers
\* a paired computer now and then.
FairSpec ==
    /\ Spec
    /\ WF_vars(paired /\ Refresh) /\ WF_vars(Controller) /\ SF_vars(Stop)
    /\ \A w \in Worker : WF_vars(Decode(w))
    /\ SF_vars(Fetch) /\ WF_vars(Apply) /\ WF_vars(PollAgain)

(***************************************************************************)
(* Properties                                                              *)
(***************************************************************************)

\* A recorder runs, with its ffmpeg and its clip worker, only while the runtime has it, or
\* while the controller is starting or stopping it.
RecordersOwned ==
    \A w \in Worker : rec[w] = "runs" =>
        (\E c \in Camera : pipes[c] = w) \/ (ctl = "recStop" /\ victim = w)

\* Once stop() is through nothing runs, and no refresh brings anything back.
StoppedForGood ==
    stopped /\ ctl = "idle" =>
        /\ \A c \in Camera : workers[c] = None /\ pipes[c] = None
        /\ \A w \in Worker : rec[w] # "runs"

\* A camera that starts in the middle of a configuration change misses nothing of it: what can be
\* changed in a running pipeline and recorder is that of the runtime's configuration, for all of
\* them, and what waits for a restart is not of a later one.
OneConfiguration ==
    \A c \in Camera : pipes[c] # None => hot[pipes[c]] = cfg /\ built[pipes[c]] <= cfg

\* Once the cameras, sources and zones stay as they are and the computer stays paired, every
\* registered worker has the wanted source and every wanted camera a worker.
SourcesFollowed ==
    \A c \in Camera, s \in Source \cup {None} :
        <>[](want[c] = s /\ paired /\ ~quit) =>
        <>[](IF workers[c] = None THEN s = None ELSE src[workers[c]] = s)

\* A configuration that was published last reaches the engine of a paired computer, through all
\* failed polls.
ConfigurationArrives ==
    \A v \in 1 .. MaxVersion : <>[](remote = v /\ paired /\ ~quit) => <>[](cfg = v)

\* controller.py 3-4: "this drives ONE decode loop": no two threads are inside one pipeline.
OneDecodeLoop ==
    \A v, w \in Worker : v # w /\ busy[v] # None => busy[v] # busy[w]

\* controller.py 196: refresh reconciles the workers "with the current edge_pc camera set": a
\* camera that stays wanted comes to have a pipeline.
WantedIsAnalysed ==
    \A c \in Camera :
        <>[](want[c] # None /\ paired /\ ~quit) => <>[](pipes[c] # None)

\* controller.py 211-214: on an unpaired computer nothing is analysed, sooner or later.
UnpairedStops == <>[](~paired) => <>[](\A c \in Camera : workers[c] = None)
=============================================================================
