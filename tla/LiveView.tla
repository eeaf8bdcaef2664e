------------------------------ MODULE LiveView ------------------------------
(***************************************************************************)
(* The live page of gui/local_view.py.  Every visit of the page starts one *)
(* reader per camera (_CameraReader): a decode thread that owns the video  *)
(* capture and, while edge AI is on, a worker thread that annotates the    *)
(* newest raw frame and may run a clip recorder.  The window thread shows, *)
(* hides and leaves the page and polls the edge configuration.             *)
(*                                                                         *)
(* Frames are reduced to the parity of the counter of painted frames and   *)
(* to whether the raw slot holds one the worker has not seen.              *)
(***************************************************************************)
EXTENDS Integers, Sequences, FiniteSets

CONSTANTS
    Camera,     \* cameras with an RTSP URL
    SubStream,  \* those whose main stream has a path with a known sub-stream
    Nothing,    \* no pipeline, no poll
    MaxVisits,  \* bound: how often the page is shown
    MaxFails    \* failed inferences in a row before the worker gives up (30)

ASSUME LiveAssumption ==
    /\ SubStream \subseteq Camera
    /\ {MaxVisits, MaxFails} \subseteq Nat \ {0}
    /\ Nothing \notin Camera \cup Nat

VARIABLES
    visit,     \* the latest visit of the page, 0 before the first
    shown,     \* that visit is still on screen (not _closed)
    edgeOn,    \* settings.edge_ai_enabled
    current,   \* _edge_cfg_version of the page is the version the backend serves
    poll,      \* the pipelines a poll thread will configure, or Nothing
    stop, active,        \* of a reader: _stop_event, _active
    pc, urls, try, pin,  \* of its decode thread: place, urls, the index tried, _pin (0 is none)
    seq, status,         \* _seq modulo 2 (2 before the first frame), status
    raw,                 \* the raw slot: "none", "new" or "seen" by the worker
    wpc, ready, failed, fails, \* of its worker: place, _edge_ready, _edge_failed, fail_count
    pipe, rec,           \* the configuration of its pipeline, "served" now or "older"; its recorder is on
    risky,               \* max_risk is above the glow limit
    errors               \* _edge_errors, by camera

pageVars   == <<visit, shown, edgeOn>>
pollVars   == <<current, poll>>
decodeVars == <<pc, try, pin, status>>
workerVars == <<wpc, failed, fails, pipe, rec, risky, errors>>
uiVars     == <<pageVars, pollVars, stop, active, urls>>
lvVars == <<uiVars, decodeVars, workerVars, seq, raw, ready>>

Reader  == Camera \X (1 .. MaxVisits)
Current == IF shown THEN Camera \X {visit} ELSE {}

\* What a reader tries, in order: the hub when it serves the camera, the sub-stream, the main one.
ReaderUrls(c, hub) ==
    (IF hub THEN <<"hub">> ELSE <<>>) \o (IF c \in SubStream THEN <<"sub">> ELSE <<>>) \o <<"main">>

LVTypeOK ==
    /\ visit \in 0 .. MaxVisits /\ {shown, edgeOn} \subseteq BOOLEAN
    /\ current \in BOOLEAN
    /\ poll \in (SUBSET Reader) \cup {Nothing}
    /\ {stop, active, ready, failed, rec, risky} \subseteq [Reader -> BOOLEAN]
    /\ pc \in [Reader -> {"off", "delay", "head", "try", "read", "check", "snap", "pump", "nap", "done"}]
    /\ urls \in [Reader -> {ReaderUrls(c, hub) : c \in Camera, hub \in BOOLEAN}]
    /\ try \in [Reader -> 1 .. 3] /\ pin \in [Reader -> 0 .. 3]
    /\ seq \in [Reader -> 0 .. 2]
    /\ status \in [Reader -> {"connecting", "live", "reconnecting", "error"}]
    /\ raw \in [Reader -> {"none", "new", "seen"}]
    /\ wpc \in [Reader -> {"none", "build", "record", "run", "infer", "end", "dead"}]
    /\ fails \in [Reader -> 0 .. MaxFails - 1]
    /\ pipe \in [Reader -> {Nothing, "older", "served"}]
    /\ errors \subseteq Camera

All(v) == [r \in Reader |-> v]

LVInit ==
    /\ visit = 0 /\ shown = FALSE
    /\ edgeOn \in BOOLEAN
    /\ current = FALSE /\ poll = Nothing
    /\ stop = All(FALSE) /\ active = All(TRUE) /\ urls = [r \in Reader |-> ReaderUrls(r[1], FALSE)]
    /\ pc = All("off") /\ try = All(1) /\ pin = All(0)
    /\ seq = All(2) /\ status = All("connecting") /\ raw = All("none")
    /\ wpc = All("none") /\ ready = All(FALSE) /\ failed = All(FALSE) /\ fails = All(0)
    /\ pipe = All(Nothing) /\ rec = All(FALSE) /\ risky = All(FALSE)
    /\ errors = {}

Put(f, r, v) == [f EXCEPT ![r] = v]

(***************************************************************************)
(* The window thread                                                       *)
(***************************************************************************)

\* The page is built: a reader per camera, through the local hub when it serves the camera.
Show ==
    /\ ~shown /\ visit < MaxVisits
    /\ visit' = visit + 1 /\ shown' = TRUE
    /\ current' = FALSE
    /\ \E hub \in BOOLEAN :
          urls' = [r \in Reader |-> IF r[2] = visit + 1 THEN ReaderUrls(r[1], hub) ELSE urls[r]]
    /\ pc' = [r \in Reader |-> IF r[2] = visit + 1 THEN "delay" ELSE pc[r]]
    /\ UNCHANGED <<edgeOn, poll, stop, active, try, pin, status, workerVars, seq, raw, ready>>

\* The tick sees the window minimised or restored, or a double click focuses a tile:
\* _apply_visibility lets decode no reader, one, or all.
Look ==
    /\ shown
    /\ \E visible \in {{}, Camera} \cup {{c} : c \in Camera} :
          active' = [r \in Reader |-> IF r \in Current THEN r[1] \in visible ELSE active[r]]
    /\ UNCHANGED <<pageVars, pollVars, stop, urls, decodeVars, workerVars, seq, raw, ready>>

\* stop(): the timers are cancelled, the readers told to end and joined for at most 1.5 s in
\* all, so they may live on.
LeavePage ==
    /\ shown /\ shown' = FALSE
    /\ stop' = [r \in Reader |-> stop[r] \/ r \in Current]
    /\ UNCHANGED <<visit, edgeOn, pollVars, active, urls, decodeVars, workerVars, seq, raw, ready>>

\* The operator publishes a configuration: nobody has it yet.
Publish ==
    /\ current' = FALSE
    /\ pipe' = [r \in Reader |-> IF pipe[r] = Nothing THEN Nothing ELSE "older"]
    /\ UNCHANGED <<pageVars, poll, stop, active, urls, decodeVars, wpc, failed, fails, rec, risky,
                   errors, seq, raw, ready>>

\* Every 30 s _tick_edge_config hands the live pipelines to a thread, which has nothing to do
\* without any.
PollTick ==
    /\ shown /\ poll = Nothing
    /\ \E pipes \in {{r \in Current : pipe[r] # Nothing}} : pipes # {} /\ poll' = pipes
    /\ UNCHANGED <<pageVars, current, stop, active, urls, decodeVars, workerVars, seq, raw, ready>>

\* poll_and_apply: a version that differs from the page's goes to those pipelines, and is the
\* page's from then on (a page that was left keeps its own).
PollAnswered ==
    /\ poll # Nothing /\ poll' = Nothing
    /\ IF current
         THEN UNCHANGED <<pipe, current>>
         ELSE /\ pipe' = [r \in Reader |-> IF r \in poll /\ pipe[r] # Nothing THEN "served" ELSE pipe[r]]
              /\ current' = (poll \subseteq Current)
    /\ UNCHANGED <<pageVars, stop, active, urls, decodeVars, wpc, failed, fails, rec, risky,
                   errors, seq, raw, ready>>

PollFails ==
    /\ poll # Nothing /\ poll' = Nothing
    /\ UNCHANGED <<pageVars, current, stop, active, urls, decodeVars, workerVars, seq, raw, ready>>

(***************************************************************************)
(* The decode thread of reader r                                           *)
(***************************************************************************)

\* What every action of the decode thread leaves alone.
Decode(r) == UNCHANGED <<uiVars, failed, fails, pipe, rec, risky, errors>>

\* _store: the tile gets a new frame.
Store(r) == seq' = Put(seq, r, IF seq[r] = 0 THEN 1 ELSE 0)

\* The start delay, and the head of run's loop: a paused reader idles without a capture.
Delay(r) ==
    /\ pc[r] = "delay" /\ pc' = Put(pc, r, IF stop[r] THEN "done" ELSE "head")
    /\ Decode(r) /\ UNCHANGED <<try, pin, status, wpc, seq, raw, ready>>

Loop(r) ==
    /\ pc[r] = "head"
    /\ \/ stop[r] /\ pc' = Put(pc, r, "done") /\ UNCHANGED try
       \/ /\ ~stop[r] /\ active[r]
          /\ pc' = Put(pc, r, "try")
          /\ try' = Put(try, r, IF pin[r] # 0 THEN pin[r] ELSE 1)
    /\ Decode(r) /\ UNCHANGED <<pin, status, wpc, seq, raw, ready>>

\* _open and _prime: a capture that delivers a first frame is pinned ...
OpenOk(r) ==
    /\ pc[r] = "try" /\ ~stop[r] /\ active[r]
    /\ pin' = Put(pin, r, try[r])
    /\ status' = Put(status, r, "live")
    /\ pc' = Put(pc, r, "read")
    /\ Store(r)
    /\ Decode(r) /\ UNCHANGED <<try, wpc, raw, ready>>

\* ... any other is dropped: it failed, gave no frame in 12 s, or was paused.  The next
\* candidate follows, unless one was pinned; after the last the HTTP snapshots.
OpenFails(r) ==
    /\ pc[r] = "try"
    /\ \/ stop[r] /\ pc' = Put(pc, r, "done") /\ UNCHANGED try
       \/ /\ ~stop[r]
          /\ IF pin[r] = 0 /\ try[r] < Len(urls[r])
               THEN try' = Put(try, r, try[r] + 1) /\ UNCHANGED pc
               ELSE pc' = Put(pc, r, "snap") /\ UNCHANGED try
    /\ Decode(r) /\ UNCHANGED <<pin, status, wpc, seq, raw, ready>>

\* Mutant of ReadFrame: a paused reader goes on decoding.
ReadAlways(r) ==
    /\ pc[r] = "read" /\ ~stop[r]
    /\ IF edgeOn /\ ~failed[r]
         THEN pc' = Put(pc, r, "check") /\ raw' = Put(raw, r, "new") /\ UNCHANGED seq
         ELSE Store(r) /\ UNCHANGED <<pc, raw>>
    /\ Decode(r) /\ UNCHANGED <<try, pin, status, wpc, ready>>

\* _consume reads a frame: it goes to the worker's slot, or straight to the tile.
ReadFrame(r) ==
    /\ pc[r] = "read" /\ ~stop[r] /\ active[r]
    /\ IF edgeOn /\ ~failed[r]
         THEN pc' = Put(pc, r, "check") /\ raw' = Put(raw, r, "new") /\ UNCHANGED seq
         ELSE Store(r) /\ UNCHANGED <<pc, raw>>
    /\ Decode(r) /\ UNCHANGED <<try, pin, status, wpc, ready>>

\* The rest of the loop body: a worker that never ran or died is started; until it has
\* annotated a frame the raw one is shown.
Check(r) ==
    /\ pc[r] = "check" /\ pc' = Put(pc, r, "read")
    /\ LET start == wpc[r] \in {"none", "dead"} IN
       /\ wpc'   = IF start THEN Put(wpc, r, "build") ELSE wpc
       /\ ready' = IF start THEN Put(ready, r, FALSE) ELSE ready
       /\ raw'   = IF start THEN Put(raw, r, "new") ELSE raw
       /\ IF start \/ ~ready[r] THEN Store(r) ELSE UNCHANGED seq
    /\ Decode(r) /\ UNCHANGED <<try, pin, status>>

\* _consume returns: stopped, paused, or 16 reads in a row failed.  The pin stays.
ReadEnds(r) ==
    /\ pc[r] = "read"
    /\ IF stop[r]
         THEN pc' = Put(pc, r, "done") /\ UNCHANGED status
         ELSE pc' = Put(pc, r, "nap") /\ status' = Put(status, r, "reconnecting")
    /\ Decode(r) /\ UNCHANGED <<try, pin, wpc, seq, raw, ready>>

\* _consume_snapshot: an HTTP endpoint answers with a picture ...
SnapOk(r) ==
    /\ pc[r] = "snap" /\ ~stop[r] /\ active[r]
    /\ pc' = Put(pc, r, "pump")
    /\ status' = Put(status, r, "live")
    /\ Store(r)
    /\ Decode(r) /\ UNCHANGED <<try, pin, wpc, raw, ready>>

\* ... or none does: nothing worked, the pin goes.
SnapFails(r) ==
    /\ pc[r] = "snap"
    /\ IF stop[r]
         THEN pc' = Put(pc, r, "done") /\ UNCHANGED <<pin, status>>
         ELSE pc' = Put(pc, r, "nap") /\ pin' = Put(pin, r, 0) /\ status' = Put(status, r, "error")
    /\ Decode(r) /\ UNCHANGED <<try, wpc, seq, raw, ready>>

\* The endpoint is polled until it fails four times, or the reader is stopped or paused.
Pump(r) ==
    /\ pc[r] = "pump" /\ ~stop[r] /\ active[r]
    /\ Store(r)
    /\ Decode(r) /\ UNCHANGED <<pc, try, pin, status, wpc, raw, ready>>

PumpEnds(r) ==
    /\ pc[r] = "pump"
    /\ IF stop[r]
         THEN pc' = Put(pc, r, "done") /\ UNCHANGED status
         ELSE pc' = Put(pc, r, "nap") /\ status' = Put(status, r, "reconnecting")
    /\ Decode(r) /\ UNCHANGED <<try, pin, wpc, seq, raw, ready>>

\* Two seconds between two rounds.
Nap(r) ==
    /\ pc[r] = "nap" /\ pc' = Put(pc, r, IF stop[r] THEN "done" ELSE "head")
    /\ Decode(r) /\ UNCHANGED <<try, pin, status, wpc, seq, raw, ready>>

(***************************************************************************)
(* The worker thread of reader r: _edge_loop and _edge_run                 *)
(***************************************************************************)

Work(r) == UNCHANGED <<uiVars, decodeVars>>

Failed(r) ==
    /\ failed' = Put(failed, r, TRUE)
    /\ errors' = errors \cup {r[1]}

\* The detector cannot be built: edge AI is off for this reader.
BuildFails(r) ==
    /\ wpc[r] = "build" /\ wpc' = Put(wpc, r, "dead")
    /\ Failed(r)
    /\ Work(r) /\ UNCHANGED <<fails, pipe, rec, risky, seq, raw, ready>>

BuildOk(r) ==
    /\ wpc[r] = "build" /\ wpc' = Put(wpc, r, "record")
    /\ Work(r) /\ UNCHANGED <<failed, fails, pipe, rec, risky, errors, seq, raw, ready>>

\* The URL _build_clip_recorder would record from.
Source(r) == urls[r][IF pin[r] \in DOMAIN urls[r] THEN pin[r] ELSE 1]

\* A recorder only off the local hub and not in the edge tier; it may fail to start.  Then
\* the pipeline, with the default configuration.
Record(r) ==
    /\ wpc[r] = "record" /\ wpc' = Put(wpc, r, "run")
    /\ \E on \in BOOLEAN : (on => Source(r) = "hub") /\ rec' = Put(rec, r, on)
    /\ pipe' = Put(pipe, r, "older")
    /\ fails' = Put(fails, r, 0)
    /\ Work(r) /\ UNCHANGED <<failed, risky, errors, seq, raw, ready>>

\* The newest raw frame is taken, unless it was seen; a paused worker stays alive.
Grab(r) ==
    /\ wpc[r] = "run" /\ ~stop[r] /\ active[r] /\ raw[r] = "new"
    /\ wpc' = Put(wpc, r, "infer") /\ raw' = Put(raw, r, "seen")
    /\ Work(r) /\ UNCHANGED <<failed, fails, pipe, rec, risky, errors, seq, ready>>

\* Mutant of InferOk: the annotated frame is not stored.
InferOnly(r) ==
    /\ wpc[r] = "infer" /\ wpc' = Put(wpc, r, "run")
    /\ errors' = IF ready[r] THEN errors ELSE errors \ {r[1]}
    /\ ready' = Put(ready, r, TRUE)
    /\ fails' = Put(fails, r, 0)
    /\ \E b \in BOOLEAN : risky' = Put(risky, r, b)
    /\ Work(r) /\ UNCHANGED <<failed, pipe, rec, seq, raw>>

\* The annotated frame is shown and the worker has taken over from the decode thread.
InferOk(r) ==
    /\ wpc[r] = "infer" /\ wpc' = Put(wpc, r, "run")
    /\ Store(r)
    /\ errors' = IF ready[r] THEN errors ELSE errors \ {r[1]}
    /\ ready' = Put(ready, r, TRUE)
    /\ fails' = Put(fails, r, 0)
    /\ \E b \in BOOLEAN : risky' = Put(risky, r, b)
    /\ Work(r) /\ UNCHANGED <<failed, pipe, rec, raw>>

\* One bad inference is skipped, too many in a row end edge AI for this reader.
InferFails(r) ==
    /\ wpc[r] = "infer"
    /\ IF fails[r] + 1 < MaxFails
         THEN /\ fails' = Put(fails, r, fails[r] + 1)
              /\ wpc' = Put(wpc, r, "run")
              /\ UNCHANGED <<failed, errors, pipe>>
         ELSE /\ Failed(r)
              /\ pipe' = Put(pipe, r, Nothing)
              /\ wpc' = Put(wpc, r, "end")
              /\ UNCHANGED fails
    /\ Work(r) /\ UNCHANGED <<rec, risky, seq, raw, ready>>

WorkerStops(r) ==
    /\ wpc[r] = "run" /\ stop[r] /\ wpc' = Put(wpc, r, "end")
    /\ Work(r) /\ UNCHANGED <<failed, fails, pipe, rec, risky, errors, seq, raw, ready>>

\* Mutant of End: the recorder is forgotten.
EndOnly(r) ==
    /\ wpc[r] = "end" /\ wpc' = Put(wpc, r, "dead")
    /\ Work(r) /\ UNCHANGED <<failed, fails, pipe, rec, risky, errors, seq, raw, ready>>

\* The finally clause stops the recorder.
End(r) ==
    /\ wpc[r] = "end" /\ wpc' = Put(wpc, r, "dead")
    /\ rec' = Put(rec, r, FALSE)
    /\ Work(r) /\ UNCHANGED <<failed, fails, pipe, risky, errors, seq, raw, ready>>

(***************************************************************************)
(* What the window paints, 12 times a second                               *)
(***************************************************************************)

\* _Tile.paint: the border of a tile glows by the risk its reader computed last.
Glows(r) == seq[r] # 2 /\ risky[r]

\* _update_risk_kpi: the status of the edge engine over all tiles.
EngineStatus ==
    IF \E r \in Current : ready[r] THEN "ready"
    ELSE IF \A r \in Current : failed[r] THEN "off" ELSE "loading"

(***************************************************************************)
(* The specification                                                       *)
(***************************************************************************)

Decoder(r) ==
    \/ Delay(r) \/ Loop(r) \/ OpenOk(r) \/ OpenFails(r) \/ ReadFrame(r) \/ Check(r) \/ ReadEnds(r)
    \/ SnapOk(r) \/ SnapFails(r) \/ Pump(r) \/ PumpEnds(r) \/ Nap(r)
WorkerThread(r) ==
    \/ BuildFails(r) \/ BuildOk(r) \/ Record(r) \/ Grab(r) \/ InferOk(r) \/ InferFails(r)
    \/ WorkerStops(r) \/ End(r)

LVNext ==
    \/ Show \/ Look \/ LeavePage \/ Publish \/ PollTick \/ PollAnswered \/ PollFails
    \/ \E r \in Reader : Decoder(r) \/ WorkerThread(r)

LVSpec == LVInit /\ [][LVNext]_lvVars

\* Threads are scheduled; reads, opens, requests, builds and inferences return.
LVFairSpec ==
    /\ LVSpec
    /\ WF_lvVars(PollTick) /\ WF_lvVars(PollAnswered \/ PollFails)
    /\ \A r \in Reader : WF_lvVars(Decoder(r)) /\ WF_lvVars(WorkerThread(r))

(***************************************************************************)
(* Properties                                                              *)
(***************************************************************************)

\* A tile whose reader stays on its stream never freezes: local_view.py 608-612 tells of a
\* worker that ended and left the tile "on its last annotated frame".  Across the start of the
\* worker, failed inferences and its giving up, some thread keeps painting.
TileNeverFreezes ==
    \A r \in Reader :
        <>[](pc[r] \in {"read", "check"} /\ active[r]) => []<>(seq[r] = 0) /\ []<>(seq[r] = 1)

\* local_view.py 288-289: a hidden tile holds no capture for long: decoding
\* ends unless the tile is shown again.
HiddenReleasesCamera ==
    \A r \in Reader : ~active[r] /\ pc[r] \in {"read", "pump"} ~> active[r] \/ pc[r] \in {"nap", "head", "done"}

\* Leaving the page ends both threads of each of its readers for good, and the recorder, whatever they
\* were doing and though the page waits for 1.5 s only.
LeavingEndsReaders ==
    \A r \in Reader :
        stop[r] ~> [](pc[r] \in {"off", "done"} /\ wpc[r] \in {"none", "dead"} /\ ~rec[r])

\* local_view.py 920-921: the border stays "frameless (calm) otherwise / when not live".
GlowIsLive == \A r \in Current : Glows(r) => status[r] = "live"

\* local_view.py 1184-1185: the status says ready while a tile is "producing edge frames", off once
\* "all gave up".
EngineStatusIsTrue == (\A r \in Current : failed[r]) /\ Current # {} => EngineStatus = "off"

\* local_view.py 1203: a poll that was answered leaves each of its pipelines with the
\* configuration that is served, "hot-apply the backend's edge tunables to the running pipelines".
PollConfigures ==
    [][PollAnswered => \A r \in poll : pipe[r] # Nothing => pipe'[r] = "served"]_lvVars

\* recorder.py keeps one directory per camera: two visits never record the same camera at once.
OneRecorderPerCamera ==
    \A r, q \in Reader : r[1] = q[1] /\ rec[r] /\ rec[q] => r = q
=============================================================================
