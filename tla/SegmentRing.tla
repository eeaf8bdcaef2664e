----------------------------- MODULE SegmentRing -----------------------------
(***************************************************************************)
(* SegmentRecorder of edge/recorder.py with the part of edge/pipeline.py   *)
(* and edge/behavior.py that moves its protect floor: the rolling ring of  *)
(* video segments of one camera.                                           *)
(*                                                                         *)
(* Three threads share the segment directory, the floor and the stop       *)
(* event, none of them under a lock:                                       *)
(*   - the ring thread (_run), which keeps ffmpeg writing one-second       *)
(*     segments and prunes old ones;                                       *)
(*   - the decode thread (EdgePipeline.process), which opens and closes    *)
(*     suspicious episodes and then moves the floor;                       *)
(*   - the thread that stops the camera.                                   *)
(*                                                                         *)
(* Time is a clock of whole seconds, the length of a segment.  Segment s   *)
(* covers the second from s to s + 1 and is named after s.                 *)
(***************************************************************************)
EXTENDS Integers, FiniteSets

CONSTANTS
    Person,      \* tracks that can be suspicious at once
    Pre,         \* pre_sec, the footage a clip shows before its episode
    Keep,        \* keep_sec of the ring
    MaxEpisode,  \* _MAX_EPISODE_SEC
    PostQuiet,   \* post_quiet_sec, the silence that closes an episode
    DropAfter,   \* drop_after_sec, the absence that drops a track
    Lag,         \* the longest a frame spends in the detector
    None,        \* Python's None
    MaxTime,     \* bound: the clock stops here
    MaxDeaths    \* bound: how often the segment ffmpeg dies

VARIABLES
    now,       \* time.time()
    segs,      \* segment files on disk, by start time
    written,   \* history: every segment ever written
    ringUp,    \* the segment ffmpeg is running
    rpc,       \* where the ring thread is
    cutoff,    \* its local cutoff in prune
    expired,   \* history: a prune has disregarded a floor that was too old
    deaths,    \* bound on ring ffmpeg deaths
    floor,     \* _protect_floor
    open,      \* ep_start and last_active of a suspicious track, or None
    fpc,       \* where the decode thread is
    at,        \* the time the frame was taken, the `now` of process
    stop       \* "set" once _stop is, "reaped" when stop() has reaped ffmpeg

ringVars   == <<segs, written, ringUp, rpc, cutoff, expired, deaths>>
decodeVars == <<floor, open, fpc, at>>
vars == <<now, ringVars, decodeVars, stop>>

Time == 0 .. MaxTime
Span == [start : Time, last : Time]

TypeOK ==
    /\ now \in Time
    /\ segs \subseteq written /\ written \subseteq Time
    /\ ringUp \in BOOLEAN
    /\ rpc \in {"head", "spawn", "watch", "delete", "poll", "nap", "backoff", "reap", "done"}
    /\ cutoff \in Int
    /\ expired \in BOOLEAN
    /\ deaths \in 0 .. MaxDeaths
    /\ floor \in Int \cup {None}
    /\ open \in [Person -> Span \cup {None}]
    /\ fpc \in {"idle", "detect", "floor"}
    /\ at \in Time
    /\ stop \in {"run", "set", "reaped"}

\* SegmentRecorder.start has run: the ring thread is alive.
Init ==
    /\ now = 0
    /\ segs = {} /\ written = {} /\ ringUp = FALSE
    /\ rpc = "head" /\ cutoff = 0 /\ expired = FALSE /\ deaths = 0
    /\ floor = None
    /\ open = [p \in Person |-> None]
    /\ fpc = "idle" /\ at = 0
    /\ stop = "run"

(***************************************************************************)
(* The clock and the segment ffmpeg                                        *)
(***************************************************************************)

Opened == {p \in Person : open[p] # None}

\* A second passes: a running ffmpeg completes the segment of that second, and
\* a napping ring thread wakes up.  One pass of prune takes less than a
\* second, and so does the step from behavior.update to
\* set_protect_floor; the detector takes at most Lag.
Tick ==
    /\ now < MaxTime
    /\ rpc \in {"spawn", "nap", "backoff", "done"}
    /\ fpc # "floor" /\ (fpc = "detect" => now < at + Lag)
    /\ now' = now + 1
    /\ segs' = IF ringUp THEN segs \cup {now} ELSE segs
    /\ written' = IF ringUp THEN written \cup {now} ELSE written
    /\ rpc' = IF rpc = "nap" THEN "watch" ELSE rpc
    /\ UNCHANGED <<ringUp, cutoff, expired, deaths, decodeVars, stop>>

\* A camera reboot or a restart of the fan-out hub ends the segment ffmpeg.
RingDies ==
    /\ ringUp /\ deaths < MaxDeaths
    /\ ringUp' = FALSE
    /\ deaths' = deaths + 1
    /\ UNCHANGED <<now, segs, written, rpc, cutoff, expired, decodeVars, stop>>

(***************************************************************************)
(* The ring thread: _run and prune                                         *)
(***************************************************************************)

Goto(from, to) == rpc = from /\ rpc' = to

Stopped == stop # "run"

RingRest == <<now, segs, written, deaths, decodeVars, stop>>

Head ==
    /\ Goto("head", IF Stopped THEN "reap" ELSE "spawn")
    /\ UNCHANGED <<ringUp, cutoff, expired, RingRest>>

Spawn ==
    /\ Goto("spawn", "watch")
    /\ ringUp' = TRUE
    /\ UNCHANGED <<cutoff, expired, RingRest>>

SpawnFails ==
    /\ Goto("spawn", "backoff")
    /\ UNCHANGED <<ringUp, cutoff, expired, RingRest>>

WatchEnds ==
    /\ Goto("watch", "reap") /\ Stopped
    /\ UNCHANGED <<ringUp, cutoff, expired, RingRest>>

\* Mutant of LiveFloor: a floor never expires.
FloorNeverExpires == floor # None

\* The floor holds back the cutoff unless it is older than any live episode.
LiveFloor == floor # None /\ floor >= now - (Keep + MaxEpisode)

\* prune reads the clock and the floor once ...
PruneRead ==
    /\ Goto("watch", "delete") /\ ~Stopped
    /\ cutoff' = IF LiveFloor /\ floor < now - Keep THEN floor ELSE now - Keep
    /\ expired' = (expired \/ (floor # None /\ ~LiveFloor))
    /\ UNCHANGED <<ringUp, RingRest>>

\* ... and then deletes what ended by then.
PruneDelete ==
    /\ Goto("delete", "poll")
    /\ segs' = {s \in segs : s + 1 > cutoff}
    /\ UNCHANGED <<now, written, ringUp, cutoff, expired, deaths, decodeVars, stop>>

\* poll(): a dead ffmpeg is respawned after a backoff.
Poll ==
    /\ Goto("poll", IF ringUp THEN "nap" ELSE "backoff")
    /\ UNCHANGED <<ringUp, cutoff, expired, RingRest>>

\* _stop.wait(segment_sec) ends early when the stop event is set (Tick is the
\* other way); at the clock's bound it simply ends.
NapOver ==
    /\ Goto("nap", "watch")
    /\ Stopped \/ now = MaxTime
    /\ UNCHANGED <<ringUp, cutoff, expired, RingRest>>

\* The backoff of 2 to 30 s may take any time.
BackoffOver ==
    /\ Goto("backoff", IF Stopped THEN "reap" ELSE "head")
    /\ UNCHANGED <<ringUp, cutoff, expired, RingRest>>

\* Mutant of Reap: the ring thread leaves the reaping to stop().
LeaveWithoutReap ==
    /\ Goto("reap", "done")
    /\ UNCHANGED <<ringUp, cutoff, expired, RingRest>>

Reap ==
    /\ Goto("reap", "done")
    /\ ringUp' = FALSE
    /\ UNCHANGED <<cutoff, expired, RingRest>>

(***************************************************************************)
(* The decode thread: EdgePipeline.process                                 *)
(***************************************************************************)

DecodeRest == <<now, ringVars, stop>>

\* A frame is read, stamped and handed to the detector.  Once the camera is stopping no new
\* frame reaches this pipeline; one that is in the detector goes on.
TakeFrame ==
    /\ fpc = "idle" /\ ~Stopped
    /\ fpc' = "detect"
    /\ at' = now
    /\ UNCHANGED <<floor, open, DecodeRest>>

\* What one analysed frame does to a track: it stays normal, becomes
\* suspicious, scores again, stays suspicious without scoring, or its
\* episode closes, because it was quiet for PostQuiet or unseen for more than
\* DropAfter (_advance_episode and _drop_stale, with the risk left out).
TrackStep(before) ==
    IF before = None THEN {None, [start |-> at, last |-> at]}
    ELSE {[before EXCEPT !.last = at]}
         \cup (IF at - before.last < PostQuiet + DropAfter THEN {before} ELSE {})
         \cup (IF at - before.last >= PostQuiet \/ at - before.last > DropAfter THEN {None} ELSE {})

\* behavior.update
Update(after) ==
    /\ fpc = "detect"
    /\ \A p \in Person : after[p] \in TrackStep(open[p])
    /\ open' = after
    /\ fpc' = "floor"
    /\ UNCHANGED <<floor, at, DecodeRest>>

\* Faulty: the floor leaves the pre-roll out.
FloorAtStart ==
    /\ fpc = "floor"
    /\ \/ Opened = {} /\ floor' = None
       \/ \E p \in Opened :
             /\ \A q \in Opened : open[p].start <= open[q].start
             /\ floor' = open[p].start
    /\ fpc' = "idle"
    /\ UNCHANGED <<open, at, DecodeRest>>

\* set_protect_floor(oldest_open_episode_start()), the start of the oldest open
\* episode less Pre.
SetFloor ==
    /\ fpc = "floor"
    /\ \/ Opened = {} /\ floor' = None
       \/ \E p \in Opened :
             /\ \A q \in Opened : open[p].start <= open[q].start
             /\ floor' = open[p].start - Pre
    /\ fpc' = "idle"
    /\ UNCHANGED <<open, at, DecodeRest>>

(***************************************************************************)
(* stop()                                                                  *)
(***************************************************************************)

SetStop ==
    /\ stop = "run"
    /\ stop' = "set"
    /\ UNCHANGED <<now, ringVars, decodeVars>>

\* The ring thread is joined for at most 5 s, then ffmpeg is reaped in any case.
StopReaps ==
    /\ stop = "set"
    /\ stop' = "reaped"
    /\ ringUp' = FALSE
    /\ UNCHANGED <<now, segs, written, rpc, cutoff, expired, deaths, decodeVars>>

(***************************************************************************)
(* The specification                                                       *)
(***************************************************************************)

RingThread ==
    \/ Head \/ Spawn \/ SpawnFails \/ WatchEnds \/ PruneRead \/ PruneDelete
    \/ Poll \/ NapOver \/ BackoffOver \/ Reap

\* behavior.update for any outcome of the frame.
UpdateSome == \E after \in [Person -> UNION {TrackStep(open[p]) : p \in Person}] : Update(after)

Next ==
    \/ Tick \/ RingDies \/ RingThread
    \/ TakeFrame
    \/ UpdateSome
    \/ SetFloor
    \/ SetStop \/ StopReaps

Spec == Init /\ [][Next]_vars

\* Time passes, however many frames are analysed in a second; the ring thread is scheduled,
\* a camera that stays reachable lets ffmpeg start again, the detector
\* returns, and stop() goes on once it has begun.
Fairness ==
    /\ SF_vars(Tick)
    /\ WF_vars(RingThread) /\ SF_vars(Spawn)
    /\ WF_vars(UpdateSome \/ SetFloor)
    /\ WF_vars(StopReaps)

FairSpec == Spec /\ Fairness

(***************************************************************************)
(* Properties                                                              *)
(***************************************************************************)

\* The segment ffmpeg never outlives the stop of its camera for good, even when
\* the stop meets a ring thread that is just spawning it.
StopEndsRing == Stopped ~> []~ringUp
=============================================================================
