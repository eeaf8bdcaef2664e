---------------------------- MODULE EdgeRecorder ----------------------------
(***************************************************************************)
(* One camera of the edge runtime: EdgePipeline.process feeds the segment  *)
(* ring (SegmentRing) and the clip queue (ClipQueue), the clip worker      *)
(* reads the ring's directory, and EdgeClipRecorder.stop ends both.        *)
(***************************************************************************)
EXTENDS Integers, Sequences, FiniteSets

CONSTANTS
    Person, Pre, Keep, MaxEpisode, PostQuiet, DropAfter, Lag,
    Post,         \* post_sec, the footage a clip shows after its episode
    MaxQueue, None,
    MaxTime, MaxDeaths, MaxEpisodes  \* bounds of the two components

ASSUME TimingAssumption ==
    /\ {Pre, Keep, MaxEpisode, PostQuiet, DropAfter, Lag, Post, MaxTime, MaxDeaths} \subseteq Nat
    /\ Pre + Lag <= Keep
ASSUME QueueAssumption == MaxQueue \in Nat \ {0} /\ MaxEpisodes \in Nat
ASSUME NoneAssumption == None \notin Int /\ None \notin [start : Nat, last : Nat]

VARIABLES
    now, segs, written, ringUp, rpc, cutoff, expired, deaths, floor, open, fpc, at, stop,
    last, qpc, queue, wpc, cur, stopping, spc,
    eps,  \* history: the episodes closed so far, in the order of their closing
    sel   \* the segments build_clip listed, or None

Ring  == INSTANCE SegmentRing
Queue == INSTANCE ClipQueue

ringVars  == <<now, segs, written, ringUp, rpc, cutoff, expired, deaths, floor, open, fpc, at, stop>>
queueVars == <<last, qpc, queue, wpc, cur, stopping, spc>>
vars == <<ringVars, queueVars, eps, sel>>

Window == [start : Ring!Time, end : Ring!Time]

TypeOK ==
    /\ Ring!TypeOK /\ Queue!TypeOK
    /\ eps \in Seq(Window) /\ Len(eps) <= MaxEpisodes /\ last <= Len(eps)
    /\ sel \in (SUBSET Ring!Time) \cup {None}

Init == Ring!Init /\ Queue!Init /\ eps = <<>> /\ sel = None

\* Every episode of the last frame has gone through submit.
AllSubmitted == last = Len(eps) /\ qpc = "idle"

(***************************************************************************)
(* The decode thread                                                       *)
(***************************************************************************)

TakeFrame ==
    /\ AllSubmitted /\ spc = "run"
    /\ Ring!TakeFrame
    /\ UNCHANGED <<queueVars, eps, sel>>

\* Orders in which the tracks of a frame can end.
Orders == UNION {[1 .. n -> Person] : n \in 0 .. Cardinality(Person)}

\* The episodes that end, in any order, join those to submit; _close_episode ends an episode
\* at last_active.
Update(after, order) ==
    /\ Ring!Update(after)
    /\ LET ended == {p \in Person : open[p] # None /\ after[p] = None}
       IN  Len(order) = Cardinality(ended) /\ ended = {order[i] : i \in DOMAIN order}
    /\ Len(eps) + Len(order) <= MaxEpisodes
    /\ eps' = eps \o [i \in DOMAIN order |->
                        [start |-> open[order[i]].start, end |-> open[order[i]].last]]
    /\ UNCHANGED <<queueVars, sel>>

SetFloor ==
    /\ Ring!SetFloor
    /\ UNCHANGED <<queueVars, eps, sel>>

\* The floor is set before the first submit of the frame.
Submit ==
    /\ fpc = "idle" /\ last < Len(eps)
    /\ Queue!Submit
    /\ UNCHANGED <<ringVars, eps, sel>>

Put ==
    /\ Queue!Put
    /\ UNCHANGED <<ringVars, eps, sel>>

(***************************************************************************)
(* The worker: on_episode and build_clip                                   *)
(***************************************************************************)

Get ==
    /\ Queue!Get
    /\ UNCHANGED <<ringVars, eps, sel>>

\* The second s overlaps the clip window of the episode (select_segments).
InWindow(s, ep) == s + 1 > ep.start - Pre /\ s < ep.end + Post

ListSegments ==
    /\ wpc = "cut" /\ sel = None
    /\ sel' = {s \in segs : InWindow(s, eps[cur])}
    /\ UNCHANGED <<ringVars, queueVars, eps>>

\* ffmpeg reads the listed files one after the other, as far as they are still there.
CutDone ==
    /\ sel # None /\ sel \cap segs # {}
    /\ Queue!CutDone
    /\ sel' = None
    /\ UNCHANGED <<ringVars, eps>>

\* No segment was listed, or ffmpeg failed or timed out.
CutFails ==
    /\ sel # None
    /\ Queue!CutFails
    /\ sel' = None
    /\ UNCHANGED <<ringVars, eps>>

UploadOver ==
    /\ Queue!UploadOver
    /\ UNCHANGED <<ringVars, eps, sel>>

(***************************************************************************)
(* The stopping thread and the rest                                        *)
(***************************************************************************)

SetStopping ==
    /\ Queue!SetStopping
    /\ UNCHANGED <<ringVars, eps, sel>>

StopRing ==
    /\ spc = "ring"
    /\ Ring!SetStop
    /\ UNCHANGED <<queueVars, eps, sel>>

StopReaps ==
    /\ Ring!StopReaps
    /\ Queue!RingStopped
    /\ UNCHANGED <<eps, sel>>

StopWorker ==
    /\ Queue!PutSentinel \/ Queue!JoinWorker
    /\ UNCHANGED <<ringVars, eps, sel>>

RingMoves ==
    /\ Ring!Tick \/ Ring!RingDies \/ Ring!RingThread
    /\ UNCHANGED <<queueVars, eps, sel>>

Next ==
    \/ RingMoves
    \/ TakeFrame
    \/ \E after \in [Person -> UNION {Ring!TrackStep(open[p]) : p \in Person}], order \in Orders :
          Update(after, order)
    \/ SetFloor \/ Submit \/ Put
    \/ Get \/ ListSegments \/ CutDone \/ CutFails \/ UploadOver
    \/ SetStopping \/ StopRing \/ StopReaps \/ StopWorker

Spec == Init /\ [][Next]_vars

(***************************************************************************)
(* Properties                                                              *)
(***************************************************************************)

\* Episodes that are submitted, not dropped, and not taken by the worker yet.
Waiting == ({queue[i] : i \in DOMAIN queue} \ {None}) \cup (IF qpc # "idle" THEN {last} ELSE {})

Buffer == INSTANCE EpisodeBuffer
          WITH newest <- last, waiting <- Waiting, taken <- cur, closing <- stopping

\* recorder.py 446-448, "Bounded + drop-oldest": the queue, which put_nowait and get_nowait fill
\* and empty while the worker takes from it and stop() puts its sentinel, is a buffer that drops
\* the oldest: the worker takes the episodes in their order, one is dropped only for a newer one
\* that waits, and the newest is refused only while the camera closes.
BufferSpec == Buffer!Spec

\* behavior.py 284: the floor protects "pre-roll segments from the rolling prune
\* while an episode is still open".  As long as no episode has outlived the leak limit, every
\* open episode still has all the footage that was recorded for it, its
\* pre-roll included.
OpenEpisodesKeepFootage ==
    ~expired => \A p \in Ring!Opened : \A s \in written : s + 1 > open[p].start - Pre => s \in segs

\* recorder.py 40-44 and 376-380, what the prune keeps and what it does not: the newest Keep
\* seconds that were recorded are there, whatever the floor is, and after each
\* prune no segment is older than Keep + MaxEpisode, so a pipeline that dies in the
\* middle of an episode cannot pin the ring.
RetentionWindow ==
    /\ \A s \in written : s + 1 > now - Keep => s \in segs
    /\ rpc \in {"poll", "nap"} => \A s \in segs : s + 1 > now - (Keep + MaxEpisode)

\* The segment ffmpeg never outlives its camera: once stop() has reaped and the ring thread has
\* ended there is none, even when the stop meets a thread that is just spawning it.
NoRingAfterStop == stop = "reaped" /\ rpc = "done" => ~ringUp

\* recorder.py 447-450, drop-oldest: an episode whose submit had to evict is itself
\* refused only by the sentinel taking the freed slot.  While the camera runs,
\* the newest episode always gets in.
NewestGetsIn == qpc = "reput" /\ ~Queue!Room => spc \in {"joinWorker", "stopped"}

\* The recorded seconds an episode's clip is to be made of.
Footage(ep) == {s \in written : InWindow(s, ep)}

\* Episodes that are closed, not dropped, and whose segments are not listed yet.
Pending ==
    ((last + 1) .. Len(eps)) \cup Waiting \cup (IF wpc = "cut" /\ sel = None THEN {cur} ELSE {})

\* recorder.py 376-378: prune spares segments "so a long episode keeps its pre-roll
\* until the clip is cut".
FootageKeptUntilCut == \A e \in Pending : Footage(eps[e]) \subseteq segs

\* recorder.py 4-6: the clip "ends `post` seconds AFTER" the action ended: its segments
\* are not listed before that footage can exist.
PostRollComplete == [][ListSegments => now >= eps[cur].end + Post]_vars
=============================================================================
