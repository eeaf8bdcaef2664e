------------------------------ MODULE ClipQueue ------------------------------
(***************************************************************************)
(* EdgeClipRecorder of edge/recorder.py: the bounded queue between the     *)
(* decode thread, which submits closed episodes without blocking, and the  *)
(* worker thread, which cuts and uploads their clips; and the shutdown of  *)
(* both by a sentinel.  queue.Queue is atomic per operation; submit and    *)
(* stop use several of them, so the threads interleave in between.         *)
(*                                                                         *)
(* An episode is its number: the first episode submitted is 1.             *)
(***************************************************************************)
EXTENDS Integers, Sequences

CONSTANTS
    MaxQueue,     \* maxsize of the queue
    MaxEpisodes,  \* bound: how many episodes are submitted
    None          \* the sentinel, and no episode

VARIABLES
    last,      \* the newest episode submitted so far, 0 before the first
    qpc,       \* where submit is
    queue,     \* _queue
    wpc,       \* where the worker is
    cur,       \* the episode the worker took last
    stopping,  \* _stopping
    spc        \* where stop() is

submitVars == <<last, qpc>>
workerVars == <<wpc, cur>>
stopVars   == <<stopping, spc>>
vars == <<submitVars, queue, workerVars, stopVars>>

Episode == 1 .. MaxEpisodes

TypeOK ==
    /\ last \in 0 .. MaxEpisodes
    /\ qpc \in {"idle", "put", "evict", "reput"}
    /\ queue \in Seq(Episode \cup {None}) /\ Len(queue) <= MaxQueue
    /\ wpc \in {"get", "cut", "upload", "done"}
    /\ cur \in 0 .. MaxEpisodes
    /\ stopping \in BOOLEAN
    /\ spc \in {"run", "ring", "sentinel", "joinWorker", "stopped"}

\* start() has run: the worker thread is alive.
Init ==
    /\ last = 0 /\ qpc = "idle"
    /\ queue = <<>>
    /\ wpc = "get" /\ cur = 0
    /\ stopping = FALSE /\ spc = "run"

(***************************************************************************)
(* The decode thread: submit                                               *)
(***************************************************************************)

\* submit looks at _stopping first: while the recorder stops it drops the episode.
Submit ==
    /\ qpc = "idle" /\ last < MaxEpisodes
    /\ last' = last + 1
    /\ qpc' = IF stopping THEN "idle" ELSE "put"
    /\ UNCHANGED <<queue, workerVars, stopVars>>

Room == Len(queue) < MaxQueue

\* put_nowait succeeds or raises Full.
PutNowait ==
    /\ qpc = "put"
    /\ IF Room
         THEN queue' = Append(queue, last) /\ qpc' = "idle"
         ELSE qpc' = "evict" /\ UNCHANGED queue
    /\ UNCHANGED <<last, workerVars, stopVars>>

\* Mutant of Evict: nothing is dropped, the retry is hoped to do better.
EvictNothing ==
    /\ qpc = "evict"
    /\ qpc' = "reput"
    /\ UNCHANGED <<last, queue, workerVars, stopVars>>

\* Mutant of Evict: the youngest in the queue goes instead of the oldest.
EvictYoungest ==
    /\ qpc = "evict"
    /\ queue' = IF queue = <<>> THEN queue ELSE SubSeq(queue, 1, Len(queue) - 1)
    /\ qpc' = "reput"
    /\ UNCHANGED <<last, workerVars, stopVars>>

\* get_nowait drops the head of the queue, whatever it is by now.
Evict ==
    /\ qpc = "evict"
    /\ queue' = IF queue = <<>> THEN queue ELSE Tail(queue)
    /\ qpc' = "reput"
    /\ UNCHANGED <<last, workerVars, stopVars>>

\* The second put_nowait; a second Full drops the episode.
Reput ==
    /\ qpc = "reput"
    /\ queue' = IF Room THEN Append(queue, last) ELSE queue
    /\ qpc' = "idle"
    /\ UNCHANGED <<last, workerVars, stopVars>>

(***************************************************************************)
(* The worker thread: _worker_loop and on_episode                          *)
(***************************************************************************)

\* get() waits for an item; the sentinel ends the thread.
Get ==
    /\ wpc = "get" /\ queue # <<>>
    /\ queue' = Tail(queue)
    /\ IF Head(queue) = None
         THEN wpc' = "done" /\ UNCHANGED cur
         ELSE wpc' = "cut" /\ cur' = Head(queue)
    /\ UNCHANGED <<submitVars, stopVars>>

\* build_clip finds no segments, ffmpeg fails or times out, or any step raises: the
\* exception is logged and the loop goes on.
CutFails ==
    /\ wpc = "cut"
    /\ wpc' = "get"
    /\ UNCHANGED <<cur, submitVars, queue, stopVars>>

\* The clip is cut and added to the store.
CutDone ==
    /\ wpc = "cut"
    /\ wpc' = "upload"
    /\ UNCHANGED <<cur, submitVars, queue, stopVars>>

\* on_clip takes its time; its errors are caught.
UploadOver ==
    /\ wpc = "upload"
    /\ wpc' = "get"
    /\ UNCHANGED <<cur, submitVars, queue, stopVars>>

(***************************************************************************)
(* The stopping thread: stop                                               *)
(***************************************************************************)

\* Submits are turned off ...
SetStopping ==
    /\ spc = "run" /\ spc' = "ring"
    /\ stopping' = TRUE
    /\ UNCHANGED <<submitVars, queue, workerVars>>

\* ... the segment ring is stopped ...
RingStopped ==
    /\ spc = "ring" /\ spc' = "sentinel"
    /\ UNCHANGED <<submitVars, queue, workerVars, stopping>>

\* ... put(None) waits for a free slot, without a timeout ...
PutSentinel ==
    /\ spc = "sentinel" /\ spc' = "joinWorker"
    /\ Room
    /\ queue' = Append(queue, None)
    /\ UNCHANGED <<submitVars, workerVars, stopping>>

\* ... and the worker is joined for at most 5 s: it has ended or is left behind.
JoinWorker ==
    /\ spc = "joinWorker" /\ spc' = "stopped"
    /\ UNCHANGED <<submitVars, queue, workerVars, stopping>>

(***************************************************************************)
(* The specification                                                       *)
(***************************************************************************)

Put      == PutNowait \/ Evict \/ Reput
Worker   == Get \/ CutFails \/ CutDone \/ UploadOver
Stopping == RingStopped \/ PutSentinel \/ JoinWorker

Next == Submit \/ Put \/ Worker \/ SetStopping \/ Stopping

Spec == Init /\ [][Next]_vars

\* Running threads are scheduled; ffmpeg and the upload end (both have timeouts).
FairSpec == Spec /\ WF_vars(Put) /\ WF_vars(Worker) /\ WF_vars(Stopping)

(***************************************************************************)
(* Properties                                                              *)
(***************************************************************************)

Queued(e) == \E i \in DOMAIN queue : queue[i] = e

\* stop() returns, although the sentinel waits for a free slot in a full queue.
StopReturns == stopping ~> spc = "stopped"

\* recorder.py 453-455: submit's "drop-oldest eviction can never discard the shutdown
\* sentinel": once queued, the sentinel stays there until the worker takes it.
SentinelSurvives == spc \in {"joinWorker", "stopped"} => wpc = "done" \/ Queued(None)
=============================================================================
