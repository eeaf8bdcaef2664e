-------------------------- MODULE EdgeRecorderProofs --------------------------
(***************************************************************************)
(* Proofs about EdgeRecorder: what the ring and the queue guarantee for    *)
(* any number of tracks, any timing with Pre + Lag <= Keep and any size of *)
(* the queue, and that the queue is a buffer that drops the oldest.        *)
(***************************************************************************)
EXTENDS EdgeRecorder, SequenceTheorems, TLAPS

(***************************************************************************)
(* The steps of the camera are steps of its ring and of its queue          *)
(***************************************************************************)

\* Every step of the camera is a step of its ring or leaves the ring alone.
LEMMA RingStep ==
    ASSUME [Next]_vars
    PROVE  [Ring!Next]_(Ring!vars)
<1> USE DEF Ring!Next, Ring!vars, Ring!ringVars, Ring!decodeVars
<1>1. CASE RingMoves
  BY <1>1 DEF RingMoves
<1>2. CASE TakeFrame
  BY <1>2 DEF TakeFrame
<1>3. ASSUME NEW after \in [Person -> UNION {Ring!TrackStep(open[p]) : p \in Person}],
             NEW order \in Orders, Update(after, order)
      PROVE  Ring!Next
  BY <1>3 DEF Update, Ring!UpdateSome
<1>4. CASE SetFloor
  BY <1>4 DEF SetFloor
<1>5. CASE Submit \/ Put
  BY <1>5 DEF Submit, Put, ringVars
<1>6. CASE Get \/ ListSegments \/ CutDone \/ CutFails \/ UploadOver
  BY <1>6 DEF Get, ListSegments, CutDone, CutFails, UploadOver, ringVars
<1>7. CASE SetStopping \/ StopWorker
  BY <1>7 DEF SetStopping, StopWorker, ringVars
<1>8. CASE StopRing \/ StopReaps
  BY <1>8 DEF StopRing, StopReaps
<1>9. CASE UNCHANGED vars
  BY <1>9 DEF vars, ringVars
<1>10. QED
  BY <1>1, <1>2, <1>3, <1>4, <1>5, <1>6, <1>7, <1>8, <1>9 DEF Next

\* Every step of the camera is a step of its queue or leaves the queue alone.
LEMMA QueueStep ==
    ASSUME [Next]_vars
    PROVE  [Queue!Next]_(Queue!vars)
<1> USE DEF Queue!Next, Queue!vars, Queue!submitVars, Queue!workerVars, Queue!stopVars
<1>1. CASE RingMoves \/ TakeFrame \/ SetFloor \/ ListSegments \/ StopRing
  BY <1>1 DEF RingMoves, TakeFrame, SetFloor, ListSegments, StopRing, queueVars
<1>2. ASSUME NEW after, NEW order, Update(after, order)
      PROVE  UNCHANGED Queue!vars
  BY <1>2 DEF Update, queueVars
<1>3. CASE Submit \/ Put
  BY <1>3 DEF Submit, Put
<1>4. CASE Get \/ CutDone \/ CutFails \/ UploadOver
  BY <1>4 DEF Get, CutDone, CutFails, UploadOver, Queue!Worker
<1>5. CASE SetStopping \/ StopReaps \/ StopWorker
  BY <1>5 DEF SetStopping, StopReaps, StopWorker, Queue!Stopping
<1>6. CASE UNCHANGED vars
  BY <1>6 DEF vars, queueVars
<1>7. QED
  BY <1>1, <1>2, <1>3, <1>4, <1>5, <1>6 DEF Next

(***************************************************************************)
(* The ring                                                                *)
(***************************************************************************)

\* A frame in hand was taken no longer than the detector's lag ago.
FrameIsRecent == fpc # "idle" => at <= now /\ now <= at + Lag

\* The floor lies before the pre-roll of every open episode, except of one that opened in the
\* frame whose floor is still to be set.
FloorCoversOpen ==
    \A p \in Ring!Opened :
        \/ floor # None /\ floor <= open[p].start - Pre
        \/ fpc = "floor" /\ open[p].start = at

\* What prune deletes between its look at the clock and its last unlink: nothing of the newest
\* Keep seconds, all that is older than the leak limit, and, unless it has
\* disregarded a floor, nothing of an open episode.
CutoffIsSafe ==
    rpc = "delete" =>
        /\ cutoff <= now - Keep
        /\ cutoff >= now - (Keep + MaxEpisode)
        /\ ~expired => \A p \in Ring!Opened : cutoff <= open[p].start - Pre

\* ffmpeg ends with the ring thread.
DoneMeansDown == rpc = "done" => ~ringUp

RingInv ==
    /\ Ring!TypeOK
    /\ FrameIsRecent
    /\ FloorCoversOpen
    /\ CutoffIsSafe
    /\ DoneMeansDown
    /\ RetentionWindow
    /\ OpenEpisodesKeepFootage

\* The assumption on the timing, one constant at a time.
LEMMA Timing ==
    /\ Pre \in Nat /\ Keep \in Nat /\ MaxEpisode \in Nat /\ PostQuiet \in Nat
    /\ DropAfter \in Nat /\ Lag \in Nat /\ MaxTime \in Nat /\ MaxDeaths \in Nat
    /\ Pre + Lag <= Keep
BY TimingAssumption

\* None is no span of time and no time.
LEMMA NoneIsNoSpan == None \notin Ring!Span /\ None \notin Int
BY NoneAssumption DEF Ring!Span, Ring!Time

\* An analysed frame leaves a track normal, opens an episode at the time of the frame, or goes
\* on with the episode that was open, from the same start.
LEMMA TrackStepKeepsStart ==
    ASSUME NEW before \in Ring!Span \cup {None}, at \in Ring!Time,
           NEW after \in Ring!TrackStep(before)
    PROVE  /\ after \in Ring!Span \cup {None}
           /\ after # None =>
                  \/ after.start = at
                  \/ before # None /\ after.start = before.start
<1>1. CASE before = None
  BY <1>1 DEF Ring!TrackStep, Ring!Span
<1>2. CASE before # None
  <2>1. [before EXCEPT !.last = at] \in Ring!Span /\ [before EXCEPT !.last = at].start = before.start
    BY <1>2 DEF Ring!Span
  <2>2. QED
    BY <1>2, <2>1 DEF Ring!TrackStep
<1>3. QED
  BY <1>1, <1>2

\* Every step of the ring keeps the types.
LEMMA RingType ==
    ASSUME Ring!TypeOK, [Ring!Next]_(Ring!vars)
    PROVE  Ring!TypeOK'
<1> USE DEF Ring!TypeOK, Ring!Time, Ring!ringVars, Ring!decodeVars, Ring!RingRest, Ring!DecodeRest,
            Ring!Goto, Ring!Stopped
<1>1. CASE Ring!Tick
  <2>1. now' \in Ring!Time /\ segs' \subseteq written' /\ written' \subseteq Ring!Time
    BY <1>1, Timing DEF Ring!Tick
  <2>2. QED
    BY <1>1, <2>1 DEF Ring!Tick
<1>2. CASE Ring!RingDies
  <2>1. deaths' \in 0 .. MaxDeaths
    BY <1>2, Timing DEF Ring!RingDies
  <2>2. QED
    BY <1>2, <2>1 DEF Ring!RingDies
<1>3. CASE Ring!RingThread
  <2>1. CASE Ring!Head \/ Ring!Spawn \/ Ring!SpawnFails \/ Ring!WatchEnds
    BY <1>3, <2>1 DEF Ring!Head, Ring!Spawn, Ring!SpawnFails, Ring!WatchEnds
  <2>2. CASE Ring!PruneRead
    BY <2>2, Timing DEF Ring!PruneRead, Ring!LiveFloor
  <2>3. CASE Ring!PruneDelete
    BY <2>3 DEF Ring!PruneDelete
  <2>4. CASE Ring!Poll \/ Ring!NapOver \/ Ring!BackoffOver \/ Ring!Reap
    BY <2>4 DEF Ring!Poll, Ring!NapOver, Ring!BackoffOver, Ring!Reap
  <2>5. QED
    BY <1>3, <2>1, <2>2, <2>3, <2>4 DEF Ring!RingThread
<1>4. CASE Ring!TakeFrame
  BY <1>4 DEF Ring!TakeFrame
<1>5. ASSUME NEW after \in [Person -> UNION {Ring!TrackStep(open[p]) : p \in Person}], Ring!Update(after)
      PROVE  Ring!TypeOK'
  <2>1. \A p \in Person : after[p] \in Ring!Span \cup {None}
    BY <1>5, TrackStepKeepsStart DEF Ring!Update
  <2>2. after \in [Person -> Ring!Span \cup {None}]
    BY <2>1
  <2>3. QED
    BY <1>5, <2>2 DEF Ring!Update, Ring!Span
<1>6. CASE Ring!SetFloor
  BY <1>6, Timing DEF Ring!SetFloor, Ring!Opened, Ring!Span
<1>7. CASE Ring!SetStop \/ Ring!StopReaps
  BY <1>7 DEF Ring!SetStop, Ring!StopReaps
<1>8. CASE UNCHANGED Ring!vars
  BY <1>8 DEF Ring!vars
<1>9. QED
  BY <1>1, <1>2, <1>3, <1>4, <1>5, <1>6, <1>7, <1>8 DEF Ring!Next, Ring!UpdateSome

\* The next lemmas take the parts of RingInv one at a time.
LEMMA FrameIsRecentStep ==
    ASSUME RingInv, [Ring!Next]_(Ring!vars)
    PROVE  FrameIsRecent'
<1> USE Timing DEF RingInv, Ring!TypeOK, Ring!Time, FrameIsRecent, Ring!ringVars, Ring!decodeVars,
                   Ring!RingRest, Ring!DecodeRest, Ring!Goto
<1>1. CASE Ring!Tick
  BY <1>1 DEF Ring!Tick
<1>2. CASE Ring!RingDies \/ Ring!RingThread \/ Ring!SetStop \/ Ring!StopReaps \/ UNCHANGED Ring!vars
  <2>1. UNCHANGED <<now, fpc, at>>
    BY <1>2 DEF Ring!RingDies, Ring!RingThread, Ring!Head, Ring!Spawn, Ring!SpawnFails,
                Ring!WatchEnds, Ring!PruneRead, Ring!PruneDelete, Ring!Poll, Ring!NapOver,
                Ring!BackoffOver, Ring!Reap, Ring!SetStop, Ring!StopReaps, Ring!vars
  <2>2. QED
    BY <2>1
<1>3. CASE Ring!TakeFrame
  BY <1>3 DEF Ring!TakeFrame
<1>4. CASE Ring!UpdateSome \/ Ring!SetFloor
  BY <1>4 DEF Ring!UpdateSome, Ring!Update, Ring!SetFloor
<1>5. QED
  BY <1>1, <1>2, <1>3, <1>4 DEF Ring!Next

\* What is open stays open from the same start, or opens at the time of the frame.
LEMMA OpenStep ==
    ASSUME Ring!TypeOK, Ring!UpdateSome, NEW p \in Ring!Opened'
    PROVE  \/ open'[p].start = at
           \/ p \in Ring!Opened /\ open'[p].start = open[p].start
<1>1. PICK after \in [Person -> UNION {Ring!TrackStep(open[q]) : q \in Person}] : Ring!Update(after)
  BY DEF Ring!UpdateSome
<1>2. p \in Person /\ open'[p] # None /\ open'[p] \in Ring!TrackStep(open[p])
  BY <1>1 DEF Ring!Update, Ring!Opened
<1>3. open[p] \in Ring!Span \cup {None} /\ at \in Ring!Time
  BY <1>2 DEF Ring!TypeOK
<1>4. open'[p].start = at \/ (open[p] # None /\ open'[p].start = open[p].start)
  BY <1>2, <1>3, TrackStepKeepsStart
<1>5. QED
  BY <1>2, <1>4 DEF Ring!Opened

\* The times an open episode and the floor hold are integers.
LEMMA OpenType ==
    ASSUME Ring!TypeOK, NEW p \in Ring!Opened
    PROVE  p \in Person /\ open[p] # None /\ open[p].start \in Nat
BY Timing DEF Ring!TypeOK, Ring!Opened, Ring!Span, Ring!Time

\* When an episode opens, the floor comes down to its pre-roll in the same frame.
LEMMA FloorCoversOpenStep ==
    ASSUME RingInv, [Ring!Next]_(Ring!vars)
    PROVE  FloorCoversOpen'
<1> USE Timing DEF RingInv, FloorCoversOpen, Ring!ringVars, Ring!decodeVars, Ring!RingRest,
                   Ring!DecodeRest, Ring!Goto
<1>1. CASE UNCHANGED <<floor, open, fpc, at>>
  BY <1>1 DEF Ring!Opened
<1>2. CASE Ring!TakeFrame
  BY <1>2 DEF Ring!TakeFrame, Ring!Opened
<1>3. CASE Ring!UpdateSome
  <2>1. UNCHANGED <<floor, at>> /\ fpc = "detect" /\ fpc' = "floor"
    BY <1>3 DEF Ring!UpdateSome, Ring!Update
  <2>2. SUFFICES ASSUME NEW p \in Ring!Opened'
                 PROVE  \/ floor' # None /\ floor' <= open'[p].start - Pre
                        \/ fpc' = "floor" /\ open'[p].start = at'
    BY DEF Ring!Opened
  <2>3. QED
    BY <1>3, <2>1, <2>2, OpenStep
<1>4. CASE Ring!SetFloor
  <2>1. UNCHANGED open /\ fpc' = "idle"
    BY <1>4 DEF Ring!SetFloor
  <2>2. CASE Ring!Opened = {}
    BY <2>1, <2>2 DEF Ring!Opened
  <2>3. CASE Ring!Opened # {}
    <3>1. PICK p \in Ring!Opened : /\ \A q \in Ring!Opened : open[p].start <= open[q].start
                                   /\ floor' = open[p].start - Pre
      BY <1>4, <2>3 DEF Ring!SetFloor
    <3>2. floor' \in Int /\ floor' # None
      BY <3>1, OpenType, NoneAssumption
    <3>3. \A q \in Ring!Opened : floor' <= open[q].start - Pre
      BY <3>1, OpenType
    <3>4. QED
      BY <2>1, <3>2, <3>3 DEF Ring!Opened
  <2>4. QED
    BY <2>2, <2>3
<1>5. CASE Ring!Tick \/ Ring!RingDies \/ Ring!RingThread \/ Ring!SetStop \/ Ring!StopReaps
           \/ UNCHANGED Ring!vars
  <2>1. UNCHANGED <<floor, open, fpc, at>>
    BY <1>5 DEF Ring!Tick, Ring!RingDies, Ring!RingThread, Ring!Head, Ring!Spawn, Ring!SpawnFails,
                Ring!WatchEnds, Ring!PruneRead, Ring!PruneDelete, Ring!Poll, Ring!NapOver,
                Ring!BackoffOver, Ring!Reap, Ring!SetStop, Ring!StopReaps, Ring!vars
  <2>2. QED
    BY <1>1, <2>1
<1>6. QED
  BY <1>2, <1>3, <1>4, <1>5 DEF Ring!Next

\* The steps that neither prune nor move time, floor or episodes.
LEMMA OtherRingStep ==
    ASSUME \/ Ring!RingDies \/ Ring!SetStop \/ Ring!StopReaps \/ UNCHANGED Ring!vars
           \/ Ring!RingThread /\ ~Ring!PruneRead /\ ~Ring!PruneDelete
    PROVE  /\ UNCHANGED <<now, segs, written, cutoff, expired, floor, open, fpc, at>>
           /\ rpc' = "delete" => rpc = "delete"
           /\ rpc' \in {"poll", "nap"} => rpc \in {"poll", "nap"}
BY DEF Ring!RingDies, Ring!SetStop, Ring!StopReaps, Ring!vars, Ring!RingThread, Ring!Head, Ring!Spawn,
       Ring!SpawnFails, Ring!WatchEnds, Ring!Poll, Ring!NapOver, Ring!BackoffOver, Ring!Reap,
       Ring!ringVars, Ring!decodeVars, Ring!RingRest, Ring!Goto

\* An episode that opens in this frame does so within the newest Keep seconds, its pre-roll
\* included: that is what Pre + Lag <= Keep is for.
LEMMA NewEpisodeIsRecent ==
    ASSUME Ring!TypeOK, FrameIsRecent, fpc # "idle"
    PROVE  now - Keep <= at - Pre
BY Timing DEF FrameIsRecent, Ring!TypeOK, Ring!Time

\* The cutoff a prune has read spares what was open then, and what may open meanwhile.
LEMMA CutoffIsSafeStep ==
    ASSUME RingInv, [Ring!Next]_(Ring!vars)
    PROVE  CutoffIsSafe'
<1> USE DEF CutoffIsSafe
<1>1. now \in Int /\ at \in Int /\ cutoff \in Int
  BY Timing DEF RingInv, Ring!TypeOK, Ring!Time
<1>2. CASE Ring!Tick
  BY <1>2 DEF Ring!Tick
<1>3. CASE Ring!PruneRead
  <2>1. /\ UNCHANGED <<now, floor, open, fpc, at>>
        /\ cutoff' = IF Ring!LiveFloor /\ floor < now - Keep THEN floor ELSE now - Keep
        /\ expired' = (expired \/ (floor # None /\ ~Ring!LiveFloor))
    BY <1>3 DEF Ring!PruneRead, Ring!RingRest, Ring!decodeVars
  <2>2. floor # None => floor \in Int
    BY DEF RingInv, Ring!TypeOK
  <2>3. cutoff' \in Int /\ cutoff' <= now - Keep /\ cutoff' >= now - (Keep + MaxEpisode)
    BY <1>1, <2>1, <2>2, Timing DEF Ring!LiveFloor
  <2>4. ASSUME ~expired', NEW p \in Ring!Opened
        PROVE  cutoff' <= open[p].start - Pre
    <3>1. floor # None => Ring!LiveFloor
      BY <2>1, <2>4
    <3>2. open[p].start \in Nat
      BY OpenType DEF RingInv
    <3>3. CASE floor # None /\ floor <= open[p].start - Pre
      <4>1. cutoff' = IF floor < now - Keep THEN floor ELSE now - Keep
        BY <2>1, <3>1, <3>3
      <4>2. QED
        BY <1>1, <2>2, <3>2, <3>3, <4>1, Timing
    <3>4. CASE fpc = "floor" /\ open[p].start = at
      <4>1. now - Keep <= at - Pre
        BY <3>4, NewEpisodeIsRecent DEF RingInv
      <4>2. QED
        BY <1>1, <2>3, <3>4, <4>1, Timing
    <3>5. QED
      BY <3>3, <3>4 DEF RingInv, FloorCoversOpen
  <2>5. QED
    BY <2>1, <2>3, <2>4 DEF Ring!Opened
<1>4. CASE Ring!PruneDelete
  BY <1>4 DEF Ring!PruneDelete, Ring!Goto
<1>5. CASE Ring!TakeFrame \/ Ring!SetFloor
  <2>1. UNCHANGED <<now, rpc, cutoff, expired, open>>
    BY <1>5 DEF Ring!TakeFrame, Ring!SetFloor, Ring!DecodeRest, Ring!ringVars
  <2>2. QED
    BY <2>1 DEF Ring!Opened, RingInv
<1>6. CASE Ring!UpdateSome
  <2>1. UNCHANGED <<now, rpc, cutoff, expired>> /\ fpc = "detect"
    BY <1>6 DEF Ring!UpdateSome, Ring!Update, Ring!DecodeRest, Ring!ringVars
  <2>2. ASSUME rpc = "delete", ~expired, NEW p \in Ring!Opened'
        PROVE  cutoff <= open'[p].start - Pre
    <3>1. CASE open'[p].start = at
      BY <1>1, <2>1, <2>2, <3>1, NewEpisodeIsRecent, Timing DEF RingInv
    <3>2. CASE p \in Ring!Opened /\ open'[p].start = open[p].start
      BY <2>2, <3>2 DEF RingInv
    <3>3. QED
      BY <1>6, <3>1, <3>2, OpenStep DEF RingInv
  <2>3. QED
    BY <2>1, <2>2 DEF Ring!Opened, RingInv
<1>7. CASE \/ Ring!RingDies \/ Ring!SetStop \/ Ring!StopReaps \/ UNCHANGED Ring!vars
           \/ Ring!RingThread /\ ~Ring!PruneRead /\ ~Ring!PruneDelete
  BY <1>7, OtherRingStep DEF Ring!Opened, RingInv
<1>8. QED
  BY <1>2, <1>3, <1>4, <1>5, <1>6, <1>7 DEF Ring!Next

\* The stopping thread is done only when the ring is down.
LEMMA DoneMeansDownStep ==
    ASSUME RingInv, [Ring!Next]_(Ring!vars)
    PROVE  DoneMeansDown'
<1> USE DEF RingInv, DoneMeansDown, Ring!ringVars, Ring!RingRest, Ring!DecodeRest, Ring!Goto
<1>1. CASE Ring!Tick \/ Ring!RingDies \/ Ring!SetStop \/ Ring!StopReaps \/ UNCHANGED Ring!vars
  BY <1>1 DEF Ring!Tick, Ring!RingDies, Ring!SetStop, Ring!StopReaps, Ring!vars
<1>2. CASE Ring!RingThread
  BY <1>2 DEF Ring!RingThread, Ring!Head, Ring!Spawn, Ring!SpawnFails, Ring!WatchEnds, Ring!PruneRead,
              Ring!PruneDelete, Ring!Poll, Ring!NapOver, Ring!BackoffOver, Ring!Reap
<1>3. CASE Ring!TakeFrame \/ Ring!UpdateSome \/ Ring!SetFloor
  BY <1>3 DEF Ring!TakeFrame, Ring!UpdateSome, Ring!Update, Ring!SetFloor
<1>4. QED
  BY <1>1, <1>2, <1>3 DEF Ring!Next

\* A prune leaves the keep window, and of older footage what an episode may still claim.
LEMMA RetentionWindowStep ==
    ASSUME RingInv, [Ring!Next]_(Ring!vars)
    PROVE  RetentionWindow'
<1> USE DEF RetentionWindow
<1>1. /\ now \in Int /\ cutoff \in Int
      /\ segs \subseteq Int /\ written \subseteq Int
  BY Timing DEF RingInv, Ring!TypeOK, Ring!Time
<1>2. CASE Ring!Tick
  <2>1. /\ now' = now + 1
        /\ segs' = IF ringUp THEN segs \cup {now} ELSE segs
        /\ written' = IF ringUp THEN written \cup {now} ELSE written
        /\ rpc' \notin {"poll", "nap"}
    BY <1>2 DEF Ring!Tick
  <2>2. \A s \in written' : s + 1 > now' - Keep => s \in segs'
    BY <1>1, <2>1, Timing DEF RingInv
  <2>3. QED
    BY <2>1, <2>2
<1>3. CASE Ring!PruneRead
  <2>1. UNCHANGED <<now, segs, written>> /\ rpc' = "delete"
    BY <1>3 DEF Ring!PruneRead, Ring!RingRest, Ring!Goto
  <2>2. QED
    BY <2>1 DEF RingInv
<1>4. CASE Ring!PruneDelete
  <2>1. /\ rpc = "delete" /\ UNCHANGED <<now, written>>
        /\ segs' = {s \in segs : s + 1 > cutoff}
    BY <1>4 DEF Ring!PruneDelete, Ring!Goto
  <2>2. cutoff <= now - Keep /\ cutoff >= now - (Keep + MaxEpisode)
    BY <2>1 DEF RingInv, CutoffIsSafe
  <2>3. QED
    BY <1>1, <2>1, <2>2, Timing DEF RingInv
<1>5. CASE Ring!TakeFrame \/ Ring!UpdateSome \/ Ring!SetFloor
  <2>1. UNCHANGED <<now, segs, written, rpc>>
    BY <1>5 DEF Ring!TakeFrame, Ring!UpdateSome, Ring!Update, Ring!SetFloor, Ring!DecodeRest,
                Ring!ringVars
  <2>2. QED
    BY <2>1 DEF RingInv
<1>6. CASE \/ Ring!RingDies \/ Ring!SetStop \/ Ring!StopReaps \/ UNCHANGED Ring!vars
           \/ Ring!RingThread /\ ~Ring!PruneRead /\ ~Ring!PruneDelete
  BY <1>6, OtherRingStep DEF RingInv
<1>7. QED
  BY <1>2, <1>3, <1>4, <1>5, <1>6 DEF Ring!Next

\* No step takes footage that an open episode claims.
LEMMA OpenEpisodesKeepFootageStep ==
    ASSUME RingInv, [Ring!Next]_(Ring!vars)
    PROVE  OpenEpisodesKeepFootage'
<1> USE DEF OpenEpisodesKeepFootage
<1>1. /\ now \in Int /\ at \in Int /\ cutoff \in Int
      /\ segs \subseteq Int /\ written \subseteq Int
  BY Timing DEF RingInv, Ring!TypeOK, Ring!Time
<1>2. CASE Ring!Tick
  <2>1. /\ UNCHANGED <<open, expired>>
        /\ segs' = IF ringUp THEN segs \cup {now} ELSE segs
        /\ written' = IF ringUp THEN written \cup {now} ELSE written
    BY <1>2 DEF Ring!Tick, Ring!decodeVars
  <2>2. QED
    BY <2>1 DEF RingInv, Ring!Opened
<1>3. CASE Ring!PruneRead
  <2>1. UNCHANGED <<open, segs, written>> /\ (~expired' => ~expired)
    BY <1>3 DEF Ring!PruneRead, Ring!RingRest, Ring!decodeVars
  <2>2. QED
    BY <2>1 DEF RingInv, Ring!Opened
<1>4. CASE Ring!PruneDelete
  <2>1. /\ rpc = "delete" /\ UNCHANGED <<open, written, expired>>
        /\ segs' = {s \in segs : s + 1 > cutoff}
    BY <1>4 DEF Ring!PruneDelete, Ring!Goto, Ring!decodeVars
  <2>2. ASSUME ~expired, NEW p \in Ring!Opened, NEW s \in written, s + 1 > open[p].start - Pre
        PROVE  s \in segs'
    <3>1. s \in segs /\ cutoff <= open[p].start - Pre
      BY <2>1, <2>2 DEF RingInv, CutoffIsSafe
    <3>2. open[p].start \in Nat
      BY OpenType DEF RingInv
    <3>3. QED
      BY <1>1, <2>1, <2>2, <3>1, <3>2, Timing
  <2>3. QED
    BY <2>1, <2>2 DEF Ring!Opened
<1>5. CASE Ring!TakeFrame \/ Ring!SetFloor
  <2>1. UNCHANGED <<segs, written, expired, open>>
    BY <1>5 DEF Ring!TakeFrame, Ring!SetFloor, Ring!DecodeRest, Ring!ringVars
  <2>2. QED
    BY <2>1 DEF Ring!Opened, RingInv
<1>6. CASE Ring!UpdateSome
  <2>1. UNCHANGED <<segs, written, expired>> /\ fpc = "detect"
    BY <1>6 DEF Ring!UpdateSome, Ring!Update, Ring!DecodeRest, Ring!ringVars
  <2>2. ASSUME ~expired, NEW p \in Ring!Opened', NEW s \in written, s + 1 > open'[p].start - Pre
        PROVE  s \in segs
    <3>1. CASE open'[p].start = at
      <4>1. now - Keep <= at - Pre
        BY <2>1, NewEpisodeIsRecent DEF RingInv
      <4>2. s + 1 > now - Keep
        BY <1>1, <2>2, <3>1, <4>1, Timing
      <4>3. QED
        BY <4>2 DEF RingInv, RetentionWindow
    <3>2. CASE p \in Ring!Opened /\ open'[p].start = open[p].start
      BY <2>2, <3>2 DEF RingInv
    <3>3. QED
      BY <1>6, <3>1, <3>2, OpenStep DEF RingInv
  <2>3. QED
    BY <2>1, <2>2 DEF Ring!Opened
<1>7. CASE \/ Ring!RingDies \/ Ring!SetStop \/ Ring!StopReaps \/ UNCHANGED Ring!vars
           \/ Ring!RingThread /\ ~Ring!PruneRead /\ ~Ring!PruneDelete
  BY <1>7, OtherRingStep DEF Ring!Opened, RingInv
<1>8. QED
  BY <1>2, <1>3, <1>4, <1>5, <1>6, <1>7 DEF Ring!Next

\* Initially there is no footage and no episode.
LEMMA RingInit == Ring!Init => RingInv
<1> SUFFICES ASSUME Ring!Init
             PROVE  RingInv
  OBVIOUS
<1>1. Ring!TypeOK
  <2>1. now \in Ring!Time /\ at \in Ring!Time /\ deaths \in 0 .. MaxDeaths /\ cutoff \in Int
    BY Timing DEF Ring!Init, Ring!Time
  <2>2. open \in [Person -> Ring!Span \cup {None}]
    BY DEF Ring!Init
  <2>3. ringUp \in BOOLEAN /\ expired \in BOOLEAN /\ floor \in Int \cup {None}
    BY DEF Ring!Init
  <2>4. segs \subseteq written /\ written \subseteq Ring!Time
    BY DEF Ring!Init
  <2>5. /\ rpc \in {"head", "spawn", "watch", "delete", "poll", "nap", "backoff", "reap", "done"}
        /\ fpc \in {"idle", "detect", "floor"}
        /\ stop \in {"run", "set", "reaped"}
    BY DEF Ring!Init
  <2>6. QED
    BY <2>1, <2>2, <2>3, <2>4, <2>5 DEF Ring!TypeOK
<1>2. Ring!Opened = {}
  BY DEF Ring!Init, Ring!Opened
<1>3. QED
  BY <1>1, <1>2 DEF Ring!Init, RingInv, FrameIsRecent, FloorCoversOpen, CutoffIsSafe, DoneMeansDown,
                    RetentionWindow, OpenEpisodesKeepFootage

\* The invariant of the ring holds in every behaviour of the camera.
THEOREM RingInvariance == Spec => []RingInv
<1>1. Init => RingInv
  BY RingInit DEF Init
<1>2. RingInv /\ [Next]_vars => RingInv'
  <2> SUFFICES ASSUME RingInv, [Next]_vars
               PROVE  RingInv'
    OBVIOUS
  <2>1. [Ring!Next]_(Ring!vars)
    BY RingStep
  <2>2. Ring!TypeOK'
    BY <2>1, RingType DEF RingInv
  <2>3. QED
    BY <2>1, <2>2, FrameIsRecentStep, FloorCoversOpenStep, CutoffIsSafeStep, DoneMeansDownStep,
       RetentionWindowStep, OpenEpisodesKeepFootageStep DEF RingInv
<1>3. QED
  BY <1>1, <1>2, PTL DEF Spec

\* As long as no floor has been disregarded, no prune takes away footage of an open episode,
\* its pre-roll included, however prune, update and set_protect_floor interleave.
THEOREM OpenFootageKept == Spec => []OpenEpisodesKeepFootage
<1>1. RingInv => OpenEpisodesKeepFootage
  BY DEF RingInv
<1>2. QED
  BY <1>1, RingInvariance, PTL

\* The newest Keep seconds are never deleted, and what is older than the leak limit goes with
\* every prune.
THEOREM RetentionBounds == Spec => []RetentionWindow
<1>1. RingInv => RetentionWindow
  BY DEF RingInv
<1>2. QED
  BY <1>1, RingInvariance, PTL

\* No segment ffmpeg is left when the camera has been stopped and the ring thread has ended.
THEOREM RingEndsDown == Spec => []NoRingAfterStop
<1>1. RingInv => NoRingAfterStop
  BY DEF RingInv, DoneMeansDown, NoRingAfterStop
<1>2. QED
  BY <1>1, RingInvariance, PTL

(***************************************************************************)
(* The queue                                                               *)
(***************************************************************************)

\* The episodes that wait in the queue are in the order of their numbers, newer than the
\* one the worker took last, and none is newer than the newest submitted.
QueueInOrder ==
    /\ \A i, j \in DOMAIN queue : i < j /\ queue[i] # None /\ queue[j] # None => queue[i] < queue[j]
    /\ \A i \in DOMAIN queue : queue[i] # None => cur < queue[i] /\ queue[i] <= last
    /\ cur <= last

\* While submit is at work the episode it submits is newer than all of them.
SubmittedIsNew ==
    qpc # "idle" =>
        /\ cur < last
        /\ \A i \in DOMAIN queue : queue[i] # None => queue[i] < last

QueueInv ==
    /\ Queue!TypeOK
    /\ QueueInOrder
    /\ SubmittedIsNew
    /\ NewestGetsIn

\* recorder.py 441-468: a submit never blocks and may drop, but the worker takes the episodes in
\* the order of their closing and none twice: what it takes next is newer than what it
\* took last.
WorkerGoesForward == [][cur' > cur]_cur

\* The queue has room for one.
LEMMA Sizes == MaxQueue \in Nat /\ MaxQueue > 0 /\ MaxEpisodes \in Nat
BY QueueAssumption

\* The sentinel is no episode.
LEMMA NoneIsNoEpisode == None \notin Int
BY NoneAssumption

\* What the removal of the head of a queue leaves: the other entries, one place further on.
LEMMA TailOfQueue ==
    ASSUME NEW q \in Seq(Queue!Episode \cup {None}), q # <<>>
    PROVE  /\ Head(q) \in Queue!Episode \cup {None} /\ Head(q) = q[1] /\ 1 \in DOMAIN q
           /\ Tail(q) \in Seq(Queue!Episode \cup {None})
           /\ Len(q) \in Nat /\ Len(Tail(q)) = Len(q) - 1
           /\ DOMAIN Tail(q) \subseteq Nat
           /\ \A i \in DOMAIN Tail(q) : i \in Nat /\ i >= 1 /\ i + 1 \in DOMAIN q /\ Tail(q)[i] = q[i + 1]
OBVIOUS

\* What an entry at the end of a queue makes of it.
LEMMA AppendToQueue ==
    ASSUME NEW q \in Seq(Queue!Episode \cup {None}), NEW e \in Queue!Episode \cup {None}
    PROVE  /\ Append(q, e) \in Seq(Queue!Episode \cup {None})
           /\ Len(q) \in Nat /\ Len(Append(q, e)) = Len(q) + 1
           /\ \A i \in DOMAIN Append(q, e) :
                 /\ i \in Nat
                 /\ \/ i \in DOMAIN q /\ Append(q, e)[i] = q[i] /\ i < Len(q) + 1
                    \/ i = Len(q) + 1 /\ Append(q, e)[i] = e
OBVIOUS

\* Every step of the queue keeps the types.
LEMMA QueueType ==
    ASSUME QueueInv, [Queue!Next]_(Queue!vars)
    PROVE  Queue!TypeOK'
<1> USE Sizes DEF QueueInv, Queue!TypeOK, Queue!submitVars, Queue!workerVars, Queue!stopVars, Queue!Room
<1>1. last \in Nat /\ cur \in Nat /\ (qpc # "idle" => last \in Queue!Episode)
  BY DEF SubmittedIsNew, Queue!Episode
<1>2. CASE Queue!Submit
  BY <1>1, <1>2 DEF Queue!Submit
<1>3. CASE Queue!PutNowait \/ Queue!Reput
  <2>1. CASE queue' = queue
    BY <1>3, <2>1 DEF Queue!PutNowait, Queue!Reput
  <2>2. CASE queue' = Append(queue, last) /\ Len(queue) < MaxQueue
    <3>1. queue' \in Seq(Queue!Episode \cup {None}) /\ Len(queue') <= MaxQueue
      BY <1>1, <1>3, <2>2, AppendToQueue DEF Queue!PutNowait, Queue!Reput
    <3>2. QED
      BY <1>3, <3>1 DEF Queue!PutNowait, Queue!Reput
  <2>3. QED
    BY <1>3, <2>1, <2>2 DEF Queue!PutNowait, Queue!Reput
<1>4. CASE Queue!Evict
  <2>1. CASE queue = <<>>
    BY <1>4, <2>1 DEF Queue!Evict
  <2>2. CASE queue # <<>>
    <3>1. queue' \in Seq(Queue!Episode \cup {None}) /\ Len(queue') <= MaxQueue
      BY <1>4, <2>2, TailOfQueue DEF Queue!Evict
    <3>2. QED
      BY <1>4, <3>1 DEF Queue!Evict
  <2>3. QED
    BY <2>1, <2>2
<1>5. CASE Queue!Get
  <2>1. queue' \in Seq(Queue!Episode \cup {None}) /\ Len(queue') <= MaxQueue
    BY <1>5, TailOfQueue DEF Queue!Get
  <2>2. cur' \in 0 .. MaxEpisodes
    BY <1>5, TailOfQueue DEF Queue!Get, Queue!Episode
  <2>3. QED
    BY <1>5, <2>1, <2>2 DEF Queue!Get
<1>6. CASE Queue!PutSentinel
  <2>1. queue' \in Seq(Queue!Episode \cup {None}) /\ Len(queue') <= MaxQueue
    BY <1>6, AppendToQueue DEF Queue!PutSentinel
  <2>2. QED
    BY <1>6, <2>1 DEF Queue!PutSentinel
<1>7. CASE Queue!CutFails \/ Queue!CutDone \/ Queue!UploadOver
  BY <1>7 DEF Queue!CutFails, Queue!CutDone, Queue!UploadOver
<1>8. CASE Queue!SetStopping \/ Queue!RingStopped \/ Queue!JoinWorker
  BY <1>8 DEF Queue!SetStopping, Queue!RingStopped, Queue!JoinWorker
<1>9. CASE UNCHANGED Queue!vars
  BY <1>9 DEF Queue!vars
<1>10. QED
  BY <1>2, <1>3, <1>4, <1>5, <1>6, <1>7, <1>8, <1>9 DEF Queue!Next, Queue!Put, Queue!Worker, Queue!Stopping

\* What the next lemmas compare are integers.
LEMMA QueueNumbers ==
    ASSUME Queue!TypeOK
    PROVE  /\ last \in Nat /\ cur \in Nat
           /\ \A i \in DOMAIN queue : i \in Nat /\ (queue[i] # None => queue[i] \in Nat)
           /\ queue \in Seq(Queue!Episode \cup {None})
BY Sizes DEF Queue!TypeOK, Queue!Episode

\* Without its head the queue is still in order, and newer than that head was.
LEMMA TailInOrder ==
    ASSUME Queue!TypeOK, QueueInOrder, queue # <<>>, queue' = Tail(queue), last' = last,
           cur' = cur \/ (Head(queue) # None /\ cur' = Head(queue))
    PROVE  /\ QueueInOrder'
           /\ SubmittedIsNew /\ qpc' = qpc => SubmittedIsNew'
<1>1. /\ 1 \in DOMAIN queue /\ Head(queue) = queue[1] /\ DOMAIN queue' \subseteq Nat
      /\ \A i \in DOMAIN queue' : i \in Nat /\ i >= 1 /\ i + 1 \in DOMAIN queue /\ queue'[i] = queue[i + 1]
  BY QueueNumbers, TailOfQueue
<1>2. cur' \in Nat /\ cur' <= last
  BY <1>1, QueueNumbers DEF QueueInOrder
<1>3. ASSUME NEW i \in DOMAIN queue', queue'[i] # None
      PROVE  cur' < queue'[i] /\ queue'[i] <= last'
  <2>1. i + 1 \in DOMAIN queue /\ queue[i + 1] = queue'[i] /\ 1 < i + 1
    BY <1>1, <1>3
  <2>2. QED
    BY <1>1, <1>3, <2>1 DEF QueueInOrder
<1>4. ASSUME NEW i \in DOMAIN queue', NEW j \in DOMAIN queue', i < j, queue'[i] # None, queue'[j] # None
      PROVE  queue'[i] < queue'[j]
  <2>1. /\ i + 1 \in DOMAIN queue /\ queue[i + 1] = queue'[i]
        /\ j + 1 \in DOMAIN queue /\ queue[j + 1] = queue'[j]
        /\ i + 1 < j + 1
    BY <1>1, <1>4
  <2>2. QED
    BY <1>4, <2>1 DEF QueueInOrder
<1>5. QueueInOrder'
  BY <1>2, <1>3, <1>4 DEF QueueInOrder
<1>6. ASSUME SubmittedIsNew, qpc' = qpc
      PROVE  SubmittedIsNew'
  BY <1>1, <1>6, QueueNumbers DEF SubmittedIsNew
<1>7. QED
  BY <1>5, <1>6

\* A newer episode, or the sentinel, joins the queue at its end.
LEMMA AppendInOrder ==
    ASSUME Queue!TypeOK, QueueInOrder, NEW e \in Queue!Episode \cup {None},
           queue' = Append(queue, e), last' = last, cur' = cur,
           e # None => /\ cur < e /\ e <= last
                       /\ \A i \in DOMAIN queue : queue[i] # None => queue[i] < e
    PROVE  QueueInOrder'
<1>1. /\ Len(queue) \in Nat
      /\ \A i \in DOMAIN queue' :
            /\ i \in Nat
            /\ \/ i \in DOMAIN queue /\ queue'[i] = queue[i] /\ i < Len(queue) + 1
               \/ i = Len(queue) + 1 /\ queue'[i] = e
  BY QueueNumbers, AppendToQueue
<1>2. ASSUME NEW i \in DOMAIN queue', queue'[i] # None
      PROVE  cur' < queue'[i] /\ queue'[i] <= last'
  BY <1>1, <1>2 DEF QueueInOrder
<1>3. ASSUME NEW i \in DOMAIN queue', NEW j \in DOMAIN queue', i < j, queue'[i] # None, queue'[j] # None
      PROVE  queue'[i] < queue'[j]
  <2>1. i \in DOMAIN queue /\ queue'[i] = queue[i]
    BY <1>1, <1>3
  <2>2. QED
    BY <1>1, <1>3, <2>1 DEF QueueInOrder
<1>4. QED
  BY <1>2, <1>3 DEF QueueInOrder

\* The order of the queue and the novelty of the episode in submit go together.
LEMMA OrderStep ==
    ASSUME QueueInv, [Queue!Next]_(Queue!vars)
    PROVE  QueueInOrder' /\ SubmittedIsNew'
<1> USE DEF QueueInv, Queue!submitVars, Queue!workerVars, Queue!stopVars
<1>1. /\ last \in Nat /\ cur \in Nat
      /\ \A i \in DOMAIN queue : queue[i] # None => queue[i] \in Nat
      /\ qpc # "idle" => last \in Queue!Episode
  BY QueueNumbers, Sizes DEF SubmittedIsNew, Queue!Episode, Queue!TypeOK
<1>2. CASE Queue!Submit
  <2>1. UNCHANGED <<queue, cur>> /\ last' = last + 1
    BY <1>2 DEF Queue!Submit
  <2>2. \A i \in DOMAIN queue : queue[i] # None => queue[i] <= last /\ queue[i] < last + 1
    BY <1>1 DEF QueueInOrder
  <2>3. QED
    BY <1>1, <2>1, <2>2 DEF QueueInOrder, SubmittedIsNew
<1>3. CASE Queue!PutNowait \/ Queue!Reput
  <2>1. UNCHANGED <<last, cur>> /\ qpc # "idle"
    BY <1>3 DEF Queue!PutNowait, Queue!Reput
  <2>2. CASE queue' = queue
    BY <2>1, <2>2 DEF QueueInOrder, SubmittedIsNew
  <2>3. CASE queue' = Append(queue, last) /\ qpc' = "idle"
    <3>1. QueueInOrder'
      BY <1>1, <2>1, <2>3, AppendInOrder DEF SubmittedIsNew
    <3>2. QED
      BY <2>3, <3>1 DEF SubmittedIsNew
  <2>4. QED
    BY <1>3, <2>2, <2>3 DEF Queue!PutNowait, Queue!Reput
<1>4. CASE Queue!Evict
  <2>1. UNCHANGED <<last, cur>> /\ qpc = "evict"
    BY <1>4 DEF Queue!Evict
  <2>2. CASE queue' = queue
    BY <2>1, <2>2 DEF QueueInOrder, SubmittedIsNew
  <2>3. CASE queue # <<>> /\ queue' = Tail(queue)
    <3>1. QueueInOrder'
      BY <2>1, <2>3, TailInOrder
    <3>2. \A i \in DOMAIN queue' : i + 1 \in DOMAIN queue /\ queue'[i] = queue[i + 1]
      BY <2>3, QueueNumbers, TailOfQueue
    <3>3. QED
      BY <2>1, <3>1, <3>2 DEF SubmittedIsNew
  <2>4. QED
    BY <1>4, <2>2, <2>3 DEF Queue!Evict
<1>5. CASE Queue!Get
  <2>1. /\ queue # <<>> /\ queue' = Tail(queue) /\ UNCHANGED <<last, qpc>>
        /\ cur' = cur \/ (Head(queue) # None /\ cur' = Head(queue))
    BY <1>5 DEF Queue!Get
  <2>2. QueueInOrder'
    BY <2>1, TailInOrder
  <2>3. 1 \in DOMAIN queue /\ Head(queue) = queue[1]
    BY <2>1, QueueNumbers, TailOfQueue
  <2>4. \A i \in DOMAIN queue' : i + 1 \in DOMAIN queue /\ queue'[i] = queue[i + 1]
    BY <2>1, QueueNumbers, TailOfQueue
  <2>5. QED
    BY <2>1, <2>2, <2>3, <2>4 DEF SubmittedIsNew
<1>6. CASE Queue!PutSentinel
  <2>1. queue' = Append(queue, None) /\ UNCHANGED <<last, qpc, cur>>
    BY <1>6 DEF Queue!PutSentinel
  <2>2. QueueInOrder'
    BY <2>1, AppendInOrder
  <2>3. \A i \in DOMAIN queue' : queue'[i] # None => i \in DOMAIN queue /\ queue'[i] = queue[i]
    BY <2>1, QueueNumbers, AppendToQueue
  <2>4. QED
    BY <2>1, <2>2, <2>3 DEF SubmittedIsNew
<1>7. CASE UNCHANGED <<last, qpc, queue, cur>>
  BY <1>7 DEF QueueInOrder, SubmittedIsNew
<1>8. QED
  BY <1>2, <1>3, <1>4, <1>5, <1>6, <1>7
  DEF Queue!Next, Queue!Put, Queue!Worker, Queue!Stopping, Queue!CutFails, Queue!CutDone,
      Queue!UploadOver, Queue!SetStopping, Queue!RingStopped, Queue!JoinWorker, Queue!vars

\* The eviction has made room, which only the sentinel can take again.
LEMMA NewestGetsInStep ==
    ASSUME QueueInv, [Queue!Next]_(Queue!vars)
    PROVE  NewestGetsIn'
<1> USE DEF QueueInv, NewestGetsIn, Queue!Room, Queue!submitVars, Queue!workerVars, Queue!stopVars
<1>1. Len(queue) \in Nat /\ Len(queue) <= MaxQueue /\ queue \in Seq(Queue!Episode \cup {None})
  BY DEF Queue!TypeOK
<1>2. CASE Queue!Submit \/ Queue!PutNowait \/ Queue!Reput
  BY <1>2 DEF Queue!Submit, Queue!PutNowait, Queue!Reput
<1>3. CASE Queue!Evict
  <2>1. Len(queue') < MaxQueue
    <3>1. CASE queue = <<>>
      BY <1>3, <3>1, Sizes DEF Queue!Evict
    <3>2. CASE queue # <<>>
      BY <1>1, <1>3, <3>2, TailOfQueue, Sizes DEF Queue!Evict
    <3>3. QED
      BY <3>1, <3>2
  <2>2. QED
    BY <2>1
<1>4. CASE Queue!Get
  <2>1. Len(queue') = Len(queue) - 1 /\ UNCHANGED <<qpc, spc>>
    BY <1>1, <1>4, TailOfQueue DEF Queue!Get
  <2>2. QED
    BY <1>1, <2>1, Sizes
<1>5. CASE Queue!PutSentinel \/ Queue!JoinWorker
  BY <1>5 DEF Queue!PutSentinel, Queue!JoinWorker
<1>6. CASE Queue!SetStopping \/ Queue!RingStopped
  BY <1>6 DEF Queue!SetStopping, Queue!RingStopped
<1>7. CASE Queue!CutFails \/ Queue!CutDone \/ Queue!UploadOver \/ UNCHANGED Queue!vars
  BY <1>7 DEF Queue!CutFails, Queue!CutDone, Queue!UploadOver, Queue!vars
<1>8. QED
  BY <1>2, <1>3, <1>4, <1>5, <1>6, <1>7 DEF Queue!Next, Queue!Put, Queue!Worker, Queue!Stopping

\* Initially the queue is empty.
LEMMA QueueInit == Queue!Init => QueueInv
<1> SUFFICES ASSUME Queue!Init
             PROVE  QueueInv
  OBVIOUS
<1>1. Queue!TypeOK
  <2>1. queue \in Seq(Queue!Episode \cup {None}) /\ Len(queue) <= MaxQueue
    BY Sizes DEF Queue!Init
  <2>2. last \in 0 .. MaxEpisodes /\ cur \in 0 .. MaxEpisodes
    BY Sizes DEF Queue!Init
  <2>3. stopping \in BOOLEAN
    BY DEF Queue!Init
  <2>4. QED
    BY <2>1, <2>2, <2>3 DEF Queue!Init, Queue!TypeOK
<1>2. QED
  BY <1>1 DEF Queue!Init, QueueInv, QueueInOrder, SubmittedIsNew, NewestGetsIn

\* The invariant of the queue holds in every behaviour of the camera.
THEOREM QueueInvariance == Spec => []QueueInv
<1>1. Init => QueueInv
  BY QueueInit DEF Init
<1>2. QueueInv /\ [Next]_vars => QueueInv'
  BY QueueStep, QueueType, OrderStep, NewestGetsInStep DEF QueueInv
<1>3. QED
  BY <1>1, <1>2, PTL DEF Spec

\* While the camera runs, the episode whose submit had to evict gets into the queue: nobody but
\* the sentinel takes the slot it has freed.
THEOREM NewestIsQueued == Spec => []NewestGetsIn
<1>1. QueueInv => NewestGetsIn
  BY DEF QueueInv
<1>2. QED
  BY <1>1, QueueInvariance, PTL

\* The worker takes the episodes in the order of their closing and none of them twice, whatever
\* submit evicts in between.
THEOREM WorkerInOrder == Spec => WorkerGoesForward
<1>1. QueueInv /\ [Next]_vars => [cur' > cur]_cur
  <2> SUFFICES ASSUME QueueInv, [Next]_vars, cur' # cur
               PROVE  cur' > cur
    OBVIOUS
  <2>1. [Queue!Next]_(Queue!vars)
    BY QueueStep
  <2>2. Queue!Get
    BY <2>1 DEF Queue!Next, Queue!Put, Queue!Worker, Queue!Stopping, Queue!Submit, Queue!PutNowait,
                Queue!Evict, Queue!Reput, Queue!CutFails, Queue!CutDone, Queue!UploadOver,
                Queue!SetStopping, Queue!RingStopped, Queue!PutSentinel, Queue!JoinWorker,
                Queue!vars, Queue!submitVars, Queue!workerVars, Queue!stopVars
  <2>3. queue # <<>> /\ Head(queue) # None /\ cur' = Head(queue)
    BY <2>2 DEF Queue!Get
  <2>4. 1 \in DOMAIN queue /\ Head(queue) = queue[1]
    BY <2>3, QueueNumbers, TailOfQueue DEF QueueInv
  <2>5. cur < queue[1] /\ cur \in Nat /\ queue[1] \in Nat
    BY <2>3, <2>4, QueueNumbers DEF QueueInv, QueueInOrder
  <2>6. QED
    BY <2>3, <2>4, <2>5
<1>2. QED
  BY <1>1, QueueInvariance, PTL DEF Spec, WorkerGoesForward

(***************************************************************************)
(* The queue is a buffer that drops the oldest                             *)
(***************************************************************************)

\* The episodes in a queue.
Entries(q) == {q[i] : i \in DOMAIN q} \ {None}

\* An entry at the end adds itself; the sentinel is no episode.
LEMMA EntriesOfAppend ==
    ASSUME NEW q \in Seq(Queue!Episode \cup {None}), NEW e \in Queue!Episode \cup {None}
    PROVE  Entries(Append(q, e)) = Entries(q) \cup ({e} \ {None})
<1>1. /\ Append(q, e) \in Seq(Queue!Episode \cup {None})
      /\ \A i \in DOMAIN q : i \in DOMAIN Append(q, e) /\ Append(q, e)[i] = q[i]
      /\ Len(q) + 1 \in DOMAIN Append(q, e) /\ Append(q, e)[Len(q) + 1] = e
  OBVIOUS
<1>2. \A i \in DOMAIN Append(q, e) : \/ i \in DOMAIN q /\ Append(q, e)[i] = q[i]
                                     \/ Append(q, e)[i] = e
  BY AppendToQueue
<1>3. Entries(Append(q, e)) \subseteq Entries(q) \cup ({e} \ {None})
  BY <1>2 DEF Entries
<1>4. Entries(q) \cup ({e} \ {None}) \subseteq Entries(Append(q, e))
  BY <1>1 DEF Entries
<1>5. QED
  BY <1>3, <1>4

\* The head leaves the others.
LEMMA EntriesOfTail ==
    ASSUME NEW q \in Seq(Queue!Episode \cup {None}), q # <<>>
    PROVE  Entries(q) = Entries(Tail(q)) \cup ({Head(q)} \ {None})
<1>1. /\ Head(q) = q[1] /\ 1 \in DOMAIN q
      /\ \A i \in DOMAIN Tail(q) : i + 1 \in DOMAIN q /\ Tail(q)[i] = q[i + 1]
  BY TailOfQueue
<1>2. \A i \in DOMAIN q : i = 1 \/ (i - 1 \in DOMAIN Tail(q) /\ Tail(q)[i - 1] = q[i])
  OBVIOUS
<1>3. Entries(q) \subseteq Entries(Tail(q)) \cup ({Head(q)} \ {None})
  BY <1>1, <1>2 DEF Entries
<1>4. Entries(Tail(q)) \cup ({Head(q)} \ {None}) \subseteq Entries(q)
  BY <1>1 DEF Entries
<1>5. QED
  BY <1>3, <1>4

\* The head of the queue is older than what is behind it.
LEMMA HeadIsOldest ==
    ASSUME QueueInv, queue # <<>>, Head(queue) # None
    PROVE  /\ Head(queue) \in Nat
           /\ \A e \in Entries(Tail(queue)) : e \in Nat /\ Head(queue) < e
           /\ qpc # "idle" => Head(queue) < last
<1>1. queue \in Seq(Queue!Episode \cup {None})
  BY QueueNumbers DEF QueueInv
<1>2. /\ 1 \in DOMAIN queue /\ Head(queue) = queue[1]
      /\ \A i \in DOMAIN Tail(queue) : /\ i \in Nat /\ i >= 1 /\ i + 1 \in DOMAIN queue
                                       /\ Tail(queue)[i] = queue[i + 1]
  BY <1>1, TailOfQueue
<1>3. Head(queue) \in Nat /\ (qpc # "idle" => Head(queue) < last)
  BY <1>2, QueueNumbers DEF QueueInv, SubmittedIsNew
<1>4. ASSUME NEW i \in DOMAIN Tail(queue), Tail(queue)[i] # None
      PROVE  Tail(queue)[i] \in Nat /\ Head(queue) < Tail(queue)[i]
  <2>1. /\ i + 1 \in DOMAIN queue /\ Tail(queue)[i] = queue[i + 1] /\ 1 < i + 1
    BY <1>2
  <2>2. QED
    BY <1>2, <1>4, <2>1, QueueNumbers DEF QueueInv, QueueInOrder
<1>5. QED
  BY <1>3, <1>4 DEF Entries

\* stop() sets _stopping before anything else.
StoppingIsSet == spc # "run" => stopping

\* A step of the queue is a step of the buffer, or changes nothing that the buffer shows.
LEMMA BufferStep ==
    ASSUME QueueInv, StoppingIsSet, [Queue!Next]_(Queue!vars)
    PROVE  [Buffer!Next]_(Buffer!vars) /\ StoppingIsSet'
<1> USE DEF Queue!submitVars, Queue!workerVars, Queue!stopVars, Buffer!vars
<1>1. /\ queue \in Seq(Queue!Episode \cup {None}) /\ last \in Nat /\ cur \in Nat
      /\ qpc # "idle" => last \in Queue!Episode /\ last # None /\ last \notin Entries(queue)
  <2>1. qpc # "idle" => last \in Queue!Episode
    BY QueueNumbers, Sizes DEF QueueInv, SubmittedIsNew, Queue!Episode, Queue!TypeOK
  <2>2. qpc # "idle" => last \notin Entries(queue)
    BY QueueNumbers DEF QueueInv, SubmittedIsNew, Entries
  <2>3. QED
    BY <2>1, <2>2, QueueNumbers, NoneIsNoEpisode DEF QueueInv
<1>2. /\ Waiting = Entries(queue) \cup (IF qpc # "idle" THEN {last} ELSE {})
      /\ Waiting' = Entries(queue') \cup (IF qpc' # "idle" THEN {last'} ELSE {})
  BY DEF Waiting, Entries
<1>3. CASE Queue!Submit
  <2>1. /\ UNCHANGED <<queue, cur, stopping, spc>> /\ last' = last + 1 /\ qpc = "idle"
        /\ qpc' = IF stopping THEN "idle" ELSE "put"
    BY <1>3 DEF Queue!Submit
  <2>2. Waiting' = IF stopping THEN Waiting ELSE Waiting \cup {last'}
    BY <1>2, <2>1
  <2>3. Buffer!Enter
    BY <2>1, <2>2 DEF Buffer!Enter
  <2>4. QED
    BY <2>1, <2>3 DEF Buffer!Next, StoppingIsSet
<1>4. CASE Queue!PutNowait
  <2>1. UNCHANGED <<last, cur, stopping, spc>>
    BY <1>4 DEF Queue!PutNowait
  <2>2. Waiting' = Waiting
    <3>1. CASE queue' = Append(queue, last) /\ qpc = "put" /\ qpc' = "idle"
      BY <1>1, <1>2, <3>1, EntriesOfAppend
    <3>2. CASE UNCHANGED queue /\ qpc = "put" /\ qpc' = "evict"
      BY <1>2, <2>1, <3>2
    <3>3. QED
      BY <1>4, <3>1, <3>2 DEF Queue!PutNowait
  <2>3. QED
    BY <2>1, <2>2 DEF StoppingIsSet
<1>5. CASE Queue!Evict
  <2>1. UNCHANGED <<last, cur, stopping, spc>> /\ qpc = "evict" /\ qpc' = "reput"
    BY <1>5 DEF Queue!Evict
  <2>2. CASE UNCHANGED queue \/ (queue # <<>> /\ queue' = Tail(queue) /\ Head(queue) = None)
    <3>1. Entries(queue') = Entries(queue)
      BY <1>1, <2>2, EntriesOfTail
    <3>2. QED
      BY <1>2, <2>1, <3>1 DEF StoppingIsSet
  <2>3. CASE queue # <<>> /\ queue' = Tail(queue) /\ Head(queue) # None
    <3> DEFINE e == Head(queue)
    <3>1. Entries(queue) = Entries(queue') \cup {e}
      BY <1>1, <2>3, EntriesOfTail
    <3>2. /\ e \in Nat /\ e < last
          /\ \A f \in Entries(queue') : f \in Nat /\ e < f
      BY <2>1, <2>3, HeadIsOldest
    <3>3. Waiting = Entries(queue') \cup {e, last} /\ Waiting' = Entries(queue') \cup {last}
      BY <1>2, <2>1, <3>1
    <3> HIDE DEF e
    <3>4. e \notin Entries(queue') /\ e # last
      BY <1>1, <3>2
    <3>5. Waiting' = Waiting \ {e} /\ e \in Waiting \ {last} /\ last \in Waiting
      BY <3>3, <3>4
    <3>6. Buffer!Oldest(e)
      BY <1>1, <3>2, <3>3 DEF Buffer!Oldest
    <3>7. Buffer!Drop
      BY <2>1, <3>5, <3>6 DEF Buffer!Drop
    <3>8. QED
      BY <2>1, <3>7 DEF Buffer!Next, StoppingIsSet
  <2>4. QED
    BY <1>5, <2>2, <2>3 DEF Queue!Evict
<1>6. CASE Queue!Reput
  <2>1. UNCHANGED <<last, cur, stopping, spc>> /\ qpc = "reput" /\ qpc' = "idle"
    BY <1>6 DEF Queue!Reput
  <2>2. CASE Queue!Room
    <3>1. queue' = Append(queue, last)
      BY <1>6, <2>2 DEF Queue!Reput
    <3>2. Waiting' = Waiting
      BY <1>1, <1>2, <2>1, <3>1, EntriesOfAppend
    <3>3. QED
      BY <2>1, <3>2 DEF StoppingIsSet
  <2>3. CASE ~Queue!Room
    <3>1. queue' = queue /\ stopping
      BY <1>6, <2>1, <2>3 DEF Queue!Reput, QueueInv, NewestGetsIn, StoppingIsSet
    <3>2. last \in Waiting /\ Waiting' = Waiting \ {last}
      BY <1>1, <1>2, <2>1, <3>1
    <3>3. Buffer!Refuse
      BY <2>1, <3>1, <3>2 DEF Buffer!Refuse
    <3>4. QED
      BY <2>1, <3>3 DEF Buffer!Next, StoppingIsSet
  <2>4. QED
    BY <2>2, <2>3
<1>7. CASE Queue!Get
  <2>1. UNCHANGED <<last, qpc, stopping, spc>> /\ queue # <<>> /\ queue' = Tail(queue)
    BY <1>7 DEF Queue!Get
  <2>2. CASE Head(queue) = None
    <3>1. cur' = cur
      BY <1>7, <2>2 DEF Queue!Get
    <3>2. Entries(queue') = Entries(queue)
      BY <1>1, <2>1, <2>2, EntriesOfTail
    <3>3. QED
      BY <1>2, <2>1, <3>1, <3>2 DEF StoppingIsSet
  <2>3. CASE Head(queue) # None
    <3>1. cur' = Head(queue) /\ Entries(queue) = Entries(queue') \cup {cur'}
      BY <1>1, <1>7, <2>1, <2>3, EntriesOfTail DEF Queue!Get
    <3>2. /\ cur' \in Nat /\ (qpc # "idle" => cur' < last)
          /\ \A f \in Entries(queue') : f \in Nat /\ cur' < f
      BY <2>1, <2>3, <3>1, HeadIsOldest
    <3>3. cur' \notin Entries(queue') /\ (qpc # "idle" => cur' # last)
      BY <1>1, <3>2
    <3>4. Waiting' = Waiting \ {cur'}
      BY <1>2, <2>1, <3>1, <3>3
    <3>5. Buffer!Oldest(cur')
      BY <1>1, <1>2, <3>1, <3>2 DEF Buffer!Oldest
    <3>6. Buffer!Take
      BY <2>1, <3>4, <3>5 DEF Buffer!Take
    <3>7. QED
      BY <2>1, <3>6 DEF Buffer!Next, StoppingIsSet
  <2>4. QED
    BY <2>2, <2>3
<1>8. CASE Queue!PutSentinel
  <2>1. /\ UNCHANGED <<last, qpc, cur, stopping>> /\ queue' = Append(queue, None)
        /\ spc = "sentinel"
    BY <1>8 DEF Queue!PutSentinel
  <2>2. Entries(queue') = Entries(queue)
    BY <1>1, <2>1, EntriesOfAppend
  <2>3. QED
    BY <1>2, <2>1, <2>2 DEF StoppingIsSet
<1>9. CASE Queue!SetStopping
  <2>1. UNCHANGED <<last, qpc, queue, cur>> /\ stopping' = TRUE
    BY <1>9 DEF Queue!SetStopping
  <2>2. Buffer!Close
    BY <1>2, <2>1 DEF Buffer!Close
  <2>3. QED
    BY <2>1, <2>2 DEF Buffer!Next, StoppingIsSet
<1>10. CASE \/ Queue!RingStopped \/ Queue!JoinWorker \/ UNCHANGED Queue!vars
            \/ Queue!CutFails \/ Queue!CutDone \/ Queue!UploadOver
  <2>1. UNCHANGED <<last, qpc, queue, cur, stopping>> /\ (spc = "run" => spc' = "run")
    BY <1>10 DEF Queue!RingStopped, Queue!JoinWorker, Queue!vars, Queue!CutFails, Queue!CutDone,
                 Queue!UploadOver
  <2>2. QED
    BY <1>2, <2>1 DEF StoppingIsSet
<1>11. QED
  BY <1>3, <1>4, <1>5, <1>6, <1>7, <1>8, <1>9, <1>10
  DEF Queue!Next, Queue!Put, Queue!Worker, Queue!Stopping

\* BufferSpec of EdgeRecorder: for any size of the queue and any number of episodes, what
\* put_nowait, get_nowait, get and the sentinel make of the queue, one atomic operation at a
\* time, is a buffer that drops the oldest: no episode is lost but to a newer one, or to the
\* camera's end.
THEOREM DropsTheOldest == Spec => BufferSpec
<1>1. Init => Buffer!Init /\ StoppingIsSet
  <2> SUFFICES ASSUME Init
               PROVE  Buffer!Init /\ StoppingIsSet
    OBVIOUS
  <2>1. queue = <<>> /\ qpc = "idle" /\ last = 0 /\ cur = 0 /\ stopping = FALSE /\ spc = "run"
    BY DEF Init, Queue!Init
  <2>2. Waiting = {}
    BY <2>1 DEF Waiting
  <2>3. QED
    BY <2>1, <2>2 DEF Buffer!Init, StoppingIsSet
<1>2. QueueInv /\ StoppingIsSet /\ [Next]_vars => [Buffer!Next]_(Buffer!vars) /\ StoppingIsSet'
  BY QueueStep, BufferStep
<1>3. QED
  BY <1>1, <1>2, QueueInvariance, PTL DEF Spec, BufferSpec, Buffer!Spec

(***************************************************************************)
(* The camera                                                              *)
(***************************************************************************)

\* The closed episodes keep their numbers: the list of them only grows.
LEMMA EpisodesStep ==
    ASSUME Ring!TypeOK, eps \in Seq(Window), Len(eps) <= MaxEpisodes, [Next]_vars
    PROVE  /\ eps' \in Seq(Window) /\ Len(eps') <= MaxEpisodes
           /\ Len(eps) <= Len(eps')
<1>1. ASSUME NEW after \in [Person -> UNION {Ring!TrackStep(open[p]) : p \in Person}],
             NEW order \in Orders, Update(after, order)
      PROVE  eps' \in Seq(Window) /\ Len(eps') <= MaxEpisodes /\ Len(eps) <= Len(eps')
  <2> DEFINE ended == {p \in Person : open[p] # None /\ after[p] = None}
             windows == [i \in DOMAIN order |->
                           [start |-> open[order[i]].start, end |-> open[order[i]].last]]
  <2>1. PICK n \in 0 .. Cardinality(Person) : order \in [1 .. n -> Person]
    BY DEF Orders
  <2>2. \A i \in DOMAIN order : order[i] \in ended
    BY <1>1 DEF Update
  <2>3. \A i \in DOMAIN order : windows[i] \in Window
    BY <2>2 DEF Ring!TypeOK, Ring!Span, Window
  <2>4. n \in Nat /\ DOMAIN order = 1 .. n /\ Len(order) = n
    BY <2>1
  <2>5. windows \in [1 .. n -> Window]
    BY <2>3, <2>4
  <2>6. windows \in Seq(Window) /\ Len(windows) = n
    BY <2>4, <2>5
  <2>7. eps' = eps \o windows /\ Len(eps) + n <= MaxEpisodes
    BY <1>1, <2>4 DEF Update
  <2> HIDE DEF windows
  <2>8. eps' \in Seq(Window) /\ Len(eps') = Len(eps) + n
    BY <2>6, <2>7, ConcatProperties
  <2>9. QED
    BY <2>4, <2>7, <2>8
<1>2. CASE UNCHANGED eps
  BY <1>2
<1>3. QED
  BY <1>1, <1>2
  DEF Next, RingMoves, TakeFrame, SetFloor, Submit, Put, Get, ListSegments, CutDone, CutFails,
      UploadOver, SetStopping, StopRing, StopReaps, StopWorker, vars

\* The worker cuts an episode that has closed, and holds a list of segments only while it does.
CutsAClosedEpisode ==
    /\ wpc = "cut" => cur \in DOMAIN eps
    /\ sel # None => wpc = "cut"

CameraInv ==
    /\ RingInv /\ QueueInv
    /\ TypeOK
    /\ CutsAClosedEpisode

\* Nobody submits an episode before it has closed.
LEMMA SubmittedStep ==
    ASSUME CameraInv, [Next]_vars, Queue!TypeOK'
    PROVE  last' <= Len(eps')
<1>1. last \in Nat /\ Len(eps) \in Nat /\ last <= Len(eps) /\ last' \in Int
  BY Sizes DEF CameraInv, TypeOK, Queue!TypeOK
<1>2. Len(eps') \in Nat /\ Len(eps) <= Len(eps')
  BY EpisodesStep DEF CameraInv, RingInv, TypeOK
<1>3. CASE Submit
  BY <1>1, <1>3 DEF Submit, Queue!Submit
<1>4. CASE UNCHANGED last
  BY <1>1, <1>2, <1>4
<1>5. QED
  BY <1>3, <1>4
  DEF Next, RingMoves, TakeFrame, Update, SetFloor, Put, Get, ListSegments, CutDone, CutFails,
      UploadOver, SetStopping, StopRing, StopReaps, StopWorker, vars, queueVars, Queue!Put,
      Queue!PutNowait, Queue!Evict, Queue!Reput, Queue!Get, Queue!CutDone, Queue!CutFails,
      Queue!UploadOver, Queue!SetStopping, Queue!RingStopped, Queue!PutSentinel, Queue!JoinWorker,
      Queue!submitVars

\* The worker cuts only episodes that have been closed.
LEMMA CutStep ==
    ASSUME CameraInv, [Next]_vars
    PROVE  sel' \in (SUBSET Ring!Time) \cup {None} /\ CutsAClosedEpisode'
<1> USE DEF CameraInv, CutsAClosedEpisode
<1>1. Len(eps') \in Nat /\ Len(eps) <= Len(eps') /\ eps \in Seq(Window) /\ eps' \in Seq(Window)
  BY EpisodesStep DEF RingInv, TypeOK
<1>2. \A e \in DOMAIN eps : e \in DOMAIN eps'
  BY <1>1
<1>3. CASE Get
  <2>1. queue # <<>> /\ UNCHANGED <<sel, eps, last>>
    BY <1>3 DEF Get, Queue!Get, Queue!submitVars
  <2>2. CASE wpc' = "cut"
    <3>1. cur' = Head(queue) /\ Head(queue) # None
      BY <1>3, <2>2 DEF Get, Queue!Get
    <3>2. 1 \in DOMAIN queue /\ cur' = queue[1] /\ cur' \in Queue!Episode
      BY <2>1, <3>1, TailOfQueue DEF TypeOK, Queue!TypeOK
    <3>3. cur' <= last /\ last <= Len(eps) /\ last \in Nat
      BY <3>1, <3>2, Sizes DEF QueueInv, QueueInOrder, TypeOK, Queue!TypeOK
    <3>4. cur' \in DOMAIN eps
      BY <1>1, <3>2, <3>3, Sizes DEF Queue!Episode
    <3>5. QED
      BY <1>3, <2>1, <3>4 DEF Get, Queue!Get, TypeOK
  <2>3. CASE wpc' # "cut"
    BY <1>3, <2>1, <2>3 DEF Get, Queue!Get, TypeOK
  <2>4. QED
    BY <2>2, <2>3
<1>4. CASE ListSegments
  <2>1. sel' \subseteq segs /\ segs \subseteq Ring!Time
    BY <1>4 DEF ListSegments, TypeOK, Ring!TypeOK
  <2>2. QED
    BY <1>4, <2>1 DEF ListSegments, queueVars
<1>5. CASE CutDone \/ CutFails
  BY <1>5 DEF CutDone, CutFails, Queue!CutDone, Queue!CutFails
<1>6. CASE UploadOver
  BY <1>6 DEF UploadOver, Queue!UploadOver, TypeOK
<1>7. CASE UNCHANGED <<wpc, cur, sel>>
  BY <1>2, <1>7 DEF TypeOK
<1>8. QED
  BY <1>3, <1>4, <1>5, <1>6, <1>7
  DEF Next, RingMoves, TakeFrame, Update, SetFloor, Submit, Put, SetStopping, StopRing, StopReaps,
      StopWorker, vars, queueVars, Queue!Submit, Queue!Put, Queue!PutNowait, Queue!Evict,
      Queue!Reput, Queue!SetStopping, Queue!RingStopped, Queue!PutSentinel, Queue!JoinWorker,
      Queue!workerVars

\* The invariant of the camera: that of its ring, that of its queue, and what ties them together.
THEOREM CameraInvariance == Spec => []CameraInv
<1>1. Init => CameraInv
  <2> SUFFICES ASSUME Init
               PROVE  CameraInv
    OBVIOUS
  <2>1. RingInv /\ QueueInv
    BY RingInit, QueueInit DEF Init
  <2>2. eps \in Seq(Window) /\ Len(eps) = 0 /\ last = 0 /\ wpc = "get" /\ sel = None
    BY DEF Init, Queue!Init
  <2>3. QED
    BY <2>1, <2>2, Sizes DEF CameraInv, RingInv, QueueInv, TypeOK, CutsAClosedEpisode
<1>2. CameraInv /\ [Next]_vars /\ RingInv' /\ QueueInv' => CameraInv'
  <2> SUFFICES ASSUME CameraInv, [Next]_vars, RingInv', QueueInv'
               PROVE  CameraInv'
    OBVIOUS
  <2>1. Ring!TypeOK' /\ Queue!TypeOK'
    BY DEF RingInv, QueueInv
  <2>2. eps' \in Seq(Window) /\ Len(eps') <= MaxEpisodes
    BY EpisodesStep DEF CameraInv, TypeOK
  <2>3. QED
    BY <2>1, <2>2, SubmittedStep, CutStep DEF CameraInv, TypeOK
<1>3. QED
  BY <1>1, <1>2, RingInvariance, QueueInvariance, PTL DEF Spec

\* Every variable of the camera keeps its type.
THEOREM TypeCorrect == Spec => []TypeOK
<1>1. CameraInv => TypeOK
  BY DEF CameraInv
<1>2. QED
  BY <1>1, CameraInvariance, PTL
=============================================================================
