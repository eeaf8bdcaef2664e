------------------------- MODULE EdgeControllerProofs -------------------------
(***************************************************************************)
(* Proofs about EdgeController: no recorder without an owner, nothing left *)
(* after stop(), one configuration for all pipelines, and no decode thread *)
(* that nobody stops, for any cameras, sources and workers.  At the end,   *)
(* about the EdgeBehavior that each pipeline feeds with its frames: every  *)
(* episode is handed over once, and a zone criterion banks in time.        *)
(***************************************************************************)
EXTENDS EdgeController, EdgeBehavior, TLAPS

(***************************************************************************)
(* The inductive invariant                                                 *)
(***************************************************************************)

\* While refresh or stop is busy with a camera it knows which, and a worker that is starting
\* has been registered for it.
BusyWithCamera ==
    /\ ctl \in {"stopping", "recStop"} => cam \in Camera
    /\ ctl \in {"starting", "recStart", "threads"} =>
          cam \in Camera /\ victim \in Worker /\ workers[cam] = victim

\* A registered worker knows its camera and its source, and so does a decode thread.
WorkersAreSet ==
    /\ \A c \in Camera : workers[c] # None => of[workers[c]] = c /\ src[workers[c]] # None
    /\ \A w \in Worker : pc[w] # "none" => of[w] # None

\* A recorder that is not started yet belongs to the pipeline that is being entered.
MadeIsStarting ==
    \A w \in Worker : rec[w] = "made" => ctl = "recStart" /\ victim = w /\ pipes[cam] = w

\* From stop() on no camera is wanted, so no worker is started.
StoppedStartsNothing ==
    stopped =>
        /\ \A c \in Camera : plan[c] = None
        /\ ctl \notin {"starting", "recStart", "threads"}

\* A decode thread that runs is the one registered for its camera, or it has been told to stop.
ThreadsOwned ==
    \A w \in Worker : pc[w] \notin {"none", "done"} => stop[w] \/ workers[of[w]] = w

\* The versions of the configuration only grow, on their way from the backend to the runtime.
VersionsGrow == cfg <= polled /\ polled <= remote

IInv ==
    /\ TypeOK
    /\ VersionsGrow
    /\ BusyWithCamera
    /\ WorkersAreSet
    /\ MadeIsStarting
    /\ StoppedStartsNothing
    /\ ThreadsOwned
    /\ RecordersOwned
    /\ StoppedForGood
    /\ OneConfiguration

\* controller.py 228-233: after stop() every decode thread that still runs has been told to end,
\* which it does at the head of its next loop.
ThreadsToldToEnd ==
    stopped /\ ctl = "idle" => \A w \in Worker : pc[w] \in {"none", "done"} \/ stop[w]

\* None is no camera, no source and no worker.
LEMMA NoneIsNobody == None \notin Camera /\ None \notin Source /\ None \notin Worker
BY NoneAssumption

\* Initially nothing is registered and nothing runs.
LEMMA InitInv == Init => IInv
<1> SUFFICES ASSUME Init
             PROVE  IInv
  OBVIOUS
<1>1. TypeOK
  <2>1. want \in Wanted /\ plan \in Wanted /\ paired \in BOOLEAN /\ workers \in [Camera -> Worker \cup {None}]
        /\ pipes \in [Camera -> Worker \cup {None}]
    BY DEF Init, Wanted
  <2>2. quit \in BOOLEAN /\ stopped \in BOOLEAN /\ stop \in [Worker -> BOOLEAN]
    BY DEF Init
  <2>3. /\ of \in [Worker -> Camera \cup {None}] /\ src \in [Worker -> Source \cup {None}]
        /\ busy \in [Worker -> Worker \cup {None}]
    BY DEF Init
  <2>4. /\ pc \in [Worker -> {"none", "open", "nap", "read", "frame", "process", "done"}]
        /\ rec \in [Worker -> {"none", "made", "runs", "stopped"}]
    BY DEF Init
  <2>5. /\ hot \in [Worker -> 0 .. MaxVersion] /\ built \in [Worker -> 0 .. MaxVersion]
        /\ cfg \in 0 .. MaxVersion
    BY BoundsAssumption DEF Init
  <2>6. polled \in 0 .. MaxVersion /\ last \in 0 .. MaxVersion /\ remote \in 1 .. MaxVersion
    BY BoundsAssumption DEF Init
  <2>7. budget \in [edits : 0 .. MaxEdits, fails : 0 .. MaxFails]
    BY BoundsAssumption DEF Init
  <2>8. /\ ctl \in {"idle", "refresh", "stopping", "recStop", "starting", "recStart", "threads"}
        /\ cam \in Camera \cup {None} /\ victim \in Worker \cup {None}
        /\ ppc \in {"poll", "apply", "wait", "off"}
    BY DEF Init
  <2>9. QED
    BY <2>1, <2>2, <2>3, <2>4, <2>5, <2>6, <2>7, <2>8 DEF TypeOK
<1>2. QED
  BY <1>1 DEF Init, IInv, VersionsGrow, BusyWithCamera, WorkersAreSet, MadeIsStarting, StoppedStartsNothing,
              ThreadsOwned, RecordersOwned, StoppedForGood, OneConfiguration

(***************************************************************************)
(* Steps that concern few of its conjuncts                                 *)
(***************************************************************************)

\* The outside, and the poll as long as it applies nothing.
Aside ==
    \/ \E c \in Camera, s \in Source \cup {None} : Edit(c, s)
    \/ Pair \/ Publish \/ Quit \/ Fetch \/ FetchFails \/ PollAgain
    \/ UNCHANGED vars

\* Operator, poll and quitting leave the workers and the runtime alone.
LEMMA AsideStep ==
    ASSUME Aside
    PROVE  UNCHANGED <<stopped, ctl, hold, known, threads, runtime>>
BY DEF Aside, Edit, Pair, Publish, Quit, Fetch, FetchFails, PollAgain, vars, control, flags, threads

\* A decode thread runs only after its start and never again once it is done; it changes nothing
\* but where it is.
LEMMA DecodeStep ==
    ASSUME TypeOK, NEW w \in Worker, Decode(w)
    PROVE  /\ UNCHANGED <<control, runtime>>
           /\ pc[w] \notin {"none", "done"}
           /\ \A v \in Worker : v # w => pc'[v] = pc[v]
           /\ pc' \in [Worker -> {"none", "open", "nap", "read", "frame", "process", "done"}]
BY DEF TypeOK, Decode, Open, NapOver, ReadFrame, ReadFails, Process, ProcessDone, Thread, Unless

\* The parts of one step of the controller.
ControllerStep ==
    \/ Refresh \/ Stop \/ Done
    \/ \E c \in Camera : StopWorker(c)
    \/ \E c \in Camera, w \in Worker : StartWorker(c, w)
    \/ StopCamera \/ StopRecorder \/ StartCamera \/ StartFails \/ StartRecorder \/ StartThreads

\* Every step is of the outside, of the controller, of a decode thread, or applies a configuration.
LEMMA StepKinds ==
    ASSUME [Next]_vars
    PROVE  Aside \/ ControllerStep \/ (\E w \in Worker : Decode(w)) \/ Apply
BY DEF Next, Controller, ControllerStep, Aside

\* Every step keeps the types.
LEMMA TypeStep ==
    ASSUME IInv, [Next]_vars
    PROVE  TypeOK'
<1> USE NoneIsNobody DEF IInv, TypeOK, outside, flags, hold, known, control, threads, runtime, Goto
<1>1. CASE Aside
  <2>1. ASSUME NEW c \in Camera, NEW s \in Source \cup {None}, Edit(c, s)
        PROVE  TypeOK'
    <3>1. want' \in Wanted
      BY <2>1 DEF Edit, Wanted
    <3>2. budget' \in [edits : 0 .. MaxEdits, fails : 0 .. MaxFails]
      BY <2>1, BoundsAssumption DEF Edit
    <3>3. QED
      BY <2>1, <3>1, <3>2 DEF Edit, poller
  <2>2. CASE Publish
    <3>1. remote' \in 1 .. MaxVersion
      BY <2>2, BoundsAssumption DEF Publish
    <3>2. QED
      BY <2>2, <3>1 DEF Publish, poller
  <2>3. CASE Quit
    BY <2>3 DEF Quit, poller
  <2>4. CASE Fetch \/ FetchFails \/ PollAgain
    <3>1. polled' \in 0 .. MaxVersion /\ ppc' \in {"poll", "apply", "wait", "off"}
      BY <2>4, BoundsAssumption DEF Fetch, FetchFails, PollAgain
    <3>2. QED
      BY <2>4, <3>1 DEF Fetch, FetchFails, PollAgain
  <2>5. CASE UNCHANGED vars
    BY <2>5 DEF vars, poller
  <2>6. CASE Pair
    <3>1. budget' \in [edits : 0 .. MaxEdits, fails : 0 .. MaxFails] /\ paired' \in BOOLEAN
      BY <2>6, BoundsAssumption DEF Pair
    <3>2. QED
      BY <2>6, <3>1 DEF Pair, poller
  <2>7. QED
    BY <1>1, <2>1, <2>2, <2>3, <2>4, <2>5, <2>6 DEF Aside
<1>2. CASE Refresh \/ Stop
  <2>0. Read \in Wanted /\ [c \in Camera |-> None] \in Wanted
    BY DEF Read, Wanted
  <2>1. plan' \in Wanted /\ stopped' \in BOOLEAN /\ ctl' = "refresh"
    BY <1>2, <2>0 DEF Refresh, Stop
  <2>2. UNCHANGED <<outside, quit, cam, victim, known, threads, runtime, poller, budget>>
    BY <1>2 DEF Refresh, Stop
  <2>3. QED
    BY <2>1, <2>2 DEF poller
<1>3. CASE Done
  <2>1. /\ pipes' \in [Camera -> Worker \cup {None}]
        /\ rec' \in [Worker -> {"none", "made", "runs", "stopped"}]
    BY <1>3 DEF Done
  <2>2. QED
    BY <1>3, <2>1 DEF Done, poller
<1>4. ASSUME NEW c \in Camera, StopWorker(c)
      PROVE  TypeOK'
  BY <1>4 DEF StopWorker, Outdated, poller
<1>5. ASSUME NEW c \in Camera, NEW w \in Worker, StartWorker(c, w)
      PROVE  TypeOK'
  <2>1. hot' \in [Worker -> 0 .. MaxVersion] /\ built' \in [Worker -> 0 .. MaxVersion]
    BY <1>5, BoundsAssumption DEF StartWorker
  <2>2. src' \in [Worker -> Source \cup {None}]
    BY <1>5 DEF StartWorker, Wanted
  <2>3. /\ pc' \in [Worker -> {"none", "open", "nap", "read", "frame", "process", "done"}]
        /\ rec' \in [Worker -> {"none", "made", "runs", "stopped"}]
        /\ stop' \in [Worker -> BOOLEAN]
    BY <1>5 DEF StartWorker
  <2>4. workers' \in [Camera -> Worker \cup {None}] /\ of' \in [Worker -> Camera \cup {None}]
    BY <1>5 DEF StartWorker
  <2>5. QED
    BY <1>5, <2>1, <2>2, <2>3, <2>4 DEF StartWorker, poller
<1>6. CASE StopCamera
  <2>1. cam \in Camera
    BY <1>6 DEF StopCamera, BusyWithCamera
  <2>2. pipes' \in [Camera -> Worker \cup {None}] /\ victim' \in Worker \cup {None}
    BY <1>6, <2>1 DEF StopCamera
  <2>3. QED
    BY <1>6, <2>2 DEF StopCamera, poller
<1>7. CASE StopRecorder
  <2>1. rec' \in [Worker -> {"none", "made", "runs", "stopped"}]
    BY <1>7 DEF StopRecorder
  <2>2. QED
    BY <1>7, <2>1 DEF StopRecorder, poller
<1>8. CASE StartCamera
  <2>1. /\ pipes' \in [Camera -> Worker \cup {None}]
        /\ rec' \in [Worker -> {"none", "made", "runs", "stopped"}]
        /\ hot' \in [Worker -> 0 .. MaxVersion] /\ built' \in [Worker -> 0 .. MaxVersion]
    BY <1>8 DEF StartCamera, BusyWithCamera
  <2>2. QED
    BY <1>8, <2>1 DEF StartCamera, poller
<1>9. CASE StartFails
  <2>1. budget' \in [edits : 0 .. MaxEdits, fails : 0 .. MaxFails]
    BY <1>9, BoundsAssumption DEF StartFails
  <2>2. QED
    BY <1>9, <2>1 DEF StartFails, poller
<1>10. CASE StartRecorder
  <2>1. rec' \in [Worker -> {"none", "made", "runs", "stopped"}]
    BY <1>10 DEF StartRecorder
  <2>2. QED
    BY <1>10, <2>1 DEF StartRecorder, poller
<1>11. CASE StartThreads
  BY <1>11 DEF StartThreads, poller
<1>12. ASSUME NEW w \in Worker, Decode(w)
       PROVE  TypeOK'
  <2>1. busy' \in [Worker -> Worker \cup {None}]
    <3>1. CASE Process(w)
      <4>1. of[w] \in Camera
        BY <3>1 DEF Process, Thread, WorkersAreSet
      <4>2. QED
        BY <3>1, <4>1 DEF Process
    <3>2. CASE ~Process(w)
      BY <1>12, <3>2 DEF Decode, Open, NapOver, ReadFrame, ReadFails, ProcessDone
    <3>3. QED
      BY <3>1, <3>2
  <2>2. UNCHANGED <<outside, control, runtime, poller, budget>>
    BY <1>12 DEF Decode, Open, NapOver, ReadFrame, ReadFails, Process, ProcessDone, Thread
  <2>3. QED
    BY <1>12, <2>1, <2>2, DecodeStep DEF poller
<1>13. CASE Apply
  <2>1. hot' \in [Worker -> 0 .. MaxVersion]
    BY <1>13 DEF Apply, Configured
  <2>2. QED
    BY <1>13, <2>1 DEF Apply
<1>14. QED
  BY <1>1, <1>2, <1>3, <1>4, <1>5, <1>6, <1>7, <1>8, <1>9, <1>10, <1>11, <1>12, <1>13, StepKinds
  DEF ControllerStep

(***************************************************************************)
(* Each conjunct is kept by every step                                     *)
(***************************************************************************)

\* The controller knows its camera as long as it is busy with it.
LEMMA BusyWithCameraStep ==
    ASSUME IInv, [Next]_vars
    PROVE  BusyWithCamera'
<1> USE DEF IInv, BusyWithCamera, hold, known, Goto
<1>1. CASE Aside
  BY <1>1, AsideStep
<1>2. CASE Refresh \/ Stop \/ Done \/ StopRecorder \/ StartFails \/ StartThreads
  BY <1>2 DEF Refresh, Stop, Done, StopRecorder, StartFails, StartThreads
<1>3. ASSUME NEW c \in Camera, StopWorker(c)
      PROVE  BusyWithCamera'
  BY <1>3 DEF StopWorker
<1>4. ASSUME NEW c \in Camera, NEW w \in Worker, StartWorker(c, w)
      PROVE  BusyWithCamera'
  BY <1>4 DEF StartWorker, TypeOK
<1>5. CASE StopCamera \/ StartCamera \/ StartRecorder
  BY <1>5 DEF StopCamera, StartCamera, StartRecorder
<1>6. ASSUME NEW w \in Worker, Decode(w)
      PROVE  BusyWithCamera'
  BY <1>6, DecodeStep DEF control
<1>7. CASE Apply
  BY <1>7 DEF Apply, control
<1>8. QED
  BY <1>1, <1>2, <1>3, <1>4, <1>5, <1>6, <1>7, StepKinds DEF ControllerStep

\* A worker gets its camera and source before it is registered.
LEMMA WorkersAreSetStep ==
    ASSUME IInv, [Next]_vars
    PROVE  WorkersAreSet'
<1> USE NoneIsNobody DEF IInv, WorkersAreSet, hold, known, Goto
<1>1. CASE Aside
  BY <1>1, AsideStep DEF threads
<1>2. CASE Refresh \/ Stop \/ Done \/ StopCamera \/ StopRecorder \/ StartCamera \/ StartFails
           \/ StartRecorder
  <2>1. UNCHANGED <<workers, of, src, pc>>
    BY <1>2 DEF Refresh, Stop, Done, StopCamera, StopRecorder, StartCamera, StartFails,
                StartRecorder, threads
  <2>2. QED
    BY <2>1
<1>3. ASSUME NEW c \in Camera, StopWorker(c)
      PROVE  WorkersAreSet'
  <2>1. UNCHANGED <<of, src, pc>> /\ workers' = [workers EXCEPT ![c] = None]
    BY <1>3 DEF StopWorker, threads
  <2>2. QED
    BY <2>1 DEF TypeOK
<1>4. ASSUME NEW c \in Camera, NEW w \in Worker, StartWorker(c, w)
      PROVE  WorkersAreSet'
  <2>1. /\ workers' = [workers EXCEPT ![c] = w]
        /\ of' = [of EXCEPT ![w] = c]
        /\ src' = [src EXCEPT ![w] = plan[c]]
        /\ pc' = [pc EXCEPT ![w] = "none"]
        /\ plan[c] # None
        /\ \A d \in Camera : workers[d] # w
    BY <1>4 DEF StartWorker, Free
  <2>2. ASSUME NEW d \in Camera, workers'[d] # None
        PROVE  of'[workers'[d]] = d /\ src'[workers'[d]] # None
    <3>1. CASE d = c
      BY <2>1, <3>1 DEF TypeOK
    <3>2. CASE d # c
      <4>1. workers'[d] = workers[d] /\ workers[d] \in Worker /\ workers[d] # w
        BY <2>1, <2>2, <3>2 DEF TypeOK
      <4>2. QED
        BY <2>1, <4>1 DEF TypeOK
    <3>3. QED
      BY <3>1, <3>2
  <2>3. ASSUME NEW v \in Worker, pc'[v] # "none"
        PROVE  of'[v] # None
    BY <2>1, <2>3 DEF TypeOK
  <2>4. QED
    BY <2>2, <2>3
<1>5. CASE StartThreads
  <2>1. UNCHANGED <<workers, of, src>> /\ pc' = [pc EXCEPT ![victim] = "open"]
    BY <1>5 DEF StartThreads
  <2>2. victim \in Worker /\ cam \in Camera /\ workers[cam] = victim
    BY <1>5 DEF StartThreads, BusyWithCamera
  <2>3. of[victim] # None
    BY <2>2 DEF TypeOK
  <2>4. QED
    BY <2>1, <2>2, <2>3 DEF TypeOK
<1>6. ASSUME NEW w \in Worker, Decode(w)
      PROVE  WorkersAreSet'
  BY <1>6, DecodeStep DEF control
<1>7. CASE Apply
  BY <1>7 DEF Apply, control, threads
<1>8. QED
  BY <1>1, <1>2, <1>3, <1>4, <1>5, <1>6, <1>7, StepKinds DEF ControllerStep

\* A recorder is made and started in one span of the lock.
LEMMA MadeIsStartingStep ==
    ASSUME IInv, [Next]_vars
    PROVE  MadeIsStarting'
<1> USE DEF IInv, MadeIsStarting, hold, known, Goto
<1>1. CASE Aside
  BY <1>1, AsideStep DEF runtime
<1>2. CASE Refresh \/ Stop \/ StopCamera \/ StartFails \/ StartThreads
  <2>1. UNCHANGED rec /\ ctl # "recStart"
    BY <1>2 DEF Refresh, Stop, StopCamera, StartFails, StartThreads, runtime
  <2>2. QED
    BY <2>1
<1>3. CASE Done
  BY <1>3 DEF Done
<1>4. ASSUME NEW c \in Camera, StopWorker(c)
      PROVE  MadeIsStarting'
  BY <1>4 DEF StopWorker, runtime
<1>5. ASSUME NEW c \in Camera, NEW w \in Worker, StartWorker(c, w)
      PROVE  MadeIsStarting'
  BY <1>5 DEF StartWorker, TypeOK
<1>6. CASE StopRecorder
  BY <1>6 DEF StopRecorder
<1>7. CASE StartCamera
  <2>1. cam \in Camera /\ victim \in Worker
    BY <1>7 DEF StartCamera, BusyWithCamera
  <2>2. \A w \in Worker : rec[w] # "made"
    BY <1>7 DEF StartCamera
  <2>3. QED
    BY <1>7, <2>1, <2>2 DEF StartCamera, TypeOK
<1>8. CASE StartRecorder
  BY <1>8 DEF StartRecorder
<1>9. ASSUME NEW w \in Worker, Decode(w)
      PROVE  MadeIsStarting'
  BY <1>9, DecodeStep DEF control, runtime
<1>10. CASE Apply
  BY <1>10 DEF Apply, control
<1>11. QED
  BY <1>1, <1>2, <1>3, <1>4, <1>5, <1>6, <1>7, <1>8, <1>9, <1>10, StepKinds DEF ControllerStep

\* stop() leaves no camera wanted, and no step wants one again.
LEMMA StoppedStartsNothingStep ==
    ASSUME IInv, [Next]_vars
    PROVE  StoppedStartsNothing'
<1> USE DEF IInv, StoppedStartsNothing, flags, hold, Goto
<1>1. CASE Aside
  BY <1>1, AsideStep
<1>2. CASE Refresh \/ Stop
  BY <1>2 DEF Refresh, Stop
<1>3. CASE Done \/ StopCamera \/ StopRecorder \/ StartCamera \/ StartFails \/ StartRecorder
           \/ StartThreads
  BY <1>3 DEF Done, StopCamera, StopRecorder, StartCamera, StartFails, StartRecorder, StartThreads
<1>4. ASSUME NEW c \in Camera, StopWorker(c)
      PROVE  StoppedStartsNothing'
  BY <1>4 DEF StopWorker
<1>5. ASSUME NEW c \in Camera, NEW w \in Worker, StartWorker(c, w)
      PROVE  StoppedStartsNothing'
  <2>1. ~stopped /\ UNCHANGED stopped
    BY <1>5 DEF StartWorker
  <2>2. QED
    BY <2>1
<1>6. ASSUME NEW w \in Worker, Decode(w)
      PROVE  StoppedStartsNothing'
  BY <1>6, DecodeStep DEF control
<1>7. CASE Apply
  BY <1>7 DEF Apply, control
<1>8. QED
  BY <1>1, <1>2, <1>3, <1>4, <1>5, <1>6, <1>7, StepKinds DEF ControllerStep

\* A thread that was not told to stop is that of a registered worker.
LEMMA ThreadsOwnedStep ==
    ASSUME IInv, [Next]_vars
    PROVE  ThreadsOwned'
<1> USE NoneIsNobody DEF IInv, ThreadsOwned, hold, known, Goto
<1>1. CASE Aside
  BY <1>1, AsideStep DEF threads
<1>2. CASE Refresh \/ Stop \/ Done \/ StopCamera \/ StopRecorder \/ StartCamera \/ StartFails
           \/ StartRecorder
  <2>1. UNCHANGED <<workers, of, stop, pc>>
    BY <1>2 DEF Refresh, Stop, Done, StopCamera, StopRecorder, StartCamera, StartFails,
                StartRecorder, threads
  <2>2. QED
    BY <2>1
<1>3. ASSUME NEW c \in Camera, StopWorker(c), NEW v \in Worker, pc'[v] \notin {"none", "done"}
      PROVE  stop'[v] \/ workers'[of'[v]] = v
  <2>1. UNCHANGED <<of, pc>> /\ workers' = [workers EXCEPT ![c] = None]
        /\ stop' = [stop EXCEPT ![workers[c]] = TRUE] /\ workers[c] # None
    BY <1>3 DEF StopWorker, Outdated, threads
  <2>2. CASE v = workers[c]
    BY <2>1, <2>2 DEF TypeOK
  <2>3. CASE v # workers[c]
    <3>1. stop'[v] = stop[v] /\ (of[v] = c => workers[of[v]] # v)
      BY <2>1, <2>3 DEF TypeOK
    <3>2. workers[of[v]] = v => workers'[of'[v]] = v
      <4>1. of[v] \in Camera
        BY <1>3, <2>1 DEF WorkersAreSet, TypeOK
      <4>2. QED
        BY <2>1, <3>1, <4>1 DEF TypeOK
    <3>3. QED
      BY <1>3, <2>1, <3>1, <3>2
  <2>4. QED
    BY <2>2, <2>3
<1>4. ASSUME NEW c \in Camera, NEW w \in Worker, StartWorker(c, w),
             NEW v \in Worker, pc'[v] \notin {"none", "done"}
      PROVE  stop'[v] \/ workers'[of'[v]] = v
  <2>1. /\ workers' = [workers EXCEPT ![c] = w] /\ workers[c] = None
        /\ of' = [of EXCEPT ![w] = c]
        /\ stop' = [stop EXCEPT ![w] = FALSE]
        /\ pc' = [pc EXCEPT ![w] = "none"]
    BY <1>4 DEF StartWorker
  <2>2. v # w /\ pc[v] \notin {"none", "done"} /\ of'[v] = of[v] /\ stop'[v] = stop[v]
    BY <1>4, <2>1 DEF TypeOK
  <2>3. of[v] \in Camera
    BY <2>2 DEF WorkersAreSet, TypeOK
  <2>4. workers[of[v]] = v => workers'[of[v]] = v
    BY <2>1, <2>3 DEF TypeOK
  <2>5. QED
    BY <2>2, <2>4
<1>5. CASE StartThreads
  <2>1. UNCHANGED <<workers, of, stop>> /\ pc' = [pc EXCEPT ![victim] = "open"]
    BY <1>5 DEF StartThreads
  <2>2. victim \in Worker /\ cam \in Camera /\ workers[cam] = victim
    BY <1>5 DEF StartThreads, BusyWithCamera
  <2>3. of[victim] = cam
    BY <2>2 DEF WorkersAreSet
  <2>4. QED
    BY <2>1, <2>2, <2>3 DEF TypeOK
<1>6. ASSUME NEW w \in Worker, Decode(w)
      PROVE  ThreadsOwned'
  BY <1>6, DecodeStep DEF control
<1>7. CASE Apply
  BY <1>7 DEF Apply, control, threads
<1>8. QED
  BY <1>1, <1>2, <1>3, <1>4, <1>5, <1>6, <1>7, StepKinds DEF ControllerStep

\* A recorder that runs stays that of a pipeline, or of the stop that is ending it.
LEMMA RecordersOwnedStep ==
    ASSUME IInv, [Next]_vars
    PROVE  RecordersOwned'
<1> USE NoneIsNobody DEF IInv, RecordersOwned, hold, known, Goto
<1>1. CASE Aside
  BY <1>1, AsideStep DEF runtime
<1>2. CASE Refresh \/ Stop \/ StartFails \/ StartThreads
  <2>1. UNCHANGED <<pipes, rec>> /\ ctl # "recStop"
    BY <1>2 DEF Refresh, Stop, StartFails, StartThreads, runtime
  <2>2. QED
    BY <2>1
<1>3. CASE Done
  <2>1. ASSUME NEW w \in Worker, rec'[w] = "runs"
        PROVE  \E c \in Camera : pipes'[c] = w
    BY <1>3, <2>1 DEF Done
  <2>2. QED
    BY <2>1
<1>4. ASSUME NEW c \in Camera, StopWorker(c)
      PROVE  RecordersOwned'
  BY <1>4 DEF StopWorker, runtime
<1>5. ASSUME NEW c \in Camera, NEW w \in Worker, StartWorker(c, w)
      PROVE  RecordersOwned'
  BY <1>5 DEF StartWorker, TypeOK
<1>6. CASE StopCamera
  <2>1. cam \in Camera /\ ctl = "stopping" /\ ctl' = "recStop"
    BY <1>6 DEF StopCamera, BusyWithCamera
  <2>2. UNCHANGED rec /\ victim' = pipes[cam] /\ pipes' = [pipes EXCEPT ![cam] = None]
    BY <1>6 DEF StopCamera
  <2>3. ASSUME NEW w \in Worker, rec[w] = "runs", w # pipes[cam]
        PROVE  \E c \in Camera : pipes'[c] = w
    BY <2>1, <2>2, <2>3 DEF TypeOK
  <2>4. QED
    BY <2>1, <2>2, <2>3
<1>7. CASE StopRecorder
  <2>1. ASSUME NEW w \in Worker, rec'[w] = "runs"
        PROVE  \E c \in Camera : pipes'[c] = w
    BY <1>7, <2>1 DEF StopRecorder
  <2>2. QED
    BY <2>1
<1>8. CASE StartCamera
  <2>1. cam \in Camera /\ victim \in Worker /\ ctl # "recStop"
    BY <1>8 DEF StartCamera, BusyWithCamera
  <2>2. CASE pipes[cam] # None
    BY <1>8, <2>1, <2>2 DEF StartCamera
  <2>3. CASE pipes[cam] = None
    <3>1. pipes' = [pipes EXCEPT ![cam] = victim] /\ rec' = [rec EXCEPT ![victim] = "made"]
      BY <1>8, <2>3 DEF StartCamera
    <3>2. ASSUME NEW w \in Worker, rec'[w] = "runs"
          PROVE  \E c \in Camera : pipes'[c] = w
      <4>1. rec[w] = "runs"
        BY <3>1, <3>2 DEF TypeOK
      <4>2. PICK c \in Camera : pipes[c] = w
        BY <2>1, <4>1
      <4>3. pipes'[c] = w
        BY <2>1, <2>3, <3>1, <4>2 DEF TypeOK
      <4>4. QED
        BY <4>3
    <3>3. QED
      BY <3>2
  <2>4. QED
    BY <2>2, <2>3
<1>9. CASE StartRecorder
  <2>1. cam \in Camera /\ victim \in Worker /\ ctl = "recStart" /\ UNCHANGED pipes
    BY <1>9 DEF StartRecorder, BusyWithCamera
  <2>2. ASSUME NEW w \in Worker, rec'[w] = "runs"
        PROVE  \E c \in Camera : pipes'[c] = w
    <3>1. rec[w] = "runs" \/ rec[w] = "made"
      BY <1>9, <2>2 DEF StartRecorder
    <3>2. QED
      BY <2>1, <3>1 DEF MadeIsStarting
  <2>3. QED
    BY <2>2
<1>10. ASSUME NEW w \in Worker, Decode(w)
       PROVE  RecordersOwned'
  BY <1>10, DecodeStep DEF control, runtime
<1>11. CASE Apply
  BY <1>11 DEF Apply, control
<1>12. QED
  BY <1>1, <1>2, <1>3, <1>4, <1>5, <1>6, <1>7, <1>8, <1>9, <1>10, <1>11, StepKinds
  DEF ControllerStep

\* The last step of stop(): no worker is left, as each has a source and none is wanted, the
\* pipelines go, and with them the recorders.
LEMMA StoppedForGoodStep ==
    ASSUME IInv, [Next]_vars
    PROVE  StoppedForGood'
<1> USE DEF IInv, StoppedForGood, flags, hold, known, Goto
<1>1. CASE Aside
  BY <1>1, AsideStep DEF runtime
<1>2. CASE Done
  <2>1. SUFFICES ASSUME stopped
                 PROVE  /\ \A c \in Camera : workers'[c] = None /\ pipes'[c] = None
                        /\ \A w \in Worker : rec'[w] # "runs"
    BY <1>2 DEF Done
  <2>2. \A c \in Camera : workers'[c] = None
    BY <1>2, <2>1 DEF Done, StoppedStartsNothing, WorkersAreSet, Outdated
  <2>3. \A c \in Camera : pipes'[c] = None
    BY <1>2, <2>1 DEF Done
  <2>4. \A w \in Worker : rec'[w] # "runs"
    BY <1>2, <2>1 DEF Done, RecordersOwned
  <2>5. QED
    BY <2>2, <2>3, <2>4
<1>3. CASE StartFails
  BY <1>3 DEF StartFails, StoppedStartsNothing
<1>4. CASE Refresh \/ Stop \/ StopCamera \/ StopRecorder \/ StartCamera \/ StartRecorder
           \/ StartThreads
  BY <1>4 DEF Refresh, Stop, StopCamera, StopRecorder, StartCamera, StartRecorder, StartThreads
<1>5. ASSUME NEW c \in Camera, StopWorker(c)
      PROVE  StoppedForGood'
  BY <1>5 DEF StopWorker
<1>6. ASSUME NEW c \in Camera, NEW w \in Worker, StartWorker(c, w)
      PROVE  StoppedForGood'
  BY <1>6 DEF StartWorker
<1>7. ASSUME NEW w \in Worker, Decode(w)
      PROVE  StoppedForGood'
  BY <1>7, DecodeStep DEF control, runtime
<1>8. CASE Apply
  BY <1>8 DEF Apply, control
<1>9. QED
  BY <1>1, <1>2, <1>3, <1>4, <1>5, <1>6, <1>7, <1>8, StepKinds DEF ControllerStep

\* A version is published, fetched and applied, in that order.
LEMMA VersionsGrowStep ==
    ASSUME IInv, [Next]_vars
    PROVE  VersionsGrow'
<1> USE DEF IInv, TypeOK, VersionsGrow, outside, runtime, poller
<1>1. CASE Aside
  BY <1>1 DEF Aside, Edit, Pair, Publish, Quit, Fetch, FetchFails, PollAgain, vars
<1>2. CASE Refresh \/ Stop \/ Done \/ StopCamera \/ StopRecorder \/ StartCamera \/ StartFails
           \/ StartRecorder \/ StartThreads
  <2>1. UNCHANGED <<cfg, polled, remote>>
    BY <1>2 DEF Refresh, Stop, Done, StopCamera, StopRecorder, StartCamera, StartFails,
                StartRecorder, StartThreads
  <2>2. QED
    BY <2>1
<1>3. ASSUME NEW c \in Camera, StopWorker(c) \/ \E w \in Worker : StartWorker(c, w)
      PROVE  VersionsGrow'
  BY <1>3 DEF StopWorker, StartWorker
<1>4. ASSUME NEW w \in Worker, Decode(w)
      PROVE  VersionsGrow'
  <2>1. UNCHANGED <<outside, runtime, poller>>
    BY <1>4 DEF Decode, Open, NapOver, ReadFrame, ReadFails, Process, ProcessDone, Thread
  <2>2. QED
    BY <2>1
<1>5. CASE Apply
  BY <1>5 DEF Apply
<1>6. QED
  BY <1>1, <1>2, <1>3, <1>4, <1>5, StepKinds DEF ControllerStep

\* Every pipeline is made with the configuration of the runtime, and changed with it as far as it
\* can be.
LEMMA OneConfigurationStep ==
    ASSUME IInv, [Next]_vars
    PROVE  OneConfiguration'
<1> USE NoneIsNobody DEF IInv, OneConfiguration, Goto
<1>0. ASSUME UNCHANGED <<hot, built, cfg>>,
             \A c \in Camera : pipes'[c] = pipes[c] \/ pipes'[c] = None
      PROVE  OneConfiguration'
  BY <1>0
<1>1. CASE Aside
  BY <1>1, AsideStep DEF runtime
<1>2. CASE Refresh \/ Stop \/ StopRecorder \/ StartFails \/ StartRecorder \/ StartThreads
  <2>1. UNCHANGED <<pipes, hot, built, cfg>>
    BY <1>2 DEF Refresh, Stop, StopRecorder, StartFails, StartRecorder, StartThreads, runtime
  <2>2. QED
    BY <2>1
<1>3. CASE Done
  BY <1>0, <1>3 DEF Done
<1>4. ASSUME NEW c \in Camera, StopWorker(c)
      PROVE  OneConfiguration'
  BY <1>4 DEF StopWorker, runtime
<1>5. ASSUME NEW c \in Camera, NEW w \in Worker, StartWorker(c, w)
      PROVE  OneConfiguration'
  <2>1. /\ hot' = [hot EXCEPT ![w] = 0] /\ built' = [built EXCEPT ![w] = 0]
        /\ UNCHANGED <<pipes, cfg>> /\ \A d \in Camera : pipes[d] # w
    BY <1>5 DEF StartWorker, Free
  <2>2. \A d \in Camera : pipes[d] # None =>
            hot'[pipes[d]] = hot[pipes[d]] /\ built'[pipes[d]] = built[pipes[d]]
    BY <2>1 DEF TypeOK
  <2>3. QED
    BY <2>1, <2>2
<1>6. CASE StopCamera
  <2>1. UNCHANGED <<hot, built, cfg>> /\ \A c \in Camera : pipes'[c] = pipes[c] \/ pipes'[c] = None
    BY <1>6 DEF StopCamera, TypeOK
  <2>2. QED
    BY <1>0, <2>1
<1>7. CASE StartCamera
  <2>1. cam \in Camera /\ victim \in Worker /\ UNCHANGED cfg /\ cfg <= cfg
    BY <1>7 DEF StartCamera, BusyWithCamera, TypeOK
  <2>2. CASE UNCHANGED <<pipes, hot, built>>
    BY <2>1, <2>2
  <2>3. CASE /\ pipes' = [pipes EXCEPT ![cam] = victim]
             /\ hot' = [hot EXCEPT ![victim] = cfg] /\ built' = [built EXCEPT ![victim] = cfg]
    <3>1. ASSUME NEW c \in Camera, pipes'[c] # None
          PROVE  hot'[pipes'[c]] = cfg /\ built'[pipes'[c]] <= cfg
      <4>1. CASE pipes'[c] = victim
        BY <2>1, <2>3, <4>1 DEF TypeOK
      <4>2. CASE pipes'[c] # victim
        <5>1. pipes'[c] = pipes[c] /\ pipes[c] \in Worker
          BY <2>1, <2>3, <3>1, <4>2 DEF TypeOK
        <5>2. hot'[pipes[c]] = hot[pipes[c]] /\ built'[pipes[c]] = built[pipes[c]]
          BY <2>3, <4>2, <5>1 DEF TypeOK
        <5>3. QED
          BY <3>1, <5>1, <5>2
      <4>3. QED
        BY <4>1, <4>2
    <3>2. QED
      BY <2>1, <3>1
  <2>4. QED
    BY <1>7, <2>2, <2>3 DEF StartCamera
<1>8. ASSUME NEW w \in Worker, Decode(w)
      PROVE  OneConfiguration'
  BY <1>8, DecodeStep DEF runtime
<1>9. CASE Apply
  <2>1. UNCHANGED <<pipes, built>> /\ cfg' = polled /\ hot' = Configured(polled)
    BY <1>9 DEF Apply
  <2>2. ASSUME NEW c \in Camera, pipes[c] # None
        PROVE  hot'[pipes[c]] = polled /\ built[pipes[c]] <= polled
    <3>1. pipes[c] \in Worker
      BY <2>2 DEF TypeOK
    <3>2. built[pipes[c]] <= cfg /\ cfg <= polled
      BY <2>2 DEF VersionsGrow
    <3>3. built[pipes[c]] <= polled
      BY <3>1, <3>2 DEF TypeOK
    <3>4. QED
      BY <2>1, <3>1, <3>3 DEF Configured
  <2>3. QED
    BY <2>1, <2>2
<1>10. QED
  BY <1>1, <1>2, <1>3, <1>4, <1>5, <1>6, <1>7, <1>8, <1>9, StepKinds DEF ControllerStep

(***************************************************************************)
(* The theorems                                                            *)
(***************************************************************************)

\* The inductive invariant holds in every behaviour of the engine.
THEOREM Invariance == Spec => []IInv
<1>1. IInv /\ [Next]_vars => IInv'
  BY TypeStep, BusyWithCameraStep, WorkersAreSetStep, MadeIsStartingStep, StoppedStartsNothingStep,
     ThreadsOwnedStep, RecordersOwnedStep, StoppedForGoodStep, OneConfigurationStep,
     VersionsGrowStep DEF IInv
<1>2. QED
  BY InitInv, <1>1, PTL DEF Spec

\* Every variable of the engine keeps its type.
THEOREM TypeCorrect == Spec => []TypeOK
<1>1. IInv => TypeOK
  BY DEF IInv
<1>2. QED
  BY <1>1, Invariance, PTL

\* No recorder runs that the runtime has lost: stop_camera and stop_all find every one.
THEOREM RecordersHaveOwners == Spec => []RecordersOwned
<1>1. IInv => RecordersOwned
  BY DEF IInv
<1>2. QED
  BY <1>1, Invariance, PTL

\* Once stop() is through, no worker, pipeline or running recorder is left, whatever refreshes
\* were waiting for the lock.
THEOREM StopIsFinal == Spec => []StoppedForGood
<1>1. IInv => StoppedForGood
  BY DEF IInv
<1>2. QED
  BY <1>1, Invariance, PTL

\* In all pipelines and recorders, those that start while a configuration arrives included, the
\* settings of apply_config (runtime.py 117-130) are those of the runtime, and the others, which
\* wait for the next start_camera, are of no later version.
THEOREM ConfigurationIsOne == Spec => []OneConfiguration
<1>1. IInv => OneConfiguration
  BY DEF IInv
<1>2. QED
  BY <1>1, Invariance, PTL

\* Nobody joins a decode thread, but after stop() none of them runs untold.
THEOREM NoThreadForgotten == Spec => []ThreadsToldToEnd
<1>1. IInv => ThreadsToldToEnd
  <2> SUFFICES ASSUME IInv, stopped, ctl = "idle",
                      NEW w \in Worker, pc[w] \notin {"none", "done"}
               PROVE  stop[w]
    BY DEF ThreadsToldToEnd
  <2>1. of[w] \in Camera
    BY DEF IInv, TypeOK, WorkersAreSet
  <2>2. workers[of[w]] = None
    BY <2>1 DEF IInv, StoppedForGood
  <2>3. QED
    BY <2>2, NoneIsNobody DEF IInv, ThreadsOwned
<1>2. QED
  BY <1>1, Invariance, PTL

(***************************************************************************)
(* The behaviour analyser of a worker's pipeline: its types                *)
(*                                                                         *)
(* Each decode thread feeds the EdgeBehavior of its camera's pipeline.     *)
(***************************************************************************)

\* Ages count up to Cap.
LEMMA AgeFacts ==
    /\ 0 \in Age /\ Cap \in Age /\ DropAfter \in Nat /\ HoldLatch \in Age
    /\ \A age \in Age, dt \in Gaps : Older(age, dt) \in Age
    /\ \A dt \in Gaps : Older(Absent, dt) = Absent
<1>1. Cap \in Nat /\ Absent \notin Int /\ Gaps \subseteq 1 .. Cap /\ DropAfter \in Nat /\ HoldLatch \in 0 .. Cap
  BY CountAssumption, AbsentAssumption, TimingAssumption, InputAssumption
<1>2. QED
  BY <1>1 DEF Age, Older

\* A new track is a track.
LEMMA NewTrackType == NewTrack \in Track
<1>1. 0 \in 0 .. MaxRisk /\ 0 \in 0 .. ShelfThreshold
  BY CountAssumption DEF MaxRisk
<1>2. QED
  BY <1>1, AgeFacts DEF NewTrack, Track

\* So is one that is older ...
LEMMA AgedType ==
    ASSUME NEW tr \in Track, NEW dt \in Gaps
    PROVE  Aged(tr, dt) \in Track
<1> DEFINE unseen  == Older(tr.unseen, dt)
           quiet   == IF tr.suspicious THEN Older(tr.quiet, dt) ELSE 0
           laid    == Older(tr.hold, dt)
           gesture == Older(tr.gesture, dt)
           since   == [k \in Key |-> Older(tr.since[k], dt)]
           bank    == [k \in Key |-> Older(tr.bank[k], dt)]
<1>1. {unseen, quiet, laid, gesture} \subseteq Age
  BY AgeFacts DEF Track
<1>2. since \in [Key -> Age \cup {Absent}] /\ bank \in [Key -> Age \cup {Absent}]
  BY AgeFacts DEF Track
<1>3. Aged(tr, dt) = [tr EXCEPT !.unseen = unseen, !.quiet = quiet, !.hold = laid,
                                !.gesture = gesture, !.since = since, !.bank = bank]
  BY DEF Aged, Track
<1>4. QED
  <2> HIDE DEF unseen, quiet, laid, gesture, since, bank
  <2>1. QED
    BY <1>1, <1>2, <1>3 DEF Track

\* ... or has seen a frame ...
LEMMA SightType ==
    ASSUME NEW tr \in Track, NEW o \in Observation
    PROVE  Visited(Latched(tr, o), o) \in Track
<1>1. o.hold \in BOOLEAN /\ o.pocket \in BOOLEAN /\ o.shelf \in BOOLEAN /\ o.exit \in BOOLEAN
  BY DEF Observation, Hands, ZonesAt
<1>2. Latched(tr, o) \in Track
  BY <1>1, AgeFacts DEF Latched, Track
<1>3. ASSUME NEW at \in Track
      PROVE  Visited(at, o) \in Track
  <2>1. at.visits \in 0 .. ShelfThreshold
    BY DEF Track
  <2>2. (IF o.shelf /\ ~at.inShelf /\ at.visits < ShelfThreshold THEN at.visits + 1 ELSE at.visits)
            \in 0 .. ShelfThreshold
    BY <2>1, CountAssumption
  <2>3. QED
    BY <1>1, <2>2 DEF Visited, Track
<1>4. QED
  BY <1>2, <1>3

\* ... or has taken the step of its risk.
LEMMA AdvancedType ==
    ASSUME NEW tr \in Track
    PROVE  Advanced(tr).track \in Track
<1>1. Quiet(tr) \in Age
  BY AgeFacts DEF Quiet, Track
<1>2. CASE ~tr.suspicious
  <2>1. (tr.raw >= OpenRisk) \in BOOLEAN
    OBVIOUS
  <2>2. Advanced(tr).track = [tr EXCEPT !.suspicious = tr.raw >= OpenRisk, !.quiet = 0]
    BY <1>2 DEF Advanced, Keep
  <2>3. QED
    BY <2>1, <2>2, AgeFacts DEF Track
<1>3. CASE tr.suspicious
  <2>1. \/ Advanced(tr).track = [tr EXCEPT !.suspicious = FALSE, !.quiet = 0]
        \/ Advanced(tr).track = [tr EXCEPT !.quiet = Quiet(tr)]
    BY <1>3 DEF Advanced, Keep, Close
  <2>2. QED
    BY <1>1, <2>1, AgeFacts DEF Track
<1>4. QED
  BY <1>2, <1>3

\* What banks is a number.
LEMMA SumType == ASSUME NEW keys PROVE Sum(keys) \in Nat
<1>1. \A k \in Key : Weight[k] \in Nat
  BY TimingAssumption
<1>2. QED
  BY <1>1 DEF Sum, Key

\* The risk stays between 0 and 100.
LEMMA RiskType ==
    ASSUME NEW tr \in Track, NEW gated
    PROVE  Risk(tr, gated) \in 0 .. MaxRisk
<1>1. tr.raw \in 0 .. MaxRisk /\ tr.unseen \in 0 .. Cap
  BY DEF Track, Age
<1>2. Decay(tr.raw, tr.unseen) \in 0 .. tr.raw
  BY <1>1, RiskAssumption
<1>3. QED
  BY <1>1, <1>2, SumType DEF Risk, MaxRisk

\* A track whose person is in the frame stays a track.
LEMMA UpdatedType ==
    ASSUME NEW tr \in Track, NEW o \in Observation
    PROVE  Updated(tr, o).track \in Track
<1> DEFINE at    == Visited(Latched(tr, o), o)
           keys  == HandSignal(tr, o) \cup ZoneSignal(at, o)
           gated == Gated(tr, keys)
           since == Since(tr, keys)
           bank  == [k \in Key |-> IF k \in gated THEN 0 ELSE IF k \in keys THEN at.bank[k] ELSE Absent]
           scored == Scored(tr, keys, gated)
           risk  == Risk(tr, gated)
           next  == [at EXCEPT !.since = since, !.bank = bank, !.scored = scored,
                               !.raw = risk, !.unseen = 0]
<1>1. at \in Track
  BY SightType
<1>2. since \in [Key -> Age \cup {Absent}]
  <2> HIDE DEF keys
  <2>1. QED
    BY AgeFacts DEF Since, Track
<1>3. bank \in [Key -> Age \cup {Absent}]
  <2> HIDE DEF at, keys, gated
  <2>1. QED
    BY <1>1, AgeFacts DEF Track
<1>4. scored \in SUBSET Zone
  <2> HIDE DEF keys, gated
  <2>1. QED
    BY DEF Scored, Track
<1>5. risk \in 0 .. MaxRisk
  BY RiskType
<1>6. next \in Track
  <2> HIDE DEF at, since, bank, scored, risk
  <2>1. QED
    BY <1>1, <1>2, <1>3, <1>4, <1>5, AgeFacts DEF Track
<1>7. Updated(tr, o).track = Advanced(next).track
  BY DEF Updated
<1>8. QED
  <2> HIDE DEF next
  <2>1. QED
    BY <1>6, <1>7, AdvancedType
(***************************************************************************)
(* The episodes that are handed over                                       *)
(***************************************************************************)

\* The fields of a track.
Fields == {"raw", "suspicious", "unseen", "quiet", "concealed", "inShelf", "visits", "scored",
           "since", "bank", "hold", "nearHip", "gesture"}

IsTrack(tr) ==
    /\ DOMAIN tr = Fields
    /\ tr = [f \in Fields |-> tr[f]]

\* A track has them.
LEMMA TrackFields == ASSUME NEW tr \in Track PROVE IsTrack(tr)
BY DEF Track, IsTrack, Fields

\* A new track has its fields and is not suspicious.
LEMMA NewTrackFacts == IsTrack(NewTrack) /\ ~NewTrack.suspicious
BY DEF IsTrack, Fields, NewTrack

\* Time alone neither opens nor ends an episode.
LEMMA AgedFacts ==
    ASSUME NEW tr, IsTrack(tr), NEW dt
    PROVE  IsTrack(Aged(tr, dt)) /\ Aged(tr, dt).suspicious = tr.suspicious
BY DEF IsTrack, Fields, Aged

\* Latches and visits keep the fields.
LEMMA SightFacts ==
    ASSUME NEW tr, IsTrack(tr), NEW o
    PROVE  IsTrack(Visited(Latched(tr, o), o))
<1>1. IsTrack(Latched(tr, o))
  BY DEF IsTrack, Fields, Latched
<1>2. ASSUME NEW at, IsTrack(at)
      PROVE  IsTrack(Visited(at, o))
  BY <1>2 DEF IsTrack, Fields, Visited
<1>3. QED
  BY <1>1, <1>2

\* The step of the risk keeps the fields and the time unseen.
LEMMA AdvancedFacts ==
    ASSUME NEW tr, IsTrack(tr)
    PROVE  IsTrack(Advanced(tr).track) /\ Advanced(tr).track.unseen = tr.unseen
<1>1. CASE ~tr.suspicious
  BY <1>1 DEF IsTrack, Fields, Advanced, Keep
<1>2. CASE tr.suspicious
  BY <1>2 DEF IsTrack, Fields, Advanced, Keep, Close
<1>3. QED
  BY <1>1, <1>2

\* A track whose person is in the frame was seen just now.
LEMMA UpdatedFacts ==
    ASSUME NEW tr, IsTrack(tr), NEW o
    PROVE  IsTrack(Updated(tr, o).track) /\ Updated(tr, o).track.unseen = 0
<1> DEFINE at    == Visited(Latched(tr, o), o)
           keys  == HandSignal(tr, o) \cup ZoneSignal(at, o)
           gated == Gated(tr, keys)
           next  == [at EXCEPT !.since = Since(tr, keys),
                               !.bank = [k \in Key |->
                                            IF k \in gated THEN 0
                                            ELSE IF k \in keys THEN @[k] ELSE Absent],
                               !.scored = Scored(tr, keys, gated),
                               !.raw = Risk(tr, gated),
                               !.unseen = 0]
<1>1. IsTrack(at)
  BY SightFacts
<1>2. IsTrack(next) /\ next.unseen = 0
  <2> HIDE DEF at, keys, gated
  <2>1. QED
    BY <1>1 DEF IsTrack, Fields
<1>3. Updated(tr, o).track = Advanced(next).track
  BY DEF Updated
<1>4. QED
  <2> HIDE DEF next
  <2>1. QED
    BY <1>2, <1>3, AdvancedFacts

\* What has become of a track after a frame is a track, or there is none.
LEMMA AfterFacts ==
    ASSUME EBTypeOK, NEW dt \in Gaps, NEW present \in SUBSET Spot,
           NEW persons \in [present -> Observations], NEW s \in Spot
    PROVE  /\ Met(s, dt) \in Track
           /\ s \in DOMAIN persons =>
                 /\ After(s, dt, persons).track = Updated(Met(s, dt), persons[s]).track
                 /\ After(s, dt, persons).track \in Track
                 /\ ~Stale(After(s, dt, persons).track)
           /\ s \notin DOMAIN persons /\ tracks[s] # Absent =>
                 /\ After(s, dt, persons).track = Aged(tracks[s], dt)
                 /\ After(s, dt, persons).track \in Track
           /\ s \notin DOMAIN persons /\ tracks[s] = Absent => After(s, dt, persons).track = Absent
<1>1. tracks[s] # Absent => tracks[s] \in Track
  BY DEF EBTypeOK
<1>2. Met(s, dt) \in Track
  BY <1>1, NewTrackType, AgedType DEF Met
<1>3. ASSUME s \in DOMAIN persons
      PROVE  /\ After(s, dt, persons).track = Updated(Met(s, dt), persons[s]).track
             /\ After(s, dt, persons).track \in Track
             /\ ~Stale(After(s, dt, persons).track)
  <2> DEFINE new == Updated(Met(s, dt), persons[s]).track
  <2>1. persons[s] \in Observation
    BY <1>3, InputAssumption
  <2>2. After(s, dt, persons).track = new
    BY <1>3 DEF After
  <2>3. new \in Track /\ new.unseen = 0
    BY <1>2, <2>1, UpdatedType, TrackFields, UpdatedFacts
  <2>4. ~Stale(new)
    <3> HIDE DEF new
    <3>1. QED
      BY <2>3, AgeFacts DEF Stale
  <2>5. QED
    BY <2>2, <2>3, <2>4
<1>4. s \notin DOMAIN persons /\ tracks[s] # Absent =>
          After(s, dt, persons).track = Aged(tracks[s], dt) /\ After(s, dt, persons).track \in Track
  BY <1>1, AgedType DEF After, Keep
<1>5. s \notin DOMAIN persons /\ tracks[s] = Absent => After(s, dt, persons).track = Absent
  BY DEF After, Keep
<1>6. QED
  BY <1>2, <1>3, <1>4, <1>5

\* A track is dropped, or goes on as it is; a dropped one hands over the episode it has open.
LEMMA DroppedFacts ==
    ASSUME NEW tr
    PROVE  /\ DropStale(tr).track = IF Stale(tr) THEN Absent ELSE tr
           /\ Stale(tr) => tr # Absent
           /\ DropStale(tr).episodes = IF Stale(tr) /\ tr.suspicious THEN 1 ELSE 0
BY DEF DropStale, Keep, Close, Stale

\* The step of the risk opens an episode when the risk is high enough; an open one goes on, or
\* is returned.
LEMMA AdvancedEpisodes ==
    ASSUME NEW tr, IsTrack(tr), tr.suspicious \in BOOLEAN
    PROVE  LET new == Advanced(tr)
           IN  /\ new.track.raw = tr.raw
               /\ ~tr.suspicious => /\ new.episodes = 0
                                    /\ new.track.suspicious <=> tr.raw >= OpenRisk
               /\ tr.suspicious => \/ new.episodes = 0 /\ new.track.suspicious
                                   \/ new.episodes = 1 /\ ~new.track.suspicious
<1>1. CASE ~tr.suspicious
  BY <1>1 DEF IsTrack, Fields, Advanced, Keep
<1>2. CASE tr.suspicious
  <2>1. CASE Quiet(tr) >= PostQuiet
    BY <1>2, <2>1 DEF IsTrack, Fields, Advanced, Close
  <2>2. CASE ~(Quiet(tr) >= PostQuiet)
    BY <1>2, <2>2 DEF IsTrack, Fields, Advanced, Keep
  <2>3. QED
    BY <2>1, <2>2
<1>3. QED
  BY <1>1, <1>2

\* Latches and visits neither open nor end an episode.
LEMMA SightKeepsEpisode ==
    ASSUME NEW tr, IsTrack(tr), NEW o
    PROVE  Visited(Latched(tr, o), o).suspicious = tr.suspicious
<1>1. IsTrack(Latched(tr, o)) /\ Latched(tr, o).suspicious = tr.suspicious
  BY DEF IsTrack, Fields, Latched
<1>2. ASSUME NEW at, IsTrack(at)
      PROVE  Visited(at, o).suspicious = at.suspicious
  BY <1>2 DEF IsTrack, Fields, Visited
<1>3. QED
  BY <1>1, <1>2

\* A frame with the person opens an episode when it leaves a high risk; one that is open goes on
\* or is returned.
LEMMA UpdatedEpisodes ==
    ASSUME NEW tr \in Track, NEW o \in Observation
    PROVE  LET new == Updated(tr, o)
           IN  /\ ~tr.suspicious => /\ new.episodes = 0
                                    /\ new.track.suspicious <=> new.track.raw >= OpenRisk
               /\ tr.suspicious => \/ new.episodes = 0 /\ new.track.suspicious
                                   \/ new.episodes = 1 /\ ~new.track.suspicious
<1> DEFINE at    == Visited(Latched(tr, o), o)
           keys  == HandSignal(tr, o) \cup ZoneSignal(at, o)
           gated == Gated(tr, keys)
           next  == [at EXCEPT !.since = Since(tr, keys),
                               !.bank = [k \in Key |->
                                            IF k \in gated THEN 0
                                            ELSE IF k \in keys THEN @[k] ELSE Absent],
                               !.scored = Scored(tr, keys, gated),
                               !.raw = Risk(tr, gated),
                               !.unseen = 0]
<1>1. IsTrack(at) /\ at.suspicious = tr.suspicious
  BY TrackFields, SightFacts, SightKeepsEpisode
<1>2. IsTrack(next) /\ next.suspicious = tr.suspicious
  <2> HIDE DEF at, keys, gated
  <2>1. QED
    BY <1>1 DEF IsTrack, Fields
<1>3. Updated(tr, o) = Advanced(next)
  BY DEF Updated
<1>4. tr.suspicious \in BOOLEAN
  BY DEF Track
<1>5. QED
  <2> HIDE DEF next
  <2>1. next.suspicious \in BOOLEAN
    BY <1>2, <1>4
  <2>2. LET new == Advanced(next)
        IN  /\ ~next.suspicious => /\ new.episodes = 0
                                   /\ new.track.suspicious <=> new.track.raw >= OpenRisk
            /\ next.suspicious => \/ new.episodes = 0 /\ new.track.suspicious
                                  \/ new.episodes = 1 /\ ~new.track.suspicious
    BY ONLY <1>2, <2>1, AdvancedEpisodes
  <2>3. QED
    BY ONLY <1>2, <1>3, <2>2

\* A frame keeps the account of the episodes.
LEMMA EpisodesStep ==
    ASSUME EBTypeOK, EpisodesAccounted, NEW dt \in Gaps, NEW present \in SUBSET Spot,
           NEW persons \in [present -> Observations], Frame(dt, persons)
    PROVE  EpisodesAccounted'
<1> SUFFICES ASSUME NEW s \in Spot
             PROVE  owed'[s] = IF tracks'[s] # Absent /\ tracks'[s].suspicious THEN 1 ELSE 0
  BY DEF EpisodesAccounted
<1> DEFINE old == tracks[s]
           new == After(s, dt, persons)
           out == DropStale(new.track)
<1>1. /\ tracks'[s] = out.track
      /\ owed'[s] = (IF High(s, dt, persons) THEN 1 ELSE owed[s]) - new.episodes - out.episodes
  BY DEF Frame
<1>2. owed[s] = IF old # Absent /\ old.suspicious THEN 1 ELSE 0
  BY DEF EpisodesAccounted
<1>3. /\ out.track = IF Stale(new.track) THEN Absent ELSE new.track
      /\ out.episodes = IF Stale(new.track) /\ new.track.suspicious THEN 1 ELSE 0
  BY DroppedFacts
<1>4. CASE s \in DOMAIN persons
  <2> DEFINE met == Met(s, dt)
  <2>1. /\ met \in Track /\ new.track \in Track /\ ~Stale(new.track)
        /\ persons[s] \in Observation
    BY <1>4, AfterFacts, InputAssumption
  <2>2. new = Updated(met, persons[s])
    BY <1>4 DEF After
  <2>3. /\ new.track # Absent /\ met.suspicious \in BOOLEAN
        /\ High(s, dt, persons) <=> new.track.raw >= OpenRisk
    <3>1. met.suspicious \in BOOLEAN
      <4> HIDE DEF met
      <4>1. QED
        BY <2>1 DEF Track
    <3>2. QED
      BY <1>4, <2>1, <3>1, AbsentAssumption DEF High
  <2>4. met.suspicious <=> (old # Absent /\ old.suspicious)
    <3>1. CASE old = Absent
      BY <3>1, NewTrackFacts DEF Met, NewTrack
    <3>2. CASE old # Absent
      <4>1. old \in Track /\ old.suspicious \in BOOLEAN
        BY <3>2 DEF EBTypeOK, Track
      <4>2. met = Aged(old, dt)
        BY <3>2 DEF Met
      <4>3. QED
        BY <3>2, <4>1, <4>2, TrackFields, AgedFacts
    <3>3. QED
      BY <3>1, <3>2
  <2>5. /\ ~met.suspicious => /\ new.episodes = 0
                              /\ new.track.suspicious <=> new.track.raw >= OpenRisk
        /\ met.suspicious => \/ new.episodes = 0 /\ new.track.suspicious
                             \/ new.episodes = 1 /\ ~new.track.suspicious
    <3> HIDE DEF met, new
    <3>1. QED
      BY <2>1, <2>2, UpdatedEpisodes
  <2>6. out.track = new.track /\ out.episodes = 0
    BY <1>3, <2>1
  <2>7. QED
    <3> HIDE DEF met, new, out, old
    <3>1. CASE ~met.suspicious
      <4>1. owed[s] = 0 /\ new.episodes = 0 /\ out.episodes = 0
        BY <1>2, <2>4, <2>5, <2>6, <3>1
      <4>2. owed'[s] = IF new.track.raw >= OpenRisk THEN 1 ELSE 0
        BY <1>1, <2>3, <4>1
      <4>3. QED
        BY <1>1, <2>3, <2>5, <2>6, <3>1, <4>2
    <3>2. CASE met.suspicious
      <4>1. owed[s] = 1 /\ out.episodes = 0
        BY <1>2, <2>4, <2>6, <3>2
      <4>2. \/ new.episodes = 0 /\ new.track.suspicious
            \/ new.episodes = 1 /\ ~new.track.suspicious
        BY <2>5, <3>2
      <4>3. owed'[s] = 1 - new.episodes
        BY <1>1, <4>1, <4>2
      <4>4. QED
        BY <1>1, <2>3, <2>6, <4>2, <4>3
    <3>3. QED
      BY <3>1, <3>2
<1>5. CASE s \notin DOMAIN persons /\ old = Absent
  <2>1. new.track = Absent /\ new.episodes = 0 /\ ~Stale(new.track) /\ ~High(s, dt, persons)
    BY <1>5 DEF After, Keep, Stale, High
  <2>2. QED
    <3> HIDE DEF new, old, out
    <3>1. QED
      BY <1>1, <1>2, <1>3, <1>5, <2>1
<1>6. CASE s \notin DOMAIN persons /\ old # Absent
  <2>1. old \in Track /\ old.suspicious \in BOOLEAN
    BY <1>6 DEF EBTypeOK, Track
  <2>2. new.track = Aged(old, dt) /\ new.episodes = 0 /\ ~High(s, dt, persons)
    BY <1>6 DEF After, Keep, High
  <2>3. new.track.suspicious = old.suspicious
    BY <2>1, <2>2, TrackFields, AgedFacts
  <2>4. new.track # Absent
    BY <1>6, AfterFacts, AbsentAssumption
  <2>5. QED
    <3> HIDE DEF new, old, out
    <3>1. QED
      BY <1>1, <1>2, <1>3, <1>6, <2>1, <2>2, <2>3, <2>4
<1>7. QED
  BY <1>4, <1>5, <1>6

\* A frame keeps the types.
LEMMA FrameType ==
    ASSUME EBTypeOK, EpisodesAccounted', NEW dt \in Gaps, NEW present \in SUBSET Spot,
           NEW persons \in [present -> Observations], Frame(dt, persons)
    PROVE  EBTypeOK'
<1>1. ASSUME NEW s \in Spot, tracks'[s] # Absent
      PROVE  tracks'[s] \in Track
  <2>1. tracks'[s] = After(s, dt, persons).track
    BY <1>1, DroppedFacts DEF Frame
  <2>2. QED
    BY <1>1, <2>1, AfterFacts
<1>2. gap' \in {0} \cup Gaps
  BY DEF Frame
<1>3. DOMAIN seen' \subseteq Spot /\ \A s \in DOMAIN seen' : seen'[s] \in Observations
  BY DEF Frame
<1>4. owed' \in [Spot -> {0, 1}]
  BY DEF Frame, EpisodesAccounted
<1>5. banked' \in [Spot -> [Zone -> 0 .. 2]]
  <2>1. \A s \in Spot, k \in Zone : banked[s][k] \in 0 .. 2
    BY DEF EBTypeOK
  <2>2. \A s \in Spot, k \in Zone :
            (IF tracks'[s] = Absent THEN 0
             ELSE IF tracks'[s].bank[k] = 0 /\ s \in DOMAIN persons /\ banked[s][k] < 2
                  THEN banked[s][k] + 1 ELSE banked[s][k]) \in 0 .. 2
    BY <2>1
  <2>3. QED
    BY <2>2 DEF Frame
<1>6. touch' \in [Spot -> Age \cup {Absent}]
  <2>1. \A s \in Spot : Older(touch[s], dt) \in Age \cup {Absent}
    BY AgeFacts DEF EBTypeOK
  <2>2. QED
    BY <2>1, AgeFacts DEF Frame
<1>7. QED
  BY <1>1, <1>2, <1>3, <1>4, <1>5, <1>6 DEF EBTypeOK

\* Types and account hold in every state of every run of the analyser.
THEOREM BehaviorInvariance == EBSpec => [](EBTypeOK /\ EpisodesAccounted)
<1>1. EBInit => EBTypeOK /\ EpisodesAccounted
  <2> SUFFICES ASSUME EBInit
               PROVE  EBTypeOK /\ EpisodesAccounted
    OBVIOUS
  <2>1. EBTypeOK
    BY DEF EBInit, EBTypeOK
  <2>2. EpisodesAccounted
    BY DEF EBInit, EpisodesAccounted
  <2>3. QED
    BY <2>1, <2>2
<1>2. EBTypeOK /\ EpisodesAccounted /\ [EBNext]_ebVars => (EBTypeOK /\ EpisodesAccounted)'
  <2> SUFFICES ASSUME EBTypeOK, EpisodesAccounted, [EBNext]_ebVars
               PROVE  EBTypeOK' /\ EpisodesAccounted'
    OBVIOUS
  <2>1. CASE UNCHANGED ebVars
    BY <2>1 DEF ebVars, EBTypeOK, EpisodesAccounted
  <2>2. CASE EBNext
    BY <2>2, EpisodesStep, FrameType DEF EBNext
  <2>3. QED
    BY <2>1, <2>2
<1>3. QED
  BY <1>1, <1>2, PTL DEF EBSpec

\* Every variable of the behaviour analyser keeps its type: risk stays between 0 and 100, and a
\* criterion is counted no further than it matters.
THEOREM BehaviorTypes == EBSpec => []EBTypeOK
BY BehaviorInvariance, PTL

\* EpisodesAccounted of EdgeBehavior: of every risk that reaches open_risk there is an episode that
\* is still open, or one that update has returned for the recorder, exactly once, be it by
\* _advance_episode or for a track that is dropped; for any tunables and any number of persons.
THEOREM EpisodesHandedOver == EBSpec => []EpisodesAccounted
BY BehaviorInvariance, PTL

(***************************************************************************)
(* The zone criteria                                                       *)
(***************************************************************************)

\* What is needed of the tunables.
LEMMA Tunables ==
    /\ DropAfter \in Nat /\ Cap \in Nat /\ ShelfThreshold \in Nat /\ Gaps \subseteq Nat
    /\ \A k \in Key : MinDur[k] \in 0 .. Cap
    /\ Absent \notin Int
<1>1. /\ Cap \in Nat /\ ShelfThreshold \in Nat /\ Gaps \subseteq 1 .. Cap
      /\ DropAfter \in 0 .. Cap - 1 /\ \A k \in Key : MinDur[k] \in 0 .. Cap - 1
      /\ Absent \notin Int
  BY CountAssumption, InputAssumption, TimingAssumption, AbsentAssumption
<1>2. QED
  BY <1>1

Times == [Key -> Int \cup {Absent}]

ZoneTrack(tr) ==
    /\ IsTrack(tr)
    /\ tr.visits \in Int
    /\ tr.since \in Times
    /\ tr.bank \in Times

\* A criterion that shows has what it takes to show again: enough visits, or a concealment.
Ripe(tr) ==
    /\ tr.since["repeated_shelf_visit"] # Absent => tr.visits >= ShelfThreshold
    /\ tr.since["exit_after_concealment"] # Absent => tr.concealed

\* A criterion that has not banked is still to be scored, and no interval runs for it.
Unscored(tr, k) == k \notin tr.scored /\ tr.bank[k] = Absent

Zones ==
    /\ \A s \in Spot : tracks[s] # Absent => ZoneTrack(tracks[s]) /\ Ripe(tracks[s])
    /\ \A s \in Spot, k \in Zone :
          tracks[s] # Absent /\ banked[s][k] = 0 => Unscored(tracks[s], k)
    /\ banked \in [Spot -> [Zone -> Nat]]
    /\ \A s \in DOMAIN seen : s \in Spot /\ tracks[s] # Absent

\* The behaviours of a person's frame, and those that bank.
KeysOf(tr, o) ==
    HandSignal(tr, o)
        \cup ZoneSignal(Visited(Latched(tr, o), o), o)
GatedOf(tr, o) == Gated(tr, KeysOf(tr, o))

\* An age stays an age, and does not get less.
LEMMA OlderFacts ==
    ASSUME NEW dt \in Gaps, NEW age \in Int \cup {Absent}
    PROVE  /\ Older(age, dt) \in Int \cup {Absent}
           /\ Older(age, dt) = Absent <=> age = Absent
           /\ age # Absent => \A n \in 0 .. Cap :
                                age + dt >= n => Older(age, dt) >= n
BY Tunables DEF Older

\* Time alone changes no criterion.
LEMMA AgedZone ==
    ASSUME NEW dt \in Gaps, NEW tr, ZoneTrack(tr)
    PROVE  /\ ZoneTrack(Aged(tr, dt))
           /\ Aged(tr, dt).scored = tr.scored
           /\ Aged(tr, dt).visits = tr.visits
           /\ Aged(tr, dt).concealed = tr.concealed
           /\ \A k \in Key :
                 /\ Aged(tr, dt).since[k] = Older(tr.since[k], dt)
                 /\ Aged(tr, dt).bank[k] = Older(tr.bank[k], dt)
<1>1. /\ IsTrack(Aged(tr, dt))
      /\ Aged(tr, dt).scored = tr.scored
      /\ Aged(tr, dt).visits = tr.visits
      /\ Aged(tr, dt).concealed = tr.concealed
      /\ Aged(tr, dt).since = [k \in Key |-> Older(tr.since[k], dt)]
      /\ Aged(tr, dt).bank = [k \in Key |-> Older(tr.bank[k], dt)]
  BY DEF ZoneTrack, IsTrack, Fields, Aged
<1>2. \A k \in Key : /\ Older(tr.since[k], dt) \in Int \cup {Absent}
                     /\ Older(tr.bank[k], dt) \in Int \cup {Absent}
  BY OlderFacts DEF ZoneTrack, Times
<1>3. QED
  BY <1>1, <1>2 DEF ZoneTrack, Times

\* What a frame makes of the times and counts of a track.
LEMMA UpdatedZone ==
    ASSUME NEW tr, IsTrack(tr), NEW o
    PROVE  /\ Updated(tr, o).track.since = Since(tr, KeysOf(tr, o))
           /\ Updated(tr, o).track.bank =
                 [k \in Key |-> IF k \in GatedOf(tr, o) THEN 0
                                         ELSE IF k \in KeysOf(tr, o) THEN tr.bank[k] ELSE Absent]
           /\ Updated(tr, o).track.scored = tr.scored \cup (GatedOf(tr, o) \cap Zone)
           /\ Updated(tr, o).track.visits =
                 Visited(Latched(tr, o), o).visits
           /\ Updated(tr, o).track.concealed =
                 Visited(Latched(tr, o), o).concealed
<1> DEFINE at    == Visited(Latched(tr, o), o)
           keys  == KeysOf(tr, o)
           gated == GatedOf(tr, o)
           since == Since(tr, keys)
           bank  == [k \in Key |->
                        IF k \in gated THEN 0 ELSE IF k \in keys THEN at.bank[k] ELSE Absent]
           score == Scored(tr, keys, gated)
           risk  == Risk(tr, gated)
           next  == [at EXCEPT !.since = since, !.bank = bank, !.scored = score,
                               !.raw = risk, !.unseen = 0]
<1>1. IsTrack(at) /\ at.bank = tr.bank
  <2>1. IsTrack(Latched(tr, o)) /\ Latched(tr, o).bank = tr.bank
    BY DEF IsTrack, Fields, Latched
  <2>2. ASSUME NEW l, IsTrack(l)
        PROVE  IsTrack(Visited(l, o)) /\ Visited(l, o).bank = l.bank
    BY <2>2 DEF IsTrack, Fields, Visited
  <2>3. QED
    BY <2>1, <2>2
<1>2. Updated(tr, o).track = Advanced(next).track
  BY DEF Updated, KeysOf, GatedOf
<1>3. /\ IsTrack(next) /\ next.since = since /\ next.bank = bank /\ next.scored = score
      /\ next.visits = at.visits /\ next.concealed = at.concealed
  <2> HIDE DEF at, since, bank, score, risk
  <2>1. QED
    BY <1>1 DEF IsTrack, Fields
<1>4. ASSUME NEW n, IsTrack(n)
      PROVE  /\ Advanced(n).track.since = n.since /\ Advanced(n).track.bank = n.bank
             /\ Advanced(n).track.scored = n.scored /\ Advanced(n).track.visits = n.visits
             /\ Advanced(n).track.concealed = n.concealed
  <2>1. CASE ~n.suspicious
    BY <1>4, <2>1 DEF IsTrack, Fields, Advanced, Keep
  <2>2. CASE n.suspicious
    BY <1>4, <2>2 DEF IsTrack, Fields, Advanced, Keep, Close
  <2>3. QED
    BY <2>1, <2>2
<1>5. bank = [k \in Key |-> IF k \in gated THEN 0
                                     ELSE IF k \in keys THEN tr.bank[k] ELSE Absent]
  BY <1>1
<1>6. score = tr.scored \cup (gated \cap Zone)
  BY DEF Scored
<1>7. QED
  <2> HIDE DEF next, at, keys, gated, since, bank, score
  <2>1. /\ Updated(tr, o).track.since = since /\ Updated(tr, o).track.bank = bank
        /\ Updated(tr, o).track.scored = score /\ Updated(tr, o).track.visits = at.visits
        /\ Updated(tr, o).track.concealed = at.concealed
    BY <1>2, <1>3, <1>4
  <2>2. QED
    BY <2>1, <1>5, <1>6 DEF at, since, keys, gated

\* Where the person stands adds to the visits, and a hand at the hip conceals; nothing takes
\* back either.
LEMMA SightZone ==
    ASSUME NEW tr, ZoneTrack(tr), NEW o
    PROVE  LET at == Visited(Latched(tr, o), o)
           IN  /\ at.visits \in Int /\ at.visits >= tr.visits
               /\ tr.concealed => at.concealed
               /\ at.scored = tr.scored
<1>1. /\ IsTrack(Latched(tr, o))
      /\ Latched(tr, o).visits = tr.visits
      /\ Latched(tr, o).scored = tr.scored
      /\ tr.concealed => Latched(tr, o).concealed
  BY DEF ZoneTrack, IsTrack, Fields, Latched
<1>2. ASSUME NEW l, IsTrack(l), l.visits \in Int
      PROVE  /\ Visited(l, o).visits \in Int /\ Visited(l, o).visits >= l.visits
             /\ Visited(l, o).concealed = l.concealed
             /\ Visited(l, o).scored = l.scored
  <2>1. /\ Visited(l, o).concealed = l.concealed
        /\ Visited(l, o).scored = l.scored
    BY <1>2 DEF IsTrack, Fields, Visited
  <2>2. Visited(l, o).visits = l.visits \/ Visited(l, o).visits = l.visits + 1
    BY <1>2 DEF IsTrack, Fields, Visited
  <2>3. QED
    BY <1>2, <2>1, <2>2
<1>3. QED
  BY <1>1, <1>2 DEF ZoneTrack

\* Time takes nothing from a criterion.
LEMMA AgedCriteria ==
    ASSUME NEW dt \in Gaps, NEW tr, ZoneTrack(tr)
    PROVE  /\ \A k \in Zone : Unscored(tr, k) => Unscored(Aged(tr, dt), k)
           /\ Ripe(tr) => Ripe(Aged(tr, dt))
<1> DEFINE old == Aged(tr, dt)
<1>1. /\ old.scored = tr.scored /\ old.visits = tr.visits /\ old.concealed = tr.concealed
      /\ \A k \in Key : /\ old.since[k] = Older(tr.since[k], dt)
                        /\ old.bank[k] = Older(tr.bank[k], dt)
  BY AgedZone
<1>2. Older(Absent, dt) = Absent
  BY DEF Older
<1>3. \A k \in Key : /\ tr.bank[k] = Absent => old.bank[k] = Absent
                     /\ tr.since[k] = Absent => old.since[k] = Absent
  <2> HIDE DEF old
  <2>1. QED
    BY <1>1, <1>2
<1>4. \A k \in Zone : k \in Key
  BY DEF Zone, Key
<1>5. QED
  <2> HIDE DEF old
  <2>1. \A k \in Zone : Unscored(tr, k) => Unscored(old, k)
    BY <1>1, <1>3, <1>4 DEF Unscored
  <2>2. Ripe(tr) => Ripe(old)
    BY <1>1, <1>3 DEF Ripe, Key
  <2>3. QED
    BY <2>1, <2>2 DEF old

\* A new track has scored nothing.
LEMMA NewZone ==
    /\ ZoneTrack(NewTrack)
    /\ \A k \in Zone : Unscored(NewTrack, k)
<1>1. ZoneTrack(NewTrack)
  BY NewTrackFacts DEF ZoneTrack, Times, NewTrack
<1>2. \A k \in Zone : Unscored(NewTrack, k)
  BY DEF Unscored, NewTrack, Zone, Key
<1>3. QED
  BY <1>1, <1>2

\* A criterion that shows for a person has what it takes.
LEMMA UpdatedKeeps ==
    ASSUME NEW tr, ZoneTrack(tr), NEW o
    PROVE  ZoneTrack(Updated(tr, o).track) /\ Ripe(Updated(tr, o).track)
<1> DEFINE at   == Visited(Latched(tr, o), o)
           keys == KeysOf(tr, o)
           new  == Updated(tr, o).track
<1>1. IsTrack(tr) /\ tr.since \in Times /\ tr.bank \in Times
  BY DEF ZoneTrack
<1>2. IsTrack(new)
  BY <1>1, UpdatedFacts
<1>3. /\ new.since = Since(tr, keys)
      /\ new.bank = [k \in Key |-> IF k \in GatedOf(tr, o) THEN 0
                                            ELSE IF k \in keys THEN tr.bank[k] ELSE Absent]
      /\ new.visits = at.visits /\ new.concealed = at.concealed
  BY <1>1, UpdatedZone
<1>4. new.since \in Times /\ new.bank \in Times
  <2> HIDE DEF new, keys
  <2>1. QED
    BY <1>1, <1>3 DEF Times, Since
<1>5. new.visits \in Int
  BY <1>3, SightZone
<1>6. \A k \in Key : new.since[k] # Absent => k \in keys
  <2> HIDE DEF new, keys
  <2>1. QED
    BY <1>3 DEF Since
<1>7. /\ "repeated_shelf_visit" \in keys => at.visits >= ShelfThreshold
      /\ "exit_after_concealment" \in keys => at.concealed
  <2> HIDE DEF at
  <2>1. keys = HandSignal(tr, o) \cup ZoneSignal(at, o)
    BY DEF KeysOf, at
  <2>2. QED
    BY <2>1 DEF HandSignal, ZoneSignal
<1>8. Ripe(new)
  <2> HIDE DEF new, keys, at
  <2>1. QED
    BY <1>3, <1>6, <1>7 DEF Ripe, Key
<1>9. QED
  BY <1>2, <1>4, <1>5, <1>8 DEF ZoneTrack

\* The track that a person meets.
LEMMA MetFacts ==
    ASSUME Zones, NEW dt \in Gaps, NEW s \in Spot
    PROVE  /\ ZoneTrack(Met(s, dt))
           /\ \A k \in Zone : banked[s][k] = 0 => Unscored(Met(s, dt), k)
<1>1. CASE tracks[s] = Absent
  BY <1>1, NewZone DEF Met
<1>2. CASE tracks[s] # Absent
  <2>1. /\ ZoneTrack(tracks[s])
        /\ \A k \in Zone : banked[s][k] = 0 => Unscored(tracks[s], k)
    BY <1>2 DEF Zones
  <2>2. Met(s, dt) = Aged(tracks[s], dt)
    BY <1>2 DEF Met
  <2>3. QED
    BY <2>1, <2>2, AgedZone, AgedCriteria
<1>3. QED
  BY <1>1, <1>2

\* The person in the frame keeps a track, and banks what the gate lets through.
LEMMA PresentFacts ==
    ASSUME EBTypeOK, Zones, NEW dt \in Gaps, NEW present \in SUBSET Spot,
           NEW persons \in [present -> Observations], Frame(dt, persons),
           NEW s \in Spot, s \in DOMAIN persons
    PROVE  /\ tracks'[s] = Updated(Met(s, dt), persons[s]).track
           /\ tracks'[s] # Absent
           /\ \A k \in Zone :
                 banked'[s][k] = IF tracks'[s].bank[k] = 0 /\ banked[s][k] < 2
                                 THEN banked[s][k] + 1 ELSE banked[s][k]
<1> DEFINE new == Updated(Met(s, dt), persons[s]).track
<1>1. After(s, dt, persons).track = new /\ new \in Track /\ ~Stale(new)
  BY AfterFacts
<1>2. new # Absent /\ ~Stale(new)
  BY <1>1, AbsentAssumption
<1>3. After(s, dt, persons).track = new
  BY <1>1
<1>4. tracks'[s] = new
  <2> HIDE DEF new
  <2>1. QED
    BY <1>2, <1>3, DroppedFacts DEF Frame
<1>5. \A k \in Zone :
         banked'[s][k] = IF tracks'[s] = Absent THEN 0
                         ELSE IF tracks'[s].bank[k] = 0 /\ s \in DOMAIN persons /\ banked[s][k] < 2
                              THEN banked[s][k] + 1 ELSE banked[s][k]
  BY DEF Frame
<1>6. QED
  <2> HIDE DEF new
  <2>1. tracks'[s] # Absent
    BY <1>2, <1>4
  <2>2. QED
    BY <1>4, <1>5, <2>1 DEF new

\* A person out of sight ages, or its track is dropped with what it banked.
LEMMA AbsentFacts ==
    ASSUME Zones, NEW dt \in Gaps, NEW persons, Frame(dt, persons),
           NEW s \in Spot, s \notin DOMAIN persons
    PROVE  \/ tracks'[s] = Absent /\ \A k \in Zone : banked'[s][k] = 0
           \/ /\ tracks[s] # Absent
              /\ tracks'[s] = Aged(tracks[s], dt)
              /\ \A k \in Zone : banked'[s][k] = banked[s][k]
<1>1. tracks'[s] = Absent \/ (tracks[s] # Absent /\ tracks'[s] = Aged(tracks[s], dt))
  BY DroppedFacts DEF Frame, After, Keep
<1>2. \A k \in Zone :
         banked'[s][k] = IF tracks'[s] = Absent THEN 0
                         ELSE IF tracks'[s].bank[k] = 0 /\ s \in DOMAIN persons /\ banked[s][k] < 2
                              THEN banked[s][k] + 1 ELSE banked[s][k]
  BY DEF Frame
<1>3. CASE tracks'[s] = Absent
  BY <1>2, <1>3
<1>4. CASE tracks'[s] # Absent
  BY <1>1, <1>2, <1>4
<1>5. QED
  BY <1>3, <1>4

\* A frame keeps what is known of the zone criteria.
LEMMA ZonesStep ==
    ASSUME EBTypeOK, Zones, NEW dt \in Gaps, NEW present \in SUBSET Spot,
           NEW persons \in [present -> Observations], Frame(dt, persons)
    PROVE  Zones'
<1>1. DOMAIN persons = present
  OBVIOUS
<1>2. ASSUME NEW s \in Spot, tracks'[s] # Absent
      PROVE  ZoneTrack(tracks'[s]) /\ Ripe(tracks'[s])
  <2>1. CASE s \in DOMAIN persons
    BY <2>1, PresentFacts, MetFacts, UpdatedKeeps
  <2>2. CASE s \notin DOMAIN persons
    <3>1. tracks[s] # Absent /\ tracks'[s] = Aged(tracks[s], dt)
      BY <1>2, <2>2, AbsentFacts
    <3>2. ZoneTrack(tracks[s]) /\ Ripe(tracks[s])
      BY <3>1 DEF Zones
    <3>3. ZoneTrack(tracks'[s])
      BY <3>1, <3>2, AgedZone
    <3>4. Ripe(tracks'[s])
      BY <3>1, <3>2, AgedCriteria
    <3>5. QED
      BY <3>3, <3>4
  <2>3. QED
    BY <2>1, <2>2
<1>3. ASSUME NEW s \in Spot, NEW k \in Zone
      PROVE  /\ banked'[s][k] \in Nat
             /\ tracks'[s] # Absent /\ banked'[s][k] = 0 => Unscored(tracks'[s], k)
  <2>1. banked[s][k] \in Nat /\ k \in Key
    BY DEF Zones, Zone, Key
  <2>2. CASE s \in DOMAIN persons
    <3> DEFINE tr == Met(s, dt)
               o  == persons[s]
    <3>1. ZoneTrack(tr) /\ (banked[s][k] = 0 => Unscored(tr, k))
      BY MetFacts
    <3>2. /\ tracks'[s] = Updated(tr, o).track
          /\ banked'[s][k] = IF tracks'[s].bank[k] = 0 /\ banked[s][k] < 2
                             THEN banked[s][k] + 1 ELSE banked[s][k]
      BY <2>2, PresentFacts
    <3>3. /\ tracks'[s].bank[k] = IF k \in GatedOf(tr, o) THEN 0
                                  ELSE IF k \in KeysOf(tr, o) THEN tr.bank[k] ELSE Absent
          /\ tracks'[s].scored = tr.scored \cup (GatedOf(tr, o) \cap Zone)
      <4> HIDE DEF tr, o
      <4>1. IsTrack(tr)
        BY <3>1 DEF ZoneTrack
      <4>2. /\ Updated(tr, o).track.bank =
                  [z \in Key |-> IF z \in GatedOf(tr, o) THEN 0
                                          ELSE IF z \in KeysOf(tr, o) THEN tr.bank[z] ELSE Absent]
            /\ Updated(tr, o).track.scored = tr.scored \cup (GatedOf(tr, o) \cap Zone)
        BY ONLY <4>1, UpdatedZone
      <4>3. tracks'[s] = Updated(tr, o).track
        BY <3>2
      <4>4. tracks'[s].scored = tr.scored \cup (GatedOf(tr, o) \cap Zone)
        BY ONLY <4>2, <4>3
      <4>5. tracks'[s].bank[k] = IF k \in GatedOf(tr, o) THEN 0
                                 ELSE IF k \in KeysOf(tr, o) THEN tr.bank[k] ELSE Absent
        BY ONLY <2>1, <4>2, <4>3
      <4>6. QED
        BY <4>4, <4>5
    <3>4. QED
      <4> HIDE DEF tr, o
      <4>1. QED
        BY <2>1, <3>1, <3>2, <3>3 DEF Unscored
  <2>3. CASE s \notin DOMAIN persons
    <3>1. CASE tracks'[s] = Absent
      BY <2>1, <2>3, <3>1, AbsentFacts
    <3>2. CASE tracks'[s] # Absent
      <4>1. /\ tracks[s] # Absent /\ tracks'[s] = Aged(tracks[s], dt)
            /\ banked'[s][k] = banked[s][k]
        BY <2>3, <3>2, AbsentFacts
      <4>2. banked[s][k] = 0 => Unscored(tracks[s], k)
        BY <4>1 DEF Zones
      <4>3. ZoneTrack(tracks[s])
        BY <4>1 DEF Zones
      <4>4. Unscored(tracks[s], k) => Unscored(tracks'[s], k)
        BY <4>1, <4>3, AgedCriteria
      <4>5. QED
        BY <2>1, <4>1, <4>2, <4>4
    <3>3. QED
      BY <3>1, <3>2
  <2>4. QED
    BY <2>2, <2>3
<1>4. banked' \in [Spot -> [Zone -> Nat]]
  BY <1>3 DEF Frame
<1>5. \A s \in DOMAIN seen' : s \in Spot /\ tracks'[s] # Absent
  BY <1>1, PresentFacts DEF Frame
<1>6. QED
  BY <1>2, <1>3, <1>4, <1>5 DEF Zones

\* What ZonesBankInTime says of one step.
BanksInTime(s, k) ==
    tracks[s].since[k] # Absent /\ banked[s][k] = 0 /\ StaysIn(seen'[s], k) =>
        IF tracks[s].since[k] + gap' >= MinDur[k]
        THEN banked'[s][k] = 1 ELSE tracks'[s].since[k] # Absent

\* A frame banks a zone criterion when its gate lets it, and once.
LEMMA BankStep ==
    ASSUME EBTypeOK, Zones, NEW dt \in Gaps, NEW present \in SUBSET Spot,
           NEW persons \in [present -> Observations], Frame(dt, persons),
           NEW s \in DOMAIN seen \cap DOMAIN seen', NEW k \in Zone
    PROVE  BanksInTime(s, k)
<1> SUFFICES ASSUME tracks[s].since[k] # Absent, banked[s][k] = 0, StaysIn(seen'[s], k)
             PROVE  IF tracks[s].since[k] + gap' >= MinDur[k]
                    THEN banked'[s][k] = 1 ELSE tracks'[s].since[k] # Absent
  BY DEF BanksInTime
<1> DEFINE tr == Met(s, dt)
           o  == persons[s]
           at == Visited(Latched(tr, o), o)
<1>1. /\ s \in Spot /\ tracks[s] # Absent /\ s \in DOMAIN persons
      /\ seen' = persons /\ gap' = dt /\ k \in Key
  BY DEF Zones, Frame, Zone, Key
<1>2. ZoneTrack(tracks[s]) /\ Ripe(tracks[s])
  BY <1>1 DEF Zones
<1>3. ZoneTrack(tr) /\ Unscored(tr, k) /\ IsTrack(tr)
  BY <1>1, MetFacts DEF ZoneTrack
<1>4. /\ tr.since[k] = Older(tracks[s].since[k], dt)
      /\ tr.visits = tracks[s].visits /\ tr.concealed = tracks[s].concealed
  <2>1. tr = Aged(tracks[s], dt)
    BY <1>1 DEF Met
  <2>2. QED
    BY <1>1, <1>2, <2>1, AgedZone
<1>5. tracks[s].since[k] \in Int /\ tr.since[k] \in Int
  <2>1. tracks[s].since[k] \in Int \cup {Absent}
    BY <1>1, <1>2 DEF ZoneTrack, Times
  <2>2. QED
    BY <1>4, <2>1, OlderFacts
<1>6. k \in KeysOf(tr, o)
  <2> HIDE DEF tr, o
  <2>1. /\ at.visits \in Int /\ at.visits >= tr.visits /\ tr.visits \in Int
        /\ tr.concealed => at.concealed
        /\ at.scored = tr.scored
    BY <1>3, SightZone DEF ZoneTrack
  <2>2. /\ k = "repeated_shelf_visit" => at.visits >= ShelfThreshold
        /\ k = "exit_after_concealment" => at.concealed
    <3> HIDE DEF at
    <3>1. CASE k = "repeated_shelf_visit"
      BY <1>2, <1>4, <2>1, <3>1, Tunables DEF Ripe
    <3>2. CASE k = "exit_after_concealment"
      BY <1>2, <1>4, <2>1, <3>2 DEF Ripe
    <3>3. QED
      BY <3>1, <3>2
  <2>3. /\ k = "repeated_shelf_visit" => o.shelf
        /\ k = "exit_after_concealment" => o.exit
    BY <1>1 DEF StaysIn, o
  <2>4. k \in ZoneSignal(at, o)
    <3> HIDE DEF at
    <3>1. k \notin at.scored
      BY <1>3, <2>1 DEF Unscored
    <3>2. QED
      BY <2>2, <2>3, <3>1 DEF ZoneSignal, Zone
  <2>5. QED
    BY <2>4 DEF KeysOf
<1>7. Since(tr, KeysOf(tr, o))[k] = tr.since[k] /\ tr.since[k] # Absent
  <2> HIDE DEF tr, o
  <2>1. tr.since[k] # Absent
    BY <1>5, Tunables
  <2>2. QED
    BY <1>1, <1>6, <2>1 DEF Since
<1>8. /\ tracks'[s] = Updated(tr, o).track
      /\ banked'[s][k] = IF tracks'[s].bank[k] = 0 /\ banked[s][k] < 2
                         THEN banked[s][k] + 1 ELSE banked[s][k]
  BY <1>1, PresentFacts
<1>9. CASE tracks[s].since[k] + gap' >= MinDur[k]
  <2>1. tr.since[k] >= MinDur[k]
    <3>1. MinDur[k] \in 0 .. Cap
      BY <1>1, Tunables
    <3>2. QED
      BY <1>1, <1>4, <1>5, <1>9, <3>1, OlderFacts, Tunables
  <2>2. k \in GatedOf(tr, o)
    <3> HIDE DEF tr, o
    <3>1. QED
      BY <1>3, <1>6, <1>7, <2>1 DEF GatedOf, Gated, Unscored
  <2>3. tracks'[s].bank[k] = 0
    <3> HIDE DEF tr, o
    <3>1. tracks'[s].bank = [z \in Key |->
                                IF z \in GatedOf(tr, o) THEN 0
                                ELSE IF z \in KeysOf(tr, o) THEN tr.bank[z] ELSE Absent]
      BY <1>3, <1>8, UpdatedZone
    <3>2. QED
      BY <1>1, <2>2, <3>1
  <2>4. QED
    BY <1>8, <1>9, <2>3
<1>10. CASE ~(tracks[s].since[k] + gap' >= MinDur[k])
  <2>1. tracks'[s].since[k] = tr.since[k]
    <3> HIDE DEF tr, o
    <3>1. tracks'[s].since = Since(tr, KeysOf(tr, o))
      <4>1. Updated(tr, o).track.since = Since(tr, KeysOf(tr, o))
        BY <1>3, UpdatedZone
      <4>2. QED
        BY <1>8, <4>1
    <3>2. QED
      BY <1>7, <3>1
  <2>2. QED
    BY <1>7, <1>10, <2>1
<1>11. QED
  BY <1>9, <1>10

\* ZonesBankInTime of EdgeBehavior: a shelf visit or an exit that shows is never used up before
\* it has lasted for as long as the gate asks, and banks in the first frame that late, for any
\* weights, intervals and gaps between frames.
THEOREM ZoneCriteriaBank == EBSpec => ZonesBankInTime
<1>1. EBInit => Zones
  BY DEF EBInit, Zones
<1>2. EBTypeOK /\ Zones /\ [EBNext]_ebVars => Zones'
  <2>1. CASE UNCHANGED ebVars
    BY <2>1 DEF ebVars, Zones, ZoneTrack, IsTrack, Ripe, Unscored
  <2>2. QED
    BY <2>1, ZonesStep DEF EBNext
<1>3. EBTypeOK /\ Zones /\ [EBNext]_ebVars
      => [\A s \in DOMAIN seen \cap DOMAIN seen', k \in Zone : BanksInTime(s, k)]_ebVars
  BY BankStep DEF EBNext
<1>4. QED
  BY <1>1, <1>2, <1>3, BehaviorTypes, PTL DEF EBSpec, ZonesBankInTime, BanksInTime

\* What a criterion has banked is remembered by its track.
BankedIsScored ==
    \A s \in Spot, k \in Zone :
        /\ banked[s][k] \in {0, 1}
        /\ banked[s][k] = 1 => tracks[s] # Absent /\ k \in tracks[s].scored

\* A frame banks no criterion a second time.
LEMMA OnceStep ==
    ASSUME EBTypeOK, Zones, BankedIsScored, NEW dt \in Gaps, NEW present \in SUBSET Spot,
           NEW persons \in [present -> Observations], Frame(dt, persons)
    PROVE  BankedIsScored'
<1> SUFFICES ASSUME NEW s \in Spot, NEW k \in Zone
             PROVE  /\ banked'[s][k] \in {0, 1}
                    /\ banked'[s][k] = 1 => tracks'[s] # Absent /\ k \in tracks'[s].scored
  BY DEF BankedIsScored
<1>1. /\ banked[s][k] \in {0, 1} /\ k \in Key
      /\ banked[s][k] = 1 => tracks[s] # Absent /\ k \in tracks[s].scored
  BY DEF BankedIsScored, Zone, Key
<1>2. tracks[s] # Absent => ZoneTrack(tracks[s])
  BY DEF Zones
<1>3. CASE s \in DOMAIN persons
  <2> DEFINE tr == Met(s, dt)
             o  == persons[s]
  <2>1. /\ tracks'[s] = Updated(tr, o).track /\ tracks'[s] # Absent
        /\ banked'[s][k] = IF tracks'[s].bank[k] = 0 /\ banked[s][k] < 2
                           THEN banked[s][k] + 1 ELSE banked[s][k]
    BY <1>3, PresentFacts
  <2>2. banked[s][k] = 1 => k \in tr.scored
    <3>1. CASE tracks[s] = Absent
      BY <1>1, <3>1
    <3>2. CASE tracks[s] # Absent
      <4>1. tr = Aged(tracks[s], dt)
        BY <3>2 DEF Met
      <4>2. tr.scored = tracks[s].scored
        BY <1>2, <3>2, <4>1, AgedZone
      <4>3. QED
        BY <1>1, <4>2
    <3>3. QED
      BY <3>1, <3>2
  <2>3. IsTrack(tr) /\ ZoneTrack(tr)
    BY MetFacts DEF ZoneTrack
  <2>4. /\ tracks'[s].bank[k] = IF k \in GatedOf(tr, o) THEN 0
                                ELSE IF k \in KeysOf(tr, o) THEN tr.bank[k] ELSE Absent
        /\ tracks'[s].scored = tr.scored \cup (GatedOf(tr, o) \cap Zone)
    <3> HIDE DEF tr, o
    <3>1. /\ Updated(tr, o).track.bank = [z \in Key |-> IF z \in GatedOf(tr, o) THEN 0
                                                  ELSE IF z \in KeysOf(tr, o) THEN tr.bank[z] ELSE Absent]
          /\ Updated(tr, o).track.scored = tr.scored \cup (GatedOf(tr, o) \cap Zone)
      BY ONLY <2>3, UpdatedZone
    <3>2. tracks'[s] = Updated(tr, o).track
      BY <2>1
    <3>3. QED
      BY ONLY <1>1, <3>1, <3>2
  <2>5. k \in tr.scored => k \notin KeysOf(tr, o)
    <3> DEFINE at == Visited(Latched(tr, o), o)
    <3>1. at.scored = tr.scored
      BY <2>3, SightZone DEF ZoneTrack
    <3>2. k \in tr.scored => k \notin ZoneSignal(at, o)
      <4> HIDE DEF at
      <4>1. QED
        BY <3>1 DEF ZoneSignal
    <3>3. k \notin HandSignal(tr, o)
      BY DEF HandSignal, Zone
    <3>4. QED
      BY <3>2, <3>3 DEF KeysOf
  <2>6. GatedOf(tr, o) \subseteq KeysOf(tr, o)
    BY DEF GatedOf, Gated
  <2>7. CASE k \in tr.scored
    <3> HIDE DEF tr, o
    <3>1. tracks'[s].bank[k] = Absent
      BY <2>4, <2>5, <2>6, <2>7
    <3>2. banked'[s][k] = banked[s][k]
      BY <2>1, <3>1, Tunables
    <3>3. k \in tracks'[s].scored
      BY <2>4, <2>7
    <3>4. QED
      BY <1>1, <2>1, <3>2, <3>3
  <2>8. CASE k \notin tr.scored
    <3>1. banked[s][k] = 0
      BY <1>1, <2>2, <2>8
    <3>2. tr.bank[k] = Absent
      BY <3>1, MetFacts DEF Unscored
    <3>3. QED
      <4> HIDE DEF tr, o
      <4>1. CASE k \in GatedOf(tr, o)
        BY <2>1, <2>4, <3>1, <4>1
      <4>2. CASE k \notin GatedOf(tr, o)
        <5>1. tracks'[s].bank[k] = Absent
          BY <2>4, <3>2, <4>2
        <5>2. QED
          BY <2>1, <3>1, <5>1, Tunables
      <4>3. QED
        BY <4>1, <4>2
  <2>9. QED
    BY <2>7, <2>8
<1>4. CASE s \notin DOMAIN persons
  <2>1. CASE tracks'[s] = Absent
    <3>1. banked'[s][k] = IF tracks'[s] = Absent THEN 0
                          ELSE IF tracks'[s].bank[k] = 0 /\ s \in DOMAIN persons /\ banked[s][k] < 2
                               THEN banked[s][k] + 1 ELSE banked[s][k]
      BY DEF Frame
    <3>2. QED
      BY <2>1, <3>1
  <2>2. CASE tracks'[s] # Absent
    <3>1. /\ tracks[s] # Absent /\ tracks'[s] = Aged(tracks[s], dt)
          /\ banked'[s][k] = banked[s][k]
      BY <1>4, <2>2, AbsentFacts
    <3>2. Aged(tracks[s], dt).scored = tracks[s].scored
      BY <1>2, <3>1, AgedZone
    <3>3. QED
      BY <1>1, <2>2, <3>1, <3>2
  <2>3. QED
    BY <2>1, <2>2
<1>5. QED
  BY <1>3, <1>4

\* behavior.py 424-425: "Each banks at most once per track", however long a person stays
\* at the shelves or at the exit, and however often they come back to them.
THEOREM ZonesBankOnce == EBSpec => [](\A s \in Spot, k \in Zone : banked[s][k] <= 1)
<1>1. EBInit => Zones /\ BankedIsScored
  BY DEF EBInit, Zones, BankedIsScored
<1>2. EBTypeOK /\ Zones /\ BankedIsScored /\ [EBNext]_ebVars => (Zones /\ BankedIsScored)'
  <2> SUFFICES ASSUME EBTypeOK, Zones, BankedIsScored, [EBNext]_ebVars
               PROVE  Zones' /\ BankedIsScored'
    OBVIOUS
  <2>1. CASE UNCHANGED ebVars
    BY <2>1 DEF ebVars, Zones, ZoneTrack, IsTrack, Ripe, Unscored, BankedIsScored
  <2>2. CASE EBNext
    BY <2>2, ZonesStep, OnceStep DEF EBNext
  <2>3. QED
    BY <2>1, <2>2
<1>3. BankedIsScored => \A s \in Spot, k \in Zone : banked[s][k] <= 1
  BY DEF BankedIsScored
<1>4. QED
  BY <1>1, <1>2, <1>3, BehaviorTypes, PTL DEF EBSpec
=============================================================================
