----------------------- MODULE CloudflaredTunnelProofs -----------------------
(***************************************************************************)
(* Proofs about CloudflaredTunnel, for any set of children and any backoff *)
(* limits: no child runs unsupervised, and the URL is that of the running  *)
(* child.  At the end, about its owner StreamController: after stop() no   *)
(* refresh brings the tunnel, the hub or a relay back.                     *)
(***************************************************************************)
EXTENDS CloudflaredTunnel, StreamController, TLAPS

(***************************************************************************)
(* The inductive invariant                                                 *)
(***************************************************************************)

\* A stop gives back what it took before it returns.
VictimOnlyInStop == ctl # "reap" => victim = None

\* A child that runs and has been stored is in the reach of a stop: _proc holds it, or the stop
\* that took it is about to end it.  A stop that falls between Popen and the store misses the
\* child, and the next one finds it.
StoredChildInReach == \A c \in alive : pc # "spawned" => c \in {proc, victim}

IInv ==
    /\ TypeOK
    /\ VictimOnlyInStop
    /\ NoUnsupervisedChild
    /\ StoredChildInReach
    /\ UrlOfThisChild

(***************************************************************************)
(* Type correctness                                                        *)
(***************************************************************************)

\* The shortest delay is one of them.
LEMMA RestartMinType == RestartMin \in RestartMin .. RestartMax
BY BackoffAssumption

\* The initial values have their types.
LEMMA InitType == Init => TypeOK
BY RestartMinType DEF Init, TypeOK

\* The doubled delay stays between the limits.
LEMMA BackoffType ==
    ASSUME NEW b \in RestartMin .. RestartMax
    PROVE  (IF 2 * b < RestartMax THEN 2 * b ELSE RestartMax) \in RestartMin .. RestartMax
BY BackoffAssumption

\* Every step keeps the types.
LEMMA NextType ==
    ASSUME TypeOK, [Next]_vars
    PROVE  TypeOK'
<1> USE DEF TypeOK, callers, thread, Goto
<1>1. CASE Rewant \/ Start \/ Stop \/ Take \/ Reap
  BY <1>1, RestartMinType DEF Rewant, Start, Stop, Take, Reap
<1>2. CASE Loop \/ PopenOk \/ PopenFails \/ Store
  BY <1>2 DEF Loop, PopenOk, PopenFails, Store
<1>3. CASE ReadLine \/ SetUrl \/ ReadEnd \/ Wait \/ Kill
  BY <1>3 DEF ReadLine, SetUrl, ReadEnd, Wait, Kill
<1>4. CASE Clear
  BY <1>4, RestartMinType, BackoffType DEF Clear
<1>5. CASE NapOver \/ ChildDies \/ UNCHANGED vars
  BY <1>5 DEF NapOver, ChildDies, vars
<1>6. QED
  BY <1>1, <1>2, <1>3, <1>4, <1>5 DEF Next

(***************************************************************************)
(* The invariants                                                          *)
(***************************************************************************)

\* Initially there is no child.
LEMMA InitInv == Init => IInv
<1> SUFFICES ASSUME Init
             PROVE  IInv
  OBVIOUS
<1>1. TypeOK
  BY InitType
<1>2. QED
  BY <1>1 DEF Init, IInv, VictimOnlyInStop, NoUnsupervisedChild, StoredChildInReach, UrlOfThisChild

\* The controller never changes where the thread is, nor the URL.
LEMMA ControllerInv ==
    ASSUME IInv, Rewant \/ Start \/ Stop \/ Take \/ Reap
    PROVE  /\ VictimOnlyInStop' /\ NoUnsupervisedChild'
           /\ StoredChildInReach' /\ UrlOfThisChild'
<1> USE DEF IInv, TypeOK, VictimOnlyInStop, NoUnsupervisedChild, StoredChildInReach,
            UrlOfThisChild, callers, thread, Goto
<1>1. CASE Rewant
  BY <1>1 DEF Rewant
<1>2. CASE Start
  BY <1>2 DEF Start
<1>3. CASE Stop
  BY <1>3 DEF Stop
<1>4. CASE Take
  BY <1>4 DEF Take
<1>5. CASE Reap
  BY <1>5 DEF Reap
<1>6. QED
  BY <1>1, <1>2, <1>3, <1>4, <1>5

\* The steps of the supervisor.
LEMMA ThreadInv ==
    ASSUME IInv,
           \/ Loop \/ PopenOk \/ PopenFails \/ Store \/ ReadLine \/ SetUrl \/ ReadEnd
           \/ Wait \/ Kill \/ Clear \/ NapOver
    PROVE  /\ VictimOnlyInStop' /\ NoUnsupervisedChild'
           /\ StoredChildInReach' /\ UrlOfThisChild'
<1> USE DEF IInv, TypeOK, VictimOnlyInStop, NoUnsupervisedChild, StoredChildInReach,
            UrlOfThisChild, callers, Goto
<1>1. CASE Loop
  BY <1>1 DEF Loop
<1>2. CASE PopenOk
  \* no child runs at "popen"
  BY <1>2 DEF PopenOk
<1>3. CASE PopenFails
  BY <1>3 DEF PopenFails
<1>4. CASE Store
  BY <1>4 DEF Store
<1>5. CASE ReadLine \/ SetUrl
  BY <1>5 DEF ReadLine, SetUrl
<1>6. CASE ReadEnd \/ Wait
  BY <1>6 DEF ReadEnd, Wait
<1>7. CASE Kill
  BY <1>7 DEF Kill
<1>8. CASE Clear
  BY <1>8 DEF Clear
<1>9. CASE NapOver
  BY <1>9 DEF NapOver
<1>10. QED
  BY <1>1, <1>2, <1>3, <1>4, <1>5, <1>6, <1>7, <1>8, <1>9

\* Every step keeps the invariant.
LEMMA NextInv ==
    ASSUME IInv, [Next]_vars
    PROVE  IInv'
<1>1. TypeOK'
  BY NextType DEF IInv
<1>2. /\ VictimOnlyInStop' /\ NoUnsupervisedChild'
      /\ StoredChildInReach' /\ UrlOfThisChild'
  <2>1. CASE ChildDies \/ UNCHANGED vars
    BY <2>1 DEF ChildDies, vars, callers, thread, IInv, VictimOnlyInStop, NoUnsupervisedChild,
                StoredChildInReach, UrlOfThisChild
  <2>2. QED
    BY <2>1, ControllerInv, ThreadInv DEF Next
<1>3. QED
  BY <1>1, <1>2 DEF IInv

\* The inductive invariant holds in every behaviour.
THEOREM Invariance == Spec => []IInv
BY InitInv, NextInv, PTL DEF Spec

\* Every variable keeps its type; the delay stays between its limits.
THEOREM TypeCorrect == Spec => []TypeOK
<1>1. IInv => TypeOK
  BY DEF IInv
<1>2. QED
  BY <1>1, Invariance, PTL

\* The supervisor of tunnel.py never has a second child: each that runs is its own, and it is
\* there to wait for it, however stops and launches interleave.
THEOREM ChildrenSupervised == Spec => []NoUnsupervisedChild
<1>1. IInv => NoUnsupervisedChild
  BY DEF IInv
<1>2. QED
  BY <1>1, Invariance, PTL

\* _kill_proc of tunnel.py finds each child once it is stored, unless it has been taken.
THEOREM ChildrenInReach == Spec => []StoredChildInReach
<1>1. IInv => StoredChildInReach
  BY DEF IInv
<1>2. QED
  BY <1>1, Invariance, PTL

\* The heartbeat never reports the URL of an earlier child.
THEOREM UrlIsCurrent == Spec => []UrlOfThisChild
<1>1. IInv => UrlOfThisChild
  BY DEF IInv
<1>2. QED
  BY <1>1, Invariance, PTL

(***************************************************************************)
(* The controller that owns the tunnel                                     *)
(*                                                                         *)
(* StreamController starts and stops the tunnel on every refresh and when  *)
(* the program ends; `at' is where the thread with its lock is.            *)
(***************************************************************************)

\* What a refresh has read, and what it makes of the tunnel.
ReadType ==
    /\ cams \in Cams
    /\ config \in Config
    /\ got \in [cams : Cams, config : Config \cup {Nothing}]
    /\ tunnel \in [mode : {"quick", "named"}, up : BOOLEAN]

\* After stop() nothing runs and nobody is inside refresh: stop() gets the lock only between two
\* refreshes, and the refreshes that waited for it find _stopped set.
DownForGood == stopped => AllDown /\ at = "idle"

\* The empty list of cameras is a list of cameras.
LEMMA NoCamsType == NoCams \in Cams
<1>1. NoCams \in [{} -> Source]
  BY DEF NoCams
<1>2. QED
  BY <1>1 DEF Cams

\* What refresh reads, and the mode it gives the tunnel, keep their types.
LEMMA ReadTypeStep ==
    ASSUME ReadType, [SCNext]_scVars
    PROVE  ReadType'
<1> USE DEF ReadType, world, locked, hubs, out,
            SyncRest, MoveOn
<1>1. CASE Change
  BY <1>1 DEF Change
<1>2. CASE HubDies \/ Tick
  BY <1>2 DEF HubDies, Tick
<1>3. CASE Begin
  BY <1>3 DEF Begin, Teardown
<1>4. CASE FetchOk
  BY <1>4 DEF FetchOk
<1>5. CASE FetchFails
  BY <1>5 DEF FetchFails
<1>6. CASE SyncEasy \/ SyncRestart \/ SyncFails
  BY <1>6 DEF SyncEasy, SyncRestart, SyncFails
<1>7. CASE Healthy \/ NotHealthy
  BY <1>7 DEF Healthy, NotHealthy
<1>8. CASE TunnelStep
  <2>1. tunnel.mode \in {"quick", "named"}
    OBVIOUS
  <2>2. got.config # Nothing => got.config.mode \in {"quick", "named"}
    BY DEF Config
  <2>3. QED
    BY <1>8, <2>1, <2>2 DEF TunnelStep
<1>9. CASE Push
  BY <1>9, NoCamsType DEF Push, Unread
<1>10. CASE GuiAsks \/ GuiGoesOn \/ Quit
  BY <1>10 DEF GuiAsks, GuiGoesOn, Quit
<1>11. CASE StopAll
  BY <1>11 DEF StopAll, Teardown
<1>12. CASE UNCHANGED scVars
  BY <1>12 DEF scVars
<1>13. QED
  BY <1>1, <1>2, <1>3, <1>4, <1>5, <1>6, <1>7, <1>8, <1>9, <1>10, <1>11, <1>12
     DEF SCNext

\* No step of anybody starts something after stop().
LEMMA DownForGoodStep ==
    ASSUME ReadType, DownForGood, [SCNext]_scVars
    PROVE  DownForGood'
<1> USE DEF DownForGood, AllDown, world, locked, hubs,
            out, SyncRest, MoveOn
<1>1. CASE Change \/ Tick \/ Quit
  BY <1>1 DEF Change, Tick, Quit
<1>2. CASE HubDies
  BY <1>2 DEF HubDies
<1>3. CASE Begin
  BY <1>3 DEF Begin
<1>4. CASE FetchOk \/ FetchFails
  BY <1>4 DEF FetchOk, FetchFails
<1>5. CASE SyncEasy \/ SyncRestart \/ SyncFails
  BY <1>5 DEF SyncEasy, SyncRestart, SyncFails
<1>6. CASE Healthy \/ NotHealthy
  BY <1>6 DEF Healthy, NotHealthy
<1>7. CASE TunnelStep \/ Push
  BY <1>7 DEF TunnelStep, Push
<1>8. CASE GuiAsks \/ GuiGoesOn
  BY <1>8 DEF GuiAsks, GuiGoesOn
<1>9. CASE StopAll
  BY <1>9 DEF StopAll, Teardown, ReadType
<1>10. CASE UNCHANGED scVars
  BY <1>10 DEF scVars
<1>11. QED
  BY <1>1, <1>2, <1>3, <1>4, <1>5, <1>6, <1>7, <1>8, <1>9, <1>10 DEF SCNext

\* A refresh that waited for the controller's lock while the program stopped brings back
\* neither a relay nor the hub nor the tunnel: StoppedStaysDown of StreamController.
THEOREM RefreshAfterStop == SCSpec => []StoppedStaysDown
<1>1. SCInit => ReadType /\ DownForGood
  BY NoCamsType DEF SCInit, Unread, ReadType, DownForGood
<1>2. ReadType /\ DownForGood /\ [SCNext]_scVars => ReadType' /\ DownForGood'
  BY ReadTypeStep, DownForGoodStep
<1>3. DownForGood => StoppedStaysDown
  BY DEF DownForGood, StoppedStaysDown
<1>4. QED
  BY <1>1, <1>2, <1>3, PTL DEF SCSpec

(***************************************************************************)
(* The controller's types                                                  *)
(***************************************************************************)

\* SCTypeOK without what ReadType says.
RunType ==
    /\ paired \in BOOLEAN /\ stopped \in BOOLEAN
    /\ parked \in 0 .. MaxParked
    /\ at \in {"idle", "fetch", "sync", "wait", "tunnel", "push"}
    /\ hub \in Cams \cup {Nothing} /\ served \in Cams \cup {Nothing}
    /\ pusher \in Pusher \cup {Nothing}
    /\ gui \in {"free", "url", "status", "quit", "gone"}
    /\ changes \in 0 .. MaxChanges /\ upsets \in 0 .. MaxUpsets

\* The bounds are numbers, and what is left of one may be taken from.
LEMMA BoundFacts ==
    /\ 0 \in 0 .. MaxParked /\ MaxChanges \in 0 .. MaxChanges /\ MaxUpsets \in 0 .. MaxUpsets
    /\ \A n \in 0 .. MaxParked : /\ n > 0 => n - 1 \in 0 .. MaxParked
                                 /\ n < MaxParked => n + 1 \in 0 .. MaxParked
    /\ \A n \in 0 .. MaxChanges : n > 0 => n - 1 \in 0 .. MaxChanges
    /\ \A n \in 0 .. MaxUpsets : n > 0 => n - 1 \in 0 .. MaxUpsets
<1>1. MaxParked \in Nat /\ MaxChanges \in Nat /\ MaxUpsets \in Nat
  BY BoundsAssumption
<1>2. QED
  BY <1>1

\* A set of cameras is a function from some cameras to their URLs.
LEMMA CamsFacts ==
    ASSUME NEW f \in Cams
    PROVE  DOMAIN f \in SUBSET Camera /\ f \in [DOMAIN f -> Source]
<1>1. PICK D \in SUBSET Camera : f \in [D -> Source]
  BY DEF Cams
<1>2. QED
  BY <1>1

\* Each relay reads the hub or a camera.
LEMMA TargetsType ==
    ASSUME ReadType, NEW b \in Base
    PROVE  [base |-> b, relays |-> Targets] \in Pusher
<1> DEFINE D == DOMAIN got.cams
<1>1. D \in SUBSET Camera /\ got.cams \in [D -> Source]
  BY CamsFacts DEF ReadType
<1>2. Targets \in [D -> Source \cup {Hub}]
  BY <1>1 DEF Targets
<1>3. Targets \in UNION {[E -> Source \cup {Hub}] : E \in SUBSET Camera}
  <2> HIDE DEF D
  <2>1. QED
    BY <1>1, <1>2
<1>4. QED
  <2>1. \A r \in UNION {[E -> Source \cup {Hub}] : E \in SUBSET Camera} :
            [base |-> b, relays |-> r] \in Pusher
    BY DEF Pusher
  <2>2. QED
    BY <1>3, <2>1

\* Every step keeps the types.
LEMMA RunTypeStep ==
    ASSUME ReadType, RunType, [SCNext]_scVars
    PROVE  RunType'
<1> USE BoundFacts DEF RunType, world, locked, hubs, out, SyncRest, MoveOn, Upset
<1>1. CASE Change \/ HubDies \/ Tick
  BY <1>1 DEF Change, HubDies, Tick
<1>2. CASE Begin
  BY <1>2 DEF Begin, Teardown
<1>3. CASE FetchOk \/ FetchFails
  BY <1>3 DEF FetchOk, FetchFails
<1>4. CASE SyncEasy \/ SyncRestart \/ SyncFails
  <2>1. got.cams \in Cams
    BY DEF ReadType
  <2>2. QED
    BY <1>4, <2>1 DEF SyncEasy, SyncRestart, SyncFails
<1>5. CASE Healthy \/ NotHealthy
  <2>1. got.cams \in Cams
    BY DEF ReadType
  <2>2. QED
    BY <1>5, <2>1 DEF Healthy, NotHealthy
<1>6. CASE TunnelStep
  BY <1>6 DEF TunnelStep
<1>7. CASE Push
  <2>1. got.config # Nothing => got.config.push \in Base \cup {Nothing}
    BY DEF ReadType, Config
  <2>2. pusher' \in Pusher \cup {Nothing}
    <3>1. CASE got.config = Nothing
      BY <1>7, <3>1 DEF Push
    <3>2. CASE got.config # Nothing /\ got.config.push = Nothing
      BY <1>7, <3>2 DEF Push
    <3>3. CASE got.config # Nothing /\ got.config.push # Nothing
      <4>1. pusher' = [base |-> got.config.push, relays |-> Targets]
        BY <1>7, <3>3 DEF Push
      <4>2. QED
        BY <2>1, <3>3, <4>1, TargetsType
    <3>4. QED
      BY <3>1, <3>2, <3>3
  <2>3. QED
    BY <1>7, <2>2 DEF Push
<1>8. CASE GuiAsks \/ GuiGoesOn \/ Quit
  BY <1>8 DEF GuiAsks, GuiGoesOn, Quit
<1>9. CASE StopAll
  BY <1>9 DEF StopAll, Teardown
<1>10. CASE UNCHANGED scVars
  BY <1>10 DEF scVars
<1>11. QED
  BY <1>1, <1>2, <1>3, <1>4, <1>5, <1>6, <1>7, <1>8, <1>9, <1>10 DEF SCNext

\* Every variable of the stream controller keeps its type: each relay reads the hub or one of
\* the cameras' URLs, and the hub serves what some refresh has read.
THEOREM ControllerTypes == SCSpec => []SCTypeOK
<1>1. SCInit => ReadType /\ RunType
  <2>1. SCInit => ReadType
    BY NoCamsType DEF SCInit, Unread, ReadType
  <2>2. SCInit => RunType
    BY BoundFacts DEF SCInit, RunType
  <2>3. QED
    BY <2>1, <2>2
<1>2. ReadType /\ RunType /\ [SCNext]_scVars => ReadType' /\ RunType'
  BY ReadTypeStep, RunTypeStep
<1>3. ReadType /\ RunType => SCTypeOK
  BY DEF ReadType, RunType, SCTypeOK
<1>4. QED
  BY <1>1, <1>2, <1>3, PTL DEF SCSpec
=============================================================================
