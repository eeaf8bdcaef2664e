---------------------------- MODULE StreamPusher ----------------------------
(***************************************************************************)
(* streaming/pusher.py: one supervised ffmpeg relay per camera.            *)
(*                                                                         *)
(* The threads are the lock holder (sync or stop_all; the pusher's lock    *)
(* and StreamController's lock leave one at a time) and one relay thread   *)
(* per _PushState.  A relay thread never takes the lock, so its steps      *)
(* interleave with every step of the lock holder, reaping included.        *)
(*                                                                         *)
(* Objects that Python garbage-collects come from fixed pools: a member of *)
(* Relay is a _PushState, a member of Proc a Popen object; a member that   *)
(* nothing references any more may be used again.                          *)
(***************************************************************************)
EXTENDS Naturals, FiniteSets

CONSTANTS
    Path,        \* mediamtx_path of the cameras
    Source,      \* lan_rtsp values (a LAN address or the loopback hub)
    Codec,       \* codecs of the cameras
    Hevc,        \* the codecs browsers cannot play ("hevc", "h265")
    Relay,       \* _PushState objects, each with its thread
    Proc,        \* ffmpeg child processes
    None,        \* Python's None
    RestartMin,  \* _RESTART_MIN_SEC
    RestartMax   \* _RESTART_MAX_SEC

ASSUME NoneAssumption == None \notin Path \cup Relay \cup Proc
ASSUME CodecAssumption == Hevc \subseteq Codec
ASSUME BackoffAssumption ==
    RestartMin \in Nat \ {0} /\ RestartMax \in Nat /\ RestartMin <= RestartMax

Target == [lan_rtsp : Source, codec : Codec]

VARIABLES
    states,   \* self._states: the relay registered for a path
    target,   \* st.target of a relay, what sync compares
    force,    \* st.target.force_transcode, set by the relay's own probe
    path,     \* st.target.mediamtx_path
    stop,     \* st.stop.is_set()
    proc,     \* st.proc
    fresh,    \* the child Popen returned and st.proc does not hold yet
    backoff,  \* the relay thread's local backoff
    pc,       \* where the relay thread is
    alive,    \* child processes that are running
    binary,   \* the ffmpeg executable can be found
    ctl,      \* where the lock holder is
    resume,   \* where it continues after a reap
    victim,   \* the relay _stop_locked has popped
    handle,   \* the value of victim.proc that _reap_proc got
    wanted,   \* the targets of the current or latest sync
    joining   \* threads stop_all has still to join

relayVars == <<target, force, path, stop, proc, fresh, backoff, pc>>
ctlVars   == <<ctl, resume, victim, handle, wanted, joining>>
vars      == <<states, relayVars, alive, binary, ctlVars>>

RelayPc == {"new", "probe", "loop", "popen", "spawned", "recheck", "selfReap",
            "comm", "backoff", "finally", "done"}
CtlPc   == {"idle", "sync", "read", "reap", "start", "stopall", "join"}

TypeOK ==
    /\ states  \in [Path -> Relay \cup {None}]
    /\ target  \in [Relay -> Target \cup {None}]
    /\ force   \in [Relay -> BOOLEAN]
    /\ path    \in [Relay -> Path \cup {None}]
    /\ stop    \in [Relay -> BOOLEAN]
    /\ proc    \in [Relay -> Proc \cup {None}]
    /\ fresh   \in [Relay -> Proc \cup {None}]
    /\ backoff \in [Relay -> RestartMin .. RestartMax]
    /\ pc      \in [Relay -> RelayPc]
    /\ alive   \subseteq Proc
    /\ binary  \in BOOLEAN
    /\ ctl     \in CtlPc
    /\ resume  \in {"sync", "start", "stopall"}
    /\ victim  \in Relay \cup {None}
    /\ handle  \in Proc \cup {None}
    /\ wanted  \in [Path -> Target \cup {None}]
    /\ joining \subseteq Relay

Init ==
    /\ states  = [p \in Path |-> None]
    /\ target  = [r \in Relay |-> None]
    /\ force   = [r \in Relay |-> FALSE]
    /\ path    = [r \in Relay |-> None]
    /\ stop    = [r \in Relay |-> FALSE]
    /\ proc    = [r \in Relay |-> None]
    /\ fresh   = [r \in Relay |-> None]
    /\ backoff = [r \in Relay |-> RestartMin]
    /\ pc      = [r \in Relay |-> "new"]
    /\ alive   = {}
    /\ binary  \in BOOLEAN
    /\ ctl = "idle" /\ resume = "sync" /\ victim = None /\ handle = None
    /\ wanted  = [p \in Path |-> None]
    /\ joining = {}

(***************************************************************************)
(* Helpers                                                                 *)
(***************************************************************************)

\* The children a relay thread knows of.
Children(r) == {proc[r], fresh[r]} \cap Proc

\* PushTarget.needs_transcode, the choice build_relay_cmd makes once per
\* thread, after the probes.
Transcodes(r) == force[r] \/ target[r].codec \in Hevc

\* A _PushState no thread, table or local variable refers to.
FreeRelay(r) ==
    /\ pc[r] \in {"new", "done"}
    /\ \A p \in Path : states[p] # r
    /\ r # victim /\ r \notin joining

FreeProc(p) ==
    /\ p \notin alive /\ p # handle
    /\ \A r \in Relay : p # proc[r] /\ p # fresh[r]

\* Mutant of SameTarget: whether the relay copies or transcodes now counts too.
SameTargetAndForce(p) ==
    target[states[p]] = wanted[p] /\ ~force[states[p]]

\* sync's test for a relay that can be left alone.
SameTarget(p) == target[states[p]] = wanted[p]

(***************************************************************************)
(* The lock holder                                                         *)
(***************************************************************************)

\* _start_locked: a new _PushState, registered, its thread started.
StartLocked(r, p) ==
    /\ FreeRelay(r)
    /\ states'  = [states EXCEPT ![p] = r]
    /\ target'  = [target EXCEPT ![r] = wanted[p]]
    /\ path'    = [path EXCEPT ![r] = p]
    /\ force'   = [force EXCEPT ![r] = FALSE]
    /\ stop'    = [stop EXCEPT ![r] = FALSE]
    /\ proc'    = [proc EXCEPT ![r] = None]
    /\ pc'      = [pc EXCEPT ![r] = "probe"]
    /\ UNCHANGED <<fresh, backoff>>

\* Mutant of StopLocked: the stop event is not set.
UnregisterOnly(p, next) ==
    /\ states' = [states EXCEPT ![p] = None]
    /\ victim' = states[p]
    /\ ctl'    = "read"
    /\ resume' = next
    /\ UNCHANGED <<target, force, path, stop, proc, fresh, backoff, pc>>

\* _stop_locked up to st.stop.set(); ReadProc and ReapVictim are the rest.
StopLocked(p, next) ==
    /\ states' = [states EXCEPT ![p] = None]
    /\ stop'   = [stop EXCEPT ![states[p]] = TRUE]
    /\ victim' = states[p]
    /\ ctl'    = "read"
    /\ resume' = next
    /\ UNCHANGED <<target, force, path, proc, fresh, backoff, pc>>

\* _stop_locked evaluates st.proc only after the stop event is set ...
ReadProc ==
    /\ ctl = "read"
    /\ handle' = proc[victim]
    /\ ctl' = "reap"
    /\ UNCHANGED <<states, relayVars, alive, binary, resume, victim, wanted, joining>>

\* ... and _reap_proc returns once that child is gone (terminate, wait, kill).
ReapVictim ==
    /\ ctl = "reap"
    /\ alive' = alive \ {handle}
    /\ handle' = None
    /\ ctl' = resume
    /\ victim' = IF resume = "start" THEN victim ELSE None
    /\ UNCHANGED <<states, relayVars, binary, resume, wanted, joining>>

\* StreamController.refresh calls sync with the cameras of the state file.
Sync(w) ==
    /\ ctl = "idle"
    /\ ctl' = "sync"
    /\ wanted' = w
    /\ UNCHANGED <<states, relayVars, alive, binary, resume, victim, handle, joining>>

Unwanted == {p \in Path : states[p] # None /\ wanted[p] = None}

StopUnwanted(p) ==
    /\ ctl = "sync" /\ p \in Unwanted
    /\ StopLocked(p, "sync")
    /\ UNCHANGED <<alive, binary, handle, wanted, joining>>

StopChanged(p) ==
    /\ ctl = "sync" /\ Unwanted = {}
    /\ wanted[p] # None /\ states[p] # None /\ ~SameTarget(p)
    /\ StopLocked(p, "start")
    /\ UNCHANGED <<alive, binary, handle, wanted, joining>>

StartChanged(r) ==
    /\ ctl = "start"
    /\ StartLocked(r, path[victim])
    /\ ctl' = "sync" /\ victim' = None
    /\ UNCHANGED <<alive, binary, resume, handle, wanted, joining>>

StartMissing(r, p) ==
    /\ ctl = "sync" /\ Unwanted = {}
    /\ wanted[p] # None /\ states[p] = None
    /\ StartLocked(r, p)
    /\ UNCHANGED <<alive, binary, ctlVars>>

SyncDone ==
    /\ ctl = "sync" /\ Unwanted = {}
    /\ \A p \in Path : wanted[p] # None => states[p] # None /\ SameTarget(p)
    /\ ctl' = "idle"
    /\ UNCHANGED <<states, relayVars, alive, binary, resume, victim, handle, wanted, joining>>

\* stop_all: note the threads, stop and reap every relay, then join.
StopAll ==
    /\ ctl = "idle"
    /\ ctl' = "stopall"
    /\ joining' = {r \in Relay : \E p \in Path : states[p] = r}
    /\ wanted' = [p \in Path |-> None]
    /\ UNCHANGED <<states, relayVars, alive, binary, resume, victim, handle>>

StopOne(p) ==
    /\ ctl = "stopall" /\ states[p] # None
    /\ StopLocked(p, "stopall")
    /\ UNCHANGED <<alive, binary, handle, wanted, joining>>

StopAllReaped ==
    /\ ctl = "stopall" /\ \A p \in Path : states[p] = None
    /\ ctl' = "join"
    /\ UNCHANGED <<states, relayVars, alive, binary, resume, victim, handle, wanted, joining>>

\* thread.join(timeout): returns when the thread has ended or 4 s have passed,
\* and stop_all does not look which of the two it was.
Join(r) ==
    /\ ctl = "join" /\ r \in joining
    /\ joining' = joining \ {r}
    /\ UNCHANGED <<states, relayVars, alive, binary, ctl, resume, victim, handle, wanted>>

StopAllDone ==
    /\ ctl = "join" /\ joining = {}
    /\ ctl' = "idle"
    /\ UNCHANGED <<states, relayVars, alive, binary, resume, victim, handle, wanted, joining>>

(***************************************************************************)
(* A relay thread: _run_relay and _relay_loop                              *)
(***************************************************************************)

Goto(r, from, to) == pc[r] = from /\ pc' = [pc EXCEPT ![r] = to]

\* _probe_has_bframes: None when ffprobe is missing, fails or says nothing within 15 s.
HasBFrames == {"yes", "no", "unknown"}

\* _probe_stream_corrupt: only what the decoder has complained of within 25 s counts.
StreamCorrupt == BOOLEAN

\* The two ffprobe runs, only for a relay that would copy; they do not watch st.stop.
Probe(r, bframes, corrupt) ==
    /\ Goto(r, "probe", "loop")
    /\ force' = [force EXCEPT ![r] = force[r] \/ (~Transcodes(r) /\ (bframes = "yes" \/ corrupt))]
    /\ UNCHANGED <<states, target, path, stop, proc, fresh, backoff, alive, binary, ctlVars>>

\* while not st.stop.is_set()
LoopHead(r) ==
    /\ Goto(r, "loop", IF stop[r] THEN "finally" ELSE "popen")
    /\ UNCHANGED <<states, target, force, path, stop, proc, fresh, backoff, alive, binary, ctlVars>>

PopenOk(r, p) ==
    /\ Goto(r, "popen", "spawned")
    /\ binary /\ FreeProc(p)
    /\ fresh' = [fresh EXCEPT ![r] = p]
    /\ alive' = alive \cup {p}
    /\ UNCHANGED <<states, target, force, path, stop, proc, backoff, binary, ctlVars>>

\* FileNotFoundError ends the thread; another OSError is retried.
PopenMissing(r) ==
    /\ Goto(r, "popen", "finally") /\ ~binary
    /\ UNCHANGED <<states, target, force, path, stop, proc, fresh, backoff, alive, binary, ctlVars>>

PopenFails(r) ==
    /\ Goto(r, "popen", "backoff")
    /\ UNCHANGED <<states, target, force, path, stop, proc, fresh, backoff, alive, binary, ctlVars>>

\* Mutant of AssignProc: the handle stays a local variable that is lost.
ForgetProc(r) ==
    /\ Goto(r, "spawned", "recheck")
    /\ fresh' = [fresh EXCEPT ![r] = None]
    /\ UNCHANGED <<states, target, force, path, stop, proc, backoff, alive, binary, ctlVars>>

\* st.proc = proc
AssignProc(r) ==
    /\ Goto(r, "spawned", "recheck")
    /\ proc'  = [proc EXCEPT ![r] = fresh[r]]
    /\ fresh' = [fresh EXCEPT ![r] = None]
    /\ UNCHANGED <<states, target, force, path, stop, backoff, alive, binary, ctlVars>>

\* Mutant of Recheck: the check is left out.
NoRecheck(r) ==
    /\ Goto(r, "recheck", "comm")
    /\ UNCHANGED <<states, target, force, path, stop, proc, fresh, backoff, alive, binary, ctlVars>>

\* The check that closes the stop/launch race.
Recheck(r) ==
    /\ Goto(r, "recheck", IF stop[r] THEN "selfReap" ELSE "comm")
    /\ UNCHANGED <<states, target, force, path, stop, proc, fresh, backoff, alive, binary, ctlVars>>

SelfReap(r) ==
    /\ Goto(r, "selfReap", "finally")
    /\ alive' = alive \ {proc[r]}
    /\ UNCHANGED <<states, target, force, path, stop, proc, fresh, backoff, binary, ctlVars>>

\* communicate() returns when the child has ended; a healthy run resets the
\* backoff.
Communicate(r, healthy) ==
    /\ proc[r] \notin alive
    /\ Goto(r, "comm", IF stop[r] THEN "finally" ELSE "backoff")
    /\ backoff' = [backoff EXCEPT ![r] = IF ~stop[r] /\ healthy THEN RestartMin ELSE @]
    /\ UNCHANGED <<states, target, force, path, stop, proc, fresh, alive, binary, ctlVars>>

\* Mutant of Backoff: it doubles without a cap.
BackoffUncapped(r) ==
    /\ Goto(r, "backoff", "loop")
    /\ backoff' = [backoff EXCEPT ![r] = 2 * @]
    /\ UNCHANGED <<states, target, force, path, stop, proc, fresh, alive, binary, ctlVars>>

\* st.stop.wait(backoff), then the backoff doubles up to its cap.
Backoff(r) ==
    /\ Goto(r, "backoff", "loop")
    /\ backoff' = [backoff EXCEPT ![r] = IF 2 * @ <= RestartMax THEN 2 * @ ELSE RestartMax]
    /\ UNCHANGED <<states, target, force, path, stop, proc, fresh, alive, binary, ctlVars>>

\* The finally clause of _run_relay; backoff is a local of _relay_loop, so the
\* next thread starts from RestartMin.
Finally(r) ==
    /\ Goto(r, "finally", "done")
    /\ alive' = alive \ {proc[r]}
    /\ backoff' = [backoff EXCEPT ![r] = RestartMin]
    /\ UNCHANGED <<states, target, force, path, stop, proc, fresh, binary, ctlVars>>

(***************************************************************************)
(* The environment                                                         *)
(***************************************************************************)

\* A camera reboot, a network blip, a refused publish: the child ends.
ChildDies(p) ==
    /\ p \in alive
    /\ alive' = alive \ {p}
    /\ UNCHANGED <<states, relayVars, binary, ctlVars>>

\* The user installs ffmpeg or sets FFMPEG_PATH.
InstallFfmpeg ==
    /\ ~binary
    /\ binary' = TRUE
    /\ UNCHANGED <<states, relayVars, alive, ctlVars>>

(***************************************************************************)
(* The specification                                                       *)
(***************************************************************************)

LockHolder ==
    \/ ReadProc \/ ReapVictim \/ SyncDone \/ StopAllReaped \/ StopAllDone
    \/ \E p \in Path : StopUnwanted(p) \/ StopChanged(p) \/ StopOne(p)
    \/ \E r \in Relay : StartChanged(r) \/ Join(r)
    \/ \E r \in Relay, p \in Path : StartMissing(r, p)

RelayThread(r) ==
    \/ \E bframes \in HasBFrames, corrupt \in StreamCorrupt : Probe(r, bframes, corrupt)
    \/ LoopHead(r)
    \/ \E p \in Proc : PopenOk(r, p)
    \/ PopenMissing(r) \/ PopenFails(r)
    \/ AssignProc(r) \/ Recheck(r) \/ SelfReap(r)
    \/ \E healthy \in BOOLEAN : Communicate(r, healthy)
    \/ Backoff(r) \/ Finally(r)

Next ==
    \/ \E w \in [Path -> Target \cup {None}] : Sync(w)
    \/ StopAll
    \/ LockHolder
    \/ \E r \in Relay : RelayThread(r)
    \/ \E p \in Proc : ChildDies(p)
    \/ InstallFfmpeg

\* Every thread that can run is scheduled, and the GUI's 30 s tick refreshes
\* with the cameras it had; nothing makes a child die, a launch succeed, the
\* user act or the list of cameras change.
Fairness ==
    /\ WF_vars(LockHolder)
    /\ WF_vars(Sync(wanted))
    /\ \A r \in Relay : WF_vars(RelayThread(r))

Spec     == Init /\ [][Next]_vars
FairSpec == Spec /\ Fairness

(***************************************************************************)
(* Properties                                                              *)
(***************************************************************************)

\* No ffmpeg runs without a relay thread that will reap it: every running
\* child is known to a relay whose thread has not ended, so _run_relay's
\* finally clause is still ahead of it (pusher.py 366-373).
NoUnsupervisedChild ==
    \A c \in alive : \E r \in Relay : c \in Children(r) /\ pc[r] \notin {"new", "done"}

\* The stop/launch race is closed: a relay that was told to stop is never
\* left blocked in communicate() on a running child, unless _stop_locked is
\* at this moment about to reap exactly that child (pusher.py 393-406).
StoppedChildIsReaped ==
    \A r \in Relay :
        stop[r] /\ pc[r] = "comm" /\ proc[r] \in alive =>
            /\ victim = r
            /\ ctl = "read" \/ (ctl = "reap" /\ handle = proc[r])

\* Every relay thread that has not been told to stop is the one registered
\* for its path: no sync loses the reference that a later stop needs.
UnstoppedIsRegistered ==
    \A r \in Relay :
        ~stop[r] /\ pc[r] \notin {"new", "done"} =>
            path[r] \in Path /\ states[path[r]] = r

\* A sync that asks for what already runs leaves the relay alone, although
\* the relay's own probe has changed its PushTarget in the meantime.
NoChurn ==
    [][\A p \in Path :
         states[p] # None /\ states'[p] # states[p] =>
             ctl = "stopall" \/ wanted[p] # target[states[p]]]_vars

\* A relay that is told to stop ends, and with it its ffmpeg child, also when
\* the stop falls into a probe, a launch or a backoff.
StopTakesEffect ==
    \A r \in Relay : stop[r] ~> ~stop[r] \/ (pc[r] = "done" /\ Children(r) \cap alive = {})

\* pusher.py 280: sync will "Start relays not yet running".  When ffmpeg is
\* installed after a first failed launch, a camera that every sync asks for
\* gets a running relay thread again.
WantedIsRelayed ==
    \A p \in Path :
        <>[](binary /\ wanted[p] # None) =>
            []<>(states[p] # None /\ pc[states[p]] \notin {"finally", "done"})

\* pusher.py 255: "Supervises one ffmpeg relay per camera": a path never has two
\* children publishing to it at once.
OnePublisherPerPath ==
    \A r1, r2 \in Relay :
        /\ Children(r1) \cap alive # {} /\ Children(r2) \cap alive # {}
        /\ path[r1] = path[r2]
        => r1 = r2
=============================================================================
