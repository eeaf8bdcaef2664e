------------------------- MODULE CloudflaredTunnel -------------------------
(***************************************************************************)
(* CloudflaredTunnel (streaming/tunnel.py): the thread that supervises one *)
(* cloudflared child, and the stream controller that starts and stops it   *)
(* on every refresh, under its own lock, so one call at a time.            *)
(* Of what the child prints only the public URL matters: a URL is the      *)
(* child that printed it, or Host for a named tunnel.                      *)
(***************************************************************************)
EXTENDS Integers, FiniteSets

CONSTANTS
    Child,      \* cloudflared processes, reused once they are forgotten
    None,       \* no process, no URL
    Host,       \* the base URL of a named tunnel
    RestartMin, \* _RESTART_MIN_SEC
    RestartMax  \* _RESTART_MAX_SEC

ASSUME BackoffAssumption == {RestartMin, RestartMax} \subseteq Nat /\ RestartMin <= RestartMax
ASSUME ValueAssumption == None \notin Child /\ Host \notin Child /\ None # Host

VARIABLES
    named,   \* the tunnel was built with a token and a hostname
    wanted,  \* the state file has a camera with an RTSP URL
    quit,    \* StreamController.stop was called
    ctl,     \* where the controller is inside stop()
    victim,  \* the child _kill_proc has taken there
    stop,    \* _stop
    proc,    \* _proc
    url,     \* _url
    pc,      \* where the thread is; "off" when there is none
    cur,     \* the thread's own child in _run_once
    backoff, \* the delay before the next launch
    alive    \* the children that run

callers == <<named, wanted, quit, ctl, victim>>
thread  == <<pc, cur, backoff>>
vars    == <<callers, stop, proc, url, thread, alive>>

TypeOK ==
    /\ named \in BOOLEAN /\ wanted \in BOOLEAN /\ quit \in BOOLEAN /\ stop \in BOOLEAN
    /\ ctl \in {"idle", "take", "reap"}
    /\ {victim, proc, cur} \subseteq Child \cup {None}
    /\ url \in Child \cup {None, Host}
    /\ pc \in {"off", "loop", "popen", "spawned", "read", "url", "wait", "kill", "clear", "nap"}
    /\ backoff \in RestartMin .. RestartMax
    /\ alive \subseteq Child

Init ==
    /\ named \in BOOLEAN /\ wanted = FALSE /\ quit = FALSE
    /\ ctl = "idle" /\ victim = None
    /\ stop = FALSE /\ proc = None /\ url = None
    /\ pc = "off" /\ cur = None /\ backoff = RestartMin
    /\ alive = {}

Goto(from, to) == pc = from /\ pc' = to

(***************************************************************************)
(* The controller                                                          *)
(***************************************************************************)

\* A camera is added, or the last one goes.
Rewant ==
    /\ wanted' = ~wanted
    /\ UNCHANGED <<named, quit, ctl, victim, stop, proc, url, thread, alive>>

\* A refresh with cameras: start() does nothing while a thread lives, not even one that
\* was told to stop.
Start ==
    /\ ctl = "idle" /\ ~quit /\ wanted
    /\ Goto("off", "loop")
    /\ stop' = FALSE
    /\ backoff' = RestartMin
    /\ UNCHANGED <<callers, proc, url, cur, alive>>

\* A refresh without cameras, or the end of the program: stop() sets the event ...
Stop ==
    /\ ctl = "idle" /\ ~quit
    /\ \/ ~wanted /\ UNCHANGED quit
       \/ quit' = TRUE
    /\ stop' = TRUE
    /\ ctl' = "take"
    /\ UNCHANGED <<named, wanted, victim, proc, url, thread, alive>>

\* Mutant of Take: stop() only sets the event.
TakeNothing ==
    /\ ctl = "take" /\ ctl' = "reap"
    /\ UNCHANGED <<named, wanted, quit, victim, stop, proc, url, thread, alive>>

\* ... and _kill_proc takes the child away from _proc ...
Take ==
    /\ ctl = "take" /\ ctl' = "reap"
    /\ victim' = proc /\ proc' = None
    /\ UNCHANGED <<named, wanted, quit, stop, url, thread, alive>>

\* ... and ends it, if there was one.
Reap ==
    /\ ctl = "reap" /\ ctl' = "idle"
    /\ alive' = alive \ {victim}
    /\ victim' = None
    /\ UNCHANGED <<named, wanted, quit, stop, proc, url, thread>>

(***************************************************************************)
(* The supervisor thread                                                   *)
(***************************************************************************)

\* The head of _supervise's loop.
Loop ==
    /\ pc = "loop" /\ pc' = IF stop THEN "off" ELSE "popen"
    /\ UNCHANGED <<callers, stop, proc, url, cur, backoff, alive>>

PopenOk ==
    /\ Goto("popen", "spawned")
    /\ \E c \in Child \ (alive \cup {proc, victim}) : cur' = c /\ alive' = alive \cup {c}
    /\ UNCHANGED <<callers, stop, proc, url, backoff>>

\* Popen raises, outside of the try that kills.
PopenFails ==
    /\ Goto("popen", "clear")
    /\ UNCHANGED <<callers, stop, proc, url, cur, backoff, alive>>

\* The child becomes _proc; a named tunnel has its URL at once.
Store ==
    /\ Goto("spawned", "read")
    /\ proc' = cur
    /\ url' = IF named THEN Host ELSE url
    /\ UNCHANGED <<callers, stop, cur, backoff, alive>>

\* Mutant of ReadLine: a stop leaves _run_once at once.
ReadAndLeave ==
    /\ pc = "read" /\ cur \in alive
    /\ \/ stop /\ pc' = "clear"
       \/ ~stop /\ ~named /\ pc' = "url"
    /\ UNCHANGED <<callers, stop, proc, url, cur, backoff, alive>>

\* A line arrives: the thread leaves the loop after a stop, or finds a URL in the line.
\* Other lines change nothing.
ReadLine ==
    /\ pc = "read" /\ cur \in alive
    /\ \/ stop /\ pc' = "wait"
       \/ ~stop /\ ~named /\ pc' = "url"
    /\ UNCHANGED <<callers, stop, proc, url, cur, backoff, alive>>

SetUrl ==
    /\ Goto("url", "read")
    /\ url' = cur
    /\ UNCHANGED <<callers, stop, proc, cur, backoff, alive>>

\* The output ends with the child.
ReadEnd ==
    /\ Goto("read", "wait")
    /\ cur \notin alive
    /\ UNCHANGED <<callers, stop, proc, url, cur, backoff, alive>>

\* proc.wait(), without a timeout.
Wait ==
    /\ Goto("wait", "kill")
    /\ cur \notin alive
    /\ UNCHANGED <<callers, stop, proc, url, cur, backoff, alive>>

\* The finally of _run_once.
Kill ==
    /\ Goto("kill", "clear")
    /\ alive' = alive \ {proc}
    /\ proc' = None
    /\ UNCHANGED <<callers, stop, url, cur, backoff>>

\* Mutant of Clear: the URL outlives its child.
ClearNothing ==
    /\ pc = "clear"
    /\ pc' = IF stop THEN "off" ELSE "nap"
    /\ backoff' \in IF stop THEN {backoff}
                    ELSE {RestartMin, IF 2 * backoff < RestartMax THEN 2 * backoff ELSE RestartMax}
    /\ cur' = None
    /\ UNCHANGED <<callers, stop, proc, url, alive>>

\* The URL dies with the child; unless stopped the thread backs off, from the start again
\* after a run of more than 30 s.
Clear ==
    /\ pc = "clear"
    /\ pc' = IF stop THEN "off" ELSE "nap"
    /\ url' = None
    /\ backoff' \in IF stop THEN {backoff}
                    ELSE {RestartMin, IF 2 * backoff < RestartMax THEN 2 * backoff ELSE RestartMax}
    /\ cur' = None
    /\ UNCHANGED <<callers, stop, proc, alive>>

NapOver ==
    /\ Goto("nap", "loop")
    /\ UNCHANGED <<callers, stop, proc, url, cur, backoff, alive>>

ChildDies ==
    /\ \E c \in alive : alive' = alive \ {c}
    /\ UNCHANGED <<callers, stop, proc, url, thread>>

(***************************************************************************)
(* The specification                                                       *)
(***************************************************************************)

Next ==
    \/ Rewant \/ Start \/ Stop \/ Take \/ Reap
    \/ Loop \/ PopenOk \/ PopenFails \/ Store \/ ReadLine \/ SetUrl \/ ReadEnd
    \/ Wait \/ Kill \/ Clear \/ NapOver
    \/ ChildDies

Spec == Init /\ [][Next]_vars

\* The thread runs, the refresh comes every 30 s, and a launch succeeds now and then.  That a
\* running child prints another line, or ends, is not assumed.
FairSpec ==
    /\ Spec
    /\ WF_vars(Loop) /\ SF_vars(PopenOk) /\ WF_vars(PopenFails) /\ WF_vars(Store)
    /\ WF_vars(SetUrl) /\ WF_vars(ReadEnd) /\ WF_vars(Wait) /\ WF_vars(Kill)
    /\ WF_vars(Clear) /\ WF_vars(NapOver)
    /\ WF_vars(Start) /\ WF_vars(Take) /\ WF_vars(Reap)

(***************************************************************************)
(* Properties                                                              *)
(***************************************************************************)

\* The URL the heartbeat reports is the one of the thread's child, never of an earlier one.
UrlOfThisChild ==
    url # None => url \in {cur, Host} /\ pc \in {"read", "url", "wait", "kill", "clear"}

\* Every running child is the thread's own, and the thread is there to wait for it.
NoUnsupervisedChild ==
    \A c \in alive : c = cur /\ pc \in {"spawned", "read", "url", "wait"}

\* A stop that does not fall into a launch ends the thread and its child.
StopOutsideLaunchEnds ==
    (ctl = "take" /\ pc \notin {"popen", "spawned"}) ~> (pc = "off" /\ alive = {})

\* tunnel.py 13-14: "force-kill on stop so it can't outlive the app": after the end of the
\* program no child is left.
NothingOutlivesTheApp == quit ~> (alive = {})

\* controller.py 129-132: the refresh starts the tunnel when there is something to serve, so a
\* computer with cameras keeps getting a tunnel that nobody has
\* told to stop.
WantedIsServed == <>[](wanted /\ ~quit) => []<>(~stop /\ alive # {})
=============================================================================
