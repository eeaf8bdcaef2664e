-------------------------- MODULE StreamController --------------------------
(***************************************************************************)
(* StreamController (streaming/controller.py) with the fan-out hub it owns *)
(* (LocalMediaMTX of streaming/local_mediamtx.py): refresh threads, one at *)
(* a time under the controller's lock, bring the hub, the HLS tunnel and   *)
(* the pusher into line with the state file and with the backend's         *)
(* configuration; the window's thread asks for status and URLs and stops   *)
(* everything when the program ends.                                       *)
(*                                                                         *)
(* The tunnel and the pusher are what the controller tells them; their own *)
(* threads are in CloudflaredTunnel and StreamPusher.  A set of cameras is *)
(* a function from the cameras that have a stream URL to that URL.         *)
(***************************************************************************)
EXTENDS Integers

CONSTANTS
    Camera,     \* MediaMTX paths
    Source,     \* URLs of cameras
    Base,       \* push bases, with the credentials that belong to them
    Nothing,    \* no process, no configuration, no pusher
    MaxParked,  \* bound: refresh threads that wait for the lock
    MaxChanges, \* bound: how often the user or the backend changes something
    MaxUpsets   \* bound: how often something goes wrong with the hub

ASSUME BoundsAssumption == {MaxParked, MaxChanges, MaxUpsets} \subseteq Nat
ASSUME NoneAssumption == Nothing \notin Base \cup Source

VARIABLES
    paired, cams,   \* the state file
    config,         \* the backend's stream configuration: where to push, and the tunnel's mode
    parked,         \* refresh threads that wait for the lock
    at,             \* where the thread with the lock is; "idle" when it is free
    got,            \* what that thread has read: the cameras and the configuration, or Nothing
    hub,            \* what the running MediaMTX process was told to serve, or Nothing
    served,         \* the paths and sources the hub counts as served; Nothing: not healthy
    tunnel,         \* the mode of the tunnel object and whether it was told to run
    pusher,         \* Nothing, or its base and the URL each relay reads
    stopped,        \* _stopped
    gui,            \* the window's thread: free, in local_url, status or stop, or gone
    changes, upsets \* what is left of the bounds

world == <<paired, cams, config>>
locked == <<at, got>>
hubs  == <<hub, served>>
out   == <<tunnel, pusher>>
scVars == <<world, parked, locked, hubs, out, stopped, gui, changes, upsets>>

Cams   == UNION {[D -> Source] : D \in SUBSET Camera}
Config == [push : Base \cup {Nothing}, mode : {"quick", "named"}]
NoCams == [c \in {} |-> Nothing]
Unread == [cams |-> NoCams, config |-> Nothing]

\* What a relay reads: the hub's URL of its path, or the camera.
Hub == "hub"
Pusher == [base : Base, relays : UNION {[D -> Source \cup {Hub}] : D \in SUBSET Camera}]

SCTypeOK ==
    /\ paired \in BOOLEAN /\ cams \in Cams /\ config \in Config
    /\ parked \in 0 .. MaxParked
    /\ at \in {"idle", "fetch", "sync", "wait", "tunnel", "push"}
    /\ got \in [cams : Cams, config : Config \cup {Nothing}]
    /\ hub \in Cams \cup {Nothing} /\ served \in Cams \cup {Nothing}
    /\ tunnel \in [mode : {"quick", "named"}, up : BOOLEAN]
    /\ pusher \in Pusher \cup {Nothing}
    /\ stopped \in BOOLEAN
    /\ gui \in {"free", "url", "status", "quit", "gone"}
    /\ changes \in 0 .. MaxChanges /\ upsets \in 0 .. MaxUpsets

\* The program has just started, with whatever the file and the backend hold.
SCInit ==
    /\ paired \in BOOLEAN /\ cams \in Cams /\ config \in Config
    /\ parked = 0
    /\ at = "idle" /\ got = Unread
    /\ hub = Nothing /\ served = Nothing
    /\ tunnel = [mode |-> "quick", up |-> FALSE]
    /\ pusher = Nothing
    /\ stopped = FALSE /\ gui = "free"
    /\ changes = MaxChanges /\ upsets = MaxUpsets

MoveOn(from, to) == at = from /\ at' = to

(***************************************************************************)
(* The world                                                               *)
(***************************************************************************)

\* The user adds, moves or deletes a camera, pairs or unpairs; the backend changes where to
\* push, the credentials, or the tunnel's mode.
Change ==
    /\ changes > 0 /\ changes' = changes - 1
    /\ \/ cams' \in Cams \ {cams} /\ UNCHANGED <<paired, config>>
       \/ paired' = ~paired /\ UNCHANGED <<cams, config>>
       \/ config' \in Config \ {config} /\ UNCHANGED <<paired, cams>>
    /\ UNCHANGED <<parked, locked, hubs, out, stopped, gui, upsets>>

Upset == upsets > 0 /\ upsets' = upsets - 1

\* The hub's process ends; nobody is told.
HubDies ==
    /\ hub # Nothing /\ Upset
    /\ hub' = Nothing
    /\ UNCHANGED <<world, parked, locked, served, out, stopped, gui, changes>>

(***************************************************************************)
(* refresh                                                                 *)
(***************************************************************************)

\* _refresh_streaming of the window, every 30 s and after each change of the list: a thread
\* for refresh, unless the computer is unpaired.
Tick ==
    /\ paired /\ gui \notin {"quit", "gone"}
    /\ parked < MaxParked
    /\ parked' = parked + 1
    /\ UNCHANGED <<world, locked, hubs, out, stopped, gui, changes, upsets>>

\* _teardown
Teardown ==
    /\ pusher' = Nothing
    /\ tunnel' = [tunnel EXCEPT !.up = FALSE]
    /\ hub' = Nothing /\ served' = Nothing

\* Faulty: a thread that was parked on the lock does not ask whether the program has ended.
BeginAnyway ==
    /\ at = "idle" /\ parked > 0
    /\ parked' = parked - 1
    /\ IF paired
         THEN /\ at' = "fetch" /\ got' = [got EXCEPT !.cams = cams]
              /\ UNCHANGED <<hubs, out>>
         ELSE Teardown /\ UNCHANGED locked
    /\ UNCHANGED <<world, stopped, gui, changes, upsets>>

\* A refresh gets the lock: nothing after stop(), the teardown when the computer is unpaired,
\* else the state is read.
Begin ==
    /\ at = "idle" /\ parked > 0
    /\ parked' = parked - 1
    /\ CASE stopped -> UNCHANGED <<locked, hubs, out>>
         [] ~stopped /\ ~paired -> Teardown /\ UNCHANGED locked
         [] ~stopped /\ paired -> /\ at' = "fetch" /\ got' = [got EXCEPT !.cams = cams]
                                  /\ UNCHANGED <<hubs, out>>
    /\ UNCHANGED <<world, stopped, gui, changes, upsets>>

\* agent_stream_config answers ...
FetchOk ==
    /\ MoveOn("fetch", "sync")
    /\ got' = [got EXCEPT !.config = config]
    /\ UNCHANGED <<world, parked, hubs, out, stopped, gui, changes, upsets>>

\* ... or not.
FetchFails ==
    /\ MoveOn("fetch", "sync")
    /\ got' = [got EXCEPT !.config = Nothing]
    /\ UNCHANGED <<world, parked, hubs, out, stopped, gui, changes, upsets>>

SyncRest == <<world, parked, got, out, stopped, gui, changes>>

\* A running, healthy hub with exactly these sources stays as it is.
Serving == hub # Nothing /\ served # Nothing /\ served = got.cams

\* Nothing to serve, or nothing to change.
SyncEasy ==
    /\ MoveOn("sync", "tunnel")
    /\ \/ got.cams = NoCams /\ hub' = Nothing /\ served' = Nothing
       \/ got.cams # NoCams /\ Serving /\ UNCHANGED hubs
    /\ UNCHANGED <<SyncRest, upsets>>

\* The configuration is written and the process started anew ...
SyncRestart ==
    /\ MoveOn("sync", "wait")
    /\ got.cams # NoCams /\ ~Serving
    /\ hub' = got.cams
    /\ UNCHANGED <<served, SyncRest, upsets>>

\* ... unless the binary is gone or the file cannot be written (the old process goes on) or the
\* process cannot be started.
SyncFails ==
    /\ MoveOn("sync", "tunnel")
    /\ Upset
    /\ served' = Nothing
    /\ \/ UNCHANGED hub
       \/ got.cams # NoCams /\ ~Serving /\ hub' = Nothing
    /\ UNCHANGED SyncRest

\* Its API answers ...
Healthy ==
    /\ MoveOn("wait", "tunnel")
    /\ hub # Nothing
    /\ served' = got.cams
    /\ UNCHANGED <<hub, SyncRest, upsets>>

\* ... or the process ends, or stays silent for 8 s.
NotHealthy ==
    /\ MoveOn("wait", "tunnel")
    /\ \/ hub = Nothing /\ UNCHANGED upsets
       \/ hub # Nothing /\ Upset
    /\ served' = Nothing
    /\ UNCHANGED <<hub, SyncRest>>

\* _reconcile_tunnel_mode stops the tunnel and forgets it for one of the other mode; then the
\* tunnel runs if and only if there is a camera.
TunnelStep ==
    /\ MoveOn("tunnel", "push")
    /\ tunnel' = [mode |-> IF got.config = Nothing THEN tunnel.mode ELSE got.config.mode,
                  up   |-> got.cams # NoCams]
    /\ UNCHANGED <<world, parked, got, hubs, pusher, stopped, gui, changes, upsets>>

\* What each relay is to read: the hub's URL where it serves the path, else the camera.
Targets == [c \in DOMAIN got.cams |->
               IF served # Nothing /\ c \in DOMAIN served THEN Hub ELSE got.cams[c]]

\* Faulty: a pusher is kept although the base or the credentials have changed.
PushOldBase ==
    /\ MoveOn("push", "idle")
    /\ pusher' =
          CASE got.config = Nothing -> pusher
            [] got.config # Nothing /\ got.config.push = Nothing -> Nothing
            [] got.config # Nothing /\ got.config.push # Nothing ->
                  [base |-> IF pusher = Nothing THEN got.config.push ELSE pusher.base,
                   relays |-> Targets]
    /\ got' = Unread
    /\ UNCHANGED <<world, parked, hubs, tunnel, stopped, gui, changes, upsets>>

\* Without a configuration the pusher stays as it is; without a base it is stopped; else it is
\* built, or built anew, and its relays are synced.
Push ==
    /\ MoveOn("push", "idle")
    /\ pusher' =
          CASE got.config = Nothing -> pusher
            [] got.config # Nothing /\ got.config.push = Nothing -> Nothing
            [] got.config # Nothing /\ got.config.push # Nothing ->
                  [base |-> got.config.push, relays |-> Targets]
    /\ got' = Unread
    /\ UNCHANGED <<world, parked, hubs, tunnel, stopped, gui, changes, upsets>>

(***************************************************************************)
(* The window's thread                                                     *)
(***************************************************************************)

\* local_url meets a hub that restarts under the hub's own lock; status() meets a refresh.
\* Without the meeting both return at once.
GuiAsks ==
    /\ gui = "free"
    /\ \/ at = "wait" /\ gui' = "url"
       \/ at # "idle" /\ gui' = "status"
    /\ UNCHANGED <<world, parked, locked, hubs, out, stopped, changes, upsets>>

GuiGoesOn ==
    /\ \/ gui = "url" /\ at # "wait"
       \/ gui = "status" /\ at = "idle"
    /\ gui' = "free"
    /\ UNCHANGED <<world, parked, locked, hubs, out, stopped, changes, upsets>>

\* quit_app cancels the ticks ...
Quit ==
    /\ gui = "free" /\ gui' = "quit"
    /\ UNCHANGED <<world, parked, locked, hubs, out, stopped, changes, upsets>>

\* ... and stop() gets the lock.
StopAll ==
    /\ gui = "quit" /\ gui' = "gone"
    /\ at = "idle"
    /\ stopped' = TRUE
    /\ Teardown
    /\ UNCHANGED <<world, parked, locked, changes, upsets>>

(***************************************************************************)
(* The specification                                                       *)
(***************************************************************************)

SCNext ==
    \/ Change \/ HubDies
    \/ Tick \/ Begin \/ FetchOk \/ FetchFails
    \/ SyncEasy \/ SyncRestart \/ SyncFails \/ Healthy \/ NotHealthy
    \/ TunnelStep \/ Push
    \/ GuiAsks \/ GuiGoesOn \/ Quit \/ StopAll

SCSpec == SCInit /\ [][SCNext]_scVars

\* The ticks come, the threads run, the backend answers now and then, and a lock that is
\* released again and again is got in the end.
SCFairSpec ==
    /\ SCSpec
    /\ WF_scVars(Tick) /\ SF_scVars(Begin)
    /\ SF_scVars(FetchOk) /\ WF_scVars(FetchFails)
    /\ WF_scVars(SyncEasy) /\ WF_scVars(SyncRestart) /\ WF_scVars(Healthy) /\ WF_scVars(NotHealthy)
    /\ WF_scVars(TunnelStep) /\ WF_scVars(Push)
    /\ SF_scVars(GuiGoesOn) /\ SF_scVars(StopAll)

(***************************************************************************)
(* Properties                                                              *)
(***************************************************************************)

AllDown == hub = Nothing /\ served = Nothing /\ pusher = Nothing /\ ~tunnel.up

\* controller.py 96-100: a refresh that was parked on the lock when the program stopped does not
\* bring a relay, the hub or the tunnel back.
StoppedStaysDown == stopped => AllDown

\* A relay gets its camera's video: from the camera, or from a hub that runs and pulls the path
\* from the camera's present URL.
Reads(c) ==
    \/ pusher.relays[c] = cams[c]
    \/ pusher.relays[c] = Hub /\ hub # Nothing /\ c \in DOMAIN hub /\ hub[c] = cams[c]

\* The camera sees one session: no relay reads it past a hub that serves it to the others.
PulledOnce(c) == pusher.relays[c] = Hub \/ served = Nothing \/ c \notin DOMAIN served

\* Everything is as the file and the backend want it.
Settled ==
    /\ tunnel = [mode |-> config.mode, up |-> cams # NoCams]
    /\ IF config.push = Nothing
         THEN pusher = Nothing
         ELSE /\ pusher # Nothing /\ pusher.base = config.push
              /\ DOMAIN pusher.relays = DOMAIN cams
              /\ \A c \in DOMAIN cams : Reads(c) /\ PulledOnce(c)

\* controller.py 3-7 and 157-160: whatever failed on the way, once nothing changes any more a
\* paired computer comes to push every camera, with the present base, credentials and URLs,
\* and to run the tunnel in the present mode, until it stops.
Settles == <>[](paired /\ gui # "gone" => Settled)

\* controller.py 71-76: "holding the controller lock here would freeze the GUI for up to ~8s":
\* the live view's question for a URL never waits for a restart of the hub.
UrlNeverWaits == gui # "url"

\* controller.py 101-104: an unpaired computer tears everything down, sooner or later.
UnpairedStops == <>[](~paired) => <>[]AllDown
=============================================================================
