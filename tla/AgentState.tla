----------------------------- MODULE AgentState -----------------------------
(***************************************************************************)
(* The sealed state file (state.py), with the pairing of this computer and *)
(* its cameras, and the threads that read and rewrite it while they talk   *)
(* to the backend:                                                         *)
(*   - editors (register_camera, _delete_camera, _toggle_edge_mode,        *)
(*     save_camera_zones, update_camera_connection), which call the backend*)
(*     and then mutate_state, a load and a save under one lock; and        *)
(*     _reconnect_camera, which only does the latter;                      *)
(*   - reconcilers (reconcile_with_backend), which load, fetch the         *)
(*     backend's list and save, without a lock in between;                 *)
(*   - the pairing dialog, which loads, changes the pairing and saves;     *)
(*   - anybody who just loads.                                             *)
(* A camera is its backend uuid.  Of its record the model keeps what the   *)
(* backend knows, the compute tier and the name, and whether the record    *)
(* has the stream URL with its credentials.  Its detection zones go the    *)
(* way of the tier (save_camera_zones) and are left out.                   *)
(***************************************************************************)
EXTENDS Integers, FiniteSets

CONSTANTS
    Camera,      \* uuids the backend gives out
    Name,        \* names of cameras
    Editor,      \* background threads of the window
    Reconciler,  \* camera-reconcile threads
    None,        \* no thread
    MaxPairings, \* bound: how often the user pairs or unpairs
    MaxExtras    \* bound: how often, all in all, a camera is edited here or on the web, or a
                 \* load fails to unseal the file

Tier   == {"cloud", "edge_pc"}
Remote == [tier : Tier, name : Name]
Record == [tier : Tier, name : Name, url : BOOLEAN]

ASSUME BoundsAssumption == {MaxPairings, MaxExtras} \subseteq Nat
ASSUME ThreadAssumption == Editor \cap Reconciler = {} /\ None \notin Editor \cup Reconciler

VARIABLES
    paired,      \* the file's agent_jwt is set
    cams,        \* the file's cameras
    unreadable,  \* _existing_file_unreadable
    lock,        \* the holder of _save_lock
    remote,      \* the backend's cameras
    pc,          \* where each thread is
    job,         \* what an editor is doing
    local,       \* the state a thread has loaded
    fetched,     \* the camera list a reconciler has got
    ppc, plocal, \* the pairing dialog: where it is, the cameras it has loaded
    choice,      \* history: the user's last completed choice, paired or not
    registered,  \* history: cameras registered here
    deleted,     \* history: cameras deleted here
    spoilt,      \* history: a load has failed, or a reconcile has saved an outdated list
    budget       \* what is left of the bounds

file == <<paired, cams, unreadable>>
dialog == <<ppc, plocal, choice>>
hist == <<registered, deleted, spoilt>>
vars == <<file, lock, remote, pc, job, local, fetched, dialog, hist, budget>>

Thread  == Editor \cup Reconciler
Cams    == UNION {[D -> Record] : D \in SUBSET Camera}
Remotes == UNION {[D -> Remote] : D \in SUBSET Camera}

\* What an editor does to its camera; an edit is known by the field it sets.
Job == [op : {"register", "delete", "name"}, cam : Camera, value : Name]
         \cup [op : {"tier"}, cam : Camera, value : Tier]
         \cup [op : {"url"}, cam : Camera, value : {TRUE}]

\* An editor without a job has None.
ASSUME NoneAssumption == None \notin Job

NoCams == [c \in {} |-> None]
Blank  == [paired |-> FALSE, cams |-> NoCams]

TypeOK ==
    /\ paired \in BOOLEAN /\ unreadable \in BOOLEAN
    /\ cams \in Cams
    /\ lock \in Editor \cup {None}
    /\ remote \in Remotes
    /\ pc \in [Thread -> {"idle", "patched", "mutate", "loaded", "fetched"}]
    /\ job \in [Editor -> Job \cup {None}]
    /\ local \in [Thread -> [paired : BOOLEAN, cams : Cams]]
    /\ fetched \in [Reconciler -> Remotes]
    /\ ppc \in {"idle", "pair", "unpair"} /\ plocal \in Cams /\ choice \in BOOLEAN
    /\ registered \subseteq Camera /\ deleted \subseteq Camera /\ spoilt \in BOOLEAN
    /\ budget \in [pairings : 0 .. MaxPairings, extras : 0 .. MaxExtras]

\* The computer is paired and has no camera yet.
Init ==
    /\ paired = TRUE /\ cams = NoCams /\ unreadable = FALSE
    /\ lock = None
    /\ remote = NoCams
    /\ pc = [t \in Thread |-> "idle"]
    /\ job = [t \in Editor |-> None]
    /\ local = [t \in Thread |-> Blank]
    /\ fetched = [r \in Reconciler |-> NoCams]
    /\ ppc = "idle" /\ plocal = NoCams /\ choice = TRUE
    /\ registered = {} /\ deleted = {} /\ spoilt = FALSE
    /\ budget = [pairings |-> MaxPairings, extras |-> MaxExtras]

Goto(t, from, to) == pc[t] = from /\ pc' = [pc EXCEPT ![t] = to]
Spend(b) == budget[b] > 0 /\ budget' = [budget EXCEPT ![b] = @ - 1]

\* The records f with the keys of D only.
Only(f, D) == [c \in DOMAIN f \cap D |-> f[c]]

(***************************************************************************)
(* Loads and saves                                                         *)
(***************************************************************************)

\* What unsealing the file may come to: its key outlives restarts, but the system may refuse to
\* unseal for the moment.
Unsealed == {Blank, [paired |-> paired, cams |-> cams]}

\* load_state: the flag remembers whether the file could be read.
Load(result) ==
    \/ /\ result = [paired |-> paired, cams |-> cams]
       /\ unreadable' = FALSE
       /\ UNCHANGED <<spoilt, budget>>
    \/ /\ result = Blank
       /\ unreadable' = TRUE
       /\ spoilt' = TRUE
       /\ Spend("extras")

\* _write_state_locked: an unpaired state does not go over a file that could not be read.
Write(p, cs) ==
    IF unreadable /\ ~p
    THEN UNCHANGED file
    ELSE paired' = p /\ cams' = cs /\ unreadable' = FALSE

\* Anybody else who loads the state: the window, the stream and edge controllers, the
\* backend client.
Peek ==
    /\ \E result \in Unsealed : Load(result)
    /\ UNCHANGED <<paired, cams, lock, remote, pc, job, local, fetched, dialog, registered, deleted>>

(***************************************************************************)
(* Editors: the backend first, then mutate_state                           *)
(***************************************************************************)

Begin(e, op, c, value) ==
    /\ Goto(e, "idle", "patched")
    /\ job' = [job EXCEPT ![e] = [op |-> op, cam |-> c, value |-> value]]
    /\ UNCHANGED <<file, lock, local, fetched, dialog, spoilt>>

\* agent_register_camera: the backend creates the camera, in the cloud tier.
Register(e, c) ==
    /\ paired /\ c \notin registered
    /\ registered' = registered \cup {c}
    /\ \E n \in Name :
          /\ Begin(e, "register", c, n)
          /\ remote' = [d \in DOMAIN remote \cup {c} |->
                           IF d = c THEN [tier |-> "cloud", name |-> n] ELSE remote[d]]
    /\ UNCHANGED <<deleted, budget>>

\* agent_delete_camera, for a camera the list shows.
Delete(e, c) ==
    /\ paired /\ c \in DOMAIN cams /\ c \in DOMAIN remote
    /\ Begin(e, "delete", c, cams[c].name)
    /\ deleted' = deleted \cup {c}
    /\ remote' = Only(remote, Camera \ {c})
    /\ UNCHANGED <<registered, budget>>

\* agent_update_camera, for a camera the list shows; an edit that the backend refuses, because it
\* has the camera no more, changes nothing here.
Patch(e, field, c, value) ==
    /\ paired /\ c \in DOMAIN cams /\ c \in DOMAIN remote
    /\ Begin(e, field, c, value)
    /\ remote' = [remote EXCEPT ![c][field] = value]
    /\ Spend("extras")
    /\ UNCHANGED <<registered, deleted>>

\* The AI mode in the camera's menu flips the tier.
SetTier(e, c) ==
    \E tier \in Tier : Patch(e, "tier", c, tier) /\ tier # cams[c].tier

\* The edit dialog, for a camera with a connection.
Edit(e, c) == \E n \in Name : Patch(e, "name", c, n) /\ cams[c].url

\* Reconnecting a camera that has a connection: a URL that is dead is resolved anew.  The backend
\* is not told.
Reconnect(e, c) ==
    /\ c \in DOMAIN cams /\ cams[c].url
    /\ Begin(e, "url", c, TRUE)
    /\ Spend("extras")
    /\ UNCHANGED <<remote, registered, deleted>>

\* Mutant of MutateLoad: the load is not under the lock.
LoadUnlocked(e) ==
    /\ Goto(e, "patched", "mutate")
    /\ \E result \in Unsealed :
          /\ Load(result)
          /\ local' = [local EXCEPT ![e] = result]
    /\ UNCHANGED <<paired, cams, lock, remote, job, fetched, dialog, registered, deleted>>

\* mutate_state takes the lock and loads ...
MutateLoad(e) ==
    /\ Goto(e, "patched", "mutate")
    /\ lock = None
    /\ lock' = e
    /\ \E result \in Unsealed :
          /\ Load(result)
          /\ local' = [local EXCEPT ![e] = result]
    /\ UNCHANGED <<paired, cams, remote, job, fetched, dialog, registered, deleted>>

\* The callback each editor passes to mutate_state; it looks for its camera again.
Apply(j, cs) ==
    CASE j.op = "register" ->
            [c \in DOMAIN cs \cup {j.cam} |->
                IF c = j.cam
                THEN [tier |-> "cloud", name |-> j.value, url |-> TRUE] ELSE cs[c]]
      [] j.op = "delete" -> Only(cs, Camera \ {j.cam})
      [] OTHER -> [c \in DOMAIN cs |-> IF c = j.cam THEN [cs[c] EXCEPT ![j.op] = j.value] ELSE cs[c]]

\* ... applies the callback, writes and releases the lock.
MutateWrite(e) ==
    /\ Goto(e, "mutate", "idle")
    /\ Write(local[e].paired, Apply(job[e], local[e].cams))
    /\ lock' = None
    /\ job' = [job EXCEPT ![e] = None]
    /\ local' = [local EXCEPT ![e] = Blank]
    /\ UNCHANGED <<remote, fetched, dialog, hist, budget>>

(***************************************************************************)
(* reconcile_with_backend                                                  *)
(***************************************************************************)

\* refresh_cameras starts one: when the program starts, on the refresh button and when an edit
\* here is over (app.py 1731-1738, 1812).  No timer does, and an edit on the web starts none.  An
\* unpaired state ends it.
ReconcileLoad(r) ==
    /\ pc[r] = "idle"
    /\ \E result \in Unsealed :
          /\ Load(result)
          /\ IF result.paired
               THEN /\ local' = [local EXCEPT ![r] = result]
                    /\ pc' = [pc EXCEPT ![r] = "loaded"]
               ELSE UNCHANGED <<local, pc>>
    /\ UNCHANGED <<paired, cams, lock, remote, job, fetched, dialog, registered, deleted>>

\* agent_list_cameras answers ...
FetchOk(r) ==
    /\ Goto(r, "loaded", "fetched")
    /\ fetched' = [fetched EXCEPT ![r] = remote]
    /\ UNCHANGED <<file, lock, remote, job, local, dialog, hist, budget>>

\* ... or fails, which ends the reconcile.
FetchFails(r) ==
    /\ Goto(r, "loaded", "idle")
    /\ local' = [local EXCEPT ![r] = Blank]
    /\ UNCHANGED <<file, lock, remote, job, fetched, dialog, hist, budget>>

\* The backend's cameras: the known ones keep their URL, the unknown ones get none.
Kept(loaded, list) ==
    [c \in DOMAIN list |->
        [tier |-> list[c].tier, name |-> list[c].name,
         url |-> c \in DOMAIN loaded /\ loaded[c].url]]

\* Mutant of Signature: only added and removed cameras count.
UuidSignature(cs) == DOMAIN cs

\* The signature that decides whether the list has changed: names are not part of it.
Signature(cs) == [c \in DOMAIN cs |-> cs[c].tier]

\* What r is about to save was overtaken: the file or the backend is not any more what r has
\* seen, or an edit or a pairing is under way.
Outdated(r) ==
    \/ local[r] # [paired |-> paired, cams |-> cams] \/ fetched[r] # remote
    \/ ppc # "idle" \/ \E e \in Editor : job[e] # None

\* A changed list is saved, with whatever pairing was loaded.
ReconcileSave(r) ==
    /\ Goto(r, "fetched", "idle")
    /\ lock = None
    /\ LET kept == Kept(local[r].cams, fetched[r])
       IN  IF Signature(kept) = Signature(local[r].cams)
           THEN UNCHANGED <<file, spoilt>>
           ELSE Write(local[r].paired, kept) /\ spoilt' = (spoilt \/ Outdated(r))
    /\ local' = [local EXCEPT ![r] = Blank]
    /\ fetched' = [fetched EXCEPT ![r] = NoCams]
    /\ UNCHANGED <<lock, remote, job, dialog, registered, deleted, budget>>

(***************************************************************************)
(* The pairing dialog and the web                                          *)
(***************************************************************************)

\* _pair and _unpair load the state ...
PairLoad(what) ==
    /\ ppc = "idle" /\ ppc' = what
    /\ (what = "unpair") = paired
    /\ budget.pairings > 0
    /\ \/ plocal' = cams /\ unreadable' = FALSE
          /\ budget' = [budget EXCEPT !.pairings = @ - 1]
          /\ UNCHANGED spoilt
       \/ plocal' = NoCams /\ unreadable' = TRUE /\ spoilt' = TRUE /\ budget.extras > 0
          /\ budget' = [budget EXCEPT !.pairings = @ - 1, !.extras = @ - 1]
    /\ UNCHANGED <<paired, cams, lock, remote, pc, job, local, fetched, choice, registered, deleted>>

\* ... and save it with the pairing changed.
PairSave ==
    /\ ppc # "idle" /\ ppc' = "idle"
    /\ lock = None
    /\ choice' = (ppc = "pair")
    /\ Write(ppc = "pair", plocal)
    /\ plocal' = NoCams
    /\ UNCHANGED <<lock, remote, pc, job, local, fetched, hist, budget>>

\* Somebody deletes a camera on the web, or edits one thing of it there.
WebEdit(c) ==
    /\ c \in DOMAIN remote
    /\ \/ remote' = Only(remote, Camera \ {c})
       \/ \E tier \in Tier \ {remote[c].tier} : remote' = [remote EXCEPT ![c].tier = tier]
       \/ \E n \in Name \ {remote[c].name} : remote' = [remote EXCEPT ![c].name = n]
    /\ Spend("extras")
    /\ UNCHANGED <<file, lock, pc, job, local, fetched, dialog, hist>>

(***************************************************************************)
(* The specification                                                       *)
(***************************************************************************)

Next ==
    \/ \E e \in Editor, c \in Camera : Register(e, c) \/ Delete(e, c)
    \/ \E e \in Editor, c \in Camera : SetTier(e, c) \/ Edit(e, c) \/ Reconnect(e, c)
    \/ \E e \in Editor : MutateLoad(e) \/ MutateWrite(e)
    \/ \E r \in Reconciler : ReconcileLoad(r) \/ FetchOk(r) \/ FetchFails(r) \/ ReconcileSave(r)
    \/ PairLoad("pair") \/ PairLoad("unpair") \/ PairSave
    \/ \E c \in Camera : WebEdit(c)
    \/ Peek

Spec == Init /\ [][Next]_vars

\* A thread that has begun is scheduled to its end: an edit's second half, a reconcile's request,
\* which has a timeout, and its save, and the pairing dialog's save.  That anything is begun, a
\* reconcile among them, and that a request is answered, nothing promises.
FairSpec ==
    /\ Spec
    /\ \A e \in Editor : WF_vars(MutateLoad(e) \/ MutateWrite(e))
    /\ \A r \in Reconciler : WF_vars(FetchOk(r) \/ FetchFails(r)) /\ WF_vars(ReconcileSave(r))
    /\ WF_vars(PairSave)

(***************************************************************************)
(* Properties                                                              *)
(***************************************************************************)

InFlight(c) == \E e \in Editor : job[e] # None /\ job[e].cam = c

\* A camera that was registered here is in the file, with its stream URL, unless somebody
\* deleted it; one that was deleted here is not.
EditDone(c) ==
    /\ c \in DOMAIN remote => c \in DOMAIN cams /\ cams[c].url
    /\ c \in deleted => c \notin DOMAIN cams

\* state.py 67-68 and discovery_service.py 622-624: the lock keeps concurrent writers from
\* "silently dropping a camera".  As long as the user does not pair or unpair, the file shows
\* every edit that is over.  Reconciles run at any time; only one that saves an
\* outdated list may undo an edit.
EditsKept ==
    ~spoilt /\ budget.pairings = MaxPairings => \A c \in registered : InFlight(c) \/ EditDone(c)

\* The same without the excuse: no reconcile ever drops a camera.
EditsStay ==
    budget.extras = MaxExtras /\ budget.pairings = MaxPairings =>
        \A c \in registered : InFlight(c) \/ EditDone(c)

\* state.py 127-128: pairing and unpairing last: unless the dialog is at work or an outdated
\* list was saved, the file is paired if and only if that was the user's last choice.
PairingIsChosen == ~spoilt /\ ppc = "idle" => (paired = choice)

\* The same without the excuse: no reconcile ever brings a pairing back.
PairingStays == budget.extras = MaxExtras /\ ppc = "idle" => (paired = choice)

\* state.py 71-75: "a failed load must NOT let an empty state be persisted OVER the
\* still-present file": only the user's unpairing unpairs the computer.
NeverWiped == choice /\ ppc = "idle" => paired

\* The user refreshes the list, and the backend answers, again and again.
Refreshed == []<><<\E r \in Reconciler : FetchOk(r)>>_vars

\* discovery_service.py 459-460, "so desktop <-> web always match": whatever the races have left
\* behind, refreshing repairs it.  If the list goes on being refreshed and the backend answers, a
\* paired computer comes to have exactly the cameras of the backend, with their tiers.
Agreement ==
    Refreshed => <>[](paired => /\ DOMAIN cams = DOMAIN remote
                                /\ \A c \in DOMAIN cams : cams[c].tier = remote[c].tier)

\* discovery_service.py 461-462, a reconcile is to "refresh its name/path": refreshed again and
\* again, the name of a camera comes to be the backend's.
NamesFollow ==
    Refreshed =>
        <>[](paired => \A c \in DOMAIN cams \cap DOMAIN remote : cams[c].name = remote[c].name)
=============================================================================
