------------------------------ MODULE ClipStore ------------------------------
(***************************************************************************)
(* ClipStore of edge/recorder.py: the JSON index of the clips, read and    *)
(* rewritten as a whole by every add and set_status, with the clip files   *)
(* it retains; and the upload of each new clip by the worker that has      *)
(* added it (edge/uploader.py), which reads the file again.                *)
(*                                                                         *)
(* The lock is a field of the store object.  The clip workers of one       *)
(* EdgeRuntime share a store (runtime.py 46), the recorders of the live    *)
(* view share another (local_view.py 43), and the window builds a new      *)
(* store for each call (app.py 928): all on the same clips.json.  Store    *)
(* says which object each thread uses.                                     *)
(*                                                                         *)
(* A clip is its number in the order of created_at.                        *)
(***************************************************************************)
EXTENDS Integers, FiniteSets

CONSTANTS
    Worker,     \* clip worker threads, one per camera and pipeline
    Gui,        \* the window's thread, which sets statuses
    Store,      \* the store object of each worker
    None,       \* no thread
    FileName,   \* names of mp4 files
    Name,       \* the name build_clip gives to a clip: camera and second
    MaxClips,   \* max_clips
    MaxAttempts, \* max_attempts of upload_clip
    N,          \* bound: how many clips are built
    MaxTriages, \* bound: how many statuses are set
    MaxCrashes  \* bound: how often the agent is killed

Clip   == 1 .. N
Status == {"open", "confirmed"}

ASSUME BoundsAssumption == {MaxClips, MaxAttempts} \subseteq Nat \ {0} /\ {N, MaxTriages, MaxCrashes} \subseteq Nat
ASSUME ThreadAssumption == Gui \notin Worker /\ None \notin Worker
ASSUME NameAssumption   == Name \in [Clip -> FileName]

VARIABLES
    next,     \* how many clips have been built
    files,    \* mp4 files on disk
    index,    \* clips.json: the status of each listed clip
    fstate,   \* whether clips.json can be parsed: "ok", "empty" or "garbage"
    horizon,  \* clips up to this one have outlived max_age_sec
    lock,     \* the holder of each store's lock
    pc,       \* where each thread is
    mine,     \* the clip a worker adds, the clip whose status Gui sets
    recs,     \* the thread's local list of records
    attempt,  \* the attempt at the upload that a worker makes
    sent,     \* clips the operator has escalated, on their way to the backend
    alerted,  \* workers with a clip that an earlier attempt has made an alert of
    added,    \* history: clips whose add has returned
    triaged,  \* history: the clips whose set_status has returned True
    crashes   \* bound on crashes

disk == <<files, index, fstate>>
handoff == <<attempt, alerted>>
hist == <<added, triaged>>
vars == <<next, disk, horizon, lock, pc, mine, recs, handoff, sent, hist, crashes>>

Thread  == Worker \cup {Gui}
Objects == {Store[w] : w \in Worker}
Records == UNION {[D -> Status] : D \in SUBSET Clip}

TypeOK ==
    /\ next \in 0 .. N
    /\ files \subseteq FileName
    /\ index \in Records
    /\ fstate \in {"ok", "empty", "garbage"}
    /\ horizon \in 0 .. N
    /\ lock \in [Objects -> Worker \cup {None}]
    /\ pc \in [Thread -> {"idle", "add", "prune", "open", "write", "upload"}]
    /\ mine \in [Thread -> 0 .. N]
    /\ recs \in [Thread -> Records]
    /\ attempt \in [Worker -> 1 .. MaxAttempts] /\ alerted \subseteq Worker
    /\ sent \subseteq Clip
    /\ added \subseteq Clip /\ triaged \subseteq Clip
    /\ crashes \in 0 .. MaxCrashes

Nothing == [c \in {} |-> "open"]

Init ==
    /\ next = 0 /\ horizon = 0 /\ crashes = 0
    /\ files = {} /\ index = Nothing /\ fstate = "ok"
    /\ lock = [o \in Objects |-> None]
    /\ pc = [t \in Thread |-> "idle"]
    /\ mine = [t \in Thread |-> 0]
    /\ recs = [t \in Thread |-> Nothing]
    /\ attempt = [w \in Worker |-> 1] /\ alerted = {} /\ sent = {}
    /\ added = {} /\ triaged = {}

Goto(t, from, to) == pc[t] = from /\ pc' = [pc EXCEPT ![t] = to]

\* records(): a file that cannot be parsed counts as an empty list.
Listed == IF fstate = "ok" THEN index ELSE Nothing

(***************************************************************************)
(* add, by a clip worker                                                   *)
(***************************************************************************)

\* build_clip writes (or overwrites) the mp4 and makes the record.
BuildClip(w) ==
    /\ Goto(w, "idle", "add")
    /\ next < N
    /\ next' = next + 1
    /\ files' = files \cup {Name[next + 1]}
    /\ mine' = [mine EXCEPT ![w] = next + 1]
    /\ UNCHANGED <<index, fstate, horizon, lock, recs, handoff, sent, hist, crashes>>

WithNew(records, c) ==
    [d \in DOMAIN records \cup {c} |-> IF d = c THEN "open" ELSE records[d]]

\* Mutant of AddRead: the lock is not taken.
AddReadUnlocked(w) ==
    /\ Goto(w, "add", "prune")
    /\ recs' = [recs EXCEPT ![w] = WithNew(Listed, mine[w])]
    /\ UNCHANGED <<next, disk, horizon, lock, mine, handoff, sent, hist, crashes>>

\* The lock of the worker's store is taken and the index read.
AddRead(w) ==
    /\ Goto(w, "add", "prune")
    /\ lock[Store[w]] = None
    /\ lock' = [lock EXCEPT ![Store[w]] = w]
    /\ recs' = [recs EXCEPT ![w] = WithNew(Listed, mine[w])]
    /\ UNCHANGED <<next, disk, horizon, mine, handoff, sent, hist, crashes>>

\* The clips of D that are not too old, cut to the MaxClips newest.
Survivors(D) == {c \in D : c > horizon /\ Cardinality({d \in D : d > c}) < MaxClips}

\* Mutant of Prune: one file too many goes.
PruneOneMore(w) ==
    /\ Goto(w, "prune", "open")
    /\ LET D == DOMAIN recs[w]
       IN  /\ files' = files \ {Name[c] : c \in {c \in D : c \notin Survivors(D)
                                                    \/ Cardinality({d \in D : d > c}) = MaxClips - 1}}
           /\ recs' = [recs EXCEPT ![w] = [c \in Survivors(D) |-> recs[w][c]]]
    /\ UNCHANGED <<next, index, fstate, horizon, lock, mine, handoff, sent, hist, crashes>>

\* _prune deletes the files of the clips that do not survive, before the index is saved.
Prune(w) ==
    /\ Goto(w, "prune", "open")
    /\ LET D == DOMAIN recs[w]
       IN  /\ files' = files \ {Name[c] : c \in D \ Survivors(D)}
           /\ recs' = [recs EXCEPT ![w] = [c \in Survivors(D) |-> recs[w][c]]]
    /\ UNCHANGED <<next, index, fstate, horizon, lock, mine, handoff, sent, hist, crashes>>

(***************************************************************************)
(* set_status, by the window                                               *)
(***************************************************************************)

\* The operator escalates a clip the page has shown: a background thread uploads it ...
Escalate(c) ==
    /\ c \in added \ (triaged \cup sent) /\ Cardinality(triaged \cup sent) < MaxTriages
    /\ Name[c] \in files
    /\ sent' = sent \cup {c}
    /\ UNCHANGED <<next, disk, horizon, lock, pc, mine, recs, handoff, hist, crashes>>

\* ... in vain ...
EscalateFails(c) ==
    /\ c \in sent /\ sent' = sent \ {c}
    /\ UNCHANGED <<next, disk, horizon, lock, pc, mine, recs, handoff, hist, crashes>>

\* ... or with an alert, and then its status is set, as it is when the operator judges a clip.
Judged(c) ==
    c \in sent \/ (c \in added \ triaged /\ Cardinality(triaged \cup sent) < MaxTriages)

\* set_status: the store is a new object, so its lock is free; a clip that is no longer listed
\* is not saved.
SetStatusRead(c) ==
    /\ pc[Gui] = "idle"
    /\ Judged(c) /\ sent' = sent \ {c}
    /\ IF c \in DOMAIN Listed
         THEN /\ Goto(Gui, "idle", "open")
              /\ mine' = [mine EXCEPT ![Gui] = c]
              /\ recs' = [recs EXCEPT ![Gui] = [Listed EXCEPT ![c] = "confirmed"]]
         ELSE UNCHANGED <<pc, mine, recs>>
    /\ UNCHANGED <<next, disk, horizon, lock, handoff, hist, crashes>>

(***************************************************************************)
(* _save, by either                                                        *)
(***************************************************************************)

\* write_text first empties the file ...
SaveOpen(t) ==
    /\ Goto(t, "open", "write")
    /\ fstate' = "empty"
    /\ UNCHANGED <<next, files, index, horizon, lock, mine, recs, handoff, sent, hist, crashes>>

\* ... and then writes from its start: over what another thread has written since, this can
\* leave the tail of the longer text behind.  Then the lock is released.
SaveWrite(t) ==
    /\ Goto(t, "write", IF t = Gui THEN "idle" ELSE "upload")
    /\ fstate' \in IF fstate = "empty" THEN {"ok"} ELSE {"ok", "garbage"}
    /\ index' = recs[t]
    /\ lock' = [o \in Objects |-> IF lock[o] = t THEN None ELSE lock[o]]
    /\ recs' = [recs EXCEPT ![t] = Nothing]
    /\ IF t = Gui
         THEN /\ triaged' = triaged \cup {mine[t]}
              /\ mine' = [mine EXCEPT ![t] = 0]
              /\ UNCHANGED added
         ELSE added' = added \cup {mine[t]} /\ UNCHANGED <<mine, triaged>>
    /\ UNCHANGED <<next, files, horizon, handoff, sent, crashes>>

(***************************************************************************)
(* upload_clip, by the clip worker                                         *)
(***************************************************************************)

UploadRest == <<next, disk, horizon, lock, recs, sent, hist, crashes>>

\* The upload is done, or given up: nobody uploads for the live view, uploads are off, the camera
\* is not in the edge tier any more, the backend refuses the clip for good, the file cannot be
\* opened, which raises, or this was the last attempt.
UploadEnds(w) ==
    /\ Goto(w, "upload", "idle")
    /\ mine' = [mine EXCEPT ![w] = 0]
    /\ attempt' = [attempt EXCEPT ![w] = 1] /\ alerted' = alerted \ {w}
    /\ UNCHANGED UploadRest

FileThere(w) == Name[mine[w]] \in files

\* The backend is overloaded, or no answer arrives, whether or not it has made the alert.
UploadAgain(w) ==
    /\ pc[w] = "upload" /\ FileThere(w)
    /\ attempt[w] < MaxAttempts
    /\ attempt' = [attempt EXCEPT ![w] = @ + 1]
    /\ alerted' \in {alerted, alerted \cup {w}}
    /\ UNCHANGED <<pc, mine, UploadRest>>

(***************************************************************************)
(* The environment                                                         *)
(***************************************************************************)

\* Time passes: the oldest clip outlives max_age_sec.
Age ==
    /\ horizon < next
    /\ horizon' = horizon + 1
    /\ UNCHANGED <<next, disk, lock, pc, mine, recs, handoff, sent, hist, crashes>>

\* The agent is killed and started again.
Crash ==
    /\ crashes < MaxCrashes
    /\ crashes' = crashes + 1
    /\ lock' = [o \in Objects |-> None]
    /\ pc' = [t \in Thread |-> "idle"]
    /\ mine' = [t \in Thread |-> 0]
    /\ recs' = [t \in Thread |-> Nothing]
    /\ attempt' = [w \in Worker |-> 1]
    /\ alerted' = {} /\ sent' = {}
    /\ UNCHANGED <<next, disk, horizon, hist>>

Next ==
    \/ \E w \in Worker : BuildClip(w) \/ AddRead(w) \/ Prune(w)
    \/ \E w \in Worker : UploadEnds(w) \/ UploadAgain(w)
    \/ \E c \in Clip : Escalate(c) \/ EscalateFails(c) \/ SetStatusRead(c)
    \/ \E t \in Thread : SaveOpen(t) \/ SaveWrite(t)
    \/ Age \/ Crash

Spec == Init /\ [][Next]_vars

(***************************************************************************)
(* Properties                                                              *)
(***************************************************************************)

AllIdle == \A t \in Thread : pc[t] \in {"idle", "add", "upload"}

\* Only the clip workers have written the index, and none was killed at it.
WorkersOnly == AllIdle /\ triaged = {} /\ crashes = 0

\* Clips some worker has built and not finished adding.
InHand == {mine[w] : w \in {w \in Worker : pc[w] \notin {"idle", "upload"}}}

\* recorder.py 12-13, the index "enforces retention (max count / max age), deleting old clip
\* files": every clip file belongs to a clip that is listed or about to be,
\* so a later add can delete it, ...
NothingOrphaned == AllIdle => \A f \in files : \E c \in InHand \cup DOMAIN Listed : Name[c] = f

\* ... and every listed clip has its file, so it can be played: while only workers write,
\* index and files agree however their adds and prunes interleave.
IndexMatchesFiles ==
    WorkersOnly => NothingOrphaned /\ \A c \in DOMAIN Listed : Name[c] \in files

\* recorder.py 253-254: only retention deletes a clip file.  However the threads race, and
\* whatever becomes of the index, a clip that is not too old and is among the
\* MaxClips newest built is still on disk.
NoEarlyDeletion ==
    \A c \in 1 .. next : Name[c] \notin files => c <= horizon \/ next - c >= MaxClips

\* local_view.py 37-38: the lock "serialises" the writers "so concurrent per-camera
\* recorders never corrupt the index JSON".
NeverCorrupt == AllIdle => fstate = "ok"

\* recorder.py 252-253: set_status sets a clip's status "and persist"s it: while the clip
\* is listed it keeps the status.
StatusPersists ==
    \A c \in triaged : AllIdle /\ c \in DOMAIN Listed => Listed[c] = "confirmed"

\* recorder.py 11-12: "on an episode the covering segments are concatenated into one mp4":
\* no two listed clips share their file.
OneFilePerClip ==
    \A c, d \in DOMAIN Listed : c # d => Name[c] # Name[d]

\* uploader.py 45: the upload "never raises": the file is there as long as it may be tried.
UploadFindsFile == \A w \in Worker : pc[w] = "upload" => FileThere(w)

\* backend_client.py 29-31: a call that is not idempotent, such as "a real upload write" (line
\* 324), is not replayed: no clip that has become an alert is sent again.
OneAlertPerClip == \A w \in Worker : pc[w] = "upload" => w \notin alerted
=============================================================================
