----------------------------- MODULE PathSearch -----------------------------
(***************************************************************************)
(* resolve_stream of services/discovery_service.py: ONVIF first, then the  *)
(* search for an RTSP path.  A batch of paths (a port, and the priority    *)
(* paths or the tail) is probed by a pool of worker threads, each probe an *)
(* ffmpeg child (discovery/rtsp_probe.py).  The searching thread leaves    *)
(* the batch at the first hit, the first rejection or the deadline, and    *)
(* then cancels the queue and kills the children it knows.                 *)
(***************************************************************************)
EXTENDS Integers, FiniteSets

CONSTANTS
    Batches,  \* ports times two
    Paths,    \* paths of a batch
    Worker,   \* threads of a pool
    None      \* no path

ASSUME SearchAssumption ==
    /\ Batches \in Nat \ {0} /\ Paths \in Nat \ {0}
    /\ IsFiniteSet(Worker) /\ Worker # {} /\ None \notin Nat

VARIABLES
    right,   \* the user's password is the camera's
    serves,  \* the batch and path at which the camera serves, None if not in the library
    echo,    \* the URL, which ffmpeg repeats in its errors, contains 401
    phase,   \* "onvif", "wait", "cancel", "kill", "over"
    batch,   \* the current batch
    next,    \* the first path of the batch no worker has taken
    w, path, \* of a worker: "idle", "taken" or "run" with a child; its path
    out,     \* outcomes of the batch the searching thread has not seen
    left,    \* probes of the batch whose outcome it has not seen
    late,    \* the deadline has passed
    refused, \* history: the probes that looked like a rejected password
    missed,  \* history: the probes that ended without a stream and without a rejection
    answer   \* "open", "hit", "auth", "none", "onvif" or "noffmpeg"

camera  == <<right, serves, echo>>
pool    == <<next, w, path>>
results == <<out, left>>
hist    == <<refused, missed>>
vars == <<camera, phase, batch, pool, results, late, hist, answer>>

Path    == 1 .. Paths
Probe   == (1 .. Batches) \X Path
Outcome == {"hit", "auth", "miss"}

TypeOK ==
    /\ right \in BOOLEAN /\ echo \in BOOLEAN /\ late \in BOOLEAN
    /\ serves \in Probe \cup {None}
    /\ phase \in {"onvif", "wait", "cancel", "kill", "over"}
    /\ batch \in 1 .. Batches /\ next \in 1 .. Paths + 1
    /\ w \in [Worker -> {"idle", "taken", "run"}] /\ path \in [Worker -> Path]
    /\ out \subseteq Path \X Outcome /\ left \in 0 .. Paths
    /\ refused \subseteq Probe /\ missed \subseteq Probe
    /\ answer \in {"open", "hit", "auth", "none", "onvif", "noffmpeg"}

Init ==
    /\ right \in BOOLEAN /\ echo \in BOOLEAN /\ serves \in Probe \cup {None}
    /\ phase = "onvif" /\ batch = 1 /\ next = Paths + 1
    /\ w = [k \in Worker |-> "idle"] /\ path = [k \in Worker |-> 1]
    /\ out = {} /\ left = Paths /\ late = FALSE /\ refused = {} /\ missed = {} /\ answer = "open"

(* fetch_profiles: a profile with a stream needs the right password, and may
   be missed for any error on the way. *)
ProfileFound == {FALSE, right}

(* A stream of ONVIF is taken; without one the search begins, which needs
   ffmpeg, and fills the queue of its first pool. *)
Onvif ==
    /\ phase = "onvif"
    /\ \E found \in ProfileFound :
          \/ found /\ answer' = "onvif" /\ phase' = "over" /\ UNCHANGED next
          \/ ~found /\ answer' = "noffmpeg" /\ phase' = "over" /\ UNCHANGED next
          \/ ~found /\ phase' = "wait" /\ next' = 1 /\ UNCHANGED answer
    /\ UNCHANGED <<camera, batch, w, path, results, late, hist>>

DeadlinePasses ==
    /\ phase = "wait" /\ ~late /\ late' = TRUE
    /\ UNCHANGED <<camera, phase, batch, pool, results, hist, answer>>

----------------------------------------------------------------------------
(* A worker of the pool: go and rtsp_probe.probe.                           *)

Take(k) ==
    /\ w[k] = "idle" /\ next <= Paths
    /\ w' = [w EXCEPT ![k] = "taken"] /\ path' = [path EXCEPT ![k] = next]
    /\ next' = next + 1
    /\ UNCHANGED <<camera, phase, batch, results, late, hist, answer>>

(* The child starts, and is known to the searching thread. *)
Launch(k) ==
    /\ w[k] = "taken" /\ w' = [w EXCEPT ![k] = "run"]
    /\ UNCHANGED <<camera, phase, batch, next, path, results, late, hist, answer>>

(* What a probe can say of a path: a wrong password is rejected on every path,
   any probe may time out, and an error that repeats the URL passes for a
   rejection when the URL contains 401. *)
Says(p) ==
    {"miss"} \cup (IF right /\ serves = <<batch, p>> THEN {"hit"} ELSE {})
             \cup (IF ~right \/ echo THEN {"auth"} ELSE {})

(* Faulty: a probe waits for an answer as long as it takes. *)
EndsAnswered(k) ==
    /\ w[k] = "run" /\ w' = [w EXCEPT ![k] = "idle"]
    /\ \E o \in Says(path[k]) \ {"miss"} :
         /\ out' = IF answer = "open" THEN out \cup {<<path[k], o>>} ELSE out
         /\ refused' = IF o = "auth" THEN refused \cup {<<batch, path[k]>>} ELSE refused
         /\ UNCHANGED missed
    /\ UNCHANGED <<camera, phase, batch, next, path, left, late, answer>>

(* The child ends and the worker hands in the outcome. *)
Ends(k) ==
    /\ w[k] = "run" /\ w' = [w EXCEPT ![k] = "idle"]
    /\ \E o \in Says(path[k]) :
         /\ out' = IF answer = "open" THEN out \cup {<<path[k], o>>} ELSE out
         /\ refused' = IF o = "auth" THEN refused \cup {<<batch, path[k]>>} ELSE refused
         /\ missed' = IF o = "miss" THEN missed \cup {<<batch, path[k]>>} ELSE missed
    /\ UNCHANGED <<camera, phase, batch, next, path, left, late, answer>>

----------------------------------------------------------------------------
(* The searching thread: _best_rtsp_path_stream and _probe_until_hit.       *)

Said(o) == \E p \in Path : <<p, o>> \in out

(* The search ends; the pool is to be shut down. *)
Leave(a) == answer' = a /\ phase' = "cancel" /\ UNCHANGED <<batch, pool, results>>

(* The batch is used up: the next one starts with a pool of its own. *)
NextBatch ==
    IF batch < Batches /\ ~late
    THEN /\ batch' = batch + 1 /\ next' = 1
         /\ out' = {} /\ left' = Paths
         /\ UNCHANGED <<phase, answer, w, path>>
    ELSE Leave("none")

(* Faulty: what the first look finds is taken for the whole batch. *)
CollectOnce ==
    /\ phase = "wait" /\ out # {} /\ ~late
    /\ \/ Said("hit") /\ Leave("hit")
       \/ Said("auth") /\ Leave("auth")
       \/ ~Said("hit") /\ ~Said("auth") /\ NextBatch
    /\ UNCHANGED <<camera, late, hist>>

(* Faulty: a rejection is a miss like any other. *)
CollectDeaf ==
    /\ phase = "wait" /\ out # {} /\ ~late
    /\ \/ Said("hit") /\ Leave("hit")
       \/ /\ ~Said("hit")
          /\ IF Cardinality(out) = left THEN NextBatch
             ELSE /\ left' = left - Cardinality(out) /\ out' = {}
                  /\ UNCHANGED <<phase, batch, pool, answer>>
    /\ UNCHANGED <<camera, late, hist>>

(* The outcomes handed in since the last look, in no particular order: a hit
   or a rejection ends the search, misses only count. *)
Collect ==
    /\ phase = "wait" /\ out # {} /\ ~late
    /\ \/ Said("hit") /\ Leave("hit")
       \/ Said("auth") /\ Leave("auth")
       \/ /\ ~Said("hit") /\ ~Said("auth")
          /\ IF Cardinality(out) = left THEN NextBatch
             ELSE /\ left' = left - Cardinality(out) /\ out' = {}
                  /\ UNCHANGED <<phase, batch, pool, answer>>
    /\ UNCHANGED <<camera, late, hist>>

GiveUp == phase = "wait" /\ late /\ Leave("none") /\ UNCHANGED <<camera, late, hist>>

(* shutdown(cancel_futures): queued probes are dropped. *)
Cancel ==
    /\ phase = "cancel" /\ phase' = "kill" /\ next' = Paths + 1
    /\ UNCHANGED <<camera, batch, w, path, results, late, hist, answer>>

(* The children started so far are killed; their outcomes are discarded. *)
Kill ==
    /\ phase = "kill" /\ phase' = "over"
    /\ w' = [k \in Worker |-> IF w[k] = "run" THEN "idle" ELSE w[k]]
    /\ UNCHANGED <<camera, batch, next, path, results, late, hist, answer>>

Search == Onvif \/ Collect \/ GiveUp \/ Cancel \/ Kill
Pool   == \E k \in Worker : Take(k) \/ Launch(k) \/ Ends(k)

Next == Search \/ DeadlinePasses \/ Pool

Spec == Init /\ [][Next]_vars

FairSpec ==
    /\ Spec /\ WF_vars(Search)
    /\ \A k \in Worker : WF_vars(Take(k)) /\ WF_vars(Launch(k)) /\ WF_vars(Ends(k))

----------------------------------------------------------------------------
(* Properties.                                                              *)

Running == {k \in Worker : w[k] = "run"}

(* The search is the one RtspSearch describes: no batch is started once the
   camera has rejected the password (discovery_service.py:170). *)
Abstract == INSTANCE RtspSearch
    WITH batch <- batch, rejected <- refused # {},
         answer <- IF answer \in {"onvif", "noffmpeg"} THEN "none" ELSE answer
SearchSpec == Abstract!Spec

(* A search that ends in time reports a camera as not found only if each path
   of each batch was probed to the end of the probe and missed: none is dropped
   between the pool's queue, the outcomes and the count of what is pending.  A
   camera that serves a path with the user's password is so found, unless the
   very probe of that path missed it or the deadline passed. *)
GivesUpHonestly == answer = "none" /\ ~late => missed = Probe

(* No probe outlives the search for good. *)
ProbesEnd == (answer # "open") ~> [](\A k \in Worker : w[k] = "idle")

(* A wrong password costs no more rejected logins than the pool has workers
   (discovery_service.py:172, "we only fired up to `workers` auth attempts"). *)
FewRejections == ~right => Cardinality(refused) <= Cardinality(Worker)

(* No child is left when the search returns (discovery_service.py:186,
   "KILLED on return rather than lingering"). *)
NoneLeftOver == phase = "over" => Running = {}

(* "Your password is wrong" is said of a wrong password only. *)
BlamesWrongPassword == answer = "auth" => ~right
=============================================================================
