--------------------------- MODULE AgentStateProofs ---------------------------
(***************************************************************************)
(* Proofs about AgentState: what the lock of the state file is worth.  As  *)
(* long as no load has failed and no reconcile has saved an outdated list, *)
(* every edit of the cameras lasts, and so does the user's pairing, for    *)
(* any number of editors, reconcilers and cameras.                         *)
(***************************************************************************)
EXTENDS AgentState, TLAPS

(***************************************************************************)
(* The inductive invariant                                                 *)
(***************************************************************************)

\* Whatever list of cameras is about, it lists cameras that were registered here, and the
\* backend has none that was deleted here.
OnlyRegistered ==
    /\ DOMAIN cams \subseteq registered /\ DOMAIN remote \subseteq registered
    /\ deleted \subseteq registered /\ deleted \cap DOMAIN remote = {}
    /\ \A t \in Thread : DOMAIN local[t].cams \subseteq registered
    /\ \A r \in Reconciler : DOMAIN fetched[r] \subseteq registered
    /\ DOMAIN plocal \subseteq registered
    /\ \A e \in Editor : job[e] # None => job[e].cam \in registered

\* An editor at work has a job, and the lock while it mutates the state.
EditorsAtWork ==
    /\ \A e \in Editor : pc[e] = "idle" <=> job[e] = None
    /\ \A e \in Editor : pc[e] = "mutate" <=> lock = e

\* The file counts as unreadable only after a failed load.
ReadableUnlessSpoilt == unreadable => spoilt

\* What an editor has loaded under the lock is still what the file says.
LoadedIsCurrent ==
    ~spoilt =>
        \A e \in Editor : pc[e] = "mutate" => local[e] = [paired |-> paired, cams |-> cams]

\* Neither the dialog nor a failed load nor an outdated reconcile has touched the file.
Untouched == ~spoilt /\ budget.pairings = MaxPairings

\* The dialog is at work only when the user has paired or unpaired.
DialogSpends == budget.pairings = MaxPairings => ppc = "idle"

\* Nobody does anything to a camera before its registration is over, which is why the
\* registration can simply add it.
RegisteredFirst ==
    Untouched =>
        \A e \in Editor : job[e] # None /\ job[e].op = "register" =>
            /\ job[e].cam \notin DOMAIN cams /\ job[e].cam \notin deleted
            /\ \A d \in Editor \ {e} : job[d] # None => job[d].cam # job[e].cam

\* A camera that is being deleted here is not in the backend any more.
DeletedFirst == \A e \in Editor : job[e] # None /\ job[e].op = "delete" => job[e].cam \in deleted

\* The registration or the deletion of a camera is under way.
Owed(c) == \E e \in Editor : job[e] # None /\ job[e].cam = c /\ job[e].op \in {"register", "delete"}

\* The file shows every camera as it should, but for those: an edit of the tier, the name or
\* the URL in between neither loses a camera nor brings one back.
ShowsOrOwes == Untouched => \A c \in registered : Owed(c) \/ EditDone(c)

IInv ==
    /\ TypeOK
    /\ OnlyRegistered
    /\ EditorsAtWork
    /\ ReadableUnlessSpoilt
    /\ LoadedIsCurrent
    /\ DialogSpends
    /\ RegisteredFirst
    /\ DeletedFirst
    /\ ShowsOrOwes
    /\ PairingIsChosen

(***************************************************************************)
(* Records and lists                                                       *)
(***************************************************************************)

\* The bounds are numbers.
LEMMA Bounds == MaxPairings \in Nat /\ MaxExtras \in Nat
BY BoundsAssumption

\* None is no thread and no job, and editors are not reconcilers.
LEMMA Nobody ==
    /\ None \notin Editor /\ None \notin Reconciler /\ None \notin Job
    /\ \A e \in Editor, r \in Reconciler : e # r
BY ThreadAssumption, NoneAssumption

\* Editors and reconcilers are the threads.
LEMMA Threads == Editor \subseteq Thread /\ Reconciler \subseteq Thread
BY DEF Thread

\* The empty list of cameras is a list of cameras.
LEMMA NoCamsType == NoCams \in Cams /\ NoCams \in Remotes /\ DOMAIN NoCams = {}
<1>1. NoCams \in [{} -> Record] /\ NoCams \in [{} -> Remote] /\ {} \in SUBSET Camera
  BY DEF NoCams
<1>2. QED
  BY <1>1 DEF Cams, Remotes, NoCams

\* What an unreadable file is loaded as has its type and no camera.
LEMMA BlankType == Blank \in [paired : BOOLEAN, cams : Cams] /\ DOMAIN Blank.cams = {}
BY NoCamsType DEF Blank

\* A list of cameras and a list of the backend's are functions on cameras.
LEMMA CamsAre ==
    ASSUME NEW f \in Cams
    PROVE  DOMAIN f \subseteq Camera /\ \A c \in DOMAIN f : f[c] \in Record
BY DEF Cams

\* The backend's cameras and their records.
LEMMA RemotesAre ==
    ASSUME NEW f \in Remotes
    PROVE  DOMAIN f \subseteq Camera /\ \A c \in DOMAIN f : f[c] \in Remote
BY DEF Remotes

\* Records for some cameras are a list of cameras.
LEMMA IsCams ==
    ASSUME NEW D \in SUBSET Camera, NEW f \in [D -> Record]
    PROVE  f \in Cams
BY DEF Cams

\* Records for some cameras are a list the backend may have.
LEMMA IsRemotes ==
    ASSUME NEW D \in SUBSET Camera, NEW f \in [D -> Remote]
    PROVE  f \in Remotes
BY DEF Remotes

\* A list from which cameras were taken is a list.
LEMMA OnlyType ==
    ASSUME NEW D
    PROVE  /\ \A f \in Cams : Only(f, D) \in Cams
           /\ \A f \in Remotes : Only(f, D) \in Remotes
<1>1. ASSUME NEW f \in Cams
      PROVE  Only(f, D) \in Cams
  <2>1. Only(f, D) \in [DOMAIN f \cap D -> Record] /\ DOMAIN f \cap D \in SUBSET Camera
    BY CamsAre DEF Only
  <2>2. QED
    BY <2>1, IsCams
<1>2. ASSUME NEW f \in Remotes
      PROVE  Only(f, D) \in Remotes
  <2>1. Only(f, D) \in [DOMAIN f \cap D -> Remote] /\ DOMAIN f \cap D \in SUBSET Camera
    BY RemotesAre DEF Only
  <2>2. QED
    BY <2>1, IsRemotes
<1>3. QED
  BY <1>1, <1>2

\* What a reconcile makes of a list has the backend's cameras, no others.
LEMMA KeptType ==
    ASSUME NEW f \in Cams, NEW list \in Remotes
    PROVE  Kept(f, list) \in Cams /\ DOMAIN Kept(f, list) = DOMAIN list
<1>1. \A c \in DOMAIN list : list[c] \in Remote
  BY RemotesAre
<1>2. \A c \in DOMAIN f : f[c].url \in BOOLEAN
  BY CamsAre DEF Record
<1>3. Kept(f, list) \in [DOMAIN list -> Record]
  BY <1>1, <1>2 DEF Kept, Remote, Record
<1>4. DOMAIN list \in SUBSET Camera
  BY RemotesAre
<1>5. QED
  BY <1>3, <1>4, IsCams

\* The callback of an edit sets one field of one camera and keeps, or sets, its URL.
LEMMA FieldType ==
    ASSUME NEW j \in Job, j.op \notin {"register", "delete"}, NEW rec \in Record
    PROVE  /\ [rec EXCEPT ![j.op] = j.value] \in Record
           /\ rec.url => [rec EXCEPT ![j.op] = j.value].url
<1>1. CASE j.op = "name" /\ j.value \in Name
  BY <1>1 DEF Record
<1>2. CASE j.op = "tier" /\ j.value \in Tier
  BY <1>2 DEF Record
<1>3. CASE j.op = "url" /\ j.value = TRUE
  BY <1>3 DEF Record
<1>4. QED
  BY <1>1, <1>2, <1>3 DEF Job

\* An edit makes of a list a list.
LEMMA ApplyType ==
    ASSUME NEW j \in Job, NEW cs \in Cams
    PROVE  Apply(j, cs) \in Cams
<1>1. j.cam \in Camera
  BY DEF Job
<1>2. CASE j.op = "register"
  <2>1. j.value \in Name
    BY <1>2 DEF Job
  <2>2. Apply(j, cs) \in [DOMAIN cs \cup {j.cam} -> Record]
    BY <1>2, <2>1, CamsAre DEF Apply, Record, Tier
  <2>3. DOMAIN cs \cup {j.cam} \in SUBSET Camera
    BY <1>1, CamsAre
  <2>4. QED
    BY <2>2, <2>3, IsCams
<1>3. CASE j.op = "delete"
  BY <1>3, OnlyType DEF Apply
<1>4. CASE j.op \notin {"register", "delete"}
  <2>1. Apply(j, cs) = [c \in DOMAIN cs |-> IF c = j.cam THEN [cs[c] EXCEPT ![j.op] = j.value] ELSE cs[c]]
    BY <1>4 DEF Apply
  <2>2. \A c \in DOMAIN cs : [cs[c] EXCEPT ![j.op] = j.value] \in Record /\ cs[c] \in Record
    BY <1>4, CamsAre, FieldType
  <2>3. Apply(j, cs) \in [DOMAIN cs -> Record]
    BY <2>1, <2>2
  <2>4. DOMAIN cs \in SUBSET Camera
    BY CamsAre
  <2>5. QED
    BY <2>3, <2>4, IsCams
<1>5. QED
  BY <1>2, <1>3, <1>4

(***************************************************************************)
(* The building blocks of the actions                                      *)
(***************************************************************************)

BudgetType == [pairings : 0 .. MaxPairings, extras : 0 .. MaxExtras]

\* Spending an extra leaves the pairings alone.
LEMMA SpendExtras ==
    ASSUME budget \in BudgetType, Spend("extras")
    PROVE  budget' \in BudgetType /\ budget'.pairings = budget.pairings
<1>1. budget' = [budget EXCEPT !.extras = budget.extras - 1] /\ budget.extras > 0
  BY DEF Spend
<1>2. budget.extras - 1 \in 0 .. MaxExtras
  BY <1>1, Bounds DEF BudgetType
<1>3. QED
  BY <1>1, <1>2 DEF BudgetType

\* A load returns what the file says, or nothing, and then the file is spoilt.
LEMMA LoadFacts ==
    ASSUME TypeOK, NEW result \in Unsealed, Load(result)
    PROVE  /\ result \in [paired : BOOLEAN, cams : Cams]
           /\ DOMAIN result.cams \subseteq DOMAIN cams
           /\ unreadable' \in BOOLEAN /\ spoilt' \in BOOLEAN /\ budget' \in BudgetType
           /\ budget'.pairings = budget.pairings
           /\ spoilt => spoilt'
           /\ unreadable' => spoilt'
           /\ ~spoilt' => result = [paired |-> paired, cams |-> cams]
<1>1. result \in [paired : BOOLEAN, cams : Cams] /\ DOMAIN result.cams \subseteq DOMAIN cams
  BY BlankType DEF Unsealed, TypeOK
<1>2. budget \in BudgetType
  BY DEF TypeOK, BudgetType
<1>3. CASE result = [paired |-> paired, cams |-> cams] /\ unreadable' = FALSE /\ UNCHANGED <<spoilt, budget>>
  BY <1>1, <1>2, <1>3 DEF TypeOK
<1>4. CASE unreadable' = TRUE /\ spoilt' = TRUE /\ Spend("extras")
  BY <1>1, <1>2, <1>4, SpendExtras
<1>5. QED
  BY <1>3, <1>4 DEF Load

\* A write goes through, unless it would put an unpaired state over an unreadable file.
LEMMA WriteFacts ==
    ASSUME TypeOK, NEW p \in BOOLEAN, NEW cs \in Cams, Write(p, cs)
    PROVE  /\ paired' \in BOOLEAN /\ cams' \in Cams /\ unreadable' \in BOOLEAN
           /\ unreadable' => unreadable
           /\ DOMAIN cams' \subseteq DOMAIN cams \cup DOMAIN cs
           /\ ~unreadable => paired' = p /\ cams' = cs
BY DEF Write, TypeOK, file

\* What all edits begin with: editor e takes on a job for camera c; only a registration adds a
\* camera to the backend and only a deletion takes one away.
Starts(e, c, j) ==
    /\ j.cam = c
    /\ pc[e] = "idle" /\ pc' = [pc EXCEPT ![e] = "patched"]
    /\ job' = [job EXCEPT ![e] = j]
    /\ UNCHANGED <<file, lock, local, fetched, dialog, spoilt>>
    /\ remote' \in Remotes
    /\ budget' \in BudgetType /\ budget'.pairings = budget.pairings
    /\ \/ /\ j.op = "register" /\ c \notin registered
          /\ registered' = registered \cup {c} /\ deleted' = deleted
          /\ DOMAIN remote' = DOMAIN remote \cup {c}
       \/ /\ j.op = "delete" /\ c \in DOMAIN cams
          /\ registered' = registered /\ deleted' = deleted \cup {c}
          /\ DOMAIN remote' = DOMAIN remote \ {c}
       \/ /\ j.op \notin {"register", "delete"} /\ c \in DOMAIN cams
          /\ UNCHANGED <<registered, deleted>>
          /\ DOMAIN remote' = DOMAIN remote

EditorStarts(e, c) == Register(e, c) \/ Delete(e, c) \/ SetTier(e, c) \/ Edit(e, c) \/ Reconnect(e, c)

\* An editor starts with a job for a camera.
LEMMA StartsFacts ==
    ASSUME TypeOK, NEW e \in Editor, NEW c \in Camera, EditorStarts(e, c)
    PROVE  \E j \in Job : Starts(e, c, j)
<1> USE DEF Starts, Begin, Goto
<1>1. budget \in BudgetType /\ remote \in Remotes
  BY DEF TypeOK, BudgetType
<1>2. ASSUME NEW field \in {"tier", "name"}, NEW value \in Tier \cup Name, Patch(e, field, c, value),
             field = "tier" => value \in Tier, field = "name" => value \in Name
      PROVE  \E j \in Job : Starts(e, c, j)
  <2> DEFINE j == [op |-> field, cam |-> c, value |-> value]
  <2>1. j \in Job /\ j.cam = c /\ j.op = field
    BY <1>2 DEF Job
  <2>2. remote' = [remote EXCEPT ![c] = [remote[c] EXCEPT ![field] = value]] /\ c \in DOMAIN remote
    BY <1>2 DEF Patch
  <2>3. remote[c] \in Remote /\ DOMAIN remote \in SUBSET Camera
    BY <1>1, <2>2, RemotesAre
  <2>4. [remote[c] EXCEPT ![field] = value] \in Remote
    BY <1>2, <2>3 DEF Remote
  <2>5. remote' \in [DOMAIN remote -> Remote]
    BY <1>1, <2>2, <2>4, RemotesAre
  <2>6. remote' \in Remotes /\ DOMAIN remote' = DOMAIN remote
    BY <2>3, <2>5, IsRemotes
  <2>7. budget' \in BudgetType /\ budget'.pairings = budget.pairings
    BY <1>1, <1>2, SpendExtras DEF Patch
  <2>8. Starts(e, c, j)
    BY <1>2, <2>1, <2>6, <2>7 DEF Patch
  <2>9. QED
    BY <2>1, <2>8
<1>3. CASE Register(e, c)
  <2>1. PICK n \in Name :
           /\ Begin(e, "register", c, n)
           /\ remote' = [d \in DOMAIN remote \cup {c} |->
                            IF d = c THEN [tier |-> "cloud", name |-> n] ELSE remote[d]]
    BY <1>3 DEF Register
  <2> DEFINE j == [op |-> "register", cam |-> c, value |-> n]
  <2>2. j \in Job
    BY DEF Job
  <2>3. remote' \in [DOMAIN remote \cup {c} -> Remote]
    BY <1>1, <2>1, RemotesAre DEF Remote, Tier
  <2>4. DOMAIN remote \cup {c} \in SUBSET Camera
    BY <1>1, RemotesAre
  <2>5. remote' \in Remotes /\ DOMAIN remote' = DOMAIN remote \cup {c}
    BY <2>3, <2>4, IsRemotes
  <2>6. Starts(e, c, j)
    BY <1>1, <1>3, <2>1, <2>5 DEF Register
  <2>7. QED
    BY <2>2, <2>6
<1>4. CASE Delete(e, c)
  <2> DEFINE j == [op |-> "delete", cam |-> c, value |-> cams[c].name]
  <2>1. c \in DOMAIN cams /\ cams[c].name \in Name
    BY <1>4, CamsAre DEF Delete, TypeOK, Record
  <2>2. j \in Job
    BY <2>1 DEF Job
  <2>3. remote' \in Remotes /\ DOMAIN remote' = DOMAIN remote \ {c}
    BY <1>1, <1>4, OnlyType, RemotesAre DEF Delete, Only
  <2>4. Starts(e, c, j)
    BY <1>1, <1>4, <2>1, <2>3 DEF Delete
  <2>5. QED
    BY <2>2, <2>4
<1>5. CASE SetTier(e, c)
  BY <1>2, <1>5 DEF SetTier
<1>6. CASE Edit(e, c)
  BY <1>2, <1>6 DEF Edit
<1>7. CASE Reconnect(e, c)
  <2> DEFINE j == [op |-> "url", cam |-> c, value |-> TRUE]
  <2>1. j \in Job
    BY DEF Job
  <2>2. budget' \in BudgetType /\ budget'.pairings = budget.pairings
    BY <1>1, <1>7, SpendExtras DEF Reconnect
  <2>3. Starts(e, c, j)
    BY <1>1, <1>7, <2>2 DEF Reconnect
  <2>4. QED
    BY <2>1, <2>3
<1>8. QED
  BY <1>3, <1>4, <1>5, <1>6, <1>7 DEF EditorStarts

(***************************************************************************)
(* Each conjunct is kept by every step                                     *)
(***************************************************************************)

\* The kinds of steps.
LEMMA StepKinds ==
    ASSUME TypeOK, [Next]_vars
    PROVE  \/ \E e \in Editor, c \in Camera, j \in Job : Starts(e, c, j)
           \/ \E e \in Editor : MutateLoad(e) \/ MutateWrite(e)
           \/ \E r \in Reconciler : ReconcileLoad(r) \/ FetchOk(r) \/ FetchFails(r) \/ ReconcileSave(r)
           \/ \E what \in {"pair", "unpair"} : PairLoad(what)
           \/ PairSave
           \/ \E c \in Camera : WebEdit(c)
           \/ Peek
           \/ UNCHANGED vars
BY StartsFacts DEF Next, EditorStarts

\* The dialog has loaded cameras of the file.
LEMMA PairLoadFacts ==
    ASSUME TypeOK, NEW what \in {"pair", "unpair"}, PairLoad(what)
    PROVE  /\ plocal' \in Cams /\ DOMAIN plocal' \subseteq DOMAIN cams
           /\ unreadable' \in BOOLEAN /\ spoilt' \in BOOLEAN
           /\ spoilt => spoilt'
           /\ unreadable' => spoilt'
           /\ budget' \in BudgetType /\ budget'.pairings < MaxPairings
<1>1. budget \in BudgetType
  BY DEF TypeOK, BudgetType
<1>2. plocal' \in Cams /\ DOMAIN plocal' \subseteq DOMAIN cams
  BY NoCamsType DEF PairLoad, TypeOK
<1>3. budget.pairings > 0 /\ budget.pairings - 1 \in 0 .. MaxPairings /\ budget.pairings - 1 < MaxPairings
  BY <1>1, Bounds DEF PairLoad, BudgetType
<1>4. CASE plocal' = cams /\ unreadable' = FALSE /\ UNCHANGED spoilt
           /\ budget' = [budget EXCEPT !.pairings = budget.pairings - 1]
  BY <1>1, <1>2, <1>3, <1>4 DEF TypeOK, BudgetType
<1>5. CASE unreadable' = TRUE /\ spoilt' = TRUE /\ budget.extras > 0
           /\ budget' = [budget EXCEPT !.pairings = budget.pairings - 1, !.extras = budget.extras - 1]
  <2>1. budget.extras - 1 \in 0 .. MaxExtras
    BY <1>1, <1>5, Bounds DEF BudgetType
  <2>2. QED
    BY <1>1, <1>2, <1>3, <1>5, <2>1 DEF BudgetType
<1>6. QED
  BY <1>4, <1>5 DEF PairLoad

\* An edit on the web registers nothing.
LEMMA WebEditFacts ==
    ASSUME TypeOK, NEW c \in Camera, WebEdit(c)
    PROVE  /\ remote' \in Remotes /\ DOMAIN remote' \subseteq DOMAIN remote
           /\ budget' \in BudgetType /\ budget'.pairings = budget.pairings
<1>1. budget \in BudgetType /\ remote \in Remotes
  BY DEF TypeOK, BudgetType
<1>2. budget' \in BudgetType /\ budget'.pairings = budget.pairings
  BY <1>1, SpendExtras DEF WebEdit
<1>3. CASE remote' = Only(remote, Camera \ {c})
  BY <1>1, <1>2, <1>3, OnlyType DEF Only
<1>4. ASSUME NEW tier \in Tier, remote' = [remote EXCEPT ![c] = [remote[c] EXCEPT !.tier = tier]]
      PROVE  remote' \in Remotes /\ DOMAIN remote' = DOMAIN remote
  <2>1. remote' \in [DOMAIN remote -> Remote] /\ DOMAIN remote \in SUBSET Camera
    BY <1>1, <1>4, RemotesAre DEF Remote
  <2>2. QED
    BY <2>1, IsRemotes
<1>5. ASSUME NEW n \in Name, remote' = [remote EXCEPT ![c] = [remote[c] EXCEPT !.name = n]]
      PROVE  remote' \in Remotes /\ DOMAIN remote' = DOMAIN remote
  <2>1. remote' \in [DOMAIN remote -> Remote] /\ DOMAIN remote \in SUBSET Camera
    BY <1>1, <1>5, RemotesAre DEF Remote
  <2>2. QED
    BY <2>1, IsRemotes
<1>6. QED
  BY <1>2, <1>3, <1>4, <1>5 DEF WebEdit

\* What a mutation writes: what it has loaded, with its edit applied.
LEMMA MutateWriteFacts ==
    ASSUME TypeOK, EditorsAtWork, NEW e \in Editor, MutateWrite(e)
    PROVE  /\ job[e] \in Job /\ Apply(job[e], local[e].cams) \in Cams
           /\ paired' \in BOOLEAN /\ cams' \in Cams /\ unreadable' \in BOOLEAN
           /\ unreadable' => unreadable
           /\ DOMAIN cams' \subseteq DOMAIN cams \cup DOMAIN Apply(job[e], local[e].cams)
           /\ ~unreadable => paired' = local[e].paired /\ cams' = Apply(job[e], local[e].cams)
<1>1. job[e] \in Job
  BY DEF MutateWrite, Goto, EditorsAtWork, TypeOK
<1>2. local[e].paired \in BOOLEAN /\ local[e].cams \in Cams
  BY Threads DEF TypeOK
<1>3. Apply(job[e], local[e].cams) \in Cams
  BY <1>1, <1>2, ApplyType
<1>4. QED
  BY <1>1, <1>2, <1>3, WriteFacts DEF MutateWrite

\* What a reconcile saves, if it does: the backend's list as it was.
LEMMA ReconcileSaveFacts ==
    ASSUME TypeOK, NEW r \in Reconciler, ReconcileSave(r)
    PROVE  /\ paired' \in BOOLEAN /\ cams' \in Cams /\ unreadable' \in BOOLEAN /\ spoilt' \in BOOLEAN
           /\ unreadable' => unreadable
           /\ spoilt => spoilt'
           /\ DOMAIN cams' \subseteq DOMAIN cams \cup DOMAIN fetched[r]
           /\ ~spoilt' /\ ~unreadable =>
                 \/ UNCHANGED file
                 \/ ~Outdated(r) /\ UNCHANGED paired /\ cams' = Kept(cams, remote)
<1> DEFINE kept == Kept(local[r].cams, fetched[r])
<1>1. local[r].paired \in BOOLEAN /\ local[r].cams \in Cams /\ fetched[r] \in Remotes
  BY Threads DEF TypeOK
<1>2. kept \in Cams /\ DOMAIN kept = DOMAIN fetched[r]
  BY <1>1, KeptType
<1> HIDE DEF kept
<1>3. CASE UNCHANGED <<file, spoilt>>
  BY <1>3 DEF TypeOK, file
<1>4. CASE Write(local[r].paired, kept) /\ spoilt' = (spoilt \/ Outdated(r))
  <2>1. /\ paired' \in BOOLEAN /\ cams' \in Cams /\ unreadable' \in BOOLEAN
        /\ unreadable' => unreadable
        /\ DOMAIN cams' \subseteq DOMAIN cams \cup DOMAIN fetched[r]
        /\ ~unreadable => paired' = local[r].paired /\ cams' = kept
    BY <1>1, <1>2, <1>4, WriteFacts
  <2>2. spoilt' \in BOOLEAN /\ (spoilt => spoilt') /\ (~spoilt' => ~Outdated(r))
    BY <1>4 DEF Outdated, TypeOK
  <2>3. ~Outdated(r) => local[r] = [paired |-> paired, cams |-> cams] /\ fetched[r] = remote
    BY DEF Outdated
  <2>4. ~Outdated(r) => local[r].paired = paired /\ kept = Kept(cams, remote)
    BY <2>3 DEF kept
  <2>5. QED
    BY <2>1, <2>2, <2>4
<1>5. QED
  BY <1>3, <1>4 DEF ReconcileSave, kept

\* The dialog saves what it has loaded.
LEMMA PairSaveFacts ==
    ASSUME TypeOK, PairSave
    PROVE  /\ paired' \in BOOLEAN /\ cams' \in Cams /\ unreadable' \in BOOLEAN
           /\ choice' = (ppc = "pair") /\ choice' \in BOOLEAN
           /\ unreadable' => unreadable
           /\ DOMAIN cams' \subseteq DOMAIN cams \cup DOMAIN plocal
           /\ ~unreadable => paired' = choice'
<1>1. (ppc = "pair") \in BOOLEAN /\ plocal \in Cams
  BY DEF TypeOK
<1>2. QED
  BY <1>1, WriteFacts DEF PairSave

\* Every step keeps the types.
LEMMA TypeStep ==
    ASSUME IInv, [Next]_vars
    PROVE  TypeOK'
<1> USE Threads DEF IInv, file, dialog, hist
<1>1. budget \in BudgetType
  BY DEF TypeOK, BudgetType
<1>2. ASSUME NEW e \in Editor, NEW c \in Camera, NEW j \in Job, Starts(e, c, j)
      PROVE  TypeOK'
  <2>1. pc' \in [Thread -> {"idle", "patched", "mutate", "loaded", "fetched"}]
        /\ job' \in [Editor -> Job \cup {None}]
    BY <1>2 DEF Starts, TypeOK
  <2>2. registered' \subseteq Camera /\ deleted' \subseteq Camera
    BY <1>2 DEF Starts, TypeOK
  <2>3. QED
    BY <1>2, <2>1, <2>2 DEF Starts, TypeOK, BudgetType
<1>3. ASSUME NEW e \in Editor, MutateLoad(e)
      PROVE  TypeOK'
  <2>1. PICK result \in Unsealed : Load(result) /\ local' = [local EXCEPT ![e] = result]
    BY <1>3 DEF MutateLoad
  <2>2. local' \in [Thread -> [paired : BOOLEAN, cams : Cams]]
    BY <2>1, LoadFacts DEF TypeOK
  <2>3. pc' \in [Thread -> {"idle", "patched", "mutate", "loaded", "fetched"}]
    BY <1>3 DEF MutateLoad, Goto, TypeOK
  <2>4. unreadable' \in BOOLEAN /\ spoilt' \in BOOLEAN /\ budget' \in BudgetType
    BY <2>1, LoadFacts
  <2>5. QED
    BY <1>3, <2>2, <2>3, <2>4 DEF MutateLoad, TypeOK, BudgetType
<1>4. ASSUME NEW e \in Editor, MutateWrite(e)
      PROVE  TypeOK'
  <2>1. /\ local' \in [Thread -> [paired : BOOLEAN, cams : Cams]]
        /\ job' \in [Editor -> Job \cup {None}]
        /\ pc' \in [Thread -> {"idle", "patched", "mutate", "loaded", "fetched"}]
    BY <1>4, BlankType DEF MutateWrite, Goto, TypeOK
  <2>2. paired' \in BOOLEAN /\ cams' \in Cams /\ unreadable' \in BOOLEAN
    BY <1>4, MutateWriteFacts
  <2>3. QED
    BY <1>4, <2>1, <2>2 DEF MutateWrite, TypeOK
<1>5. ASSUME NEW r \in Reconciler, ReconcileLoad(r)
      PROVE  TypeOK'
  <2>1. PICK result \in Unsealed :
           /\ Load(result)
           /\ IF result.paired
                THEN /\ local' = [local EXCEPT ![r] = result]
                     /\ pc' = [pc EXCEPT ![r] = "loaded"]
                ELSE UNCHANGED <<local, pc>>
    BY <1>5 DEF ReconcileLoad
  <2>2. local' \in [Thread -> [paired : BOOLEAN, cams : Cams]]
    BY <2>1, LoadFacts DEF TypeOK
  <2>3. pc' \in [Thread -> {"idle", "patched", "mutate", "loaded", "fetched"}]
    BY <2>1 DEF TypeOK
  <2>4. unreadable' \in BOOLEAN /\ spoilt' \in BOOLEAN /\ budget' \in BudgetType
    BY <2>1, LoadFacts
  <2>5. QED
    BY <1>5, <2>2, <2>3, <2>4 DEF ReconcileLoad, TypeOK, BudgetType
<1>6. ASSUME NEW r \in Reconciler, FetchOk(r) \/ FetchFails(r)
      PROVE  TypeOK'
  <2>1. /\ local' \in [Thread -> [paired : BOOLEAN, cams : Cams]]
        /\ fetched' \in [Reconciler -> Remotes]
        /\ pc' \in [Thread -> {"idle", "patched", "mutate", "loaded", "fetched"}]
    BY <1>6, BlankType DEF FetchOk, FetchFails, Goto, TypeOK
  <2>2. QED
    BY <1>6, <2>1 DEF FetchOk, FetchFails, TypeOK
<1>7. ASSUME NEW r \in Reconciler, ReconcileSave(r)
      PROVE  TypeOK'
  <2>1. /\ local' \in [Thread -> [paired : BOOLEAN, cams : Cams]]
        /\ fetched' \in [Reconciler -> Remotes]
        /\ pc' \in [Thread -> {"idle", "patched", "mutate", "loaded", "fetched"}]
    BY <1>7, BlankType, NoCamsType DEF ReconcileSave, Goto, TypeOK
  <2>2. paired' \in BOOLEAN /\ cams' \in Cams /\ unreadable' \in BOOLEAN /\ spoilt' \in BOOLEAN
    BY <1>7, ReconcileSaveFacts
  <2>3. UNCHANGED <<lock, remote, job, dialog, registered, deleted, budget>>
    BY <1>7 DEF ReconcileSave
  <2>4. QED
    BY <2>1, <2>2, <2>3 DEF TypeOK
<1>8. ASSUME NEW what \in {"pair", "unpair"}, PairLoad(what)
      PROVE  TypeOK'
  <2>1. /\ plocal' \in Cams /\ unreadable' \in BOOLEAN /\ spoilt' \in BOOLEAN
        /\ budget' \in BudgetType
    BY <1>8, PairLoadFacts
  <2>2. ppc' \in {"idle", "pair", "unpair"}
        /\ UNCHANGED <<paired, cams, lock, remote, pc, job, local, fetched, choice, registered, deleted>>
    BY <1>8 DEF PairLoad
  <2>3. QED
    BY <2>1, <2>2 DEF TypeOK, BudgetType
<1>9. CASE PairSave
  <2>1. paired' \in BOOLEAN /\ cams' \in Cams /\ unreadable' \in BOOLEAN /\ choice' \in BOOLEAN
    BY <1>9, PairSaveFacts
  <2>2. ppc' = "idle" /\ plocal' \in Cams
        /\ UNCHANGED <<lock, remote, pc, job, local, fetched, hist, budget>>
    BY <1>9, NoCamsType DEF PairSave
  <2>3. QED
    BY <2>1, <2>2 DEF TypeOK
<1>10. ASSUME NEW c \in Camera, WebEdit(c)
       PROVE  TypeOK'
  BY <1>10, WebEditFacts DEF WebEdit, TypeOK, BudgetType
<1>11. CASE Peek
  <2>1. PICK result \in Unsealed : Load(result)
    BY <1>11 DEF Peek
  <2>2. unreadable' \in BOOLEAN /\ spoilt' \in BOOLEAN /\ budget' \in BudgetType
    BY <2>1, LoadFacts
  <2>3. QED
    BY <1>11, <2>2 DEF Peek, TypeOK, BudgetType
<1>12. CASE UNCHANGED vars
  BY <1>12 DEF vars, TypeOK
<1>13. QED
  BY <1>2, <1>3, <1>4, <1>5, <1>6, <1>7, <1>8, <1>9, <1>10, <1>11, <1>12, StepKinds

(***************************************************************************)
(* What a step may do to a file that is in order                           *)
(***************************************************************************)

\* The callback of an editor touches its own camera only.
LEMMA ApplyFacts ==
    ASSUME NEW j \in Job, NEW cs \in Cams
    PROVE  /\ DOMAIN Apply(j, cs) \subseteq DOMAIN cs \cup {j.cam}
           /\ \A c \in Camera \ {j.cam} :
                 (c \in DOMAIN Apply(j, cs) <=> c \in DOMAIN cs)
           /\ \A c \in DOMAIN cs \ {j.cam} : Apply(j, cs)[c] = cs[c]
           /\ j.op = "register" => j.cam \in DOMAIN Apply(j, cs) /\ Apply(j, cs)[j.cam].url
           /\ j.op = "delete" => j.cam \notin DOMAIN Apply(j, cs)
           /\ j.op \notin {"register", "delete"} =>
                 /\ DOMAIN Apply(j, cs) = DOMAIN cs
                 /\ \A c \in DOMAIN cs : cs[c].url => Apply(j, cs)[c].url
<1>1. DOMAIN cs \subseteq Camera /\ \A c \in DOMAIN cs : cs[c] \in Record
  BY CamsAre
<1>2. CASE j.op = "register"
  BY <1>1, <1>2 DEF Apply
<1>3. CASE j.op = "delete"
  BY <1>1, <1>3 DEF Apply, Only
<1>4. CASE j.op \notin {"register", "delete"}
  <2>1. Apply(j, cs) = [c \in DOMAIN cs |-> IF c = j.cam THEN [cs[c] EXCEPT ![j.op] = j.value] ELSE cs[c]]
    BY <1>4 DEF Apply
  <2>2. \A c \in DOMAIN cs : cs[c].url => [cs[c] EXCEPT ![j.op] = j.value].url
    BY <1>1, <1>4, FieldType
  <2>3. \A c \in DOMAIN cs : cs[c].url => Apply(j, cs)[c].url
    BY <2>1, <2>2
  <2>4. QED
    BY <1>4, <2>1, <2>3
<1>5. QED
  BY <1>2, <1>3, <1>4

\* Spoilt and touched files stay so.
LEMMA NeverUntouchedAgain ==
    ASSUME TypeOK, [Next]_vars
    PROVE  /\ spoilt => spoilt'
           /\ Untouched' => Untouched
           /\ budget'.pairings = MaxPairings => budget.pairings = MaxPairings
<1> USE DEF hist
<1>1. ASSUME NEW e \in Editor, NEW c \in Camera, NEW j \in Job, Starts(e, c, j)
      PROVE  (spoilt => spoilt') /\ budget'.pairings = budget.pairings
  BY <1>1 DEF Starts
<1>2. ASSUME NEW e \in Editor, MutateLoad(e)
      PROVE  (spoilt => spoilt') /\ budget'.pairings = budget.pairings
  BY <1>2, LoadFacts DEF MutateLoad
<1>3. ASSUME NEW e \in Editor, MutateWrite(e)
      PROVE  (spoilt => spoilt') /\ budget'.pairings = budget.pairings
  BY <1>3 DEF MutateWrite
<1>4. ASSUME NEW r \in Reconciler, ReconcileLoad(r)
      PROVE  (spoilt => spoilt') /\ budget'.pairings = budget.pairings
  BY <1>4, LoadFacts DEF ReconcileLoad
<1>5. ASSUME NEW r \in Reconciler, FetchOk(r) \/ FetchFails(r)
      PROVE  (spoilt => spoilt') /\ budget'.pairings = budget.pairings
  BY <1>5 DEF FetchOk, FetchFails
<1>6. ASSUME NEW r \in Reconciler, ReconcileSave(r)
      PROVE  (spoilt => spoilt') /\ budget'.pairings = budget.pairings
  <2>1. spoilt => spoilt'
    BY <1>6, ReconcileSaveFacts
  <2>2. budget' = budget
    BY <1>6 DEF ReconcileSave
  <2>3. QED
    BY <2>1, <2>2
<1>7. ASSUME NEW what \in {"pair", "unpair"}, PairLoad(what)
      PROVE  (spoilt => spoilt') /\ budget'.pairings # MaxPairings
  <2>1. (spoilt => spoilt') /\ budget' \in BudgetType /\ budget'.pairings < MaxPairings
    BY <1>7, PairLoadFacts
  <2>2. budget'.pairings # MaxPairings
    BY <2>1, Bounds DEF BudgetType
  <2>3. QED
    BY <2>1, <2>2
<1>8. CASE PairSave
  BY <1>8 DEF PairSave, Untouched
<1>9. ASSUME NEW c \in Camera, WebEdit(c)
      PROVE  (spoilt => spoilt') /\ budget'.pairings = budget.pairings
  BY <1>9, WebEditFacts DEF WebEdit
<1>10. CASE Peek
  BY <1>10, LoadFacts DEF Peek, Untouched
<1>11. CASE UNCHANGED vars
  BY <1>11 DEF vars, Untouched
<1>12. QED
  BY <1>1, <1>2, <1>3, <1>4, <1>5, <1>6, <1>7, <1>8, <1>9, <1>10, <1>11, StepKinds DEF Untouched

\* Over a file in order, an editor writes its edit of the very list the file has.
LEMMA MutateClean ==
    ASSUME IInv, NEW e \in Editor, MutateWrite(e), ~spoilt
    PROVE  paired' = paired /\ cams' = Apply(job[e], cams)
<1>1. local[e] = [paired |-> paired, cams |-> cams]
  BY DEF IInv, LoadedIsCurrent, MutateWrite, Goto
<1>2. ~unreadable /\ local[e].paired = paired /\ local[e].cams = cams
  BY <1>1 DEF IInv, ReadableUnlessSpoilt
<1>3. QED
  BY <1>2, MutateWriteFacts DEF IInv

\* A reconcile that does not spoil the file saves the backend's list when nobody is at work.
LEMMA ReconcileClean ==
    ASSUME IInv, NEW r \in Reconciler, ReconcileSave(r), ~spoilt'
    PROVE  /\ UNCHANGED paired
           /\ \/ UNCHANGED cams
              \/ /\ \A e \in Editor : job[e] = None
                 /\ cams' = Kept(cams, remote)
<1>1. ~unreadable
  BY NeverUntouchedAgain, ReconcileSaveFacts DEF IInv, ReadableUnlessSpoilt
<1>2. UNCHANGED file \/ (~Outdated(r) /\ UNCHANGED paired /\ cams' = Kept(cams, remote))
  BY <1>1, ReconcileSaveFacts DEF IInv
<1>3. ~Outdated(r) => \A e \in Editor : job[e] = None
  BY DEF Outdated
<1>4. QED
  BY <1>2, <1>3 DEF file

(***************************************************************************)
(* The other conjuncts are kept by every step                              *)
(***************************************************************************)

\* No step brings up a camera that was never registered here.
LEMMA OnlyRegisteredStep ==
    ASSUME IInv, [Next]_vars
    PROVE  OnlyRegistered'
<1> USE Threads, Nobody DEF IInv, file, dialog, hist
<1>1. ASSUME NEW e \in Editor, NEW c \in Camera, NEW j \in Job, Starts(e, c, j)
      PROVE  OnlyRegistered'
  <2>1. \A d \in Editor : job'[d] # None => job'[d] = job[d] \/ job'[d].cam = c
    BY <1>1 DEF Starts, TypeOK
  <2>2. UNCHANGED <<cams, local, fetched, plocal>> /\ registered \subseteq registered'
    BY <1>1 DEF Starts
  <2>3. c \in registered' /\ DOMAIN remote' \subseteq registered' /\ deleted' \subseteq registered'
    BY <1>1 DEF Starts, OnlyRegistered
  <2>4. deleted' \cap DOMAIN remote' = {}
    BY <1>1 DEF Starts, OnlyRegistered
  <2>5. \A d \in Editor : job'[d] # None => job'[d].cam \in registered'
    BY <2>1, <2>2, <2>3 DEF OnlyRegistered
  <2>6. QED
    BY <2>2, <2>3, <2>4, <2>5 DEF OnlyRegistered
<1>2. ASSUME NEW e \in Editor, MutateLoad(e)
      PROVE  OnlyRegistered'
  <2>1. PICK result \in Unsealed : Load(result) /\ local' = [local EXCEPT ![e] = result]
    BY <1>2 DEF MutateLoad
  <2>2. DOMAIN result.cams \subseteq registered
    BY <2>1, LoadFacts DEF OnlyRegistered
  <2>3. \A t \in Thread : DOMAIN local'[t].cams \subseteq registered
    BY <2>1, <2>2 DEF OnlyRegistered, TypeOK
  <2>4. UNCHANGED <<cams, remote, job, fetched, plocal, registered, deleted>>
    BY <1>2 DEF MutateLoad
  <2>5. QED
    BY <2>3, <2>4 DEF OnlyRegistered
<1>3. ASSUME NEW e \in Editor, MutateWrite(e)
      PROVE  OnlyRegistered'
  <2>1. job[e] \in Job /\ job[e].cam \in registered /\ job[e] # None
    BY <1>3, MutateWriteFacts DEF OnlyRegistered
  <2>2. local[e].cams \in Cams /\ DOMAIN local[e].cams \subseteq registered
    BY DEF OnlyRegistered, TypeOK
  <2>3. DOMAIN Apply(job[e], local[e].cams) \subseteq registered
    BY <2>1, <2>2, ApplyFacts
  <2>4. DOMAIN cams' \subseteq registered
    BY <1>3, <2>3, MutateWriteFacts DEF OnlyRegistered
  <2>5. \A t \in Thread : DOMAIN local'[t].cams \subseteq registered
    BY <1>3, BlankType DEF MutateWrite, OnlyRegistered, TypeOK
  <2>6. \A d \in Editor : job'[d] # None => job'[d] = job[d]
    BY <1>3 DEF MutateWrite, TypeOK
  <2>7. UNCHANGED <<remote, fetched, plocal, registered, deleted>>
    BY <1>3 DEF MutateWrite
  <2>8. QED
    BY <2>4, <2>5, <2>6, <2>7 DEF OnlyRegistered
<1>4. ASSUME NEW r \in Reconciler, ReconcileLoad(r)
      PROVE  OnlyRegistered'
  <2>1. PICK result \in Unsealed :
           Load(result) /\ (local' = [local EXCEPT ![r] = result] \/ UNCHANGED local)
    BY <1>4 DEF ReconcileLoad
  <2>2. DOMAIN result.cams \subseteq registered
    BY <2>1, LoadFacts DEF OnlyRegistered
  <2>3. \A t \in Thread : DOMAIN local'[t].cams \subseteq registered
    BY <2>1, <2>2 DEF OnlyRegistered, TypeOK
  <2>4. UNCHANGED <<cams, remote, job, fetched, plocal, registered, deleted>>
    BY <1>4 DEF ReconcileLoad
  <2>5. QED
    BY <2>3, <2>4 DEF OnlyRegistered
<1>5. ASSUME NEW r \in Reconciler, FetchOk(r) \/ FetchFails(r)
      PROVE  OnlyRegistered'
  <2>1. \A t \in Thread : DOMAIN local'[t].cams \subseteq registered
    BY <1>5, BlankType DEF FetchOk, FetchFails, OnlyRegistered, TypeOK
  <2>2. \A q \in Reconciler : DOMAIN fetched'[q] \subseteq registered
    BY <1>5 DEF FetchOk, FetchFails, OnlyRegistered, TypeOK
  <2>3. UNCHANGED <<cams, remote, job, plocal, registered, deleted>>
    BY <1>5 DEF FetchOk, FetchFails
  <2>4. QED
    BY <2>1, <2>2, <2>3 DEF OnlyRegistered
<1>6. ASSUME NEW r \in Reconciler, ReconcileSave(r)
      PROVE  OnlyRegistered'
  <2>1. DOMAIN cams' \subseteq registered
    BY <1>6, ReconcileSaveFacts DEF OnlyRegistered
  <2>2. \A t \in Thread : DOMAIN local'[t].cams \subseteq registered
    BY <1>6, BlankType DEF ReconcileSave, OnlyRegistered, TypeOK
  <2>3. \A q \in Reconciler : DOMAIN fetched'[q] \subseteq registered
    BY <1>6, NoCamsType DEF ReconcileSave, OnlyRegistered, TypeOK
  <2>4. UNCHANGED <<remote, job, plocal, registered, deleted>>
    BY <1>6 DEF ReconcileSave
  <2>5. QED
    BY <2>1, <2>2, <2>3, <2>4 DEF OnlyRegistered
<1>7. ASSUME NEW what \in {"pair", "unpair"}, PairLoad(what)
      PROVE  OnlyRegistered'
  <2>1. DOMAIN plocal' \subseteq registered
    BY <1>7, PairLoadFacts DEF OnlyRegistered
  <2>2. UNCHANGED <<cams, remote, job, local, fetched, registered, deleted>>
    BY <1>7 DEF PairLoad
  <2>3. QED
    BY <2>1, <2>2 DEF OnlyRegistered
<1>8. CASE PairSave
  <2>1. DOMAIN cams' \subseteq registered /\ DOMAIN plocal' \subseteq registered
    BY <1>8, PairSaveFacts, NoCamsType DEF OnlyRegistered, PairSave
  <2>2. UNCHANGED <<remote, job, local, fetched, registered, deleted>>
    BY <1>8 DEF PairSave
  <2>3. QED
    BY <2>1, <2>2 DEF OnlyRegistered
<1>9. ASSUME NEW c \in Camera, WebEdit(c)
      PROVE  OnlyRegistered'
  <2>1. DOMAIN remote' \subseteq DOMAIN remote
    BY <1>9, WebEditFacts
  <2>2. UNCHANGED <<cams, job, local, fetched, plocal, registered, deleted>>
    BY <1>9 DEF WebEdit
  <2>3. QED
    BY <2>1, <2>2 DEF OnlyRegistered
<1>10. CASE Peek
  BY <1>10 DEF Peek, OnlyRegistered
<1>11. CASE UNCHANGED vars
  BY <1>11 DEF vars, OnlyRegistered
<1>12. QED
  BY <1>1, <1>2, <1>3, <1>4, <1>5, <1>6, <1>7, <1>8, <1>9, <1>10, <1>11, StepKinds

\* An editor takes the lock when it starts to mutate and leaves it when it has written.
LEMMA EditorsAtWorkStep ==
    ASSUME IInv, [Next]_vars
    PROVE  EditorsAtWork'
<1> USE Threads, Nobody DEF IInv, EditorsAtWork
<1>1. ASSUME NEW e \in Editor, NEW c \in Camera, NEW j \in Job, Starts(e, c, j)
      PROVE  EditorsAtWork'
  BY <1>1 DEF Starts, TypeOK
<1>2. ASSUME NEW e \in Editor, MutateLoad(e)
      PROVE  EditorsAtWork'
  BY <1>2 DEF MutateLoad, Goto, TypeOK
<1>3. ASSUME NEW e \in Editor, MutateWrite(e)
      PROVE  EditorsAtWork'
  BY <1>3 DEF MutateWrite, Goto, TypeOK
<1>4. ASSUME NEW r \in Reconciler,
             ReconcileLoad(r) \/ FetchOk(r) \/ FetchFails(r) \/ ReconcileSave(r)
      PROVE  EditorsAtWork'
  <2>1. (\E pos : pc' = [pc EXCEPT ![r] = pos]) \/ UNCHANGED pc
    BY <1>4 DEF ReconcileLoad, FetchOk, FetchFails, ReconcileSave, Goto
  <2>2. \A e \in Editor : pc'[e] = pc[e]
    BY <2>1 DEF TypeOK
  <2>3. UNCHANGED <<job, lock>>
    BY <1>4 DEF ReconcileLoad, FetchOk, FetchFails, ReconcileSave
  <2>4. QED
    BY <2>2, <2>3
<1>5. ASSUME NEW what \in {"pair", "unpair"}, PairLoad(what)
      PROVE  EditorsAtWork'
  BY <1>5 DEF PairLoad
<1>6. CASE PairSave
  BY <1>6 DEF PairSave
<1>7. ASSUME NEW c \in Camera, WebEdit(c)
      PROVE  EditorsAtWork'
  BY <1>7 DEF WebEdit
<1>8. CASE Peek
  BY <1>8 DEF Peek
<1>9. CASE UNCHANGED vars
  BY <1>9 DEF vars
<1>10. QED
  BY <1>1, <1>2, <1>3, <1>4, <1>5, <1>6, <1>7, <1>8, <1>9, StepKinds

\* Only a load that fails makes the file count as unreadable.
LEMMA ReadableUnlessSpoiltStep ==
    ASSUME IInv, [Next]_vars
    PROVE  ReadableUnlessSpoilt'
<1> USE NeverUntouchedAgain DEF IInv, ReadableUnlessSpoilt, file, dialog, hist
<1>1. ASSUME NEW e \in Editor, NEW c \in Camera, NEW j \in Job, Starts(e, c, j)
      PROVE  ReadableUnlessSpoilt'
  BY <1>1 DEF Starts
<1>2. ASSUME NEW e \in Editor, MutateLoad(e)
      PROVE  ReadableUnlessSpoilt'
  BY <1>2, LoadFacts DEF MutateLoad
<1>3. ASSUME NEW e \in Editor, MutateWrite(e)
      PROVE  ReadableUnlessSpoilt'
  BY <1>3, MutateWriteFacts
<1>4. ASSUME NEW r \in Reconciler, ReconcileLoad(r)
      PROVE  ReadableUnlessSpoilt'
  BY <1>4, LoadFacts DEF ReconcileLoad
<1>5. ASSUME NEW r \in Reconciler, FetchOk(r) \/ FetchFails(r)
      PROVE  ReadableUnlessSpoilt'
  BY <1>5 DEF FetchOk, FetchFails
<1>6. ASSUME NEW r \in Reconciler, ReconcileSave(r)
      PROVE  ReadableUnlessSpoilt'
  BY <1>6, ReconcileSaveFacts
<1>7. ASSUME NEW what \in {"pair", "unpair"}, PairLoad(what)
      PROVE  ReadableUnlessSpoilt'
  BY <1>7, PairLoadFacts
<1>8. CASE PairSave
  BY <1>8, PairSaveFacts
<1>9. ASSUME NEW c \in Camera, WebEdit(c)
      PROVE  ReadableUnlessSpoilt'
  BY <1>9 DEF WebEdit
<1>10. CASE Peek
  BY <1>10, LoadFacts DEF Peek
<1>11. CASE UNCHANGED vars
  BY <1>11 DEF vars
<1>12. QED
  BY <1>1, <1>2, <1>3, <1>4, <1>5, <1>6, <1>7, <1>8, <1>9, <1>10, <1>11, StepKinds

\* The lock: nobody else writes between the load and the write of an editor.
LEMMA LoadedIsCurrentStep ==
    ASSUME IInv, [Next]_vars
    PROVE  LoadedIsCurrent'
<1> USE Threads, Nobody, NeverUntouchedAgain DEF IInv, LoadedIsCurrent, EditorsAtWork, file, dialog, hist
<1> DEFINE Steady(e) == pc'[e] = "mutate" => pc[e] = "mutate" /\ local'[e] = local[e]
<1>1. ASSUME NEW e \in Editor, NEW c \in Camera, NEW j \in Job, Starts(e, c, j)
      PROVE  LoadedIsCurrent'
  <2>1. UNCHANGED <<paired, cams, local>> /\ \A d \in Editor : Steady(d)
    BY <1>1 DEF Starts, TypeOK
  <2>2. QED
    BY <2>1
<1>2. ASSUME NEW e \in Editor, MutateLoad(e)
      PROVE  LoadedIsCurrent'
  <2>1. PICK result \in Unsealed : Load(result) /\ local' = [local EXCEPT ![e] = result]
    BY <1>2 DEF MutateLoad
  <2>2. ~spoilt' => local'[e] = [paired |-> paired, cams |-> cams]
    BY <2>1, LoadFacts DEF TypeOK
  <2>3. \A d \in Editor \ {e} : Steady(d)
    BY <1>2, <2>1 DEF MutateLoad, Goto, TypeOK
  <2>4. UNCHANGED <<paired, cams>>
    BY <1>2 DEF MutateLoad
  <2>5. QED
    BY <2>2, <2>3, <2>4
<1>3. ASSUME NEW e \in Editor, MutateWrite(e)
      PROVE  LoadedIsCurrent'
  <2>1. lock = e /\ pc' = [pc EXCEPT ![e] = "idle"]
    BY <1>3 DEF MutateWrite, Goto
  <2>2. \A d \in Editor : pc'[d] # "mutate"
    BY <2>1 DEF TypeOK
  <2>3. QED
    BY <2>2
<1>4. ASSUME NEW r \in Reconciler, ReconcileLoad(r) \/ FetchOk(r) \/ FetchFails(r)
      PROVE  LoadedIsCurrent'
  <2>1. (\E pos : pc' = [pc EXCEPT ![r] = pos]) \/ UNCHANGED pc
    BY <1>4 DEF ReconcileLoad, FetchOk, FetchFails, Goto
  <2>2. (\E val : local' = [local EXCEPT ![r] = val]) \/ UNCHANGED local
    BY <1>4 DEF ReconcileLoad, FetchOk, FetchFails
  <2>3. \A d \in Editor : Steady(d)
    BY <2>1, <2>2 DEF TypeOK
  <2>4. UNCHANGED <<paired, cams>>
    BY <1>4 DEF ReconcileLoad, FetchOk, FetchFails
  <2>5. QED
    BY <2>3, <2>4
<1>5. ASSUME NEW r \in Reconciler, ReconcileSave(r)
      PROVE  LoadedIsCurrent'
  <2>1. lock = None /\ pc' = [pc EXCEPT ![r] = "idle"]
    BY <1>5 DEF ReconcileSave, Goto
  <2>2. \A d \in Editor : pc'[d] # "mutate"
    BY <2>1 DEF TypeOK
  <2>3. QED
    BY <2>2
<1>6. ASSUME NEW what \in {"pair", "unpair"}, PairLoad(what)
      PROVE  LoadedIsCurrent'
  BY <1>6 DEF PairLoad
<1>7. CASE PairSave
  <2>1. \A d \in Editor : pc'[d] # "mutate"
    BY <1>7 DEF PairSave
  <2>2. QED
    BY <2>1
<1>8. ASSUME NEW c \in Camera, WebEdit(c)
      PROVE  LoadedIsCurrent'
  BY <1>8 DEF WebEdit
<1>9. CASE Peek
  BY <1>9 DEF Peek
<1>10. CASE UNCHANGED vars
  BY <1>10 DEF vars
<1>11. QED
  BY <1>1, <1>2, <1>3, <1>4, <1>5, <1>6, <1>7, <1>8, <1>9, <1>10, StepKinds

\* The dialog is at work only after a pairing has been spent on it.
LEMMA DialogSpendsStep ==
    ASSUME IInv, [Next]_vars
    PROVE  DialogSpends'
<1>1. budget'.pairings = MaxPairings => budget.pairings = MaxPairings
  BY NeverUntouchedAgain DEF IInv
<1>2. ASSUME NEW what \in {"pair", "unpair"}, PairLoad(what)
      PROVE  budget'.pairings # MaxPairings
  <2>1. budget' \in BudgetType /\ budget'.pairings < MaxPairings
    BY <1>2, PairLoadFacts DEF IInv
  <2>2. QED
    BY <2>1, Bounds DEF BudgetType
<1>3. PairSave => ppc' = "idle"
  BY DEF PairSave
<1>4. (\E what \in {"pair", "unpair"} : PairLoad(what)) \/ PairSave \/ UNCHANGED ppc
  BY DEF Next, vars, dialog, Register, Delete, SetTier, Edit, Patch, Reconnect, Begin, MutateLoad,
         MutateWrite, ReconcileLoad, FetchOk, FetchFails, ReconcileSave, WebEdit, Peek
<1>5. QED
  BY <1>1, <1>2, <1>3, <1>4 DEF IInv, DialogSpends

\* The backend deletes a camera before the file does.
LEMMA DeletedFirstStep ==
    ASSUME IInv, [Next]_vars
    PROVE  DeletedFirst'
<1> USE DEF IInv, DeletedFirst, hist
<1>1. ASSUME NEW e \in Editor, NEW c \in Camera, NEW j \in Job, Starts(e, c, j)
      PROVE  DeletedFirst'
  <2>1. deleted \subseteq deleted' /\ (j.op = "delete" => c \in deleted')
    BY <1>1 DEF Starts
  <2>2. \A d \in Editor : job'[d] # None => job'[d] = job[d] \/ (job'[d] = j /\ j.cam = c)
    BY <1>1 DEF Starts, TypeOK
  <2>3. QED
    BY <2>1, <2>2
<1>2. ASSUME NEW e \in Editor, MutateWrite(e)
      PROVE  DeletedFirst'
  BY <1>2 DEF MutateWrite, TypeOK
<1>3. CASE UNCHANGED <<job, deleted>>
  BY <1>3
<1>4. (\E e \in Editor, c \in Camera, j \in Job : Starts(e, c, j)) \/ (\E e \in Editor : MutateWrite(e))
      \/ UNCHANGED <<job, deleted>>
  BY StepKinds DEF vars, MutateLoad, ReconcileLoad, FetchOk, FetchFails, ReconcileSave, PairLoad, PairSave,
     WebEdit, Peek
<1>5. QED
  BY <1>1, <1>2, <1>3, <1>4

\* The steps as the list of cameras sees them, while the file is in order.
Quiet ==
    /\ UNCHANGED <<paired, cams, job, registered, deleted>>
    /\ DOMAIN remote' \subseteq DOMAIN remote

Reconciled ==
    /\ UNCHANGED <<paired, job, remote, registered, deleted>>
    /\ \A e \in Editor : job[e] = None
    /\ cams' = Kept(cams, remote)

\* While nothing is spoilt, the steps that touch the edits and the file are these.
LEMMA CleanSteps ==
    ASSUME IInv, [Next]_vars, ~spoilt'
    PROVE  \/ \E e \in Editor, c \in Camera, j \in Job : Starts(e, c, j)
           \/ \E e \in Editor : MutateWrite(e)
           \/ Quiet
           \/ Reconciled
           \/ PairSave
<1> USE DEF Quiet, hist
<1>1. ASSUME NEW e \in Editor, MutateLoad(e)
      PROVE  Quiet
  BY <1>1 DEF MutateLoad
<1>2. ASSUME NEW r \in Reconciler, ReconcileLoad(r) \/ FetchOk(r) \/ FetchFails(r)
      PROVE  Quiet
  BY <1>2 DEF ReconcileLoad, FetchOk, FetchFails, file
<1>3. ASSUME NEW r \in Reconciler, ReconcileSave(r)
      PROVE  Quiet \/ Reconciled
  BY <1>3, ReconcileClean DEF ReconcileSave, Reconciled
<1>4. ASSUME NEW what \in {"pair", "unpair"}, PairLoad(what)
      PROVE  Quiet
  BY <1>4 DEF PairLoad
<1>5. ASSUME NEW c \in Camera, WebEdit(c)
      PROVE  Quiet
  BY <1>5, WebEditFacts DEF IInv, WebEdit, file
<1>6. CASE Peek
  BY <1>6 DEF Peek
<1>7. CASE UNCHANGED vars
  BY <1>7 DEF vars, file
<1>8. QED
  BY <1>1, <1>2, <1>3, <1>4, <1>5, <1>6, <1>7, StepKinds DEF IInv

\* Within an untouched file the dialog has nothing to save.
LEMMA NoPairSave ==
    ASSUME IInv, [Next]_vars, Untouched'
    PROVE  ~PairSave /\ Untouched /\ ~spoilt'
BY NeverUntouchedAgain DEF IInv, DialogSpends, Untouched, PairSave

\* No step touches a camera before its registration is over.
LEMMA RegisteredFirstStep ==
    ASSUME IInv, [Next]_vars
    PROVE  RegisteredFirst'
<1> SUFFICES ASSUME Untouched', NEW e \in Editor, job'[e] # None, job'[e].op = "register"
             PROVE  /\ job'[e].cam \notin DOMAIN cams' /\ job'[e].cam \notin deleted'
                    /\ \A d \in Editor \ {e} : job'[d] # None => job'[d].cam # job'[e].cam
  BY DEF RegisteredFirst
<1> USE NoPairSave, Nobody DEF IInv
<1>1. /\ job[e] # None /\ job[e].op = "register" =>
            /\ job[e].cam \notin DOMAIN cams /\ job[e].cam \notin deleted
            /\ \A d \in Editor \ {e} : job[d] # None => job[d].cam # job[e].cam
      /\ \A d \in Editor : job[d] # None => job[d].cam \in registered
      /\ DOMAIN cams \subseteq registered /\ deleted \subseteq registered
  BY DEF RegisteredFirst, OnlyRegistered
<1>2. ASSUME NEW a \in Editor, NEW c \in Camera, NEW j \in Job, Starts(a, c, j)
      PROVE  /\ job'[e].cam \notin DOMAIN cams' /\ job'[e].cam \notin deleted'
             /\ \A d \in Editor \ {e} : job'[d] # None => job'[d].cam # job'[e].cam
  <2>1. job' = [job EXCEPT ![a] = j] /\ cams' = cams /\ j.cam = c
    BY <1>2 DEF Starts, file
  <2>2. j.op # "register" => c \in DOMAIN cams /\ deleted' \subseteq deleted \cup {c}
    BY <1>2 DEF Starts
  <2>3. j.op = "register" => c \notin registered /\ deleted' = deleted
    BY <1>2 DEF Starts
  <2>4. CASE e = a
    <3>1. job'[e] = j /\ \A d \in Editor \ {e} : job'[d] = job[d]
      BY <2>1, <2>4 DEF TypeOK
    <3>2. QED
      BY <1>1, <2>1, <2>3, <3>1
  <2>5. CASE e # a
    <3>1. job'[e] = job[e] /\ \A d \in Editor : job'[d] = job[d] \/ (d = a /\ job'[d] = j)
      BY <2>1, <2>5 DEF TypeOK
    <3>2. job[e].cam # c
      BY <1>1, <2>2, <2>3, <3>1
    <3>3. QED
      BY <1>1, <2>1, <2>2, <2>3, <3>1, <3>2
  <2>6. QED
    BY <2>4, <2>5
<1>3. ASSUME NEW a \in Editor, MutateWrite(a)
      PROVE  /\ job'[e].cam \notin DOMAIN cams' /\ job'[e].cam \notin deleted'
             /\ \A d \in Editor \ {e} : job'[d] # None => job'[d].cam # job'[e].cam
  <2>1. job' = [job EXCEPT ![a] = None] /\ deleted' = deleted
    BY <1>3 DEF MutateWrite, hist
  <2>2. e # a /\ job'[e] = job[e] /\ \A d \in Editor : job'[d] # None => job'[d] = job[d]
    BY <2>1 DEF TypeOK
  <2>3. job[a] \in Job /\ job[a] # None
    BY <1>3, MutateWriteFacts
  <2>4. DOMAIN cams' \subseteq DOMAIN cams \cup {job[a].cam}
    BY <1>3, <2>3, MutateClean, ApplyFacts DEF Untouched, TypeOK
  <2>5. QED
    BY <1>1, <2>1, <2>2, <2>3, <2>4
<1>4. CASE Quiet
  BY <1>1, <1>4 DEF Quiet
<1>5. CASE Reconciled
  BY <1>5 DEF Reconciled
<1>6. QED
  BY <1>2, <1>3, <1>4, <1>5, CleanSteps

\* Every step leaves in the file the cameras it should show, but for those under way.
LEMMA ShowsOrOwesStep ==
    ASSUME IInv, [Next]_vars
    PROVE  ShowsOrOwes'
<1> SUFFICES ASSUME Untouched', NEW c \in registered'
             PROVE  Owed(c)' \/ EditDone(c)'
  BY DEF ShowsOrOwes
<1> USE NoPairSave, Nobody DEF IInv
<1>1. c \in registered => Owed(c) \/ EditDone(c)
  BY DEF ShowsOrOwes
<1>2. ASSUME NEW a \in Editor, NEW k \in Camera, NEW j \in Job, Starts(a, k, j)
      PROVE  Owed(c)' \/ EditDone(c)'
  <2>1. job[a] = None /\ job' = [job EXCEPT ![a] = j] /\ cams' = cams /\ j.cam = k
    BY <1>2 DEF Starts, file, EditorsAtWork
  <2>2. Owed(c) => Owed(c)'
    BY <2>1 DEF Owed, TypeOK
  <2>3. c = k /\ j.op \in {"register", "delete"} => Owed(c)'
    BY <2>1 DEF Owed, TypeOK
  <2>4. c # k \/ j.op \notin {"register", "delete"} =>
           /\ c \in registered
           /\ (c \in DOMAIN remote' => c \in DOMAIN remote) /\ (c \in deleted' => c \in deleted)
    BY <1>2 DEF Starts
  <2>5. c \in registered /\ EditDone(c) /\ (c \in DOMAIN remote' => c \in DOMAIN remote)
        /\ (c \in deleted' => c \in deleted) => EditDone(c)'
    BY <2>1 DEF EditDone
  <2>6. QED
    BY <1>1, <2>2, <2>3, <2>4, <2>5
<1>3. ASSUME NEW a \in Editor, MutateWrite(a)
      PROVE  Owed(c)' \/ EditDone(c)'
  <2> DEFINE j == job[a]
  <2>1. job' = [job EXCEPT ![a] = None] /\ UNCHANGED <<remote, registered, deleted>>
    BY <1>3 DEF MutateWrite, hist
  <2>2. j \in Job /\ j # None /\ cams \in Cams /\ cams' = Apply(j, cams)
    BY <1>3, MutateWriteFacts, MutateClean DEF Untouched, TypeOK
  <2>3. c \in Camera /\ j.cam \in Camera
    BY <2>1, <2>2 DEF TypeOK, Job
  <2>4. CASE c = j.cam /\ j.op = "register"
    <3>1. c \in DOMAIN cams' /\ cams'[c].url
      BY <2>2, <2>4, ApplyFacts
    <3>2. c \notin deleted
      BY <2>2, <2>4 DEF RegisteredFirst
    <3>3. QED
      BY <2>1, <3>1, <3>2 DEF EditDone
  <2>5. CASE c = j.cam /\ j.op = "delete"
    <3>1. c \notin DOMAIN cams'
      BY <2>2, <2>5, ApplyFacts
    <3>2. c \notin DOMAIN remote
      BY <2>2, <2>5 DEF DeletedFirst, OnlyRegistered
    <3>3. QED
      BY <2>1, <3>1, <3>2 DEF EditDone
  <2>6. CASE c # j.cam \/ j.op \notin {"register", "delete"}
    <3>1. Owed(c) => Owed(c)'
      BY <2>1, <2>6 DEF Owed, TypeOK
    <3>2. (c \in DOMAIN cams <=> c \in DOMAIN cams')
          /\ (c \in DOMAIN cams /\ cams[c].url => cams'[c].url)
      BY <2>2, <2>3, <2>6, ApplyFacts
    <3>3. EditDone(c) => EditDone(c)'
      BY <2>1, <3>2 DEF EditDone
    <3>4. QED
      BY <1>1, <2>1, <3>1, <3>3
  <2>7. QED
    BY <2>4, <2>5, <2>6
<1>4. CASE Quiet
  BY <1>1, <1>4 DEF Quiet, Owed, EditDone
<1>5. CASE Reconciled
  <2>1. EditDone(c)
    BY <1>1, <1>5 DEF Reconciled, Owed
  <2>2. cams' = [d \in DOMAIN remote |->
           [tier |-> remote[d].tier, name |-> remote[d].name,
            url |-> d \in DOMAIN cams /\ cams[d].url]]
    BY <1>5 DEF Reconciled, Kept
  <2>3. c \in DOMAIN remote => c \in DOMAIN cams' /\ cams'[c].url
    BY <2>1, <2>2 DEF EditDone
  <2>4. c \in deleted => c \notin DOMAIN cams'
    BY <2>2 DEF OnlyRegistered
  <2>5. QED
    BY <1>5, <2>3, <2>4 DEF Reconciled, EditDone
<1>6. QED
  BY <1>2, <1>3, <1>4, <1>5, CleanSteps

\* Only the dialog changes the pairing, and it changes it to the choice.
LEMMA PairingIsChosenStep ==
    ASSUME IInv, [Next]_vars
    PROVE  PairingIsChosen'
<1> USE NeverUntouchedAgain DEF IInv, PairingIsChosen, file, dialog
<1>1. SUFFICES ASSUME ~spoilt', ppc' = "idle"
               PROVE  paired' = choice'
  OBVIOUS
<1>2. CASE PairSave
  <2>1. ~unreadable
    BY <1>1, <1>2 DEF ReadableUnlessSpoilt
  <2>2. QED
    BY <1>2, <2>1, PairSaveFacts
<1>3. ~PairSave => UNCHANGED <<choice, ppc>>
  BY <1>1 DEF Next, vars, dialog, Register, Delete, SetTier, Edit, Patch, Reconnect, Begin, MutateLoad,
         MutateWrite, ReconcileLoad, FetchOk, FetchFails, ReconcileSave, PairLoad, WebEdit, Peek
<1>4. ~PairSave => UNCHANGED paired
  <2>1. ASSUME NEW e \in Editor, NEW c \in Camera, NEW j \in Job, Starts(e, c, j)
        PROVE  UNCHANGED paired
    BY <2>1 DEF Starts
  <2>2. ASSUME NEW e \in Editor, MutateWrite(e)
        PROVE  UNCHANGED paired
    BY <1>1, <2>2, MutateClean
  <2>3. QED
    BY <1>1, <2>1, <2>2, CleanSteps DEF Quiet, Reconciled
<1>5. QED
  BY <1>1, <1>2, <1>3, <1>4

(***************************************************************************)
(* The theorems                                                            *)
(***************************************************************************)

\* Initially the file is empty and nobody is at work.
LEMMA InitInv ==
    ASSUME Init
    PROVE  IInv
<1> USE Bounds, Nobody, NoCamsType, BlankType DEF Init
<1>1. /\ paired \in BOOLEAN /\ unreadable \in BOOLEAN /\ choice \in BOOLEAN /\ spoilt \in BOOLEAN
      /\ cams \in Cams /\ remote \in Remotes /\ plocal \in Cams
  OBVIOUS
<1>2. /\ lock \in Editor \cup {None} /\ ppc \in {"idle", "pair", "unpair"}
      /\ registered \subseteq Camera /\ deleted \subseteq Camera
  OBVIOUS
<1>3. /\ pc \in [Thread -> {"idle", "patched", "mutate", "loaded", "fetched"}]
      /\ job \in [Editor -> Job \cup {None}]
      /\ local \in [Thread -> [paired : BOOLEAN, cams : Cams]]
      /\ fetched \in [Reconciler -> Remotes]
  OBVIOUS
<1>4. budget \in [pairings : 0 .. MaxPairings, extras : 0 .. MaxExtras]
  OBVIOUS
<1>5. TypeOK
  BY <1>1, <1>2, <1>3, <1>4 DEF TypeOK
<1>6. OnlyRegistered
  BY DEF OnlyRegistered
<1>7. EditorsAtWork
  BY Threads DEF EditorsAtWork
<1>8. ReadableUnlessSpoilt /\ DialogSpends /\ PairingIsChosen
  BY DEF ReadableUnlessSpoilt, DialogSpends, PairingIsChosen
<1>9. LoadedIsCurrent
  BY Threads DEF LoadedIsCurrent
<1>10. RegisteredFirst /\ DeletedFirst /\ ShowsOrOwes
  BY DEF RegisteredFirst, DeletedFirst, ShowsOrOwes
<1>11. QED
  BY <1>5, <1>6, <1>7, <1>8, <1>9, <1>10 DEF IInv

\* The invariant of the threads around the state file.
THEOREM Invariance == Spec => []IInv
<1>1. Init => IInv
  BY InitInv
<1>2. IInv /\ [Next]_vars => IInv'
  BY TypeStep, OnlyRegisteredStep, EditorsAtWorkStep, ReadableUnlessSpoiltStep, LoadedIsCurrentStep,
     DialogSpendsStep, RegisteredFirstStep, DeletedFirstStep, ShowsOrOwesStep, PairingIsChosenStep
     DEF IInv
<1>3. QED
  BY <1>1, <1>2, PTL DEF Spec

\* Every variable of the state file, the backend and the threads keeps its type.
THEOREM TypeCorrect == Spec => []TypeOK
<1>1. IInv => TypeOK
  BY DEF IInv
<1>2. QED
  BY <1>1, Invariance, PTL

\* mutate_state: load, callback and write under one lock lose no edit of a camera; only a
\* reconcile, which holds no lock while it fetches, may (state.py 67-68).
THEOREM EditsLast == Spec => []EditsKept
<1>1. \A c : Owed(c) => InFlight(c)
  BY DEF Owed, InFlight
<1>2. IInv => EditsKept
  BY <1>1 DEF IInv, ShowsOrOwes, Untouched, EditsKept
<1>3. QED
  BY <1>2, Invariance, PTL

\* The file keeps the pairing that the user chose last (state.py 127-128).
THEOREM PairingLasts == Spec => []PairingIsChosen
<1>1. IInv => PairingIsChosen
  BY DEF IInv
<1>2. QED
  BY <1>1, Invariance, PTL

\* Nobody writes the file between the load and the write of an editor: _save_lock is held, and
\* reconciles and the pairing dialog write under it too.
THEOREM LockProtects == Spec => []LoadedIsCurrent
<1>1. IInv => LoadedIsCurrent
  BY DEF IInv
<1>2. QED
  BY <1>1, Invariance, PTL
=============================================================================
