--------------------------- MODULE ClipStoreProofs ---------------------------
(***************************************************************************)
(* Proofs about ClipStore: retention never deletes a clip too early, for   *)
(* any number of threads and stores; and the index matches the files while *)
(* only the workers of one store write, for any number of workers.         *)
(*                                                                         *)
(* Both need clips of different names.  Clips of the same camera and       *)
(* second share a name, and a file (OneFilePerClip); and workers of two    *)
(* stores exclude each other from nothing (NeverCorrupt).  What a theorem  *)
(* needs of the two is a hypothesis of that theorem.                       *)
(***************************************************************************)
EXTENDS ClipStore, FiniteSetTheorems, TLAPS

\* No two clips are of the same camera and second.
NamesDiffer == \A c, d \in Clip : Name[c] = Name[d] => c = d

\* All workers use the store of their EdgeRuntime.
StoreIsShared == \A v, w \in Worker : Store[v] = Store[w]

(***************************************************************************)
(* The invariant of all threads                                            *)
(***************************************************************************)

\* Clips that have been built.
Built == 1 .. next

\* What is listed, or about to be, has been built, and so is the
\* clip a thread is busy with.
OnlyBuiltClips ==
    /\ next \in 0 .. N
    /\ DOMAIN index \subseteq Built
    /\ \A t \in Thread : DOMAIN recs[t] \subseteq Built
    /\ \A t \in Thread : pc[t] \in {"add", "prune", "open", "write"} => mine[t] \in Built

BaseInv ==
    /\ TypeOK
    /\ OnlyBuiltClips

\* The bounds are numbers.
LEMMA Bounds ==
    /\ MaxClips \in Nat \ {0} /\ MaxAttempts \in Nat \ {0}
    /\ N \in Nat /\ MaxTriages \in Nat /\ MaxCrashes \in Nat
BY BoundsAssumption

\* The window is no worker.
LEMMA ThreadsDiffer == Gui \notin Worker /\ Gui \in Thread /\ Worker \subseteq Thread
BY ThreadAssumption DEF Thread

\* The lists the threads make: with the new clip, without the clips that go, with one status set.
LEMMA ListTypes ==
    ASSUME NEW r \in Records
    PROVE  /\ DOMAIN r \subseteq Clip
           /\ \A c \in Clip : WithNew(r, c) \in Records /\ DOMAIN WithNew(r, c) = DOMAIN r \cup {c}
           /\ \A S \in SUBSET DOMAIN r : /\ [c \in S |-> r[c]] \in Records
           /\ \A c \in DOMAIN r : /\ [r EXCEPT ![c] = "confirmed"] \in Records
                                  /\ DOMAIN [r EXCEPT ![c] = "confirmed"] = DOMAIN r
<1>1. PICK D \in SUBSET Clip : r \in [D -> Status]
  BY DEF Records
<1>2. DOMAIN r = D
  BY <1>1
<1>3. ASSUME NEW c \in Clip
      PROVE  WithNew(r, c) \in Records /\ DOMAIN WithNew(r, c) = DOMAIN r \cup {c}
  <2>1. WithNew(r, c) \in [D \cup {c} -> Status]
    BY <1>1, <1>2 DEF WithNew, Status
  <2>2. D \cup {c} \in SUBSET Clip
    OBVIOUS
  <2>3. QED
    BY <1>2, <2>1, <2>2 DEF Records
<1>4. ASSUME NEW S \in SUBSET DOMAIN r
      PROVE  [c \in S |-> r[c]] \in Records
  <2>1. [c \in S |-> r[c]] \in [S -> Status] /\ S \in SUBSET Clip
    BY <1>1, <1>2
  <2>2. QED
    BY <2>1 DEF Records
<1>5. ASSUME NEW c \in DOMAIN r
      PROVE  [r EXCEPT ![c] = "confirmed"] \in Records /\ DOMAIN [r EXCEPT ![c] = "confirmed"] = DOMAIN r
  <2>1. [r EXCEPT ![c] = "confirmed"] \in [D -> Status]
    BY <1>1, <1>2 DEF Status
  <2>2. QED
    BY <1>2, <2>1 DEF Records
<1>6. QED
  BY <1>2, <1>3, <1>4, <1>5

\* The empty index is an index.
LEMMA NothingType == Nothing \in Records /\ DOMAIN Nothing = {}
<1>1. Nothing \in [{} -> Status] /\ {} \in SUBSET Clip
  BY DEF Nothing
<1>2. QED
  BY <1>1 DEF Records, Nothing

\* What a load reads is an index of clips that were listed.
LEMMA ListedType ==
    ASSUME TypeOK
    PROVE  Listed \in Records /\ DOMAIN Listed \subseteq DOMAIN index
BY NothingType DEF Listed, TypeOK

\* Initially no clip is built and no thread is busy.
LEMMA BaseInit == Init => BaseInv
<1> SUFFICES ASSUME Init
             PROVE  BaseInv
  OBVIOUS
<1>1. TypeOK
  <2>1. next \in 0 .. N /\ horizon \in 0 .. N /\ crashes \in 0 .. MaxCrashes
    BY Bounds DEF Init
  <2>2. index \in Records /\ recs \in [Thread -> Records]
    BY NothingType DEF Init
  <2>3. attempt \in [Worker -> 1 .. MaxAttempts] /\ mine \in [Thread -> 0 .. N]
    BY Bounds DEF Init
  <2>4. /\ lock \in [Objects -> Worker \cup {None}]
        /\ pc \in [Thread -> {"idle", "add", "prune", "open", "write", "upload"}]
    BY DEF Init
  <2>5. /\ files \subseteq FileName /\ alerted \subseteq Worker /\ sent \subseteq Clip
        /\ added \subseteq Clip /\ triaged \subseteq Clip /\ fstate \in {"ok", "empty", "garbage"}
    BY DEF Init
  <2>6. QED
    BY <2>1, <2>2, <2>3, <2>4, <2>5 DEF TypeOK
<1>2. OnlyBuiltClips
  BY <1>1, NothingType, ThreadsDiffer DEF Init, OnlyBuiltClips, TypeOK
<1>3. QED
  BY <1>1, <1>2 DEF BaseInv

\* Every step keeps the types.
LEMMA TypeStep ==
    ASSUME BaseInv, [Next]_vars
    PROVE  TypeOK'
<1> USE Bounds, ThreadsDiffer DEF BaseInv, TypeOK, disk, handoff, hist, Goto
<1>1. ASSUME NEW w \in Worker, BuildClip(w)
      PROVE  TypeOK'
  <2>1. next' \in 0 .. N /\ next + 1 \in Clip
    BY <1>1 DEF BuildClip, Clip
  <2>2. files' \subseteq FileName
    BY <1>1, <2>1, NameAssumption DEF BuildClip
  <2>3. mine' \in [Thread -> 0 .. N]
    BY <1>1, <2>1 DEF BuildClip, Clip
  <2>4. QED
    BY <1>1, <2>1, <2>2, <2>3 DEF BuildClip
<1>2. ASSUME NEW w \in Worker, AddRead(w)
      PROVE  TypeOK'
  <2>1. mine[w] \in Clip
    BY <1>2 DEF AddRead, OnlyBuiltClips, Built, Clip
  <2>2. WithNew(Listed, mine[w]) \in Records
    BY <2>1, ListedType, ListTypes
  <2>3. recs' \in [Thread -> Records]
    BY <1>2, <2>2 DEF AddRead
  <2>4. lock' \in [Objects -> Worker \cup {None}]
    BY <1>2 DEF AddRead, Objects
  <2>5. QED
    BY <1>2, <2>3, <2>4 DEF AddRead
<1>3. ASSUME NEW w \in Worker, Prune(w)
      PROVE  TypeOK'
  <2>1. Survivors(DOMAIN recs[w]) \in SUBSET DOMAIN recs[w] /\ recs[w] \in Records
    BY DEF Survivors
  <2>2. recs' \in [Thread -> Records]
    BY <1>3, <2>1, ListTypes DEF Prune
  <2>3. files' \subseteq FileName
    BY <1>3 DEF Prune
  <2>4. QED
    BY <1>3, <2>2, <2>3 DEF Prune
<1>4. ASSUME NEW w \in Worker, UploadEnds(w) \/ UploadAgain(w)
      PROVE  TypeOK'
  <2>1. attempt' \in [Worker -> 1 .. MaxAttempts]
    BY <1>4 DEF UploadEnds, UploadAgain
  <2>2. mine' \in [Thread -> 0 .. N] /\ alerted' \subseteq Worker
    BY <1>4 DEF UploadEnds, UploadAgain, UploadRest
  <2>3. QED
    BY <1>4, <2>1, <2>2 DEF UploadEnds, UploadAgain, UploadRest
<1>5. ASSUME NEW c \in Clip, Escalate(c) \/ EscalateFails(c)
      PROVE  TypeOK'
  BY <1>5 DEF Escalate, EscalateFails
<1>6. ASSUME NEW c \in Clip, SetStatusRead(c)
      PROVE  TypeOK'
  <2>1. CASE c \in DOMAIN Listed
    <3>1. [Listed EXCEPT ![c] = "confirmed"] \in Records
      BY <2>1, ListedType, ListTypes
    <3>2. recs' \in [Thread -> Records]
      BY <1>6, <2>1, <3>1 DEF SetStatusRead
    <3>3. mine' \in [Thread -> 0 .. N]
      BY <1>6, <2>1 DEF SetStatusRead, Clip
    <3>4. QED
      BY <1>6, <2>1, <3>2, <3>3 DEF SetStatusRead
  <2>2. CASE c \notin DOMAIN Listed
    BY <1>6, <2>2 DEF SetStatusRead
  <2>3. QED
    BY <2>1, <2>2
<1>7. ASSUME NEW t \in Thread, SaveOpen(t)
      PROVE  TypeOK'
  BY <1>7 DEF SaveOpen
<1>8. ASSUME NEW t \in Thread, SaveWrite(t)
      PROVE  TypeOK'
  <2>1. index' \in Records /\ recs' \in [Thread -> Records]
    BY <1>8, NothingType DEF SaveWrite
  <2>2. mine[t] \in Clip
    <3>1. CASE t = Gui
      BY <1>8, <3>1 DEF SaveWrite, OnlyBuiltClips, Built, Clip
    <3>2. CASE t \in Worker
      BY <1>8, <3>2 DEF SaveWrite, OnlyBuiltClips, Built, Clip
    <3>3. QED
      BY <3>1, <3>2 DEF Thread
  <2>3. added' \subseteq Clip /\ triaged' \subseteq Clip /\ mine' \in [Thread -> 0 .. N]
    BY <1>8, <2>2 DEF SaveWrite
  <2>4. lock' \in [Objects -> Worker \cup {None}]
    BY <1>8 DEF SaveWrite
  <2>5. fstate' \in {"ok", "empty", "garbage"}
    BY <1>8 DEF SaveWrite
  <2>6. pc' \in [Thread -> {"idle", "add", "prune", "open", "write", "upload"}]
    BY <1>8 DEF SaveWrite
  <2>7. QED
    BY <1>8, <2>1, <2>3, <2>4, <2>5, <2>6 DEF SaveWrite
<1>9. CASE Age
  <2>1. horizon' \in 0 .. N
    BY <1>9 DEF Age
  <2>2. QED
    BY <1>9, <2>1 DEF Age
<1>10. CASE Crash
  <2>1. attempt' \in [Worker -> 1 .. MaxAttempts] /\ crashes' \in 0 .. MaxCrashes
    BY <1>10 DEF Crash
  <2>2. recs' \in [Thread -> Records] /\ mine' \in [Thread -> 0 .. N]
    BY <1>10, NothingType DEF Crash
  <2>3. QED
    BY <1>10, <2>1, <2>2 DEF Crash
<1>11. CASE UNCHANGED vars
  BY <1>11 DEF vars
<1>12. QED
  BY <1>1, <1>2, <1>3, <1>4, <1>5, <1>6, <1>7, <1>8, <1>9, <1>10, <1>11 DEF Next

\* No step lists a clip that has not been built.
LEMMA OnlyBuiltClipsStep ==
    ASSUME BaseInv, [Next]_vars
    PROVE  OnlyBuiltClips'
<1> USE Bounds, ThreadsDiffer DEF BaseInv, OnlyBuiltClips, disk, handoff, hist, Goto
<1>1. /\ next \in Nat /\ mine \in [Thread -> 0 .. N] /\ recs \in [Thread -> Records]
      /\ pc \in [Thread -> {"idle", "add", "prune", "open", "write", "upload"}]
  BY DEF TypeOK
<1>2. ASSUME NEW w \in Worker, BuildClip(w)
      PROVE  OnlyBuiltClips'
  <2>1. /\ next' = next + 1 /\ next' \in 0 .. N
        /\ mine' = [mine EXCEPT ![w] = next + 1] /\ pc' = [pc EXCEPT ![w] = "add"]
        /\ UNCHANGED <<index, recs>>
    BY <1>1, <1>2 DEF BuildClip
  <2>2. Built \subseteq Built' /\ next + 1 \in Built'
    BY <1>1, <2>1 DEF Built
  <2>3. \A t \in Thread : pc'[t] \in {"add", "prune", "open", "write"} => mine'[t] \in Built'
    BY <1>1, <2>1, <2>2
  <2>4. QED
    BY <2>1, <2>2, <2>3
<1>3. ASSUME NEW w \in Worker, AddRead(w)
      PROVE  OnlyBuiltClips'
  <2>1. /\ recs' = [recs EXCEPT ![w] = WithNew(Listed, mine[w])]
        /\ pc[w] = "add" /\ pc' = [pc EXCEPT ![w] = "prune"]
        /\ UNCHANGED <<next, index, mine>>
    BY <1>3 DEF AddRead
  <2>2. mine[w] \in Built /\ mine[w] \in Clip
    BY <2>1 DEF Built, Clip
  <2>3. DOMAIN WithNew(Listed, mine[w]) \subseteq Built
    <3>1. Listed \in Records /\ DOMAIN Listed \subseteq Built
      BY ListedType
    <3>2. DOMAIN WithNew(Listed, mine[w]) = DOMAIN Listed \cup {mine[w]}
      BY <2>2, <3>1, ListTypes
    <3>3. QED
      BY <2>2, <3>1, <3>2
  <2>4. \A t \in Thread : DOMAIN recs'[t] \subseteq Built
    BY <1>1, <2>1, <2>3
  <2>5. QED
    BY <1>1, <2>1, <2>4 DEF Built
<1>4. ASSUME NEW w \in Worker, Prune(w)
      PROVE  OnlyBuiltClips'
  <2>1. /\ recs' = [recs EXCEPT ![w] = [c \in Survivors(DOMAIN recs[w]) |-> recs[w][c]]]
        /\ pc[w] = "prune" /\ pc' = [pc EXCEPT ![w] = "open"]
        /\ UNCHANGED <<next, index, mine>>
    BY <1>4 DEF Prune
  <2>2. \A t \in Thread : DOMAIN recs'[t] \subseteq Built
    BY <1>1, <2>1 DEF Survivors
  <2>3. QED
    BY <1>1, <2>1, <2>2 DEF Built
<1>5. ASSUME NEW w \in Worker, UploadEnds(w)
      PROVE  OnlyBuiltClips'
  <2>1. /\ pc' = [pc EXCEPT ![w] = "idle"] /\ mine' = [mine EXCEPT ![w] = 0]
        /\ UNCHANGED <<next, index, recs>>
    BY <1>5 DEF UploadEnds, UploadRest
  <2>2. QED
    BY <1>1, <2>1 DEF Built
<1>6. ASSUME NEW c \in Clip, SetStatusRead(c)
      PROVE  OnlyBuiltClips'
  <2>1. CASE c \in DOMAIN Listed
    <3>1. /\ recs' = [recs EXCEPT ![Gui] = [Listed EXCEPT ![c] = "confirmed"]]
          /\ pc' = [pc EXCEPT ![Gui] = "open"] /\ mine' = [mine EXCEPT ![Gui] = c]
          /\ UNCHANGED <<next, index>>
      BY <1>6, <2>1 DEF SetStatusRead
    <3>2. c \in Built /\ DOMAIN [Listed EXCEPT ![c] = "confirmed"] \subseteq Built
      BY <2>1, ListedType, ListTypes
    <3>3. \A t \in Thread : DOMAIN recs'[t] \subseteq Built
      BY <1>1, <3>1, <3>2
    <3>4. QED
      BY <1>1, <3>1, <3>2, <3>3 DEF Built
  <2>2. CASE c \notin DOMAIN Listed
    BY <1>6, <2>2 DEF SetStatusRead, Built
  <2>3. QED
    BY <2>1, <2>2
<1>7. ASSUME NEW t \in Thread, SaveOpen(t)
      PROVE  OnlyBuiltClips'
  <2>1. pc[t] = "open" /\ pc' = [pc EXCEPT ![t] = "write"] /\ UNCHANGED <<next, index, recs, mine>>
    BY <1>7 DEF SaveOpen
  <2>2. QED
    BY <1>1, <2>1 DEF Built
<1>8. ASSUME NEW t \in Thread, SaveWrite(t)
      PROVE  OnlyBuiltClips'
  <2>1. /\ index' = recs[t] /\ recs' = [recs EXCEPT ![t] = Nothing] /\ next' = next
        /\ \A u \in Thread : u # t => pc'[u] = pc[u] /\ mine'[u] = mine[u]
        /\ pc'[t] \in {"idle", "upload"}
    BY <1>1, <1>8 DEF SaveWrite
  <2>2. \A u \in Thread : DOMAIN recs'[u] \subseteq Built
    BY <1>1, <2>1, NothingType
  <2>3. QED
    BY <2>1, <2>2 DEF Built
<1>9. CASE Crash
  BY <1>1, <1>9, NothingType DEF Crash, Built
<1>10. CASE UNCHANGED <<next, index, recs, pc, mine>>
  BY <1>10 DEF Built
<1>11. QED
  BY <1>2, <1>3, <1>4, <1>5, <1>6, <1>7, <1>8, <1>9, <1>10
  DEF Next, UploadAgain, UploadRest, Escalate, EscalateFails, Age, vars

\* What all threads keep, whatever they race for.
THEOREM BaseInvariance == Spec => []BaseInv
<1>1. BaseInv /\ [Next]_vars => BaseInv'
  BY TypeStep, OnlyBuiltClipsStep DEF BaseInv
<1>2. QED
  BY BaseInit, <1>1, PTL DEF Spec

\* Every variable of the store and its threads keeps its type.
THEOREM TypeCorrect == Spec => []TypeOK
<1>1. BaseInv => TypeOK
  BY DEF BaseInv
<1>2. QED
  BY <1>1, BaseInvariance, PTL

(***************************************************************************)
(* Retention                                                               *)
(***************************************************************************)

\* What one prune deletes is too old, or MaxClips newer clips have been built.
LEMMA PrunedIsOld ==
    ASSUME next \in Nat, horizon \in Nat, NEW D \in SUBSET Built, NEW c \in D \ Survivors(D)
    PROVE  c <= horizon \/ next - c >= MaxClips
<1> DEFINE Newer == {d \in D : d > c}
<1>1. c \in Nat /\ c >= 1 /\ c <= next
  BY DEF Built
<1>2. Newer \in SUBSET ((c + 1) .. next)
  <2>1. \A d \in Newer : d \in Nat /\ c + 1 <= d /\ d <= next
    BY <1>1 DEF Built
  <2>2. \A d \in Newer : d \in (c + 1) .. next
    BY <1>1, <2>1
  <2>3. QED
    BY <2>2
<1>3. IsFiniteSet((c + 1) .. next) /\ Cardinality((c + 1) .. next) = next - c
  <2>1. /\ IsFiniteSet((c + 1) .. next)
        /\ Cardinality((c + 1) .. next) = IF c + 1 > next THEN 0 ELSE next - (c + 1) + 1
    BY <1>1, FS_Interval
  <2>2. QED
    BY <1>1, <2>1
<1>4. Cardinality(Newer) <= next - c /\ Cardinality(Newer) \in Nat
  BY <1>2, <1>3, FS_Subset, FS_CardinalityType
<1>5. CASE ~(c > horizon)
  BY <1>1, <1>5
<1>6. CASE ~(Cardinality(Newer) < MaxClips)
  BY <1>1, <1>4, <1>6, Bounds
<1>7. QED
  BY <1>5, <1>6 DEF Survivors

\* The files that a step deletes are those retention gives up.
LEMMA NoEarlyDeletionStep ==
    ASSUME NamesDiffer, BaseInv, BaseInv', NoEarlyDeletion, [Next]_vars
    PROVE  NoEarlyDeletion'
<1> USE DEF NoEarlyDeletion, disk, handoff, hist, Goto
<1>1. next \in Nat /\ horizon \in Nat /\ next <= N /\ N \in Nat
  BY Bounds DEF BaseInv, TypeOK
<1>2. ASSUME NEW w \in Worker, BuildClip(w)
      PROVE  NoEarlyDeletion'
  <2>1. next' = next + 1 /\ horizon' = horizon /\ files' = files \cup {Name[next + 1]}
    BY <1>2 DEF BuildClip
  <2>2. ASSUME NEW c \in 1 .. next', Name[c] \notin files'
        PROVE  c <= horizon' \/ next' - c >= MaxClips
    <3>1. c # next + 1 /\ Name[c] \notin files
      BY <2>1, <2>2
    <3>2. c \in 1 .. next
      BY <1>1, <2>1, <3>1
    <3>3. c <= horizon \/ next - c >= MaxClips
      BY <3>1, <3>2
    <3>4. QED
      BY <1>1, <2>1, <3>2, <3>3, Bounds
  <2>3. QED
    BY <2>2
<1>3. ASSUME NEW w \in Worker, Prune(w)
      PROVE  NoEarlyDeletion'
  <2> DEFINE D == DOMAIN recs[w]
  <2>1. /\ next' = next /\ horizon' = horizon
        /\ files' = files \ {Name[c] : c \in D \ Survivors(D)}
    BY <1>3 DEF Prune
  <2>2. D \subseteq Built
    BY ThreadsDiffer DEF BaseInv, OnlyBuiltClips
  <2>3. ASSUME NEW c \in 1 .. next, Name[c] \notin files', Name[c] \in files
        PROVE  c <= horizon \/ next - c >= MaxClips
    <3>1. PICK d \in D \ Survivors(D) : Name[d] = Name[c]
      BY <2>1, <2>3
    <3>2. c \in Clip /\ d \in Clip
      BY <1>1, <2>2, <3>1 DEF Built, Clip
    <3>3. d = c
      BY <3>1, <3>2 DEF NamesDiffer
    <3>4. QED
      BY <1>1, <2>2, <3>1, <3>3, PrunedIsOld
  <2>4. QED
    BY <2>1, <2>3
<1>4. CASE Age
  <2>1. next' = next /\ horizon' = horizon + 1 /\ files' = files
    BY <1>4 DEF Age
  <2>2. QED
    BY <1>1, <2>1
<1>5. CASE UNCHANGED <<next, horizon, files>>
  BY <1>5
<1>6. QED
  BY <1>2, <1>3, <1>4, <1>5
  DEF Next, AddRead, UploadEnds, UploadAgain, UploadRest, Escalate, EscalateFails, SetStatusRead,
      SaveOpen, SaveWrite, Crash, vars

\* Clips of different names are deleted by nothing but retention: one that is not too old and
\* among the MaxClips newest is on disk, however many workers of however many stores,
\* the window, crashes and unreadable indexes come together.
THEOREM RetentionOnly ==
    ASSUME NamesDiffer
    PROVE  Spec => []NoEarlyDeletion
<1>1. Init => NoEarlyDeletion
  BY DEF Init, NoEarlyDeletion
<1>2. BaseInv /\ BaseInv' /\ NoEarlyDeletion /\ [Next]_vars => NoEarlyDeletion'
  BY NoEarlyDeletionStep
<1>3. QED
  BY <1>1, <1>2, BaseInvariance, PTL DEF Spec

(***************************************************************************)
(* Index and files                                                         *)
(***************************************************************************)

\* Workers between the building of a clip and the saving of the index with it, ...
Adding(w) == pc[w] \in {"add", "prune", "open", "write"}

\* ... those that have pruned the files for the index they are going to save, ...
Saving(w) == pc[w] \in {"open", "write"}

\* ... and the clips that no prune has looked at yet.
Fresh == {mine[w] : w \in {v \in Worker : pc[v] \in {"add", "prune"}}}

\* A worker in the critical section has the lock of its store.
LockHeld == \A w \in Worker : pc[w] \in {"prune", "open", "write"} => lock[Store[w]] = w

\* Each worker adds a clip of its own, which neither the index nor another thread's list has.
OwnClips ==
    \A v \in Worker : Adding(v) =>
        /\ mine[v] \notin DOMAIN index
        /\ \A t \in Thread \ {v} : mine[v] \notin DOMAIN recs[t]
        /\ \A w \in Worker \ {v} : Adding(w) => mine[v] # mine[w]

\* Only workers have begun to write the index, and none of them was killed at it.
Clean == triaged = {} /\ crashes = 0 /\ pc[Gui] # "write"

\* So far the file has been emptied by nobody but a worker that writes it, a worker that prunes has
\* read the index as it is, and the files are those of the fresh clips and of the list that
\* is or will be saved.
Agreement ==
    Clean =>
        /\ fstate = IF \E w \in Worker : pc[w] = "write" THEN "empty" ELSE "ok"
        /\ \A w \in Worker : pc[w] = "prune" => DOMAIN recs[w] = DOMAIN index \cup {mine[w]}
        /\ (\A w \in Worker : ~Saving(w)) => files = {Name[c] : c \in DOMAIN index \cup Fresh}
        /\ \A w \in Worker : Saving(w) => files = {Name[c] : c \in DOMAIN recs[w] \cup Fresh}

IndexInv == BaseInv /\ LockHeld /\ OwnClips /\ Agreement

\* A thread takes the lock of its store before it touches list or index, and leaves it after.
LEMMA LockHeldStep ==
    ASSUME BaseInv, LockHeld, [Next]_vars
    PROVE  LockHeld'
<1> USE ThreadsDiffer, ThreadAssumption DEF BaseInv, LockHeld, handoff, hist, disk, Goto
<1>1. /\ pc \in [Thread -> {"idle", "add", "prune", "open", "write", "upload"}]
      /\ lock \in [Objects -> Worker \cup {None}]
      /\ \A w \in Worker : Store[w] \in Objects
  BY DEF TypeOK, Objects
<1>2. ASSUME NEW w \in Worker, AddRead(w)
      PROVE  LockHeld'
  <2>1. /\ lock[Store[w]] = None /\ lock' = [lock EXCEPT ![Store[w]] = w]
        /\ pc' = [pc EXCEPT ![w] = "prune"]
    BY <1>2 DEF AddRead
  <2>2. QED
    BY <1>1, <2>1
<1>3. ASSUME NEW t \in Thread, SaveWrite(t)
      PROVE  LockHeld'
  <2>1. /\ lock' = [o \in Objects |-> IF lock[o] = t THEN None ELSE lock[o]]
        /\ pc'[t] \in {"idle", "upload"} /\ \A u \in Thread \ {t} : pc'[u] = pc[u]
    BY <1>1, <1>3 DEF SaveWrite
  <2>2. QED
    BY <1>1, <2>1
<1>4. ASSUME NEW t \in Thread, UNCHANGED lock,
             pc'[t] \in {"prune", "open", "write"} => pc[t] \in {"prune", "open", "write"},
             \A u \in Thread \ {t} : pc'[u] = pc[u]
      PROVE  LockHeld'
  BY <1>4
<1>5. ASSUME NEW w \in Worker, BuildClip(w) \/ Prune(w) \/ UploadEnds(w)
      PROVE  LockHeld'
  <2>1. UNCHANGED lock /\ (pc'[w] \in {"prune", "open", "write"} => pc[w] \in {"prune", "open", "write"})
        /\ \A u \in Thread \ {w} : pc'[u] = pc[u]
    BY <1>1, <1>5 DEF BuildClip, Prune, UploadEnds, UploadRest
  <2>2. QED
    BY <1>4, <2>1
<1>6. ASSUME NEW t \in Thread, SaveOpen(t)
      PROVE  LockHeld'
  BY <1>1, <1>6 DEF SaveOpen
<1>7. ASSUME NEW c \in Clip, SetStatusRead(c)
      PROVE  LockHeld'
  BY <1>1, <1>7 DEF SetStatusRead
<1>8. CASE Crash
  BY <1>8 DEF Crash
<1>9. CASE UNCHANGED <<lock, pc>>
  BY <1>9
<1>10. QED
  BY <1>2, <1>3, <1>5, <1>6, <1>7, <1>8, <1>9
  DEF Next, UploadAgain, UploadRest, Escalate, EscalateFails, Age, vars

\* Every worker is busy with a clip of its own.
LEMMA OwnClipsStep ==
    ASSUME BaseInv, OwnClips, [Next]_vars
    PROVE  OwnClips'
<1> USE ThreadsDiffer DEF OwnClips, Adding, handoff, hist, disk, Goto
<1>1. /\ pc \in [Thread -> {"idle", "add", "prune", "open", "write", "upload"}]
      /\ mine \in [Thread -> 0 .. N] /\ recs \in [Thread -> Records]
      /\ next \in Nat
  BY Bounds DEF BaseInv, TypeOK
<1>2. ASSUME NEW w \in Worker, BuildClip(w)
      PROVE  OwnClips'
  <2>1. /\ mine' = [mine EXCEPT ![w] = next + 1] /\ pc' = [pc EXCEPT ![w] = "add"]
        /\ UNCHANGED <<index, recs>>
    BY <1>2 DEF BuildClip
  <2>2. next + 1 \notin Built
    BY <1>1 DEF Built
  <2>3. next + 1 \notin DOMAIN index /\ \A t \in Thread : next + 1 \notin DOMAIN recs[t]
    BY <2>2 DEF BaseInv, OnlyBuiltClips
  <2>4. \A v \in Worker : Adding(v) => mine[v] # next + 1
    BY <2>2 DEF BaseInv, OnlyBuiltClips
  <2>5. QED
    BY <1>1, <2>1, <2>3, <2>4
<1>3. ASSUME NEW w \in Worker, AddRead(w)
      PROVE  OwnClips'
  <2>1. /\ recs' = [recs EXCEPT ![w] = WithNew(Listed, mine[w])]
        /\ pc[w] = "add" /\ pc' = [pc EXCEPT ![w] = "prune"]
        /\ UNCHANGED <<index, mine>>
    BY <1>3 DEF AddRead
  <2>2. DOMAIN recs'[w] \subseteq DOMAIN index \cup {mine[w]}
    <3>1. Listed \in Records /\ DOMAIN Listed \subseteq DOMAIN index
      BY ListedType DEF BaseInv
    <3>2. mine[w] \in Clip
      BY Bounds, <2>1 DEF BaseInv, OnlyBuiltClips, Built, Clip
    <3>3. DOMAIN WithNew(Listed, mine[w]) = DOMAIN Listed \cup {mine[w]}
      BY <3>1, <3>2, ListTypes
    <3>4. QED
      BY <1>1, <2>1, <3>1, <3>3
  <2>3. QED
    BY <1>1, <2>1, <2>2
<1>4. ASSUME NEW w \in Worker, Prune(w)
      PROVE  OwnClips'
  <2>1. /\ recs' = [recs EXCEPT ![w] = [c \in Survivors(DOMAIN recs[w]) |-> recs[w][c]]]
        /\ pc[w] = "prune" /\ pc' = [pc EXCEPT ![w] = "open"]
        /\ UNCHANGED <<index, mine>>
    BY <1>4 DEF Prune
  <2>2. DOMAIN recs'[w] \subseteq DOMAIN recs[w]
    BY <1>1, <2>1 DEF Survivors
  <2>3. QED
    BY <1>1, <2>1, <2>2
<1>5. ASSUME NEW w \in Worker, UploadEnds(w)
      PROVE  OwnClips'
  <2>1. /\ pc[w] = "upload" /\ pc' = [pc EXCEPT ![w] = "idle"] /\ mine' = [mine EXCEPT ![w] = 0]
        /\ UNCHANGED <<index, recs>>
    BY <1>5 DEF UploadEnds, UploadRest
  <2>2. QED
    BY <1>1, <2>1
<1>6. ASSUME NEW c \in Clip, SetStatusRead(c)
      PROVE  OwnClips'
  <2>1. CASE c \in DOMAIN Listed
    <3>1. /\ recs' = [recs EXCEPT ![Gui] = [Listed EXCEPT ![c] = "confirmed"]]
          /\ pc' = [pc EXCEPT ![Gui] = "open"] /\ mine' = [mine EXCEPT ![Gui] = c]
          /\ UNCHANGED index
      BY <1>6, <2>1 DEF SetStatusRead
    <3>2. DOMAIN recs'[Gui] \subseteq DOMAIN index
      BY <1>1, <2>1, <3>1, ListedType, ListTypes DEF BaseInv
    <3>3. QED
      BY <1>1, <3>1, <3>2
  <2>2. CASE c \notin DOMAIN Listed
    BY <1>6, <2>2 DEF SetStatusRead
  <2>3. QED
    BY <2>1, <2>2
<1>7. ASSUME NEW t \in Thread, SaveOpen(t)
      PROVE  OwnClips'
  BY <1>1, <1>7 DEF SaveOpen
<1>8. ASSUME NEW t \in Thread, SaveWrite(t)
      PROVE  OwnClips'
  <2>1. /\ index' = recs[t] /\ recs' = [recs EXCEPT ![t] = Nothing]
        /\ pc'[t] \in {"idle", "upload"}
        /\ \A u \in Thread \ {t} : pc'[u] = pc[u] /\ mine'[u] = mine[u]
    BY <1>1, <1>8 DEF SaveWrite
  <2>2. QED
    BY <1>1, <2>1, NothingType
<1>9. CASE Crash
  BY <1>9 DEF Crash
<1>10. CASE UNCHANGED <<index, recs, pc, mine>>
  BY <1>10
<1>11. QED
  BY <1>2, <1>3, <1>4, <1>5, <1>6, <1>7, <1>8, <1>9, <1>10
  DEF Next, UploadAgain, UploadRest, Escalate, EscalateFails, Age, vars

\* What has not been clean stays so: the window's write, or a crash, leaves its trace.
LEMMA CleanStep ==
    ASSUME BaseInv, [Next]_vars, Clean'
    PROVE  Clean /\ ~Crash /\ ~SaveOpen(Gui) /\ ~SaveWrite(Gui)
<1> USE ThreadsDiffer DEF BaseInv, Clean, hist, disk, handoff, Goto
<1>1. /\ pc \in [Thread -> {"idle", "add", "prune", "open", "write", "upload"}]
      /\ crashes \in Nat
  BY Bounds DEF TypeOK
<1>2. ~Crash
  BY <1>1 DEF Crash
<1>3. ~SaveOpen(Gui) /\ ~SaveWrite(Gui)
  BY <1>1 DEF SaveOpen, SaveWrite
<1>4. UNCHANGED crashes
  BY <1>2 DEF Next, BuildClip, AddRead, Prune, UploadEnds, UploadAgain, UploadRest, Escalate,
              EscalateFails, SetStatusRead, SaveOpen, SaveWrite, Age, vars
<1>5. triaged \subseteq triaged'
  BY <1>2 DEF Next, BuildClip, AddRead, Prune, UploadEnds, UploadAgain, UploadRest, Escalate,
              EscalateFails, SetStatusRead, SaveOpen, SaveWrite, Age, vars
<1>6. pc[Gui] # "write"
  <2>1. \A w \in Worker : BuildClip(w) \/ AddRead(w) \/ Prune(w) \/ UploadEnds(w) => pc'[Gui] = pc[Gui]
    BY <1>1 DEF BuildClip, AddRead, Prune, UploadEnds, UploadRest
  <2>2. \A t \in Thread \ {Gui} : SaveOpen(t) \/ SaveWrite(t) => pc'[Gui] = pc[Gui]
    BY <1>1 DEF SaveOpen, SaveWrite
  <2>3. \A c \in Clip : SetStatusRead(c) => pc[Gui] # "write"
    BY DEF SetStatusRead
  <2>4. QED
    BY <1>2, <1>3, <2>1, <2>2, <2>3
    DEF Next, UploadAgain, UploadRest, Escalate, EscalateFails, Age, vars
<1>7. QED
  BY <1>2, <1>3, <1>4, <1>5, <1>6

\* The lock of the one store lets one worker at a time read, prune and save.
LEMMA OneAtATime ==
    ASSUME StoreIsShared, LockHeld,
           NEW v \in Worker, NEW w \in Worker,
           pc[v] \in {"prune", "open", "write"}, pc[w] \in {"prune", "open", "write"}
    PROVE  v = w
BY DEF StoreIsShared, LockHeld

\* Each step keeps files, list and index of the shared store together.
LEMMA AgreementStep ==
    ASSUME NamesDiffer, StoreIsShared, IndexInv, BaseInv', [Next]_vars
    PROVE  Agreement'
<1> SUFFICES ASSUME Clean'
             PROVE  Agreement'
  BY DEF Agreement
<1> USE ThreadsDiffer DEF IndexInv, Saving, disk, handoff, hist, Goto
<1>1. /\ Clean /\ ~Crash /\ ~SaveOpen(Gui) /\ ~SaveWrite(Gui)
      /\ fstate = IF \E w \in Worker : pc[w] = "write" THEN "empty" ELSE "ok"
      /\ \A w \in Worker : pc[w] = "prune" => DOMAIN recs[w] = DOMAIN index \cup {mine[w]}
      /\ (\A w \in Worker : ~Saving(w)) => files = {Name[c] : c \in DOMAIN index \cup Fresh}
      /\ \A w \in Worker : Saving(w) => files = {Name[c] : c \in DOMAIN recs[w] \cup Fresh}
  BY CleanStep DEF Agreement
<1>2. /\ pc \in [Thread -> {"idle", "add", "prune", "open", "write", "upload"}]
      /\ mine \in [Thread -> 0 .. N] /\ recs \in [Thread -> Records]
  BY DEF BaseInv, TypeOK
<1>3. ASSUME NEW w \in Worker, BuildClip(w)
      PROVE  Agreement'
  <2>1. /\ mine' = [mine EXCEPT ![w] = next + 1]
        /\ pc[w] = "idle" /\ pc' = [pc EXCEPT ![w] = "add"]
        /\ files' = files \cup {Name[next + 1]}
        /\ UNCHANGED <<index, fstate, recs>>
    BY <1>3 DEF BuildClip
  <2>2. Fresh' = Fresh \cup {next + 1}
    BY <1>2, <2>1 DEF Fresh
  <2>3. \A v \in Worker : Saving(v)' <=> Saving(v)
    BY <1>2, <2>1
  <2>4. \A v \in Worker : (pc'[v] = "write" <=> pc[v] = "write")
                          /\ (pc'[v] = "prune" => pc[v] = "prune" /\ mine'[v] = mine[v])
    BY <1>2, <2>1
  <2>5. (\A v \in Worker : ~Saving(v)') => files' = {Name[c] : c \in DOMAIN index \cup Fresh'}
    BY <1>1, <2>1, <2>2, <2>3
  <2>6. \A v \in Worker : Saving(v)' => files' = {Name[c] : c \in DOMAIN recs[v] \cup Fresh'}
    BY <1>1, <2>1, <2>2, <2>3
  <2>7. QED
    BY <1>1, <2>1, <2>4, <2>5, <2>6 DEF Agreement
<1>4. ASSUME NEW w \in Worker, AddRead(w)
      PROVE  Agreement'
  <2>1. /\ lock[Store[w]] = None
        /\ recs' = [recs EXCEPT ![w] = WithNew(Listed, mine[w])]
        /\ pc[w] = "add" /\ pc' = [pc EXCEPT ![w] = "prune"]
        /\ UNCHANGED <<files, index, fstate, mine>>
    BY <1>4 DEF AddRead
  <2>2. \A v \in Worker : pc[v] \notin {"prune", "open", "write"}
    BY <2>1, ThreadAssumption DEF LockHeld, StoreIsShared
  <2>3. Listed = index
    BY <1>1, <2>2 DEF Listed
  <2>4. DOMAIN recs'[w] = DOMAIN index \cup {mine[w]}
    <3>1. mine[w] \in Clip /\ index \in Records
      BY Bounds, <2>1 DEF BaseInv, OnlyBuiltClips, TypeOK, Built, Clip
    <3>2. DOMAIN WithNew(index, mine[w]) = DOMAIN index \cup {mine[w]}
      BY <3>1, ListTypes
    <3>3. QED
      BY <1>2, <2>1, <2>3, <3>2
  <2>5. Fresh' = Fresh
    BY <1>2, <2>1 DEF Fresh
  <2>6. \A v \in Worker : pc'[v] \notin {"open", "write"} /\ (pc'[v] = "prune" => v = w)
    BY <1>2, <2>1, <2>2
  <2>7. files = {Name[c] : c \in DOMAIN index \cup Fresh}
    BY <1>1, <2>2
  <2>8. fstate = "ok"
    BY <1>1, <2>2
  <2>9. QED
    BY <2>1, <2>4, <2>5, <2>6, <2>7, <2>8 DEF Agreement
<1>5. ASSUME NEW w \in Worker, Prune(w)
      PROVE  Agreement'
  <2> DEFINE D == DOMAIN recs[w]
  <2>1. /\ files' = files \ {Name[c] : c \in D \ Survivors(D)}
        /\ recs' = [recs EXCEPT ![w] = [c \in Survivors(D) |-> recs[w][c]]]
        /\ pc[w] = "prune" /\ pc' = [pc EXCEPT ![w] = "open"]
        /\ UNCHANGED <<index, fstate, mine>>
    BY <1>5 DEF Prune
  <2>2. \A v \in Worker : v # w => pc[v] \notin {"prune", "open", "write"}
    BY <2>1, OneAtATime
  <2>3. \A v \in Worker : v # w => pc'[v] = pc[v]
    BY <1>2, <2>1
  <2>4. D = DOMAIN index \cup {mine[w]} /\ files = {Name[c] : c \in DOMAIN index \cup Fresh}
    BY <1>1, <2>1, <2>2
  <2>5. Fresh = Fresh' \cup {mine[w]}
    BY <1>2, <2>1, <2>3 DEF Fresh
  <2>6. Fresh' \cap D = {}
    <3>1. ASSUME NEW v \in Worker, v # w, pc[v] = "add"
          PROVE  mine[v] \notin D
      BY <2>1, <2>4, <3>1 DEF OwnClips, Adding
    <3>2. Fresh' \subseteq {mine[v] : v \in {u \in Worker : u # w /\ pc[u] = "add"}}
      BY <1>2, <2>1, <2>2, <2>3 DEF Fresh
    <3>3. QED
      BY <3>1, <3>2
  <2>7. D \subseteq Clip /\ Fresh' \subseteq Clip
    <3>1. D \subseteq Clip
      BY <1>2, ListTypes
    <3>2. Fresh \subseteq Clip
      BY Bounds DEF Fresh, BaseInv, OnlyBuiltClips, TypeOK, Built, Clip
    <3>3. QED
      BY <2>5, <3>1, <3>2
  <2>8. Survivors(D) \subseteq D
    BY DEF Survivors
  <2>9. files = {Name[c] : c \in D \cup Fresh'}
    BY <2>4, <2>5
  <2> HIDE DEF D
  <2>10. files' = {Name[c] : c \in Survivors(D) \cup Fresh'}
    <3>1. \A c \in Survivors(D) \cup Fresh' : Name[c] \in files'
      BY <2>1, <2>6, <2>7, <2>8, <2>9 DEF NamesDiffer
    <3>2. \A f \in files' : \E c \in Survivors(D) \cup Fresh' : f = Name[c]
      BY <2>1, <2>9
    <3>3. QED
      BY <3>1, <3>2
  <2>11. DOMAIN recs'[w] = Survivors(D)
    BY <1>2, <2>1
  <2>12. \A v \in Worker : pc'[v] \notin {"prune", "write"} /\ (Saving(v)' <=> v = w)
    BY <1>2, <2>1, <2>2, <2>3
  <2>13. fstate = "ok"
    BY <1>1, <2>1, <2>2
  <2>14. QED
    BY <2>1, <2>10, <2>11, <2>12, <2>13 DEF Agreement
<1>6. ASSUME NEW w \in Worker, SaveOpen(w)
      PROVE  Agreement'
  <2>1. /\ pc[w] = "open" /\ pc' = [pc EXCEPT ![w] = "write"] /\ fstate' = "empty"
        /\ UNCHANGED <<files, index, mine, recs>>
    BY <1>6 DEF SaveOpen
  <2>2. Fresh' = Fresh /\ \A v \in Worker : Saving(v)' <=> Saving(v)
    BY <1>2, <2>1 DEF Fresh
  <2>3. QED
    BY <1>1, <1>2, <2>1, <2>2 DEF Agreement
<1>7. ASSUME NEW w \in Worker, SaveWrite(w)
      PROVE  Agreement'
  <2>1. /\ pc[w] = "write" /\ pc' = [pc EXCEPT ![w] = "upload"]
        /\ fstate = "empty" => fstate' = "ok"
        /\ index' = recs[w] /\ recs' = [recs EXCEPT ![w] = Nothing]
        /\ UNCHANGED <<files, mine>>
    BY <1>7 DEF SaveWrite
  <2>2. \A v \in Worker : v # w => pc[v] \notin {"prune", "open", "write"}
    BY <2>1, OneAtATime
  <2>3. fstate' = "ok" /\ \A v \in Worker : pc'[v] \notin {"prune", "open", "write"}
    BY <1>1, <1>2, <2>1, <2>2
  <2>4. Fresh' = Fresh
    BY <1>2, <2>1 DEF Fresh
  <2>5. files' = {Name[c] : c \in DOMAIN index' \cup Fresh'}
    BY <1>1, <2>1, <2>4
  <2>6. QED
    BY <2>3, <2>5 DEF Agreement
<1>8. ASSUME NEW w \in Worker, UploadEnds(w)
      PROVE  Agreement'
  <2>1. /\ pc[w] = "upload" /\ pc' = [pc EXCEPT ![w] = "idle"] /\ mine' = [mine EXCEPT ![w] = 0]
        /\ UNCHANGED <<files, index, fstate, recs>>
    BY <1>8 DEF UploadEnds, UploadRest
  <2>2. Fresh' = Fresh
    BY <1>2, <2>1 DEF Fresh
  <2>3. \A v \in Worker : (v # w => pc'[v] = pc[v] /\ mine'[v] = mine[v]) /\ pc'[w] = "idle"
    BY <1>2, <2>1
  <2>4. QED
    BY <1>1, <2>1, <2>2, <2>3 DEF Agreement
<1>9. ASSUME NEW c \in Clip, SetStatusRead(c)
      PROVE  Agreement'
  <2>1. UNCHANGED <<files, index, fstate>>
        /\ \A v \in Worker : pc'[v] = pc[v] /\ mine'[v] = mine[v] /\ recs'[v] = recs[v]
    BY <1>2, <1>9 DEF SetStatusRead
  <2>2. Fresh' = Fresh
    BY <2>1 DEF Fresh
  <2>3. QED
    BY <1>1, <2>1, <2>2 DEF Agreement
<1>10. CASE UNCHANGED <<files, index, fstate, pc, mine, recs>>
  <2>1. Fresh' = Fresh
    BY <1>10 DEF Fresh
  <2>2. QED
    BY <1>1, <1>10, <2>1 DEF Agreement
<1>11. QED
  BY <1>1, <1>3, <1>4, <1>5, <1>6, <1>7, <1>8, <1>9, <1>10
  DEF Next, Thread, UploadAgain, UploadRest, Escalate, EscalateFails, Age, vars

\* As long as only the workers of one store have written, index and files agree whenever the
\* store is at rest, for any number of workers and any order of their adds and prunes.
THEOREM IndexAndFilesAgree ==
    ASSUME NamesDiffer, StoreIsShared
    PROVE  Spec => []IndexMatchesFiles
<1>1. Init => IndexInv
  <2> SUFFICES ASSUME Init
               PROVE  IndexInv
    OBVIOUS
  <2>1. \A w \in Worker : pc[w] = "idle"
    BY ThreadsDiffer DEF Init
  <2>2. Fresh = {} /\ DOMAIN index = {}
    BY <2>1, NothingType DEF Init, Fresh
  <2>3. Agreement
    BY <2>1, <2>2 DEF Init, Agreement, Saving
  <2>4. QED
    BY <2>1, <2>3, BaseInit DEF IndexInv, LockHeld, OwnClips, Adding
<1>2. IndexInv /\ BaseInv' /\ [Next]_vars => IndexInv'
  BY LockHeldStep, OwnClipsStep, AgreementStep DEF IndexInv
<1>3. IndexInv => IndexMatchesFiles
  <2> SUFFICES ASSUME IndexInv, WorkersOnly
               PROVE  NothingOrphaned /\ \A c \in DOMAIN Listed : Name[c] \in files
    BY DEF IndexMatchesFiles
  <2>1. \A t \in Thread : pc[t] \in {"idle", "add", "upload"}
    BY DEF WorkersOnly, AllIdle
  <2>2. Clean
    BY <2>1, ThreadsDiffer DEF WorkersOnly, Clean
  <2>3. \A w \in Worker : ~Saving(w) /\ pc[w] # "write"
    BY <2>1, ThreadsDiffer DEF Saving
  <2>4. files = {Name[c] : c \in DOMAIN index \cup Fresh} /\ Listed = index
    BY <2>2, <2>3 DEF IndexInv, Agreement, Listed
  <2>5. Fresh \subseteq InHand
    BY DEF Fresh, InHand
  <2>6. QED
    BY <2>4, <2>5 DEF NothingOrphaned
<1>4. QED
  BY <1>1, <1>2, <1>3, BaseInvariance, PTL DEF Spec
=============================================================================
