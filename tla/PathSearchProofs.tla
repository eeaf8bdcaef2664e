-------------------------- MODULE PathSearchProofs --------------------------
(***************************************************************************)
(* For every number of ports, paths and worker threads the search of       *)
(* discovery_service.py implements RtspSearch: no batch is started after   *)
(* the camera has rejected the password, and "auth" is only answered after *)
(* a rejection.  A search that gives up in time has tried every path, which *)
(* is shown by counting the probes: of those whose outcome it has not seen *)
(* each lies ready, runs or waits, and no path is probed twice.            *)
(*                                                                         *)
(* The last part is about the live page of LiveView, for every set of      *)
(* cameras and any number of visits: which readers run, which of them have *)
(* been told to stop, that one of their two threads paints, and that a     *)
(* reader that was left and has ended stays so.                            *)
(***************************************************************************)
EXTENDS PathSearch, LiveView, FiniteSetTheorems, TLAPS

\* What the searching thread knows of the probes while it waits.
SearchInv ==
    /\ phase \in {"onvif", "wait"} => answer = "open"
    /\ next \in Nat \ {0}
    /\ path \in [Worker -> Path]
    /\ answer = "open" => (refused # {} <=> Said("auth"))

\* Initially no probe was rejected.
LEMMA InitInv == Init => SearchInv
  BY SearchAssumption DEF Init, SearchInv, Said, Path

\* A worker's outcome reaches the searching thread together with the rejection it records.
LEMMA PoolInv == SearchInv /\ Pool => SearchInv'
<1> SUFFICES ASSUME SearchInv, NEW k \in Worker, Take(k) \/ Launch(k) \/ Ends(k)
             PROVE  SearchInv'
  BY DEF Pool
<1>1. CASE Take(k)
  BY <1>1, SearchAssumption DEF Take, SearchInv, Said, Path, camera, results, hist
<1>2. CASE Launch(k)
  BY <1>2 DEF Launch, SearchInv, Said, camera, results, hist
<1>3. CASE Ends(k)
  <2>1. PICK o \in Says(path[k]) :
          /\ out' = IF answer = "open" THEN out \cup {<<path[k], o>>} ELSE out
          /\ refused' = IF o = "auth" THEN refused \cup {<<batch, path[k]>>} ELSE refused
          /\ missed' = IF o = "miss" THEN missed \cup {<<batch, path[k]>>} ELSE missed
    BY <1>3 DEF Ends
  <2>2. path[k] \in Path /\ UNCHANGED <<phase, answer, next, path>>
    BY <1>3 DEF Ends, SearchInv, camera, hist
  <2>3. ASSUME answer = "open" PROVE (refused' # {} <=> Said("auth")')
    <3>1. CASE o = "auth"
      BY <2>1, <2>2, <2>3, <3>1 DEF Said, Path
    <3>2. CASE o # "auth"
      <4>1. Said("auth")' <=> Said("auth")
        BY <2>1, <2>3, <3>2 DEF Said, Path
      <4>2. QED BY <2>1, <2>3, <3>2, <4>1 DEF SearchInv
    <3>3. QED BY <3>1, <3>2
  <2>4. QED BY <2>2, <2>3 DEF SearchInv, Path
<1>4. QED BY <1>1, <1>2, <1>3

\* The searching thread clears the outcomes only when none of them is a rejection.
LEMMA SearchKeepsInv == SearchInv /\ Search => SearchInv'
<1> SUFFICES ASSUME SearchInv, Search PROVE SearchInv'
  OBVIOUS
<1>1. CASE Onvif
  BY <1>1 DEF Onvif, SearchInv, Said, Path, camera, pool, results, hist
<1>2. CASE Collect
  BY <1>2 DEF Collect, NextBatch, Leave, SearchInv, Said, Path, camera, pool, results, hist
<1>3. CASE GiveUp
  BY <1>3 DEF GiveUp, Leave, SearchInv, Said, Path, camera, pool, results, hist
<1>4. CASE Cancel
  BY <1>4, SearchAssumption DEF Cancel, SearchInv, Said, Path, camera, results, hist
<1>5. CASE Kill
  BY <1>5 DEF Kill, SearchInv, Said, Path, camera, results, hist
<1>6. QED BY <1>1, <1>2, <1>3, <1>4, <1>5 DEF Search

\* Every step keeps what the searching thread knows.
LEMMA NextInv == SearchInv /\ [Next]_vars => SearchInv'
<1>1. ASSUME SearchInv, DeadlinePasses PROVE SearchInv'
  BY <1>1 DEF DeadlinePasses, SearchInv, Said, Path, camera, pool, results, hist
<1>2. ASSUME SearchInv, UNCHANGED vars PROVE SearchInv'
  BY <1>2 DEF vars, SearchInv, Said, Path, camera, pool, results, hist
<1>3. QED BY <1>1, <1>2, PoolInv, SearchKeepsInv DEF Next

\* Each step of the search is a step of RtspSearch or changes nothing it sees.
LEMMA StepRefines == SearchInv /\ [Next]_vars => [Abstract!Next]_(Abstract!vars)
<1> SUFFICES ASSUME SearchInv, [Next]_vars PROVE [Abstract!Next]_(Abstract!vars)
  OBVIOUS
<1> USE DEF Abstract!Next, Abstract!vars
<1>1. CASE Onvif
  <2>1. /\ answer = "open" /\ answer' \in {"open", "onvif", "noffmpeg"}
        /\ UNCHANGED <<batch, refused>>
    BY <1>1, ZenonT(60) DEF Onvif, SearchInv, hist
  <2>2. QED BY <2>1 DEF Abstract!Answer
<1>2. CASE Collect
  <2>0. answer = "open" /\ UNCHANGED refused
    BY <1>2 DEF Collect, SearchInv, hist
  <2>1. CASE Said("hit") /\ Leave("hit")
    BY <2>0, <2>1 DEF Leave, Abstract!Answer
  <2>2. CASE Said("auth") /\ Leave("auth")
    BY <2>0, <2>2 DEF Leave, SearchInv, Abstract!Answer
  <2>3. CASE ~Said("auth") /\ NextBatch
    BY <2>0, <2>3 DEF NextBatch, Leave, SearchInv, Abstract!Advance, Abstract!Answer
  <2>4. CASE UNCHANGED <<batch, answer>>
    BY <2>0, <2>4
  <2>5. QED BY <1>2, <2>1, <2>2, <2>3, <2>4 DEF Collect
<1>3. CASE GiveUp
  BY <1>3 DEF GiveUp, Leave, SearchInv, Abstract!Answer, hist
<1>4. CASE Cancel \/ Kill \/ DeadlinePasses \/ UNCHANGED vars
  BY <1>4 DEF Cancel, Kill, DeadlinePasses, vars, hist
<1>5. CASE Pool
  <2>1. PICK k \in Worker : Take(k) \/ Launch(k) \/ Ends(k)
    BY <1>5 DEF Pool
  <2>2. UNCHANGED <<batch, answer>> /\ refused \subseteq refused'
    BY <2>1 DEF Take, Launch, Ends, hist
  <2>3. QED BY <2>2 DEF Abstract!Reject
<1>6. QED BY <1>1, <1>2, <1>3, <1>4, <1>5 DEF Next, Search

\* What the searching thread knows holds throughout.
THEOREM SearchInvariant == Spec => []SearchInv
  BY InitInv, NextInv, PTL DEF Spec

\* The search is one that RtspSearch describes (discovery_service.py:125-229).
THEOREM SearchRefines == Spec => SearchSpec
<1>1. Init => Abstract!Init
  BY DEF Init, Abstract!Init
<1>2. QED BY <1>1, StepRefines, SearchInvariant, PTL DEF Spec, SearchSpec, Abstract!Spec

(***************************************************************************)
(* The count of the probes                                                 *)
(***************************************************************************)

Active == {k \in Worker : w[k] # "idle"}

\* A probe that is under way is of a path of its own, which has no outcome yet.
OwnPath ==
    /\ \A k \in Active : path[k] < next /\ \A o \in Outcome : <<path[k], o>> \notin out
    /\ \A j, k \in Active : path[j] = path[k] => j = k
    /\ \A seen \in out : seen[1] < next

\* While the thread waits, what it has not seen is what lies ready, runs or waits.
Counted == left = Cardinality(out) + Cardinality(Active) + (Paths + 1 - next)

\* The last batch has been tried to its end: nothing runs, waits or is missing.
TriedOut == batch = Batches /\ next = Paths + 1 /\ Active = {} /\ left = Cardinality(out)

CountInv ==
    /\ TypeOK /\ IsFiniteSet(out)
    /\ phase = "onvif" => next = Paths + 1 /\ out = {} /\ left = Paths /\ Active = {}
    /\ phase \in {"onvif", "wait"} <=> answer = "open"
    /\ phase = "wait" => OwnPath /\ Counted
    /\ answer = "none" /\ ~late => TriedOut

\* The workers at a probe can be counted.
LEMMA ActiveFinite ==
    /\ IsFiniteSet(Active) /\ Cardinality(Active) \in Nat
    /\ Cardinality(Active) = 0 <=> Active = {}
  BY SearchAssumption, FS_Subset, FS_CardinalityType, FS_EmptySet DEF Active

\* So can the outcomes not yet seen.
LEMMA OutFinite ==
    ASSUME IsFiniteSet(out)
    PROVE  Cardinality(out) \in Nat /\ (out = {} => Cardinality(out) = 0)
  BY FS_CardinalityType, FS_EmptySet

\* Initially nothing has been probed.
LEMMA CountInit == Init => CountInv
<1> SUFFICES ASSUME Init PROVE CountInv
  OBVIOUS
<1> USE SearchAssumption DEF Init, Path
<1>1. /\ right \in BOOLEAN /\ echo \in BOOLEAN /\ late \in BOOLEAN /\ serves \in Probe \cup {None}
      /\ phase \in {"onvif", "wait", "cancel", "kill", "over"}
      /\ answer \in {"open", "hit", "auth", "none", "onvif", "noffmpeg"}
  OBVIOUS
<1>2. batch \in 1 .. Batches /\ next \in 1 .. Paths + 1 /\ left \in 0 .. Paths
  OBVIOUS
<1>3. w \in [Worker -> {"idle", "taken", "run"}] /\ path \in [Worker -> Path]
  OBVIOUS
<1>4. out \subseteq Path \X Outcome /\ refused \subseteq Probe /\ missed \subseteq Probe
  OBVIOUS
<1>5. TypeOK BY <1>1, <1>2, <1>3, <1>4 DEF TypeOK
<1>6. QED BY <1>5, FS_EmptySet DEF CountInv, Active

\* A worker takes a path no other worker has, ...
LEMMA CountTake ==
    ASSUME CountInv, NEW k \in Worker, Take(k)
    PROVE  CountInv'
<1>1. TypeOK /\ IsFiniteSet(out) /\ Paths \in Nat
  BY SearchAssumption DEF CountInv
<1>2. /\ w[k] = "idle" /\ next <= Paths /\ next' = next + 1
      /\ w' = [w EXCEPT ![k] = "taken"] /\ path' = [path EXCEPT ![k] = next]
      /\ UNCHANGED <<camera, phase, batch, results, late, hist, answer>>
  BY DEF Take
<1>3. next \in 1 .. Paths /\ next' \in 1 .. Paths + 1
  BY <1>1, <1>2 DEF TypeOK
<1>4. w' \in [Worker -> {"idle", "taken", "run"}] /\ path' \in [Worker -> Path]
  BY <1>1, <1>2, <1>3 DEF TypeOK, Path
<1>5. TypeOK'
  BY <1>1, <1>2, <1>3, <1>4 DEF TypeOK, camera, results, hist
<1>6. Active' = Active \cup {k} /\ k \notin Active
  BY <1>1, <1>2 DEF Active, TypeOK
<1>7. Cardinality(Active') = Cardinality(Active) + 1
  BY <1>6, ActiveFinite, FS_AddElement
<1>8. OwnPath => OwnPath'
  <2> SUFFICES ASSUME OwnPath PROVE OwnPath'
    OBVIOUS
  <2>1. \A j \in Active : path'[j] = path[j] /\ path[j] < next
    BY <1>1, <1>2, <1>6 DEF OwnPath, TypeOK, Active
  <2>2. path'[k] = next
    BY <1>1, <1>2 DEF TypeOK
  <2>3. \A seen \in out : seen[1] < next
    BY DEF OwnPath
  <2>4. \A o \in Outcome : <<next, o>> \notin out
    BY <1>3, <2>3
  <2>5. \A j \in Active : path[j] \in Path /\ path[j] # next /\ path[j] < next + 1
    BY <1>1, <1>3, <2>1 DEF TypeOK, Active, Path
  <2>6. \A seen \in out : seen[1] < next + 1
    BY <1>1, <1>3, <2>3 DEF TypeOK, Path
  <2>7. \A j \in Active' : path'[j] < next' /\ \A o \in Outcome : <<path'[j], o>> \notin out
    BY <1>2, <1>3, <1>6, <2>1, <2>2, <2>4, <2>5 DEF OwnPath
  <2>8. \A i, j \in Active' : path'[i] = path'[j] => i = j
    BY <1>6, <2>1, <2>2, <2>5 DEF OwnPath
  <2>9. QED
    BY <1>2, <2>6, <2>7, <2>8 DEF OwnPath, results, hist
<1>9. Counted => Counted'
  BY <1>1, <1>2, <1>3, <1>7, ActiveFinite, OutFinite DEF Counted, results, TypeOK, hist
<1>10. ~TriedOut /\ phase # "onvif"
  BY <1>2, <1>3, <1>1 DEF TriedOut, CountInv
<1>11. QED
  BY <1>1, <1>2, <1>5, <1>8, <1>9, <1>10 DEF CountInv, results, hist

\* ... starts its child, ...
LEMMA CountLaunch ==
    ASSUME CountInv, NEW k \in Worker, Launch(k)
    PROVE  CountInv'
<1>1. w' \in [Worker -> {"idle", "taken", "run"}] /\ Active' = Active
  BY DEF CountInv, TypeOK, Launch, Active
<1>2. UNCHANGED <<camera, phase, batch, next, path, results, late, hist, answer>>
  BY DEF Launch
<1>3. TypeOK'
  BY <1>1, <1>2 DEF CountInv, TypeOK, camera, results, hist
<1>4. (OwnPath => OwnPath') /\ (Counted => Counted') /\ (TriedOut => TriedOut')
  BY <1>1, <1>2 DEF OwnPath, Counted, TriedOut, results, hist
<1>5. QED
  BY <1>1, <1>2, <1>3, <1>4 DEF CountInv, results, hist

\* ... and hands in one outcome for its path.
LEMMA CountEnds ==
    ASSUME CountInv, NEW k \in Worker, Ends(k)
    PROVE  CountInv'
<1>1. TypeOK /\ IsFiniteSet(out) /\ Paths \in Nat
  BY SearchAssumption DEF CountInv
<1>2. PICK o \in Says(path[k]) :
        /\ out' = IF answer = "open" THEN out \cup {<<path[k], o>>} ELSE out
        /\ refused' = IF o = "auth" THEN refused \cup {<<batch, path[k]>>} ELSE refused
        /\ missed' = IF o = "miss" THEN missed \cup {<<batch, path[k]>>} ELSE missed
  BY DEF Ends
<1>3. /\ w[k] = "run" /\ w' = [w EXCEPT ![k] = "idle"]
      /\ UNCHANGED <<camera, phase, batch, next, path, left, late, answer>>
  BY DEF Ends
<1>4. o \in Outcome /\ path[k] \in Path
  BY <1>1 DEF Says, Outcome, TypeOK
<1>5. w' \in [Worker -> {"idle", "taken", "run"}] /\ out' \subseteq Path \X Outcome
      /\ refused' \subseteq Probe /\ missed' \subseteq Probe
  BY <1>1, <1>2, <1>3, <1>4 DEF TypeOK, Probe
<1>6. TypeOK'
  BY <1>1, <1>3, <1>5 DEF TypeOK, camera, hist
<1>7. Active' = Active \ {k} /\ k \in Active
  BY <1>1, <1>3 DEF Active, TypeOK
<1>8. Cardinality(Active') = Cardinality(Active) - 1
  BY <1>7, ActiveFinite, FS_RemoveElement
<1>9. IsFiniteSet(out')
  BY <1>1, <1>2, FS_AddElement
<1>10. CASE phase = "wait"
  <2>1. answer = "open" /\ OwnPath /\ Counted
    BY <1>10 DEF CountInv
  <2>2. out' = out \cup {<<path[k], o>>} /\ <<path[k], o>> \notin out
    BY <1>2, <1>4, <1>7, <2>1 DEF OwnPath
  <2>3. Cardinality(out') = Cardinality(out) + 1
    BY <1>1, <2>2, FS_AddElement
  <2>4. OwnPath'
    BY <1>3, <1>4, <1>7, <2>1, <2>2 DEF OwnPath
  <2>5. Counted'
    BY <1>1, <1>3, <1>8, <2>1, <2>3, ActiveFinite, OutFinite DEF Counted, TypeOK
  <2>6. QED
    BY <1>3, <1>6, <1>9, <1>10, <2>1, <2>4, <2>5 DEF CountInv
<1>11. CASE phase # "wait"
  <2>1. phase # "onvif"
    BY <1>7 DEF CountInv
  <2>2. answer # "open" /\ out' = out
    BY <1>2, <1>11, <2>1 DEF CountInv
  <2>3. QED
    BY <1>3, <1>6, <1>7, <1>11, <2>1, <2>2 DEF CountInv, TriedOut
<1>12. QED BY <1>10, <1>11

\* The searching thread goes on when nothing of the batch is missing, and only then.
LEMMA CountCollect ==
    ASSUME CountInv, Collect
    PROVE  CountInv'
<1>1. TypeOK /\ IsFiniteSet(out) /\ Paths \in Nat /\ Batches \in Nat
  BY SearchAssumption DEF CountInv
<1>2. /\ phase = "wait" /\ out # {} /\ ~late /\ answer = "open" /\ OwnPath /\ Counted
      /\ UNCHANGED <<camera, late, hist>>
  BY DEF Collect, CountInv
<1>3. next \in 1 .. Paths + 1 /\ left \in 0 .. Paths /\ batch \in 1 .. Batches
  BY <1>1 DEF TypeOK
<1>4. ASSUME NEW a \in {"hit", "auth", "none"}, Leave(a), a = "none" => TriedOut
      PROVE  CountInv'
  <2>1. answer' = a /\ phase' = "cancel" /\ UNCHANGED <<batch, pool, results>>
    BY <1>4 DEF Leave
  <2>2. TypeOK'
    BY <1>1, <1>2, <1>4, <2>1 DEF TypeOK, camera, pool, results, hist
  <2>3. TriedOut => TriedOut'
    BY <2>1 DEF TriedOut, Active, pool, results, hist
  <2>4. QED
    BY <1>1, <1>4, <2>1, <2>2, <2>3 DEF CountInv, results, hist
<1>5. ASSUME Cardinality(out) = left
      PROVE  Active = {} /\ next = Paths + 1
  BY <1>1, <1>2, <1>3, <1>5, ActiveFinite, OutFinite DEF Counted
<1>6. ASSUME Cardinality(out) = left, NextBatch
      PROVE  CountInv'
  <2>1. CASE batch < Batches /\ ~late
    <3>1. /\ batch' = batch + 1 /\ next' = 1 /\ out' = {} /\ left' = Paths
          /\ UNCHANGED <<phase, answer, w, path>>
      BY <1>6, <2>1 DEF NextBatch
    <3>2. batch' \in 1 .. Batches /\ next' \in 1 .. Paths + 1 /\ left' \in 0 .. Paths
      BY <1>1, <1>3, <2>1, <3>1
    <3>3. TypeOK'
      BY <1>1, <1>2, <3>1, <3>2 DEF TypeOK, camera, hist
    <3>4. Active' = {}
      BY <1>5, <1>6, <3>1 DEF Active
    <3>5. OwnPath' /\ Counted'
      BY <1>1, <3>1, <3>4, FS_EmptySet DEF OwnPath, Counted
    <3>6. QED
      BY <1>2, <3>1, <3>3, <3>5, FS_EmptySet DEF CountInv
  <2>2. CASE ~(batch < Batches /\ ~late)
    <3>1. batch = Batches
      BY <1>1, <1>2, <1>3, <2>2
    <3>2. TriedOut
      BY <1>5, <1>6, <3>1 DEF TriedOut
    <3>3. Leave("none")
      BY <1>6, <2>2 DEF NextBatch
    <3>4. QED
      BY <1>4, <3>2, <3>3
  <2>3. QED BY <2>1, <2>2
<1>7. ASSUME left' = left - Cardinality(out), out' = {}, UNCHANGED <<phase, batch, pool, answer>>
      PROVE  CountInv'
  <2> DEFINE open == Cardinality(Active) + (Paths + 1 - next)
  <2>1. open \in Nat /\ Cardinality(Active) \in Nat /\ Cardinality(out) \in Nat
    BY <1>1, <1>3, ActiveFinite, OutFinite
  <2>2. left = Cardinality(out) + open
    BY <1>1, <1>2, <1>3, <2>1 DEF Counted
  <2> HIDE DEF open
  <2>3. left' \in 0 .. Paths /\ left' = open
    BY <1>1, <1>3, <1>7, <2>1, <2>2
  <2>4. TypeOK'
    BY <1>1, <1>2, <1>7, <2>3 DEF TypeOK, camera, pool, hist
  <2>5. Active' = Active /\ next' = next /\ path' = path
    BY <1>7 DEF Active, pool, hist
  <2>6. OwnPath'
    BY <1>2, <1>7, <2>5 DEF OwnPath
  <2>7. Counted'
    <3>1. Cardinality(out') = 0
      BY <1>7, FS_EmptySet
    <3>2. QED
      BY <1>1, <1>3, <2>1, <2>3, <2>5, <3>1 DEF Counted, open
  <2>8. QED
    BY <1>2, <1>7, <2>4, <2>6, <2>7, FS_EmptySet DEF CountInv
<1>8. QED
  BY <1>4, <1>6, <1>7 DEF Collect

\* Every step keeps the count of the probes.
LEMMA CountStep == CountInv /\ [Next]_vars => CountInv'
<1> SUFFICES ASSUME CountInv, [Next]_vars PROVE CountInv'
  OBVIOUS
<1>1. CASE Onvif
  <2>1. phase = "onvif" /\ answer = "open" /\ out = {} /\ left = Paths /\ Active = {} /\ TypeOK
        /\ IsFiniteSet(out)
    BY <1>1 DEF Onvif, CountInv
  <2>2. UNCHANGED <<camera, batch, w, path, results, late, hist>>
    BY <1>1 DEF Onvif
  <2>3. phase' \in {"wait", "over"} /\ answer' \in {"open", "onvif", "noffmpeg"}
        /\ (phase' = "wait" <=> answer' = "open") /\ next' \in 1 .. Paths + 1
        /\ (phase' = "wait" => next' = 1)
    BY <1>1, <2>1, SearchAssumption DEF Onvif, TypeOK
  <2>4. TypeOK'
    BY <2>1, <2>2, <2>3 DEF TypeOK, camera, results, hist
  <2>5. Active' = {} /\ out' = {} /\ left' = Paths
    BY <2>1, <2>2 DEF Active, results, hist
  <2>6. phase' = "wait" => OwnPath' /\ Counted'
    BY <2>3, <2>5, FS_EmptySet, SearchAssumption DEF OwnPath, Counted
  <2>7. QED
    BY <2>1, <2>3, <2>4, <2>5, <2>6 DEF CountInv
<1>2. CASE Collect
  BY <1>2, CountCollect
<1>3. CASE GiveUp
  <2>1. late /\ answer' = "none" /\ phase' = "cancel" /\ UNCHANGED <<batch, pool, results, camera, late, hist>>
    BY <1>3 DEF GiveUp, Leave
  <2>2. TypeOK'
    BY <2>1 DEF CountInv, TypeOK, camera, pool, results, hist
  <2>3. QED
    BY <2>1, <2>2 DEF CountInv, results, hist
<1>4. CASE Cancel
  <2>1. /\ phase = "cancel" /\ phase' = "kill" /\ next' = Paths + 1
        /\ UNCHANGED <<camera, batch, w, path, results, late, hist, answer>>
    BY <1>4 DEF Cancel
  <2>2. TypeOK'
    BY <2>1, SearchAssumption DEF CountInv, TypeOK, camera, results, hist
  <2>3. TriedOut => TriedOut'
    BY <2>1 DEF TriedOut, Active, results, hist
  <2>4. QED
    BY <2>1, <2>2, <2>3 DEF CountInv, results, hist
<1>5. CASE Kill
  <2>1. /\ phase = "kill" /\ phase' = "over"
        /\ w' = [k \in Worker |-> IF w[k] = "run" THEN "idle" ELSE w[k]]
        /\ UNCHANGED <<camera, batch, next, path, results, late, hist, answer>>
    BY <1>5 DEF Kill
  <2>2. w' \in [Worker -> {"idle", "taken", "run"}] /\ Active' \subseteq Active
    BY <2>1 DEF CountInv, TypeOK, Active
  <2>3. TypeOK'
    BY <2>1, <2>2 DEF CountInv, TypeOK, camera, results, hist
  <2>4. TriedOut => TriedOut'
    BY <2>1, <2>2 DEF TriedOut, results, hist
  <2>5. QED
    BY <2>1, <2>3, <2>4 DEF CountInv, results, hist
<1>6. CASE DeadlinePasses
  <2>1. phase = "wait" /\ late' = TRUE
        /\ UNCHANGED <<camera, phase, batch, pool, results, hist, answer>>
    BY <1>6 DEF DeadlinePasses
  <2>2. TypeOK'
    BY <2>1 DEF CountInv, TypeOK, camera, pool, results, hist
  <2>3. (OwnPath => OwnPath') /\ (Counted => Counted')
    BY <2>1 DEF OwnPath, Counted, Active, pool, results, hist
  <2>4. QED
    BY <2>1, <2>2, <2>3 DEF CountInv, results, hist
<1>7. CASE Pool
  BY <1>7, CountTake, CountLaunch, CountEnds DEF Pool
<1>8. CASE UNCHANGED vars
  <2>1. TypeOK'
    BY <1>8 DEF CountInv, TypeOK, vars, camera, pool, results, hist
  <2>2. (OwnPath => OwnPath') /\ (Counted => Counted') /\ (TriedOut => TriedOut') /\ Active' = Active
    BY <1>8 DEF OwnPath, Counted, TriedOut, Active, vars, pool, results, hist
  <2>3. QED
    BY <1>8, <2>1, <2>2 DEF CountInv, vars, pool, results, hist
<1>9. QED
  BY <1>1, <1>2, <1>3, <1>4, <1>5, <1>6, <1>7, <1>8 DEF Next, Search

\* The count of the probes holds throughout.
THEOREM CountInvariant == Spec => []CountInv
  BY CountInit, CountStep, PTL DEF Spec

\* Every variable of the search keeps its type.
THEOREM TypeCorrect == Spec => []TypeOK
<1>1. CountInv => TypeOK
  BY DEF CountInv
<1>2. QED BY <1>1, CountInvariant, PTL

(***************************************************************************)
(* No path is skipped                                                      *)
(***************************************************************************)

\* What has become of path p of the current batch: a probe is under way, missed, or has brought
\* an outcome that will end the search.
Followed(p) ==
    \/ \E k \in Active : path[k] = p
    \/ <<batch, p>> \in missed
    \/ <<p, "hit">> \in out \/ <<p, "auth">> \in out

\* While the thread waits, the paths taken so far are followed, and those of earlier batches
\* have missed.
SkipsNone ==
    /\ phase = "wait" => \A p \in Path : p < next => Followed(p)
    /\ phase = "wait" => \A b \in 1 .. Batches, p \in Path : b < batch => <<b, p>> \in missed
    /\ phase = "onvif" => batch = 1
    /\ answer = "none" /\ ~late => missed = Probe

\* A worker keeps an eye on the path it takes, until the probe misses or says more.
LEMMA SkipsNonePool ==
    ASSUME CountInv, SkipsNone, Pool
    PROVE  SkipsNone'
<1>1. PICK k \in Worker : Take(k) \/ Launch(k) \/ Ends(k)
  BY DEF Pool
<1>2. TypeOK /\ Paths \in Nat /\ (phase = "wait" <=> answer = "open" /\ phase # "onvif")
  BY SearchAssumption DEF CountInv
<1>3. UNCHANGED <<phase, batch, late, answer>>
  BY <1>1 DEF Take, Launch, Ends
<1>4. ASSUME missed \subseteq missed', missed' \subseteq Probe,
             phase = "wait" => \A p \in Path : p < next' => Followed(p)'
      PROVE  SkipsNone'
  BY <1>3, <1>4 DEF SkipsNone
<1>5. CASE Take(k)
  <2>1. /\ w[k] = "idle" /\ next <= Paths /\ next' = next + 1 /\ UNCHANGED <<out, missed>>
        /\ w' = [w EXCEPT ![k] = "taken"] /\ path' = [path EXCEPT ![k] = next]
    BY <1>5 DEF Take, results, hist
  <2>2. Active' = Active \cup {k} /\ k \notin Active /\ path'[k] = next
    BY <1>2, <2>1 DEF Active, TypeOK
  <2>3. \A j \in Active : path'[j] = path[j]
    BY <1>2, <2>1, <2>2 DEF TypeOK, Active
  <2>4. \A p \in Path : Followed(p) => Followed(p)'
    BY <1>3, <2>1, <2>2, <2>3 DEF Followed
  <2>5. \A p \in Path : p < next + 1 => p < next \/ p = next
    BY <1>2 DEF TypeOK, Path
  <2>6. \A p \in Path : p = next => Followed(p)'
    BY <2>2 DEF Followed
  <2>7. phase = "wait" => \A p \in Path : p < next' => Followed(p)'
    BY <2>1, <2>4, <2>5, <2>6 DEF SkipsNone
  <2>8. QED BY <1>2, <1>4, <2>1, <2>7 DEF TypeOK
<1>6. CASE Launch(k)
  <2>1. Active' = Active /\ UNCHANGED <<next, path, out, missed>>
    BY <1>2, <1>6 DEF Launch, Active, TypeOK, results, hist
  <2>2. \A p \in Path : Followed(p) => Followed(p)'
    BY <1>3, <2>1 DEF Followed
  <2>3. QED BY <1>2, <1>4, <2>1, <2>2 DEF SkipsNone, TypeOK
<1>7. CASE Ends(k)
  <2>1. PICK o \in Says(path[k]) :
          /\ out' = IF answer = "open" THEN out \cup {<<path[k], o>>} ELSE out
          /\ missed' = IF o = "miss" THEN missed \cup {<<batch, path[k]>>} ELSE missed
    BY <1>7 DEF Ends
  <2>2. w' = [w EXCEPT ![k] = "idle"] /\ UNCHANGED <<next, path>>
    BY <1>7 DEF Ends
  <2>3. o \in Outcome /\ path[k] \in Path /\ Active' = Active \ {k} /\ batch \in 1 .. Batches
    BY <1>2, <2>2 DEF Says, Outcome, TypeOK, Active
  <2>4. missed \subseteq missed' /\ missed' \subseteq Probe
    BY <1>2, <2>1, <2>3 DEF TypeOK, Probe
  <2>5. ASSUME phase = "wait", NEW p \in Path, Followed(p) PROVE Followed(p)'
    <3>1. answer = "open" /\ out \subseteq out'
      BY <1>2, <2>1, <2>5
    <3>2. CASE \E j \in Active : path[j] = p /\ j # k
      BY <2>2, <2>3, <3>2 DEF Followed
    <3>3. CASE path[k] = p
      BY <1>3, <2>1, <2>3, <3>1, <3>3 DEF Followed, Outcome
    <3>4. CASE <<batch, p>> \in missed \/ <<p, "hit">> \in out \/ <<p, "auth">> \in out
      BY <1>3, <2>4, <3>1, <3>4 DEF Followed
    <3>5. QED BY <2>5, <3>2, <3>3, <3>4 DEF Followed
  <2>6. QED BY <1>4, <2>2, <2>4, <2>5 DEF SkipsNone
<1>8. QED BY <1>1, <1>5, <1>6, <1>7

\* The searching thread goes on to the next batch, or gives up, over misses alone.
LEMMA SkipsNoneCollect ==
    ASSUME CountInv, SkipsNone, Collect
    PROVE  SkipsNone'
<1>1. /\ phase = "wait" /\ ~late /\ OwnPath /\ Counted /\ answer = "open" /\ TypeOK
      /\ UNCHANGED <<late, missed>> /\ IsFiniteSet(out) /\ Paths \in Nat /\ Batches \in Nat
  BY SearchAssumption DEF Collect, CountInv, hist
<1>2. ASSUME NEW a \in {"hit", "auth"}, Leave(a) PROVE SkipsNone'
  BY <1>2 DEF Leave, SkipsNone
<1>3. ASSUME ~Said("hit"), ~Said("auth"), NEW p \in Path, p < next
      PROVE  (\E k \in Active : path[k] = p) \/ <<batch, p>> \in missed
  BY <1>1, <1>3 DEF SkipsNone, Followed, Said
<1>4. ASSUME ~Said("hit"), ~Said("auth"), Cardinality(out) = left, NextBatch PROVE SkipsNone'
  <2>1. Active = {} /\ next = Paths + 1
    BY <1>1, <1>4, ActiveFinite, OutFinite DEF Counted, TypeOK
  <2>2. \A p \in Path : <<batch, p>> \in missed
    BY <1>1, <1>3, <1>4, <2>1 DEF Path
  <2>3. \A b \in 1 .. Batches, p \in Path : b <= batch => <<b, p>> \in missed
    <3> SUFFICES ASSUME NEW b \in 1 .. Batches, NEW p \in Path, b <= batch
                 PROVE  <<b, p>> \in missed
      OBVIOUS
    <3>1. b < batch \/ b = batch
      BY <1>1 DEF TypeOK
    <3>2. QED BY <1>1, <2>2, <3>1 DEF SkipsNone
  <2>4. CASE batch < Batches /\ ~late
    <3>1. batch' = batch + 1 /\ next' = 1 /\ UNCHANGED <<phase, answer>>
      BY <1>4, <2>4 DEF NextBatch
    <3>2. \A b \in 1 .. Batches, p \in Path : b < batch' => <<b, p>> \in missed'
      BY <1>1, <2>3, <3>1 DEF TypeOK
    <3>3. \A p \in Path : ~(p < next')
      BY <3>1 DEF Path
    <3>4. QED BY <1>1, <3>1, <3>2, <3>3 DEF SkipsNone
  <2>5. CASE ~(batch < Batches /\ ~late)
    <3>1. batch = Batches
      BY <1>1, <2>5 DEF TypeOK
    <3>2. Probe \subseteq missed
      BY <1>1, <2>3, <3>1 DEF Probe
    <3>3. missed = Probe
      BY <1>1, <3>2 DEF TypeOK
    <3>4. phase' = "cancel"
      BY <1>4, <2>5 DEF NextBatch, Leave
    <3>5. QED BY <1>1, <3>3, <3>4 DEF SkipsNone, Probe, Path
  <2>6. QED BY <2>4, <2>5
<1>5. ASSUME ~Said("hit"), ~Said("auth"), out' = {}, UNCHANGED <<phase, batch, pool, answer>>
      PROVE  SkipsNone'
  <2>1. Active' = Active /\ UNCHANGED <<next, path>>
    BY <1>5 DEF Active, pool
  <2>2. \A p \in Path : p < next' => Followed(p)'
    BY <1>1, <1>3, <1>5, <2>1 DEF Followed
  <2>3. QED BY <1>1, <1>5, <2>1, <2>2 DEF SkipsNone
<1>6. QED
  BY <1>2, <1>4, <1>5 DEF Collect

\* No step skips a path.
LEMMA SkipsNoneStep ==
    ASSUME CountInv, SkipsNone, [Next]_vars
    PROVE  SkipsNone'
<1>1. CASE Onvif
  <2>1. batch = 1 /\ batch' = 1 /\ (phase' = "wait" => next' = 1) /\ phase' # "onvif"
        /\ answer' # "none"
    BY <1>1 DEF Onvif, SkipsNone, CountInv
  <2>2. \A p \in Path : ~(p < 1)
    BY DEF Path
  <2>3. QED BY <2>1, <2>2 DEF SkipsNone
<1>2. CASE GiveUp
  BY <1>2 DEF GiveUp, Leave, SkipsNone
<1>3. CASE Cancel \/ Kill
  BY <1>3 DEF Cancel, Kill, SkipsNone, hist, Probe, Path
<1>4. CASE DeadlinePasses
  BY <1>4 DEF DeadlinePasses, SkipsNone, Followed, Active, CountInv, pool, results, hist
<1>5. CASE UNCHANGED vars
  BY <1>5 DEF vars, SkipsNone, Followed, Active, Probe, Path, pool, results, hist
<1>6. QED
  BY <1>1, <1>2, <1>3, <1>4, <1>5, SkipsNonePool, SkipsNoneCollect DEF Next, Search

\* _best_rtsp_path_stream (discovery_service.py:125-229) reports a camera as not found in time
\* only over a probe of every path that was seen to its end and missed.
THEOREM GivesUpLast == Spec => []GivesUpHonestly
<1>1. Init => SkipsNone
  BY DEF Init, SkipsNone
<1>2. SkipsNone => GivesUpHonestly
  BY DEF SkipsNone, GivesUpHonestly
<1>3. QED BY <1>1, <1>2, SkipsNoneStep, CountInvariant, PTL DEF Spec

\* More than that: when it reports so, no path of the batch waits and no probe runs.
TriesEverything == answer = "none" /\ ~late => next = Paths + 1 /\ \A k \in Worker : w[k] = "idle"

\* The searching thread of discovery_service.py:180-217 counts its futures right: it does not
\* go on, or give up, while a probe of the batch is still to come.
THEOREM NoProbeForgotten == Spec => []TriesEverything
<1>1. CountInv => TriesEverything
  BY DEF CountInv, TriesEverything, TriedOut, Active
<1>2. QED BY <1>1, CountInvariant, PTL

(***************************************************************************)
(* The live page: LiveView                                                 *)
(***************************************************************************)

\* A reader runs from the moment its visit begins, and only then starts a worker.
Started ==
    /\ shown => visit # 0
    /\ \A r \in Reader : (pc[r] = "off" <=> r[2] > visit) /\ (wpc[r] # "none" => r[2] <= visit)

\* The readers told to stop are exactly those of the visits the operator has left.
StopsExactly == \A r \in Reader : stop[r] <=> r[2] <= visit /\ r \notin Current

\* A clip recorder is on only while the worker that started it will still stop it.
RecorderHasWorker == \A r \in Reader : rec[r] => wpc[r] \in {"run", "infer", "end"}

\* The decode thread shows no raw frame while edge AI is ready, so a worker must be there to paint.
ReadyHasWorker ==
    \A r \in Reader : ready[r] /\ ~failed[r] /\ ~stop[r] => wpc[r] \in {"run", "infer"}

LiveInv == LVTypeOK /\ Started /\ StopsExactly /\ RecorderHasWorker /\ ReadyHasWorker

\* A list of URLs holds one to three.
LEMMA UrlCount == \A r \in Reader : LVTypeOK => Len(urls[r]) \in 1 .. 3
<1> SUFFICES ASSUME NEW r \in Reader, LVTypeOK PROVE Len(urls[r]) \in 1 .. 3
  OBVIOUS
<1>1. PICK c \in Camera, hub \in BOOLEAN : urls[r] = ReaderUrls(c, hub)
  BY DEF LVTypeOK
<1>2. /\ Len(<<"hub">> \o <<"sub">> \o <<"main">>) = 3 /\ Len(<<"hub">> \o <<>> \o <<"main">>) = 2
      /\ Len(<<>> \o <<"sub">> \o <<"main">>) = 2 /\ Len(<<>> \o <<>> \o <<"main">>) = 1
  OBVIOUS
<1>3. QED BY <1>1, <1>2 DEF ReaderUrls

\* A reader is a camera and a visit.
LEMMA ReaderFacts ==
    \A r \in Reader : r[1] \in Camera /\ r[2] \in 1 .. MaxVisits /\ r = <<r[1], r[2]>>
  BY DEF Reader

\* What a reader may be given to try.
UrlLists == {ReaderUrls(c, hub) : c \in Camera, hub \in BOOLEAN}

LEMMA UrlListed == \A c \in Camera, hub \in BOOLEAN : ReaderUrls(c, hub) \in UrlLists
  BY DEF UrlLists

\* The places of the decode thread.
DecodePlace == {"off", "delay", "head", "try", "read", "check", "snap", "pump", "nap", "done"}

\* Initially no reader runs.
LEMMA LiveInit == LVInit => LiveInv
<1> SUFFICES ASSUME LVInit PROVE LiveInv
  OBVIOUS
<1>1. \A r \in Reader : ReaderUrls(r[1], FALSE) \in UrlLists
  BY UrlListed, ReaderFacts
<1>2. LVTypeOK
  <2>1. urls \in [Reader -> UrlLists]
    BY <1>1 DEF LVInit
  <2>2. shown \in BOOLEAN /\ edgeOn \in BOOLEAN /\ current \in BOOLEAN
    BY Zenon DEF LVInit
  <2>3. {stop, active, ready, failed, rec, risky} \subseteq [Reader -> BOOLEAN]
    BY DEF LVInit, All
  <2>4. visit \in 0 .. MaxVisits /\ fails \in [Reader -> 0 .. MaxFails - 1]
    BY LiveAssumption DEF LVInit, All
  <2>5. /\ try \in [Reader -> 1 .. 3] /\ pin \in [Reader -> 0 .. 3] /\ seq \in [Reader -> 0 .. 2]
        /\ pc \in [Reader -> DecodePlace] /\ pipe \in [Reader -> {Nothing, "older", "served"}]
    BY DEF LVInit, All, DecodePlace
  <2>6. /\ status \in [Reader -> {"connecting", "live", "reconnecting", "error"}]
        /\ raw \in [Reader -> {"none", "new", "seen"}]
        /\ wpc \in [Reader -> {"none", "build", "record", "run", "infer", "end", "dead"}]
        /\ poll \in (SUBSET Reader) \cup {Nothing} /\ errors \subseteq Camera
    BY DEF LVInit, All
  <2>7. QED BY <2>1, <2>2, <2>3, <2>4, <2>5, <2>6 DEF LVTypeOK, UrlLists, DecodePlace
<1>3. Started /\ StopsExactly /\ RecorderHasWorker /\ ReadyHasWorker
  BY LiveAssumption, ReaderFacts DEF LVInit, All, Started, StopsExactly, Current, RecorderHasWorker, ReadyHasWorker
<1>4. QED BY <1>2, <1>3 DEF LiveInv

\* The decode thread of a reader, action by action: types.
LEMMA DecoderTypes == \A r \in Reader : LVTypeOK /\ Decoder(r) => LVTypeOK'
<1> SUFFICES ASSUME NEW r \in Reader, LVTypeOK, Decoder(r) PROVE LVTypeOK'
  OBVIOUS
<1> USE DEF LVTypeOK, Decode, uiVars, pageVars, pollVars, Put, Store
<1>1. CASE Delay(r)
  BY <1>1 DEF Delay
<1>2. CASE Loop(r)
  BY <1>2 DEF Loop
<1>3. CASE OpenOk(r)
  BY <1>3 DEF OpenOk
<1>4. CASE OpenFails(r)
  <2>1. Len(urls[r]) \in 1 .. 3
    BY UrlCount
  <2>2. try' \in [Reader -> 1 .. 3] /\ pc' \in [Reader -> DecodePlace]
    <3>1. \/ try' = [try EXCEPT ![r] = try[r] + 1] /\ try[r] < Len(urls[r]) /\ pc' = pc
          \/ try' = try /\ \E p \in {"done", "snap"} : pc' = [pc EXCEPT ![r] = p]
      BY <1>4, Zenon DEF OpenFails
    <3>2. ASSUME try' = [try EXCEPT ![r] = try[r] + 1], try[r] < Len(urls[r])
          PROVE  try' \in [Reader -> 1 .. 3]
      <4>1. PICK n \in 1 .. 3 : try[r] < n
        BY <2>1, <3>2, Zenon
      <4>2. try[r] \in 1 .. 3
        OBVIOUS
      <4>3. try[r] + 1 \in 1 .. 3
        BY <4>1, <4>2
      <4>4. QED BY <3>2, <4>3
    <3>3. ASSUME NEW p \in {"done", "snap"}, pc' = [pc EXCEPT ![r] = p]
          PROVE  pc' \in [Reader -> DecodePlace]
      BY <3>3 DEF DecodePlace
    <3>4. try \in [Reader -> 1 .. 3] /\ pc \in [Reader -> DecodePlace]
      BY DEF DecodePlace
    <3>5. QED BY <3>1, <3>2, <3>3, <3>4
  <2>3. UNCHANGED <<uiVars, failed, fails, pipe, rec, risky, errors, pin, status, wpc, seq, raw, ready>>
    BY <1>4 DEF OpenFails
  <2>4. QED BY <2>2, <2>3 DEF DecodePlace
<1>5. CASE ReadFrame(r)
  BY <1>5 DEF ReadFrame
<1>6. CASE Check(r)
  BY <1>6 DEF Check
<1>7. CASE ReadEnds(r)
  BY <1>7 DEF ReadEnds
<1>8. CASE SnapOk(r)
  BY <1>8 DEF SnapOk
<1>9. CASE SnapFails(r)
  BY <1>9 DEF SnapFails
<1>10. CASE Pump(r)
  BY <1>10 DEF Pump
<1>11. CASE PumpEnds(r)
  BY <1>11 DEF PumpEnds
<1>12. CASE Nap(r)
  BY <1>12 DEF Nap
<1>13. QED
  BY <1>1, <1>2, <1>3, <1>4, <1>5, <1>6, <1>7, <1>8, <1>9, <1>10, <1>11, <1>12 DEF Decoder

\* The worker thread of a reader, action by action: types.
LEMMA WorkerTypes == \A r \in Reader : LVTypeOK /\ WorkerThread(r) => LVTypeOK'
<1> SUFFICES ASSUME NEW r \in Reader, LVTypeOK, WorkerThread(r) PROVE LVTypeOK'
  OBVIOUS
<1> USE DEF LVTypeOK, Work, uiVars, pageVars, pollVars, decodeVars, Put, Store
<1>0. r[1] \in Camera
  BY ReaderFacts
<1>1. CASE BuildFails(r)
  BY <1>0, <1>1 DEF BuildFails, Failed
<1>2. CASE BuildOk(r)
  BY <1>2 DEF BuildOk
<1>3. CASE Record(r)
  BY <1>3, LiveAssumption DEF Record
<1>4. CASE Grab(r)
  BY <1>4 DEF Grab
<1>5. CASE InferOk(r)
  BY <1>5, LiveAssumption DEF InferOk
<1>6. CASE InferFails(r)
  <2>1. fails' \in [Reader -> 0 .. MaxFails - 1] /\ errors' \subseteq Camera
    BY <1>0, <1>6, LiveAssumption DEF InferFails, Failed
  <2>2. CASE fails[r] + 1 < MaxFails
    BY <1>6, <2>1, <2>2 DEF InferFails
  <2>3. CASE ~(fails[r] + 1 < MaxFails)
    <3>1. /\ failed' = [failed EXCEPT ![r] = TRUE] /\ pipe' = [pipe EXCEPT ![r] = Nothing]
          /\ wpc' = [wpc EXCEPT ![r] = "end"]
          /\ UNCHANGED <<uiVars, decodeVars, rec, risky, seq, raw, ready>>
      BY <1>6, <2>3 DEF InferFails, Failed
    <3>2. QED BY <2>1, <3>1
  <2>4. QED BY <2>2, <2>3
<1>7. CASE WorkerStops(r)
  BY <1>7 DEF WorkerStops
<1>8. CASE End(r)
  BY <1>8 DEF End
<1>9. QED
  BY <1>1, <1>2, <1>3, <1>4, <1>5, <1>6, <1>7, <1>8 DEF WorkerThread

\* Who is on screen is a reader.
LEMMA CurrentReaders == LVTypeOK /\ Started => Current \subseteq Reader
  BY LiveAssumption DEF Current, Reader, LVTypeOK, Started

\* What the window thread and its polls do: types.
LEMMA PageTypes ==
    LVTypeOK /\ Started /\ (Show \/ Look \/ LeavePage \/ Publish \/ PollTick \/ PollAnswered \/ PollFails)
        => LVTypeOK'
<1> SUFFICES ASSUME LVTypeOK, Started,
                    Show \/ Look \/ LeavePage \/ Publish \/ PollTick \/ PollAnswered \/ PollFails
             PROVE  LVTypeOK'
  OBVIOUS
<1> USE DEF uiVars, pageVars, pollVars, decodeVars, workerVars
<1>1. CASE Show
  <2>1. PICK hub \in BOOLEAN :
          urls' = [r \in Reader |-> IF r[2] = visit + 1 THEN ReaderUrls(r[1], hub) ELSE urls[r]]
    BY <1>1 DEF Show
  <2>2. \A r \in Reader : urls[r] \in UrlLists
    BY DEF UrlLists, LVTypeOK
  <2>3. urls' \in [Reader -> UrlLists]
    BY <2>1, <2>2, UrlListed, ReaderFacts
  <2>4. pc' \in [Reader -> DecodePlace]
    BY <1>1 DEF Show, DecodePlace, LVTypeOK
  <2>5. visit' \in 0 .. MaxVisits
    BY <1>1, LiveAssumption DEF Show, LVTypeOK
  <2>6. shown' \in BOOLEAN /\ current' \in BOOLEAN
    BY <1>1, Zenon DEF Show
  <2>7. QED BY <1>1, <2>3, <2>4, <2>5, <2>6 DEF Show, UrlLists, DecodePlace, LVTypeOK
<1>2. CASE Look
  <2>1. PICK visible \in {{}, Camera} \cup {{c} : c \in Camera} :
          active' = [r \in Reader |-> IF r \in Current THEN r[1] \in visible ELSE active[r]]
    BY <1>2 DEF Look
  <2>2. \A r \in Reader : active[r] \in BOOLEAN
    BY DEF LVTypeOK
  <2>3. active' \in [Reader -> BOOLEAN]
    <3>1. \A r \in Reader : (r[1] \in visible) \in BOOLEAN
      OBVIOUS
    <3>2. \A r \in Reader : (IF r \in Current THEN r[1] \in visible ELSE active[r]) \in BOOLEAN
      BY <2>2, <3>1, Zenon
    <3>3. QED BY <2>1, <3>2, Zenon
  <2>4. QED BY <1>2, <2>3 DEF Look, LVTypeOK
<1>3. CASE LeavePage
  <2>1. \A r \in Reader : stop[r] \in BOOLEAN
    BY DEF LVTypeOK
  <2>2. stop' \in [Reader -> BOOLEAN]
    BY <1>3, <2>1 DEF LeavePage
  <2>3. shown' \in BOOLEAN
    BY <1>3, Zenon DEF LeavePage
  <2>4. QED BY <1>3, <2>2, <2>3 DEF LeavePage, LVTypeOK
<1>4. CASE Publish
  <2>1. pipe' \in [Reader -> {Nothing, "older", "served"}]
    BY <1>4 DEF Publish, LVTypeOK
  <2>2. current' \in BOOLEAN
    BY <1>4, Zenon DEF Publish
  <2>3. QED BY <1>4, <2>1, <2>2 DEF Publish, LVTypeOK
<1>5. CASE PollTick
  <2>1. PICK pipes \in {{r \in Current : pipe[r] # Nothing}} : poll' = pipes
    BY <1>5 DEF PollTick
  <2>2. poll' \in (SUBSET Reader) \cup {Nothing}
    BY <2>1, CurrentReaders
  <2>3. QED BY <1>5, <2>2 DEF PollTick, LVTypeOK
<1>6. CASE PollAnswered
  <2>1. pipe' \in [Reader -> {Nothing, "older", "served"}]
    BY <1>6 DEF PollAnswered, LVTypeOK
  <2>2. current \in BOOLEAN
    BY DEF LVTypeOK
  <2>3. current' \in BOOLEAN
    BY <1>6, <2>2 DEF PollAnswered
  <2>4. QED BY <1>6, <2>1, <2>3 DEF PollAnswered, LVTypeOK
<1>7. CASE PollFails
  BY <1>7 DEF PollFails, LVTypeOK
<1>8. QED BY <1>1, <1>2, <1>3, <1>4, <1>5, <1>6, <1>7

\* What a decode thread leaves alone: the readers of the page, the recorder, and every other thread.
LEMMA DecoderFrame ==
    ASSUME NEW r \in Reader, LVTypeOK, Decoder(r)
    PROVE  /\ UNCHANGED <<visit, shown, stop, failed, rec>>
           /\ pc[r] \notin {"off", "done"} /\ pc'[r] # "off"
           /\ \A q \in Reader : q # r => pc'[q] = pc[q]
           /\ \A q \in Reader : \/ wpc'[q] = wpc[q] /\ ready'[q] = ready[q]
                               \/ /\ q = r /\ pc[q] = "check" /\ wpc[q] \in {"none", "dead"}
                                  /\ ~ready'[q] /\ wpc'[q] = "build"
<1> USE DEF Decode, uiVars, pageVars, Put, Store, LVTypeOK
<1>1. CASE Delay(r)
  BY <1>1 DEF Delay
<1>2. CASE Loop(r)
  BY <1>2 DEF Loop
<1>3. CASE OpenOk(r)
  BY <1>3 DEF OpenOk
<1>4. CASE OpenFails(r)
  BY <1>4 DEF OpenFails
<1>5. CASE ReadFrame(r)
  BY <1>5 DEF ReadFrame
<1>6. CASE Check(r)
  <2>1. /\ pc[r] = "check" /\ pc' = [pc EXCEPT ![r] = "read"]
        /\ UNCHANGED <<visit, shown, stop, failed, rec>>
    BY <1>6 DEF Check
  <2>2. CASE wpc[r] \in {"none", "dead"}
    <3>1. wpc' = [wpc EXCEPT ![r] = "build"] /\ ready' = [ready EXCEPT ![r] = FALSE]
      BY <1>6, <2>2 DEF Check
    <3>2. wpc'[r] = "build" /\ ~ready'[r]
      BY <3>1
    <3>3. \A q \in Reader : q # r => wpc'[q] = wpc[q] /\ ready'[q] = ready[q]
      BY <3>1
    <3>4. pc[r] \notin {"off", "done"} /\ pc'[r] # "off" /\ \A q \in Reader : q # r => pc'[q] = pc[q]
      BY <2>1
    <3>5. QED BY <2>1, <2>2, <3>2, <3>3, <3>4
  <2>3. CASE wpc[r] \notin {"none", "dead"}
    <3>1. UNCHANGED <<wpc, ready>>
      BY <1>6, <2>3 DEF Check
    <3>2. QED BY <2>1, <3>1
  <2>4. QED BY <2>2, <2>3
<1>7. CASE ReadEnds(r)
  BY <1>7 DEF ReadEnds
<1>8. CASE SnapOk(r)
  BY <1>8 DEF SnapOk
<1>9. CASE SnapFails(r)
  BY <1>9 DEF SnapFails
<1>10. CASE Pump(r)
  BY <1>10 DEF Pump
<1>11. CASE PumpEnds(r)
  BY <1>11 DEF PumpEnds
<1>12. CASE Nap(r)
  BY <1>12 DEF Nap
<1>13. QED
  BY <1>1, <1>2, <1>3, <1>4, <1>5, <1>6, <1>7, <1>8, <1>9, <1>10, <1>11, <1>12 DEF Decoder

\* What a worker leaves alone, where it can be, and that its recorder is on only between its
\* start and its finally clause.
LEMMA WorkerFrame ==
    ASSUME NEW r \in Reader, LVTypeOK, WorkerThread(r)
    PROVE  /\ UNCHANGED <<visit, shown, stop, pc>>
           /\ wpc[r] \notin {"none", "dead"} /\ wpc'[r] # "none"
           /\ \A q \in Reader : q # r => /\ wpc'[q] = wpc[q] /\ rec'[q] = rec[q]
                                         /\ ready'[q] = ready[q] /\ failed'[q] = failed[q]
           /\ rec'[r] => \/ wpc'[r] \in {"run", "infer", "end"}
                         \/ rec[r] /\ wpc[r] = "build"
           /\ failed[r] => failed'[r]
           /\ \/ failed'[r] \/ stop[r] \/ wpc'[r] \in {"run", "infer"}
              \/ ready'[r] = ready[r] /\ wpc[r] \in {"build", "end"} /\ UNCHANGED <<failed, stop>>
<1> USE DEF Work, uiVars, pageVars, decodeVars, Put, Store, Failed, LVTypeOK
<1>1. CASE BuildFails(r)
  BY <1>1 DEF BuildFails
<1>2. CASE BuildOk(r)
  BY <1>2 DEF BuildOk
<1>3. CASE Record(r)
  BY <1>3 DEF Record
<1>4. CASE Grab(r)
  BY <1>4 DEF Grab
<1>5. CASE InferOk(r)
  BY <1>5 DEF InferOk
<1>6. CASE InferFails(r)
  BY <1>6 DEF InferFails
<1>7. CASE WorkerStops(r)
  BY <1>7 DEF WorkerStops
<1>8. CASE End(r)
  BY <1>8 DEF End
<1>9. QED
  BY <1>1, <1>2, <1>3, <1>4, <1>5, <1>6, <1>7, <1>8 DEF WorkerThread

\* No thread of a reader disturbs the invariant.
LEMMA DecoderKeepsLive == \A r \in Reader : LiveInv /\ Decoder(r) => LiveInv'
<1> SUFFICES ASSUME NEW r \in Reader, LiveInv, Decoder(r) PROVE LiveInv'
  OBVIOUS
<1>1. LVTypeOK /\ LVTypeOK'
  BY DecoderTypes DEF LiveInv
<1>2. Started'
  <2>1. \A q \in Reader : q[2] \in Int /\ visit \in Int
    BY <1>1, ReaderFacts, LiveAssumption DEF LVTypeOK
  <2>2. r[2] <= visit
    BY <1>1, <2>1, DecoderFrame DEF LiveInv, Started
  <2>3. \A q \in Reader : wpc'[q] = wpc[q] \/ q = r
    BY <1>1, DecoderFrame
  <2>4. \A q \in Reader : wpc'[q] # "none" => q[2] <= visit
    BY <2>2, <2>3 DEF LiveInv, Started
  <2>5. \A q \in Reader : pc'[q] = "off" <=> q[2] > visit
    BY <1>1, <2>1, <2>2, DecoderFrame DEF LiveInv, Started
  <2>6. QED BY <1>1, <2>4, <2>5, DecoderFrame DEF LiveInv, Started
<1>3. StopsExactly'
  BY <1>1, DecoderFrame DEF LiveInv, StopsExactly, Current
<1>4. RecorderHasWorker'
  BY <1>1, DecoderFrame DEF LiveInv, RecorderHasWorker
<1>5. ReadyHasWorker'
  BY <1>1, DecoderFrame DEF LiveInv, ReadyHasWorker
<1>6. QED BY <1>1, <1>2, <1>3, <1>4, <1>5 DEF LiveInv

LEMMA WorkerKeepsLive == \A r \in Reader : LiveInv /\ WorkerThread(r) => LiveInv'
<1> SUFFICES ASSUME NEW r \in Reader, LiveInv, WorkerThread(r) PROVE LiveInv'
  OBVIOUS
<1>1. LVTypeOK /\ LVTypeOK'
  BY WorkerTypes DEF LiveInv
<1>2. Started'
  BY <1>1, WorkerFrame DEF LiveInv, Started
<1>3. StopsExactly'
  BY <1>1, WorkerFrame DEF LiveInv, StopsExactly, Current
<1>4. RecorderHasWorker'
  BY <1>1, WorkerFrame DEF LiveInv, RecorderHasWorker
<1>5. ReadyHasWorker'
  BY <1>1, WorkerFrame DEF LiveInv, ReadyHasWorker
<1>6. QED BY <1>1, <1>2, <1>3, <1>4, <1>5 DEF LiveInv

\* Nor does the window thread, which starts and stops the readers of one visit at a time.
LEMMA PageKeepsLive ==
    LiveInv /\ (Show \/ Look \/ LeavePage \/ Publish \/ PollTick \/ PollAnswered \/ PollFails) => LiveInv'
<1> SUFFICES ASSUME LiveInv,
                    Show \/ Look \/ LeavePage \/ Publish \/ PollTick \/ PollAnswered \/ PollFails
             PROVE  LiveInv'
  OBVIOUS
<1> USE DEF uiVars, pageVars, decodeVars, workerVars
<1>1. LVTypeOK /\ LVTypeOK'
  BY PageTypes DEF LiveInv
<1>2. UNCHANGED <<wpc, rec, ready, failed>>
  BY DEF Show, Look, LeavePage, Publish, PollTick, PollAnswered, PollFails
<1>3. CASE Show
  <2>1. visit' = visit + 1 /\ shown' /\ ~shown /\ UNCHANGED stop
    BY <1>3 DEF Show
  <2>2. visit \in Nat /\ \A q \in Reader : q[2] \in Int
    BY <1>1, ReaderFacts, LiveAssumption DEF LVTypeOK
  <2>3. Started'
    <3>1. \A q \in Reader : pc'[q] = IF q[2] = visit + 1 THEN "delay" ELSE pc[q]
      BY <1>3 DEF Show
    <3>2. \A q \in Reader : pc'[q] = "off" <=> q[2] > visit + 1
      BY <2>2, <3>1 DEF LiveInv, Started
    <3>3. \A q \in Reader : wpc'[q] # "none" => q[2] <= visit + 1
      BY <1>2, <2>2 DEF LiveInv, Started
    <3>4. QED BY <2>1, <2>2, <3>2, <3>3 DEF Started
  <2>4. StopsExactly'
    <3>1. \A q \in Reader : (q \in Current)' <=> q[2] = visit + 1
      BY <2>1, ReaderFacts DEF Current
    <3>2. \A q \in Reader : q \notin Current
      BY <2>1 DEF Current
    <3>3. \A q \in Reader : stop[q] <=> q[2] <= visit
      BY <3>2 DEF LiveInv, StopsExactly
    <3>4. QED BY <2>1, <2>2, <3>1, <3>3 DEF StopsExactly
  <2>5. RecorderHasWorker' /\ ReadyHasWorker'
    BY <1>2, <2>1 DEF LiveInv, RecorderHasWorker, ReadyHasWorker
  <2>6. QED BY <1>1, <2>3, <2>4, <2>5 DEF LiveInv
<1>4. CASE LeavePage
  <2>1. /\ shown /\ ~shown' /\ UNCHANGED <<visit, pc>>
        /\ \A r \in Reader : stop'[r] <=> stop[r] \/ r \in Current
    BY <1>1, <1>4 DEF LeavePage, LVTypeOK
  <2>2. \A r \in Reader : r \in Current => r[2] <= visit
    BY <1>1 DEF Current, LVTypeOK
  <2>3. StopsExactly'
    BY <2>1, <2>2 DEF LiveInv, StopsExactly, Current
  <2>4. Started' /\ RecorderHasWorker' /\ ReadyHasWorker'
    BY <1>2, <2>1 DEF LiveInv, Started, RecorderHasWorker, ReadyHasWorker
  <2>5. QED BY <1>1, <2>3, <2>4 DEF LiveInv
<1>5. CASE Look \/ Publish \/ PollTick \/ PollAnswered \/ PollFails
  <2>1. UNCHANGED <<visit, shown, stop, pc>>
    BY <1>5 DEF Look, Publish, PollTick, PollAnswered, PollFails
  <2>2. Started' /\ StopsExactly' /\ RecorderHasWorker' /\ ReadyHasWorker'
    BY <1>2, <2>1 DEF LiveInv, Started, StopsExactly, Current, RecorderHasWorker, ReadyHasWorker
  <2>3. QED BY <1>1, <2>2 DEF LiveInv
<1>6. QED BY <1>3, <1>4, <1>5

\* Every step keeps the invariant.
LEMMA LiveStep == LiveInv /\ [LVNext]_lvVars => LiveInv'
<1>1. ASSUME LiveInv, UNCHANGED lvVars PROVE LiveInv'
  BY <1>1 DEF LiveInv, LVTypeOK, Started, StopsExactly, Current, RecorderHasWorker, ReadyHasWorker,
              lvVars, uiVars, pageVars, pollVars, decodeVars, workerVars
<1>2. QED BY <1>1, DecoderKeepsLive, WorkerKeepsLive, PageKeepsLive DEF LVNext

\* The type invariant of the live page, and with it the facts about its readers that the next
\* theorems need.
THEOREM LiveInvariance == LVSpec => []LiveInv
  BY LiveInit, LiveStep, PTL DEF LVSpec

\* Whatever the threads do, every variable keeps its type: the lists of URLs stay as they are built, the
\* index tried stays inside them and the failed inferences below the limit.
THEOREM LiveTypes == LVSpec => []LVTypeOK
<1>1. LiveInv => LVTypeOK
  BY DEF LiveInv
<1>2. QED BY <1>1, LiveInvariance, PTL

\* local_view.py 1224-1245: no thread of a reader runs on unnoticed.  Each that is alive belongs to
\* the visit on screen or has been told to stop; readers of a visit that was left are never missed.
NoForgottenReader ==
    \A r \in Reader : pc[r] \notin {"off", "done"} \/ wpc[r] \notin {"none", "dead"} \/ rec[r]
                          => r \in Current \/ stop[r]

THEOREM NoneForgotten == LVSpec => []NoForgottenReader
<1>1. LiveInv => NoForgottenReader
  BY ReaderFacts DEF LiveInv, LVTypeOK, Started, StopsExactly, RecorderHasWorker, NoForgottenReader
<1>2. QED BY <1>1, LiveInvariance, PTL

\* local_view.py 529-541: a recorder never outlives its worker, whose finally clause stops it; a build that
\* fails leaves none behind.
THEOREM RecorderStopped == LVSpec => []RecorderHasWorker
<1>1. LiveInv => RecorderHasWorker
  BY DEF LiveInv
<1>2. QED BY <1>1, LiveInvariance, PTL

\* local_view.py 483-490 and 607-612: while a reader counts on its worker's frames, the worker is there to make
\* them, so a tile is never left with neither thread painting.
THEOREM ReadyIsServed == LVSpec => []ReadyHasWorker
<1>1. LiveInv => ReadyHasWorker
  BY DEF LiveInv
<1>2. QED BY <1>1, LiveInvariance, PTL

\* Neither thread of a reader runs and it records nothing.
Over(r) == pc[r] \in {"off", "done"} /\ wpc[r] \in {"none", "dead"} /\ ~rec[r]

\* local_view.py 334-336: the stop event is never cleared, so a reader that was told to stop and has ended
\* is not brought back by a late answer, a restart of its worker or another visit of the page.
THEOREM LeftForGood == LVSpec => [][\A r \in Reader : stop[r] /\ Over(r) => Over(r)']_lvVars
<1>1. ASSUME LiveInv, LVNext, NEW r \in Reader, stop[r], Over(r) PROVE Over(r)'
  <2>1. LVTypeOK
    BY <1>1 DEF LiveInv
  <2>2. ASSUME NEW q \in Reader, Decoder(q) PROVE Over(r)'
    BY <1>1, <2>1, <2>2, DecoderFrame DEF Over
  <2>3. ASSUME NEW q \in Reader, WorkerThread(q) PROVE Over(r)'
    BY <1>1, <2>1, <2>3, WorkerFrame DEF Over
  <2>4. CASE Show
    <3>1. r[2] <= visit
      BY <1>1 DEF LiveInv, StopsExactly
    <3>2. r[2] # visit + 1
      BY <2>1, <3>1, ReaderFacts, LiveAssumption DEF LVTypeOK
    <3>3. pc'[r] = pc[r] /\ UNCHANGED <<wpc, rec>>
      BY <2>4, <3>2 DEF Show, workerVars
    <3>4. QED BY <1>1, <3>3 DEF Over
  <2>5. CASE Look \/ LeavePage \/ Publish \/ PollTick \/ PollAnswered \/ PollFails
    <3>1. UNCHANGED <<pc, wpc, rec>>
      BY <2>5 DEF Look, LeavePage, Publish, PollTick, PollAnswered, PollFails, decodeVars, workerVars
    <3>2. QED BY <1>1, <3>1 DEF Over
  <2>6. QED BY <1>1, <2>2, <2>3, <2>4, <2>5 DEF LVNext
<1>2. LiveInv /\ [LVNext]_lvVars => [\A r \in Reader : stop[r] /\ Over(r) => Over(r)']_lvVars
  BY <1>1
<1>3. QED BY <1>2, LiveInvariance, PTL DEF LVSpec
=============================================================================
