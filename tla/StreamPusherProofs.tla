------------------------- MODULE StreamPusherProofs -------------------------
(***************************************************************************)
(* Proofs about StreamPusher, for any number of cameras, relays, children, *)
(* sources and codecs and any backoff limits.                              *)
(***************************************************************************)
EXTENDS StreamPusher, TLAPS

(***************************************************************************)
(* The inductive invariant                                                 *)
(***************************************************************************)

\* A child waits to be stored in st.proc only right after Popen.
FreshWhenSpawned ==
    \A r \in Relay : fresh[r] # None <=> pc[r] = "spawned"

\* Outside the span from the assignment to the end of communicate, the child
\* st.proc holds has ended: a relay never launches over a running child.
OldChildIsDead ==
    \A r \in Relay :
        pc[r] \notin {"recheck", "selfReap", "comm"} => proc[r] \notin alive

\* The table and the relays agree.
TableConsistent ==
    \A p \in Path : states[p] # None => path[states[p]] = p /\ ~stop[states[p]]

\* While _stop_locked is at work, its relay is stopped and out of the table.
VictimConsistent ==
    /\ ctl \in {"read", "reap", "start"} =>
           /\ victim \in Relay
           /\ path[victim] \in Path
           /\ states[path[victim]] = None
           /\ stop[victim]
    /\ ctl = "start" => resume = "start"

IInv ==
    /\ TypeOK
    /\ FreshWhenSpawned
    /\ OldChildIsDead
    /\ TableConsistent
    /\ VictimConsistent
    /\ NoUnsupervisedChild
    /\ StoppedChildIsReaped
    /\ UnstoppedIsRegistered
(***************************************************************************)
(* Type correctness                                                        *)
(***************************************************************************)

\* The initial values have their types.
LEMMA InitType == Init => TypeOK
BY BackoffAssumption DEF Init, TypeOK, RelayPc, CtlPc

\* The lock holder's steps keep every variable in its type.
LEMMA LockHolderType ==
    ASSUME TypeOK, VictimConsistent, LockHolder
    PROVE  TypeOK'
<1> USE DEF TypeOK, relayVars, ctlVars, CtlPc
<1>1. CASE ReadProc
  BY <1>1 DEF ReadProc, VictimConsistent
<1>2. CASE ReapVictim
  BY <1>2 DEF ReapVictim
<1>3. CASE SyncDone \/ StopAllReaped \/ StopAllDone
  BY <1>3 DEF SyncDone, StopAllReaped, StopAllDone
<1>4. ASSUME NEW p \in Path, StopUnwanted(p) \/ StopChanged(p) \/ StopOne(p)
      PROVE  TypeOK'
  <2>1. states[p] \in Relay
    BY <1>4 DEF StopUnwanted, StopChanged, StopOne, Unwanted
  <2>2. PICK q \in {"sync", "stopall", "start"} : StopLocked(p, q)
    BY <1>4 DEF StopUnwanted, StopChanged, StopOne
  <2>3. /\ states' = [states EXCEPT ![p] = None] /\ stop' = [stop EXCEPT ![states[p]] = TRUE]
        /\ victim' = states[p] /\ ctl' = "read" /\ resume' = q
        /\ UNCHANGED <<target, force, path, proc, fresh, backoff, pc>>
    BY <2>2 DEF StopLocked
  <2>4. UNCHANGED <<alive, binary, handle, wanted, joining>>
    BY <1>4 DEF StopUnwanted, StopChanged, StopOne
  <2>5. QED BY <2>1, <2>3, <2>4
<1>5. ASSUME NEW r \in Relay, StartChanged(r)
      PROVE  TypeOK'
  BY <1>5 DEF StartChanged, StartLocked, VictimConsistent, RelayPc
<1>6. ASSUME NEW r \in Relay, Join(r)
      PROVE  TypeOK'
  BY <1>6 DEF Join
<1>7. ASSUME NEW r \in Relay, NEW p \in Path, StartMissing(r, p)
      PROVE  TypeOK'
  BY <1>7 DEF StartMissing, StartLocked, RelayPc
<1>8. QED
  BY <1>1, <1>2, <1>3, <1>4, <1>5, <1>6, <1>7 DEF LockHolder

\* So do the relay threads' steps.
LEMMA RelayThreadType ==
    ASSUME TypeOK, NEW r \in Relay, RelayThread(r)
    PROVE  TypeOK'
<1> USE DEF TypeOK, ctlVars, Goto, RelayPc
<1>1. ASSUME NEW b \in HasBFrames, NEW c \in StreamCorrupt, Probe(r, b, c)
      PROVE  TypeOK'
  BY <1>1 DEF Probe, Transcodes
<1>2. CASE LoopHead(r)
  BY <1>2 DEF LoopHead
<1>3. ASSUME NEW p \in Proc, PopenOk(r, p)
      PROVE  TypeOK'
  BY <1>3 DEF PopenOk
<1>4. CASE PopenMissing(r) \/ PopenFails(r)
  BY <1>4 DEF PopenMissing, PopenFails
<1>5. CASE AssignProc(r)
  BY <1>5 DEF AssignProc
<1>6. CASE Recheck(r)
  BY <1>6 DEF Recheck
<1>7. CASE SelfReap(r)
  BY <1>7 DEF SelfReap
<1>8. ASSUME NEW healthy \in BOOLEAN, Communicate(r, healthy)
      PROVE  TypeOK'
  BY <1>8, BackoffAssumption DEF Communicate
<1>9. CASE Backoff(r)
  BY <1>9, BackoffAssumption DEF Backoff
<1>10. CASE Finally(r)
  BY <1>10, BackoffAssumption DEF Finally
<1>11. QED
  BY <1>1, <1>2, <1>3, <1>4, <1>5, <1>6, <1>7, <1>8, <1>9, <1>10 DEF RelayThread

\* Every step keeps the types.
LEMMA NextType ==
    ASSUME TypeOK, VictimConsistent, [Next]_vars
    PROVE  TypeOK'
<1> USE DEF TypeOK, relayVars, ctlVars
<1>1. ASSUME NEW w \in [Path -> Target \cup {None}], Sync(w)
      PROVE  TypeOK'
  BY <1>1 DEF Sync, CtlPc
<1>2. CASE StopAll
  BY <1>2 DEF StopAll, CtlPc
<1>3. CASE LockHolder
  BY <1>3, LockHolderType
<1>4. ASSUME NEW r \in Relay, RelayThread(r)
      PROVE  TypeOK'
  BY <1>4, RelayThreadType
<1>5. ASSUME NEW p \in Proc, ChildDies(p)
      PROVE  TypeOK'
  BY <1>5 DEF ChildDies
<1>6. CASE InstallFfmpeg
  BY <1>6 DEF InstallFfmpeg
<1>7. CASE UNCHANGED vars
  BY <1>7 DEF vars
<1>8. QED
  BY <1>1, <1>2, <1>3, <1>4, <1>5, <1>6, <1>7 DEF Next
(***************************************************************************)
(* Preservation of the rest, conjunct by conjunct                          *)
(***************************************************************************)

\* The table, the relays and the relay being stopped stay consistent.
LEMMA TableStep ==
    ASSUME TypeOK, TableConsistent, VictimConsistent, [Next]_vars
    PROVE  TableConsistent' /\ VictimConsistent'
<1> USE NoneAssumption DEF TypeOK, relayVars, ctlVars, TableConsistent, VictimConsistent
<1>1. ASSUME NEW w \in [Path -> Target \cup {None}], Sync(w)
      PROVE  TableConsistent' /\ VictimConsistent'
  BY <1>1 DEF Sync
<1>2. CASE StopAll
  BY <1>2 DEF StopAll
<1>3. CASE ReadProc
  BY <1>3 DEF ReadProc
<1>4. CASE ReapVictim
  BY <1>4 DEF ReapVictim
<1>5. CASE SyncDone \/ StopAllReaped \/ StopAllDone
  BY <1>5 DEF SyncDone, StopAllReaped, StopAllDone
<1>6. ASSUME NEW p \in Path, StopUnwanted(p) \/ StopChanged(p) \/ StopOne(p)
      PROVE  TableConsistent' /\ VictimConsistent'
  BY <1>6 DEF StopUnwanted, StopChanged, StopOne, StopLocked, Unwanted
<1>7. ASSUME NEW r \in Relay, StartChanged(r)
      PROVE  TableConsistent' /\ VictimConsistent'
  BY <1>7 DEF StartChanged, StartLocked, FreeRelay
<1>8. ASSUME NEW r \in Relay, NEW p \in Path, StartMissing(r, p)
      PROVE  TableConsistent' /\ VictimConsistent'
  BY <1>8 DEF StartMissing, StartLocked, FreeRelay
<1>9. ASSUME NEW r \in Relay, Join(r)
      PROVE  TableConsistent' /\ VictimConsistent'
  BY <1>9 DEF Join
<1>10. ASSUME NEW r \in Relay, NEW b \in HasBFrames, NEW c \in StreamCorrupt, Probe(r, b, c)
      PROVE  TableConsistent' /\ VictimConsistent'
  BY <1>10 DEF Probe, Goto
<1>11. ASSUME NEW r \in Relay, LoopHead(r)
      PROVE  TableConsistent' /\ VictimConsistent'
  BY <1>11 DEF LoopHead, Goto
<1>12. ASSUME NEW r \in Relay, NEW c \in Proc, PopenOk(r, c)
      PROVE  TableConsistent' /\ VictimConsistent'
  BY <1>12 DEF PopenOk, Goto, FreeProc
<1>13. ASSUME NEW r \in Relay, PopenMissing(r) \/ PopenFails(r)
      PROVE  TableConsistent' /\ VictimConsistent'
  BY <1>13 DEF PopenMissing, PopenFails, Goto
<1>14. ASSUME NEW r \in Relay, AssignProc(r)
      PROVE  TableConsistent' /\ VictimConsistent'
  BY <1>14 DEF AssignProc, Goto
<1>15. ASSUME NEW r \in Relay, Recheck(r) \/ SelfReap(r)
      PROVE  TableConsistent' /\ VictimConsistent'
  BY <1>15 DEF Recheck, SelfReap, Goto
<1>16. ASSUME NEW r \in Relay, NEW healthy \in BOOLEAN, Communicate(r, healthy)
      PROVE  TableConsistent' /\ VictimConsistent'
  BY <1>16 DEF Communicate, Goto
<1>17. ASSUME NEW r \in Relay, Backoff(r) \/ Finally(r)
      PROVE  TableConsistent' /\ VictimConsistent'
  BY <1>17 DEF Backoff, Finally, Goto
<1>18. ASSUME NEW c \in Proc, ChildDies(c)
      PROVE  TableConsistent' /\ VictimConsistent'
  BY <1>18 DEF ChildDies
<1>19. CASE InstallFfmpeg
  BY <1>19 DEF InstallFfmpeg
<1>20. CASE UNCHANGED vars
  BY <1>20 DEF vars
<1>21. QED
  BY <1>1, <1>2, <1>3, <1>4, <1>5, <1>6, <1>7, <1>8, <1>9, <1>10, <1>11, <1>12, <1>13, <1>14, <1>15, <1>16, <1>17, <1>18, <1>19, <1>20
     DEF Next, LockHolder, RelayThread

\* A relay launches a child only when its previous one has ended.
LEMMA ChildStep ==
    ASSUME TypeOK, FreshWhenSpawned, OldChildIsDead, [Next]_vars
    PROVE  FreshWhenSpawned' /\ OldChildIsDead'
<1> USE NoneAssumption DEF TypeOK, relayVars, ctlVars, FreshWhenSpawned, OldChildIsDead
<1>1. ASSUME NEW w \in [Path -> Target \cup {None}], Sync(w)
      PROVE  FreshWhenSpawned' /\ OldChildIsDead'
  BY <1>1 DEF Sync
<1>2. CASE StopAll
  BY <1>2 DEF StopAll
<1>3. CASE ReadProc
  BY <1>3 DEF ReadProc
<1>4. CASE ReapVictim
  BY <1>4 DEF ReapVictim
<1>5. CASE SyncDone \/ StopAllReaped \/ StopAllDone
  BY <1>5 DEF SyncDone, StopAllReaped, StopAllDone
<1>6. ASSUME NEW p \in Path, StopUnwanted(p) \/ StopChanged(p) \/ StopOne(p)
      PROVE  FreshWhenSpawned' /\ OldChildIsDead'
  BY <1>6 DEF StopUnwanted, StopChanged, StopOne, StopLocked, Unwanted
<1>7. ASSUME NEW r \in Relay, StartChanged(r)
      PROVE  FreshWhenSpawned' /\ OldChildIsDead'
  BY <1>7 DEF StartChanged, StartLocked, FreeRelay
<1>8. ASSUME NEW r \in Relay, NEW p \in Path, StartMissing(r, p)
      PROVE  FreshWhenSpawned' /\ OldChildIsDead'
  BY <1>8 DEF StartMissing, StartLocked, FreeRelay
<1>9. ASSUME NEW r \in Relay, Join(r)
      PROVE  FreshWhenSpawned' /\ OldChildIsDead'
  BY <1>9 DEF Join
<1>10. ASSUME NEW r \in Relay, NEW b \in HasBFrames, NEW c \in StreamCorrupt, Probe(r, b, c)
      PROVE  FreshWhenSpawned' /\ OldChildIsDead'
  BY <1>10 DEF Probe, Goto
<1>11. ASSUME NEW r \in Relay, LoopHead(r)
      PROVE  FreshWhenSpawned' /\ OldChildIsDead'
  BY <1>11 DEF LoopHead, Goto
<1>12. ASSUME NEW r \in Relay, NEW c \in Proc, PopenOk(r, c)
      PROVE  FreshWhenSpawned' /\ OldChildIsDead'
  BY <1>12 DEF PopenOk, Goto, FreeProc
<1>13. ASSUME NEW r \in Relay, PopenMissing(r) \/ PopenFails(r)
      PROVE  FreshWhenSpawned' /\ OldChildIsDead'
  BY <1>13 DEF PopenMissing, PopenFails, Goto
<1>14. ASSUME NEW r \in Relay, AssignProc(r)
      PROVE  FreshWhenSpawned' /\ OldChildIsDead'
  BY <1>14 DEF AssignProc, Goto
<1>15. ASSUME NEW r \in Relay, Recheck(r) \/ SelfReap(r)
      PROVE  FreshWhenSpawned' /\ OldChildIsDead'
  BY <1>15 DEF Recheck, SelfReap, Goto
<1>16. ASSUME NEW r \in Relay, NEW healthy \in BOOLEAN, Communicate(r, healthy)
      PROVE  FreshWhenSpawned' /\ OldChildIsDead'
  BY <1>16 DEF Communicate, Goto
<1>17. ASSUME NEW r \in Relay, Backoff(r) \/ Finally(r)
      PROVE  FreshWhenSpawned' /\ OldChildIsDead'
  BY <1>17 DEF Backoff, Finally, Goto
<1>18. ASSUME NEW c \in Proc, ChildDies(c)
      PROVE  FreshWhenSpawned' /\ OldChildIsDead'
  BY <1>18 DEF ChildDies
<1>19. CASE InstallFfmpeg
  BY <1>19 DEF InstallFfmpeg
<1>20. CASE UNCHANGED vars
  BY <1>20 DEF vars
<1>21. QED
  BY <1>1, <1>2, <1>3, <1>4, <1>5, <1>6, <1>7, <1>8, <1>9, <1>10, <1>11, <1>12, <1>13, <1>14, <1>15, <1>16, <1>17, <1>18, <1>19, <1>20
     DEF Next, LockHolder, RelayThread

\* Every running child keeps a thread that will reap it.
LEMMA SupervisionStep ==
    ASSUME TypeOK, FreshWhenSpawned, OldChildIsDead, NoUnsupervisedChild, [Next]_vars
    PROVE  NoUnsupervisedChild'
<1> USE NoneAssumption DEF TypeOK, relayVars, ctlVars, FreshWhenSpawned, OldChildIsDead, NoUnsupervisedChild, Children
<1>1. ASSUME NEW w \in [Path -> Target \cup {None}], Sync(w)
      PROVE  NoUnsupervisedChild'
  BY <1>1 DEF Sync
<1>2. CASE StopAll
  BY <1>2 DEF StopAll
<1>3. CASE ReadProc
  BY <1>3 DEF ReadProc
<1>4. CASE ReapVictim
  BY <1>4 DEF ReapVictim
<1>5. CASE SyncDone \/ StopAllReaped \/ StopAllDone
  BY <1>5 DEF SyncDone, StopAllReaped, StopAllDone
<1>6. ASSUME NEW p \in Path, StopUnwanted(p) \/ StopChanged(p) \/ StopOne(p)
      PROVE  NoUnsupervisedChild'
  BY <1>6 DEF StopUnwanted, StopChanged, StopOne, StopLocked, Unwanted
<1>7. ASSUME NEW r \in Relay, StartChanged(r)
      PROVE  NoUnsupervisedChild'
  BY <1>7 DEF StartChanged, StartLocked, FreeRelay
<1>8. ASSUME NEW r \in Relay, NEW p \in Path, StartMissing(r, p)
      PROVE  NoUnsupervisedChild'
  BY <1>8 DEF StartMissing, StartLocked, FreeRelay
<1>9. ASSUME NEW r \in Relay, Join(r)
      PROVE  NoUnsupervisedChild'
  BY <1>9 DEF Join
<1>10. ASSUME NEW r \in Relay, NEW b \in HasBFrames, NEW c \in StreamCorrupt, Probe(r, b, c)
      PROVE  NoUnsupervisedChild'
  BY <1>10 DEF Probe, Goto
<1>11. ASSUME NEW r \in Relay, LoopHead(r)
      PROVE  NoUnsupervisedChild'
  BY <1>11 DEF LoopHead, Goto
<1>12. ASSUME NEW r \in Relay, NEW c \in Proc, PopenOk(r, c)
      PROVE  NoUnsupervisedChild'
  BY <1>12 DEF PopenOk, Goto, FreeProc
<1>13. ASSUME NEW r \in Relay, PopenMissing(r) \/ PopenFails(r)
      PROVE  NoUnsupervisedChild'
  BY <1>13 DEF PopenMissing, PopenFails, Goto
<1>14. ASSUME NEW r \in Relay, AssignProc(r)
      PROVE  NoUnsupervisedChild'
  BY <1>14 DEF AssignProc, Goto
<1>15. ASSUME NEW r \in Relay, Recheck(r) \/ SelfReap(r)
      PROVE  NoUnsupervisedChild'
  BY <1>15 DEF Recheck, SelfReap, Goto
<1>16. ASSUME NEW r \in Relay, NEW healthy \in BOOLEAN, Communicate(r, healthy)
      PROVE  NoUnsupervisedChild'
  BY <1>16 DEF Communicate, Goto
<1>17. ASSUME NEW r \in Relay, Backoff(r) \/ Finally(r)
      PROVE  NoUnsupervisedChild'
  BY <1>17 DEF Backoff, Finally, Goto
<1>18. ASSUME NEW c \in Proc, ChildDies(c)
      PROVE  NoUnsupervisedChild'
  BY <1>18 DEF ChildDies
<1>19. CASE InstallFfmpeg
  BY <1>19 DEF InstallFfmpeg
<1>20. CASE UNCHANGED vars
  BY <1>20 DEF vars
<1>21. QED
  BY <1>1, <1>2, <1>3, <1>4, <1>5, <1>6, <1>7, <1>8, <1>9, <1>10, <1>11, <1>12, <1>13, <1>14, <1>15, <1>16, <1>17, <1>18, <1>19, <1>20
     DEF Next, LockHolder, RelayThread

\* The stop/launch race stays closed.
LEMMA StoppedStep ==
    ASSUME TypeOK, VictimConsistent, StoppedChildIsReaped, [Next]_vars
    PROVE  StoppedChildIsReaped'
<1> USE NoneAssumption DEF TypeOK, relayVars, ctlVars, VictimConsistent, StoppedChildIsReaped
<1>1. ASSUME NEW w \in [Path -> Target \cup {None}], Sync(w)
      PROVE  StoppedChildIsReaped'
  BY <1>1 DEF Sync
<1>2. CASE StopAll
  BY <1>2 DEF StopAll
<1>3. CASE ReadProc
  BY <1>3 DEF ReadProc
<1>4. CASE ReapVictim
  BY <1>4 DEF ReapVictim
<1>5. CASE SyncDone \/ StopAllReaped \/ StopAllDone
  BY <1>5 DEF SyncDone, StopAllReaped, StopAllDone
<1>6. ASSUME NEW p \in Path, StopUnwanted(p) \/ StopChanged(p) \/ StopOne(p)
      PROVE  StoppedChildIsReaped'
  BY <1>6 DEF StopUnwanted, StopChanged, StopOne, StopLocked, Unwanted
<1>7. ASSUME NEW r \in Relay, StartChanged(r)
      PROVE  StoppedChildIsReaped'
  BY <1>7 DEF StartChanged, StartLocked, FreeRelay
<1>8. ASSUME NEW r \in Relay, NEW p \in Path, StartMissing(r, p)
      PROVE  StoppedChildIsReaped'
  BY <1>8 DEF StartMissing, StartLocked, FreeRelay
<1>9. ASSUME NEW r \in Relay, Join(r)
      PROVE  StoppedChildIsReaped'
  BY <1>9 DEF Join
<1>10. ASSUME NEW r \in Relay, NEW b \in HasBFrames, NEW c \in StreamCorrupt, Probe(r, b, c)
      PROVE  StoppedChildIsReaped'
  BY <1>10 DEF Probe, Goto
<1>11. ASSUME NEW r \in Relay, LoopHead(r)
      PROVE  StoppedChildIsReaped'
  BY <1>11 DEF LoopHead, Goto
<1>12. ASSUME NEW r \in Relay, NEW c \in Proc, PopenOk(r, c)
      PROVE  StoppedChildIsReaped'
  BY <1>12 DEF PopenOk, Goto, FreeProc
<1>13. ASSUME NEW r \in Relay, PopenMissing(r) \/ PopenFails(r)
      PROVE  StoppedChildIsReaped'
  BY <1>13 DEF PopenMissing, PopenFails, Goto
<1>14. ASSUME NEW r \in Relay, AssignProc(r)
      PROVE  StoppedChildIsReaped'
  BY <1>14 DEF AssignProc, Goto
<1>15. ASSUME NEW r \in Relay, Recheck(r) \/ SelfReap(r)
      PROVE  StoppedChildIsReaped'
  BY <1>15 DEF Recheck, SelfReap, Goto
<1>16. ASSUME NEW r \in Relay, NEW healthy \in BOOLEAN, Communicate(r, healthy)
      PROVE  StoppedChildIsReaped'
  BY <1>16 DEF Communicate, Goto
<1>17. ASSUME NEW r \in Relay, Backoff(r) \/ Finally(r)
      PROVE  StoppedChildIsReaped'
  BY <1>17 DEF Backoff, Finally, Goto
<1>18. ASSUME NEW c \in Proc, ChildDies(c)
      PROVE  StoppedChildIsReaped'
  BY <1>18 DEF ChildDies
<1>19. CASE InstallFfmpeg
  BY <1>19 DEF InstallFfmpeg
<1>20. CASE UNCHANGED vars
  BY <1>20 DEF vars
<1>21. QED
  BY <1>1, <1>2, <1>3, <1>4, <1>5, <1>6, <1>7, <1>8, <1>9, <1>10, <1>11, <1>12, <1>13, <1>14, <1>15, <1>16, <1>17, <1>18, <1>19, <1>20
     DEF Next, LockHolder, RelayThread

\* No relay that was not told to stop leaves the table.
LEMMA UnstoppedStep ==
    ASSUME TypeOK, TableConsistent, VictimConsistent, UnstoppedIsRegistered, [Next]_vars
    PROVE  UnstoppedIsRegistered'
<1> USE NoneAssumption DEF TypeOK, relayVars, ctlVars, TableConsistent, VictimConsistent, UnstoppedIsRegistered
<1>1. ASSUME NEW w \in [Path -> Target \cup {None}], Sync(w)
      PROVE  UnstoppedIsRegistered'
  BY <1>1 DEF Sync
<1>2. CASE StopAll
  BY <1>2 DEF StopAll
<1>3. CASE ReadProc
  BY <1>3 DEF ReadProc
<1>4. CASE ReapVictim
  BY <1>4 DEF ReapVictim
<1>5. CASE SyncDone \/ StopAllReaped \/ StopAllDone
  BY <1>5 DEF SyncDone, StopAllReaped, StopAllDone
<1>6. ASSUME NEW p \in Path, StopUnwanted(p) \/ StopChanged(p) \/ StopOne(p)
      PROVE  UnstoppedIsRegistered'
  BY <1>6 DEF StopUnwanted, StopChanged, StopOne, StopLocked, Unwanted
<1>7. ASSUME NEW r \in Relay, StartChanged(r)
      PROVE  UnstoppedIsRegistered'
  BY <1>7 DEF StartChanged, StartLocked, FreeRelay
<1>8. ASSUME NEW r \in Relay, NEW p \in Path, StartMissing(r, p)
      PROVE  UnstoppedIsRegistered'
  BY <1>8 DEF StartMissing, StartLocked, FreeRelay
<1>9. ASSUME NEW r \in Relay, Join(r)
      PROVE  UnstoppedIsRegistered'
  BY <1>9 DEF Join
<1>10. ASSUME NEW r \in Relay, NEW b \in HasBFrames, NEW c \in StreamCorrupt, Probe(r, b, c)
      PROVE  UnstoppedIsRegistered'
  BY <1>10 DEF Probe, Goto
<1>11. ASSUME NEW r \in Relay, LoopHead(r)
      PROVE  UnstoppedIsRegistered'
  BY <1>11 DEF LoopHead, Goto
<1>12. ASSUME NEW r \in Relay, NEW c \in Proc, PopenOk(r, c)
      PROVE  UnstoppedIsRegistered'
  BY <1>12 DEF PopenOk, Goto, FreeProc
<1>13. ASSUME NEW r \in Relay, PopenMissing(r) \/ PopenFails(r)
      PROVE  UnstoppedIsRegistered'
  BY <1>13 DEF PopenMissing, PopenFails, Goto
<1>14. ASSUME NEW r \in Relay, AssignProc(r)
      PROVE  UnstoppedIsRegistered'
  BY <1>14 DEF AssignProc, Goto
<1>15. ASSUME NEW r \in Relay, Recheck(r) \/ SelfReap(r)
      PROVE  UnstoppedIsRegistered'
  BY <1>15 DEF Recheck, SelfReap, Goto
<1>16. ASSUME NEW r \in Relay, NEW healthy \in BOOLEAN, Communicate(r, healthy)
      PROVE  UnstoppedIsRegistered'
  BY <1>16 DEF Communicate, Goto
<1>17. ASSUME NEW r \in Relay, Backoff(r) \/ Finally(r)
      PROVE  UnstoppedIsRegistered'
  BY <1>17 DEF Backoff, Finally, Goto
<1>18. ASSUME NEW c \in Proc, ChildDies(c)
      PROVE  UnstoppedIsRegistered'
  BY <1>18 DEF ChildDies
<1>19. CASE InstallFfmpeg
  BY <1>19 DEF InstallFfmpeg
<1>20. CASE UNCHANGED vars
  BY <1>20 DEF vars
<1>21. QED
  BY <1>1, <1>2, <1>3, <1>4, <1>5, <1>6, <1>7, <1>8, <1>9, <1>10, <1>11, <1>12, <1>13, <1>14, <1>15, <1>16, <1>17, <1>18, <1>19, <1>20
     DEF Next, LockHolder, RelayThread

(***************************************************************************)
(* The theorems                                                            *)
(***************************************************************************)

\* Every reachable state satisfies the inductive invariant.
THEOREM Invariance == Spec => []IInv
<1>1. Init => IInv
  <2> SUFFICES ASSUME Init PROVE IInv
    OBVIOUS
  <2>1. TypeOK
    BY InitType
  <2>2. FreshWhenSpawned /\ OldChildIsDead /\ NoUnsupervisedChild
    BY NoneAssumption DEF Init, FreshWhenSpawned, OldChildIsDead, NoUnsupervisedChild
  <2>3. TableConsistent /\ VictimConsistent
    BY DEF Init, TableConsistent, VictimConsistent
  <2>4. StoppedChildIsReaped /\ UnstoppedIsRegistered
    BY DEF Init, StoppedChildIsReaped, UnstoppedIsRegistered
  <2>5. QED
    BY <2>1, <2>2, <2>3, <2>4 DEF IInv
<1>2. IInv /\ [Next]_vars => IInv'
  BY NextType, TableStep, ChildStep, SupervisionStep, StoppedStep, UnstoppedStep
     DEF IInv
<1>3. QED
  BY <1>1, <1>2, PTL DEF Spec

\* Type correctness of the pusher.
THEOREM TypeCorrect == Spec => []TypeOK
<1>1. IInv => TypeOK
  BY DEF IInv
<1>2. QED
  BY <1>1, Invariance, PTL

\* No ffmpeg child is ever without a relay thread that will reap it
\* (_run_relay's finally clause).
THEOREM ChildrenSupervised == Spec => []NoUnsupervisedChild
<1>1. IInv => NoUnsupervisedChild
  BY DEF IInv
<1>2. QED
  BY <1>1, Invariance, PTL

\* The stop/launch race of _relay_loop is closed for any number of relays.
THEOREM StopRaceClosed == Spec => []StoppedChildIsReaped
<1>1. IInv => StoppedChildIsReaped
  BY DEF IInv
<1>2. QED
  BY <1>1, Invariance, PTL

\* Every relay that has not been told to stop can still be: it is in _states.
THEOREM RelaysReachable == Spec => []UnstoppedIsRegistered
<1>1. IInv => UnstoppedIsRegistered
  BY DEF IInv
<1>2. QED
  BY <1>1, Invariance, PTL

(***************************************************************************)
(* Which relays sync replaces                                              *)
(***************************************************************************)

\* A registered relay has a target, and a relay stopped to be replaced is one
\* whose camera the current sync wants.
TargetsKnown ==
    /\ \A p \in Path : states[p] # None => target[states[p]] # None
    /\ ctl \in {"read", "reap", "start"} /\ resume = "start" => wanted[path[victim]] # None

\* What a sync may replace a relay for.
Churn(p) ==
    states[p] # None /\ states'[p] # states[p] =>
        ctl = "stopall" \/ wanted[p] # target[states[p]]

\* The relay threads and the environment leave the table and the lock holder alone.
LEMMA OthersLeaveTable ==
    ASSUME [Next]_vars,
           ~LockHolder, ~StopAll, ~(\E w \in [Path -> Target \cup {None}] : Sync(w))
    PROVE  UNCHANGED <<states, target, path, ctlVars>>
<1> USE DEF relayVars, ctlVars
<1>1. ASSUME NEW r \in Relay, RelayThread(r)
      PROVE  UNCHANGED <<states, target, path, ctlVars>>
  BY <1>1 DEF RelayThread, Probe, LoopHead, PopenOk, PopenMissing, PopenFails, AssignProc,
              Recheck, SelfReap, Communicate, Backoff, Finally
<1>2. ASSUME NEW c \in Proc, ChildDies(c)
      PROVE  UNCHANGED <<states, target, path, ctlVars>>
  BY <1>2 DEF ChildDies
<1>3. CASE InstallFfmpeg \/ UNCHANGED vars
  BY <1>3 DEF InstallFfmpeg, vars
<1>4. QED
  BY <1>1, <1>2, <1>3 DEF Next

\* Only _stop_locked on an unwanted, a changed or (in stop_all) any relay, and
\* _start_locked on a path without a relay, change the table.
LEMMA TargetStep ==
    ASSUME TypeOK, TableConsistent, VictimConsistent, TargetsKnown, [Next]_vars
    PROVE  TargetsKnown' /\ \A p \in Path : Churn(p)
<1> USE NoneAssumption DEF TypeOK, relayVars, ctlVars, TargetsKnown, Churn
<1>1. ASSUME NEW w \in [Path -> Target \cup {None}], Sync(w)
      PROVE  TargetsKnown' /\ \A p \in Path : Churn(p)
  BY <1>1 DEF Sync
<1>2. CASE StopAll
  BY <1>2 DEF StopAll
<1>3. CASE ReadProc \/ ReapVictim
  BY <1>3 DEF ReadProc, ReapVictim
<1>4. CASE SyncDone \/ StopAllReaped \/ StopAllDone
  BY <1>4 DEF SyncDone, StopAllReaped, StopAllDone
<1>5. ASSUME NEW p \in Path, StopUnwanted(p)
      PROVE  TargetsKnown' /\ \A q \in Path : Churn(q)
  BY <1>5 DEF StopUnwanted, StopLocked, Unwanted
<1>6. ASSUME NEW p \in Path, StopChanged(p)
      PROVE  TargetsKnown' /\ \A q \in Path : Churn(q)
  BY <1>6 DEF StopChanged, StopLocked, SameTarget, TableConsistent
<1>7. ASSUME NEW p \in Path, StopOne(p)
      PROVE  TargetsKnown' /\ \A q \in Path : Churn(q)
  BY <1>7 DEF StopOne, StopLocked
<1>8. ASSUME NEW r \in Relay, StartChanged(r)
      PROVE  TargetsKnown' /\ \A q \in Path : Churn(q)
  BY <1>8 DEF StartChanged, StartLocked, FreeRelay, VictimConsistent
<1>9. ASSUME NEW r \in Relay, NEW p \in Path, StartMissing(r, p)
      PROVE  TargetsKnown' /\ \A q \in Path : Churn(q)
  BY <1>9 DEF StartMissing, StartLocked, FreeRelay
<1>10. ASSUME NEW r \in Relay, Join(r)
       PROVE  TargetsKnown' /\ \A p \in Path : Churn(p)
  BY <1>10 DEF Join
<1>11. CASE UNCHANGED <<states, target, path, ctlVars>>
  BY <1>11
<1>12. QED
  BY <1>1, <1>2, <1>3, <1>4, <1>5, <1>6, <1>7, <1>8, <1>9, <1>10, <1>11, OthersLeaveTable
     DEF LockHolder

\* Every registered relay has a target.
LEMMA TargetInvariance == Spec => []TargetsKnown
<1>1. Init => TargetsKnown
  BY DEF Init, TargetsKnown
<1>2. IInv /\ TargetsKnown /\ [Next]_vars => TargetsKnown'
  BY TargetStep DEF IInv
<1>3. QED
  BY <1>1, <1>2, Invariance, PTL DEF Spec

\* A relay is replaced or stopped only for a stop_all or for a changed or
\* dropped target: a sync that asks for what runs never restarts a stream,
\* whatever the relay's probe wrote into its own PushTarget.
THEOREM NoNeedlessRestart == Spec => NoChurn
<1>1. IInv /\ TargetsKnown /\ [Next]_vars => \A p \in Path : Churn(p)
  BY TargetStep DEF IInv
<1>2. IInv /\ TargetsKnown /\ [Next]_vars
      => [\A p \in Path :
             states[p] # None /\ states'[p] # states[p] =>
                 ctl = "stopall" \/ wanted[p] # target[states[p]]]_vars
  BY <1>1 DEF Churn
<1>3. QED
  BY <1>2, Invariance, TargetInvariance, PTL DEF Spec, NoChurn
=============================================================================
