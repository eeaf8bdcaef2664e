--------------------------- MODULE ScanDialogProofs ---------------------------
(***************************************************************************)
(* Proofs about ScanDialog: as long as the user lets one chain of          *)
(* registrations end before starting the next, a camera is created once at *)
(* the backend, but for answers that got lost, and the dialog closes by    *)
(* itself only over cameras that are all registered and listed: for any    *)
(* number of hosts, scans and chains.  At the end, about the other dialog  *)
(* that leaves its work to threads, Updater: only a whole archive is       *)
(* swapped in.                                                             *)
(***************************************************************************)
EXTENDS ScanDialog, Updater, SequenceTheorems, FiniteSetTheorems, TLAPS

(***************************************************************************)
(* The inductive invariant                                                 *)
(***************************************************************************)

Running(p) == pass[p].pc # "over"

\* A running chain has a row to register.
HasWork == \A p \in DOMAIN pass : Running(p) => pass[p].todo # <<>>

\* A user without haste runs one chain at a time, and none over a dialog about to close.
OneAtATime ==
    ~hasty =>
        /\ \A p, q \in DOMAIN pass : Running(p) /\ Running(q) => p = q
        /\ win = "closing" => \A p \in DOMAIN pass : ~Running(p)

\* Of a camera that is about to be created, or that the file neither has nor is about to get, the
\* backend has those that were lost; of any other it has one more.  A stale list may bring a
\* camera back into the file after it was found missing and before it is created.
EachAccounted ==
    ~hasty =>
        \A h \in Host :
            /\ created[h] <= lost[h] + 1
            /\ h \notin file \cup Appending => created[h] <= lost[h]
            /\ \A p \in DOMAIN pass : pass[p].pc = "create" /\ Of(p) = h => created[h] <= lost[h]

\* The form opens after the dialog has closed.
FormIsLater ==
    win # "closed" => form = "closed" /\ \A p \in DOMAIN pass : pass[p].gen # 0

\* What is asked for and not yet in the file is still to do, unless a row has failed.
ChainUnderWay ==
    ~hasty /\ win # "closed" =>
        \A p \in DOMAIN pass : Running(p) =>
            /\ pass[p].gen = gen
            /\ ~failed => asked \subseteq file \cup {pass[p].todo[i].host : i \in DOMAIN pass[p].todo}
            /\ pass[p].pc = "ok" => Of(p) \in file \/ Of(p) \notin asked

\* A sweeping scan has posted rows only for cameras it has seen.
PostsSeen == \A s \in Scan : scan[s] = "sweep" => \A h \in Host \ seen[s] : mail[s][h] = 0

IInv ==
    /\ TypeOK
    /\ PostsSeen
    /\ HasWork
    /\ OneAtATime
    /\ EachAccounted
    /\ FormIsLater
    /\ ChainUnderWay
    /\ ClosesWhenDone

(***************************************************************************)
(* Sequences                                                               *)
(***************************************************************************)

\* The bounds are positive numbers.
LEMMA Bounds == MaxScans \in Nat \ {0} /\ MaxPasses \in Nat \ {0} /\ MaxAnswers \in Nat \ {0}
  BY BoundsAssumption

\* A sequence is a function on its positions.
LEMMA SeqFacts ==
    ASSUME NEW T, NEW s \in Seq(T)
    PROVE  /\ Len(s) \in Nat /\ DOMAIN s = 1 .. Len(s) /\ s \in [DOMAIN s -> T]
           /\ \A i \in DOMAIN s : s[i] \in T
  BY LenProperties, ElementOfSeq

\* A function on the first numbers is a sequence.
LEMMA FunctionIsSeq ==
    ASSUME NEW T, NEW n \in Nat, NEW f \in [1 .. n -> T]
    PROVE  f \in Seq(T)
OBVIOUS

\* One element of a sequence replaced.
LEMMA ReplaceFacts ==
    ASSUME NEW T, NEW s \in Seq(T), NEW k, NEW v, k \in DOMAIN s => v \in T
    PROVE  [s EXCEPT ![k] = v] \in Seq(T) /\ DOMAIN [s EXCEPT ![k] = v] = DOMAIN s
<1>1. CASE k \in DOMAIN s
  BY <1>1, SeqFacts, ExceptSeq
<1>2. CASE k \notin DOMAIN s
  <2>1. [s EXCEPT ![k] = v] = s
    BY <1>2, SeqFacts
  <2>2. QED BY <2>1
<1>3. QED BY <1>1, <1>2

\* Appending keeps what is there.
LEMMA AppendFacts ==
    ASSUME NEW T, NEW s \in Seq(T), NEW v \in T
    PROVE  /\ Append(s, v) \in Seq(T) /\ DOMAIN Append(s, v) = DOMAIN s \cup {Len(s) + 1}
           /\ Len(s) + 1 \notin DOMAIN s /\ Append(s, v)[Len(s) + 1] = v
           /\ \A i \in DOMAIN s : Append(s, v)[i] = s[i]
<1>1. Len(s) \in Nat /\ DOMAIN s = 1 .. Len(s)
  BY LenProperties
<1>2. QED BY <1>1

\* What is left to do after the first.
LEMMA TailFacts ==
    ASSUME NEW T, NEW s \in Seq(T), s # <<>>
    PROVE  /\ Head(s) \in T /\ Head(s) = s[1] /\ 1 \in DOMAIN s
           /\ Tail(s) \in Seq(T)
           /\ \A i \in DOMAIN s : i = 1 \/ \E j \in DOMAIN Tail(s) : Tail(s)[j] = s[i]
           /\ Len(s) > 1 => Tail(s) # <<>>
           /\ Len(s) = 1 => DOMAIN s = {1}
<1>1. Len(s) \in Nat \ {0} /\ DOMAIN s = 1 .. Len(s)
  BY EmptySeq, LenProperties
<1>2. Head(s) \in T /\ Tail(s) \in Seq(T)
  BY HeadTailProperties
<1>3. Len(Tail(s)) = Len(s) - 1 /\ \A j \in 1 .. Len(s) - 1 : Tail(s)[j] = s[j + 1]
  BY <1>1
<1>4. DOMAIN Tail(s) = 1 .. Len(s) - 1
  BY <1>2, <1>3, LenProperties
<1>5. ASSUME NEW i \in DOMAIN s, i # 1
      PROVE  i - 1 \in DOMAIN Tail(s) /\ Tail(s)[i - 1] = s[i]
  <2>1. i - 1 \in 1 .. Len(s) - 1 /\ (i - 1) + 1 = i
    BY <1>1, <1>5
  <2>2. QED BY <1>3, <1>4, <2>1
<1>6. Len(s) > 1 => Tail(s) # <<>>
  <2>1. Len(Tail(s)) = Len(s) - 1 /\ Len(s) \in Nat
    BY <1>1, <1>3, Zenon
  <2>2. Len(s) > 1 => Len(Tail(s)) # 0
    BY <2>1
  <2>3. Tail(s) = <<>> => Len(Tail(s)) = 0
    BY EmptySeq
  <2>4. QED
    BY <2>2, <2>3
<1>7. QED
  BY <1>1, <1>2, <1>5, <1>6

(***************************************************************************)
(* The building blocks of the actions                                      *)
(***************************************************************************)

\* Chain p becomes ch, and the others stay as they are.
Becomes(p, ch) ==
    /\ ch \in Chain /\ pass' \in Seq(Chain) /\ DOMAIN pass' = DOMAIN pass /\ pass'[p] = ch
    /\ \A q \in DOMAIN pass \ {p} : pass'[q] = pass[q]

\* A chain in the table of chains is a chain.
LEMMA PassType ==
    ASSUME TypeOK, NEW p \in DOMAIN pass
    PROVE  /\ pass[p] \in Chain /\ pass[p].todo \in Seq(Item) /\ p \in Nat
           /\ pass[p] = [gen |-> pass[p].gen, todo |-> pass[p].todo, pc |-> pass[p].pc]
<1>1. pass[p] \in Chain /\ p \in 1 .. Len(pass) /\ Len(pass) \in Nat
  BY SeqFacts DEF TypeOK
<1>2. QED
  BY <1>1 DEF Chain

\* A chain that changes as a whole leaves the others alone.
LEMMA BecomesFacts ==
    ASSUME TypeOK, NEW p \in DOMAIN pass, NEW ch \in Chain, pass' = [pass EXCEPT ![p] = ch]
    PROVE  Becomes(p, ch)
<1>1. pass \in Seq(Chain)
  BY DEF TypeOK
<1>2. pass' \in Seq(Chain) /\ DOMAIN pass' = DOMAIN pass
  BY <1>1, ReplaceFacts
<1>3. QED
  BY <1>2 DEF Becomes

\* A chain whose thread moves leaves the others alone.
LEMMA MoveFacts ==
    ASSUME TypeOK, NEW p \in DOMAIN pass, NEW to \in {"resolve", "create", "append", "ok", "bad", "over"},
           pass' = [pass EXCEPT ![p].pc = to]
    PROVE  Becomes(p, [gen |-> pass[p].gen, todo |-> pass[p].todo, pc |-> to])
<1>1. [pass[p] EXCEPT !.pc = to] = [gen |-> pass[p].gen, todo |-> pass[p].todo, pc |-> to]
  BY PassType
<1>2. [gen |-> pass[p].gen, todo |-> pass[p].todo, pc |-> to] \in Chain
  BY PassType DEF Chain
<1>3. QED
  BY <1>1, <1>2, BecomesFacts

\* A chain that goes on to its next row leaves the others alone.
LEMMA GoOnFacts ==
    ASSUME TypeOK, NEW p \in DOMAIN pass, NEW to \in {"resolve", "over"}, NEW rest \in Seq(Item),
           pass' = [pass EXCEPT ![p].pc = to, ![p].todo = rest]
    PROVE  Becomes(p, [gen |-> pass[p].gen, todo |-> rest, pc |-> to])
<1> DEFINE ch == [gen |-> pass[p].gen, todo |-> rest, pc |-> to]
<1>1. pass' = [pass EXCEPT ![p] = [[pass[p] EXCEPT !.pc = to] EXCEPT !.todo = rest]]
  BY SeqFacts DEF TypeOK
<1>2. [[pass[p] EXCEPT !.pc = to] EXCEPT !.todo = rest] = ch
  <2>1. [pass[p] EXCEPT !.pc = to] = [gen |-> pass[p].gen, todo |-> pass[p].todo, pc |-> to]
    BY PassType
  <2>2. [[gen |-> pass[p].gen, todo |-> pass[p].todo, pc |-> to] EXCEPT !.todo = rest] = ch
    OBVIOUS
  <2>3. QED
    BY <2>1, <2>2, Zenon
<1>3. ch \in Chain
  BY PassType DEF Chain
<1>4. QED
  BY <1>1, <1>2, <1>3, BecomesFacts

\* A camera is at the head of every chain at work.
LEMMA HeadFacts ==
    ASSUME TypeOK, HasWork, NEW p \in DOMAIN pass, Running(p)
    PROVE  /\ Of(p) \in Host /\ pass[p].todo # <<>> /\ pass[p].todo[1].host = Of(p)
           /\ 1 \in DOMAIN pass[p].todo
<1>1. pass[p].todo \in Seq(Item) /\ pass[p].todo # <<>>
  BY PassType DEF HasWork
<1>2. Head(pass[p].todo) \in Item /\ Head(pass[p].todo) = pass[p].todo[1] /\ 1 \in DOMAIN pass[p].todo
  BY <1>1, TailFacts
<1>3. QED
  BY <1>1, <1>2 DEF Of, Item

(***************************************************************************)
(* The types are kept by every step                                        *)
(***************************************************************************)

\* Painting one row keeps the table.
LEMMA PaintFacts ==
    ASSUME NEW table0 \in Seq(Row), NEW k, NEW look \in Look
    PROVE  [table0 EXCEPT ![k].look = look] \in Seq(Row)
<1>1. k \in DOMAIN table0 => [table0[k] EXCEPT !.look = look] \in Row
  <2>1. \A r \in Row : [r EXCEPT !.look = look] \in Row
    BY DEF Row
  <2>2. k \in DOMAIN table0 => table0[k] \in Row
    BY SeqFacts
  <2>3. QED BY <2>1, <2>2
<1>2. [table0 EXCEPT ![k] = [table0[k] EXCEPT !.look = look]] \in Seq(Row)
  BY <1>1, ReplaceFacts
<1>3. QED BY <1>2

\* A scan step leaves everything but the scans alone, and the table when a row arrives.
LEMMA ScanThreadFacts ==
    ASSUME TypeOK, PostsSeen, NEW s \in Scan, ScanThread(s) \/ SweepFinds(s)
    PROVE  TypeOK' /\ PostsSeen' /\ UNCHANGED ScanRest
<1> USE Bounds DEF TypeOK, PostsSeen, ScanRest, store, table, buttons, sync, hist, Goto
<1>1. CASE ScanLoads(s)
  BY <1>1 DEF ScanLoads
<1>2. CASE Discovered(s)
  <2>1. PICK answers \in Answers :
          /\ mail' = [mail EXCEPT ![s] = [h \in Host |->
                           IF h \in known[s] \/ win = "closed" THEN 0 ELSE answers[h]]]
          /\ IF s \in cancelled
               THEN known' = [known EXCEPT ![s] = {}] /\ UNCHANGED seen
               ELSE seen' = [seen EXCEPT ![s] = {h \in Host : answers[h] > 0}] /\ UNCHANGED known
    BY <1>2 DEF Discovered
  <2>2. mail' \in [Scan -> [Host -> 0 .. MaxAnswers]]
    BY <2>1 DEF Answers
  <2>3. seen' \in [Scan -> SUBSET Host] /\ known' \in [Scan -> SUBSET Host]
    <3>1. CASE s \in cancelled
      BY <2>1, <3>1
    <3>2. CASE s \notin cancelled
      <4>1. {h \in Host : answers[h] > 0} \in SUBSET Host
        OBVIOUS
      <4>2. QED
        BY <2>1, <3>2, <4>1
    <3>3. QED
      BY <3>1, <3>2
  <2>4. \A h \in Host : ~(answers[h] > 0) => answers[h] = 0
    BY DEF Answers
  <2>5. PostsSeen'
    <3>1. \A t \in Scan : scan'[t] = "sweep" /\ t # s => scan[t] = "sweep"
      BY <1>2 DEF Discovered
    <3>2. scan'[s] = "sweep" => s \notin cancelled
      BY <1>2 DEF Discovered
    <3>3. \A t \in Scan \ {s} : seen'[t] = seen[t] /\ mail'[t] = mail[t]
      BY <2>1
    <3>4. ASSUME s \notin cancelled, NEW h \in Host \ seen'[s]
          PROVE  mail'[s][h] = 0
      <4>1. seen'[s] = {g \in Host : answers[g] > 0}
        BY <2>1, <3>4
      <4>2. answers[h] = 0
        BY <2>4, <3>4, <4>1
      <4>3. mail'[s][h] = IF h \in known[s] \/ win = "closed" THEN 0 ELSE answers[h]
        BY <2>1
      <4>4. QED
        BY <4>2, <4>3
    <3>5. ASSUME NEW t \in Scan, scan'[t] = "sweep", NEW h \in Host \ seen'[t]
          PROVE  mail'[t][h] = 0
      <4>1. CASE t = s
        BY <3>2, <3>4, <3>5, <4>1
      <4>2. CASE t # s
        BY <3>1, <3>3, <3>5, <4>2
      <4>3. QED
        BY <4>1, <4>2
    <3>6. QED
      BY <3>5
  <2>6. scan' \in [Scan -> {"none", "load", "onvif", "sweep", "done", "over"}]
        /\ UNCHANGED ScanRest
    BY <1>2 DEF Discovered
  <2>7. QED
    BY <2>2, <2>3, <2>5, <2>6
<1>3. CASE SweepFinds(s)
  <2>1. PICK h \in Host \ seen[s] :
          /\ seen' = [seen EXCEPT ![s] = seen[s] \cup {h}]
          /\ mail' = IF h \in known[s] THEN mail ELSE [mail EXCEPT ![s][h] = mail[s][h] + 1]
    BY <1>3 DEF SweepFinds
  <2>2. mail[s][h] = 0 /\ mail[s][h] + 1 \in 0 .. MaxAnswers
    BY <1>3, <2>1 DEF SweepFinds
  <2>3. mail' \in [Scan -> [Host -> 0 .. MaxAnswers]] /\ seen' \in [Scan -> SUBSET Host]
    BY <2>1, <2>2
  <2>4. UNCHANGED <<scan, known, ScanRest>>
    BY <1>3 DEF SweepFinds
  <2>5. PostsSeen'
    BY <2>1, <2>4
  <2>6. QED
    BY <2>3, <2>4, <2>5
<1>4. CASE SweepEnds(s)
  BY <1>4 DEF SweepEnds
<1>5. QED
  BY <1>1, <1>2, <1>3, <1>4 DEF ScanThread

\* What a scan posts touches the table and its buttons only.
LEMMA ScanPostsFacts ==
    ASSUME TypeOK, PostsSeen, NEW s \in Scan, ScanPosts(s)
    PROVE  /\ TypeOK' /\ PostsSeen'
           /\ UNCHANGED <<store, win, form, gen, failed, pass, sync, lost, hist>>
<1> USE Bounds DEF TypeOK, PostsSeen, store, table, buttons, sync, hist, Goto
<1>1. CASE ScanOver(s)
  BY <1>1 DEF ScanOver
<1>2. ASSUME NEW h \in Host, RowArrives(s, h)
      PROVE  /\ TypeOK' /\ PostsSeen'
             /\ UNCHANGED <<store, win, form, gen, failed, pass, sync, lost, hist>>
  <2>1. mail' = [mail EXCEPT ![s] = [mail[s] EXCEPT ![h] = mail[s][h] - 1]] /\ mail[s][h] > 0
    BY <1>2 DEF RowArrives
  <2>2. mail[s][h] - 1 \in 0 .. MaxAnswers
    BY <2>1
  <2>3. mail' \in [Scan -> [Host -> 0 .. MaxAnswers]]
    BY <2>1, <2>2
  <2>4. [host |-> h, look |-> "new"] \in Row
    BY DEF Row, Look
  <2>5. rows' \in Seq(Row) /\ registerOn' \in BOOLEAN
    <3>1. Append(rows, [host |-> h, look |-> "new"]) \in Seq(Row)
      BY <2>4, AppendFacts
    <3>2. QED
      BY <1>2, <3>1 DEF RowArrives
  <2>6. UNCHANGED <<store, win, form, gen, rescanOn, failed, scan, cancelled, known, seen, pass,
                    sync, lost, hist>>
    BY <1>2 DEF RowArrives
  <2>7. scan[s] = "sweep" => h \in seen[s]
    BY <2>1
  <2>8. PostsSeen'
    BY <2>1, <2>6, <2>7
  <2>9. QED
    BY <2>3, <2>5, <2>6, <2>8
<1>3. QED
  BY <1>1, <1>2 DEF ScanPosts

\* The thread of a chain moves on; it alone creates cameras.
Moved(p, to) == Becomes(p, [gen |-> pass[p].gen, todo |-> pass[p].todo, pc |-> to])

\* A chain's thread touches file and backend only.
LEMMA PassThreadFacts ==
    ASSUME TypeOK, HasWork, NEW p \in DOMAIN pass, PassThread(p)
    PROVE  /\ TypeOK' /\ Running(p) /\ UNCHANGED PassRest
           /\ \/ /\ pass[p].pc = "resolve" /\ UNCHANGED <<file, created, lost>>
                 /\ \/ Moved(p, "create") /\ Of(p) \notin file
                    \/ Moved(p, "bad")
              \/ /\ pass[p].pc = "create" /\ Moved(p, "append") /\ UNCHANGED <<file, lost>>
                 /\ created' = [created EXCEPT ![Of(p)] = created[Of(p)] + 1]
              \/ /\ pass[p].pc = "append" /\ Moved(p, "ok") /\ UNCHANGED <<created, lost>>
                 /\ file' = file \cup {Of(p)}
              \/ /\ pass[p].pc = "create" /\ Moved(p, "bad") /\ UNCHANGED file
                 /\ \E done \in {0, 1} :
                       /\ created' = [created EXCEPT ![Of(p)] = created[Of(p)] + done]
                       /\ lost' = [lost EXCEPT ![Of(p)] = lost[Of(p)] + done]
<1> USE DEF Moved
<1>1. Running(p) /\ UNCHANGED PassRest
  BY DEF PassThread, Resolve, Create, AppendRecord, CreateFails, Running
<1>2. Of(p) \in Host
  BY <1>1, HeadFacts
<1>3. ASSUME pass' \in Seq(Chain), file' \subseteq Host, created' \in [Host -> Nat], lost' \in [Host -> Nat]
      PROVE  TypeOK'
  BY <1>1, <1>3 DEF TypeOK, PassRest, table, buttons, scans, sync, hist
<1>4. CASE Resolve(p)
  <2>1. PICK to \in Verdicts(p) : pass' = [pass EXCEPT ![p].pc = to]
    BY <1>4 DEF Resolve
  <2>2. Moved(p, to) /\ to \in {"create", "bad"} /\ (to = "create" => Of(p) \notin file)
    BY <2>1, MoveFacts DEF Verdicts
  <2>3. pass[p].pc = "resolve" /\ UNCHANGED <<file, created, lost>>
    BY <1>4 DEF Resolve
  <2>4. TypeOK'
    BY <1>3, <2>2, <2>3 DEF TypeOK, Becomes
  <2>5. QED
    BY <1>1, <2>2, <2>3, <2>4
<1>5. CASE Create(p)
  <2>1. Moved(p, "append")
    BY <1>5, MoveFacts DEF Create
  <2>2. created' \in [Host -> Nat] /\ file' \subseteq Host /\ UNCHANGED lost
    BY <1>2, <1>5 DEF Create, TypeOK
  <2>3. TypeOK'
    BY <1>3, <2>1, <2>2 DEF TypeOK, Becomes
  <2>4. QED
    BY <1>1, <1>5, <2>1, <2>3 DEF Create
<1>6. CASE CreateFails(p)
  <2>1. Moved(p, "bad")
    BY <1>6, MoveFacts DEF CreateFails
  <2>2. created' \in [Host -> Nat] /\ lost' \in [Host -> Nat] /\ UNCHANGED file
    BY <1>2, <1>6 DEF CreateFails, TypeOK
  <2>3. TypeOK'
    BY <1>3, <2>1, <2>2 DEF TypeOK, Becomes
  <2>4. QED
    BY <1>1, <1>6, <2>1, <2>3 DEF CreateFails
<1>7. CASE AppendRecord(p)
  <2>1. Moved(p, "ok")
    BY <1>7, MoveFacts DEF AppendRecord
  <2>2. file' \subseteq Host /\ UNCHANGED <<created, lost>>
    BY <1>2, <1>7 DEF AppendRecord, TypeOK
  <2>3. TypeOK'
    BY <1>3, <2>1, <2>2 DEF TypeOK, Becomes
  <2>4. QED
    BY <1>1, <1>7, <2>1, <2>3 DEF AppendRecord
<1>8. QED
  BY <1>4, <1>5, <1>6, <1>7 DEF PassThread

\* The window hears of the end of a row: the chain ends or goes on with the next row.
PassEnds(p) == Becomes(p, [gen |-> pass[p].gen, todo |-> <<>>, pc |-> "over"])

Gone(p) ==
    /\ PassEnds(p) /\ (win = "closed" \/ pass[p].gen # gen)
    /\ pass[p].gen # 0 /\ UNCHANGED <<shown, win, form>>

WentOn(p) ==
    /\ Becomes(p, [gen |-> pass[p].gen, todo |-> Tail(pass[p].todo), pc |-> "resolve"])
    /\ Len(pass[p].todo) > 1 /\ failed' = (failed \/ pass[p].pc = "bad")
    /\ UNCHANGED <<shown, win, form>>

WasLast(p) ==
    /\ PassEnds(p) /\ win # "closed" /\ pass[p].gen = gen /\ Len(pass[p].todo) = 1
    /\ failed' = (failed \/ pass[p].pc = "bad")
    /\ shown' = file /\ UNCHANGED form
    /\ win' = IF failed' THEN win ELSE "closing"

WasForm(p) == PassEnds(p) /\ pass[p].gen = 0 /\ UNCHANGED <<win, failed>>

\* What lists the cameras of the file may start a reconcile.
Listed ==
    shown' \subseteq Host /\ rec' \in [Reconciler -> {"new", "load", "fetch", "paint", "over"}]

LEMMA RefreshFacts ==
    ASSUME TypeOK, RefreshCameras
    PROVE  Listed
  BY DEF TypeOK, RefreshCameras, Listed

\* What a chain posts ends its row.
LEMMA PassPostsFacts ==
    ASSUME TypeOK, HasWork, NEW p \in DOMAIN pass, PassPosts(p)
    PROVE  /\ TypeOK' /\ Running(p) /\ pass[p].pc \in {"ok", "bad"}
           /\ UNCHANGED <<file, created, gen, scans, kept, blank, lost, hist>>
           /\ Gone(p) \/ WentOn(p) \/ WasLast(p) \/ WasForm(p)
<1> USE DEF DoneRest, FormRest, table, buttons
<1>1. /\ Running(p) /\ pass[p].pc \in {"ok", "bad"}
      /\ UNCHANGED <<file, created, gen, scans, kept, blank, lost, hist>>
  BY DEF PassPosts, RowGone, RowDone, LastDone, FormDone, Running
<1>2. pass[p].todo \in Seq(Item) /\ pass[p].todo # <<>> /\ <<>> \in Seq(Item)
  BY <1>1, PassType, EmptySeq DEF HasWork
<1>3. ASSUME pass' \in Seq(Chain), Listed, win' \in {"open", "closing", "closed"},
             form' \in {"closed", "idle", "busy"}, rows' \in Seq(Row),
             registerOn' \in BOOLEAN, rescanOn' \in BOOLEAN, failed' \in BOOLEAN
      PROVE  TypeOK'
  BY <1>1, <1>3 DEF TypeOK, Listed, scans, hist
<1>4. Painted(p) \in Seq(Row)
  BY <1>1, PaintFacts DEF Painted, TypeOK, Look
<1>5. CASE RowGone(p)
  <2>1. PassEnds(p)
    BY <1>2, <1>5, GoOnFacts DEF RowGone, PassEnds
  <2>2. Gone(p)
    BY <1>5, <2>1 DEF RowGone, Gone
  <2>3. TypeOK'
    <3>1. pass' \in Seq(Chain)
      BY <2>1 DEF PassEnds, Becomes
    <3>2. failed' \in BOOLEAN /\ Listed
          /\ UNCHANGED <<win, rows, registerOn, rescanOn, form>>
      BY <1>5 DEF RowGone, TypeOK, Listed
    <3>3. QED
      BY <1>3, <3>1, <3>2 DEF TypeOK
  <2>4. QED
    BY <1>1, <2>2, <2>3
<1>6. CASE RowDone(p)
  <2>1. Becomes(p, [gen |-> pass[p].gen, todo |-> Tail(pass[p].todo), pc |-> "resolve"])
    <3>1. pass' = [pass EXCEPT ![p].pc = "resolve", ![p].todo = Tail(pass[p].todo)]
      <4>1. pass' = [[pass EXCEPT ![p].pc = "resolve"] EXCEPT ![p].todo = Tail(([pass EXCEPT ![p].pc = "resolve"])[p].todo)]
        BY <1>6 DEF RowDone
      <4>2. [pass EXCEPT ![p].pc = "resolve"][p].todo = pass[p].todo
        <5>1. [pass EXCEPT ![p].pc = "resolve"][p] = [pass[p] EXCEPT !.pc = "resolve"]
          BY SeqFacts DEF TypeOK
        <5>2. [pass[p] EXCEPT !.pc = "resolve"].todo = pass[p].todo
          BY PassType
        <5>3. QED BY <5>1, <5>2
      <4>3. QED BY <4>1, <4>2
    <3>2. Tail(pass[p].todo) \in Seq(Item)
      BY <1>2, TailFacts
    <3>3. QED BY <3>1, <3>2, GoOnFacts
  <2>2. WentOn(p)
    BY <1>6, <2>1 DEF RowDone, WentOn
  <2>3. rows' \in Seq(Row)
    <3>1. rows' = [Painted(p) EXCEPT ![pass[p].todo[2].place].look = "busy"]
      BY <1>6 DEF RowDone
    <3>2. "busy" \in Look
      BY DEF Look
    <3>3. QED BY <1>4, <3>1, <3>2, PaintFacts
  <2>4. TypeOK'
    <3>1. pass' \in Seq(Chain)
      BY <2>1 DEF Becomes
    <3>2. failed' \in BOOLEAN /\ Listed
          /\ UNCHANGED <<win, registerOn, rescanOn, form>>
      BY <1>6 DEF RowDone, TypeOK, Listed
    <3>3. QED
      BY <1>3, <2>3, <3>1, <3>2 DEF TypeOK
  <2>5. QED
    BY <1>1, <2>2, <2>4
<1>7. CASE LastDone(p)
  <2>1. PassEnds(p)
    BY <1>2, <1>7, GoOnFacts DEF LastDone, PassEnds
  <2>2. WasLast(p)
    BY <1>7, <2>1 DEF LastDone, WasLast, RefreshCameras
  <2>3. TypeOK'
    <3>1. pass' \in Seq(Chain)
      BY <2>1 DEF PassEnds, Becomes
    <3>2. failed' \in BOOLEAN /\ rows' = Painted(p) /\ Listed /\ UNCHANGED form
          /\ win' \in {"open", "closing", "closed"}
      BY <1>7, RefreshFacts DEF LastDone, TypeOK
    <3>3. registerOn' \in BOOLEAN /\ rescanOn' \in BOOLEAN
      BY <1>7 DEF LastDone, TypeOK
    <3>4. QED
      BY <1>3, <1>4, <3>1, <3>2, <3>3 DEF TypeOK
  <2>4. QED
    BY <1>1, <2>2, <2>3
<1>8. CASE FormDone(p)
  <2>1. PassEnds(p)
    BY <1>2, <1>8, GoOnFacts DEF FormDone, PassEnds
  <2>2. WasForm(p)
    BY <1>8, <2>1 DEF FormDone, WasForm
  <2>3. TypeOK'
    <3>1. pass' \in Seq(Chain)
      BY <2>1 DEF PassEnds, Becomes
    <3>2. form' \in {"closed", "idle", "busy"} /\ Listed
      BY <1>8, RefreshFacts DEF FormDone, TypeOK, Listed
    <3>3. UNCHANGED <<win, rows, registerOn, rescanOn, failed>>
      BY <1>8 DEF FormDone
    <3>4. QED
      BY <1>3, <3>1, <3>2, <3>3 DEF TypeOK
  <2>4. QED
    BY <1>1, <2>2, <2>3
<1>9. QED
  BY <1>5, <1>6, <1>7, <1>8 DEF PassPosts

\* The user starts a chain, ...
Started(ch) ==
    /\ ch \in Chain /\ ch.pc = "resolve" /\ ch.todo # <<>>
    /\ pass' = Append(pass, ch)
    /\ hasty' = (hasty \/ Busy)
    /\ UNCHANGED <<win, gen, store>>

\* The form starts a chain of one camera.
LEMMA SubmitFacts ==
    ASSUME TypeOK, Submit
    PROVE  TypeOK' /\ UNCHANGED scans /\ form = "idle" /\ \E ch : Started(ch)
<1>1. PICK h \in Host :
        pass' = Append(pass, [gen |-> 0, pc |-> "resolve", todo |-> <<[place |-> 0, host |-> h]>>])
  BY DEF Submit
<1> DEFINE item == [place |-> 0, host |-> h]
           ch == [gen |-> 0, pc |-> "resolve", todo |-> <<item>>]
<1>2. <<item>> \in Seq(Item) /\ <<item>> # <<>> /\ DOMAIN <<item>> = {1} /\ <<item>>[1] = item
  <2>1. item \in Item
    BY DEF Item
  <2>2. QED BY <2>1
<1>3. ch \in Chain
  BY <1>2, Bounds DEF Chain
<1>4. pass' \in Seq(Chain)
  BY <1>1, <1>3, AppendFacts DEF TypeOK
<1>5. (hasty \/ Busy) \in BOOLEAN
  BY DEF Busy, TypeOK
<1>6. TypeOK' /\ UNCHANGED scans
  BY <1>1, <1>4, <1>5 DEF TypeOK, Submit, FormRest, table, buttons, scans
<1>7. Started(ch)
  BY <1>1, <1>2, <1>3 DEF Started, Submit, FormRest, table, store
<1>8. QED
  BY <1>6, <1>7 DEF Submit

\* The dialog starts a chain over picked rows.
LEMMA RegisterFacts ==
    ASSUME TypeOK, Register
    PROVE  /\ TypeOK' /\ UNCHANGED <<scans, form>> /\ win # "closed" /\ failed' = FALSE
           /\ \E ch : /\ Started(ch) /\ ch.gen = gen
                     /\ asked' \subseteq {ch.todo[i].host : i \in DOMAIN ch.todo}
<1>0. PICK picked \in (SUBSET DOMAIN rows) \ {{}} : \E order \in InOrder(picked) :
          /\ pass' = Append(pass,
                 [gen |-> gen, pc |-> "resolve",
                  todo |-> [i \in DOMAIN order |-> [place |-> order[i], host |-> rows[order[i]].host]]])
          /\ rows' = [rows EXCEPT ![order[1]].look = "busy"]
          /\ asked' = {rows[i].host : i \in picked}
  BY DEF Register
<1>1. PICK order \in InOrder(picked) :
          /\ pass' = Append(pass,
                 [gen |-> gen, pc |-> "resolve",
                  todo |-> [i \in DOMAIN order |-> [place |-> order[i], host |-> rows[order[i]].host]]])
          /\ rows' = [rows EXCEPT ![order[1]].look = "busy"]
          /\ asked' = {rows[i].host : i \in picked}
  BY <1>0
<1> DEFINE todo == [i \in DOMAIN order |-> [place |-> order[i], host |-> rows[order[i]].host]]
           ch == [gen |-> gen, pc |-> "resolve", todo |-> todo]
<1>2. rows \in Seq(Row) /\ DOMAIN rows = 1 .. Len(rows) /\ Len(rows) \in Nat
      /\ \A i \in DOMAIN rows : rows[i] \in Row
  BY SeqFacts DEF TypeOK
<1>3. picked \subseteq DOMAIN rows /\ picked # {} /\ Cardinality(picked) \in Nat
  <2>1. picked \in SUBSET DOMAIN rows /\ picked # {}
    OBVIOUS
  <2>2. IsFiniteSet(1 .. Len(rows))
    BY <1>2, FS_Interval
  <2>3. IsFiniteSet(picked)
    BY <1>2, <2>1, <2>2, FS_Subset
  <2>4. QED
    BY <2>1, <2>3, FS_CardinalityType
<1>4. /\ DOMAIN order = 1 .. Cardinality(picked) /\ picked = {order[i] : i \in DOMAIN order}
      /\ \A i \in DOMAIN order : order[i] \in picked
  BY DEF InOrder
<1>5. \A i \in DOMAIN order : [place |-> order[i], host |-> rows[order[i]].host] \in Item
  <2>1. \A r \in Row, k \in Nat : [place |-> k, host |-> r.host] \in Item
    BY DEF Item, Row
  <2>2. \A i \in DOMAIN order : order[i] \in Nat /\ rows[order[i]] \in Row
    <3>1. \A k \in DOMAIN rows : k \in Nat /\ rows[k] \in Row
      BY <1>2
    <3>2. \A i \in DOMAIN order : order[i] \in DOMAIN rows
      BY <1>3, <1>4
    <3>3. QED
      BY <3>1, <3>2
  <2>3. QED
    BY <2>1, <2>2
<1>6. todo \in Seq(Item) /\ DOMAIN todo = DOMAIN order
  <2>1. DOMAIN todo = DOMAIN order /\ todo \in [DOMAIN order -> Item]
    BY <1>5
  <2>2. todo \in [1 .. Cardinality(picked) -> Item]
    BY <1>4, <2>1
  <2> HIDE DEF todo
  <2>3. QED
    BY <1>3, <2>1, <2>2, FunctionIsSeq
<1>7. todo # <<>>
  <2>1. DOMAIN order # {}
    BY <1>4
  <2>2. DOMAIN <<>> = {}
    BY EmptySeq
  <2>3. QED
    BY <1>6, <2>1, <2>2
<1>8. ch \in Chain
  BY <1>6, Bounds DEF Chain, TypeOK, Scan
<1>9. pass' \in Seq(Chain)
  BY <1>1, <1>8, AppendFacts DEF TypeOK
<1>10. rows' \in Seq(Row)
  BY <1>1, <1>2, PaintFacts DEF Look
<1>11. asked' \subseteq Host
  BY <1>1, <1>2 DEF Row
<1>12. (hasty \/ Busy) \in BOOLEAN
  BY DEF Busy, TypeOK
<1>13. /\ hasty' = (hasty \/ Busy) /\ failed' = FALSE /\ registerOn' = FALSE /\ rescanOn' = FALSE
       /\ UNCHANGED <<store, win, form, gen, scans, sync, lost>> /\ win # "closed"
  BY DEF Register
<1>14. TypeOK'
  BY <1>9, <1>10, <1>11, <1>12, <1>13 DEF TypeOK, store, scans, sync
<1>15. asked' \subseteq {todo[i].host : i \in DOMAIN todo}
  <2>1. ASSUME NEW h \in asked'
        PROVE  \E i \in DOMAIN order : h = rows[order[i]].host
    BY <1>1, <1>4, <2>1
  <2>2. \A i \in DOMAIN order : todo[i].host = rows[order[i]].host
    OBVIOUS
  <2>3. QED
    BY <1>6, <2>1, <2>2
<1>16. Started(ch)
  BY <1>1, <1>7, <1>8, <1>13 DEF Started
<1>17. QED
  BY <1>13, <1>14, <1>15, <1>16

\* ... or empties the table, or opens and closes the windows.
LEMMA RescanFacts ==
    ASSUME TypeOK, Rescan
    PROVE  TypeOK'
<1>1. gen + 1 \in Scan /\ gen' = gen + 1
  BY Bounds DEF Rescan, TypeOK, Scan
<1>2. (hasty \/ Busy) \in BOOLEAN
  BY DEF Busy, TypeOK
<1>3. rows' \in Seq(Row)
  BY EmptySeq DEF Rescan
<1>4. scan' \in [Scan -> {"none", "load", "onvif", "sweep", "done", "over"}] /\ cancelled' \subseteq Scan
  BY DEF Rescan, TypeOK
<1>5. QED
  BY <1>1, <1>2, <1>3, <1>4 DEF Rescan, TypeOK, store, sync

\* Opening and closing keep the types.
LEMMA WindowFacts ==
    ASSUME TypeOK, OpenForm \/ CloseForm \/ Close
    PROVE  TypeOK'
<1>1. CASE OpenForm \/ CloseForm
  BY <1>1 DEF OpenForm, CloseForm, TypeOK, FormRest, store, table, buttons, scans, sync, hist
<1>2. CASE Close
  <2>1. mail' \in [Scan -> [Host -> 0 .. MaxAnswers]]
    BY <1>2, Bounds DEF Close
  <2>2. QED
    BY <1>2, <2>1, EmptySeq DEF Close, TypeOK, store, sync
<1>3. QED
  BY <1>1, <1>2

\* A reconcile, and the button that starts one, touch the file and the list only.
LEMMA SyncFacts ==
    ASSUME TypeOK, HasWork,
           \/ RefreshButton
           \/ \E r \in Reconciler : Reconcile(r)
    PROVE  /\ TypeOK' /\ UNCHANGED <<created, win, form, gen, failed, scans, pass, hasty>>
           /\ \/ win = "closed" /\ UNCHANGED <<file, asked, lost>>
              \/ UNCHANGED <<file, shown, asked, lost>>
              \/ /\ UNCHANGED <<file, lost>> /\ asked' = asked \ (shown \ shown')
              \/ /\ UNCHANGED shown /\ asked' = asked \ (file \ file')
                 /\ lost' = [h \in Host |-> lost[h] + IF h \in file \ file' THEN 1 ELSE 0]
<1> USE DEF SyncRest, table, buttons, hist
<1>1. CASE RefreshButton
  <2>1. Listed
    BY <1>1, RefreshFacts DEF RefreshButton
  <2>2. /\ win = "closed"
        /\ UNCHANGED <<file, created, win, form, table, buttons, failed, scans, pass, kept, blank, lost,
                       hist>>
    BY <1>1 DEF RefreshButton, FormRest
  <2>3. QED
    BY <2>1, <2>2 DEF TypeOK, Listed, scans
<1>2. ASSUME NEW r \in Reconciler, Reconcile(r)
      PROVE  /\ TypeOK' /\ UNCHANGED <<created, win, form, gen, failed, scans, pass, hasty>>
             /\ \/ UNCHANGED <<file, shown, asked, lost>>
                \/ /\ UNCHANGED <<file, lost>> /\ asked' = asked \ (shown \ shown')
                \/ /\ UNCHANGED shown /\ asked' = asked \ (file \ file')
                   /\ lost' = [h \in Host |-> lost[h] + IF h \in file \ file' THEN 1 ELSE 0]
  <2>1. UNCHANGED SyncRest
    BY <1>2 DEF Reconcile, ReconcileLoads, ReconcileIdle, ReconcileSaves, ReconcilePaints
  <2>2. ASSUME rec' \in [Reconciler -> {"new", "load", "fetch", "paint", "over"}],
               kept' \in [Reconciler -> SUBSET Host], file' \subseteq Host, shown' \subseteq Host,
               blank' \subseteq Host, asked' \subseteq Host, lost' \in [Host -> Nat]
        PROVE  TypeOK'
    BY <2>1, <2>2 DEF TypeOK, scans
  <2>3. CASE ReconcileLoads(r)
    BY <2>1, <2>2, <2>3 DEF ReconcileLoads, TypeOK
  <2>4. CASE ReconcileIdle(r)
    BY <2>1, <2>2, <2>4 DEF ReconcileIdle, TypeOK
  <2>5. CASE ReconcileSaves(r)
    <3>1. /\ file' = kept[r] /\ blank' \subseteq Appending /\ asked' = asked \ (file \ kept[r])
          /\ lost' = [h \in Host |-> lost[h] + IF h \in file \ kept[r] THEN 1 ELSE 0]
          /\ UNCHANGED <<shown, kept>> /\ rec' = [rec EXCEPT ![r] = "paint"]
      BY <2>5 DEF ReconcileSaves
    <3>2. Appending \subseteq Host
      BY HeadFacts DEF Appending, Running
    <3>3. kept[r] \subseteq Host /\ lost' \in [Host -> Nat]
      BY <3>1 DEF TypeOK
    <3>4. QED
      BY <2>1, <2>2, <3>1, <3>2, <3>3 DEF TypeOK
  <2>6. CASE ReconcilePaints(r)
    BY <2>1, <2>2, <2>6 DEF ReconcilePaints, TypeOK
  <2>7. QED
    BY <1>2, <2>3, <2>4, <2>5, <2>6 DEF Reconcile
<1>3. QED
  BY <1>1, <1>2

\* Every step keeps the types.
LEMMA TypeStep ==
    ASSUME IInv, [Next]_vars
    PROVE  TypeOK' /\ PostsSeen'
<1>1. TypeOK /\ PostsSeen /\ HasWork
  BY DEF IInv
<1>2. ASSUME UNCHANGED scans
      PROVE  PostsSeen'
  BY <1>1, <1>2 DEF PostsSeen, scans
<1>3. ASSUME NEW s \in Scan, ScanThread(s) \/ SweepFinds(s) \/ ScanPosts(s)
      PROVE  TypeOK' /\ PostsSeen'
  BY <1>1, <1>3, ScanThreadFacts, ScanPostsFacts
<1>4. ASSUME NEW p \in DOMAIN pass, PassThread(p)
      PROVE  TypeOK' /\ PostsSeen'
  BY <1>1, <1>2, <1>4, PassThreadFacts DEF PassRest
<1>5. ASSUME NEW p \in DOMAIN pass, PassPosts(p)
      PROVE  TypeOK' /\ PostsSeen'
  BY <1>1, <1>2, <1>5, PassPostsFacts
<1>6. CASE Register \/ Submit
  BY <1>1, <1>2, <1>6, RegisterFacts, SubmitFacts
<1>7. CASE Rescan
  <2>1. UNCHANGED <<seen, mail>> /\ \A t \in Scan : scan'[t] = "sweep" => scan[t] = "sweep"
    BY <1>1, <1>7 DEF Rescan, TypeOK
  <2>2. PostsSeen'
    BY <1>1, <2>1 DEF PostsSeen
  <2>3. QED
    BY <1>1, <1>7, <2>2, RescanFacts
<1>8. CASE OpenForm \/ CloseForm \/ Close
  BY <1>1, <1>8, WindowFacts DEF OpenForm, CloseForm, Close, FormRest, PostsSeen, scans
<1>9. CASE RefreshButton \/ \E r \in Reconciler : Reconcile(r)
  BY <1>1, <1>2, <1>9, SyncFacts
<1>10. CASE UNCHANGED vars
  BY <1>1, <1>10 DEF vars, TypeOK, PostsSeen, store, table, buttons, scans, sync, hist
<1>11. QED
  BY <1>3, <1>4, <1>5, <1>6, <1>7, <1>8, <1>9, <1>10 DEF Next

(***************************************************************************)
(* The other conjuncts are kept by every kind of step                      *)
(***************************************************************************)

Rest ==
    /\ HasWork
    /\ OneAtATime
    /\ EachAccounted
    /\ FormIsLater
    /\ ChainUnderWay
    /\ ClosesWhenDone

\* Steps that touch neither the chains nor what they have brought about.
LEMMA QuietKeeps ==
    ASSUME Rest, UNCHANGED <<file, created, shown, win, form, gen, failed, pass, asked, lost, hasty>>
    PROVE  Rest'
  BY DEF Rest, HasWork, OneAtATime, EachAccounted, FormIsLater, ChainUnderWay,
         ClosesWhenDone, Running, Of, Appending

\* The cameras of the backend, at a step of the only chain at work.
LEMMA AccountsOfThread ==
    ASSUME TypeOK, HasWork, EachAccounted, NEW p \in DOMAIN pass, PassThread(p), UNCHANGED hasty,
           ~hasty => \A q \in DOMAIN pass \ {p} : pass[q].pc = "over" /\ pass'[q].pc = "over",
           DOMAIN pass' = DOMAIN pass, Of(p)' = Of(p)
    PROVE  EachAccounted'
<1> SUFFICES ASSUME ~hasty, NEW h \in Host
             PROVE  /\ created'[h] <= lost'[h] + 1
                    /\ h \notin file' \cup Appending' => created'[h] <= lost'[h]
                    /\ \A q \in DOMAIN pass' :
                          pass'[q].pc = "create" /\ Of(q)' = h => created'[h] <= lost'[h]
  BY DEF EachAccounted
<1> DEFINE c == created[h]
           l == lost[h]
<1>1. /\ c <= l + 1 /\ c \in Nat /\ l \in Nat
      /\ h \notin file \cup Appending => c <= l
      /\ pass[p].pc = "create" /\ Of(p) = h => c <= l
  BY DEF EachAccounted, TypeOK
<1>2. Of(p) \in Host /\ created \in [Host -> Nat] /\ lost \in [Host -> Nat]
  BY PassThreadFacts, HeadFacts DEF TypeOK
<1>3. /\ Appending = IF pass[p].pc = "append" THEN {Of(p)} ELSE {}
      /\ Appending' = IF pass'[p].pc = "append" THEN {Of(p)} ELSE {}
      /\ \A q \in DOMAIN pass' : pass'[q].pc = "create" => q = p
  BY DEF Appending
<1>4. ASSUME NEW to, Moved(p, to)
      PROVE  pass'[p].pc = to
  BY <1>4 DEF Moved, Becomes
<1> HIDE DEF c, l
<1>5. CASE /\ pass[p].pc = "resolve" /\ UNCHANGED <<file, created, lost>>
           /\ \/ Moved(p, "create") /\ Of(p) \notin file
              \/ Moved(p, "bad")
  <2>1. created'[h] = c /\ lost'[h] = l /\ Appending = {} /\ Appending' = {}
    BY <1>3, <1>4, <1>5 DEF c, l
  <2>2. pass'[p].pc = "create" => Of(p) \notin file
    BY <1>4, <1>5
  <2>3. QED
    BY <1>1, <1>3, <1>5, <2>1, <2>2
<1>6. CASE /\ pass[p].pc = "create" /\ Moved(p, "append") /\ UNCHANGED <<file, lost>>
           /\ created' = [created EXCEPT ![Of(p)] = created[Of(p)] + 1]
  <2>1. created'[h] = (IF h = Of(p) THEN c + 1 ELSE c) /\ lost'[h] = l
        /\ Appending = {} /\ Appending' = {Of(p)} /\ pass'[p].pc # "create"
    BY <1>2, <1>3, <1>4, <1>6 DEF c, l
  <2>2. QED
    BY <1>1, <1>3, <1>6, <2>1
<1>7. CASE /\ pass[p].pc = "append" /\ Moved(p, "ok") /\ UNCHANGED <<created, lost>>
           /\ file' = file \cup {Of(p)}
  <2>1. created'[h] = c /\ lost'[h] = l /\ Appending = {Of(p)} /\ pass'[p].pc # "create"
    BY <1>3, <1>4, <1>7 DEF c, l
  <2>2. QED
    BY <1>1, <1>3, <1>7, <2>1
<1>8. ASSUME pass[p].pc = "create", Moved(p, "bad"), UNCHANGED file, NEW done \in {0, 1},
             created' = [created EXCEPT ![Of(p)] = created[Of(p)] + done],
             lost' = [lost EXCEPT ![Of(p)] = lost[Of(p)] + done]
      PROVE  /\ created'[h] <= lost'[h] + 1
             /\ h \notin file' \cup Appending' => created'[h] <= lost'[h]
             /\ \A q \in DOMAIN pass' :
                   pass'[q].pc = "create" /\ Of(q)' = h => created'[h] <= lost'[h]
  <2>1. /\ created'[h] = (IF h = Of(p) THEN c + done ELSE c)
        /\ lost'[h] = (IF h = Of(p) THEN l + done ELSE l)
        /\ Appending = {} /\ pass'[p].pc # "create"
    BY <1>2, <1>3, <1>4, <1>8 DEF c, l
  <2>2. QED
    BY <1>1, <1>3, <1>8, <2>1
<1>9. QED
  BY <1>5, <1>6, <1>7, <1>8, PassThreadFacts

\* The thread of a chain: while it is the only one, no other chain comes between the check and
\* the creation of a camera.
LEMMA ThreadKeeps ==
    ASSUME TypeOK, Rest, NEW p \in DOMAIN pass, PassThread(p)
    PROVE  Rest'
<1> USE DEF Rest
<1>1. Running(p) /\ UNCHANGED <<shown, win, form, gen, failed, asked, hasty>>
  BY PassThreadFacts DEF PassRest, table, hist
<1>2. PICK to \in {"create", "append", "ok", "bad"} :
        /\ Moved(p, to)
        /\ to = "ok" => Of(p) \in file'
        /\ file \subseteq file' /\ file' \subseteq file \cup {Of(p)}
  BY PassThreadFacts
<1>3. /\ DOMAIN pass' = DOMAIN pass /\ pass'[p] = [gen |-> pass[p].gen, todo |-> pass[p].todo, pc |-> to]
      /\ \A q \in DOMAIN pass \ {p} : pass'[q] = pass[q]
  BY <1>2 DEF Moved, Becomes
<1>4. /\ pass'[p].gen = pass[p].gen /\ pass'[p].todo = pass[p].todo /\ pass'[p].pc = to
      /\ \A q \in DOMAIN pass : pass'[q].gen = pass[q].gen /\ pass'[q].todo = pass[q].todo
      /\ \A q \in DOMAIN pass : Running(q)' <=> Running(q)
      /\ Of(p)' = Of(p)
  BY <1>1, <1>3 DEF Running, Of
<1>5. ~hasty => \A q \in DOMAIN pass \ {p} : pass[q].pc = "over" /\ pass'[q].pc = "over"
  BY <1>1, <1>3 DEF OneAtATime, Running
<1>6. HasWork'
  BY <1>3, <1>4 DEF HasWork
<1>7. OneAtATime'
  BY <1>1, <1>3, <1>4 DEF OneAtATime
<1>8. EachAccounted'
  BY <1>1, <1>3, <1>4, <1>5, AccountsOfThread
<1>9. FormIsLater'
  BY <1>1, <1>3, <1>4 DEF FormIsLater
<1>10. ChainUnderWay'
  BY <1>1, <1>2, <1>3, <1>4, <1>5 DEF ChainUnderWay, Running
<1>11. ClosesWhenDone'
  BY <1>1, <1>2 DEF ClosesWhenDone
<1>12. QED
  BY <1>6, <1>7, <1>8, <1>9, <1>10, <1>11

\* The window hears of a row: the dialog begins to close after the last one only, and only when
\* none of the chain has failed.
LEMMA PostsKeep ==
    ASSUME TypeOK, Rest, NEW p \in DOMAIN pass, PassPosts(p)
    PROVE  Rest'
<1> USE DEF Rest
<1>1. /\ Running(p) /\ pass[p].pc \in {"ok", "bad"}
      /\ UNCHANGED <<file, created, gen, lost, asked, hasty>>
      /\ Gone(p) \/ WentOn(p) \/ WasLast(p) \/ WasForm(p)
  BY PassPostsFacts DEF hist
<1>2. PICK rest \in Seq(Item), to \in {"resolve", "over"} :
        /\ Becomes(p, [gen |-> pass[p].gen, todo |-> rest, pc |-> to])
        /\ to = "resolve" => rest # <<>> /\ WentOn(p) /\ rest = Tail(pass[p].todo)
  <2>1. PassEnds(p) \/ WentOn(p)
    BY <1>1 DEF Gone, WasLast, WasForm
  <2>2. CASE PassEnds(p)
    BY <2>2, EmptySeq DEF PassEnds
  <2>3. CASE WentOn(p)
    <3>1. Tail(pass[p].todo) \in Seq(Item) /\ Tail(pass[p].todo) # <<>>
      BY <1>1, <2>3, PassType, TailFacts DEF WentOn, HasWork
    <3>2. QED
      BY <2>3, <3>1 DEF WentOn
  <2>4. QED BY <2>1, <2>2, <2>3
<1>3. /\ DOMAIN pass' = DOMAIN pass
      /\ pass'[p].gen = pass[p].gen /\ pass'[p].todo = rest /\ pass'[p].pc = to
      /\ \A q \in DOMAIN pass \ {p} : pass'[q] = pass[q]
  BY <1>2 DEF Becomes
<1>4. \A q \in DOMAIN pass : Running(q)' => Running(q) /\ (q = p => to = "resolve")
  BY <1>1, <1>3 DEF Running
<1>5. ~hasty => \A q \in DOMAIN pass \ {p} : ~Running(q)
  BY <1>1 DEF OneAtATime
<1>6. ~hasty => win # "closing"
  BY <1>1 DEF OneAtATime
<1>7. win' = "closing" => win = "closing" \/ WasLast(p)
  BY <1>1 DEF Gone, WentOn, WasLast, WasForm
<1>8. win' # "closed" <=> win # "closed"
  BY <1>1 DEF Gone, WentOn, WasLast, WasForm
<1>9. WasLast(p) => to = "over"
  <2>1. SUFFICES ASSUME WasLast(p), to = "resolve" PROVE FALSE
    BY <1>2
  <2>2. Len(pass[p].todo) = 1 /\ Len(pass[p].todo) > 1
    BY <1>2, <2>1 DEF WasLast, WentOn
  <2>3. QED BY <2>2
<1>10. HasWork'
  BY <1>2, <1>3, <1>4 DEF HasWork, Running
<1>11. OneAtATime'
  BY <1>1, <1>3, <1>4, <1>5, <1>6, <1>7, <1>9 DEF OneAtATime
<1>12. EachAccounted'
  <2>1. Appending' = Appending
    BY <1>1, <1>3 DEF Appending, Of
  <2>2. \A q \in DOMAIN pass' : pass'[q].pc = "create" => pass[q].pc = "create" /\ Of(q)' = Of(q)
    BY <1>3 DEF Of
  <2>3. QED
    BY <1>1, <1>3, <2>1, <2>2 DEF EachAccounted
<1>13. FormIsLater'
  <2>1. SUFFICES ASSUME win # "closed"
                 PROVE  form' = "closed" /\ \A q \in DOMAIN pass : pass'[q].gen # 0
    BY <1>3, <1>8 DEF FormIsLater
  <2>2. form = "closed" /\ \A q \in DOMAIN pass : pass[q].gen # 0
    BY <2>1 DEF FormIsLater
  <2>3. UNCHANGED form
    BY <1>1, <2>2 DEF Gone, WentOn, WasLast, WasForm
  <2>4. QED
    BY <1>3, <2>2, <2>3
<1>14. ASSUME ~hasty, win # "closed"
       PROVE  /\ pass[p].gen = gen /\ ~Gone(p) /\ ~WasForm(p)
              /\ failed' = (failed \/ pass[p].pc = "bad")
              /\ ~failed => asked \subseteq file \cup {pass[p].todo[i].host : i \in DOMAIN pass[p].todo}
              /\ pass[p].pc = "ok" => pass[p].todo[1].host \in file \/ pass[p].todo[1].host \notin asked
  <2>1. /\ pass[p].gen = gen
        /\ ~failed => asked \subseteq file \cup {pass[p].todo[i].host : i \in DOMAIN pass[p].todo}
        /\ pass[p].pc = "ok" => Of(p) \in file \/ Of(p) \notin asked
    BY <1>1, <1>14 DEF ChainUnderWay
  <2>2. pass[p].todo[1].host = Of(p)
    BY <1>1, HeadFacts
  <2>3. ~Gone(p) /\ ~WasForm(p)
    BY <1>14, <2>1 DEF Gone, WasForm, FormIsLater
  <2>4. failed' = (failed \/ pass[p].pc = "bad")
    BY <1>1, <2>3 DEF WentOn, WasLast
  <2>5. QED
    BY <2>1, <2>2, <2>3, <2>4
<1>15. pass[p].todo \in Seq(Item) /\ pass[p].todo # <<>>
  BY <1>1, PassType DEF HasWork
<1>16. ChainUnderWay'
  <2> SUFFICES ASSUME ~hasty, win # "closed", NEW q \in DOMAIN pass, Running(q)'
               PROVE  /\ pass'[q].gen = gen
                      /\ ~failed' => asked \subseteq file \cup {pass'[q].todo[i].host : i \in DOMAIN pass'[q].todo}
                      /\ pass'[q].pc = "ok" => Of(q)' \in file \/ Of(q)' \notin asked
    BY <1>1, <1>3, <1>8 DEF ChainUnderWay
  <2>1. q = p /\ to = "resolve" /\ rest = Tail(pass[p].todo)
    BY <1>2, <1>4, <1>5
  <2>2. ASSUME ~failed'
        PROVE  asked \subseteq file \cup {rest[i].host : i \in DOMAIN rest}
    <3>1. ~failed /\ pass[p].pc = "ok"
      BY <1>1, <1>14, <2>2
    <3>2. \A i \in DOMAIN pass[p].todo : i = 1 \/ \E j \in DOMAIN rest : rest[j] = pass[p].todo[i]
      BY <1>15, <2>1, TailFacts
    <3>3. QED
      BY <1>14, <3>1, <3>2
  <2>3. QED
    BY <1>3, <1>14, <2>1, <2>2
<1>17. ClosesWhenDone'
  <2> SUFFICES ASSUME ~hasty, win' = "closing"
               PROVE  asked \subseteq file /\ asked \subseteq shown'
    BY <1>1 DEF ClosesWhenDone
  <2>1. WasLast(p)
    BY <1>6, <1>7
  <2>2. win # "closed" /\ ~failed' /\ shown' = file /\ Len(pass[p].todo) = 1
    BY <1>6, <2>1 DEF WasLast
  <2>3. ~failed /\ pass[p].pc = "ok"
    BY <1>1, <1>14, <2>2
  <2>4. DOMAIN pass[p].todo = {1}
    BY <1>15, <2>2, TailFacts
  <2>5. asked \subseteq file
    BY <1>14, <2>2, <2>3, <2>4
  <2>6. QED
    BY <2>2, <2>5
<1>18. QED
  BY <1>10, <1>11, <1>12, <1>13, <1>16, <1>17

\* A new chain is the only one at work, unless the user was hasty.
LEMMA StartKeeps ==
    ASSUME TypeOK, Rest, NEW ch, Started(ch), UNCHANGED lost,
           \/ win = "closed"
           \/ /\ form = "closed" /\ form' = "closed" /\ ch.gen = gen /\ failed' = FALSE
              /\ asked' \subseteq {ch.todo[i].host : i \in DOMAIN ch.todo}
    PROVE  Rest'
<1> USE DEF Rest
<1>1. /\ pass' \in Seq(Chain) /\ ch \in Chain
      /\ DOMAIN pass' = DOMAIN pass \cup {Len(pass) + 1} /\ Len(pass) + 1 \notin DOMAIN pass
      /\ pass'[Len(pass) + 1] = ch /\ \A q \in DOMAIN pass : pass'[q] = pass[q]
  BY AppendFacts DEF Started, TypeOK
<1>2. /\ UNCHANGED <<win, gen, file, created, shown>> /\ hasty' = (hasty \/ Busy)
      /\ ch.todo # <<>> /\ ch.pc = "resolve"
  BY DEF Started, store
<1>3. ~hasty' => ~hasty /\ win # "closing" /\ \A q \in DOMAIN pass : ~Running(q)
  BY <1>2 DEF Busy, Running
<1>4. ~hasty' => \A q \in DOMAIN pass' : Running(q)' => q = Len(pass) + 1
  BY <1>1, <1>3 DEF Running
<1>5. HasWork'
  BY <1>1, <1>2 DEF HasWork, Running
<1>6. OneAtATime'
  BY <1>2, <1>3, <1>4 DEF OneAtATime
<1>7. ~hasty' => \A q \in DOMAIN pass' : pass'[q].pc \notin {"create", "append"}
  BY <1>1, <1>2, <1>3 DEF Running
<1>8. EachAccounted'
  <2>1. ~hasty' => Appending = {} /\ Appending' = {}
    BY <1>3, <1>7 DEF Appending, Running
  <2>2. QED
    BY <1>2, <1>3, <1>7, <2>1 DEF EachAccounted
<1>9. FormIsLater'
  <2>1. win # "closed" => form' = "closed" /\ ch.gen = gen /\ gen # 0
    BY Bounds DEF TypeOK, Scan, FormIsLater
  <2>2. QED
    BY <1>1, <1>2, <2>1 DEF FormIsLater
<1>10. ChainUnderWay'
  <2> SUFFICES ASSUME ~hasty', win # "closed", NEW q \in DOMAIN pass', Running(q)'
               PROVE  /\ pass'[q].gen = gen
                      /\ ~failed' => asked' \subseteq file \cup {pass'[q].todo[i].host : i \in DOMAIN pass'[q].todo}
                      /\ pass'[q].pc = "ok" => Of(q)' \in file \/ Of(q)' \notin asked'
    BY <1>2 DEF ChainUnderWay
  <2>1. pass'[q] = ch /\ ch.gen = gen
    BY <1>1, <1>4
  <2>2. QED
    BY <1>2, <2>1
<1>11. ClosesWhenDone'
  BY <1>2, <1>3 DEF ClosesWhenDone
<1>12. QED
  BY <1>5, <1>6, <1>8, <1>9, <1>10, <1>11

\* A new scan ends no chain and starts none.
LEMMA RescanKeeps ==
    ASSUME TypeOK, Rest, Rescan
    PROVE  Rest'
<1> USE DEF Rest
<1>1. /\ UNCHANGED <<file, created, shown, win, form, failed, pass, lost, asked>>
      /\ hasty' = (hasty \/ Busy)
  BY DEF Rescan, store
<1>2. ~hasty' => ~hasty /\ win # "closing" /\ \A q \in DOMAIN pass : ~Running(q)
  BY <1>1 DEF Busy, Running
<1>3. HasWork' /\ OneAtATime' /\ FormIsLater' /\ ClosesWhenDone'
  BY <1>1, <1>2 DEF HasWork, OneAtATime, FormIsLater, ClosesWhenDone, Running
<1>4. EachAccounted' /\ ChainUnderWay'
  BY <1>1, <1>2 DEF EachAccounted, ChainUnderWay, Running, Appending, Of
<1>5. QED
  BY <1>3, <1>4

\* Opening and closing leave the chains alone.
LEMMA WindowKeeps ==
    ASSUME TypeOK, Rest, OpenForm \/ CloseForm \/ Close
    PROVE  Rest'
<1> USE DEF Rest
<1>1. UNCHANGED <<file, created, shown, gen, pass, lost, hasty>>
  BY DEF OpenForm, CloseForm, Close, FormRest, store, table, hist
<1>2. \/ win = "closed" /\ win' = "closed"
      \/ form' = "closed" /\ win' = win /\ UNCHANGED <<asked, failed>>
      \/ win' = "closed" /\ form' = form
  BY DEF OpenForm, CloseForm, Close, FormRest, hist
<1>3. HasWork' /\ OneAtATime' /\ FormIsLater' /\ ClosesWhenDone'
  BY <1>1, <1>2 DEF HasWork, OneAtATime, FormIsLater, ClosesWhenDone, Running
<1>4. EachAccounted' /\ ChainUnderWay'
  BY <1>1, <1>2 DEF EachAccounted, ChainUnderWay, Running, Of, Appending
<1>5. QED
  BY <1>3, <1>4

\* A reconcile takes cameras off the file or the list, and then no longer counts them among those
\* that the dialog has to show.
LEMMA SyncKeeps ==
    ASSUME TypeOK, Rest,
           \/ RefreshButton
           \/ \E r \in Reconciler : Reconcile(r)
    PROVE  Rest'
<1> USE DEF Rest
<1>1. /\ UNCHANGED <<created, win, form, gen, failed, pass, hasty>>
      /\ \/ win = "closed" /\ UNCHANGED <<file, asked, lost>>
         \/ UNCHANGED <<file, shown, asked, lost>>
         \/ /\ UNCHANGED <<file, lost>> /\ asked' = asked \ (shown \ shown')
         \/ /\ UNCHANGED shown /\ asked' = asked \ (file \ file')
            /\ lost' = [h \in Host |-> lost[h] + IF h \in file \ file' THEN 1 ELSE 0]
  BY SyncFacts
<1>2. asked' \subseteq asked \ (file \ file')
  BY <1>1
<1>3. HasWork' /\ OneAtATime' /\ FormIsLater'
  BY <1>1 DEF HasWork, OneAtATime, FormIsLater, Running
<1>4. EachAccounted'
  <2> SUFFICES ASSUME ~hasty, NEW h \in Host
               PROVE  /\ created[h] <= lost'[h] + 1
                      /\ h \notin file' \cup Appending' => created[h] <= lost'[h]
                      /\ \A q \in DOMAIN pass :
                            pass[q].pc = "create" /\ Of(q) = h => created[h] <= lost'[h]
    BY <1>1 DEF EachAccounted, Of
  <2>1. Appending' = Appending
    BY <1>1 DEF Appending, Of
  <2>2. /\ lost[h] \in Nat /\ lost'[h] \in Nat /\ created[h] \in Nat /\ lost[h] <= lost'[h]
        /\ h \in file \ file' => lost'[h] = lost[h] + 1
    BY <1>1 DEF TypeOK
  <2>3. /\ created[h] <= lost[h] + 1
        /\ h \notin file \cup Appending => created[h] <= lost[h]
        /\ \A q \in DOMAIN pass : pass[q].pc = "create" /\ Of(q) = h => created[h] <= lost[h]
    BY DEF EachAccounted
  <2>4. created[h] <= lost[h] => created[h] <= lost'[h]
    BY <2>2
  <2>5. created[h] <= lost'[h] + 1
    BY <2>2, <2>3
  <2>6. ASSUME h \notin file' \cup Appending
        PROVE  created[h] <= lost'[h]
    <3>1. CASE h \in file
      BY <2>2, <2>3, <2>6, <3>1
    <3>2. CASE h \notin file
      BY <2>3, <2>4, <2>6, <3>2
    <3>3. QED
      BY <3>1, <3>2
  <2>7. QED
    BY <2>1, <2>3, <2>4, <2>5, <2>6
<1>5. ChainUnderWay'
  BY <1>1, <1>2 DEF ChainUnderWay, Running, Of
<1>6. ClosesWhenDone'
  BY <1>1 DEF ClosesWhenDone
<1>7. QED
  BY <1>3, <1>4, <1>5, <1>6

(***************************************************************************)
(* The theorems                                                            *)
(***************************************************************************)

\* Initially no chain runs, and the backend has what the file has, and strays.
LEMMA InitInv ==
    ASSUME Init
    PROVE  IInv
<1> USE Bounds DEF Init
<1>1. /\ file \subseteq Host /\ shown \subseteq Host /\ created \in [Host -> Nat]
      /\ asked \subseteq Host /\ lost \in [Host -> Nat] /\ blank \subseteq Host
      /\ rec \in [Reconciler -> {"new", "load", "fetch", "paint", "over"}]
      /\ kept \in [Reconciler -> SUBSET Host]
  OBVIOUS
<1>2. /\ win \in {"open", "closing", "closed"} /\ form \in {"closed", "idle", "busy"}
      /\ registerOn \in BOOLEAN /\ rescanOn \in BOOLEAN /\ failed \in BOOLEAN /\ hasty \in BOOLEAN
  OBVIOUS
<1>3. gen \in Scan /\ cancelled \subseteq Scan
      /\ scan \in [Scan -> {"none", "load", "onvif", "sweep", "done", "over"}]
  BY DEF Scan
<1>4. rows \in Seq(Row) /\ pass \in Seq(Chain) /\ DOMAIN pass = {}
  BY EmptySeq, LenProperties
<1>5. known \in [Scan -> SUBSET Host] /\ seen \in [Scan -> SUBSET Host]
  OBVIOUS
<1>6. mail \in [Scan -> [Host -> 0 .. MaxAnswers]]
  OBVIOUS
<1>7. TypeOK
  BY <1>1, <1>2, <1>3, <1>4, <1>5, <1>6 DEF TypeOK
<1>8. PostsSeen
  BY DEF PostsSeen
<1>9. HasWork /\ OneAtATime /\ FormIsLater /\ ChainUnderWay /\ ClosesWhenDone
  BY <1>4 DEF HasWork, OneAtATime, FormIsLater, ChainUnderWay, ClosesWhenDone
<1>10. EachAccounted
  BY <1>4 DEF EachAccounted
<1>11. QED
  BY <1>7, <1>8, <1>9, <1>10 DEF IInv

\* Every step keeps what is known of chains, file and backend.
LEMMA RestStep ==
    ASSUME IInv, [Next]_vars
    PROVE  Rest'
<1>1. TypeOK /\ PostsSeen /\ HasWork /\ Rest
  BY DEF IInv, Rest
<1>2. ASSUME NEW s \in Scan, ScanThread(s) \/ SweepFinds(s) \/ ScanPosts(s)
      PROVE  Rest'
  <2>1. UNCHANGED <<file, created, shown, win, form, gen, failed, pass, asked, lost, hasty>>
    BY <1>1, <1>2, ScanThreadFacts, ScanPostsFacts DEF ScanRest, store, table, hist
  <2>2. QED
    BY <1>1, <2>1, QuietKeeps
<1>3. ASSUME NEW p \in DOMAIN pass, PassThread(p) \/ PassPosts(p)
      PROVE  Rest'
  BY <1>1, <1>3, ThreadKeeps, PostsKeep
<1>4. CASE Register
  <2>1. PICK ch : /\ Started(ch) /\ ch.gen = gen
                  /\ asked' \subseteq {ch.todo[i].host : i \in DOMAIN ch.todo}
    BY <1>1, <1>4, RegisterFacts
  <2>2. win # "closed" /\ failed' = FALSE /\ UNCHANGED <<form, lost>> /\ form = "closed"
    BY <1>1, <1>4, RegisterFacts DEF Register, Rest, FormIsLater
  <2>3. QED
    BY <1>1, <2>1, <2>2, StartKeeps
<1>5. CASE Submit
  <2>1. PICK ch : Started(ch)
    BY <1>1, <1>5, SubmitFacts
  <2>2. win = "closed"
    BY <1>1, <1>5 DEF Submit, Rest, FormIsLater
  <2>3. UNCHANGED lost
    BY <1>5 DEF Submit, FormRest
  <2>4. QED
    BY <1>1, <2>1, <2>2, <2>3, StartKeeps
<1>6. CASE Rescan \/ OpenForm \/ CloseForm \/ Close
  BY <1>1, <1>6, RescanKeeps, WindowKeeps
<1>7. CASE RefreshButton \/ \E r \in Reconciler : Reconcile(r)
  BY <1>1, <1>7, SyncKeeps
<1>8. CASE UNCHANGED vars
  BY <1>1, <1>8, QuietKeeps DEF vars, store, table, hist
<1>9. QED
  BY <1>2, <1>3, <1>4, <1>5, <1>6, <1>7, <1>8 DEF Next

\* The invariant of the dialogs and their threads.
THEOREM Invariance == Spec => []IInv
<1>1. Init => IInv
  BY InitInv
<1>2. IInv /\ [Next]_vars => IInv'
  BY TypeStep, RestStep DEF IInv, Rest
<1>3. QED
  BY <1>1, <1>2, PTL DEF Spec

\* Every variable of dialog, form, scans and chains keeps its type.
THEOREM TypeCorrect == Spec => []TypeOK
<1>1. IInv => TypeOK
  BY DEF IInv
<1>2. QED
  BY <1>1, Invariance, PTL

\* register_camera (discovery_service.py 572-573) over requests that are sent once
\* (backend_client.py 29-31): one chain at a time creates no camera twice, in either dialog.
THEOREM NoneTwice == Spec => []CreatedOnce
<1>1. ASSUME TypeOK, EachAccounted
      PROVE  CreatedOnce
  <2> SUFFICES ASSUME ~hasty, NEW h \in Host
               PROVE  created[h] <= 1 + lost[h]
    BY DEF CreatedOnce
  <2>1. created[h] \in Nat /\ lost[h] \in Nat
    BY <1>1 DEF TypeOK
  <2>2. created[h] <= lost[h] + 1
    BY <1>1 DEF EachAccounted
  <2>3. QED
    BY <2>1, <2>2
<1>2. IInv => CreatedOnce
  BY <1>1 DEF IInv
<1>3. QED
  BY <1>2, Invariance, PTL

\* _register_next (scan_dialog.py 299-318): the dialog closes by itself only over cameras that
\* are registered and listed.
THEOREM ClosesOverSuccess == Spec => []ClosesWhenDone
<1>1. IInv => ClosesWhenDone
  BY DEF IInv
<1>2. QED
  BY <1>1, Invariance, PTL

(***************************************************************************)
(* The other dialog with background threads: the update                    *)
(***************************************************************************)

\* What the flows keep, and what the process and its install folder keep: UDTypeOK in two parts.
\* A script that runs has a copy left.
FlowType ==
    /\ latest \in Version
    /\ check \in {None, 0} \cup Version
    /\ pc \in [Flow -> {"idle", "asks", "offer", "get", "sum", "sig", "good", "bad", "swap", "jammed"}]
    /\ want \in [Flow -> Version]
    /\ hash \in [Flow -> {"whole", "spoilt"}]
    /\ zip \in [Version -> {"none", "cut", "whole", "spoilt"}]
    /\ writer \in [Version -> Flow \cup {None}]

FolderType ==
    /\ ver \in Version /\ files \in [File -> Version]
    /\ auto \in BOOLEAN /\ inProgress \in BOOLEAN
    /\ app \in {"run", "off", "quit"}
    /\ tries \in [Flow -> 0 .. MaxTries]
    /\ gone \subseteq Dialog /\ disturbed \subseteq Flow
    /\ script \in [of : Version, left : 1 .. MaxTries] \cup {None}

\* One silent update at a time: the flag is up exactly while the silent flow is at work (or stuck in a
\* swap that failed), and on_available never finds it so.
OneSilentUpdate ==
    /\ pc["auto"] # "idle" <=> inProgress
    /\ inProgress => check = None

\* Who has a file in hand that another flow is writing has been disturbed.
OverlapsKnown ==
    \A f, g \in Flow :
        f # g /\ InHand(f) /\ pc[g] = "get" /\ want[f] = want[g] => f \in disturbed

\* What a flow may rely on: it wrote the file from the start, and has hashed what the file holds;
\* past the checksum the file is whole.
Reliable(f) ==
    /\ pc[f] = "get" => writer[want[f]] = f
    /\ pc[f] = "sum" => zip[want[f]] = hash[f]
    /\ pc[f] \in {"sig", "good", "swap"} => zip[want[f]] = "whole"

FileIsHashed == \A f \in Flow : InHand(f) /\ f \notin disturbed => Reliable(f)

UpdateInv == FlowType /\ OneSilentUpdate /\ OverlapsKnown /\ FileIsHashed

\* There is a release, and a request or a copy to begin with.
LEMMA BoundFacts ==
    /\ 1 \in Version /\ Version \subseteq Int
    /\ MaxTries \in Nat /\ 0 \in 0 .. MaxTries /\ MaxTries \in 0 .. MaxTries
    /\ MaxTries \in 1 .. MaxTries /\ \A n \in 1 .. MaxTries : n \in 0 .. MaxTries
    /\ \A n \in 0 .. MaxTries : n > 1 => n - 1 \in 0 .. MaxTries
<1>1. MaxVersion \in Nat \ {0} /\ MaxTries \in Nat \ {0}
  BY UpdaterAssumption
<1>2. QED
  BY <1>1 DEF Version

\* The silent flow is no dialog, and a dialog that opens is one.
LEMMA FlowFacts ==
    /\ "auto" \in Flow /\ "auto" \notin Dialog /\ Dialog \subseteq Flow
    /\ Another => New \in Dialog /\ pc[New] = "idle"
  BY UpdaterAssumption DEF Flow, Another, New

\* A program that has ended has nothing in hand.
LEMMA EndedFacts ==
    ASSUME Ended, latest \in Version, UNCHANGED latest
    PROVE  UpdateInv'
<1>1. FlowType'
  BY UpdaterAssumption DEF Ended, Version, Flow, FlowType
<1>2. OneSilentUpdate' /\ OverlapsKnown' /\ FileIsHashed'
  BY FlowFacts DEF Ended, OneSilentUpdate, OverlapsKnown, FileIsHashed, InHand
<1>3. QED
  BY <1>1, <1>2 DEF UpdateInv

\* Initially no flow is at work.
LEMMA UpdateInit == UDInit => UpdateInv
<1> SUFFICES ASSUME UDInit
             PROVE  UpdateInv
  OBVIOUS
<1>1. FlowType
  BY UpdaterAssumption DEF UDInit, Version, Flow, FlowType
<1>2. OneSilentUpdate /\ OverlapsKnown /\ FileIsHashed
  BY FlowFacts DEF UDInit, OneSilentUpdate, OverlapsKnown, FileIsHashed, InHand
<1>3. QED
  BY <1>1, <1>2 DEF UpdateInv

\* One flow moves.  It may rely on its own file afterwards, if it has one; and whoever else has a
\* file in hand either has it as before or has been disturbed.
LEMMA OneMovesFacts ==
    ASSUME UpdateInv, NEW f \in Flow,
           \A g \in Flow \ {f} : pc'[g] = pc[g] /\ want'[g] = want[g] /\ hash'[g] = hash[g],
           disturbed \ {f} \subseteq disturbed',
           \A g \in Flow \ {f} : InHand(g) /\ g \notin disturbed' =>
               zip'[want[g]] = zip[want[g]] /\ writer'[want[g]] = writer[want[g]],
           \A g \in Flow \ {f} : pc'[f] = "get" /\ InHand(g) /\ want[g] = want'[f] => g \in disturbed',
           \A g \in Flow \ {f} : InHand(f)' /\ pc[g] = "get" /\ want[g] = want'[f] => f \in disturbed',
           InHand(f)' /\ f \notin disturbed' => Reliable(f)'
    PROVE  OverlapsKnown' /\ FileIsHashed'
<1> USE DEF UpdateInv
<1>1. ASSUME NEW g \in Flow, g # f
      PROVE  /\ InHand(g)' <=> InHand(g)
             /\ pc'[g] = pc[g] /\ want'[g] = want[g] /\ hash'[g] = hash[g]
             /\ g \notin disturbed' => g \notin disturbed
  BY <1>1 DEF InHand
<1>2. OverlapsKnown'
  <2> SUFFICES ASSUME NEW g \in Flow, NEW h \in Flow,
                      g # h, InHand(g)', pc'[h] = "get", want'[g] = want'[h]
               PROVE  g \in disturbed'
    BY DEF OverlapsKnown
  <2>1. CASE g = f
    BY <2>1, <1>1
  <2>2. CASE h = f
    BY <2>2, <1>1
  <2>3. CASE g # f /\ h # f
    BY <2>3, <1>1 DEF OverlapsKnown
  <2>4. QED
    BY <2>1, <2>2, <2>3
<1>3. FileIsHashed'
  <2> SUFFICES ASSUME NEW g \in Flow, InHand(g)', g \notin disturbed'
               PROVE  Reliable(g)'
    BY DEF FileIsHashed
  <2>1. CASE g = f
    BY <2>1
  <2>2. CASE g # f
    <3>1. InHand(g) /\ g \notin disturbed /\ Reliable(g)
      BY <2>2, <1>1 DEF FileIsHashed
    <3>2. zip'[want[g]] = zip[want[g]] /\ writer'[want[g]] = writer[want[g]]
      BY <2>2, <3>1
    <3>3. QED
      BY <2>2, <1>1, <3>1, <3>2 DEF Reliable
  <2>3. QED
    BY <2>1, <2>2
<1>4. QED
  BY <1>2, <1>3

\* A flow opens a file: it disturbs those that have it in hand, and is disturbed by who writes it.
LEMMA OpenFacts ==
    ASSUME UpdateInv, NEW f \in Flow, NEW v \in Version, Open(f, v),
           want' = [want EXCEPT ![f] = v], pc' = [pc EXCEPT ![f] = "get"], UNCHANGED hash
    PROVE  OverlapsKnown' /\ FileIsHashed'
<1>1. /\ disturbed' = (disturbed \ {f}) \cup Others(f, v)
                      \cup {g \in {f} : \E h \in Others(f, v) : pc[h] = "get"}
      /\ zip' = [zip EXCEPT ![v] = "cut"] /\ writer' = [writer EXCEPT ![v] = f]
  BY DEF Open
<1>2. /\ pc'[f] = "get" /\ want'[f] = v /\ writer'[v] = f
      /\ \A g \in Flow \ {f} : pc'[g] = pc[g] /\ want'[g] = want[g] /\ hash'[g] = hash[g]
  BY <1>1 DEF UpdateInv, FlowType
<1>3. \A g \in Flow \ {f} : InHand(g) /\ g \notin disturbed' =>
          zip'[want[g]] = zip[want[g]] /\ writer'[want[g]] = writer[want[g]]
  BY <1>1 DEF Others, UpdateInv, FlowType
<1>4. \A g \in Flow \ {f} : InHand(g) /\ want[g] = v => g \in disturbed'
  BY <1>1 DEF Others
<1>5. \A g \in Flow \ {f} : pc[g] = "get" /\ want[g] = v => f \in disturbed'
  BY <1>1 DEF Others, InHand
<1>6. Reliable(f)'
  BY <1>2 DEF Reliable
<1>7. disturbed \ {f} \subseteq disturbed'
  BY <1>1
<1>8. QED
  BY <1>2, <1>3, <1>4, <1>5, <1>6, <1>7, OneMovesFacts

\* A flow has nothing in hand any more: it leaves the file to the others, or deletes it and disturbs
\* them.
LEMMA DropFacts ==
    ASSUME UpdateInv, NEW f \in Flow, NEW to \in {"idle", "bad", "jammed"}, Drop(f, to),
           Leave(f) \/ Refuse(f)
    PROVE  OverlapsKnown' /\ FileIsHashed'
<1> USE DEF UpdateInv, FlowType
<1>1. /\ pc'[f] \in {"idle", "bad", "jammed"}
      /\ \A g \in Flow \ {f} : pc'[g] = pc[g] /\ want'[g] = want[g] /\ hash'[g] = hash[g]
  BY DEF Drop
<1>2. ~InHand(f)' /\ pc'[f] # "get"
  BY <1>1 DEF InHand
<1>3. disturbed \ {f} \subseteq disturbed'
  BY DEF Leave, Refuse
<1>4. ASSUME NEW g \in Flow \ {f}, InHand(g), g \notin disturbed'
      PROVE  zip'[want[g]] = zip[want[g]] /\ writer'[want[g]] = writer[want[g]]
  BY <1>4 DEF Leave, Refuse, Others
<1>5. QED
  BY <1>1, <1>2, <1>3, <1>4, OneMovesFacts

\* A flow that has nothing in hand, and nobody's file changes.
LEMMA EmptyHandFacts ==
    ASSUME UpdateInv, NEW f \in Flow, ~InHand(f)',
           \A g \in Flow \ {f} : pc'[g] = pc[g] /\ want'[g] = want[g] /\ hash'[g] = hash[g],
           UNCHANGED fileVars
    PROVE  OverlapsKnown' /\ FileIsHashed'
<1>1. pc'[f] # "get"
  BY DEF InHand
<1>2. QED
  BY <1>1, OneMovesFacts DEF fileVars

\* A flow goes on with its file in hand, and nobody's file changes.
LEMMA HoldsFacts ==
    ASSUME UpdateInv, NEW f \in Flow, NEW to \in {"sum", "sig", "good", "swap"}, InHand(f),
           pc' = [pc EXCEPT ![f] = to], UNCHANGED <<want, hash, fileVars>>,
           Reliable(f) => Reliable(f)'
    PROVE  OverlapsKnown' /\ FileIsHashed'
<1> USE DEF UpdateInv, FlowType, fileVars
<1>1. pc'[f] # "get" /\ \A g \in Flow \ {f} : pc'[g] = pc[g]
  OBVIOUS
<1>2. \A g \in Flow \ {f} : pc[g] = "get" /\ want[g] = want[f] => f \in disturbed
  BY DEF OverlapsKnown
<1>3. f \notin disturbed => Reliable(f)'
  BY DEF FileIsHashed
<1>4. QED
  BY <1>1, <1>2, <1>3, OneMovesFacts

\* No flow moves and no file changes.
LEMMA StillFacts ==
    ASSUME UpdateInv, UNCHANGED <<pc, want, hash, fileVars>>
    PROVE  OverlapsKnown' /\ FileIsHashed'
  BY DEF UpdateInv, OverlapsKnown, FileIsHashed, Reliable, InHand, fileVars

\* What the steps keep of the types.
LEMMA UpdateTypeStep ==
    ASSUME UpdateInv, [UDNext]_udVars
    PROVE  FlowType'
<1> USE BoundFacts, FlowFacts DEF UpdateInv, FlowType, appVars, flowVars, fileVars
<1>1. CASE Publish \/ CheckTimer \/ Copy \/ UNCHANGED udVars
  BY <1>1 DEF Publish, CheckTimer, Copy, udVars
<1>2. CASE OpenDialog \/ Offered
  BY <1>2 DEF OpenDialog, Offered
<1>3. CASE Checked
  BY <1>3 DEF Checked, Answer
<1>4. CASE SilentStarts
  BY <1>4 DEF SilentStarts, Open
<1>5. CASE Quit \/ \E f \in Flow : Apply(f)
  <2>1. Ended /\ UNCHANGED latest
    BY <1>5 DEF Quit, Apply
  <2>2. QED
    BY <2>1, EndedFacts
<1>6. ASSUME NEW f \in Flow, NEW to \in {"idle", "bad", "jammed"}, Drop(f, to),
             Leave(f) \/ Refuse(f), UNCHANGED <<latest, check>>
      PROVE  FlowType'
  <2>1. pc' = [pc EXCEPT ![f] = to] /\ want' = [want EXCEPT ![f] = 1] /\ hash' = [hash EXCEPT ![f] = "whole"]
    BY <1>6 DEF Drop
  <2>2. \/ UNCHANGED <<zip, writer>>
        \/ zip' = [zip EXCEPT ![want[f]] = "none"] /\ writer' = [writer EXCEPT ![want[f]] = None]
    BY <1>6 DEF Leave, Refuse
  <2>3. QED
    BY <1>6, <2>1, <2>2
<1>7. CASE Failed
  BY <1>7, <1>6 DEF Failed
<1>8. ASSUME NEW d \in Dialog, DialogChecked(d) \/ LeaveDownload(d)
      PROVE  FlowType'
  BY <1>8 DEF DialogChecked, LeaveDownload, Answer
<1>9. ASSUME NEW d \in Dialog, Accept(d)
      PROVE  FlowType'
  BY <1>9 DEF Accept, Open
<1>10. ASSUME NEW d \in Dialog, CloseDialog(d) \/ EndsUnheard(d)
       PROVE  FlowType'
  BY <1>10, <1>6 DEF CloseDialog, EndsUnheard
<1>11. ASSUME NEW f \in Flow, Received(f)
       PROVE  FlowType'
  <2>1. PICK b \in {"whole", "spoilt"} :
            /\ hash' = [hash EXCEPT ![f] = b]
            /\ zip' = [zip EXCEPT ![want[f]] =
                          IF writer[want[f]] = f \/ b = "spoilt" THEN b ELSE @]
    BY <1>11 DEF Received
  <2>2. QED
    BY <1>11, <2>1 DEF Received
<1>12. ASSUME NEW f \in Flow, BrokenOff(f) \/ ApplyFails(f)
       PROVE  FlowType'
  BY <1>12, <1>6 DEF BrokenOff, ApplyFails
<1>13. ASSUME NEW f \in Flow, Checksum(f) \/ Signature(f)
       PROVE  FlowType'
  <2>1. CASE Refuse(f)
    <3>1. Drop(f, "bad") /\ UNCHANGED <<latest, check>>
      BY <1>13, <2>1 DEF Checksum, Signature, Refuse
    <3>2. QED
      BY <1>6, <2>1, <3>1
  <2>2. CASE ~Refuse(f)
    BY <1>13, <2>2 DEF Checksum, Signature
  <2>3. QED
    BY <2>1, <2>2
<1>14. ASSUME NEW f \in Flow, Announce(f)
       PROVE  FlowType'
  BY <1>14 DEF Announce
<1>15. QED
  BY <1>1, <1>2, <1>3, <1>4, <1>5, <1>7, <1>8, <1>9, <1>10, <1>11, <1>12, <1>13, <1>14
     DEF UDNext, User, Window, Download, Swap

\* No second silent update starts.
LEMMA SilentStep ==
    ASSUME UpdateInv, [UDNext]_udVars
    PROVE  OneSilentUpdate'
<1> USE UpdaterAssumption, FlowFacts DEF UpdateInv, FlowType, OneSilentUpdate, appVars, flowVars
<1>1. CASE Publish \/ Copy \/ UNCHANGED udVars
  BY <1>1 DEF Publish, Copy, udVars
<1>2. CASE CheckTimer \/ Checked
  BY <1>2 DEF CheckTimer, Checked
<1>3. CASE SilentStarts
  BY <1>3 DEF SilentStarts
<1>4. CASE Failed
  BY <1>4 DEF Failed, Drop
<1>5. CASE Quit \/ \E f \in Flow : Apply(f)
  BY <1>5 DEF Quit, Apply, Ended
<1>6. ASSUME pc'["auto"] # "idle" <=> pc["auto"] # "idle", UNCHANGED inProgress,
             check' = check \/ check' = None
      PROVE  OneSilentUpdate'
  BY <1>6
<1>7. CASE OpenDialog \/ Offered
  <2>1. UNCHANGED inProgress /\ check' \in {check, None}
        /\ (pc' = pc \/ \E to \in {"asks", "offer"} : Another /\ pc' = [pc EXCEPT ![New] = to])
    BY <1>7 DEF OpenDialog, Offered
  <2>2. QED
    BY <2>1, <1>6
<1>8. ASSUME NEW d \in Dialog, DialogChecked(d) \/ User(d) \/ EndsUnheard(d)
      PROVE  OneSilentUpdate'
  <2>1. UNCHANGED <<inProgress, check>>
    BY <1>8 DEF User, Accept, CloseDialog, LeaveDownload, DialogChecked, EndsUnheard
  <2>2. pc' = pc \/ \E to \in {"get", "idle", "bad", "offer"} : pc' = [pc EXCEPT ![d] = to]
    BY <1>8 DEF User, Accept, CloseDialog, LeaveDownload, DialogChecked, EndsUnheard, Drop
  <2>3. QED
    BY <2>1, <2>2, <1>6
<1>9. ASSUME NEW f \in Flow, Download(f) \/ Announce(f) \/ ApplyFails(f)
      PROVE  OneSilentUpdate'
  <2>1. UNCHANGED <<inProgress, check>> /\ pc[f] # "idle"
    BY <1>9 DEF Download, Received, BrokenOff, Checksum, Signature, Announce, ApplyFails
  <2>2. pc' = pc \/ \E to \in {"sum", "sig", "good", "bad", "swap", "jammed"} : pc' = [pc EXCEPT ![f] = to]
    BY <1>9 DEF Download, Received, BrokenOff, Checksum, Signature, Announce, ApplyFails, Refuse, Drop
  <2>3. QED
    BY <2>1, <2>2, <1>6
<1>10. QED
  BY <1>1, <1>2, <1>3, <1>4, <1>5, <1>7, <1>8, <1>9 DEF UDNext, Window, Swap

\* The downloads, step by step.
LEMMA DownloadStep ==
    ASSUME UpdateInv, NEW f \in Flow, Download(f) \/ Announce(f) \/ ApplyFails(f)
    PROVE  OverlapsKnown' /\ FileIsHashed'
<1> USE DEF flowVars
<1>1. CASE Received(f)
  <2> USE DEF UpdateInv, FlowType
  <2>1. PICK b \in {"whole", "spoilt"} :
            /\ hash' = [hash EXCEPT ![f] = b]
            /\ zip' = [zip EXCEPT ![want[f]] =
                          IF writer[want[f]] = f \/ b = "spoilt" THEN b ELSE @]
    BY <1>1 DEF Received
  <2>2. pc[f] = "get" /\ pc' = [pc EXCEPT ![f] = "sum"] /\ UNCHANGED <<want, writer, disturbed>>
    BY <1>1 DEF Received
  <2>3. ASSUME NEW g \in Flow \ {f}, InHand(g), g \notin disturbed
        PROVE  zip'[want[g]] = zip[want[g]]
    <3>1. want[g] # want[f]
      BY <2>2, <2>3 DEF OverlapsKnown
    <3>2. QED
      BY <2>1, <3>1
  <2>4. \A g \in Flow \ {f} : pc[g] = "get" /\ want[g] = want[f] => f \in disturbed
    BY <2>2 DEF OverlapsKnown, InHand
  <2>5. f \notin disturbed => Reliable(f)'
    <3>1. f \notin disturbed => writer[want[f]] = f
      BY <2>2 DEF FileIsHashed, Reliable, InHand
    <3>2. QED
      BY <2>1, <2>2, <3>1 DEF Reliable
  <2>6. QED
    BY <2>1, <2>2, <2>3, <2>4, <2>5, OneMovesFacts
<1>2. CASE BrokenOff(f) \/ ApplyFails(f) \/ Refuse(f)
  <2>1. \E to \in {"bad", "jammed"} : Drop(f, to) /\ (Leave(f) \/ Refuse(f))
    BY <1>2 DEF BrokenOff, ApplyFails, Refuse
  <2>2. QED
    BY <2>1, DropFacts
<1>3. ASSUME Checksum(f), ~Refuse(f)
      PROVE  OverlapsKnown' /\ FileIsHashed'
  <2>1. /\ pc[f] = "sum" /\ hash[f] = "whole" /\ pc' = [pc EXCEPT ![f] = "sig"]
        /\ UNCHANGED <<want, hash, fileVars>>
    BY <1>3 DEF Checksum
  <2>2. Reliable(f) => Reliable(f)'
    BY <2>1 DEF Reliable, UpdateInv, FlowType, fileVars
  <2>3. QED
    BY <2>1, <2>2, HoldsFacts DEF InHand
<1>4. ASSUME Signature(f) \/ Announce(f), ~Refuse(f)
      PROVE  OverlapsKnown' /\ FileIsHashed'
  <2>1. pc[f] \in {"sig", "good"} /\ UNCHANGED <<want, hash, fileVars>>
    BY <1>4 DEF Signature, Announce
  <2>2. CASE pc' = pc
    BY <2>1, <2>2, StillFacts
  <2>3. ASSUME NEW to \in {"good", "swap"}, pc' = [pc EXCEPT ![f] = to]
        PROVE  OverlapsKnown' /\ FileIsHashed'
    <3>1. Reliable(f) => Reliable(f)'
      BY <2>1, <2>3 DEF Reliable, UpdateInv, FlowType, fileVars
    <3>2. QED
      BY <2>1, <2>3, <3>1, HoldsFacts DEF InHand
  <2>4. QED
    BY <1>4, <2>2, <2>3 DEF Signature, Announce
<1>5. QED
  BY <1>1, <1>2, <1>3, <1>4 DEF Download

\* The steps of the window and of the dialogs.
LEMMA WindowStep ==
    ASSUME UpdateInv, Window \/ OpenDialog
                      \/ \E d \in Dialog : User(d) \/ DialogChecked(d) \/ EndsUnheard(d)
    PROVE  OverlapsKnown' /\ FileIsHashed'
<1> USE FlowFacts DEF appVars, flowVars
<1>1. CASE CheckTimer \/ Checked
  BY <1>1, StillFacts DEF CheckTimer, Checked
<1>2. CASE OpenDialog
  <2>1. New \in Flow /\ pc' = [pc EXCEPT ![New] = "asks"] /\ UNCHANGED <<want, hash, fileVars>>
    BY <1>2 DEF OpenDialog
  <2>2. QED
    BY <2>1, EmptyHandFacts DEF InHand, UpdateInv, FlowType
<1>3. CASE Offered
  <2>1. CASE UNCHANGED <<pc, want>>
    BY <1>3, <2>1, StillFacts DEF Offered
  <2>2. CASE ~UNCHANGED <<pc, want>>
    <3>1. /\ New \in Flow /\ pc' = [pc EXCEPT ![New] = "offer"]
          /\ want' = [want EXCEPT ![New] = check] /\ UNCHANGED <<hash, fileVars>>
      BY <1>3, <2>2 DEF Offered
    <3>2. QED
      BY <3>1, EmptyHandFacts DEF InHand, UpdateInv, FlowType
  <2>3. QED
    BY <2>1, <2>2
<1>4. CASE SilentStarts
  <2>1. check \in Version
    BY <1>4 DEF SilentStarts, UpdateInv, FlowType
  <2>2. QED
    BY <1>4, <2>1, OpenFacts DEF SilentStarts
<1>5. CASE Failed
  BY <1>5, DropFacts DEF Failed
<1>6. ASSUME NEW d \in Dialog, Accept(d)
      PROVE  OverlapsKnown' /\ FileIsHashed'
  <2>1. d \in Flow /\ want[d] \in Version /\ want' = [want EXCEPT ![d] = want[d]]
    BY <1>6 DEF Accept, UpdateInv, FlowType
  <2>2. QED
    BY <1>6, <2>1, OpenFacts DEF Accept
<1>7. ASSUME NEW d \in Dialog, CloseDialog(d) \/ EndsUnheard(d)
      PROVE  OverlapsKnown' /\ FileIsHashed'
  BY <1>7, DropFacts DEF CloseDialog, EndsUnheard
<1>8. ASSUME NEW d \in Dialog, LeaveDownload(d)
      PROVE  OverlapsKnown' /\ FileIsHashed'
  BY <1>8, StillFacts DEF LeaveDownload
<1>9. ASSUME NEW d \in Dialog, DialogChecked(d)
      PROVE  OverlapsKnown' /\ FileIsHashed'
  <2>1. PICK v \in Answer :
            /\ pc' = [pc EXCEPT ![d] = IF v = None THEN "bad" ELSE "offer"]
            /\ want' = [want EXCEPT ![d] = IF v = None THEN @ ELSE v]
    BY <1>9 DEF DialogChecked
  <2>2. d \in Flow /\ UNCHANGED <<hash, fileVars>>
    BY <1>9 DEF DialogChecked
  <2>3. QED
    BY <2>1, <2>2, EmptyHandFacts DEF InHand, UpdateInv, FlowType
<1>10. QED
  BY <1>1, <1>2, <1>3, <1>4, <1>5, <1>6, <1>7, <1>8, <1>9 DEF Window, User

\* The install folder, the requests left and the script keep their types.
LEMMA FolderStep ==
    ASSUME FlowType, FolderType, [UDNext]_udVars
    PROVE  FolderType'
<1> USE BoundFacts, FlowFacts DEF FlowType, FolderType, appVars, flowVars, fileVars
<1>1. CASE Publish \/ OpenDialog \/ CheckTimer \/ Checked \/ Offered \/ UNCHANGED udVars
  BY <1>1 DEF Publish, OpenDialog, CheckTimer, Checked, Offered, udVars
<1>2. CASE SilentStarts
  BY <1>2 DEF SilentStarts, Open, Others
<1>3. ASSUME NEW f \in Flow, NEW to \in {"idle", "bad", "jammed"}, Drop(f, to),
             Leave(f) \/ Refuse(f), UNCHANGED <<auto, app, ver, files, script>>,
             inProgress' \in BOOLEAN, gone' \subseteq Dialog
      PROVE  FolderType'
  <2>1. tries' \in [Flow -> 0 .. MaxTries]
    BY <1>3 DEF Drop
  <2>2. disturbed' \subseteq Flow
    BY <1>3 DEF Leave, Refuse, Others
  <2>3. QED
    BY <1>3, <2>1, <2>2
<1>4. CASE Failed
  BY <1>3, <1>4 DEF Failed
<1>5. ASSUME NEW d \in Dialog, CloseDialog(d) \/ EndsUnheard(d)
      PROVE  FolderType'
  <2>1. CASE CloseDialog(d)
    BY <2>1, <1>3 DEF CloseDialog
  <2>2. CASE EndsUnheard(d)
    BY <2>2, <1>3 DEF EndsUnheard
  <2>3. QED
    BY <1>5, <2>1, <2>2
<1>6. ASSUME NEW d \in Dialog, Accept(d)
      PROVE  FolderType'
  BY <1>6 DEF Accept, Open, Others
<1>7. ASSUME NEW d \in Dialog, LeaveDownload(d) \/ DialogChecked(d)
      PROVE  FolderType'
  BY <1>7 DEF LeaveDownload, DialogChecked
<1>8. CASE Quit
  BY <1>8 DEF Quit, Ended
<1>9. CASE Copy
  <2>1. script \in [of : Version, left : 1 .. MaxTries]
    BY <1>9 DEF Copy
  <2>2. PICK S \in SUBSET File :
            /\ files' = [f \in File |-> IF f \in S THEN script.of ELSE files[f]]
            /\ IF S = File \/ script.left = 1
               THEN Launch
               ELSE script' = [script EXCEPT !.left = @ - 1] /\ UNCHANGED <<app, ver>>
    BY <1>9 DEF Copy
  <2>3. files' \in [File -> Version] /\ "exe" \in File
    BY <2>1, <2>2 DEF File
  <2>4. app' \in {"run", "off", "quit"} /\ ver' \in Version
    BY <2>2, <2>3 DEF Launch
  <2>5. script' \in [of : Version, left : 1 .. MaxTries] \cup {None}
    <3>1. CASE Launch
      BY <3>1 DEF Launch
    <3>2. CASE ~(S = File \/ script.left = 1)
      <4>1. script' = [script EXCEPT !.left = @ - 1]
        BY <2>2, <3>2
      <4>2. script.left - 1 \in 1 .. MaxTries
        BY <2>1, <3>2
      <4>3. QED
        BY <2>1, <4>1, <4>2
    <3>3. QED
      BY <2>2, <3>1, <3>2
  <2>6. QED
    BY <1>9, <2>3, <2>4, <2>5 DEF Copy
<1>10. ASSUME NEW f \in Flow, BrokenOff(f) \/ ApplyFails(f)
       PROVE  FolderType'
  BY <1>3, <1>10 DEF BrokenOff, ApplyFails
<1>11. ASSUME NEW f \in Flow, Received(f) \/ Announce(f)
       PROVE  FolderType'
  BY <1>11 DEF Received, Announce
<1>12. ASSUME NEW f \in Flow, Checksum(f) \/ Signature(f)
       PROVE  FolderType'
  <2>1. UNCHANGED <<auto, app, ver, files, script, inProgress, gone>>
    BY <1>12 DEF Checksum, Signature
  <2>2. CASE Refuse(f)
    BY <1>3, <2>1, <2>2 DEF Refuse
  <2>3. CASE ~Refuse(f)
    <3>1. \/ tries' = tries \/ tries' = [tries EXCEPT ![f] = MaxTries]
          \/ tries[f] > 1 /\ tries' = [tries EXCEPT ![f] = @ - 1]
      BY <1>12, <2>3 DEF Checksum, Signature
    <3>2. UNCHANGED disturbed
      BY <1>12, <2>3 DEF Checksum, Signature
    <3>3. QED
      BY <2>1, <3>1, <3>2
  <2>4. QED
    BY <2>2, <2>3
<1>13. ASSUME NEW f \in Flow, Apply(f)
       PROVE  FolderType'
  BY <1>13 DEF Apply, Ended
<1>14. QED
  BY <1>1, <1>2, <1>4, <1>5, <1>6, <1>7, <1>8, <1>9, <1>10, <1>11, <1>12, <1>13
     DEF UDNext, User, Window, Download, Swap

\* The invariant holds in every state of every run of the updater.
THEOREM UpdateInvariance == UDSpec => []UpdateInv
<1>1. UDInit => UpdateInv
  BY UpdateInit
<1>2. UpdateInv /\ [UDNext]_udVars => UpdateInv'
  <2> SUFFICES ASSUME UpdateInv, [UDNext]_udVars
               PROVE  UpdateInv'
    OBVIOUS
  <2>1. FlowType' /\ OneSilentUpdate'
    BY UpdateTypeStep, SilentStep
  <2>2. CASE Publish \/ Copy \/ UNCHANGED udVars
    <3>1. UNCHANGED <<pc, want, hash, fileVars>>
      BY <2>2 DEF Publish, Copy, udVars, flowVars
    <3>2. QED
      BY <2>1, <3>1, StillFacts DEF UpdateInv
  <2>3. ASSUME NEW f \in Flow, Download(f) \/ Announce(f) \/ ApplyFails(f)
        PROVE  UpdateInv'
    BY <2>1, <2>3, DownloadStep DEF UpdateInv
  <2>4. CASE Window \/ OpenDialog \/ \E d \in Dialog : User(d) \/ DialogChecked(d) \/ EndsUnheard(d)
    BY <2>1, <2>4, WindowStep DEF UpdateInv
  <2>5. CASE Quit \/ \E f \in Flow : Apply(f)
    <3>1. Ended /\ UNCHANGED latest
      BY <2>5 DEF Quit, Apply
    <3>2. QED
      BY <3>1, EndedFacts DEF UpdateInv, FlowType
  <2>6. QED
    BY <2>2, <2>3, <2>4, <2>5 DEF UDNext, Swap
<1>3. QED
  BY <1>1, <1>2, PTL DEF UDSpec

\* SwapsWhatItChecked of Updater, for any number of dialogs: a flow whose file no other flow opened,
\* wrote or deleted while it had it in hand is about to swap in an archive that arrived whole and
\* passed the checksum, whatever abandoned downloads and flows of other releases do meanwhile.
THEOREM UpdateIsWhole == UDSpec => []SwapsWhatItChecked
<1>1. UpdateInv => SwapsWhatItChecked
  BY DEF UpdateInv, FileIsHashed, Reliable, InHand, SwapsWhatItChecked
<1>2. QED
  BY <1>1, UpdateInvariance, PTL

\* _update_in_progress (gui/app.py 2575-2610): whenever a check finds a release, no silent update
\* is under way, so on_available never starts a second one; and the flag never stays up after its
\* flow has ended, so no failure that the flow reports keeps later updates away.
THEOREM SilentUpdatesAlone == UDSpec => []OneSilentUpdate
<1>1. UpdateInv => OneSilentUpdate
  BY DEF UpdateInv
<1>2. QED
  BY <1>1, UpdateInvariance, PTL

\* The install folder, the running program and the script keep their types.
LEMMA FolderKept == UDSpec => []FolderType
<1>1. UDInit => FolderType
  <2> SUFFICES ASSUME UDInit
               PROVE  FolderType
    OBVIOUS
  <2>1. ver \in Version /\ files \in [File -> Version] /\ tries \in [Flow -> 0 .. MaxTries]
    BY BoundFacts DEF UDInit
  <2>2. QED
    BY <2>1 DEF UDInit, FolderType
<1>2. UpdateInv /\ FolderType /\ [UDNext]_udVars => FolderType'
  BY FolderStep DEF UpdateInv
<1>3. QED
  BY <1>1, <1>2, UpdateInvariance, PTL DEF UDSpec

\* Every variable of the updater keeps its type: the program that the script starts is one of
\* the releases, and no flow asks for the signature more often than it may.
THEOREM UpdaterTypes == UDSpec => []UDTypeOK
<1>1. UpdateInv /\ FolderType => UDTypeOK
  BY DEF UpdateInv, FlowType, FolderType, UDTypeOK
<1>2. QED
  BY <1>1, UpdateInvariance, FolderKept, PTL

\* Who left for an update has a script that will start the program again, and nobody else has;
\* a program no script is at work on is the executable in the folder.
LeftWithScript ==
    /\ app = "off" <=> script # None
    /\ script = None => ver = files["exe"]

\* updater.py 318, "the app never just vanishes": no sequence of failed copies, quits and releases
\* leaves the program off without the script that starts it, and what it starts says the version
\* of the executable that was copied.
THEOREM NeverLost == UDSpec => []LeftWithScript
<1>1. UDInit => LeftWithScript
  BY DEF UDInit, LeftWithScript, File
<1>2. UpdateInv /\ FolderType /\ LeftWithScript /\ [UDNext]_udVars => LeftWithScript'
  <2> SUFFICES ASSUME UpdateInv, FolderType, LeftWithScript, [UDNext]_udVars
               PROVE  LeftWithScript'
    OBVIOUS
  <2>1. None \notin [of : Version, left : 1 .. MaxTries]
    BY UpdaterAssumption DEF Version
  <2>2. CASE Copy
    <3>1. app = "off" /\ "exe" \in File
      BY <2>2 DEF Copy, LeftWithScript, File
    <3>2. PICK S \in SUBSET File :
              /\ files' = [f \in File |-> IF f \in S THEN script.of ELSE files[f]]
              /\ IF S = File \/ script.left = 1
                 THEN Launch
                 ELSE script' = [script EXCEPT !.left = @ - 1] /\ UNCHANGED <<app, ver>>
      BY <2>2 DEF Copy
    <3>3. CASE Launch
      BY <3>3 DEF Launch, LeftWithScript
    <3>4. CASE ~Launch
      <4>1. script' = [script EXCEPT !.left = @ - 1] /\ UNCHANGED <<app, ver>>
        BY <3>2, <3>4
      <4>2. script \in [of : Version, left : 1 .. MaxTries]
        BY <2>2 DEF Copy, FolderType
      <4>3. script.left # 1
        BY <3>2, <3>4
      <4>4. script' \in [of : Version, left : 1 .. MaxTries]
        BY <4>1, <4>2, <4>3, UpdaterAssumption
      <4>5. QED
        BY <2>1, <3>1, <4>1, <4>4 DEF LeftWithScript
    <3>5. QED
      BY <3>3, <3>4
  <2>3. ASSUME NEW f \in Flow, Apply(f)
        PROVE  LeftWithScript'
    <3>1. want[f] \in Version /\ MaxTries \in 1 .. MaxTries
      BY BoundFacts DEF UpdateInv, FlowType
    <3>2. script' = [of |-> want[f], left |-> MaxTries] /\ app' = "off"
      BY <2>3 DEF Apply
    <3>3. script' # None
      BY <2>1, <3>1, <3>2
    <3>4. QED
      BY <3>2, <3>3 DEF LeftWithScript
  <2>4. CASE Quit
    BY <2>4 DEF Quit, LeftWithScript
  <2>5. CASE UNCHANGED <<app, ver, files, script>>
    BY <2>5 DEF LeftWithScript
  <2>6. QED
    BY <2>2, <2>3, <2>4, <2>5
       DEF UDNext, User, Window, Download, Swap, Publish, OpenDialog, Accept, CloseDialog,
           LeaveDownload, EndsUnheard, CheckTimer, Checked, SilentStarts, Offered, DialogChecked,
           Failed, Received, BrokenOff, Checksum, Signature, Announce, ApplyFails, appVars, udVars
<1>3. QED
  BY <1>1, <1>2, UpdateInvariance, FolderKept, PTL DEF UDSpec
=============================================================================
