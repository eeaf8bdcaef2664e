----------------------------- MODULE ScanDialog -----------------------------
(***************************************************************************)
(* Adding cameras: the scan dialog (gui/scan_dialog.py), the scan threads  *)
(* it starts (scan of services/discovery_service.py over discovery/        *)
(* onvif.py), the form for a single camera (gui/add_dialog.py), the chains *)
(* of background registrations of both (register_camera over the requests  *)
(* of backend_client.py), and the list of the main window that is to show  *)
(* the result, with the threads that bring it in line with the backend     *)
(* (refresh_cameras of gui/app.py over reconcile_with_backend).            *)
(*                                                                         *)
(* The window's thread runs one callback at a time; threads post to it     *)
(* with after(0, ...), which arrives in order, but any time later.  A      *)
(* camera is its IP address: a record without one counts as no record.  A  *)
(* row of the table is known by its place and the generation of the table: *)
(* a scan destroys the rows of the one before.  Nobody deletes a camera.   *)
(***************************************************************************)
EXTENDS Integers, Sequences, FiniteSets

CONSTANTS
    Host,        \* the cameras on the network
    MaxScans,    \* bound: how often the table is filled
    MaxPasses,   \* bound: how many registrations the user starts
    MaxAnswers,  \* device addresses a camera announces over ONVIF
    Reconciler,  \* bound: the threads that run reconcile_with_backend
    Stray        \* cameras the backend has already, without an address here

ASSUME BoundsAssumption == {MaxScans, MaxPasses, MaxAnswers} \subseteq Nat \ {0}
ASSUME StrayAssumption  == Stray \subseteq Host

VARIABLES
    file,      \* cameras in the state file, with their address
    created,   \* cameras created at the backend, with their number
    shown,     \* cameras in the list of the main window
    win,       \* the dialog: open, closing after 1.2 s, closed
    form,      \* the form: closed, its button on, its button off
    gen,       \* the number of the scan that the table belongs to
    rows,      \* the table: a camera and what its status says
    registerOn, rescanOn, \* the buttons
    failed,    \* _reg_failures is not 0
    scan,      \* where each scan thread is
    cancelled, \* scans whose event is set
    known,     \* known_ips of each scan
    seen,      \* by_ip of each scan
    mail,      \* rows each scan has posted to the window
    pass,      \* the registrations, a sequence of chains
    rec,       \* where each reconcile is
    kept,      \* the cameras it is going to keep
    blank,     \* cameras the file has without their address, and may get once more with it
    asked,     \* history: cameras of the dialog's last chain, but for those that a reconcile has
               \* taken off the file or the list since
    lost,      \* history: how often the backend had a camera whose address the file lost or never got
    hasty      \* history: a chain was started, or the table emptied, in spite of a running chain

store   == <<file, created, shown>>
buttons == <<registerOn, rescanOn>>
table   == <<gen, rows>>
scans   == <<scan, cancelled, known, seen, mail>>
sync    == <<rec, kept, blank>>
hist    == <<asked, hasty>>
vars    == <<store, win, form, table, buttons, failed, scans, pass, sync, lost, hist>>

Scan == 1 .. MaxScans
Look == {"new", "busy", "ok", "bad"}
Row  == [host : Host, look : Look]

\* A chain: the rows it still has to register, and where its thread is.  Generation 0 is a chain
\* of the form, with one camera.
Item  == [place : Nat, host : Host]
Chain == [gen : 0 .. MaxScans, todo : Seq(Item),
          pc : {"resolve", "create", "append", "ok", "bad", "over"}]

TypeOK ==
    /\ file \subseteq Host /\ shown \subseteq Host /\ created \in [Host -> Nat]
    /\ win \in {"open", "closing", "closed"} /\ form \in {"closed", "idle", "busy"}
    /\ gen \in Scan /\ rows \in Seq(Row)
    /\ registerOn \in BOOLEAN /\ rescanOn \in BOOLEAN /\ failed \in BOOLEAN /\ hasty \in BOOLEAN
    /\ scan \in [Scan -> {"none", "load", "onvif", "sweep", "done", "over"}]
    /\ cancelled \subseteq Scan
    /\ known \in [Scan -> SUBSET Host] /\ seen \in [Scan -> SUBSET Host]
    /\ mail \in [Scan -> [Host -> 0 .. MaxAnswers]]
    /\ pass \in Seq(Chain) /\ asked \subseteq Host /\ lost \in [Host -> Nat]
    /\ rec \in [Reconciler -> {"new", "load", "fetch", "paint", "over"}]
    /\ kept \in [Reconciler -> SUBSET Host] /\ blank \subseteq Host

\* The user has opened the dialog; it starts the first scan.  The window's own start may not be
\* through with its reconcile, and the backend may have cameras that were registered from
\* another computer, or were lost here.
Init ==
    /\ file \in SUBSET Host /\ shown = file
    /\ lost = [h \in Host |-> IF h \in Stray THEN 1 ELSE 0]
    /\ created = [h \in Host |-> lost[h] + IF h \in file THEN 1 ELSE 0]
    /\ rec \in [Reconciler -> {"new", "load"}]
    /\ kept = [r \in Reconciler |-> {}] /\ blank = {}
    /\ win = "open" /\ form = "closed" /\ gen = 1 /\ rows = <<>>
    /\ registerOn = FALSE /\ rescanOn = FALSE /\ failed = FALSE
    /\ scan = [s \in Scan |-> IF s = 1 THEN "load" ELSE "none"]
    /\ cancelled = {}
    /\ known = [s \in Scan |-> {}] /\ seen = [s \in Scan |-> {}]
    /\ mail = [s \in Scan |-> [h \in Host |-> 0]]
    /\ pass = <<>>
    /\ asked = {} /\ hasty = FALSE

(***************************************************************************)
(* The scan threads                                                        *)
(***************************************************************************)

Goto(s, from, to) == scan[s] = from /\ scan' = [scan EXCEPT ![s] = to]
ScanRest == <<store, win, form, table, buttons, failed, cancelled, pass, sync, lost, hist>>

\* scan reads the cameras that are registered by now.
ScanLoads(s) ==
    /\ Goto(s, "load", "onvif")
    /\ known' = [known EXCEPT ![s] = file]
    /\ UNCHANGED <<seen, mail, ScanRest>>

\* discover asks on every interface and returns one device per announced address.
Answers == [Host -> 0 .. MaxAnswers]

\* Each device is posted as a row to an open dialog, unless its camera is registered.  A
\* cancelled scan ends here.
Discovered(s) ==
    /\ scan[s] = "onvif"
    /\ scan' = [scan EXCEPT ![s] = IF s \in cancelled THEN "done" ELSE "sweep"]
    /\ \E answers \in Answers :
          /\ mail' = [mail EXCEPT ![s] = [h \in Host |->
                           IF h \in known[s] \/ win = "closed" THEN 0 ELSE answers[h]]]
          /\ IF s \in cancelled
               THEN known' = [known EXCEPT ![s] = {}] /\ UNCHANGED seen
               ELSE seen' = [seen EXCEPT ![s] = {h \in Host : answers[h] > 0}] /\ UNCHANGED known
    /\ UNCHANGED ScanRest

\* The sweep of port 554 finds a host that ONVIF has not found.
SweepFinds(s) ==
    /\ scan[s] = "sweep" /\ s \notin cancelled
    /\ \E h \in Host \ seen[s] :
          /\ seen' = [seen EXCEPT ![s] = @ \cup {h}]
          /\ mail' = IF h \in known[s] THEN mail ELSE [mail EXCEPT ![s][h] = @ + 1]
    /\ UNCHANGED <<scan, known, ScanRest>>

\* The hosts are through, or the scan was cancelled.  Its thread is at its end.
SweepEnds(s) ==
    /\ Goto(s, "sweep", "done")
    /\ known' = [known EXCEPT ![s] = {}] /\ seen' = [seen EXCEPT ![s] = {}]
    /\ UNCHANGED <<mail, ScanRest>>

(***************************************************************************)
(* Callbacks of the scans in the window                                    *)
(***************************************************************************)

\* _add_row_live, whichever scan has found the camera.
RowArrives(s, h) ==
    /\ mail[s][h] > 0 /\ win # "closed"
    /\ mail' = [mail EXCEPT ![s][h] = @ - 1]
    /\ rows' = Append(rows, [host |-> h, look |-> "new"]) /\ registerOn' = TRUE
    /\ UNCHANGED <<store, win, form, gen, rescanOn, failed, scan, cancelled, known, seen, pass,
                   sync, lost, hist>>

\* done of the scan comes after its rows, and allows the next one.
ScanOver(s) ==
    /\ Goto(s, "done", "over")
    /\ \A h \in Host : mail[s][h] = 0
    /\ rescanOn' = (rescanOn \/ win # "closed")
    /\ UNCHANGED <<store, win, form, table, registerOn, failed, cancelled, known, seen, mail, pass,
                   sync, lost, hist>>

(***************************************************************************)
(* The registrations                                                       *)
(***************************************************************************)

PassRest == <<shown, win, form, table, buttons, failed, scans, sync, hist>>

Of(p) == Head(pass[p].todo).host

\* Cameras that the backend has just got, and the file not yet.
Appending == {Of(p) : p \in {q \in DOMAIN pass : pass[q].pc = "append"}}

\* Faulty: a camera that is in the file by now is registered again.
ResolveBlindly(p) ==
    /\ pass[p].pc = "resolve"
    /\ \E to \in {"create", "bad"} : pass' = [pass EXCEPT ![p].pc = to]
    /\ UNCHANGED <<file, created, lost, PassRest>>

\* register_camera refuses a camera that is in the file by now, and may refuse any other: the
\* probe fails, or the codec is none of H.264 and H.265.
Verdicts(p) == IF Of(p) \in file THEN {"bad"} ELSE {"create", "bad"}

\* resolve_stream or the probes of the form, and the first half of register_camera.
Resolve(p) ==
    /\ pass[p].pc = "resolve"
    /\ \E to \in Verdicts(p) : pass' = [pass EXCEPT ![p].pc = to]
    /\ UNCHANGED <<file, created, lost, PassRest>>

\* agent_register_camera, whose answer the chain waits for ...
Create(p) ==
    /\ pass[p].pc = "create"
    /\ created' = [created EXCEPT ![Of(p)] = @ + 1]
    /\ pass' = [pass EXCEPT ![p].pc = "append"]
    /\ UNCHANGED <<file, lost, PassRest>>

\* ... and mutate_state, which appends the record to what the file has by then ...
AppendRecord(p) ==
    /\ pass[p].pc = "append"
    /\ file' = file \cup {Of(p)}
    /\ pass' = [pass EXCEPT ![p].pc = "ok"]
    /\ UNCHANGED <<created, lost, PassRest>>

\* ... or the request fails and is not repeated: refused or never sent, or carried out by a
\* backend whose answer does not arrive in time.
CreateFails(p) ==
    /\ pass[p].pc = "create"
    /\ pass' = [pass EXCEPT ![p].pc = "bad"]
    /\ \E done \in {0, 1} :
          /\ created' = [created EXCEPT ![Of(p)] = @ + done]
          /\ lost' = [lost EXCEPT ![Of(p)] = @ + done]
    /\ UNCHANGED <<file, PassRest>>

(***************************************************************************)
(* Callbacks of the registrations                                          *)
(***************************************************************************)

Painted(p) == [rows EXCEPT ![Head(pass[p].todo).place].look = pass[p].pc]
DoneRest == <<file, created, form, gen, scans, kept, blank, lost, hist>>

\* refresh_cameras lists what the file has, and starts a thread that reconciles it with the
\* backend.
RefreshCameras ==
    /\ shown' = file
    /\ \/ \E r \in Reconciler : rec[r] = "new" /\ rec' = [rec EXCEPT ![r] = "load"]
       \/ (\A r \in Reconciler : rec[r] # "new") /\ UNCHANGED rec

\* The rows of an older table are gone: painting one raises, after the failure was counted,
\* and the chain ends.  A closed dialog is not called at all.
RowGone(p) ==
    /\ pass[p].pc \in {"ok", "bad"} /\ pass[p].gen # 0
    /\ win = "closed" \/ pass[p].gen # gen
    /\ failed' = (failed \/ (pass[p].pc = "bad" /\ win # "closed"))
    /\ pass' = [pass EXCEPT ![p].pc = "over", ![p].todo = <<>>]
    /\ UNCHANGED <<shown, rec, win, rows, buttons, DoneRest>>

\* The row is painted, a failure counted, and the next row begins.
RowDone(p) ==
    /\ pass[p].pc \in {"ok", "bad"} /\ win # "closed" /\ pass[p].gen = gen
    /\ Len(pass[p].todo) > 1
    /\ failed' = (failed \/ pass[p].pc = "bad")
    /\ rows' = [Painted(p) EXCEPT ![pass[p].todo[2].place].look = "busy"]
    /\ pass' = [pass EXCEPT ![p].pc = "resolve", ![p].todo = Tail(@)]
    /\ UNCHANGED <<shown, rec, win, buttons, DoneRest>>

\* Faulty: the last row decides alone whether the dialog closes.
LastDecides(p) ==
    /\ pass[p].pc \in {"ok", "bad"} /\ win # "closed" /\ pass[p].gen = gen
    /\ Len(pass[p].todo) = 1
    /\ failed' = (pass[p].pc = "bad")
    /\ rows' = Painted(p)
    /\ pass' = [pass EXCEPT ![p].pc = "over", ![p].todo = <<>>]
    /\ RefreshCameras
    /\ IF failed'
         THEN registerOn' = TRUE /\ rescanOn' = TRUE /\ UNCHANGED win
         ELSE win' = "closing" /\ UNCHANGED buttons
    /\ UNCHANGED DoneRest

\* After the last row on_done refreshes the list of the main window.  Without a failure the
\* dialog is going to close, otherwise it allows another try.
LastDone(p) ==
    /\ pass[p].pc \in {"ok", "bad"} /\ win # "closed" /\ pass[p].gen = gen
    /\ Len(pass[p].todo) = 1
    /\ failed' = (failed \/ pass[p].pc = "bad")
    /\ rows' = Painted(p)
    /\ pass' = [pass EXCEPT ![p].pc = "over", ![p].todo = <<>>]
    /\ RefreshCameras
    /\ IF failed'
         THEN registerOn' = TRUE /\ rescanOn' = TRUE /\ UNCHANGED win
         ELSE win' = "closing" /\ UNCHANGED buttons
    /\ UNCHANGED DoneRest

(***************************************************************************)
(* The form for a single camera                                            *)
(***************************************************************************)

\* A chain runs, or one has ended so well that the dialog is about to close.
Busy == win = "closing" \/ \E p \in DOMAIN pass : pass[p].pc # "over"

FormRest == <<file, created, win, table, buttons, failed, scans, kept, blank, lost>>

\* The chain that the open form waits for: one of a form before is not waited for.
Awaited(p) ==
    /\ pass[p].gen = 0 /\ form = "busy"
    /\ \A q \in DOMAIN pass : q > p => pass[q].gen # 0

\* Every dialog grabs the input, so the form opens after the scan dialog has closed.
OpenForm ==
    /\ win = "closed" /\ form = "closed" /\ form' = "idle"
    /\ UNCHANGED <<shown, rec, pass, hist, FormRest>>

\* The refresh button, when no dialog grabs the input.
RefreshButton ==
    /\ win = "closed" /\ form = "closed"
    /\ RefreshCameras
    /\ UNCHANGED <<form, pass, hist, FormRest>>

\* _submit: a chain over the camera that the user has typed in.
Submit ==
    /\ form = "idle" /\ Len(pass) < MaxPasses /\ form' = "busy"
    /\ \E h \in Host :
          pass' = Append(pass, [gen |-> 0, pc |-> "resolve",
                                todo |-> <<[place |-> 0, host |-> h]>>])
    /\ hasty' = (hasty \/ Busy)
    /\ UNCHANGED <<shown, rec, asked, FormRest>>

\* done: the button is back; a success refreshes the list, and closes the form 1.2 s later.
\* A form that is gone is not called.
FormDone(p) ==
    /\ pass[p].pc \in {"ok", "bad"} /\ pass[p].gen = 0
    /\ pass' = [pass EXCEPT ![p].pc = "over", ![p].todo = <<>>]
    /\ form' = IF Awaited(p) THEN "idle" ELSE form
    /\ IF Awaited(p) /\ pass[p].pc = "ok" THEN RefreshCameras ELSE UNCHANGED <<shown, rec>>
    /\ UNCHANGED <<hist, FormRest>>

\* The user closes the form, or it closes itself.
CloseForm ==
    /\ form # "closed" /\ form' = "closed"
    /\ UNCHANGED <<shown, rec, pass, hist, FormRest>>

(***************************************************************************)
(* The user of the scan dialog                                             *)
(***************************************************************************)

\* The picked rows from the top of the table to its bottom.
InOrder(picked) ==
    {order \in [1 .. Cardinality(picked) -> picked] :
        /\ picked = {order[i] : i \in DOMAIN order}
        /\ \A i, j \in DOMAIN order : i < j => order[i] < order[j]}

\* _register_selected: a chain over the selected rows.
Register ==
    /\ registerOn /\ win # "closed" /\ Len(pass) < MaxPasses
    /\ \E picked \in (SUBSET DOMAIN rows) \ {{}} : \E order \in InOrder(picked) :
          /\ pass' = Append(pass,
                 [gen |-> gen, pc |-> "resolve",
                  todo |-> [i \in DOMAIN order |-> [place |-> order[i],
                                                    host |-> rows[order[i]].host]]])
          /\ rows' = [rows EXCEPT ![order[1]].look = "busy"]
          /\ asked' = {rows[i].host : i \in picked}
    /\ hasty' = (hasty \/ Busy)
    /\ failed' = FALSE
    /\ registerOn' = FALSE /\ rescanOn' = FALSE
    /\ UNCHANGED <<store, win, form, gen, scans, sync, lost>>

\* _start_scan: the scan before is cancelled, and its table emptied.
Rescan ==
    /\ rescanOn /\ win # "closed" /\ gen < MaxScans
    /\ cancelled' = cancelled \cup {gen}
    /\ gen' = gen + 1 /\ rows' = <<>>
    /\ scan' = [scan EXCEPT ![gen + 1] = "load"]
    /\ registerOn' = FALSE /\ rescanOn' = FALSE
    /\ hasty' = (hasty \/ Busy)
    /\ UNCHANGED <<store, win, form, failed, known, seen, mail, pass, sync, lost, asked>>

\* The user closes the dialog, or 1.2 s after a good end it closes itself; either way destroy
\* cancels the scan, and the table, its buttons and the rows under way to it are gone.
Close ==
    /\ win # "closed" /\ win' = "closed"
    /\ cancelled' = cancelled \cup {gen}
    /\ rows' = <<>> /\ registerOn' = FALSE /\ rescanOn' = FALSE /\ failed' = FALSE
    /\ asked' = {} /\ mail' = [s \in Scan |-> [h \in Host |-> 0]]
    /\ UNCHANGED <<store, form, gen, scan, known, seen, pass, sync, lost, hasty>>

(***************************************************************************)
(* Bringing the file in line with the backend: reconcile_with_backend      *)
(***************************************************************************)

SyncRest == <<created, win, form, table, buttons, failed, scans, pass, hasty>>

\* It reads the file; of two records of one camera it is going to keep the first.
ReconcileLoads(r) ==
    /\ rec[r] = "load" /\ rec' = [rec EXCEPT ![r] = "fetch"]
    /\ kept' = [kept EXCEPT ![r] = file \ blank]
    /\ UNCHANGED <<file, shown, blank, lost, asked, SyncRest>>

\* The backend does not answer, or has nothing new.
ReconcileIdle(r) ==
    /\ rec[r] = "fetch" /\ rec' = [rec EXCEPT ![r] = "over"]
    /\ kept' = [kept EXCEPT ![r] = {}]
    /\ UNCHANGED <<file, shown, blank, lost, asked, SyncRest>>

\* The file gets what it had when it was read, and the other cameras of the backend without an
\* address, those that are about to be appended among them.
ReconcileSaves(r) ==
    /\ rec[r] = "fetch" /\ rec' = [rec EXCEPT ![r] = "paint"]
    /\ file' = kept[r] /\ asked' = asked \ (file \ kept[r])
    /\ blank' \in SUBSET Appending
    /\ lost' = [h \in Host |-> lost[h] + IF h \in file \ kept[r] THEN 1 ELSE 0]
    /\ UNCHANGED <<shown, kept, SyncRest>>

\* _render_camera_list, as the thread has posted it.
ReconcilePaints(r) ==
    /\ rec[r] = "paint" /\ rec' = [rec EXCEPT ![r] = "over"]
    /\ shown' = kept[r] /\ kept' = [kept EXCEPT ![r] = {}]
    /\ asked' = asked \ (shown \ kept[r])
    /\ UNCHANGED <<file, blank, lost, SyncRest>>

(***************************************************************************)
(* The specification                                                       *)
(***************************************************************************)

ScanThread(s) == ScanLoads(s) \/ Discovered(s) \/ SweepEnds(s)
ScanPosts(s)  == ScanOver(s) \/ \E h \in Host : RowArrives(s, h)
PassThread(p) == Resolve(p) \/ Create(p) \/ AppendRecord(p) \/ CreateFails(p)
PassPosts(p)  == RowGone(p) \/ RowDone(p) \/ LastDone(p) \/ FormDone(p)
Reconcile(r)  == ReconcileLoads(r) \/ ReconcileIdle(r) \/ ReconcileSaves(r) \/ ReconcilePaints(r)

Next ==
    \/ \E s \in Scan : ScanThread(s) \/ SweepFinds(s) \/ ScanPosts(s)
    \/ \E p \in DOMAIN pass : PassThread(p) \/ PassPosts(p)
    \/ Register \/ Rescan \/ Close
    \/ OpenForm \/ Submit \/ CloseForm
    \/ RefreshButton \/ \E r \in Reconciler : Reconcile(r)

Spec == Init /\ [][Next]_vars

\* Threads run, the network answers or times out, and callbacks are called.
FairSpec ==
    /\ Spec
    /\ \A s \in Scan : WF_vars(ScanThread(s)) /\ WF_vars(ScanPosts(s))
    /\ \A p \in 1 .. MaxPasses :
          /\ WF_vars(p \in DOMAIN pass /\ PassThread(p))
          /\ WF_vars(p \in DOMAIN pass /\ PassPosts(p))
    /\ \A r \in Reconciler : WF_vars(Reconcile(r))

(***************************************************************************)
(* Properties                                                              *)
(***************************************************************************)

\* discovery_service.py 572-573 and backend_client.py 29-31: one chain at a time, whatever the
\* scans show of a camera, in whichever dialog and however often the user tries, a camera the
\* backend has is created again only when the agent does not know it: its answer was lost, it
\* was registered elsewhere, or a reconcile that overlapped its registration took its
\* address off the file; and once for each.
CreatedOnce == ~hasty => \A h \in Host : created[h] <= 1 + lost[h]

\* scan_dialog.py 303-306: the dialog closes by itself only when "every selected camera
\* registered", and the main window lists them by then, but for those that a reconcile has taken
\* off again since the chain began.
ClosesWhenDone == ~hasty /\ win = "closing" => asked \subseteq file \cap shown

\* scan_dialog.py 303-306 for any user: two chains share the failures.
FailureStaysVisible == win = "closing" => asked \subseteq file

\* discovery_service.py 572-573 for any user: two chains may both pass the check.
NeverTwice == \A h \in Host : created[h] <= 1 + lost[h]

\* backend_client.py 29-31, "a half-applied write must not be replayed": not by the client, but
\* the user who tries again after a lost answer replays it.
NeverReplayed == ~hasty => \A h \in Host \ Stray : created[h] <= 1

\* discovery_service.py 461, "Camera still on the backend -> keep the local record": a reconcile
\* takes the address off one that was registered while it waited for the backend, and off one
\* whose record came when the file already had it without.
KeepsLocalRecords == [][file \subseteq file']_vars

\* discovery_service.py 343: scan "dedups by IP": a camera has one row.
OneRowPerCamera == \A i, j \in DOMAIN rows : rows[i].host = rows[j].host => i = j

\* scan_dialog.py 305-308, "so the error + retry remain visible": a retry does not call a camera
\* a failure that this dialog has registered.
GreenStaysGreen ==
    [][\A i \in DOMAIN rows \cap DOMAIN rows' :
            rows[i].look = "ok" /\ gen' = gen => rows'[i].look # "bad"]_vars

\* scan_dialog.py 110: on_done tells the main window of the cameras: it comes to list them.
ListCatchesUp == <>[](shown = file)
=============================================================================
