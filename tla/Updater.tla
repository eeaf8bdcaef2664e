------------------------------ MODULE Updater -------------------------------
(***************************************************************************)
(* The self-update of the packaged agent: updater.py, gui/update_dialog.py *)
(* and the periodic check of gui/app.py.  The silent flow and each dialog  *)
(* may download a release, all to the same file for the same version.  A   *)
(* dialog that is closed meanwhile leaves its thread at work.  The process *)
(* then leaves a batch script that copies the extracted release over the   *)
(* install folder and starts the program again.                            *)
(*                                                                         *)
(* The install folder is two groups of files, the executable (which holds  *)
(* __version__) and the libraries next to it.  Check threads end within    *)
(* seconds and are started a quarter of an hour apart or more, so at most  *)
(* one of them is under way.  That an open dialog grabs the input is       *)
(* modelled for the main window only, not for an older dialog.             *)
(***************************************************************************)
EXTENDS Integers, FiniteSets

CONSTANTS
    None,        \* no check, no script
    Dialog,      \* bound: dialogs, open or with a thread at work
    MaxVersion,  \* bound: releases
    MaxTries,    \* copies the script tries (60), signature requests (3)
    DiskFills    \* extracting a good archive may fail

ASSUME UpdaterAssumption ==
    /\ {MaxVersion, MaxTries} \subseteq Nat \ {0} /\ "auto" \notin Dialog
    /\ DiskFills \in BOOLEAN /\ None \notin Nat /\ None \notin [of : Nat, left : Nat]

VARIABLES
    latest,          \* the newest release GitHub serves
    auto,            \* settings.auto_update
    app, ver,        \* "run", "off" (left for an update) or "quit"; __version__
    files,           \* version of each group of the install folder
    inProgress,      \* _update_in_progress
    check,           \* the silent check: None, 0 while it asks, the version found
    pc, want, tries, \* of a flow: place, info.version, requests left
    hash,            \* of a flow: what it received
    zip, writer,     \* of a version's temp file: content, the last flow to open it
    gone,            \* dialogs that were closed, with a download thread still at work
    disturbed,       \* history: flows whose file another flow wrote or deleted
    script           \* None, or the version being copied and the copies left

appVars  == <<auto, app, ver, files, inProgress, check, script>>
fileVars == <<zip, writer, disturbed>>
flowVars == <<pc, want, tries, hash, gone, fileVars>>
udVars == <<latest, appVars, flowVars>>

Version == 1 .. MaxVersion
Flow    == {"auto"} \cup Dialog
File    == {"exe", "lib"}

UDTypeOK ==
    /\ latest \in Version /\ ver \in Version
    /\ auto \in BOOLEAN /\ inProgress \in BOOLEAN
    /\ app \in {"run", "off", "quit"}
    /\ files \in [File -> Version]
    /\ check \in {None, 0} \cup Version
    /\ pc \in [Flow -> {"idle", "asks", "offer", "get", "sum", "sig", "good", "bad", "swap", "jammed"}]
    /\ want \in [Flow -> Version] /\ tries \in [Flow -> 0 .. MaxTries]
    /\ zip \in [Version -> {"none", "cut", "whole", "spoilt"}]
    /\ writer \in [Version -> Flow \cup {None}] /\ hash \in [Flow -> {"whole", "spoilt"}]
    /\ gone \subseteq Dialog /\ disturbed \subseteq Flow
    /\ script \in [of : Version, left : 0 .. MaxTries] \cup {None}

UDInit ==
    /\ latest \in Version /\ ver = 1 /\ files = [f \in File |-> 1]
    /\ auto \in BOOLEAN /\ app = "run" /\ inProgress = FALSE
    /\ check = None /\ script = None
    /\ pc = [f \in Flow |-> "idle"] /\ want = [f \in Flow |-> 1]
    /\ tries = [f \in Flow |-> 0] /\ hash = [f \in Flow |-> "whole"]
    /\ zip = [v \in Version |-> "none"] /\ writer = [v \in Version |-> None]
    /\ gone = {} /\ disturbed = {}

(* The process ends, its flows with it.  A file left in the temp folder is
   emptied before it is used again. *)
Ended ==
    /\ inProgress' = FALSE /\ check' = None
    /\ pc' = [f \in Flow |-> "idle"] /\ want' = [f \in Flow |-> 1]
    /\ tries' = [f \in Flow |-> 0] /\ hash' = [f \in Flow |-> "whole"]
    /\ zip' = [v \in Version |-> "none"] /\ writer' = [v \in Version |-> None]
    /\ gone' = {} /\ disturbed' = {}

----------------------------------------------------------------------------
(* Looking for a release.                                                   *)

(* A release is published, or the newest one is withdrawn. *)
Publish == latest' \in Version \ {latest} /\ UNCHANGED <<appVars, flowVars>>

(* What check_for_update answers: a newer release with the named asset, or
   None when there is none or the request fails. *)
Answer == {None} \cup {v \in {latest} : v > ver}

CheckTimer ==
    /\ app = "run" /\ ~inProgress /\ check = None
    /\ check' = 0
    /\ UNCHANGED <<latest, auto, app, ver, files, inProgress, script, flowVars>>

Checked ==
    /\ app = "run" /\ check = 0 /\ check' \in Answer
    /\ UNCHANGED <<latest, auto, app, ver, files, inProgress, script, flowVars>>

(* The other flows that work on the temp file of version v, or are about to
   swap it in. *)
InHand(f)    == pc[f] \in {"get", "sum", "sig", "good", "swap"}
Others(f, v) == {g \in Flow \ {f} : InHand(g) /\ want[g] = v}
Writers(f)   == {g \in Others(f, want[f]) : pc[g] = "get"}

(* Opening the temp file for writing empties it; who still writes to it goes
   on where it was. *)
Open(f, v) ==
    /\ zip' = [zip EXCEPT ![v] = "cut"] /\ writer' = [writer EXCEPT ![v] = f]
    /\ disturbed' = (disturbed \ {f}) \cup Others(f, v)
                    \cup {g \in {f} : \E h \in Others(f, v) : pc[h] = "get"}

(* A flow that has failed, or is over, forgets its release; nobody reads what
   it leaves in the temp folder. *)
Drop(f, to) ==
    /\ pc' = [pc EXCEPT ![f] = to] /\ want' = [want EXCEPT ![f] = 1]
    /\ tries' = [tries EXCEPT ![f] = 0] /\ hash' = [hash EXCEPT ![f] = "whole"]

Leave(f) ==
    /\ disturbed' = disturbed \ {f}
    /\ IF Others(f, want[f]) # {}
         THEN UNCHANGED <<zip, writer>>
         ELSE /\ zip' = [zip EXCEPT ![want[f]] = "none"]
              /\ writer' = [writer EXCEPT ![want[f]] = None]

(* on_available runs in the window thread: it starts the silent update, ... *)
SilentStarts ==
    /\ app = "run" /\ check \notin {None, 0} /\ auto
    /\ check' = None /\ inProgress' = TRUE
    /\ pc' = [pc EXCEPT !["auto"] = "get"] /\ want' = [want EXCEPT !["auto"] = check]
    /\ Open("auto", check)
    /\ UNCHANGED <<latest, auto, app, ver, files, script, tries, hash, gone>>

(* The next dialog that opens. *)
Another == \E d \in Dialog : pc[d] = "idle"
New     == CHOOSE d \in Dialog : pc[d] = "idle"

(* ... or opens a dialog that offers the release, whatever is open. *)
Offered ==
    /\ app = "run" /\ check \notin {None, 0} /\ ~auto
    /\ check' = None
    /\ IF Another
         THEN pc' = [pc EXCEPT ![New] = "offer"] /\ want' = [want EXCEPT ![New] = check]
         ELSE UNCHANGED <<pc, want>>
    /\ UNCHANGED <<latest, auto, app, ver, files, inProgress, script, tries, hash, gone, fileVars>>

Shown == \E d \in Dialog : pc[d] # "idle" /\ d \notin gone

(* The button of the main window. *)
OpenDialog ==
    /\ app = "run" /\ ~Shown /\ Another
    /\ pc' = [pc EXCEPT ![New] = "asks"]
    /\ UNCHANGED <<latest, appVars, want, tries, hash, gone, fileVars>>

DialogChecked(d) ==
    /\ app = "run" /\ pc[d] = "asks"
    /\ \E v \in Answer :
         /\ pc' = [pc EXCEPT ![d] = IF v = None THEN "bad" ELSE "offer"]
         /\ want' = [want EXCEPT ![d] = IF v = None THEN @ ELSE v]
    /\ UNCHANGED <<latest, appVars, tries, hash, gone, fileVars>>

(* The user presses «update». *)
Accept(d) ==
    /\ app = "run" /\ pc[d] = "offer"
    /\ pc' = [pc EXCEPT ![d] = "get"]
    /\ Open(d, want[d])
    /\ UNCHANGED <<latest, appVars, want, tries, hash, gone>>

(* A dialog is closed by its title bar at any time.  A callback that is still
   to come raises then, so nothing is swapped in ... *)
CloseDialog(d) ==
    /\ app = "run" /\ d \notin gone
    /\ pc[d] \in {"asks", "offer", "good", "bad", "swap", "jammed"}
    /\ Drop(d, "idle") /\ Leave(d)
    /\ UNCHANGED <<latest, appVars, gone>>

(* ... but the thread of a download goes on writing, and says nothing at its
   end. *)
LeaveDownload(d) ==
    /\ app = "run" /\ d \notin gone /\ pc[d] \in {"get", "sum", "sig"}
    /\ gone' = gone \cup {d}
    /\ UNCHANGED <<latest, appVars, pc, want, tries, hash, fileVars>>

EndsUnheard(d) ==
    /\ app = "run" /\ d \in gone /\ pc[d] \in {"good", "bad"}
    /\ Drop(d, "idle") /\ Leave(d) /\ gone' = gone \ {d}
    /\ UNCHANGED <<latest, appVars>>

----------------------------------------------------------------------------
(* Downloading and verifying: download_asset in a thread of the flow.       *)

(* The body is written and hashed; what arrived may be spoilt.  The last flow
   to open the file wrote it from the start; an earlier one only writes over
   its tail. *)
Received(f) ==
    /\ app = "run" /\ pc[f] = "get"
    /\ \E b \in {"whole", "spoilt"} :
         /\ hash' = [hash EXCEPT ![f] = b]
         /\ zip' = [zip EXCEPT ![want[f]] = IF writer[want[f]] = f \/ b = "spoilt" THEN b ELSE @]
    /\ pc' = [pc EXCEPT ![f] = "sum"]
    /\ UNCHANGED <<latest, appVars, want, tries, gone, writer, disturbed>>

(* The error is raised to the flow, which tells the window thread. *)
BrokenOff(f) ==
    /\ app = "run" /\ pc[f] = "get"
    /\ Drop(f, "bad") /\ Leave(f)
    /\ UNCHANGED <<latest, appVars, gone>>

(* A refusal deletes the download, unless another thread has it open. *)
Refuse(f) ==
    /\ Drop(f, "bad")
    /\ IF Writers(f) # {}
         THEN disturbed' = disturbed \ {f} /\ UNCHANGED <<zip, writer>>
         ELSE /\ zip' = [zip EXCEPT ![want[f]] = "none"]
              /\ writer' = [writer EXCEPT ![want[f]] = None]
              /\ disturbed' = (disturbed \ {f}) \cup Others(f, want[f])

(* Faulty: the digest is not compared. *)
NoHash(f) ==
    /\ app = "run" /\ pc[f] = "sum"
    /\ pc' = [pc EXCEPT ![f] = "sig"] /\ tries' = [tries EXCEPT ![f] = MaxTries]
    /\ UNCHANGED <<latest, appVars, want, hash, gone, fileVars>>

(* The digest is known and matches, or no digest can be had. *)
Checksum(f) ==
    /\ app = "run" /\ pc[f] = "sum"
    /\ \/ /\ hash[f] = "whole"
          /\ pc' = [pc EXCEPT ![f] = "sig"] /\ tries' = [tries EXCEPT ![f] = MaxTries]
          /\ UNCHANGED <<want, hash, fileVars>>
       \/ Refuse(f)
    /\ UNCHANGED <<latest, appVars, gone>>

(* The signature is fetched and verifies, is absent or wrong, or the request
   fails and is repeated a few times. *)
Signature(f) ==
    /\ app = "run" /\ pc[f] = "sig"
    /\ \/ pc' = [pc EXCEPT ![f] = "good"] /\ UNCHANGED <<want, tries, hash, fileVars>>
       \/ Refuse(f)
       \/ /\ tries[f] > 1 /\ tries' = [tries EXCEPT ![f] = @ - 1]
          /\ UNCHANGED <<pc, want, hash, fileVars>>
    /\ UNCHANGED <<latest, appVars, gone>>

(* Faulty: a failed download leaves the flag up. *)
FailKeeps ==
    /\ app = "run" /\ pc["auto"] = "bad"
    /\ Drop("auto", "idle") /\ Leave("auto") /\ UNCHANGED <<latest, appVars, gone>>

(* The silent flow reports a failure: the next check may try again.  The
   dialog shows a link to the installer and waits to be closed. *)
Failed ==
    /\ app = "run" /\ pc["auto"] = "bad"
    /\ Drop("auto", "idle") /\ Leave("auto") /\ inProgress' = FALSE
    /\ UNCHANGED <<latest, auto, app, ver, files, check, script, gone>>

(* A verified download is announced and swapped in a moment later. *)
Announce(f) ==
    /\ app = "run" /\ pc[f] = "good" /\ f \notin gone
    /\ pc' = [pc EXCEPT ![f] = "swap"]
    /\ UNCHANGED <<latest, appVars, want, tries, hash, gone, fileVars>>

----------------------------------------------------------------------------
(* Swapping: apply_update_and_restart, then the script.                     *)

(* The archive is extracted, the script started and the process exits. *)
Apply(f) ==
    /\ app = "run" /\ pc[f] = "swap" /\ zip[want[f]] \in {"whole", "spoilt"}
    /\ app' = "off" /\ script' = [of |-> want[f], left |-> MaxTries]
    /\ Ended /\ UNCHANGED <<latest, auto, ver, files>>

(* The archive cannot be extracted: the error ends the window callback. *)
ApplyFails(f) ==
    /\ app = "run" /\ pc[f] = "swap"
    /\ DiskFills \/ zip[want[f]] # "whole"
    /\ Drop(f, "jammed") /\ Leave(f)
    /\ UNCHANGED <<latest, appVars, gone>>

(* Faulty: a copy that never succeeded starts nothing. *)
GiveUp == app' = (IF files'["exe"] = script.of THEN "run" ELSE "off") /\ script' = None /\ ver' = files'["exe"]

Launch ==
    /\ app' = "run" /\ script' = None /\ ver' = files'["exe"]

(* One robocopy: it replaces the files nobody holds, and is repeated until it
   has replaced them all or the tries are used up; then the program starts. *)
Copy ==
    /\ script # None
    /\ \E S \in SUBSET File :
         /\ files' = [f \in File |-> IF f \in S THEN script.of ELSE files[f]]
         /\ IF S = File \/ script.left = 1
            THEN Launch
            ELSE /\ script' = [script EXCEPT !.left = @ - 1]
                 /\ UNCHANGED <<app, ver>>
    /\ UNCHANGED <<latest, auto, inProgress, check, flowVars>>

(* The user quits: the threads and the timers end with the process. *)
Quit ==
    /\ app = "run" /\ app' = "quit" /\ Ended
    /\ UNCHANGED <<latest, auto, ver, files, script>>

Download(f) == Received(f) \/ BrokenOff(f) \/ Checksum(f) \/ Signature(f)
Swap(f)     == Announce(f) \/ Apply(f) \/ ApplyFails(f)
User(d)     == Accept(d) \/ CloseDialog(d) \/ LeaveDownload(d)
Window      == CheckTimer \/ Checked \/ SilentStarts \/ Offered \/ Failed

UDNext ==
    \/ Publish \/ Window \/ Copy \/ OpenDialog \/ Quit
    \/ \E d \in Dialog : User(d) \/ DialogChecked(d) \/ EndsUnheard(d)
    \/ \E f \in Flow : Download(f) \/ Swap(f)

UDSpec == UDInit /\ [][UDNext]_udVars

(* Timers, the silent flow's thread and the script run; nothing is assumed of
   the user and of the dialogs' threads.  A server that is asked again and again
   sooner or later answers, and answers with the release and its sidecars; now
   and then nobody holds a file of the install folder. *)
UDFairSpec ==
    /\ UDSpec
    /\ WF_udVars(CheckTimer) /\ WF_udVars(SilentStarts \/ Offered) /\ WF_udVars(Failed) /\ WF_udVars(Copy)
    /\ SF_udVars(Copy /\ \A f \in File : files'[f] = script.of)
    /\ SF_udVars(Checked /\ (check' = None => latest <= ver))
    /\ WF_udVars(Swap("auto")) /\ WF_udVars(Download("auto"))
    /\ SF_udVars(Received("auto") /\ hash'["auto"] = "whole")
    /\ SF_udVars(Checksum("auto") /\ pc'["auto"] = "sig")
    /\ SF_udVars(Signature("auto") /\ pc'["auto"] = "good")

----------------------------------------------------------------------------
(* Properties.                                                              *)

(* A program that left for an update runs again, whatever the copies did
   (updater.py:318, "the app never just vanishes"). *)
ComesBack == (app = "off") ~> (app = "run")

(* A flow that is about to swap has a whole archive to swap in, however many
   dialogs and abandoned downloads there are, unless another one opened,
   wrote or deleted the very file while it had it in hand: a download that
   broke off, or does not match its digest, never gets that far, and a flow
   that came before and only checks does no harm (updater.py:227). *)
SwapsWhatItChecked ==
    \A f \in Flow : pc[f] = "swap" /\ f \notin disturbed => zip[want[f]] = "whole"

(* With silent updates on and every dialog closed for good, an agent behind the
   newest release reaches it, unless a swap was lost or the user quits: failed
   checks and downloads are tried again. *)
LeftAlone == <>[](~Shown) /\ [](\A f \in Flow : pc[f] # "jammed")
KeepsUpToDate ==
    LeftAlone => ((auto /\ app = "run" /\ ver < latest) ~> (ver >= latest \/ app = "quit"))

(* A silent update that could not be swapped in does not stop later ones: the
   flag that stops overlapping updates is down again (app.py:2588, "a stuck
   True can't freeze all future updates"). *)
NotStuck == inProgress ~> ~inProgress

(* What starts after an update is one release, not a mixture. *)
OneRelease == app = "run" => files["exe"] = files["lib"]

(* A flow swaps in a file nobody opened since it was verified. *)
NobodyElseWrote == \A f \in Flow : pc[f] = "swap" => writer[want[f]] = f /\ zip[want[f]] = "whole"

=============================================================================
