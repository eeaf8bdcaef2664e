---------------------------- MODULE EpisodeBuffer ----------------------------
(***************************************************************************)
(* What EdgeClipRecorder promises of the episodes a camera's decode thread *)
(* hands it: a buffer that drops the oldest.  Episodes are numbered as     *)
(* they come; the worker takes the oldest that waits, one that is dropped  *)
(* makes room for a newer one, and only while the camera closes may the    *)
(* newest one be refused.                                                  *)
(***************************************************************************)
EXTENDS Naturals

VARIABLES
    newest,   \* the last episode that came, 0 before the first
    waiting,  \* the episodes that wait
    taken,    \* the episode the worker took last
    closing   \* the camera closes

vars == <<newest, waiting, taken, closing>>

Init == newest = 0 /\ waiting = {} /\ taken = 0 /\ closing = FALSE

\* The next episode waits, or is refused by a camera that closes.
Enter ==
    /\ newest' = newest + 1
    /\ waiting' = IF closing THEN waiting ELSE waiting \cup {newest'}
    /\ UNCHANGED <<taken, closing>>

Oldest(e) == e \in waiting /\ \A other \in waiting : e <= other

Take ==
    /\ Oldest(taken')
    /\ waiting' = waiting \ {taken'}
    /\ UNCHANGED <<newest, closing>>

\* The oldest gives way to the newest, which waits as well.
Drop ==
    /\ newest \in waiting
    /\ \E e \in waiting \ {newest} : Oldest(e) /\ waiting' = waiting \ {e}
    /\ UNCHANGED <<newest, taken, closing>>

\* The newest was under way when the camera began to close.
Refuse ==
    /\ closing /\ newest \in waiting
    /\ waiting' = waiting \ {newest}
    /\ UNCHANGED <<newest, taken, closing>>

Close == closing' = TRUE /\ UNCHANGED <<newest, waiting, taken>>

Next == Enter \/ Take \/ Drop \/ Refuse \/ Close

Spec == Init /\ [][Next]_vars
=============================================================================
