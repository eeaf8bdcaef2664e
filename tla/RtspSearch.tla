----------------------------- MODULE RtspSearch -----------------------------
(***************************************************************************)
(* What _best_rtsp_path_stream promises: batches of paths are tried one    *)
(* after the other, the first stream that answers wins, and a rejected     *)
(* password ends the search with the batch it was met in.                  *)
(***************************************************************************)
EXTENDS Naturals

CONSTANT Batches  \* how many batches there are

VARIABLES
    batch,     \* the batch being tried
    rejected,  \* the camera has rejected the password
    answer     \* "open", "hit", "auth" or "none"

vars == <<batch, rejected, answer>>

Init == batch = 1 /\ rejected = FALSE /\ answer = "open"

\* The camera rejects a probe; one that was under way may still be rejected after the end.
Reject == rejected' = TRUE /\ UNCHANGED <<batch, answer>>

\* A batch without a stream is followed by the next one, unless the password was rejected.
Advance ==
    /\ answer = "open" /\ ~rejected /\ batch < Batches
    /\ batch' = batch + 1
    /\ UNCHANGED <<rejected, answer>>

Answer ==
    /\ answer = "open"
    /\ \/ answer' \in {"hit", "none"}
       \/ answer' = "auth" /\ rejected
    /\ UNCHANGED <<batch, rejected>>

Next == Reject \/ Advance \/ Answer

Spec == Init /\ [][Next]_vars
=============================================================================
