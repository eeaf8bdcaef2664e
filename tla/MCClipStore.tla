---------------------------- MODULE MCClipStore ----------------------------
(***************************************************************************)
(* Instances of ClipStore for TLC.                                         *)
(***************************************************************************)
EXTENDS ClipStore, TLC

CONSTANTS w1, w2

\* All workers use the store of their EdgeRuntime.
OneStore == [w \in Worker |-> "runtime"]

\* The headless runtime and the live view run side by side.
TwoStores == [w \in Worker |-> IF w = w1 THEN "runtime" ELSE "liveView"]

\* Clips of different seconds or cameras.
Distinct == [c \in Clip |-> c]

\* The first two clips are of one camera and start within the same second.
SameSecond == [c \in Clip |-> IF c = 2 THEN 1 ELSE c]
=============================================================================
