---------------------------- MODULE MCRetryFence ----------------------------
(* Panes are interchangeable: only what they started or hold tells them apart. *)
EXTENDS RetryFence, TLC

PaneSymmetry == Permutations(Panes)
=============================================================================
