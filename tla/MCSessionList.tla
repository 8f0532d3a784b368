--------------------------- MODULE MCSessionList ---------------------------
(* Two roots and one child, the smallest index in which a tree can lose its  *)
(* child, its root, or be left for another root's.                           *)
EXTENDS SessionList, TLC

CONSTANTS r1, r2, c1

KidRoots == c1 :> r1
=============================================================================
