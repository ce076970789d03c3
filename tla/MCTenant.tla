------------------------------- MODULE MCTenant -------------------------------
(***************************************************************************)
(* An instance of Tenant for TLC.                                          *)
(***************************************************************************)
EXTENDS Tenant

CONSTANTS p1, p2, x, n, o

(* Two files for the test; the first has a name the cleanup job looks for. *)
TwoFiles == <<p1, p2>>

(* One other document, and before it one that a run has left behind. *)
TwoOld == <<n, o>>
=============================================================================
