------------------------------ MODULE MCLifecycle ------------------------------
(***************************************************************************)
(* A small instance of Lifecycle.                                          *)
(***************************************************************************)
EXTENDS Lifecycle

CONSTANTS p1, p2
================================================================================
