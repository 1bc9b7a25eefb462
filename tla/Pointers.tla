------------------------------ MODULE Pointers ------------------------------
(***************************************************************************)
(* What the containers and the nodes have in common.                       *)
(***************************************************************************)
CONSTANT NULL   \* the NULL pointer
=============================================================================
