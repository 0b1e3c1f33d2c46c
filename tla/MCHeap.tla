------------------------------- MODULE MCHeap -------------------------------
(* One buddy heap, instantiated for TLC. *)
EXTENDS BuddyHeap
=============================================================================
