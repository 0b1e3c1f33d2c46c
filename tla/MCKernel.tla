------------------------------ MODULE MCKernel ------------------------------
(* The secure kernel, instantiated for TLC. *)
EXTENDS KernelCalls
=============================================================================
