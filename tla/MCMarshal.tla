----------------------------- MODULE MCMarshal -----------------------------
(* The marshalling of parameters, instantiated for TLC. *)
EXTENDS Marshal
=============================================================================
