---------------------------- MODULE KernelCalls ----------------------------
(***************************************************************************)
(* The secure kernel, its dispatcher and its service tasks implement the   *)
(* promise of TrustedCall for the service commands.                         *)
(***************************************************************************)
EXTENDS SecureKernel

(* Where a service command is.  The calls the dispatcher answers by itself  *)
(* (open, close, register...) are no service commands.                      *)
CallStage ==
    [c \in Calls |->
        IF target[c] = D THEN "unsent"
        ELSE IF smc = c THEN "inside"
        ELSE IF c \in pend THEN "deferred"
        ELSE "answered"]

Promise == INSTANCE TrustedCall WITH
    Results  <- {"ok", "err"},
    None     <- "none",
    stage    <- CallStage,
    executed <- ran,
    result   <- [c \in Calls |-> IF CallStage[c] = "answered" THEN answer[c] ELSE "none"]

(* Every behaviour of the kernel under disciplined clients is, seen through *)
(* the mapping, a behaviour of TrustedCall: a command is executed at most   *)
(* once, never while it is pending, and only the call that is inside is     *)
(* executed, deferred or answered.                                          *)
KeepsPromise == Promise!Spec
=============================================================================
