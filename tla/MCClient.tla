----------------------------- MODULE MCClient ------------------------------
(* Two threads of one process, which use otz_api.c, and one of another,      *)
(* which uses otz_tee_api.c.  A third process, f3, only opens and closes.   *)
EXTENDS OtzClient, TLC

CONSTANTS t1, t2, t3, f1, f2, f3

MCFileOf == (t1 :> f1) @@ (t2 :> f1) @@ (t3 :> f2)
MCTeecFileOf == t3 :> f2

(* States behind a signal are reached and not continued. *)
BeforeSignal == "signal" \notin lapses

ClientSymmetry == Permutations({t1, t2}) \cup Permutations(Ctxs) \cup Permutations(Blocks)
=============================================================================
