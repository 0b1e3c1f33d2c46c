------------------------------ MODULE MCPages ------------------------------
(* A secure RAM of two sections of two pages and two sections of             *)
(* non-secure RAM behind it, the first of them inside the virtual window.    *)
EXTENDS Pages, TLC

CONSTANTS t1, t2

Lay(c, q, r, m) ==
    [b \in Buffers |-> CASE b = "cmd" -> c [] b = "req" -> q [] b = "res" -> r [] b = "meta" -> m]

MCLayouts ==
    {Lay(2, 2, 3, 2), Lay(3, None, 3, 2), Lay(2, None, 4, 2)}

(* Nothing is claimed once a page reference is missing, and a reference that *)
(* unmaps section 0 takes the kernel's own code away: such states are        *)
(* reached and not continued.                                                *)
ReferencesFound == ~short
CodeStays       == 0 \notin named

TaskSymmetry == Permutations(Tasks)
=============================================================================
