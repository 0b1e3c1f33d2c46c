------------------------------ MODULE MCTimer ------------------------------
(* Events of the kinds the repository starts, for the timer runs: e1 and e2 *)
(* for sleeping and echo commands, h1 for the hypervisor's scheduling       *)
(* event, b1 for its boot event.                                            *)
EXTENDS SwTimer

CONSTANTS e1, e2, h1, b1

AllEvents   == [e \in {e1, e2, h1, b1} |->
                  CASE e = h1 -> "periodic" [] e = b1 -> "retry" [] OTHER -> "destroy"]
=============================================================================
