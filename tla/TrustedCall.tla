---------------------------- MODULE TrustedCall ----------------------------
(***************************************************************************)
(* What the secure world promises a client of a service command, without a *)
(* word on tasks, the mailbox or the reply slot: one command at a time is   *)
(* inside the secure world; the service executes each command at most once; *)
(* a command that cannot complete yet may be deferred, before it has been   *)
(* executed, and comes back in later; a client is answered only with what   *)
(* the execution of its own command returned.                               *)
(***************************************************************************)
CONSTANTS
    Calls,      \* the calls clients make
    Results,    \* what a service command can return
    None        \* no result yet, not one of Results

VARIABLES
    stage,      \* where each call is
    executed,   \* what the service returned for it
    result      \* what the client got for it

vars == <<stage, executed, result>>

Stages == {"unsent", "inside", "deferred", "answered"}

TypeOK ==
    /\ stage \in [Calls -> Stages]
    /\ executed \in [Calls -> Results \cup {None}]
    /\ result \in [Calls -> Results \cup {None}]

Init ==
    /\ stage = [c \in Calls |-> "unsent"]
    /\ executed = [c \in Calls |-> None]
    /\ result = [c \in Calls |-> None]

NoneInside == \A c \in Calls : stage[c] # "inside"

(* A client's command, or the resumption of a deferred one, enters. *)
Enter(c) ==
    /\ stage[c] \in {"unsent", "deferred"} /\ NoneInside
    /\ stage' = [stage EXCEPT ![c] = "inside"]
    /\ UNCHANGED <<executed, result>>

Execute(c) ==
    /\ stage[c] = "inside" /\ executed[c] = None
    /\ \E v \in Results : executed' = [executed EXCEPT ![c] = v]
    /\ UNCHANGED <<stage, result>>

Defer(c) ==
    /\ stage[c] = "inside" /\ executed[c] = None
    /\ stage' = [stage EXCEPT ![c] = "deferred"]
    /\ UNCHANGED <<executed, result>>

Answer(c) ==
    /\ stage[c] = "inside" /\ executed[c] # None
    /\ stage' = [stage EXCEPT ![c] = "answered"]
    /\ result' = [result EXCEPT ![c] = executed[c]]
    /\ UNCHANGED executed

Next == \E c \in Calls : Enter(c) \/ Execute(c) \/ Defer(c) \/ Answer(c)

Spec == Init /\ [][Next]_vars
=============================================================================
