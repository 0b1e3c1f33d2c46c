------------------------------- MODULE SwTimer -------------------------------
(***************************************************************************)
(* The timer framework of the secure kernel, core/sw_timer.c, on its two    *)
(* SP804 timers: the queue of active events sorted by expiry, the single    *)
(* one-shot tick, and expires_next, the software's idea of when the tick is *)
(* due.                                                                     *)
(*                                                                          *)
(* timer_event_start is called by a task, where the timer FIQ can interrupt *)
(* it between any two of its steps, or by a handler inside timer_interrupt, *)
(* where nothing can.  Time is counted in microseconds, the period of the   *)
(* timer clock; it passes between any two steps.                            *)
(***************************************************************************)
EXTENDS Integers, Sequences, SequencesExt, FiniteSetsExt

CONSTANTS
    Events,       \* timer_event structures
    Delays,       \* durations passed to timer_event_start
    Handler,      \* what the handler of each event does, see RunHandler
    Period,       \* duration of the events the hypervisor starts
    Rounding,     \* error of the shift-and-add conversion to clock cycles
    CounterMod,   \* 2^32: values of the 32-bit tick counter
    TimevalMax,   \* TIMEVAL_MAX
    Horizon,      \* bound: events are started up to this time
    Latency       \* bound: how long the core may hold off a due tick

ASSUME TimerAssumption ==
    /\ Delays \subseteq Nat \ {0}
    /\ Handler \in [Events -> {"destroy", "periodic", "retry"}]
    /\ Period \in Nat \ {0} /\ Rounding \in Nat /\ CounterMod \in Nat \ {0, 1}
    /\ TimevalMax \in Nat /\ Horizon \in Nat /\ Latency \in Nat
    /\ \A d \in Delays \cup {Period} : Horizon + d < TimevalMax

VARIABLES
    now,          \* the time read_timestamp returns
    queue,        \* clock_info[SW_TICKTIMER].active
    state,        \* timer_event.state; "free" when the structure is not allocated
    expires,      \* timer_event.expires
    duration,     \* the caller's timeval_t timer_event_start gets by reference
    expiresNext,  \* timer_cpu_info.expires_next
    tick,         \* when the armed one-shot tick interrupts, or NoTick
    inIrq,        \* timer_interrupt is running
    pc,           \* the task inside timer_event_start
    ev            \* its argument

vars == <<now, queue, state, expires, duration, expiresNext, tick, inIrq, pc, ev>>
taskVars == <<pc, ev>>

NoTick == -1
Queued == Range(queue)

TypeOK ==
    /\ now \in Nat /\ queue \in Seq(Events)
    /\ state \in [Events -> {"free", "INACTIVE", "ACTIVE"}]
    /\ expires \in [Events -> Nat] /\ duration \in [Events -> Nat]
    /\ expiresNext \in Nat /\ tick \in Nat \cup {NoTick}
    /\ inIrq \in BOOLEAN
    /\ pc \in {"idle", "add", "check", "program"} /\ ev \in Events

(* init_sw_timer *)
Init ==
    /\ now = 0 /\ queue = <<>>
    /\ state = [e \in Events |-> "free"]
    /\ expires = [e \in Events |-> TimevalMax]
    /\ duration = [e \in Events |-> 0]
    /\ expiresNext = TimevalMax /\ tick = NoTick
    /\ inIrq = FALSE /\ pc = "idle" /\ ev \in Events

-----------------------------------------------------------------------------
(* Mutant: the new event goes to the end of the list. *)
timer_queue_addLast(q, e, exp) == Append(q, e)

(* timer_queue_add: before the first event that expires later. *)
timer_queue_add(q, e, exp) ==
    LET later == {i \in 1..Len(q) : exp[e] < exp[q[i]]}
    IN  IF later = {} THEN Append(q, e) ELSE InsertAt(q, Min(later), e)

(* timeval_to_clockcycles and trigger_tick: the conversion loses up to      *)
(* Rounding cycles, is cut to the counter's width and is at least 1; a time *)
(* in the past gives 1.                                                     *)
Cycles(time, lost) ==
    LET c == (time - lost) % CounterMod
    IN  IF time - lost <= 0 \/ c = 0 THEN 1 ELSE c

(* Mutant: expires_next is recorded, the hardware is not programmed. *)
program_tick_for_eventSoft(x) == expiresNext' = x /\ UNCHANGED tick

(* Mutant: the tick is programmed one cycle late. *)
program_tick_for_eventLate(x) ==
    /\ expiresNext' = x
    /\ \E lost \in 0..Rounding : tick' = now + 1 + Cycles(x - now, lost)

(* program_tick_for_event: sets expires_next and re-arms the one-shot tick, *)
(* whatever it was armed for.                                               *)
program_tick_for_event(x) ==
    /\ expiresNext' = x
    /\ \E lost \in 0..Rounding : tick' = now + Cycles(x - now, lost)

-----------------------------------------------------------------------------
(* timer_event_start in a task. *)

(* The event is created, the time read, and the duration replaced by the    *)
(* absolute time.                                                           *)
StartEvent(e, d) ==
    /\ pc = "idle" /\ ~inIrq /\ state[e] = "free" /\ now <= Horizon
    /\ state' = [state EXCEPT ![e] = "INACTIVE"]
    /\ duration' = [duration EXCEPT ![e] = now + d]
    /\ expires' = [expires EXCEPT ![e] = now + d]
    /\ ev' = e /\ pc' = "add"
    /\ UNCHANGED <<now, queue, expiresNext, tick, inIrq>>

StartAdd ==
    /\ pc = "add" /\ ~inIrq
    /\ queue' = timer_queue_add(queue, ev, expires)
    /\ state' = [state EXCEPT ![ev] = "ACTIVE"]
    /\ pc' = "check"
    /\ UNCHANGED <<now, expires, duration, expiresNext, tick, inIrq, ev>>

StartCheck ==
    /\ pc = "check" /\ ~inIrq
    /\ pc' = IF expiresNext > expires[ev] THEN "program" ELSE "idle"
    /\ UNCHANGED <<now, queue, state, expires, duration, expiresNext, tick, inIrq, ev>>

StartProgram ==
    /\ pc = "program" /\ ~inIrq
    /\ program_tick_for_event(expires[ev])
    /\ pc' = "idle"
    /\ UNCHANGED <<now, queue, state, expires, duration, inIrq, ev>>

-----------------------------------------------------------------------------
(* The timer FIQ *)

(* secure_timer_irq_handler clears the one-shot interrupt and calls         *)
(* timer_interrupt.                                                         *)
TickFires ==
    /\ ~inIrq /\ tick # NoTick /\ now >= tick
    /\ inIrq' = TRUE /\ tick' = NoTick
    /\ UNCHANGED <<now, queue, state, expires, duration, expiresNext, taskVars>>

(* An event is run when it is due within a microsecond. *)
Due(e) == expires[e] - now <= 1

(* timer_event_start of event e by its handler: duration d on top of the    *)
(* time, q the queue without e.                                             *)
Restart(e, d, q) ==
    LET x == now + d
    IN  /\ expires' = [expires EXCEPT ![e] = x]
        /\ duration' = [duration EXCEPT ![e] = x]
        /\ queue' = timer_queue_add(q, e, [expires EXCEPT ![e] = x])
        /\ state' = [state EXCEPT ![e] = "ACTIVE"]
        /\ IF expiresNext > x THEN program_tick_for_event(x)
                              ELSE UNCHANGED <<expiresNext, tick>>

(* The handlers of the repository: wake_up_from_sleep and echo_task_handler *)
(* destroy their event; tzhyp_schedevent_handler destroys its event and     *)
(* starts a new one with a fresh duration; tzhyp_bootevent_handler starts   *)
(* its event again, with the same duration variable, until the guest could  *)
(* be scheduled, after which the event stays allocated.                     *)
RunHandler(e, q) ==
    \/ /\ Handler[e] = "destroy" \/ (Handler[e] = "periodic" /\ now > Horizon)
       /\ state' = [state EXCEPT ![e] = "free"]
       /\ queue' = q /\ UNCHANGED <<expires, duration, expiresNext, tick>>
    \/ Handler[e] = "periodic" /\ now <= Horizon /\ Restart(e, Period, q)
    \/ /\ Handler[e] = "retry" /\ now <= Horizon /\ now + duration[e] < TimevalMax
       /\ Restart(e, duration[e], q)
    \/ /\ Handler[e] = "retry"
       /\ state' = [state EXCEPT ![e] = "INACTIVE"]
       /\ queue' = q /\ UNCHANGED <<expires, duration, expiresNext, tick>>

(* One round of the loop: __run_timer_handler on the first event ... *)
IrqRun ==
    /\ inIrq /\ queue # <<>> /\ Due(Head(queue))
    /\ RunHandler(Head(queue), Tail(queue))
    /\ UNCHANGED <<now, inIrq, taskVars>>

(* Mutant: the loop ends at a future event without arming the tick. *)
IrqAgainSilent ==
    /\ inIrq /\ queue # <<>> /\ ~Due(Head(queue))
    /\ inIrq' = FALSE /\ expiresNext' = TimevalMax
    /\ UNCHANGED <<now, queue, state, expires, duration, tick, taskVars>>

(* ... until the first event is in the future: the tick is armed for it,    *)
(* and expires_next is then set to TIMEVAL_MAX all the same.                *)
IrqAgain ==
    /\ inIrq /\ queue # <<>> /\ ~Due(Head(queue))
    /\ \E lost \in 0..Rounding : tick' = now + Cycles(expires[Head(queue)] - now, lost)
    /\ expiresNext' = TimevalMax
    /\ inIrq' = FALSE
    /\ UNCHANGED <<now, queue, state, expires, duration, taskVars>>

IrqEmpty ==
    /\ inIrq /\ queue = <<>>
    /\ expiresNext' = TimevalMax
    /\ inIrq' = FALSE
    /\ UNCHANGED <<now, queue, state, expires, duration, tick, taskVars>>

-----------------------------------------------------------------------------
(* Time passes while an event is coming or may be started, and no due tick  *)
(* is held off for longer than Latency.                                     *)
TimePasses ==
    /\ now <= Horizon \/ tick > now
    /\ tick # NoTick => now < tick + Latency
    /\ now' = now + 1
    /\ UNCHANGED <<queue, state, expires, duration, expiresNext, tick, inIrq, taskVars>>

Start == \E e \in Events, d \in Delays :
            StartEvent(e, IF Handler[e] = "destroy" THEN d ELSE Period)
Task  == StartAdd \/ StartCheck \/ StartProgram
Irq   == IrqRun \/ IrqAgain \/ IrqEmpty

Next == Start \/ Task \/ TickFires \/ Irq \/ TimePasses

Spec == Init /\ [][Next]_vars

(* The core executes the task and the interrupt, and the clock runs. *)
FairSpec == Spec /\ WF_vars(Task) /\ WF_vars(Irq) /\ WF_vars(TickFires) /\ WF_vars(TimePasses)

-----------------------------------------------------------------------------
Sorted(q, exp) ==
    \A i, j \in 1..Len(q) : i < j => q[i] # q[j] /\ exp[q[i]] <= exp[q[j]]

(* The list is sorted by expiry and holds exactly the active events, each   *)
(* once: timer_interrupt may stop at the first future event, and            *)
(* timer_event_destroy, which looks at the state only, never frees a linked *)
(* event.                                                                   *)
QueueConsistent ==
    /\ Sorted(queue, expires)
    /\ Queued = {e \in Events : state[e] = "ACTIVE"}

(* As long as an event is active the one-shot tick is armed, its interrupt  *)
(* is running or the task that added an event is about to arm it: no active *)
(* event is left without an interrupt to run it.                            *)
NoEventStranded ==
    queue # <<>> => tick # NoTick \/ inIrq \/ pc \in {"check", "program"}

TickInTime == tick <= expires[Head(queue)] \/ tick <= now + 1

(* The inductive strengthening: the event about to be added is in no list,  *)
(* expires_next names a time only while a tick is armed or being handled,   *)
(* and a started event expires before TIMEVAL_MAX.                          *)
TimerInv ==
    /\ QueueConsistent /\ NoEventStranded
    /\ pc = "add" => state[ev] = "INACTIVE"
    /\ pc \in {"add", "check"} => expires[ev] < TimevalMax
    /\ expiresNext # TimevalMax => tick # NoTick \/ inIrq

(* An event that is alone in the queue is not kept waiting: an earlier      *)
(* start, restart or interrupt never leaves the tick armed beyond it.       *)
LoneEventOnTime == (Len(queue) = 1 /\ ~inIrq /\ pc = "idle") => TickInTime

(* Every event that is started comes to its handler. *)
EventRuns ==
    \A e \in Events : (state[e] = "ACTIVE" /\ Handler[e] = "destroy") ~> state[e] # "ACTIVE"
=============================================================================
