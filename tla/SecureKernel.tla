---------------------------- MODULE SecureKernel ----------------------------
(***************************************************************************)
(* The secure kernel of otzone: the task table and ready list (core/task.c, *)
(* core/global.c), the scheduler (core/scheduler.c), the dispatcher task    *)
(* that answers the SMC calls of the non-secure world                       *)
(* (apps/dispatcher_task.c), and the service tasks as far as they use the   *)
(* kernel: synchronous commands, commands that sleep (lib/                  *)
(* sw_timer_functions.c), commands that go pending and are resumed later    *)
(* (lib/sw_wait.c, apps/echo_task.c) and commands that call another task    *)
(* (arch/arm/armv7/cpu_ipi.c, ipc_api of core/secure_api.c).                *)
(*                                                                          *)
(* One core runs the secure world.  Scheduling is cooperative: a task runs  *)
(* until it executes swi #0xbbbb (schedule) or swi #0xcccc (otz_ipi).  The  *)
(* only asynchronous activity is the timer FIQ, whose handlers run between  *)
(* any two steps, in either world.  While the dispatcher is inside          *)
(* return_secure_api the non-secure world owns the core.                    *)
(***************************************************************************)
EXTENDS Integers, Sequences, SequencesExt

CONSTANTS
    MaxTask,    \* bound on the task identifiers handed out by next_task_id++
    MaxCall,    \* bound on the calls the non-secure world makes
    Kinds,      \* kinds of service commands the clients send
    Lapses,     \* client behaviours beyond the discipline, see NsSend..NsUnregister
    Faults      \* resources that may run out: "map", "heap", "timer"

AllKinds  == {"sync", "sleep", "usleep", "async", "ipc"}
AllLapses == {"busy", "two_async", "overlap", "close_pending", "unregister", "signal"}

ASSUME ConstantsAssumption ==
    /\ MaxTask \in Nat /\ MaxCall \in Nat
    /\ Kinds \subseteq AllKinds /\ Lapses \subseteq AllLapses
    /\ Faults \subseteq {"map", "heap", "timer"}

D      == 0                 \* the dispatcher's task identifier
Svc    == 1..MaxTask        \* identifiers of service tasks (TASK_ID_START + n)
Tid    == 0..MaxTask
NoTask == -1                \* current_task_id = -1, get_current_task() = NULL
Calls  == 1..MaxCall
NoCall == 0

VARIABLES
    (* struct sw_global *)
    tasks,      \* task_list
    nextId,     \* next_task_id
    cur,        \* current_task_id
    ready,      \* ready_to_run_list
    (* struct sw_task, one entry per identifier *)
    state,      \* task->state
    regs,       \* task->regs: where the saved context continues
    tls,        \* task->tls->params: the command the task was started with
    avail,      \* private_data->data_available of the echo task
    wq,         \* task->wq_head: "uninit", "empty" or "linked"
    peer,       \* session_id local of ipc_api: the session the task opened
    echoEv,     \* echo timer events of the task not yet expired
    sleepEv,    \* sleep timer events of the task not yet expired
    (* the core and the dispatcher *)
    pc,         \* where the running context continues
    valid,      \* valid_params_flag
    params,     \* params_stack, with the command it points to
    api,        \* g_dispatch_data: secure_api_set, secure_api_ret_val
    notify,     \* *notify_data: the call the last notification was for
    notifyReg,  \* notify_data # NULL
    sgi,        \* the notification interrupt is pending in the non-secure world
    (* the non-secure world, as the driver drives it *)
    smc,        \* the call being executed by the secure world, NoCall in NS
    opened,     \* sessions the driver holds
    pend,       \* calls that got SMC_PENDING and wait to be notified
    woken,      \* calls whose send_wait_flag is set
    answer,     \* what each call returned
    target,     \* the session of each call
    kindOf,     \* the kind of command of each call
    smcCmd,     \* otz_smc_call's static smc_cmd: the command block allocated last
    resumeId,   \* calls whose command block has got the id RESUME_ASYNC_TASK
    nextCall,
    ran         \* history: what the command of each call really returned

taskVars == <<tasks, nextId, tls, avail, wq, peer>>
evVars   == <<echoEv, sleepEv>>
runVars  == <<cur, ready, state, regs, pc>>
mboxVars == <<valid, params, api>>
ntfVars  == <<notify, notifyReg, sgi>>
callVars == <<target, kindOf, smcCmd, nextCall>>
nsVars   == <<smc, opened, pend, woken, answer, resumeId, callVars>>
vars == <<taskVars, evVars, runVars, mboxVars, ntfVars, nsVars, ran>>

-----------------------------------------------------------------------------
(* Types *)

States  == {"SUSPEND", "WAIT", "READY_TO_RUN", "RUNNING"}
Stopped == {"SUSPEND", "WAIT"}
DPcs    == {"ret", "loop", "close2", "sched", "after", "resumed"}
TPcs    == {"entry", "wait_check", "wait_prep", "wait_yield", "sleep_susp",
            "sleep_yield", "ipc_send", "ipc_back", "fin"}
Pcs     == DPcs \cup TPcs \cup {"die"}
Ops     == {"open", "close", "register", "unregister", "resume", "send", "other"}
Params  == [typ : {"ns", "sec"}, op : Ops, task : Tid \cup {NoTask},
            kind : AllKinds, call : Calls \cup {NoCall}, src : Tid]
Rets    == {"ok", "err", "pending"}
Api     == [set : BOOLEAN, val : Rets, call : Calls \cup {NoCall},
            sess : Tid \cup {NoTask}]

TypeOK ==
    /\ tasks \subseteq Tid /\ D \in tasks
    /\ nextId \in 1..(MaxTask + 1)
    /\ cur \in Tid /\ ready \in Seq(Tid)
    /\ state \in [Tid -> States]
    /\ regs \in [Tid -> Pcs] /\ pc \in Pcs
    /\ tls \in [Tid -> Params]
    /\ avail \in [Tid -> BOOLEAN]
    /\ wq \in [Tid -> {"uninit", "empty", "linked"}]
    /\ peer \in [Tid -> Tid]
    /\ echoEv \in [Tid -> Nat] /\ sleepEv \in [Tid -> Nat]
    /\ valid \in BOOLEAN /\ params \in Params /\ api \in Api
    /\ notify \in Calls \cup {NoCall}
    /\ notifyReg \in BOOLEAN /\ sgi \in BOOLEAN
    /\ smc \in Calls \cup {NoCall}
    /\ opened \subseteq Svc /\ pend \subseteq Calls /\ woken \subseteq Calls
    /\ answer \in [Calls -> Rets \cup {"none"}]
    /\ target \in [Calls -> Tid] /\ kindOf \in [Calls -> AllKinds]
    /\ smcCmd \in Calls \cup {NoCall} /\ resumeId \subseteq Calls \cup {NoCall}
    /\ nextCall \in 1..(MaxCall + 1)
    /\ ran \in [Calls -> {"none", "ok", "err"}]

NoParams == [typ |-> "ns", op |-> "other", task |-> NoTask, kind |-> "sync",
             call |-> NoCall, src |-> D]

(* secure_main has created the dispatcher, started it, and the dispatcher   *)
(* has booted the non-secure kernel with invoke_ns_kernel.                  *)
Init ==
    /\ tasks = {D} /\ nextId = 1
    /\ cur = D /\ ready = <<>>
    /\ state = [t \in Tid |-> IF t = D THEN "RUNNING" ELSE "SUSPEND"]
    /\ regs = [t \in Tid |-> IF t = D THEN "loop" ELSE "entry"]
    /\ tls = [t \in Tid |-> NoParams]
    /\ avail = [t \in Tid |-> FALSE]
    /\ wq = [t \in Tid |-> "uninit"]
    /\ peer = [t \in Tid |-> D]
    /\ echoEv = [t \in Tid |-> 0] /\ sleepEv = [t \in Tid |-> 0]
    /\ pc = "ret" /\ valid = FALSE /\ params = NoParams
    /\ api = [set |-> FALSE, val |-> "ok", call |-> NoCall, sess |-> NoTask]
    /\ notify = NoCall /\ notifyReg = FALSE /\ sgi = FALSE
    /\ smc = NoCall /\ opened = {} /\ pend = {} /\ woken = {}
    /\ answer = [c \in Calls |-> "none"]
    /\ target = [c \in Calls |-> D] /\ kindOf = [c \in Calls |-> "sync"]
    /\ smcCmd = NoCall /\ resumeId = {}
    /\ nextCall = 1
    /\ ran = [c \in Calls |-> "none"]

-----------------------------------------------------------------------------
(* The scheduler *)

InList(t, s) == \E i \in 1..Len(s) : s[i] = t

Runnable(c, st) == c \in tasks /\ st[c] \notin Stopped

(* The task get_next_task returns for current task c: the head of the ready *)
(* list, or c itself when the list is empty and c may continue, or NULL.    *)
NextTask(c, st, rdy) ==
    IF rdy # <<>> THEN Head(rdy)
    ELSE IF Runnable(c, st) THEN c ELSE NoTask

(* Mutant: the running task is not queued again behind the others. *)
ReadyLeftDropsCurrent(c, st, rdy) == IF rdy = <<>> THEN rdy ELSE Tail(rdy)

(* The ready list get_next_task leaves: the head is popped and c is queued  *)
(* again when it may continue and is not queued already.                    *)
ReadyLeft(c, st, rdy) ==
    IF rdy = <<>> THEN rdy
    ELSE IF Runnable(c, st) /\ ~InList(c, Tail(rdy)) THEN Append(Tail(rdy), c)
    ELSE Tail(rdy)

(* scheduler() entered by swi from task c (NoTask once suspend_task has     *)
(* cleared current_task_id), with task states st and ready list rdy; the    *)
(* caller would continue at cont.  Without a task to switch to, the swi     *)
(* returns to its caller.                                                   *)
Scheduler(c, st, rdy, cont) ==
    LET next == NextTask(c, st, rdy)
    IN  /\ ready' = ReadyLeft(c, st, rdy)
        /\ regs' = IF c # next /\ c \in tasks THEN [regs EXCEPT ![c] = cont] ELSE regs
        /\ IF next \in {c, NoTask}
           THEN pc' = cont /\ state' = st /\ cur' = cur
           ELSE /\ pc' = regs[next]
                /\ state' = [st EXCEPT ![next] = "RUNNING"]
                /\ cur' = next

(* The running context goes on at p without a switch. *)
Goto(p) == pc' = p /\ UNCHANGED <<cur, ready, state, regs>>

-----------------------------------------------------------------------------
(* Task table *)

(* start_task: the context is reset to the entry point, the parameters are  *)
(* copied and the task is queued, whatever it was doing.                    *)
start_task(t, p) ==
    IF t \in tasks
    THEN /\ regs' = [regs EXCEPT ![t] = "entry"]
         /\ tls' = [tls EXCEPT ![t] = p]
         /\ ready' = Append(ready, t)
    ELSE UNCHANGED <<regs, tls, ready>>

(* create_task when every allocation succeeds: a suspended task with a new  *)
(* identifier, an uninitialised wait queue and fresh private data.          *)
create_task ==
    /\ nextId <= MaxTask
    /\ nextId' = nextId + 1
    /\ tasks' = tasks \cup {nextId}
    /\ state' = [state EXCEPT ![nextId] = "SUSPEND"]
    /\ wq' = [wq EXCEPT ![nextId] = "uninit"]
    /\ avail' = [avail EXCEPT ![nextId] = FALSE]

(* create_task fails: permission denied or no memory for the private data   *)
(* leave next_task_id alone, a later allocation failure has consumed it.    *)
create_task_fails ==
    /\ "heap" \in Faults
    /\ nextId' \in {n \in {nextId, nextId + 1} : n <= MaxTask + 1}
    /\ UNCHANGED <<tasks, state, wq, avail>>

(* Mutant: the caller is destroyed, not the task it names. *)
destroy_taskCaller(t) ==
    /\ tasks' = tasks \ {cur}
    /\ ready' = RemoveFirst(ready, cur)

(* destroy_task: the task leaves the task list and the ready list. *)
destroy_task(t) ==
    /\ tasks' = tasks \ {t}
    /\ ready' = RemoveFirst(ready, t)

(* set_secure_api_ret: one slot, whoever writes it. *)
set_secure_api_ret(v, c) ==
    api' = [set |-> TRUE, val |-> v, call |-> c, sess |-> NoTask]

-----------------------------------------------------------------------------
(* The dispatcher task *)

(* Mutant: the reply flag survives the SMC. *)
DispReturnedKeepsFlag ==
    /\ cur = D /\ pc = "ret" /\ smc # NoCall
    /\ Goto("loop")
    /\ UNCHANGED <<taskVars, evVars, mboxVars, ntfVars, nsVars, ran>>

(* Back from the SMC: the reply flag is cleared, the loop starts over. *)
DispReturned ==
    /\ cur = D /\ pc = "ret" /\ smc # NoCall
    /\ api' = [api EXCEPT !.set = FALSE]
    /\ Goto("loop")
    /\ UNCHANGED <<taskVars, evVars, valid, params, ntfVars, nsVars, ran>>

(* Top of the loop with nothing to process. *)
DispIdle ==
    /\ cur = D /\ pc = "loop" /\ ~valid
    /\ Goto("sched")
    /\ UNCHANGED <<taskVars, evVars, mboxVars, ntfVars, nsVars, ran>>

(* Mutant: valid_params_flag is not reset. *)
CommandKept(op) == cur = D /\ pc = "loop" /\ valid /\ UNCHANGED valid /\ params.op = op

Command(op) == cur = D /\ pc = "loop" /\ valid /\ valid' = FALSE /\ params.op = op

(* OPEN_SESSION: open_session_from_ns creates the task and writes its       *)
(* identifier to the response buffer.                                       *)
DispOpen ==
    /\ Command("open")
    /\ create_task
    /\ api' = [set |-> TRUE, val |-> "ok", call |-> params.call, sess |-> nextId]
    /\ pc' = "sched"
    /\ UNCHANGED <<tls, peer, cur, ready, regs, evVars, params, ntfVars, nsVars, ran>>

(* No task is created, or the buffers of the command cannot be mapped. *)
DispOpenFails ==
    /\ Command("open")
    /\ \/ create_task_fails
       \/ "map" \in Faults /\ UNCHANGED <<nextId, tasks, state, wq, avail>>
    /\ set_secure_api_ret("err", params.call)
    /\ pc' = "sched"
    /\ UNCHANGED <<tls, peer, cur, ready, regs, evVars, params, ntfVars, nsVars, ran>>

(* CLOSE_SESSION: sa_destroy_entry_point frees the private data of the      *)
(* session's task; a session without a task is a NULL dereference.          *)
DispClose ==
    /\ Command("close")
    /\ Goto(IF params.task \in tasks THEN "close2" ELSE "die")
    /\ UNCHANGED <<taskVars, evVars, params, api, ntfVars, nsVars, ran>>

(* ... and sa_close_session destroys the task.  ret_val of                  *)
(* close_session_from_ns is never assigned on this path.                    *)
DispClose2 ==
    /\ cur = D /\ pc = "close2"
    /\ destroy_task(params.task)
    /\ \E v \in {"ok", "err"} : set_secure_api_ret(v, params.call)
    /\ pc' = "sched"
    /\ UNCHANGED <<nextId, tls, avail, wq, peer, cur, state, regs, evVars,
                   valid, params, ntfVars, nsVars, ran>>

(* CLOSE_SESSION whose buffers cannot be mapped: the task lives on. *)
DispCloseFails ==
    /\ Command("close") /\ "map" \in Faults
    /\ set_secure_api_ret("err", params.call)
    /\ Goto("sched")
    /\ UNCHANGED <<taskVars, evVars, params, ntfVars, nsVars, ran>>

DispRegister ==
    /\ Command("register")
    /\ \/ notifyReg' = TRUE /\ set_secure_api_ret("ok", params.call)
       \/ /\ "map" \in Faults
          /\ UNCHANGED notifyReg /\ set_secure_api_ret("err", params.call)
    /\ Goto("sched")
    /\ UNCHANGED <<taskVars, evVars, params, notify, sgi, nsVars, ran>>

DispUnregister ==
    /\ Command("unregister")
    /\ notifyReg' = FALSE
    /\ set_secure_api_ret("ok", params.call)
    /\ Goto("sched")
    /\ UNCHANGED <<taskVars, evVars, params, notify, sgi, nsVars, ran>>

(* BOOT_ACK and unknown commands are answered 0; so is any command whose    *)
(* descriptor get_api_context cannot map.                                   *)
DispOther ==
    /\ \/ Command("other")
       \/ /\ "map" \in Faults /\ params.typ = "ns"
          /\ \E op \in Ops : Command(op)
    /\ set_secure_api_ret("ok", params.call)
    /\ Goto("sched")
    /\ UNCHANGED <<taskVars, evVars, params, ntfVars, nsVars, ran>>

(* Mutant: the default answer of the switch is set for service commands. *)
DispSendAnswers ==
    /\ Command("send")
    /\ start_task(params.task, params)
    /\ set_secure_api_ret("ok", params.call)
    /\ pc' = "sched"
    /\ UNCHANGED <<tasks, nextId, avail, wq, peer, cur, state, evVars, params,
                   ntfVars, nsVars, ran>>

(* A service command, from the non-secure world or from another task.       *)
DispSend ==
    /\ Command("send")
    /\ start_task(params.task, params)
    /\ pc' = "sched"
    /\ UNCHANGED <<tasks, nextId, avail, wq, peer, cur, state, evVars, params,
                   api, ntfVars, nsVars, ran>>

(* Mutant: the waiting task is started over. *)
DispResumeRestarts ==
    /\ Command("resume")
    /\ start_task(params.task, tls[params.task])
    /\ pc' = "sched"
    /\ UNCHANGED <<tasks, nextId, avail, wq, peer, cur, state, evVars, params,
                   api, ntfVars, nsVars, ran>>

(* RESUME_ASYNC_TASK: sw_wakeup(WAKE_UP_IMMEDIATE) puts the first waiter at *)
(* the head of the ready list and schedules; with no waiter it does         *)
(* nothing.  A missing task or a wait queue nobody initialised is a wild    *)
(* dereference.                                                             *)
DispResume ==
    LET t == params.task
    IN  /\ Command("resume")
        /\ \/ /\ t \notin tasks \/ wq[t] = "uninit"
              /\ Goto("die")
           \/ /\ t \in tasks /\ wq[t] = "empty"
              /\ Goto("sched")
           \/ /\ t \in tasks /\ wq[t] = "linked"
              /\ Scheduler(D, [state EXCEPT ![t] = "READY_TO_RUN"],
                           <<t>> \o ready, "resumed")
        /\ UNCHANGED <<taskVars, evVars, params, api, ntfVars, nsVars, ran>>

(* Back in resume_async_task. *)
DispResumed ==
    /\ cur = D /\ pc = "resumed"
    /\ Goto("sched")
    /\ UNCHANGED <<taskVars, evVars, mboxVars, ntfVars, nsVars, ran>>

DispSchedule ==
    /\ cur = D /\ pc = "sched"
    /\ Scheduler(D, state, ready, "after")
    /\ UNCHANGED <<taskVars, evVars, mboxVars, ntfVars, nsVars, ran>>

DispNoReply ==
    /\ cur = D /\ pc = "after" /\ ~api.set
    /\ Goto("loop")
    /\ UNCHANGED <<taskVars, evVars, mboxVars, ntfVars, nsVars, ran>>

(* Mutant: the SMC returns whether or not a reply has been set. *)
DispReplyAlways ==
    /\ cur = D /\ pc = "after"
    /\ Goto("ret")
    /\ smc' = NoCall
    /\ pend' = pend \ {smc}
    /\ answer' = [answer EXCEPT ![smc] = api.val]
    /\ opened' = IF api.sess = NoTask THEN opened ELSE opened \cup {api.sess}
    /\ UNCHANGED <<taskVars, evVars, mboxVars, ntfVars, woken, resumeId, callVars, ran>>

(* return_secure_api: the monitor stores the value in the caller's r0 and   *)
(* resumes the non-secure world.  There otz_smc_call waits for the          *)
(* notification after SMC_PENDING, once; whatever the resumed call returns  *)
(* is its result.                                                           *)
DispReply ==
    /\ cur = D /\ pc = "after" /\ api.set
    /\ Goto("ret")
    /\ smc' = NoCall
    /\ IF api.val = "pending" /\ smc \notin pend
       THEN pend' = pend \cup {smc}
       ELSE pend' = pend \ {smc}
    /\ answer' = [answer EXCEPT ![smc] = api.val]
    /\ opened' = IF api.sess = NoTask THEN opened ELSE opened \cup {api.sess}
    /\ UNCHANGED <<taskVars, evVars, mboxVars, ntfVars, woken, resumeId, callVars, ran>>

-----------------------------------------------------------------------------
(* Service tasks.  t is the running task. *)

Running(t, p) == t \in Svc /\ cur = t /\ pc = p

(* The entry function calls process_otzapi and through it the service's     *)
(* process function, up to the first operation that concerns the kernel.    *)
TaskSync(t) ==
    /\ Running(t, "entry") /\ tls[t].kind = "sync"
    /\ Goto("fin")
    /\ UNCHANGED <<taskVars, evVars, mboxVars, ntfVars, nsVars, ran>>

(* process_otzapi cannot map the command or its buffers. *)
TaskNoMap(t) ==
    /\ Running(t, "entry") /\ "map" \in Faults /\ tls[t].typ = "ns"
    /\ Goto("fin")
    /\ UNCHANGED <<taskVars, evVars, mboxVars, ntfVars, nsVars, ran>>

(* timer_event_create finds no memory: sleeping returns at once, the echo   *)
(* command fails.                                                           *)
TaskNoTimer(t) ==
    /\ Running(t, "entry") /\ "timer" \in Faults
    /\ tls[t].kind \in {"sleep", "usleep"} \/ (tls[t].kind = "async" /\ ~avail[t])
    /\ Goto("fin")
    /\ UNCHANGED <<taskVars, evVars, mboxVars, ntfVars, nsVars, ran>>

(* Mutant: sw_usleep does not suspend the task. *)
TaskUsleepRunning(t) ==
    /\ Running(t, "entry") /\ tls[t].kind = "usleep"
    /\ sleepEv' = [sleepEv EXCEPT ![t] = @ + 1]
    /\ Goto("sleep_yield")
    /\ UNCHANGED <<taskVars, echoEv, mboxVars, ntfVars, nsVars, ran>>

(* sw_usleep marks the task waiting and then starts the timer; sw_sleep     *)
(* does it in the other order.                                              *)
TaskUsleep(t) ==
    /\ Running(t, "entry") /\ tls[t].kind = "usleep"
    /\ state' = [state EXCEPT ![t] = "WAIT"]
    /\ sleepEv' = [sleepEv EXCEPT ![t] = @ + 1]
    /\ pc' = "sleep_yield"
    /\ UNCHANGED <<taskVars, echoEv, cur, ready, regs, mboxVars, ntfVars, nsVars, ran>>

TaskSleep(t) ==
    /\ Running(t, "entry") /\ tls[t].kind = "sleep"
    /\ sleepEv' = [sleepEv EXCEPT ![t] = @ + 1]
    /\ Goto("sleep_susp")
    /\ UNCHANGED <<taskVars, echoEv, mboxVars, ntfVars, nsVars, ran>>

TaskSleepSuspend(t) ==
    /\ Running(t, "sleep_susp")
    /\ state' = [state EXCEPT ![t] = "WAIT"]
    /\ pc' = "sleep_yield"
    /\ UNCHANGED <<taskVars, evVars, cur, ready, regs, mboxVars, ntfVars, nsVars, ran>>

TaskSleepYield(t) ==
    /\ Running(t, "sleep_yield")
    /\ Scheduler(t, state, ready, "fin")
    /\ UNCHANGED <<taskVars, evVars, mboxVars, ntfVars, nsVars, ran>>

(* process_otz_echo_async_send_cmd: with data available there is nothing to *)
(* wait for; otherwise a timer is started and the wait queue initialised.   *)
TaskAsync(t) ==
    /\ Running(t, "entry") /\ tls[t].kind = "async"
    /\ IF avail[t]
       THEN Goto("fin") /\ UNCHANGED <<wq, echoEv>>
       ELSE /\ wq' = [wq EXCEPT ![t] = "empty"]
            /\ echoEv' = [echoEv EXCEPT ![t] = @ + 1]
            /\ Goto("wait_check")
    /\ UNCHANGED <<tasks, nextId, tls, avail, peer, sleepEv, mboxVars, ntfVars,
                   nsVars, ran>>

(* Mutant: the wait ends whatever the condition says. *)
TaskWaitCheckUnconditional(t) ==
    /\ Running(t, "wait_check")
    /\ wq' = [wq EXCEPT ![t] = "empty"] /\ Goto("fin")
    /\ UNCHANGED <<tasks, nextId, tls, avail, peer, evVars, mboxVars, ntfVars,
                   nsVars, ran>>

(* Mutant: the wait is left without sw_complete_wait. *)
TaskWaitCheckStaysLinked(t) ==
    /\ Running(t, "wait_check")
    /\ Goto(IF avail[t] THEN "fin" ELSE "wait_prep")
    /\ UNCHANGED <<taskVars, evVars, mboxVars, ntfVars, nsVars, ran>>

(* The loop of sw_wait_event_async: leave it when the condition holds,      *)
(* with sw_complete_wait ...                                                *)
TaskWaitCheck(t) ==
    /\ Running(t, "wait_check")
    /\ IF avail[t]
       THEN wq' = [wq EXCEPT ![t] = "empty"] /\ Goto("fin")
       ELSE Goto("wait_prep") /\ UNCHANGED wq
    /\ UNCHANGED <<tasks, nextId, tls, avail, peer, evVars, mboxVars, ntfVars,
                   nsVars, ran>>

(* Mutant: the dispatcher is not told that the command is pending. *)
TaskWaitPrepareSilent(t) ==
    /\ Running(t, "wait_prep")
    /\ state' = [state EXCEPT ![t] = "WAIT"]
    /\ wq' = [wq EXCEPT ![t] = "linked"]
    /\ pc' = "wait_yield"
    /\ UNCHANGED <<tasks, nextId, tls, avail, peer, evVars, cur, ready, regs,
                   mboxVars, ntfVars, nsVars, ran>>

(* ... or queue the element, become waiting and, in the first round, leave  *)
(* SMC_PENDING for the non-secure world ...                                 *)
TaskWaitPrepare(t) ==
    /\ Running(t, "wait_prep")
    /\ state' = [state EXCEPT ![t] = "WAIT"]
    /\ wq' = [wq EXCEPT ![t] = "linked"]
    /\ IF wq[t] # "linked" THEN set_secure_api_ret("pending", tls[t].call)
                           ELSE UNCHANGED api
    /\ pc' = "wait_yield"
    /\ UNCHANGED <<tasks, nextId, tls, avail, peer, evVars, cur, ready, regs,
                   valid, params, ntfVars, nsVars, ran>>

(* ... and schedule. *)
TaskWaitYield(t) ==
    /\ Running(t, "wait_yield")
    /\ Scheduler(t, state, ready, "wait_check")
    /\ UNCHANGED <<taskVars, evVars, mboxVars, ntfVars, nsVars, ran>>

(* ipc_connect: open_session_from_secure in the context of the caller. *)
TaskIpcConnect(t) ==
    /\ Running(t, "entry") /\ tls[t].kind = "ipc"
    /\ \/ create_task /\ peer' = [peer EXCEPT ![t] = nextId] /\ pc' = "ipc_send"
       \/ create_task_fails /\ UNCHANGED peer /\ pc' = "fin"
    /\ UNCHANGED <<tls, cur, ready, regs, evVars, mboxVars, ntfVars, nsVars, ran>>

(* otz_encode_data finds no memory: ipc_api goes to the disconnect. *)
TaskIpcEncodeFails(t) ==
    /\ Running(t, "ipc_send") /\ "heap" \in Faults
    /\ Goto("ipc_back")
    /\ UNCHANGED <<taskVars, evVars, mboxVars, ntfVars, nsVars, ran>>

(* Mutant: otz_ipi leaves the caller running. *)
TaskIpcSendRunning(t) ==
    /\ Running(t, "ipc_send")
    /\ valid' = TRUE
    /\ params' = [typ |-> "sec", op |-> "send", task |-> peer[t], kind |-> "usleep",
                  call |-> NoCall, src |-> t]
    /\ Scheduler(t, state, ready, "ipc_back")
    /\ UNCHANGED <<taskVars, evVars, api, ntfVars, nsVars, ran>>

(* ipc_send and otz_ipi: the command goes where the commands of the         *)
(* non-secure world go, the caller waits, swi #0xcccc runs the scheduler.   *)
TaskIpcSend(t) ==
    /\ Running(t, "ipc_send")
    /\ valid' = TRUE
    /\ \E k \in {"sync", "usleep"} :
          params' = [typ |-> "sec", op |-> "send", task |-> peer[t], kind |-> k,
                     call |-> NoCall, src |-> t]
    /\ Scheduler(t, [state EXCEPT ![t] = "WAIT"], ready, "ipc_back")
    /\ UNCHANGED <<taskVars, evVars, api, ntfVars, nsVars, ran>>

(* Mutant: ipc_disconnect closes the caller's own session. *)
TaskIpcBackOwnSession(t) ==
    /\ Running(t, "ipc_back")
    /\ destroy_task(t)
    /\ pc' = "fin"
    /\ UNCHANGED <<nextId, tls, avail, wq, peer, cur, state, regs, evVars,
                   mboxVars, ntfVars, nsVars, ran>>

(* The answer has arrived, or the call failed: ipc_disconnect destroys the  *)
(* peer's task.                                                             *)
TaskIpcBack(t) ==
    /\ Running(t, "ipc_back")
    /\ destroy_task(peer[t])
    /\ pc' = "fin"
    /\ UNCHANGED <<nextId, tls, avail, wq, peer, cur, state, regs, evVars,
                   mboxVars, ntfVars, nsVars, ran>>

(* handle_task_return: the task is suspended and is no longer the current   *)
(* one; its result goes to the dispatcher's slot or, through                *)
(* otz_ipi_return, its caller is queued; schedule() must not return.        *)
TaskReturn(t) ==
    LET st == [state EXCEPT ![t] = "SUSPEND"]
        p  == tls[t]
    IN  /\ Running(t, "fin")
        /\ \E v \in {"ok", "err"} :
              IF p.typ = "ns"
              THEN /\ set_secure_api_ret(v, p.call)
                   /\ ran' = [ran EXCEPT ![p.call] = v]
                   /\ Scheduler(NoTask, st, ready, "die")
              ELSE /\ UNCHANGED <<api, ran>>
                   /\ Scheduler(NoTask, st,
                         IF p.src \in tasks THEN Append(ready, p.src) ELSE ready,
                         "die")
        /\ UNCHANGED <<taskVars, evVars, valid, params, ntfVars, nsVars>>

TaskStep(t) ==
    \/ TaskSync(t) \/ TaskNoMap(t) \/ TaskNoTimer(t)
    \/ TaskUsleep(t) \/ TaskSleep(t) \/ TaskSleepSuspend(t) \/ TaskSleepYield(t)
    \/ TaskAsync(t) \/ TaskWaitCheck(t) \/ TaskWaitPrepare(t) \/ TaskWaitYield(t)
    \/ TaskIpcConnect(t) \/ TaskIpcEncodeFails(t) \/ TaskIpcSend(t) \/ TaskIpcBack(t)
    \/ TaskReturn(t)

-----------------------------------------------------------------------------
(* Timer interrupts.  They are FIQs: taken in either world, between any two *)
(* steps; the handlers run on the interrupted task's time.                  *)

Alive == pc # "die"

(* wake_up_from_sleep: schedule_task_id queues the sleeper. *)
FiqSleep(t) ==
    /\ Alive /\ sleepEv[t] > 0
    /\ sleepEv' = [sleepEv EXCEPT ![t] = @ - 1]
    /\ IF t \in tasks
       THEN /\ state' = [state EXCEPT ![t] = "READY_TO_RUN"]
            /\ ready' = Append(ready, t)
       ELSE UNCHANGED <<state, ready>>
    /\ UNCHANGED <<taskVars, echoEv, cur, regs, pc, mboxVars, ntfVars, nsVars, ran>>

(* What notify_ns leaves in the notification page, if one is registered: the *)
(* call of the task's current parameters, with the service found in its      *)
(* command block, which is not the client's once the block has the RESUME id. *)
Notified(t) ==
    IF ~notifyReg THEN notify
    ELSE IF tls[t].call \in resumeId THEN NoCall ELSE tls[t].call

(* Mutant: notify_ns writes the page and raises no interrupt. *)
FiqEchoNoInterrupt(t) ==
    /\ Alive /\ echoEv[t] > 0
    /\ echoEv' = [echoEv EXCEPT ![t] = @ - 1]
    /\ avail' = [avail EXCEPT ![t] = TRUE]
    /\ notify' = Notified(t)
    /\ UNCHANGED <<tasks, nextId, tls, wq, peer, sleepEv, runVars, mboxVars,
                   notifyReg, sgi, nsVars, ran>>

(* Mutant: the handler notifies and forgets data_available. *)
FiqEchoNoData(t) ==
    /\ Alive /\ echoEv[t] > 0
    /\ echoEv' = [echoEv EXCEPT ![t] = @ - 1]
    /\ notify' = Notified(t)
    /\ sgi' = TRUE
    /\ UNCHANGED <<taskVars, sleepEv, runVars, mboxVars, notifyReg, nsVars, ran>>

(* echo_task_handler: the data is available; notify_ns writes the shared    *)
(* notification page and raises the non-secure interrupt, unless the        *)
(* command block cannot be mapped.                                          *)
FiqEcho(t) ==
    /\ Alive /\ echoEv[t] > 0
    /\ echoEv' = [echoEv EXCEPT ![t] = @ - 1]
    /\ IF t \in tasks
       THEN /\ avail' = [avail EXCEPT ![t] = TRUE]
            /\ \/ notify' = Notified(t) /\ sgi' = TRUE
               \/ "map" \in Faults /\ UNCHANGED <<notify, sgi>>
       ELSE UNCHANGED <<avail, notify, sgi>>
    /\ UNCHANGED <<tasks, nextId, tls, wq, peer, sleepEv, runVars, mboxVars,
                   notifyReg, nsVars, ran>>

-----------------------------------------------------------------------------
(* The non-secure world: otz_smc_call under smc_lock, one call at a time on *)
(* the core that runs the secure world.  A new call gets the next number.   *)

InNs == smc = NoCall /\ Alive

Issue(c, op, t, k) ==
    /\ smc' = c
    /\ valid' = TRUE
    /\ params' = [typ |-> "ns", op |-> op, task |-> t, kind |-> k, call |-> c, src |-> D]
    /\ UNCHANGED <<taskVars, evVars, runVars, api, ntfVars, answer, ran>>

(* A call by a client allocates a command block.  As long as another command *)
(* is pending the static pointer is needed to resume it; "busy" clients make *)
(* calls then all the same.                                                  *)
NewCall(op, t, k) ==
    /\ InNs /\ nextCall <= MaxCall
    /\ pend = {} \/ "busy" \in Lapses
    /\ nextCall' = nextCall + 1
    /\ smcCmd' = nextCall
    /\ target' = [target EXCEPT ![nextCall] = IF op = "send" THEN t ELSE D]
    /\ kindOf' = [kindOf EXCEPT ![nextCall] = k]
    /\ Issue(nextCall, op, t, k)
    /\ UNCHANGED resumeId

PendingOn(t) == {c \in pend : target[c] = t}

(* A device file is open, so the notification page is registered, before a  *)
(* session is opened.                                                       *)
NsOpen ==
    /\ notifyReg /\ nextId <= MaxTask
    /\ NewCall("open", D, "sync")
    /\ UNCHANGED <<opened, pend, woken>>

(* All commands of a session must have completed before it is closed. *)
NsClose ==
    \E t \in opened :
        /\ PendingOn(t) = {} \/ "close_pending" \in Lapses
        /\ opened' = opened \ {t}
        /\ NewCall("close", t, "sync")
        /\ UNCHANGED <<pend, woken>>

(* A client sends commands of a session one after the other ("overlap"      *)
(* lifts it); with "two_async" two sessions may have a pending command (the *)
(* last two restrict "busy" clients).                                       *)
NsSend ==
    \E t \in opened, k \in Kinds :
        /\ PendingOn(t) = {} \/ "overlap" \in Lapses
        /\ k = "async" => (pend = {} \/ "two_async" \in Lapses)
        /\ k = "ipc" => nextId <= MaxTask
        /\ NewCall("send", t, k)
        /\ UNCHANGED <<opened, pend, woken>>

NsRegister ==
    /\ NewCall("register", D, "sync")
    /\ UNCHANGED <<opened, pend, woken>>

(* otz_client_release unregisters the page when a device file is closed,    *)
(* which leaves other files' sessions without it ("unregister").            *)
NsUnregister ==
    /\ notifyReg
    /\ opened = {} \/ "unregister" \in Lapses
    /\ NewCall("unregister", D, "sync")
    /\ UNCHANGED <<opened, pend, woken>>

NsOther ==
    /\ NewCall("other", D, "sync")
    /\ UNCHANGED <<opened, pend, woken>>

(* ipi_secure_notify: the interrupt sets send_wait_flag of the call found   *)
(* in the notification page.  A session is the first of its service in its  *)
(* device file: the driver's lookups find no other.                         *)
NsIpi ==
    /\ InNs /\ sgi
    /\ sgi' = FALSE
    /\ woken' = IF notify = NoCall THEN woken ELSE woken \cup {notify}
    /\ UNCHANGED <<taskVars, evVars, runVars, mboxVars, notify, notifyReg, smc,
                   opened, pend, answer, resumeId, callVars, ran>>

(* The notified thread clears the flag, writes the id RESUME_ASYNC_TASK into *)
(* the command block smc_cmd points to and hands its own block to the secure *)
(* world: if another call has moved the pointer, its command goes out again. *)
NsResume ==
    \E c \in pend \cap woken :
        /\ InNs
        /\ woken' = woken \ {c}
        /\ resumeId' = resumeId \cup {smcCmd}
        /\ Issue(c, IF c \in resumeId' THEN "resume" ELSE "send", target[c], kindOf[c])
        /\ UNCHANGED <<opened, pend, callVars>>

(* A signal ends wait_event_interruptible: the call fails with              *)
(* -ERESTARTSYS, the task keeps waiting.                                    *)
NsInterrupted ==
    \E c \in pend :
        /\ InNs /\ "signal" \in Lapses
        /\ pend' = pend \ {c}
        /\ answer' = [answer EXCEPT ![c] = "err"]
        /\ UNCHANGED <<taskVars, evVars, runVars, mboxVars, ntfVars, smc,
                       opened, woken, resumeId, callVars, ran>>

-----------------------------------------------------------------------------
Dispatch ==
    \/ DispReturned \/ DispIdle
    \/ DispOpen \/ DispOpenFails \/ DispClose \/ DispClose2 \/ DispCloseFails
    \/ DispRegister \/ DispUnregister \/ DispOther \/ DispSend
    \/ DispResume \/ DispResumed \/ DispSchedule \/ DispNoReply \/ DispReply

Fiq == \E t \in Svc : FiqSleep(t) \/ FiqEcho(t)

NonSecure ==
    \/ NsOpen \/ NsClose \/ NsSend \/ NsRegister \/ NsUnregister \/ NsOther
    \/ NsIpi \/ NsResume \/ NsInterrupted

Next == Dispatch \/ (\E t \in Svc : TaskStep(t)) \/ Fiq \/ NonSecure

Spec == Init /\ [][Next]_vars

(* The core keeps executing, timers expire, the non-secure kernel takes its *)
(* interrupt and runs the thread it woke.                                   *)
Fairness ==
    /\ WF_vars(Dispatch)
    /\ WF_vars(\E t \in Svc : TaskStep(t))
    /\ \A t \in Svc : WF_vars(FiqSleep(t)) /\ WF_vars(FiqEcho(t))
    /\ WF_vars(NsIpi) /\ WF_vars(NsResume)

FairSpec == Spec /\ Fairness

-----------------------------------------------------------------------------
(* Safety *)

(* The dispatcher, which is never suspended, is running or first in the     *)
(* ready list, and at most one service task is queued: get_next_task always *)
(* finds a task, and no task is inserted a second time into the intrusive   *)
(* list (task->ready_head), which would destroy it.                         *)
ReadyShape ==
    IF cur = D
    THEN ready = <<>> \/ \E t \in tasks \ {D} : ready = <<t>>
    ELSE \/ ready = <<D>>
         \/ ready = <<D, cur>> /\ pc \in {"sleep_susp", "sleep_yield"}

Sleepers == {t \in Svc : sleepEv[t] > 0}

(* The non-secure world gets the core back only when no command is in       *)
(* progress in the secure world: nothing is queued, nothing sleeps, no      *)
(* command waits in params_stack.  Only pending commands are left.          *)
NsOnlyWhenIdle ==
    smc = NoCall =>
        /\ cur = D /\ pc = "ret" /\ ready = <<>> /\ ~valid /\ Sleepers = {}
        /\ \A t \in tasks \ {D} : state[t] = "SUSPEND" \/ wq[t] = "linked"

(* The spin lock of the ready list does not mask FIQs when it is taken by a *)
(* task in user mode (start_task by the dispatcher, otz_ipi_return by a     *)
(* service task), and wake_up_from_sleep takes the same lock in the FIQ: no *)
(* sleep timer may be running at those points.                              *)
ReadyLockUncontended ==
    \/ cur = D /\ pc = "loop" /\ valid
    \/ cur # D /\ pc = "fin"
    => Sleepers = {}

(* The common heap has no lock.  A task uses it with FIQs enabled: the      *)
(* reference of every page that map_to_ns maps and every timer event are    *)
(* allocated there; the timer handlers free their event there, and          *)
(* notify_ns maps the command descriptor, inside the FIQ.  So no timer      *)
(* event may be outstanding while the dispatcher or a service maps, unmaps  *)
(* or creates an event.                                                     *)
CommonHeapUncontended ==
    \/ cur = D /\ pc = "loop" /\ valid
    \/ cur # D /\ pc \in {"entry", "fin"}
    => Sleepers = {} /\ \A t \in Svc : echoEv[t] = 0

(* The reply slot of the dispatcher holds the reply to the call the         *)
(* non-secure world is waiting for, never one left over from another.       *)
ReplyIsForTheCall == (api.set /\ pc # "ret" /\ Alive) => api.call = smc

(* What a client gets as the result of its command is what the service task *)
(* returned for that command.                                               *)
AnswerIsResult ==
    \A c \in Calls :
        (target[c] # D /\ answer[c] \in {"ok", "err"}) => ran[c] = answer[c]

(* A wait queue element lives on the stack of the waiting task, and so does *)
(* the identifier a sleep timer points to: as long as it is linked, or the  *)
(* timer runs, the task exists and is inside that wait.                     *)
WaitFramesAlive ==
    /\ \A t \in tasks \ {D} : wq[t] = "linked" =>
          IF cur = t THEN pc \in {"wait_check", "wait_prep", "wait_yield"}
                     ELSE regs[t] = "wait_check"
    /\ \A t \in Sleepers :
          /\ t \in tasks
          /\ IF cur = t THEN pc \in {"sleep_susp", "sleep_yield"}
                        ELSE regs[t] = "fin"

(* While close_session_from_ns is between freeing the private data and      *)
(* destroying the task, no timer handler is due that would write that data. *)
NoUseAfterFree == pc = "close2" => echoEv[params.task] = 0

(* The kernel never reaches DIE_NOW: no task continues behind               *)
(* handle_task_return, no command acts on a task that is not there.         *)
NeverDies == Alive

(* The command structure of an IPC lies on the caller's stack: while the    *)
(* callee has it, the caller exists and is parked in otz_ipi.               *)
IpcCallerParked ==
    \A u \in tasks \ {D} :
        (tls[u].typ = "sec" /\ (cur = u \/ InList(u, ready) \/ u \in Sleepers)) =>
            LET t == tls[u].src
            IN  t \in tasks /\ state[t] = "WAIT" /\ regs[t] = "ipc_back" /\ cur # t
                /\ ~InList(t, ready)

(* A call that is pending can still be resumed: it is being resumed, its    *)
(* timer is running, its notification is on the way, or it has arrived.     *)
NotificationNotLost ==
    \A c \in pend :
        \/ smc = c
        \/ echoEv[target[c]] > 0
        \/ sgi /\ notify = c
        \/ c \in woken

(* A command in params_stack is taken by the dispatcher before another one  *)
(* is written there.                                                        *)
CommandNotOverwritten == [][valid /\ valid' => params' = params]_vars

(* A task that waits in sw_wait_event_async is never sent back to its entry *)
(* point by start_task: the stack frame its wait element lies in stays.     *)
PendingTaskNotRestarted ==
    [][\A t \in Svc : wq[t] = "linked" /\ regs[t] = "wait_check"
                      => regs'[t] # "entry"]_vars

-----------------------------------------------------------------------------
(* The secure world has one thing in flight.  This is what keeps the ready  *)
(* list short, the mailbox free when it is written, and the reply slot      *)
(* single.                                                                  *)

NoSleeper  == \A t \in Svc : sleepEv[t] = 0
Sleeper(t) == /\ t \in tasks \ {D} /\ sleepEv[t] = 1
              /\ \A u \in Svc \ {t} : sleepEv[u] = 0

(* What does not depend on who runs. *)
Shape ==
    /\ state[D] = "RUNNING" /\ wq[D] = "uninit" /\ api.sess # D
    /\ \A t \in tasks : t < nextId
    /\ regs[D] \in {"loop", "after", "resumed"}
    /\ \A t \in Svc :
          /\ regs[t] \in {"entry", "wait_check", "ipc_back", "fin"}
          /\ peer[t] # t
          /\ regs[t] = "ipc_back" => peer[t] # D
          /\ tls[t].typ = "sec" => tls[t].src # D
    /\ params.op \in {"send", "close"} => params.task \in Svc
    /\ params.typ = "sec" => params.src # D /\ params.op = "send"

(* The dispatcher is inside the SMC that returned to the non-secure world.  *)
InNonSecure ==
    /\ cur = D /\ pc = "ret" /\ ready = <<>> /\ NoSleeper
    /\ valid <=> smc # NoCall

(* The dispatcher runs: a command, a reply, a queued task or a sleeping one *)
(* is in flight, never two of them.                                         *)
InDispatcher ==
    /\ cur = D /\ smc # NoCall
    /\ pc \in {"loop", "close2", "sched", "after", "resumed", "die"}
    /\ ~(valid /\ api.set) /\ (pc = "loop" => ~api.set)
    /\ pc \in {"close2", "die"} => ~valid /\ ~api.set
    /\ pc = "close2" => params.op = "close"
    /\ \/ ready = <<>> /\ NoSleeper
       \/ /\ ~valid /\ ~api.set /\ pc \notin {"close2", "die"}
          /\ \/ NoSleeper /\ \E t \in tasks \ {D} : ready = <<t>>
             \/ ready = <<>> /\ \E t \in Svc : Sleeper(t) /\ regs[t] = "fin"

(* A service task runs, with the dispatcher queued behind it.               *)
InTask ==
    /\ cur \in tasks \ {D} /\ smc # NoCall /\ ~valid
    /\ pc \in TPcs /\ regs[D] # "loop"
    /\ api.set => pc = "wait_yield"
    /\ pc = "wait_yield" => state[cur] = "WAIT"
    /\ pc \in {"ipc_send", "ipc_back"} => peer[cur] # D
    /\ \/ ready = <<D>> /\ NoSleeper /\ pc \notin {"sleep_susp", "sleep_yield"}
       \/ /\ pc \in {"sleep_susp", "sleep_yield"}
          /\ \/ /\ ready = <<D>> /\ Sleeper(cur)
                /\ pc = "sleep_yield" => state[cur] = "WAIT"
             \/ ready = <<D, cur>> /\ NoSleeper

(* One thing is in flight: InNonSecure, InDispatcher and InTask are the     *)
(* only shapes the scheduler, the mailbox and the timers can be in.         *)
OneInFlight == Shape /\ (InNonSecure \/ InDispatcher \/ InTask)

(* A pending call is a service command, and so is the call on whose behalf  *)
(* anything but a reply is in flight.                                       *)
ServiceActive ==
    \/ cur # D \/ ready # <<>> \/ ~NoSleeper
    \/ valid /\ params.op \in {"send", "resume"}
    \/ api.set /\ api.val = "pending" /\ pc # "ret"

ServiceCall ==
    /\ \A c \in pend \cup {smc} : c < nextCall
    /\ \A c \in pend : target[c] \in Svc
    /\ (smc # NoCall /\ ServiceActive) => target[smc] \in Svc

(* The inductive invariant, with TypeOK: one thing is in flight, and what is *)
(* in flight or pending belongs to a service command.                        *)
KernelInv == OneInFlight /\ ServiceCall

-----------------------------------------------------------------------------
(* Liveness *)

(* Every SMC returns to the non-secure world. *)
SmcReturns == smc # NoCall ~> smc = NoCall

(* Every command that went pending gets its result. *)
PendingAnswered == \A c \in Calls : c \in pend ~> c \notin pend
=============================================================================
