------------------------- MODULE KernelCallProofs -------------------------
(***************************************************************************)
(* From the non-secure call to its answer: whose reply is in the slot,      *)
(* which command a pending task belongs to, and that the kernel keeps the   *)
(* promise of TrustedCall.  Each result names the client lapses and faults  *)
(* it excludes.                                                             *)
(***************************************************************************)
EXTENDS SecureKernelProofs, KernelCalls

(* A client never sends to a session whose command is pending. *)
NoOverlap == "overlap" \notin Lapses \/ "busy" \notin Lapses

(* A client never closes a session whose command is pending. *)
NoPendingClose == "close_pending" \notin Lapses \/ "busy" \notin Lapses

(* The descriptors of commands and notifications can always be mapped. *)
NoMapFault == "map" \notin Faults

(* No call is made while a command is pending, and no signal ends a wait. *)
Patient == "busy" \notin Lapses /\ "signal" \notin Lapses

-----------------------------------------------------------------------------
(* Identifiers are handed out once, and the sessions that tasks open for    *)
(* themselves are not sessions of clients.                                  *)
SessionsApart ==
    /\ \A c \in Calls : target[c] < nextId
    /\ \A t \in opened : t < nextId
    /\ api.sess < nextId
    /\ \A t \in Svc :
          /\ peer[t] < nextId
          /\ peer[t] # D => /\ peer[t] \notin opened /\ peer[t] # api.sess
                            /\ \A c \in Calls : target[c] # peer[t]

(* The task that works for the call: the one that runs, or its caller. *)
Client(u) == IF tls[u].typ = "sec" THEN tls[u].src ELSE u

(* The command of a task is that of a call to its session. *)
CommandsMatch ==
    \A t \in Svc :
        /\ tls[t].call < nextCall
        /\ tls[t].call # NoCall => target[tls[t].call] = t
        /\ tls[t].typ = "sec" => tls[t].call = NoCall

(* What params_stack holds is for the call that is inside. *)
MailboxMatches ==
    /\ valid /\ params.typ = "ns" =>
          /\ params.call = smc
          /\ params.op \in {"send", "resume"} => params.task = target[smc]
          /\ params.op \notin {"send", "resume"} => target[smc] = D
          /\ params.op = "resume" => smc \in pend
    /\ IpcPosted => params.call = NoCall /\ params.src = target[smc]
    /\ pc = "close2" => params.call = smc /\ target[smc] = D

(* The task that is active works for the session of the call. *)
TaskMatches == \A u \in tasks \ {D} : Active(u) => Client(u) = target[smc]

(* Calls, commands, mailbox and tasks agree on the session they are for. *)
SessionInv == SessionsApart /\ CommandsMatch /\ MailboxMatches /\ TaskMatches

-----------------------------------------------------------------------------
(* Whose command it is: the reply in the slot, the command in progress and  *)
(* the command of every task with a pending call are those of their calls.  *)
Replying == api.set /\ pc # "ret"

(* The last command task t took is that of the call c. *)
Serves(t, c) == tls[t].typ = "ns" /\ tls[t].call = c

(* The reply in the slot is for the call that is inside; a pending reply    *)
(* means its task keeps its command.                                        *)
ReplyMatches ==
    Replying => api.call = smc /\ (api.val = "pending" => Serves(target[smc], smc))

(* Whoever is active, or has posted an IPC, works for the call that is      *)
(* inside.                                                                  *)
WorkMatches ==
    /\ \A u \in tasks \ {D} : Active(u) => Serves(Client(u), smc)
    /\ IpcPosted => Serves(params.src, smc)

(* The task of a pending call still has that call's command. *)
PendingServed == \A c \in pend : Serves(target[c], c)

(* A command is not sent to a task that a pending call still waits for. *)
SendsToFree ==
    valid /\ params.op = "send" =>
        \A c \in pend : target[c] = params.task => c = smc

(* The invariant behind ReplyIsForTheCall. *)
ReplyInv == ReplyMatches /\ WorkMatches /\ PendingServed /\ SendsToFree

-----------------------------------------------------------------------------
(* Sessions and pending commands have their tasks. *)
SessionTasks ==
    /\ opened \subseteq tasks
    /\ Replying /\ api.sess # NoTask => api.sess \in tasks
    /\ valid /\ params.op = "close" => params.task \in tasks

(* A task that is to be resumed exists and its wait queue is initialised. *)
HasWaitQueue(t) == t \in tasks /\ wq[t] # "uninit"

(* So do the tasks of the calls that are pending, or about to be. *)
WaiterTasks ==
    /\ \A c \in pend : HasWaitQueue(target[c])
    /\ Replying /\ api.val = "pending" => HasWaitQueue(target[smc])

(* A task is being destroyed. *)
Closing == params.op = "close" /\ (valid \/ pc = "close2")

(* No session and no pending call has the task that is being destroyed. *)
ClosesUnused ==
    Closing => params.task \notin opened /\ \A c \in pend : target[c] # params.task

(* The invariant behind NeverDies. *)
WaiterInv == SessionTasks /\ WaiterTasks /\ ClosesUnused /\ Alive

-----------------------------------------------------------------------------
(* An answer is the one result of the command's one execution.  A call that *)
(* is pending, or on whose behalf somebody still works, has not been        *)
(* executed; the reply in the slot is what its execution returned.          *)
Busy == valid \/ cur # D \/ ~Nobody

(* A call not yet made has no result, no answer and no session. *)
FutureFresh ==
    \A c \in Calls : c >= nextCall =>
        ran[c] = "none" /\ answer[c] = "none" /\ target[c] = D

(* A pending call was answered "pending" and, unless it is inside, has not  *)
(* been executed.                                                           *)
PendingUnexecuted ==
    \A c \in pend : answer[c] = "pending" /\ (c # smc => ran[c] = "none")

(* The call that is inside has no final answer; nor a result, while work is *)
(* left.                                                                    *)
InsideUnanswered ==
    smc # NoCall => answer[smc] \in {"none", "pending"} /\ (Busy => ran[smc] = "none")

(* The reply in the slot is the result of the execution, or says there is   *)
(* none yet.                                                                *)
ReplyIsResult ==
    Replying => IF api.val = "pending" THEN ran[smc] = "none"
                ELSE target[smc] = D \/ ran[smc] = api.val

(* The invariant behind AnswerIsResult. *)
AnswerInv ==
    FutureFresh /\ PendingUnexecuted /\ InsideUnanswered /\ ReplyIsResult /\ AnswerIsResult

-----------------------------------------------------------------------------
(* Tasks that wait for a notification, their timers and their calls, when   *)
(* clients are patient.                                                     *)
WaitPcs == {"wait_check", "wait_prep", "wait_yield"}

(* Task t runs inside sw_wait_event_async. *)
Waiting(t) == cur = t /\ pc \in WaitPcs

(* One call at most is pending, the last one made; only its resumption      *)
(* enters the secure world.                                                 *)
OnePending ==
    /\ pend \subseteq {smcCmd}
    /\ smc # NoCall => smc = smcCmd
    /\ valid /\ params.typ = "ns" /\ params.op # "resume" => pend = {}
    /\ pc = "close2" => pend = {}
    /\ Replying /\ api.val = "pending" => smc \notin pend

(* A call waits in the first round of sw_wait_event_async, and its second   *)
(* round finds the data.                                                    *)
WaitRounds ==
    cur # D =>
        /\ pc \in {"wait_check", "wait_prep"} /\ wq[cur] = "linked" => smc \in pend
        /\ pc \in {"wait_prep", "wait_yield"} => smc \notin pend
        /\ pc = "wait_yield" => api.set /\ api.val = "pending"

(* A task whose element is linked is in the wait, or has left it to the     *)
(* non-secure world: its call is pending, or is about to be.                *)
Deferred(t) ==
    \/ \E c \in pend : target[c] = t /\ (smc = NoCall \/ (valid /\ params.op = "resume"))
    \/ cur = D /\ Replying /\ api.val = "pending" /\ target[smc] = t

(* Every linked element belongs to such a task. *)
LinkedWaits ==
    \A t \in tasks \ {D} : wq[t] = "linked" =>
        Waiting(t) \/ (regs[t] = "wait_check" /\ ~Active(t) /\ Deferred(t))

(* A timer of the echo task runs only for a task that waits for its data. *)
TimersWait ==
    \A t \in Svc : echoEv[t] > 0 =>
        /\ echoEv[t] = 1 /\ ~avail[t] /\ t \in tasks
        /\ wq[t] = "linked" \/ Waiting(t)

(* The data is there before the client is told and resumes, and stays. *)
DataBeforeNotice ==
    /\ smc \in pend => avail[target[smc]]
    /\ \A c \in Calls : notify = c \/ c \in woken \/ c \in resumeId =>
          c < nextCall /\ avail[target[c]]

(* The invariant behind WaitFramesAlive. *)
WaitInv == OnePending /\ WaitRounds /\ LinkedWaits /\ TimersWait /\ DataBeforeNotice

-----------------------------------------------------------------------------
(* SessionInv is inductive, given TypeOK, KernelInv and IpcInv. *)

(* What the sets of identifiers and calls are made of. *)
LEMMA NumberFacts ==
    ASSUME TypeOK
    PROVE  /\ NoTask = -1 /\ NoCall = 0 /\ D = 0
           /\ nextId \in Int /\ nextId > 0 /\ nextCall \in Int /\ nextCall > 0
           /\ \A t \in Svc : peer[t] \in Tid /\ peer[t] \in Int /\ tls[t] \in Params
           /\ \A c \in Calls : c \in Int /\ target[c] \in Tid /\ target[c] \in Int
           /\ api.sess \in Int /\ api.call \in Calls \cup {NoCall} /\ params.call \in Int
           /\ \A t \in Svc : tls[t].call \in Calls \cup {NoCall} /\ tls[t].call \in Int
  <1> USE ConstantFacts, ConstantsAssumption
  <1>1. /\ NoTask = -1 /\ NoCall = 0 /\ D = 0
        /\ Calls \cup {NoCall} \subseteq Int /\ Tid \cup {NoTask} \subseteq Int
    BY DEF NoTask, NoCall, D, Calls, Tid
  <1>2. \A t \in Svc : peer[t] \in Tid /\ tls[t] \in Params
    BY DEF TypeOK
  <1>3. \A p \in Params : p.call \in Calls \cup {NoCall}
    BY DEF Params
  <1>4. api.sess \in Tid \cup {NoTask} /\ api.call \in Calls \cup {NoCall} /\ params \in Params
    BY DEF TypeOK, Api
  <1>5. \A c \in Calls : target[c] \in Tid
    BY DEF TypeOK
  <1>6. nextId \in Int /\ nextId > 0 /\ nextCall \in Int /\ nextCall > 0
    BY DEF TypeOK
  <1>7. \A t \in Svc : tls[t].call \in Calls \cup {NoCall} /\ tls[t].call \in Int
    BY <1>1, <1>2, <1>3
  <1>8. params.call \in Int /\ api.sess \in Int
    BY <1>1, <1>3, <1>4
  <1>9. \A c \in Calls : c \in Int /\ target[c] \in Int
    BY <1>1, <1>5
  <1> QED BY <1>1, <1>2, <1>4, <1>5, <1>6, <1>7, <1>8, <1>9

(* The steps of the dispatcher that only go on. *)
LEMMA PassEffect ==
    ASSUME TypeOK, OneInFlight,
           DispReturned \/ DispIdle \/ DispResumed \/ DispNoReply \/ DispClose
    PROVE  /\ cur = D /\ (valid' => valid)
           /\ UNCHANGED <<cur, ready, state, regs, taskVars, evVars, params, ntfVars, nsVars, ran>>
           /\ api'.sess = api.sess /\ (api'.set /\ pc' # "ret" => api' = api /\ pc # "ret")
           /\ pc' = "close2" => valid /\ ~valid' /\ params.op = "close" /\ params.typ = "ns"
           /\ pc' = "die" => valid /\ params.op = "close" /\ params.task \notin tasks
           /\ (valid' <=> valid) \/ (~valid' /\ params.op = "close" /\ params.typ = "ns")
           /\ pc # "close2"
  <1> USE DEF taskVars, evVars, mboxVars, Goto
  <1>1. CASE DispReturned \/ DispIdle
    BY <1>1 DEF DispReturned, DispIdle, TypeOK, Api
  <1>2. CASE DispResumed \/ DispNoReply
    BY <1>2 DEF DispResumed, DispNoReply
  <1>3. CASE DispClose
    <2>1. params.typ = "ns"
      BY <1>3 DEF DispClose, Command, OneInFlight, Shape, TypeOK, Params
    <2> QED BY <1>3, <2>1 DEF DispClose, Command
  <1> QED BY <1>1, <1>2, <1>3

(* The commands the dispatcher answers itself and that change no task. *)
LEMMA AnsweredEffect ==
    ASSUME TypeOK, OneInFlight,
           DispCloseFails \/ DispRegister \/ DispUnregister \/ DispOther
    PROVE  /\ cur = D /\ valid /\ ~valid' /\ params.typ = "ns" /\ Nobody /\ Nobody'
           /\ pc = "loop" /\ pc' = "sched" /\ ~api.set
           /\ NoMapFault => params.op \notin {"send", "resume"}
           /\ \E v \in {"ok", "err"} : set_secure_api_ret(v, params.call)
           /\ UNCHANGED <<cur, ready, state, regs, taskVars, evVars, params, notify, sgi,
                          nsVars, ran>>
  <1> USE DEF taskVars, evVars, ntfVars, Goto
  <1>1. /\ cur = D /\ valid /\ ~valid' /\ pc = "loop" /\ pc' = "sched"
        /\ params.typ = "ns" \/ params.op # "send"
        /\ NoMapFault => params.op \notin {"send", "resume"}
        /\ \E v \in {"ok", "err"} : set_secure_api_ret(v, params.call)
        /\ UNCHANGED <<cur, ready, state, regs, taskVars, evVars, params, notify, sgi,
                       nsVars, ran>>
    <2>1. CASE DispCloseFails
      BY <2>1 DEF DispCloseFails, Command
    <2>2. CASE DispRegister \/ DispUnregister
      BY <2>2 DEF DispRegister, DispUnregister, Command
    <2>3. CASE DispOther
      BY <2>3 DEF DispOther, Command, NoMapFault
    <2> QED BY <2>1, <2>2, <2>3
  <1>2. params.typ = "ns" /\ ~api.set
    BY <1>1 DEF OneInFlight, Shape, TypeOK, Params, InNonSecure, InDispatcher, InTask
  <1>3. Nobody /\ Nobody'
    BY <1>1, ActiveNow, ActiveStays
  <1> QED BY <1>1, <1>2, <1>3

(* At the start there is no session, no command and no call. *)
LEMMA SessionInit == Init => SessionInv
  <1> SUFFICES ASSUME Init PROVE SessionInv
    OBVIOUS
  <1> USE ConstantFacts
  <1>1. tasks \ {D} = {} /\ cur = D /\ ~valid /\ pc = "ret" /\ nextId = 1 /\ nextCall = 1
        /\ opened = {} /\ api.sess = NoTask
    BY DEF Init
  <1>2. /\ \A t \in Svc : tls[t].typ = "ns" /\ tls[t].call = NoCall /\ peer[t] = D
        /\ \A c \in Calls : target[c] = D
    BY DEF Init, NoParams
  <1> QED BY <1>1, <1>2 DEF SessionInv, SessionsApart, CommandsMatch, MailboxMatches,
                            TaskMatches, IpcPosted, NoTask, NoCall

(* A step that hands out no identifier and opens no session. *)
LEMMA ApartStays ==
    ASSUME TypeOK, SessionsApart, UNCHANGED <<nextId, target, peer>>,
           opened' \subseteq opened, api'.sess \in {api.sess, NoTask}
    PROVE  SessionsApart'
  <1>1. NoTask < nextId /\ \A t \in Svc : peer[t] # NoTask
    BY NumberFacts, ConstantFacts
  <1> QED BY <1>1 DEF SessionsApart

(* A step that starts no task, posts no command and leaves the calls alone. *)
LEMMA SessionQuiet ==
    ASSUME TypeOK, OneInFlight, SessionInv,
           UNCHANGED <<cur, ready, sleepEv, tasks, tls, peer, nextId, target, opened, smc,
                       pend, nextCall, params>>,
           api'.sess \in {api.sess, NoTask}, valid' => valid,
           pc' = "close2" => pc = "close2" \/ (valid /\ params.op = "close")
    PROVE  SessionInv'
  <1>1. SessionsApart'
    BY ApartStays DEF SessionInv
  <1>2. CommandsMatch'
    BY DEF SessionInv, CommandsMatch
  <1>3. MailboxMatches'
    <2>1. params.op = "close" => params.typ = "ns"
      BY DEF OneInFlight, Shape, TypeOK, Params
    <2> QED BY <2>1 DEF SessionInv, MailboxMatches, IpcPosted
  <1>4. TaskMatches'
    BY ActiveStays DEF SessionInv, TaskMatches, Client
  <1> QED BY <1>1, <1>2, <1>3, <1>4 DEF SessionInv

(* The steps of the dispatcher. *)
LEMMA SessionDispatch ==
    ASSUME TypeOK, KernelInv, IpcInv, SessionInv, TypeOK', Dispatch
    PROVE  SessionInv'
  <1> USE ConstantFacts DEF taskVars, evVars, mboxVars, ntfVars, nsVars, callVars, Goto, KernelInv
  <1>1. CASE \/ DispReturned \/ DispIdle \/ DispResumed \/ DispNoReply \/ DispClose
             \/ DispCloseFails \/ DispRegister \/ DispUnregister \/ DispOther
    <2>1. CASE DispReturned \/ DispIdle \/ DispResumed \/ DispNoReply \/ DispClose
      BY <2>1, PassEffect, SessionQuiet
    <2>2. CASE DispCloseFails \/ DispRegister \/ DispUnregister \/ DispOther
      <3>1. api'.sess = NoTask
        BY <2>2, AnsweredEffect DEF set_secure_api_ret
      <3> QED BY <2>2, <3>1, AnsweredEffect, SessionQuiet
    <2> QED BY <1>1, <2>1, <2>2
  <1>2. CASE DispOpen \/ DispOpenFails
    <2>1. /\ UNCHANGED <<cur, ready, sleepEv, tls, peer, target, opened, smc,
                         pend, nextCall, params>>
          /\ valid /\ ~valid' /\ pc' = "sched"
      BY <1>2 DEF DispOpen, DispOpenFails, Command
    <2>2. /\ nextId' \in Int /\ nextId \in Int
          /\ \/ nextId' = nextId + 1 /\ api'.sess = nextId
             \/ nextId' >= nextId /\ api'.sess = NoTask
      <3>1. CASE DispOpen
        BY <3>1 DEF DispOpen, create_task, TypeOK
      <3>2. CASE DispOpenFails
        BY <3>2 DEF DispOpenFails, create_task_fails, set_secure_api_ret, TypeOK
      <3> QED BY <1>2, <3>1, <3>2
    <2>3. SessionsApart'
      <3>1. /\ \A c \in Calls : target[c] \in Int /\ target[c] < nextId
            /\ \A t \in opened : t \in Int /\ t < nextId
            /\ \A t \in Svc : peer[t] \in Int /\ peer[t] < nextId /\ peer[t] # NoTask
        <4>1. \A t \in opened : t \in Int
          BY DEF TypeOK
        <4>2. \A t \in Svc : peer[t] # NoTask
          BY NumberFacts
        <4> QED BY <4>1, <4>2, NumberFacts DEF SessionInv, SessionsApart
      <3>2. NoTask < nextId' /\ nextId <= nextId'
        BY <2>2, NumberFacts
      <3> QED BY <2>1, <2>2, <3>1, <3>2 DEF SessionInv, SessionsApart
    <2>4. Nobody'
      BY <2>1, ActiveNow, ActiveStays
    <2>5. TaskMatches'
      BY <2>4 DEF TaskMatches, Nobody, TypeOK
    <2> QED BY <2>1, <2>3, <2>5 DEF SessionInv, CommandsMatch, MailboxMatches, IpcPosted
  <1>3. CASE DispClose2
    <2>1. /\ Nobody' /\ ~valid' /\ pc' = "sched"
          /\ UNCHANGED <<nextId, tls, peer, target, opened, smc, pend, nextCall>>
      BY <1>3, Close2Effect
    <2>2. api'.sess = NoTask
      BY <1>3 DEF DispClose2, set_secure_api_ret
    <2>3. TaskMatches'
      BY <2>1 DEF TaskMatches, Nobody, TypeOK
    <2> QED BY <2>1, <2>2, <2>3, ApartStays
            DEF SessionInv, CommandsMatch, MailboxMatches, IpcPosted
  <1>4. CASE DispSend
    <2>1. PICK t : t = params.task
      OBVIOUS
    <2>2. /\ Nobody /\ valid /\ params.op = "send" /\ t \in Svc /\ cur = D /\ ~valid'
          /\ pc' = "sched"
          /\ UNCHANGED <<tasks, nextId, peer, cur, sleepEv, params, api, target, opened,
                         smc, pend, nextCall>>
          /\ \/ /\ t \in tasks /\ OnlyNext(t) /\ tls' = [tls EXCEPT ![t] = params]
             \/ t \notin tasks /\ UNCHANGED <<regs, tls, ready>>
      BY <1>4, <2>1, SendEffect DEF Command
    <2>3. /\ params.typ = "ns" => params.call = smc /\ t = target[smc]
          /\ params.typ # "ns" => /\ params.typ = "sec" /\ params.call = NoCall
                                  /\ params.src = target[smc]
      BY <2>1, <2>2 DEF SessionInv, MailboxMatches, IpcPosted, TypeOK, Params
    <2>4. SessionsApart'
      BY <2>2, ApartStays DEF SessionInv
    <2>5. CASE t \notin tasks
      <3>1. Nobody'
        BY <2>2, <2>5, ActiveStays
      <3>2. TaskMatches'
        BY <3>1 DEF TaskMatches, Nobody, TypeOK
      <3> QED BY <2>2, <2>4, <2>5, <3>2 DEF SessionInv, CommandsMatch, MailboxMatches, IpcPosted
    <2>6. CASE t \in tasks
      <3>1. \A u \in Svc : tls'[u] = IF u = t THEN params ELSE tls[u]
        BY <2>2, <2>6 DEF TypeOK
      <3>2. NoCall < nextCall /\ smc < nextCall
        BY NumberFacts DEF ServiceCall
      <3>3. CommandsMatch'
        BY <2>2, <2>3, <3>1, <3>2 DEF SessionInv, CommandsMatch
      <3>4. tasks \ {D} \subseteq Svc
        BY DEF TypeOK
      <3>5. TaskMatches'
        BY <2>2, <2>3, <2>6, <3>1, <3>4 DEF TaskMatches, OnlyNext, Active, Client
      <3> QED BY <2>2, <2>4, <3>3, <3>5 DEF SessionInv, MailboxMatches, IpcPosted
    <2> QED BY <2>5, <2>6
  <1>5. ASSUME NEW t \in Svc, NEW cont, GetsCore(t, cont), Client(t) = target[smc]
        PROVE  SessionInv'
    <2>1. /\ OnlyNext(t) /\ ~valid' /\ pc' = regs[t] /\ t \in tasks
          /\ UNCHANGED <<tasks, nextId, tls, peer, params, api, target, opened, smc, pend, nextCall>>
      BY <1>5 DEF GetsCore
    <2>2. pc' # "close2"
      BY <2>1 DEF OneInFlight, Shape
    <2>3. TaskMatches'
      BY <1>5, <2>1 DEF TaskMatches, OnlyNext, Active, Client, TypeOK
    <2>4. SessionsApart'
      BY <2>1, ApartStays DEF SessionInv
    <2> QED BY <2>1, <2>2, <2>3, <2>4 DEF SessionInv, CommandsMatch, MailboxMatches, IpcPosted
  <1>6. CASE DispResume
    <2>1. /\ valid /\ params.op = "resume" /\ params.typ = "ns"
          /\ UNCHANGED <<taskVars, evVars, params, api, ntfVars, nsVars, ran>> /\ ~valid'
      BY <1>6, ResumeEffect DEF Command
    <2>2. CASE DispatcherMoves /\ pc' \in {"die", "sched"}
      BY <2>1, <2>2, SessionQuiet DEF DispatcherMoves
    <2>3. CASE GetsCore(params.task, "resumed") /\ wq[params.task] = "linked"
      <3>1. params.task \in Svc /\ params.task = target[smc] /\ tls[params.task].typ # "sec"
        BY <2>1, <2>3 DEF GetsCore, SessionInv, MailboxMatches, IpcInv, ContextsMatch
      <3> QED BY <1>5, <2>3, <3>1 DEF Client
    <2> QED BY <1>6, <2>2, <2>3, ResumeEffect
  <1>7. CASE DispSchedule
    <2>1. UNCHANGED <<taskVars, evVars, params, api, ntfVars, nsVars, ran>>
      BY <1>7 DEF DispSchedule
    <2>2. CASE DispatcherMoves /\ pc' = "after" /\ UNCHANGED <<valid, params>>
      BY <2>1, <2>2, SessionQuiet DEF DispatcherMoves
    <2>3. ASSUME NEW t \in Svc, GetsCore(t, "after"), Only(t) PROVE SessionInv'
      <3>1. Client(t) = target[smc]
        BY <2>3 DEF Only, GetsCore, SessionInv, TaskMatches
      <3> QED BY <1>5, <2>3, <3>1
    <2> QED BY <1>7, <2>2, <2>3, ScheduleEffect
  <1>8. CASE DispReply
    <2>1. /\ cur = D /\ api.set /\ pc' = "ret"
          /\ UNCHANGED <<cur, ready, sleepEv, tasks, nextId, tls, peer, valid, params, api,
                         target, nextCall>>
          /\ opened' = IF api.sess = NoTask THEN opened ELSE opened \cup {api.sess}
      BY <1>8 DEF DispReply
    <2>2. ~valid /\ Nobody /\ Nobody'
      BY <1>8, <2>1, ActiveNow, ActiveStays DEF DispReply, OneInFlight, InNonSecure, InDispatcher, InTask
    <2>3. SessionsApart'
      BY <2>1 DEF SessionInv, SessionsApart
    <2>4. TaskMatches'
      BY <2>2 DEF TaskMatches, Nobody, TypeOK
    <2> QED BY <2>1, <2>2, <2>3, <2>4 DEF SessionInv, CommandsMatch, MailboxMatches, IpcPosted
  <1> QED BY <1>1, <1>2, <1>3, <1>4, <1>6, <1>7, <1>8 DEF Dispatch

(* Nobody is active after the step, or a task that works for the call. *)
LEMMA TaskMatchesNext ==
    ASSUME TypeOK', UNCHANGED <<tls, target, smc>>,
           Nobody' \/ \E u \in Svc : OnlyNext(u) /\ Client(u) = target[smc]
    PROVE  TaskMatches'
  <1>1. tasks' \ {D} \subseteq Svc
    BY ConstantFacts DEF TypeOK
  <1>2. CASE Nobody'
    BY <1>1, <1>2 DEF TaskMatches, Nobody
  <1>3. ASSUME NEW u \in Svc, OnlyNext(u), Client(u) = target[smc] PROVE TaskMatches'
    BY <1>1, <1>3 DEF TaskMatches, OnlyNext, Active, Client
  <1> QED BY <1>2, <1>3

(* The steps of the service tasks. *)
LEMMA SessionTask ==
    ASSUME TypeOK, KernelInv, IpcInv, SessionInv, TypeOK', NEW t \in Svc, TaskStep(t)
    PROVE  SessionInv'
  <1> USE ConstantFacts DEF taskVars, evVars, mboxVars, ntfVars, nsVars, callVars, Goto, KernelInv
  <1>1. /\ cur = t /\ t \in tasks \ {D} /\ Only(t) /\ ~valid /\ Client(t) = target[smc]
        /\ InTask /\ Shape /\ smc # NoCall
        /\ UNCHANGED <<smc, opened, pend, target, nextCall>>
    BY StepOf DEF SessionInv, TaskMatches, Only
  <1>2. ASSUME UNCHANGED <<tls, nextId, peer>>, ~valid', pc' # "close2",
               api'.sess \in {api.sess, NoTask},
               Nobody' \/ \E u \in Svc : OnlyNext(u) /\ Client(u) = target[smc]
        PROVE  SessionInv'
    <2>1. SessionsApart'
      BY <1>1, <1>2, ApartStays DEF SessionInv
    <2>2. TaskMatches'
      BY <1>1, <1>2, TaskMatchesNext
    <2> QED BY <1>1, <1>2, <2>1, <2>2 DEF SessionInv, CommandsMatch, MailboxMatches, IpcPosted
  <1>3. CASE TaskSync(t) \/ TaskNoMap(t) \/ TaskNoTimer(t) \/ TaskIpcEncodeFails(t)
             \/ TaskAsync(t) \/ TaskWaitCheck(t)
    <2>1. /\ UNCHANGED <<cur, ready, sleepEv, tls, nextId, peer, valid, api>>
          /\ pc' \in {"fin", "ipc_back", "wait_check", "wait_prep"}
      <3>1. CASE TaskSync(t) \/ TaskNoMap(t) \/ TaskNoTimer(t) \/ TaskIpcEncodeFails(t)
        BY <3>1 DEF TaskSync, TaskNoMap, TaskNoTimer, TaskIpcEncodeFails
      <3>2. CASE TaskAsync(t) \/ TaskWaitCheck(t)
        BY <3>2 DEF TaskAsync, TaskWaitCheck
      <3> QED BY <1>3, <3>1, <3>2
    <2>2. OnlyNext(t)
      BY <1>1, <2>1, ActiveStays
    <2> QED BY <1>1, <1>2, <2>1, <2>2
  <1>4. CASE TaskWaitPrepare(t)
    <2>1. /\ UNCHANGED <<cur, ready, sleepEv, tls, nextId, peer, valid>>
          /\ pc' = "wait_yield" /\ api'.sess \in {api.sess, NoTask}
      BY <1>4 DEF TaskWaitPrepare, set_secure_api_ret
    <2>2. OnlyNext(t)
      BY <1>1, <2>1, ActiveStays
    <2> QED BY <1>1, <1>2, <2>1, <2>2
  <1>5. CASE TaskUsleep(t) \/ TaskSleep(t) \/ TaskSleepSuspend(t)
    <2>1. /\ OnlyNext(t) /\ pc' \in {"sleep_susp", "sleep_yield"}
          /\ UNCHANGED <<tls, nextId, peer, valid, api>>
      BY <1>5, SleepEffect
    <2> QED BY <1>1, <1>2, <2>1
  <1>6. CASE TaskSleepYield(t) \/ TaskWaitYield(t)
    <2>1. /\ OnlyNext(t) \/ Nobody'
          /\ pc' = regs[D] /\ UNCHANGED <<tls, nextId, peer, valid, api>>
      BY <1>6, SleepYieldEffect, WaitYieldEffect DEF GivesUpCore
    <2>2. pc' # "close2"
      BY <1>1, <2>1 DEF Shape
    <2> QED BY <1>1, <1>2, <2>1, <2>2
  <1>7. CASE TaskIpcConnect(t)
    <2>1. /\ UNCHANGED <<cur, ready, sleepEv, tls, valid, params, api>>
          /\ pc' \in {"ipc_send", "fin"}
          /\ \/ nextId' = nextId + 1 /\ peer' = [peer EXCEPT ![t] = nextId]
             \/ nextId' >= nextId /\ peer' = peer
      BY <1>7 DEF TaskIpcConnect, create_task, create_task_fails, TypeOK
    <2>2. OnlyNext(t)
      BY <1>1, <2>1, ActiveStays
    <2>3. SessionsApart'
      <3>1. /\ \A c \in Calls : target[c] \in Int /\ target[c] < nextId
            /\ \A u \in opened : u \in Int /\ u < nextId
            /\ api.sess \in Int /\ api.sess < nextId
            /\ \A u \in Svc : peer[u] \in Int /\ peer[u] < nextId
            /\ nextId \in Int /\ nextId' \in Int /\ nextId <= nextId'
        <4>1. \A u \in opened : u \in Int
          BY DEF TypeOK
        <4>2. nextId' \in Int /\ nextId <= nextId'
          BY <2>1, NumberFacts DEF TypeOK
        <4> QED BY <4>1, <4>2, NumberFacts DEF SessionInv, SessionsApart
      <3>2. CASE nextId' = nextId + 1 /\ peer' = [peer EXCEPT ![t] = nextId]
        <4>1. \A u \in Svc : peer'[u] = IF u = t THEN nextId ELSE peer[u]
          BY <3>2 DEF TypeOK
        <4> QED BY <1>1, <2>1, <3>1, <3>2, <4>1 DEF SessionInv, SessionsApart
      <3>3. CASE peer' = peer
        BY <1>1, <2>1, <3>1, <3>3 DEF SessionInv, SessionsApart
      <3> QED BY <2>1, <3>2, <3>3
    <2>4. TaskMatches'
      BY <1>1, <2>1, <2>2, TaskMatchesNext
    <2> QED BY <1>1, <2>1, <2>3, <2>4 DEF SessionInv, CommandsMatch, MailboxMatches, IpcPosted
  <1>8. CASE TaskIpcSend(t)
    <2>1. /\ GivesUpCore(t, "ipc_back") /\ Nobody' /\ pc = "ipc_send" /\ params'.typ = "sec"
          /\ params'.src = t /\ params'.call = NoCall
          /\ UNCHANGED <<tls, nextId, peer, api>>
      BY <1>8, IpcSendEffect
    <2>2. tls[t].typ # "sec" /\ pc' # "close2"
      BY <1>1, <2>1 DEF IpcInv, ContextsMatch, GivesUpCore, Shape
    <2>3. t = target[smc]
      BY <1>1, <2>2 DEF Client
    <2>4. SessionsApart' /\ TaskMatches'
      BY <1>1, <2>1, ApartStays, TaskMatchesNext DEF SessionInv
    <2> QED BY <1>1, <2>1, <2>2, <2>3, <2>4 DEF SessionInv, CommandsMatch, MailboxMatches, IpcPosted
  <1>9. CASE TaskIpcBack(t)
    <2>1. pc' = "fin" /\ UNCHANGED <<cur, ready, sleepEv, tls, nextId, peer, valid, api>>
      BY <1>9, IpcBackEffect
    <2>2. OnlyNext(t)
      BY <1>1, <2>1, ActiveStays
    <2> QED BY <1>1, <1>2, <2>1, <2>2
  <1>10. CASE TaskReturn(t)
    <2>1. pc' = regs[D] /\ UNCHANGED <<tls, nextId, peer, valid>>
      BY <1>10, ReturnEffect
    <2>2. pc' # "close2"
      BY <1>1, <2>1 DEF Shape
    <2>3. CASE tls[t].typ = "ns" /\ Nobody'
      <3>1. api'.sess = NoTask
        BY <1>10, <2>3 DEF TaskReturn, set_secure_api_ret
      <3> QED BY <1>1, <1>2, <2>1, <2>2, <2>3, <3>1
    <2>4. CASE tls[t].typ = "sec" /\ api' = api /\ Nobody'
      BY <1>1, <1>2, <2>1, <2>2, <2>4
    <2>5. CASE tls[t].typ = "sec" /\ api' = api /\ OnlyNext(tls[t].src)
      <3>1. Parked(tls[t].src)
        BY <1>1, <2>5, IpcFlown DEF IpcPosted
      <3>2. tls[t].src \in Svc /\ regs[tls[t].src] = "ipc_back"
        BY <3>1 DEF Parked, TypeOK
      <3>3. tls[tls[t].src].typ # "sec"
        BY <3>2 DEF IpcInv, ContextsMatch
      <3>4. Client(tls[t].src) = target[smc]
        BY <1>1, <2>5, <3>3 DEF Client
      <3> QED BY <1>1, <1>2, <2>1, <2>2, <2>5, <3>2, <3>4
    <2> QED BY <1>10, <2>3, <2>4, <2>5, ReturnEffect
  <1> QED BY <1>3, <1>4, <1>5, <1>6, <1>7, <1>8, <1>9, <1>10 DEF TaskStep

(* The timer handlers. *)
LEMMA SessionFiq ==
    ASSUME TypeOK, KernelInv, SessionInv, TypeOK', Fiq
    PROVE  SessionInv'
  <1> USE ConstantFacts DEF taskVars, evVars, mboxVars, nsVars, callVars, runVars, KernelInv
  <1>1. PICK t \in Svc : FiqSleep(t) \/ FiqEcho(t)
    BY DEF Fiq
  <1>2. CASE FiqEcho(t)
    BY <1>2, SessionQuiet DEF FiqEcho
  <1>3. CASE FiqSleep(t)
    <2>1. /\ t \in tasks \ {D} /\ Only(t) /\ OnlyNext(t) /\ ~valid
          /\ UNCHANGED <<taskVars, pc, mboxVars, nsVars>>
      BY <1>3, WakeEffect
    <2>2. Client(t) = target[smc]
      BY <2>1 DEF Only, SessionInv, TaskMatches
    <2>3. SessionsApart' /\ TaskMatches'
      BY <2>1, <2>2, ApartStays, TaskMatchesNext DEF SessionInv
    <2> QED BY <2>1, <2>3 DEF SessionInv, CommandsMatch, MailboxMatches, IpcPosted
  <1> QED BY <1>1, <1>2, <1>3

(* What the non-secure world finds, and what its steps leave alone. *)
LEMMA NonSecureEffect ==
    ASSUME TypeOK, OneInFlight, NonSecure
    PROVE  /\ cur = D /\ pc = "ret" /\ smc = NoCall /\ ~valid /\ Nobody /\ Nobody'
           /\ UNCHANGED <<taskVars, evVars, runVars, api, ran>>
  <1> USE DEF taskVars, evVars, mboxVars, runVars
  <1>1. smc = NoCall
    BY DEF NonSecure, NsOpen, NsClose, NsSend, NsRegister, NsUnregister, NsOther,
           NsIpi, NsResume, NsInterrupted, NewCall, InNs
  <1>2. InNonSecure /\ cur = D /\ pc = "ret" /\ ~valid
    BY <1>1 DEF OneInFlight, InNonSecure, InDispatcher, InTask
  <1>3. UNCHANGED <<taskVars, evVars, runVars, api, ran>>
    BY DEF NonSecure, NsOpen, NsClose, NsSend, NsRegister, NsUnregister, NsOther,
           NsIpi, NsResume, NsInterrupted, NewCall, Issue
  <1> QED BY <1>1, <1>2, <1>3, ActiveNow, ActiveStays

(* A new call, as the driver issues it. *)
NewCallEffect(op, t, k) ==
    /\ nextCall \in Calls /\ nextCall' = nextCall + 1 /\ smc' = nextCall
    /\ smcCmd' = nextCall
    /\ pend = {} \/ "busy" \in Lapses
    /\ target' = [target EXCEPT ![nextCall] = IF op = "send" THEN t ELSE D]
    /\ valid' = TRUE
    /\ params' = [typ |-> "ns", op |-> op, task |-> t, kind |-> k, call |-> nextCall, src |-> D]
    /\ UNCHANGED <<pend, woken, answer, resumeId, ntfVars>>

(* Every step of the non-secure world but the two that issue no call is a   *)
(* new call or the resumption of a pending one.                             *)
LEMMA NonSecureCases ==
    ASSUME TypeOK, NonSecure
    PROVE  \/ NsIpi \/ NsInterrupted \/ NsResume
           \/ \E op \in {"open", "register", "unregister", "other"} :
                 NewCallEffect(op, D, "sync") /\ opened' = opened
           \/ \E t \in opened : /\ NewCallEffect("close", t, "sync") /\ opened' = opened \ {t}
                                /\ PendingOn(t) = {} \/ "close_pending" \in Lapses
           \/ \E t \in opened, k \in Kinds :
                 /\ NewCallEffect("send", t, k) /\ opened' = opened
                 /\ PendingOn(t) = {} \/ "overlap" \in Lapses
                 /\ k = "async" => pend = {} \/ "two_async" \in Lapses
  <1>1. ASSUME NEW op, NEW t, NEW k, NewCall(op, t, k), UNCHANGED <<pend, woken>>
        PROVE  NewCallEffect(op, t, k)
    BY <1>1 DEF NewCall, Issue, NewCallEffect, TypeOK, Calls
  <1>2. CASE NsOpen \/ NsRegister \/ NsUnregister \/ NsOther
    BY <1>1, <1>2 DEF NsOpen, NsRegister, NsUnregister, NsOther
  <1>3. CASE NsClose
    BY <1>1, <1>3 DEF NsClose
  <1>4. CASE NsSend
    BY <1>1, <1>4 DEF NsSend
  <1> QED BY <1>2, <1>3, <1>4 DEF NonSecure

(* The steps of the non-secure world. *)
LEMMA SessionNonSecure ==
    ASSUME TypeOK, KernelInv, SessionInv, TypeOK', NonSecure
    PROVE  SessionInv'
  <1> USE ConstantFacts DEF taskVars, mboxVars, ntfVars, runVars, callVars, KernelInv
  <1>1. /\ cur = D /\ pc = "ret" /\ smc = NoCall /\ ~valid /\ Nobody /\ Nobody'
        /\ UNCHANGED <<taskVars, evVars, runVars, api, ran>>
    BY NonSecureEffect
  <1>2. TaskMatches'
    BY <1>1 DEF TaskMatches, Nobody, TypeOK
  <1>3. ASSUME NEW op, NEW t, NEW k, NewCallEffect(op, t, k), op # "resume",
               op = "send" => t \in opened, opened' \subseteq opened
        PROVE  SessionInv'
    <2>1. \A c \in Calls : target'[c] = IF c = nextCall THEN (IF op = "send" THEN t ELSE D)
                                        ELSE target[c]
      BY <1>3 DEF NewCallEffect, TypeOK
    <2>2. /\ \A u \in opened : u < nextId
          /\ D < nextId
      BY NumberFacts DEF SessionInv, SessionsApart
    <2>3. SessionsApart'
      BY <1>1, <1>3, <2>1, <2>2 DEF SessionInv, SessionsApart
    <2>4. CommandsMatch'
      <3>1. nextCall' = nextCall + 1 /\ nextCall \in Int
        BY <1>3, NumberFacts DEF NewCallEffect
      <3>2. \A u \in Svc : tls[u].call \in Calls \cup {NoCall} /\ tls[u].call \in Int
        BY NumberFacts
      <3>3. \A u \in Svc : tls[u].call < nextCall
        BY DEF SessionInv, CommandsMatch
      <3>4. \A u \in Svc : tls[u].call < nextCall' /\ tls[u].call # nextCall
        BY <3>1, <3>2, <3>3
      <3>5. tls' = tls
        BY <1>1
      <3> QED BY <2>1, <3>2, <3>4, <3>5 DEF SessionInv, CommandsMatch
    <2>5. MailboxMatches'
      BY <1>1, <1>3, <2>1 DEF MailboxMatches, IpcPosted, NewCallEffect
    <2> QED BY <1>2, <2>3, <2>4, <2>5 DEF SessionInv
  <1>4. CASE NsIpi \/ NsInterrupted
    <2>1. /\ UNCHANGED <<target, opened, nextCall, valid, params, smc>>
      BY <1>4 DEF NsIpi, NsInterrupted
    <2>2. SessionsApart'
      BY <1>1, <2>1, ApartStays DEF SessionInv
    <2> QED BY <1>1, <1>2, <2>1, <2>2 DEF SessionInv, CommandsMatch, MailboxMatches, IpcPosted
  <1>5. CASE NsResume
    <2>1. PICK c \in pend : /\ smc' = c /\ valid' = TRUE
                            /\ params'.typ = "ns" /\ params'.call = c
                            /\ params'.op \in {"send", "resume"} /\ params'.task = target[c]
                            /\ UNCHANGED <<opened, pend, target, nextCall>>
      BY <1>5 DEF NsResume, Issue
    <2>2. SessionsApart'
      BY <1>1, <2>1, ApartStays DEF SessionInv
    <2> QED BY <1>1, <1>2, <2>1, <2>2 DEF SessionInv, CommandsMatch, MailboxMatches, IpcPosted
  <1> QED BY <1>3, <1>4, <1>5, NonSecureCases

(* The inductive step. *)
LEMMA SessionStep ==
    ASSUME TypeOK, KernelInv, IpcInv, SessionInv, TypeOK', [Next]_vars
    PROVE  SessionInv'
  <1>1. CASE UNCHANGED vars
    BY <1>1, SessionQuiet DEF vars, taskVars, evVars, runVars, mboxVars, nsVars, callVars, KernelInv
  <1> QED BY <1>1, SessionDispatch, SessionTask, SessionFiq, SessionNonSecure DEF Next

(* What is in flight is in flight for the call that is inside, and no task  *)
(* opens a session that a client has or gets.                               *)
THEOREM SessionsSound == Spec => []SessionInv
  <1>1. Init => SessionInv
    BY SessionInit
  <1>2. TypeOK /\ KernelInv /\ IpcInv /\ TypeOK' /\ SessionInv /\ [Next]_vars => SessionInv'
    BY SessionStep
  <1> QED BY <1>1, <1>2, TypeCorrect, InFlight, IpcSound, PTL DEF Spec
-----------------------------------------------------------------------------
(* ReplyInv is inductive as long as clients do not overlap commands of a    *)
(* session.                                                                 *)

LEMMA ReplyInit == Init => ReplyInv
  <1> SUFFICES ASSUME Init PROVE ReplyInv
    OBVIOUS
  <1>1. tasks \ {D} = {} /\ ~valid /\ pc = "ret" /\ pend = {}
    BY DEF Init
  <1> QED BY <1>1 DEF ReplyInv, ReplyMatches, WorkMatches, PendingServed, SendsToFree,
                      Replying, IpcPosted

(* Nobody is active after the step, or a task that serves the call. *)
LEMMA WorkMatchesNext ==
    ASSUME TypeOK', UNCHANGED tls, ~IpcPosted',
           \/ Nobody'
           \/ \E u \in Svc : OnlyNext(u) /\ Serves(Client(u), smc) /\ smc' = smc
    PROVE  WorkMatches'
  <1>1. tasks' \ {D} \subseteq Svc
    BY ConstantFacts DEF TypeOK
  <1>2. CASE Nobody'
    BY <1>1, <1>2 DEF WorkMatches, Nobody
  <1>3. ASSUME NEW u \in Svc, OnlyNext(u), Serves(Client(u), smc), smc' = smc PROVE WorkMatches'
    BY <1>1, <1>3 DEF WorkMatches, OnlyNext, Active, Client, Serves
  <1> QED BY <1>2, <1>3

(* A step that starts no task and posts no command. *)
LEMMA ReplyQuiet ==
    ASSUME ReplyInv, UNCHANGED <<cur, ready, sleepEv, tasks, tls, target, smc, pend, params>>,
           valid' => valid,
           Replying' => api'.call = smc /\ (api'.val = "pending" => Serves(target[smc], smc))
    PROVE  ReplyInv'
  <1>1. ReplyMatches'
    BY DEF ReplyMatches, Serves
  <1>2. WorkMatches'
    BY ActiveStays DEF ReplyInv, WorkMatches, Client, Serves, IpcPosted
  <1>3. PendingServed' /\ SendsToFree'
    BY DEF ReplyInv, PendingServed, SendsToFree, Serves
  <1> QED BY <1>1, <1>2, <1>3 DEF ReplyInv

(* The steps of the dispatcher. *)
LEMMA ReplyDispatch ==
    ASSUME TypeOK, KernelInv, IpcInv, SessionInv, ReplyInv, TypeOK', Dispatch
    PROVE  ReplyInv'
  <1> USE ConstantFacts DEF taskVars, evVars, mboxVars, ntfVars, nsVars, callVars, Goto, KernelInv
  <1>1. CASE DispReturned \/ DispIdle \/ DispResumed \/ DispNoReply \/ DispClose
    <2>1. Replying' => Replying /\ api' = api
      BY <1>1, PassEffect DEF Replying
    <2>2. Replying' => api'.call = smc /\ (api'.val = "pending" => Serves(target[smc], smc))
      BY <2>1 DEF ReplyInv, ReplyMatches
    <2> QED BY <1>1, <2>2, PassEffect, ReplyQuiet
  <1>2. CASE DispCloseFails \/ DispRegister \/ DispUnregister \/ DispOther
    <2>1. api'.call = params.call /\ api'.val # "pending"
      BY <1>2, AnsweredEffect DEF set_secure_api_ret
    <2>2. params.call = smc
      BY <1>2, AnsweredEffect DEF SessionInv, MailboxMatches
    <2> QED BY <1>2, <2>1, <2>2, AnsweredEffect, ReplyQuiet
  <1>3. CASE DispOpen \/ DispOpenFails
    <2>1. /\ UNCHANGED <<cur, ready, sleepEv, tls, target, smc, pend>>
          /\ valid /\ ~valid' /\ params.op = "open"
          /\ api'.call = params.call /\ api'.val # "pending"
      <3>1. CASE DispOpen
        BY <3>1 DEF DispOpen, Command
      <3>2. CASE DispOpenFails
        BY <3>2 DEF DispOpenFails, Command, set_secure_api_ret
      <3> QED BY <1>3, <3>1, <3>2
    <2>2. params.typ = "ns"
      BY <2>1 DEF OneInFlight, Shape, TypeOK, Params
    <2>3. params.call = smc
      BY <2>1, <2>2 DEF SessionInv, MailboxMatches
    <2>4. Nobody'
      BY <2>1, ActiveNow, ActiveStays
    <2>5. WorkMatches'
      BY <2>1, <2>4, WorkMatchesNext DEF IpcPosted
    <2> QED BY <2>1, <2>3, <2>5 DEF ReplyInv, ReplyMatches, PendingServed, SendsToFree, Serves
  <1>4. CASE DispClose2
    <2>1. /\ Nobody' /\ ~valid' /\ UNCHANGED <<tls, target, smc, pend>>
          /\ api'.call = params.call /\ api'.val # "pending"
      BY <1>4, Close2Effect DEF set_secure_api_ret
    <2>2. WorkMatches'
      BY <2>1, WorkMatchesNext DEF IpcPosted
    <2>3. params.call = smc
      BY <1>4 DEF DispClose2, SessionInv, MailboxMatches
    <2> QED BY <2>1, <2>2, <2>3 DEF ReplyInv, ReplyMatches, PendingServed, SendsToFree, Serves
  <1>5. CASE DispSend
    <2>1. PICK t : t = params.task
      OBVIOUS
    <2>2. /\ Nobody /\ valid /\ params.op = "send" /\ t \in Svc /\ cur = D /\ ~valid'
          /\ pc' = "sched" /\ ~api.set
          /\ UNCHANGED <<tasks, cur, sleepEv, params, api, target, smc, pend>>
          /\ \/ /\ t \in tasks /\ OnlyNext(t) /\ tls' = [tls EXCEPT ![t] = params]
             \/ t \notin tasks /\ UNCHANGED <<tls, ready>>
      BY <1>5, <2>1, SendEffect DEF Command
    <2>3. ~Replying'
      BY <2>2 DEF Replying
    <2>4. CASE t \notin tasks
      BY <2>2, <2>3, <2>4, ReplyQuiet
    <2>5. CASE t \in tasks
      <3>1. \A u \in Svc : tls'[u] = IF u = t THEN params ELSE tls[u]
        BY <2>2, <2>5 DEF TypeOK
      <3>2. /\ params.typ = "ns" => params.call = smc
            /\ params.typ # "ns" => /\ params.typ = "sec" /\ params.src = target[smc]
                                    /\ params.src # t /\ params.src \in Svc
                                    /\ Serves(params.src, smc)
        <4>1. params.typ \in {"ns", "sec"}
          BY DEF TypeOK, Params
        <4>2. CASE params.typ = "ns"
          BY <2>2, <4>2 DEF SessionInv, MailboxMatches
        <4>3. CASE params.typ = "sec"
          <5>1. IpcPosted
            BY <2>2, <4>3 DEF IpcPosted
          <5>2. params.src = target[smc] /\ Serves(params.src, smc)
            BY <5>1 DEF SessionInv, MailboxMatches, ReplyInv, WorkMatches
          <5>3. params.src \in Svc /\ params.src # t
            BY <2>1, <5>1 DEF IpcInv, CallersParked, Parked, ContextsMatch, TypeOK
          <5> QED BY <4>3, <5>2, <5>3
        <4> QED BY <4>1, <4>2, <4>3
      <3>3. tasks \ {D} \subseteq Svc
        BY DEF TypeOK
      <3>4. Serves(IF params.typ = "sec" THEN params.src ELSE t, smc)'
        BY <2>2, <3>1, <3>2 DEF Serves
      <3>5. WorkMatches'
        BY <2>2, <2>5, <3>1, <3>2, <3>3 DEF WorkMatches, OnlyNext, Active, Client, Serves, IpcPosted
      <3>6. PendingServed'
        <4>1. \A c \in pend : target[c] \in Svc
          BY DEF ServiceCall
        <4>2. \A c \in pend : target[c] = t => c = smc
          BY <2>1, <2>2 DEF ReplyInv, SendsToFree
        <4> QED BY <2>2, <3>1, <3>2, <4>1, <4>2 DEF ReplyInv, PendingServed, Serves
      <3> QED BY <2>2, <2>3, <3>5, <3>6 DEF ReplyInv, ReplyMatches, SendsToFree
    <2> QED BY <2>4, <2>5
  <1>6. ASSUME NEW t \in Svc, NEW cont, GetsCore(t, cont), ~api.set, Serves(Client(t), smc)
        PROVE  ReplyInv'
    <2>1. /\ OnlyNext(t) /\ ~valid' /\ UNCHANGED <<tls, api, target, smc, pend>>
      BY <1>6 DEF GetsCore
    <2>2. WorkMatches'
      BY <1>6, <2>1, WorkMatchesNext DEF IpcPosted
    <2> QED BY <1>6, <2>1, <2>2
            DEF ReplyInv, ReplyMatches, PendingServed, SendsToFree, Serves, Replying
  <1>7. CASE DispResume
    <2>1. /\ valid /\ params.op = "resume" /\ params.typ = "ns" /\ ~api.set
          /\ UNCHANGED <<taskVars, evVars, params, api, nsVars>> /\ ~valid'
      BY <1>7, ResumeEffect DEF Command
    <2>2. CASE DispatcherMoves
      BY <2>1, <2>2, ReplyQuiet DEF DispatcherMoves, Replying
    <2>3. CASE GetsCore(params.task, "resumed")
      <3>1. params.task \in Svc /\ params.task = target[smc] /\ smc \in pend
        BY <2>1, <2>3 DEF GetsCore, SessionInv, MailboxMatches
      <3>2. Serves(Client(params.task), smc)
        BY <3>1 DEF ReplyInv, PendingServed, Serves, Client
      <3> QED BY <1>6, <2>1, <2>3, <3>1, <3>2
    <2> QED BY <1>7, <2>2, <2>3, ResumeEffect
  <1>8. CASE DispSchedule
    <2>1. UNCHANGED <<taskVars, evVars, mboxVars, ntfVars, nsVars, ran>> /\ pc = "sched"
      BY <1>8 DEF DispSchedule
    <2>2. CASE DispatcherMoves
      BY <2>1, <2>2, ReplyQuiet DEF DispatcherMoves, Replying, ReplyInv, ReplyMatches
    <2>3. ASSUME NEW t \in Svc, GetsCore(t, "after"), Only(t), ~api.set PROVE ReplyInv'
      <3>1. Serves(Client(t), smc)
        BY <2>3 DEF Only, GetsCore, ReplyInv, WorkMatches
      <3> QED BY <1>6, <2>3, <3>1
    <2> QED BY <1>8, <2>2, <2>3, ScheduleEffect
  <1>9. CASE DispReply
    <2>1. /\ cur = D /\ api.set /\ pc = "after" /\ pc' = "ret"
          /\ UNCHANGED <<cur, ready, sleepEv, tasks, tls, valid, target>>
          /\ pend' \subseteq pend \cup {smc}
          /\ smc \in pend' => smc \in pend \/ api.val = "pending"
      BY <1>9 DEF DispReply
    <2>2. ~valid /\ Nobody'
      BY <1>9, <2>1, ActiveNow, ActiveStays DEF OneInFlight, InNonSecure, InDispatcher, InTask
    <2>3. WorkMatches'
      BY <2>1, <2>2, WorkMatchesNext DEF IpcPosted
    <2>4. PendingServed'
      BY <2>1 DEF ReplyInv, ReplyMatches, PendingServed, Serves, Replying
    <2> QED BY <2>1, <2>2, <2>3, <2>4 DEF ReplyInv, ReplyMatches, SendsToFree, Replying
  <1> QED BY <1>1, <1>2, <1>3, <1>4, <1>5, <1>7, <1>8, <1>9 DEF Dispatch

(* The steps of the service tasks. *)
LEMMA ReplyTask ==
    ASSUME TypeOK, KernelInv, IpcInv, SessionInv, ReplyInv, TypeOK', NEW t \in Svc, TaskStep(t)
    PROVE  ReplyInv'
  <1> USE ConstantFacts DEF taskVars, evVars, mboxVars, ntfVars, nsVars, callVars, Goto, KernelInv
  <1>1. /\ cur = t /\ t \in tasks \ {D} /\ Only(t) /\ ~valid /\ Client(t) = target[smc]
        /\ Serves(Client(t), smc) /\ InTask /\ Shape
        /\ UNCHANGED <<smc, pend, target>>
    BY StepOf DEF SessionInv, TaskMatches, Only, ReplyInv, WorkMatches
  <1>2. ASSUME tls' = tls, ~valid',
               api' = api \/ (api'.call = smc /\ (api'.val = "pending" => Client(t) = t)),
               Nobody' \/ \E u \in Svc : OnlyNext(u) /\ Serves(Client(u), smc)
        PROVE  ReplyInv'
    <2>1. WorkMatches'
      BY <1>1, <1>2, WorkMatchesNext DEF IpcPosted
    <2>2. Replying' => api'.call = smc /\ (api'.val = "pending" => Serves(target[smc], smc))
      <3>1. CASE api' = api
        <4>1. api.set => Replying
          BY <1>1 DEF InTask, Replying
        <4> QED BY <3>1, <4>1 DEF ReplyInv, ReplyMatches, Replying
      <3>2. CASE api'.call = smc /\ (api'.val = "pending" => Client(t) = t)
        BY <1>1, <3>2
      <3> QED BY <1>2, <3>1, <3>2
    <2> QED BY <1>1, <1>2, <2>1, <2>2
            DEF ReplyInv, ReplyMatches, PendingServed, SendsToFree, Serves
  <1>3. CASE TaskSync(t) \/ TaskNoMap(t) \/ TaskNoTimer(t) \/ TaskIpcEncodeFails(t)
             \/ TaskAsync(t) \/ TaskWaitCheck(t) \/ TaskIpcConnect(t)
    <2>1. UNCHANGED <<cur, ready, sleepEv, tls, valid, api>>
      <3>1. CASE TaskSync(t) \/ TaskNoMap(t) \/ TaskNoTimer(t) \/ TaskIpcEncodeFails(t)
        BY <3>1 DEF TaskSync, TaskNoMap, TaskNoTimer, TaskIpcEncodeFails
      <3>2. CASE TaskAsync(t) \/ TaskWaitCheck(t)
        BY <3>2 DEF TaskAsync, TaskWaitCheck
      <3>3. CASE TaskIpcConnect(t)
        BY <3>3 DEF TaskIpcConnect
      <3> QED BY <1>3, <3>1, <3>2, <3>3
    <2>2. OnlyNext(t)
      BY <1>1, <2>1, ActiveStays
    <2> QED BY <1>1, <1>2, <2>1, <2>2
  <1>4. CASE TaskWaitPrepare(t)
    <2>1. /\ UNCHANGED <<cur, ready, sleepEv, tls, valid>> /\ pc = "wait_prep"
          /\ api' = api \/ api'.call = tls[t].call
      BY <1>4 DEF TaskWaitPrepare, set_secure_api_ret, Running
    <2>2. OnlyNext(t)
      BY <1>1, <2>1, ActiveStays
    <2>3. Client(t) = t
      BY <1>1, <2>1 DEF IpcInv, ContextsMatch, Client
    <2>4. tls[t].call = smc
      BY <1>1, <2>3 DEF Serves
    <2> QED BY <1>1, <1>2, <2>1, <2>2, <2>3, <2>4
  <1>5. CASE TaskUsleep(t) \/ TaskSleep(t) \/ TaskSleepSuspend(t)
    <2>1. OnlyNext(t) /\ UNCHANGED <<tls, valid, api>>
      BY <1>5, SleepEffect
    <2> QED BY <1>1, <1>2, <2>1
  <1>6. CASE TaskSleepYield(t) \/ TaskWaitYield(t)
    <2>1. (OnlyNext(t) \/ Nobody') /\ UNCHANGED <<tls, valid, api>>
      BY <1>6, SleepYieldEffect, WaitYieldEffect
    <2> QED BY <1>1, <1>2, <2>1
  <1>7. CASE TaskIpcSend(t)
    <2>1. /\ Nobody' /\ pc = "ipc_send" /\ params'.typ = "sec" /\ params'.src = t
          /\ params'.task = peer[t] /\ peer[t] \in Svc /\ ~api.set
          /\ UNCHANGED <<tls, api>>
      BY <1>7, IpcSendEffect
    <2>2. Client(t) = t
      BY <1>1, <2>1 DEF IpcInv, ContextsMatch, Client
    <2>3. Serves(t, smc)
      BY <1>1, <2>2
    <2>4. tasks' \ {D} \subseteq Svc
      BY DEF TypeOK
    <2>5. WorkMatches'
      BY <1>1, <2>1, <2>3, <2>4 DEF WorkMatches, Nobody, Serves
    <2>6. SendsToFree'
      <3>1. \A c \in pend : c \in Calls /\ target[c] # peer[t]
        BY <2>1 DEF TypeOK, SessionInv, SessionsApart
      <3> QED BY <1>1, <2>1, <3>1 DEF SendsToFree
    <2> QED BY <1>1, <2>1, <2>5, <2>6 DEF ReplyInv, ReplyMatches, PendingServed, Serves, Replying
  <1>8. CASE TaskIpcBack(t)
    <2>1. UNCHANGED <<cur, ready, sleepEv, tls, valid, api>>
      BY <1>8, IpcBackEffect
    <2>2. OnlyNext(t)
      BY <1>1, <2>1, ActiveStays
    <2> QED BY <1>1, <1>2, <2>1, <2>2
  <1>9. CASE TaskReturn(t)
    <2>1. UNCHANGED <<tls, valid>>
      BY <1>9, ReturnEffect
    <2>2. CASE tls[t].typ = "ns" /\ Nobody'
      <3>1. api'.call = tls[t].call /\ api'.val # "pending"
        BY <1>9, <2>2 DEF TaskReturn, set_secure_api_ret
      <3>2. tls[t].call = smc
        BY <1>1, <2>2 DEF Client, Serves
      <3> QED BY <1>1, <1>2, <2>1, <2>2, <3>1, <3>2
    <2>3. CASE tls[t].typ = "sec" /\ api' = api /\ Nobody'
      BY <1>1, <1>2, <2>1, <2>3
    <2>4. CASE tls[t].typ = "sec" /\ api' = api /\ OnlyNext(tls[t].src) /\ tls[t].src \in tasks \ {D}
      <3>1. Serves(tls[t].src, smc)
        BY <1>1, <2>4 DEF Client
      <3>2. Serves(Client(tls[t].src), smc) /\ tls[t].src \in Svc
        BY <2>4, <3>1 DEF Client, Serves, TypeOK
      <3> QED BY <1>1, <1>2, <2>1, <2>4, <3>2
    <2> QED BY <1>9, <2>2, <2>3, <2>4, ReturnEffect
  <1> QED BY <1>3, <1>4, <1>5, <1>6, <1>7, <1>8, <1>9 DEF TaskStep

(* The timer handlers. *)
LEMMA ReplyFiq ==
    ASSUME TypeOK, KernelInv, ReplyInv, TypeOK', Fiq
    PROVE  ReplyInv'
  <1> USE ConstantFacts DEF taskVars, evVars, mboxVars, nsVars, callVars, runVars, KernelInv
  <1>1. PICK t \in Svc : FiqSleep(t) \/ FiqEcho(t)
    BY DEF Fiq
  <1>2. CASE FiqEcho(t)
    BY <1>2, ReplyQuiet DEF FiqEcho, ReplyInv, ReplyMatches, Replying
  <1>3. CASE FiqSleep(t)
    <2>1. /\ t \in tasks \ {D} /\ Only(t) /\ OnlyNext(t) /\ ~valid
          /\ UNCHANGED <<taskVars, pc, mboxVars, nsVars>>
      BY <1>3, WakeEffect
    <2>2. Serves(Client(t), smc)
      BY <2>1 DEF Only, ReplyInv, WorkMatches
    <2>3. WorkMatches'
      BY <2>1, <2>2, WorkMatchesNext DEF IpcPosted
    <2> QED BY <2>1, <2>3 DEF ReplyInv, ReplyMatches, PendingServed, SendsToFree, Serves, Replying
  <1> QED BY <1>1, <1>2, <1>3

(* The steps of the non-secure world.  A resumed call is the only pending   *)
(* one of its session, for the task serves one call.                        *)
LEMMA ReplyNonSecure ==
    ASSUME NoOverlap, TypeOK, KernelInv, ReplyInv, TypeOK', NonSecure
    PROVE  ReplyInv'
  <1> USE ConstantFacts DEF taskVars, mboxVars, ntfVars, runVars, callVars, KernelInv
  <1>1. /\ cur = D /\ pc = "ret" /\ smc = NoCall /\ ~valid /\ Nobody'
        /\ UNCHANGED <<taskVars, evVars, runVars, api, ran>>
    BY NonSecureEffect
  <1>2. ~Replying'
    BY <1>1 DEF Replying
  <1>3. ASSUME ~IpcPosted' PROVE WorkMatches'
    BY <1>1, <1>3, WorkMatchesNext
  <1>4. ASSUME NEW op, NEW t, NEW k, NewCallEffect(op, t, k), op = "send" => PendingOn(t) = {} \/ pend = {}
        PROVE  ReplyInv'
    <2>1. \A c \in Calls : c # nextCall => target'[c] = target[c]
      BY <1>4 DEF NewCallEffect, TypeOK
    <2>2. \A c \in pend : c \in Calls /\ c # nextCall
      BY NumberFacts DEF ServiceCall, TypeOK
    <2>3. PendingServed'
      BY <1>1, <1>4, <2>1, <2>2 DEF NewCallEffect, ReplyInv, PendingServed, Serves
    <2>4. SendsToFree'
      BY <1>4, <2>1, <2>2 DEF NewCallEffect, SendsToFree, PendingOn
    <2>5. WorkMatches'
      BY <1>3, <1>4 DEF NewCallEffect, IpcPosted
    <2> QED BY <1>2, <2>3, <2>4, <2>5 DEF ReplyInv, ReplyMatches
  <1>5. CASE NsIpi \/ NsInterrupted
    <2>1. UNCHANGED <<target, valid, params, smc>> /\ pend' \subseteq pend
      BY <1>5 DEF NsIpi, NsInterrupted
    <2>2. WorkMatches'
      BY <1>1, <1>3, <2>1 DEF IpcPosted
    <2> QED BY <1>1, <1>2, <2>1, <2>2 DEF ReplyInv, ReplyMatches, PendingServed, SendsToFree, Serves
  <1>6. CASE NsResume
    <2>1. PICK c \in pend : /\ smc' = c /\ valid' = TRUE
                            /\ params'.typ = "ns" /\ params'.task = target[c]
                            /\ UNCHANGED <<pend, target>>
      BY <1>6 DEF NsResume, Issue
    <2>2. WorkMatches'
      BY <1>3, <2>1 DEF IpcPosted
    <2>3. PendingServed' /\ SendsToFree'
      BY <1>1, <2>1 DEF ReplyInv, PendingServed, SendsToFree, Serves
    <2> QED BY <1>2, <2>2, <2>3 DEF ReplyInv, ReplyMatches
  <1>7. CASE \E op \in {"open", "register", "unregister", "other"} :
                 NewCallEffect(op, D, "sync") /\ opened' = opened
    BY <1>4, <1>7
  <1>8. CASE \E t \in opened : NewCallEffect("close", t, "sync")
    BY <1>4, <1>8
  <1>9. CASE \E t \in opened, k \in Kinds :
                 /\ NewCallEffect("send", t, k)
                 /\ PendingOn(t) = {} \/ "overlap" \in Lapses
    <2>1. PICK t \in opened, k \in Kinds : /\ NewCallEffect("send", t, k)
                                           /\ PendingOn(t) = {} \/ "overlap" \in Lapses
      BY <1>9
    <2>2. PendingOn(t) = {} \/ pend = {}
      BY <2>1 DEF NoOverlap, NewCallEffect
    <2> QED BY <1>4, <2>1, <2>2
  <1> QED BY <1>5, <1>6, <1>7, <1>8, <1>9, NonSecureCases

(* The inductive step. *)
LEMMA ReplyStep ==
    ASSUME NoOverlap, TypeOK, KernelInv, IpcInv, SessionInv, ReplyInv, TypeOK', [Next]_vars
    PROVE  ReplyInv'
  <1>1. CASE UNCHANGED vars
    BY <1>1, ReplyQuiet DEF vars, taskVars, evVars, runVars, mboxVars, nsVars, callVars,
                            ReplyInv, ReplyMatches, Replying
  <1> QED BY <1>1, ReplyDispatch, ReplyTask, ReplyFiq, ReplyNonSecure DEF Next

(* With clients that do not overlap commands of a session, the reply in the *)
(* slot, the task that runs and every pending task are those of their call. *)
THEOREM RepliesSound ==
    ASSUME NoOverlap
    PROVE  Spec => []ReplyInv
  <1>1. Init => ReplyInv
    BY ReplyInit
  <1>2. TypeOK /\ KernelInv /\ IpcInv /\ SessionInv /\ TypeOK' /\ ReplyInv /\ [Next]_vars
        => ReplyInv'
    BY ReplyStep
  <1> QED BY <1>1, <1>2, TypeCorrect, InFlight, IpcSound, SessionsSound, PTL DEF Spec

(* The dispatcher never returns the reply of one call to another. *)
THEOREM ReplyGoesToItsCall ==
    ASSUME NoOverlap
    PROVE  Spec => []ReplyIsForTheCall
  <1>1. ReplyInv => ReplyIsForTheCall
    BY DEF ReplyInv, ReplyMatches, Replying, ReplyIsForTheCall
  <1> QED BY <1>1, RepliesSound, PTL
-----------------------------------------------------------------------------
(* WaiterInv is inductive as long as no client closes a session whose       *)
(* command is pending.                                                      *)

LEMMA WaiterInit == Init => WaiterInv
  <1> SUFFICES ASSUME Init PROVE WaiterInv
    OBVIOUS
  <1>1. ~valid /\ pc = "ret" /\ pend = {} /\ opened = {}
    BY DEF Init
  <1> QED BY <1>1 DEF WaiterInv, SessionTasks, WaiterTasks, ClosesUnused, Closing, Replying, Alive

(* A step inside the secure world that destroys no task a client has a      *)
(* session or a pending command with.                                       *)
LEMMA WaiterNext ==
    ASSUME WaiterInv, UNCHANGED <<opened, pend, target, smc>>, pc' # "die",
           \A u \in tasks \ tasks' : u \notin opened /\ \A c \in pend : target[c] # u,
           \A u \in tasks : wq[u] # "uninit" => wq'[u] # "uninit",
           valid' /\ params'.op = "close" => valid /\ params' = params /\ tasks \subseteq tasks',
           Closing' => Closing /\ params' = params,
           Replying' =>
              \/ Replying /\ api' = api /\ tasks \subseteq tasks'
              \/ /\ api'.sess \in tasks' \cup {NoTask}
                 /\ api'.val = "pending" => target[smc] \in tasks' /\ wq'[target[smc]] # "uninit"
    PROVE  WaiterInv'
  <1>1. SessionTasks'
    BY DEF WaiterInv, SessionTasks
  <1>2. WaiterTasks'
    BY DEF WaiterInv, WaiterTasks, HasWaitQueue
  <1>3. ClosesUnused'
    BY DEF WaiterInv, ClosesUnused
  <1> QED BY <1>1, <1>2, <1>3 DEF WaiterInv, Alive

(* The steps of the dispatcher. *)
LEMMA WaiterDispatch ==
    ASSUME TypeOK, KernelInv, IpcInv, SessionInv, WaiterInv, TypeOK', Dispatch
    PROVE  WaiterInv'
  <1> USE ConstantFacts DEF taskVars, evVars, mboxVars, ntfVars, nsVars, callVars, Goto, KernelInv
  <1>1. CASE DispReturned \/ DispIdle \/ DispResumed \/ DispNoReply \/ DispClose
    <2>1. /\ UNCHANGED <<tasks, wq, params, opened, pend, target, smc>>
          /\ valid' => valid
          /\ Replying' => Replying /\ api' = api
      BY <1>1, PassEffect DEF Replying
    <2>2. pc' # "die"
      BY <1>1, PassEffect DEF WaiterInv, SessionTasks
    <2>3. Closing' => Closing
      BY <1>1, <2>1, PassEffect DEF Closing
    <2> QED BY <2>1, <2>2, <2>3, WaiterNext
  <1>2. CASE DispCloseFails \/ DispRegister \/ DispUnregister \/ DispOther
    <2>1. api'.val # "pending" /\ api'.sess = NoTask
      BY <1>2, AnsweredEffect DEF set_secure_api_ret
    <2>2. ~Closing' /\ ~valid' /\ pc' # "die" /\ UNCHANGED <<tasks, wq, opened, pend, target, smc>>
      BY <1>2, AnsweredEffect DEF Closing
    <2> QED BY <2>1, <2>2, WaiterNext
  <1>3. CASE DispOpen \/ DispOpenFails
    <2>1. /\ UNCHANGED <<target, smc, pend, opened>> /\ ~valid' /\ pc' = "sched"
          /\ api'.val # "pending" /\ tasks \subseteq tasks'
          /\ api'.sess \in tasks' \cup {NoTask}
          /\ wq' = wq \/ wq' = [wq EXCEPT ![nextId] = "uninit"]
      <3>1. CASE DispOpen
        BY <3>1 DEF DispOpen, Command, create_task
      <3>2. CASE DispOpenFails
        BY <3>2 DEF DispOpenFails, Command, create_task_fails, set_secure_api_ret
      <3> QED BY <1>3, <3>1, <3>2
    <2>2. nextId \notin tasks
      BY NumberFacts DEF OneInFlight, Shape
    <2>3. \A u \in tasks : wq'[u] = wq[u]
      BY <2>1, <2>2 DEF TypeOK
    <2> QED BY <2>1, <2>3, WaiterNext DEF Closing
  <1>4. CASE DispClose2
    <2>1. /\ ~valid' /\ pc' = "sched" /\ params.op = "close" /\ pc = "close2"
          /\ tasks' = tasks \ {params.task}
          /\ UNCHANGED <<target, smc, pend, opened, wq>>
      BY <1>4, Close2Effect DEF DispClose2
    <2>2. api'.sess = NoTask /\ api'.val # "pending"
      BY <1>4, Close2Effect DEF set_secure_api_ret
    <2>3. params.task \notin opened /\ \A c \in pend : target[c] # params.task
      BY <2>1 DEF WaiterInv, ClosesUnused, Closing
    <2> QED BY <2>1, <2>2, <2>3, WaiterNext DEF Closing
  <1>5. CASE DispSend
    <2>1. /\ ~valid' /\ pc' = "sched" /\ ~api.set
          /\ UNCHANGED <<tasks, api, target, smc, pend, opened, wq>>
      BY <1>5, SendEffect
    <2> QED BY <2>1, WaiterNext DEF Closing, Replying
  <1>6. ASSUME NEW t \in Svc, NEW cont, GetsCore(t, cont), ~api.set
        PROVE  WaiterInv'
    <2>1. /\ ~valid' /\ pc' = regs[t] /\ UNCHANGED <<tasks, wq, api, target, smc, pend, opened>>
      BY <1>6 DEF GetsCore
    <2>2. pc' \notin {"die", "close2"}
      BY <2>1 DEF OneInFlight, Shape
    <2> QED BY <1>6, <2>1, <2>2, WaiterNext DEF Closing, Replying
  <1>7. CASE DispResume
    <2>1. /\ valid /\ params.op = "resume" /\ params.typ = "ns" /\ ~api.set
          /\ UNCHANGED <<taskVars, evVars, params, api, nsVars>> /\ ~valid'
      BY <1>7, ResumeEffect DEF Command
    <2>2. smc \in pend /\ params.task = target[smc]
      BY <2>1 DEF SessionInv, MailboxMatches
    <2>3. params.task \in tasks /\ wq[params.task] # "uninit"
      BY <2>2 DEF WaiterInv, WaiterTasks, HasWaitQueue
    <2>4. CASE pc' = "sched"
      BY <2>1, <2>4, WaiterNext DEF Closing, Replying
    <2>5. CASE GetsCore(params.task, "resumed")
      <3>1. params.task \in Svc
        BY <2>5 DEF GetsCore
      <3> QED BY <1>6, <2>1, <2>5, <3>1
    <2> QED BY <1>7, <2>3, <2>4, <2>5, ResumeEffect
  <1>8. CASE DispSchedule
    <2>1. UNCHANGED <<taskVars, evVars, mboxVars, ntfVars, nsVars, ran>> /\ pc = "sched"
      BY <1>8 DEF DispSchedule
    <2>2. CASE pc' = "after"
      BY <2>1, <2>2, WaiterNext DEF Closing, Replying
    <2>3. ASSUME NEW t \in Svc, GetsCore(t, "after"), ~api.set PROVE WaiterInv'
      BY <1>6, <2>3
    <2> QED BY <1>8, <2>2, <2>3, ScheduleEffect
  <1>9. CASE DispReply
    <2>1. /\ cur = D /\ api.set /\ pc = "after" /\ pc' = "ret"
          /\ UNCHANGED <<tasks, wq, valid, target>>
          /\ pend' \subseteq pend \cup {smc}
          /\ smc \in pend' => smc \in pend \/ api.val = "pending"
          /\ opened' = IF api.sess = NoTask THEN opened ELSE opened \cup {api.sess}
      BY <1>9 DEF DispReply
    <2>2. ~valid
      BY <1>9, <2>1 DEF OneInFlight, InNonSecure, InDispatcher, InTask
    <2>3. SessionTasks'
      BY <2>1, <2>2 DEF WaiterInv, SessionTasks, Replying
    <2>4. WaiterTasks'
      BY <2>1 DEF WaiterInv, WaiterTasks, HasWaitQueue, Replying
    <2> QED BY <2>1, <2>2, <2>3, <2>4 DEF WaiterInv, ClosesUnused, Closing, Alive
  <1> QED BY <1>1, <1>2, <1>3, <1>4, <1>5, <1>7, <1>8, <1>9 DEF Dispatch

(* The steps of the service tasks. *)
LEMMA WaiterTask ==
    ASSUME TypeOK, KernelInv, IpcInv, SessionInv, WaiterInv, TypeOK', NEW t \in Svc, TaskStep(t)
    PROVE  WaiterInv'
  <1> USE ConstantFacts DEF taskVars, evVars, mboxVars, ntfVars, nsVars, callVars, Goto, KernelInv
  <1>1. /\ cur = t /\ t \in tasks \ {D} /\ ~valid /\ Client(t) = target[smc]
        /\ InTask /\ Shape
        /\ UNCHANGED <<smc, pend, target, opened>>
    BY StepOf DEF SessionInv, TaskMatches, Only
  <1>2. api.set => Replying
    BY <1>1 DEF InTask, Replying
  <1>3. regs[D] \notin {"die", "close2"}
    BY <1>1 DEF Shape
  <1>4. CASE TaskSync(t) \/ TaskNoMap(t) \/ TaskNoTimer(t) \/ TaskIpcEncodeFails(t)
             \/ TaskAsync(t) \/ TaskWaitCheck(t)
    <2>1. /\ UNCHANGED <<tasks, valid, api>> /\ pc' \notin {"die", "close2"}
          /\ wq' = wq \/ wq' = [wq EXCEPT ![t] = "empty"]
      <3>1. CASE TaskSync(t) \/ TaskNoMap(t) \/ TaskNoTimer(t) \/ TaskIpcEncodeFails(t)
        BY <3>1 DEF TaskSync, TaskNoMap, TaskNoTimer, TaskIpcEncodeFails
      <3>2. CASE TaskAsync(t) \/ TaskWaitCheck(t)
        BY <3>2 DEF TaskAsync, TaskWaitCheck
      <3> QED BY <1>4, <3>1, <3>2
    <2>2. \A u \in tasks : wq[u] # "uninit" => wq'[u] # "uninit"
      BY <2>1 DEF TypeOK
    <2> QED BY <1>1, <1>2, <2>1, <2>2, WaiterNext DEF Closing, Replying
  <1>5. CASE TaskWaitPrepare(t)
    <2>1. /\ UNCHANGED <<tasks, valid>> /\ pc = "wait_prep" /\ pc' = "wait_yield"
          /\ api' = api \/ api'.sess = NoTask
          /\ wq' = [wq EXCEPT ![t] = "linked"]
      BY <1>5 DEF TaskWaitPrepare, set_secure_api_ret, Running
    <2>2. \A u \in tasks : wq'[u] = IF u = t THEN "linked" ELSE wq[u]
      BY <2>1 DEF TypeOK
    <2>3. Client(t) = t
      BY <1>1, <2>1 DEF IpcInv, ContextsMatch, Client
    <2> QED BY <1>1, <1>2, <2>1, <2>2, <2>3, WaiterNext DEF Closing, Replying
  <1>6. CASE TaskUsleep(t) \/ TaskSleep(t) \/ TaskSleepSuspend(t)
    <2>1. UNCHANGED <<tasks, wq, valid, api>> /\ pc' \notin {"die", "close2"}
      BY <1>6, SleepEffect
    <2> QED BY <1>1, <1>2, <2>1, WaiterNext DEF Closing, Replying
  <1>7. CASE TaskSleepYield(t) \/ TaskWaitYield(t)
    <2>1. UNCHANGED <<tasks, wq, valid, api>> /\ pc' = regs[D]
      BY <1>7, SleepYieldEffect, WaitYieldEffect DEF GivesUpCore
    <2> QED BY <1>1, <1>2, <1>3, <2>1, WaiterNext DEF Closing, Replying
  <1>8. CASE TaskIpcConnect(t)
    <2>1. /\ UNCHANGED <<valid, api>> /\ tasks \subseteq tasks' /\ pc' \in {"ipc_send", "fin"}
          /\ wq' = wq \/ wq' = [wq EXCEPT ![nextId] = "uninit"]
      BY <1>8 DEF TaskIpcConnect, create_task, create_task_fails
    <2>2. nextId \notin tasks
      BY <1>1, NumberFacts DEF Shape
    <2>3. \A u \in tasks : wq'[u] = wq[u]
      BY <2>1, <2>2 DEF TypeOK
    <2> QED BY <1>1, <1>2, <2>1, <2>3, WaiterNext DEF Closing, Replying
  <1>9. CASE TaskIpcSend(t)
    <2>1. /\ pc' = regs[D] /\ params'.op = "send" /\ UNCHANGED <<tasks, wq, api>>
      BY <1>9, IpcSendEffect DEF GivesUpCore
    <2> QED BY <1>1, <1>2, <1>3, <2>1, WaiterNext DEF Closing, Replying
  <1>10. CASE TaskIpcBack(t)
    <2>1. /\ pc = "ipc_back" /\ pc' = "fin" /\ peer[t] \in Svc /\ tasks' = tasks \ {peer[t]}
          /\ UNCHANGED <<wq, valid, api>>
      BY <1>10, IpcBackEffect
    <2>2. ~api.set
      BY <1>1, <2>1 DEF InTask
    <2>3. peer[t] \notin opened /\ \A c \in pend : target[c] # peer[t]
      BY <2>1 DEF SessionInv, SessionsApart, TypeOK
    <2> QED BY <1>1, <2>1, <2>2, <2>3, WaiterNext DEF Closing, Replying
  <1>11. CASE TaskReturn(t)
    <2>1. pc' = regs[D] /\ UNCHANGED <<tasks, wq, valid>>
      BY <1>11, ReturnEffect
    <2>2. api' = api \/ (api'.sess = NoTask /\ api'.val # "pending")
      BY <1>11 DEF TaskReturn, set_secure_api_ret
    <2> QED BY <1>1, <1>2, <1>3, <2>1, <2>2, WaiterNext DEF Closing, Replying
  <1> QED BY <1>4, <1>5, <1>6, <1>7, <1>8, <1>9, <1>10, <1>11 DEF TaskStep

(* The timer handlers. *)
LEMMA WaiterFiq ==
    ASSUME TypeOK, KernelInv, WaiterInv, Fiq
    PROVE  WaiterInv'
  <1> USE DEF taskVars, evVars, mboxVars, nsVars, callVars, runVars, KernelInv
  <1>1. PICK t \in Svc : FiqSleep(t) \/ FiqEcho(t)
    BY DEF Fiq
  <1>2. UNCHANGED <<tasks, wq, pc, mboxVars, nsVars>>
    BY <1>1, WakeEffect DEF FiqEcho
  <1> QED BY <1>2, WaiterNext DEF Closing, Replying, WaiterInv, Alive

(* The steps of the non-secure world. *)
LEMMA WaiterNonSecure ==
    ASSUME NoPendingClose, TypeOK, KernelInv, WaiterInv, NonSecure
    PROVE  WaiterInv'
  <1> USE ConstantFacts DEF taskVars, mboxVars, ntfVars, runVars, callVars, KernelInv
  <1>1. /\ pc = "ret" /\ pc' = "ret" /\ smc = NoCall /\ ~valid /\ UNCHANGED <<tasks, wq, api>>
    BY NonSecureEffect
  <1>2. ~Replying' /\ Alive'
    BY <1>1 DEF Replying, Alive
  <1>3. ASSUME NEW op, NEW t, NEW k, NewCallEffect(op, t, k),
               IF op = "close"
               THEN t \in opened /\ opened' = opened \ {t} /\ (PendingOn(t) = {} \/ pend = {})
               ELSE opened' = opened
        PROVE  WaiterInv'
    <2>1. \A c \in Calls : c # nextCall => target'[c] = target[c]
      BY <1>3 DEF NewCallEffect, TypeOK
    <2>2. \A c \in pend : c \in Calls /\ c # nextCall
      BY NumberFacts DEF ServiceCall, TypeOK
    <2>3. WaiterTasks'
      BY <1>1, <1>2, <1>3, <2>1, <2>2 DEF NewCallEffect, WaiterInv, WaiterTasks, HasWaitQueue
    <2>4. SessionTasks'
      BY <1>1, <1>2, <1>3 DEF NewCallEffect, WaiterInv, SessionTasks
    <2>5. ClosesUnused'
      BY <1>3, <2>1, <2>2 DEF NewCallEffect, ClosesUnused, Closing, PendingOn
    <2> QED BY <1>2, <2>3, <2>4, <2>5 DEF WaiterInv
  <1>4. CASE NsIpi \/ NsInterrupted
    <2>1. UNCHANGED <<target, valid, opened>> /\ pend' \subseteq pend
      BY <1>4 DEF NsIpi, NsInterrupted
    <2> QED BY <1>1, <1>2, <2>1
            DEF WaiterInv, SessionTasks, WaiterTasks, HasWaitQueue, ClosesUnused, Closing
  <1>5. CASE NsResume
    <2>1. params'.op # "close" /\ UNCHANGED <<pend, target, opened>>
      BY <1>5 DEF NsResume, Issue
    <2> QED BY <1>1, <1>2, <2>1
            DEF WaiterInv, SessionTasks, WaiterTasks, HasWaitQueue, ClosesUnused, Closing
  <1>6. CASE \E op \in {"open", "register", "unregister", "other"} :
                 NewCallEffect(op, D, "sync") /\ opened' = opened
    BY <1>3, <1>6
  <1>7. CASE \E t \in opened : /\ NewCallEffect("close", t, "sync") /\ opened' = opened \ {t}
                               /\ PendingOn(t) = {} \/ "close_pending" \in Lapses
    <2>1. PICK t \in opened : /\ NewCallEffect("close", t, "sync") /\ opened' = opened \ {t}
                              /\ PendingOn(t) = {} \/ "close_pending" \in Lapses
      BY <1>7
    <2>2. PendingOn(t) = {} \/ pend = {}
      BY <2>1 DEF NoPendingClose, NewCallEffect
    <2> QED BY <1>3, <2>1, <2>2
  <1>8. CASE \E t \in opened, k \in Kinds : NewCallEffect("send", t, k) /\ opened' = opened
    BY <1>3, <1>8
  <1> QED BY <1>4, <1>5, <1>6, <1>7, <1>8, NonSecureCases

(* The inductive step. *)
LEMMA WaiterStep ==
    ASSUME NoPendingClose, TypeOK, KernelInv, IpcInv, SessionInv, WaiterInv, TypeOK', [Next]_vars
    PROVE  WaiterInv'
  <1>1. CASE UNCHANGED vars
    BY <1>1, WaiterNext DEF vars, taskVars, evVars, runVars, mboxVars, nsVars, callVars,
                            WaiterInv, Alive, Replying, Closing
  <1> QED BY <1>1, WaiterDispatch, WaiterTask, WaiterFiq, WaiterNonSecure DEF Next

(* With clients that do not close a session whose command is pending, every *)
(* command finds the task it acts on.                                       *)
THEOREM WaitersSound ==
    ASSUME NoPendingClose
    PROVE  Spec => []WaiterInv
  <1>1. Init => WaiterInv
    BY WaiterInit
  <1>2. TypeOK /\ KernelInv /\ IpcInv /\ SessionInv /\ TypeOK' /\ WaiterInv /\ [Next]_vars
        => WaiterInv'
    BY WaiterStep
  <1> QED BY <1>1, <1>2, TypeCorrect, InFlight, IpcSound, SessionsSound, PTL DEF Spec

(* The kernel never reaches DIE_NOW nor a NULL task.                        *)
THEOREM KernelNeverDies ==
    ASSUME NoPendingClose
    PROVE  Spec => []NeverDies
  <1>1. WaiterInv => NeverDies
    BY DEF WaiterInv, NeverDies
  <1> QED BY <1>1, WaitersSound, PTL
-----------------------------------------------------------------------------
(* AnswerInv is inductive when, besides, no signal ends a wait and command  *)
(* descriptors can be mapped.                                               *)

LEMMA AnswerInit == Init => AnswerInv
  <1> SUFFICES ASSUME Init PROVE AnswerInv
    OBVIOUS
  <1>1. smc = NoCall /\ pc = "ret" /\ pend = {}
    BY DEF Init
  <1>2. \A c \in Calls : ran[c] = "none" /\ answer[c] = "none" /\ target[c] = D
    BY DEF Init
  <1> QED BY <1>1, <1>2 DEF AnswerInv, FutureFresh, PendingUnexecuted, InsideUnanswered,
                            ReplyIsResult, AnswerIsResult, Replying

(* A step that executes and answers nothing. *)
LEMMA AnswerQuiet ==
    ASSUME AnswerInv, UNCHANGED <<ran, answer, pend, smc, nextCall, target>>,
           Busy' => Busy \/ ran[smc] = "none",
           Replying' => \/ Replying /\ api' = api
                        \/ api'.val # "pending" /\ target[smc] = D
                        \/ api'.val = "pending" /\ ran[smc] = "none"
    PROVE  AnswerInv'
  <1>1. InsideUnanswered'
    BY DEF AnswerInv, InsideUnanswered
  <1>2. ReplyIsResult'
    BY DEF AnswerInv, ReplyIsResult
  <1>3. FutureFresh' /\ PendingUnexecuted' /\ AnswerIsResult'
    BY DEF AnswerInv, FutureFresh, PendingUnexecuted, AnswerIsResult
  <1> QED BY <1>1, <1>2, <1>3 DEF AnswerInv

(* The steps of the dispatcher. *)
LEMMA AnswerDispatch ==
    ASSUME NoMapFault, TypeOK, KernelInv, SessionInv, AnswerInv, Dispatch
    PROVE  AnswerInv'
  <1> USE ConstantFacts DEF taskVars, evVars, mboxVars, ntfVars, nsVars, callVars, Goto, KernelInv
  <1>1. CASE DispReturned \/ DispIdle \/ DispResumed \/ DispNoReply \/ DispClose
    <2>1. /\ UNCHANGED <<cur, ready, sleepEv, ran, answer, pend, smc, nextCall, target>>
          /\ valid' => valid
          /\ Replying' => Replying /\ api' = api
      BY <1>1, PassEffect DEF Replying
    <2>2. Busy' => Busy
      BY <2>1, ActiveStays DEF Busy
    <2> QED BY <2>1, <2>2, AnswerQuiet
  <1>2. ASSUME cur' = D, Nobody', ~valid', api'.val # "pending", target[smc] = D,
               UNCHANGED <<ran, answer, pend, smc, nextCall, target>>
        PROVE  AnswerInv'
    BY <1>2, AnswerQuiet DEF Busy
  <1>3. CASE DispCloseFails \/ DispRegister \/ DispUnregister \/ DispOther
    <2>1. api'.val # "pending"
      BY <1>3, AnsweredEffect DEF set_secure_api_ret
    <2>2. target[smc] = D
      BY <1>3, AnsweredEffect DEF SessionInv, MailboxMatches
    <2> QED BY <1>2, <1>3, <2>1, <2>2, AnsweredEffect
  <1>4. CASE DispOpen \/ DispOpenFails
    <2>1. /\ UNCHANGED <<cur, ready, sleepEv, ran, answer, pend, smc, nextCall, target>>
          /\ cur = D /\ valid /\ ~valid' /\ params.op = "open" /\ api'.val # "pending"
      <3>1. CASE DispOpen
        BY <3>1 DEF DispOpen, Command
      <3>2. CASE DispOpenFails
        BY <3>2 DEF DispOpenFails, Command, set_secure_api_ret
      <3> QED BY <1>4, <3>1, <3>2
    <2>2. params.typ = "ns"
      BY <2>1 DEF OneInFlight, Shape, TypeOK, Params
    <2>3. target[smc] = D
      BY <2>1, <2>2 DEF SessionInv, MailboxMatches
    <2>4. Nobody'
      BY <2>1, ActiveNow, ActiveStays
    <2> QED BY <1>2, <2>1, <2>3, <2>4
  <1>5. CASE DispClose2
    <2>1. /\ cur' = D /\ Nobody' /\ ~valid'
          /\ UNCHANGED <<ran, answer, pend, smc, nextCall, target>>
      BY <1>5, Close2Effect
    <2>2. api'.val # "pending"
      BY <1>5, Close2Effect DEF set_secure_api_ret
    <2>3. target[smc] = D
      BY <1>5 DEF DispClose2, SessionInv, MailboxMatches
    <2> QED BY <1>2, <2>1, <2>2, <2>3
  <1>6. CASE DispSend
    <2>1. /\ valid /\ ~api.set /\ UNCHANGED <<api, ran, answer, pend, smc, nextCall, target>>
      BY <1>6, SendEffect DEF Command
    <2> QED BY <2>1, AnswerQuiet DEF Busy, Replying
  <1>7. ASSUME NEW t \in Svc, NEW cont, GetsCore(t, cont), ~api.set, Busy
        PROVE  AnswerInv'
    <2>1. UNCHANGED <<api, ran, answer, pend, smc, nextCall, target>>
      BY <1>7 DEF GetsCore
    <2> QED BY <1>7, <2>1, AnswerQuiet DEF Replying
  <1>8. CASE DispResume
    <2>1. valid /\ ~api.set /\ UNCHANGED <<api, ran, answer, pend, smc, nextCall, target>>
      BY <1>8, ResumeEffect DEF Command
    <2> QED BY <2>1, AnswerQuiet DEF Busy, Replying
  <1>9. CASE DispSchedule
    <2>1. /\ UNCHANGED <<mboxVars, ran, answer, pend, smc, nextCall, target>> /\ pc = "sched"
      BY <1>9 DEF DispSchedule
    <2>2. CASE DispatcherMoves
      <3>1. Busy' => Busy
        BY <2>1, <2>2, ActiveStays DEF Busy, DispatcherMoves
      <3> QED BY <2>1, <3>1, AnswerQuiet DEF Replying
    <2>3. ASSUME NEW t \in Svc, GetsCore(t, "after"), Only(t), ~api.set PROVE AnswerInv'
      <3>1. Busy
        BY <2>3 DEF Busy, Only, Nobody
      <3> QED BY <1>7, <2>3, <3>1
    <2> QED BY <1>9, <2>2, <2>3, ScheduleEffect
  <1>10. CASE DispReply
    <2>1. /\ cur = D /\ api.set /\ pc = "after" /\ pc' = "ret" /\ smc' = NoCall
          /\ UNCHANGED <<ran, nextCall, target>>
          /\ IF api.val = "pending" /\ smc \notin pend THEN pend' = pend \cup {smc}
                                                      ELSE pend' = pend \ {smc}
          /\ answer' = [answer EXCEPT ![smc] = api.val]
      BY <1>10 DEF DispReply
    <2>2. smc \in Calls /\ smc < nextCall
      BY <2>1 DEF OneInFlight, InNonSecure, InDispatcher, InTask, TypeOK, ServiceCall
    <2>3. \A c \in Calls : answer'[c] = IF c = smc THEN api.val ELSE answer[c]
      BY <2>1, <2>2 DEF TypeOK
    <2>4. pend \subseteq Calls /\ NoCall \notin Calls
      BY DEF TypeOK, NoCall, Calls
    <2>5. Replying /\ ~Replying'
      BY <2>1 DEF Replying
    <2>6. FutureFresh'
      BY <2>1, <2>2, <2>3, NumberFacts DEF AnswerInv, FutureFresh
    <2>7. PendingUnexecuted'
      BY <2>1, <2>2, <2>3, <2>4, <2>5 DEF AnswerInv, PendingUnexecuted, ReplyIsResult
    <2>8. AnswerIsResult'
      BY <2>1, <2>3, <2>5 DEF AnswerInv, AnswerIsResult, ReplyIsResult
    <2> QED BY <2>1, <2>5, <2>6, <2>7, <2>8 DEF AnswerInv, InsideUnanswered, ReplyIsResult
  <1> QED BY <1>1, <1>3, <1>4, <1>5, <1>6, <1>8, <1>9, <1>10 DEF Dispatch

(* The steps of the service tasks. *)
LEMMA AnswerTask ==
    ASSUME TypeOK, KernelInv, IpcInv, ReplyInv, AnswerInv, NEW t \in Svc, TaskStep(t)
    PROVE  AnswerInv'
  <1> USE ConstantFacts DEF taskVars, evVars, mboxVars, ntfVars, nsVars, callVars, Goto, KernelInv
  <1>1. /\ cur = t /\ t \in tasks \ {D} /\ ~valid /\ smc \in Calls /\ smc < nextCall
        /\ Serves(Client(t), smc) /\ InTask /\ Shape
        /\ UNCHANGED <<smc, pend, target, answer, nextCall>>
    <2>1. smc # NoCall /\ Active(t)
      BY StepOf DEF Only
    <2> QED BY <2>1, StepOf DEF ReplyInv, WorkMatches, TypeOK, ServiceCall
  <1>2. api.set => Replying
    BY <1>1 DEF InTask, Replying
  <1>3. Busy /\ ran[smc] = "none"
    BY <1>1 DEF Busy, AnswerInv, InsideUnanswered, NoCall, Calls
  <1>4. ASSUME UNCHANGED <<api, ran>> PROVE AnswerInv'
    BY <1>1, <1>2, <1>3, <1>4, AnswerQuiet DEF Replying
  <1>5. CASE TaskSync(t) \/ TaskNoMap(t) \/ TaskNoTimer(t) \/ TaskIpcEncodeFails(t)
             \/ TaskAsync(t) \/ TaskWaitCheck(t) \/ TaskIpcConnect(t)
    <2>1. CASE TaskSync(t) \/ TaskNoMap(t) \/ TaskNoTimer(t) \/ TaskIpcEncodeFails(t)
      BY <1>4, <2>1 DEF TaskSync, TaskNoMap, TaskNoTimer, TaskIpcEncodeFails
    <2>2. CASE TaskAsync(t) \/ TaskWaitCheck(t) \/ TaskIpcConnect(t)
      BY <1>4, <2>2 DEF TaskAsync, TaskWaitCheck, TaskIpcConnect
    <2> QED BY <1>5, <2>1, <2>2
  <1>6. CASE TaskWaitPrepare(t)
    <2>1. ran' = ran /\ (api' = api \/ api'.val = "pending")
      BY <1>6 DEF TaskWaitPrepare, set_secure_api_ret
    <2> QED BY <1>1, <1>2, <1>3, <1>4, <2>1, AnswerQuiet
  <1>7. CASE TaskUsleep(t) \/ TaskSleep(t) \/ TaskSleepSuspend(t)
    BY <1>4, <1>7, SleepEffect
  <1>8. CASE TaskSleepYield(t) \/ TaskWaitYield(t)
    BY <1>4, <1>8, SleepYieldEffect, WaitYieldEffect
  <1>9. CASE TaskIpcSend(t) \/ TaskIpcBack(t)
    BY <1>4, <1>9, IpcSendEffect, IpcBackEffect
  <1>10. CASE TaskReturn(t)
    <2>1. CASE tls[t].typ = "sec"
      BY <1>4, <1>10, <2>1, ReturnEffect
    <2>2. CASE tls[t].typ # "sec"
      <3>1. tls[t].call = smc
        BY <1>1, <2>2 DEF Client, Serves
      <3>2. PICK v \in {"ok", "err"} : /\ set_secure_api_ret(v, tls[t].call)
                                       /\ ran' = [ran EXCEPT ![smc] = v]
        BY <1>10, <2>2, <3>1, ReturnEffect
      <3>3. \A c \in Calls : ran'[c] = IF c = smc THEN v ELSE ran[c]
        BY <3>2 DEF TypeOK
      <3>4. ~Busy'
        BY <1>1, <1>10, <2>2, ReturnEffect DEF Busy
      <3>5. pend \subseteq Calls
        BY DEF TypeOK
      <3>6. FutureFresh'
        BY <1>1, <3>3, NumberFacts DEF AnswerInv, FutureFresh
      <3>7. PendingUnexecuted' /\ AnswerIsResult'
        BY <1>1, <3>3, <3>5 DEF AnswerInv, PendingUnexecuted, AnswerIsResult, InsideUnanswered,
                                NoCall, Calls
      <3>8. InsideUnanswered' /\ ReplyIsResult'
        BY <1>1, <3>2, <3>3, <3>4 DEF AnswerInv, InsideUnanswered, ReplyIsResult, set_secure_api_ret
      <3> QED BY <3>6, <3>7, <3>8 DEF AnswerInv
    <2> QED BY <2>1, <2>2
  <1> QED BY <1>5, <1>6, <1>7, <1>8, <1>9, <1>10 DEF TaskStep

(* The timer handlers. *)
LEMMA AnswerFiq ==
    ASSUME TypeOK, KernelInv, AnswerInv, Fiq
    PROVE  AnswerInv'
  <1> USE DEF taskVars, evVars, mboxVars, nsVars, callVars, runVars, KernelInv
  <1>1. PICK t \in Svc : FiqSleep(t) \/ FiqEcho(t)
    BY DEF Fiq
  <1>2. CASE FiqEcho(t)
    <2>1. UNCHANGED <<cur, ready, sleepEv, pc, mboxVars, nsVars, ran>>
      BY <1>2 DEF FiqEcho
    <2>2. Busy' => Busy
      BY <2>1, ActiveStays DEF Busy
    <2> QED BY <2>1, <2>2, AnswerQuiet DEF Replying
  <1>3. CASE FiqSleep(t)
    <2>1. Only(t) /\ UNCHANGED <<pc, mboxVars, nsVars, ran>>
      BY <1>3, WakeEffect
    <2>2. Busy
      BY <2>1 DEF Busy, Only, Nobody
    <2> QED BY <2>1, <2>2, AnswerQuiet DEF Replying
  <1> QED BY <1>1, <1>2, <1>3

(* The steps of the non-secure world. *)
LEMMA AnswerNonSecure ==
    ASSUME "signal" \notin Lapses, TypeOK, KernelInv, AnswerInv, NonSecure
    PROVE  AnswerInv'
  <1> USE ConstantFacts DEF taskVars, mboxVars, ntfVars, runVars, callVars, KernelInv
  <1>1. /\ pc' = "ret" /\ smc = NoCall /\ ~valid /\ UNCHANGED <<api, ran>>
    BY NonSecureEffect
  <1>2. ReplyIsResult'
    BY <1>1 DEF ReplyIsResult, Replying
  <1>3. NoCall \notin Calls /\ pend \subseteq Calls /\ nextCall \in Int /\ \A c \in Calls : c \in Int
    BY NumberFacts DEF NoCall, Calls, TypeOK
  <1>4. ASSUME NEW op, NEW t, NEW k, NewCallEffect(op, t, k) PROVE AnswerInv'
    <2>1. \A c \in Calls : c # nextCall => target'[c] = target[c]
      BY <1>4 DEF NewCallEffect, TypeOK
    <2>2. /\ nextCall \in Calls /\ ran[nextCall] = "none" /\ answer[nextCall] = "none"
          /\ nextCall' = nextCall + 1 /\ smc' = nextCall /\ UNCHANGED <<pend, answer>>
      BY <1>3, <1>4 DEF NewCallEffect, AnswerInv, FutureFresh
    <2>3. FutureFresh'
      BY <1>1, <1>3, <2>1, <2>2 DEF AnswerInv, FutureFresh
    <2>4. PendingUnexecuted' /\ InsideUnanswered'
      BY <1>1, <1>3, <2>2 DEF AnswerInv, PendingUnexecuted, InsideUnanswered
    <2>5. AnswerIsResult'
      BY <1>1, <2>1, <2>2 DEF AnswerInv, AnswerIsResult
    <2> QED BY <1>2, <2>3, <2>4, <2>5 DEF AnswerInv
  <1>5. CASE NsIpi
    <2>1. UNCHANGED <<target, smc, pend, answer, nextCall>>
      BY <1>5 DEF NsIpi
    <2> QED BY <1>1, <1>2, <2>1
            DEF AnswerInv, FutureFresh, PendingUnexecuted, InsideUnanswered, AnswerIsResult
  <1>6. CASE NsResume
    <2>1. PICK c \in pend : smc' = c /\ UNCHANGED <<pend, target, answer, nextCall>>
      BY <1>6 DEF NsResume, Issue
    <2> QED BY <1>1, <1>2, <1>3, <2>1
            DEF AnswerInv, FutureFresh, PendingUnexecuted, InsideUnanswered, AnswerIsResult
  <1>7. ~NsInterrupted
    BY DEF NsInterrupted
  <1> QED BY <1>4, <1>5, <1>6, <1>7, NonSecureCases

(* The inductive step. *)
LEMMA AnswerStep ==
    ASSUME NoMapFault, "signal" \notin Lapses,
           TypeOK, KernelInv, IpcInv, SessionInv, ReplyInv, AnswerInv, [Next]_vars
    PROVE  AnswerInv'
  <1>1. CASE UNCHANGED vars
    <2>1. Busy' => Busy
      BY <1>1, ActiveStays DEF Busy, vars, evVars, runVars, mboxVars
    <2> QED BY <1>1, <2>1, AnswerQuiet DEF vars, mboxVars, nsVars, callVars, runVars, Replying
  <1> QED BY <1>1, AnswerDispatch, AnswerTask, AnswerFiq, AnswerNonSecure DEF Next

(* Commands of a session do not overlap, waits are not interrupted and      *)
(* descriptors can be mapped: a command is executed at most once, never     *)
(* while it is pending, and the reply in the slot is what it returned.      *)
THEOREM AnswersSound ==
    ASSUME NoOverlap, NoMapFault, "signal" \notin Lapses
    PROVE  Spec => []AnswerInv
  <1>1. Init => AnswerInv
    BY AnswerInit
  <1>2. TypeOK /\ KernelInv /\ IpcInv /\ SessionInv /\ ReplyInv /\ AnswerInv /\ [Next]_vars
        => AnswerInv'
    BY AnswerStep
  <1> QED BY <1>1, <1>2, TypeCorrect, InFlight, IpcSound, SessionsSound, RepliesSound, PTL DEF Spec

(* What a client gets is what the service task returned for its command.    *)
THEOREM AnswerIsTheResult ==
    ASSUME NoOverlap, NoMapFault, "signal" \notin Lapses
    PROVE  Spec => []AnswerIsResult
  <1>1. AnswerInv => AnswerIsResult
    BY DEF AnswerInv
  <1> QED BY <1>1, AnswersSound, PTL
-----------------------------------------------------------------------------
(* WaitInv is inductive with patient clients, when descriptors can be       *)
(* mapped.                                                                  *)

NoneLinked == \A u \in tasks \ {D} : wq[u] # "linked"
NoTimers   == \A u \in Svc : echoEv[u] = 0

(* At the start nobody waits. *)
LEMMA WaitInit == Init => WaitInv
  <1> SUFFICES ASSUME Init PROVE WaitInv
    OBVIOUS
  <1>1. /\ smc = NoCall /\ pc = "ret" /\ pend = {} /\ cur = D /\ ~valid /\ tasks \ {D} = {}
        /\ notify = NoCall /\ woken = {} /\ resumeId = {} /\ NoCall \notin Calls
    BY DEF Init, NoCall, Calls
  <1>2. \A u \in Svc : echoEv[u] = 0
    BY ConstantFacts DEF Init
  <1> QED BY <1>1, <1>2 DEF WaitInv, OnePending, WaitRounds, LinkedWaits, TimersWait,
                            DataBeforeNotice, Replying

(* Whose elements are linked and whose timers run, by who has the core. *)
LEMMA WhoWaits ==
    ASSUME TypeOK, OneInFlight, WaitInv
    PROVE  /\ cur # D => \A u \in tasks \ {D} : wq[u] = "linked" => u = cur /\ pc \in WaitPcs
           /\ cur # D => \A u \in Svc : u # cur => echoEv[u] = 0
           /\ cur # D /\ pc \notin WaitPcs => NoneLinked
           /\ /\ cur = D /\ smc # NoCall /\ ~(valid /\ params.op = "resume")
              /\ ~(Replying /\ api.val = "pending")
              => NoneLinked
           /\ NoneLinked /\ (cur = D \/ pc \notin WaitPcs) => NoTimers
  <1> USE ConstantFacts
  <1>1. ASSUME cur # D, NEW u \in tasks \ {D}, wq[u] = "linked"
        PROVE  u = cur /\ pc \in WaitPcs
    <2>1. ~valid /\ smc # NoCall
      BY <1>1 DEF OneInFlight, InNonSecure, InDispatcher, InTask
    <2> QED BY <1>1, <2>1 DEF WaitInv, LinkedWaits, Deferred, Waiting
  <1>2. ASSUME cur = D, smc # NoCall, ~(valid /\ params.op = "resume"),
               ~(Replying /\ api.val = "pending")
        PROVE  NoneLinked
    BY <1>2 DEF WaitInv, LinkedWaits, Deferred, Waiting, NoneLinked
  <1>3. ASSUME NEW u \in Svc, echoEv[u] # 0
        PROVE  (u \in tasks \ {D} /\ wq[u] = "linked") \/ Waiting(u)
    <2>1. echoEv[u] \in Nat
      BY DEF TypeOK
    <2>2. echoEv[u] > 0
      BY <1>3, <2>1
    <2> QED BY <2>2 DEF WaitInv, TimersWait
  <1>4. cur # D => \A u \in Svc : u # cur => echoEv[u] = 0
    BY <1>1, <1>3 DEF Waiting
  <1>5. NoneLinked /\ (cur = D \/ pc \notin WaitPcs) => NoTimers
    BY <1>3 DEF NoneLinked, NoTimers, Waiting
  <1> QED BY <1>1, <1>2, <1>4, <1>5 DEF NoneLinked

(* A step of the dispatcher that takes no command but one to close. *)
LEMMA WaitQuiet ==
    ASSUME WaitInv, cur = D,
           UNCHANGED <<cur, ready, sleepEv, tasks, regs, wq, echoEv, avail, target, smc, smcCmd,
                       pend, notify, woken, resumeId, nextCall, params>>,
           valid' => valid, valid /\ params.op = "resume" => valid',
           Replying => Replying' /\ api' = api, Replying' => Replying /\ api' = api,
           pc' = "close2" => pend = {}
    PROVE  WaitInv'
  <1>1. OnePending'
    BY DEF WaitInv, OnePending
  <1>2. WaitRounds' /\ DataBeforeNotice'
    BY DEF WaitInv, WaitRounds, DataBeforeNotice
  <1>3. LinkedWaits'
    BY ActiveStays, ConstantFacts DEF WaitInv, LinkedWaits, Deferred, Waiting
  <1>4. TimersWait'
    BY ConstantFacts DEF WaitInv, TimersWait, Waiting
  <1> QED BY <1>1, <1>2, <1>3, <1>4 DEF WaitInv

(* A step while nobody waits, into no wait. *)
LEMMA WaitCalm ==
    ASSUME TypeOK, ServiceCall, WaitInv, NoneLinked, NoTimers,
           UNCHANGED <<target, smc, smcCmd, pend, notify, woken, resumeId, nextCall, echoEv>>,
           cur' = D \/ (cur' \in tasks' /\ pc' \notin {"wait_prep", "wait_yield"}),
           valid' => params'.typ = "sec", pc' # "close2",
           Replying' => api'.val # "pending",
           \A u \in tasks' \ {D} : wq'[u] = "linked" => u \in tasks /\ wq[u] = "linked",
           \A c \in Calls : c < nextCall => avail'[target[c]] = avail[target[c]]
    PROVE  WaitInv'
  <1>1. OnePending'
    BY DEF WaitInv, OnePending
  <1>2. NoneLinked' /\ NoTimers'
    BY DEF NoneLinked, NoTimers
  <1>3. WaitRounds'
    BY <1>2 DEF WaitRounds, NoneLinked
  <1>4. \A c \in pend : c \in Calls /\ c < nextCall
    BY DEF TypeOK, ServiceCall
  <1>5. DataBeforeNotice'
    BY <1>4 DEF WaitInv, DataBeforeNotice
  <1>6. LinkedWaits' /\ TimersWait'
    BY <1>2 DEF NoneLinked, NoTimers, LinkedWaits, TimersWait
  <1> QED BY <1>1, <1>3, <1>5, <1>6 DEF WaitInv

(* The steps of the dispatcher. *)
LEMMA WaitDispatch ==
    ASSUME NoMapFault, TypeOK, KernelInv, IpcInv, SessionInv, WaitInv, TypeOK', Dispatch
    PROVE  WaitInv'
  <1> USE ConstantFacts DEF taskVars, evVars, mboxVars, ntfVars, nsVars, callVars, Goto, KernelInv
  <1>1. CASE DispReturned \/ DispIdle \/ DispResumed \/ DispNoReply \/ DispClose
    <2>1. Replying => Replying' /\ api' = api
      <3>1. CASE DispReturned \/ DispIdle \/ DispResumed \/ DispNoReply
        BY <3>1 DEF DispReturned, DispIdle, DispResumed, DispNoReply, Replying,
                    OneInFlight, InNonSecure, InDispatcher, InTask
      <3>2. CASE DispClose
        BY <3>2 DEF DispClose, Command, Replying, OneInFlight, InNonSecure, InDispatcher, InTask
      <3> QED BY <1>1, <3>1, <3>2
    <2>2. Replying' => Replying /\ api' = api
      BY <1>1, PassEffect DEF Replying
    <2>3. pc' = "close2" => pend = {}
      BY <1>1, PassEffect DEF WaitInv, OnePending
    <2>4. /\ cur = D /\ (valid' => valid) /\ (valid /\ params.op = "resume" => valid')
          /\ UNCHANGED <<cur, ready, sleepEv, tasks, regs, wq, echoEv, avail, target, smc, smcCmd,
                         pend, notify, woken, resumeId, nextCall, params>>
      BY <1>1, PassEffect
    <2> QED BY <2>1, <2>2, <2>3, <2>4, WaitQuiet
  <1>2. ASSUME cur = D, pc \in {"loop", "close2"}, ~(valid /\ params.op = "resume")
        PROVE  NoneLinked /\ NoTimers
    <2>1. smc # NoCall /\ ~api.set
      BY <1>2 DEF OneInFlight, InNonSecure, InDispatcher, InTask
    <2> QED BY <1>2, <2>1, WhoWaits DEF Replying
  <1>3. CASE DispCloseFails \/ DispRegister \/ DispUnregister \/ DispOther
    <2>1. api'.val # "pending"
      BY <1>3, AnsweredEffect DEF set_secure_api_ret
    <2>2. NoneLinked /\ NoTimers
      BY <1>2, <1>3, AnsweredEffect
    <2>3. /\ cur' = D /\ ~valid' /\ pc' # "close2"
          /\ UNCHANGED <<tasks, wq, avail, echoEv, notify, target, smc, smcCmd, pend, woken, resumeId, nextCall>>
      BY <1>3, AnsweredEffect
    <2> QED BY <2>1, <2>2, <2>3, WaitCalm
  <1>4. CASE DispOpen \/ DispOpenFails
    <2>1. /\ UNCHANGED <<cur, target, smc, smcCmd, pend, notify, woken, resumeId, nextCall, echoEv>>
          /\ cur = D /\ pc = "loop" /\ ~valid' /\ params.op = "open" /\ api'.val # "pending"
          /\ pc' = "sched"
          /\ \/ UNCHANGED <<tasks, wq, avail>>
             \/ /\ tasks' = tasks \cup {nextId}
                /\ wq' = [wq EXCEPT ![nextId] = "uninit"] /\ nextId <= MaxTask
                /\ avail' = [avail EXCEPT ![nextId] = FALSE]
      <3>1. CASE DispOpen
        BY <3>1 DEF DispOpen, Command, create_task
      <3>2. CASE DispOpenFails
        BY <3>2 DEF DispOpenFails, Command, create_task_fails, set_secure_api_ret
      <3> QED BY <1>4, <3>1, <3>2
    <2>2. NoneLinked /\ NoTimers
      BY <1>2, <2>1
    <2>3. \A u \in tasks' \ {D} : wq'[u] = "linked" => u \in tasks /\ wq[u] = "linked"
      <3>1. nextId \in Tid \/ UNCHANGED <<tasks, wq, avail>>
        BY <2>1, NumberFacts DEF Tid
      <3> QED BY <2>1, <3>1 DEF TypeOK
    <2>4. \A c \in Calls : avail'[target[c]] = avail[target[c]]
      <3>1. \A c \in Calls : target[c] \in Tid /\ target[c] # nextId
        BY NumberFacts DEF SessionInv, SessionsApart
      <3> QED BY <2>1, <3>1 DEF TypeOK
    <2> QED BY <2>1, <2>2, <2>3, <2>4, WaitCalm
  <1>5. CASE DispClose2
    <2>1. /\ cur' = D /\ cur = D /\ ~valid' /\ ~valid /\ pc' = "sched" /\ pc = "close2"
          /\ tasks' \subseteq tasks
          /\ UNCHANGED <<wq, avail, echoEv, notify, target, smc, smcCmd, pend, woken, resumeId, nextCall>>
      BY <1>5, Close2Effect DEF DispClose2
    <2>2. api'.val # "pending"
      BY <1>5, Close2Effect DEF set_secure_api_ret
    <2>3. NoneLinked /\ NoTimers
      BY <1>2, <2>1
    <2> QED BY <2>1, <2>2, <2>3, WaitCalm
  <1>6. CASE DispSend
    <2>1. /\ cur' = D /\ cur = D /\ ~valid' /\ pc' = "sched" /\ pc = "loop" /\ ~api.set
          /\ params.op = "send"
          /\ UNCHANGED <<tasks, api, wq, avail, echoEv, notify, target, smc, smcCmd, pend, woken, resumeId, nextCall>>
      BY <1>6, SendEffect DEF Command
    <2>2. NoneLinked /\ NoTimers
      BY <1>2, <2>1
    <2> QED BY <2>1, <2>2, WaitCalm DEF Replying
  <1>7. CASE DispResume
    <2>1. PICK t : t = params.task
      OBVIOUS
    <2>2. /\ valid /\ params.op = "resume" /\ params.typ = "ns" /\ ~api.set /\ ~valid' /\ Nobody
          /\ cur = D /\ pc = "loop"
          /\ UNCHANGED <<taskVars, evVars, params, api, ntfVars, nsVars>>
      BY <1>7, ResumeEffect DEF Command
    <2>3. smc \in pend /\ t = target[smc]
      BY <2>1, <2>2 DEF SessionInv, MailboxMatches
    <2>4. \A u \in tasks \ {D} : wq[u] = "linked" => u = t /\ regs[u] = "wait_check"
      <3>1. \A c \in pend : c = smc
        BY <2>3 DEF WaitInv, OnePending
      <3> QED BY <2>2, <2>3, <3>1 DEF WaitInv, LinkedWaits, Deferred, Waiting, Replying
    <2>5. CASE DispatcherMoves /\ pc' \in {"die", "sched"} /\ (t \notin tasks \/ wq[t] # "linked")
      <3>1. NoneLinked /\ NoTimers
        BY <2>2, <2>4, <2>5, WhoWaits DEF NoneLinked
      <3> QED BY <2>2, <2>5, <3>1, WaitCalm DEF DispatcherMoves, Replying
    <2>6. CASE GetsCore(t, "resumed") /\ wq[t] = "linked"
      <3>1. t \in tasks \ {D} /\ t \in Svc /\ cur' = t /\ pc' = "wait_check"
        BY <2>4, <2>6 DEF GetsCore
      <3>2. OnePending' /\ DataBeforeNotice'
        BY <2>2, <3>1 DEF WaitInv, OnePending, DataBeforeNotice, Replying
      <3>3. WaitRounds'
        BY <2>2, <2>3, <3>1 DEF WaitRounds
      <3>4. LinkedWaits'
        BY <2>2, <2>4, <3>1 DEF LinkedWaits, Waiting, WaitPcs
      <3>5. TimersWait'
        BY <2>2, <3>1 DEF WaitInv, TimersWait, Waiting
      <3> QED BY <3>2, <3>3, <3>4, <3>5 DEF WaitInv
    <2>7. (DispatcherMoves /\ pc' \in {"die", "sched"} /\ (t \notin tasks \/ wq[t] # "linked"))
          \/ (GetsCore(t, "resumed") /\ wq[t] = "linked")
      BY <1>7, <2>1, ResumeEffect
    <2> QED BY <2>5, <2>6, <2>7
  <1>8. CASE DispSchedule
    <2>1. UNCHANGED <<taskVars, evVars, mboxVars, ntfVars, nsVars, ran>> /\ pc = "sched"
      BY <1>8 DEF DispSchedule
    <2>2. CASE DispatcherMoves /\ pc' = "after"
      BY <2>1, <2>2, WaitQuiet DEF DispatcherMoves, Replying
    <2>3. ASSUME NEW t \in Svc, GetsCore(t, "after"), ~valid, ~api.set PROVE WaitInv'
      <3>1. cur = D /\ cur' = t /\ t \in tasks /\ pc' = regs[t] /\ ~valid'
        BY <2>3 DEF GetsCore
      <3>2. pc' \notin {"wait_prep", "wait_yield", "close2"}
        BY <3>1 DEF OneInFlight, Shape
      <3>3. smc # NoCall
        BY <2>1, <3>1 DEF OneInFlight, InNonSecure, InDispatcher, InTask
      <3>4. NoneLinked /\ NoTimers
        BY <2>3, <3>1, <3>3, WhoWaits DEF Replying
      <3> QED BY <2>1, <2>3, <3>1, <3>2, <3>4, WaitCalm DEF Replying
    <2> QED BY <1>8, <2>2, <2>3, ScheduleEffect
  <1>9. CASE DispReply
    <2>1. /\ cur = D /\ api.set /\ pc = "after" /\ pc' = "ret" /\ smc' = NoCall
          /\ UNCHANGED <<cur, ready, sleepEv, regs, tasks, wq, avail, echoEv, valid, target, smcCmd,
                         notify, woken, resumeId, nextCall>>
          /\ IF api.val = "pending" /\ smc \notin pend THEN pend' = pend \cup {smc}
                                                      ELSE pend' = pend \ {smc}
      BY <1>9 DEF DispReply
    <2>2. smc # NoCall /\ ~valid /\ Replying /\ ~Replying'
      BY <2>1 DEF OneInFlight, InNonSecure, InDispatcher, InTask, Replying
    <2>3. OnePending'
      BY <2>1, <2>2 DEF WaitInv, OnePending
    <2>4. NoCall \notin pend'
      BY <2>1, <2>2 DEF TypeOK, NoCall, Calls
    <2>5. WaitRounds' /\ DataBeforeNotice'
      BY <2>1, <2>4 DEF WaitInv, WaitRounds, DataBeforeNotice
    <2>6. LinkedWaits'
      <3>1. \A u \in tasks \ {D} : wq[u] = "linked" =>
               /\ regs[u] = "wait_check" /\ ~Active(u)
               /\ api.val = "pending" /\ target[smc] = u
        BY <2>1, <2>2 DEF WaitInv, LinkedWaits, Deferred, Waiting
      <3>2. api.val = "pending" => smc \in pend'
        BY <2>1, <2>2 DEF WaitInv, OnePending
      <3> QED BY <2>1, <3>1, <3>2, ActiveStays DEF LinkedWaits, Deferred
    <2>7. TimersWait'
      BY <2>1 DEF WaitInv, TimersWait, Waiting
    <2> QED BY <2>3, <2>5, <2>6, <2>7 DEF WaitInv
  <1> QED BY <1>1, <1>3, <1>4, <1>5, <1>6, <1>7, <1>8, <1>9 DEF Dispatch

(* The steps of the service tasks. *)
LEMMA WaitTask ==
    ASSUME TypeOK, KernelInv, IpcInv, SessionInv, WaitInv, TypeOK', NEW t \in Svc, TaskStep(t)
    PROVE  WaitInv'
  <1> USE ConstantFacts DEF taskVars, evVars, mboxVars, ntfVars, nsVars, callVars, Goto, KernelInv
  <1>1. /\ cur = t /\ t \in tasks \ {D} /\ ~valid /\ Only(t) /\ Client(t) = target[smc]
        /\ InTask /\ Shape /\ smc # NoCall /\ smc \in Calls
        /\ UNCHANGED <<smc, pend, target, smcCmd, woken, resumeId, nextCall>>
    <2>1. smc # NoCall /\ Active(t)
      BY StepOf DEF Only
    <2> QED BY <2>1, StepOf DEF SessionInv, TaskMatches, TypeOK
  <1>2. /\ \A u \in tasks \ {D} : wq[u] = "linked" => u = t /\ pc \in WaitPcs
        /\ \A u \in Svc : u # t => echoEv[u] = 0
        /\ pc \notin WaitPcs => NoneLinked /\ NoTimers
    BY <1>1, WhoWaits
  <1>3. ASSUME pc \notin WaitPcs, UNCHANGED <<notify, echoEv>>,
               cur' = D \/ (cur' \in tasks' /\ pc' \notin {"wait_prep", "wait_yield"}),
               valid' => params'.typ = "sec", pc' # "close2",
               api' = api \/ api'.val # "pending",
               \A u \in tasks' \ {D} : wq'[u] = "linked" => u \in tasks /\ wq[u] = "linked",
               \A c \in Calls : c < nextCall => avail'[target[c]] = avail[target[c]]
        PROVE  WaitInv'
    <2>1. api.set => pc \in WaitPcs
      BY <1>1 DEF InTask, WaitPcs
    <2> QED BY <1>1, <1>2, <1>3, <2>1, WaitCalm DEF Replying
  <1>4. CASE TaskSync(t) \/ TaskNoMap(t) \/ TaskNoTimer(t) \/ TaskIpcEncodeFails(t)
    <2>1. /\ UNCHANGED <<cur, tasks, wq, avail, echoEv, valid, api, notify>>
          /\ pc' \in {"fin", "ipc_back"} /\ pc \notin WaitPcs
      BY <1>4 DEF TaskSync, TaskNoMap, TaskNoTimer, TaskIpcEncodeFails, Running, WaitPcs
    <2> QED BY <1>1, <1>3, <2>1
  <1>5. CASE TaskUsleep(t) \/ TaskSleep(t) \/ TaskSleepSuspend(t)
    <2>1. /\ UNCHANGED <<cur, tasks, wq, avail, echoEv, valid, api, notify>>
          /\ pc' \in {"sleep_susp", "sleep_yield"}
      BY <1>5, SleepEffect
    <2>2. pc \notin WaitPcs
      BY <1>5 DEF TaskUsleep, TaskSleep, TaskSleepSuspend, Running, WaitPcs
    <2> QED BY <1>1, <1>3, <2>1, <2>2
  <1>6. regs[D] # "close2" /\ regs[D] # "ret"
    BY <1>1 DEF Shape
  <1>7. CASE TaskSleepYield(t)
    <2>1. UNCHANGED <<tasks, wq, avail, echoEv, valid, api, notify>> /\ cur' = D /\ pc' = regs[D]
      BY <1>7, SleepYieldEffect DEF GivesUpCore
    <2>2. pc \notin WaitPcs
      BY <1>7 DEF TaskSleepYield, Running, WaitPcs
    <2> QED BY <1>1, <1>3, <1>6, <2>1, <2>2
  <1>8. CASE TaskIpcConnect(t)
    <2>1. /\ UNCHANGED <<cur, echoEv, valid, api, notify>> /\ pc' \in {"ipc_send", "fin"}
          /\ pc = "entry"
          /\ \/ UNCHANGED <<tasks, wq, avail>>
             \/ /\ tasks' = tasks \cup {nextId}
                /\ wq' = [wq EXCEPT ![nextId] = "uninit"] /\ nextId <= MaxTask
                /\ avail' = [avail EXCEPT ![nextId] = FALSE]
      BY <1>8 DEF TaskIpcConnect, create_task, create_task_fails, Running
    <2>2. \A u \in tasks' \ {D} : wq'[u] = "linked" => u \in tasks /\ wq[u] = "linked"
      <3>1. nextId \in Tid \/ UNCHANGED <<tasks, wq, avail>>
        BY <2>1, NumberFacts DEF Tid
      <3> QED BY <2>1, <3>1 DEF TypeOK
    <2>3. \A c \in Calls : avail'[target[c]] = avail[target[c]]
      <3>1. \A c \in Calls : target[c] \in Tid /\ target[c] # nextId
        BY NumberFacts DEF SessionInv, SessionsApart
      <3> QED BY <2>1, <3>1 DEF TypeOK
    <2>4. pc \notin WaitPcs /\ tasks \subseteq tasks'
      BY <2>1 DEF WaitPcs
    <2> QED BY <1>1, <1>3, <2>1, <2>2, <2>3, <2>4
  <1>9. CASE TaskIpcSend(t)
    <2>1. /\ UNCHANGED <<tasks, wq, avail, echoEv, api, notify>> /\ cur' = D /\ pc' = regs[D]
          /\ params'.typ = "sec" /\ pc = "ipc_send"
      BY <1>9, IpcSendEffect DEF GivesUpCore
    <2> QED BY <1>1, <1>3, <1>6, <2>1 DEF WaitPcs
  <1>10. CASE TaskIpcBack(t)
    <2>1. /\ UNCHANGED <<cur, wq, avail, echoEv, valid, api, notify>> /\ pc' = "fin" /\ pc = "ipc_back"
          /\ tasks' = tasks \ {peer[t]} /\ peer[t] # t
      BY <1>10, IpcBackEffect
    <2> QED BY <1>1, <1>3, <2>1 DEF WaitPcs
  <1>11. CASE TaskReturn(t)
    <2>1. /\ UNCHANGED <<tasks, wq, avail, echoEv, valid, notify>> /\ cur' = D /\ pc' = regs[D]
          /\ pc = "fin"
      BY <1>11, ReturnEffect
    <2>2. api' = api \/ api'.val # "pending"
      BY <1>11 DEF TaskReturn, set_secure_api_ret
    <2> QED BY <1>1, <1>3, <1>6, <2>1, <2>2 DEF WaitPcs
  <1>12. ASSUME cur' = t, UNCHANGED <<cur, tasks, avail, valid, notify>>,
                pc' \in WaitPcs, tls[t].kind = "async",
                echoEv' = echoEv \/ (echoEv' = [echoEv EXCEPT ![t] = @ + 1] /\ pc = "entry" /\ ~avail[t]),
                wq' = wq \/ \E w \in {"empty", "linked"} : wq' = [wq EXCEPT ![t] = w],
                api' = api \/ (api'.val = "pending" /\ smc \notin pend),
                WaitRounds'
         PROVE  WaitInv'
    <2>1. OnePending'
      <3>1. api.set => Replying
        BY <1>1 DEF InTask, Replying
      <3>2. pc' # "close2"
        BY <1>12 DEF WaitPcs
      <3> QED BY <1>1, <1>12, <3>1, <3>2 DEF WaitInv, OnePending, Replying
    <2>2. DataBeforeNotice'
      BY <1>1, <1>12 DEF WaitInv, DataBeforeNotice
    <2>3. \A u \in tasks : u # t => wq'[u] = wq[u]
      BY <1>12 DEF TypeOK
    <2>4. LinkedWaits'
      BY <1>1, <1>2, <1>12, <2>3 DEF LinkedWaits, Waiting
    <2>5. TimersWait'
      <3>1. \A u \in Svc : u # t => echoEv'[u] = 0
        BY <1>2, <1>12 DEF TypeOK
      <3>2. echoEv'[t] > 0 => echoEv'[t] = 1 /\ ~avail[t]
        <4>1. CASE echoEv' = echoEv
          BY <4>1 DEF WaitInv, TimersWait
        <4>2. CASE echoEv' = [echoEv EXCEPT ![t] = @ + 1] /\ pc = "entry" /\ ~avail[t]
          <5>1. echoEv[t] = 0
            BY <1>2, <4>2 DEF WaitPcs, NoTimers
          <5> QED BY <4>2, <5>1 DEF TypeOK
        <4> QED BY <1>12, <4>1, <4>2
      <3> QED BY <1>1, <1>12, <3>1, <3>2 DEF TimersWait, Waiting
    <2> QED BY <1>12, <2>1, <2>2, <2>4, <2>5 DEF WaitInv
  <1>13. ASSUME tls[t].kind = "async" PROVE Client(t) = t /\ t = target[smc]
    BY <1>1, <1>13 DEF IpcInv, ContextsMatch, Client
  <1>14. CASE TaskAsync(t)
    <2>1. /\ UNCHANGED <<cur, tasks, avail, valid, notify, api>> /\ tls[t].kind = "async" /\ pc = "entry"
      BY <1>14 DEF TaskAsync, Running
    <2>2. CASE avail[t]
      <3>1. UNCHANGED <<echoEv, wq>> /\ pc' = "fin"
        BY <1>14, <2>2 DEF TaskAsync
      <3> QED BY <1>1, <1>3, <2>1, <3>1 DEF WaitPcs
    <2>3. CASE ~avail[t]
      <3>1. /\ echoEv' = [echoEv EXCEPT ![t] = @ + 1] /\ wq' = [wq EXCEPT ![t] = "empty"]
            /\ pc' = "wait_check"
        BY <1>14, <2>3 DEF TaskAsync
      <3>2. wq'[t] = "empty"
        BY <3>1 DEF TypeOK
      <3>3. WaitRounds'
        BY <1>1, <2>1, <3>1, <3>2 DEF WaitRounds
      <3>4. pc' \in WaitPcs
        BY <3>1 DEF WaitPcs
      <3> QED BY <1>1, <1>12, <2>1, <2>3, <3>1, <3>3, <3>4
    <2> QED BY <2>2, <2>3
  <1>15. CASE TaskWaitCheck(t)
    <2>1. /\ UNCHANGED <<cur, tasks, avail, valid, notify, api, echoEv>> /\ pc = "wait_check"
      BY <1>15 DEF TaskWaitCheck, Running
    <2>2. tls[t].kind = "async"
      BY <1>1, <2>1 DEF IpcInv, ContextsMatch
    <2>3. ~api.set
      BY <1>1, <2>1 DEF InTask
    <2>4. CASE avail[t]
      <3>1. wq' = [wq EXCEPT ![t] = "empty"] /\ pc' = "fin"
        BY <1>15, <2>4 DEF TaskWaitCheck
      <3>2. \A u \in tasks : wq'[u] = IF u = t THEN "empty" ELSE wq[u]
        BY <3>1 DEF TypeOK
      <3>3. NoneLinked'
        BY <1>2, <2>1, <3>2 DEF NoneLinked
      <3>4. NoTimers'
        <4>1. echoEv[t] \in Nat /\ ~(echoEv[t] > 0)
          BY <2>4 DEF TypeOK, WaitInv, TimersWait
        <4> QED BY <1>2, <2>1, <4>1 DEF NoTimers
      <3>5. LinkedWaits' /\ TimersWait'
        BY <3>3, <3>4 DEF LinkedWaits, TimersWait, NoneLinked, NoTimers
      <3>6. OnePending' /\ DataBeforeNotice' /\ WaitRounds'
        BY <1>1, <2>1, <2>3, <3>1 DEF WaitInv, OnePending, DataBeforeNotice, WaitRounds, Replying
      <3> QED BY <3>5, <3>6 DEF WaitInv
    <2>5. CASE ~avail[t]
      <3>1. wq' = wq /\ pc' = "wait_prep"
        BY <1>15, <2>5 DEF TaskWaitCheck
      <3>2. smc \notin pend
        BY <1>13, <2>2, <2>5 DEF WaitInv, DataBeforeNotice
      <3>3. wq[t] # "linked"
        BY <1>1, <2>1, <3>2 DEF WaitInv, WaitRounds
      <3>4. WaitRounds'
        BY <1>1, <2>1, <3>1, <3>2, <3>3 DEF WaitRounds
      <3>5. pc' \in WaitPcs
        BY <3>1 DEF WaitPcs
      <3> QED BY <1>1, <1>12, <2>1, <2>2, <3>1, <3>4, <3>5
    <2> QED BY <2>4, <2>5
  <1>16. CASE TaskWaitPrepare(t)
    <2>1. /\ UNCHANGED <<cur, tasks, avail, valid, notify, echoEv>> /\ pc = "wait_prep"
          /\ pc' = "wait_yield" /\ wq' = [wq EXCEPT ![t] = "linked"]
      BY <1>16 DEF TaskWaitPrepare, Running
    <2>2. tls[t].kind = "async"
      BY <1>1, <2>1 DEF IpcInv, ContextsMatch
    <2>3. smc \notin pend /\ wq[t] # "linked"
      BY <1>1, <2>1 DEF WaitInv, WaitRounds
    <2>4. api'.set /\ api'.val = "pending"
      BY <1>16, <2>3 DEF TaskWaitPrepare, set_secure_api_ret
    <2>5. WaitRounds'
      BY <1>1, <2>1, <2>3, <2>4 DEF WaitRounds
    <2>6. pc' \in WaitPcs
      BY <2>1 DEF WaitPcs
    <2> QED BY <1>1, <1>12, <2>1, <2>2, <2>3, <2>4, <2>5, <2>6
  <1>17. CASE TaskWaitYield(t)
    <2>1. /\ UNCHANGED <<tasks, wq, avail, echoEv, valid, api, notify>> /\ cur' = D /\ pc' = regs[D]
          /\ pc = "wait_yield" /\ regs' = [regs EXCEPT ![t] = "wait_check"] /\ Nobody'
      BY <1>17, WaitYieldEffect DEF GivesUpCore
    <2>2. /\ smc \notin pend /\ api.set /\ api.val = "pending"
      BY <1>1, <2>1 DEF WaitInv, WaitRounds
    <2>3. tls[t].kind = "async" /\ wq[t] = "linked"
      BY <1>1, <2>1 DEF IpcInv, ContextsMatch
    <2>4. OnePending'
      BY <1>1, <1>6, <2>1, <2>2 DEF WaitInv, OnePending
    <2>5. WaitRounds' /\ DataBeforeNotice'
      BY <1>1, <2>1 DEF WaitInv, WaitRounds, DataBeforeNotice
    <2>6. LinkedWaits'
      <3>1. regs'[t] = "wait_check"
        BY <2>1 DEF TypeOK
      <3>2. \A u \in Svc : ~Active(u)'
        BY <2>1 DEF Nobody
      <3> QED BY <1>1, <1>2, <1>6, <1>13, <2>1, <2>2, <2>3, <3>1, <3>2
              DEF LinkedWaits, Deferred, Replying
    <2>7. TimersWait'
      BY <1>1, <1>2, <2>1, <2>3 DEF WaitInv, TimersWait
    <2> QED BY <2>4, <2>5, <2>6, <2>7 DEF WaitInv
  <1> QED BY <1>4, <1>5, <1>7, <1>8, <1>9, <1>10, <1>11, <1>14, <1>15, <1>16, <1>17 DEF TaskStep

(* The timer handlers. *)
LEMMA WaitFiq ==
    ASSUME TypeOK, KernelInv, SessionInv, WaitInv, TypeOK', Fiq
    PROVE  WaitInv'
  <1> USE ConstantFacts DEF taskVars, evVars, mboxVars, nsVars, callVars, runVars, ntfVars, KernelInv
  <1>1. PICK t \in Svc : FiqSleep(t) \/ FiqEcho(t)
    BY DEF Fiq
  <1>2. CASE FiqEcho(t)
    <2>1. echoEv[t] = 1 /\ t \in tasks
      BY <1>2 DEF FiqEcho, WaitInv, TimersWait
    <2>2. /\ UNCHANGED <<tasks, nextId, tls, wq, peer, sleepEv, runVars, mboxVars, nsVars>>
          /\ echoEv' = [echoEv EXCEPT ![t] = @ - 1] /\ avail' = [avail EXCEPT ![t] = TRUE]
          /\ notify' \in {notify, NoCall, tls[t].call}
      BY <1>2, <2>1 DEF FiqEcho, Notified
    <2>3. \A u \in Tid : avail'[u] = (IF u = t THEN TRUE ELSE avail[u])
      BY <2>2 DEF TypeOK
    <2>4. \A u \in Svc : echoEv'[u] = IF u = t THEN 0 ELSE echoEv[u]
      BY <2>1, <2>2 DEF TypeOK
    <2>5. OnePending' /\ WaitRounds'
      BY <2>2 DEF WaitInv, OnePending, WaitRounds, Replying
    <2>6. LinkedWaits'
      BY <2>2, ActiveStays DEF WaitInv, LinkedWaits, Deferred, Waiting, Replying
    <2>7. TimersWait'
      BY <2>2, <2>3, <2>4 DEF WaitInv, TimersWait, Waiting
    <2>8. DataBeforeNotice'
      <3>1. /\ tls[t].call \in Calls \cup {NoCall} /\ tls[t].call < nextCall
            /\ tls[t].call # NoCall => target[tls[t].call] = t
        BY NumberFacts DEF SessionInv, CommandsMatch
      <3>2. \A c \in Calls : target[c] \in Tid
        BY NumberFacts
      <3>3. NoCall \notin Calls /\ pend \subseteq Calls
        BY DEF NoCall, Calls, TypeOK
      <3>4. \A c \in Calls : avail[target[c]] => avail'[target[c]]
        BY <2>3, <3>2
      <3>5. smc \in pend => avail'[target[smc]]
        BY <3>3, <3>4 DEF WaitInv, DataBeforeNotice
      <3>6. ASSUME NEW c \in Calls, notify' = c \/ c \in woken \/ c \in resumeId
            PROVE  c < nextCall /\ avail'[target[c]]
        <4>1. CASE c \in woken \/ c = notify \/ c \in resumeId
          BY <3>4, <4>1 DEF WaitInv, DataBeforeNotice
        <4>2. CASE c = tls[t].call
          BY <2>3, <3>1, <3>3, <4>2
        <4> QED BY <2>2, <3>3, <3>6, <4>1, <4>2
      <3> QED BY <2>2, <3>5, <3>6 DEF DataBeforeNotice
    <2> QED BY <2>5, <2>6, <2>7, <2>8 DEF WaitInv
  <1>3. CASE FiqSleep(t)
    <2>1. /\ Only(t) /\ OnlyNext(t)
          /\ UNCHANGED <<taskVars, echoEv, cur, regs, pc, mboxVars, ntfVars, nsVars>>
      BY <1>3, WakeEffect
    <2>2. OnePending' /\ WaitRounds' /\ TimersWait' /\ DataBeforeNotice'
      BY <2>1 DEF WaitInv, OnePending, WaitRounds, TimersWait, DataBeforeNotice, Replying, Waiting
    <2>3. \A u \in tasks \ {D} : Active(u)' <=> Active(u)
      BY <2>1 DEF Only, OnlyNext, Active, TypeOK
    <2>4. LinkedWaits'
      BY <2>1, <2>3 DEF WaitInv, LinkedWaits, Deferred, Waiting, Replying
    <2> QED BY <2>2, <2>4 DEF WaitInv
  <1> QED BY <1>1, <1>2, <1>3

(* The steps of the non-secure world. *)
LEMMA WaitNonSecure ==
    ASSUME Patient, TypeOK, KernelInv, WaitInv, TypeOK', NonSecure
    PROVE  WaitInv'
  <1> USE ConstantFacts DEF taskVars, evVars, mboxVars, ntfVars, runVars, callVars, KernelInv
  <1>1. /\ cur = D /\ pc = "ret" /\ smc = NoCall /\ ~valid /\ Nobody'
        /\ UNCHANGED <<taskVars, evVars, runVars, api, ran>>
    BY NonSecureEffect
  <1>2. ~Replying /\ ~Replying'
    BY <1>1 DEF Replying
  <1>3. TimersWait' /\ WaitRounds'
    BY <1>1 DEF WaitInv, TimersWait, Waiting, WaitRounds
  <1>4. NoCall \notin Calls /\ pend \subseteq Calls /\ nextCall \in Int /\ \A c \in Calls : c \in Int
    BY NumberFacts DEF NoCall, Calls, TypeOK
  <1>5. ASSUME NEW op, NEW t, NEW k, NewCallEffect(op, t, k), op # "resume" PROVE WaitInv'
    <2>1. \A c \in Calls : c # nextCall => target'[c] = target[c]
      BY <1>5 DEF NewCallEffect, TypeOK
    <2>2. /\ pend = {} /\ pend' = {} /\ UNCHANGED <<notify, woken, resumeId>> /\ nextCall' = nextCall + 1
          /\ smc' = nextCall /\ smcCmd' = nextCall
      BY <1>5 DEF NewCallEffect, Patient
    <2>3. OnePending'
      BY <1>1, <1>2, <2>2 DEF OnePending
    <2>4. DataBeforeNotice'
      BY <1>1, <1>4, <2>1, <2>2 DEF WaitInv, DataBeforeNotice
    <2>5. LinkedWaits'
      BY <1>1, <1>2, <2>2 DEF WaitInv, LinkedWaits, Deferred, Waiting
    <2> QED BY <1>3, <2>3, <2>4, <2>5 DEF WaitInv
  <1>6. CASE NsIpi
    <2>1. /\ UNCHANGED <<target, smc, smcCmd, pend, nextCall, valid, params, notify, resumeId>>
          /\ woken' \subseteq woken \cup {notify}
      BY <1>6 DEF NsIpi
    <2>2. OnePending' /\ DataBeforeNotice'
      BY <1>1, <1>2, <1>4, <2>1 DEF WaitInv, OnePending, DataBeforeNotice
    <2>3. LinkedWaits'
      BY <1>1, <1>2, <2>1, ActiveStays DEF WaitInv, LinkedWaits, Deferred, Waiting
    <2> QED BY <1>3, <2>2, <2>3 DEF WaitInv
  <1>7. CASE NsResume
    <2>1. PICK c \in pend : /\ c \in woken /\ smc' = c /\ valid' = TRUE /\ params'.op = "resume"
                            /\ woken' \subseteq woken /\ resumeId' = resumeId \cup {c}
                            /\ UNCHANGED <<pend, target, smcCmd, nextCall, notify>>
      BY <1>7 DEF NsResume, Issue, WaitInv, OnePending
    <2>2. OnePending' /\ DataBeforeNotice'
      BY <1>1, <1>2, <1>4, <2>1 DEF WaitInv, OnePending, DataBeforeNotice
    <2>3. LinkedWaits'
      BY <1>1, <1>2, <2>1, ActiveStays DEF WaitInv, LinkedWaits, Deferred, Waiting
    <2> QED BY <1>3, <2>2, <2>3 DEF WaitInv
  <1>8. ~NsInterrupted
    BY DEF NsInterrupted, Patient
  <1> QED BY <1>5, <1>6, <1>7, <1>8, NonSecureCases

(* The inductive step. *)
LEMMA WaitStep ==
    ASSUME Patient, NoMapFault,
           TypeOK, KernelInv, IpcInv, SessionInv, WaitInv, TypeOK', [Next]_vars
    PROVE  WaitInv'
  <1>1. CASE UNCHANGED vars
    <2> USE <1>1 DEF vars, taskVars, evVars, runVars, mboxVars, ntfVars, nsVars, callVars
    <2>1. OnePending' /\ WaitRounds' /\ TimersWait' /\ DataBeforeNotice'
      BY DEF WaitInv, OnePending, WaitRounds, TimersWait, DataBeforeNotice, Waiting, Replying
    <2>2. LinkedWaits'
      BY ActiveStays DEF WaitInv, LinkedWaits, Deferred, Waiting, Replying
    <2> QED BY <2>1, <2>2 DEF WaitInv
  <1> QED BY <1>1, WaitDispatch, WaitTask, WaitFiq, WaitNonSecure DEF Next

(* Patient clients and descriptors that can be mapped: a task whose wait    *)
(* element is linked is in its wait, a timer runs only for a waiting task,  *)
(* and a client is told only after the data is there.                       *)
THEOREM WaitsSound ==
    ASSUME Patient, NoMapFault
    PROVE  Spec => []WaitInv
  <1>1. Init => WaitInv
    BY WaitInit
  <1>2. TypeOK /\ KernelInv /\ IpcInv /\ SessionInv /\ TypeOK' /\ WaitInv /\ [Next]_vars => WaitInv'
    BY WaitStep
  <1> QED BY <1>1, <1>2, TypeCorrect, InFlight, IpcSound, SessionsSound, PTL DEF Spec

(* The wait element on the stack of a waiting task, and the identifier a    *)
(* sleep timer points to, are never left behind by their task.              *)
THEOREM WaitFramesStayAlive ==
    ASSUME Patient, NoMapFault
    PROVE  Spec => []WaitFramesAlive
  <1>1. TypeOK /\ KernelInv /\ WaitInv => WaitFramesAlive
    <2> SUFFICES ASSUME TypeOK, KernelInv, WaitInv PROVE WaitFramesAlive
      OBVIOUS
    <2> USE ConstantFacts DEF KernelInv
    <2>1. ASSUME NEW t \in tasks \ {D}, wq[t] = "linked"
          PROVE  IF cur = t THEN pc \in WaitPcs ELSE regs[t] = "wait_check"
      BY <2>1 DEF WaitInv, LinkedWaits, Waiting, Active, ActiveIn
    <2>2. ASSUME NEW t \in Sleepers
          PROVE  /\ t \in tasks
                 /\ IF cur = t THEN pc \in {"sleep_susp", "sleep_yield"} ELSE regs[t] = "fin"
      <3>1. t \in Svc /\ sleepEv[t] > 0 /\ ~NoSleeper
        BY <2>2 DEF Sleepers, NoSleeper
      <3>2. CASE InDispatcher
        BY <3>1, <3>2 DEF InDispatcher, Sleeper
      <3>3. CASE InTask
        BY <3>1, <3>3 DEF InTask, Sleeper
      <3> QED BY <3>1, <3>2, <3>3 DEF OneInFlight, InNonSecure
    <2> QED BY <2>1, <2>2 DEF WaitFramesAlive, WaitPcs
  <1> QED BY <1>1, TypeCorrect, InFlight, WaitsSound, PTL

(* No timer event is outstanding while the dispatcher or a service uses the *)
(* common heap, which the timer handlers use in the FIQ.                    *)
THEOREM CommonHeapIsUncontended ==
    ASSUME Patient, NoMapFault
    PROVE  Spec => []CommonHeapUncontended
  <1>1. TypeOK /\ KernelInv /\ SessionInv /\ WaitInv => CommonHeapUncontended
    <2> SUFFICES ASSUME TypeOK, KernelInv, SessionInv, WaitInv,
                        \/ cur = D /\ pc = "loop" /\ valid
                        \/ cur # D /\ pc \in {"entry", "fin"}
                 PROVE  Sleepers = {} /\ \A t \in Svc : echoEv[t] = 0
      BY DEF CommonHeapUncontended
    <2> USE ConstantFacts DEF KernelInv
    <2>1. Sleepers = {}
      <3>1. NoSleeper
        BY DEF OneInFlight, InNonSecure, InDispatcher, InTask
      <3>2. \A t \in Svc : ~(sleepEv[t] > 0)
        BY <3>1 DEF NoSleeper
      <3> QED BY <3>2 DEF Sleepers
    <2>2. CASE cur # D
      <3>1. NoneLinked /\ NoTimers
        BY <2>2, WhoWaits DEF WaitPcs
      <3> QED BY <2>1, <3>1 DEF NoTimers
    <2>3. CASE cur = D
      <3>1. smc # NoCall /\ ~api.set
        BY <2>3 DEF OneInFlight, InNonSecure, InDispatcher, InTask
      <3>2. CASE params.op # "resume"
        <4>1. NoneLinked /\ NoTimers
          BY <2>3, <3>1, <3>2, WhoWaits DEF Replying
        <4> QED BY <2>1, <4>1 DEF NoTimers
      <3>3. CASE params.op = "resume"
        <4>1. params.typ = "ns"
          BY <3>3 DEF OneInFlight, Shape, TypeOK, Params
        <4>2. smc \in pend /\ avail[target[smc]]
          BY <2>3, <3>3, <4>1 DEF SessionInv, MailboxMatches, WaitInv, DataBeforeNotice
        <4>3. \A u \in tasks \ {D} : wq[u] = "linked" => u = target[smc]
          BY <2>3, <3>1, <4>2 DEF WaitInv, OnePending, LinkedWaits, Deferred, Waiting, Replying
        <4>4. ASSUME NEW u \in Svc PROVE echoEv[u] = 0
          <5>1. echoEv[u] \in Nat
            BY DEF TypeOK
          <5>2. ~(echoEv[u] > 0)
            BY <2>3, <4>2, <4>3 DEF WaitInv, TimersWait, Waiting
          <5> QED BY <5>1, <5>2
        <4> QED BY <2>1, <4>4
      <3> QED BY <3>2, <3>3
    <2> QED BY <2>2, <2>3
  <1> QED BY <1>1, TypeCorrect, InFlight, SessionsSound, WaitsSound, PTL

(* Which contexts a step saves or resets: only start_task makes a task      *)
(* begin at its entry point.                                                *)
LEMMA ContextsSaved ==
    ASSUME TypeOK, KernelInv, [Next]_vars, ~DispSend, NEW t \in Svc, regs[t] # "entry"
    PROVE  regs'[t] # "entry"
  <1> USE ConstantFacts DEF taskVars, evVars, mboxVars, ntfVars, nsVars, callVars, Goto, KernelInv
  <1>1. ASSUME NEW x, NEW cont, cont # "entry", regs' = regs \/ regs' = [regs EXCEPT ![x] = cont]
        PROVE  regs'[t] # "entry"
    BY <1>1 DEF TypeOK
  <1>2. CASE UNCHANGED vars
    BY <1>2 DEF vars, runVars
  <1>3. CASE Dispatch
    <2>1. CASE DispReturned \/ DispIdle \/ DispResumed \/ DispNoReply \/ DispClose
      BY <2>1, PassEffect
    <2>2. CASE DispCloseFails \/ DispRegister \/ DispUnregister \/ DispOther
      BY <2>2, AnsweredEffect
    <2>3. CASE DispOpen \/ DispOpenFails \/ DispClose2 \/ DispReply
      BY <2>3, Close2Effect DEF DispOpen, DispOpenFails, DispReply
    <2>4. CASE DispResume
      BY <1>1, <2>4, ResumeEffect DEF DispatcherMoves, GetsCore
    <2>5. CASE DispSchedule
      BY <1>1, <2>5, ScheduleEffect DEF DispatcherMoves, GetsCore
    <2> QED BY <1>3, <2>1, <2>2, <2>3, <2>4, <2>5 DEF Dispatch
  <1>4. ASSUME NEW u \in Svc, TaskStep(u) PROVE regs'[t] # "entry"
    <2>1. CASE TaskSync(u) \/ TaskNoMap(u) \/ TaskNoTimer(u) \/ TaskIpcEncodeFails(u)
      BY <2>1 DEF TaskSync, TaskNoMap, TaskNoTimer, TaskIpcEncodeFails
    <2>2. CASE TaskAsync(u) \/ TaskWaitCheck(u) \/ TaskWaitPrepare(u) \/ TaskIpcConnect(u)
      BY <2>2 DEF TaskAsync, TaskWaitCheck, TaskWaitPrepare, TaskIpcConnect
    <2>3. CASE TaskUsleep(u) \/ TaskSleep(u) \/ TaskSleepSuspend(u)
      BY <1>4, <2>3, SleepEffect
    <2>4. CASE TaskSleepYield(u) \/ TaskWaitYield(u)
      BY <1>1, <1>4, <2>4, SleepYieldEffect, WaitYieldEffect DEF GivesUpCore
    <2>5. CASE TaskIpcSend(u) \/ TaskIpcBack(u)
      BY <1>1, <1>4, <2>5, IpcSendEffect, IpcBackEffect DEF GivesUpCore
    <2>6. CASE TaskReturn(u)
      BY <1>4, <2>6, ReturnEffect
    <2> QED BY <1>4, <2>1, <2>2, <2>3, <2>4, <2>5, <2>6 DEF TaskStep
  <1>5. CASE Fiq
    <2>1. PICK u \in Svc : FiqSleep(u) \/ FiqEcho(u)
      BY <1>5 DEF Fiq
    <2> QED BY <2>1, WakeEffect DEF FiqEcho, runVars
  <1>6. CASE NonSecure
    BY <1>6, NonSecureEffect DEF runVars
  <1> QED BY <1>2, <1>3, <1>4, <1>5, <1>6 DEF Next

(* start_task never resets a task that waits in sw_wait_event_async.        *)
THEOREM WaitingTaskNotRestarted ==
    ASSUME Patient, NoMapFault
    PROVE  Spec => PendingTaskNotRestarted
  <1>1. TypeOK /\ KernelInv /\ WaitInv /\ [Next]_vars =>
          [\A t \in Svc : wq[t] = "linked" /\ regs[t] = "wait_check" => regs'[t] # "entry"]_vars
    <2> SUFFICES ASSUME TypeOK, KernelInv, WaitInv, [Next]_vars, NEW t \in Svc,
                        wq[t] = "linked", regs[t] = "wait_check"
                 PROVE  regs'[t] # "entry"
      OBVIOUS
    <2> USE ConstantFacts DEF KernelInv
    <2>1. CASE DispSend
      <3>1. /\ cur = D /\ params.op = "send" /\ valid /\ ~api.set /\ pc = "loop"
            /\ \/ params.task \in tasks /\ regs' = [regs EXCEPT ![params.task] = "entry"]
               \/ regs' = regs
            /\ params.task \in Svc
        BY <2>1, SendEffect DEF Command
      <3>2. smc # NoCall
        BY <3>1 DEF OneInFlight, InNonSecure, InDispatcher, InTask
      <3>3. NoneLinked
        BY <3>1, <3>2, WhoWaits DEF Replying
      <3>4. t # params.task \/ regs' = regs
        BY <3>1, <3>3 DEF NoneLinked
      <3> QED BY <3>1, <3>4 DEF TypeOK
    <2>2. CASE ~DispSend
      BY <2>2, ContextsSaved
    <2> QED BY <2>1, <2>2
  <1> QED BY <1>1, TypeCorrect, InFlight, WaitsSound, PTL DEF Spec, PendingTaskNotRestarted
-----------------------------------------------------------------------------
(* The order of a deferred call, which holds whatever clients do and        *)
(* whatever runs out: deferred once, resumed when its data is there.        *)

(* A call is deferred once: its task is not waiting, and does not reply     *)
(* that it is, when the call has been pending before.                       *)
DeferredOnce ==
    /\ cur # D /\ pc \in {"wait_prep", "wait_yield"} => smc \notin pend
    /\ Replying /\ api.val = "pending" => smc \notin pend

(* The data is there before the client is told and resumes, and stays. *)
ToldInTime ==
    /\ smc \in pend => avail[target[smc]]
    /\ \A c \in Calls : notify = c \/ c \in woken => c < nextCall /\ avail[target[c]]

(* Both, which no lapse and no fault disturbs. *)
DataInv == DeferredOnce /\ ToldInTime

(* What a step must not do to DataInv when no call comes or goes. *)
LEMMA DataQuiet ==
    ASSUME TypeOK, DataInv, UNCHANGED <<target, smc, pend, notify, woken, nextCall>>,
           \A c \in Calls : avail[target[c]] => avail'[target[c]],
           cur' = D \/ pc' \notin {"wait_prep", "wait_yield"} \/ smc \notin pend,
           Replying' => api'.val # "pending" \/ smc \notin pend
    PROVE  DataInv'
  <1>1. DeferredOnce'
    BY DEF DataInv, DeferredOnce
  <1>2. ToldInTime'
    BY DEF DataInv, ToldInTime, TypeOK
  <1> QED BY <1>1, <1>2 DEF DataInv

(* A task that is created is no call's yet. *)
LEMMA NewTaskData ==
    ASSUME TypeOK, SessionInv, create_task \/ create_task_fails
    PROVE  \A c \in Calls : avail'[target[c]] = avail[target[c]]
  <1>1. \A c \in Calls : target[c] \in Tid /\ target[c] # nextId
    BY NumberFacts DEF SessionInv, SessionsApart
  <1> QED BY <1>1 DEF create_task, create_task_fails, TypeOK

(* The steps of the dispatcher. *)
LEMMA DataDispatch ==
    ASSUME TypeOK, KernelInv, SessionInv, DataInv, Dispatch
    PROVE  DataInv'
  <1> USE ConstantFacts DEF taskVars, evVars, mboxVars, ntfVars, nsVars, callVars, Goto, KernelInv
  <1>1. CASE DispReturned \/ DispIdle \/ DispResumed \/ DispNoReply \/ DispClose
    <2>1. /\ UNCHANGED <<target, smc, pend, notify, woken, nextCall, avail>> /\ cur' = D
          /\ (api'.set /\ pc' # "ret" => api' = api /\ pc # "ret")
      BY <1>1, PassEffect
    <2>2. Replying' => api'.val # "pending" \/ smc \notin pend
      BY <2>1 DEF Replying, DataInv, DeferredOnce
    <2> QED BY <2>1, <2>2, DataQuiet
  <1>2. CASE DispCloseFails \/ DispRegister \/ DispUnregister \/ DispOther
    <2>1. /\ UNCHANGED <<target, smc, pend, notify, woken, nextCall, avail>> /\ cur' = D
          /\ api'.val # "pending"
      BY <1>2, AnsweredEffect DEF set_secure_api_ret
    <2> QED BY <2>1, DataQuiet
  <1>3. CASE DispOpen \/ DispOpenFails
    <2>1. /\ UNCHANGED <<target, smc, pend, notify, woken, nextCall>> /\ cur' = D
          /\ api'.val # "pending" /\ (create_task \/ create_task_fails \/ UNCHANGED avail)
      BY <1>3 DEF DispOpen, DispOpenFails, Command, set_secure_api_ret
    <2> QED BY <2>1, NewTaskData, DataQuiet
  <1>4. CASE DispClose2
    <2>1. /\ UNCHANGED <<target, smc, pend, notify, woken, nextCall, avail>> /\ cur' = D
          /\ api'.val # "pending"
      BY <1>4, Close2Effect DEF set_secure_api_ret
    <2> QED BY <2>1, DataQuiet
  <1>5. CASE DispSend
    <2>1. /\ UNCHANGED <<target, smc, pend, notify, woken, nextCall, avail, api>> /\ cur' = D /\ ~api.set
      BY <1>5, SendEffect
    <2> QED BY <2>1, DataQuiet DEF Replying
  <1>6. ASSUME NEW t \in Svc, GetsCore(t, "after") \/ GetsCore(t, "resumed"), ~api.set
        PROVE  DataInv'
    <2>1. /\ UNCHANGED <<target, smc, pend, notify, woken, nextCall, avail, api>> /\ pc' = regs[t]
      BY <1>6 DEF GetsCore
    <2>2. pc' \notin {"wait_prep", "wait_yield"}
      BY <1>6, <2>1 DEF OneInFlight, Shape
    <2> QED BY <1>6, <2>1, <2>2, DataQuiet DEF Replying
  <1>7. CASE DispResume
    <2>1. CASE DispatcherMoves
      <3>1. UNCHANGED <<target, smc, pend, notify, woken, nextCall, avail, api>> /\ ~api.set /\ cur' = D
        BY <1>7, <2>1, ResumeEffect DEF DispatcherMoves
      <3> QED BY <3>1, DataQuiet DEF Replying
    <2>2. CASE GetsCore(params.task, "resumed")
      <3>1. params.task \in Svc /\ ~api.set
        BY <1>7, <2>2, ResumeEffect DEF GetsCore
      <3> QED BY <1>6, <2>2, <3>1
    <2> QED BY <1>7, <2>1, <2>2, ResumeEffect
  <1>8. CASE DispSchedule
    <2>1. CASE DispatcherMoves /\ UNCHANGED api
      <3>1. UNCHANGED <<target, smc, pend, notify, woken, nextCall, avail>> /\ cur' = D /\ pc = "sched"
        BY <1>8, <2>1 DEF DispatcherMoves, DispSchedule
      <3>2. Replying' => api'.val # "pending" \/ smc \notin pend
        BY <2>1, <3>1 DEF Replying, DataInv, DeferredOnce
      <3> QED BY <3>1, <3>2, DataQuiet
    <2> QED BY <1>6, <1>8, <2>1, ScheduleEffect
  <1>9. CASE DispReply
    <2>1. /\ cur' = D /\ pc' = "ret" /\ smc' = NoCall /\ pend' \subseteq pend \cup {smc}
          /\ UNCHANGED <<target, notify, woken, nextCall, avail>>
      BY <1>9 DEF DispReply
    <2>2. smc' \notin pend'
      <3>1. smc # NoCall
        BY <1>9 DEF DispReply, OneInFlight, InNonSecure, InDispatcher, InTask
      <3> QED BY <2>1, <3>1 DEF TypeOK
    <2> QED BY <2>1, <2>2 DEF DataInv, DeferredOnce, ToldInTime, Replying
  <1> QED BY <1>1, <1>2, <1>3, <1>4, <1>5, <1>7, <1>8, <1>9 DEF Dispatch

(* The steps of a task: a second round of waiting would find the data. *)
LEMMA DataTask ==
    ASSUME TypeOK, KernelInv, IpcInv, SessionInv, DataInv, NEW t \in Svc, TaskStep(t)
    PROVE  DataInv'
  <1> USE ConstantFacts DEF taskVars, evVars, mboxVars, ntfVars, nsVars, callVars, Goto, KernelInv
  <1>1. /\ cur = t /\ t \in tasks \ {D} /\ Only(t) /\ InTask /\ Shape
        /\ UNCHANGED <<smc, pend, target, woken, nextCall>>
    BY StepOf
  <1>2. api.set => pc = "wait_yield"
    BY <1>1 DEF InTask
  <1>3. ASSUME UNCHANGED <<notify, avail>>,
               cur' = D \/ pc' \notin {"wait_prep", "wait_yield"}, ~api'.set \/ api'.val # "pending"
        PROVE  DataInv'
    BY <1>1, <1>3, DataQuiet DEF Replying
  <1>4. CASE TaskSync(t) \/ TaskNoMap(t) \/ TaskNoTimer(t) \/ TaskIpcEncodeFails(t)
    <2>1. UNCHANGED <<notify, avail, api>> /\ pc' \in {"fin", "ipc_back"} /\ pc # "wait_yield"
      BY <1>4 DEF TaskSync, TaskNoMap, TaskNoTimer, TaskIpcEncodeFails, Running
    <2> QED BY <1>2, <1>3, <2>1
  <1>5. CASE TaskUsleep(t) \/ TaskSleep(t) \/ TaskSleepSuspend(t) \/ TaskSleepYield(t)
    <2>1. pc # "wait_yield" /\ UNCHANGED <<notify, avail, api>>
      BY <1>5 DEF TaskUsleep, TaskSleep, TaskSleepSuspend, TaskSleepYield, Running
    <2>2. cur' = D \/ pc' \notin {"wait_prep", "wait_yield"}
      BY <1>5, SleepEffect, SleepYieldEffect DEF GivesUpCore
    <2> QED BY <1>2, <1>3, <2>1, <2>2
  <1>6. CASE TaskIpcConnect(t)
    <2>1. /\ pc # "wait_yield" /\ UNCHANGED <<notify, api>> /\ pc' \in {"ipc_send", "fin"}
          /\ create_task \/ create_task_fails
      BY <1>6 DEF TaskIpcConnect, Running
    <2> QED BY <1>1, <1>2, <2>1, NewTaskData, DataQuiet DEF Replying
  <1>7. CASE TaskIpcSend(t) \/ TaskIpcBack(t)
    <2>1. pc # "wait_yield" /\ UNCHANGED <<notify, avail, api>>
      BY <1>7 DEF TaskIpcSend, TaskIpcBack, Running
    <2> QED BY <1>2, <1>3, <1>7, <2>1, IpcSendEffect, IpcBackEffect DEF GivesUpCore
  <1>8. CASE TaskReturn(t)
    <2>1. UNCHANGED <<notify, avail>> /\ cur' = D /\ ~api.set
      BY <1>8, ReturnEffect
    <2>2. api' = api \/ api'.val # "pending"
      BY <1>8 DEF TaskReturn, set_secure_api_ret
    <2> QED BY <1>3, <2>1, <2>2
  <1>9. CASE TaskAsync(t)
    <2>1. UNCHANGED <<notify, avail, api>> /\ pc = "entry" /\ pc' \in {"fin", "wait_check"}
      BY <1>9 DEF TaskAsync, Running
    <2> QED BY <1>2, <1>3, <2>1
  <1>10. CASE TaskWaitCheck(t)
    <2>1. UNCHANGED <<notify, avail, api>> /\ pc = "wait_check"
      BY <1>10 DEF TaskWaitCheck, Running
    <2>2. CASE avail[t]
      BY <1>2, <1>3, <1>10, <2>1, <2>2 DEF TaskWaitCheck
    <2>3. CASE ~avail[t]
      <3>1. tls[t].kind = "async"
        BY <1>1, <2>1 DEF IpcInv, ContextsMatch
      <3>2. Active(t) /\ tls[t].typ # "sec"
        BY <1>1, <3>1 DEF Only, IpcInv, ContextsMatch
      <3>3. target[smc] = t
        BY <1>1, <3>2 DEF SessionInv, TaskMatches, Client
      <3>4. smc \notin pend
        BY <2>3, <3>3 DEF DataInv, ToldInTime
      <3> QED BY <1>1, <2>1, <3>4, DataQuiet
    <2> QED BY <2>2, <2>3
  <1>11. CASE TaskWaitPrepare(t) \/ TaskWaitYield(t)
    <2>1. UNCHANGED <<notify, avail>> /\ pc \in {"wait_prep", "wait_yield"}
      BY <1>11 DEF TaskWaitPrepare, TaskWaitYield, Running
    <2>2. smc \notin pend
      BY <1>1, <2>1 DEF DataInv, DeferredOnce
    <2> QED BY <1>1, <2>1, <2>2, DataQuiet
  <1> QED BY <1>4, <1>5, <1>6, <1>7, <1>8, <1>9, <1>10, <1>11 DEF TaskStep

(* A timer that ends makes data available, and takes none away. *)
LEMMA DataStays ==
    ASSUME TypeOK, NEW t \in Svc, avail' = avail \/ avail' = [avail EXCEPT ![t] = TRUE]
    PROVE  \A c \in Calls : avail[target[c]] => avail'[target[c]]
  <1>1. ASSUME NEW u \in Tid PROVE avail[u] => avail'[u]
    <2>1. avail \in [Tid -> BOOLEAN] /\ t \in Tid
      BY ConstantFacts DEF TypeOK
    <2>2. CASE avail' = avail
      BY <2>2
    <2>3. CASE avail' = [avail EXCEPT ![t] = TRUE]
      <3>1. CASE u = t
        BY <2>1, <2>3, <3>1
      <3>2. CASE u # t
        <4>1. avail'[u] = avail[u]
          BY <2>1, <2>3, <3>2
        <4> QED BY <4>1
      <3> QED BY <3>1, <3>2
    <2> QED BY <2>2, <2>3
  <1>2. \A c \in Calls : target[c] \in Tid
    BY DEF TypeOK
  <1> QED BY <1>1, <1>2

(* A timer that ends makes the data of the call available that it names. *)
LEMMA DataFiq ==
    ASSUME TypeOK, KernelInv, SessionInv, DataInv, TypeOK', Fiq
    PROVE  DataInv'
  <1> USE ConstantFacts DEF taskVars, evVars, mboxVars, ntfVars, nsVars, callVars, runVars
  <1>1. PICK t \in Svc : FiqSleep(t) \/ FiqEcho(t)
    BY DEF Fiq
  <1>2. UNCHANGED <<target, smc, pend, woken, nextCall, cur, pc, api>>
    BY <1>1 DEF FiqSleep, FiqEcho
  <1>3. avail' = avail \/ avail' = [avail EXCEPT ![t] = TRUE]
    BY <1>1 DEF FiqSleep, FiqEcho
  <1>4. \A c \in Calls : avail[target[c]] => avail'[target[c]]
    BY <1>3, DataStays
  <1>5. ASSUME notify' = notify PROVE DataInv'
    <2>1. cur' = D \/ pc' \notin {"wait_prep", "wait_yield"} \/ smc \notin pend
      BY <1>2 DEF DataInv, DeferredOnce
    <2>2. Replying' => api'.val # "pending" \/ smc \notin pend
      BY <1>2 DEF DataInv, DeferredOnce, Replying
    <2> QED BY <1>2, <1>4, <1>5, <2>1, <2>2, DataQuiet
  <1>6. ASSUME notify' # notify PROVE DataInv'
    <2>1. notify' = Notified(t) /\ avail' = [avail EXCEPT ![t] = TRUE]
      BY <1>1, <1>6 DEF FiqSleep, FiqEcho
    <2>2. notify' = NoCall \/ (notify' = tls[t].call /\ tls[t].call # NoCall)
      BY <1>6, <2>1 DEF Notified
    <2>3. notify' \in Calls => notify' < nextCall /\ target[notify'] = t
      <3>1. NoCall \notin Calls
        BY NumberFacts DEF NoCall, Calls
      <3> QED BY <2>2, <3>1 DEF SessionInv, CommandsMatch
    <2>4. avail'[t]
      <3>1. avail \in [Tid -> BOOLEAN] /\ t \in Tid
        BY NumberFacts DEF TypeOK
      <3> QED BY <2>1, <3>1
    <2>5. DeferredOnce'
      BY <1>2 DEF DataInv, DeferredOnce, Replying
    <2>6. ToldInTime'
      BY <1>2, <1>4, <2>3, <2>4 DEF DataInv, ToldInTime, TypeOK
    <2> QED BY <2>5, <2>6 DEF DataInv
  <1> QED BY <1>5, <1>6

(* A client is woken by its notification and resumes when it is woken. *)
LEMMA DataNonSecure ==
    ASSUME TypeOK, KernelInv, DataInv, NonSecure
    PROVE  DataInv'
  <1> USE ConstantFacts DEF taskVars, evVars, mboxVars, ntfVars, runVars, callVars, KernelInv
  <1>1. cur = D /\ pc = "ret" /\ smc = NoCall /\ UNCHANGED <<cur, pc, avail>>
    BY NonSecureEffect
  <1>2. DeferredOnce'
    BY <1>1 DEF DeferredOnce, Replying
  <1>3. ASSUME NEW op, NEW t, NEW k, NewCallEffect(op, t, k) PROVE ToldInTime'
    <2>1. /\ nextCall \in Calls /\ nextCall \in Int /\ nextCall' = nextCall + 1 /\ smc' = nextCall
          /\ target' = [target EXCEPT ![nextCall] = IF op = "send" THEN t ELSE D]
          /\ UNCHANGED <<pend, woken, notify>>
      BY <1>3, NumberFacts DEF NewCallEffect
    <2>2. \A c \in Calls : c < nextCall => c < nextCall' /\ target'[c] = target[c]
      BY <2>1, NumberFacts DEF TypeOK
    <2>3. nextCall \notin pend
      BY <2>1 DEF ServiceCall, TypeOK
    <2> QED BY <1>1, <2>1, <2>2, <2>3 DEF DataInv, ToldInTime
  <1>4. CASE NsIpi
    <2>1. ToldInTime'
      BY <1>1, <1>4 DEF NsIpi, DataInv, ToldInTime, TypeOK
    <2> QED BY <1>2, <2>1 DEF DataInv
  <1>5. CASE NsResume
    <2>1. PICK c \in pend \cap woken : /\ smc' = c /\ woken' = woken \ {c}
                                       /\ UNCHANGED <<pend, target, notify, nextCall>>
      BY <1>5 DEF NsResume, Issue
    <2>2. ToldInTime'
      BY <1>1, <2>1 DEF DataInv, ToldInTime, TypeOK
    <2> QED BY <1>2, <2>2 DEF DataInv
  <1>6. CASE NsInterrupted
    <2>1. ToldInTime'
      BY <1>1, <1>6 DEF NsInterrupted, DataInv, ToldInTime, TypeOK
    <2> QED BY <1>2, <2>1 DEF DataInv
  <1> QED BY <1>2, <1>3, <1>4, <1>5, <1>6, NonSecureCases DEF DataInv

(* The inductive step. *)
LEMMA DataStep ==
    ASSUME TypeOK, KernelInv, IpcInv, SessionInv, DataInv, TypeOK', [Next]_vars
    PROVE  DataInv'
  <1>1. CASE UNCHANGED vars
    BY <1>1 DEF vars, taskVars, evVars, runVars, mboxVars, ntfVars, nsVars, callVars,
                DataInv, DeferredOnce, ToldInTime, Replying
  <1>2. CASE Next
    BY <1>2, DataDispatch, DataTask, DataFiq, DataNonSecure DEF Next
  <1> QED BY <1>1, <1>2

(* Whatever clients do and whatever runs out, the data is there before its  *)
(* client is told, and a call is deferred once.                             *)
THEOREM DataSound == Spec => []DataInv
  <1>1. Init => DataInv
    BY ConstantFacts DEF Init, DataInv, DeferredOnce, ToldInTime, Replying
  <1>2. TypeOK /\ KernelInv /\ IpcInv /\ SessionInv /\ TypeOK' /\ DataInv /\ [Next]_vars => DataInv'
    BY DataStep
  <1> QED BY <1>1, <1>2, TypeCorrect, InFlight, IpcSound, SessionsSound, PTL DEF Spec
-----------------------------------------------------------------------------
(* The kernel implements TrustedCall, step by step.                         *)

LEMMA PromiseInit == Init => Promise!Init
  <1> SUFFICES ASSUME Init PROVE Promise!Init
    OBVIOUS
  <1>1. ran = [c \in Calls |-> "none"]
    BY DEF Init
  <1>2. CallStage = [c \in Calls |-> "unsent"]
    BY DEF Init, CallStage
  <1> QED BY <1>1, <1>2 DEF Promise!Init

(* A step that moves no call, executes nothing and changes no answer. *)
LEMMA PromiseStutter ==
    ASSUME ran' = ran,
           \A c \in Calls : /\ CallStage'[c] = CallStage[c]
                            /\ CallStage[c] = "answered" => answer'[c] = answer[c]
    PROVE  UNCHANGED Promise!vars
  <1>1. CallStage' = CallStage
    BY DEF CallStage
  <1> QED BY <1>1 DEF Promise!vars

(* Call c enters the secure world, for the first time or again. *)
LEMMA PromiseEnter ==
    ASSUME NEW c \in Calls, ran' = ran, answer' = answer,
           CallStage[c] \in {"unsent", "deferred"}, CallStage'[c] = "inside",
           \A d \in Calls : CallStage[d] # "inside" /\ (d # c => CallStage'[d] = CallStage[d])
    PROVE  Promise!Next
  <1>1. CallStage' = [CallStage EXCEPT ![c] = "inside"]
    BY DEF CallStage
  <1>2. Promise!Enter(c)
    BY <1>1 DEF Promise!Enter, Promise!NoneInside
  <1> QED BY <1>2 DEF Promise!Next

(* Call c leaves it without having been executed. *)
LEMMA PromiseDefer ==
    ASSUME NEW c \in Calls, ran' = ran, ran[c] = "none",
           CallStage[c] = "inside", CallStage'[c] = "deferred",
           \A d \in Calls : d # c => CallStage'[d] = CallStage[d] /\ answer'[d] = answer[d]
    PROVE  Promise!Next
  <1>1. CallStage' = [CallStage EXCEPT ![c] = "deferred"]
    BY DEF CallStage
  <1>2. Promise!Defer(c)
    BY <1>1 DEF Promise!Defer
  <1> QED BY <1>2 DEF Promise!Next

(* Call c leaves it with what its execution returned. *)
LEMMA PromiseAnswer ==
    ASSUME NEW c \in Calls, ran' = ran, ran[c] # "none", answer'[c] = ran[c],
           CallStage[c] = "inside", CallStage'[c] = "answered",
           \A d \in Calls : d # c => CallStage'[d] = CallStage[d] /\ answer'[d] = answer[d]
    PROVE  Promise!Next
  <1>1. CallStage' = [CallStage EXCEPT ![c] = "answered"]
    BY DEF CallStage
  <1>2. Promise!Answer(c)
    BY <1>1 DEF Promise!Answer
  <1> QED BY <1>2 DEF Promise!Next

(* Every step of the kernel and its clients is a step of TrustedCall or     *)
(* changes nothing there.                                                   *)
LEMMA PromiseStep ==
    ASSUME NoMapFault, "signal" \notin Lapses, TypeOK, KernelInv, IpcInv, SessionInv, ReplyInv,
           AnswerInv, DataInv, TypeOK', [Next]_vars
    PROVE  [Promise!Next]_(Promise!vars)
  <1> USE ConstantFacts DEF taskVars, evVars, mboxVars, ntfVars, nsVars, callVars, Goto, KernelInv
  <1>1. /\ \A c \in Calls : CallStage[c] = IF target[c] = D THEN "unsent"
                                          ELSE IF smc = c THEN "inside"
                                          ELSE IF c \in pend THEN "deferred" ELSE "answered"
        /\ \A c \in Calls : CallStage'[c] = IF target'[c] = D THEN "unsent"
                                            ELSE IF smc' = c THEN "inside"
                                            ELSE IF c \in pend' THEN "deferred" ELSE "answered"
    BY DEF CallStage
  <1>2. ASSUME UNCHANGED <<ran, target, smc, pend, answer>> PROVE UNCHANGED Promise!vars
    BY <1>1, <1>2, PromiseStutter
  <1>3. NoCall \notin Calls /\ pend \subseteq Calls /\ nextCall \in Int
    BY NumberFacts DEF NoCall, Calls, TypeOK
  <1>4. CASE UNCHANGED vars
    BY <1>2, <1>4 DEF vars
  <1>5. CASE DispReply
    <2>1. /\ cur = D /\ api.set /\ pc = "after" /\ smc' = NoCall /\ UNCHANGED <<ran, target>>
          /\ IF api.val = "pending" /\ smc \notin pend THEN pend' = pend \cup {smc}
                                                      ELSE pend' = pend \ {smc}
          /\ answer' = [answer EXCEPT ![smc] = api.val]
      BY <1>5 DEF DispReply
    <2>2. smc \in Calls /\ Replying /\ smc # NoCall
      BY <2>1 DEF OneInFlight, InNonSecure, InDispatcher, InTask, TypeOK, Replying
    <2>3. \A d \in Calls : answer'[d] = IF d = smc THEN api.val ELSE answer[d]
      BY <2>1, <2>2 DEF TypeOK
    <2>4. \A d \in Calls : d # smc => CallStage'[d] = CallStage[d] /\ answer'[d] = answer[d]
      BY <1>1, <1>3, <2>1, <2>3
    <2>5. CASE target[smc] = D
      BY <1>1, <2>1, <2>2, <2>4, <2>5, PromiseStutter
    <2>6. CASE target[smc] # D /\ api.val = "pending"
      <3>1. ran[smc] = "none" /\ smc \notin pend
        BY <2>2, <2>6 DEF AnswerInv, ReplyIsResult, DataInv, DeferredOnce
      <3>2. CallStage[smc] = "inside" /\ CallStage'[smc] = "deferred"
        BY <1>1, <2>1, <2>2, <2>6, <3>1
      <3> QED BY <2>1, <2>2, <2>4, <3>1, <3>2, PromiseDefer
    <2>7. CASE target[smc] # D /\ api.val # "pending"
      <3>1. ran[smc] = api.val /\ ran[smc] # "none"
        BY <2>2, <2>7 DEF AnswerInv, ReplyIsResult, TypeOK, Api, Rets
      <3>2. CallStage[smc] = "inside" /\ CallStage'[smc] = "answered"
        BY <1>1, <2>1, <2>2, <2>7
      <3> QED BY <2>1, <2>2, <2>3, <2>4, <3>1, <3>2, PromiseAnswer
    <2> QED BY <2>5, <2>6, <2>7
  <1>6. CASE Dispatch /\ ~DispReply
    <2>1. UNCHANGED <<ran, target, smc, pend, answer>>
      <3>1. CASE DispReturned \/ DispIdle \/ DispResumed \/ DispNoReply \/ DispClose
        BY <3>1, PassEffect
      <3>2. CASE DispCloseFails \/ DispRegister \/ DispUnregister \/ DispOther
        BY <3>2, AnsweredEffect
      <3>3. CASE DispOpen \/ DispOpenFails \/ DispClose2
        BY <3>3, Close2Effect DEF DispOpen, DispOpenFails
      <3>4. CASE DispSend \/ DispResume \/ DispSchedule
        BY <3>4, SendEffect, ResumeEffect DEF DispSchedule
      <3> QED BY <1>6, <3>1, <3>2, <3>3, <3>4 DEF Dispatch
    <2> QED BY <1>2, <2>1
  <1>7. ASSUME NEW t \in Svc, TaskStep(t) PROVE [Promise!Next]_(Promise!vars)
    <2>1. /\ cur = t /\ t \in tasks \ {D} /\ smc \in Calls /\ smc # NoCall
          /\ Serves(Client(t), smc)
          /\ UNCHANGED <<smc, pend, target, answer>>
      <3>1. smc # NoCall /\ Active(t)
        BY <1>7, StepOf DEF Only
      <3> QED BY <1>7, <3>1, StepOf DEF ReplyInv, WorkMatches, TypeOK
    <2>2. CASE ran' = ran
      BY <1>2, <2>1, <2>2
    <2>3. CASE TaskReturn(t) /\ tls[t].typ # "sec"
      <3>1. tls[t].call = smc
        BY <2>1, <2>3 DEF Client, Serves
      <3>2. PICK v \in {"ok", "err"} : ran' = [ran EXCEPT ![smc] = v]
        BY <1>7, <2>3, <3>1, ReturnEffect
      <3>3. ran[smc] = "none"
        BY <2>1 DEF AnswerInv, InsideUnanswered, Busy
      <3>4. target[smc] # D
        BY <2>1 DEF ServiceCall, ServiceActive
      <3>5. CallStage' = CallStage /\ CallStage[smc] = "inside"
        BY <1>1, <2>1, <3>4 DEF CallStage
      <3>6. Promise!Execute(smc)
        BY <2>1, <3>2, <3>3, <3>5 DEF Promise!Execute
      <3> QED BY <2>1, <3>6 DEF Promise!Next
    <2>4. CASE TaskReturn(t) /\ tls[t].typ = "sec"
      <3>1. ran' = ran
        BY <1>7, <2>4, ReturnEffect
      <3> QED BY <2>2, <3>1
    <2>5. CASE ~TaskReturn(t)
      <3>1. ran' = ran
        <4>1. CASE TaskSync(t) \/ TaskNoMap(t) \/ TaskNoTimer(t) \/ TaskIpcEncodeFails(t)
          BY <4>1 DEF TaskSync, TaskNoMap, TaskNoTimer, TaskIpcEncodeFails
        <4>2. CASE TaskAsync(t) \/ TaskWaitCheck(t) \/ TaskWaitPrepare(t) \/ TaskIpcConnect(t)
          BY <4>2 DEF TaskAsync, TaskWaitCheck, TaskWaitPrepare, TaskIpcConnect
        <4>3. CASE TaskUsleep(t) \/ TaskSleep(t) \/ TaskSleepSuspend(t)
          BY <1>7, <4>3, SleepEffect
        <4>4. CASE TaskSleepYield(t) \/ TaskWaitYield(t) \/ TaskIpcSend(t) \/ TaskIpcBack(t)
          BY <4>4 DEF TaskSleepYield, TaskWaitYield, TaskIpcSend, TaskIpcBack
        <4> QED BY <1>7, <2>5, <4>1, <4>2, <4>3, <4>4 DEF TaskStep
      <3> QED BY <2>2, <3>1
    <2> QED BY <2>3, <2>4, <2>5
  <1>8. CASE Fiq
    <2>1. PICK t \in Svc : FiqSleep(t) \/ FiqEcho(t)
      BY <1>8 DEF Fiq
    <2>2. UNCHANGED <<ran, target, smc, pend, answer>>
      BY <2>1, WakeEffect DEF FiqEcho
    <2> QED BY <1>2, <2>2
  <1>9. CASE NonSecure
    <2>1. smc = NoCall /\ ran' = ran
      BY <1>9, NonSecureEffect
    <2>2. \A d \in Calls : CallStage[d] # "inside"
      BY <1>1, <1>3, <2>1
    <2>3. ASSUME NEW op, NEW t, NEW k, NewCallEffect(op, t, k), op = "send" => t \in opened
          PROVE  [Promise!Next]_(Promise!vars)
      <3>1. \A c \in Calls : target'[c] = IF c = nextCall THEN (IF op = "send" THEN t ELSE D)
                                          ELSE target[c]
        BY <2>3 DEF NewCallEffect, TypeOK
      <3>2. /\ nextCall \in Calls /\ target[nextCall] = D /\ smc' = nextCall
            /\ UNCHANGED <<pend, answer>>
        BY <1>3, <2>3 DEF NewCallEffect, AnswerInv, FutureFresh
      <3>3. \A d \in Calls : d # nextCall => CallStage'[d] = CallStage[d]
        BY <1>1, <1>3, <2>1, <3>1, <3>2
      <3>4. CallStage[nextCall] = "unsent"
        BY <1>1, <3>2
      <3>5. CASE op = "send"
        <4>1. t # D
          BY <2>3, <3>5 DEF TypeOK
        <4>2. CallStage'[nextCall] = "inside"
          BY <1>1, <3>1, <3>2, <3>5, <4>1
        <4> QED BY <2>1, <2>2, <3>2, <3>3, <3>4, <4>2, PromiseEnter
      <3>6. CASE op # "send"
        <4>1. CallStage'[nextCall] = "unsent"
          BY <1>1, <3>1, <3>2, <3>6
        <4> QED BY <2>1, <3>2, <3>3, <3>4, <4>1, PromiseStutter
      <3> QED BY <3>5, <3>6
    <2>4. CASE NsIpi
      <3>1. UNCHANGED <<ran, target, smc, pend, answer>>
        BY <2>4 DEF NsIpi
      <3> QED BY <1>2, <3>1
    <2>5. CASE NsResume
      <3>1. PICK c \in pend : smc' = c /\ UNCHANGED <<pend, target, answer>>
        BY <2>5 DEF NsResume, Issue
      <3>2. c \in Calls /\ target[c] # D
        BY <1>3, <3>1 DEF ServiceCall
      <3>3. /\ CallStage[c] = "deferred" /\ CallStage'[c] = "inside"
            /\ \A d \in Calls : d # c => CallStage'[d] = CallStage[d]
        BY <1>1, <1>3, <2>1, <3>1, <3>2
      <3> QED BY <2>1, <2>2, <3>1, <3>2, <3>3, PromiseEnter
    <2>6. ~NsInterrupted
      BY DEF NsInterrupted
    <2> QED BY <1>9, <2>3, <2>4, <2>5, <2>6, NonSecureCases
  <1> QED BY <1>4, <1>5, <1>6, <1>7, <1>8, <1>9 DEF Next

(* With clients that send to no session whose command is pending and are    *)
(* not interrupted while they wait, and descriptors that can be mapped, the *)
(* kernel implements TrustedCall: one command at a time is inside, each is  *)
(* executed at most once and answered with what its execution returned.     *)
(* Calls on other sessions may come, and sessions be closed, while commands *)
(* are pending.                                                             *)
THEOREM KernelKeepsPromise ==
    ASSUME NoOverlap, NoMapFault, "signal" \notin Lapses
    PROVE  Spec => KeepsPromise
  <1>1. Init => Promise!Init
    BY PromiseInit
  <1>2. /\ TypeOK /\ KernelInv /\ IpcInv /\ SessionInv /\ ReplyInv /\ AnswerInv /\ DataInv
        /\ TypeOK' /\ [Next]_vars
        => [Promise!Next]_(Promise!vars)
    BY PromiseStep
  <1>3. Spec => []ReplyInv /\ []AnswerInv
    BY RepliesSound, AnswersSound
  <1> QED BY <1>1, <1>2, <1>3, TypeCorrect, InFlight, IpcSound, SessionsSound, DataSound, PTL
          DEF Spec, KeepsPromise, Promise!Spec
-----------------------------------------------------------------------------
(* The rounds of sw_wait_event_async, whatever clients do and whatever runs *)
(* out.                                                                     *)

(* A task that is queued or sleeps is not inside a wait. *)
QueuedElsewhere == \A u \in tasks \ {D} : Active(u) /\ cur # u => regs[u] # "wait_check"

(* Who runs with its element linked runs in the second round, for a call    *)
(* that has been pending; who is about to leave has said it is.             *)
FirstRound ==
    cur # D =>
        /\ pc \in {"wait_check", "wait_prep"} /\ wq[cur] = "linked" => smc \in pend
        /\ pc = "wait_yield" => api.set /\ api.val = "pending"

(* Both. *)
RoundInv == QueuedElsewhere /\ FirstRound

(* A queued or sleeping task starts over, ends its sleep or returns from an *)
(* inter-task call.                                                         *)
LEMMA QueuedStep ==
    ASSUME TypeOK, KernelInv, IpcInv, QueuedElsewhere, TypeOK', [Next]_vars
    PROVE  QueuedElsewhere'
  <1> USE ConstantFacts DEF taskVars, evVars, Goto, KernelInv
  <1>1. ASSUME UNCHANGED <<cur, ready, sleepEv, regs>>, tasks' \subseteq tasks
        PROVE  QueuedElsewhere'
    BY <1>1, ActiveStays DEF QueuedElsewhere
  <1>2. ASSUME Nobody' PROVE QueuedElsewhere'
    BY <1>2 DEF QueuedElsewhere, Nobody, TypeOK
  <1>3. ASSUME NEW t \in Svc, OnlyNext(t), cur' = t \/ regs'[t] # "wait_check"
        PROVE  QueuedElsewhere'
    BY <1>3 DEF QueuedElsewhere, OnlyNext, Active, TypeOK
  <1>4. CASE Dispatch
    <2>1. CASE DispReturned \/ DispIdle \/ DispResumed \/ DispNoReply \/ DispClose
      BY <1>1, <2>1, PassEffect
    <2>2. CASE DispCloseFails \/ DispRegister \/ DispUnregister \/ DispOther
      BY <1>2, <2>2, AnsweredEffect
    <2>3. CASE DispOpen \/ DispOpenFails
      <3>1. valid /\ UNCHANGED <<cur, ready, sleepEv>>
        BY <2>3 DEF DispOpen, DispOpenFails, Command
      <3> QED BY <1>2, <3>1, ActiveNow, ActiveStays
    <2>4. CASE DispClose2
      BY <1>2, <2>4, Close2Effect
    <2>5. CASE DispSend
      <3>1. CASE /\ params.task \in tasks /\ OnlyNext(params.task)
                 /\ regs' = [regs EXCEPT ![params.task] = "entry"]
        <4>1. params.task \in Svc
          BY <2>5, SendEffect
        <4>2. regs'[params.task] = "entry"
          BY <3>1, <4>1 DEF TypeOK
        <4> QED BY <1>3, <3>1, <4>1, <4>2
      <3>2. CASE UNCHANGED ready
        BY <1>2, <2>5, <3>2, SendEffect, ActiveStays
      <3> QED BY <2>5, <3>1, <3>2, SendEffect
    <2>6. CASE DispResume
      <3>1. CASE DispatcherMoves
        BY <1>1, <3>1 DEF DispatcherMoves
      <3>2. CASE GetsCore(params.task, "resumed")
        BY <1>3, <3>2 DEF GetsCore
      <3> QED BY <2>6, <3>1, <3>2, ResumeEffect
    <2>7. CASE DispSchedule
      <3>1. CASE DispatcherMoves
        BY <1>1, <3>1 DEF DispatcherMoves
      <3>2. ASSUME NEW t \in Svc, GetsCore(t, "after") PROVE QueuedElsewhere'
        BY <1>3, <3>2 DEF GetsCore
      <3> QED BY <2>7, <3>1, <3>2, ScheduleEffect
    <2>8. CASE DispReply
      BY <1>1, <2>8 DEF DispReply
    <2> QED BY <1>4, <2>1, <2>2, <2>3, <2>4, <2>5, <2>6, <2>7, <2>8 DEF Dispatch
  <1>5. ASSUME NEW t \in Svc, TaskStep(t) PROVE QueuedElsewhere'
    <2>1. cur = t /\ t \in tasks \ {D} /\ Only(t)
      BY <1>5, StepOf
    <2>2. ASSUME UNCHANGED <<cur, ready, sleepEv>> PROVE QueuedElsewhere'
      BY <1>3, <2>1, <2>2, ActiveStays
    <2>3. CASE TaskSync(t) \/ TaskNoMap(t) \/ TaskNoTimer(t) \/ TaskIpcEncodeFails(t)
      BY <2>2, <2>3 DEF TaskSync, TaskNoMap, TaskNoTimer, TaskIpcEncodeFails
    <2>4. CASE TaskUsleep(t) \/ TaskSleep(t) \/ TaskSleepSuspend(t)
      BY <1>3, <1>5, <2>1, <2>4, SleepEffect
    <2>5. CASE TaskSleepYield(t)
      <3>1. OnlyNext(t) /\ regs' = [regs EXCEPT ![t] = "fin"]
        BY <1>5, <2>5, SleepYieldEffect DEF GivesUpCore
      <3>2. regs'[t] = "fin"
        BY <3>1 DEF TypeOK
      <3> QED BY <1>3, <3>1, <3>2
    <2>6. CASE TaskAsync(t) \/ TaskWaitCheck(t) \/ TaskWaitPrepare(t) \/ TaskIpcConnect(t)
      BY <2>2, <2>6 DEF TaskAsync, TaskWaitCheck, TaskWaitPrepare, TaskIpcConnect
    <2>7. CASE TaskWaitYield(t) \/ TaskIpcSend(t)
      BY <1>2, <1>5, <2>7, WaitYieldEffect, IpcSendEffect
    <2>8. CASE TaskIpcBack(t)
      BY <1>5, <2>2, <2>8, IpcBackEffect
    <2>9. CASE TaskReturn(t)
      <3>1. ASSUME tls[t].typ = "sec", OnlyNext(tls[t].src) PROVE QueuedElsewhere'
        <4>1. Active(t) /\ regs' = regs
          BY <1>5, <2>1, <2>9, ReturnEffect DEF Only
        <4>2. tls[t].src \in Svc /\ regs[tls[t].src] = "ipc_back"
          BY <2>1, <3>1, <4>1 DEF IpcInv, CallersParked, Parked, TypeOK
        <4> QED BY <1>3, <3>1, <4>1, <4>2
      <3> QED BY <1>2, <1>5, <2>9, <3>1, ReturnEffect
    <2> QED BY <1>5, <2>3, <2>4, <2>5, <2>6, <2>7, <2>8, <2>9 DEF TaskStep
  <1>6. ASSUME NEW t \in Svc, FiqSleep(t) PROVE QueuedElsewhere'
    <2>1. /\ t \in tasks \ {D} /\ Only(t) /\ OnlyNext(t) /\ cur \in {D, t} /\ UNCHANGED <<cur, regs>>
      BY <1>6, WakeEffect
    <2>2. cur = t \/ regs[t] # "wait_check"
      BY <2>1 DEF QueuedElsewhere, Only
    <2> QED BY <1>3, <2>1, <2>2
  <1>7. ASSUME NEW t \in Svc, FiqEcho(t) PROVE QueuedElsewhere'
    BY <1>1, <1>7 DEF FiqEcho, runVars
  <1>8. CASE NonSecure
    BY <1>2, <1>8, NonSecureEffect
  <1>9. CASE UNCHANGED vars
    BY <1>1, <1>9 DEF vars, runVars
  <1> QED BY <1>4, <1>5, <1>6, <1>7, <1>8, <1>9 DEF Next, Fiq

(* The rounds follow each other. *)
LEMMA FirstRoundStep ==
    ASSUME TypeOK, KernelInv, SessionInv, DataInv, RoundInv, TypeOK', [Next]_vars
    PROVE  FirstRound'
  <1> USE ConstantFacts DEF taskVars, evVars, mboxVars, ntfVars, nsVars, callVars, Goto, KernelInv
  <1>1. ASSUME cur' = D \/ pc' \notin WaitPcs PROVE FirstRound'
    BY <1>1 DEF FirstRound, WaitPcs
  <1>2. ASSUME UNCHANGED <<cur, pc, wq, smc, pend, api>> PROVE FirstRound'
    BY <1>2 DEF RoundInv, FirstRound
  <1>3. CASE Dispatch
    <2>1. CASE DispReturned \/ DispIdle \/ DispResumed \/ DispNoReply \/ DispClose
      BY <1>1, <2>1, PassEffect
    <2>2. CASE DispCloseFails \/ DispRegister \/ DispUnregister \/ DispOther
      BY <1>1, <2>2, AnsweredEffect
    <2>3. CASE DispOpen \/ DispOpenFails \/ DispClose2 \/ DispSend \/ DispReply
      BY <1>1, <2>3, SendEffect, Close2Effect DEF DispOpen, DispOpenFails, DispReply, Command
    <2>4. CASE DispResume
      <3>1. CASE DispatcherMoves
        BY <1>1, <3>1 DEF DispatcherMoves
      <3>2. CASE GetsCore(params.task, "resumed")
        <4>1. valid /\ params.op = "resume" /\ params.typ = "ns" /\ UNCHANGED <<smc, pend>>
          BY <2>4, ResumeEffect DEF Command
        <4>2. smc \in pend
          BY <4>1 DEF SessionInv, MailboxMatches
        <4>3. pc' # "wait_yield"
          BY <3>2 DEF GetsCore, OneInFlight, Shape
        <4> QED BY <4>1, <4>2, <4>3 DEF FirstRound
      <3> QED BY <2>4, <3>1, <3>2, ResumeEffect
    <2>5. CASE DispSchedule
      <3>1. CASE DispatcherMoves
        BY <1>1, <3>1 DEF DispatcherMoves
      <3>2. ASSUME NEW t \in Svc, GetsCore(t, "after"), Only(t) PROVE FirstRound'
        <4>1. t \in tasks \ {D} /\ cur # t /\ pc' = regs[t] /\ Active(t)
          BY <3>2 DEF GetsCore, Only
        <4>2. pc' \notin WaitPcs
          BY <4>1 DEF RoundInv, QueuedElsewhere, OneInFlight, Shape, WaitPcs
        <4> QED BY <1>1, <4>2
      <3> QED BY <2>5, <3>1, <3>2, ScheduleEffect
    <2> QED BY <1>3, <2>1, <2>2, <2>3, <2>4, <2>5 DEF Dispatch
  <1>4. ASSUME NEW t \in Svc, TaskStep(t) PROVE FirstRound'
    <2>1. cur = t /\ UNCHANGED <<smc, pend>>
      BY <1>4, StepOf
    <2>2. CASE TaskSync(t) \/ TaskNoMap(t) \/ TaskNoTimer(t) \/ TaskIpcEncodeFails(t) \/ TaskIpcConnect(t)
      BY <1>1, <2>2 DEF TaskSync, TaskNoMap, TaskNoTimer, TaskIpcEncodeFails, TaskIpcConnect, WaitPcs
    <2>3. CASE TaskUsleep(t) \/ TaskSleep(t) \/ TaskSleepSuspend(t) \/ TaskIpcBack(t)
      BY <1>1, <1>4, <2>3, SleepEffect, IpcBackEffect DEF WaitPcs
    <2>4. CASE TaskSleepYield(t) \/ TaskIpcSend(t) \/ TaskReturn(t) \/ TaskWaitYield(t)
      BY <1>1, <1>4, <2>4, SleepYieldEffect, IpcSendEffect, ReturnEffect, WaitYieldEffect
         DEF GivesUpCore
    <2>5. CASE TaskAsync(t)
      <3>1. CASE avail[t]
        BY <1>1, <2>5, <3>1 DEF TaskAsync, WaitPcs
      <3>2. CASE ~avail[t]
        <4>1. wq' = [wq EXCEPT ![t] = "empty"] /\ pc' = "wait_check" /\ cur' = cur
          BY <2>5, <3>2 DEF TaskAsync
        <4>2. wq'[cur'] = "empty"
          BY <2>1, <4>1 DEF TypeOK
        <4> QED BY <4>1, <4>2 DEF FirstRound
      <3> QED BY <3>1, <3>2
    <2>6. CASE TaskWaitCheck(t)
      <3>1. CASE avail[t]
        BY <1>1, <2>6, <3>1 DEF TaskWaitCheck, WaitPcs
      <3>2. CASE ~avail[t]
        BY <2>1, <2>6, <3>2 DEF TaskWaitCheck, Running, RoundInv, FirstRound
      <3> QED BY <3>1, <3>2
    <2>7. CASE TaskWaitPrepare(t)
      <3>1. pc = "wait_prep" /\ pc' = "wait_yield" /\ cur' = cur
        BY <2>7 DEF TaskWaitPrepare, Running
      <3>2. smc \notin pend
        BY <2>1, <3>1 DEF DataInv, DeferredOnce
      <3>3. wq[t] # "linked"
        BY <2>1, <3>1, <3>2 DEF RoundInv, FirstRound
      <3>4. api'.set /\ api'.val = "pending"
        BY <2>7, <3>3 DEF TaskWaitPrepare, set_secure_api_ret
      <3> QED BY <3>1, <3>4 DEF FirstRound
    <2> QED BY <1>4, <2>2, <2>3, <2>4, <2>5, <2>6, <2>7 DEF TaskStep
  <1>5. ASSUME NEW t \in Svc, FiqSleep(t) \/ FiqEcho(t) PROVE FirstRound'
    BY <1>2, <1>5 DEF FiqSleep, FiqEcho, runVars
  <1>6. CASE NonSecure
    BY <1>1, <1>6, NonSecureEffect DEF runVars
  <1>7. CASE UNCHANGED vars
    BY <1>2, <1>7 DEF vars, runVars
  <1> QED BY <1>3, <1>4, <1>5, <1>6, <1>7 DEF Next, Fiq

(* Whatever clients do and whatever runs out, a task says once that its     *)
(* call is pending before it leaves the core to wait.                       *)
THEOREM RoundsSound == Spec => []RoundInv
  <1>1. Init => RoundInv
    <2> SUFFICES ASSUME Init PROVE RoundInv
      OBVIOUS
    <2>1. cur = D /\ tasks \ {D} = {}
      BY DEF Init
    <2> QED BY <2>1 DEF RoundInv, QueuedElsewhere, FirstRound
  <1>2. TypeOK /\ KernelInv /\ IpcInv /\ SessionInv /\ DataInv /\ TypeOK' /\ RoundInv /\ [Next]_vars
        => RoundInv'
    BY QueuedStep, FirstRoundStep DEF RoundInv
  <1> QED BY <1>1, <1>2, TypeCorrect, InFlight, IpcSound, SessionsSound, DataSound, PTL DEF Spec
-----------------------------------------------------------------------------
(* A timer of the echo task runs only for a call that waits for it.  Calls  *)
(* on other sessions, also asynchronous ones, and pages unregistered or not *)
(* mapped do not matter here.                                               *)

(* Call c is pending in the non-secure world, its task is in its first      *)
(* round of waiting, or its reply says that it is pending.                  *)
Expected(c) ==
    \/ c \in pend /\ smc # c
    \/ c = smc /\ c \notin pend /\ cur # D /\ pc \in WaitPcs
    \/ c = smc /\ Replying /\ api.val = "pending"

(* There is one timer at most, and somebody waits for it. *)
TimersAwaited ==
    \A t \in Svc : echoEv[t] > 0 =>
        echoEv[t] = 1 /\ ~avail[t] /\ \E c \in Calls : Expected(c) /\ target[c] = t

(* A step that starts no timer and ends nobody's waiting for one. *)
LEMMA TimerQuiet ==
    ASSUME TimersAwaited, UNCHANGED echoEv,
           \A t \in Svc : echoEv[t] > 0 /\ ~avail[t] => ~avail'[t],
           \A c \in Calls : Expected(c) /\ echoEv[target[c]] > 0 =>
                               Expected(c)' /\ target'[c] = target[c]
    PROVE  TimersAwaited'
  <1> SUFFICES ASSUME NEW t \in Svc, echoEv[t] > 0
               PROVE  echoEv[t] = 1 /\ ~avail'[t] /\ \E c \in Calls : Expected(c)' /\ target'[c] = t
    BY DEF TimersAwaited
  <1>1. PICK c \in Calls : Expected(c) /\ target[c] = t
    BY DEF TimersAwaited
  <1>2. Expected(c)' /\ target'[c] = t
    BY <1>1
  <1>3. echoEv[t] = 1 /\ ~avail[t]
    BY DEF TimersAwaited
  <1>4. ~avail'[t]
    BY <1>3
  <1> QED BY <1>2, <1>3, <1>4

(* A task that is created has no timer yet. *)
LEMMA NewTaskTimer ==
    ASSUME TypeOK, SessionInv, create_task \/ create_task_fails
    PROVE  \A t \in Svc : ~avail[t] => ~avail'[t]
  <1> SUFFICES ASSUME NEW t \in Svc, ~avail[t] PROVE ~avail'[t]
    OBVIOUS
  <1>1. CASE avail' = avail
    BY <1>1
  <1>2. CASE avail' = [avail EXCEPT ![nextId] = FALSE]
    <2>1. avail \in [Tid -> BOOLEAN] /\ t \in Tid
      BY ConstantFacts DEF TypeOK
    <2>2. CASE t = nextId
      BY <1>2, <2>1, <2>2
    <2>3. CASE t # nextId
      <3>1. avail'[t] = avail[t]
        BY <1>2, <2>1, <2>3
      <3> QED BY <3>1
    <2> QED BY <2>2, <2>3
  <1> QED BY <1>1, <1>2 DEF create_task, create_task_fails

(* The steps of the dispatcher. *)
LEMMA TimerDispatch ==
    ASSUME TypeOK, KernelInv, SessionInv, DataInv, TimersAwaited, Dispatch
    PROVE  TimersAwaited'
  <1> USE ConstantFacts DEF taskVars, evVars, mboxVars, ntfVars, nsVars, callVars, Goto, KernelInv
  <1>1. cur = D
    BY PassEffect, AnsweredEffect, Close2Effect, SendEffect, ResumeEffect
       DEF Dispatch, DispOpen, DispOpenFails, DispReply, DispSchedule, Command, DispatcherMoves
  <1>2. ASSUME UNCHANGED <<echoEv, target, pend, smc>>, \A t \in Svc : ~avail[t] => ~avail'[t],
               Replying => Replying' /\ api' = api
        PROVE  TimersAwaited'
    <2>1. \A c \in Calls : Expected(c) => Expected(c)'
      BY <1>1, <1>2 DEF Expected
    <2> QED BY <1>2, <2>1, TimerQuiet
  <1>3. CASE DispReturned \/ DispIdle \/ DispResumed \/ DispNoReply \/ DispClose
    <2>1. Replying => Replying' /\ api' = api
      <3>1. CASE DispReturned \/ DispIdle \/ DispResumed \/ DispNoReply
        BY <3>1 DEF DispReturned, DispIdle, DispResumed, DispNoReply, Replying,
                    OneInFlight, InNonSecure, InDispatcher, InTask
      <3>2. CASE DispClose
        BY <3>2 DEF DispClose, Command, Replying, OneInFlight, InNonSecure, InDispatcher, InTask
      <3> QED BY <1>3, <3>1, <3>2
    <2> QED BY <1>2, <1>3, <2>1, PassEffect
  <1>4. CASE DispCloseFails \/ DispRegister \/ DispUnregister \/ DispOther
    BY <1>2, <1>4, AnsweredEffect DEF Replying
  <1>5. CASE DispOpen \/ DispOpenFails
    <2>1. /\ UNCHANGED <<echoEv, target, pend, smc>> /\ valid /\ pc = "loop"
          /\ create_task \/ create_task_fails \/ UNCHANGED avail
      BY <1>5 DEF DispOpen, DispOpenFails, Command
    <2>2. ~Replying
      BY <1>1, <2>1 DEF Replying, OneInFlight, InNonSecure, InDispatcher, InTask
    <2> QED BY <1>2, <2>1, <2>2, NewTaskTimer
  <1>6. CASE DispClose2 \/ DispSend
    BY <1>2, <1>6, Close2Effect, SendEffect DEF Replying
  <1>7. CASE DispResume \/ DispSchedule
    <2>1. UNCHANGED <<echoEv, target, pend, smc, avail, api>>
      BY <1>7, ResumeEffect DEF DispSchedule
    <2>2. Replying => Replying'
      <3>1. CASE DispResume
        BY <3>1, ResumeEffect DEF Replying
      <3>2. CASE DispSchedule /\ DispatcherMoves /\ pc' = "after"
        BY <2>1, <3>2 DEF Replying
      <3>3. CASE ~api.set
        BY <3>3 DEF Replying
      <3> QED BY <1>7, <3>1, <3>2, <3>3, ScheduleEffect
    <2> QED BY <1>2, <2>1, <2>2
  <1>8. CASE DispReply
    <2>1. /\ api.set /\ pc = "after" /\ smc' = NoCall /\ UNCHANGED <<echoEv, target, avail>>
          /\ IF api.val = "pending" /\ smc \notin pend THEN pend' = pend \cup {smc}
                                                      ELSE pend' = pend \ {smc}
      BY <1>8 DEF DispReply
    <2>2. Replying /\ NoCall \notin Calls
      BY <2>1, NumberFacts DEF Replying, NoCall, Calls
    <2>3. api.val = "pending" => smc \notin pend
      BY <2>2 DEF DataInv, DeferredOnce
    <2>4. \A c \in Calls : Expected(c) => Expected(c)'
      BY <1>1, <2>1, <2>2, <2>3 DEF Expected
    <2> QED BY <2>1, <2>4, TimerQuiet
  <1> QED BY <1>3, <1>4, <1>5, <1>6, <1>7, <1>8 DEF Dispatch

(* A task starts a timer when its call begins to wait, and leaves the wait  *)
(* when the timer has ended.                                                *)
LEMMA TimerTask ==
    ASSUME TypeOK, KernelInv, IpcInv, SessionInv, ReplyInv, DataInv, RoundInv, TimersAwaited,
           TypeOK', NEW t \in Svc, TaskStep(t)
    PROVE  TimersAwaited'
  <1> USE ConstantFacts DEF taskVars, evVars, mboxVars, ntfVars, nsVars, callVars, Goto, KernelInv
  <1>1. /\ cur = t /\ t \in tasks \ {D} /\ Only(t) /\ InTask /\ Shape /\ smc # NoCall /\ smc \in Calls
        /\ Active(t) /\ UNCHANGED <<smc, pend, target>>
    BY StepOf DEF Only, TypeOK
  <1>2. api.set => pc = "wait_yield"
    BY <1>1 DEF InTask
  <1>3. ASSUME UNCHANGED echoEv, \A u \in Svc : ~avail[u] => ~avail'[u],
               Expected(smc) /\ echoEv[target[smc]] > 0 => Expected(smc)'
        PROVE  TimersAwaited'
    <2>1. \A c \in Calls : Expected(c) /\ echoEv[target[c]] > 0 => Expected(c)'
      BY <1>1, <1>3 DEF Expected
    <2> QED BY <1>1, <1>3, <2>1, TimerQuiet
  <1>4. ASSUME pc \notin WaitPcs PROVE ~Expected(smc)
    BY <1>1, <1>2, <1>4 DEF Expected, Replying, WaitPcs
  <1>5. CASE TaskSync(t) \/ TaskNoMap(t) \/ TaskNoTimer(t) \/ TaskIpcEncodeFails(t)
    <2>1. UNCHANGED <<echoEv, avail>> /\ pc \notin WaitPcs
      BY <1>5 DEF TaskSync, TaskNoMap, TaskNoTimer, TaskIpcEncodeFails, Running, WaitPcs
    <2> QED BY <1>3, <1>4, <2>1
  <1>6. CASE TaskUsleep(t) \/ TaskSleep(t) \/ TaskSleepSuspend(t) \/ TaskSleepYield(t)
    <2>1. UNCHANGED <<echoEv, avail>> /\ pc \notin WaitPcs
      BY <1>6 DEF TaskUsleep, TaskSleep, TaskSleepSuspend, TaskSleepYield, Running, WaitPcs
    <2> QED BY <1>3, <1>4, <2>1
  <1>7. CASE TaskIpcSend(t) \/ TaskIpcBack(t) \/ TaskReturn(t)
    <2>1. UNCHANGED <<echoEv, avail>> /\ pc \notin WaitPcs
      BY <1>7, IpcSendEffect, IpcBackEffect, ReturnEffect DEF WaitPcs
    <2> QED BY <1>3, <1>4, <2>1
  <1>8. CASE TaskIpcConnect(t)
    <2>1. UNCHANGED echoEv /\ pc \notin WaitPcs /\ (create_task \/ create_task_fails)
      BY <1>8 DEF TaskIpcConnect, Running, WaitPcs
    <2> QED BY <1>3, <1>4, <2>1, NewTaskTimer
  <1>9. ASSUME pc \in WaitPcs \/ tls[t].kind = "async" PROVE target[smc] = t /\ Serves(t, smc)
    <2>1. tls[t].kind = "async"
      BY <1>1, <1>9 DEF IpcInv, ContextsMatch, WaitPcs
    <2>2. Client(t) = t
      BY <2>1 DEF IpcInv, ContextsMatch, Client
    <2> QED BY <1>1, <2>2 DEF SessionInv, TaskMatches, ReplyInv, WorkMatches
  <1>10. CASE TaskAsync(t)
    <2>1. /\ UNCHANGED <<cur, avail, api>> /\ tls[t].kind = "async" /\ pc = "entry" /\ pc \notin WaitPcs
      BY <1>10 DEF TaskAsync, Running, WaitPcs
    <2>2. CASE avail[t]
      <3>1. UNCHANGED echoEv
        BY <1>10, <2>2 DEF TaskAsync
      <3> QED BY <1>3, <1>4, <2>1, <3>1
    <2>3. CASE ~avail[t]
      <3>1. echoEv' = [echoEv EXCEPT ![t] = @ + 1] /\ pc' = "wait_check"
        BY <1>10, <2>3 DEF TaskAsync
      <3>2. target[smc] = t /\ Serves(t, smc)
        BY <1>9, <2>1
      <3>3. ~(echoEv[t] > 0)
        <4> SUFFICES ASSUME echoEv[t] > 0 PROVE FALSE
          OBVIOUS
        <4>1. PICK c \in Calls : Expected(c) /\ target[c] = t
          BY DEF TimersAwaited
        <4>2. c # smc
          BY <1>4, <2>1, <4>1
        <4>3. c \in pend
          BY <4>1, <4>2 DEF Expected
        <4>4. Serves(t, c)
          BY <4>1, <4>3 DEF ReplyInv, PendingServed
        <4> QED BY <3>2, <4>2, <4>4 DEF Serves
      <3>4. \A u \in Svc : echoEv'[u] = IF u = t THEN 1 ELSE echoEv[u]
        <4>1. echoEv \in [Tid -> Nat] /\ echoEv[t] \in Nat
          BY DEF TypeOK
        <4>2. echoEv[t] = 0
          BY <3>3, <4>1
        <4> QED BY <3>1, <4>1, <4>2
      <3>5. smc \notin pend
        BY <2>3, <3>2 DEF DataInv, ToldInTime
      <3>6. Expected(smc)'
        BY <1>1, <2>1, <3>1, <3>5 DEF Expected, WaitPcs
      <3>7. \A c \in Calls : Expected(c) => Expected(c)'
        BY <1>1, <1>4, <2>1 DEF Expected
      <3>8. ASSUME NEW u \in Svc, echoEv'[u] > 0
            PROVE  echoEv'[u] = 1 /\ ~avail'[u] /\ \E c \in Calls : Expected(c)' /\ target'[c] = u
        <4>1. CASE u = t
          BY <1>1, <2>1, <2>3, <3>2, <3>4, <3>6, <4>1
        <4>2. CASE u # t
          <5>1. echoEv[u] > 0 /\ echoEv'[u] = echoEv[u]
            BY <3>4, <3>8, <4>2
          <5>2. echoEv[u] = 1 /\ ~avail[u] /\ \E c \in Calls : Expected(c) /\ target[c] = u
            BY <5>1 DEF TimersAwaited
          <5> QED BY <1>1, <2>1, <3>7, <5>1, <5>2
        <4> QED BY <4>1, <4>2
      <3> QED BY <3>8 DEF TimersAwaited
    <2> QED BY <2>2, <2>3
  <1>11. CASE TaskWaitCheck(t)
    <2>1. UNCHANGED <<cur, avail, echoEv, api>> /\ pc \in WaitPcs /\ pc # "wait_yield"
      BY <1>11 DEF TaskWaitCheck, Running, WaitPcs
    <2>2. CASE avail[t]
      <3>1. ~(echoEv[target[smc]] > 0)
        BY <1>9, <2>1, <2>2 DEF TimersAwaited
      <3> QED BY <1>3, <2>1, <3>1
    <2>3. CASE ~avail[t]
      <3>1. pc' \in WaitPcs
        BY <1>11, <2>3 DEF TaskWaitCheck, WaitPcs
      <3>2. Expected(smc) => Expected(smc)'
        BY <1>1, <1>2, <2>1, <3>1 DEF Expected, Replying
      <3> QED BY <1>3, <2>1, <3>2
    <2> QED BY <2>2, <2>3
  <1>12. CASE TaskWaitPrepare(t)
    <2>1. /\ UNCHANGED <<cur, avail, echoEv>> /\ pc = "wait_prep" /\ pc' = "wait_yield"
      BY <1>12 DEF TaskWaitPrepare, Running
    <2>2. smc \notin pend
      BY <1>1, <2>1 DEF DataInv, DeferredOnce
    <2>3. Expected(smc)'
      BY <1>1, <2>1, <2>2 DEF Expected, WaitPcs
    <2> QED BY <1>3, <2>1, <2>3
  <1>13. CASE TaskWaitYield(t)
    <2>1. /\ UNCHANGED <<avail, echoEv, api>> /\ cur' = D /\ pc = "wait_yield" /\ pc' = regs[D]
      BY <1>13, WaitYieldEffect DEF GivesUpCore
    <2>2. api.set /\ api.val = "pending" /\ pc' # "ret"
      BY <1>1, <2>1 DEF RoundInv, FirstRound, Shape
    <2>3. Expected(smc)'
      BY <1>1, <2>1, <2>2 DEF Expected, Replying
    <2> QED BY <1>3, <2>1, <2>3
  <1> QED BY <1>5, <1>6, <1>7, <1>8, <1>10, <1>11, <1>12, <1>13 DEF TaskStep

(* A timer that ends is gone. *)
LEMMA TimerFiq ==
    ASSUME TypeOK, TimersAwaited, Fiq
    PROVE  TimersAwaited'
  <1> USE ConstantFacts DEF taskVars, evVars, mboxVars, ntfVars, nsVars, callVars, runVars
  <1>1. PICK t \in Svc : FiqSleep(t) \/ FiqEcho(t)
    BY DEF Fiq
  <1>2. UNCHANGED <<target, smc, pend, cur, pc, api>>
    BY <1>1 DEF FiqSleep, FiqEcho
  <1>3. \A c \in Calls : Expected(c) => Expected(c)'
    BY <1>2 DEF Expected, Replying
  <1>4. CASE FiqSleep(t)
    <2>1. UNCHANGED <<echoEv, avail>>
      BY <1>4 DEF FiqSleep
    <2> QED BY <1>2, <1>3, <2>1, TimerQuiet
  <1>5. CASE FiqEcho(t)
    <2>1. /\ echoEv[t] > 0 /\ echoEv' = [echoEv EXCEPT ![t] = @ - 1]
          /\ avail' = avail \/ avail' = [avail EXCEPT ![t] = TRUE]
      BY <1>5 DEF FiqEcho
    <2>2. echoEv \in [Tid -> Nat] /\ avail \in [Tid -> BOOLEAN] /\ t \in Tid
      BY DEF TypeOK
    <2>3. echoEv[t] = 1
      BY <2>1 DEF TimersAwaited
    <2>4. echoEv'[t] = 0
      BY <2>1, <2>2, <2>3
    <2>5. \A u \in Svc : u # t => echoEv'[u] = echoEv[u]
      BY <2>1, <2>2
    <2>6. \A u \in Svc : u # t => avail'[u] = avail[u]
      BY <2>1, <2>2
    <2>7. ASSUME NEW u \in Svc, echoEv'[u] > 0
          PROVE  echoEv'[u] = 1 /\ ~avail'[u] /\ \E c \in Calls : Expected(c)' /\ target'[c] = u
      <3>1. u # t
        BY <2>4, <2>7
      <3>2. echoEv[u] = 1 /\ ~avail[u] /\ \E c \in Calls : Expected(c) /\ target[c] = u
        BY <2>5, <2>7, <3>1 DEF TimersAwaited
      <3>3. ~avail'[u]
        BY <2>6, <3>1, <3>2
      <3> QED BY <1>2, <1>3, <2>5, <3>1, <3>2, <3>3
    <2> QED BY <2>7 DEF TimersAwaited
  <1> QED BY <1>1, <1>4, <1>5

(* A client that is not interrupted waits for its timer. *)
LEMMA TimerNonSecure ==
    ASSUME "signal" \notin Lapses, TypeOK, KernelInv, DataInv, TimersAwaited, NonSecure
    PROVE  TimersAwaited'
  <1> USE ConstantFacts DEF taskVars, evVars, mboxVars, ntfVars, runVars, callVars, KernelInv
  <1>1. cur = D /\ pc = "ret" /\ smc = NoCall /\ UNCHANGED <<cur, pc, avail, echoEv>>
    BY NonSecureEffect
  <1>2. \A c \in Calls : Expected(c) => c \in pend
    BY <1>1 DEF Expected, Replying
  <1>3. NoCall \notin Calls /\ pend \subseteq Calls
    BY NumberFacts DEF NoCall, Calls, TypeOK
  <1>4. ASSUME NEW op, NEW t, NEW k, NewCallEffect(op, t, k) PROVE TimersAwaited'
    <2>1. /\ nextCall \in Calls /\ smc' = nextCall /\ UNCHANGED pend /\ nextCall \notin pend
          /\ target' = [target EXCEPT ![nextCall] = IF op = "send" THEN t ELSE D]
      BY <1>4 DEF NewCallEffect, ServiceCall, TypeOK
    <2>2. \A c \in Calls : Expected(c) => Expected(c)' /\ target'[c] = target[c]
      BY <1>2, <2>1 DEF Expected, TypeOK
    <2> QED BY <1>1, <2>2, TimerQuiet
  <1>5. CASE NsIpi
    <2>1. UNCHANGED <<target, smc, pend>>
      BY <1>5 DEF NsIpi
    <2>2. \A c \in Calls : Expected(c) => Expected(c)'
      BY <1>1, <1>2, <1>3, <2>1 DEF Expected
    <2> QED BY <1>1, <2>1, <2>2, TimerQuiet
  <1>6. CASE NsResume
    <2>1. PICK c \in pend \cap woken : smc' = c /\ UNCHANGED <<pend, target>>
      BY <1>6 DEF NsResume, Issue
    <2>2. c \in Calls /\ target[c] \in Svc /\ avail[target[c]]
      BY <1>3, <2>1 DEF DataInv, ToldInTime, ServiceCall
    <2>3. ~(echoEv[target[c]] > 0)
      BY <2>2 DEF TimersAwaited
    <2>4. \A d \in Calls : Expected(d) /\ echoEv[target[d]] > 0 => Expected(d)'
      BY <1>2, <2>1, <2>3 DEF Expected
    <2> QED BY <1>1, <2>1, <2>4, TimerQuiet
  <1>7. ~NsInterrupted
    BY DEF NsInterrupted
  <1> QED BY <1>4, <1>5, <1>6, <1>7, NonSecureCases

(* With clients that neither send to a session whose command is pending nor *)
(* are interrupted while they wait, a running timer is the only one of its  *)
(* task and a call waits for it.                                            *)
THEOREM TimersSound ==
    ASSUME NoOverlap, "signal" \notin Lapses
    PROVE  Spec => []TimersAwaited
  <1>1. Init => TimersAwaited
    BY ConstantFacts DEF Init, TimersAwaited
  <1>2. /\ TypeOK /\ KernelInv /\ IpcInv /\ SessionInv /\ ReplyInv /\ DataInv /\ RoundInv /\ TypeOK'
        /\ TimersAwaited /\ [Next]_vars
        => TimersAwaited'
    <2> SUFFICES ASSUME TypeOK, KernelInv, IpcInv, SessionInv, ReplyInv, DataInv, RoundInv, TypeOK',
                        TimersAwaited, [Next]_vars
                 PROVE  TimersAwaited'
      OBVIOUS
    <2>1. CASE UNCHANGED vars
      <3>1. \A c \in Calls : Expected(c) => Expected(c)'
        BY <2>1 DEF vars, runVars, mboxVars, nsVars, Expected, Replying
      <3> QED BY <2>1, <3>1, TimerQuiet DEF vars, taskVars, evVars, callVars, nsVars
    <2>2. CASE Next
      BY <2>2, TimerDispatch, TimerTask, TimerFiq, TimerNonSecure DEF Next
    <2> QED BY <2>1, <2>2
  <1>3. Spec => []ReplyInv
    BY RepliesSound
  <1> QED BY <1>1, <1>2, <1>3, TypeCorrect, InFlight, IpcSound, SessionsSound, DataSound,
             RoundsSound, PTL DEF Spec

(* While a session is being closed no timer handler is due that would write *)
(* the private data already freed, as long as clients close no session      *)
(* whose command is pending.  Commands may be pending on other sessions.    *)
THEOREM CloseFreesUnused ==
    ASSUME NoOverlap, NoPendingClose, "signal" \notin Lapses
    PROVE  Spec => []NoUseAfterFree
  <1>1. TypeOK /\ KernelInv /\ WaiterInv /\ TimersAwaited => NoUseAfterFree
    <2> SUFFICES ASSUME TypeOK, KernelInv, WaiterInv, TimersAwaited, pc = "close2",
                        ~(echoEv[params.task] = 0)
                 PROVE  FALSE
      BY DEF NoUseAfterFree
    <2> USE ConstantFacts DEF KernelInv
    <2>1. cur = D /\ ~api.set /\ params.op = "close" /\ params.task \in Svc
      BY DEF OneInFlight, Shape, InNonSecure, InDispatcher, InTask, TPcs
    <2>2. echoEv[params.task] > 0
      <3>1. echoEv[params.task] \in Nat
        BY <2>1 DEF TypeOK
      <3> QED BY <3>1
    <2>3. PICK c \in Calls : Expected(c) /\ target[c] = params.task
      BY <2>1, <2>2 DEF TimersAwaited
    <2>4. c \in pend
      BY <2>1, <2>3 DEF Expected, Replying
    <2> QED BY <2>1, <2>3, <2>4 DEF WaiterInv, ClosesUnused, Closing
  <1>2. (Spec => []WaiterInv) /\ (Spec => []TimersAwaited)
    BY WaitersSound, TimersSound
  <1> QED BY <1>1, <1>2, TypeCorrect, InFlight, PTL
-----------------------------------------------------------------------------
(* No notification is lost when one call waits at a time: clients start no  *)
(* asynchronous command while one is pending, close no session whose        *)
(* command is pending and are not interrupted; descriptors can be mapped;   *)
(* and the notification page stays registered while a session is open.      *)

(* A client starts no asynchronous command while one is pending. *)
NoTwoAsync == "two_async" \notin Lapses \/ "busy" \notin Lapses

(* A device file is closed last: no session of another file is left. *)
KeepsRegistered == "unregister" \notin Lapses

(* A call, inside or pending, is on a session its client holds. *)
SessionsHeld ==
    /\ \A c \in pend : target[c] \in opened
    /\ smc # NoCall /\ target[smc] # D => target[smc] \in opened

(* There is no notification page, or the command that takes it away is in   *)
(* params_stack.                                                            *)
Unregistered == ~notifyReg \/ (valid /\ params.op = "unregister")

(* No client has a session, or is about to get one. *)
Idle ==
    /\ opened = {} /\ pend = {} /\ (smc # NoCall => target[smc] = D)
    /\ Replying => api.sess = NoTask
    /\ ~(valid /\ params.op = "open")

(* Without a notification page there are no sessions. *)
Registered == Unregistered => Idle

(* The command of the call that is inside is asynchronous, or says it is    *)
(* pending.                                                                 *)
AsyncUnderWay ==
    \/ valid /\ params.typ = "ns" /\ params.op = "send" /\ params.kind = "async"
    \/ \E u \in tasks \ {D} : Active(u) /\ tls[u].kind = "async"
    \/ Replying /\ api.val = "pending"

(* One call at most is pending, and no other is about to be. *)
OneWaits ==
    /\ \A c, e \in pend : c = e
    /\ AsyncUnderWay => pend \subseteq {smc}

(* A block that has the RESUME id is of a call whose data is there, or that *)
(* has been answered: otz_smc_call writes the id into the block of the last *)
(* call made, which need not be that of the call it resumes.                *)
ResumedIds ==
    /\ smcCmd < nextCall
    /\ \A c \in Calls : c \in resumeId =>
          c < nextCall /\ (avail[target[c]] \/ (c \notin pend /\ c # smc))

(* The client of call c will be told, or has been. *)
Assured(c) == echoEv[target[c]] > 0 \/ (sgi /\ notify = c) \/ c \in woken

(* Whoever is to be told will be. *)
Promised == \A c \in Calls : Expected(c) => Assured(c)

(* The invariant behind NotificationNotLost. *)
NoticeInv == SessionsHeld /\ Registered /\ OneWaits /\ ResumedIds /\ Promised

(* At the start there is no session and no call. *)
LEMMA NoticeInit == Init => NoticeInv
  <1> SUFFICES ASSUME Init PROVE NoticeInv
    OBVIOUS
  <1>1. /\ smc = NoCall /\ pc = "ret" /\ pend = {} /\ cur = D /\ ~valid /\ tasks \ {D} = {}
        /\ opened = {} /\ resumeId = {} /\ smcCmd = NoCall /\ nextCall = 1
    BY DEF Init
  <1>2. SessionsHeld /\ Registered /\ OneWaits /\ ResumedIds
    BY <1>1 DEF SessionsHeld, Registered, Idle, OneWaits, ResumedIds, NoCall, Replying
  <1>3. Promised
    BY <1>1 DEF Promised, Expected, Replying
  <1> QED BY <1>2, <1>3 DEF NoticeInv

(* A session is closed when no call is on it. *)
LEMMA SessionsHeldStep ==
    ASSUME NoPendingClose, TypeOK, KernelInv, SessionsHeld, [Next]_vars
    PROVE  SessionsHeld'
  <1> USE ConstantFacts DEF taskVars, evVars, mboxVars, ntfVars, nsVars, callVars, Goto, KernelInv
  <1>1. ASSUME UNCHANGED <<smc, pend, target, opened>> PROVE SessionsHeld'
    BY <1>1 DEF SessionsHeld
  <1>2. CASE DispReply
    <2>1. /\ api.set /\ pc = "after" /\ smc' = NoCall /\ target' = target /\ opened \subseteq opened'
          /\ IF api.val = "pending" /\ smc \notin pend THEN pend' = pend \cup {smc}
                                                      ELSE pend' = pend \ {smc}
      BY <1>2 DEF DispReply
    <2>2. smc # NoCall
      BY <2>1, <1>2 DEF DispReply, OneInFlight, InNonSecure, InDispatcher, InTask
    <2>3. api.val = "pending" => target[smc] \in Svc
      BY <2>1, <2>2 DEF ServiceCall, ServiceActive
    <2> QED BY <2>1, <2>2, <2>3 DEF SessionsHeld
  <1>3. CASE Dispatch /\ ~DispReply
    <2>1. CASE DispReturned \/ DispIdle \/ DispResumed \/ DispNoReply \/ DispClose
      BY <1>1, <2>1, PassEffect
    <2>2. CASE DispCloseFails \/ DispRegister \/ DispUnregister \/ DispOther
      BY <1>1, <2>2, AnsweredEffect
    <2>3. CASE DispOpen \/ DispOpenFails \/ DispClose2
      BY <1>1, <2>3, Close2Effect DEF DispOpen, DispOpenFails
    <2>4. CASE DispSend \/ DispResume \/ DispSchedule
      BY <1>1, <2>4, SendEffect, ResumeEffect DEF DispSchedule
    <2> QED BY <1>3, <2>1, <2>2, <2>3, <2>4 DEF Dispatch
  <1>4. ASSUME NEW t \in Svc, TaskStep(t) PROVE SessionsHeld'
    BY <1>1, <1>4, StepOf
  <1>5. ASSUME NEW t \in Svc, FiqSleep(t) \/ FiqEcho(t) PROVE SessionsHeld'
    BY <1>1, <1>5 DEF FiqSleep, FiqEcho
  <1>6. CASE NonSecure
    <2>1. smc = NoCall
      BY <1>6, NonSecureEffect
    <2>2. ASSUME NEW op, NEW t, NEW k, NewCallEffect(op, t, k), op = "send" => t \in opened',
                 \A c \in pend : target[c] \in opened'
          PROVE  SessionsHeld'
      <3>1. /\ nextCall \in Calls /\ smc' = nextCall /\ UNCHANGED pend /\ nextCall \notin pend
            /\ target' = [target EXCEPT ![nextCall] = IF op = "send" THEN t ELSE D]
        BY <2>2 DEF NewCallEffect, ServiceCall, TypeOK
      <3>2. \A c \in Calls : target'[c] = IF c = nextCall THEN (IF op = "send" THEN t ELSE D)
                                          ELSE target[c]
        BY <3>1 DEF TypeOK
      <3> QED BY <2>2, <3>1, <3>2 DEF SessionsHeld, TypeOK
    <2>3. ASSUME NEW t \in opened, NewCallEffect("close", t, "sync"), opened' = opened \ {t},
                 PendingOn(t) = {} \/ "close_pending" \in Lapses
          PROVE  \A c \in pend : target[c] \in opened'
      <3>1. PendingOn(t) = {}
        BY <2>3 DEF NewCallEffect, NoPendingClose, PendingOn
      <3> QED BY <2>3, <3>1 DEF PendingOn, SessionsHeld
    <2>4. CASE NsIpi \/ NsInterrupted
      BY <2>1, <2>4 DEF NsIpi, NsInterrupted, SessionsHeld
    <2>5. CASE NsResume
      BY <2>1, <2>5 DEF NsResume, Issue, SessionsHeld
    <2> QED BY <1>6, <2>2, <2>3, <2>4, <2>5, NonSecureCases DEF SessionsHeld
  <1>7. CASE UNCHANGED vars
    BY <1>1, <1>7 DEF vars
  <1> QED BY <1>2, <1>3, <1>4, <1>5, <1>6, <1>7 DEF Next, Fiq

(* The page is registered before a session is opened and unregistered only  *)
(* when none is left.                                                       *)
LEMMA RegisteredStep ==
    ASSUME "signal" \notin Lapses, KeepsRegistered,
           TypeOK, KernelInv, SessionsHeld, Registered, TypeOK', [Next]_vars
    PROVE  Registered'
  <1> USE ConstantFacts DEF taskVars, evVars, mboxVars, ntfVars, nsVars, callVars, Goto, KernelInv
  <1>1. ASSUME Unregistered' => Unregistered, UNCHANGED <<opened, pend, smc, target>>,
               Replying' => api'.sess = NoTask \/ (Replying /\ api'.sess = api.sess),
               valid' => valid /\ params' = params
        PROVE  Registered'
    BY <1>1 DEF Registered, Idle
  <1>2. ASSUME ~Unregistered' PROVE Registered'
    BY <1>2 DEF Registered
  <1>3. CASE Dispatch
    <2>1. CASE DispReturned \/ DispIdle \/ DispResumed \/ DispNoReply \/ DispClose
      <3>1. /\ UNCHANGED <<opened, pend, smc, target, params, notifyReg>> /\ (valid' => valid)
            /\ api'.sess = api.sess /\ (api'.set /\ pc' # "ret" => api' = api /\ pc # "ret")
        BY <2>1, PassEffect
      <3> QED BY <1>1, <3>1 DEF Replying, Unregistered
    <2>2. CASE DispCloseFails \/ DispRegister \/ DispUnregister \/ DispOther
      <3>1. /\ valid /\ ~valid' /\ UNCHANGED <<opened, pend, smc, target, params>>
            /\ api'.sess = NoTask
        BY <2>2, AnsweredEffect DEF set_secure_api_ret
      <3>2. \/ notifyReg' = notifyReg \/ notifyReg' \/ params.op = "unregister"
        BY <2>2 DEF DispCloseFails, DispRegister, DispUnregister, DispOther, Command
      <3> QED BY <1>1, <3>1, <3>2 DEF Unregistered
    <2>3. CASE DispOpen
      <3>1. valid /\ params.op = "open" /\ ~valid' /\ notifyReg' = notifyReg
        BY <2>3 DEF DispOpen, Command
      <3>2. ~Unregistered
        BY <3>1 DEF Registered, Idle
      <3> QED BY <1>2, <3>1, <3>2 DEF Unregistered
    <2>4. CASE DispOpenFails \/ DispClose2
      <3>1. /\ UNCHANGED <<opened, pend, smc, target, params, notifyReg>> /\ (valid' => valid)
            /\ api'.sess = NoTask
        BY <2>4 DEF DispOpenFails, DispClose2, Command, set_secure_api_ret
      <3> QED BY <1>1, <3>1 DEF Unregistered
    <2>5. CASE DispSend \/ DispResume
      <3>1. /\ UNCHANGED <<opened, pend, smc, target, params, notifyReg, api>> /\ ~valid' /\ ~api.set
        BY <2>5, SendEffect, ResumeEffect DEF Command
      <3> QED BY <1>1, <3>1 DEF Replying, Unregistered
    <2>6. CASE DispSchedule
      <3>1. UNCHANGED <<opened, pend, smc, target, mboxVars, notifyReg>> /\ pc = "sched"
        BY <2>6 DEF DispSchedule
      <3> QED BY <1>1, <3>1 DEF Replying, Unregistered
    <2>7. CASE DispReply
      <3>1. /\ api.set /\ pc = "after" /\ cur = D /\ smc' = NoCall /\ pc' = "ret"
            /\ IF api.val = "pending" /\ smc \notin pend THEN pend' = pend \cup {smc}
                                                        ELSE pend' = pend \ {smc}
            /\ opened' = IF api.sess = NoTask THEN opened ELSE opened \cup {api.sess}
            /\ UNCHANGED <<valid, params, notifyReg>>
        BY <2>7 DEF DispReply
      <3>2. smc # NoCall /\ ~valid /\ Replying /\ ~Replying'
        BY <3>1 DEF OneInFlight, InNonSecure, InDispatcher, InTask, Replying
      <3>3. api.val = "pending" => target[smc] \in Svc
        BY <3>1, <3>2 DEF ServiceCall, ServiceActive
      <3>4. Unregistered => pend' = {} /\ opened' = {}
        BY <3>1, <3>2, <3>3 DEF Registered, Idle
      <3>5. Unregistered' => Unregistered
        BY <3>1 DEF Unregistered
      <3> QED BY <3>1, <3>2, <3>4, <3>5 DEF Registered, Idle
    <2> QED BY <1>3, <2>1, <2>2, <2>3, <2>4, <2>5, <2>6, <2>7 DEF Dispatch
  <1>4. ASSUME NEW t \in Svc, TaskStep(t) PROVE Registered'
    <2>1. cur # D /\ smc # NoCall /\ ~valid
      BY <1>4, StepOf
    <2>2. target[smc] # D
      BY <2>1 DEF ServiceCall, ServiceActive
    <2>3. ~Unregistered
      BY <2>1, <2>2 DEF Registered, Idle
    <2>4. notifyReg' = notifyReg /\ (valid' = valid \/ params'.op = "send")
      BY <1>4 DEF TaskStep, TaskSync,
           TaskNoMap, TaskNoTimer, TaskUsleep, TaskSleep, TaskSleepSuspend,
           TaskSleepYield, TaskAsync, TaskWaitCheck, TaskWaitPrepare, TaskWaitYield,
           TaskIpcConnect, TaskIpcEncodeFails, TaskIpcSend, TaskIpcBack, TaskReturn
    <2> QED BY <1>2, <2>1, <2>3, <2>4 DEF Unregistered
  <1>5. ASSUME NEW t \in Svc, FiqSleep(t) \/ FiqEcho(t) PROVE Registered'
    <2>1. UNCHANGED <<opened, pend, smc, target, mboxVars, notifyReg, pc>>
      BY <1>5 DEF FiqSleep, FiqEcho, runVars
    <2> QED BY <1>1, <2>1 DEF Replying, Unregistered
  <1>6. CASE NonSecure
    <2>1. pc = "ret" /\ smc = NoCall /\ ~valid /\ pc' = pc
      BY <1>6, NonSecureEffect DEF runVars
    <2>2. ~Replying /\ ~Replying'
      BY <2>1 DEF Replying
    <2>3. ASSUME NEW op, NEW t, NEW k, NewCall(op, t, k), UNCHANGED pend
          PROVE  /\ params'.op = op /\ notifyReg' = notifyReg
                 /\ op # "send" => target'[smc'] = D
      <3>1. nextCall \in Calls
        BY <2>3 DEF NewCall, TypeOK, Calls
      <3> QED BY <2>3, <3>1 DEF NewCall, Issue, TypeOK
    <2>4. CASE NsOpen
      <3>1. NewCall("open", D, "sync") /\ UNCHANGED pend /\ notifyReg
        BY <2>4 DEF NsOpen
      <3>2. params'.op = "open" /\ notifyReg' = notifyReg
        BY <2>3, <3>1
      <3> QED BY <1>2, <3>1, <3>2 DEF Unregistered
    <2>5. CASE NsClose
      <3>1. PICK t \in opened : NewCall("close", t, "sync") /\ UNCHANGED pend
        BY <2>5 DEF NsClose
      <3>2. notifyReg
        BY <3>1 DEF Registered, Idle, Unregistered
      <3>3. params'.op = "close" /\ notifyReg' = notifyReg
        BY <2>3, <3>1
      <3> QED BY <1>2, <3>2, <3>3 DEF Unregistered
    <2>6. CASE NsSend
      <3>1. PICK t \in opened, k \in Kinds : NewCall("send", t, k) /\ UNCHANGED pend
        BY <2>6 DEF NsSend
      <3>2. notifyReg
        BY <3>1 DEF Registered, Idle, Unregistered
      <3>3. params'.op = "send" /\ notifyReg' = notifyReg
        BY <2>3, <3>1
      <3> QED BY <1>2, <3>2, <3>3 DEF Unregistered
    <2>7. CASE NsRegister \/ NsUnregister \/ NsOther
      <3>1. PICK op \in {"register", "unregister", "other"} :
               /\ NewCall(op, D, "sync") /\ UNCHANGED <<pend, opened>>
               /\ op = "unregister" => opened = {}
        BY <2>7 DEF NsRegister, NsUnregister, NsOther, KeepsRegistered
      <3>2. /\ params'.op = op /\ notifyReg' = notifyReg /\ target'[smc'] = D
        BY <2>3, <3>1
      <3>3. Unregistered' => opened = {} /\ pend = {}
        <4>1. opened = {} => pend = {}
          BY DEF SessionsHeld, ServiceCall
        <4> QED BY <3>1, <3>2, <4>1 DEF Unregistered, Registered, Idle
      <3> QED BY <2>2, <3>1, <3>2, <3>3 DEF Registered, Idle
    <2>8. CASE NsIpi
      <3>1. UNCHANGED <<opened, pend, smc, target, mboxVars, notifyReg>>
        BY <2>8 DEF NsIpi
      <3> QED BY <1>1, <2>2, <3>1 DEF Unregistered
    <2>9. CASE NsResume
      <3>1. pend # {} /\ params'.op # "unregister" /\ notifyReg' = notifyReg
        BY <2>9 DEF NsResume, Issue
      <3>2. notifyReg
        BY <3>1 DEF Registered, Idle, Unregistered
      <3> QED BY <1>2, <3>1, <3>2 DEF Unregistered
    <2>10. ~NsInterrupted
      BY DEF NsInterrupted
    <2> QED BY <1>6, <2>4, <2>5, <2>6, <2>7, <2>8, <2>9, <2>10 DEF NonSecure
  <1>7. CASE UNCHANGED vars
    BY <1>1, <1>7 DEF vars, runVars, Replying, Unregistered
  <1> QED BY <1>3, <1>4, <1>5, <1>6, <1>7 DEF Next, Fiq

(* The steps of the dispatcher disappoint nobody. *)
LEMMA PromisedDispatch ==
    ASSUME TypeOK, KernelInv, SessionInv, RoundInv, Promised, Dispatch
    PROVE  Promised'
  <1> USE ConstantFacts DEF taskVars, evVars, mboxVars, ntfVars, nsVars, callVars, Goto, KernelInv
  <1>1. ASSUME UNCHANGED <<target, echoEv, sgi, notify, woken, pend, smc>>,
               cur' = D \/ pc' \notin WaitPcs \/ smc \in pend,
               Replying' => (Replying /\ api' = api) \/ api'.val # "pending"
        PROVE  Promised'
    BY <1>1 DEF Promised, Expected, Assured
  <1>2. CASE DispReturned \/ DispIdle \/ DispResumed \/ DispNoReply \/ DispClose
    <2>1. /\ UNCHANGED <<target, echoEv, sgi, notify, woken, pend, smc>> /\ cur' = D
          /\ (api'.set /\ pc' # "ret" => api' = api /\ pc # "ret")
      BY <1>2, PassEffect
    <2> QED BY <1>1, <2>1 DEF Replying
  <1>3. CASE DispCloseFails \/ DispRegister \/ DispUnregister \/ DispOther
    <2>1. /\ UNCHANGED <<target, echoEv, sgi, notify, woken, pend, smc>> /\ cur' = D
          /\ api'.val # "pending"
      BY <1>3, AnsweredEffect DEF set_secure_api_ret
    <2> QED BY <1>1, <2>1
  <1>4. CASE DispOpen \/ DispOpenFails \/ DispClose2
    <2>1. /\ UNCHANGED <<target, echoEv, sgi, notify, woken, pend, smc>> /\ cur' = D
          /\ api'.val # "pending"
      BY <1>4 DEF DispOpen, DispOpenFails, DispClose2, Command, set_secure_api_ret
    <2> QED BY <1>1, <2>1
  <1>5. CASE DispSend
    <2>1. /\ UNCHANGED <<target, echoEv, sgi, notify, woken, pend, smc, api>> /\ cur' = D /\ ~api.set
      BY <1>5, SendEffect
    <2> QED BY <1>1, <2>1 DEF Replying
  <1>6. CASE DispResume
    <2>1. /\ UNCHANGED <<target, echoEv, sgi, notify, woken, pend, smc, api>> /\ ~api.set
          /\ valid /\ params.op = "resume" /\ params.typ = "ns"
      BY <1>6, ResumeEffect DEF Command
    <2>2. smc \in pend
      BY <2>1 DEF SessionInv, MailboxMatches
    <2> QED BY <1>1, <2>1, <2>2 DEF Replying
  <1>7. CASE DispSchedule
    <2>1. UNCHANGED <<target, echoEv, sgi, notify, woken, pend, smc, api>> /\ pc = "sched"
      BY <1>7 DEF DispSchedule
    <2>2. CASE DispatcherMoves
      BY <1>1, <2>1, <2>2 DEF Replying, DispatcherMoves
    <2>3. ASSUME NEW t \in Svc, GetsCore(t, "after"), Only(t), ~api.set PROVE Promised'
      <3>1. t \in tasks \ {D} /\ cur # t /\ pc' = regs[t] /\ Active(t)
        BY <2>3 DEF GetsCore, Only
      <3>2. pc' \notin WaitPcs
        BY <3>1 DEF RoundInv, QueuedElsewhere, OneInFlight, Shape, WaitPcs
      <3> QED BY <1>1, <2>1, <2>3, <3>2 DEF Replying
    <2> QED BY <1>7, <2>2, <2>3, ScheduleEffect
  <1>8. CASE DispReply
    <2>1. /\ api.set /\ pc = "after" /\ cur' = D /\ smc' = NoCall /\ pc' = "ret"
          /\ IF api.val = "pending" /\ smc \notin pend THEN pend' = pend \cup {smc}
                                                      ELSE pend' = pend \ {smc}
          /\ UNCHANGED <<target, echoEv, sgi, notify, woken>>
      BY <1>8 DEF DispReply
    <2>2. Replying /\ ~Replying'
      BY <2>1 DEF Replying
    <2>3. ASSUME NEW c \in Calls, Expected(c)' PROVE Expected(c)
      <3>1. c \in pend'
        BY <2>1, <2>2, <2>3 DEF Expected
      <3> QED BY <2>1, <2>2, <3>1 DEF Expected
    <2> QED BY <2>1, <2>3 DEF Promised, Assured
  <1> QED BY <1>2, <1>3, <1>4, <1>5, <1>6, <1>7, <1>8 DEF Dispatch

(* A task that goes into its wait has started its timer. *)
LEMMA PromisedTask ==
    ASSUME TypeOK, KernelInv, IpcInv, SessionInv, DataInv, Promised, TypeOK',
           NEW t \in Svc, TaskStep(t)
    PROVE  Promised'
  <1> USE ConstantFacts DEF taskVars, evVars, mboxVars, ntfVars, nsVars, callVars, Goto, KernelInv
  <1>1. /\ cur = t /\ t \in tasks \ {D} /\ Only(t) /\ InTask /\ Shape /\ smc # NoCall
        /\ UNCHANGED <<smc, pend, target, woken>>
    BY StepOf
  <1>2. ASSUME UNCHANGED <<echoEv, sgi, notify>>,
               (pc \in WaitPcs /\ smc \notin pend) \/ (cur' = D \/ pc' \notin WaitPcs),
               (pc \in WaitPcs /\ smc \notin pend) \/ ~api'.set \/ api'.val # "pending"
        PROVE  Promised'
    <2>1. ASSUME NEW c \in Calls, Expected(c)' PROVE Expected(c)
      BY <1>1, <1>2, <2>1 DEF Expected, Replying
    <2> QED BY <1>1, <1>2, <2>1 DEF Promised, Assured
  <1>3. api.set => pc = "wait_yield"
    BY <1>1 DEF InTask
  <1>4. regs[D] \notin WaitPcs
    BY <1>1 DEF Shape, WaitPcs
  <1>5. CASE TaskSync(t) \/ TaskNoMap(t) \/ TaskNoTimer(t) \/ TaskIpcEncodeFails(t)
    <2>1. /\ UNCHANGED <<echoEv, sgi, notify, api>> /\ pc' \notin WaitPcs /\ pc # "wait_yield"
      BY <1>5 DEF TaskSync, TaskNoMap, TaskNoTimer, TaskIpcEncodeFails, Running, WaitPcs
    <2> QED BY <1>2, <1>3, <2>1
  <1>6. CASE TaskUsleep(t) \/ TaskSleep(t) \/ TaskSleepSuspend(t) \/ TaskSleepYield(t)
    <2>1. pc # "wait_yield" /\ UNCHANGED <<echoEv, sgi, notify, api>>
      BY <1>6 DEF TaskUsleep, TaskSleep, TaskSleepSuspend, TaskSleepYield, Running
    <2>2. cur' = D \/ pc' \notin WaitPcs
      BY <1>6, SleepEffect, SleepYieldEffect DEF GivesUpCore, WaitPcs
    <2> QED BY <1>2, <1>3, <2>1, <2>2
  <1>7. CASE TaskIpcConnect(t) \/ TaskIpcSend(t) \/ TaskIpcBack(t)
    <2>1. pc # "wait_yield" /\ UNCHANGED <<echoEv, sgi, notify, api>>
      BY <1>7 DEF TaskIpcConnect, TaskIpcSend, TaskIpcBack, Running
    <2>2. CASE TaskIpcConnect(t)
      BY <1>2, <1>3, <2>1, <2>2 DEF TaskIpcConnect, WaitPcs
    <2>3. CASE TaskIpcSend(t)
      BY <1>2, <1>3, <2>1, <2>3, IpcSendEffect DEF GivesUpCore
    <2>4. CASE TaskIpcBack(t)
      BY <1>2, <1>3, <2>1, <2>4, IpcBackEffect DEF WaitPcs
    <2> QED BY <1>7, <2>2, <2>3, <2>4
  <1>8. CASE TaskReturn(t)
    <2>1. UNCHANGED <<echoEv, sgi, notify>> /\ cur' = D /\ ~api.set
      BY <1>8, ReturnEffect
    <2>2. api' = api \/ api'.val # "pending"
      BY <1>8 DEF TaskReturn, set_secure_api_ret
    <2> QED BY <1>2, <2>1, <2>2
  <1>9. CASE TaskAsync(t)
    <2>1. /\ UNCHANGED <<cur, sgi, notify, api>> /\ tls[t].kind = "async" /\ pc = "entry"
      BY <1>9 DEF TaskAsync, Running
    <2>2. CASE avail[t]
      <3>1. UNCHANGED echoEv /\ pc' = "fin"
        BY <1>9, <2>2 DEF TaskAsync
      <3> QED BY <1>2, <1>3, <2>1, <3>1 DEF WaitPcs
    <2>3. CASE ~avail[t]
      <3>1. echoEv' = [echoEv EXCEPT ![t] = @ + 1]
        BY <1>9, <2>3 DEF TaskAsync
      <3>2. echoEv'[t] > 0
        <4>1. t \in Tid /\ echoEv \in [Tid -> Nat] /\ echoEv[t] \in Nat
          BY DEF TypeOK
        <4>2. echoEv'[t] = echoEv[t] + 1
          BY <3>1, <4>1
        <4> QED BY <4>1, <4>2
      <3>3. Active(t) /\ tls[t].typ # "sec"
        BY <1>1, <2>1 DEF Only, IpcInv, ContextsMatch
      <3>4. target[smc] = t
        BY <1>1, <3>3 DEF SessionInv, TaskMatches, Client
      <3>5. ASSUME NEW c \in Calls, Expected(c)', c # smc PROVE Assured(c)'
        <4>1. Assured(c)
          BY <1>1, <3>5 DEF Promised, Expected
        <4>2. echoEv[target[c]] > 0 => echoEv'[target[c]] > 0
          <5>1. echoEv \in [Tid -> Nat] /\ target[c] \in Tid
            BY DEF TypeOK
          <5> QED BY <3>1, <3>2, <5>1
        <4> QED BY <1>1, <2>1, <4>1, <4>2 DEF Assured
      <3>6. ASSUME NEW c \in Calls, c = smc PROVE Assured(c)'
        BY <1>1, <3>2, <3>4, <3>6 DEF Assured
      <3> QED BY <3>5, <3>6 DEF Promised
    <2> QED BY <2>2, <2>3
  <1>10. CASE TaskWaitCheck(t)
    <2>1. UNCHANGED <<cur, avail, api, echoEv, sgi, notify>> /\ pc = "wait_check" /\ ~api.set
      BY <1>3, <1>10 DEF TaskWaitCheck, Running
    <2>2. CASE avail[t]
      <3>1. pc' = "fin"
        BY <1>10, <2>2 DEF TaskWaitCheck
      <3> QED BY <1>2, <2>1, <3>1 DEF WaitPcs
    <2>3. CASE ~avail[t]
      <3>1. tls[t].kind = "async"
        BY <1>1, <2>1 DEF IpcInv, ContextsMatch
      <3>2. Active(t) /\ tls[t].typ # "sec"
        BY <1>1, <3>1 DEF Only, IpcInv, ContextsMatch
      <3>3. target[smc] = t
        BY <1>1, <3>2 DEF SessionInv, TaskMatches, Client
      <3>4. smc \notin pend
        BY <2>3, <3>3 DEF DataInv, ToldInTime
      <3> QED BY <1>2, <2>1, <3>4 DEF WaitPcs
    <2> QED BY <2>2, <2>3
  <1>11. CASE TaskWaitPrepare(t) \/ TaskWaitYield(t)
    <2>1. UNCHANGED <<echoEv, sgi, notify>> /\ pc \in {"wait_prep", "wait_yield"}
      BY <1>11 DEF TaskWaitPrepare, TaskWaitYield, Running
    <2>2. smc \notin pend /\ pc \in WaitPcs
      BY <1>1, <2>1 DEF DataInv, DeferredOnce, WaitPcs
    <2> QED BY <1>2, <2>1, <2>2
  <1> QED BY <1>5, <1>6, <1>7, <1>8, <1>9, <1>10, <1>11 DEF TaskStep

(* Who waits is expected; one call is. *)
LEMMA OneExpected ==
    ASSUME TypeOK, KernelInv, IpcInv, OneWaits, NEW c \in Calls, NEW e \in Calls,
           Expected(c), Expected(e)
    PROVE  c = e
  <1> USE ConstantFacts DEF KernelInv
  <1>1. ASSUME cur # D, pc \in WaitPcs PROVE AsyncUnderWay
    <2>1. cur \in tasks \ {D}
      BY <1>1 DEF OneInFlight, InNonSecure, InDispatcher, InTask
    <2>2. Active(cur)
      BY DEF Active, ActiveIn
    <2>3. tls[cur].kind = "async"
      BY <1>1 DEF IpcInv, ContextsMatch, WaitPcs
    <2> QED BY <2>1, <2>2, <2>3 DEF AsyncUnderWay
  <1>2. (c = smc \/ e = smc) /\ c # e => AsyncUnderWay
    BY <1>1 DEF Expected, AsyncUnderWay
  <1> QED BY <1>2 DEF OneWaits, Expected

(* One call waits at a time. *)
LEMMA OneWaitsStep ==
    ASSUME NoTwoAsync, TypeOK, KernelInv, IpcInv, SessionInv, OneWaits, TypeOK', [Next]_vars
    PROVE  OneWaits'
  <1> USE ConstantFacts DEF taskVars, evVars, mboxVars, ntfVars, nsVars, callVars, Goto, KernelInv
  <1>1. ASSUME UNCHANGED <<smc, pend>>, AsyncUnderWay' => AsyncUnderWay \/ pend \subseteq {smc}
        PROVE  OneWaits'
    BY <1>1 DEF OneWaits
  <1>2. ASSUME Nobody', ~valid', ~Replying' \/ api'.val # "pending" PROVE ~AsyncUnderWay'
    BY <1>2 DEF AsyncUnderWay, Nobody, TypeOK
  <1>3. ASSUME NEW t \in Svc, OnlyNext(t), ~valid' \/ params'.typ = "sec", ~Replying' \/ api'.val # "pending",
               tls'[t].kind # "async"
        PROVE  ~AsyncUnderWay'
    BY <1>3 DEF AsyncUnderWay, OnlyNext, Active, TypeOK
  <1>4. ASSUME UNCHANGED <<cur, ready, sleepEv, tls>>, tasks' \subseteq tasks, UNCHANGED <<smc, pend>>,
               valid' => valid /\ params' = params,
               Replying' => (Replying /\ api' = api) \/ api'.val # "pending"
        PROVE  OneWaits'
    <2>1. AsyncUnderWay' => AsyncUnderWay
      BY <1>4, ActiveStays DEF AsyncUnderWay
    <2> QED BY <1>1, <1>4, <2>1
  <1>5. CASE Dispatch
    <2>1. CASE DispReturned \/ DispIdle \/ DispResumed \/ DispNoReply \/ DispClose
      <3>1. Replying' => Replying /\ api' = api
        BY <2>1, PassEffect DEF Replying
      <3> QED BY <1>4, <2>1, <3>1, PassEffect
    <2>2. CASE DispCloseFails \/ DispRegister \/ DispUnregister \/ DispOther
      <3>1. api'.val # "pending"
        BY <2>2, AnsweredEffect DEF set_secure_api_ret
      <3> QED BY <1>4, <2>2, <3>1, AnsweredEffect
    <2>3. CASE DispOpen \/ DispOpenFails
      <3>1. /\ UNCHANGED <<cur, ready, sleepEv, smc, pend>> /\ valid /\ ~valid'
            /\ api'.val # "pending"
        BY <2>3 DEF DispOpen, DispOpenFails, Command, set_secure_api_ret
      <3>2. Nobody'
        BY <3>1, ActiveNow, ActiveStays
      <3> QED BY <1>1, <1>2, <3>1, <3>2
    <2>4. CASE DispClose2
      <3>1. api'.val # "pending"
        BY <2>4, Close2Effect DEF set_secure_api_ret
      <3> QED BY <1>1, <1>2, <2>4, <3>1, Close2Effect
    <2>5. CASE DispSend
      <3>1. /\ valid /\ params.op = "send" /\ ~valid' /\ ~api.set /\ params.task \in Svc
            /\ UNCHANGED <<smc, pend, api>>
        BY <2>5, SendEffect DEF Command
      <3>2. CASE params.task \notin tasks /\ UNCHANGED ready
        <4>1. Nobody'
          BY <2>5, <3>2, SendEffect, ActiveStays
        <4> QED BY <1>1, <1>2, <3>1, <4>1 DEF Replying
      <3>3. CASE /\ params.task \in tasks /\ OnlyNext(params.task)
                 /\ tls' = [tls EXCEPT ![params.task] = params]
        <4>1. tls'[params.task] = params
          BY <3>1, <3>3 DEF TypeOK
        <4>2. CASE params.kind # "async"
          BY <1>1, <1>3, <3>1, <3>3, <4>1, <4>2 DEF Replying
        <4>3. CASE params.kind = "async"
          <5>1. params.typ = "ns"
            BY <3>1, <4>3 DEF IpcInv, ContextsMatch, IpcPosted, TypeOK, Params
          <5>2. AsyncUnderWay
            BY <3>1, <4>3, <5>1 DEF AsyncUnderWay
          <5> QED BY <1>1, <3>1, <5>2
        <4> QED BY <4>2, <4>3
      <3> QED BY <2>5, <3>2, <3>3, SendEffect
    <2>6. CASE DispResume
      <3>1. valid /\ params.op = "resume" /\ params.typ = "ns" /\ UNCHANGED <<smc, pend>>
        BY <2>6, ResumeEffect DEF Command
      <3>2. smc \in pend
        BY <3>1 DEF SessionInv, MailboxMatches
      <3> QED BY <1>1, <3>1, <3>2 DEF OneWaits
    <2>7. CASE DispSchedule
      <3>1. UNCHANGED <<smc, pend, api, valid, params, tls, tasks>> /\ pc = "sched"
        BY <2>7 DEF DispSchedule
      <3>2. CASE DispatcherMoves
        BY <1>4, <3>1, <3>2 DEF DispatcherMoves, Replying
      <3>3. ASSUME NEW t \in Svc, GetsCore(t, "after"), Only(t), ~valid, ~api.set PROVE OneWaits'
        <4>1. t \in tasks \ {D} /\ Active(t) /\ OnlyNext(t)
          BY <3>3 DEF GetsCore, Only
        <4>2. CASE tls[t].kind = "async"
          <5>1. AsyncUnderWay
            BY <4>1, <4>2 DEF AsyncUnderWay
          <5> QED BY <1>1, <3>1, <5>1
        <4>3. CASE tls[t].kind # "async"
          BY <1>1, <1>3, <3>1, <3>3, <4>1, <4>3 DEF Replying
        <4> QED BY <4>2, <4>3
      <3> QED BY <2>7, <3>2, <3>3, ScheduleEffect
    <2>8. CASE DispReply
      <3>1. /\ cur = D /\ api.set /\ pc = "after" /\ pc' = "ret" /\ UNCHANGED <<cur, ready, sleepEv, valid>>
            /\ IF api.val = "pending" /\ smc \notin pend THEN pend' = pend \cup {smc}
                                                        ELSE pend' = pend \ {smc}
        BY <2>8 DEF DispReply
      <3>2. ~valid /\ Nobody
        BY <3>1, ActiveNow DEF OneInFlight, InNonSecure, InDispatcher, InTask
      <3>3. ~AsyncUnderWay'
        BY <1>2, <3>1, <3>2, ActiveStays DEF Replying
      <3>4. api.val = "pending" => AsyncUnderWay
        BY <3>1 DEF AsyncUnderWay, Replying
      <3> QED BY <3>1, <3>3, <3>4 DEF OneWaits
    <2> QED BY <1>5, <2>1, <2>2, <2>3, <2>4, <2>5, <2>6, <2>7, <2>8 DEF Dispatch
  <1>6. ASSUME NEW t \in Svc, TaskStep(t) PROVE OneWaits'
    <2>1. /\ cur = t /\ t \in tasks \ {D} /\ Only(t) /\ Active(t) /\ ~valid /\ InTask
          /\ UNCHANGED <<smc, pend>>
      BY <1>6, StepOf DEF Only
    <2>2. tls[t].kind = "async" => AsyncUnderWay
      BY <2>1 DEF AsyncUnderWay
    <2>3. ASSUME tls[t].kind = "async" PROVE OneWaits'
      BY <1>1, <2>1, <2>2, <2>3
    <2>4. ASSUME tls[t].kind # "async", tls'[t] = tls[t], OnlyNext(t), ~valid',
                 ~Replying' \/ api'.val # "pending"
          PROVE  OneWaits'
      BY <1>1, <1>3, <2>1, <2>4
    <2>5. tls[t].kind # "async" => pc \notin WaitPcs /\ ~api.set
      BY <2>1 DEF IpcInv, ContextsMatch, WaitPcs, InTask
    <2>6. ASSUME UNCHANGED <<cur, ready, sleepEv>> PROVE OnlyNext(t)
      BY <2>1, <2>6, ActiveStays DEF Only, OnlyNext, Active
    <2>7. CASE TaskSync(t) \/ TaskNoMap(t) \/ TaskNoTimer(t) \/ TaskIpcEncodeFails(t) \/ TaskIpcConnect(t)
      <3>1. UNCHANGED <<cur, ready, sleepEv, tls, api, valid>>
        BY <2>7 DEF TaskSync, TaskNoMap, TaskNoTimer, TaskIpcEncodeFails, TaskIpcConnect
      <3> QED BY <2>1, <2>3, <2>4, <2>5, <2>6, <3>1 DEF Replying
    <2>8. CASE TaskUsleep(t) \/ TaskSleep(t) \/ TaskSleepSuspend(t) \/ TaskSleepYield(t)
      <3>1. OnlyNext(t) /\ UNCHANGED <<tls, api, valid>>
        BY <1>6, <2>8, SleepEffect, SleepYieldEffect
      <3> QED BY <2>1, <2>3, <2>4, <2>5, <3>1 DEF Replying
    <2>9. CASE TaskAsync(t) \/ TaskWaitCheck(t) \/ TaskWaitPrepare(t) \/ TaskWaitYield(t)
      <3>1. tls[t].kind = "async"
        BY <2>5, <2>9 DEF TaskAsync, TaskWaitCheck, TaskWaitPrepare, TaskWaitYield, Running, WaitPcs
      <3> QED BY <2>3, <3>1
    <2>10. CASE TaskIpcSend(t)
      <3>1. Nobody' /\ valid' /\ params'.typ = "sec" /\ UNCHANGED <<tls, api>> /\ ~api.set
        BY <1>6, <2>10, IpcSendEffect
      <3>2. ~AsyncUnderWay'
        BY <3>1 DEF AsyncUnderWay, Nobody, Replying, TypeOK
      <3> QED BY <1>1, <2>1, <3>2
    <2>11. CASE TaskIpcBack(t)
      <3>1. UNCHANGED <<cur, ready, sleepEv, tls, api, valid>>
        BY <1>6, <2>11, IpcBackEffect
      <3> QED BY <2>1, <2>3, <2>4, <2>5, <2>6, <3>1 DEF Replying
    <2>12. CASE TaskReturn(t)
      <3>1. UNCHANGED <<tls, valid>> /\ ~api.set
        BY <1>6, <2>12, ReturnEffect
      <3>2. api' = api \/ api'.val # "pending"
        BY <2>12 DEF TaskReturn, set_secure_api_ret
      <3>3. CASE Nobody'
        BY <1>1, <1>2, <2>1, <3>1, <3>2, <3>3 DEF Replying
      <3>4. CASE tls[t].typ = "sec" /\ OnlyNext(tls[t].src)
        <4>1. tls[t].src \in Svc /\ regs[tls[t].src] = "ipc_back"
          BY <2>1, <3>4 DEF IpcInv, CallersParked, Parked, TypeOK
        <4>2. tls[tls[t].src].kind # "async"
          BY <4>1 DEF IpcInv, ContextsMatch
        <4> QED BY <1>1, <1>3, <2>1, <3>1, <3>2, <3>4, <4>1, <4>2 DEF Replying
      <3> QED BY <1>6, <2>12, <3>3, <3>4, ReturnEffect
    <2> QED BY <1>6, <2>7, <2>8, <2>9, <2>10, <2>11, <2>12 DEF TaskStep
  <1>7. ASSUME NEW t \in Svc, FiqSleep(t) PROVE OneWaits'
    <2>1. /\ t \in tasks \ {D} /\ Only(t) /\ OnlyNext(t) /\ ~valid
          /\ UNCHANGED <<tls, tasks, valid, params, api, pc, smc, pend>>
      BY <1>7, WakeEffect
    <2>2. Active(t)
      BY <2>1 DEF Only
    <2>3. \A u \in tasks \ {D} : Active(u)' => u = t
      BY <2>1 DEF OnlyNext, Active, TypeOK
    <2>4. AsyncUnderWay' => AsyncUnderWay
      BY <2>1, <2>2, <2>3 DEF AsyncUnderWay, Replying
    <2> QED BY <1>1, <2>1, <2>4
  <1>8. ASSUME NEW t \in Svc, FiqEcho(t) PROVE OneWaits'
    BY <1>4, <1>8 DEF FiqEcho, runVars, Replying
  <1>9. CASE NonSecure
    <2>1. cur = D /\ pc = "ret" /\ smc = NoCall /\ ~valid /\ Nobody' /\ pc' = pc
      BY <1>9, NonSecureEffect DEF runVars
    <2>2. ~Replying'
      BY <2>1 DEF Replying
    <2>3. ASSUME UNCHANGED pend, ~valid' \/ params'.op # "send" \/ params'.kind # "async"
                                \/ pend \subseteq {smc'}
          PROVE  OneWaits'
      <3>1. AsyncUnderWay' => pend \subseteq {smc'}
        BY <2>1, <2>2, <2>3 DEF AsyncUnderWay, Nobody, TypeOK
      <3> QED BY <2>3, <3>1 DEF OneWaits
    <2>4. ASSUME NEW op, NEW t, NEW k, NewCallEffect(op, t, k),
                 op = "send" /\ k = "async" => pend = {} \/ "two_async" \in Lapses
          PROVE  OneWaits'
      <3>1. pend' = pend /\ params'.op = op /\ params'.kind = k /\ (pend = {} \/ "busy" \in Lapses)
        BY <2>4 DEF NewCallEffect
      <3>2. op = "send" /\ k = "async" => pend = {}
        BY <2>4, <3>1 DEF NoTwoAsync
      <3> QED BY <2>3, <3>1, <3>2
    <2>5. CASE NsIpi
      BY <2>1, <2>3, <2>5 DEF NsIpi
    <2>6. CASE NsInterrupted
      <3>1. pend' \subseteq pend /\ ~valid'
        BY <2>1, <2>6 DEF NsInterrupted
      <3>2. ~AsyncUnderWay'
        BY <1>2, <2>1, <2>2, <3>1
      <3> QED BY <3>1, <3>2 DEF OneWaits
    <2>7. CASE NsResume
      <3>1. PICK c \in pend : smc' = c /\ UNCHANGED pend
        BY <2>7 DEF NsResume, Issue
      <3>2. pend \subseteq {smc'}
        BY <3>1 DEF OneWaits
      <3> QED BY <2>3, <3>1, <3>2
    <2> QED BY <1>9, <2>4, <2>5, <2>6, <2>7, NonSecureCases
  <1>10. CASE UNCHANGED vars
    BY <1>4, <1>10 DEF vars, runVars, Replying
  <1> QED BY <1>5, <1>6, <1>7, <1>8, <1>9, <1>10 DEF Next, Fiq

(* otz_smc_call marks the call it resumes or one that has been answered.    *)
LEMMA ResumedIdsStep ==
    ASSUME TypeOK, KernelInv, SessionInv, DataInv, OneWaits, ResumedIds, TypeOK', [Next]_vars
    PROVE  ResumedIds'
  <1> USE ConstantFacts DEF taskVars, evVars, mboxVars, ntfVars, nsVars, callVars, Goto, KernelInv
  <1>1. ASSUME UNCHANGED <<resumeId, smcCmd, nextCall, target>>,
               \A c \in Calls : avail[target[c]] => avail'[target[c]],
               \A c \in Calls : c \notin pend /\ c # smc => c \notin pend' /\ c # smc'
        PROVE  ResumedIds'
    BY <1>1 DEF ResumedIds
  <1>2. CASE Dispatch /\ ~DispReply
    <2>1. CASE DispReturned \/ DispIdle \/ DispResumed \/ DispNoReply \/ DispClose
      BY <1>1, <2>1, PassEffect
    <2>2. CASE DispCloseFails \/ DispRegister \/ DispUnregister \/ DispOther
      BY <1>1, <2>2, AnsweredEffect
    <2>3. CASE DispOpen \/ DispOpenFails
      <3>1. /\ UNCHANGED <<resumeId, smcCmd, nextCall, target, pend, smc>>
            /\ create_task \/ create_task_fails \/ UNCHANGED avail
        BY <2>3 DEF DispOpen, DispOpenFails
      <3> QED BY <1>1, <3>1, NewTaskData
    <2>4. CASE DispClose2 \/ DispSend \/ DispResume \/ DispSchedule
      BY <1>1, <2>4, Close2Effect, SendEffect, ResumeEffect DEF DispSchedule
    <2> QED BY <1>2, <2>1, <2>2, <2>3, <2>4 DEF Dispatch
  <1>3. CASE DispReply
    <2>1. /\ UNCHANGED <<resumeId, smcCmd, nextCall, target, avail>> /\ smc' = NoCall
          /\ pend' \subseteq pend \cup {smc}
      BY <1>3 DEF DispReply
    <2>2. NoCall \notin Calls
      BY NumberFacts DEF NoCall, Calls
    <2> QED BY <1>1, <2>1, <2>2
  <1>4. ASSUME NEW t \in Svc, TaskStep(t) PROVE ResumedIds'
    <2>1. UNCHANGED <<resumeId, smcCmd, nextCall, target, pend, smc>>
      BY <1>4, StepOf
    <2>2. CASE TaskIpcConnect(t)
      BY <1>1, <2>1, <2>2, NewTaskData DEF TaskIpcConnect
    <2>3. CASE ~TaskIpcConnect(t)
      <3>1. avail' = avail
        <4>1. CASE TaskSync(t) \/ TaskNoMap(t) \/ TaskNoTimer(t) \/ TaskIpcEncodeFails(t)
          BY <4>1 DEF TaskSync, TaskNoMap, TaskNoTimer, TaskIpcEncodeFails
        <4>2. CASE TaskAsync(t) \/ TaskWaitCheck(t) \/ TaskWaitPrepare(t)
          BY <4>2 DEF TaskAsync, TaskWaitCheck, TaskWaitPrepare
        <4>3. CASE TaskUsleep(t) \/ TaskSleep(t) \/ TaskSleepSuspend(t)
          BY <1>4, <4>3, SleepEffect
        <4>4. CASE TaskSleepYield(t) \/ TaskWaitYield(t) \/ TaskIpcSend(t)
          BY <4>4 DEF TaskSleepYield, TaskWaitYield, TaskIpcSend
        <4>5. CASE TaskIpcBack(t) \/ TaskReturn(t)
          BY <1>4, <4>5, IpcBackEffect, ReturnEffect
        <4> QED BY <1>4, <2>3, <4>1, <4>2, <4>3, <4>4, <4>5 DEF TaskStep
      <3> QED BY <1>1, <2>1, <3>1
    <2> QED BY <2>2, <2>3
  <1>5. ASSUME NEW t \in Svc, FiqSleep(t) \/ FiqEcho(t) PROVE ResumedIds'
    <2>1. UNCHANGED <<resumeId, smcCmd, nextCall, target, pend, smc>>
      BY <1>5 DEF FiqSleep, FiqEcho
    <2>2. avail' = avail \/ avail' = [avail EXCEPT ![t] = TRUE]
      BY <1>5 DEF FiqSleep, FiqEcho
    <2>3. \A c \in Calls : avail[target[c]] => avail'[target[c]]
      BY <2>2, DataStays
    <2> QED BY <1>1, <2>1, <2>3
  <1>6. CASE NonSecure
    <2>1. smc = NoCall /\ UNCHANGED avail
      BY <1>6, NonSecureEffect
    <2>2. NoCall \notin Calls /\ pend \subseteq Calls /\ nextCall \in Int /\ \A c \in Calls : c \in Int
      BY NumberFacts DEF NoCall, Calls, TypeOK
    <2>3. ASSUME NEW op, NEW t, NEW k, NewCallEffect(op, t, k) PROVE ResumedIds'
      <3>1. /\ nextCall \in Calls /\ smc' = nextCall /\ nextCall' = nextCall + 1 /\ smcCmd' = nextCall
            /\ UNCHANGED <<pend, resumeId>>
            /\ target' = [target EXCEPT ![nextCall] = IF op = "send" THEN t ELSE D]
        BY <2>3 DEF NewCallEffect
      <3>2. \A c \in Calls : c < nextCall => c < nextCall' /\ c # smc' /\ target'[c] = target[c]
        BY <2>2, <3>1 DEF TypeOK
      <3> QED BY <2>1, <2>2, <3>1, <3>2 DEF ResumedIds
    <2>4. CASE NsIpi \/ NsInterrupted
      <3>1. UNCHANGED <<resumeId, smcCmd, nextCall, target, smc>> /\ pend' \subseteq pend
        BY <2>4 DEF NsIpi, NsInterrupted
      <3> QED BY <1>1, <2>1, <3>1
    <2>5. CASE NsResume
      <3>1. PICK c \in pend \cap woken : /\ smc' = c /\ resumeId' = resumeId \cup {smcCmd}
                                         /\ UNCHANGED <<smcCmd, nextCall, target, pend>>
        BY <2>5 DEF NsResume, Issue
      <3>2. c \in Calls /\ avail[target[c]]
        BY <2>2, <3>1 DEF DataInv, ToldInTime
      <3>3. \A d \in Calls : d \notin pend /\ d # smc => d \notin pend' /\ d # smc'
        BY <3>1
      <3>4. smcCmd = c \/ smcCmd \notin pend
        BY <3>1 DEF OneWaits
      <3>5. ASSUME NEW d \in Calls, d \in resumeId'
            PROVE  d < nextCall /\ (avail[target[d]] \/ (d \notin pend /\ d # smc'))
        <4>1. CASE d \in resumeId
          BY <3>3, <3>1, <4>1 DEF ResumedIds
        <4>2. CASE d = smcCmd
          BY <3>1, <3>2, <3>4, <4>2 DEF ResumedIds
        <4> QED BY <3>1, <3>5, <4>1, <4>2
      <3> QED BY <2>1, <3>1, <3>5 DEF ResumedIds
    <2> QED BY <1>6, <2>3, <2>4, <2>5, NonSecureCases
  <1>7. CASE UNCHANGED vars
    BY <1>1, <1>7 DEF vars
  <1> QED BY <1>2, <1>3, <1>4, <1>5, <1>6, <1>7 DEF Next, Fiq

(* The call that is expected has its task, and its task has its command. *)
LEMMA ExpectedServed ==
    ASSUME TypeOK, KernelInv, IpcInv, SessionInv, ReplyInv, WaiterInv, NEW c \in Calls, Expected(c)
    PROVE  Serves(target[c], c) /\ target[c] \in tasks
  <1> USE ConstantFacts DEF KernelInv
  <1>1. CASE c \in pend
    BY <1>1 DEF ReplyInv, PendingServed, WaiterInv, WaiterTasks, HasWaitQueue
  <1>2. CASE c = smc /\ Replying /\ api.val = "pending"
    BY <1>2 DEF ReplyInv, ReplyMatches, WaiterInv, WaiterTasks, HasWaitQueue
  <1>3. CASE c = smc /\ cur # D /\ pc \in WaitPcs
    <2>1. cur \in tasks \ {D} /\ cur \in Svc
      BY <1>3 DEF OneInFlight, InNonSecure, InDispatcher, InTask, TypeOK
    <2>2. Active(cur)
      BY DEF Active, ActiveIn
    <2>3. tls[cur].kind = "async"
      BY <1>3 DEF IpcInv, ContextsMatch, WaitPcs
    <2>4. Client(cur) = cur
      BY <2>1, <2>3 DEF IpcInv, ContextsMatch, Client
    <2>5. target[smc] = cur /\ Serves(cur, smc)
      BY <2>1, <2>2, <2>4 DEF SessionInv, TaskMatches, ReplyInv, WorkMatches
    <2> QED BY <1>3, <2>1, <2>5
  <1> QED BY <1>1, <1>2, <1>3 DEF Expected

(* The timer that ends tells the client who waits for it. *)
LEMMA PromisedFiq ==
    ASSUME NoMapFault, TypeOK, KernelInv, IpcInv, SessionInv, ReplyInv, WaiterInv, TimersAwaited,
           Registered, OneWaits, ResumedIds, Promised, Fiq
    PROVE  Promised'
  <1> USE ConstantFacts DEF taskVars, evVars, mboxVars, ntfVars, nsVars, callVars, runVars, KernelInv
  <1>1. PICK t \in Svc : FiqSleep(t) \/ FiqEcho(t)
    BY DEF Fiq
  <1>2. CASE FiqSleep(t)
    <2>1. UNCHANGED <<target, echoEv, sgi, notify, woken, pend, smc, cur, pc, api>>
      BY <1>2 DEF FiqSleep
    <2> QED BY <2>1 DEF Promised, Expected, Assured, Replying
  <1>3. CASE FiqEcho(t)
    <2>1. ~avail[t] /\ \E e \in Calls : Expected(e) /\ target[e] = t
      BY <1>3 DEF FiqEcho, TimersAwaited
    <2>2. PICK e \in Calls : Expected(e) /\ target[e] = t
      BY <2>1
    <2>3. Serves(t, e) /\ t \in tasks
      BY <2>2, ExpectedServed
    <2>4. /\ UNCHANGED <<target, woken, pend, smc, cur, pc, api>>
          /\ notify' = Notified(t) /\ sgi' = TRUE
      BY <1>3, <2>3 DEF FiqEcho, NoMapFault
    <2>5. e \in pend \/ e = smc
      BY <2>2 DEF Expected
    <2>6. notifyReg
      <3>1. e # NoCall /\ t # D
        BY DEF NoCall, Calls
      <3> QED BY <2>2, <2>5, <3>1 DEF Registered, Unregistered, Idle
    <2>7. e \notin resumeId
      BY <2>1, <2>2, <2>5 DEF ResumedIds
    <2>8. notify' = e
      BY <2>3, <2>4, <2>6, <2>7 DEF Notified, Serves
    <2>9. ASSUME NEW c \in Calls, Expected(c)' PROVE Assured(c)'
      <3>1. Expected(c)
        BY <2>4, <2>9 DEF Expected, Replying
      <3>2. c = e
        BY <2>2, <3>1, OneExpected
      <3> QED BY <2>4, <2>8, <3>2 DEF Assured
    <2> QED BY <2>9 DEF Promised
  <1> QED BY <1>1, <1>2, <1>3

(* The interrupt hands the notification over; the client it was for resumes. *)
LEMMA PromisedNonSecure ==
    ASSUME "signal" \notin Lapses, TypeOK, KernelInv, OneWaits, Promised, NonSecure
    PROVE  Promised'
  <1> USE ConstantFacts DEF taskVars, evVars, mboxVars, ntfVars, runVars, callVars, KernelInv
  <1>1. cur = D /\ pc = "ret" /\ smc = NoCall /\ UNCHANGED <<cur, pc, echoEv>>
    BY NonSecureEffect
  <1>2. \A c \in Calls : Expected(c)' => c \in pend' /\ smc' # c
    BY <1>1 DEF Expected, Replying
  <1>3. \A c \in Calls : c \in pend => Assured(c)
    BY <1>1 DEF Promised, Expected, NoCall, Calls
  <1>4. ASSUME NEW op, NEW t, NEW k, NewCallEffect(op, t, k) PROVE Promised'
    <2>1. /\ smc' = nextCall /\ UNCHANGED <<pend, notify, sgi, woken>>
          /\ target' = [target EXCEPT ![nextCall] = IF op = "send" THEN t ELSE D]
      BY <1>4 DEF NewCallEffect
    <2>2. \A c \in Calls : c # smc' => target'[c] = target[c]
      BY <2>1 DEF TypeOK
    <2> QED BY <1>1, <1>2, <1>3, <2>1, <2>2 DEF Promised, Assured
  <1>5. CASE NsIpi
    <2>1. UNCHANGED <<target, smc, pend>>
      BY <1>5 DEF NsIpi
    <2>2. ASSUME NEW c \in Calls, Expected(c)' PROVE Assured(c)'
      <3>1. Assured(c)
        BY <1>2, <1>3, <2>1, <2>2
      <3>2. c # NoCall
        BY DEF NoCall, Calls
      <3>3. c \in woken \/ notify = c => c \in woken'
        BY <1>5, <3>2 DEF NsIpi
      <3> QED BY <1>1, <2>1, <3>1, <3>3 DEF Assured
    <2> QED BY <2>2 DEF Promised
  <1>6. CASE NsResume
    <2>1. PICK c \in pend : smc' = c /\ pend' = pend
      BY <1>6 DEF NsResume, Issue
    <2>2. \A e \in pend' : e = smc'
      BY <2>1 DEF OneWaits
    <2> QED BY <1>2, <2>2 DEF Promised
  <1>7. ~NsInterrupted
    BY DEF NsInterrupted
  <1> QED BY <1>4, <1>5, <1>6, <1>7, NonSecureCases

(* The inductive step. *)
LEMMA NoticeStep ==
    ASSUME NoTwoAsync, NoPendingClose, "signal" \notin Lapses, NoMapFault, KeepsRegistered,
           TypeOK, KernelInv, IpcInv, SessionInv, ReplyInv, WaiterInv, DataInv, RoundInv,
           TimersAwaited, NoticeInv, TypeOK', [Next]_vars
    PROVE  NoticeInv'
  <1>1. SessionsHeld' /\ Registered' /\ OneWaits' /\ ResumedIds'
    BY SessionsHeldStep, RegisteredStep, OneWaitsStep, ResumedIdsStep DEF NoticeInv
  <1>2. CASE UNCHANGED vars
    <2>1. Promised'
      BY <1>2 DEF vars, taskVars, evVars, runVars, mboxVars, ntfVars, nsVars, callVars,
                  NoticeInv, Promised, Expected, Assured, Replying
    <2> QED BY <1>1, <2>1 DEF NoticeInv
  <1>3. CASE Next
    BY <1>1, <1>3, PromisedDispatch, PromisedTask, PromisedFiq, PromisedNonSecure
       DEF Next, NoticeInv
  <1> QED BY <1>2, <1>3

(* A call that is pending is being resumed, has its timer running, or its   *)
(* notification is on the way or has arrived: with clients that have one    *)
(* asynchronous command pending at a time, neither close its session nor    *)
(* are interrupted while it is, descriptors that can be mapped and a        *)
(* notification page that is not unregistered under another file's          *)
(* sessions.  Clients may make other calls while a command is pending.      *)
THEOREM NoNotificationIsLost ==
    ASSUME NoOverlap, NoTwoAsync, NoPendingClose, "signal" \notin Lapses, NoMapFault,
           KeepsRegistered
    PROVE  Spec => []NotificationNotLost
  <1>1. Init => NoticeInv
    BY NoticeInit
  <1>2. /\ TypeOK /\ KernelInv /\ IpcInv /\ SessionInv /\ ReplyInv /\ WaiterInv /\ DataInv
        /\ RoundInv /\ TimersAwaited /\ TypeOK' /\ NoticeInv /\ [Next]_vars
        => NoticeInv'
    BY NoticeStep
  <1>3. TypeOK /\ NoticeInv => NotificationNotLost
    BY DEF TypeOK, NoticeInv, Promised, Expected, Assured, NotificationNotLost
  <1>4. (Spec => []ReplyInv) /\ (Spec => []WaiterInv) /\ (Spec => []TimersAwaited)
    BY RepliesSound, WaitersSound, TimersSound
  <1> QED BY <1>1, <1>2, <1>3, <1>4, TypeCorrect, InFlight, IpcSound, SessionsSound, DataSound,
             RoundsSound, PTL DEF Spec
=============================================================================
