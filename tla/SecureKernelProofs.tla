------------------------ MODULE SecureKernelProofs ------------------------
(***************************************************************************)
(* Proofs about SecureKernel for every number of tasks and calls, every     *)
(* mix of commands, client lapses and resource failures.                    *)
(***************************************************************************)
EXTENDS SecureKernel, SequenceTheorems, TLAPS

(* What the sequence operators do to the ready lists that occur. *)
LEMMA ShortLists ==
    ASSUME NEW S, NEW a \in S, NEW b \in S
    PROVE  /\ Len(<<>>) = 0 /\ Len(<<a>>) = 1 /\ <<a>> # <<>> /\ <<a, b>> # <<>>
           /\ Head(<<a>>) = a /\ Tail(<<a>>) = <<>>
           /\ Head(<<a, b>>) = a /\ Tail(<<a, b>>) = <<b>>
           /\ Append(<<>>, a) = <<a>> /\ Append(<<a>>, b) = <<a, b>>
           /\ <<a>> \o <<>> = <<a>>
           /\ ~InList(a, <<>>) /\ InList(a, <<a>>)
           /\ a # b => ~InList(b, <<a>>)
  <1>1. /\ Len(<<>>) = 0 /\ Len(<<a>>) = 1 /\ <<a>> # <<>> /\ <<a, b>> # <<>>
        /\ Head(<<a>>) = a /\ Head(<<a, b>>) = a
    OBVIOUS
  <1>2. Tail(<<a>>) = <<>>
    OBVIOUS
  <1>3. Tail(<<a, b>>) = <<b>>
    OBVIOUS
  <1>4. Append(<<>>, a) = <<a>>
    OBVIOUS
  <1>5. Append(<<a>>, b) = <<a, b>>
    <2>1. <<a>> \in Seq(S) /\ <<a, b>> \in Seq(S) /\ Append(<<a>>, b) \in Seq(S)
      OBVIOUS
    <2>2. Len(Append(<<a>>, b)) = 2 /\ Len(<<a, b>>) = 2
      OBVIOUS
    <2>3. Append(<<a>>, b)[1] = a /\ Append(<<a>>, b)[2] = b
      OBVIOUS
    <2>4. \A i \in 1..2 : Append(<<a>>, b)[i] = <<a, b>>[i]
      BY <2>3
    <2> QED BY <2>1, <2>2, <2>4, SeqEqual
  <1>6. <<a>> \o <<>> = <<a>>
    OBVIOUS
  <1>7. /\ ~InList(a, <<>>) /\ InList(a, <<a>>)
        /\ a # b => ~InList(b, <<a>>)
    BY DEF InList
  <1> QED BY <1>1, <1>2, <1>3, <1>4, <1>5, <1>6, <1>7

(* The two-element lists FiqSleep makes by queueing a task behind the       *)
(* dispatcher.                                                              *)
LEMMA QueuedBehindDispatcher ==
    ASSUME NEW u \in Tid, D \in Tid
    PROVE  Append(<<D>>, u) = <<D, u>>
  BY ShortLists

(* The short lists are ready lists. *)
LEMMA ShortListTypes ==
    ASSUME NEW u \in Tid, D \in Tid
    PROVE  <<>> \in Seq(Tid) /\ <<u>> \in Seq(Tid) /\ <<D, u>> \in Seq(Tid)
  OBVIOUS

(* destroy_task does not change a ready list its task is not in. *)
LEMMA NotRemoved ==
    ASSUME NEW t, t # D
    PROVE  RemoveFirst(<<>>, t) = <<>> /\ RemoveFirst(<<D>>, t) = <<D>>
  <1>1. ~\E i \in 1..Len(<<D>>) : <<D>>[i] = t
    OBVIOUS
  <1>2. ~\E i \in 1..Len(<<>>) : <<>>[i] = t
    OBVIOUS
  <1> QED BY <1>1, <1>2 DEF RemoveFirst

-----------------------------------------------------------------------------
(* The three switches the scheduler makes. *)

(* With an empty ready list the dispatcher goes on. *)
LEMMA DispatcherStays ==
    ASSUME TypeOK, state[D] = "RUNNING", ready = <<>>, NEW cont,
           Scheduler(D, state, ready, cont)
    PROVE  pc' = cont /\ UNCHANGED <<cur, ready, state, regs>>
  <1>1. Runnable(D, state)
    BY DEF TypeOK, Runnable, Stopped
  <1>2. NextTask(D, state, ready) = D /\ ReadyLeft(D, state, ready) = ready
    BY <1>1 DEF NextTask, ReadyLeft
  <1> QED BY <1>2 DEF Scheduler, D

(* A queued service task gets the core, the dispatcher is queued. *)
LEMMA SwitchToTask ==
    ASSUME TypeOK, NEW t \in tasks \ {D}, NEW st \in [Tid -> States],
           st[D] = "RUNNING", NEW cont, Scheduler(D, st, <<t>>, cont)
    PROVE  /\ cur' = t /\ pc' = regs[t] /\ ready' = <<D>>
           /\ regs' = [regs EXCEPT ![D] = cont]
           /\ state' = [st EXCEPT ![t] = "RUNNING"]
  <1>1. Runnable(D, st) /\ t \in Tid /\ t # NoTask /\ D \in Tid
    BY DEF TypeOK, Runnable, Stopped, Tid, NoTask, D
  <1>2. /\ <<t>> # <<>> /\ Head(<<t>>) = t /\ Tail(<<t>>) = <<>>
        /\ Append(<<>>, D) = <<D>> /\ ~InList(D, <<>>)
    BY <1>1, ShortLists
  <1>3. NextTask(D, st, <<t>>) = t /\ ReadyLeft(D, st, <<t>>) = <<D>>
    BY <1>1, <1>2 DEF NextTask, ReadyLeft
  <1> QED BY <1>1, <1>3 DEF Scheduler, TypeOK

(* A service task that stops hands the core to the dispatcher. *)
LEMMA SwitchToDispatcher ==
    ASSUME TypeOK, NEW c \in (tasks \ {D}) \cup {NoTask}, NEW st \in [Tid -> States],
           c # NoTask => st[c] \in Stopped, NEW cont,
           Scheduler(c, st, <<D>>, cont)
    PROVE  /\ cur' = D /\ pc' = regs[D] /\ ready' = <<>>
           /\ regs' = IF c = NoTask THEN regs ELSE [regs EXCEPT ![c] = cont]
           /\ state' = [st EXCEPT ![D] = "RUNNING"]
  <1>1. D \in Tid /\ D # NoTask /\ c # D /\ NoTask \notin tasks
    BY DEF TypeOK, Tid, NoTask, D
  <1>2. <<D>> # <<>> /\ Head(<<D>>) = D /\ Tail(<<D>>) = <<>>
    BY <1>1, ShortLists
  <1>3. ~Runnable(c, st)
    BY <1>1 DEF Runnable
  <1>4. NextTask(c, st, <<D>>) = D /\ ReadyLeft(c, st, <<D>>) = <<>>
    BY <1>2, <1>3 DEF NextTask, ReadyLeft
  <1> QED BY <1>1, <1>4 DEF Scheduler

(* The same when another task, or the one that stops, is queued already. *)
LEMMA SwitchToDispatcherQueued ==
    ASSUME TypeOK, NEW c \in (tasks \ {D}) \cup {NoTask}, NEW st \in [Tid -> States],
           NEW u \in Tid, c = u \/ c = NoTask, NEW cont,
           Scheduler(c, st, <<D, u>>, cont)
    PROVE  /\ cur' = D /\ pc' = regs[D] /\ ready' = <<u>>
           /\ regs' = IF c = NoTask THEN regs ELSE [regs EXCEPT ![c] = cont]
           /\ state' = [st EXCEPT ![D] = "RUNNING"]
  <1>1. D \in Tid /\ D # NoTask /\ c # D /\ NoTask \notin tasks
    BY DEF TypeOK, Tid, NoTask, D
  <1>2. /\ <<D, u>> # <<>> /\ Head(<<D, u>>) = D /\ Tail(<<D, u>>) = <<u>>
        /\ InList(u, <<u>>)
    BY <1>1, ShortLists
  <1>3. ~(Runnable(c, st) /\ ~InList(c, <<u>>))
    BY <1>1, <1>2 DEF Runnable
  <1>4. NextTask(c, st, <<D, u>>) = D /\ ReadyLeft(c, st, <<D, u>>) = <<u>>
    BY <1>2, <1>3 DEF NextTask, ReadyLeft
  <1> QED BY <1>1, <1>4 DEF Scheduler

-----------------------------------------------------------------------------
(* TypeOK and OneInFlight are preserved, one group of actions at a time. *)

(* The constants' assumption as facts about the sets built from them. *)
LEMMA ConstantFacts ==
    /\ D = 0 /\ D \in Tid /\ D \notin Svc /\ NoTask \notin Tid
    /\ Svc \subseteq Tid /\ Tid \ {D} = Svc /\ Tid \subseteq Int
    /\ NoCall \notin Calls
  BY ConstantsAssumption DEF D, Tid, Svc, NoTask, NoCall, Calls

(* The reply slot after set_secure_api_ret. *)
LEMMA ReplySlot ==
    ASSUME NEW v \in Rets, NEW c \in Calls \cup {NoCall}, set_secure_api_ret(v, c)
    PROVE  api' \in Api /\ api'.sess = NoTask /\ api'.set
  BY DEF set_secure_api_ret, Api

(* The call stays what it is as long as nothing new is in flight. *)
LEMMA SameService ==
    ASSUME ServiceCall, UNCHANGED <<pend, target, nextCall, smc>>,
           ServiceActive' => ServiceActive \/ target[smc] \in Svc
    PROVE  ServiceCall'
  BY DEF ServiceCall

(* The state secure_main leaves satisfies the inductive invariant. *)
LEMMA InitInv == Init => TypeOK /\ KernelInv
  <1> SUFFICES ASSUME Init PROVE TypeOK /\ KernelInv
    OBVIOUS
  <1> USE ConstantFacts
  <1>1. NoParams \in Params
    BY DEF NoParams, Params, Ops, AllKinds
  <1>2. api \in Api
    BY DEF Init, Api, Rets
  <1>3. TypeOK
    <2>1. /\ tasks \subseteq Tid /\ D \in tasks /\ nextId \in 1..(MaxTask + 1)
          /\ cur \in Tid /\ ready \in Seq(Tid) /\ pc \in Pcs
          /\ nextCall \in 1..(MaxCall + 1)
      BY ConstantsAssumption DEF Init, Pcs, DPcs
    <2>2. /\ state \in [Tid -> States] /\ regs \in [Tid -> Pcs]
          /\ tls \in [Tid -> Params] /\ params \in Params
      BY <1>1 DEF Init, States, Pcs, DPcs, TPcs
    <2>3. kindOf \in [Calls -> AllKinds]
      BY DEF Init, AllKinds
    <2> QED BY <1>2, <2>1, <2>2, <2>3 DEF Init, TypeOK
  <1>4. Shape
    BY ConstantsAssumption DEF Init, Shape, NoParams, NoTask, D
  <1>5. InNonSecure /\ ServiceCall
    BY DEF Init, InNonSecure, NoSleeper, ServiceCall, NoCall
  <1> QED BY <1>3, <1>4, <1>5 DEF OneInFlight, KernelInv

(* Every step of the dispatcher task preserves TypeOK and OneInFlight. *)
LEMMA DispatchInv ==
    ASSUME TypeOK, OneInFlight, Dispatch
    PROVE  TypeOK' /\ OneInFlight'
  <1> USE ConstantFacts DEF taskVars, evVars, mboxVars, ntfVars, nsVars, callVars, Goto
  <1>1. CASE DispReturned
    <2>1. TypeOK'
      BY <1>1 DEF TypeOK, DispReturned, Api, Pcs, DPcs
    <2>2. Shape'
      BY <1>1 DEF TypeOK, OneInFlight, Shape, DispReturned, Api
    <2>3. InDispatcher'
      BY <1>1 DEF TypeOK, OneInFlight, InNonSecure, InDispatcher, InTask,
                  NoSleeper, DispReturned, Api, TPcs
    <2> QED BY <2>1, <2>2, <2>3 DEF OneInFlight
  <1>2. CASE DispIdle
    <2>1. TypeOK'
      BY <1>2 DEF TypeOK, DispIdle, Pcs, DPcs
    <2>2. Shape'
      BY <1>2 DEF OneInFlight, Shape, DispIdle
    <2>3. InDispatcher'
      BY <1>2 DEF OneInFlight, InNonSecure, InDispatcher, InTask, NoSleeper,
                  Sleeper, DispIdle
    <2> QED BY <2>1, <2>2, <2>3 DEF OneInFlight
  <1>3. ASSUME NEW op \in Ops, Command(op)
        PROVE  /\ cur = D /\ pc = "loop" /\ valid /\ valid' = FALSE /\ params.op = op
               /\ smc # NoCall /\ ~api.set /\ ready = <<>> /\ NoSleeper
    BY <1>3 DEF Command, OneInFlight, InNonSecure, InDispatcher, InTask
  <1>4. CASE DispOpen
    <2>1. Command("open")
      BY <1>4 DEF DispOpen
    <2>2. /\ nextId \in Svc /\ nextId' = nextId + 1 /\ nextId' \in 1..(MaxTask + 1)
          /\ tasks' = tasks \cup {nextId} /\ state' = [state EXCEPT ![nextId] = "SUSPEND"]
          /\ wq' = [wq EXCEPT ![nextId] = "uninit"]
          /\ avail' = [avail EXCEPT ![nextId] = FALSE]
          /\ api' = [set |-> TRUE, val |-> "ok", call |-> params.call, sess |-> nextId]
          /\ pc' = "sched"
          /\ UNCHANGED <<tls, peer, cur, ready, regs, evVars, params, ntfVars, nsVars, ran>>
      BY <1>4, ConstantsAssumption DEF DispOpen, create_task, TypeOK, Svc
    <2>3. api' \in Api
      BY <2>2 DEF TypeOK, Api, Rets, Params
    <2>4. TypeOK'
      BY <1>3, <2>1, <2>2, <2>3 DEF TypeOK, Pcs, DPcs, States, Ops
    <2>5. Shape'
      BY <2>2 DEF TypeOK, OneInFlight, Shape
    <2>6. InDispatcher'
      BY <1>3, <2>1, <2>2 DEF InDispatcher, NoSleeper, Ops
    <2> QED BY <2>4, <2>5, <2>6 DEF OneInFlight
  <1>5. CASE DispOpenFails
    <2>1. Command("open")
      BY <1>5 DEF DispOpenFails
    <2>2. /\ nextId' \in 1..(MaxTask + 1) /\ nextId' >= nextId
          /\ api' = [set |-> TRUE, val |-> "err", call |-> params.call, sess |-> NoTask]
          /\ pc' = "sched"
          /\ UNCHANGED <<tasks, state, wq, avail, tls, peer, cur, ready, regs, evVars,
                         params, ntfVars, nsVars, ran>>
      BY <1>5, ConstantsAssumption
      DEF DispOpenFails, create_task_fails, set_secure_api_ret, TypeOK
    <2>3. api' \in Api
      BY <2>2 DEF TypeOK, Api, Rets, Params
    <2>4. TypeOK'
      BY <1>3, <2>1, <2>2, <2>3 DEF TypeOK, Pcs, DPcs, Ops
    <2>5. Shape'
      BY <2>2 DEF TypeOK, OneInFlight, Shape
    <2>6. InDispatcher'
      BY <1>3, <2>1, <2>2 DEF InDispatcher, NoSleeper, Ops
    <2> QED BY <2>4, <2>5, <2>6 DEF OneInFlight
  <1>6. CASE DispClose
    <2>1. Command("close")
      BY <1>6 DEF DispClose
    <2>2. TypeOK'
      BY <1>3, <1>6, <2>1 DEF TypeOK, DispClose, Pcs, DPcs, Ops
    <2>3. Shape'
      BY <1>6 DEF OneInFlight, Shape, DispClose
    <2>4. InDispatcher'
      BY <1>3, <1>6, <2>1 DEF DispClose, InDispatcher, NoSleeper, Ops
    <2> QED BY <2>2, <2>3, <2>4 DEF OneInFlight
  <1>7. CASE DispClose2
    <2>1. /\ cur = D /\ smc # NoCall /\ ready = <<>> /\ NoSleeper
          /\ ~valid /\ params.task \in Svc
      BY <1>7 DEF DispClose2, OneInFlight, Shape, InNonSecure, InDispatcher, InTask
    <2>2. ready' = ready /\ tasks' = tasks \ {params.task} /\ D \in tasks'
      BY <1>7, <2>1, NotRemoved DEF DispClose2, destroy_task, TypeOK
    <2>3. /\ api' \in Api /\ api'.sess = NoTask /\ api'.set
      BY <1>7 DEF DispClose2, set_secure_api_ret, TypeOK, Api, Rets, Params
    <2>4. TypeOK'
      BY <1>7, <2>2, <2>3 DEF TypeOK, DispClose2, Pcs, DPcs
    <2>5. Shape'
      BY <1>7, <2>2, <2>3 DEF TypeOK, OneInFlight, Shape, DispClose2
    <2>6. InDispatcher'
      BY <1>7, <2>1, <2>2 DEF DispClose2, InDispatcher, NoSleeper
    <2> QED BY <2>4, <2>5, <2>6 DEF OneInFlight
  <1>8. ASSUME NEW op \in Ops, Command(op), NEW v \in Rets,
               set_secure_api_ret(v, params.call), Goto("sched"),
               UNCHANGED <<taskVars, evVars, params, nsVars, ran>>,
               notify' \in Calls \cup {NoCall}, notifyReg' \in BOOLEAN, sgi' \in BOOLEAN
        PROVE  TypeOK' /\ OneInFlight'
    <2>1. api' \in Api /\ api'.sess = NoTask /\ api'.set
      BY <1>8 DEF set_secure_api_ret, TypeOK, Api, Params
    <2>2. TypeOK'
      BY <1>3, <1>8, <2>1 DEF TypeOK, Pcs, DPcs
    <2>3. Shape'
      BY <1>8, <2>1 DEF OneInFlight, Shape
    <2>4. InDispatcher'
      BY <1>3, <1>8, <2>1 DEF InDispatcher, NoSleeper
    <2> QED BY <2>2, <2>3, <2>4 DEF OneInFlight
  <1>9. CASE DispCloseFails
    BY <1>8, <1>9 DEF DispCloseFails, TypeOK, Ops, Rets
  <1>10. CASE DispRegister
    BY <1>8, <1>10 DEF DispRegister, TypeOK, Ops, Rets
  <1>11. CASE DispUnregister
    BY <1>8, <1>11 DEF DispUnregister, TypeOK, Ops, Rets
  <1>12. CASE DispOther
    BY <1>8, <1>12 DEF DispOther, TypeOK, Ops, Rets
  <1>13. CASE DispSend
    <2>1. Command("send")
      BY <1>13 DEF DispSend
    <2>2. params.task \in Svc /\ params.typ = "sec" => params.src # D
      BY <1>3, <2>1 DEF OneInFlight, Shape, Ops
    <2>3. CASE params.task \in tasks
      <3>1. /\ regs' = [regs EXCEPT ![params.task] = "entry"]
            /\ tls' = [tls EXCEPT ![params.task] = params]
            /\ ready' = <<params.task>> /\ params.task \in Svc
        BY <1>3, <1>13, <2>1, <2>2, <2>3, ShortLists
        DEF DispSend, start_task, OneInFlight, Shape, Ops
      <3>2. TypeOK'
        BY <1>3, <1>13, <2>1, <3>1 DEF DispSend, TypeOK, Pcs, DPcs, TPcs, Ops
      <3>3. Shape'
        BY <1>13, <3>1 DEF DispSend, TypeOK, OneInFlight, Shape
      <3>4. InDispatcher'
        BY <1>3, <1>13, <2>1, <2>3, <3>1 DEF DispSend, InDispatcher, NoSleeper, Ops
      <3> QED BY <3>2, <3>3, <3>4 DEF OneInFlight
    <2>4. CASE params.task \notin tasks
      <3>1. UNCHANGED <<regs, tls, ready>>
        BY <1>13, <2>4 DEF DispSend, start_task
      <3>2. TypeOK'
        BY <1>3, <1>13, <2>1, <3>1 DEF DispSend, TypeOK, Pcs, DPcs, Ops
      <3>3. Shape'
        BY <1>13, <3>1 DEF DispSend, OneInFlight, Shape
      <3>4. InDispatcher'
        BY <1>3, <1>13, <2>1, <3>1 DEF DispSend, InDispatcher, NoSleeper, Ops
      <3> QED BY <3>2, <3>3, <3>4 DEF OneInFlight
    <2> QED BY <2>3, <2>4
  <1>14. CASE DispResume
    <2>1. Command("resume")
      BY <1>14 DEF DispResume
    <2>2. ASSUME pc' \in {"die", "sched"}, UNCHANGED <<cur, ready, state, regs>>
          PROVE  TypeOK' /\ OneInFlight'
      <3>1. TypeOK'
        BY <1>3, <1>14, <2>1, <2>2 DEF DispResume, TypeOK, Pcs, DPcs, Ops
      <3>2. Shape'
        BY <1>14, <2>2 DEF DispResume, OneInFlight, Shape
      <3>3. InDispatcher'
        BY <1>3, <1>14, <2>1, <2>2 DEF DispResume, InDispatcher, NoSleeper, Ops
      <3> QED BY <3>1, <3>2, <3>3 DEF OneInFlight
    <2>3. ASSUME params.task \in tasks, wq[params.task] = "linked",
                 Scheduler(D, [state EXCEPT ![params.task] = "READY_TO_RUN"],
                           <<params.task>> \o ready, "resumed")
          PROVE  TypeOK' /\ OneInFlight'
      <3> DEFINE t  == params.task
                 st == [state EXCEPT ![t] = "READY_TO_RUN"]
      <3>1. t \in tasks \ {D} /\ t \in Svc /\ <<t>> \o ready = <<t>>
        <4>1. t \in tasks \ {D} /\ t \in Svc
          BY <2>3 DEF OneInFlight, Shape, TypeOK
        <4>2. ready = <<>>
          BY <1>3, <2>1 DEF Ops
        <4> QED BY <4>1, <4>2, ShortLists
      <3>2. st \in [Tid -> States] /\ st[D] = "RUNNING"
        BY <3>1 DEF OneInFlight, Shape, TypeOK, States
      <3>3. /\ cur' = t /\ pc' = regs[t] /\ ready' = <<D>>
            /\ regs' = [regs EXCEPT ![D] = "resumed"]
            /\ state' = [st EXCEPT ![t] = "RUNNING"]
        <4> HIDE DEF t, st
        <4>1. Scheduler(D, st, <<t>>, "resumed")
          BY <2>3, <3>1 DEF st, t
        <4> QED BY <3>1, <3>2, <4>1, SwitchToTask
      <3>4. UNCHANGED <<taskVars, evVars, params, api, ntfVars, nsVars, ran>>
        BY <1>14 DEF DispResume
      <3>5. TypeOK'
        BY <1>3, <2>1, <3>1, <3>2, <3>3, <3>4 DEF TypeOK, Pcs, DPcs, States, Ops
      <3>6. Shape'
        BY <3>1, <3>3, <3>4 DEF TypeOK, OneInFlight, Shape
      <3>7. InTask'
        BY <1>3, <2>1, <3>1, <3>3, <3>4
        DEF InTask, TypeOK, OneInFlight, Shape, NoSleeper, TPcs, Ops
      <3> QED BY <3>5, <3>6, <3>7 DEF OneInFlight
    <2> QED BY <1>14, <2>2, <2>3 DEF DispResume
  <1>15. CASE DispResumed \/ DispNoReply
    <2>1. TypeOK'
      BY <1>15 DEF DispResumed, DispNoReply, TypeOK, Pcs, DPcs
    <2>2. Shape'
      BY <1>15 DEF DispResumed, DispNoReply, OneInFlight, Shape
    <2>3. InDispatcher'
      BY <1>15 DEF DispResumed, DispNoReply, OneInFlight, InNonSecure, InDispatcher,
                   InTask, NoSleeper, Sleeper
    <2> QED BY <2>1, <2>2, <2>3 DEF OneInFlight
  <1>16. CASE DispSchedule
    <2>1. /\ cur = D /\ pc = "sched" /\ Scheduler(D, state, ready, "after")
          /\ InDispatcher /\ Shape
          /\ UNCHANGED <<taskVars, evVars, mboxVars, ntfVars, nsVars, ran>>
      BY <1>16 DEF DispSchedule, OneInFlight, InNonSecure, InTask
    <2>2. CASE ready = <<>>
      <3>1. pc' = "after" /\ UNCHANGED <<cur, ready, state, regs>>
        BY <2>1, <2>2, DispatcherStays DEF Shape
      <3>2. TypeOK'
        BY <2>1, <3>1 DEF TypeOK, Pcs, DPcs
      <3>3. Shape'
        BY <2>1, <3>1 DEF Shape
      <3>4. InDispatcher'
        BY <2>1, <3>1 DEF InDispatcher, NoSleeper, Sleeper
      <3> QED BY <3>2, <3>3, <3>4 DEF OneInFlight
    <2>3. CASE ready # <<>>
      <3>1. PICK t \in tasks \ {D} : ready = <<t>>
        BY <2>1, <2>3 DEF InDispatcher
      <3>2. NoSleeper /\ ~valid /\ ~api.set /\ smc # NoCall
        BY <2>1, <2>3 DEF InDispatcher
      <3>3. /\ cur' = t /\ pc' = regs[t] /\ ready' = <<D>>
            /\ regs' = [regs EXCEPT ![D] = "after"]
            /\ state' = [state EXCEPT ![t] = "RUNNING"]
        BY <2>1, <3>1, SwitchToTask DEF Shape, TypeOK
      <3>4. t \in Svc
        BY DEF TypeOK
      <3>5. TypeOK'
        <4>1. ready' \in Seq(Tid) /\ cur' \in Tid
          BY <3>3, <3>4
        <4>2. regs' \in [Tid -> Pcs] /\ pc' \in Pcs /\ state' \in [Tid -> States]
          BY <3>3, <3>4 DEF TypeOK, Pcs, DPcs, States
        <4> QED BY <2>1, <4>1, <4>2 DEF TypeOK
      <3>6. Shape'
        BY <2>1, <3>3, <3>4 DEF TypeOK, Shape
      <3>7. InTask'
        BY <2>1, <3>2, <3>3, <3>4 DEF InTask, TypeOK, Shape, NoSleeper, TPcs
      <3> QED BY <3>5, <3>6, <3>7 DEF OneInFlight
    <2> QED BY <2>2, <2>3
  <1>17. CASE DispReply
    <2>1. /\ cur = D /\ pc = "after" /\ api.set /\ InDispatcher /\ Shape
          /\ ready = <<>> /\ NoSleeper /\ ~valid /\ smc \in Calls
      BY <1>17 DEF DispReply, OneInFlight, InNonSecure, InDispatcher, InTask, TypeOK
    <2>2. /\ pend' \subseteq Calls /\ opened' \subseteq Svc
          /\ answer' \in [Calls -> Rets \cup {"none"}]
      <3>1. pend' \subseteq Calls
        BY <1>17, <2>1 DEF DispReply, TypeOK
      <3>2. opened' \subseteq Svc
        BY <1>17, <2>1 DEF DispReply, TypeOK, Api, Shape
      <3>3. api.val \in Rets /\ answer' = [answer EXCEPT ![smc] = api.val]
        BY <1>17 DEF DispReply, TypeOK, Api
      <3>4. answer' \in [Calls -> Rets \cup {"none"}]
        BY <3>3 DEF TypeOK
      <3> QED BY <3>1, <3>2, <3>4
    <2>3. TypeOK'
      BY <1>17, <2>2 DEF DispReply, TypeOK, Pcs, DPcs
    <2>4. Shape'
      BY <1>17, <2>1 DEF DispReply, Shape
    <2>5. InNonSecure'
      BY <1>17, <2>1 DEF DispReply, InNonSecure, NoSleeper
    <2> QED BY <2>3, <2>4, <2>5 DEF OneInFlight
  <1> QED BY <1>1, <1>2, <1>4, <1>5, <1>6, <1>7, <1>9, <1>10, <1>11, <1>12, <1>13,
             <1>14, <1>15, <1>16, <1>17
          DEF Dispatch

(* Every step of a service task preserves TypeOK and OneInFlight. *)
LEMMA TaskInv ==
    ASSUME TypeOK, OneInFlight, NEW t \in Svc, TaskStep(t)
    PROVE  TypeOK' /\ OneInFlight'
  <1> USE ConstantFacts DEF taskVars, evVars, mboxVars, ntfVars, nsVars, callVars, Goto
  <1>1. cur = t /\ t # D /\ InTask /\ Shape /\ t \in tasks
    BY DEF OneInFlight, InNonSecure, InDispatcher, InTask, TaskStep, Running, TaskSync,
           TaskNoMap, TaskNoTimer, TaskUsleep, TaskSleep, TaskSleepSuspend,
           TaskSleepYield, TaskAsync, TaskWaitCheck, TaskWaitPrepare, TaskWaitYield,
           TaskIpcConnect, TaskIpcEncodeFails,
          TaskIpcSend, TaskIpcBack, TaskReturn
  <1>2. ASSUME pc \in {"entry", "wait_check", "wait_prep", "ipc_send", "ipc_back", "fin"}
        PROVE  ready = <<D>> /\ NoSleeper /\ ~api.set /\ ~valid /\ smc # NoCall
    BY <1>1, <1>2 DEF InTask
  <1>typed. /\ t \in Tid /\ t # NoTask /\ state \in [Tid -> States]
        /\ tls[t] \in Params /\ t \in (tasks \ {D}) \cup {NoTask}
    BY <1>1 DEF TypeOK
  <1>3. CASE TaskSync(t) \/ TaskNoMap(t) \/ TaskNoTimer(t)
    <2>1. /\ pc = "entry" /\ pc' = "fin"
          /\ UNCHANGED <<taskVars, evVars, mboxVars, ntfVars, nsVars, ran>>
          /\ UNCHANGED <<cur, ready, state, regs>>
      BY <1>3 DEF TaskSync, TaskNoMap, TaskNoTimer, Running
    <2>2. TypeOK'
      BY <2>1 DEF TypeOK, Pcs, TPcs
    <2>3. Shape'
      BY <1>1, <2>1 DEF Shape
    <2>4. InTask'
      BY <1>1, <1>2, <2>1 DEF InTask, NoSleeper, TPcs
    <2> QED BY <2>2, <2>3, <2>4 DEF OneInFlight
  <1>4. CASE TaskUsleep(t) \/ TaskSleep(t)
    <2>1. /\ pc = "entry" /\ sleepEv' = [sleepEv EXCEPT ![t] = @ + 1]
          /\ \/ pc' = "sleep_yield" /\ state' = [state EXCEPT ![t] = "WAIT"]
             \/ pc' = "sleep_susp" /\ state' = state
          /\ UNCHANGED <<taskVars, echoEv, cur, ready, regs, mboxVars, ntfVars, nsVars, ran>>
      BY <1>4 DEF TaskUsleep, TaskSleep, Running
    <2>2. sleepEv' \in [Tid -> Nat] /\ state' \in [Tid -> States]
      <3>1. sleepEv \in [Tid -> Nat] /\ state \in [Tid -> States]
        BY DEF TypeOK
      <3>2. sleepEv' \in [Tid -> Nat]
        <4>1. sleepEv' = [sleepEv EXCEPT ![t] = sleepEv[t] + 1] /\ sleepEv[t] + 1 \in Nat
          BY <1>typed, <2>1, <3>1
        <4> QED BY <1>typed, <3>1, <4>1
      <3>3. state' \in [Tid -> States]
        <4>1. state' = state \/ state' = [state EXCEPT ![t] = "WAIT"]
          BY <2>1
        <4> QED BY <1>typed, <3>1, <4>1 DEF States
      <3> QED BY <3>2, <3>3
    <2>3. TypeOK'
      BY <2>1, <2>2 DEF TypeOK, Pcs, TPcs
    <2>4. Shape'
      BY <1>1, <2>1 DEF Shape, TypeOK
    <2>5. sleepEv'[t] = 1 /\ \A u \in Svc \ {t} : sleepEv'[u] = 0
      BY <1>2, <2>1 DEF TypeOK, NoSleeper
    <2>6. pc' = "sleep_yield" => state'[t] = "WAIT"
      BY <2>1 DEF TypeOK
    <2>7. InTask'
      BY <1>1, <1>2, <2>1, <2>5, <2>6 DEF InTask, Sleeper, TPcs
    <2> QED BY <2>3, <2>4, <2>7 DEF OneInFlight
  <1>5. CASE TaskSleepSuspend(t)
    <2>1. TypeOK'
      BY <1>5 DEF TaskSleepSuspend, TypeOK, Pcs, TPcs, States
    <2>2. Shape'
      BY <1>1, <1>5 DEF TaskSleepSuspend, Shape, TypeOK
    <2>3. InTask'
      BY <1>1, <1>5 DEF TaskSleepSuspend, Running, InTask, NoSleeper, Sleeper, TypeOK, TPcs
    <2> QED BY <2>1, <2>2, <2>3 DEF OneInFlight
  <1>6. CASE TaskSleepYield(t)
    <2>1. /\ pc = "sleep_yield" /\ Scheduler(t, state, ready, "fin")
          /\ UNCHANGED <<taskVars, evVars, mboxVars, ntfVars, nsVars, ran>>
      BY <1>6 DEF TaskSleepYield, Running
    <2>2. /\ cur' = D /\ pc' = regs[D] /\ regs' = [regs EXCEPT ![t] = "fin"]
          /\ state' = [state EXCEPT ![D] = "RUNNING"]
          /\ \/ ready' = <<>> /\ Sleeper(t)
             \/ ready' = <<t>> /\ NoSleeper
      <3>1. CASE ready = <<D>> /\ Sleeper(t) /\ state[t] = "WAIT"
        <4>1. Scheduler(t, state, <<D>>, "fin") /\ state[t] \in Stopped
          BY <2>1, <3>1 DEF Stopped
        <4> QED BY <1>typed, <3>1, <4>1, SwitchToDispatcher
      <3>2. CASE ready = <<D, t>> /\ NoSleeper
        <4>1. Scheduler(t, state, <<D, t>>, "fin")
          BY <2>1, <3>2
        <4> QED BY <1>typed, <3>2, <4>1, SwitchToDispatcherQueued
      <3> QED BY <1>1, <2>1, <3>1, <3>2 DEF InTask
    <2>3. TypeOK'
      <3>1. ready' \in Seq(Tid) /\ cur' \in Tid
        <4>1. t \in Tid /\ (ready' = <<>> \/ ready' = <<t>>) /\ cur' = D
          BY <1>typed, <2>2
        <4> QED BY <4>1, ShortListTypes
      <3>2. regs' \in [Tid -> Pcs] /\ pc' \in Pcs /\ state' \in [Tid -> States]
        BY <2>2 DEF TypeOK, Pcs, TPcs, States
      <3> QED BY <2>1, <3>1, <3>2 DEF TypeOK
    <2>4. Shape'
      BY <1>1, <2>1, <2>2 DEF Shape, TypeOK
    <2>5. InDispatcher'
      BY <1>1, <2>1, <2>2 DEF InTask, InDispatcher, NoSleeper, Sleeper, Shape, TypeOK
    <2> QED BY <2>3, <2>4, <2>5 DEF OneInFlight
  <1>7. CASE TaskAsync(t) \/ TaskWaitCheck(t)
    <2>1. /\ pc \in {"entry", "wait_check"} /\ pc' \in {"fin", "wait_check", "wait_prep"}
          /\ wq' \in [Tid -> {"uninit", "empty", "linked"}] /\ wq'[D] = wq[D]
          /\ echoEv' \in [Tid -> Nat]
          /\ UNCHANGED <<tasks, nextId, tls, avail, peer, sleepEv, mboxVars, ntfVars,
                         nsVars, ran, cur, ready, state, regs>>
      BY <1>7 DEF TaskAsync, TaskWaitCheck, Running, TypeOK
    <2>2. TypeOK'
      BY <2>1 DEF TypeOK, Pcs, TPcs
    <2>3. Shape'
      BY <1>1, <2>1 DEF Shape
    <2>4. InTask'
      BY <1>1, <1>2, <2>1 DEF InTask, NoSleeper, TPcs
    <2> QED BY <2>2, <2>3, <2>4 DEF OneInFlight
  <1>8. CASE TaskWaitPrepare(t)
    <2>1. api' \in Api /\ api'.sess # D
      <3>1. tls[t].call \in Calls \cup {NoCall} /\ api \in Api /\ api.sess # D
        BY <1>1, <1>typed DEF Params, TypeOK, Shape
      <3>2. CASE api' = api
        BY <3>1, <3>2
      <3>3. CASE set_secure_api_ret("pending", tls[t].call)
        BY <3>1, <3>3, ReplySlot DEF Rets
      <3> QED BY <1>8, <3>2, <3>3 DEF TaskWaitPrepare
    <2>2. TypeOK'
      BY <1>8, <2>1 DEF TaskWaitPrepare, TypeOK, Pcs, TPcs, States
    <2>3. Shape'
      BY <1>1, <1>8, <2>1 DEF TaskWaitPrepare, Shape, TypeOK
    <2>4. InTask'
      BY <1>1, <1>2, <1>8 DEF TaskWaitPrepare, Running, InTask, NoSleeper, TPcs, TypeOK
    <2> QED BY <2>2, <2>3, <2>4 DEF OneInFlight
  <1>9. CASE TaskWaitYield(t)
    <2>1. /\ pc = "wait_yield" /\ Scheduler(t, state, <<D>>, "wait_check")
          /\ ready = <<D>> /\ NoSleeper /\ state[t] = "WAIT"
          /\ UNCHANGED <<taskVars, evVars, mboxVars, ntfVars, nsVars, ran>>
      BY <1>1, <1>9 DEF TaskWaitYield, Running, InTask
    <2>2. /\ cur' = D /\ pc' = regs[D] /\ regs' = [regs EXCEPT ![t] = "wait_check"]
          /\ state' = [state EXCEPT ![D] = "RUNNING"] /\ ready' = <<>>
      BY <1>1, <2>1, SwitchToDispatcher DEF TypeOK, Stopped
    <2>3. TypeOK'
      BY <1>1, <2>1, <2>2 DEF TypeOK, Pcs, TPcs, DPcs, States
    <2>4. Shape'
      BY <1>1, <2>1, <2>2 DEF Shape, TypeOK
    <2>5. InDispatcher'
      BY <1>1, <2>1, <2>2 DEF InTask, InDispatcher, NoSleeper, Shape
    <2> QED BY <2>3, <2>4, <2>5 DEF OneInFlight
  <1>10. CASE TaskIpcConnect(t)
    <2>1. /\ pc = "entry" /\ UNCHANGED <<tls, cur, ready, regs, evVars, mboxVars, ntfVars,
                                         nsVars, ran>>
      BY <1>10 DEF TaskIpcConnect, Running
    <2>2. CASE create_task /\ peer' = [peer EXCEPT ![t] = nextId] /\ pc' = "ipc_send"
      <3>1. nextId \in Svc /\ nextId' = nextId + 1 /\ nextId' \in 1..(MaxTask + 1) /\ t < nextId
        BY <1>1, <2>2, ConstantsAssumption DEF create_task, TypeOK, Svc, Shape
      <3>2. TypeOK'
        BY <2>1, <2>2, <3>1 DEF create_task, TypeOK, Pcs, TPcs, States
      <3>3. Shape'
        BY <1>1, <2>1, <2>2, <3>1 DEF create_task, Shape, TypeOK
      <3>4. InTask'
        BY <1>1, <1>2, <2>1, <2>2, <3>1 DEF create_task, InTask, NoSleeper, TPcs, TypeOK
      <3> QED BY <3>2, <3>3, <3>4 DEF OneInFlight
    <2>3. CASE create_task_fails /\ UNCHANGED peer /\ pc' = "fin"
      <3>1. nextId' \in 1..(MaxTask + 1) /\ nextId' >= nextId
        BY <2>3 DEF create_task_fails, TypeOK
      <3>2. TypeOK'
        BY <2>1, <2>3, <3>1 DEF create_task_fails, TypeOK, Pcs, TPcs
      <3>3. Shape'
        BY <1>1, <2>1, <2>3, <3>1 DEF create_task_fails, Shape, TypeOK
      <3>4. InTask'
        BY <1>1, <1>2, <2>1, <2>3 DEF create_task_fails, InTask, NoSleeper, TPcs
      <3> QED BY <3>2, <3>3, <3>4 DEF OneInFlight
    <2> QED BY <1>10, <2>2, <2>3 DEF TaskIpcConnect
  <1>11. CASE TaskIpcSend(t)
    <2> DEFINE st == [state EXCEPT ![t] = "WAIT"]
    <2>1. /\ pc = "ipc_send" /\ Scheduler(t, st, <<D>>, "ipc_back")
          /\ valid' = TRUE /\ params' \in Params
          /\ params'.typ = "sec" /\ params'.op = "send" /\ params'.task = peer[t]
          /\ params'.src = t /\ peer[t] \in Svc
          /\ UNCHANGED <<taskVars, evVars, api, ntfVars, nsVars, ran>>
      BY <1>1, <1>2, <1>11
      DEF TaskIpcSend, Running, InTask, TypeOK, Params, Ops, AllKinds
    <2>2. st \in [Tid -> States] /\ st[t] \in Stopped /\ st[D] = "RUNNING"
      BY <1>1 DEF TypeOK, States, Stopped, Shape
    <2>3. /\ cur' = D /\ pc' = regs[D] /\ regs' = [regs EXCEPT ![t] = "ipc_back"]
          /\ state' = [st EXCEPT ![D] = "RUNNING"] /\ ready' = <<>>
      <3> HIDE DEF st
      <3>1. Scheduler(t, st, <<D>>, "ipc_back")
        BY <2>1
      <3> QED BY <1>typed, <2>2, <3>1, SwitchToDispatcher
    <2>4. TypeOK'
      <3>1. ready' \in Seq(Tid) /\ cur' \in Tid
        BY <2>3
      <3>2. regs' \in [Tid -> Pcs] /\ pc' \in Pcs /\ state' \in [Tid -> States]
        BY <2>2, <2>3 DEF TypeOK, Pcs, TPcs, States
      <3> QED BY <2>1, <3>1, <3>2 DEF TypeOK
    <2>5. Shape'
      BY <1>1, <2>1, <2>2, <2>3 DEF Shape, TypeOK
    <2>6. InDispatcher'
      BY <1>1, <1>2, <2>1, <2>3 DEF InTask, InDispatcher, NoSleeper, Shape
    <2> QED BY <2>4, <2>5, <2>6 DEF OneInFlight
  <1>12. CASE TaskIpcBack(t)
    <2>1. pc = "ipc_back" /\ peer[t] \in Svc /\ peer[t] # t /\ ready = <<D>>
      BY <1>1, <1>2, <1>12 DEF TaskIpcBack, Running, InTask, Shape, TypeOK
    <2>2. ready' = ready /\ tasks' = tasks \ {peer[t]} /\ D \in tasks'
      BY <1>12, <2>1, NotRemoved DEF TaskIpcBack, destroy_task, TypeOK
    <2>3. TypeOK'
      BY <1>12, <2>2 DEF TaskIpcBack, TypeOK, Pcs, TPcs
    <2>4. Shape'
      BY <1>1, <1>12, <2>2 DEF TaskIpcBack, Shape
    <2>5. InTask'
      BY <1>1, <1>2, <1>12, <2>1, <2>2 DEF TaskIpcBack, InTask, NoSleeper, TPcs
    <2> QED BY <2>3, <2>4, <2>5 DEF OneInFlight
  <1>13. CASE TaskIpcEncodeFails(t)
    <2>1. /\ pc = "ipc_send" /\ pc' = "ipc_back"
          /\ UNCHANGED <<taskVars, evVars, mboxVars, ntfVars, nsVars, ran>>
          /\ UNCHANGED <<cur, ready, state, regs>>
      BY <1>13 DEF TaskIpcEncodeFails, Running
    <2>2. TypeOK'
      BY <2>1 DEF TypeOK, Pcs, TPcs
    <2>3. Shape'
      BY <1>1, <2>1 DEF Shape
    <2>4. InTask'
      BY <1>1, <1>2, <2>1 DEF InTask, NoSleeper, TPcs
    <2> QED BY <2>2, <2>3, <2>4 DEF OneInFlight
  <1>14. CASE TaskReturn(t)
    <2> DEFINE st == [state EXCEPT ![t] = "SUSPEND"]
    <2>1. /\ pc = "fin" /\ ready = <<D>> /\ NoSleeper /\ ~api.set /\ ~valid /\ smc # NoCall
          /\ UNCHANGED <<taskVars, evVars, valid, params, ntfVars, nsVars>>
      BY <1>2, <1>14 DEF TaskReturn, Running
    <2>2. st \in [Tid -> States] /\ st[D] = "RUNNING"
      BY <1>1 DEF TypeOK, States, Shape
    <2>3. \/ /\ api' \in Api /\ api'.sess = NoTask /\ api'.set
             /\ ran' \in [Calls -> {"none", "ok", "err"}]
             /\ Scheduler(NoTask, st, <<D>>, "die")
          \/ /\ UNCHANGED <<api, ran>>
             /\ \/ Scheduler(NoTask, st, <<D>>, "die")
                \/ /\ tls[t].src \in tasks \ {D}
                   /\ Scheduler(NoTask, st, <<D, tls[t].src>>, "die")
      <3>1. PICK v \in {"ok", "err"} :
              IF tls[t].typ = "ns"
              THEN /\ set_secure_api_ret(v, tls[t].call)
                   /\ ran' = [ran EXCEPT ![tls[t].call] = v]
                   /\ Scheduler(NoTask, st, ready, "die")
              ELSE /\ UNCHANGED <<api, ran>>
                   /\ Scheduler(NoTask, st,
                         IF tls[t].src \in tasks THEN Append(ready, tls[t].src) ELSE ready,
                         "die")
        BY <1>14 DEF TaskReturn
      <3>2. CASE tls[t].typ = "ns"
        <4>1. api' \in Api /\ api'.sess = NoTask /\ api'.set
          <5>1. tls[t].call \in Calls \cup {NoCall}
            BY <1>typed DEF Params
          <5>2. v \in Rets /\ set_secure_api_ret(v, tls[t].call)
            BY <3>1, <3>2 DEF Rets
          <5> QED BY <5>1, <5>2, ReplySlot
        <4>2. ran' \in [Calls -> {"none", "ok", "err"}]
          BY <3>1, <3>2 DEF TypeOK
        <4> QED BY <2>1, <3>1, <3>2, <4>1, <4>2
      <3>3. CASE tls[t].typ # "ns"
        <4>1. tls[t].typ = "sec" /\ tls[t].src \in Tid /\ tls[t].src # D
          BY <1>1, <3>3 DEF TypeOK, Shape, Params
        <4>2. Append(<<D>>, tls[t].src) = <<D, tls[t].src>>
          BY <4>1, QueuedBehindDispatcher
        <4> HIDE DEF st
        <4>3. CASE tls[t].src \in tasks
          BY <2>1, <3>1, <3>3, <4>1, <4>2, <4>3
        <4>4. CASE tls[t].src \notin tasks
          BY <2>1, <3>1, <3>3, <4>4
        <4> QED BY <4>3, <4>4
      <3> QED BY <3>2, <3>3
    <2>4. /\ cur' = D /\ pc' = regs[D] /\ regs' = regs
          /\ state' = [st EXCEPT ![D] = "RUNNING"]
          /\ api' \in Api /\ ran' \in [Calls -> {"none", "ok", "err"}]
          /\ \/ ready' = <<>> /\ api'.sess # D
             \/ api' = api /\ \E u \in tasks \ {D} : ready' = <<u>>
      <3> HIDE DEF st
      <3>1. CASE Scheduler(NoTask, st, <<D>>, "die")
        <4>1. /\ cur' = D /\ pc' = regs[D] /\ regs' = regs /\ ready' = <<>>
              /\ state' = [st EXCEPT ![D] = "RUNNING"]
          BY <2>2, <3>1, SwitchToDispatcher
        <4> QED BY <1>1, <2>3, <4>1 DEF TypeOK, Shape
      <3>2. CASE /\ UNCHANGED <<api, ran>> /\ tls[t].src \in tasks \ {D}
                 /\ Scheduler(NoTask, st, <<D, tls[t].src>>, "die")
        <4>1. /\ cur' = D /\ pc' = regs[D] /\ regs' = regs /\ ready' = <<tls[t].src>>
              /\ state' = [st EXCEPT ![D] = "RUNNING"]
          <5>1. tasks \subseteq Tid /\ NoTask \in (tasks \ {D}) \cup {NoTask}
            BY DEF TypeOK
          <5> DEFINE src == tls[t].src
          <5>2. Scheduler(NoTask, st, <<D, src>>, "die") /\ src \in Tid
            BY <3>2, <5>1
          <5> HIDE DEF src
          <5>3. /\ cur' = D /\ pc' = regs[D] /\ regs' = regs /\ ready' = <<src>>
                /\ state' = [st EXCEPT ![D] = "RUNNING"]
            BY <2>2, <5>1, <5>2, SwitchToDispatcherQueued
          <5> QED BY <5>3 DEF src
        <4> QED BY <3>2, <4>1 DEF TypeOK
      <3> QED BY <2>3, <3>1, <3>2
    <2>5. TypeOK'
      <3>1. ready' \in Seq(Tid) /\ cur' \in Tid
        <4>1. tasks \subseteq Tid
          BY DEF TypeOK
        <4>2. CASE ready' = <<>>
          BY <2>4, <4>2
        <4>3. ASSUME NEW u \in tasks \ {D}, ready' = <<u>> PROVE ready' \in Seq(Tid)
          BY <4>1, <4>3
        <4> QED BY <2>4, <4>2, <4>3
      <3>2. regs' \in [Tid -> Pcs] /\ pc' \in Pcs /\ state' \in [Tid -> States]
        BY <2>2, <2>4 DEF TypeOK, States
      <3> QED BY <2>1, <2>4, <3>1, <3>2 DEF TypeOK
    <2>6. Shape'
      BY <1>1, <2>1, <2>2, <2>4 DEF Shape, TypeOK
    <2>7. InDispatcher'
      BY <1>1, <2>1, <2>4 DEF InTask, InDispatcher, NoSleeper, Shape
    <2> QED BY <2>5, <2>6, <2>7 DEF OneInFlight
  <1> QED BY <1>3, <1>4, <1>5, <1>6, <1>7, <1>8, <1>9, <1>10, <1>11, <1>12, <1>13,
             <1>14
          DEF TaskStep

(* The timer handlers preserve TypeOK and OneInFlight. *)
LEMMA FiqInv ==
    ASSUME TypeOK, OneInFlight, Fiq
    PROVE  TypeOK' /\ OneInFlight'
  <1> USE ConstantFacts DEF taskVars, evVars, mboxVars, ntfVars, nsVars, callVars, runVars
  <1>1. PICK t \in Svc : FiqSleep(t) \/ FiqEcho(t)
    BY DEF Fiq
  <1>2. CASE FiqEcho(t)
    <2>1. /\ echoEv' \in [Tid -> Nat] /\ avail' \in [Tid -> BOOLEAN]
          /\ notify' \in Calls \cup {NoCall} /\ sgi' \in BOOLEAN
          /\ UNCHANGED <<tasks, nextId, tls, wq, peer, sleepEv, runVars, mboxVars,
                         notifyReg, nsVars, ran>>
      <3>1. tls[t] \in Params /\ tls[t].call \in Calls \cup {NoCall}
        BY DEF TypeOK, Params
      <3>2. notify' \in Calls \cup {NoCall} /\ sgi' \in BOOLEAN
        <4>1. notify \in Calls \cup {NoCall} /\ sgi \in BOOLEAN
          BY DEF TypeOK
        <4>2. \/ notify' = tls[t].call
              \/ notify' = NoCall
              \/ notify' = notify
          BY <1>2 DEF FiqEcho, Notified
        <4>3. sgi' = TRUE \/ sgi' = sgi
          BY <1>2 DEF FiqEcho
        <4> QED BY <3>1, <4>1, <4>2, <4>3
      <3>3. echoEv' \in [Tid -> Nat]
        BY <1>2 DEF FiqEcho, TypeOK
      <3>4. avail' \in [Tid -> BOOLEAN]
        <4>1. avail \in [Tid -> BOOLEAN] /\ t \in Tid
          BY DEF TypeOK
        <4>2. avail' = [avail EXCEPT ![t] = TRUE] \/ avail' = avail
          BY <1>2 DEF FiqEcho
        <4> QED BY <4>1, <4>2
      <3> QED BY <1>2, <3>2, <3>3, <3>4 DEF FiqEcho
    <2>2. TypeOK'
      BY <2>1 DEF TypeOK
    <2>3. Shape'
      BY <2>1 DEF OneInFlight, Shape
    <2>4. (InNonSecure \/ InDispatcher \/ InTask)'
      BY <2>1 DEF OneInFlight, InNonSecure, InDispatcher, InTask, NoSleeper, Sleeper
    <2> QED BY <2>2, <2>3, <2>4 DEF OneInFlight
  <1>3. CASE FiqSleep(t)
    <2>1. /\ sleepEv[t] > 0 /\ ~NoSleeper
          /\ UNCHANGED <<taskVars, echoEv, cur, regs, pc, mboxVars, ntfVars, nsVars, ran>>
      BY <1>3 DEF FiqSleep, NoSleeper
    <2>2. Sleeper(t) /\ NoSleeper'
      <3>1. PICK u \in Svc : Sleeper(u)
        BY <2>1 DEF OneInFlight, InNonSecure, InDispatcher, InTask, TypeOK
      <3>2. u = t
        BY <2>1, <3>1 DEF Sleeper
      <3> QED BY <1>3, <3>1, <3>2 DEF Sleeper, FiqSleep, NoSleeper, TypeOK
    <2>3. /\ t \in tasks \ {D} /\ state' = [state EXCEPT ![t] = "READY_TO_RUN"]
          /\ ready' = Append(ready, t) /\ sleepEv' \in [Tid -> Nat]
      BY <1>3, <2>2 DEF FiqSleep, Sleeper, TypeOK
    <2>4. \/ InDispatcher /\ ready = <<>> /\ ready' = <<t>>
          \/ InTask /\ cur = t /\ ready = <<D>> /\ ready' = <<D, t>>
      <3>1. CASE InDispatcher
        <4>1. ready = <<>>
          BY <2>1, <3>1 DEF InDispatcher
        <4> QED BY <2>3, <3>1, <4>1, ShortLists
      <3>2. CASE InTask
        <4>1. ready = <<D>> /\ Sleeper(cur) /\ cur \in Svc
          BY <2>1, <3>2 DEF InTask, TypeOK
        <4>2. cur = t
          BY <2>1, <4>1 DEF Sleeper
        <4> QED BY <2>3, <3>2, <4>1, <4>2, QueuedBehindDispatcher
      <3> QED BY <2>1, <3>1, <3>2 DEF OneInFlight, InNonSecure
    <2>5. TypeOK'
      <3>1. ready' \in Seq(Tid)
        <4>1. t \in Tid /\ D \in Tid /\ (ready' = <<t>> \/ ready' = <<D, t>>)
          BY <2>4
        <4> QED BY <4>1, ShortListTypes
      <3>2. state' \in [Tid -> States]
        BY <2>3 DEF TypeOK, States
      <3> QED BY <2>1, <2>3, <3>1, <3>2 DEF TypeOK
    <2>6. Shape'
      BY <2>1, <2>3 DEF OneInFlight, Shape, TypeOK
    <2>7. CASE InDispatcher /\ ready = <<>> /\ ready' = <<t>>
      <3>1. InDispatcher'
        BY <2>1, <2>2, <2>3, <2>7 DEF InDispatcher
      <3> QED BY <2>5, <2>6, <3>1 DEF OneInFlight
    <2>8. CASE InTask /\ cur = t /\ ready = <<D>> /\ ready' = <<D, t>>
      <3>1. pc \in {"sleep_susp", "sleep_yield"}
        BY <2>1, <2>8 DEF InTask
      <3>2. InTask'
        BY <2>1, <2>2, <2>3, <2>8, <3>1 DEF InTask
      <3> QED BY <2>5, <2>6, <3>2 DEF OneInFlight
    <2> QED BY <2>4, <2>7, <2>8
  <1> QED BY <1>1, <1>2, <1>3

(* The driver's steps preserve TypeOK and OneInFlight. *)
LEMMA NonSecureInv ==
    ASSUME TypeOK, OneInFlight, ServiceCall, NonSecure
    PROVE  TypeOK' /\ OneInFlight'
  <1> USE ConstantFacts DEF taskVars, evVars, mboxVars, ntfVars, nsVars, callVars, runVars
  <1>1. InNs => InNonSecure /\ Shape /\ ~valid
    BY DEF InNs, OneInFlight, InNonSecure, InDispatcher, InTask
  <1>2. ASSUME InNs, NEW c \in Calls, NEW op \in Ops, NEW t \in Tid, NEW k \in AllKinds,
               Issue(c, op, t, k), op \in {"send", "close"} => t \in Svc,
               opened' \subseteq Svc, pend' \subseteq Calls, woken' \subseteq Calls,
               target' \in [Calls -> Tid], nextCall' \in 1..(MaxCall + 1),
               kindOf' \in [Calls -> AllKinds], smcCmd' \in Calls \cup {NoCall},
               resumeId' \subseteq Calls \cup {NoCall}
        PROVE  TypeOK' /\ OneInFlight'
    <2>1. params' \in Params /\ params'.typ = "ns" /\ params'.op = op /\ params'.task = t
      BY <1>2 DEF Issue, Params
    <2>2. TypeOK'
      BY <1>2, <2>1 DEF TypeOK, Issue
    <2>3. Shape'
      BY <1>1, <1>2, <2>1 DEF Shape, Issue
    <2>4. InNonSecure'
      BY <1>1, <1>2 DEF InNonSecure, Issue, NoSleeper
    <2> QED BY <2>2, <2>3, <2>4 DEF OneInFlight
  <1>3. ASSUME NEW op \in Ops, NEW t \in Tid, NEW k \in AllKinds, NewCall(op, t, k),
               op \in {"send", "close"} => t \in Svc,
               opened' \subseteq opened, UNCHANGED <<pend, woken>>
        PROVE  TypeOK' /\ OneInFlight'
    <2>1. /\ InNs /\ nextCall \in Calls /\ nextCall' \in 1..(MaxCall + 1)
          /\ Issue(nextCall, op, t, k)
      BY <1>3, ConstantsAssumption DEF NewCall, TypeOK, Calls
    <2>2. /\ target' \in [Calls -> Tid] /\ kindOf' \in [Calls -> AllKinds]
          /\ smcCmd' \in Calls \cup {NoCall} /\ resumeId' \subseteq Calls \cup {NoCall}
      BY <1>3, <2>1 DEF NewCall, TypeOK
    <2> QED BY <1>2, <1>3, <2>1, <2>2 DEF TypeOK
  <1>4. CASE NsOpen \/ NsRegister \/ NsUnregister \/ NsOther
    BY <1>3, <1>4 DEF NsOpen, NsRegister, NsUnregister, NsOther, Ops, AllKinds
  <1>5. CASE NsClose
    <2>1. PICK t \in opened : opened' = opened \ {t} /\ NewCall("close", t, "sync")
                              /\ UNCHANGED <<pend, woken>>
      BY <1>5 DEF NsClose
    <2>2. t \in Svc
      BY DEF TypeOK
    <2> QED BY <1>3, <2>1, <2>2 DEF Ops, AllKinds
  <1>6. CASE NsSend
    <2>1. PICK t \in opened, k \in Kinds : NewCall("send", t, k)
                                           /\ UNCHANGED <<opened, pend, woken>>
      BY <1>6 DEF NsSend
    <2>2. t \in Svc /\ k \in AllKinds
      BY ConstantsAssumption DEF TypeOK
    <2> QED BY <1>3, <2>1, <2>2 DEF Ops
  <1>7. CASE NsResume
    <2>1. PICK c \in pend : /\ InNs /\ woken' = woken \ {c}
                            /\ resumeId' = resumeId \cup {smcCmd}
                            /\ Issue(c, IF c \in resumeId' THEN "resume" ELSE "send",
                                     target[c], kindOf[c])
                            /\ UNCHANGED <<opened, pend, target, kindOf, smcCmd, nextCall>>
      BY <1>7 DEF NsResume
    <2>2. c \in Calls /\ target[c] \in Svc /\ kindOf[c] \in AllKinds
      BY DEF TypeOK, ServiceCall
    <2>3. /\ woken' \subseteq Calls /\ resumeId' \subseteq Calls \cup {NoCall}
          /\ opened' \subseteq Svc /\ pend' \subseteq Calls
          /\ target' \in [Calls -> Tid] /\ nextCall' \in 1..(MaxCall + 1)
          /\ kindOf' \in [Calls -> AllKinds] /\ smcCmd' \in Calls \cup {NoCall}
      BY <2>1 DEF TypeOK
    <2>4. CASE c \in resumeId'
      BY <1>2, <2>1, <2>2, <2>3, <2>4 DEF Ops
    <2>5. CASE c \notin resumeId'
      BY <1>2, <2>1, <2>2, <2>3, <2>5 DEF Ops
    <2> QED BY <2>4, <2>5
  <1>8. CASE NsIpi \/ NsInterrupted
    <2>1. /\ InNs /\ sgi' \in BOOLEAN /\ woken' \subseteq Calls /\ pend' \subseteq Calls
          /\ answer' \in [Calls -> Rets \cup {"none"}]
          /\ UNCHANGED <<taskVars, evVars, runVars, mboxVars, notify, notifyReg, smc,
                         opened, resumeId, callVars, ran>>
      BY <1>8 DEF NsIpi, NsInterrupted, TypeOK, Rets
    <2>2. TypeOK'
      BY <2>1 DEF TypeOK
    <2>3. Shape' /\ InNonSecure'
      BY <1>1, <2>1 DEF Shape, InNonSecure, NoSleeper
    <2> QED BY <2>2, <2>3 DEF OneInFlight
  <1> QED BY <1>4, <1>5, <1>6, <1>7, <1>8 DEF NonSecure

(* ServiceCall is preserved. *)
LEMMA ServiceInv ==
    ASSUME TypeOK, OneInFlight, ServiceCall, Next
    PROVE  ServiceCall'
  <1> USE ConstantFacts DEF taskVars, evVars, mboxVars, ntfVars, nsVars, callVars, runVars, Goto
  <1>1. CASE Dispatch
    <2>1. CASE DispReply
      <3>1. /\ smc' = NoCall /\ UNCHANGED <<target, nextCall>>
            /\ pend' \subseteq pend \cup {smc}
            /\ (smc \in pend' => smc \in pend \/ api.val = "pending")
            /\ api.set /\ pc = "after"
        BY <2>1 DEF DispReply
      <3>2. smc # NoCall
        BY <3>1 DEF OneInFlight, InNonSecure, InDispatcher, InTask, TPcs
      <3>3. smc \in pend' => target[smc] \in Svc
        BY <3>1, <3>2 DEF ServiceCall, ServiceActive
      <3>4. NoCall < nextCall
        BY DEF TypeOK, NoCall
      <3> QED BY <3>1, <3>3, <3>4 DEF ServiceCall
    <2>2. CASE DispReturned \/ DispIdle \/ DispClose \/ DispResumed \/ DispNoReply
      <3>1. UNCHANGED <<pend, target, nextCall, smc, cur, ready, sleepEv, params>>
        BY <2>2 DEF DispReturned, DispIdle, DispClose, DispResumed, DispNoReply
      <3>2. valid' => valid
        BY <2>2 DEF DispReturned, DispIdle, DispClose, Command, DispResumed, DispNoReply
      <3>3. api'.set => api' = api /\ pc # "ret"
        BY <2>2 DEF DispReturned, DispIdle, DispClose, Command, DispResumed, DispNoReply,
                    TypeOK, Api
      <3> QED BY <3>1, <3>2, <3>3, SameService DEF ServiceActive, NoSleeper
    <2>3. CASE \/ DispOpen \/ DispOpenFails \/ DispClose2 \/ DispCloseFails
               \/ DispRegister \/ DispUnregister \/ DispOther
      <3>1. UNCHANGED <<pend, target, nextCall, smc, cur, sleepEv>> /\ cur = D /\ ~valid'
            /\ (pc = "close2" \/ \E op \in Ops : Command(op))
            /\ (pc # "close2" => ready' = ready)
        BY <2>3 DEF DispOpen, DispOpenFails, DispClose2, DispCloseFails, DispRegister,
             DispUnregister, DispOther, Command, Ops, OneInFlight, InNonSecure,
             InDispatcher, InTask, TPcs
      <3>2. NoSleeper /\ ready = <<>>
        BY <3>1 DEF Command, OneInFlight, InNonSecure, InDispatcher, InTask
      <3>3. ready' = <<>>
        <4>1. CASE pc = "close2"
          <5>1. DispClose2 /\ params.task \in Svc
            BY <2>3, <4>1 DEF DispOpen, DispOpenFails, DispClose2, DispCloseFails,
               DispRegister, DispUnregister, DispOther, Command, OneInFlight, Shape,
               InNonSecure, InDispatcher, InTask, TPcs
          <5> QED BY <3>2, <5>1, NotRemoved DEF DispClose2, destroy_task
        <4> QED BY <3>1, <3>2, <4>1
      <3>4. api'.val # "pending"
        BY <2>3 DEF DispOpen, DispOpenFails, DispClose2, DispCloseFails, DispRegister,
             DispUnregister, DispOther, set_secure_api_ret
      <3> QED BY <3>1, <3>2, <3>3, <3>4, SameService DEF ServiceActive, NoSleeper
    <2>4. CASE DispSend \/ DispResume \/ DispSchedule
      <3>1. UNCHANGED <<pend, target, nextCall, smc, params, sleepEv, api>>
        BY <2>4 DEF DispSend, DispResume, DispSchedule
      <3>2. CASE DispSend \/ DispResume
        <4>1. ServiceActive
          BY <3>2 DEF DispSend, DispResume, Command, ServiceActive
        <4> QED BY <3>1, <4>1, SameService
      <3>3. CASE DispSchedule
        <4>1. CASE ready # <<>>
          BY <3>1, <4>1, SameService DEF ServiceActive
        <4>2. CASE ready = <<>>
          <5>1. pc' = "after" /\ UNCHANGED <<cur, ready>> /\ pc = "sched" /\ valid' = valid
            BY <3>3, <4>2, DispatcherStays DEF DispSchedule, OneInFlight, Shape
          <5> QED BY <3>1, <5>1, SameService DEF ServiceActive, NoSleeper
        <4> QED BY <4>1, <4>2
      <3> QED BY <2>4, <3>2, <3>3
    <2> QED BY <1>1, <2>1, <2>2, <2>3, <2>4 DEF Dispatch
  <1>2. ASSUME NEW t \in Svc, TaskStep(t) PROVE ServiceCall'
    <2>1. cur # D /\ UNCHANGED <<pend, target, nextCall, smc>>
      BY <1>2 DEF TaskStep, Running, TaskSync, TaskNoMap, TaskNoTimer, TaskUsleep,
         TaskSleep, TaskSleepSuspend, TaskSleepYield, TaskAsync, TaskWaitCheck,
         TaskWaitPrepare, TaskWaitYield, TaskIpcConnect, TaskIpcEncodeFails,
          TaskIpcSend, TaskIpcBack,
         TaskReturn
    <2> QED BY <2>1, SameService DEF ServiceActive
  <1>3. CASE Fiq
    <2>1. PICK t \in Svc : FiqSleep(t) \/ FiqEcho(t)
      BY <1>3 DEF Fiq
    <2>2. CASE FiqSleep(t)
      <3>1. UNCHANGED <<pend, target, nextCall, smc>> /\ ~NoSleeper
        BY <2>2 DEF FiqSleep, NoSleeper
      <3> QED BY <3>1, SameService DEF ServiceActive
    <2>3. CASE FiqEcho(t)
      <3>1. UNCHANGED <<pend, target, nextCall, smc, cur, ready, sleepEv, valid, params, api, pc>>
        BY <2>3 DEF FiqEcho
      <3> QED BY <3>1, SameService DEF ServiceActive, NoSleeper
    <2> QED BY <2>1, <2>2, <2>3
  <1>4. CASE NonSecure
    <2>1. InNs /\ smc = NoCall /\ InNonSecure
      BY <1>4 DEF NonSecure, NsOpen, NsClose, NsSend, NsRegister, NsUnregister, NsOther,
         NsIpi, NsResume, NsInterrupted, NewCall, InNs, OneInFlight, InDispatcher, InTask
    <2>2. CASE NsIpi \/ NsInterrupted
      <3>1. pend' \subseteq pend /\ UNCHANGED <<target, nextCall, smc>> /\ smc = NoCall
        BY <2>1, <2>2 DEF NsIpi, NsInterrupted
      <3> QED BY <3>1 DEF ServiceCall
    <2>3. CASE NsResume
      <3>1. PICK c \in pend : smc' = c
        BY <2>3 DEF NsResume, Issue
      <3>2. UNCHANGED <<pend, target, nextCall>>
        BY <2>3 DEF NsResume
      <3> QED BY <3>1, <3>2 DEF ServiceCall
    <2>4. ASSUME NEW op \in Ops \ {"resume"}, NEW t \in Tid, NEW k, NewCall(op, t, k),
                 UNCHANGED pend, op = "send" => t \in Svc
          PROVE  ServiceCall'
      <3>1. /\ nextCall \in Calls /\ smc' = nextCall /\ nextCall' = nextCall + 1
            /\ target' = [target EXCEPT ![nextCall] = IF op = "send" THEN t ELSE D]
            /\ params'.op = op
            /\ UNCHANGED <<cur, ready, sleepEv, pc>>
        BY <2>4 DEF NewCall, Issue, TypeOK, Calls
      <3>2. ServiceActive' => op = "send"
        BY <2>1, <3>1 DEF ServiceActive, InNonSecure, NoSleeper
      <3>3. \A c \in pend : c \in Int /\ c < nextCall /\ nextCall \in Int /\ target[c] \in Svc
        BY DEF ServiceCall, TypeOK, Calls
      <3>4. \A c \in pend : c < nextCall' /\ target'[c] \in Svc
        BY <3>1, <3>3 DEF TypeOK
      <3>5. op = "send" => target'[nextCall] \in Svc
        BY <2>4, <3>1 DEF TypeOK
      <3>6. nextCall < nextCall'
        BY <3>1 DEF Calls
      <3> QED BY <2>4, <3>1, <3>2, <3>4, <3>5, <3>6 DEF ServiceCall
    <2>5. CASE NsOpen \/ NsRegister \/ NsUnregister \/ NsOther
      BY <2>4, <2>5 DEF NsOpen, NsRegister, NsUnregister, NsOther, Ops
    <2>6. CASE NsClose \/ NsSend
      BY <2>4, <2>6 DEF NsClose, NsSend, Ops, TypeOK
    <2> QED BY <1>4, <2>2, <2>3, <2>5, <2>6 DEF NonSecure
  <1> QED BY <1>1, <1>2, <1>3, <1>4 DEF Next

(* The inductive step for the whole next-state relation. *)
LEMMA StepInv == TypeOK /\ KernelInv /\ [Next]_vars => TypeOK' /\ KernelInv'
  <1> SUFFICES ASSUME TypeOK, KernelInv, [Next]_vars PROVE TypeOK' /\ KernelInv'
    OBVIOUS
  <1> USE DEF KernelInv
  <1>1. CASE UNCHANGED vars
    <2>1. TypeOK'
      BY <1>1 DEF TypeOK, vars, taskVars, evVars, runVars, mboxVars, ntfVars, nsVars, callVars
    <2>2. Shape'
      BY <1>1 DEF OneInFlight, Shape, vars, taskVars, evVars, runVars, mboxVars,
                  ntfVars, nsVars, callVars
    <2>3. (InNonSecure \/ InDispatcher \/ InTask)'
      BY <1>1 DEF OneInFlight, InNonSecure, InDispatcher, InTask, NoSleeper, Sleeper,
                  vars, taskVars, evVars, runVars, mboxVars, ntfVars, nsVars, callVars
    <2>4. ServiceCall'
      BY <1>1 DEF ServiceCall, ServiceActive, NoSleeper, vars, taskVars, evVars, runVars,
                  mboxVars, ntfVars, nsVars, callVars
    <2> QED BY <2>1, <2>2, <2>3, <2>4 DEF OneInFlight
  <1>2. CASE Next
    <2>1. TypeOK' /\ OneInFlight'
      BY <1>2, DispatchInv, TaskInv, FiqInv, NonSecureInv DEF Next
    <2> QED BY <1>2, <2>1, ServiceInv
  <1> QED BY <1>1, <1>2

-----------------------------------------------------------------------------
(* The theorems. *)

(* Every variable of the kernel keeps its type; in particular the           *)
(* dispatcher is never destroyed.                                           *)
THEOREM TypeCorrect == Spec => []TypeOK
  <1>1. Spec => [](TypeOK /\ KernelInv)
    BY InitInv, StepInv, PTL DEF Spec
  <1> QED BY <1>1, PTL

(* One command, reply, queued task, sleeping task or running task is in     *)
(* flight, whatever the clients and the timers do.                          *)
THEOREM InFlight == Spec => []KernelInv
  <1>1. Spec => [](TypeOK /\ KernelInv)
    BY InitInv, StepInv, PTL DEF Spec
  <1> QED BY <1>1, PTL

(* get_next_task always finds a task, and no task is inserted twice into    *)
(* the intrusive ready list.                                                *)
THEOREM ReadyListSound == Spec => []ReadyShape
  <1>1. TypeOK /\ KernelInv => ReadyShape
    BY ConstantFacts
    DEF TypeOK, KernelInv, OneInFlight, InNonSecure, InDispatcher, InTask, ReadyShape
  <1> QED BY <1>1, TypeCorrect, InFlight, PTL

(* Where a task takes the ready list's lock with FIQs enabled, no sleep     *)
(* timer is running whose handler would spin on that lock.                  *)
THEOREM ReadyLockFree == Spec => []ReadyLockUncontended
  <1>1. TypeOK /\ KernelInv => ReadyLockUncontended
    <2>1. NoSleeper => Sleepers = {}
      BY DEF NoSleeper, Sleepers
    <2> QED BY <2>1 DEF KernelInv, OneInFlight, InNonSecure, InDispatcher, InTask,
                        ReadyLockUncontended
  <1> QED BY <1>1, TypeCorrect, InFlight, PTL

(* A command the dispatcher has not taken yet is never overwritten in       *)
(* params_stack, neither by the non-secure world nor by an IPC.             *)
THEOREM MailboxSafe == Spec => CommandNotOverwritten
  <1>1. TypeOK /\ KernelInv /\ [Next]_vars => [valid /\ valid' => params' = params]_vars
    <2> SUFFICES ASSUME TypeOK, KernelInv, Next, valid, valid' PROVE params' = params
      BY DEF vars, mboxVars
    <2> USE DEF mboxVars
    <2>1. cur = D /\ smc # NoCall
      BY DEF KernelInv, OneInFlight, InNonSecure, InDispatcher, InTask
    <2>2. CASE Dispatch
      BY <2>2 DEF Dispatch, DispReturned, DispIdle, DispOpen, DispOpenFails, DispClose,
         DispClose2, DispCloseFails, DispRegister, DispUnregister, DispOther, DispSend,
         DispResume, DispResumed, DispSchedule, DispNoReply, DispReply
    <2>3. ASSUME NEW t \in Svc PROVE ~TaskStep(t)
      BY <2>1, ConstantFacts
      DEF TaskStep, Running, TaskSync, TaskNoMap, TaskNoTimer, TaskUsleep, TaskSleep,
          TaskSleepSuspend, TaskSleepYield, TaskAsync, TaskWaitCheck, TaskWaitPrepare,
          TaskWaitYield, TaskIpcConnect, TaskIpcEncodeFails,
          TaskIpcSend, TaskIpcBack, TaskReturn
    <2>4. CASE Fiq
      BY <2>4 DEF Fiq, FiqSleep, FiqEcho
    <2>5. ~NonSecure
      BY <2>1 DEF NonSecure, NsOpen, NsClose, NsSend, NsRegister, NsUnregister, NsOther,
                  NsIpi, NsResume, NsInterrupted, NewCall, InNs
    <2> QED BY <2>2, <2>3, <2>4, <2>5 DEF Next
  <1> QED BY <1>1, TypeCorrect, InFlight, PTL DEF Spec, CommandNotOverwritten

-----------------------------------------------------------------------------
(* Inter-task calls (ipc_api, otz_ipi): who has parked for whom.  Everything *)
(* from here on holds for every mix of commands, client lapses and resource  *)
(* failures.                                                                 *)

(* Task u can get the core without a new command: it has it, it is queued,  *)
(* or a sleep timer will queue it.                                          *)
ActiveIn(u, c, r, s) == c = u \/ InList(u, r) \/ s[u] > 0

(* The same, in the current state. *)
Active(u) == ActiveIn(u, cur, ready, sleepEv)

Nobody  == \A u \in Svc : ~Active(u)

(* Task t is the only one that is active. *)
Only(t) == \A u \in Svc : Active(u) <=> u = t

(* It is after the step. *)
OnlyNext(t) == \A u \in Svc : ActiveIn(u, cur', ready', sleepEv') <=> u = t

(* Task t is inside otz_ipi, waiting for otz_ipi_return. *)
Parked(t) ==
    t \in tasks \ {D} /\ state[t] = "WAIT" /\ regs[t] = "ipc_back" /\ ~Active(t)

(* Task t is parked after the step. *)
ParkedNext(t) ==
    /\ t \in tasks' \ {D} /\ state'[t] = "WAIT" /\ regs'[t] = "ipc_back"
    /\ ~ActiveIn(t, cur', ready', sleepEv')

(* The command of an IPC waits in params_stack. *)
IpcPosted == valid /\ params.typ = "sec"

(* A context inside a wait or an IPC is that of such a command; the         *)
(* commands of an IPC are neither, so calls do not nest, and the callee is  *)
(* a task whose wait queue nobody has used.                                 *)
ContextsMatch ==
    /\ \A t \in Svc :
          /\ tls[t].typ = "sec" => tls[t].kind \in {"sync", "usleep"} /\ wq[t] = "uninit"
          /\ regs[t] = "ipc_back" => tls[t].kind = "ipc"
          /\ regs[t] = "wait_check" => tls[t].kind = "async"
    /\ cur # D =>
          /\ pc \in {"ipc_send", "ipc_back"} => tls[cur].kind = "ipc"
          /\ pc \in {"wait_check", "wait_prep", "wait_yield"} => tls[cur].kind = "async"
          /\ pc = "ipc_send" => peer[cur] \in tasks /\ wq[peer[cur]] = "uninit"
          /\ pc = "wait_yield" => wq[cur] = "linked"
    /\ IpcPosted => /\ params.kind \in {"sync", "usleep"} /\ params.task # params.src
                    /\ params.task \in tasks /\ wq[params.task] = "uninit"

(* The callee's caller is parked from otz_ipi to otz_ipi_return. *)
CallersParked ==
    /\ IpcPosted => Parked(params.src)
    /\ \A u \in tasks \ {D} : Active(u) /\ tls[u].typ = "sec" => Parked(tls[u].src)

(* A task that has stopped is idle, waits for a notification or is parked   *)
(* for a callee: none is left behind.                                       *)
Awaited(t) ==
    \/ IpcPosted /\ params.src = t
    \/ \E u \in tasks \ {D} : Active(u) /\ tls[u].typ = "sec" /\ tls[u].src = t

(* No other task has stopped. *)
NoneStranded ==
    \A t \in tasks \ {D} :
        state[t] = "SUSPEND" \/ wq[t] = "linked" \/ Active(t) \/ Awaited(t)

(* The invariant of inter-task calls. *)
IpcInv == ContextsMatch /\ CallersParked /\ NoneStranded

-----------------------------------------------------------------------------
(* Who is active, from the shapes the ready list and the timers can have. *)

(* Nothing queued, nothing asleep: only the dispatcher can run. *)
LEMMA NobodyFacts ==
    ASSUME NEW r, r = <<>>, NEW s, \A u \in Svc : s[u] = 0
    PROVE  \A u \in Svc : ~ActiveIn(u, D, r, s)
  BY ConstantFacts DEF ActiveIn, InList

(* Task t runs, is queued or sleeps, and nothing else does. *)
OnlyShape(t, c, r, s) ==
    /\ c \in {D, t} /\ s \in [Tid -> Nat]
    /\ r = <<>> \/ r = <<D>> \/ r = <<t>> \/ r = <<D, t>>
    /\ \A u \in Svc \ {t} : s[u] = 0
    /\ c = t \/ r = <<t>> \/ r = <<D, t>> \/ s[t] > 0

(* In such a shape t is the active task. *)
LEMMA OnlyFacts ==
    ASSUME NEW t \in Svc, NEW c, NEW r, NEW s, OnlyShape(t, c, r, s)
    PROVE  \A u \in Svc : ActiveIn(u, c, r, s) <=> u = t
  <1> USE DEF OnlyShape
  <1> SUFFICES ASSUME NEW u \in Svc PROVE ActiveIn(u, c, r, s) <=> u = t
    OBVIOUS
  <1>1. u # D /\ u \in Tid /\ s[u] \in Nat
    BY ConstantFacts
  <1>2. /\ ~InList(u, <<>>) /\ ~InList(u, <<D>>)
        /\ InList(u, <<t>>) <=> u = t
        /\ InList(u, <<D, t>>) <=> u = t
    BY <1>1 DEF InList
  <1>3. u # t => ~ActiveIn(u, c, r, s)
    BY <1>1, <1>2 DEF ActiveIn
  <1>4. ActiveIn(t, c, r, s)
    BY <1>2 DEF ActiveIn, InList
  <1> QED BY <1>3, <1>4

(* At most one service task is active, none as long as a command waits, a   *)
(* reply is set or the non-secure world runs.                               *)
LEMMA ActiveNow ==
    ASSUME TypeOK, OneInFlight
    PROVE  /\ valid => Nobody
           /\ InNonSecure => Nobody
           /\ cur = D /\ api.set => Nobody
           /\ cur = D /\ pc \in {"close2", "die"} => Nobody
           /\ cur = D /\ ready = <<>> /\ NoSleeper => Nobody
           /\ cur # D => cur \in tasks \ {D} /\ cur \in Svc /\ Only(cur)
           /\ \A t \in Svc : cur = D /\ ready = <<t>> => Only(t)
           /\ \A t \in Svc : cur = D /\ Sleeper(t) => Only(t)
           /\ \A t \in Svc : sleepEv[t] > 0 => t \in tasks /\ Only(t)
           /\ Nobody \/ \E t \in tasks \ {D} : t \in Svc /\ Only(t)
  <1> USE ConstantFacts
  <1>1. cur = D /\ ready = <<>> /\ NoSleeper => Nobody
    BY NobodyFacts DEF NoSleeper, Nobody, Active
  <1>2. valid \/ InNonSecure \/ (cur = D /\ (api.set \/ pc \in {"close2", "die"}))
        => cur = D /\ ready = <<>> /\ NoSleeper
    BY DEF OneInFlight, InNonSecure, InDispatcher, InTask
  <1>3. sleepEv \in [Tid -> Nat] /\ tasks \subseteq Tid
    BY DEF TypeOK
  <1>4. ASSUME cur # D PROVE cur \in tasks \ {D} /\ cur \in Svc /\ Only(cur)
    <2>1. InTask
      BY <1>4 DEF OneInFlight, InNonSecure, InDispatcher
    <2>2. cur \in tasks \ {D} /\ cur \in Svc
      BY <1>3, <2>1 DEF InTask
    <2>3. /\ ready = <<D>> \/ ready = <<D, cur>>
          /\ \A u \in Svc \ {cur} : sleepEv[u] = 0
      BY <2>1, <2>2 DEF InTask, NoSleeper, Sleeper
    <2>4. OnlyShape(cur, cur, ready, sleepEv)
      BY <1>3, <2>2, <2>3 DEF OnlyShape
    <2> QED BY <2>2, <2>4, OnlyFacts DEF Only, OnlyNext, Active
  <1>5. ASSUME NEW t \in Svc, cur = D, ready = <<t>> PROVE Only(t)
    <2>1. ready # <<>>
      BY <1>5
    <2>2. NoSleeper
      BY <1>5, <2>1 DEF OneInFlight, InNonSecure, InDispatcher, InTask
    <2>3. OnlyShape(t, cur, ready, sleepEv)
      BY <1>3, <1>5, <2>2 DEF OnlyShape, NoSleeper
    <2> QED BY <2>3, OnlyFacts DEF Only, OnlyNext, Active
  <1>6. ASSUME NEW t \in Svc, cur = D, Sleeper(t) PROVE Only(t)
    <2>1. ~NoSleeper
      BY <1>6 DEF NoSleeper, Sleeper
    <2>2. ready = <<>>
      BY <1>6, <2>1 DEF OneInFlight, InNonSecure, InDispatcher, InTask
    <2>3. sleepEv[t] > 0 /\ \A u \in Svc \ {t} : sleepEv[u] = 0
      BY <1>6 DEF Sleeper
    <2>4. OnlyShape(t, cur, ready, sleepEv)
      BY <1>3, <1>6, <2>2, <2>3 DEF OnlyShape
    <2> QED BY <2>4, OnlyFacts DEF Only, OnlyNext, Active
  <1>7. ASSUME NEW t \in Svc, sleepEv[t] > 0 PROVE t \in tasks /\ Only(t)
    <2>1. ~NoSleeper
      BY <1>7 DEF NoSleeper
    <2>2. PICK u \in Svc : Sleeper(u) /\ (cur = D \/ cur = u)
      BY <1>3, <2>1 DEF OneInFlight, InNonSecure, InDispatcher, InTask
    <2>3. u = t
      BY <1>7, <2>2 DEF Sleeper
    <2> QED BY <1>4, <1>6, <2>2, <2>3 DEF Sleeper
  <1>8. Nobody \/ \E t \in tasks \ {D} : t \in Svc /\ Only(t)
    <2>1. CASE cur # D
      BY <1>4, <2>1
    <2>2. CASE cur = D /\ ~(ready = <<>> /\ NoSleeper)
      <3>1. InDispatcher
        BY <2>2 DEF OneInFlight, InNonSecure, InTask
      <3>2. \/ \E t \in tasks \ {D} : ready = <<t>>
            \/ \E t \in Svc : Sleeper(t)
        BY <2>2, <3>1 DEF InDispatcher
      <3> QED BY <1>3, <1>5, <1>6, <2>2, <3>2 DEF Sleeper
    <2> QED BY <1>1, <2>1, <2>2
  <1> QED BY <1>1, <1>2, <1>4, <1>5, <1>6, <1>7, <1>8

-----------------------------------------------------------------------------
(* What the steps that go through the scheduler or the ready list do. *)

(* The dispatcher hands the core to task t. *)
GetsCore(t, cont) ==
    /\ t \in tasks \ {D} /\ t \in Svc /\ cur' = t /\ pc' = regs[t]
    /\ regs' = [regs EXCEPT ![D] = cont]
    /\ state' = [state EXCEPT ![t] = "RUNNING"]
    /\ cur = D /\ ~valid' /\ OnlyNext(t)
    /\ UNCHANGED <<taskVars, evVars, params, api, ntfVars, nsVars, ran>>

(* Service task t hands the core back, its context saved at cont. *)
GivesUpCore(t, cont) ==
    /\ t \in tasks \ {D} /\ cur = t /\ Only(t) /\ cur' = D /\ pc' = regs[D]
    /\ regs' = [regs EXCEPT ![t] = cont]

(* Nothing moves but the program counter of the dispatcher. *)
DispatcherMoves ==
    cur = D /\ UNCHANGED <<cur, ready, state, regs, taskVars, evVars>>

(* Who is active depends on the core, the ready list and the timers alone.  *)
LEMMA ActiveStays ==
    ASSUME UNCHANGED <<cur, ready, sleepEv>>
    PROVE  /\ Nobody' <=> Nobody
           /\ \A u : Active(u)' <=> Active(u)
           /\ \A u : OnlyNext(u) <=> Only(u)
  BY DEF Nobody, Only, OnlyNext, Active

(* schedule() in the dispatcher's loop. *)
LEMMA ScheduleEffect ==
    ASSUME TypeOK, OneInFlight, DispSchedule
    PROVE  \/ DispatcherMoves /\ ready = <<>> /\ pc' = "after" /\ UNCHANGED <<valid, params, api>>
           \/ \E t \in Svc : GetsCore(t, "after") /\ Only(t) /\ ~valid /\ ~api.set
  <1> USE ConstantFacts DEF evVars, mboxVars
  <1>1. /\ cur = D /\ pc = "sched" /\ Scheduler(D, state, ready, "after")
        /\ InDispatcher /\ Shape
        /\ UNCHANGED <<taskVars, evVars, mboxVars, ntfVars, nsVars, ran>>
    BY DEF DispSchedule, OneInFlight, InNonSecure, InTask
  <1>2. CASE ready = <<>>
    <2>1. pc' = "after" /\ UNCHANGED <<cur, ready, state, regs>>
      BY <1>1, <1>2, DispatcherStays DEF Shape
    <2> QED BY <1>1, <1>2, <2>1 DEF DispatcherMoves
  <1>3. CASE ready # <<>>
    <2>1. PICK t \in tasks \ {D} : ready = <<t>>
      BY <1>1, <1>3 DEF InDispatcher
    <2>2. NoSleeper /\ ~valid /\ ~api.set /\ t \in Svc
      BY <1>1, <1>3 DEF InDispatcher, TypeOK
    <2>3. /\ cur' = t /\ pc' = regs[t] /\ ready' = <<D>>
          /\ regs' = [regs EXCEPT ![D] = "after"]
          /\ state' = [state EXCEPT ![t] = "RUNNING"]
      BY <1>1, <2>1, SwitchToTask DEF Shape, TypeOK
    <2>4. Only(t)
      BY <1>1, <2>1, <2>2, ActiveNow
    <2>5. OnlyShape(t, cur', ready', sleepEv')
      BY <1>1, <2>2, <2>3 DEF OnlyShape, TypeOK, NoSleeper
    <2>6. OnlyNext(t)
      BY <2>2, <2>5, OnlyFacts DEF Only, OnlyNext, Active
    <2>7. GetsCore(t, "after")
      BY <1>1, <2>1, <2>2, <2>3, <2>6 DEF GetsCore
    <2> QED BY <2>2, <2>4, <2>7
  <1> QED BY <1>2, <1>3

(* RESUME_ASYNC_TASK. *)
LEMMA ResumeEffect ==
    ASSUME TypeOK, OneInFlight, DispResume
    PROVE  /\ Command("resume") /\ Nobody /\ params.typ = "ns" /\ ~api.set
           /\ UNCHANGED <<taskVars, evVars, params, api, ntfVars, nsVars, ran>>
           /\ \/ DispatcherMoves /\ pc' = "die"
                 /\ (params.task \notin tasks \/ wq[params.task] = "uninit")
              \/ DispatcherMoves /\ pc' = "sched" /\ wq[params.task] = "empty"
              \/ /\ GetsCore(params.task, "resumed") /\ wq[params.task] = "linked"
  <1> USE ConstantFacts DEF taskVars, evVars, mboxVars, Goto
  <1> DEFINE t  == params.task
             st == [state EXCEPT ![t] = "READY_TO_RUN"]
  <1>1. Command("resume") /\ UNCHANGED <<taskVars, evVars, params, api, ntfVars, nsVars, ran>>
    BY DEF DispResume
  <1>2. /\ cur = D /\ valid /\ ~valid' /\ ready = <<>> /\ NoSleeper /\ params.typ # "sec"
        /\ ~api.set
    BY <1>1 DEF Command, OneInFlight, Shape, InNonSecure, InDispatcher, InTask
  <1>3. Nobody /\ params.typ = "ns"
    BY <1>2, ActiveNow DEF TypeOK, Params
  <1>4. CASE Goto("die") /\ (t \notin tasks \/ wq[t] = "uninit")
    BY <1>1, <1>2, <1>3, <1>4 DEF DispatcherMoves
  <1>5. CASE Goto("sched") /\ wq[t] = "empty"
    BY <1>1, <1>2, <1>3, <1>5 DEF DispatcherMoves
  <1>6. CASE t \in tasks /\ wq[t] = "linked" /\ Scheduler(D, st, <<t>> \o ready, "resumed")
    <2>1. t \in tasks \ {D} /\ t \in Svc
      BY <1>6 DEF OneInFlight, Shape, TypeOK
    <2>2. st \in [Tid -> States] /\ st[D] = "RUNNING" /\ [st EXCEPT ![t] = "RUNNING"] = [state EXCEPT ![t] = "RUNNING"]
      BY <2>1 DEF OneInFlight, Shape, TypeOK, States
    <2>3. /\ cur' = t /\ pc' = regs[t] /\ ready' = <<D>>
          /\ regs' = [regs EXCEPT ![D] = "resumed"]
          /\ state' = [st EXCEPT ![t] = "RUNNING"]
      <3> HIDE DEF t, st
      <3>1. Scheduler(D, st, <<t>>, "resumed")
        BY <1>2, <1>6, <2>1, ShortLists
      <3> QED BY <2>1, <2>2, <3>1, SwitchToTask
    <2>4. OnlyShape(t, cur', ready', sleepEv')
      BY <1>1, <1>2, <2>3 DEF OnlyShape, TypeOK, NoSleeper
    <2>5. OnlyNext(t)
      <3> HIDE DEF t
      <3> QED BY <2>1, <2>4, OnlyFacts DEF Only, OnlyNext, Active
    <2>6. GetsCore(t, "resumed")
      BY <1>1, <1>2, <2>1, <2>2, <2>3, <2>5 DEF GetsCore
    <2> QED BY <1>1, <1>2, <1>3, <1>6, <2>6
  <1> QED BY <1>4, <1>5, <1>6 DEF DispResume

(* A service command, from a client or a task, is started. *)
LEMMA SendEffect ==
    ASSUME TypeOK, OneInFlight, DispSend
    PROVE  /\ Command("send") /\ Nobody /\ params.task \in Svc /\ ~valid' /\ ~api.set
           /\ cur = D /\ pc' = "sched"
           /\ UNCHANGED <<tasks, nextId, avail, wq, peer, cur, state, evVars, params,
                          api, ntfVars, nsVars, ran>>
           /\ \/ /\ params.task \in tasks /\ OnlyNext(params.task)
                 /\ regs' = [regs EXCEPT ![params.task] = "entry"]
                 /\ tls' = [tls EXCEPT ![params.task] = params]
              \/ params.task \notin tasks /\ UNCHANGED <<regs, tls, ready>>
  <1> USE ConstantFacts DEF evVars
  <1> DEFINE t == params.task
  <1>1. /\ Command("send") /\ start_task(t, params) /\ cur = D /\ pc' = "sched"
        /\ UNCHANGED <<tasks, nextId, avail, wq, peer, cur, state, evVars, params,
                       api, ntfVars, nsVars, ran>>
    BY DEF DispSend, Command
  <1>2. /\ valid /\ ~valid' /\ ready = <<>> /\ NoSleeper /\ t \in Svc /\ ~api.set
    BY <1>1 DEF Command, OneInFlight, Shape, InNonSecure, InDispatcher, InTask
  <1>3. Nobody
    BY <1>2, ActiveNow
  <1>4. CASE t \in tasks
    <2>1. /\ regs' = [regs EXCEPT ![t] = "entry"] /\ tls' = [tls EXCEPT ![t] = params]
          /\ ready' = <<t>>
      <3> HIDE DEF t
      <3> QED BY <1>1, <1>2, <1>4, ShortLists DEF start_task
    <2>2. OnlyShape(t, cur', ready', sleepEv')
      BY <1>1, <1>2, <2>1 DEF OnlyShape, TypeOK, NoSleeper
    <2>3. OnlyNext(t)
      <3> HIDE DEF t
      <3> QED BY <1>2, <2>2, OnlyFacts DEF Only, OnlyNext, Active
    <2> QED BY <1>1, <1>2, <1>3, <1>4, <2>1, <2>3
  <1>5. CASE t \notin tasks
    BY <1>1, <1>2, <1>3, <1>5 DEF start_task
  <1> QED BY <1>4, <1>5

(* sa_close_session: no ready list holds the task it destroys. *)
LEMMA Close2Effect ==
    ASSUME TypeOK, OneInFlight, DispClose2
    PROVE  /\ cur = D /\ Nobody /\ Nobody' /\ ~valid /\ params.task \in Svc /\ pc' = "sched"
           /\ params.op = "close" /\ ~api.set
           /\ tasks' = tasks \ {params.task}
           /\ \E v \in {"ok", "err"} : set_secure_api_ret(v, params.call)
           /\ UNCHANGED <<nextId, tls, avail, wq, peer, cur, ready, state, regs, evVars,
                          valid, params, ntfVars, nsVars, ran>>
  <1> USE ConstantFacts DEF evVars
  <1>1. /\ cur = D /\ pc = "close2" /\ ready = <<>> /\ ~valid /\ params.task \in Svc
        /\ params.op = "close" /\ ~api.set
    BY DEF DispClose2, OneInFlight, Shape, InNonSecure, InDispatcher, InTask
  <1>2. ready' = ready
    BY <1>1, NotRemoved DEF DispClose2, destroy_task
  <1>3. UNCHANGED <<cur, ready, sleepEv>> /\ Nobody
    BY <1>1, <1>2, ActiveNow DEF DispClose2
  <1> QED BY <1>1, <1>2, <1>3, ActiveStays DEF DispClose2, destroy_task

(* Which task a step of a service task is about. *)
LEMMA StepOf ==
    ASSUME TypeOK, OneInFlight, NEW t \in Svc, TaskStep(t)
    PROVE  /\ cur = t /\ t \in tasks \ {D} /\ Only(t) /\ ~valid /\ smc # NoCall
           /\ InTask /\ Shape
           /\ UNCHANGED <<smc, opened, pend, woken, answer, resumeId, callVars>>
  <1>1. cur = t /\ t # D
    BY ConstantFacts DEF TaskStep, Running, TaskSync,
           TaskNoMap, TaskNoTimer, TaskUsleep, TaskSleep, TaskSleepSuspend,
           TaskSleepYield, TaskAsync, TaskWaitCheck, TaskWaitPrepare, TaskWaitYield,
           TaskIpcConnect, TaskIpcEncodeFails, TaskIpcSend, TaskIpcBack, TaskReturn
  <1>2. InTask /\ Shape
    BY <1>1 DEF OneInFlight, InNonSecure, InDispatcher
  <1>3. t \in tasks \ {D} /\ Only(t) /\ ~valid /\ smc # NoCall
    BY <1>1, <1>2, ActiveNow DEF InTask
  <1>4. UNCHANGED <<smc, opened, pend, woken, answer, resumeId, callVars>>
    BY DEF TaskStep, TaskSync, nsVars,
           TaskNoMap, TaskNoTimer, TaskUsleep, TaskSleep, TaskSleepSuspend,
           TaskSleepYield, TaskAsync, TaskWaitCheck, TaskWaitPrepare, TaskWaitYield,
           TaskIpcConnect, TaskIpcEncodeFails, TaskIpcSend, TaskIpcBack, TaskReturn
  <1> QED BY <1>1, <1>2, <1>3, <1>4

(* The task falls asleep: it stays active through its timer. *)
LEMMA SleepEffect ==
    ASSUME TypeOK, OneInFlight, NEW t \in Svc, TaskStep(t),
           TaskUsleep(t) \/ TaskSleep(t) \/ TaskSleepSuspend(t)
    PROVE  /\ OnlyNext(t) /\ pc' \in {"sleep_susp", "sleep_yield"}
           /\ state' = state \/ state' = [state EXCEPT ![t] = "WAIT"]
           /\ UNCHANGED <<taskVars, echoEv, cur, ready, regs, mboxVars, ntfVars, nsVars, ran>>
  <1> USE DEF evVars, Goto
  <1>1. cur = t /\ InTask /\ t # D /\ t \in Tid
    BY StepOf, ConstantFacts
  <1>2. /\ pc' \in {"sleep_susp", "sleep_yield"}
        /\ state' = state \/ state' = [state EXCEPT ![t] = "WAIT"]
        /\ sleepEv' = sleepEv \/ sleepEv' = [sleepEv EXCEPT ![t] = @ + 1]
        /\ UNCHANGED <<taskVars, echoEv, cur, ready, regs, mboxVars, ntfVars, nsVars, ran>>
    BY DEF TaskUsleep, TaskSleep, TaskSleepSuspend
  <1>3. /\ ready = <<D>> \/ ready = <<D, t>>
        /\ \A u \in Svc \ {t} : sleepEv[u] = 0
    BY <1>1 DEF InTask, NoSleeper, Sleeper
  <1>4. sleepEv' \in [Tid -> Nat] /\ \A u \in Svc \ {t} : sleepEv'[u] = 0
    <2>1. sleepEv \in [Tid -> Nat] /\ sleepEv[t] + 1 \in Nat
      BY <1>1 DEF TypeOK
    <2>2. sleepEv' = sleepEv \/ sleepEv' = [sleepEv EXCEPT ![t] = sleepEv[t] + 1]
      BY <1>2
    <2> QED BY <1>1, <1>3, <2>1, <2>2, ConstantFacts
  <1>5. OnlyShape(t, cur', ready', sleepEv')
    BY <1>1, <1>2, <1>3, <1>4 DEF OnlyShape
  <1> QED BY <1>2, <1>5, OnlyFacts DEF OnlyNext, Active

(* schedule() in sw_sleep and sw_usleep. *)
LEMMA SleepYieldEffect ==
    ASSUME TypeOK, OneInFlight, NEW t \in Svc, TaskStep(t), TaskSleepYield(t)
    PROVE  /\ GivesUpCore(t, "fin") /\ OnlyNext(t) /\ state' = state
           /\ UNCHANGED <<taskVars, evVars, mboxVars, ntfVars, nsVars, ran>>
  <1> USE ConstantFacts DEF evVars
  <1>1. /\ cur = t /\ InTask /\ Shape /\ t \in tasks \ {D} /\ Only(t) /\ t \in Tid
        /\ t \in (tasks \ {D}) \cup {NoTask} /\ t # NoTask /\ state \in [Tid -> States]
    BY StepOf DEF TypeOK
  <1>2. /\ pc = "sleep_yield" /\ Scheduler(t, state, ready, "fin")
        /\ UNCHANGED <<taskVars, evVars, mboxVars, ntfVars, nsVars, ran>>
    BY DEF TaskSleepYield, Running
  <1>3. /\ cur' = D /\ pc' = regs[D] /\ regs' = [regs EXCEPT ![t] = "fin"]
        /\ state' = [state EXCEPT ![D] = "RUNNING"]
        /\ \/ ready' = <<>> /\ Sleeper(t)
           \/ ready' = <<t>> /\ NoSleeper
    <2>1. CASE ready = <<D>> /\ Sleeper(t) /\ state[t] = "WAIT"
      <3>1. Scheduler(t, state, <<D>>, "fin") /\ state[t] \in Stopped
        BY <1>2, <2>1 DEF Stopped
      <3> QED BY <1>1, <2>1, <3>1, SwitchToDispatcher
    <2>2. CASE ready = <<D, t>> /\ NoSleeper
      <3>1. Scheduler(t, state, <<D, t>>, "fin")
        BY <1>2, <2>2
      <3> QED BY <1>1, <2>2, <3>1, SwitchToDispatcherQueued
    <2> QED BY <1>1, <1>2, <2>1, <2>2 DEF InTask
  <1>4. state' = state
    BY <1>1, <1>3 DEF Shape
  <1>5. OnlyShape(t, cur', ready', sleepEv')
    BY <1>2, <1>3 DEF OnlyShape, TypeOK, Sleeper, NoSleeper
  <1>6. OnlyNext(t)
    BY <1>5, OnlyFacts DEF OnlyNext, Active
  <1> QED BY <1>1, <1>2, <1>3, <1>4, <1>6 DEF GivesUpCore

(* schedule() in sw_wait_event_async. *)
LEMMA WaitYieldEffect ==
    ASSUME TypeOK, OneInFlight, NEW t \in Svc, TaskStep(t), TaskWaitYield(t)
    PROVE  /\ GivesUpCore(t, "wait_check") /\ Nobody' /\ state' = state /\ pc = "wait_yield"
           /\ UNCHANGED <<taskVars, evVars, mboxVars, ntfVars, nsVars, ran>>
  <1> USE ConstantFacts DEF evVars
  <1>1. /\ cur = t /\ InTask /\ Shape /\ t \in tasks \ {D} /\ Only(t)
        /\ t \in (tasks \ {D}) \cup {NoTask} /\ t # NoTask /\ state \in [Tid -> States]
    BY StepOf DEF TypeOK
  <1>2. /\ pc = "wait_yield" /\ Scheduler(t, state, <<D>>, "wait_check") /\ NoSleeper
        /\ state[t] \in Stopped
        /\ UNCHANGED <<taskVars, evVars, mboxVars, ntfVars, nsVars, ran>>
    BY <1>1 DEF TaskWaitYield, Running, InTask, Stopped
  <1>3. /\ cur' = D /\ pc' = regs[D] /\ regs' = [regs EXCEPT ![t] = "wait_check"]
        /\ state' = [state EXCEPT ![D] = "RUNNING"] /\ ready' = <<>>
    BY <1>1, <1>2, SwitchToDispatcher
  <1>4. state' = state
    BY <1>1, <1>3 DEF Shape
  <1>5. Nobody'
    BY <1>2, <1>3, NobodyFacts DEF Nobody, Active, NoSleeper
  <1> QED BY <1>1, <1>2, <1>3, <1>4, <1>5 DEF GivesUpCore

(* otz_ipi. *)
LEMMA IpcSendEffect ==
    ASSUME TypeOK, OneInFlight, NEW t \in Svc, TaskStep(t), TaskIpcSend(t)
    PROVE  /\ GivesUpCore(t, "ipc_back") /\ Nobody' /\ pc = "ipc_send" /\ ~api.set
           /\ state' = [state EXCEPT ![t] = "WAIT"] /\ peer[t] \in Svc /\ peer[t] # t
           /\ valid' /\ params' \in Params
           /\ params'.typ = "sec" /\ params'.op = "send" /\ params'.task = peer[t]
           /\ params'.src = t /\ params'.call = NoCall /\ params'.kind \in {"sync", "usleep"}
           /\ UNCHANGED <<taskVars, evVars, api, ntfVars, nsVars, ran>>
  <1> USE ConstantFacts DEF evVars
  <1> DEFINE st == [state EXCEPT ![t] = "WAIT"]
  <1>1. /\ cur = t /\ InTask /\ Shape /\ t \in tasks \ {D} /\ Only(t)
        /\ t \in (tasks \ {D}) \cup {NoTask} /\ t # NoTask
    BY StepOf DEF TypeOK
  <1>2. /\ pc = "ipc_send" /\ Scheduler(t, st, <<D>>, "ipc_back") /\ NoSleeper /\ ~api.set
        /\ valid' = TRUE /\ params' \in Params
        /\ params'.typ = "sec" /\ params'.op = "send" /\ params'.task = peer[t]
        /\ params'.src = t /\ params'.call = NoCall /\ params'.kind \in {"sync", "usleep"}
        /\ peer[t] \in Svc /\ peer[t] # t
        /\ UNCHANGED <<taskVars, evVars, api, ntfVars, nsVars, ran>>
    BY <1>1 DEF TaskIpcSend, Running, InTask, Shape, TypeOK, Params, Ops, AllKinds
  <1>3. st \in [Tid -> States] /\ st[t] \in Stopped /\ st[D] = "RUNNING"
    BY <1>1 DEF TypeOK, States, Stopped, Shape
  <1>4. /\ cur' = D /\ pc' = regs[D] /\ regs' = [regs EXCEPT ![t] = "ipc_back"]
        /\ state' = [st EXCEPT ![D] = "RUNNING"] /\ ready' = <<>>
    <2> HIDE DEF st
    <2>1. Scheduler(t, st, <<D>>, "ipc_back")
      BY <1>2
    <2> QED BY <1>1, <1>3, <2>1, SwitchToDispatcher
  <1>5. state' = st
    BY <1>3, <1>4
  <1>6. Nobody'
    BY <1>2, <1>4, NobodyFacts DEF Nobody, Active, NoSleeper
  <1> QED BY <1>1, <1>2, <1>4, <1>5, <1>6 DEF GivesUpCore

(* ipc_disconnect: no ready list holds the peer's task. *)
LEMMA IpcBackEffect ==
    ASSUME TypeOK, OneInFlight, NEW t \in Svc, TaskStep(t), TaskIpcBack(t)
    PROVE  /\ pc = "ipc_back" /\ pc' = "fin" /\ peer[t] \in Svc /\ peer[t] # t
           /\ tasks' = tasks \ {peer[t]}
           /\ UNCHANGED <<nextId, tls, avail, wq, peer, cur, ready, state, regs, evVars,
                          mboxVars, ntfVars, nsVars, ran>>
  <1>1. pc = "ipc_back" /\ peer[t] \in Svc /\ peer[t] # t /\ ready = <<D>>
    BY StepOf, ConstantFacts DEF TaskIpcBack, Running, InTask, Shape, TypeOK
  <1>2. ready' = ready
    BY <1>1, NotRemoved, ConstantFacts DEF TaskIpcBack, destroy_task
  <1> QED BY <1>1, <1>2 DEF TaskIpcBack, destroy_task

(* handle_task_return. *)
LEMMA ReturnEffect ==
    ASSUME TypeOK, OneInFlight, NEW t \in Svc, TaskStep(t), TaskReturn(t)
    PROVE  /\ pc = "fin" /\ cur' = D /\ pc' = regs[D] /\ regs' = regs /\ ~api.set
           /\ state' = [state EXCEPT ![t] = "SUSPEND"]
           /\ UNCHANGED <<taskVars, evVars, valid, params, ntfVars, nsVars>>
           /\ \/ /\ tls[t].typ = "ns" /\ Nobody'
                 /\ \E v \in {"ok", "err"} : /\ set_secure_api_ret(v, tls[t].call)
                                             /\ ran' = [ran EXCEPT ![tls[t].call] = v]
              \/ /\ tls[t].typ = "sec" /\ UNCHANGED <<api, ran>>
                 /\ \/ tls[t].src \notin tasks /\ Nobody'
                    \/ tls[t].src \in tasks \ {D} /\ OnlyNext(tls[t].src)
  <1> USE ConstantFacts DEF evVars
  <1> DEFINE st  == [state EXCEPT ![t] = "SUSPEND"]
  <1>1. /\ cur = t /\ InTask /\ Shape /\ t \in tasks \ {D} /\ Only(t)
        /\ tasks \subseteq Tid /\ tls[t] \in Params
    BY StepOf DEF TypeOK
  <1>2. /\ pc = "fin" /\ ready = <<D>> /\ NoSleeper /\ ~api.set
        /\ UNCHANGED <<taskVars, evVars, valid, params, ntfVars, nsVars>>
    BY <1>1 DEF TaskReturn, Running, InTask
  <1>3. st \in [Tid -> States] /\ [st EXCEPT ![D] = "RUNNING"] = st
    <2>1. st \in [Tid -> States] /\ st[D] = "RUNNING"
      BY <1>1 DEF TypeOK, States, Shape
    <2> HIDE DEF st
    <2> QED BY <2>1
  <1>4. PICK v \in {"ok", "err"} :
          IF tls[t].typ = "ns"
          THEN /\ set_secure_api_ret(v, tls[t].call)
               /\ ran' = [ran EXCEPT ![tls[t].call] = v]
               /\ Scheduler(NoTask, st, ready, "die")
          ELSE /\ UNCHANGED <<api, ran>>
               /\ Scheduler(NoTask, st,
                     IF tls[t].src \in tasks THEN Append(ready, tls[t].src) ELSE ready,
                     "die")
    BY DEF TaskReturn
  <1>5. ASSUME Scheduler(NoTask, st, <<D>>, "die")
        PROVE  cur' = D /\ pc' = regs[D] /\ regs' = regs /\ state' = st /\ Nobody'
    <2>1. /\ cur' = D /\ pc' = regs[D] /\ regs' = regs /\ ready' = <<>>
          /\ state' = [st EXCEPT ![D] = "RUNNING"]
      <3> HIDE DEF st
      <3> QED BY <1>3, <1>5, SwitchToDispatcher
    <2>2. Nobody'
      BY <1>2, <2>1, NobodyFacts DEF Nobody, Active, NoSleeper
    <2> QED BY <1>3, <2>1, <2>2
  <1>6. CASE tls[t].typ = "ns"
    <2>1. Scheduler(NoTask, st, <<D>>, "die")
      BY <1>2, <1>4, <1>6
    <2> QED BY <1>2, <1>4, <1>5, <1>6, <2>1
  <1>7. CASE tls[t].typ # "ns"
    <2>1. PICK src : src = tls[t].src
      OBVIOUS
    <2>2. tls[t].typ = "sec" /\ src \in Tid /\ src # D /\ src \in Svc
      BY <1>1, <1>7, <2>1 DEF Shape, Params
    <2>3. CASE src \notin tasks
      <3>1. Scheduler(NoTask, st, <<D>>, "die") /\ UNCHANGED <<api, ran>>
        BY <1>2, <1>4, <1>7, <2>1, <2>3
      <3> QED BY <1>2, <1>5, <2>1, <2>2, <2>3, <3>1
    <2>4. CASE src \in tasks
      <3>1. Append(<<D>>, src) = <<D, src>>
        BY <2>2, QueuedBehindDispatcher
      <3>2. Scheduler(NoTask, st, <<D, src>>, "die") /\ UNCHANGED <<api, ran>>
        <4> HIDE DEF st
        <4> QED BY <1>2, <1>4, <1>7, <2>1, <2>4, <3>1
      <3>3. /\ cur' = D /\ pc' = regs[D] /\ regs' = regs /\ ready' = <<src>>
            /\ state' = [st EXCEPT ![D] = "RUNNING"]
        <4>1. NoTask \in (tasks \ {D}) \cup {NoTask}
          OBVIOUS
        <4> HIDE DEF st
        <4> QED BY <1>3, <2>2, <3>2, <4>1, SwitchToDispatcherQueued
      <3>4. OnlyShape(src, cur', ready', sleepEv')
        BY <1>2, <3>3 DEF OnlyShape, TypeOK, NoSleeper
      <3>5. OnlyNext(src)
        BY <2>2, <3>4, OnlyFacts DEF OnlyNext, Active
      <3> QED BY <1>2, <1>3, <2>1, <2>2, <2>4, <3>2, <3>3, <3>5
    <2> QED BY <2>3, <2>4
  <1> QED BY <1>6, <1>7

(* wake_up_from_sleep: the one task that sleeps is queued. *)
LEMMA WakeEffect ==
    ASSUME TypeOK, OneInFlight, NEW t \in Svc, FiqSleep(t)
    PROVE  /\ t \in tasks \ {D} /\ Only(t) /\ OnlyNext(t) /\ ~valid
           /\ cur \in {D, t} /\ (cur = t => pc \in {"sleep_susp", "sleep_yield"})
           /\ state' = [state EXCEPT ![t] = "READY_TO_RUN"]
           /\ UNCHANGED <<taskVars, echoEv, cur, regs, pc, mboxVars, ntfVars, nsVars, ran>>
  <1> USE ConstantFacts DEF taskVars
  <1>1. /\ sleepEv[t] > 0 /\ ~NoSleeper
        /\ UNCHANGED <<taskVars, echoEv, cur, regs, pc, mboxVars, ntfVars, nsVars, ran>>
    BY DEF FiqSleep, NoSleeper
  <1>2. t \in tasks \ {D} /\ Only(t)
    BY <1>1, ActiveNow
  <1>3. PICK u \in Svc : Sleeper(u) /\ (cur = D \/ cur = u)
    BY <1>1 DEF OneInFlight, InNonSecure, InDispatcher, InTask, TypeOK
  <1>4. u = t
    BY <1>1, <1>3 DEF Sleeper
  <1>5. /\ state' = [state EXCEPT ![t] = "READY_TO_RUN"] /\ ready' = Append(ready, t)
        /\ sleepEv' \in [Tid -> Nat] /\ \A w \in Svc \ {t} : sleepEv'[w] = 0
    BY <1>2, <1>3, <1>4 DEF FiqSleep, Sleeper, TypeOK
  <1>6. \/ cur = D /\ ready' = <<t>> /\ ~valid
        \/ cur = t /\ ready' = <<D, t>> /\ ~valid /\ pc \in {"sleep_susp", "sleep_yield"}
    <2>1. CASE cur = D
      <3>1. ready = <<>> /\ ~valid
        BY <1>1, <2>1 DEF OneInFlight, InNonSecure, InDispatcher, InTask
      <3> QED BY <1>5, <2>1, <3>1, ShortLists
    <2>2. CASE cur = t
      <3>1. ready = <<D>> /\ ~valid /\ pc \in {"sleep_susp", "sleep_yield"}
        BY <1>1, <2>2 DEF OneInFlight, InNonSecure, InDispatcher, InTask
      <3> QED BY <1>5, <2>2, <3>1, QueuedBehindDispatcher
    <2> QED BY <1>3, <1>4, <2>1, <2>2
  <1>7. OnlyShape(t, cur', ready', sleepEv')
    BY <1>1, <1>5, <1>6 DEF OnlyShape
  <1>8. OnlyNext(t)
    BY <1>7, OnlyFacts DEF OnlyNext, Active
  <1> QED BY <1>1, <1>2, <1>5, <1>6, <1>8

-----------------------------------------------------------------------------
(* IpcInv is inductive, given TypeOK and OneInFlight. *)

LEMMA IpcInit == Init => IpcInv
  <1> SUFFICES ASSUME Init PROVE IpcInv
    OBVIOUS
  <1> USE ConstantFacts
  <1>1. tasks \ {D} = {} /\ cur = D /\ ~valid
    BY DEF Init
  <1>2. \A t \in Svc : tls[t].typ = "ns" /\ regs[t] = "entry"
    BY DEF Init, NoParams
  <1> QED BY <1>1, <1>2 DEF IpcInv, ContextsMatch, CallersParked, NoneStranded, IpcPosted

(* A step that leaves the tasks and the command of an IPC alone. *)
LEMMA IpcQuiet ==
    ASSUME IpcInv, UNCHANGED <<cur, ready, sleepEv, tasks, state, regs, tls, wq, peer>>,
           cur = D \/ pc' = pc, IpcPosted' <=> IpcPosted, IpcPosted => params' = params
    PROVE  IpcInv'
  <1>1. \A u : (Active(u)' <=> Active(u)) /\ (Parked(u)' <=> Parked(u))
    BY DEF Active, Parked
  <1>2. ContextsMatch'
    BY DEF IpcInv, ContextsMatch
  <1>3. CallersParked'
    BY <1>1 DEF IpcInv, CallersParked
  <1>4. \A t : Awaited(t)' <=> Awaited(t)
    BY <1>1 DEF Awaited
  <1>5. NoneStranded'
    BY <1>1, <1>4 DEF IpcInv, NoneStranded
  <1> QED BY <1>2, <1>3, <1>5 DEF IpcInv

(* When nobody is active and no IPC is posted, no task is parked. *)
LEMMA NobodyParked ==
    ASSUME TypeOK, IpcInv, Nobody, ~IpcPosted
    PROVE  \A t \in tasks \ {D} : state[t] = "SUSPEND" \/ wq[t] = "linked"
  BY ConstantFacts DEF IpcInv, NoneStranded, Awaited, Nobody, TypeOK

(* The same when nothing is in flight after the step. *)
LEMMA IpcSettled ==
    ASSUME TypeOK, TypeOK', Nobody', ~IpcPosted', ContextsMatch',
           \A t \in tasks' \ {D} : state'[t] = "SUSPEND" \/ wq'[t] = "linked"
    PROVE  IpcInv'
  BY ConstantFacts DEF IpcInv, CallersParked, NoneStranded, Nobody, TypeOK

(* Task t alone is in flight after the step, and its caller is parked. *)
LEMMA IpcFlying ==
    ASSUME TypeOK', NEW t \in tasks', t # D, OnlyNext(t), ~IpcPosted', ContextsMatch',
           tls'[t].typ = "sec" => ParkedNext(tls'[t].src),
           \A u \in tasks' \ {D} : u # t =>
              \/ state'[u] = "SUSPEND" \/ wq'[u] = "linked"
              \/ tls'[t].typ = "sec" /\ tls'[t].src = u
    PROVE  IpcInv'
  <1>1. tasks' \ {D} \subseteq Svc /\ t \in Svc
    BY ConstantFacts DEF TypeOK
  <1>2. \A u \in tasks' \ {D} : Active(u)' <=> u = t
    BY <1>1 DEF OnlyNext, Active
  <1>3. CallersParked'
    BY <1>2 DEF CallersParked, Parked, ParkedNext, Active
  <1>4. NoneStranded'
    BY <1>2 DEF NoneStranded, Awaited
  <1> QED BY <1>3, <1>4 DEF IpcInv

(* What IpcInv says when task t alone is in flight. *)
LEMMA IpcFlown ==
    ASSUME TypeOK, OneInFlight, IpcInv, NEW t \in tasks \ {D}, Only(t), ~IpcPosted
    PROVE  /\ tls[t].typ = "sec" => Parked(tls[t].src) /\ tls[t].src # t
           /\ \A u \in tasks \ {D} : u # t =>
              \/ state[u] = "SUSPEND" \/ wq[u] = "linked"
              \/ tls[t].typ = "sec" /\ tls[t].src = u
  <1>1. tasks \ {D} \subseteq Svc /\ t \in Svc
    BY ConstantFacts DEF TypeOK
  <1>2. \A u \in tasks \ {D} : Active(u) <=> u = t
    BY <1>1 DEF Only
  <1>3. tls[t].typ = "sec" => Parked(tls[t].src) /\ tls[t].src # t
    BY <1>2 DEF IpcInv, CallersParked, Parked
  <1> QED BY <1>2, <1>3 DEF IpcInv, NoneStranded, Awaited

(* The steps of the dispatcher. *)
LEMMA IpcDispatch ==
    ASSUME TypeOK, OneInFlight, IpcInv, TypeOK', Dispatch
    PROVE  IpcInv'
  <1> USE ConstantFacts DEF taskVars, evVars, mboxVars, ntfVars, nsVars, callVars, Goto
  <1>1. CASE DispReturned \/ DispIdle \/ DispResumed \/ DispNoReply \/ DispReply
    <2>1. /\ UNCHANGED <<cur, ready, sleepEv, tasks, state, regs, tls, wq, peer, valid, params>>
          /\ cur = D
      BY <1>1 DEF DispReturned, DispIdle, DispResumed, DispNoReply, DispReply
    <2> QED BY <2>1, IpcQuiet DEF IpcPosted
  <1>2. CASE DispClose \/ DispCloseFails \/ DispRegister \/ DispUnregister \/ DispOther
             \/ DispOpenFails
    <2>1. /\ UNCHANGED <<cur, ready, sleepEv, tasks, state, regs, tls, wq, peer, params>>
          /\ cur = D /\ ~valid' /\ (params.typ = "ns" \/ params.op # "send")
      BY <1>2 DEF DispClose, DispCloseFails, DispRegister, DispUnregister, DispOther,
                  DispOpenFails, create_task_fails, Command
    <2>2. ~IpcPosted /\ ~IpcPosted'
      BY <2>1 DEF IpcPosted, OneInFlight, Shape
    <2> QED BY <2>1, <2>2, IpcQuiet
  <1>3. CASE DispOpen
    <2>1. /\ cur = D /\ valid /\ params.op = "open" /\ ~valid' /\ nextId \in Svc
          /\ nextId \notin tasks
          /\ tasks' = tasks \cup {nextId} /\ state' = [state EXCEPT ![nextId] = "SUSPEND"]
          /\ wq' = [wq EXCEPT ![nextId] = "uninit"]
          /\ UNCHANGED <<cur, ready, sleepEv, regs, tls, peer>>
      BY <1>3, ConstantsAssumption DEF DispOpen, create_task, Command, Svc, TypeOK, OneInFlight, Shape
    <2>2. Nobody /\ Nobody' /\ ~IpcPosted /\ ~IpcPosted'
      BY <2>1, ActiveNow, ActiveStays DEF IpcPosted, OneInFlight, Shape
    <2>3. \A t \in tasks' \ {D} : state'[t] = "SUSPEND" \/ wq'[t] = "linked"
      BY <2>1, <2>2, NobodyParked DEF TypeOK
    <2>4. ContextsMatch'
      BY <2>1, <2>2 DEF IpcInv, ContextsMatch, TypeOK
    <2> QED BY <2>2, <2>3, <2>4, IpcSettled
  <1>4. CASE DispClose2
    <2>1. /\ cur = D /\ Nobody /\ Nobody' /\ ~IpcPosted /\ ~IpcPosted'
          /\ tasks' = tasks \ {params.task}
          /\ UNCHANGED <<tls, wq, peer, cur, state, regs>>
      BY <1>4, Close2Effect DEF IpcPosted
    <2>2. \A t \in tasks' \ {D} : state'[t] = "SUSPEND" \/ wq'[t] = "linked"
      BY <2>1, NobodyParked
    <2>3. ContextsMatch'
      BY <2>1 DEF IpcInv, ContextsMatch
    <2> QED BY <2>1, <2>2, <2>3, IpcSettled
  <1>5. CASE DispSend
    <2>1. PICK t : t = params.task
      OBVIOUS
    <2>2. /\ Nobody /\ valid /\ t \in Svc /\ cur = D /\ ~IpcPosted' /\ tls \in [Tid -> Params]
          /\ params \in Params
          /\ UNCHANGED <<tasks, wq, peer, cur, state, params, sleepEv>>
          /\ \/ /\ t \in tasks /\ OnlyNext(t)
                /\ regs' = [regs EXCEPT ![t] = "entry"]
                /\ tls' = [tls EXCEPT ![t] = params]
             \/ t \notin tasks /\ UNCHANGED <<regs, tls, ready>>
      BY <1>5, <2>1, SendEffect DEF IpcPosted, TypeOK, Command
    <2>3. ContextsMatch'
      BY <2>1, <2>2 DEF IpcInv, ContextsMatch, IpcPosted, TypeOK, Params
    <2>4. CASE t \notin tasks
      <3>1. ~IpcPosted
        BY <2>1, <2>4 DEF IpcInv, ContextsMatch
      <3>2. Nobody'
        BY <2>2, <2>4, ActiveStays
      <3>3. \A u \in tasks' \ {D} : state'[u] = "SUSPEND" \/ wq'[u] = "linked"
        BY <2>2, <3>1, NobodyParked
      <3> QED BY <2>2, <2>3, <3>2, <3>3, IpcSettled
    <2>5. CASE t \in tasks
      <3>1. tls'[t] = params /\ t \in tasks' /\ t # D
        BY <2>2, <2>5 DEF TypeOK
      <3>2. ASSUME params.typ = "sec"
            PROVE  /\ ParkedNext(params.src)
                   /\ \A u \in tasks' \ {D} : u # params.src => state'[u] = "SUSPEND" \/ wq'[u] = "linked"
        <4>1. IpcPosted /\ Parked(params.src) /\ params.src # t
          BY <2>1, <2>2, <3>2 DEF IpcInv, ContextsMatch, CallersParked, IpcPosted
        <4>2. params.src \in tasks \ {D} /\ params.src \in Svc /\ state[params.src] = "WAIT"
              /\ regs[params.src] = "ipc_back"
          BY <4>1 DEF Parked, TypeOK
        <4>3. ParkedNext(params.src)
          <5>1. OnlyNext(t) /\ regs' = [regs EXCEPT ![t] = "entry"]
            BY <2>2, <2>5
          <5>2. regs'[params.src] = "ipc_back"
            BY <4>1, <4>2, <5>1 DEF TypeOK
          <5>3. ~ActiveIn(params.src, cur', ready', sleepEv')
            BY <4>1, <4>2, <5>1 DEF OnlyNext
          <5> QED BY <2>2, <4>2, <5>2, <5>3 DEF ParkedNext
        <4>4. \A u \in tasks \ {D} : u # params.src => state[u] = "SUSPEND" \/ wq[u] = "linked"
          BY <2>2 DEF IpcInv, NoneStranded, Awaited, Nobody, TypeOK
        <4> QED BY <2>2, <4>3, <4>4
      <3>3. ASSUME params.typ # "sec"
            PROVE  \A u \in tasks' \ {D} : state'[u] = "SUSPEND" \/ wq'[u] = "linked"
        BY <2>2, <3>3, NobodyParked DEF IpcPosted
      <3>4. /\ tls'[t].typ = "sec" => ParkedNext(tls'[t].src)
            /\ \A u \in tasks' \ {D} : u # t =>
                 \/ state'[u] = "SUSPEND" \/ wq'[u] = "linked"
                 \/ tls'[t].typ = "sec" /\ tls'[t].src = u
        BY <2>2, <3>1, <3>2, <3>3
      <3> QED BY <2>2, <2>3, <2>5, <3>1, <3>4, IpcFlying
    <2> QED BY <2>4, <2>5
  <1>6. ASSUME NEW t \in Svc, NEW cont, GetsCore(t, cont), ~IpcPosted,
               Only(t) \/ (Nobody /\ wq[t] = "linked")
        PROVE  IpcInv'
    <2>1. /\ t \in tasks \ {D} /\ cur' = t /\ pc' = regs[t]
          /\ regs' = [regs EXCEPT ![D] = cont] /\ state' = [state EXCEPT ![t] = "RUNNING"]
          /\ cur = D /\ ~IpcPosted' /\ OnlyNext(t)
          /\ UNCHANGED <<tasks, tls, wq, peer>>
      BY <1>6 DEF GetsCore, IpcPosted
    <2>2. ContextsMatch'
      <3>1. regs[t] \in {"entry", "wait_check", "ipc_back", "fin"}
        BY DEF OneInFlight, Shape
      <3>2. \A u \in Svc : regs'[u] = regs[u]
        BY <2>1 DEF TypeOK
      <3> QED BY <2>1, <3>1, <3>2 DEF IpcInv, ContextsMatch
    <2>3. /\ tls[t].typ = "sec" => Parked(tls[t].src) /\ tls[t].src # t
          /\ \A u \in tasks \ {D} : u # t =>
              \/ state[u] = "SUSPEND" \/ wq[u] = "linked"
              \/ tls[t].typ = "sec" /\ tls[t].src = u
      <3>1. CASE Only(t)
        BY <1>6, <2>1, <3>1, IpcFlown
      <3>2. CASE Nobody /\ wq[t] = "linked"
        <4>1. tls[t].typ # "sec"
          BY <2>1, <3>2 DEF IpcInv, ContextsMatch
        <4> QED BY <1>6, <3>2, <4>1, NobodyParked
      <3> QED BY <1>6, <3>1, <3>2
    <2>4. \A u \in tasks \ {D} : u # t => state'[u] = state[u] /\ regs'[u] = regs[u]
      BY <2>1 DEF TypeOK
    <2>5. tls[t].typ = "sec" => ParkedNext(tls[t].src)
      BY <2>1, <2>3, <2>4 DEF Parked, ParkedNext, OnlyNext, TypeOK
    <2>6. /\ tls'[t].typ = "sec" => ParkedNext(tls'[t].src)
          /\ \A u \in tasks' \ {D} : u # t =>
              \/ state'[u] = "SUSPEND" \/ wq'[u] = "linked"
              \/ tls'[t].typ = "sec" /\ tls'[t].src = u
      BY <2>1, <2>3, <2>4, <2>5
    <2> QED BY <2>1, <2>2, <2>6, IpcFlying
  <1>7. CASE DispResume
    <2>1. /\ Command("resume") /\ Nobody /\ params.typ = "ns" /\ params' = params
          /\ UNCHANGED <<taskVars, evVars>>
      BY <1>7, ResumeEffect
    <2>2. ~IpcPosted /\ ~IpcPosted'
      BY <2>1 DEF IpcPosted
    <2>3. CASE DispatcherMoves
      BY <2>1, <2>2, <2>3, IpcQuiet DEF DispatcherMoves
    <2>4. CASE GetsCore(params.task, "resumed") /\ wq[params.task] = "linked"
      <3>1. params.task \in Svc
        BY <2>4 DEF GetsCore
      <3> QED BY <1>6, <2>1, <2>2, <2>4, <3>1
    <2> QED BY <1>7, <2>3, <2>4, ResumeEffect
  <1>8. CASE DispSchedule
    <2>1. CASE DispatcherMoves /\ UNCHANGED <<valid, params>>
      BY <2>1, IpcQuiet DEF DispatcherMoves, IpcPosted
    <2>2. ASSUME NEW t \in Svc, GetsCore(t, "after"), Only(t), ~valid
          PROVE  IpcInv'
      BY <1>6, <2>2 DEF IpcPosted
    <2> QED BY <1>8, <2>1, <2>2, ScheduleEffect
  <1> QED BY <1>1, <1>2, <1>3, <1>4, <1>5, <1>7, <1>8 DEF Dispatch

(* The steps of the service tasks. *)
LEMMA IpcTask ==
    ASSUME TypeOK, OneInFlight, IpcInv, TypeOK', NEW t \in Svc, TaskStep(t)
    PROVE  IpcInv'
  <1> USE ConstantFacts DEF taskVars, evVars, mboxVars, ntfVars, nsVars, callVars, Goto
  <1>1. /\ cur = t /\ t \in tasks \ {D} /\ Only(t) /\ ~valid /\ ~IpcPosted
        /\ InTask /\ Shape
    BY StepOf DEF IpcPosted
  <1>2. /\ tls[t].typ = "sec" => Parked(tls[t].src) /\ tls[t].src # t
        /\ \A u \in tasks \ {D} : u # t =>
              \/ state[u] = "SUSPEND" \/ wq[u] = "linked"
              \/ tls[t].typ = "sec" /\ tls[t].src = u
    BY <1>1, IpcFlown
  <1>3. ASSUME OnlyNext(t), ~IpcPosted', ContextsMatch', tls' = tls,
               \A u \in tasks \ {D} : u # t => state'[u] = state[u] /\ regs'[u] = regs[u],
               \A u \in tasks : u # t /\ wq[u] = "linked" => wq'[u] = "linked",
               t \in tasks', \A u \in tasks' \ tasks : state'[u] = "SUSPEND",
               \A u \in tasks \ tasks' : regs[u] # "ipc_back" \/ tls[t].typ # "sec"
        PROVE  IpcInv'
    <2>1. tls[t].typ = "sec" => ParkedNext(tls[t].src)
      <3> SUFFICES ASSUME tls[t].typ = "sec" PROVE ParkedNext(tls[t].src)
        OBVIOUS
      <3>1. PICK s : s = tls[t].src
        OBVIOUS
      <3>2. /\ s \in tasks \ {D} /\ s # t /\ s \in Svc /\ state[s] = "WAIT"
            /\ regs[s] = "ipc_back"
        BY <1>2, <3>1 DEF Parked, TypeOK
      <3> QED BY <1>3, <3>1, <3>2 DEF ParkedNext, OnlyNext
    <2>2. \A u \in tasks' \ {D} : u # t =>
              \/ state'[u] = "SUSPEND" \/ wq'[u] = "linked"
              \/ tls[t].typ = "sec" /\ tls[t].src = u
      BY <1>2, <1>3
    <2> QED BY <1>1, <1>3, <2>1, <2>2, IpcFlying
  <1>4. ASSUME UNCHANGED <<cur, ready, sleepEv, tasks, state, regs, tls, wq, peer, valid>>,
               ContextsMatch'
        PROVE  IpcInv'
    <2>1. OnlyNext(t)
      BY <1>1, <1>4, ActiveStays
    <2>2. ~IpcPosted'
      BY <1>1, <1>4 DEF IpcPosted
    <2> QED BY <1>1, <1>3, <1>4, <2>1, <2>2
  <1>5. CASE TaskSync(t) \/ TaskNoMap(t) \/ TaskNoTimer(t) \/ TaskIpcEncodeFails(t)
    <2>1. /\ UNCHANGED <<cur, ready, sleepEv, tasks, state, regs, tls, wq, peer, valid, params>>
          /\ pc' = "fin" \/ (pc = "ipc_send" /\ pc' = "ipc_back")
      BY <1>5 DEF TaskSync, TaskNoMap, TaskNoTimer, TaskIpcEncodeFails, Running
    <2>2. ContextsMatch'
      BY <1>1, <2>1 DEF IpcInv, ContextsMatch, IpcPosted
    <2> QED BY <1>4, <2>1, <2>2
  <1>6. CASE TaskUsleep(t) \/ TaskSleep(t) \/ TaskSleepSuspend(t)
    <2>1. /\ OnlyNext(t) /\ pc' \in {"sleep_susp", "sleep_yield"}
          /\ state' = state \/ state' = [state EXCEPT ![t] = "WAIT"]
          /\ UNCHANGED <<tasks, tls, wq, peer, cur, regs, valid, params>>
      BY <1>6, SleepEffect
    <2>2. ContextsMatch'
      BY <1>1, <2>1 DEF IpcInv, ContextsMatch, IpcPosted
    <2>3. \A u \in tasks \ {D} : u # t => state'[u] = state[u]
      BY <2>1 DEF TypeOK
    <2> QED BY <1>1, <1>3, <2>1, <2>2, <2>3 DEF IpcPosted
  <1>7. CASE TaskSleepYield(t)
    <2>1. /\ GivesUpCore(t, "fin") /\ OnlyNext(t) /\ state' = state
          /\ UNCHANGED <<tasks, tls, wq, peer, valid, params>>
      BY <1>7, SleepYieldEffect
    <2>2. cur' = D /\ regs' = [regs EXCEPT ![t] = "fin"]
      BY <2>1 DEF GivesUpCore
    <2>3. \A u \in Svc : regs'[u] = IF u = t THEN "fin" ELSE regs[u]
      BY <2>2 DEF TypeOK
    <2>4. ContextsMatch'
      BY <1>1, <2>1, <2>2, <2>3 DEF IpcInv, ContextsMatch, IpcPosted
    <2> QED BY <1>1, <1>3, <2>1, <2>3, <2>4 DEF IpcPosted, TypeOK
  <1>8. CASE TaskAsync(t) \/ TaskWaitCheck(t)
    <2>1. /\ UNCHANGED <<cur, ready, sleepEv, tasks, state, regs, tls, peer, valid, params>>
          /\ pc \in {"entry", "wait_check"} /\ pc' \in {"fin", "wait_check", "wait_prep"}
          /\ wq' = wq \/ wq' = [wq EXCEPT ![t] = "empty"]
          /\ tls[t].kind = "async"
      BY <1>1, <1>8 DEF TaskAsync, TaskWaitCheck, Running, IpcInv, ContextsMatch
    <2>2. tls[t].typ # "sec" /\ \A u \in Svc : u # t => wq'[u] = wq[u]
      <3>1. tls[t].typ # "sec"
        BY <2>1 DEF IpcInv, ContextsMatch
      <3>2. \A u \in Svc : u # t => wq'[u] = wq[u]
        BY <2>1 DEF TypeOK
      <3> QED BY <3>1, <3>2
    <2>3. ContextsMatch'
      BY <1>1, <2>1, <2>2 DEF IpcInv, ContextsMatch, IpcPosted
    <2>4. OnlyNext(t)
      BY <1>1, <2>1, ActiveStays
    <2> QED BY <1>1, <1>3, <2>1, <2>2, <2>3, <2>4 DEF IpcPosted, TypeOK
  <1>9. CASE TaskWaitPrepare(t)
    <2>1. /\ UNCHANGED <<cur, ready, sleepEv, tasks, regs, tls, peer, valid, params>>
          /\ pc = "wait_prep" /\ pc' = "wait_yield" /\ state' = [state EXCEPT ![t] = "WAIT"]
          /\ wq' = [wq EXCEPT ![t] = "linked"] /\ tls[t].kind = "async"
      BY <1>1, <1>9 DEF TaskWaitPrepare, Running, IpcInv, ContextsMatch
    <2>2. /\ tls[t].typ # "sec" /\ wq'[t] = "linked"
          /\ \A u \in Svc : u # t => wq'[u] = wq[u] /\ state'[u] = state[u]
      <3>1. tls[t].typ # "sec"
        BY <2>1 DEF IpcInv, ContextsMatch
      <3>2. wq'[t] = "linked" /\ \A u \in Svc : u # t => wq'[u] = wq[u] /\ state'[u] = state[u]
        BY <2>1 DEF TypeOK
      <3> QED BY <3>1, <3>2
    <2>3. ContextsMatch'
      BY <1>1, <2>1, <2>2 DEF IpcInv, ContextsMatch, IpcPosted
    <2>4. OnlyNext(t)
      BY <1>1, <2>1, ActiveStays
    <2> QED BY <1>1, <1>3, <2>1, <2>2, <2>3, <2>4 DEF IpcPosted, TypeOK
  <1>10. CASE TaskWaitYield(t)
    <2>1. /\ GivesUpCore(t, "wait_check") /\ Nobody' /\ state' = state /\ pc = "wait_yield"
          /\ UNCHANGED <<tasks, tls, wq, peer, valid, params>>
      BY <1>10, WaitYieldEffect
    <2>2. cur' = D /\ regs' = [regs EXCEPT ![t] = "wait_check"]
      BY <2>1 DEF GivesUpCore
    <2>3. \A u \in Svc : regs'[u] = IF u = t THEN "wait_check" ELSE regs[u]
      BY <2>2 DEF TypeOK
    <2>4. wq[t] = "linked" /\ tls[t].kind = "async" /\ tls[t].typ # "sec"
      BY <1>1, <2>1 DEF IpcInv, ContextsMatch
    <2>5. ContextsMatch'
      BY <1>1, <2>1, <2>2, <2>3, <2>4 DEF IpcInv, ContextsMatch, IpcPosted
    <2> QED BY <1>1, <1>2, <2>1, <2>4, <2>5, IpcSettled DEF IpcPosted
  <1>11. CASE TaskIpcConnect(t)
    <2>1. /\ UNCHANGED <<cur, ready, sleepEv, regs, tls, valid, params>>
          /\ tls[t].kind = "ipc" /\ tls[t].typ # "sec"
      BY <1>11 DEF TaskIpcConnect, IpcInv, ContextsMatch
    <2>2. OnlyNext(t)
      BY <1>1, <2>1, ActiveStays
    <2>3. CASE create_task /\ peer' = [peer EXCEPT ![t] = nextId] /\ pc' = "ipc_send"
      <3>1. /\ nextId \in Svc /\ nextId \notin tasks /\ tasks' = tasks \cup {nextId}
            /\ state' = [state EXCEPT ![nextId] = "SUSPEND"]
            /\ wq' = [wq EXCEPT ![nextId] = "uninit"]
        BY <1>1, <2>3, ConstantsAssumption DEF create_task, Svc, TypeOK, Shape
      <3>2. /\ peer'[t] = nextId /\ wq'[nextId] = "uninit" /\ state'[nextId] = "SUSPEND"
            /\ \A u \in Svc : u # nextId => wq'[u] = wq[u] /\ state'[u] = state[u]
        BY <2>3, <3>1 DEF TypeOK
      <3>3. ContextsMatch'
        BY <1>1, <2>1, <2>3, <3>1, <3>2 DEF IpcInv, ContextsMatch, IpcPosted
      <3> QED BY <1>1, <1>3, <2>1, <2>2, <3>1, <3>2, <3>3 DEF IpcPosted, TypeOK
    <2>4. CASE create_task_fails /\ UNCHANGED peer /\ pc' = "fin"
      <3>1. UNCHANGED <<tasks, state, wq, peer>>
        BY <2>4 DEF create_task_fails
      <3>2. ContextsMatch'
        BY <1>1, <2>1, <2>4, <3>1 DEF IpcInv, ContextsMatch, IpcPosted
      <3> QED BY <1>4, <2>1, <3>1, <3>2
    <2> QED BY <1>11, <2>3, <2>4 DEF TaskIpcConnect
  <1>12. CASE TaskIpcSend(t)
    <2>1. PICK p : p = peer[t]
      OBVIOUS
    <2>2. /\ GivesUpCore(t, "ipc_back") /\ Nobody' /\ pc = "ipc_send"
          /\ state' = [state EXCEPT ![t] = "WAIT"] /\ p \in Svc /\ p # t
          /\ IpcPosted' /\ params'.task = p /\ params'.src = t
          /\ params'.kind \in {"sync", "usleep"}
          /\ UNCHANGED <<tasks, tls, wq, peer>>
      BY <1>12, <2>1, IpcSendEffect DEF IpcPosted
    <2>3. /\ cur' = D /\ regs' = [regs EXCEPT ![t] = "ipc_back"]
          /\ tls[t].kind = "ipc" /\ p \in tasks /\ wq[p] = "uninit" /\ tls[t].typ # "sec"
      BY <1>1, <2>1, <2>2 DEF GivesUpCore, IpcInv, ContextsMatch
    <2>4. /\ \A u \in Svc : regs'[u] = IF u = t THEN "ipc_back" ELSE regs[u]
          /\ \A u \in Svc : state'[u] = IF u = t THEN "WAIT" ELSE state[u]
      BY <2>2, <2>3 DEF TypeOK
    <2>5. ContextsMatch'
      BY <1>1, <2>2, <2>3, <2>4 DEF IpcInv, ContextsMatch
    <2>6. \A u \in tasks' \ {D} : ~Active(u)'
      BY <2>2 DEF Nobody, TypeOK
    <2>7. Parked(t)'
      BY <1>1, <2>2, <2>4, <2>6 DEF Parked
    <2>8. CallersParked'
      BY <2>2, <2>6, <2>7 DEF CallersParked, Parked
    <2>9. NoneStranded'
      BY <1>2, <2>2, <2>3, <2>4 DEF NoneStranded, Awaited, TypeOK
    <2> QED BY <2>5, <2>8, <2>9 DEF IpcInv
  <1>13. CASE TaskIpcBack(t)
    <2>1. /\ pc = "ipc_back" /\ pc' = "fin" /\ peer[t] \in Svc /\ peer[t] # t
          /\ tasks' = tasks \ {peer[t]}
          /\ UNCHANGED <<tls, wq, peer, cur, ready, state, regs, sleepEv, valid, params>>
      BY <1>13, IpcBackEffect
    <2>2. tls[t].typ # "sec"
      BY <1>1, <2>1 DEF IpcInv, ContextsMatch
    <2>3. ContextsMatch'
      BY <1>1, <2>1 DEF IpcInv, ContextsMatch, IpcPosted
    <2>4. OnlyNext(t)
      BY <1>1, <2>1, ActiveStays
    <2> QED BY <1>1, <1>3, <2>1, <2>2, <2>3, <2>4 DEF IpcPosted
  <1>14. CASE TaskReturn(t)
    <2>1. /\ pc = "fin" /\ cur' = D /\ regs' = regs
          /\ state' = [state EXCEPT ![t] = "SUSPEND"]
          /\ UNCHANGED <<tasks, tls, wq, peer, valid, params>>
      BY <1>14, ReturnEffect
    <2>2. ContextsMatch'
      BY <1>1, <2>1 DEF IpcInv, ContextsMatch, IpcPosted
    <2>3. \A u \in Svc : state'[u] = IF u = t THEN "SUSPEND" ELSE state[u]
      BY <2>1 DEF TypeOK
    <2>4. CASE tls[t].typ = "ns" /\ Nobody'
      <3>1. \A u \in tasks' \ {D} : state'[u] = "SUSPEND" \/ wq'[u] = "linked"
        BY <1>2, <2>1, <2>3, <2>4 DEF TypeOK
      <3> QED BY <1>1, <2>1, <2>2, <2>4, <3>1, IpcSettled DEF IpcPosted
    <2>5. CASE tls[t].typ = "sec" /\ OnlyNext(tls[t].src)
      <3>1. PICK s : s = tls[t].src
        OBVIOUS
      <3>2. s \in tasks \ {D} /\ s # t /\ regs[s] = "ipc_back" /\ s \in Svc
        BY <1>2, <2>5, <3>1 DEF Parked, TypeOK
      <3>3. tls[s].typ # "sec"
        BY <3>2 DEF IpcInv, ContextsMatch
      <3>4. \A u \in tasks \ {D} : u # s => state'[u] = "SUSPEND" \/ wq[u] = "linked"
        BY <1>2, <2>3, <3>1 DEF TypeOK
      <3> QED BY <1>1, <2>1, <2>2, <2>5, <3>1, <3>2, <3>3, <3>4, IpcFlying DEF IpcPosted
    <2>6. CASE tls[t].typ = "sec" /\ tls[t].src \notin tasks
      BY <1>2, <2>6 DEF Parked
    <2> QED BY <1>14, <2>4, <2>5, <2>6, ReturnEffect
  <1> QED BY <1>5, <1>6, <1>7, <1>8, <1>9, <1>10, <1>11, <1>12, <1>13, <1>14 DEF TaskStep

(* The timer handlers. *)
LEMMA IpcFiq ==
    ASSUME TypeOK, OneInFlight, IpcInv, TypeOK', Fiq
    PROVE  IpcInv'
  <1> USE ConstantFacts DEF taskVars, mboxVars, runVars
  <1>1. PICK t \in Svc : FiqSleep(t) \/ FiqEcho(t)
    BY DEF Fiq
  <1>2. CASE FiqEcho(t)
    <2>1. UNCHANGED <<cur, ready, sleepEv, tasks, state, regs, tls, wq, peer, pc, valid, params>>
      BY <1>2 DEF FiqEcho
    <2> QED BY <2>1, IpcQuiet DEF IpcPosted
  <1>3. CASE FiqSleep(t)
    <2>1. /\ t \in tasks \ {D} /\ Only(t) /\ OnlyNext(t) /\ ~valid
          /\ state' = [state EXCEPT ![t] = "READY_TO_RUN"]
          /\ UNCHANGED <<tasks, tls, wq, peer, cur, regs, pc, valid, params>>
      BY <1>3, WakeEffect
    <2>2. ~IpcPosted /\ ~IpcPosted'
      BY <2>1 DEF IpcPosted
    <2>3. /\ tls[t].typ = "sec" => Parked(tls[t].src) /\ tls[t].src # t
          /\ \A u \in tasks \ {D} : u # t =>
                \/ state[u] = "SUSPEND" \/ wq[u] = "linked"
                \/ tls[t].typ = "sec" /\ tls[t].src = u
      BY <2>1, <2>2, IpcFlown
    <2>4. \A u \in tasks \ {D} : u # t => state'[u] = state[u]
      BY <2>1 DEF TypeOK
    <2>5. ContextsMatch'
      BY <2>1, <2>2 DEF IpcInv, ContextsMatch
    <2>6. tls[t].typ = "sec" => ParkedNext(tls[t].src)
      <3> SUFFICES ASSUME tls[t].typ = "sec" PROVE ParkedNext(tls[t].src)
        OBVIOUS
      <3>1. PICK s : s = tls[t].src
        OBVIOUS
      <3>2. /\ s \in tasks \ {D} /\ s # t /\ s \in Svc /\ state[s] = "WAIT"
            /\ regs[s] = "ipc_back"
        BY <2>3, <3>1 DEF Parked, TypeOK
      <3> QED BY <2>1, <2>4, <3>1, <3>2 DEF ParkedNext, OnlyNext
    <2> QED BY <2>1, <2>2, <2>3, <2>4, <2>5, <2>6, IpcFlying
  <1> QED BY <1>1, <1>2, <1>3

(* The steps of the non-secure world: a command of a client is no IPC. *)
LEMMA IpcNonSecure ==
    ASSUME TypeOK, OneInFlight, IpcInv, NonSecure
    PROVE  IpcInv'
  <1> USE DEF taskVars, evVars, mboxVars, runVars
  <1>1. ~valid
    BY DEF NonSecure, NsOpen, NsClose, NsSend, NsRegister, NsUnregister, NsOther,
           NsIpi, NsResume, NsInterrupted, NewCall, InNs, OneInFlight, InNonSecure,
           InDispatcher, InTask
  <1>2. /\ UNCHANGED <<cur, ready, sleepEv, tasks, state, regs, tls, wq, peer, pc>>
        /\ UNCHANGED <<valid, params>> \/ params'.typ = "ns"
    BY DEF NonSecure, NsOpen, NsClose, NsSend, NsRegister, NsUnregister, NsOther,
           NsIpi, NsResume, NsInterrupted, NewCall, Issue
  <1>3. ~IpcPosted /\ ~IpcPosted'
    BY <1>1, <1>2 DEF IpcPosted
  <1> QED BY <1>2, <1>3, IpcQuiet

(* The inductive step. *)
LEMMA IpcStep ==
    ASSUME TypeOK, KernelInv, IpcInv, TypeOK', [Next]_vars
    PROVE  IpcInv'
  <1>1. CASE UNCHANGED vars
    BY <1>1, IpcQuiet DEF vars, taskVars, evVars, runVars, mboxVars, IpcPosted
  <1> QED BY <1>1, IpcDispatch, IpcTask, IpcFiq, IpcNonSecure DEF Next, KernelInv

-----------------------------------------------------------------------------
(* The theorems. *)

(* From otz_ipi to otz_ipi_return a caller is parked, and no stopped task   *)
(* is left behind: IpcInv is an invariant.                                  *)
THEOREM IpcSound == Spec => []IpcInv
  <1>1. Init => IpcInv
    BY IpcInit
  <1>2. TypeOK /\ KernelInv /\ TypeOK' /\ IpcInv /\ [Next]_vars => IpcInv'
    BY IpcStep
  <1> QED BY <1>1, <1>2, TypeCorrect, InFlight, PTL DEF Spec

(* The command structure of an IPC lies on the caller's stack: as long as   *)
(* the callee may use it the caller exists and is parked in otz_ipi.        *)
THEOREM CallerStaysParked == Spec => []IpcCallerParked
  <1>1. TypeOK /\ IpcInv => IpcCallerParked
    <2> SUFFICES ASSUME TypeOK, IpcInv, NEW u \in tasks \ {D}, tls[u].typ = "sec",
                        cur = u \/ InList(u, ready) \/ u \in Sleepers
                 PROVE  /\ tls[u].src \in tasks /\ state[tls[u].src] = "WAIT"
                        /\ regs[tls[u].src] = "ipc_back" /\ cur # tls[u].src
                        /\ ~InList(tls[u].src, ready)
      BY DEF IpcCallerParked
    <2>1. Active(u)
      BY DEF Active, ActiveIn, Sleepers
    <2>2. Parked(tls[u].src)
      BY <2>1 DEF IpcInv, CallersParked
    <2> QED BY <2>2 DEF Parked, Active, ActiveIn
  <1> QED BY <1>1, TypeCorrect, IpcSound, PTL

(* return_secure_api hands the core to the non-secure world only when no    *)
(* command is in progress: nothing queued, asleep or in the mailbox, and    *)
(* every task suspended or waiting for its notification.                    *)
THEOREM NonSecureWhenIdle == Spec => []NsOnlyWhenIdle
  <1>1. TypeOK /\ KernelInv /\ IpcInv => NsOnlyWhenIdle
    <2> SUFFICES ASSUME TypeOK, KernelInv, IpcInv, smc = NoCall
                 PROVE  /\ cur = D /\ pc = "ret" /\ ready = <<>> /\ ~valid /\ Sleepers = {}
                        /\ \A t \in tasks \ {D} : state[t] = "SUSPEND" \/ wq[t] = "linked"
      BY DEF NsOnlyWhenIdle
    <2>1. OneInFlight /\ InNonSecure
      BY DEF KernelInv, OneInFlight, InDispatcher, InTask
    <2>2. Nobody /\ ~IpcPosted
      BY <2>1, ActiveNow DEF InNonSecure, IpcPosted
    <2>3. Sleepers = {}
      BY <2>1 DEF InNonSecure, NoSleeper, Sleepers
    <2> QED BY <2>1, <2>2, <2>3, NobodyParked DEF InNonSecure
  <1> QED BY <1>1, TypeCorrect, InFlight, IpcSound, PTL
=============================================================================
