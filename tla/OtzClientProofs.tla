-------------------------- MODULE OtzClientProofs --------------------------
(***************************************************************************)
(* Proofs about the Linux client driver.                                   *)
(***************************************************************************)
EXTENDS OtzClient, ListFacts

(* Where a thread is inside the send ioctl. *)
InSend == {"lock", "send", "wait", "relock", "resume", "ret"}
(* Where its command is pending. *)
Waiting == {"wait", "relock", "resume"}
Rec(t)  == [addr |-> buf[t].addr, blk |-> buf[t].blk]

(* A session is known to the thread that opened it, and its file lists it   *)
(* once.                                                                    *)
SessionsOwned ==
    /\ \A t \in Threads : ses[t] # NoSes =>
        FileOf[t] \in open /\ ses[t] < nextSes /\ ses[t] \in Range(sessions[FileOf[t]])
    /\ \A t, u \in Threads : ses[t] = ses[u] /\ ses[t] # NoSes => t = u
    /\ \A f \in Files : \A s \in Range(sessions[f]) :
        \E t \in Threads : FileOf[t] = f /\ ses[t] = s
    /\ \A f \in Files : IsInjective(sessions[f])

(* A context is in the list of its thread's session; only the send ioctl    *)
(* and the release of a block are left to be returned from.                 *)
ContextsOwned ==
    \A t \in Threads :
        /\ ctx[t] # None => ses[t] # NoSes /\ encs[ctx[t]] = ses[t]
        /\ ref[t] # None => ctx[t] # None
        /\ pc[t] \in InSend => ctx[t] # None
        /\ pc[t] = "unmapped" => ctx[t] = None

(* The command of a thread that waits, or is about to resume it, is pending *)
(* in its session, which is the first of its file.                          *)
CommandsPending ==
    \A t \in Threads : pc[t] \in Waiting =>
        /\ pend[ses[t]] = [file |-> FileOf[t], ctx |-> ctx[t]]
        /\ Found(FileOf[t], ses[t], ctx[t])

(* Without a lapse: a pending command has its thread, a flag is set for a   *)
(* waiting thread only and after its command became ready, and a            *)
(* notification on its way is for a thread that waits unflagged.            *)
FlagsForWaiters ==
    /\ note.ses < nextSes
    /\ \A s \in Sessions : pend[s] # NoPend =>
        \E t \in Threads : ses[t] = s /\ pc[t] \in Waiting
    /\ \A t \in Threads :
        /\ ctx[t] # None /\ flag[ctx[t]] => pc[t] = "wait" /\ ses[t] \in ready
        /\ pc[t] \in {"relock", "resume"} => ses[t] \in ready
        /\ sgi /\ note.ses # NoSes /\ ses[t] = note.ses =>
            /\ pc[t] = "wait" /\ ctx[t] = note.ctx /\ ~flag[ctx[t]] /\ ses[t] \in ready

(* The interrupt is pending for a record that names a thread which waits:   *)
(* no file can be closed, and no record freed, before it is taken.          *)
NoteHasWaiter == sgi => \E t \in Threads : pc[t] = "wait" /\ ses[t] = note.ses

(* A block is in the list its thread believes it is in, at an address that  *)
(* no other mapping of the process has.                                     *)
Listed(t) ==
    /\ buf[t].list = "none" => buf[t] = NoBuf
    /\ buf[t].list # "none" => buf[t].addr # None /\ buf[t].blk # None
    /\ buf[t].list = "ses" => ses[t] # NoSes /\ sesMem[ses[t]] = <<Rec(t)>>
    /\ buf[t].list # "ses" /\ ses[t] # NoSes => sesMem[ses[t]] = <<>>
    /\ pc[t] = "unmapped" => buf[t].list = "ses"

(* A session that no thread knows has no shared memory. *)
SesMemOwned == \A s \in Sessions : (\A t \in Threads : ses[t] # s) => sesMem[s] = <<>>

(* What a file lists for itself is a thread's block. *)
DevMemOwned ==
    \A f \in Files \ TeecFiles : \A r \in Range(devMem[f]) :
        \E t \in Threads : FileOf[t] = f /\ buf[t].list = "dev" /\ r = Rec(t)

(* It lists no block twice. *)
DevMemOnce == \A f \in Files : IsInjective(devMem[f])

(* The mappings of two threads of a process are at different addresses. *)
Apart(t, u) ==
    /\ FileOf[t] = FileOf[u] /\ t # u /\ buf[t].addr # None
    /\ pc[t] # "unmapped" /\ pc[u] # "unmapped"
    => buf[t].addr # buf[u].addr

(* The lists of shared memory and the threads agree. *)
BlocksListed ==
    /\ \A t \in Threads : Listed(t) /\ \A u \in Threads : Apart(t, u)
    /\ SesMemOwned /\ DevMemOwned /\ DevMemOnce

(* The inductive invariant of the driver. *)
ClientInv ==
    /\ SessionsOwned /\ ContextsOwned /\ CommandsPending /\ BlocksListed
    /\ SendExclusive /\ SessionRefMapped
    /\ lapses = {} => FlagsForWaiters /\ NoteHasWaiter

-----------------------------------------------------------------------------
(* The steps a thread takes that leave the lists of sessions, contexts and  *)
(* blocks alone.                                                            *)
SendStep(t) ==
    \/ SendCall(t) \/ SendLock(t) \/ SendFails(t) \/ SendSync(t) \/ SendPending(t)
    \/ Wake(t) \/ Relock(t) \/ Resume(t) \/ Signal(t) \/ SendReturn(t)

(* The steps that work on shared memory. *)
MemStep(t) == Mmap(t) \/ ShmAlloc(t) \/ ShmUnmap(t) \/ ShmFree(t) \/ TeecRelease(t)

(* The notification, from the secure world to the flag. *)
NoteStep == (\E s \in Sessions : SecNotify(s)) \/ Ipi

(* What the steps of the send ioctl leave alone. *)
LEMMA SendFrame ==
    ASSUME NEW t \in Threads, SendStep(t)
    PROVE  /\ UNCHANGED <<listVars, memVars, encs, thrVars, nextSes>>
           /\ \E p \in Pcs : pc' = [pc EXCEPT ![t] = p]
  BY DEF SendStep, SendCall, SendLock, SendFails, SendSync, SendPending, Wake, Relock,
         Resume, Signal, SendReturn, Step, encVars, Pcs

(* What the notification leaves alone. *)
LEMMA NoteFrame ==
    ASSUME NoteStep
    PROVE  /\ UNCHANGED <<listVars, memVars, encs, thrVars, nextSes, pc, pend, lock>>
           /\ lapses' \in {lapses, lapses \cup {"unregistered"}}
  BY DEF NoteStep, SecNotify, Ipi, encVars

(* What the steps on shared memory leave alone. *)
LEMMA MemFrame ==
    ASSUME TypeOK, NEW t \in Threads, MemStep(t)
    PROVE  /\ UNCHANGED <<listVars, encVars, secVars, ses, ctx, ref, nextSes, lock, lapses>>
           /\ \A u \in Threads : \/ pc'[u] = pc[u]
                                 \/ /\ u = t /\ pc[u] \in {"out", "unmapped"}
                                    /\ pc'[u] \in {"out", "unmapped"}
  <1>1. UNCHANGED <<listVars, encVars, secVars, ses, ctx, ref, nextSes, lock, lapses>>
    BY DEF MemStep, Mmap, ShmAlloc, ShmUnmap, ShmFree, TeecRelease, memVars, thrVars
  <1>2. \/ pc' = pc
        \/ /\ pc[t] \in {"out", "unmapped"}
           /\ \E p \in {"out", "unmapped"} : pc' = [pc EXCEPT ![t] = p]
    BY DEF MemStep, Mmap, ShmAlloc, ShmUnmap, ShmFree, TeecRelease, Calls
  <1>3. \A u \in Threads : \/ pc'[u] = pc[u]
                           \/ /\ u = t /\ pc[u] \in {"out", "unmapped"}
                              /\ pc'[u] \in {"out", "unmapped"}
    BY <1>2 DEF TypeOK
  <1> QED BY <1>1, <1>3

(* Every step is one of these. *)
LEMMA Steps ==
    ASSUME Next
    PROVE  \/ \E f \in Files : FileOpen(f) \/ FileRelease(f)
           \/ \E t \in Threads :
                \/ SessionOpen(t) \/ SessionOpenFault(t) \/ SessionClose(t)
                \/ MemStep(t) \/ Encode(t) \/ OperationRelease(t) \/ SendStep(t)
           \/ NoteStep
  BY DEF Next, MemStep, SendStep, NoteStep

(* A record the search by address finds. *)
LEMMA FirstFound ==
    ASSUME NEW q \in Seq(Record), NEW a, NEW b \in First(q, a)
    PROVE  [addr |-> a, blk |-> b] \in Range(q) /\ a \in Addrs /\ b \in Blocks
  <1>1. DOMAIN q = 1 .. Len(q) /\ \A i \in 1 .. Len(q) : q[i] \in Record
    BY LenProperties, ElementOfSeq
  <1>2. PICK i \in 1 .. Len(q) : q[i].addr = a /\ q[i].blk = b
    BY <1>1 DEF First
  <1>3. q[i] = [addr |-> a, blk |-> b] /\ a \in Addrs /\ b \in Blocks
    BY <1>1, <1>2 DEF Record
  <1> QED BY <1>1, <1>3 DEF Range

-----------------------------------------------------------------------------
(* Types *)

(* Every step keeps the types of the driver's and the clients' state. *)
LEMMA TypeStep == TypeOK /\ [Next]_vars => TypeOK'
  <1> SUFFICES ASSUME TypeOK, [Next]_vars PROVE TypeOK'
    OBVIOUS
  <1> USE ClientAssumption DEF TypeOK, listVars, memVars, encVars, secVars, thrVars
  <1> DEFINE BufType == [addr : Addrs \cup {None}, blk : Blocks \cup {None},
                         list : {"none", "dev", "ses"}]
  <1>1. CASE UNCHANGED vars
    BY <1>1 DEF vars
  <1>2. ASSUME NEW f \in Files, FileOpen(f) PROVE TypeOK'
    BY <1>2 DEF FileOpen
  <1>3. ASSUME NEW f \in Files, FileRelease(f) PROVE TypeOK'
    <2>1. pend' \in [Sessions -> [file : Files \cup {None}, ctx : Ctxs \cup {None}]]
      BY <1>3 DEF FileRelease, Closing, NoPend
    <2>2. buf' \in [Threads -> BufType]
      BY <1>3 DEF FileRelease, NoBuf
    <2>3. sessions' \in [Files -> Seq(Sessions)] /\ devMem' \in [Files -> Seq(Record)]
      BY <1>3 DEF FileRelease
    <2>4. sesMem' \in [Sessions -> Seq(Record)]
      BY <1>3 DEF FileRelease, Closing
    <2>5. note' \in Notes
      BY <1>3 DEF FileRelease, Notes, NoNote
    <2> QED BY <1>3, <2>1, <2>2, <2>3, <2>4, <2>5 DEF FileRelease, Closing, NoSes
  <1>4. ASSUME NEW t \in Threads, SessionOpen(t) PROVE TypeOK'
    BY <1>4 DEF SessionOpen, Sessions
  <1>5. ASSUME NEW t \in Threads, SessionOpenFault(t) PROVE TypeOK'
    BY <1>5 DEF SessionOpenFault, Sessions
  <1>6. ASSUME NEW t \in Threads, SessionClose(t) PROVE TypeOK'
    <2>1. RemoveFirst(sessions[FileOf[t]], ses[t]) \in Seq(Sessions)
      BY ListDel
    <2> QED BY <1>6, <2>1 DEF SessionClose, Closing, NoPend, NoSes
  <1>7. ASSUME NEW t \in Threads, Mmap(t) PROVE TypeOK'
    <2>1. PICK a \in Addrs, b \in Blocks \ InUse :
            /\ devMem' = [devMem EXCEPT ![FileOf[t]] = Append(@, [addr |-> a, blk |-> b])]
            /\ buf' = [buf EXCEPT ![t] = [addr |-> a, blk |-> b, list |-> "dev"]]
            /\ UNCHANGED pc
      BY <1>7 DEF Mmap
    <2>2. devMem' \in [Files -> Seq(Record)]
      <3>1. [addr |-> a, blk |-> b] \in Record
        BY DEF Record
      <3> QED BY <2>1, <3>1, ListAdd
    <2>3. buf' \in [Threads -> BufType]
      BY <2>1
    <2> QED BY <1>7, <2>1, <2>2, <2>3 DEF Mmap
  <1>8. ASSUME NEW t \in Threads, ShmAlloc(t) PROVE TypeOK'
    <2>1. PICK b \in First(devMem[FileOf[t]], buf[t].addr) :
            LET r == [addr |-> buf[t].addr, blk |-> b] IN
            /\ devMem' = [devMem EXCEPT ![FileOf[t]] = RemoveFirst(@, r)]
            /\ sesMem' = [sesMem EXCEPT ![ses[t]] = Append(@, r)]
      BY <1>8 DEF ShmAlloc
    <2>2. [addr |-> buf[t].addr, blk |-> b] \in Record
      BY <2>1, FirstFound DEF Record
    <2>3. devMem' \in [Files -> Seq(Record)]
      BY <2>1, <2>2, ListDel
    <2>4. sesMem' \in [Sessions -> Seq(Record)]
      BY <1>8, <2>1, <2>2, ListAdd
    <2>5. buf' \in [Threads -> BufType]
      <3>1. buf' = [buf EXCEPT ![t] = [buf[t] EXCEPT !.list = "ses"]]
        BY <1>8 DEF ShmAlloc
      <3>2. buf \in [Threads -> BufType]
        OBVIOUS
      <3>3. \A x \in BufType : [x EXCEPT !.list = "ses"] \in BufType
        OBVIOUS
      <3> HIDE DEF BufType, TypeOK
      <3> QED BY <3>1, <3>2, <3>3
    <2> QED BY <1>8, <2>3, <2>4, <2>5 DEF ShmAlloc
  <1>9. ASSUME NEW t \in Threads, ShmUnmap(t) \/ TeecRelease(t) PROVE TypeOK'
    <2>1. buf' \in [Threads -> BufType]
      <3>1. buf' = buf \/ buf' = [buf EXCEPT ![t] = NoBuf]
        BY <1>9 DEF ShmUnmap, TeecRelease
      <3>2. buf \in [Threads -> BufType] /\ NoBuf \in BufType
        BY DEF NoBuf
      <3> HIDE DEF BufType, TypeOK
      <3> QED BY <3>1, <3>2
    <2>2. pc' \in [Threads -> Pcs]
      BY <1>9 DEF ShmUnmap, TeecRelease, Pcs
    <2> QED BY <1>9, <2>1, <2>2 DEF ShmUnmap, TeecRelease
  <1>10. ASSUME NEW t \in Threads, ShmFree(t) PROVE TypeOK'
    <2>1. PICK b : sesMem' = [sesMem EXCEPT ![ses[t]] =
                                RemoveFirst(@, [addr |-> buf[t].addr, blk |-> b])]
      BY <1>10 DEF ShmFree
    <2>2. sesMem' \in [Sessions -> Seq(Record)]
      <3>1. \A q \in Seq(Record) : \A e : RemoveFirst(q, e) \in Seq(Record)
        BY ListDel
      <3> QED BY <2>1, <3>1
    <2>3. buf' \in [Threads -> BufType]
      BY <1>10 DEF ShmFree, NoBuf
    <2>4. pc' \in [Threads -> Pcs]
      BY <1>10 DEF ShmFree, Pcs
    <2> QED BY <1>10, <2>2, <2>3, <2>4 DEF ShmFree
  <1>11. ASSUME NEW t \in Threads, Encode(t) PROVE TypeOK'
    <2>1. PICK c \in Ctxs :
            /\ ses[t] # NoSes /\ encs' = [encs EXCEPT ![c] = ses[t]]
            /\ flag' = [flag EXCEPT ![c] = FALSE] /\ ctx' = [ctx EXCEPT ![t] = c]
            /\ UNCHANGED <<listVars, memVars, secVars, ses, buf, lock, pc, nextSes, lapses>>
      BY <1>11 DEF Encode
    <2>2. ref' \in [Threads -> Blocks \cup {None}]
      <3>1. ses[t] \in Sessions /\ sesMem[ses[t]] \in Seq(Record)
            /\ devMem[FileOf[t]] \in Seq(Record)
        BY <2>1 DEF NoSes
      <3>2. /\ First(sesMem[ses[t]], buf[t].addr) \subseteq Blocks
            /\ First(devMem[FileOf[t]], buf[t].addr) \subseteq Blocks
        BY <3>1, FirstFound
      <3> HIDE DEF TypeOK
      <3>3. UNCHANGED ref \/ \E b \in Blocks : ref' = [ref EXCEPT ![t] = b]
        BY <1>11, <3>2 DEF Encode
      <3> QED BY <3>3 DEF TypeOK
    <2> QED BY <2>1, <2>2
  <1>12. ASSUME NEW t \in Threads, OperationRelease(t) PROVE TypeOK'
    BY <1>12 DEF OperationRelease, NoSes
  <1>13. ASSUME NEW t \in Threads, SendStep(t) PROVE TypeOK'
    <2>1. pc' \in [Threads -> Pcs]
      BY <1>13, SendFrame
    <2>2. pend' \in [Sessions -> [file : Files \cup {None}, ctx : Ctxs \cup {None}]]
      <3>1. \/ UNCHANGED pend
            \/ \E p \in [file : Files \cup {None}, ctx : Ctxs \cup {None}] :
                    pend' = [pend EXCEPT ![ses[t]] = p]
        BY <1>13 DEF SendStep, SendCall, SendLock, SendFails, SendSync, SendPending, Wake,
                     Relock, Resume, Signal, SendReturn, NoPend
      <3> QED BY <3>1
    <2>3. /\ UNCHANGED <<secOpen, reg, sgi, note>> /\ ready' \subseteq Sessions
          /\ lock' \in Threads \cup {None} /\ lapses' \subseteq Lapses
          /\ flag' \in [Ctxs -> BOOLEAN]
      BY <1>13 DEF SendStep, SendCall, SendLock, SendFails, SendSync, SendPending, Wake,
                   Relock, Resume, Signal, SendReturn, Lapses
    <2> QED BY <1>13, <2>1, <2>2, <2>3, SendFrame
  <1>14. CASE NoteStep
    <2>1. note' \in Notes /\ lapses' \subseteq Lapses
      <3>1. lapses' \subseteq Lapses
        BY <1>14, NoteFrame DEF Lapses
      <3>2. CASE Ipi
        BY <3>1, <3>2 DEF Ipi
      <3>3. ASSUME NEW s \in Sessions, SecNotify(s) PROVE note' \in Notes
        <4>1. pend[s].file \in Files \cup {None} /\ pend[s].ctx \in Ctxs \cup {None}
          OBVIOUS
        <4> QED BY <3>3, <4>1 DEF SecNotify, Notes
      <3> QED BY <1>14, <3>1, <3>2, <3>3 DEF NoteStep
    <2>2. /\ UNCHANGED <<secOpen, reg>> /\ ready' \subseteq Sessions
          /\ sgi' \in BOOLEAN /\ flag' \in [Ctxs -> BOOLEAN]
      BY <1>14 DEF NoteStep, SecNotify, Ipi
    <2> QED BY <1>14, <2>1, <2>2, NoteFrame
  <1> QED BY <1>1, <1>2, <1>3, <1>4, <1>5, <1>6, <1>7, <1>8, <1>9, <1>10, <1>11, <1>12,
             <1>13, <1>14, Steps DEF MemStep
-----------------------------------------------------------------------------
(* Sessions *)

(* Opening, closing and releasing keep one owner for every session. *)
LEMMA SessionsStep ==
    ASSUME TypeOK, SessionsOwned, [Next]_vars PROVE SessionsOwned'
  <1> USE ClientAssumption DEF listVars
  <1>1. CASE UNCHANGED <<listVars, ses, nextSes>>
    BY <1>1 DEF SessionsOwned
  <1>2. ASSUME NEW f \in Files, FileOpen(f) PROVE SessionsOwned'
    BY <1>2 DEF FileOpen, SessionsOwned, thrVars
  <1>3. ASSUME NEW f \in Files, FileRelease(f) PROVE SessionsOwned'
    <2>1. /\ open' = open \ {f} /\ sessions' = [sessions EXCEPT ![f] = <<>>]
          /\ ses' = [t \in Threads |-> IF FileOf[t] = f THEN NoSes ELSE ses[t]]
          /\ UNCHANGED nextSes
      BY <1>3 DEF FileRelease
    <2>2. Range(<<>>) = {} /\ IsInjective(<<>>)
      BY OneEntry
    <2>3. /\ Range(sessions'[f]) = {} /\ IsInjective(sessions'[f])
          /\ \A g \in Files \ {f} : sessions'[g] = sessions[g]
      BY <2>1, <2>2 DEF TypeOK
    <2> QED BY <2>1, <2>3 DEF SessionsOwned, TypeOK
  <1>4. ASSUME NEW t \in Threads, SessionOpen(t) PROVE SessionsOwned'
    <2> DEFINE f == FileOf[t]
    <2>1. /\ f \in open /\ ses[t] = NoSes /\ nextSes \in Sessions /\ nextSes' = nextSes + 1
          /\ sessions' = [sessions EXCEPT ![f] = Append(@, nextSes)]
          /\ ses' = [ses EXCEPT ![t] = nextSes] /\ UNCHANGED open
      BY <1>4 DEF SessionOpen, TypeOK, Sessions, Calls
    <2>2. nextSes \in Int /\ nextSes # NoSes
      BY <2>1 DEF Sessions, NoSes
    <2>3. \A u \in Threads : ses[u] # nextSes
      BY <2>2 DEF SessionsOwned, TypeOK, Sessions
    <2>4. nextSes \notin Range(sessions[f])
      BY <2>3 DEF SessionsOwned
    <2>5. /\ Range(sessions'[f]) = Range(sessions[f]) \cup {nextSes} /\ IsInjective(sessions'[f])
          /\ \A g \in Files \ {f} : sessions'[g] = sessions[g]
      BY <2>1, <2>4, ListAdd DEF SessionsOwned, TypeOK
    <2>6. \A u \in Threads : ses[u] # NoSes => ses'[u] = ses[u] /\ ses[u] < nextSes + 1
      BY <2>1, <2>2 DEF SessionsOwned, TypeOK, Sessions
    <2>7. ses'[t] = nextSes /\ \A u \in Threads \ {t} : ses'[u] = ses[u]
      BY <2>1 DEF TypeOK
    <2>8. \A u \in Threads : ses'[u] # NoSes =>
            FileOf[u] \in open' /\ ses'[u] < nextSes' /\ ses'[u] \in Range(sessions'[FileOf[u]])
      BY <2>1, <2>2, <2>5, <2>6, <2>7 DEF SessionsOwned
    <2>9. \A u, v \in Threads : ses'[u] = ses'[v] /\ ses'[u] # NoSes => u = v
      BY <2>3, <2>7 DEF SessionsOwned
    <2>10. \A g \in Files : \A s \in Range(sessions'[g]) :
              \E u \in Threads : FileOf[u] = g /\ ses'[u] = s
      <3> SUFFICES ASSUME NEW g \in Files, NEW s \in Range(sessions'[g])
                   PROVE  \E u \in Threads : FileOf[u] = g /\ ses'[u] = s
        OBVIOUS
      <3>1. CASE g = f /\ s = nextSes
        BY <2>7, <3>1
      <3>2. CASE s \in Range(sessions[g])
        <4>1. PICK u \in Threads : FileOf[u] = g /\ ses[u] = s
          BY <3>2 DEF SessionsOwned
        <4>2. g \in Files /\ s # NoSes
          BY <3>2, ElementOfSeq, LenProperties DEF TypeOK, Range, Sessions, NoSes
        <4> QED BY <2>6, <4>1, <4>2
      <3> QED BY <2>5, <3>1, <3>2
    <2> QED BY <2>5, <2>8, <2>9, <2>10 DEF SessionsOwned
  <1>5. ASSUME NEW t \in Threads, SessionOpenFault(t) PROVE SessionsOwned'
    <2>1. UNCHANGED <<listVars, ses>> /\ nextSes' = nextSes + 1
      BY <1>5 DEF SessionOpenFault, thrVars
    <2>2. \A u \in Threads : ses[u] # NoSes => ses[u] < nextSes + 1
      BY DEF SessionsOwned, TypeOK, Sessions
    <2> QED BY <2>1, <2>2 DEF SessionsOwned
  <1>6. ASSUME NEW t \in Threads, SessionClose(t) PROVE SessionsOwned'
    <2> DEFINE f == FileOf[t]
    <2>1. /\ ses[t] # NoSes /\ UNCHANGED <<open, nextSes>>
          /\ sessions' = [sessions EXCEPT ![f] = RemoveFirst(@, ses[t])]
          /\ ses' = [ses EXCEPT ![t] = NoSes]
      BY <1>6 DEF SessionClose
    <2>2. /\ Range(sessions'[f]) = Range(sessions[f]) \ {ses[t]} /\ IsInjective(sessions'[f])
          /\ \A g \in Files \ {f} : sessions'[g] = sessions[g]
      BY <2>1, ListDel DEF SessionsOwned, TypeOK
    <2> QED BY <2>1, <2>2 DEF SessionsOwned, TypeOK
  <1>7. ASSUME NEW t \in Threads, MemStep(t) \/ SendStep(t) PROVE SessionsOwned'
    BY <1>1, <1>7, MemFrame, SendFrame DEF thrVars
  <1>8. ASSUME NEW t \in Threads, Encode(t) \/ OperationRelease(t) PROVE SessionsOwned'
    BY <1>1, <1>8 DEF Encode, OperationRelease
  <1>9. CASE NoteStep
    BY <1>1, <1>9, NoteFrame DEF thrVars
  <1> QED BY <1>1, <1>2, <1>3, <1>4, <1>5, <1>6, <1>7, <1>8, <1>9, Steps DEF vars, thrVars

(* A session of another file is not touched when a file is released. *)
LEMMA OtherFile ==
    ASSUME TypeOK, SessionsOwned, NEW t \in Threads, NEW f \in Files,
           FileOf[t] # f, ses[t] # NoSes
    PROVE  ses[t] \notin Range(sessions[f])
  BY DEF SessionsOwned

(* Contexts stay in the list of their thread's session. *)
LEMMA ContextsStep ==
    ASSUME TypeOK, SessionsOwned, ContextsOwned, [Next]_vars PROVE ContextsOwned'
  <1> USE ClientAssumption
  <1>1. CASE UNCHANGED <<encs, ctx, ref, ses, pc>>
    BY <1>1 DEF ContextsOwned
  <1>2. ASSUME NEW f \in Files, FileOpen(f) PROVE ContextsOwned'
    BY <1>1, <1>2 DEF FileOpen, encVars, thrVars
  <1>3. ASSUME NEW f \in Files, FileRelease(f) PROVE ContextsOwned'
    <2>1. /\ ses' = [t \in Threads |-> IF FileOf[t] = f THEN NoSes ELSE ses[t]]
          /\ ctx' = [t \in Threads |-> IF FileOf[t] = f THEN None ELSE ctx[t]]
          /\ ref' = [t \in Threads |-> IF FileOf[t] = f THEN None ELSE ref[t]]
          /\ encs' = [c \in Ctxs |-> IF encs[c] \in Range(sessions[f]) THEN NoSes ELSE encs[c]]
          /\ UNCHANGED pc /\ \A t \in Threads : FileOf[t] = f => pc[t] = "out"
      BY <1>3 DEF FileRelease, Closing
    <2>2. ASSUME NEW t \in Threads, FileOf[t] # f, ctx[t] # None
          PROVE  ses'[t] # NoSes /\ encs'[ctx[t]] = ses'[t]
      BY <2>1, <2>2, OtherFile DEF ContextsOwned, TypeOK
    <2> QED BY <2>1, <2>2 DEF ContextsOwned, InSend
  <1>4. ASSUME NEW t \in Threads, SessionOpen(t) PROVE ContextsOwned'
    BY <1>4 DEF SessionOpen, ContextsOwned, encVars, TypeOK
  <1>5. ASSUME NEW t \in Threads, SessionOpenFault(t) PROVE ContextsOwned'
    BY <1>1, <1>5 DEF SessionOpenFault, encVars, thrVars
  <1>6. ASSUME NEW t \in Threads, SessionClose(t) PROVE ContextsOwned'
    <2>1. /\ ses[t] # NoSes /\ ctx[t] = None /\ UNCHANGED <<ctx, ref, pc>>
          /\ encs' = [c \in Ctxs |-> IF encs[c] \in {ses[t]} THEN NoSes ELSE encs[c]]
          /\ ses' = [ses EXCEPT ![t] = NoSes]
      BY <1>6 DEF SessionClose, Closing
    <2>2. \A u \in Threads : ctx[u] # None => u # t /\ encs[ctx[u]] # ses[t] /\ ctx[u] \in Ctxs
      BY <2>1 DEF ContextsOwned, SessionsOwned, TypeOK
    <2> QED BY <2>1, <2>2 DEF ContextsOwned, TypeOK
  <1>7. ASSUME NEW t \in Threads, MemStep(t) PROVE ContextsOwned'
    <2>1. UNCHANGED <<encs, ctx, ref, ses>>
      BY <1>7, MemFrame DEF encVars
    <2>2. \/ UNCHANGED pc \/ pc' = [pc EXCEPT ![t] = "out"]
          \/ pc' = [pc EXCEPT ![t] = "unmapped"] /\ ctx[t] = None
      BY <1>7 DEF MemStep, Mmap, ShmAlloc, ShmUnmap, ShmFree, TeecRelease
    <2> QED BY <2>1, <2>2 DEF ContextsOwned, TypeOK, InSend
  <1>8. ASSUME NEW t \in Threads, Encode(t) PROVE ContextsOwned'
    <2>1. PICK c \in Ctxs :
            /\ pc[t] = "out" /\ ses[t] # NoSes /\ ctx[t] = None /\ encs[c] = NoSes
            /\ encs' = [encs EXCEPT ![c] = ses[t]] /\ ctx' = [ctx EXCEPT ![t] = c]
            /\ UNCHANGED <<ses, pc>>
      BY <1>8 DEF Encode, Calls
    <2>2. \A u \in Threads \ {t} : ref'[u] = ref[u]
      BY <1>8 DEF Encode, TypeOK
    <2>3. \A u \in Threads : ctx[u] # None => ctx[u] \in Ctxs \ {c} /\ u # t
      BY <2>1 DEF ContextsOwned, TypeOK
    <2> QED BY <2>1, <2>2, <2>3 DEF ContextsOwned, TypeOK
  <1>9. ASSUME NEW t \in Threads, OperationRelease(t) PROVE ContextsOwned'
    <2>1. /\ pc[t] = "out" /\ ctx[t] # None
          /\ encs' = [encs EXCEPT ![ctx[t]] = NoSes]
          /\ ctx' = [ctx EXCEPT ![t] = None] /\ ref' = [ref EXCEPT ![t] = None]
          /\ UNCHANGED <<ses, pc>>
      BY <1>9 DEF OperationRelease, Calls
    <2>2. \A u \in Threads \ {t} : ctx[u] # None => ctx[u] \in Ctxs /\ ctx[u] # ctx[t]
      BY <2>1 DEF ContextsOwned, SessionsOwned, TypeOK
    <2> QED BY <2>1, <2>2 DEF ContextsOwned, TypeOK, InSend
  <1>10. ASSUME NEW t \in Threads, SendStep(t) PROVE ContextsOwned'
    <2>1. UNCHANGED <<encs, ctx, ref, ses>>
      BY <1>10, SendFrame DEF thrVars
    <2>2. \/ pc' = [pc EXCEPT ![t] = "out"]
          \/ ctx[t] # None /\ \E p \in InSend : pc' = [pc EXCEPT ![t] = p]
      BY <1>10 DEF SendStep, SendCall, SendLock, SendFails, SendSync, SendPending, Wake,
                  Relock, Resume, Signal, SendReturn, Step, ContextsOwned, InSend
    <2> QED BY <2>1, <2>2 DEF ContextsOwned, TypeOK, InSend
  <1>11. CASE NoteStep
    BY <1>1, <1>11, NoteFrame DEF thrVars
  <1> QED BY <1>1, <1>2, <1>3, <1>4, <1>5, <1>6, <1>7, <1>8, <1>9, <1>10, <1>11, Steps
          DEF vars, thrVars, encVars
-----------------------------------------------------------------------------
(* The send ioctl *)

(* A step of the send ioctl changes the pending command of its own session  *)
(* only.                                                                    *)
LEMMA PendFrame ==
    ASSUME TypeOK, NEW t \in Threads, SendStep(t)
    PROVE  \A s \in Sessions \ {ses[t]} : pend'[s] = pend[s] /\ (s \in ready' <=> s \in ready)
  BY DEF SendStep, SendCall, SendLock, SendFails, SendSync, SendPending, Wake, Relock,
         Resume, Signal, SendReturn, TypeOK, secVars

(* A waiting command stays pending, and its session the first of the file. *)
LEMMA CommandsStep ==
    ASSUME TypeOK, SessionsOwned, ContextsOwned, CommandsPending, [Next]_vars
    PROVE  CommandsPending'
  <1> USE ClientAssumption DEF listVars, Found
  <1>1. CASE UNCHANGED <<listVars, encs, ctx, ses, pc, pend>>
    BY <1>1 DEF CommandsPending
  <1>a. \A t \in Threads : pc[t] \in Waiting => ctx[t] \in Ctxs /\ ses[t] \in Sessions
    BY DEF ContextsOwned, TypeOK, Waiting, InSend
  <1>2. ASSUME NEW f \in Files, FileOpen(f) PROVE CommandsPending'
    BY <1>2 DEF FileOpen, encVars, thrVars, CommandsPending
  <1>3. ASSUME NEW f \in Files, FileRelease(f) PROVE CommandsPending'
    <2>1. /\ ses' = [t \in Threads |-> IF FileOf[t] = f THEN NoSes ELSE ses[t]]
          /\ ctx' = [t \in Threads |-> IF FileOf[t] = f THEN None ELSE ctx[t]]
          /\ open' = open \ {f} /\ sessions' = [sessions EXCEPT ![f] = <<>>]
          /\ encs' = [c \in Ctxs |-> IF encs[c] \in Range(sessions[f]) THEN NoSes ELSE encs[c]]
          /\ pend' = [s \in Sessions |-> IF s \in Range(sessions[f]) THEN NoPend ELSE pend[s]]
          /\ UNCHANGED pc /\ \A t \in Threads : FileOf[t] = f => pc[t] = "out"
      BY <1>3 DEF FileRelease, Closing
    <2> SUFFICES ASSUME NEW t \in Threads, pc[t] \in Waiting
                 PROVE  /\ pend'[ses'[t]] = [file |-> FileOf[t], ctx |-> ctx'[t]]
                        /\ Found(FileOf[t], ses[t], ctx[t])'
      BY <2>1 DEF CommandsPending
    <2>2. FileOf[t] # f /\ ses[t] # NoSes /\ ses[t] \notin Range(sessions[f])
      BY <1>a, <2>1, OtherFile DEF Waiting, Sessions, NoSes
    <2> QED BY <1>a, <2>1, <2>2 DEF CommandsPending, TypeOK
  <1>4. ASSUME NEW t \in Threads, SessionOpen(t) PROVE CommandsPending'
    <2>1. /\ pc[t] = "out" /\ nextSes \in Sessions
          /\ sessions' = [sessions EXCEPT ![FileOf[t]] = Append(@, nextSes)]
          /\ ses' = [ses EXCEPT ![t] = nextSes] /\ UNCHANGED <<open, encs, ctx, pc, pend>>
      BY <1>4 DEF SessionOpen, TypeOK, Sessions, Calls, encVars
    <2>2. ASSUME NEW f \in Files, sessions[f] # <<>>
          PROVE  sessions'[f] # <<>> /\ Head(sessions'[f]) = Head(sessions[f])
      <3>1. sessions[f] \in Seq(Sessions)
            /\ (f = FileOf[t] => sessions'[f] = Append(sessions[f], nextSes))
            /\ (f # FileOf[t] => sessions'[f] = sessions[f])
        BY <2>1 DEF TypeOK
      <3> QED BY <2>1, <2>2, <3>1, ListAdd
    <2> QED BY <2>1, <2>2 DEF CommandsPending, TypeOK, Waiting
  <1>5. ASSUME NEW t \in Threads, SessionOpenFault(t) PROVE CommandsPending'
    BY <1>1, <1>5 DEF SessionOpenFault, encVars, thrVars
  <1>6. ASSUME NEW t \in Threads, SessionClose(t) PROVE CommandsPending'
    <2>1. /\ pc[t] = "out" /\ ses[t] # NoSes /\ UNCHANGED <<open, ctx, pc>>
          /\ sessions' = [sessions EXCEPT ![FileOf[t]] = RemoveFirst(@, ses[t])]
          /\ encs' = [c \in Ctxs |-> IF encs[c] \in {ses[t]} THEN NoSes ELSE encs[c]]
          /\ pend' = [s \in Sessions |-> IF s \in {ses[t]} THEN NoPend ELSE pend[s]]
          /\ ses' = [ses EXCEPT ![t] = NoSes]
      BY <1>6 DEF SessionClose, Closing, Calls
    <2>2. ASSUME NEW f \in Files, sessions[f] # <<>>, Head(sessions[f]) # ses[t]
          PROVE  sessions'[f] # <<>> /\ Head(sessions'[f]) = Head(sessions[f])
      BY <2>1, <2>2, ListDel DEF TypeOK
    <2>3. \A u \in Threads : pc[u] \in Waiting => u # t /\ ses[u] # ses[t]
      BY <2>1 DEF SessionsOwned, Waiting
    <2> QED BY <1>a, <2>1, <2>2, <2>3 DEF CommandsPending, TypeOK
  <1>7. ASSUME NEW t \in Threads, MemStep(t) PROVE CommandsPending'
    BY <1>7, MemFrame DEF encVars, secVars, CommandsPending, Waiting, TypeOK
  <1>8. ASSUME NEW t \in Threads, Encode(t) PROVE CommandsPending'
    <2>1. PICK c \in Ctxs :
            /\ pc[t] = "out" /\ encs[c] = NoSes
            /\ encs' = [encs EXCEPT ![c] = ses[t]] /\ ctx' = [ctx EXCEPT ![t] = c]
            /\ UNCHANGED <<listVars, ses, pc, pend>>
      BY <1>8 DEF Encode, Calls, secVars
    <2>2. \A u \in Threads : pc[u] \in Waiting => ctx[u] # c /\ u # t
      <3> SUFFICES ASSUME NEW u \in Threads, pc[u] \in Waiting PROVE ctx[u] # c /\ u # t
        OBVIOUS
      <3>1. encs[ctx[u]] = ses[u] /\ ses[u] # NoSes
        BY <1>a DEF ContextsOwned
      <3> QED BY <2>1, <3>1 DEF Waiting
    <2> QED BY <1>a, <2>1, <2>2 DEF CommandsPending, TypeOK
  <1>9. ASSUME NEW t \in Threads, OperationRelease(t) PROVE CommandsPending'
    <2>1. /\ pc[t] = "out" /\ ctx[t] # None
          /\ encs' = [encs EXCEPT ![ctx[t]] = NoSes]
          /\ ctx' = [ctx EXCEPT ![t] = None] /\ UNCHANGED <<listVars, ses, pc, pend>>
      BY <1>9 DEF OperationRelease, Calls, secVars
    <2>2. \A u \in Threads : pc[u] \in Waiting => u # t /\ ctx[u] # ctx[t]
      BY <1>a, <2>1 DEF ContextsOwned, SessionsOwned, Waiting, Sessions, NoSes, TypeOK
    <2> QED BY <1>a, <2>1, <2>2 DEF CommandsPending, TypeOK
  <1>10. ASSUME NEW t \in Threads, SendStep(t) PROVE CommandsPending'
    <2>1. UNCHANGED <<listVars, encs, ctx, ses>> /\ \A u \in Threads \ {t} : pc'[u] = pc[u]
      BY <1>10, SendFrame DEF thrVars, TypeOK
    <2>2. ASSUME NEW u \in Threads \ {t}, pc'[u] \in Waiting
          PROVE  /\ pend'[ses'[u]] = [file |-> FileOf[u], ctx |-> ctx'[u]]
                 /\ Found(FileOf[u], ses[u], ctx[u])'
      <3>1. ses[u] # ses[t] /\ ses[u] \in Sessions
        BY <1>a, <2>1, <2>2 DEF SessionsOwned, Sessions, NoSes
      <3> QED BY <1>10, <2>1, <2>2, <3>1, PendFrame DEF CommandsPending
    <2>3. ASSUME pc'[t] \in Waiting
          PROVE  /\ pend'[ses'[t]] = [file |-> FileOf[t], ctx |-> ctx'[t]]
                 /\ Found(FileOf[t], ses[t], ctx[t])'
      <3>1. CASE SendPending(t)
        <4>1. /\ pend' = [pend EXCEPT ![ses[t]] = [file |-> FileOf[t], ctx |-> ctx[t]]]
              /\ Found(FileOf[t], ses[t], ctx[t]) /\ pc[t] = "send"
          BY <3>1 DEF SendPending, Step
        <4>2. ses[t] \in Sessions
          BY <4>1 DEF ContextsOwned, TypeOK, InSend
        <4> QED BY <2>1, <4>1, <4>2 DEF TypeOK
      <3>2. CASE Wake(t) \/ Relock(t)
        <4>1. pc[t] \in Waiting /\ UNCHANGED pend
          BY <3>2 DEF Wake, Relock, Step, Waiting, secVars
        <4> QED BY <2>1, <4>1 DEF CommandsPending
      <3> QED BY <1>10, <2>3, <3>1, <3>2
          DEF SendStep, SendCall, SendLock, SendFails, SendSync, Resume, Signal, SendReturn,
              Step, Waiting, TypeOK
    <2> QED BY <2>2, <2>3 DEF CommandsPending
  <1>11. CASE NoteStep
    BY <1>1, <1>11, NoteFrame DEF thrVars
  <1> QED BY <1>1, <1>2, <1>3, <1>4, <1>5, <1>6, <1>7, <1>8, <1>9, <1>10, <1>11, Steps
          DEF vars, thrVars, encVars, secVars

(* The lock of the send ioctl is held in its critical sections. *)
LEMMA LockStep ==
    ASSUME TypeOK, SendExclusive, [Next]_vars PROVE SendExclusive'
  <1> USE ClientAssumption DEF SendExclusive
  <1>1. CASE UNCHANGED <<lock, pc, lapses>>
    BY <1>1
  <1>2. ASSUME NEW t \in Threads, MemStep(t) PROVE SendExclusive'
    BY <1>2, MemFrame DEF TypeOK
  <1>3. ASSUME NEW t \in Threads, SendStep(t) PROVE SendExclusive'
    <2>1. CASE SendCall(t) \/ Wake(t)
      BY <2>1 DEF SendCall, Wake, Step, TypeOK
    <2>2. CASE SendLock(t) \/ Relock(t)
      BY <2>2 DEF SendLock, Relock, Step, TypeOK
    <2>3. CASE SendFails(t) \/ SendSync(t) \/ Resume(t)
      BY <2>3 DEF SendFails, SendSync, Resume, Step, TypeOK
    <2>4. CASE SendPending(t) \/ SendReturn(t)
      BY <2>4 DEF SendPending, SendReturn, Step, TypeOK
    <2>5. CASE Signal(t)
      BY <2>5 DEF Signal
    <2> QED BY <1>3, <2>1, <2>2, <2>3, <2>4, <2>5 DEF SendStep
  <1> QED BY <1>1, <1>2, <1>3, NoteFrame, Steps
          DEF vars, FileOpen, FileRelease, SessionOpen, SessionOpenFault, SessionClose, Encode,
              OperationRelease
-----------------------------------------------------------------------------
(* The notification *)

(* Without a lapse, flags and notifications are for threads that wait. *)
LEMMA FlagsStep ==
    ASSUME TypeOK, SessionsOwned, ContextsOwned, CommandsPending, FlagsForWaiters,
           NoteHasWaiter, Next, lapses' = {}
    PROVE  FlagsForWaiters'
  <1> USE ClientAssumption
  <1>a. nextSes \in Int /\ \A s \in Sessions \cup {NoSes} : s \in Int
    BY DEF TypeOK, Sessions, NoSes
  <1>b. \A t \in Threads : ctx[t] # None =>
            ctx[t] \in Ctxs /\ ses[t] \in Sessions /\ ses[t] # NoSes
    BY DEF ContextsOwned, TypeOK
  <1>c. \A t, u \in Threads : ctx[t] = ctx[u] /\ ctx[t] # None => t = u
    BY DEF ContextsOwned, SessionsOwned
  <1>d. \A t \in Threads : pc[t] \in Waiting => ctx[t] # None
    BY DEF ContextsOwned, Waiting, InSend
  <1>1. CASE UNCHANGED <<ses, ctx, pc, flag, ready, pend, sgi, note, nextSes>>
    BY <1>1 DEF FlagsForWaiters
  <1>2. ASSUME NEW f \in Files, FileOpen(f) PROVE FlagsForWaiters'
    BY <1>1, <1>2 DEF FileOpen, encVars, thrVars
  <1>3. ASSUME NEW f \in Files, FileRelease(f) PROVE FlagsForWaiters'
    <2>1. /\ ses' = [t \in Threads |-> IF FileOf[t] = f THEN NoSes ELSE ses[t]]
          /\ ctx' = [t \in Threads |-> IF FileOf[t] = f THEN None ELSE ctx[t]]
          /\ pend' = [s \in Sessions |-> IF s \in Range(sessions[f]) THEN NoPend ELSE pend[s]]
          /\ ready' = ready \ Range(sessions[f])
          /\ UNCHANGED <<pc, flag, sgi, nextSes>> /\ note' \in {note, NoNote}
          /\ \A t \in Threads : FileOf[t] = f => pc[t] = "out"
      BY <1>3 DEF FileRelease, Closing
    <2>a. note'.ses < nextSes' /\ (note'.ses # NoSes => note' = note)
      BY <1>a, <2>1 DEF FlagsForWaiters, NoNote, NoSes, TypeOK, Notes
    <2>2. \A t \in Threads : FileOf[t] # f /\ ses[t] # NoSes =>
            /\ ses'[t] = ses[t] /\ ctx'[t] = ctx[t]
            /\ (ses[t] \in ready => ses[t] \in ready')
      BY <2>1, OtherFile
    <2>3. \A s \in Sessions : pend'[s] # NoPend =>
            \E t \in Threads : ses'[t] = s /\ pc'[t] \in Waiting
      BY <1>b, <1>d, <2>1, <2>2 DEF FlagsForWaiters, Waiting
    <2>4. ASSUME NEW t \in Threads, FileOf[t] = f
          PROVE  ses'[t] = NoSes /\ ctx'[t] = None /\ pc'[t] = "out"
      BY <2>1, <2>4
    <2>5. ASSUME NEW t \in Threads, FileOf[t] # f, ses[t] = NoSes
          PROVE  ses'[t] = NoSes /\ ctx'[t] = None /\ pc'[t] \notin {"relock", "resume"}
      BY <1>b, <1>d, <2>1, <2>5 DEF Waiting
    <2> QED BY <2>1, <2>a, <2>2, <2>3, <2>4, <2>5 DEF FlagsForWaiters
  <1>4. ASSUME NEW t \in Threads, SessionOpen(t) PROVE FlagsForWaiters'
    <2>1. /\ ses[t] = NoSes /\ nextSes' = nextSes + 1 /\ pc[t] = "out"
          /\ ses' = [ses EXCEPT ![t] = nextSes]
          /\ UNCHANGED <<ctx, pc, flag, ready, pend, sgi, note>>
      BY <1>4 DEF SessionOpen, Calls, encVars
    <2>2. ctx[t] = None
      BY <2>1 DEF ContextsOwned
    <2>3. ses'[t] = nextSes /\ \A u \in Threads \ {t} : ses'[u] = ses[u]
      BY <2>1 DEF TypeOK
    <2>4. note.ses < nextSes /\ note.ses \in Int
      BY <1>a DEF FlagsForWaiters, TypeOK, Notes
    <2>5. \A s \in Sessions : pend'[s] # NoPend =>
            \E u \in Threads : ses'[u] = s /\ pc'[u] \in Waiting
      BY <2>1, <2>3 DEF FlagsForWaiters, Waiting
    <2> QED BY <1>a, <2>1, <2>2, <2>3, <2>4, <2>5 DEF FlagsForWaiters
  <1>5. ASSUME NEW t \in Threads, SessionOpenFault(t) PROVE FlagsForWaiters'
    <2>1. nextSes' = nextSes + 1 /\ UNCHANGED <<ses, ctx, pc, flag, ready, pend, sgi, note>>
      BY <1>5 DEF SessionOpenFault, thrVars, encVars
    <2>2. note.ses < nextSes + 1
      BY <1>a DEF FlagsForWaiters, TypeOK, Notes
    <2> QED BY <2>1, <2>2 DEF FlagsForWaiters
  <1>6. ASSUME NEW t \in Threads, SessionClose(t) PROVE FlagsForWaiters'
    <2>1. /\ ses[t] # NoSes /\ pc[t] = "out" /\ ctx[t] = None
          /\ ses' = [ses EXCEPT ![t] = NoSes]
          /\ pend' = [s \in Sessions |-> IF s \in {ses[t]} THEN NoPend ELSE pend[s]]
          /\ ready' = ready \ {ses[t]}
          /\ UNCHANGED <<ctx, pc, flag, sgi, note, nextSes>>
      BY <1>6 DEF SessionClose, Closing, Calls
    <2>2. \A u \in Threads \ {t} : ses'[u] = ses[u] /\ ses[u] # ses[t]
      BY <2>1 DEF SessionsOwned, TypeOK
    <2>3. \A s \in Sessions : pend'[s] # NoPend =>
            \E u \in Threads : ses'[u] = s /\ pc'[u] \in Waiting
      BY <2>1, <2>2 DEF FlagsForWaiters, Waiting
    <2>4. ses'[t] = NoSes
      BY <2>1 DEF TypeOK
    <2> QED BY <2>1, <2>2, <2>3, <2>4 DEF FlagsForWaiters
  <1>7. ASSUME NEW t \in Threads, MemStep(t) PROVE FlagsForWaiters'
    BY <1>7, MemFrame DEF encVars, secVars, FlagsForWaiters, Waiting
  <1>8. ASSUME NEW t \in Threads, Encode(t) PROVE FlagsForWaiters'
    <2>1. PICK c \in Ctxs :
            /\ pc[t] = "out" /\ encs[c] = NoSes
            /\ flag' = [flag EXCEPT ![c] = FALSE] /\ ctx' = [ctx EXCEPT ![t] = c]
            /\ UNCHANGED <<ses, pc, ready, pend, sgi, note, nextSes>>
      BY <1>8 DEF Encode, Calls, secVars
    <2>2. \A u \in Threads \ {t} : ctx'[u] = ctx[u] /\ (ctx[u] # None => flag'[ctx[u]] = flag[ctx[u]])
      BY <1>b, <2>1 DEF ContextsOwned, TypeOK
    <2>3. ctx'[t] = c /\ flag'[c] = FALSE
      BY <2>1 DEF TypeOK
    <2> QED BY <1>d, <2>1, <2>2, <2>3 DEF FlagsForWaiters, Waiting
  <1>9. ASSUME NEW t \in Threads, OperationRelease(t) PROVE FlagsForWaiters'
    <2>1. /\ pc[t] = "out" /\ ctx' = [ctx EXCEPT ![t] = None]
          /\ UNCHANGED <<flag, ses, pc, ready, pend, sgi, note, nextSes>>
      BY <1>9 DEF OperationRelease, Calls, secVars
    <2>2. ctx'[t] = None /\ \A u \in Threads \ {t} : ctx'[u] = ctx[u]
      BY <2>1 DEF TypeOK
    <2> QED BY <2>1, <2>2 DEF FlagsForWaiters
  <1>10. ASSUME NEW t \in Threads, SendStep(t) PROVE FlagsForWaiters'
    <2>1. /\ UNCHANGED <<ses, ctx, nextSes>> /\ \A u \in Threads \ {t} : pc'[u] = pc[u]
      BY <1>10, SendFrame DEF thrVars, TypeOK
    <2>2. UNCHANGED <<sgi, note>>
      BY <1>10 DEF SendStep, SendCall, SendLock, SendFails, SendSync, SendPending, Wake,
                   Relock, Resume, Signal, SendReturn, secVars
    <2>3. ctx[t] # None /\ ses[t] \in Sessions /\ ses[t] # NoSes
      <3>1. pc[t] \in InSend \/ ctx[t] # None
        BY <1>10 DEF SendStep, SendCall, SendLock, SendFails, SendSync, SendPending, Wake,
                    Relock, Resume, Signal, SendReturn, Step, InSend
      <3> QED BY <1>b, <3>1 DEF ContextsOwned
    <2>4. \A u \in Threads \ {t} : ses[u] # ses[t]
      BY <2>3 DEF SessionsOwned
    <2>5. \A u \in Threads \ {t} : ctx[u] # None => flag'[ctx[u]] = flag[ctx[u]]
      <3>1. UNCHANGED flag \/ flag' = [flag EXCEPT ![ctx[t]] = FALSE]
        BY <1>10 DEF SendStep, SendCall, SendLock, SendFails, SendSync, SendPending, Wake,
                    Relock, Resume, Signal, SendReturn, encVars
      <3> QED BY <1>b, <1>c, <3>1 DEF TypeOK
    <2>6. \A u \in Threads \ {t} : ses[u] \in ready => ses[u] \in ready'
      BY <1>10, <2>4, PendFrame DEF TypeOK
    <2>7. ASSUME NEW u \in Threads \ {t}
          PROVE  /\ ctx'[u] # None /\ flag'[ctx'[u]] => pc'[u] = "wait" /\ ses'[u] \in ready'
                 /\ pc'[u] \in {"relock", "resume"} => ses'[u] \in ready'
                 /\ sgi' /\ note'.ses # NoSes /\ ses'[u] = note'.ses =>
                    /\ pc'[u] = "wait" /\ ctx'[u] = note'.ctx /\ ~flag'[ctx'[u]]
                    /\ ses'[u] \in ready'
      <3>1. pc[u] = "wait" => ctx[u] # None
        BY <1>d DEF Waiting
      <3> QED BY <2>1, <2>2, <2>5, <2>6, <3>1 DEF FlagsForWaiters
    <2>8. ASSUME NEW s \in Sessions \ {ses[t]}, pend'[s] # NoPend
          PROVE  \E u \in Threads : ses'[u] = s /\ pc'[u] \in Waiting
      <3>1. PICK u \in Threads : ses[u] = s /\ pc[u] \in Waiting
        BY <1>10, <2>8, PendFrame DEF FlagsForWaiters
      <3> QED BY <2>1, <3>1
    <2>9. SUFFICES
            /\ pend'[ses[t]] # NoPend => pc'[t] \in Waiting
            /\ flag'[ctx[t]] => pc'[t] = "wait" /\ ses[t] \in ready'
            /\ pc'[t] \in {"relock", "resume"} => ses[t] \in ready'
            /\ sgi /\ ses[t] = note.ses =>
                    pc'[t] = "wait" /\ ctx[t] = note.ctx /\ ~flag'[ctx[t]] /\ ses[t] \in ready'
      BY <2>1, <2>2, <2>3, <2>7, <2>8 DEF FlagsForWaiters
    <2>a. /\ pend[ses[t]] # NoPend => pc[t] \in Waiting
          /\ flag[ctx[t]] => pc[t] = "wait" /\ ses[t] \in ready
          /\ pc[t] \in {"relock", "resume"} => ses[t] \in ready
          /\ sgi /\ ses[t] = note.ses =>
                  pc[t] = "wait" /\ ctx[t] = note.ctx /\ ~flag[ctx[t]] /\ ses[t] \in ready
      BY <2>3, <2>4 DEF FlagsForWaiters
    <2>b. CASE SendCall(t) \/ SendLock(t) \/ SendFails(t) \/ SendSync(t) \/ SendReturn(t)
      <3>1. /\ UNCHANGED <<flag, ready, pend>> /\ pc[t] \in {"out", "lock", "send", "ret"}
        BY <2>b DEF SendCall, SendLock, SendFails, SendSync, SendReturn, Step, encVars, secVars
      <3>2. pc'[t] \in {"out", "lock", "send", "ret"}
        BY <2>b DEF SendCall, SendLock, SendFails, SendSync, SendReturn, Step, TypeOK
      <3> QED BY <2>a, <3>1, <3>2 DEF Waiting
    <2>c. CASE SendPending(t)
      <3>1. UNCHANGED flag /\ pc[t] = "send" /\ pc'[t] = "wait"
        BY <2>c DEF SendPending, Step, encVars, TypeOK
      <3> QED BY <2>a, <3>1 DEF Waiting
    <2>d. CASE Wake(t)
      <3>1. /\ UNCHANGED <<ready, pend>> /\ pc[t] = "wait" /\ pc'[t] = "relock"
            /\ flag[ctx[t]] /\ ~flag'[ctx[t]]
        BY <1>b, <2>3, <2>d DEF Wake, Step, secVars, TypeOK
      <3> QED BY <2>a, <3>1 DEF Waiting
    <2>e. CASE Relock(t)
      <3>1. /\ UNCHANGED <<flag, ready, pend>> /\ pc[t] = "relock" /\ pc'[t] = "resume"
        BY <2>e DEF Relock, Step, secVars, encVars, TypeOK
      <3> QED BY <2>a, <3>1 DEF Waiting
    <2>f. CASE Resume(t)
      <3>1. /\ UNCHANGED flag /\ pc[t] = "resume" /\ pc'[t] = "ret" /\ pend'[ses[t]] = NoPend
        BY <2>3, <2>f DEF Resume, Step, encVars, TypeOK
      <3> QED BY <2>a, <3>1 DEF Waiting
    <2>g. CASE Signal(t)
      BY <2>g DEF Signal
    <2> QED BY <1>10, <2>b, <2>c, <2>d, <2>e, <2>f, <2>g DEF SendStep
  <1>11. ASSUME NEW s \in Sessions, SecNotify(s) PROVE FlagsForWaiters'
    <2>1. /\ pend[s] # NoPend /\ s \notin ready /\ ready' = ready \cup {s}
          /\ UNCHANGED <<ses, ctx, pc, flag, pend, nextSes>>
      BY <1>11 DEF SecNotify, encVars, thrVars
    <2>2. PICK t \in Threads : ses[t] = s /\ pc[t] \in Waiting
      BY <2>1 DEF FlagsForWaiters
    <2>3. pc[t] = "wait" /\ ~flag[ctx[t]] /\ s < nextSes /\ s # NoSes
      BY <1>b, <1>d, <2>1, <2>2 DEF FlagsForWaiters, Waiting, SessionsOwned
    <2>4. pend[s].ctx = ctx[t]
      <3>1. pend[s] = [file |-> FileOf[t], ctx |-> ctx[t]]
        BY <2>2 DEF CommandsPending
      <3> QED BY <3>1
    <2>5. \A u \in Threads : ses[u] = s => u = t
      BY <2>2, <2>3 DEF SessionsOwned
    <2>6. sgi' /\ note'.ses = s /\ note'.ctx = ctx[t]
      <3>1. reg
        BY <1>11 DEF SecNotify
      <3> QED BY <1>11, <2>4, <3>1 DEF SecNotify
    <2>7. /\ \A r \in Sessions : pend'[r] # NoPend =>
                \E u \in Threads : ses'[u] = r /\ pc'[u] \in Waiting
          /\ \A u \in Threads :
                /\ ctx'[u] # None /\ flag'[ctx'[u]] => pc'[u] = "wait" /\ ses'[u] \in ready'
                /\ pc'[u] \in {"relock", "resume"} => ses'[u] \in ready'
      BY <2>1 DEF FlagsForWaiters
    <2>8. note'.ses < nextSes'
      BY <2>1, <2>3, <2>6
    <2>9. ASSUME NEW u \in Threads, ses'[u] = note'.ses
          PROVE  pc'[u] = "wait" /\ ctx'[u] = note'.ctx /\ ~flag'[ctx'[u]] /\ ses'[u] \in ready'
      <3>1. u = t
        BY <2>1, <2>5, <2>6, <2>9
      <3> QED BY <2>1, <2>2, <2>3, <2>6, <3>1
    <2> QED BY <2>7, <2>8, <2>9 DEF FlagsForWaiters
  <1>12. CASE Ipi
    <2>1. ~sgi' /\ sgi /\ UNCHANGED <<ses, ctx, pc, ready, pend, nextSes, note>>
      BY <1>12 DEF Ipi, thrVars
    <2>a. note # NoNote
      <3>1. PICK t \in Threads : pc[t] = "wait" /\ ses[t] = note.ses
        BY <2>1 DEF NoteHasWaiter
      <3>2. ses[t] # NoSes
        BY <1>b, <1>d, <3>1 DEF Waiting
      <3> QED BY <3>1, <3>2 DEF NoNote
    <2>2. \/ UNCHANGED flag
          \/ /\ flag' = [flag EXCEPT ![note.ctx] = TRUE] /\ note.ctx # None
             /\ Found(note.file, note.ses, note.ctx)
      BY <1>12, <2>a DEF Ipi
    <2>3. ASSUME NEW t \in Threads, ctx[t] # None, flag'[ctx[t]]
          PROVE  pc[t] = "wait" /\ ses[t] \in ready
      <3>1. CASE flag[ctx[t]]
        BY <2>3, <3>1 DEF FlagsForWaiters
      <3>2. CASE ~flag[ctx[t]]
        <4>1. ctx[t] = note.ctx /\ encs[note.ctx] = note.ses
          BY <1>b, <2>2, <2>3, <3>2 DEF Found, TypeOK
        <4>2. ses[t] = note.ses /\ ses[t] # NoSes
          BY <2>3, <4>1 DEF ContextsOwned
        <4> QED BY <2>1, <4>2 DEF FlagsForWaiters
      <3> QED BY <3>1, <3>2
    <2> QED BY <2>1, <2>3 DEF FlagsForWaiters
  <1> QED BY <1>1, <1>2, <1>3, <1>4, <1>5, <1>6, <1>7, <1>8, <1>9, <1>10, <1>11, <1>12, Steps
          DEF NoteStep

(* Without a lapse, the thread an interrupt is for waits until it comes. *)
LEMMA NoteStays ==
    ASSUME TypeOK, SessionsOwned, ContextsOwned, CommandsPending, FlagsForWaiters,
           NoteHasWaiter, Next, lapses' = {}
    PROVE  NoteHasWaiter'
  <1> USE ClientAssumption
  <1> SUFFICES ASSUME sgi' PROVE \E t \in Threads : pc'[t] = "wait" /\ ses'[t] = note'.ses
    BY DEF NoteHasWaiter
  <1>1. ASSUME NEW s \in Sessions, SecNotify(s)
        PROVE  \E t \in Threads : pc'[t] = "wait" /\ ses'[t] = note'.ses
    <2>1. /\ pend[s] # NoPend /\ s \notin ready /\ UNCHANGED <<ses, pc>> /\ reg
          /\ note' = [file |-> pend[s].file, ses |-> s, ctx |-> pend[s].ctx]
      BY <1>1 DEF SecNotify, thrVars
    <2>2. PICK t \in Threads : ses[t] = s /\ pc[t] \in Waiting
      BY <2>1 DEF FlagsForWaiters
    <2> QED BY <2>1, <2>2 DEF FlagsForWaiters, Waiting
  <1>2. CASE Ipi
    BY <1>2 DEF Ipi
  <1>3. CASE sgi /\ UNCHANGED note
    <2>1. PICK t \in Threads : pc[t] = "wait" /\ ses[t] = note.ses
      BY <1>3 DEF NoteHasWaiter
    <2>2. ctx[t] # None /\ ses[t] # NoSes
      BY <2>1 DEF ContextsOwned, InSend
    <2>3. ~flag[ctx[t]]
      BY <1>3, <2>1, <2>2 DEF FlagsForWaiters
    <2> SUFFICES pc'[t] = "wait" /\ ses'[t] = ses[t]
      BY <1>3, <2>1
    <2>4. ASSUME NEW f \in Files, FileOpen(f) \/ FileRelease(f)
          PROVE  pc'[t] = "wait" /\ ses'[t] = ses[t]
      BY <2>1, <2>4 DEF FileOpen, FileRelease, thrVars
    <2>5. ASSUME NEW u \in Threads,
                 SessionOpen(u) \/ SessionOpenFault(u) \/ SessionClose(u)
          PROVE  pc'[t] = "wait" /\ ses'[t] = ses[t]
      BY <2>1, <2>5 DEF SessionOpen, SessionOpenFault, SessionClose, Calls, thrVars, TypeOK
    <2>6. ASSUME NEW u \in Threads, MemStep(u) PROVE pc'[t] = "wait" /\ ses'[t] = ses[t]
      BY <2>1, <2>6, MemFrame
    <2>7. ASSUME NEW u \in Threads, Encode(u) \/ OperationRelease(u)
          PROVE  pc'[t] = "wait" /\ ses'[t] = ses[t]
      BY <2>1, <2>7 DEF Encode, OperationRelease
    <2>8. ASSUME NEW u \in Threads, SendStep(u) PROVE pc'[t] = "wait" /\ ses'[t] = ses[t]
      <3>1. UNCHANGED ses
        BY <2>8, SendFrame DEF thrVars
      <3>2. CASE u # t
        BY <2>1, <2>8, <3>1, <3>2, SendFrame DEF TypeOK
      <3>3. CASE u = t
        <4>1. ~Wake(t)
          BY <2>3 DEF Wake
        <4>2. ~Signal(t)
          BY DEF Signal
        <4> QED BY <2>1, <2>8, <3>3, <4>1, <4>2
            DEF SendStep, SendCall, SendLock, SendFails, SendSync, SendPending, Relock, Resume,
                SendReturn, Step
      <3> QED BY <3>2, <3>3
    <2> QED BY <1>1, <1>2, <2>1, <2>4, <2>5, <2>6, <2>7, <2>8, Steps, NoteFrame
        DEF NoteStep, thrVars
  <1>4. ASSUME NEW f \in Files, FileRelease(f) PROVE sgi /\ UNCHANGED note
    <2>1. sgi /\ \A t \in Threads : FileOf[t] = f => pc[t] = "out"
      BY <1>4 DEF FileRelease
    <2>2. PICK t \in Threads : pc[t] = "wait" /\ ses[t] = note.ses
      BY <2>1 DEF NoteHasWaiter
    <2>3. FileOf[t] \in open /\ FileOf[t] # f
      BY <2>1, <2>2 DEF CommandsPending, Found, Waiting
    <2> QED BY <1>4, <2>1, <2>3 DEF FileRelease
  <1>5. \/ (sgi /\ UNCHANGED note) \/ Ipi
        \/ \E s \in Sessions : SecNotify(s)
    <2>1. ASSUME NEW f \in Files, FileOpen(f) PROVE sgi /\ UNCHANGED note
      BY <2>1 DEF FileOpen
    <2>2. ASSUME NEW u \in Threads,
                 \/ SessionOpen(u) \/ SessionOpenFault(u) \/ SessionClose(u)
                 \/ Encode(u) \/ OperationRelease(u)
          PROVE  sgi /\ UNCHANGED note
      BY <2>2 DEF SessionOpen, SessionOpenFault, SessionClose, Encode, OperationRelease, secVars
    <2>3. ASSUME NEW u \in Threads, MemStep(u) PROVE sgi /\ UNCHANGED note
      BY <2>3, MemFrame DEF secVars
    <2>4. ASSUME NEW u \in Threads, SendStep(u) PROVE sgi /\ UNCHANGED note
      BY <2>4 DEF SendStep, SendCall, SendLock, SendFails, SendSync, SendPending, Wake, Relock,
                  Resume, Signal, SendReturn, secVars
    <2> QED BY <1>4, <2>1, <2>2, <2>3, <2>4, Steps DEF NoteStep
  <1> QED BY <1>1, <1>2, <1>3, <1>5
-----------------------------------------------------------------------------
(* Shared memory *)

(* The record the address of a thread finds in the list of its file is the  *)
(* thread's own (users of otz_api.c).                                       *)
LEMMA DevRecord ==
    ASSUME TypeOK, BlocksListed, NEW t \in Threads, FileOf[t] \notin TeecFiles,
           pc[t] # "unmapped", NEW b \in First(devMem[FileOf[t]], buf[t].addr)
    PROVE  b = buf[t].blk /\ buf[t].list = "dev"
  <1> USE ClientAssumption
  <1>1. [addr |-> buf[t].addr, blk |-> b] \in Range(devMem[FileOf[t]])
    BY FirstFound DEF TypeOK
  <1>2. PICK u \in Threads : /\ FileOf[u] = FileOf[t] /\ buf[u].list = "dev"
                            /\ [addr |-> buf[t].addr, blk |-> b] = Rec(u)
    BY <1>1 DEF BlocksListed, Listed, DevMemOwned, Apart
  <1>3. buf[u].addr = buf[t].addr /\ buf[u].blk = b
    BY <1>2 DEF Rec
  <1>4. buf[u].addr # None /\ pc[u] # "unmapped"
    BY <1>2 DEF BlocksListed, Listed, DevMemOwned, Apart
  <1>5. u = t
    BY <1>2, <1>3, <1>4 DEF BlocksListed, Listed, DevMemOwned, Apart
  <1> QED BY <1>2, <1>3, <1>5

(* The record the address of a thread finds in the list of its session is   *)
(* the thread's own.                                                        *)
LEMMA SesRecord ==
    ASSUME TypeOK, BlocksListed, NEW t \in Threads, ses[t] # NoSes,
           NEW b \in First(sesMem[ses[t]], buf[t].addr)
    PROVE  b = buf[t].blk /\ buf[t].list = "ses"
  <1>1. [addr |-> buf[t].addr, blk |-> b] \in Range(sesMem[ses[t]])
    BY FirstFound DEF TypeOK
  <1>2. Range(<<Rec(t)>>) = {Rec(t)} /\ Range(<<>>) = {}
    BY OneEntry
  <1>3. CASE buf[t].list = "ses"
    <2>1. sesMem[ses[t]] = <<Rec(t)>>
      BY <1>3 DEF BlocksListed, Listed, DevMemOwned, Apart
    <2>2. [addr |-> buf[t].addr, blk |-> b] = Rec(t)
      BY <1>1, <1>2, <2>1
    <2> QED BY <1>3, <2>2 DEF Rec
  <1>4. CASE buf[t].list # "ses"
    <2>1. sesMem[ses[t]] = <<>>
      BY <1>4 DEF BlocksListed, Listed, DevMemOwned, Apart
    <2> QED BY <1>1, <1>2, <2>1
  <1> QED BY <1>3, <1>4

(* A block stays listed while its thread and its session are left alone. *)
LEMMA ListedStays ==
    ASSUME NEW u \in Threads, Listed(u), buf'[u] = buf[u], ses'[u] = ses[u], pc'[u] = pc[u],
           ses[u] # NoSes => sesMem'[ses[u]] = sesMem[ses[u]]
    PROVE  Listed(u)'
  BY DEF Listed, Rec

(* Two mappings stay apart while both are left alone. *)
LEMMA ApartStays ==
    ASSUME NEW u \in Threads, NEW v \in Threads, Apart(u, v), buf'[u].addr = buf[u].addr,
           buf'[v].addr = buf[v].addr,
           pc[u] = "unmapped" => pc'[u] = "unmapped", pc[v] = "unmapped" => pc'[v] = "unmapped"
    PROVE  Apart(u, v)'
  BY DEF Apart

(* Mapping, moving, freeing and releasing keep every block listed where its *)
(* thread believes it to be.                                                *)
LEMMA BlocksStep ==
    ASSUME TypeOK, SessionsOwned, ContextsOwned, BlocksListed, [Next]_vars
    PROVE  BlocksListed'
  <1> USE ClientAssumption
  <1>1. CASE UNCHANGED <<ses, buf, devMem, sesMem, pc>>
    BY <1>1 DEF BlocksListed, Listed, Apart, SesMemOwned, DevMemOwned, DevMemOnce, Rec
  <1>2. ASSUME NEW f \in Files, FileOpen(f) PROVE BlocksListed'
    BY <1>1, <1>2 DEF FileOpen, memVars, thrVars
  <1>3. ASSUME NEW f \in Files, FileRelease(f) PROVE BlocksListed'
    <2>1. /\ ses' = [t \in Threads |-> IF FileOf[t] = f THEN NoSes ELSE ses[t]]
          /\ buf' = [t \in Threads |-> IF FileOf[t] = f THEN NoBuf ELSE buf[t]]
          /\ devMem' = [devMem EXCEPT ![f] = <<>>]
          /\ sesMem' = [s \in Sessions |-> IF s \in Range(sessions[f]) THEN <<>> ELSE sesMem[s]]
          /\ UNCHANGED pc /\ \A t \in Threads : FileOf[t] = f => pc[t] = "out"
      BY <1>3 DEF FileRelease, Closing
    <2>2. /\ Range(devMem'[f]) = {} /\ IsInjective(devMem'[f])
          /\ \A g \in Files \ {f} : devMem'[g] = devMem[g]
      BY <2>1, OneEntry DEF TypeOK
    <2>3. ASSUME NEW t \in Threads, FileOf[t] = f
          PROVE  /\ ses'[t] = NoSes /\ buf'[t] = NoBuf /\ pc'[t] = "out"
                 /\ buf'[t].addr = None /\ Listed(t)'
      BY <2>1, <2>3 DEF Listed, NoBuf
    <2>4. ASSUME NEW t \in Threads, FileOf[t] # f
          PROVE  ses'[t] = ses[t] /\ buf'[t] = buf[t] /\ pc'[t] = pc[t] /\ Rec(t)' = Rec(t)
      BY <2>1, <2>4 DEF Rec
    <2>5. ASSUME NEW t \in Threads, FileOf[t] # f PROVE Listed(t)'
      <3>1. ses[t] # NoSes => sesMem'[ses[t]] = sesMem[ses[t]]
        BY <2>1, <2>5, OtherFile DEF TypeOK
      <3> QED BY <2>4, <2>5, <3>1, ListedStays DEF BlocksListed
    <2>6. SesMemOwned'
      <3> SUFFICES ASSUME NEW s \in Sessions, \A t \in Threads : ses'[t] # s
                   PROVE  sesMem'[s] = <<>>
        BY DEF SesMemOwned
      <3>1. CASE s \in Range(sessions[f])
        BY <2>1, <3>1
      <3>2. CASE s \notin Range(sessions[f])
        <4>1. \A t \in Threads : ses[t] # s
          BY <2>4, <3>2 DEF SessionsOwned, Sessions, NoSes
        <4> QED BY <2>1, <3>2, <4>1 DEF BlocksListed, SesMemOwned
      <3> QED BY <3>1, <3>2
    <2>7. DevMemOwned'
      BY <2>2, <2>4 DEF BlocksListed, DevMemOwned
    <2>8. ASSUME NEW t \in Threads, NEW u \in Threads PROVE Apart(t, u)'
      <3>1. CASE FileOf[t] = f
        BY <2>3, <3>1 DEF Apart
      <3>2. CASE FileOf[t] # f /\ FileOf[u] # f
        BY <2>4, <3>2, ApartStays DEF BlocksListed
      <3> QED BY <3>1, <3>2 DEF Apart
    <2>9. DevMemOnce'
      BY <2>2 DEF BlocksListed, DevMemOnce
    <2> QED BY <2>3, <2>5, <2>6, <2>7, <2>8, <2>9 DEF BlocksListed
  <1>4. ASSUME NEW t \in Threads, SessionOpen(t) PROVE BlocksListed'
    <2>1. /\ ses[t] = NoSes /\ nextSes \in Sessions /\ ses' = [ses EXCEPT ![t] = nextSes]
          /\ pc[t] = "out" /\ UNCHANGED <<buf, devMem, sesMem, pc>>
      BY <1>4 DEF SessionOpen, memVars, TypeOK, Sessions, Calls
    <2>2. ses'[t] = nextSes /\ \A u \in Threads \ {t} : ses'[u] = ses[u]
      BY <2>1 DEF TypeOK
    <2>3. \A u \in Threads : ses[u] # nextSes
      <3>1. nextSes \in Int /\ nextSes # NoSes
        BY <2>1 DEF Sessions, NoSes
      <3> QED BY <3>1 DEF SessionsOwned, TypeOK, Sessions
    <2>4. sesMem[nextSes] = <<>> /\ buf[t].list # "ses"
      BY <2>1, <2>3 DEF BlocksListed, Listed, SesMemOwned
    <2>5. SesMemOwned'
      <3> SUFFICES ASSUME NEW s \in Sessions, \A u \in Threads : ses'[u] # s
                   PROVE  sesMem[s] = <<>>
        BY <2>1 DEF SesMemOwned
      <3>1. \A u \in Threads : ses[u] # s
        BY <2>1, <2>2 DEF Sessions, NoSes
      <3> QED BY <3>1 DEF BlocksListed, SesMemOwned
    <2>6. Listed(t)'
      BY <2>1, <2>2, <2>4 DEF BlocksListed, Listed
    <2>7. ASSUME NEW u \in Threads \ {t} PROVE Listed(u)'
      BY <2>1, <2>2, ListedStays DEF BlocksListed
    <2>8. ASSUME NEW u \in Threads, NEW v \in Threads PROVE Apart(u, v)'
      BY <2>1, ApartStays DEF BlocksListed
    <2> QED BY <2>1, <2>5, <2>6, <2>7, <2>8 DEF BlocksListed, DevMemOwned, DevMemOnce, Rec
  <1>5. ASSUME NEW t \in Threads, SessionOpenFault(t) PROVE BlocksListed'
    BY <1>1, <1>5 DEF SessionOpenFault, memVars, thrVars
  <1>6. ASSUME NEW t \in Threads, SessionClose(t) PROVE BlocksListed'
    <2>1. /\ ses[t] # NoSes /\ buf[t].list # "ses" /\ ses' = [ses EXCEPT ![t] = NoSes]
          /\ sesMem' = [s \in Sessions |-> IF s \in {ses[t]} THEN <<>> ELSE sesMem[s]]
          /\ UNCHANGED <<buf, devMem, pc>>
      BY <1>6 DEF SessionClose, Closing
    <2>2. ses'[t] = NoSes /\ \A u \in Threads \ {t} : ses'[u] = ses[u] /\ ses[u] # ses[t]
      BY <2>1 DEF SessionsOwned, TypeOK
    <2>3. ASSUME NEW u \in Threads \ {t} PROVE Listed(u)'
      <3>1. ses[u] # NoSes => sesMem'[ses[u]] = sesMem[ses[u]]
        BY <2>1, <2>2 DEF TypeOK
      <3> QED BY <2>1, <2>2, <3>1, ListedStays DEF BlocksListed
    <2>4. Listed(t)'
      BY <2>1, <2>2 DEF BlocksListed, Listed
    <2>5. SesMemOwned'
      BY <2>1, <2>2 DEF BlocksListed, SesMemOwned
    <2>6. ASSUME NEW u \in Threads, NEW v \in Threads PROVE Apart(u, v)'
      BY <2>1, ApartStays DEF BlocksListed
    <2> QED BY <2>1, <2>3, <2>4, <2>5, <2>6 DEF BlocksListed, DevMemOwned, DevMemOnce, Rec
  <1>7. ASSUME NEW t \in Threads, Mmap(t) PROVE BlocksListed'
    <2> DEFINE f == FileOf[t]
    <2>1. PICK a \in Addrs, b \in Blocks \ InUse :
            /\ pc[t] = "out" /\ buf[t] = NoBuf /\ UNCHANGED <<ses, sesMem, pc>>
            /\ \A u \in Threads : FileOf[u] = f /\ pc[u] # "unmapped" => buf[u].addr # a
            /\ devMem' = [devMem EXCEPT ![f] = Append(@, [addr |-> a, blk |-> b])]
            /\ buf' = [buf EXCEPT ![t] = [addr |-> a, blk |-> b, list |-> "dev"]]
      BY <1>7 DEF Mmap, Calls
    <2> DEFINE r == [addr |-> a, blk |-> b]
    <2>2. /\ buf'[t] = [addr |-> a, blk |-> b, list |-> "dev"] /\ Rec(t)' = r
          /\ \A u \in Threads \ {t} : buf'[u] = buf[u] /\ Rec(u)' = Rec(u)
      BY <2>1 DEF TypeOK, Rec
    <2>3. r \in Record /\ r \notin Range(devMem[f])
      <3>1. r \in Record
        BY DEF Record
      <3>2. ASSUME r \in Range(devMem[f]) PROVE r.blk \in InUse
        BY <3>2 DEF InUse
      <3> QED BY <3>1, <3>2
    <2>4. /\ Range(devMem'[f]) = Range(devMem[f]) \cup {r} /\ IsInjective(devMem'[f])
          /\ \A g \in Files \ {f} : devMem'[g] = devMem[g]
      BY <2>1, <2>3, ListAdd DEF BlocksListed, DevMemOnce, TypeOK
    <2>5. Listed(t)'
      <3>1. buf[t].list = "none" /\ a # None /\ b # None
        BY <2>1 DEF NoBuf
      <3> QED BY <2>1, <2>2, <3>1 DEF BlocksListed, Listed
    <2>6. ASSUME NEW u \in Threads \ {t} PROVE Listed(u)'
      BY <2>1, <2>2, ListedStays DEF BlocksListed
    <2>7. DevMemOwned'
      <3> SUFFICES ASSUME NEW g \in Files \ TeecFiles, NEW x \in Range(devMem'[g])
                   PROVE  \E u \in Threads : FileOf[u] = g /\ buf'[u].list = "dev" /\ x = Rec(u)'
        BY DEF DevMemOwned
      <3>1. CASE g = f /\ x = r
        BY <2>2, <3>1
      <3>2. CASE x \in Range(devMem[g])
        <4>1. PICK u \in Threads : FileOf[u] = g /\ buf[u].list = "dev" /\ x = Rec(u)
          BY <3>2 DEF BlocksListed, DevMemOwned
        <4>2. u # t
          BY <2>1, <4>1 DEF NoBuf
        <4> QED BY <2>2, <4>1, <4>2
      <3> QED BY <2>4, <3>1, <3>2
    <2>8. ASSUME NEW u \in Threads, NEW v \in Threads PROVE Apart(u, v)'
      <3>1. CASE u # t /\ v # t
        BY <2>1, <2>2, <3>1, ApartStays DEF BlocksListed
      <3>2. CASE u = t
        BY <2>1, <2>2, <3>2 DEF Apart
      <3>3. CASE v = t
        BY <2>1, <2>2, <3>3 DEF Apart
      <3> QED BY <3>1, <3>2, <3>3
    <2>9. SesMemOwned' /\ DevMemOnce'
      BY <2>1, <2>4 DEF BlocksListed, SesMemOwned, DevMemOnce
    <2> QED BY <2>5, <2>6, <2>7, <2>8, <2>9 DEF BlocksListed
  <1>8. ASSUME NEW t \in Threads, ShmAlloc(t) PROVE BlocksListed'
    <2> DEFINE f == FileOf[t]
    <2>1. PICK b \in First(devMem[f], buf[t].addr) :
            /\ pc[t] = "out" /\ ses[t] # NoSes /\ f \notin TeecFiles /\ UNCHANGED <<ses, pc>>
            /\ devMem' = [devMem EXCEPT ![f] = RemoveFirst(@, [addr |-> buf[t].addr, blk |-> b])]
            /\ sesMem' = [sesMem EXCEPT ![ses[t]] = Append(@, [addr |-> buf[t].addr, blk |-> b])]
            /\ buf' = [buf EXCEPT ![t].list = "ses"]
      BY <1>8 DEF ShmAlloc, Calls
    <2>2. b = buf[t].blk /\ buf[t].list = "dev" /\ Rec(t) = [addr |-> buf[t].addr, blk |-> b]
      BY <2>1, DevRecord DEF Rec
    <2>3. /\ buf'[t].list = "ses" /\ buf'[t].addr = buf[t].addr /\ buf'[t].blk = buf[t].blk
          /\ \A u \in Threads \ {t} : buf'[u] = buf[u]
      BY <2>1 DEF TypeOK
    <2>4. \A u \in Threads : Rec(u)' = Rec(u)
      BY <2>3 DEF Rec
    <2>5. /\ ses[t] \in Sessions /\ sesMem'[ses[t]] = <<Rec(t)>>
          /\ \A s \in Sessions \ {ses[t]} : sesMem'[s] = sesMem[s]
      <3>1. ses[t] \in Sessions /\ sesMem[ses[t]] = <<>>
        BY <2>1, <2>2 DEF BlocksListed, Listed, TypeOK
      <3>2. Append(<<>>, Rec(t)) = <<Rec(t)>>
        BY OneEntry
      <3> QED BY <2>1, <2>2, <3>1, <3>2 DEF TypeOK
    <2>6. /\ Range(devMem'[f]) = Range(devMem[f]) \ {Rec(t)} /\ IsInjective(devMem'[f])
          /\ \A g \in Files \ {f} : devMem'[g] = devMem[g]
      BY <2>1, <2>2, ListDel DEF BlocksListed, DevMemOnce, TypeOK
    <2>7. Listed(t)'
      <3>1. buf[t].addr # None /\ buf[t].blk # None
        BY <2>2 DEF BlocksListed, Listed
      <3> QED BY <2>1, <2>3, <2>4, <2>5, <3>1 DEF Listed
    <2>8. ASSUME NEW u \in Threads \ {t} PROVE Listed(u)'
      <3>1. ses[u] # NoSes => ses[u] \in Sessions \ {ses[t]}
        BY <2>1 DEF SessionsOwned, TypeOK
      <3> QED BY <2>1, <2>3, <2>5, <3>1, ListedStays DEF BlocksListed
    <2>9. DevMemOwned'
      <3> SUFFICES ASSUME NEW g \in Files \ TeecFiles, NEW x \in Range(devMem'[g])
                   PROVE  \E u \in Threads : FileOf[u] = g /\ buf'[u].list = "dev" /\ x = Rec(u)'
        BY DEF DevMemOwned
      <3>1. x \in Range(devMem[g])
        BY <2>6
      <3>2. PICK u \in Threads : FileOf[u] = g /\ buf[u].list = "dev" /\ x = Rec(u)
        BY <3>1 DEF BlocksListed, DevMemOwned
      <3>3. u # t
        BY <2>6, <3>2
      <3> QED BY <2>3, <2>4, <3>2, <3>3
    <2>10. SesMemOwned' /\ DevMemOnce'
      BY <2>1, <2>5, <2>6 DEF BlocksListed, SesMemOwned, DevMemOnce
    <2>11. ASSUME NEW u \in Threads, NEW v \in Threads PROVE Apart(u, v)'
      BY <2>1, <2>3, ApartStays DEF BlocksListed
    <2> QED BY <2>7, <2>8, <2>9, <2>10, <2>11 DEF BlocksListed
  <1>9. ASSUME NEW t \in Threads, ShmUnmap(t) PROVE BlocksListed'
    <2>1. /\ buf[t].list = "ses" /\ pc' = [pc EXCEPT ![t] = "unmapped"]
          /\ UNCHANGED <<ses, buf, devMem, sesMem>>
      BY <1>9 DEF ShmUnmap, memVars, thrVars
    <2>2. pc'[t] = "unmapped" /\ \A u \in Threads \ {t} : pc'[u] = pc[u]
      BY <2>1 DEF TypeOK
    <2>3. ASSUME NEW u \in Threads PROVE Listed(u)'
      BY <2>1, <2>2, ListedStays DEF BlocksListed, Listed, Rec
    <2>4. ASSUME NEW u \in Threads, NEW v \in Threads PROVE Apart(u, v)'
      BY <2>1, <2>2, ApartStays DEF BlocksListed
    <2> QED BY <2>1, <2>3, <2>4 DEF BlocksListed, SesMemOwned, DevMemOwned, DevMemOnce, Rec
  <1>10. ASSUME NEW t \in Threads, ShmFree(t) PROVE BlocksListed'
    <2>1. PICK b \in First(sesMem[ses[t]], buf[t].addr) :
            /\ pc[t] = "unmapped" /\ UNCHANGED <<ses, devMem>>
            /\ sesMem' = [sesMem EXCEPT ![ses[t]] =
                            RemoveFirst(@, [addr |-> buf[t].addr, blk |-> b])]
            /\ buf' = [buf EXCEPT ![t] = NoBuf] /\ pc' = [pc EXCEPT ![t] = "out"]
      BY <1>10 DEF ShmFree
    <2>2. buf[t].list = "ses" /\ ses[t] \in Sessions /\ ses[t] # NoSes /\ sesMem[ses[t]] = <<Rec(t)>>
      BY <2>1 DEF BlocksListed, Listed, TypeOK
    <2>3. Rec(t) = [addr |-> buf[t].addr, blk |-> b]
      BY <2>1, <2>2, SesRecord DEF Rec
    <2>4. /\ sesMem'[ses[t]] = <<>>
          /\ \A s \in Sessions \ {ses[t]} : sesMem'[s] = sesMem[s]
      <3>1. RemoveFirst(<<Rec(t)>>, Rec(t)) = <<>>
        BY OneEntry
      <3> QED BY <2>1, <2>2, <2>3, <3>1 DEF TypeOK
    <2>5. /\ buf'[t] = NoBuf /\ pc'[t] = "out" /\ buf'[t].addr = None
          /\ \A u \in Threads \ {t} : buf'[u] = buf[u] /\ Rec(u)' = Rec(u) /\ pc'[u] = pc[u]
      BY <2>1 DEF TypeOK, Rec, NoBuf
    <2>6. Listed(t)'
      BY <2>1, <2>4, <2>5 DEF Listed, NoBuf
    <2>7. ASSUME NEW u \in Threads \ {t} PROVE Listed(u)'
      <3>1. ses[u] # NoSes => ses[u] \in Sessions \ {ses[t]}
        BY <2>2 DEF SessionsOwned, TypeOK
      <3> QED BY <2>1, <2>4, <2>5, <3>1, ListedStays DEF BlocksListed
    <2>8. DevMemOwned' /\ SesMemOwned' /\ DevMemOnce'
      <3>1. \A u \in Threads : buf[u].list = "dev" => u # t
        BY <2>2
      <3>2. DevMemOwned'
        BY <2>1, <2>5, <3>1 DEF BlocksListed, DevMemOwned
      <3> QED BY <2>1, <2>4, <3>2 DEF BlocksListed, SesMemOwned, DevMemOnce
    <2>9. ASSUME NEW u \in Threads, NEW v \in Threads PROVE Apart(u, v)'
      <3>1. CASE u # t /\ v # t
        BY <2>5, <3>1, ApartStays DEF BlocksListed
      <3>2. CASE u = t \/ v = t
        BY <2>5, <3>2 DEF Apart
      <3> QED BY <3>1, <3>2
    <2> QED BY <2>6, <2>7, <2>8, <2>9 DEF BlocksListed
  <1>11. ASSUME NEW t \in Threads, TeecRelease(t) PROVE BlocksListed'
    <2>1. /\ FileOf[t] \in TeecFiles /\ buf[t].list = "dev" /\ buf' = [buf EXCEPT ![t] = NoBuf]
          /\ UNCHANGED <<ses, devMem, sesMem, pc>> /\ pc[t] = "out"
      BY <1>11 DEF TeecRelease, memVars, Calls
    <2>2. /\ buf'[t] = NoBuf /\ buf'[t].addr = None
          /\ \A u \in Threads \ {t} : buf'[u] = buf[u] /\ Rec(u)' = Rec(u)
      BY <2>1 DEF TypeOK, Rec, NoBuf
    <2>3. Listed(t)'
      BY <2>1, <2>2 DEF BlocksListed, Listed, NoBuf
    <2>4. ASSUME NEW u \in Threads \ {t} PROVE Listed(u)'
      BY <2>1, <2>2, ListedStays DEF BlocksListed
    <2>5. DevMemOwned'
      BY <2>1, <2>2 DEF BlocksListed, DevMemOwned
    <2>6. ASSUME NEW u \in Threads, NEW v \in Threads PROVE Apart(u, v)'
      <3>1. CASE u # t /\ v # t
        BY <2>1, <2>2, <3>1, ApartStays DEF BlocksListed
      <3>2. CASE u = t \/ v = t
        BY <2>2, <3>2 DEF Apart
      <3> QED BY <3>1, <3>2
    <2> QED BY <2>1, <2>3, <2>4, <2>5, <2>6 DEF BlocksListed, SesMemOwned, DevMemOnce
  <1>12. ASSUME NEW t \in Threads, Encode(t) \/ OperationRelease(t) PROVE BlocksListed'
    BY <1>1, <1>12 DEF Encode, OperationRelease, memVars
  <1>13. ASSUME NEW t \in Threads, SendStep(t) PROVE BlocksListed'
    <2>1. UNCHANGED <<ses, buf, devMem, sesMem>>
      BY <1>13, SendFrame DEF thrVars, memVars
    <2>2. \A u \in Threads : pc'[u] = "unmapped" <=> pc[u] = "unmapped"
      <3>1. pc[t] # "unmapped" /\ \E p \in Pcs \ {"unmapped"} : pc' = [pc EXCEPT ![t] = p]
        BY <1>13 DEF SendStep, SendCall, SendLock, SendFails, SendSync, SendPending, Wake,
                    Relock, Resume, Signal, SendReturn, Step, Pcs
      <3> QED BY <3>1 DEF TypeOK
    <2> QED BY <2>1, <2>2
        DEF BlocksListed, Listed, Apart, SesMemOwned, DevMemOwned, DevMemOnce, Rec
  <1>14. CASE NoteStep
    BY <1>1, <1>14, NoteFrame DEF memVars, thrVars
  <1> QED BY <1>1, <1>2, <1>3, <1>4, <1>5, <1>6, <1>7, <1>8, <1>9, <1>10, <1>11, <1>12,
             <1>13, <1>14, Steps DEF vars, memVars, thrVars, MemStep

(* The block a memory reference names stays the one its client has mapped.  *)
LEMMA RefStep ==
    ASSUME TypeOK, ContextsOwned, BlocksListed, SessionRefMapped, [Next]_vars
    PROVE  SessionRefMapped'
  <1> USE ClientAssumption DEF SessionRefMapped, RightBlock
  <1>1. CASE UNCHANGED <<buf, ref>>
    BY <1>1
  <1>2. ASSUME NEW f \in Files, FileRelease(f) PROVE SessionRefMapped'
    BY <1>2 DEF FileRelease
  <1>3. ASSUME NEW t \in Threads, Mmap(t) PROVE SessionRefMapped'
    <2>1. /\ buf[t] = NoBuf /\ UNCHANGED ref
          /\ \A u \in Threads \ {t} : buf'[u] = buf[u]
      BY <1>3 DEF Mmap, TypeOK
    <2>2. FileOf[t] \notin TeecFiles => ref[t] = None
      BY <2>1 DEF NoBuf
    <2> QED BY <2>1, <2>2
  <1>4. ASSUME NEW t \in Threads, ShmAlloc(t) PROVE SessionRefMapped'
    <2>1. UNCHANGED ref /\ \A u \in Threads : buf'[u].blk = buf[u].blk
      BY <1>4 DEF ShmAlloc, TypeOK
    <2> QED BY <2>1
  <1>5. ASSUME NEW t \in Threads, ShmFree(t) \/ TeecRelease(t) PROVE SessionRefMapped'
    <2>1. UNCHANGED ref /\ \A u \in Threads \ {t} : buf'[u] = buf[u]
      BY <1>5 DEF ShmFree, TeecRelease, TypeOK
    <2>2. ref[t] = None
      BY <1>5 DEF ShmFree, TeecRelease, ContextsOwned
    <2> QED BY <2>1, <2>2
  <1>6. ASSUME NEW t \in Threads, Encode(t) PROVE SessionRefMapped'
    <2>1. /\ pc[t] = "out" /\ ctx[t] = None /\ ses[t] # NoSes /\ UNCHANGED buf
          /\ \A u \in Threads \ {t} : ref'[u] = ref[u]
      BY <1>6 DEF Encode, Calls, TypeOK
    <2>2. ASSUME FileOf[t] \notin TeecFiles PROVE ref'[t] = None \/ ref'[t] = buf[t].blk
      <3>1. ref[t] = None
        BY <2>1 DEF ContextsOwned
      <3>2. \/ UNCHANGED ref
            \/ \E b \in First(sesMem[ses[t]], buf[t].addr) \cup
                        First(devMem[FileOf[t]], buf[t].addr) : ref' = [ref EXCEPT ![t] = b]
        BY <1>6 DEF Encode
      <3>3. \A b \in First(sesMem[ses[t]], buf[t].addr) \cup
                     First(devMem[FileOf[t]], buf[t].addr) : b = buf[t].blk
        BY <2>1, <2>2, DevRecord, SesRecord
      <3> QED BY <3>1, <3>2, <3>3 DEF TypeOK
    <2> QED BY <2>1, <2>2
  <1>7. ASSUME NEW t \in Threads, OperationRelease(t) PROVE SessionRefMapped'
    BY <1>7 DEF OperationRelease, TypeOK
  <1> QED BY <1>1, <1>2, <1>3, <1>4, <1>5, <1>6, <1>7, Steps, SendFrame, NoteFrame
          DEF vars, thrVars, FileOpen, SessionOpen, SessionOpenFault, SessionClose, MemStep,
              ShmUnmap

-----------------------------------------------------------------------------
(* The inductive invariant *)

(* The driver as it is loaded, with no file open. *)
LEMMA InitClient == Init => TypeOK /\ ClientInv
  <1> SUFFICES ASSUME Init PROVE TypeOK /\ ClientInv
    OBVIOUS
  <1> USE ClientAssumption DEF Init
  <1>1. TypeOK
    <2>1. /\ pend \in [Sessions -> [file : Files \cup {None}, ctx : Ctxs \cup {None}]]
          /\ note \in Notes
          /\ buf \in [Threads -> [addr : Addrs \cup {None}, blk : Blocks \cup {None},
                                  list : {"none", "dev", "ses"}]]
      BY DEF NoPend, NoBuf, NoNote, Notes
    <2>2. sessions \in [Files -> Seq(Sessions)] /\ devMem \in [Files -> Seq(Record)]
      OBVIOUS
    <2>3. sesMem \in [Sessions -> Seq(Record)] /\ pc \in [Threads -> Pcs]
      BY DEF Pcs
    <2>4. nextSes \in 1 .. MaxSession + 1
      OBVIOUS
    <2> QED BY <2>1, <2>2, <2>3, <2>4 DEF TypeOK
  <1>2. Range(<<>>) = {} /\ IsInjective(<<>>)
    BY OneEntry
  <1>3. SessionsOwned /\ ContextsOwned /\ CommandsPending
    BY <1>2 DEF SessionsOwned, ContextsOwned, CommandsPending, InSend, Waiting
  <1>4. BlocksListed
    BY <1>2 DEF BlocksListed, Listed, Apart, SesMemOwned, DevMemOwned, DevMemOnce, NoBuf, NoSes
  <1>5. FlagsForWaiters /\ NoteHasWaiter
    BY DEF FlagsForWaiters, NoteHasWaiter, NoNote, NoSes
  <1>6. SendExclusive /\ SessionRefMapped
    BY DEF SendExclusive, SessionRefMapped, RightBlock
  <1> QED BY <1>1, <1>3, <1>4, <1>5, <1>6 DEF ClientInv

(* Every step keeps the invariant. *)
LEMMA StepClient == TypeOK /\ ClientInv /\ [Next]_vars => TypeOK' /\ ClientInv'
  <1> SUFFICES ASSUME TypeOK, ClientInv, [Next]_vars PROVE TypeOK' /\ ClientInv'
    OBVIOUS
  <1> USE DEF ClientInv
  <1>1. TypeOK'
    BY TypeStep
  <1>2. SessionsOwned' /\ ContextsOwned' /\ CommandsPending' /\ BlocksListed'
    BY SessionsStep, ContextsStep, CommandsStep, BlocksStep
  <1>3. SendExclusive' /\ SessionRefMapped'
    BY LockStep, RefStep
  <1>4. ASSUME lapses' = {} PROVE FlagsForWaiters' /\ NoteHasWaiter'
    <2>1. lapses = {}
      <3>1. lapses \subseteq lapses'
        BY Steps, MemFrame, NoteFrame
        DEF vars, FileOpen, FileRelease, SessionOpen, SessionOpenFault, SessionClose, Encode,
            OperationRelease, SendStep, SendCall, SendLock, SendFails, SendSync, SendPending,
            Wake, Relock, Resume, Signal, SendReturn
      <3> QED BY <1>4, <3>1
    <2>2. CASE UNCHANGED vars
      BY <2>1, <2>2 DEF FlagsForWaiters, NoteHasWaiter, vars, secVars, encVars, thrVars
    <2>3. CASE Next
      BY <1>4, <2>1, <2>3, FlagsStep, NoteStays
    <2> QED BY <2>2, <2>3
  <1> QED BY <1>1, <1>2, <1>3, <1>4

(* The driver's and the clients' state keeps its types. *)
THEOREM ClientTypeCorrect == Spec => []TypeOK
  BY InitClient, StepClient, PTL DEF Spec

(* The inductive invariant of the driver holds always. *)
THEOREM ClientSound == Spec => []ClientInv
  BY InitClient, StepClient, PTL DEF Spec

(* However many clients send and wait, and as long as no signal ends a      *)
(* wait, only the holder of send_cmd_lock is in a critical section of the   *)
(* send ioctl, which gives the lock up in the middle.                       *)
THEOREM SendIsExclusive == Spec => []SendExclusive
  <1>1. ClientInv => SendExclusive
    BY DEF ClientInv
  <1> QED BY <1>1, ClientSound, PTL

(* Whatever other threads open, close and release, and even after signals,  *)
(* the command a thread waits for stays pending in its session, and the     *)
(* search of ipi_secure_notify finds the thread's context.                  *)
THEOREM WaiterIsReachable == Spec => []WaiterReachable
  <1>1. ClientInv => WaiterReachable
    BY DEF ClientInv, CommandsPending, WaiterReachable, Waiting
  <1> QED BY <1>1, ClientSound, PTL

(* As long as no signal ends a wait and no notification is raised without a *)
(* registered page, a thread that resumes its command has been notified of  *)
(* it, although notifications name contexts by an address that is reused.   *)
THEOREM ResumeIsNotified == Spec => []ResumedWhenReady
  <1>1. ClientInv => ResumedWhenReady
    BY DEF ClientInv, FlagsForWaiters, ResumedWhenReady
  <1> QED BY <1>1, ClientSound, PTL

(* For every user of otz_api.c the pages encoded for the service are the    *)
(* ones mapped at the client's address.                                     *)
THEOREM RefIsMapped == Spec => []SessionRefMapped
  <1>1. ClientInv => SessionRefMapped
    BY DEF ClientInv
  <1> QED BY <1>1, ClientSound, PTL
=============================================================================
