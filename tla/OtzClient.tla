----------------------------- MODULE OtzClient -----------------------------
(***************************************************************************)
(* The Linux client driver, otz_driver/otz_client_main.c, with the two     *)
(* client libraries as its callers: device files, the sessions of a        *)
(* service, encode contexts, shared memory, the send ioctl that waits for  *)
(* a notification, and the notification interrupt.                         *)
(*                                                                         *)
(* The core that runs the secure world does not preempt kernel code, so an *)
(* ioctl is one step but for the points where it sleeps: the mutex of the  *)
(* send ioctl and the wait for the notification.  The other ioctls'        *)
(* mutexes protect nothing that sleeps and are not modelled; the command   *)
(* block of otz_smc_call is modelled in SecureKernel.  One service stands  *)
(* for all: each has lists of its own.                                     *)
(*                                                                         *)
(* Every thread uses sessions, operations and blocks of its own; threads   *)
(* of one process share the device file and the address space.  A file in  *)
(* TeecFiles is used through otz_tee_api.c, the others through otz_api.c.  *)
(***************************************************************************)
EXTENDS Integers, SequencesExt

CONSTANTS
    Threads,        \* client threads
    Files,          \* device files, one for each process
    FileOf,         \* the file of a thread
    TeecFiles,      \* files used through the GlobalPlatform library
    MaxSession,     \* bound on the sessions opened
    Ctxs,           \* addresses kmalloc returns for encode contexts
    Blocks,         \* page blocks __get_free_pages returns
    Addrs,          \* user addresses mmap returns
    None            \* no thread, context, block or address

Sessions == 1 .. MaxSession
NoSes    == 0
Pcs      == {"out", "lock", "send", "wait", "relock", "resume", "ret", "unmapped"}
NoBuf    == [addr |-> None, blk |-> None, list |-> "none"]
Record   == [addr : Addrs, blk : Blocks]
Notes    == [file : Files \cup {None}, ses : Sessions \cup {NoSes}, ctx : Ctxs \cup {None}]
NoNote   == [file |-> None, ses |-> NoSes, ctx |-> None]    \* as kmalloc returned it

(* A signal has ended a wait; the secure world has raised the interrupt     *)
(* while no notification page was registered.                               *)
Lapses   == {"signal", "unregistered"}

ASSUME ClientAssumption ==
    /\ FileOf \in [Threads -> Files] /\ TeecFiles \subseteq Files
    /\ MaxSession \in Nat
    /\ None \notin Threads \cup Ctxs \cup Blocks \cup Addrs

VARIABLES
    (* the driver *)
    open,       \* dev_file_list
    sessions,   \* sessions_list of a file's service, in order
    devMem,     \* dev_shared_mem_head of a file, in order
    sesMem,     \* shared_mem_list of a session, in order
    encs,       \* the session whose encode_list a context is in
    flag,       \* wait_data.send_wait_flag of a context
    lock,       \* holder of send_cmd_lock
    note,       \* notify_data
    (* the secure world *)
    secOpen,    \* sessions it has open
    pend,       \* the command that waits in a session: its file and context
    ready,      \* sessions whose waiting command has been notified
    reg,        \* the notification page is registered
    sgi,        \* the notification interrupt is pending
    (* a client thread *)
    pc, ses, ctx,
    buf,        \* the shared block the thread has mapped
    ref,        \* the block encoded in its operation
    nextSes,
    lapses      \* what has gone wrong on the way: see Lapses

listVars == <<open, sessions>>
memVars  == <<devMem, sesMem>>
encVars  == <<encs, flag>>
secVars  == <<secOpen, pend, ready, reg, sgi, note>>
thrVars  == <<ses, ctx, buf, ref>>
vars     == <<listVars, memVars, encVars, secVars, thrVars, lock, pc, nextSes, lapses>>

NoPend == [file |-> None, ctx |-> None]

TypeOK ==
    /\ open \subseteq Files /\ sessions \in [Files -> Seq(Sessions)]
    /\ devMem \in [Files -> Seq(Record)] /\ sesMem \in [Sessions -> Seq(Record)]
    /\ encs \in [Ctxs -> Sessions \cup {NoSes}] /\ flag \in [Ctxs -> BOOLEAN]
    /\ lock \in Threads \cup {None}
    /\ secOpen \subseteq Sessions /\ ready \subseteq Sessions
    /\ pend \in [Sessions -> [file : Files \cup {None}, ctx : Ctxs \cup {None}]]
    /\ reg \in BOOLEAN /\ sgi \in BOOLEAN /\ lapses \subseteq Lapses
    /\ note \in Notes
    /\ pc \in [Threads -> Pcs] /\ ses \in [Threads -> Sessions \cup {NoSes}]
    /\ ctx \in [Threads -> Ctxs \cup {None}] /\ ref \in [Threads -> Blocks \cup {None}]
    /\ buf \in [Threads -> [addr : Addrs \cup {None}, blk : Blocks \cup {None},
                            list : {"none", "dev", "ses"}]]
    /\ nextSes \in 1 .. MaxSession + 1

Init ==
    /\ open = {} /\ sessions = [f \in Files |-> <<>>]
    /\ devMem = [f \in Files |-> <<>>] /\ sesMem = [s \in Sessions |-> <<>>]
    /\ encs = [c \in Ctxs |-> NoSes] /\ flag = [c \in Ctxs |-> FALSE]
    /\ lock = None /\ reg = FALSE /\ sgi = FALSE /\ lapses = {}
    /\ secOpen = {} /\ ready = {} /\ pend = [s \in Sessions |-> NoPend]
    /\ note = NoNote
    /\ pc = [t \in Threads |-> "out"] /\ ses = [t \in Threads |-> NoSes]
    /\ ctx = [t \in Threads |-> None] /\ ref = [t \in Threads |-> None]
    /\ buf = [t \in Threads |-> NoBuf]
    /\ nextSes = 1

InUse       == {r.blk : r \in UNION {Range(devMem[f]) : f \in Files}
                              \cup UNION {Range(sesMem[s]) : s \in Sessions}}
Calls(t)    == pc[t] = "out" /\ FileOf[t] \in open

-----------------------------------------------------------------------------
(* Device files. *)

(* otz_client_open registers the notification page, whoever else has. *)
FileOpen(f) ==
    /\ f \notin open
    /\ open' = open \cup {f} /\ reg' = TRUE
    /\ UNCHANGED <<sessions, memVars, encVars, secOpen, pend, ready, sgi, note, thrVars,
                   lock, pc, nextSes, lapses>>

(* The sessions S are closed: the secure world drops them, their contexts   *)
(* and blocks are freed.                                                    *)
Closing(S) ==
    /\ secOpen' = secOpen \ S /\ ready' = ready \ S
    /\ pend' = [s \in Sessions |-> IF s \in S THEN NoPend ELSE pend[s]]
    /\ encs' = [c \in Ctxs |-> IF encs[c] \in S THEN NoSes ELSE encs[c]]
    /\ sesMem' = [s \in Sessions |-> IF s \in S THEN <<>> ELSE sesMem[s]]

(* otz_client_release, when no thread is in a call and no mapping is left:  *)
(* it unregisters the page, for all the other files too, and frees all that *)
(* belongs to the file; with the last file the page goes as well.           *)
FileRelease(f) ==
    LET T == {t \in Threads : FileOf[t] = f}
        S == Range(sessions[f])
    IN  /\ f \in open /\ \A t \in T : pc[t] = "out"
        /\ open' = open \ {f} /\ reg' = FALSE
        /\ Closing(S)
        /\ sessions' = [sessions EXCEPT ![f] = <<>>]
        /\ devMem' = [devMem EXCEPT ![f] = <<>>]
        /\ ses' = [t \in Threads |-> IF t \in T THEN NoSes ELSE ses[t]]
        /\ ctx' = [t \in Threads |-> IF t \in T THEN None ELSE ctx[t]]
        /\ ref' = [t \in Threads |-> IF t \in T THEN None ELSE ref[t]]
        /\ buf' = [t \in Threads |-> IF t \in T THEN NoBuf ELSE buf[t]]
        /\ note' = IF open = {f} THEN NoNote ELSE note
        /\ UNCHANGED <<flag, sgi, lock, pc, nextSes, lapses>>

-----------------------------------------------------------------------------
(* Sessions. *)

(* Mutant: list_add instead of list_add_tail. *)
SessionOpenAtHead(t) ==
    /\ Calls(t) /\ ses[t] = NoSes /\ nextSes <= MaxSession
    /\ nextSes' = nextSes + 1 /\ secOpen' = secOpen \cup {nextSes}
    /\ sessions' = [sessions EXCEPT ![FileOf[t]] = <<nextSes>> \o @]
    /\ ses' = [ses EXCEPT ![t] = nextSes]
    /\ UNCHANGED <<open, memVars, encVars, pend, ready, reg, sgi, note, ctx, buf, ref,
                   lock, pc, lapses>>

(* otz_client_session_open: the secure world answers with an identifier;    *)
(* the session goes to the end of the list.                                 *)
SessionOpen(t) ==
    /\ Calls(t) /\ ses[t] = NoSes /\ nextSes <= MaxSession
    /\ nextSes' = nextSes + 1 /\ secOpen' = secOpen \cup {nextSes}
    /\ sessions' = [sessions EXCEPT ![FileOf[t]] = Append(@, nextSes)]
    /\ ses' = [ses EXCEPT ![t] = nextSes]
    /\ UNCHANGED <<open, memVars, encVars, pend, ready, reg, sgi, note, ctx, buf, ref,
                   lock, pc, lapses>>

(* The identifier cannot be copied to the user: the driver forgets the      *)
(* session, the secure world keeps it.                                      *)
SessionOpenFault(t) ==
    /\ Calls(t) /\ ses[t] = NoSes /\ nextSes <= MaxSession
    /\ nextSes' = nextSes + 1 /\ secOpen' = secOpen \cup {nextSes}
    /\ UNCHANGED <<listVars, memVars, encVars, pend, ready, reg, sgi, note, thrVars,
                   lock, pc, lapses>>

(* otz_client_session_close; the libraries ask for it when the session has  *)
(* no operation and, in otz_api.c, no shared memory left.                   *)
SessionClose(t) ==
    /\ Calls(t) /\ ses[t] # NoSes /\ ctx[t] = None /\ buf[t].list # "ses"
    /\ Closing({ses[t]})
    /\ sessions' = [sessions EXCEPT ![FileOf[t]] = RemoveFirst(@, ses[t])]
    /\ ses' = [ses EXCEPT ![t] = NoSes]
    /\ UNCHANGED <<open, devMem, flag, reg, sgi, note, ctx, buf, ref, lock, pc, nextSes,
                   lapses>>

-----------------------------------------------------------------------------
(* Shared memory. *)

First(q, a) == {q[i].blk : i \in {j \in DOMAIN q :
                    q[j].addr = a /\ \A k \in 1 .. j - 1 : q[k].addr # a}}

(* otz_client_mmap: pages of their own, at an address the process has free. *)
Mmap(t) ==
    \E a \in Addrs, b \in Blocks \ InUse :
        /\ Calls(t) /\ buf[t] = NoBuf
        /\ \A u \in Threads : FileOf[u] = FileOf[t] /\ pc[u] # "unmapped" => buf[u].addr # a
        /\ devMem' = [devMem EXCEPT ![FileOf[t]] = Append(@, [addr |-> a, blk |-> b])]
        /\ buf' = [buf EXCEPT ![t] = [addr |-> a, blk |-> b, list |-> "dev"]]
        /\ UNCHANGED <<listVars, sesMem, encVars, secVars, ses, ctx, ref, lock, pc, nextSes,
                       lapses>>

(* Mutant: the record stays in the list of the file as well. *)
ShmAllocStays(t) ==
    /\ Calls(t) /\ ses[t] # NoSes /\ buf[t].list = "dev" /\ FileOf[t] \notin TeecFiles
    /\ \E b \in First(devMem[FileOf[t]], buf[t].addr) :
        sesMem' = [sesMem EXCEPT ![ses[t]] = Append(@, [addr |-> buf[t].addr, blk |-> b])]
    /\ buf' = [buf EXCEPT ![t].list = "ses"]
    /\ UNCHANGED <<listVars, devMem, encVars, secVars, ses, ctx, ref, lock, pc, nextSes,
                   lapses>>

(* otz_client_shared_mem_alloc moves the record the address finds to the    *)
(* session.                                                                 *)
ShmAlloc(t) ==
    /\ Calls(t) /\ ses[t] # NoSes /\ buf[t].list = "dev" /\ FileOf[t] \notin TeecFiles
    /\ \E b \in First(devMem[FileOf[t]], buf[t].addr) :
        LET r == [addr |-> buf[t].addr, blk |-> b] IN
        /\ devMem' = [devMem EXCEPT ![FileOf[t]] = RemoveFirst(@, r)]
        /\ sesMem' = [sesMem EXCEPT ![ses[t]] = Append(@, r)]
    /\ buf' = [buf EXCEPT ![t].list = "ses"]
    /\ UNCHANGED <<listVars, encVars, secVars, ses, ctx, ref, lock, pc, nextSes, lapses>>

(* otz_shared_memory_release unmaps the block and then has the driver free  *)
(* it; the address is free for another thread in between.                   *)
ShmUnmap(t) ==
    /\ Calls(t) /\ buf[t].list = "ses" /\ ctx[t] = None
    /\ pc' = [pc EXCEPT ![t] = "unmapped"]
    /\ UNCHANGED <<listVars, memVars, encVars, secVars, thrVars, lock, nextSes, lapses>>

(* otz_client_shared_mem_free *)
ShmFree(t) ==
    /\ pc[t] = "unmapped"
    /\ \E b \in First(sesMem[ses[t]], buf[t].addr) :
        sesMem' = [sesMem EXCEPT ![ses[t]] = RemoveFirst(@, [addr |-> buf[t].addr, blk |-> b])]
    /\ buf' = [buf EXCEPT ![t] = NoBuf]
    /\ pc' = [pc EXCEPT ![t] = "out"]
    /\ UNCHANGED <<listVars, devMem, encVars, secVars, ses, ctx, ref, lock, nextSes, lapses>>

(* TEEC_ReleaseSharedMemory only unmaps the block: the driver is not told.  *)
TeecRelease(t) ==
    /\ Calls(t) /\ FileOf[t] \in TeecFiles /\ buf[t].list = "dev" /\ ctx[t] = None
    /\ buf' = [buf EXCEPT ![t] = NoBuf]
    /\ UNCHANGED <<listVars, memVars, encVars, secVars, ses, ctx, ref, lock, pc, nextSes,
                   lapses>>

-----------------------------------------------------------------------------
(* Operations. *)

(* The encode ioctls create the context (prepare_encode); a memory          *)
(* reference is looked up by its user address, in the session's list and    *)
(* then in the file's.                                                      *)
Encode(t) ==
    \E c \in Ctxs :
        /\ Calls(t) /\ ses[t] # NoSes /\ ctx[t] = None /\ encs[c] = NoSes
        /\ encs' = [encs EXCEPT ![c] = ses[t]] /\ flag' = [flag EXCEPT ![c] = FALSE]
        /\ ctx' = [ctx EXCEPT ![t] = c]
        /\ LET own == First(sesMem[ses[t]], buf[t].addr)
               dev == First(devMem[FileOf[t]], buf[t].addr)
           IN  IF own \cup dev = {} THEN UNCHANGED ref
               ELSE \E b \in IF own # {} THEN own ELSE dev : ref' = [ref EXCEPT ![t] = b]
        /\ UNCHANGED <<listVars, memVars, secVars, ses, buf, lock, pc, nextSes, lapses>>

(* otz_client_operation_release *)
OperationRelease(t) ==
    /\ Calls(t) /\ ctx[t] # None
    /\ encs' = [encs EXCEPT ![ctx[t]] = NoSes]
    /\ ctx' = [ctx EXCEPT ![t] = None] /\ ref' = [ref EXCEPT ![t] = None]
    /\ UNCHANGED <<listVars, memVars, flag, secVars, ses, buf, lock, pc, nextSes, lapses>>

-----------------------------------------------------------------------------
(* The send ioctl. *)

Step(t, from, to) == pc[t] = from /\ pc' = [pc EXCEPT ![t] = to]

SendCall(t) ==
    /\ Calls(t) /\ ctx[t] # None /\ Step(t, "out", "lock")
    /\ UNCHANGED <<listVars, memVars, encVars, secVars, thrVars, lock, nextSes, lapses>>

SendLock(t) ==
    /\ lock = None /\ lock' = t /\ Step(t, "lock", "send")
    /\ UNCHANGED <<listVars, memVars, encVars, secVars, thrVars, nextSes, lapses>>

(* The search of otz_client_send_cmd, and of the notification, looks at the *)
(* first session of the service only.                                       *)
Found(f, s, c) ==
    f \in open /\ sessions[f] # <<>> /\ Head(sessions[f]) = s /\ encs[c] = s

SendFails(t) ==
    /\ Step(t, "send", "ret") /\ ~Found(FileOf[t], ses[t], ctx[t])
    /\ UNCHANGED <<listVars, memVars, encVars, secVars, thrVars, lock, nextSes, lapses>>

SendSync(t) ==
    /\ Step(t, "send", "ret") /\ Found(FileOf[t], ses[t], ctx[t])
    /\ UNCHANGED <<listVars, memVars, encVars, secVars, thrVars, lock, nextSes, lapses>>

(* SMC_PENDING: the lock is released for the wait. *)
SendPending(t) ==
    /\ Step(t, "send", "wait") /\ Found(FileOf[t], ses[t], ctx[t])
    /\ pend' = [pend EXCEPT ![ses[t]] = [file |-> FileOf[t], ctx |-> ctx[t]]]
    /\ ready' = ready \ {ses[t]}
    /\ lock' = None
    /\ UNCHANGED <<listVars, memVars, encVars, secOpen, reg, sgi, note, thrVars, nextSes,
                   lapses>>

(* Mutant: the flag is not reset. *)
WakeKeepsFlag(t) ==
    /\ Step(t, "wait", "relock") /\ flag[ctx[t]]
    /\ UNCHANGED <<listVars, memVars, encVars, secVars, thrVars, lock, nextSes, lapses>>

Wake(t) ==
    /\ Step(t, "wait", "relock") /\ flag[ctx[t]]
    /\ flag' = [flag EXCEPT ![ctx[t]] = FALSE]
    /\ UNCHANGED <<listVars, memVars, encs, secVars, thrVars, lock, nextSes, lapses>>

(* Mutant: the lock is not taken again after the wait. *)
RelockSkipped(t) ==
    /\ Step(t, "relock", "resume")
    /\ UNCHANGED <<listVars, memVars, encVars, secVars, thrVars, lock, nextSes, lapses>>

Relock(t) ==
    /\ lock = None /\ lock' = t /\ Step(t, "relock", "resume")
    /\ UNCHANGED <<listVars, memVars, encVars, secVars, thrVars, nextSes, lapses>>

Resume(t) ==
    /\ Step(t, "resume", "ret")
    /\ pend' = [pend EXCEPT ![ses[t]] = NoPend] /\ ready' = ready \ {ses[t]}
    /\ UNCHANGED <<listVars, memVars, encVars, secOpen, reg, sgi, note, thrVars, lock,
                   nextSes, lapses>>

(* A signal ends the wait with -ERESTARTSYS, without the lock. *)
Signal(t) ==
    /\ Step(t, "wait", "ret")
    /\ lapses' = lapses \cup {"signal"}
    /\ UNCHANGED <<listVars, memVars, encVars, secVars, thrVars, lock, nextSes>>

(* The ioctl unlocks the mutex, whether its thread holds it or not. *)
SendReturn(t) ==
    /\ Step(t, "ret", "out")
    /\ lock' = None
    /\ UNCHANGED <<listVars, memVars, encVars, secVars, thrVars, nextSes, lapses>>

-----------------------------------------------------------------------------
(* The secure world: the command that waits in session s is to continue.    *)
(* notify_ns raises the interrupt in any case; set_notify_data fills the    *)
(* record only when a page is registered, so that without one the interrupt *)
(* comes for what an earlier notification left there.                       *)
SecNotify(s) ==
    /\ pend[s] # NoPend /\ s \notin ready
    /\ ready' = ready \cup {s} /\ sgi' = TRUE
    /\ note' = IF reg THEN [file |-> pend[s].file, ses |-> s, ctx |-> pend[s].ctx] ELSE note
    /\ lapses' = IF reg THEN lapses ELSE lapses \cup {"unregistered"}
    /\ UNCHANGED <<listVars, memVars, encVars, secOpen, pend, reg, thrVars, lock, pc, nextSes>>

(* ipi_secure_notify; a record nobody has written since its kmalloc may     *)
(* name anything.                                                           *)
Ipi ==
    /\ sgi /\ sgi' = FALSE
    /\ \E n \in IF note = NoNote THEN Notes ELSE {note} :
        flag' = IF n.ctx # None /\ Found(n.file, n.ses, n.ctx)
                THEN [flag EXCEPT ![n.ctx] = TRUE] ELSE flag
    /\ UNCHANGED <<listVars, memVars, encs, secOpen, pend, ready, reg, note, thrVars, lock,
                   pc, nextSes, lapses>>

Next ==
    \/ \E f \in Files : FileOpen(f) \/ FileRelease(f)
    \/ \E t \in Threads :
        \/ SessionOpen(t) \/ SessionOpenFault(t) \/ SessionClose(t)
        \/ Mmap(t) \/ ShmAlloc(t) \/ ShmUnmap(t) \/ ShmFree(t) \/ TeecRelease(t)
        \/ Encode(t) \/ OperationRelease(t)
        \/ SendCall(t) \/ SendLock(t) \/ SendFails(t) \/ SendSync(t) \/ SendPending(t)
        \/ Wake(t) \/ Relock(t) \/ Resume(t) \/ Signal(t) \/ SendReturn(t)
    \/ \E s \in Sessions : SecNotify(s)
    \/ Ipi

Spec == Init /\ [][Next]_vars

-----------------------------------------------------------------------------
(* Only one client is in the send ioctl's critical section at a time,       *)
(* though it gives the lock up in the middle (no signal having made a       *)
(* thread release a lock it does not hold).                                 *)
SendExclusive ==
    "signal" \notin lapses =>
        \A t \in Threads : pc[t] \in {"send", "resume", "ret"} => lock = t

(* The command a thread waits for is the one pending in its session, and    *)
(* the notification will find the thread's context: opening, closing and    *)
(* releasing by others never hides the session a command waits in, although *)
(* the search sees the first session of the service only.                   *)
WaiterReachable ==
    \A t \in Threads : pc[t] = "wait" =>
        /\ pend[ses[t]] = [file |-> FileOf[t], ctx |-> ctx[t]]
        /\ Found(FileOf[t], ses[t], ctx[t])

(* A thread is woken for its own command: what it goes on to resume has     *)
(* been notified, although notifications name contexts by address, and      *)
(* addresses and flags are used again (no signal having left one set, and   *)
(* no interrupt having come for a record that was not written).             *)
ResumedWhenReady ==
    lapses = {} => \A t \in Threads : pc[t] \in {"relock", "resume"} => ses[t] \in ready

RightBlock(t) == ref[t] # None => ref[t] = buf[t].blk

(* Users of otz_api.c: the pages the service gets for a memory reference    *)
(* are the pages mapped at the client's address, although records are found *)
(* by an address that a thread may free and another map again.              *)
SessionRefMapped == \A t \in Threads : FileOf[t] \notin TeecFiles => RightBlock(t)

(* The same of the GlobalPlatform library, whose header says that           *)
(* TEEC_ReleaseSharedMemory must free the underlying memory.                *)
TeecRefMapped == \A t \in Threads : FileOf[t] \in TeecFiles => RightBlock(t)
=============================================================================
