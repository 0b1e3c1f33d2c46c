# Verification of the OpenVirtualization secure kernel

TLA+ models, TLC configurations and TLAPS proofs for the secure kernel
(`src/tzone_sdk/otzone`), the small operating system that runs in the secure
world of an ARM TrustZone processor and serves commands of a Linux in the
non-secure world. Paths below are relative to `src/tzone_sdk/otzone/src`
unless they start with `otz_driver`, `otz_api` or `ns_client_apps`
(`src/tzone_sdk/...`). `PROJECT.json` holds the exact lines of every modelled
definition.

## 1. Inventory

### How the parts interact

A client program opens a session with a service and sends it commands through
ioctls of the Linux driver (`otz_driver/otz_client_main.c`). The driver puts a
command block into memory and executes SMC. The monitor (`arch/arm/armv7/
monitor.S`) copies the registers to `params_stack`, sets `valid_params_flag`
and resumes the secure world, which is always inside `return_secure_api` of the
*dispatcher task*. The dispatcher (`apps/dispatcher_task.c`) executes session
management itself and starts the *service task* of the session for everything
else, then calls `schedule()` until some task has left a reply in
`g_dispatch_data`; the reply goes back with an SMC.

Scheduling is cooperative, on one core. The only preemption is the timer FIQ,
which is taken in either world, and whose handlers run to completion. A service
task may

- return: `handle_task_return` leaves the result and suspends the task;
- sleep: a timer event queues it again;
- go *pending*: `sw_wait_event_async` answers `SMC_PENDING`, so the non-secure
  world goes on. Later a timer handler makes data available and notifies the
  driver (a record in a shared page and a software interrupt); the woken thread
  sends `RESUME_ASYNC_TASK`, and the dispatcher wakes the task;
- call another service: `ipc_api` creates a task, puts the command where SMC
  commands go and waits.

### Components

| Component | State | Operations | What makes it hard | What must hold |
|---|---|---|---|---|
| Tasks and scheduler (`core/task.c`, `global.c`, `scheduler.c`) | task list, ready list, current task, saved contexts | create, destroy, start, suspend, schedule | FIQ handlers queue tasks; the list is intrusive; a lock that does not mask FIQs | no task queued twice, always a task to run, no lock taken twice |
| Dispatcher (`apps/dispatcher_task.c`) | mailbox, reply slot | one branch per command | one slot shared by all tasks | reply belongs to the call, SMC always returns |
| Sessions, IPC, notification (`core/secure_api.c`, `cpu_ipi.c`) | sessions are tasks; notification page | open, close, send, ipc, notify | command blocks on stacks, data freed in steps | callers parked, no use after free, notifications arrive |
| Service tasks and wait queues (`apps/echo_task.c`, `lib/sw_wait.c`, `lib/sw_timer_functions.c`) | wait queue, timers, private data | sync, sleep, async, ipc | wait elements and ids on the stack | the frame lives as long as it is linked |
| Software timers (`core/sw_timer.c`, `cpu_api.c`, `sp804_timer.c`) | event list, `expires_next`, the armed tick, time stamp | create, start, interrupt | the start is interrupted by the handler | sorted list, a tick for every event, in time |
| Monitor (`monitor.S`, `exception_handlers.c`) | banked registers, saved worlds | SMC, FIQ, swi | FIQ in either world | worlds resume where they stopped |
| Linux driver (`otz_client_main.c`) and client libraries (`otz_api/`) | device files, services, sessions, encode contexts, shared memory, static command pointer | 14 ioctls, open, release, mmap, notification interrupt | locks dropped while pending, signals, lookups by address, lists shared by threads | one sender at a time, a waiter is found and woken for its own command, a reference is the client's own memory |
| Parameter streams (`otz_client_encode_*`, `otz_encode_data`, `decode_data`) | request and response buffer, meta entries, offsets | encode, decode on each side | every walk computes the offsets again | what is encoded is what is decoded |
| Hypervisor (`tzhyp*.c`) | guests, boot and scheduling event | boot, acknowledge, schedule | timer driven | guests run in turn |
| Mutexes and semaphores (`lib/sw_semaphores.c`) | lock words, counters | lock, unlock, wait, post | spinning without yielding | exclusion, progress |
| Heaps (`lib/sw_buddy.c`) | bins, node pools, owner and block count of each heap | malloc, free, hand over | nodes run out in the middle of a split | memory is tiled, heaps change hands empty |
| Pages and mappings (`core/mem_mng.c`, `page_table.c`) | two bitmaps, section table, page references | allocate, free, map, unmap | commands hold mappings while they wait and share sections | mapped while in use, pages handed out stay private |
| Access lists (`lib/sw_user_mgmt.c`) | device, group and user lists | set, get, update | nested lists | granted exactly what was set |
| Files and storage (`fs/fat32.c`, `lib/sw_filelib.c`, `otz_tee_internal_storage_api.c`) | FAT image, open files, streams, handles | create, open, read, write, seek, truncate, rename, delete | global cursor into the directory, copies of entries, files found by name, streams run out | a name stands for the bytes written to it |
| TEE crypto and arithmetic (`otz_tee_crypto_api.c`, `otz_tee_arith_api.c`) | operation handles | init, update, final | legal order of calls | handle state |
| ELF loader, board drivers, GUI, applications | – | – | byte layout, registers, bitmaps | – |

The hazards of the code, each at its line, are in `PROJECT.json`.

## 2. Modules

| Module | Content |
|---|---|
| `SecureKernel` | tasks, ready list, scheduler, dispatcher, sessions, IPC, sleeping and pending commands, notification, the driver as environment |
| `TrustedCall` | abstract: what the secure world promises for a service command |
| `KernelCalls` | the refinement mapping: `SecureKernel` implements `TrustedCall` |
| `MCKernel` | `KernelCalls` for TLC |
| `SecureKernelProofs` | theorems about `SecureKernel`: one thing in flight, who is parked for whom, when the secure world is left |
| `KernelCallProofs` | from a call to its answer; the refinement of `TrustedCall` |
| `SwTimer`, `MCTimer`, `SwTimerProofs` | timer events, the one-shot tick and `expires_next`; its instance; theorems |
| `OtzClient`, `MCClient`, `OtzClientProofs` | the Linux driver and the client libraries above it; theorems |
| `ListFacts` | lemmas on lists without duplicates, for the driver's lists and the bins of a heap |
| `Marshal`, `MCMarshal`, `MarshalProofs` | a command's parameters through encoder, service and caller; theorems |
| `BuddyHeap`, `MCHeap`, `BuddyHeapProofs` | one heap of the buddy allocator; theorems |
| `Pages`, `MCPages`, `PagesProofs` | page bitmaps and section mappings; theorems |
| `Storage`, `MCStorage` | persistent objects, streams, FAT image |

The modules meet where the code's parts call each other. `SecureKernel` holds the
driver's side of a call (`otz_smc_call`) as environment; `OtzClient` has the rest
of the driver over a secure world reduced to "a command is pending, then
notified". `Marshal` is one command's data, `Pages` the mappings the same
commands hold, `BuddyHeap` the heap behind `create_task` and the page references
(whose failure is `Faults` in `SecureKernel` and `short` in `Pages`).

Definitions marked "Mutant" are not part of the specification: each is a
plausible mistake in the definition below it, used to confirm that the
properties notice it.

### SecureKernel

*State.* `tasks`, `nextId`, `cur`, `ready` are `struct sw_global`; `state`,
`regs`, `tls`, `wq`, `avail` are fields of `struct sw_task` and of the echo
service's private data (`regs` is reduced to the point where the saved context
continues); `valid` and `params` are `valid_params_flag` and `params_stack`;
`api` is `g_dispatch_data`; `notify`, `notifyReg`, `sgi` are the notification
page, its registration and the pending interrupt; `echoEv`, `sleepEv` count the
timer events of a task that have not expired. `smc`, `opened`, `pend`, `woken`,
`answer`, `smcCmd`, `resumeId` are the driver. `ran` is a history variable: what
the service really returned for a call. `api.call` is history as well.

*Steps.* An action is what runs between two points where a FIQ changes anything
or another task may run: `schedule()` and `otz_ipi` end a step; `sw_sleep` has a
step between starting the timer and suspending the task; the close of a session
has one between freeing the private data and removing the task. `FiqSleep` and
`FiqEcho` are the timer handlers, enabled at any moment, in either world.
`pc = "die"` stands for DIE_NOW and for a wild dereference.

*The driver as environment.* One SMC at a time (`smc_lock`). The constant
`Lapses` says how disciplined the clients are. With `Lapses = {}` a call is made
only when none is pending and a session is closed when its commands are
complete. Each element lifts a restriction: `busy` (calls while another is
pending), `two_async` (two pending commands), `overlap` (a second command on a
session with a pending one), `close_pending`, `unregister` (the notification
page is unregistered while sessions are open), `signal` (a pending wait is
interrupted). The code forbids none of them: they are the conditions under which
it was found to work, or not. Every session is taken to be the first of its
service in its device file, since the driver's lookups find no other one.
`Faults` says which resources may run out: mappings, heap, timer events.

*Abstracted.* Request and response data; what a service computes (any result);
the callee of an IPC is a task that computes or sleeps. The two boot-time events
of the hypervisor do not touch this state.

### SwTimer

`queue` is the active list, `tick` the time for which the one-shot hardware timer
is armed, `expiresNext` the software's record of it. `timer_event_start` in a
task has four steps (`StartEvent`, `StartAdd`, `StartCheck`, `StartProgram`)
between which the FIQ may run; a handler's call of it is one step, because
nothing interrupts a FIQ. The handlers are the three kinds in the repository:
sleep and echo destroy their event, the hypervisor's scheduling event starts a
new one, its boot event starts itself again. `Rounding` is the error of the
shift-and-add conversion to clock cycles, `CounterMod` the width of the tick
counter. The insertion into the list is one step although the code does not
mask FIQs around it.

### TrustedCall and KernelCalls

`TrustedCall` has three variables (stage of a call, what the service returned,
what the client got) and four actions: a command enters, is executed, is
deferred, is answered. `KernelCalls` maps them: a service command is inside while
its SMC is, deferred while it is in `pend`, answered otherwise; the executed
result is the history variable `ran`. `KeepsPromise` is the abstract
specification under this mapping, for every step of every interleaving of
dispatcher, tasks, timers and driver. Calls the dispatcher answers itself are not
service commands.

### OtzClient

`open`, `sessions`, `devMem`, `sesMem`, `encs`, `flag`, `lock`, `note` are the
driver's lists, wait flags, mutex and notification page; `secOpen`, `pend`,
`ready`, `reg`, `sgi` what it sees of the secure world; the rest is each client
thread. An ioctl is one step except the send ioctl, which blocks on
`send_cmd_lock`, and in the wait of `otz_smc_call`, where it gives the lock up.
`Found` is the search that looks at the first session of a service only. Memory
is looked up by user address, which `Mmap` may give out again once it is unmapped;
`otz_shared_memory_release` unmaps before it tells the driver (`ShmUnmap`,
`ShmFree`), `TEEC_ReleaseSharedMemory` never tells it. Each thread uses sessions,
operations and blocks of its own, as the libraries' handles suggest.

`SecNotify` is `notify_ns` down to `invoke_ns_callback`: the interrupt is raised in
any case, the record is written only when the notification page is registered. Any
file that is closed unregisters it for all (`FileRelease`), so that a later
interrupt finds what an earlier notification has left, or, right after `kmalloc`,
anything (`NoNote`). `lapses` is history: a signal has ended a wait (`signal`),
an interrupt has been raised without a registered page (`unregistered`).
`ResumedWhenReady` is claimed until either. Without the second condition TLC
violates it, in 27 steps with two threads: a thread has been notified, and its
context freed and used again; a process closes the device; the interrupt for a
command that became ready meanwhile wakes, by the old record, another thread,
which resumes a command that is not ready.

### Marshal

A buffer is a function from byte positions to the parameter last written there. The
driver's encoders, `otz_encode_data`, `decode_data` and the decoders of the caller
each advance an offset of their own by the same rule (`Step`), but place the data
differently: references, and everything a task encodes for another task, go through
a `u32` pointer to which the byte offset is added (`RefAt`). `WellPlaced` names the
parameters this leaves alone, and the properties are about those. What is written
behind a buffer's end is kept in `wild`, by direction: once the address of a
response reference lies there, `ResponseLands` no longer claims that the service
finds it. A service is taken to write at most the length the client offered.

The driver's check of the room left adds the offset and the length as `u32`
(`Moved`, modulo `Mod`), and the length is then stored in an `int` (`AsInt`). A
length close to 2^32 therefore passes and moves the offset back. For a request
array nothing comes of it, because `copy_from_user` does not copy that much
(`CanCopy`, external) and the call ends with -EFAULT. For a response array nothing
is copied at that point: the parameter is accepted, later ones are placed over
earlier ones, and the service takes the length for that of its buffer. `Unwrapped`
says that this has not happened; `ResponseLands` is claimed for that case, and
`InBuffer` names it as one of the two ways out of the buffer. The caller's decoder
refuses an answer longer than the `int` says (`DecodeFails`).

### BuddyHeap

`bins` are the lists of free blocks in list order (the order decides which block
is split and what coalesces), `current` the allocated ones, `used` the nodes of
the pool. A call runs in steps, one per turn of a loop and per level of a
recursion: `sw_malloc` searches the bins (`NextBin`), takes the last block of the
first bin that has one (`PopTail`, the deepest level of `buddy_get_block`), halves
it on the way back (`Split`) and books it (`Take`); `sw_free` lists the block
(`return_to_pool`), merges neighbours (`MergeFirst`, one turn of `goto restart`)
in one bin after the other (`CoalesceNext`) and takes it off the books (`Freed`).
`want` is the bin the loop is at, `hand` the block between the lists. A heap is
used by its owner only and no call of it yields, so a call is not interrupted by
another one. A block that is dropped because no node is left is recorded in
`lost`; the search then goes on with the next bin. Requests above the largest
block are left out.

### Pages

The two bitmaps with their spare bits, the section table and its reference
counts. A command's buffers (`Layouts`) are mapped by `process_otzapi` in order,
stay mapped while the service waits, and are unmapped at the end; `leaked` counts
the mappings whose user is gone without having unmapped (notifications, context
mismatch, a session closed while its command waits, a replaced notification
page). Sizes are in half pages, because allocation rounds up and giving back
rounds down. `spilled` is history: the search went into the spare bits and a page
beyond the secure RAM was handed out. The code has no guard against that; the
frames then belong to non-secure memory, giving them back clears the bit of one
bitmap only (`sw_phy_addr_free` refuses the address), and from then on the two
bitmaps differ.

The buffers of the layouts and the notification page are allocated by the driver,
which passes the addresses it gets from `virt_to_phys`. The address of a memory
reference is different: `decode_data` takes it from the request, at a place that
need not be the one where the driver wrote it (see `Marshal`), and neither it nor
`__map_to_ns` checks the range. `RefMap` therefore maps any section that is not
coarse, those of the secure RAM included: the entry of a section in use becomes
visible to the non-secure world, and `RefUnmap` removes it under the pages that lie
there. `named` is history: the sections outside the non-secure RAM that references
have named.

What is claimed follows from that. Without condition: no page is handed out twice.
As long as page references could be allocated (`short`): a buffer in use stays
mapped, and references are counted. Until a page beyond the RAM was
handed out (`spilled`): a section of a page handed out is visible only if a
reference named it, so the kernel itself exposes none. Until a reference named any
secure section besides: the pages have frames of their own, taken in the physical
bitmap, and buffers are mapped at their own address.

### Storage

One directory of the FAT image. `fs` holds the image and the globals of `fat32.c`;
its operators are the functions of that file. No call yields, so an API call is one
step, and what interleaves is the calls through several handles. `contents` is
history: the bytes each file should have. The code has flaws that lose data in ways
no property of the whole could survive; the model executes them and records the
first one met in `fs.lapse`: `other entry` (a write through the entry another open
has left in `dir_file_offset`), `boundary` (a chain continued from an uninitialised
variable), `written twice` (the stream layer writes a buffer twice, seen when the
file was longer), `size byte` (the size goes to the entry through a pointer to
bytes, `Stored`, and is not the number of bytes written), `stack` (a read or write
of more than 254 bytes is copied to an array of 255 on the stack, `Copied`), `grown`
(a truncation that makes the file longer leaves the length of its zeros in the
entry), `truncated chain` (one to more than a cluster keeps the first cluster only),
`seek end` (the walk to the end of the file follows FAT entry 0), `found by path`
(the file of another handle truncated, deleted or renamed). The properties speak of
the states before that, and `BeforeLapse` stops exploration there. The documented
effect of `file_truncate` (`fat32.c`, lines 1396-1397: "to be truncated to a size of
precisely length bytes") is lost at `grown`: a file of 1 byte truncated to 3 gets an
entry of size 2, because the zeros are written with their own size. `file_truncate`
is modelled with its growth (`Grow`, one `file_write` for each number of zeros from
the growth down to one) and the chain it rebuilds (`Rechain`), `TEE_SeekObjectData`
with the three origins and negative offsets.

## 3. Runs

| Run | Configuration | Result |
|---|---|---|
| `kernel_safety` | 3 service tasks, 5 calls, all kinds of commands, no lapses | all safety properties and the refinement of `TrustedCall` hold, 184 thousand states |
| `kernel_live` | 2 tasks, 5 calls, `busy` | every SMC returns, every pending command is answered, no notification is lost |
| `kernel_lapses` | 2 tasks, 5 calls, all lapses and faults | the secure world keeps its shape whatever the clients do, 354 thousand states |
| `kernel_two_async` | two pending commands | **violated**: a notification is overwritten |
| `kernel_busy` | a call while another is pending | **violated**: the waiting task is restarted |
| `timer_safety` | 4 events, all handlers | the timer properties hold, 463 thousand states |
| `marshal` | 3 request and 3 response parameters, words of 2 bytes, buffers of 12, lengths modulo 32 | parameters arrive where they are well placed, answers land unless a response length wrapped, 4.5 million states |
| `heap` | 2 blocks of 3 orders, pools of 4 and 2 nodes, 1 task | memory tiled at every step, nodes accounted for, heaps handed over empty, every call returns, 842 thousand states |
| `pages` | 2 tasks, 2 sections of secure and 3 of non-secure memory, requests of half a page and of 2 pages, references to any section | buffers mapped while used, references exact, pages private but where a reference named them, 173 thousand states |
| `client` | 3 threads, 3 processes, 3 sessions, 2 contexts, 2 blocks, 1 address | lock, waiters, wake-ups and references hold, 1.7 million states |
| `client_teec` | 1 thread, 2 blocks, 1 address | **violated**: a reference stands for a released block |
| `storage` | 2 handles, 2 names, 3 clusters of 4 bytes, a "byte" that holds 0 and 1, 2 streams | files as written, readers keep their file, until a flaw is met, 365 thousand states |

*What the properties say.*

- `kernel_safety`: `ReadyShape`, `ReadyLockUncontended` and
  `CommonHeapUncontended` are about state that FIQ handlers share with tasks;
  `ReplyIsForTheCall`, `AnswerIsResult` and `CommandNotOverwritten` about the one
  mailbox and reply slot; `WaitFramesAlive`, `NoUseAfterFree`, `IpcCallerParked`
  and `PendingTaskNotRestarted` about pointers into stacks and freed data;
  `NsOnlyWhenIdle` and `NeverDies` about leaving the secure world and the places
  the code says are never reached; `KeepsPromise` about the call as a whole.
- `client`: `SendExclusive` although the lock is given up in the middle,
  `WaiterReachable` although the lookup sees one session only,
  `ResumedWhenReady` although contexts are named by addresses that are used
  again (as long as every interrupt comes with a record of its own),
  `SessionRefMapped` although memory is.
- `marshal`: `RequestDecoded` and `ResponseLands` compare the walks of three
  programs, `InBuffer` the encoder with the buffer's end.
- `heap`: `Tiled` (every unit is in exactly one block, although neighbours that
  are not buddies are merged and blocks are forgotten), `NodesAccounted`,
  `HandedOverEmpty`, and `CallsReturn` about the loops of search and coalescing.
- `pages`: `HeldMapped`, `RefsExact`, and `OwnPages`, which finds the frames
  through the table the mappings of others share, says that only a reference can
  make a page handed out visible, and that no page beyond the RAM is handed out as
  long as nothing was given back.
- `storage`: `FilesAsWritten` follows directory and FAT and compares with the
  history; `ReadersSeeTheirFile` follows the copy of the entry a handle got when
  it was opened.

*Bounds.* `MaxTask` and `MaxCall` bound identifiers and calls. Three tasks allow a
pending task, an IPC caller and its callee at once; opening a session, making it
pending, calling through another session, resuming and closing fits into five calls
(registration included). `Horizon` bounds the time at which events may still be
started, `Latency` how long a due interrupt is held off. In `timer_safety` the
delays lie on both sides of the counter's width and of the time the interrupt takes,
so that events expire during their own start. In `marshal` arrays of 5 and 7 make
later offsets odd, fill the buffer and put a reference beyond its end, and one of 28
is -4 as an `int`: behind words it wraps the check and moves the offset back; in
`heap` each node pool is smaller than the number of smallest blocks, so that both
run out, and merging of blocks that are not buddies is reached; one task stands for
all, since `h_index` tells owners apart only to find the heap; in `pages` two
buffers of a command and two commands share a section, one section cannot be mapped,
references name each of the others, and a request of a whole section meets the spare
bits; in `client` two threads share a file and its session list, and the single
address is used again, while a process without threads closes the device and opens
it again; in `storage` both streams get lost, lengths lie on both sides of what a
byte holds and of what the stack arrays hold, and truncation reaches a second
cluster (the proportions are those of the code: a cluster is two times the range of
a byte, the arrays are one shorter than it). `MaxSession`, `MaxStray`, `MaxAlloc`,
`MaxLeak`, `MaxFiles`, `MaxInfos`, `LastCluster` and `DirSlots` only end the
exploration.

*Constraints.* `BeforeSignal` (`client`), `ReferencesFound` (`pages`) and
`BeforeLapse` (`storage`) let TLC reach, and not continue, the states from which
a property is no longer claimed: a wait ended by a signal, a page reference that
could not be allocated, a flaw of the file system. `CodeStays` (`pages`) does so
where a reference named section 0, whose unmapping takes the kernel's own code
away.

*Symmetry.* Threads of one process, contexts, blocks, tasks, handles, names and
data are interchangeable; no run with symmetry checks liveness.

*Deadlock.* `client`, `heap`, `pages` and `storage` never stop and are checked for
deadlock. The other models stop when the bound on calls or time is reached or the
command is done, so deadlock checking is off; that the system does not get stuck is
what `SmcReturns`, `PendingAnswered` and `EventRuns` say.

*Fairness* (`FairSpec`). The core goes on executing the dispatcher and the
running task, the hardware timer expires, the non-secure kernel takes its
interrupt and runs a thread it has woken: weak fairness of these actions, one by
one for the timers. No fairness for clients: they may stop at any time. In
`SwTimer` the core executes the task and the interrupt, and time passes. In
`BuddyHeap` a call that has begun runs on, because nothing in it waits; nobody
has to call.

### The findings

- *Lost notification.* One record and one interrupt bit for all pending commands.
- *Busy driver.* `otz_smc_call` keeps the command block in a static variable
  that the next caller replaces, while `send_cmd_lock` and `smc_lock` are free
  during the wait. The resume then carries the original command.
- *Released memory.* The GlobalPlatform library unmaps a block and leaves its
  record in the driver, which the next lookup of that address finds.

Flaws that the properties are stated around, rather than shown by a run of their
own, are in `PROJECT.json` under hazards, with the property's condition: an
unmappable command answered with success (`AnswerIsResult` fails when `Faults`
contains `"map"`), a tick re-armed beyond an earlier event, the overwritten
duration of the boot event, references behind other parameters and what they
name, response lengths that wrap, bits of the page bitmap beyond the RAM,
interrupts raised while no notification page is registered, which wake whoever has
the context the last record names, and the lapses of the file system.

## 4. Proofs

All theorems hold for every value of the constants that satisfies the module's
assumption (`ConstantsAssumption`, `TimerAssumption`, `ClientAssumption`,
`PagesAssumption`, `MarshalAssumption`, `HeapAssumption`): any number of tasks and
calls, of events and delays, of threads, files and sessions, any sizes of the memory
regions and any layout of the buffers, any number and length of parameters, any
orders, blocks and node pools of a heap. Hypotheses beyond these are named in the
theorem and below. Each inductive invariant was first checked by TLC on the instance
of the matching run.

**SecureKernelProofs.** The ready list, the mailbox and the reply slot have no
protection of their own: they are sound because the secure world has one thing
in flight. `KernelInv` says so. The core is in the non-secure world with nothing
queued and no sleeper (`InNonSecure`); or the dispatcher runs and there is at
most one of a command, a reply, a queued task, a sleeper (`InDispatcher`); or a
service task runs with exactly the dispatcher queued behind it (`InTask`, with
the exception of `sw_sleep`, where the FIQ may have queued the task already).
`ServiceCall` is needed besides: a call that goes pending is a service command,
so that resuming it names a task. `ReadyShape` alone is not inductive: that
`otz_ipi_return` or a FIQ appends a task at most once depends on where every
context continues. The proof has one lemma per action; `InFlight` combines them.
`ReadyListSound`, `ReadyLockFree` and `MailboxSafe` follow.

On top of `KernelInv`, `IpcInv` follows the *active* task: the one that runs, is
queued, or will be queued by its sleep timer. When it was started by `otz_ipi`,
its caller is parked in the middle of `otz_ipi` (`CallersParked`); such a callee
neither waits nor calls (`ContextsMatch`), so the parked caller is the only one;
and a task that is not suspended is active, parked for the active one, or waits
for a notification (`NoneStranded`). Every lapse and fault is allowed.
`IpcCallerParked` is `CallersParked` for the running task; `NsOnlyWhenIdle` is
`NoneStranded` when nobody is active.

**KernelCallProofs.** Effects of the actions are stated once (which command is
taken, who gets the core, what is replied) and used by nine invariants,
each resting on some of the ones before it.

| Invariant | Says | Hypotheses | Gives |
|---|---|---|---|
| `SessionInv` | mailbox, command and active task belong to the session that is called; sessions tasks open for themselves are no client's | none | |
| `ReplyInv` | reply, work in progress and every pending task belong to their call | `NoOverlap` | `ReplyIsForTheCall` |
| `WaiterInv` | sessions and pending calls have their task, with its wait queue initialised | `NoPendingClose` | `NeverDies` |
| `AnswerInv` | a pending call has not been executed, the reply in the slot is the result | `NoOverlap`, `NoMapFault`, no `signal` | `AnswerIsResult` |
| `WaitInv` | one call at most is pending; a linked element belongs to a task inside the wait; a timer runs only for a task that waits for its data | `Patient`, `NoMapFault` | `WaitFramesAlive`, `CommonHeapUncontended`, `PendingTaskNotRestarted` |
| `DataInv` | a call is deferred once; its data is there before its client is told and resumes | none | |
| `RoundInv` | a task says that its call is pending before it leaves the core to wait; a queued task is not inside a wait | none | |
| `TimersAwaited` | a running timer is the only one of its task, and a call waits for it | `NoOverlap`, no `signal` | with `WaiterInv`: `NoUseAfterFree` |
| `NoticeInv` | whoever is pending, or about to be, has a timer running or a notification on the way; one call waits at a time; a block with the RESUME id is of a call that has its data or its answer; without a notification page there is no session | those of `ReplyInv`, `WaiterInv` and `TimersAwaited`, `NoTwoAsync`, `NoMapFault`, `KeepsRegistered` | `NotificationNotLost` |

The hypotheses speak of what clients and resources do, and the code does not
enforce them. They are needed: TLC violates `WaitInv` when `busy`, `signal` or
the fault `map` is allowed, and `WaiterInv` when a client may close a session
with a pending command. `NoOverlap` and `NoPendingClose` are satisfied by every
client that has no call while another is pending, and by those that have
(`busy`) as long as they leave the pending session alone. `Patient` is the
discipline of the driver's users: no call while a command is pending, no signal.
The properties of `WaitInv` need all of it: a call made while another is pending
moves the static pointer `otz_smc_call` writes the RESUME id through, so the
resumption of the first is sent as a new command, which restarts its task. The
invariants below `WaitInv` in the table do without it.
`AnswerIsResult` fails under `map` because `process_otzapi` reports success for
a command it could not map. `KeepsRegistered` excludes `unregister`: a device
file that is closed takes the notification page away from the sessions of the
others, whose next pending command is then never notified; TLC shows that, and
the same for a notification that cannot be mapped. `NotificationNotLost` says
nothing of a call between its SMC and the reply; `Expected` therefore follows it
from the start of the wait, where the timer is started. `TimersAwaited` and
`OneExpected` show that the timer that ends belongs to the one call that is
expected, and `ResumedIds` that its block still names the client's service. The
hypotheses are those of the run `kernel_live`, where clients make other calls
while a command is pending; with a second asynchronous command pending the run
`kernel_two_async` loses a notification.

`KernelKeepsPromise` is the refinement: under `NoOverlap` and `NoMapFault`, when
no signal ends a wait, and with any number of commands pending, every step of
the kernel is, through the mapping of `KernelCalls`, a step of `TrustedCall` or a
stutter. A new call is `Enter`, a task's result is `Execute`,
the reply to the non-secure world is `Answer` or `Defer`, the resumption enters
again; all the others leave the three abstract variables alone. That `Execute`
happens once per call is `AnswerInv`; that the answer is what was executed,
`ReplyInv` and `AnswerInv`; that a call is deferred only once, `DataInv`.

**SwTimerProofs.** `TimerInv` adds to the two properties that an event about to be
inserted is in no list, that it expires before `TIMEVAL_MAX`, and that
`expires_next` differs from `TIMEVAL_MAX` only while a tick is armed or handled:
without that a start could trust a tick that is gone. A lemma about
`timer_queue_add` shows that the insertion keeps the list sorted and duplicate free.
For `LoneEventOnTime` the invariant `LoneInv` says that a recorded `expires_next`
has a tick no later than it, that a lone event has one too, and that an event in the
middle of its start is active or already due; the conversion to clock cycles, its
rounding and the counter's width enter through `CyclesBound`.

**OtzClientProofs.** `ClientInv`: a session, an encode context and a block of shared
memory are in exactly the lists their thread believes they are in, once
(`SessionsOwned`, `ContextsOwned`, `BlocksListed`); the command of a waiting thread
is pending in the first session of its file (`CommandsPending`), which is
`WaiterReachable`; and, while `lapses` is empty, a flag or a notification on its way
is for a thread that waits, whose command is ready (`FlagsForWaiters`), which gives
`ResumedWhenReady`: a context's address may be used again, but not while a
notification for it is on its way. Both conditions are needed: with the page
unregistered the record on its way is an old one, and the thread it names may wait
for another command. `ListFacts` has what the proofs need of appending to and
removing from lists.

**PagesProofs.** `PagesInv`. The references (`NsInv`): the count of a section is the
number of its users plus the mappings left behind, and the entry is visible to the
non-secure world exactly while the count is positive; the proof counts with the
cardinality of the set of users, one lemma per path of a command. The space
(`SpaceInv`): as long as `spilled` is false the two bitmaps are equal and inside the
RAM, so both searches find the same page and every section is mapped at its own
address; before anything was given back the pages taken are an initial segment, so
the count of free pages keeps the search away from the spare bits. That needs
`named` to be empty: when a reference has taken a secure section out of the table,
pages are freed through no entry at all. What holds whatever references name is kept
apart in `SpaceInv`: allocations do not overlap (`Disjoint`), and a section of the
secure world that is visible is one a reference named. A reference to such a section
leaves the buffers' counts alone (`Unnoticed`, `ForeignMapKept`,
`ForeignUnmapKept`). The first formulation of `HeldMapped` and `OwnPages` was found
not to be inductive: after failed loads have fragmented the bitmap, a request is
satisfied from the spare bits although enough pages are free, and TLC confirms it on
an instance with a larger RAM. The properties now say exactly what remains, and
`NothingBeyondRam` that with a bitmap whose search ends at the RAM it cannot happen
before a reference names a secure section.

**MarshalProofs.** Nobody sends the offsets, so the invariant has to name them:
`MarshalInv` says that for each buffer there is one list of offsets (`Laid`: it
begins with zero and each parameter's length leads to the next) from which the
encoder, the service and the caller all take theirs (`Walking`). With it, a well
placed request is where the service will look (`RequestsHeld`), the address of a
response reference stays until the service has read it (`ReferencesHeld`: the
answers written before lie below every later offset, and a reference lies at
its offset or above), and an answer stays until the caller has taken it
(`AnswersHeld`). Between tasks the offsets are multiples of `Word`, and
`MarshalAssumption` (the positions run out before four times the offset reaches
the buffer's end: 12 entries of 16 bytes in 1024) keeps everything inside the
buffer. The first formulation of `ResponseLands` turned out not to follow: the
reference behind a long array is written, and then looked for, beyond the
buffer. TLC confirms that with an array of 7, which the run includes. The order of
offsets that `Laid` states for responses is claimed while no length has wrapped
(`Unwrapped`); requests are always `Unwrapped`, since such a length is never copied.

**BuddyHeapProofs.** `HeapInv` is `Tiled` and `NodesAccounted` at every step of a
call, with what the step relies on (`InCall`: the block in hand is one, of the bin
asked for or a larger one; the block being freed is still on the books) and what
the count of blocks means (`BlocksCounted`: with the stray frees it is the number
of allocated blocks, and a heap nobody owns has the count zero). `Tiled` is
restated over sets: the free, allocated and forgotten blocks and the one in hand
are disjoint sets (`Parts`) whose union is a tiling of the memory. A block may
change from one set to another (`Moved`); `SplitTiling` and `MergeTiling` say that
two halves tile what the whole did and the reverse, wherever the whole begins,
which is why merging neighbours that are no buddies does no harm. They rest on
`Doubling`, 2^(b+1) = 2 * 2^b, which is proved by counting subsets, since
induction over the exponent is out of the provers' reach. That a block is listed
once, whatever place `add_free_area_to_bin` finds for it, is from `ListFacts`; the
count of nodes is by cardinalities. `HandedOverEmpty` needs `BlocksCounted`:
without strays a count of zero means nothing is allocated, and while nobody owns
the heap nothing changes.

*Only model-checked:*

- the liveness properties `SmcReturns`, `PendingAnswered`, `EventRuns` and
  `CallsReturn` (temporal reasoning under fairness is not in the prover's reach);
- `Storage`: cluster chains and the bytes of a file are computed by folds and
  recursive functions, and what those compute needs induction over data.

## 5. Plan

Done: `SecureKernel` and `SwTimer` with proofs; `TrustedCall` and the proof that
it is refined; `OtzClient`, `Pages`, `Marshal` and `BuddyHeap` with proofs;
`Storage` model-checked.

1. `TimeStamp`: the free running counter, its wrap and the time stamp under FIQs.
2. Semaphores under the cooperative scheduler, access lists, guests of the
   hypervisor.

## 6. Not modelled

The instruction-level world switch, second-level page tables and cache maintenance,
cryptography (OpenSSL and big-number code), GUI, ELF loading, boot and the board
drivers (see `PROJECT.json` for each reason); `timer_event_stop`, which nothing
calls; `CONFIG_EMULATE_FIQ` builds, where sleeping is a busy wait; `src/package`
(the MMC driver taken from U-Boot, and build files for packages that are not in the
repository). Of the modelled parts: directories, long names and growing the
directory in the file system, transient objects of the storage API, allocations
above 4 KB.

Most lines of the repository's C files are data: the bitmaps of the virtual
keyboard (`gui/keyboard`) are some 170 of 224 thousand lines. The models
stand for some 6500 lines: about half of `core`, two thirds of the driver, and
the memory, wait, timer, file and storage parts of `lib` and `fs`.
