# HiOS platform: specifications, model checking and proofs

HiOS is the software of a packet-transport switch: some thirty Linux processes (interface
management, L2 protocols, MPLS, routing, alarms, ...) that were derived from Quagga or written
for the product, and a platform library, `lib/`, on which all of them stand. This directory
holds TLA+ specifications of that platform (the shared-memory allocator, the messages built on
it, the threads and signals that bring messages and timer ticks into a process's main loop, and
the timers) and of the two protection protocols that the product was written for: linear
protection (ELPS, `l2/aps`) and ring protection (ERPS, `l2/raps`).

A name in the modules is the name in the source wherever TLA+ allows it. `PROJECT.json` maps
every definition that models code to its lines.

## 1. The system

### How the parts work together

```
 process A                                  process B
 main thread                                receive thread(s)        main thread
   ipc_send_msg_n2 / ipc_sync_send_n2          msgrcv                  thread_fetch
     mem_share_malloc  --- block --->            write(pipe) ------->    quagga_sigevent_process -> high_pre_timer_dotick
     msgsnd(queue of B, offset of block)       SIGALRM handler           select / read(pipe) -> handler
     poll MODULE_ID_REPLY_A  <-----------------------------------------    ipc_send_reply_n1/_n2
     mem_share_free(reply)                                                 mem_share_free(request)
```

A message is a block of one shared segment; only its offset travels through a System V queue.
Whoever ends up with the block frees it: the receiver, the sender when the queue is full, the
caller of a synchronous send for the reply.

| part | source | state | operations |
|---|---|---|---|
| shared-memory allocator | `lib/memshare.c` | pool table, one control entry per block, free list per pool, totals, one semaphore | init, attach, malloc, free, free_bydata |
| messages | `lib/msg_ipc_n.c` | a bounded queue per module, one shared reply queue | send, sync send (drain, send, poll), reply, receive |
| receive threads | `lib/msg_ipc_r.c` | callback table, one pipe | thread start, receive loop, pipe read |
| signals, main loop | `lib/sigevent.c`, `lib/thread.c` | `sig->caught` per signal, `sigmaster.caught` | handler, `quagga_sigevent_process`, `thread_fetch` |
| timers | `lib/hptimer.c` | list ordered by expiry with gaps, temporary list of expired timers | add, delete, tick, timeout |
| memory pools of a process | `lib/mempool.c` | pools of fixed blocks | create, alloc, free |
| VRRP | `vrrp/` | state of each virtual router, timers | advertisement, timeout, up/down |
| BFD, LDP | `mpls/bfd`, `mpls/ldp` | session machines | packets, timeouts |
| linear protection | `l2/aps`, `mpls/mpls_aps` | per session: request, active port, hold-off, wait-to-restore and keepalive timers | port and CFM events, commands, APS packets, timers, messages to the hardware layer |
| ring protection | `l2/raps` | per session: ring state, blocked port, port of the last request, failed ports, five timers; number of enabled sessions | port and CFM events, commands, R-APS packets, timers, messages to the hardware layer |
| LACP, loop detection, LLDP, EFM, CFM, MSTP | `l2/` | protocol machines per port | packets, timers |
| synchronous Ethernet | `clock/synce` | clock sources with quality | SSM messages, WTR timers |
| everything else | `devm`, `ifm`, `ftm`, `alarm`, `ces`, `filem`, routing daemons, vty, snmp, web ... | tables, hardware, vendored code | |

### What is hard in it

* Processes die and come back at any moment (a monitor restarts them), also inside the critical
  section of the allocator. `SEM_UNDO` returns the semaphore, nobody repairs the table.
* `semop` may be interrupted and its result is ignored.
* A synchronous send blocks the whole main thread; two modules can wait for each other; late
  replies lie in a queue that all modules share.
* `SIGALRM` is taken in a receive thread while the main thread reads and clears the same
  counters without a lock; its wake-up message may find the queue full.
* Timer callbacks add and delete timers while the expired ones wait in a temporary list.
* A protection protocol is several nodes that must agree although messages are lost, ports fail at
  one end only and operators interfere; every handler starts and stops timers on its own, and every
  message to the hardware layer may go unanswered in the middle of a handler.

`PROJECT.json` lists these as hazards, each at its line with the properties about it.

### What makes each part correct

* allocator: a block has one owner at a time; the free list is exactly the blocks without
  owner; a free block that is large enough is found; a death costs only what was in hand;
* layout: tables and areas are disjoint, an address leads to its own control entry;
* messages: a block is in one place; a reply reaches the module that asked, and answers what it
  asked; a synchronous send returns; queued messages are served;
* pump: nothing is lost or reordered within a queue, ticks are counted and served;
* timers: each fires at its tick, a deleted one never, and no memory is lost or misused;
* linear protection: both ends come to select the same port, a failed master port is left, the
  hardware forwards what the session selects, a wait has a timer, no timer outlives its session;
* ring protection: the healthy ring is always open somewhere and never at two places for good, one
  failed link cuts nobody off, a node that protects blocks the port that failed, no port stays
  blocked that nobody remembers (but for the nodes whose messages the hardware layer did not answer),
  and the owner that waits has a timer.

## 2. Modules

| module | models | remarks |
|---|---|---|
| `MemShare` | malloc and free as atomic steps on the control tables of all pools | the abstract specification of the allocator; proved about |
| `MemShareProofs` | theorems about `MemShare` | section 5 |
| `MemShareSem` | the same calls store by store, the semaphore, deaths, signals, hand-over of blocks; one pool | refines `MemShare` through `INSTANCE` |
| `MemShareSemProofs` | theorems about `MemShareSem`, the refinement included | section 5 |
| `MemShareLayout` | `mem_share_estimate` iteration by iteration; the lookup of `mem_share_free` | run with the compiled pool table |
| `MemShareLayoutProofs` | theorems about `MemShareLayout` | section 5 |
| `IpcMsg` | the message API between modules | allocation is atomic here, which `MemShareSem` justifies |
| `IpcMsgProofs` | theorems about `IpcMsg` | section 5 |
| `IpcPump` | receive threads, pipe, signal handler, main loop of one process | threads interleave between single loads and stores |
| `IpcPumpProofs` | theorems about `IpcPump` | section 5 |
| `HpTimer` | the timer list of one process | ticks come from `IpcPump`'s `RunTicks` |
| `HpTimerProofs` | theorems about `HpTimer` | section 5 |
| `Elps` | the two ends of a protected link, `l2/aps` | handlers are operators on a session |
| `ElpsProofs` | theorems about `Elps` | section 5 |
| `Erps` | the nodes of one ring, `l2/raps` | handlers are operators on a session |
| `ErpsProofs` | theorems about `Erps` | section 5 |
| `MC...` | constants and symmetry for TLC | |

**MemShare.** `iNext`, `iModule`, `iFirstFree`, `iBlockUsed`, `iBlockFree`, `iUsePeakVa` are the
fields of the control entries and of the pool table, `sta` is the totals entry behind the last
pool. `MallocTake` is the branch of `mem_share_malloc` that hands out a block, with the clamp that
resets counter and list head together; `MallocNull` the three branches that return NULL. `Free`
accepts the first byte of a block in use and leaves everything alone for a repeated free or an
interior address. Left out: the guard bytes (a report only) and `iRealSz`.

**MemShareSem.** Each store of the two functions is a step (`MallocFlow`, `FreeFlow` give the
order). `Crash` can strike between any two; the kernel then applies `adj`, the process's
`SEM_UNDO` value. `DownInterrupted` is `semop` failing with `EINTR`: the caller goes on. `Send`
hands a block to another process the way a message does. `budget` and `snap` are ghosts.
Callers free only what they hold; careless frees are in `MemShare`.

**MemShareLayout.** `EstimateCtl` and `EstimateData` are the bodies of the two loops; `Lookup` is
the search of `mem_share_free` for offsets around the borders of blocks.

**IpcMsg.** `pc[m]` is where the main thread of module `m` is. A handler (`work[m]`) may itself
send and wait. `TrySend` and `TryReply` are one attempt of the `retry` loops; `Poll` is one turn of
the loop of `ipc_sync_send_n1`; `Drain` throws away late replies first. The header field `request`
is a ghost that names the request a message is or answers: the code's `sequence` would be that
field, but it is 0 in every synchronous request and compared nowhere. Left out: messages between
boards (`ipc_send_msg_ha_*`), creation and lookup of queues, `ipc_clear_que_n` (no process asks
for it). An answer is `ipc_send_reply_n2`, which frees the block when its attempts are used up;
`ipc_send_reply_n1` leaves that to its caller, and the callers do it (`ftm_msg.c:546`,
`l2_msg.c:1265`, `snmp_common.c:188`).

**IpcPump.** The process first starts its receive threads (`Start`), as `mpls_ipc_init` does with
two of them, and then its timer and main loop (`Started`). A new thread copies its queue and callback
index from the static `sParVa`, whatever that holds by then (`Enter`); all that keeps the next start
from overwriting it too early is a sleep of 300 ms, which `Waited` stands for: that the new thread
has run by then is an assumption about the scheduler. `caught ++` is a load (`Alarm`) and a store
(`HandlerStore`); the main loop's read and clear are `Count` and `Clear`. `Alarm` happens in
`SigThread`, the first receive thread, which does nothing else meanwhile (`Running`). The tick's
message goes to the queue of `TickThread`. Writes into a full pipe block; with `PipeFails` they may
also fail, and the message is freed, and so may reads, which leave it in the pipe. The two frees of
`ipc_recv_thread_read` are unreachable: a thread's callback index is one that its start entered, and
the senders refuse messages without a header.

**HpTimer.** `node` is the heap, `pTHead`/`iCount` and `tHead`/`tCount` the two lists. `DoTick` is
`high_pre_timer_dotick` up to the call of `high_pre_timer_timeout`, whose loop is `Pop` (take the
head, start the callback), any number of `Add` and `Delete` by the callback, and `Finish`. Owners
forget a one-shot timer's id in its callback, as the processes do (for instance
`elps_wtr_expiry`); the mutant of `NoLeakNoStray` shows what happens otherwise.

**Elps.** A record of `sess` is a `struct elps_sess`: `status` is `current_status`, whose numbers are
the priorities of the enumeration; `hw` is the port that the hardware layer was last told to forward.
Each `elps_local_handle_*` and `elps_aps_handle_*` is an operator that returns the session after it
and its result; `Local` and `Remote` are the two switches of `elps_fsm`, `Conclude` its end: messages
and keepalive timer if the handler succeeded, then the session update, whose failure disables the
session. `hal` says whether a message to the hardware layer is answered; the handlers return early
where the code does. `wire` holds the APS messages to each port, at most `MaxWire`; one that does not
fit is lost, and `Lose` takes any. `down` holds what reports a failure of a port, its link or the CFM
session bound to it. A session that is enabled may fail to send its first message; then it returns
without a keepalive timer. A disabled session may be freed (`Delete`); `stray` notes when a timer still
pointed to it.

**Erps.** Node `n`'s east port and node `n + 1`'s west port are one link. The functions of
`erps_fsm_action.c` repeat a few patterns (`Release`, `Switch`, `Follow`, `GiveUp`, `Yield`, `Revert`),
which are operators; `Handle` is the switch of `erps_fsm`. Up to three messages to the hardware
layer go out in one handler: `fuse` counts down to the one that is not answered, so that every early
return is taken. `block` is what the session believes (`block_interface`), `hw` what the hardware
blocks. The deletion of a CFM session is an event of its own (`CcDelete`), a recovery whatever the
link does. The hardware passes R-APS on through ports that are not blocked, hence `Reach`. One message
per pair of nodes is under way: a request is repeated for ever, and a second copy that overtakes
nothing adds nothing. Deleting the session in the hardware opens its ports.
Two timing assumptions, both about timers against messages: a timer that expires, or an operator who
enables a node, finds no message under way but what its sender still says (`Settled`; milliseconds
against the 500 ms of the guard timer; this also leaves out a sender that changes its mind in the
milliseconds before the expiry), and with
`patient` a wait timer (minutes; 5.5 s for wait-to-block) finds that everybody has heard what others
repeat every 5 s (`AllHeard`, `heard`). The first is needed for the guard timer to mean anything; the second only by
the liveness run.

## 3. Runs

| run | question | bounds | states |
|---|---|---|---|
| `mem_share` | any sequence of good and bad calls keeps lists, counters and totals; a block has one owner | pools of 3 and 2 blocks, sizes that fit, miss by one byte, or are invalid, module ids 0, 1, 2 | 1 627 |
| `mem_layout` | layout and lookup with the compiled table | the 9 real pools, first, second, middle and last two blocks, 4 offsets in each | 201 |
| `sem` | store by store implements the atomic allocator, but for the step that a death cuts short; deaths lose only what was in hand; calls return | 2 processes, 2 blocks, 2 deaths | 108 966 |
| `sem_signal` | *violation*: exclusion when `semop` is interrupted | 2 processes, 1 signal | |
| `ipc` | block accounting, replies, no wait for ever | 3 modules, 3 blocks, queues and reply queue of 1, 2 attempts, 1 look, 2 requests, 1 death | 94 557 |
| `ipc_seq` | *violation*: a reply answers the pending request | 2 modules, 2 types, 3 messages | |
| `hp_timer` | lists, gaps, punctuality, no leak | 4 timers of up to 3 ticks, 5 ticks | 193 515 |
| `ipc_pump` | wake-ups, ticks, order, delivery | 2 threads, queues and pipe of 1, 2 messages, 2 ticks, failing reads and writes | 45 820 |
| `elps` | timers, hardware, agreement and protection of a link | one end that reverts and has a hold-off time, one that does neither; 1 failure, 2 commands, 2 times enabled, 1 message unanswered, wires of 1 | 173 408 |
| `erps` | no loop, the failed port is blocked, the owner has a timer | 3 nodes (owner, neighbour, other), 2 failures, enabled 3 times, no commands | 410 808 |
| `erps_ops` | bookkeeping of blocks and of enabled sessions | 2 nodes with hold-off time and CFM sessions, 1 failure, 2 commands (forced switch, clear), 2 times enabled or disabled, 1 message unanswered | 822 399 |
| `erps_live` | the ring comes to rest, one failed link cuts nobody off | 3 nodes from the ring at rest, 1 failure and 1 of the same link's other end, any loss | 37 094 |

Why the bounds are enough to be interesting: three blocks give a free list with a head, a middle
and an end, so that a death can cut it at each place; two pools give the spill-over; a queue of
one is full at once, so that retries, drops and blocking happen; three messages are a request
that times out, a second one and an answer that is late for the first; four timers allow one in
front, one behind, one in the temporary list and one being called. In `elps` two commands and a
failure are a request that gives way, one that is followed meanwhile, and its end; the recovery of
a port is not bounded. Three nodes are the smallest ring with all three roles, two of its links may
fail, in `erps_live` one link at either or both ends (`MaxFar` is the bound on such second ends).
The names `Max...` in the configurations are the bounds. One more is written into `Erps` itself: one
R-APS message per pair of nodes is under way (`Transmit`; section 2 says why). The proof of `NoLoop`
looks at each message by itself (`Covered`).

What the runs show beyond "no error":

* A process that dies anywhere in the allocator never makes a block reachable twice and never
  breaks the list. This rests on the order of the stores: `iModule` before the head is advanced
  in malloc, `iNext` before the head is set in free, counters before the list in free. The
  mutants `FreeFlow_CountLast` and `FreeFlow_HeadFirst` reorder them and lose blocks.
* `sem_signal`: `mem_share_semdown` returns -1 when a signal interrupts it; `mem_share_malloc` and
  `mem_share_free` do not look and work on the table without the semaphore. Their `semup` then
  leaves the semaphore at 2, so two processes may be inside until the first one exits.
* `ipc_seq`: the answer to a request that timed out can be returned for the next request of the
  same type to the same module. `OwnOrAbandoned` (in `ipc`) bounds the damage: never another
  module's answer, never an answer twice.
* `ipc_pump`: ticks are exact except in the two windows of the unlocked counter, which the ghost
  `races` marks; no tick is left unserved. `NoLostWakeup` needs the tick's queue to be served by
  the thread that takes the signal: then that thread is in the handler until the flag is set.
  `TicksServed` also holds where writes into the pipe fail: then the one-second timeout of `select`
  serves the tick. `InOrder` depends on the sleep after a thread's start: without it (`Waited_Not`)
  two threads may serve one queue, and reorder its messages, while the other queue has none.
* `elps`: the three safety properties are stated until a message to the hardware layer goes
  unanswered (`HalAnswers`), the two liveness properties for ends that stay enabled, can hear each
  other and repeat what they say (`Connected`, `NeedsBackup`).
* `erps`: `NoLoop`, `ProtectsFailedPort` and `OwnerWaits` hold without switch commands and, the
  second, without hold-off time. The observations below say why these premises are there.
* `erps_ops`: a node can be left with a port closed that it has forgotten, but only by a message
  that the hardware layer did not answer, and only that node (`NoForgottenBlock`: no more such nodes
  than unanswered messages; with the one of this run it does happen). The other way round
  (`NoPhantomBlock`), what a session notes is blocked until an operator gives a command or a message is
  not answered.

### Observations

These came out of the same models with other values of the constants. No text of the repository
states what should hold instead, so they are recorded here and as hazards, not as findings.

* `elps_fsm.c:104`: with a hold-off time, a session that is enabled while a port is failed returns
  before its keepalive timer is started, and is silent until its next change.
* `elps_fsm.c:881`: when the hardware does not answer at the end of the wait to restore, the status
  stays WTR and no timer is left to end it.
* `erps_fsm_action.c:418`: on R-APS(NR,RB) an idle owner or neighbour notes the RPL port as blocked
  without blocking it. A forced switch to that port then blocks nothing. `NoPhantomBlock` holds until
  the first command because until then the handler finds that port blocked already.
* `erps_fsm_action.c:219-227`, and wherever `Release` or a forced switch in the pending state stands
  for the same pattern: `block_interface` is changed before the hardware layer is told. When the message
  goes unanswered the handler returns, the port stays closed, and the session no longer knows it.
* `erps_fsm.c:269`: the deletion of a CFM session is a recovery of its port even while the link is
  down; the node then gives up its request, or turns to the other port.
* `erps_fsm_action.c:1339`: a manual switch to the west port in the pending state compares the two
  interfaces of the session with each other; nothing is sent to the hardware, the port is noted.
* `erps_fsm_action.c:2229`: when the hold-off time ends and only the CFM session of the west port is
  down, the east port is blocked and the failed one opened.
* `erps_fsm.c:693`: any node's R-APS(NR) takes a node with its own forced or manual switch to the
  pending state, where it yields although the command stands; R-APS(NR,RB) is ignored by the nodes
  that follow a failure or a switch.
* `erps_cmd.c:1304`: a manual switch that is refused has already overwritten `event_block`; the
  recovery of the port that failed is then not acted upon.
* `erps_fsm_action.c:594`: "clear" at an owner that follows another node's switch makes it pending
  without a timer.
* An ERPS node reacts to the events of its ports as long as some session is counted as enabled, also
  for a session that is not.

## 4. Fairness

* `MemShareSem`: weak fairness of a process inside the critical section (it runs on), strong
  fairness of `Down` (Linux serves the waiters of a System V semaphore in order of arrival).
* `IpcMsg`: weak fairness of a main thread in the middle of something; strong fairness of taking
  the next message, because the select loop returns to the pipe after every event. A dead process
  need not come back, and nobody need send.
* `IpcPump`: weak fairness of handler and main loop, strong fairness of the receive threads, which
  are woken by the kernel, and weak fairness of the timeout of `select`, which `thread_fetch` limits
  to one second. Starting a thread and its first step are weakly fair. Strong fairness of `Read`: reading
  the pipe may fail any number of times, but not always.
* `Elps`, `Erps`: weak fairness of the timers, which are timers; strong fairness of `Receive` for each
  port, or pair of nodes: a message that is repeated for ever over a working path is received again
  and again, although any single one may be lost. No fairness of failures, recoveries or operators.

Deadlock is not checked for `Elps` and `Erps`: when the bounds are used up a network may be at
rest. Everywhere else it is.

## 5. Proofs

Every invariant and safety action property that a passing run checks is also a theorem, for every
value of the constants that its premises name. The proofs find an inductive invariant, show one case
per action and derive the property from it.

### The platform

`MemShareProofs` proves, for every number of pools, every block size and count, every set of
requests and module ids (assumptions `PoolAssumption`, `RequestAssumption`):

| theorem | statement |
|---|---|
| `TypeCorrect` | `Spec => []TypeOK`: indices stay in their pool, counters between 0 and the number of blocks |
| `FreeListIntact` | `Spec => []FreeListInv` |
| `Serves` | `Spec => []NoFalseExhaustion` |
| `Ownership` | `Spec => OwnerStable` |
| `TotalsAgree` | `Spec => []TotalsInv` |

`TypeOK` alone is not inductive: that the counter does not become negative, that the next head is
a valid index and that a free block is not linked twice all depend on the list. The inductive
invariant is `TypeOK /\ FreeListInv`, where `FreeListInv` says that some injective function lists
the free blocks of a pool in list order. The proof gives that function for each action: malloc
drops the first entry (`q[j + 1]`), free puts the block in front, and the other pools keep theirs.
`Serves` and `Ownership` follow from the invariant.

`TotalsInv` is about sums over all pools, so it first needs what a sum is. `Total` is a recursive
function on pool numbers; `PartialSumsExist` and `TotalSums` show that such a function exists, and
`TotalChange`, `TotalMonotone` and `TotalBounds` what becomes of a sum when one term changes, that
it grows with its terms and that no term exceeds it. Each of these looks at the least pool up to which the claim
would fail (`UpToPools`, from the least element of a set of numbers), which stands in for induction.
Beside the inductive invariant above, `TotalsInv` is then inductive itself: the peak of all stays
below the sum of the peaks because malloc raises the pool's peak whenever the pool's use exceeds it.

`MemShareSemProofs` proves, for any processes, number of blocks and number of deaths (assumption
`SemAssumption`), about `Spec`, in which no signal interrupts `semop`:

| theorem | statement |
|---|---|
| `MutualExclusion` | `Spec => []Exclusive` |
| `OneHandOnly` | `Spec => []NoSharedBlock` |
| `ListSurvivesDeath` | `Spec => []ListUsable` |
| `DeathCostsLittle` | `Spec => []LossBound` |
| `ImplementsMemShare` | `Spec => Refines`: until a death, every step is a step of `MemShare` or none |

There are three invariants. `SemInv` accounts for the unit of the semaphore: it is in `sem` or with
the one process inside, and what `SEM_UNDO` would return (`adj`) is what the process took. `TableInv`
adds that the free list is a list wherever processes died (`ListAt`: an injective numbering, a counter
not below its length) and, for the process inside, what its program counter says about the block it
moves; the blocks outside the list and outside all hands are at most `budget`. `SnapInv` says that
until a death the table is that of the last `mem_share_semup` plus the stores done since (`During`).
The refinement maps the step of `MemShare` to `mem_share_semup`; all other steps stutter.

`MemShareLayoutProofs` proves, for any pool table (assumption `LayoutAssumption`: sizes and counts
are positive, the table of pools fits into `CACHETBL_SIZE`, the offsets looked up lie inside a block):

| theorem | statement |
|---|---|
| `LookupFindsBlock` | `Spec => []LookupExact` |
| `LayoutNeverOverlaps` | `Spec /\ []WithinLimit => []LayoutDisjoint` |

`LayoutInv` says for both loops what is laid out so far: control tables follow each other behind the
pool table, areas follow the tables, each at least as long as its blocks. `WithinLimit` is
`iMemAlen <= SHMMAX`, one conjunct of `LayoutDisjoint`: whether a pool table fits depends on the table,
and the run `mem_layout` shows it for the compiled one.

`IpcMsgProofs` proves, for any modules, blocks, queue sizes, retries and deaths (assumption
`IpcAssumption`):

| theorem | statement |
|---|---|
| `BlocksConserved` | `Spec => []BufferConserved` |
| `AnswersOwnOrAbandoned` | `Spec => []OwnOrAbandoned` |
| `RepliesBounded` | `Spec => []ReplyBound` |

`PlaceInv` gives every block one place (`Placed(k, o)`: free, in a queue, in the reply queue, being
sent, received or handled, or lost with a dead process), and no queue holds a block twice. `TokenInv`
follows the request numbers: each is a token carried by one block at most, first by the request and,
from the step in which the handler makes the answer, by the answer (`Carries`); a token on its way is
one its origin waits for or has given up (`OpenToken`). The code compares no sequence number in
`Matches`, so that an answer is never returned twice rests on this invariant alone.

`IpcPumpProofs` proves, for any receive threads, queue and pipe sizes and with reads and writes that fail
(assumption `PumpAssumption`):

| theorem | statement |
|---|---|
| `PumpTypeCorrect` | `Spec => []PumpTypeOK` |
| `NoWakeupLost` | `Spec => []NoLostWakeup` |
| `TicksCountedExactly` | `Spec => []TicksExact` |
| `MessagesInOrder` | `Spec => []InOrder` |

`WakeInv`: once the handler has sent the tick its queue is not empty, because the thread that would
empty it is the one in the handler; from when the main loop has looked at the flag, a raised flag has
a message behind it. `TickInv`: without a race so far, the value the handler loaded is still the
counter, or the main loop has cleared it and the store will be a race. `OrderInv`: along what was
handled, the pipe, the message in a thread's hand and its queue, the messages of a thread ascend.
It rests on `OwnQueue`, part of `PumpTypeOK`: a thread that runs has its own parameters, and until a
started one has copied them `sParVa` is not filled in for another.

`HpTimerProofs` proves, for any finite number of timers, any intervals and any number of ticks
(assumption `TimerAssumption`):

| theorem | statement |
|---|---|
| `ListsWellLinked` | `Spec => []WellLinked` |
| `GapsStayExact` | `Spec => []GapsExact` |
| `TimersFireOnTime` | `Spec => []FiresOnTime` |
| `ArmedAreListed` | `Spec => []ArmedIsListed` |
| `NoTimerLeaks` | `Spec => []NoLeakNoStray` |

All five follow from one invariant, `TimerInv`: there are numberings of the running and of the expired
timers such that both are doubly linked lists (`IsList`), the gaps of the first are the differences of
the times at which its timers are due (`Timed`), and each timer has one role (`Roles`: running, expired,
in its callback, free). None of the five is inductive alone: a timer fires on time because the gaps are
exact, they stay exact because the list is linked, and it stays linked because a node is in one list.
`ListFrom` and `Reach` are recursive functions. Instead of an induction over data, the proofs show
with a least counterexample that their equation has at most one solution (`WalkUnique`), and give that
solution from the numbering. Insertion, deletion, the cut of the expired prefix and the return of a
looping timer are lemmas about lists and their gaps.

### The protocols

`ElpsProofs` proves, for any ends, signals (link, CFM or both), failback and hold-off of each end and
any bounds (assumption `ElpsAssumption`):

| theorem | statement |
|---|---|
| `ElpsTypeCorrect` | `Spec => []ElpsTypeOK`, answered or not |
| `WaitIsTimed` | `Spec => []WtrTimed` |
| `HardwareFollowsSession` | `Spec => []HardwareFollows` |
| `NoTimerIsLeft` | `Spec => []NoTimerOnFreedSession` |
| `RequestIsFollowed` | `Spec => []RequestFitsPort`: an end that announces a request selects its port |

None of these is inductive. The handlers that set `active_port` without a message to the hardware
are harmless only because the request that they end implies the port, so `HardwareFollows` needs
`RequestFitsPort`; that no timer is left needs that a session which is off has none. The invariant
`ElpsInv` is types, `Safe` of every enabled session, `Quiet` of every other, all while the hardware
answers. Lemmas on single handlers (`LocalType`, `LocalSafe`, `RemoteType`, `RemoteSafe`,
`LinkDownSafe`, `WtrSafe`) are combined by lemmas on `Conclude` and `elps_fsm`, so that each action
only names its handler. The run `elps` has one kind of signal; the proofs cover both.

`ErpsProofs` proves, for rings of any size and any placing of the owner, link and CFM signals,
failback or not, and any bounds (assumption `ErpsAssumption`):

| theorem | statement |
|---|---|
| `ErpsTypeCorrect` | `Spec => []ErpsTypeOK`, answered or not |
| `SessionsAreAttended` | `Spec => []Attended`, answered or not |
| `OwnersWait` | `Spec => []OwnerWaits` |
| `UnansweredMessagesForget` | without manual switches, `Spec => []NoForgottenBlock`, answered or not |
| `BlocksAreKnown` | with one owner and without manual switches, `Spec => []BlocksKnown` |
| `FailedPortsAreProtected` | without manual switches and hold-off time, `Spec => []ProtectsFailedPort` |
| `RingHasNoLoop` | with one owner, `Spec => [](Undisturbed => NoLoop)` |
| `RingWithoutCommandsHasNoLoop` | with one owner and no commands, `Spec => []NoLoop` |

The first two restrictions are needed: `erps_pending_handle_admin_ms` notes the west port without a message
to the hardware layer, and `erps_link_down_handler` may take the wrong port. The invariant `ErpsInv` is
types, `Attended`, and `NodeOK` of all nodes but as many as messages went unanswered (`Shaken`; with
all answered, of every node): a session that is
off has no port blocked and no timer; one that is on is counted once, has at most its `block` closed
(`Tidy`) and, when it protects, blocks the failed port of the last event (`Guarded`). `Guarded` is
stronger than `ProtectsFailedPort`: the recovery of a port is acted upon only when `event_block`
names it, so the proof must know that `block` and `event_block` agree; "clear" breaks that and
restores it by reporting the failed ports again. One lemma per handler
(`FollowKeeps`, `SwitchKeeps`, `RevertKeeps`, ...) is combined by `HandleKeeps` and `FsmKeeps` into
what `erps_fsm` does for an event (`Handled`); `RunKeeps` lifts that from a session to the ring: a
handler keeps its node in order if every message is answered, and shakes no other node if not.
`NoPhantomBlock` is part of `Claims` below.

`NoLoop` is about all nodes at once: a node opens its port because of a message, and the node that
sent it may have changed its mind since. Its invariant `LoopInv` says, while no command was given
and the hardware layer answers:

* every enabled session blocks in the hardware what it notes, and what it repeats follows from its
  state: SF in the protection state, NR in the pending state, NR,RB by an idle owner (`Claims`);
* somebody keeps a port blocked (`Keeping`): a node that yields to nobody (`Strong`: it protects, its
  guard timer runs, or it is not enabled yet), or the owner that says NR,RB, or a node that says NR;
* every message under way, however old, has such a node behind it (`Covered`): for SF a strong node,
  for NR,RB a strong node or an owner that closes the RPL, for NR one of these or a node that says NR
  and has no lower id than the sender.

These ranks are the order in which nodes yield (`erps_fsm_action.c:1771` compares the ids), so a node
that opens its port on a message leaves the one behind the message, which is not itself. A node
stays strong through the recovery of its port, which starts the guard timer; it stops when that timer
ends or when it is enabled. Then, and when an owner ends its wait, `Settled` says that every message
under way is what its sender still says, so nothing older needs a node behind it. These four steps
are where the timing assumption enters, and the only ones.

Both premises are needed, as TLC shows on three nodes: two owners that say NR,RB open each other's
port, and one "clear" or one forced switch gives a ring in which nobody blocks (the observation on
`erps_fsm.c:693`). Before it was proved, TLC confirmed `LoopInv` on three nodes, without hold-off
time (410 808 states) and with it (1 627 247 states); the proof covers both and any ring.

### What is only model-checked

* That the compiled pool table fits under `SHMMAX`: a computation on one table, which TLC does.
  `LayoutNeverOverlaps` takes it as its premise for any other table.
* All liveness properties: fairness is out of the prover's reach.
* The two violations, which are counterexamples.

## 6. Not modelled, and the plan

Not modelled: creation of queues and of the segment's keys, messages between boards, diagnostics;
a restart of the one process that calls `mem_share_init` (it clears the live segment; the header
of `memshare.h` makes this an operational rule); timers deleted from a second thread; of linear
protection the DFOP alarm, of ring protection sub-rings with their virtual channel and the deletion
of an ERPS session, of both the configuration commands (for linear protection that includes the deletion of a bound CFM
session, which `cfm_session.c:350` reports as a recovery); the other protocol processes; vendored (routing
daemons, snmp, ssh, ntp), table-keeping and hardware-facing code, which is most of the repository.

Next, in this order:

1. the MPLS variant of linear protection (`mpls/mpls_aps`), LDP sessions, BFD and VRRP;
2. `mempool.c` and a second thread that deletes timers.
