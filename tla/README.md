# A TLA+ model of agent-first-os

This directory holds the formal model of agent-first-os: its kernel, its block
journal, its service supervisor and its agent loop, as TLA+ modules, TLC
configurations and TLAPS proofs. Paths below are relative to the
repository; `kernel/` stands for `product/kernel/`.

## 1. The system

`product/` is the operating system. A small x86-64 kernel (`kernel/src`, about
4,500 lines of C) runs a few processes that hold *capabilities* and exchange
messages over *endpoints*. On top of it stand, in JavaScript and Python, a
service supervisor, an agent runtime and a policy firewall. `linux-agent-os/`
and `learning/` hold research notes, logs and exercises.

| Component | State | Operations | Interacts with |
|---|---|---|---|
| Capability tables `kernel/src/capability_table.c` | per process: 64 entries (object, rights, generation, depth, parent reference), an incarnation | init, mint, restrict, transfer, revoke, revoke_all, revoke_object, lookup | every capability-checked call; entries refer to entries of other tables |
| IPC endpoints `kernel/src/ipc_endpoint.c` | pool of rings: head, tail, count, next number, closed, active | create, close, destroy, send, recv | SYS_IPC_* |
| Process table `kernel/src/process.c` | per process: state, group, parent, saved frame, blocked receive, saved capabilities, emergency flag; the current index | create, schedule, yield, exit, kill, group terminate / freeze / resume, cancel, pause, restart, wait | scheduler, IPC, capabilities |
| System calls `kernel/src/kernel.c` | the above, the pause flag, the wait counter | one handler per call, timer, fault recovery | all of the kernel |
| Policy tokens `kernel/src/policy_token.c` | 32 single-use tokens bound to an owner, a capability and a nonce | mint, consume, revoke | pause flag, capabilities |
| Shared memory `kernel/src/shared_memory.c` | handle table over page ranges | create, lookup, restrict, revoke | no system call yet |
| Block driver `kernel/src/virtio_pci.c` | one ring, one request page, the used index | probe, read, write, flush (net and input probes) | the device, which answers when it likes |
| Journal programs `kernel/arch/x86_64/user_program.asm` | a log record and a payload on disk | prepare, commit, recover, commit-recover | SYS_VIRTIO_BLOCK_*, loss of power |
| Memory `kernel/src/physmem.c`, `address_space.c`, `vm.c`, `elf_user_loader.c` | frame ranges, the page pool, per process: root, tables, regions | boot: carve, load, map, alias; later: SYS_SHM_MAP, buffer checks | the firmware's memory map, the user image, every call that takes a buffer |
| Supervisor `product/services/supervisor_runtime.py` | per service: state, generation, nonce, restart schedule, handles; frozen groups | start, ready, heartbeat, freeze, fault, exit, stop, tick | services, clock |
| Agent runtimes `product/agent-runtime/reference/` | per task: state, plan, cursor, journal, pending events, checkpoint file | start, step, approve, cancel, monitor, recover | model, policy, executor: asynchronous |
| Policy registry and firewall `product/services/policy_registry_runtime.js` | tools, tasks, capabilities, tokens, journal | check, issue, consume, revoke; prepare / commit / rollback | agent runtime |

What is hard about it, and what makes each part correct:

* **Capability tables.** Revocation is lazy: an entry keeps a reference to its
  parent (table, incarnation, slot, generation) and every lookup walks the
  references. Slots, generations and whole tables are reused in between. Correct
  means: rights only shrink along a lineage, a revoked handle and everything
  derived from it stay dead for ever, and what was just handed out works.
* **Endpoints.** Three counters and a message number wrap independently, and pool
  slots are reused. Correct means: each accepted message is received once, in
  order, under a number that is not zero.
* **Blocking IPC.** A receiver sleeps with a capability that may be revoked, on
  an endpoint that may be closed or destroyed, in a line others leave from the
  middle. Correct means: no lost wakeup, no delivery to a receiver that lost its
  authority, oldest first.
* **Scheduling and life cycle.** One core, no locks; every call is one step and
  what interleaves are the calls of processes, faults and the timer. Zombies keep
  their tables, can be given capabilities and can be restarted. Correct means: a
  single running process, the machine stops only when nobody can run, READY
  processes get their turn, restart restores what was saved and no more.
* **Emergency pause.** It overlaps group freeze and resume, kill, exit and
  blocked receives. Correct means: it undoes what it did and nothing else.
* **Policy tokens.** An approval lives in one call and is used in a later one; in
  between the capability it is for may be revoked, the owner restarted with the
  same object under another handle, the pause declared. Correct means: used once,
  by its owner, while everything it was given for has held all along.
* **Memory.** Page tables are built before there is a handler for running out of
  frames, from memory the firmware describes in bytes; then they are reached
  through themselves. Correct means: every table has a frame of its own that
  nobody else was promised, regions and tables agree through every failure, the
  kernel can reach every table it will walk, and user code reaches none.
* **Block journal.** The driver polls a single index a bounded number of times;
  the device is late, refuses, caches and reorders; the power fails. Correct means:
  "ok" means done, "durable" means on the medium, and the record never runs ahead
  of the payload.
* **Services and agents.** Single-threaded, but every `await` lets other calls
  in, timeouts race answers, and a crash falls between a checkpoint and the
  effect, or between two checkpoints of one call. For the supervisor, correct means: authority ends with the life it was
  given for, and a group stops together. For the agent loop: no execution without
  a journal entry saved before it and an approval of its own, no completion without
  every action executed well, no execution repeated without a reason, an end that lasts.

`PROJECT.json` lists every component with its status, and every hazard at its
source line with the properties that watch it.

## 2. The modules

```
Capability          entries, handles, lineage: pure operators
  CapabilityTable   the tables as a state machine  ==refines==>  CapabilityTree
    CapabilityTableProofs     theorems
    MCCapabilityTable         TLC instances
  Kernel            processes, scheduler, blocking IPC, restart, pause
    KernelProofs              theorems
    MCKernel                  TLC instances
    PolicyTokens              approvals, composed with every step of Kernel
      PolicyTokenProofs       theorems, from those of KernelProofs
      MCPolicyTokens          TLC instance
IpcEndpoint         one endpoint's ring          ==refines==>  BoundedFifo
  IpcEndpointProofs           theorems
  MCIpcEndpoint               TLC instance
PhysMem             the frame allocator: pure operators
  VirtualMemory     boot and use of the address spaces
    VirtualMemoryProofs       theorems
    MCVirtualMemory           TLC instance
AddressSpace        page tables: pure operators, an INSTANCE of which, with the
                    allocator as a parameter, VirtualMemory takes
VirtioBlock         the block driver and an external device
  BlockJournal      block calls, journal programs, boots, loss of power
    BlockJournalProofs        theorems
    MCBlockJournal            TLC instances
Supervisor          services, task groups, restarts, heartbeats
  SupervisorProofs            theorems
  MCSupervisor                TLC instance
AgentLoop           one task of PiAgentLoop, its host, its policy, its crashes
  AgentLoopProofs             theorems
  MCAgentLoop                 TLC instance
```

**Capability** models `capability_table.c` as operators over two functions, `incn`
(table to incarnation) and `ent` (position to entry). A handle's slot and
generation stay a pair; packing them into 64 bits carries no behaviour.
`LinkOk` is one iteration of the walk in `validate_handle`. `Live` defines the
accepted positions without recursion, as members of a set that is closed under
intact parents, which is what the proofs use; `ValidateWalk` is the bounded loop
as written, and the invariant `WalkAgrees` says they are the same. `NextGen` keeps
the saturation at `UINT32_MAX` (`MaxGen`): generation zero is never handed out.

**CapabilityTable** has one action per function that changes a table, and `Wipe`
for `clear_process`, which zeroes the table of a reaped process. A failing call
changes nothing, hence is a stuttering step. **CapabilityTree** is what the tables
promise: a forest where a name is live once, a child has its parent's object and
a part of its rights, and revocation takes the subtree away at once. The
refinement maps the live names to the tree.

**IpcEndpoint** models `ipc_endpoint.c`: the ring with stale slots, the two
indices, the count, and the numbering with its 64-bit wrap (`MaxSeq`).
**BoundedFifo** is the queue it promises.

**Kernel** composes the capability tables with processes, the scheduler and the
endpoints. Its actions are the system calls, the timer (`Preempt`), a page fault
(`Fault`), each a whole handler:

| Action | Code |
|---|---|
| `Preempt`, `Yield`, `Schedule` | `preempt_user_timer`, `SYS_YIELD`, `agent_os_process_schedule` and `scheduler_halt` |
| `IpcCreate`, `IpcDestroy`, `IpcClose`, `IpcCall`, `IpcRecv`, `IpcRecvWait`, `IpcCancel` | `SYS_IPC_*` |
| `CapRestrict`, `CapTransfer`, `CapRevoke` | `SYS_CAP_*` |
| `Exit`, `Fault`, `Kill`, `Restart`, `Reap` | `SYS_EXIT`, `recover_user_exception`, `SYS_KILL`, `SYS_RESTART`, `SYS_WAIT` |
| `GroupTerminate`, `GroupTerminateTree`, `GroupFreeze`, `GroupResume` | `SYS_GROUP_*` |
| `EmergencyPause`, `EmergencyResume` | `SYS_POLICY_PAUSE`, `SYS_POLICY_RESUME` |

Abstractions, and why they are sound:

* *A process is its index.* Processes are created at boot only, so an index has
  one owner and the generation in a process id never differs.
* *A blocked receive keeps the set of receives blocked before it* (`ahead`) in
  place of `ipc_wait_sequence`: the numbers are only compared among blocked
  processes, and they are drawn from one counter in the order of blocking.
* *A queue is its length*, since IpcEndpoint establishes that it is a FIFO; the
  payload and the copy to user memory, which cannot fail for a checked range
  because no page is ever unmapped, are left out.
* *The blocked_ipc fields are cleared when a process leaves BLOCKED.* The code
  clears some of them later, but reads them only for BLOCKED processes.
* Boot is `Init`: the processes, groups and capabilities of the fixtures "pair",
  "multi" and "recursive" of `kernel_main`.

**Supervisor** models `supervisor_runtime.py`, one action per method: `Start`,
`StartAll`, `Ready`, `Heartbeat`, `FreezeGroup`, `UnfreezeGroup`, `Fault`, `Exit`,
`Stop` and `Tick`, and `Pass` for the clock. `Tick` applies what it does for one
service (`Tended`) in manifest order, each service seeing what the ones before it
left. Time is the age of the last heartbeat and the delay until a restart; nonces
are numbers that never repeat, as the random ones of `_new_nonce`; a service has one
capability. The event log and its sink, which nothing reads back, are left out.

**PolicyTokens** extends Kernel with `policy_token.c` and the three
`SYS_POLICY_TOKEN_*` handlers (`TokenMint`, `TokenConsume`, `TokenRevoke`); its next
state relation is theirs or Kernel's. The slot generation wraps (`EntryCleared`) and
starts again at one (`FirstGen`); the clock advances with every eligible consume,
whoever makes it and whatever the token says. `spent` and `lapsed` are history:
which handles were used, and which active tokens had their capability invalid at some
time.

**PhysMem** carves frame ranges out of a memory map in bytes (`Carve`, `Ranges`) and
hands frames out (`NextFrame`, `AfterAlloc`); `FreeFrames` is the reference it is
compared with. **AddressSpace** is `address_space.c` on a record of a root frame,
child tables with their frames and user bits, leaves and regions: `Map` is the whole
call with what it leaves behind when it fails half way, `UserRangeOk` the walk of a
buffer check. Its parameter `Take` is the allocator callback, so a map that needs a
frame while none is left, or one it cannot reach, fails where the code does.
**VirtualMemory** composes them: `TakeFrame` is `process_page_allocate` (allocator
first, then the pool), `InitSpace` builds a process root with its user, kernel and
high-half mappings and the aliases of table frames, `BootLoad`, `BootSpace`,
`BootAlias` and `BootImage` are the steps of `kernel_main` in its order, `ShmMap` is
`SYS_SHM_MAP` and `CheckBuffer` the walk before a copy, by a process on the tables of
another. Touching a frame outside the tables in use is the outcome `fault`.

Abstractions: addresses are page numbers, so that unaligned arguments (refused first
thing) and sums beyond 2^64 do not occur; what the bootstrap tables reach is an
operator (`BootReach`), not a table; an ELF header is valid and only its segments
vary; `vm_map_mmio_identity` and the copying of bytes are left out.
After the launch, `PhysAllocator allocator` (`kernel.c:1395`), a local of
`kernel_main`, lies in stack memory the calls overwrite. `Survivors` and the outcome
`astray` stand for what an allocation may then do: find the ranges as they were,
none, or any word as a frame, after which the model claims nothing.

**VirtioBlock** is the driver, whose steps per call are in `Steps` (a write publishes
its request *before* it samples the used index, a read and a flush after), and a
device that takes requests in order, finishes them in any order, well or not, and
has a write cache. **BlockJournal** adds the checks of the block system calls, the
seven images of `user_program.asm` that use the disk, each a sequence of calls with
the answer it wants, the boot of any of them next, and `PowerFails` at any moment.
`overran` is history: a call began while the device still held an earlier request.

**AgentLoop** is `PiAgentLoop` for one task. A call runs up to its next `await` as one
step; `run` holds where each call in progress awaits and what it keeps in local
variables across it. `ModelAnswers`, `PolicyAnswers`, `TokenIssued`, `TokenConsumed` and
`ExecutorAnswers` are the stretches that follow the awaits, each with every answer the
other side can give; `MonitorExpires`, `Ack`, `Checkpoint`, `Cancel` and further `Step`s
come in between. Events are counted, since only the number not acknowledged steers the
loop. `Crash` loses the task and the calls in progress, `Recovery` reads the last
checkpoint. A stretch may save more than once, and the process may die after a save that
is not its last: `CrashInStart`, `CrashInStep`, `CrashAfterModel`, `CrashAfterPrepare`,
`CrashAfterGrant` and `CrashAfterExecute` leave what that save wrote. `Start` looks for the
task in memory only, as line 281 does, so after a crash it may be called in place of
`Recovery` and writes over the checkpoint. A token issued to a process that dies before it
has saved it is left out: no task names it. `begun`, `paid`, `overlapped`, `starts`, `lost`,
`answer` and `interrupted` are history: executions and consumed tokens per action, whether two
calls were ever in progress together, starts, journal entries that starts wrote over, the
executor's last answer per action since the last start, and per action the crashes that
found the executor at it and its commit not yet saved. A checkpoint is one step: it is an append that ends in an `fsync`, and a file
whose last line is torn is refused as a whole (`DurableCheckpointStore`), which is a
recovery that never happens.

## 3. The runs

| Run | Instance | States | What it shows |
|---|---|---|---|
| `cap_slots` | 2 tables, 2 slots, 2 generations, depth 2, 2 incarnations | 146,341 | lineage, attenuation, death of handles, agreement of walk and definition, refinement of the forest, with slots reused and retired |
| `cap_reuse` | the same with 3 incarnations, 1 generation, 2 objects, single rights | 82,408 | refinement while tables are zeroed and reopened |
| `ipc_endpoint` | 3 slots, numbers to 3, 2 bodies | 7,992 | the ring is a bounded FIFO through every wrap |
| `kernel_ipc` | 3 processes (third is a child of the second), 1 endpoint with room for 1 message, 2 slots used once | 202,357 | blocking IPC against close, cancel, kill, exit, faults, revocation, freeze and pause; dispatch under the timer |
| `kernel_life` | a process and its child, 2 endpoints, 4 slots used once, rights with and without ADMIN | 116,607 | endpoint reuse, faults, exit, restart, reaping, derivation |
| `policy_tokens` | the same two processes with the policy authority, 3 slots used once, 1 token slot of 2 generations, deadlines none and 2, 3 consumptions | 33,300 | an approval is used once, by its owner, before its deadline, outside the pause and only if its capability never lapsed |
| `virtual_memory` | 3 processes; 36 machines: 6 user images, aligned or unaligned low memory, 3 places of the memory above the kernel; pages of 2 bytes | 3,584 | frames are free and used once, regions and tables agree, the kernel reaches every table, user code none, a checked buffer stays good |
| `block_journal` | 3 sectors, 7 images in any order, indices modulo 4 | 231,293 | an answer is true, a record is true and durable when announced, whenever the power fails |
| `agent_loop` | 3 actions (two to be confirmed), 2 calls in progress, watermark 3, 3 tokens, 1 crash, between calls or inside one | 1,641,237 | executions are journalled and approved one by one, completion means every action answered well (but for a crash between two saves) and repeated only where a crash interrupted it, an end lasts until the task is started anew |
| `supervisor` | 2 services of a group, one depending on the other, 1 restart each, timeout 2, backoff 1, 2 starts each | 24,017 | authority ends with a life and stays ended, a group fails and rests together, timeouts and due restarts are attended to |

Two more runs, `kernel_reuse` and `block_overrun`, end in a counterexample; see below.

Why the bounds are enough: two tables are the least in which a lineage leaves a
table and comes back; two slots let a child outlive its parent in a reused slot;
`MaxGen` 2 reaches reuse *and* retirement; depth 2 reaches the limit from an
entry that is itself derived; a third incarnation lets a table be reopened while
its former children are alive. A ring of three is the least where head, tail and
count are all different and not complementary, and numbers up to 3 wrap within a
few messages. Two receivers and a sender are the least for a line with a middle
that is left out of order: three processes. The life-cycle run needs two
processes and one endpoint besides the static one for its pool slot to be
created, destroyed and created again. `Syscalls` in a configuration names the
calls of an instance; between them the passing runs take every action.

One token slot of two generations is used, cleared, used again and wrapped; three
consumptions pass the deadline 2. Three processes are the most a boot configuration
has, and the least where the aliases of the third root meet those of the first two.
The memory maps of `virtual_memory` make every rounding matter (entries and reserved
ranges that start and end inside a page), and let frames run out within the
identity map, go beyond it, or never lie in it, so that the allocator, the pool and
both together fail at any step of the boot. The images are accepted, refused for each
reason that is modelled, and too large for the storage. Two calls in progress are the
least for an overlap; a watermark of three pauses the task in most of its stretches;
three tokens confirm the two actions with one to spare; one crash falls anywhere.

Two services are the least with a peer and a dependency; one restart each
reaches the limit of attempts and what happens after it, with a timeout longer than
the backoff so that a restart can fall due before, at and after a timeout.

`CHECK_DEADLOCK FALSE` in the kernel runs and in `policy_tokens`: the machine halts when
nobody can be dispatched (`scheduler_halt`), and `CpuInv` says it does so for no other
reason. In `virtual_memory` a boot that fails halts, and a fault stops the machine.

Calls in progress. `OkMeansDone`, `GivesUpOnUnfinished`, `LogIsTrue` and
`SaidMeansDurable` claim nothing of a history in which a driver call began before an earlier
request was finished (`overran`): the driver tells completions apart by one index, and
`block_overrun` shows what an overrun does. `CompletedDidAll` claims nothing once two
calls of the agent loop were in progress together, and `EndIsFinal` nothing while one
is: the code does not look at the state again after most awaits (see below).
`ExecutionsAccounted` holds without either proviso, but what a start writes over it counts
as `lost`.

The static endpoint of `kernel_ipc` cannot be destroyed: that `SYS_IPC_DESTROY` leaves nobody
asleep is checked in `kernel_life`, as a part of `DestroyForgets`, and proved.

Fairness. `FairSpec` assumes weak fairness of the timer step alone, for the
builds in which `preempt_user_timer` is driven by the timer: while a process runs
the interrupt keeps coming. No call is fair. `Dispatched` (a READY process is
dispatched unless something stops it) follows from the table-order search. The
instance leaves `SYS_RESTART` out: after an exit the search starts at the first
process again, so a child that exits and is restarted without end can keep a
later one waiting.

The supervisor's `FairSpec` assumes weak fairness of `Pass` and `Tick`: the clock
runs, and the host keeps calling `tick`, which is all that drives the supervisor.
No other call is fair.

`PolicyTokens`, `VirtualMemory`, `BlockJournal` and `AgentLoop` state safety only and
assume no fairness.

Disagreements with the documentation that a run shows:

* `kernel_reuse`: a zombie's saved capability to a destroyed endpoint is minted
  again by a restart and names the next endpoint in the pool slot, against the
  comment at `kernel.c:753`.
* `block_overrun`: the kernel's first read times out, which is only printed, and its
  late completion is taken for that of the next request, and so on; the commit program
  prints `JOURNAL COMMIT DURABLE` (`user_program.asm:94`) for a record that is not on the
  medium, although `product/docs/G7_NATIVE_BLOCK_FLUSH.md:11` has the flush wait for its
  own completion.

Further behaviours the models have, because the code has them, and that a reader of
the documentation may not expect. No run is dedicated to them; the properties
above are stated so as not to claim the contrary.

* The user stack pages are not among the ranges `phys_allocator_init` reserves
  (`physmem.c:28`), although `linker.ld:53` speaks of the "user stack reservation". On a
  machine whose firmware leaves few usable pages below the kernel the boot would build page
  tables in them, and `UserConfined` would fail; in `virtual_memory` the memory below the
  kernel or the pool suffices.
* A group resume and freeze during an emergency pause leaves `emergency_frozen` set, and
  the end of the pause wakes a process its parent froze (`process.c:404`;
  `product/docs/G7_NATIVE_EMERGENCY_PAUSE.md:7`).
* A process that faults and is restarted keeps its old handles (`kernel.c:291`;
  `product/docs/OVERALL_FRAMEWORK_PLAN.md:68`).
* A restart returns, as a root, a capability whose parent was revoked meanwhile
  (`process.c:436`; `README.md:209`).
* A service that is stopped and started again keeps its generation, so its new handles
  are among the revoked ones and none validates
  (`product/services/supervisor-protocol.md:22`); a service left in FAULT is frozen with
  its peers and made READY by the unfreeze, without a capability. A service that is frozen, by the
  pause of its group too, keeps its capability, where `supervisor-protocol.md:28` has an
  emergency pause revoke it; `AuthorityEnds` allows both.
* `UsedOnce` and `spent` start afresh when the generation of a token slot wraps: from then on
  the code can give out a handle that was used before (`policy_token.c:38`).
* A snapshot that does not fit into `RESTART_CAPS` is cut off (`process.c:60`);
  `RestartRestores` speaks of what is in it.
* A write whose completion arrives before the driver samples the index is reported
  failed though it was done (`virtio_pci.c:376`).
* Recovery of the journal is not idempotent: when the power fails after the old
  payload is back and before `ROLLBK01` is durable, the next recovery finds
  `PREPARE1` with the old payload and fails, every time (`user_program.asm:249`).
* A task that is cancelled or failed by the monitor while its step awaits goes on when
  the await returns, executes further actions and may complete
  (`pi_runtime.js:389`; `product/docs/DESIGN_BOOK.md:206` has no way out of cancelled).
* A process that dies while the executor is at an action, or before the cursor is saved behind
  it, leaves a checkpoint with the journal entry and the old cursor: the recovered task
  executes the action again, whatever its risk (`pi_runtime.js:385-397`). The executor is
  given the action's `idempotency_key` and may use it; the loop itself does not look at the
  journal. `product/agent-runtime/protocol/README.md:20` forbids to replay external effects
  automatically after a restart, `product/docs/DESIGN_BOOK.md:222` irreversible ones.
  `CompletedDidAll` allows one execution more for each crash that fell there
  (`interrupted`), and for no other.
* `start` refuses a task only if it is in memory (`pi_runtime.js:281`). After a crash a start
  under the same name makes a fresh task and saves it over the checkpoint, also over that of
  an ended task, whose journal is lost and whose actions run again. `EndIsFinal` allows this
  start and no other; `ExecutionsAccounted` counts the entries it loses.
* When the executor answers that an action failed, the task is first saved with the action
  committed and the cursor behind it, still running (`pi_runtime.js:399`), and then failed by
  another save (`:263`). A process that dies in between leaves a task that recovery takes on
  past the failed action, to completion if the rest goes well. `CompletedDidAll` has such an
  action as `torn`.
* An `ackThrough` that resumes a task, followed by `step`, while an earlier step awaits the
  executor, executes the same action again and then skips the next (`cursor` moves twice).
* The frame allocator is used by `SYS_SHM_MAP` after the frame it lives in is gone
  (`kernel.c:1395`), as described in section 2.
* The comment at `vm.c:103` has the table frames below 1 MiB; the code takes frames up to
  the end of the identity map, and it is the aliases mapped after the window that keep
  them reachable. Where usable memory below the kernel is short this is not always enough:
  a table that the third root or the user image takes above the kernel, after
  `kernel.c:1561`, gets no alias in the roots built before, and `KernelCanWalk` fails. The
  theorems of section 4 say under which conditions it holds; in `virtual_memory` the memory
  below the kernel and the pool suffice.

## 4. The proofs

A theorem holds for every value of the constants the named assumptions allow: any
number of tables, slots, generations, services, actions or crashes, any width of an
index. TLC evaluates the assumptions in the runs. The modules that hold theorems
extend the module they are about, which stays as TLC checks it.

### Capability tables (`CapabilityTableProofs`)

| Theorem | States |
|---|---|
| `TypeCorrect`, `LineageKept`, `AuthorityAttenuates` | `TypeOK`, `LineageInv`, `Attenuated` |
| `DeadHandlesStayDead`, `MintedHandlesAreLive` | the action properties `DeadStaysDead`, `MintedHandlesWork` |
| `WalkDecidesLineage` | `WalkAgrees` |
| `TablesAreForest` | `RefinesForest`: the tables implement `CapabilityTree` |

Assumptions: `CapabilityAssumption` and `TableAssumption`, which say that the bounds
are positive and the distinguished constants are where they should be.

`TypeOK /\ LineageInv` is inductive. Its heart is `ParentKept`: what a derived entry
refers to is either the entry it was derived from, still with its object and at least
its rights, or gone for good, because the slot's generation has passed, the slot is
retired, or the table has another incarnation. `Attenuated` alone is not inductive: a
broken link could become intact again when a slot is reused. `ParentKept` excludes it.
Generations of a slot never fall within an incarnation and incarnations are never given
out twice (`IncarnationBehind`), so no mint recreates a referenced generation. From
there: an intact link has an attenuated parent; a step never makes a position live
except the one it mints (`NoRepair`: a closed set of the new state, without that
position, was closed before); hence a spent name stays spent; and a mint leaves the
closed set its source lies in closed, so its result is live.

The walk. `WalkExists` shows that the recursive function in `ValidateWalk` exists, by
induction over a set of naturals (the least element of what is left out), so that it
satisfies its equation (`WalkFacts`). Depth falls by one along an intact link, so the
loop's bound is never what ends it, and what it accepts is what `Live` defines as a
closed set (`WalkIsAncestry`).

The refinement. A node of the forest is a live entry under the name it was minted with
(table, incarnation, slot, generation). `PruneStep` and `AddStep` are the two halves of
every call: it forgets a set of nodes, which is closed downwards, and adds at most one,
whose parent is live and whose name was never given before. `ForestStep` matches each
action with `Grant`, `Derive`, `Revoke`, `Drop`, `Forget` or `Withdraw`, or a stutter
where the call fails.

### Endpoints (`IpcEndpointProofs`)

`RingTypeCorrect` (`TypeOK`) and `RingKept` (`RingInv`), inductive together, and
`RingIsFifo` (`RefinesFifo`), for every capacity and number width (`EndpointAssumption`).
The mapped buffer is the `count` messages from `head` on, modulo the capacity; a send
appends to it because `tail` is the position after the last one and, with room left, none
of the positions of the buffer; a receive removes its first element.

### The kernel (`KernelProofs`)

| Theorem | States |
|---|---|
| `KernelTypeCorrect` | `TypeOK` of the processes, endpoints and tables |
| `OneProcessRuns`, `ReceiversInLine`, `NoWakeupIsLost`, `AuthorityStaysPut` | `CpuInv`, `WaitInv`, `NoLostWakeup`, `AuthorityConfined` |
| `DestroyedIsForgotten`, `MessagesGoWhereTheyMay`, `RestartGivesBack` | the action properties `DestroyForgets`, `DeliveredRightly`, `RestartRestores` |

Assumptions: `CapabilityAssumption` and `KernelAssumption`, for the boot
configurations with two and with three processes, and slots, pools, queues and snapshots of
any size. The latter has the right ADMIN distinct from those an
endpoint can carry, as `capability_table.h` has.

`Next` has an action per call, so it is looked at twice, once and for all. On the tables
(`TablesStepOfNext`) every step leaves an entry, retires it, zeroes it with the whole table
of a reaped process, or fills a free one with a root, a saved capability or a derived one.
On the process table (`ShapeOfNext`) the running process gives up the CPU, falls asleep in
a receive, or stays while others are woken or ended, or nothing moves. The invariants are
proved from these two views and not from the actions.

`ProcessInv` is inductive: the types, `CpuInv`, `WaitInv`, `NoLostWakeup`, and `AnswerInv` (no
answer waits for a process that runs or sleeps), without which a process that falls asleep
could already have been answered. `KernelInv` adds `AuthorityKept`, which speaks of every
entry for the authority object, valid or not, and of what was saved for a restart:
`AuthorityConfined` alone would be lost to the restart that mints what is saved. The
properties of steps need two more invariants. `Parented` is the lineage invariant of
CapabilityTable for the tables inside the kernel, and gives the kernel its own `NoRepair`: an
entry that stays in place does not become valid again. `HandleInv` has the handle of a blocked
receive never ahead of its table, so that an entry minted in its place is another one.

### Policy tokens (`PolicyTokenProofs`)

`TokensTypeCorrect` (`TokenTypeOK`), `TokensAreUsedOnce` (`UsedOnce`) and `ApprovalsHold`
(`ApprovalHolds`), for the tokens composed with every step of the kernel, from
`PolicyTokenAssumption` and the kernel's. The inductive invariant is the kernel's types and
`Parented` with three facts about tokens: a slot's generation is ahead of every handle spent
since it last wrapped (`SpentBehind`); the capability a token is bound to is never ahead of its
table (`GrantPast`); and one that was invalid once stays invalid (`LapsedDead`), which is
`NoRepair` of the kernel. `ApprovalHolds` is the last of these read at the step that consumes:
the code checks the capability then, and has no memory of what it was in between.

### Supervisor (`SupervisorProofs`)

| Theorem | States |
|---|---|
| `SupervisorTypeCorrect`, `AuthorityEndsWithLife`, `PausedGroupsStayDown` | `TypeOK`, `AuthorityEnds`, `PausedGroupsRest` |
| `GroupsEndTogether`, `HandlesDieForGood` | the action properties `GroupsFailTogether`, `HandlesStayDead` |

`AuthorityEnds` is an upper bound: the table of granted handles is what the services hold, each
at most one of its present generation and only while up or frozen. It does not say that
whoever is up holds one; a faulted service that was unfrozen does not (section 3).

Assumption: `SupervisorAssumption`. Any services, groups, dependencies, budgets and times.
The methods call one another, so the invariant is a predicate of what a call has reached so
far: `Sound(w, frozen)`, each service is `Sane` and what is granted is what the services
hold. Each helper keeps it, and also what the two action properties are about (`TogetherIn`,
`Remembers`). `Tick` is a fold of `Tended` over the services; `TickLoops` shows that the
function exists and `TickFacts` carries the invariant along it, by induction over a set of
naturals.

### Block journal (`BlockJournalProofs`)

| Theorem | States |
|---|---|
| `LogTellsTheTruth`, `SayingIsDurable` | `LogIsTrue`, `SaidMeansDurable` |
| `OkIsDone`, `GivingUpIsOnUnfinished` | the action properties `OkMeansDone`, `GivesUpOnUnfinished` |

Assumptions: `VirtioAssumption` and `JournalAssumption`: any sectors and contents, and ring
indices of any width of at least two values. The invariant is
`Inv == ~overran => DriverInv /\ JournalInv`. `overran` never becomes false again, so a
step that makes it true owes nothing.

* `DriverInv`: the ring is `Quiet` (the three indices agree, nothing is in flight) or
  `Pending` (one ahead, one request), and where the driver stands in its call says which:
  `Resting`, `Answered`, `Fresh`, `Sampled`, `Sent` or `Waiting`. The order of sample and
  publish differs between reads and writes, and the index comparison wraps; both are settled
  here.
* `JournalInv`: `Known(program, pc)` is a table of what is certain of the disk before each call
  of each program. Nothing is certain of a sector in the cache until a flush, so agreement of
  record and payload is stated of every mix of medium and cache (`Mixed`), and of the write
  under way that it is `Safe` against any such mix. `LogIsTrue`, of the medium alone, is not
  inductive: the device writes back in any order.

This invariant was checked by TLC on the instance of `block_journal` before it was proved.

### Agent loop (`AgentLoopProofs`)

`EndLasts` (`EndIsFinal`), `ExecutionsHaveReasons` (`ExecutionsAccounted`) and
`CompletionIsWork` (`CompletedDidAll`), for every plan, any number of calls in progress,
crashes and tokens (`AgentAssumption`).

* `BaseInv`: the types, and `SavedIsKnown`: wherever a stretch between two awaits changes the
  task it saves it, so while there is a task in memory the checkpoint agrees with it on all
  the loop decides by. The others are then stated of the checkpoint, and a crash between
  stretches leaves them as they are.
* `AccountInv`: of each action, executions begun are at most the journal entries of the
  checkpoint and those that starts wrote over; and of an action to be confirmed, those begun,
  the calls whose token is being consumed and the approval in hand are together at most the
  tokens consumed (`paid`). The sum is what is inductive: an approval moves from one term to
  the next.
* `ProgressInv`, as long as two calls never overlapped: every action before the cursor was
  answered well, or torn, or its failure has ended the task (`Done`); those behind it are
  `Fresh`, begun in earlier lives of the task only or before a crash that interrupted them; and
  the one at the cursor is `Fresh` unless the single call in progress is executing it or it
  has ended the task (`Tried`). An execution uses up an action's turn; a commit moves
  the cursor past it, a crash before the commit gives the turn back (`interrupted`), and a
  start, which sets the cursor back, gives each action another.

`Lands` describes what every stretch after an await may leave behind, and `Drops` what a
crash inside one leaves; each is proved once per stretch, so that each invariant is proved
over a few kinds of steps (`Kinds`). What begins a task anew (`EntersAnew`, `DropsAnew`) is
apart from them: it owes nothing to the checkpoint but to count what it loses.

### Memory (`VirtualMemoryProofs`)

`RegionsMatchTables` (`RegionsHold`), `BuffersStayGood` (the action property
`CheckedStaysGood`), `TablesAreFree` (`FramesAreFree`), `UserStaysConfined`
(`UserConfined`), and on `KernelCanWalk` the three theorems `LowTablesAreWalkable`,
`CallsKeepWalk` and `TablesStayInReach`, for page tables of any depth and size, any memory
map, user image, pool and layout that the assumptions allow:

* `PhysMemAssumption`; `VirtualMemoryAssumption`: page numbers are numbers, the user half
  lies within the page space, the window lies below the kernel and begins no later than the
  memory the allocator hands out (`vm.c:108` and `physmem.c:42`, both 0x10000);
* `LinkAssumption`: `linker.ld` puts the sections of the kernel and the user text at the
  link base or behind it, the kernel within the identity map (`linker.ld:53`), the stacks
  behind those, and the high half beyond the identity map;
* `ImageAssumption`: the fields of an ELF segment are numbers;
* `LayoutAssumption`: `process_page_pool`, `user_load_storage` and `shared_test_page` are
  distinct objects of the bss (`vm.c:33`, `kernel.c:61`), which is mapped writable
  (`vm.c:327`), and the kernel, the user text and the stacks share no page (`linker.ld:46`
  aligns the user text, `linker.ld:53` checks that it ends below the stacks);
* `LoaderAssumption`: the firmware's usable ranges do not overlap, and the loader reserves
  every page of the image (`uefi_loader.c:369` rounds its segments to pages). It says
  nothing of the stacks, which nothing reserves.

`UserStaysConfined` is stated for the states in which no table lies on a user stack
(`StacksAreNoTables`): where the usable memory below the kernel runs out, one may (section
3), and then user code does reach it. It is the only way: whatever else was mapped is apart.

`KernelCanWalk` does not hold for every memory map (section 3), so it is proved in the form
of what it takes:

* `LowTablesAreWalkable`: it holds whenever every table lies where the comment at `vm.c:103`
  has it, below the kernel, or in the pool (`TablesAreLow`);
* `CallsKeepWalk`: if it holds when the processes start, no sequence of calls breaks it,
  wherever the tables lie and whatever becomes of the allocator, without a hypothesis;
* `TablesStayInReach`: it holds wherever the first tables lie, if when the first two roots
  are aliased there is room in `vm_pmm_pages` for one frame more (`RoomToNote`) and the
  tables made from then on to the launch are low (`NewTablesAreLow`).

All behaviours of `virtual_memory` meet both hypotheses. With less memory below the kernel
and some above it TLC finds boots that meet them with tables above the kernel, and boots
that do not meet them and fail.

* `Grown(a, b)`: b has the tables and the entries of a, unchanged. It is reflexive and
  transitive, every operation of `AddressSpace` yields a space the old one has grown to,
  and a walk or a buffer check that succeeded succeeds in the grown space (`GrownWalks`).
* The walk down the levels, the rounds over the pages of a mapping, and the loops over
  regions and aliases are recursive functions. Each is shown to exist by induction over a
  set of naturals (`WayExists`, `RoundsExist`, `MappingsExist`, `AliasesExist`), and
  its facts are carried along the same way, up to `Mapped`: what a call of `Map` leaves
  behind, and where it may have stopped.
* `VMInv`: while the machine is up, each space has the regions its tables hold and no
  other page (`SpaceOk`), and the first page of the window below the kernel is mapped. The
  second part is the strengthening. A mapping that fails after its first pages leaves pages
  behind that no region records. Such a failure halts the boot, unless the mapping finds a
  page taken (`BUSY`) and is one of those the boot tolerates: the window and the aliases. The
  window is harmless because it is there whole or not at all (`WindowWhole`): when it is
  first mapped, all that is mapped lies at the link base or above, and whenever it is mapped
  again it is refused at its first page (`TolerableMap`). An alias and the shared page are
  single pages, and leave none behind.
* `RangesAreFree`: the ranges carved out of any memory map share no frame with each other and
  consist of free frames. A step of the loop ends a range where the nearest reserved range
  starts and goes on where that one ends; the induction runs over the distance to the end of
  the entry (`CarveFacts`) and then over the entries (`LaidMore`).
* `Clean(sp, m, F, A)`: the space sp took its tables out of the frames F, one frame each, m
  offers only frames of F it did not take, and the user leaves of sp are among A. Every
  operation preserves it, whether it succeeds or not (`ChildClean`, `PageClean`, `MapClean`,
  `AllClean`, `PmmClean`).
* `TidyInv`: no two spaces share a frame, none has one that is still on offer, all of it was
  `Given` (free, or of the pool), and the user leaves are those `Meant`: the text, the
  stacks, the shared page and, once it is loaded, the image. `FramesAreFree` is not inductive
  without what is on offer. A step changes one space at a time and uses `Clean` with F the
  frames of that space and those on offer (`TidyChanged`); at run time the ranges may have
  been lost, so less is on offer and nothing else changes (`TidyLess`).

* `Closed(J, reach)`: a relation J of table frames and sources that taking one frame more
  does not leave. What is in such a J, and every leaf of it in a set A, stays so through a
  whole mapping (`ChildClosed`, `PageClosed`, `MapClosed`); `TakenClosed` is the J used.
* `WalkInv`: while the machine is up, (1) what is noted in `vm_pmm_pages` is off the ranges,
  and every table is noted or of the pool as long as there is room (`Sound`, `Noted`); (2)
  a page that leads to a frame still on offer leads to the window or to a stack (`Views`);
  (3) until the image is mapped the identity map is straight (`Straight`); and (4) each
  process can write what is `Common`: the window, the stacks, and the writable sections.
  (2) is what makes `CallsKeepWalk` inductive: a table taken at run time was writable in
  the root of the caller and on offer, so it lies in the window or a stack, which (4) has all
  processes map (`WritableIsCommon`). (3) gives that an alias that is refused as `BUSY` is there
  already, and leads where it should (`StraightReach`).
* `SeenInv`: from the aliases on every table is noted or common, and every process reaches
  it. The aliasing loop ends only when all that was noted by then is mapped, what it took
  itself included (`PmmFits`).

`TidyInv` was checked by TLC on the instance of `virtual_memory`, and so were `WalkInv` and the
theorems on `KernelCanWalk`, there and with little memory below the kernel.

### What stays with TLC, and why

* `Dispatched` and `Attended`: liveness under fairness.
* `CreatedIsExclusive` and `DurableIsDurable` are expected to be violated.
* `KernelCanWalk` without the hypotheses above, which depends on the memory map: the run
  shows that the boots of its instance meet them.

Two definitions of the model are written with the prover in mind. Where guards overlap
(`Returned` of BlockJournal, `ChildTable` of AddressSpace) an `IF` stands for a `CASE`, between
whose arms the prover could not choose.

## 5. Not modelled, and the plan

Not modelled on purpose:

* PCI probing, the interrupt controller and serial output: pure I/O. The net and input
  probes of `virtio_pci.c` run once in boot tests and keep nothing.
* The UEFI loader and the initrd parser: one-shot code before the kernel's state exists;
  what they hand over is the constant `Boots` and the `Init` of Kernel.
* The construction of the bootstrap page tables (`vm_init`): what they reach is
  `BootReach`.
* `shared_memory.c`: nothing calls it.
* The fixtures of `user_program.asm` that do not use the disk: each is one behaviour of
  `Kernel`, where any process may call anything.
* `AgentEngine` of `runtime.js`, which `PiAgentLoop` supersedes and which has its shape
  without checkpoints; the adapters, the schemas and the virtio service protocol, which
  format messages.
* Everything under `linux-agent-os/` and `learning/`.

Left in the plan, in this order:

1. `PolicyFirewall`: the confirmation tokens of `policy_registry_runtime.js` over the
   await in `consumeConfirmation`, and its prepare / commit journal file with a torn last
   line.
2. A composition of `AgentLoop` with it in place of the fixture policy.
