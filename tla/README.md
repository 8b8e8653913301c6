# A TLA+ verification of the NOVA microhypervisor

NOVA is a small kernel that runs on every CPU of a machine. It schedules, passes
messages, manages capabilities and page tables, and leaves everything else to
user-mode servers. Kernel code runs with interrupts off and is never preempted, so
what happens on one CPU is a sequence of uninterrupted handlers. The difficulty is in
what several CPUs do to the same objects at once, in what a handler leaves behind for
the next one, and in lists whose elements may be in one place only.

This directory holds specifications of that core. TLC checks them on small instances.
TLAPS proves the most important invariants for instances of any size. Paths below are
relative to the repository.

- [Inventory](#inventory)
- [Modules and how they correspond to the code](#modules-and-how-they-correspond-to-the-code)
- [Runs](#runs)
- [Fairness](#fairness)
- [Proofs](#proofs)
- [Disagreements between code and comments](#disagreements-between-code-and-comments)
- [What is not modelled](#what-is-not-modelled)
- [Plan](#plan)

How to run: `tlc -config <file>.cfg <module>` for a run (the pairs are listed in
`PROJECT.json`), and `tlapm <module>.tla` for the proofs, which are in the modules whose
name ends in `Proof`.

## Inventory

| Component | State | Operations | What is hard | What makes it correct |
|---|---|---|---|---|
| Scheduler (`src/sc.cpp`, `inc/sc.hpp`, `inc/queue.hpp`, `src/timeout_budget.cpp`) | per CPU: ready queue per priority, `prio_top`, release queue, current SC, SCHED hazard; per SC: budget left | `schedule`, `unblock`, `requeue`, `Ready::enqueue/dequeue`, budget timeout | an SC handed to another CPU through a locked list and an IPI | an SC is in one queue at most; none is lost; equal priorities take turns |
| Execution contexts and IPC (`src/ec.cpp`, `inc/ec.hpp`, `src/syscall.cpp`, `src/x86_64/ec_arch.cpp`) | `cont`, `callee`, `caller`, SC wait queue; per CPU: current EC, donations | call, reply, exceptions, `help`, `activate`, `kill`, `block_sc`, `unblock_sc`, idle loop | blocking races with remote unblocking; an SC travels along a call chain | no lost wakeup; links are symmetric and acyclic; a reply returns the SC to its owner |
| Semaphores (`inc/sm.hpp`, `src/sm.cpp`) and hypercall timeouts (`src/timeout_hypercall.cpp`) | counter, FIFO of ECs, a timeout per EC | `dn`, `up`, `timeout` | up, timeout and the blocking EC meet on three CPUs | behaves as a FIFO counting semaphore; a timeout only hits the wait it was set for |
| Timeout list (`src/timeout.cpp`) | per-CPU list sorted by deadline, one-shot timer | `enqueue`, `dequeue`, `check` | handlers change the list that is being walked | no expired timeout is left without an armed timer |
| Spinlock (`inc/x86_64/spinlock.hpp`, `inc/aarch64/spinlock.hpp`) | two counters in a word | `lock`, `unlock` | wrap-around; deciding on an old copy | exclusion, FIFO order, no starvation |
| RCU (`src/x86_64/rcu.cpp`) | shared word of batch and flags, counter; per CPU: three lists, batch seen | `call`, `update`, `quiet`, `start_batch`, `invoke_batch` | all CPUs change the word without a lock | grace periods; exact count; every callback invoked |
| Buddy allocator (`src/buddy.cpp`) | block headers, free lists, deferred blocks | `alloc`, `free`, `wait`, `free_wait` | headers inside a block are stale but are read | pages are conserved; buddies are merged |
| Slab allocator (`src/slab.cpp`) | doubly linked slabs, buffer lists, `curr` | `alloc`, `free` | pointer surgery on four cases | buffers are conserved; partial slabs first |
| Object spaces, PDs, object creation (`src/space_obj.cpp`, `src/pd.cpp`, `src/syscall.cpp`) | tree of capability tables, spaces of a PD | `lookup`, `insert`, `update`, `delegate`, `create_*` | lock-free growth, allocation failure half way | no table or object lost or dangling; delegation never amplifies |
| Page tables, memory spaces, TLB shootdown (`src/ptab.cpp`, `src/space_mem.cpp`, `src/x86_64/tlb.cpp`) | tree of tables; deferred tables; IPIs | `walk`, `update`, `deallocate`, `delegate`, `sync` | lock-free replacement of subtrees that other CPUs are inside of | only an update changes a translation, and only its own range |
| I/O port and MSR spaces (`src/x86_64/space_pio.cpp`, `space_msr.cpp`) | permission bitmaps, the window that maps one into a host space | `create`, `update`, `delegate` | bits are copied one by one while others change them | nobody gets a port or MSR that NOVA keeps; a thread runs with the bitmap of its own space |
| TLB generation sets (`inc/x86_64/space_hst.hpp`, `src/x86_64/tlb.cpp`) | `htlb`, `gtlb` bits per space and CPU | `make_current`, VM entry, `shootdown` | the flush test races with the shootdown | no revoked translation is used after `sync` |
| Recall (`sys_ctrl_ec` in `src/syscall.cpp`) | RECALL hazard, RKE IPI, IPI counter | weak and strong recall | decides on another CPU's current EC; takes any IPI for its own | a recalled EC sends its event before it runs again; no circular wait |
| Interrupts (`src/x86_64/interrupt.cpp`, `src/aarch64/interrupt.cpp`, `src/aarch64/gic*.cpp`) | mask, owner CPU and semaphore of each interrupt; distributor, redistributors, CPU interfaces | dispatch, `assign_int`, deactivation, initialisation, resume | masks changed from two CPUs; shared registers; state lost in a sleep | no interrupt source stays silent; hardware is what `int_table` says |
| IOMMUs (`src/x86_64/smmu.cpp`, `src/aarch64/smmu.cpp`) | context entries, remapping entries, invalidation queue; stream groups, context banks | `assign_dev`, `set_irt`, invalidation, resume | caches in the hardware; a ring that wraps; registers lost in a sleep | a device reaches the space it was given last and nothing else |
| FPU and machine state (`src/ec.cpp`, `src/x86_64/ec_vmx.cpp`, `src/x86_64/vmx.cpp`, `src/aarch64/ec_arch.cpp`, `src/aarch64/vmcb.cpp`) | FPU owner, hazards, VMCS / EL1 state in hardware | lazy switch, VM entry and exit, virtual timer, sleep | the owner dies, moves or sleeps between hazard and switch; five copies of one bit | registers belong to the EC that runs |
| UTCB (`src/x86_64/utcb_arch.cpp`, `src/aarch64/utcb_arch.cpp`) | the items of an EC's state, in memory, hardware and message | load and save of any subset | conversions in both directions, constraints on what a handler writes | an untouched item comes back unchanged; an EC that runs is legal |
| Sleep and CPU bring-up (`src/acpi.cpp`, `src/*/acpi_arch.cpp`, `init.cpp`, `bootstrap.cpp`, `cpu.cpp`, `start.S`) | transition word, online count, boot lock, SLEEP hazard | boot, sleep, resume, reset | a reused rendezvous; caches and page tables that go with the power | all CPUs leave and come back, with nothing lost |
| Cache allocation (`inc/x86_64/cos.hpp`) | masks, CDP setting, current class of a CPU | `ctrl_hw`, class switch, resume | which classes exist depends on CDP | a CPU runs with the class of its SC |
| Launch (`start.S`, `src/uefi.cpp`, `create_root`) | boot parameters, memory map, image mapping, root's pages | parse, leave boot services, map, load | the memory map changes while it is fetched; three loaders, one entry | parameters, map and pages are the ones that were passed |
| Discovery (`src/acpi_table*.cpp`, `src/x86_64/pci.cpp`) | one temporary window; CPUs, I/O APICs, PCI functions, remapping units | parse of each table | a pointer that outlives the window; tables in any order | the kernel's platform is the one described |
| Consoles (`src/console.cpp`, `src/console_mbuf.cpp`) | list of consoles, ring indices in shared memory | `print`, `outc`, `flush` | a reader outside the kernel; a list changed while others print | the ring is exact; no line is missed; UARTs are left alone once given away |
| Everything else | registers, hardware tables, utilities | | | see `PROJECT.json` |

`PROJECT.json` lists every component with its sources and status, and every hazard at
the line where it bites with the properties that cover it.

### How the components interact

- The scheduler picks an SC and calls `Ec::activate`, which follows the callee links
  from the SC's EC and enters the continuation of the last one, or parks the SC on a
  blocked EC (`block_sc`) and lets the scheduler loop go on.
- `Sm::dn` blocks an EC, then its SC. `Sm::up` and `Sm::timeout` set the EC's
  continuation and call `unblock_sc`, which returns the SCs to the scheduler. An SC of
  another CPU travels through that CPU's release queue and an RRQ IPI.
- An interrupt is an `up` of the interrupt's semaphore.
- Locks of queues, semaphores, ECs and allocators are the ticket spinlock.
- The slab allocator takes pages from the buddy allocator; object spaces and page
  tables take tables from it, and page tables give them back through the deferred list
  after a TLB shootdown.
- Hypercalls look up objects in the caller's object space.
- IPIs carry two requests: RRQ, to look at the release queue, and RKE, to look at the
  hazards. TLB shootdown, strong recall and sleep all use RKE and its counter.
- A sleep takes the state of CPUs, interrupt controllers, IOMMUs and cache allocation
  with it; each component restores its own part when the CPUs go through `Cpu::init`.

## Modules and how they correspond to the code

### Kernel core: `Sched`, `Ec`, `Sm`, composed in `Nova`

`Sched` has the queues, `Ec` extends it with IPC, `Sm` with semaphores; `Nova` has
Init, Next, the properties and fairness. `Semaphore` is the abstract specification.

*Control.* `pc[c]` is the kernel function CPU `c` is about to enter, or the point in it
where shared state is touched next; `arg[c]` is the EC it works on and `ret[c]` where it
returns. `cont[e]` is the name of the function in `Ec::cont`, so entering an EC sets
`pc[c]` to `cont[e]`. Values such as `"schedule"`, `"pick"`, `"unblock_loop"` are places
in `Scheduler::schedule`, its loop and `Ec::unblock_sc`.

| Action | Code |
|---|---|
| `Schedule`, `Pick`, `ReadyEnqueue`, `ReadyDequeue` | `Scheduler::schedule`, `Ready::enqueue`, `Ready::dequeue` |
| `HandleRrq`, `Requeue` | IPI `Request::RRQ` in `src/x86_64/interrupt.cpp`, `Scheduler::requeue` |
| `BudgetTimeout` | `Timeout_budget::trigger` |
| `ActivateWalk`, `ActivateRun`, `ActivateBlockSc` | `Ec::activate`, `Ec::block_sc` |
| `UnblockSc`, `UnblockLoop`, `Notify` | `Ec::unblock_sc`, `Scheduler::unblock`, `Release::enqueue` |
| `CallPortal`, `SysIpcCall`, `Recv`, `SysIpcReply` | `sys_ipc_call`, `rendezvous`, `recv_user`, `recv_kern`, `sys_ipc_reply`, `reply` |
| `RaiseException`, `SendMsg`, `Kill` | `send_msg`, `kill` |
| `Help` | `Ec::help` with its preemption point |
| `RetUser`, `IdleLoop` | `ret_user_*` with `handle_hazard`, `idle` |
| `SysCreateSc`, `NotifyCreated` | `sys_create_sc` |
| `DnFast`, `DnBlock`, `DnBlockSc` | `Sm::dn` |
| `SysUp`, `GsiUp` | `Sm::up` from a hypercall and from an interrupt |
| `SmTimeout`, `SysFinish` | `Timeout_hypercall::trigger` with `Sm::timeout`; `sys_finish` |

*Abstractions.* Time is one bit per SC: `left[s]`, whether budget is left. A budget
timeout may come at any interruptible point while the bit is set, and an enqueued
hypercall timeout at any time, so every order of deadlines is covered. A portal is the
handler EC it leads to (`want`, `NoEc` if there is no such portal any more); it is chosen
anew when a call is re-entered, which stands for revocation and rebinding. Messages have
no content. A semaphore's critical section is one step; what the code does after the
unlock is a step of its own. The EC's lock spans several steps of `unblock_sc` and is
derived from the program counters (`Locked`). `blocked()` is read twice in
`activate`/`block_sc`; a remote CPU can only change it from true to false, so both
reads are one step.

*Start.* CPUs have run their bootstrap and enter `schedule` on the idle SC. `BootQ`
gives the SCs that are ready, `Started` the ECs past their startup exception; other SCs
are created by `sys_create_sc`.

### Locks: `Spinlock` implements `FifoLock`

Each instruction that touches the lock word is a step, and the copy of the owner
counter a CPU compares with is a register (`seen`). `FifoLock` is a queue-like lock in
which a CPU has a number of CPUs ahead of it. Since the spinlock implements it, the
other modules may take a critical section as one step.

### `Rcu`

Every access to the shared word is a step. `state++` is a load and a store, because the
code uses no locked instruction for it. `owes` is a history variable: the CPUs that have
not been through a quiescent state since `call(e)`. The repository has no caller of
`Rcu::call` yet; the module calls it at any time.

### `Buddy` and `Slab`

`Buddy` keeps order and tag of every page header, including those inside larger blocks,
since the code reads them and leaves them stale. `used` is a history variable: what
callers hold. A CPU in `free_wait` releases one block per critical section, and other
CPUs may come in between. Filling pages with a pattern is left out.

`Slab` keeps the links and buffer lists as pointers. Each case of `free` is an action.

### `SpaceObj`

A walk goes down one level per step; a missing table is allocated, then installed by
compare-and-exchange; the loser drops its table. `insert` and `update` end in one
atomic access. `sys_create_sm` stands for objects without a link to their PD,
`create_obj` for those that are attached, inserted, published and, on failure, undone.
A lookup is one step because tables are never unlinked, which is itself a checked
property (`TablesStay`). An allocation may fail at any time.

### `Ptab`

An entry has the meaning its level gives it, as in the hardware formats: without the
superpage bit, a table above level 0 and a frame at level 0. A CPU that is in a table
which was freed and reused thus reads what the new owner wrote. Exchange,
compare-and-exchange and reads are steps; the scan of a subtree that is about to be
deferred is one step. A delegation ends with the shootdown: `rke[c]` is the set of CPUs
that still have to take the IPI, which they do outside the kernel, and only then are
the deferred tables freed. All IPIs are sent at once, which permits more interleavings
than the loop that sends them one after the other.

`InSpace` are the CPUs whose EC runs in the space that is changed. The shootdown only
waits for those. A CPU that delegates into a space on behalf of an EC of *another* space
is not waited for, and with `InSpace = {}` the model reaches a state in which such a CPU
uses a freed table. On AArch64 nobody is waited for, for a host or guest space either: the
broadcast invalidation of `sync()` does not stop a CPU that walks the table. The code states
no rule that excludes this, nor one that is broken by it, so it is recorded as a hazard.
The runs are about the tables whose `sync()` waits, which are those of x86: four levels and
`InSpace = PtabCpu`. `alone` is a history variable: whether an update ran undisturbed.

### `Tlb`

A CPU may keep translations of a space it does not run in. Delegations are numbered, and
what a CPU has cached of a space is the number of the oldest translation (`tcache`). The
mark in `htlb`/`gtlb`, its test in `make_current` and in the guest entry path, the load of
CR3, the walk over the CPUs, the read of another CPU's current EC, the IPI and the wait for
its counter are steps of their own.

`make_current` tests the mark *before* the CPU can be seen to run in the space. A
shootdown in between skips that CPU; the mark stays set and is honoured at the CPU's next
switch. The model has this window: `traced` records the CPUs it happened to, and
`RevokedIsGone` speaks of the others, `StaleIsMarked` of all.

### `Recall`

`sys_ctrl_ec` sets the hazard, looks at the current EC of the target's CPU, reads the IPI
counter, sends and waits, one access per step, while CPUs switch ECs, enter user mode and
handle each other's IPIs. `rserved` and `rowed` are history variables: who saw the event,
and which ECs owe one. Accesses are not reordered, although the code uses relaxed atomics
for the hazard and for `current`.

### `Create`

`Pd::create_*`: test-and-set of a bit of `Pd::spaces`, allocation, insertion of the
capability, publication, undo. Two CPUs run hypercalls of one of five mixes of kinds.
A creator of the attached PIO space also maps its bitmap at `MMAP_SPC_PIO`, and
delegations copy permission bits from one bitmap to the other, one selector per step.
As in the code, a failed insertion gives back the object and not its bitmap.

### `Timeout`

One CPU's timeouts. The links are those of the code (`next` and the pointer back).
`check()` is a step per timeout since triggers enqueue and dequeue under way, and since
time goes on. The timer is a TSC deadline, an APIC count-down (with division and 32 bits,
here `CountRange`) or the compare register of AArch64. `early` is history: the count-down
was set to an end before the deadline, because the distance does not fit 32 bits or is not
a multiple of the tick (`inc/x86_64/lapic.hpp:138`). `check()` then finds nothing expired and
does not arm the timer again, so the head waits for the next change of the list. `TimerArmed`
leaves this case out; in all others the timer is armed for the head itself, the count-down
to the tick.
The core assumes less: there a timeout may fire at any time.

### `Console`

`print` holds the lock and sends every character to each console; `flush` walks the list,
waits for each UART to be idle (`CFlushFini`) and takes it off the list (`CFlushDisable`),
without the lock. A CPU that is printing may thus send a character to a UART that has just
been found idle or been taken off. `overlap` is history: a line was being printed during the
walk. Then a UART may get one more character, the one that is on its way through the old
list, and never a second (`UartsHandedOver`); otherwise none. The writer of the ring drops the oldest
character with a compare-and-exchange while a reader outside the kernel (`rd`, external)
moves the same index.

### `Power`

All CPUs from power-on to user mode and back, for both architectures: the boot lock is a
FIFO, `online` and the barriers are counters, `dirty` the CPUs with unwritten caches,
`sipi`/`sra` what the start page and the wake vector hold. S1 is in `PowerNextS1` only, see
[the disagreements](#disagreements-between-code-and-comments). `PromptBarrier` says that a CPU which
waits in a barrier looks at the counter before user mode asks for the next sleep. Without
it TLC finds the deadlock that is described with the hazard at `src/acpi.cpp:102`.

### `Intr` and `Gic`

`Intr` follows one device interrupt: an I/O APIC pin, an MSI, an SPI or an SPI that
belongs to a guest. The handler, the driver's `ctrl_sm`, `assign_int` and a sleep run on
any two CPUs. `Gic` has the controller of AArch64: initialisation under the boot lock by
every CPU, configuration of SPIs with read-change-write of registers that several SPIs
share, and a suspend that loses all of it. Redistributor frames come in any order.

### `SmmuVtd` and `SmmuArm`

The hardware is part of both models: it fills its caches at any time and executes
invalidations when it likes. `vdev`, `virq`, `sgave` and `ssafe` are history: what calls
that have returned asked for. `Serial` (one caller at a time, since no lock is taken on
x86), `WrapResume` (a sleep at the last two slots of the queue, since the hardware's index
is reset and the kernel's is not) and `SharedBanks` (groups that share a bank or stream
ID) name cases in which the properties do not hold; see the notes of the hazards at
`inc/x86_64/smmu.hpp:257` and `src/aarch64/smmu.cpp:131`. `WrapResume` only matters for a
unit that invalidates by itself (`VResume`): for others `Smmu::init` uses the queue before it
enables remapping or translation, and that brings the two indices together again
(`VResumeFlush`).

On AArch64 `conf_smg` writes five registers of a bank and then the two of the group. The
model has a step for the bank and one for each of the others. Between the first and the fourth
write to the bank of a group that is *reassigned*, a device of that group could use the new
table with the identifier (VMID) of the old space; the model does not have this. A group
matches one stream ID; the mask of the match register would make it several IDs that always
go together.

### `Machine`, `ArmVcpu` and `Utcb`

`Machine` is one x86 CPU with threads and vCPUs, `ArmVcpu` one AArch64 CPU. An action is
one entry to or exit from the kernel with everything the handler does. Of CR0 only TS is
kept, in its five copies (hardware, VMCS, shadow, mask and intercept), because TS and #NM
decide who touches the FPU. `fseen`, `tseen` and `aseen` are history: what each EC would
see were it alone. `NmIntercept` is restricted to `FALSE`: with a VMM that intercepts #NM
for itself the assertion in `switch_fpu` fails, see the hazard at `src/ec.cpp:236`.

A reply may carry the item CTRL without CR (`ReplyCtrl`). If it begins to intercept CR0.TS,
the guest from then on reads the read shadow, which such a reply does not write: it need not
see the TS that it wrote itself, while the VMM is still told the right one. `late` is history: the
vCPUs to which this happened and whose CR0 was not written since. `GuestReady` says of those
only what the VMM is told.

On AArch64 `Ec::adjust_offset_ticks` adds to `cntvoff` from the scheduler (`AAdjustOffset`). If
the vCPU runs again with its registers still loaded, the short path of `ret_user_vmexit` does
not load the new offset, so the guest runs with the old one until its registers are loaded
anew. `alag` is history for this case, and `OffsetExact` speaks of the others.

`Utcb` has every item of `Mtd_arch` of both architectures. An item is a set of bits, and
only the bits that the code converts or constrains are told apart; a mode of EL2 or EL3 is one
of the values. The handler may write anything.

### `Cos`

Masks and CDP per CPU, with the checks of `valid_cos`, `valid_cbm` and `cfg_qos`.
`sys_create_sc` checks the class of a new SC against the CPU that creates it and not the one
it will run on (`src/syscall.cpp:266`), and so does the model: an SC may be created with a
class that its CPU does not have. `kstray` is history, the pairs of CPU and class of such
creations, and `ClassInForce` excepts them from being defined; the rest of it holds for them
as well.

### `Launch` and `Discovery`

Both are the sequential boot path; what varies is the input. `Launch` lets the loader pass
lists of items (`LItems`) under each protocol and the firmware change its memory map and
refuse at any time. `GetMemoryMap` may return or keep its key when the buffer is too small, and
allocating a buffer may change the map or leave it alone. The root image (`LImages`) is a
list of program headers of any kind, of which those to be loaded are delegated chunk by chunk.
`Mb1Arm` is the case that `mb1` is about. Two failures are in the model and excepted from
`LaunchRight`: `exit_boot_svc` is called once and its result is ignored (`src/uefi.cpp:126`),
so that with a stale key the kernel goes on while boot services are on; and a map that fits in
none of the attempts is published unfilled. What the UEFI configuration table says of RSDP
and device tree (`src/uefi.cpp:129`) is input of `Discovery`.

`Discovery` reads all tables through one window, so a read after the window has moved yields
`Junk`; the firmware's tables come from `MCFirmwares`, in all orders that matter: with an
RSDT that is no good (then no table is found and the kernel goes on), an MCFG without segment
0 (configuration space is then read at address 0, which is ordinary memory here), `nosmmu` on
the command line, reserved memory regions before and after the units they belong to, CPUs
that are disabled, parked, on already or fail to start. `Fdt::init`
(`src/aarch64/fdt.cpp:210`) numbers CPUs by position and counts the ones that started, so
that after a failure the numbers are no longer those below `Cpu::count`, which the MADT path
avoids; `CpusExact` excepts the numbers of such boards, not their CPUs or the count.

## Runs

All bounds are CONSTANTS of the cfg. "States" are distinct states.

Several runs check a *sum* of components that share no state. A variable `part`, chosen
in the initial state, says which component the behaviour is one of; the others rest in a
first state. Such a run asks of each component what a run of its own would ask, and its
state space is the disjoint union of theirs. Type invariants are a conjunct of each
component's main invariant.

| Run | Instance | States | Question |
|---|---|---|---|
| `sm` | 2 CPUs, an EC and an idle EC on each, 2 semaphores, counter up to 1 | 202 k | Is every SC in one place, is no wakeup lost, and do the semaphores implement the abstract one, when ups, timeouts and blocking meet across CPUs? |
| `ipc` | core: 1 CPU, 2 clients of priorities 1 and 2, 2 handlers that may call each other, 1 interrupt semaphore; `Recall`: 3 CPUs, 4 ECs | 1.35 M | Do call chains, donations and queues stay consistent under preemption, helping, exceptions, kills and handlers that block? Are recalls exact? |
| `live` | 2 CPUs, one EC on the first with 2 SCs of equal priority, 1 interrupt semaphore | 48 k | Under fairness: are SCs that wait on an EC woken once it is unblocked, also from the other CPU, and does round robin let each SC run? |
| `sync` | `Spinlock`: 3 CPUs, 3 tickets; `Rcu`: 2 CPUs, 2 elements, words of 4 bits | 106 k | Order, starvation freedom and FIFO refinement of the lock with wrapping counters; grace periods, exact counter, one starter, and every callback invoked |
| `spaces` | `SpaceObj`: 2 CPUs, 3 object spaces, 3 PDs, 2 levels of 3 slots, 6 pages; `Power`: 3 CPUs, both architectures, S3, S5 and reset | 84 k | Are tables and objects conserved under races and failures, does delegation never amplify, does every hypercall end? Do CPUs go to sleep and come back with nothing lost? |
| `alloc` | `Buddy`: 6 pages, 3 orders, 2 CPUs; `Slab`: 4 pages, slabs of 1 to 3 buffers; `Create`: 5 objects, 4 bitmaps, 2 CPUs; `Timeout`: 3 timeouts, 3 timers, 3 ticks; `Console`: 2 writers, 2 UARTs, ring of 3 | 632 k | Are the kernel's own data structures exact? |
| `tables` | `Ptab`: 2 CPUs, 4 levels of 4 slots, 5 tables, leaves up to order 4; `Tlb`: 2 CPUs, 2 host spaces, 1 guest space, a thread and a vCPU; `SmmuVtd`: 2 devices, 1 interrupt, queue of 4; `SmmuArm`: 2 SMMUs, 2 spaces | 1.11 M | Does everything that translates addresses follow the last update, for CPUs, guests and devices, once the update has returned? |
| `machine` | `Machine`: 2 threads, 2 vCPUs; `ArmVcpu`: 1 thread, 2 vCPUs; `Utcb`: 5 kinds of EC; `Cos`: 2 CPUs, 2 SCs; `Intr`: 2 CPUs, 4 kinds; `Gic`: 2 CPUs, 3 SPIs, 1 suspend; `Launch`: 3 protocols, up to 2 items and two longer lists, 7 root images, 2 devices; `Discovery`: 6 kinds of tables, 2 CPUs, 4 lines | 1.01 M | Is what a CPU carries from one EC to the next, and what the machine is set up with, exact? |
| `ptab_leak`, `ptab_twice`, `sleep_s1`, `mb1` | as `tables`; four levels of two slots, leaves up to level 3; `Power` with S1; `Launch` with multiboot v1 | | Expected violations, see below |

Why the bounds are enough for the cases that matter:

- *Core.* Two CPUs are all that take part in one block/unblock handshake: the CPU of the
  EC and the one that wakes it. Two semaphores let an old timeout meet a new wait on
  another semaphore. The counter reaches its limit after one up. Two handlers and two
  clients give chains of length two, a client that helps another, and a handler that
  calls back. An EC may have several SCs, so one EC with two of them is enough for round
  robin and for a wait queue with more than one element. What needs more than that is proved (see below) rather than checked.
- *Spinlock.* As many tickets as CPUs is the tightest case that the assumption admits.
- *RCU.* Two CPUs give the race between the one that reports the end of a batch and the one
  that asks for the next. Words of 16 values wrap after four batches, twice the distance
  `complete()` compares.
- *Recall.* Three CPUs allow a circle of two and one whose IPI is taken for another's;
  local and global ECs, with and without an SC of their own home CPU.
- *Buddy.* Six pages in an unaligned pool have a first page whose buddy is never free, a last
  one whose buddy is outside the pool, and between them, with three orders, a merge of a merge. *Slab.* Four slabs allow a move past two full ones; one
  buffer per slab is the case that goes from full to empty at once.
- *Object spaces.* Two levels have a race for an inner and for a leaf table; six pages
  run out.
- *Page tables.* Four levels with the limit of `set_leaf_max (2)` are what x86 uses where the
  CPU, VMX or the IOMMU has no 1 GB pages (`src/x86_64/cpu.cpp:351`, `vmx.cpp:184`,
  `smmu.cpp:51`). Updates then replace tables of level 1, which are deferred with a table of
  level 0 below them, and a CPU may be inside; an order that is no multiple of a level covers
  several slots; an order above the limit is cut into pieces. `set_leaf_max (3)` adds the race
  of `ptab_twice`, under which the tables no longer form a tree.

- *TLB.* Two CPUs are the one that changes the space and the one that enters it. Two
  host spaces let a CPU leave and come back. *IOMMU.* Four slots hold a
  submission of two and one of three, which wrap at each offset in turn. Two SMMUs are invalidated one
  after the other, and their groups are reused.
- *Create.* Five objects and one of each kind per CPU allow both CPUs to race for every bit
  and a third creation to fail for lack of memory. *Timeouts.* Three elements have a head,
  a middle and a tail; three ticks put a deadline before, at and after now, and the
  count-down shorter than the distance. *Console.* A ring of three overflows and wraps
  within three lines of two characters.
- *Power.* Three CPUs have two APs in the boot lock and at the barriers. Every supported
  state behaves as one of S1, S3, S5 and the reset.
- *Machine state.* Two vCPUs, one without FPU, and a thread let the FPU move from and to
  each kind of owner. `Machine` and `ArmVcpu` are two parts each: in one the FPU contents vary,
  in the other the offsets (and, on AArch64, the system registers). No action moves a value
  from one of these to the other; the theorems are about all of it at once. *Interrupts.* The handler, the driver and `assign_int` are at most two
  CPUs at a time. *GIC.* Three SPIs: two of devices that share a register, and one of an SMMU.

Deadlock is checked in `sm`, `ipc`, `live`, `sync`, `spaces` and `tables`: a CPU can always
idle. `alloc` and `machine` contain parts that do end: the boot path, and clocks and output
with a bound (`MaxTime`, `MaxLines`).

Each property of a passing run has a mutation of the model (an operator that a comment
"Mutation of ..." introduces), a plausible slip of the code, under which TLC finds the
property violated. No specification uses these operators.

### The properties

- `ScQueuedOnce`, `RunningNotQueued`: an SC is in one queue at most and once in it, and
  the running one is in none. `inc/queue.hpp` asserts this on a racy read and calls the
  invariant behind it yet unproven.
- `WaitsExact`: an SC in no queue is running or out of work (`NoScLost`), an SC waits on an
  EC only while it is blocked or being unblocked (`NoLostWakeup`), and an enqueued timeout
  belongs to the current wait (`TimeoutMatchesWait`).
- `ImplementsSemaphore`: refinement of `Semaphore`.
- `ScsRunnable`: `NoScLost`, `NoLostWakeup`, and `PrioTop`: `prio_top` is the highest
  priority in use, and the ready queue is never empty in `schedule`.
- `CallChains`: caller and callee links are inverse to each other (`Partners`) and acyclic
  (`CalleeChainsEnd`), with the continuations the receiving paths assert, and `donations`
  counts the links to the very EC that `Ec::activate` last started from for this SC, which
  a history variable `act` records: the SC's owner or a handler the SC helps. So a reply
  hands the SC back to the right EC (`DonationsMatchCallers`). One oddity that it leaves room for:
  if a client that helps a handler has its portal revoked, its SC may go on running a
  handler that its own EC no longer waits for, until the next scheduling decision.
- `RecallExact`: after a strong recall an EC does not run in user mode before it has sent
  its event, no recall goes unnoticed, and CPUs that recall each other do not wait for ever.
- `Woken`, `ReadyRuns`: an SC whose EC was unblocked becomes ready on its own CPU, and a
  ready SC of the highest priority gets its turn.
- `TicketWindow`, `ImplementsFifoLock`, `StarvationFree`: the lock.
- `RcuSafe` (grace period, exact count, one starter), `Invoked`: RCU.
- `SpacesIntact` (no table leaks, no dangling capability, one object space per PD),
  `TablesStay`, `NoAmplification`, `HypercallsEnd`: object spaces.
- `NothingLostInSleep`, `SleepsAndWakes`: when power goes, all caches are clean, all CPUs
  have left and the wake vector is set; and a requested transition happens, and every CPU
  comes back.
- `BuddySafe` (pages are conserved, headers are what the code asserts, buddies are merged),
  `SlabSafe` (links and buffers), `CreateExact`, `TimeoutsExact`, `ConsolesExact`.
- `PtabSafe` (the tables form a tree, an undisturbed update maps its range),
  `TranslationExact` (only an update changes a translation, and only in its range),
  `ShootdownExact`, `AssignmentHolds`, `SmmuExact`: what was revoked is out of the reach
  of CPUs, guests and devices once the hypercall has returned.
- `FpuExact`, `GuestReady`, `VcpuExact`: an EC finds the FPU, system registers, TSC offset
  and timer as it left them, and never another's.
- `Transparent`, `RunsLegal`: an item a handler does not touch survives the round trip, and
  whatever a handler writes, the EC that runs is legal.
- `ClassInForce`, `NoLostInterrupt`, `GicExact`, `LaunchRight`, `DiscoveryExact`: cache
  classes, interrupts, the controller of AArch64, and the boot path.

## Fairness

- *Kernel code* runs to completion with interrupts off, so the steps of a CPU inside the
  kernel are weakly fair (`KernelStep`, `Inside`, `Step`, and `Enter \/ Reload \/ Unlock`).
- *Interrupts* that are pending are taken at the next interruptible point. Such points
  come and go, since every return to user mode is one and every hypercall ends it; hence
  strong fairness for `HandleRrq` and `BudgetTimeout`, and for `UpdateBatch` and `Quiet`
  of RCU. A budget timeout is pending for every SC that runs, the idle one included.
- *Sleep*: kernel steps of a CPU on its way down or up, a pending RKE, and the hazard on the
  way out of the kernel are weakly fair (`PowerFair`). No fairness is assumed of the wake
  event or the power button: `SleepsAndWakes` starts at the reboot.
- *User mode* owes nothing: no hypercall, reply or up is assumed to happen.

## Proofs

### `NovaProof`: the kernel core, for any number of CPUs, ECs, SCs, semaphores, priorities

- `Invariance`: `Spec => []Inv`;
- `TypeCorrect`: `Spec => []TypeOK`;
- `QueuedOnce`: `Spec => []ScQueuedOnce`;
- `RunningUnqueued`: `Spec => []RunningNotQueued`.

The assumptions are `SchedAssumption`, `EcAssumption` and `SmAssumption`: the idle SC of
a CPU runs an EC of that CPU and has priority 0, the boot queues hold SCs of the right CPU
and priority once, local ECs have no SC of their own, and the initial counters are in
range. No set is assumed to be finite.

`Inv` is the conjunction of three parts.

1. `TypeOK`.
2. `Control`: for every CPU, that its current EC and SC belong to it and what its point
   in the code implies for its locals (`CpuOK`), and that callers and callees are on the
   same CPU (`LinksOK`). Without it a walk down the callee links might leave the CPU, and
   an SC would be parked on, or enqueued at, a CPU that is not its own.
3. `ScInv`: `ScQueuedOnce`, `RunningNotQueued`, and that only created SCs are queued.
   Placement alone is not inductive: that an SC is enqueued *once* follows from the SC
   not being queued when it is current, which needs the points at which the current SC
   has been put away already (`schedule_blocked`, `pick`), and `sys_create_sc` needs the
   third part.

There is a lemma for each kind of queue operation (add, remove, same: `ReadyAdd`,
`ReleaseDel`, `WaitSame`, ...) that says which SCs are queued afterwards, and a lemma per
action (`PickInv`, `UnblockLoopInv`, ...) that combines them; `NextInv` splits on the
disjuncts of Next.

### `CoreProof`: what the kernel core promises, for the same sizes

- `WaitsAreExact`: `Spec => []WaitsExact`;
- `ScsStayRunnable`: `Spec => []ScsRunnable`;
- `CallChainsHold`: `Spec => []CallChains`;
- `SemaphoresRefine`: `Spec => ImplementsSemaphore`.

Besides the assumptions of `NovaProof` there are finitely many ECs (`FiniteEcs`), which
only the end of the walk down the callee links needs. `CoreInv` is `Inv` and six parts,
each with a lemma per action or per kind of step.

1. `Calls`: what the EC that runs on a CPU can be, how a caller, its handler and their
   continuations belong together, and who waits on a semaphore.
2. `Waits`, made of `Timers` and `Wakeups`: which wait a hypercall timeout belongs to, and
   who is going to take the SCs off the queue of an EC. `NoLostWakeup` alone is not
   inductive, because it says nothing of an EC while it blocks and is unblocked at once:
   between the two critical sections of `dn`, between `set_cont` and `unblock_sc`, and
   while an SC is on its way to another CPU's release queue.
3. `Chains`: there is a rank for every EC, a handler's above its caller's, so that calls
   form no cycle, and the donations of a CPU lead link by link up from the EC it runs to
   the EC that was activated last (`act`). By counting the ECs, the walk ends within their number.
4. `Kept`: the SC that a CPU has just put away is queued or out of work.
5. `Idles` and `Tops`: the idle SC runs or is ready, and nothing is queued above
   `prio_top`.

The refinement adds `Parks`: an EC that enters the scheduler or helps a handler is not
inside a wait. Each critical section of `dn`, `up` and `timeout` is a step of the
abstract semaphore, and everything else a stutter; the step that needs the invariant is
`sys_finish`, which ends a wait that an `up` or a timeout of another CPU has ended before.

### `SyncProof`: spinlock, RCU and recall, for any number of CPUs

- `TypeCorrect`, `Exclusion`, `Window`;
- `Refinement`: `Spec => ImplementsFifoLock`;
- `RcuIsSafe`: `RcuSpec => []RcuSafe`;
- `RecallsExact`: `RecallSpec => []RecallExact`.

*Spinlock.* The assumption is that there are finitely many CPUs and no more of them than
tickets (2^16 in the code). `Inv` is `TypeOK /\ TicketWindow`. Exclusion alone says nothing
of CPUs that wait; the window says that outstanding tickets are distinct and contiguous
from the one served, so that a CPU which sees its ticket called, be it in an old copy of
the counter, is the one at the front. The refinement maps the distance of a ticket to
the number of CPUs ahead.

*RCU.* The word has at least four batch numbers (2^62 in the code). `RInv` adds to
`RcuSafe` that no CPU is more than one batch behind, which batch the elements of each list
wait for, and what a CPU inside `start_batch` can still do to the word. Since batch numbers
wrap, all of it is stated with differences modulo the number of batches.

*Recall.* `RecInv` adds what is known of a recall under way: the hazard it set is still
there or the EC has sent its event, and an IPI taken after the caller read the counter
found the hazard. `NobodyStuck` follows from the mode in which a caller waits.

### `MachineProof`: machine state, launch, classes of service and the page allocator

For any number of threads, vCPUs and CPUs:

- `GuestsReady`: `MachineSpec => []GuestReady`, with the exception of `late` above;
- `FpuIsExact`: `NmIntercept \subseteq {FALSE} => (MachineSpec => []FpuExact)`;
- `VcpusExact`: `ArmSpec => []VcpuExact`, with the exception of `alag` above;
- `NoInterruptLost`: `IntrSpec => []NoLostInterrupt`;
- `HandlersTransparent`: `UtcbSpec => []Transparent` and `RunningLegal`:
  `UtcbSpec => []RunsLegal`, for any UTCB a handler may write;
- `LaunchIsRight`: `~Mb1Arm /\ LaunchSpec => []LaunchRight`, for any lists of items, any number
  of devices and firmware events and any root image;
- `ClassesInForce`: `CosSpec => []ClassInForce`, for any number of CPUs, SCs and classes, with
  the exception of `kstray` above;
- `BuddyPoolExact`: `BuddySpec => []BuddySafe`, for a pool of any size at any place, and any
  number of orders and CPUs.

The hypothesis of `FpuIsExact` is that no VMM intercepts #NM for itself, as in the run: with
it, the assertion in `Ec::switch_fpu` can fail, which the hazard of `NmIntercept` describes.
The properties speak of the EC that runs. The invariants `MInv` and `AInv` say of *every* EC
where its state is (`Owner`, `VmcsFields`, `ArmKept`), so that it is right when the EC runs
again, and which of a vCPU's five copies of CR0.TS counts. `IInv` says for each state of the
hardware that could keep an interrupt from coming (masked, active, Remote IRR set, message
taken) who is going to end it: a handler, the driver or `assign_int`.

`UtcbInv` speaks of the EC also while its handler runs. `UntilReply` has what the reply is
going to be applied to, `ItemsLegal` is `RunsLegal` item by item, for those that are not
loaded again as well, and `AddressesOwn` says whose fault address is where. The cases are the
five kinds of state transfer; which items are special in each is `ItemSets`.

`LaunchInv` has one part for each loop of the boot path: the items read so far contain the
first module and the command line (`TagsRead`), the large pages mapped are an initial piece of
the image (`ImageMapped`), and the chunks delegated so far are the segments before the current one and
an initial piece of that (`RootGiven`). A chunk is as large as alignment and rest allow; that it is aligned and not too
large is arithmetic (`MaxOrderFits`, `ChunkFits`). `FirmwareLeft` says that a map key which is
current is the key of the map in the buffer. The hypothesis leaves out the case of finding
`mb1`. `LaunchAssumption` says which architectures and protocols there are and that sizes are
numbers.

`CosInv` adds to the class in force what each CPU will restore on a resume (`SettingsHeld`)
and that the classes of *all* SCs are defined on their CPUs or known strays (`ClassesDefined`). That
`valid_cbm` accepts runs of ones only is `ValidRun`: the code shifts the mask to its lowest
one and tests `c & (c + 1)`. `CosAssumption` says that a mask has at most 32 bits, which is what the registers have.

`BuddyInv` describes the pool as a tiling. A block is its first page, and its order is in that
page's header, free or held. Blocks are aligned, do not overlap (`Placed`) and leave no page
out (`AllTiled`). A page inside a block has the tag FREE and the order of which it is the upper
half (`Marked`): there is only one such order (`UpperUnique`), so the header that `alloc()`
finds at each split is right although nobody has written it since. It is also why `coalesce()`
never takes an old header inside a block for a free buddy (`MateIsBlock`). The loops of
`coalesce()` and `alloc()` are proved one round at a time, for any set of blocks (`MergeStep`,
`SplitStep`), and then for all rounds (`LoopAll`, `SplitsAll`). During `coalesce()` one block
may have a free twin, and at the end none has (`LoopEnd`).

The arithmetic under the last three is at one place: powers of two, alignment, lowest and
highest bit (`PowDouble`, `PowDivides`, `AlignedDown`, `LowestBit`, `HighestBit`). The prover
knows nothing of `2^n` but its definition.

### `TablesProof`: TLB shootdown and IOMMUs

- `ShootdownsExact`: `TlbSpec => []ShootdownExact`, for any number of CPUs, spaces and
  delegations;
- `AssignmentsHold`: `Serial = TRUE /\ WrapResume = FALSE => (VtdSpec => []AssignmentHolds)`, for
  any number of devices and any length of the queue above two;
- `SmmusExact`: `SharedBanks = FALSE => (SmmuSpec => []SmmuExact)`, for any number of SMMUs,
  groups, banks and streams (at least one SMMU with one of each).

The hypotheses are the ones the run is made under; what happens without them is described
with the hazards. `WrapResume` restricts units that invalidate by themselves only.
`ShootdownsExact` has an exception: a CPU that the shootdown met in `make_current`, between the
test of the mark and the store of `Ec::current` (`traced`), may run in the space with a revoked
translation until its next switch; that it is marked to drop it then is part of the theorem.
`ShootdownExact` speaks of finished delegations, and `Underway` says the same
of one that is not: of the CPUs that its walk has passed. `VInv` knows of a call at each of its
steps which descriptors it has put into the queue and what of the unit's caches is gone by
then, and `Quiet` that there is nothing else in the queue. `SInv` keeps
apart what an SMMU is configured to (`Given`, `Disjoint`) and what its registers hold
(`Registers`), which differ during a sleep.

### `ObjectsProof`: timeouts, creation and slabs

- `NoTimeoutMissed`: `TimeoutSpec => []TimeoutsExact`, for any finite number of timeouts; a
  count-down that was cut short (`early`) is not covered;
- `CreationsExact`: `CreateSpec => []CreateExact`, for any number of threads and objects;
- `SlabCacheExact`: `SlabSpec => []SlabSafe`, for any finite set of pages and any number of
  buffers in a slab (`SlabAssumption`).

`TimeoutInv` adds to `TimeoutsExact` what the timer is set to while `check` runs
(`TimerSet`). That `enqueue` finds its place is shown by counting: if no timeout were the
last one that is earlier, the links would map the earlier ones into fewer. `CreateInv` adds
what is true of an object under construction (`Constructions`, `ObjectsSound`) and of a
delegation between reading and writing a bit (`Delegations`). `SlabInv` has the list of slabs
as a sequence (`Chain`), of which the first `k` slabs are partial and `curr` is the `k`-th
(`Sorted`); each case of `alloc` and `free` is a change of that sequence. The buffers that are
not on the list of their slab are the ones in use (`SlabBufs`).

### `SpacesProof`: object spaces, for any number of CPUs, spaces and pages, tables of any depth

- `SpacesStayIntact`: `Spec => []SpacesIntact`;
- `InstalledTablesStay`: `Spec => TablesStay`;
- `AuthorityOnlyShrinks`: `Spec => NoAmplification`.

The assumptions are `SpaceObjAssumption` (tables, spaces, domains and semaphores are
different things, a table has at least one level and one slot) and `BootAssumption` (the
first spaces are trees, and their capabilities are for objects that exist).
`SpacesIntact` speaks of what can be reached from the root cells, and is not inductive: a
store goes to a cell that a walk found long before, and an object may be destroyed while
others look for it. `SpacesInv` therefore says that there are an owner and a level for every
installed table (`Trees`), which grow by one table when a compare-and-exchange wins and never
change otherwise; that every walk under way is in a cell of its space and level (`WalkFits`),
and its new table is empty and its own (`OneInstaller`); and that an object is *pending* until its
creator has stored the capability: nothing else names it (`CapsSound`, `JobFits`), so that
undoing the creation leaves nothing behind. The levels make `Tables` and `Lookup` computable
without going down the tree (`TablesAre`, `LookupFinds`).

For the action properties, every step is shown to be `Cautious`: it changes a cell only by a
store to a slot without a table, by installing a table in an empty one, or by clearing what
nobody can reach; and the capability a CPU is about to store is the one it had, one for a new
object, or no more than one it found.

### `PlatformProof`: sleep, consoles and the GIC

- `NothingIsLost`: `PowerSpec => []NothingLostInSleep`, for any finite number of CPUs, both
  architectures, any set of transitions and either value of `PromptBarrier`;
- `ConsolesStayExact`: `ConsoleSpec => []ConsolesExact`, for any finite number of UARTs and any
  ring of at least three entries;
- `GicStaysExact`: `GicSpec => []GicExact`, for any finite number of CPUs, any SPIs and any
  order and size of the redistributor frames.

*Sleep.* `NothingLostInSleep` looks at single moments, the loss of power and the start of a
CPU. `PowerInv` says what leads there. `Cpu::online` is the number of CPUs between the barrier
and their last step, so that the BSP, which waits for it to become 0 or 1, knows where the
others are. The system is on its way up (`Rising`: nobody has passed the barrier) or running
(`Running`: everybody has, and those that leave have read one and the same transition), and
`Tickets` relates the boot lock to the CPUs that wait for it.

*Consoles.* `ConsoleInv` says which characters the ring holds while one is being discarded,
stored or published, and that a reader between its load and its compare-and-exchange finds
at least one character unread. Reader and `Console_mbuf::outc` both move `r_idx` with a
compare-and-exchange of the index alone. After discards it can come round to the value that
the reader loaded; in a ring of two entries the ring may then be empty, so the theorem, like
the assumption of the module, asks for three. `Console_mbuf_mmio::entries` is 4088. `HandInv`
says how many characters a UART can still get: one for the CPU that holds the lock and has read
the list already, none for later ones.

*GIC.* `GicInv` orders the boot (one CPU at a time, the boot CPU first, nobody past the
barrier before all are in it) and says of every SPI when its CPU has seen to it, what a
`Gicd::conf` under way will write, and that the trigger register which it has read is still
the current one, which is what `Gicd::lock` is for. That `Gicr::mmap_mmio` can only end at
the frame of the CPU that looks (`FrameFound`) is shown with the addresses of the frames,
which grow by the size of each (`FrameBases`, `FrameOrder`).

### Induction

The library's induction theorems take an operator as a parameter, and the provers cannot
instantiate those. Where a proof needs the value of a recursive function
(`CalleeChainsEnd`, `DonationsMatchCallers`, the loop of a bitmap delegation, the levels of
`Tables` and `Lookup`, the walk over the redistributor frames, powers of two, the rounds of
`coalesce()` and `alloc()`), it argues with the least number
for which the claim fails (`Least`, `NatHasLeast`, `HasLeast`, `LeastNumber`), which exists
because the order of the natural numbers is well founded: that theorem has no operator parameter.

### Only model-checked

Liveness under fairness (`StarvationFree`, `Invoked`, `HypercallsEnd` and the others) is out
of the prover's reach. Of the invariants, TLC alone checks `PtabSafe` and `DiscoveryExact`.
`PtabSafe` has no proof for every configuration because it is false when updates may replace
tables of level 2, as `ptab_twice` shows: a table that is deferred twice is freed once more when
it is in use again. So on x86 CPUs *with* 1 GB pages the tables are not safe; without them TLC
finds `PtabSafe` and `TranslationExact` to hold in the instance of the run. `DiscoveryExact` compares what was read with
recursive definitions over the firmware's tables and the PCI hierarchy, an induction over data
in nearly every step, and holds for firmware tables that are consistent, which the run's are.

## Disagreements between code and comments

- `ptab_leak`: `Table::deallocate` (`src/ptab.cpp:250`) returns at once for level 0, so
  a page table of level 0 that was replaced by a large page or a hole is never freed,
  while `src/ptab.cpp:229` says "If the old PTE refers to a page table, then deallocate
  it". `ReplacedTablesFreed` states the comment; the counterexample maps a small page
  and then a larger one over it.
- `ptab_twice`: a CPU that has unlinked a subtree reads its slots for the tables to defer
  (`src/ptab.cpp:257`), and another CPU that is still inside the subtree may exchange one of
  those slots (`src/ptab.cpp:223`). Both find the same table and give it to `Buddy::wait`, so
  that it is on the waitlists of two CPUs, against `assert (!e->queued())` of
  `inc/queue.hpp:70`, and is freed twice, against `assert (block->tag == Block::Tag::USED)` of
  `src/buddy.cpp:105`. `DeferredOnce` states the first assertion. It takes a table of level 1
  below one of level 2 that is replaced, hence four levels and `set_leaf_max (3)`, which x86 uses
  on CPUs with 1 GB pages. With `set_leaf_max (2)`, as in the run `tables`, the lower one of the two tables is of level 0, which is not deferred at all (`ptab_leak`).
- `sleep_s1`: `Hazard::SLEEP` is set for every transition (`src/syscall.cpp:511`,
  `src/x86_64/interrupt.cpp:59`) and cleared only by `Cpu::init` on a resume
  (`src/x86_64/cpu.cpp:322`). S1 does not lose the CPUs' state and does not go through
  `Cpu::init`. After the wake, every CPU enters `Acpi::fini` again, now with transition
  0, and the BSP takes the reset branch, against the `assert (can_reset())` of
  `inc/x86_64/acpi_fixed.hpp:187` on a platform without a reset register. `ResetPossible`
  states the assertion.
- `mb1`: the code under "Multiboot v1 Launch" (`src/aarch64/start.S:136`) falls through into
  the one under "Legacy Launch" (`src/aarch64/start.S:155`), which overwrites the address of
  the root image. `ParametersExact` states that the first module is what the kernel takes
  for root.

One more has no run: `set_leaf_max(l)` (`inc/ptab.hpp:84`) sets the limit to `l * bpl`, and an
update of exactly that order becomes one leaf of level `l` (`Level`, `NewEntry`), one size above
what the comment at `inc/ptab.hpp:83` says ("4 (512GB), 3 (1GB), 2 (2MB), 1 (4KB)").

Assumptions under which a passing run excludes a case that the code does not exclude are
CONSTANTS (`PromptBarrier`, `Serial`, `WrapResume`, `SharedBanks`, `NmIntercept`,
`Mb1Arm`, `InSpace`), each described above and in the note of its hazard in `PROJECT.json`.
No line of the repository promises anything about those cases, except for `Mb1Arm` and the
assertion behind `NmIntercept`. Cases that the models *do* have and a property excepts are
recorded by history variables: `traced`, `early`, `late`, `alag`, `kstray`, `overlap`.

## What is not modelled

- *Data*: message contents, UTCB layouts below the level of an item, bit layouts of entries,
  number formatting and command line, the walk of the device tree, the HIP.
- *Hardware tables*: GDT, IDT, TSS, MTRRs, machine checks, patches, feature detection;
  fault reporting of the IOMMUs. These are register accesses that nothing depends on later.
- *SVM*: vCPUs of this kind cannot be created in this version. `Utcb` has the transfer of
  their state, `Machine` only VMX.
- *Address space identifiers* (PCID, VPID, VMID, SDID): spaces have different tags; that the
  counters behind them wrap is noted with the hazards.
- *AArch64 spinlock*: the same algorithm on exclusive accesses or LSE instructions; that a
  waiter in WFE is woken depends on the event register, which is not in the source.
- *Memory order*: steps are sequentially consistent. x86 locked instructions and the
  spinlock give that for the accesses that matter; the plain stores of RCU to
  `count` and `state` are by the one CPU that may write them, which `RcuSafe` shows,
  and x86 keeps their order. `Recall` takes relaxed accesses in program order, which is an
  assumption.
- *Destruction*: the kernel never deletes ECs, SCs, portals or semaphores in use; only a
  failed creation deletes an object, and that is modelled.

## Plan

The modules are written, and the proofs cover the kernel core, the synchronisation
primitives, the allocators, machine state, TLB and IOMMUs, timeouts, object creation, object
spaces and the platform. What is left:

1. `Ptab`: a proof of `PtabSafe` for `LeafMax` 2, and which restriction on racing updates makes it
   true for any.
2. The AArch64 spinlock as a second implementation of `FifoLock`.
