# Formal model of the hypervisor

The repository is a partitioning hypervisor for x86, descended from ACRN. The
logical-partition scenario runs a safety VM with one vCPU on pCPU 0 and a
non-safety VM with three vCPUs on pCPUs 1 to 3. vCPU and pCPU are tied to each
other for ever, so nearly all of the concurrency is between pCPUs: they share
the scheduler control blocks, the pending-request words, the state of a VM and
its vCPUs, the page tables, the remapping unit and the console, and they
interrupt each other with INIT signals, which make a guest exit. The rest of
what is hard is in long sequences of register accesses by a guest that the
hypervisor emulates.

This directory holds TLA+ modules that model the hypervisor, TLC configurations
for small instances, and TLAPS proofs for arbitrary ones. `PROJECT.json` maps
each definition to the lines it models, from the signature of a function to its
closing brace; a long function is mapped in parts, each to the definition that
models it. Paths below are relative to `src/hypervisor/`, `libs/` to `src/`.

## Inventory

| Component | State | Operations | Interacts with | Hard behaviour | What makes it correct |
|---|---|---|---|---|---|
| ticket spinlock, `include/arch/x86/lib/spinlock.h` | `head`, `tail` | init, obtain, release | every lock user | contention, counters that wrap | exclusion, FIFO, progress |
| scheduler, `common/schedule.c`, `sched_noop.c` | per pCPU: current thread, the policy's one slot, `NEED_RESCHEDULE`; per thread: status | init, sleep, wake, kick, schedule, run_thread | vCPU loop, pause and launch of vCPUs | requests from other pCPUs race with `schedule()` and VM entry | no request lost, a guest is always interrupted, the switch happens |
| vCPU loop, `common/hv_main.c`, `guest/vmexit.c` | the place in the loop | reschedule test, pending requests, entry, exit dispatch | all handlers | test-then-enter window | see scheduler and requests; no exit without a handler |
| vCPU and VM life cycle, `guest/vcpu.c`, `guest/vm.c`, `guest/vm_reset.c` | vCPU state, `running`, `launched`, `nr_sipi`, VM state, `vm_lock` | create, start, launch, pause, reset, offline, fatal error, shutdown | vLAPIC, scheduler, pCPU offlining | locks held over waits, resets of a vCPU that is moving | a paused VM is out of the guest, only a stopped vCPU is reset, a fatal error ends in a shutdown |
| vLAPIC, `guest/vlapic.c` | ICR, TSC deadline | INIT and STARTUP IPIs, register access | vCPU life cycle, MSR bitmap | duplicate and crossing IPIs; a deadline that is sometimes intercepted and sometimes not | one start per INIT; the deadline reads back |
| requests and events, `guest/virq.c` | `pending_req`, the one-entry exception queue, IDT-vectoring information | make request, queue exception, inject, NMI | handlers, EPT changes, NMI handler | requests posted between test and entry, exceptions on exceptions | double-fault rules, no stale vector, flushes happen |
| pCPU start-up and offlining, `arch/x86/cpu.c`, `init.c`, `trampoline.c` | `boot_state`, `pcpu_sync`, the trampoline's place and stack symbol, control registers | start, barrier, launch VMs, offline | scheduler, VM creation, memory map | late or dead APs, order after the barrier, order of the set-up | own stacks, the barrier opens, all that is set up survives VM exits |
| page tables and EPT, `pagetable.c`, `page.c`, `mmu.c`, `guest/ept.c` | page-table pages | map, modify, delete, look up | VM creation, vPCI BARs | splitting of large pages, walks without the lock | the tables mean what was asked for |
| guest memory, `guest/guest_memory.c` | none | walk, copy | exit handlers, loader | page boundaries, SMAP | the bytes of the right pages |
| VT-d and assignment, `vtd.c`, `guest/assign.c` | root, context and remapping tables, invalidation queue | attach, detach, invalidate, remap | vPCI, shutdown | caches of the unit, tables written without a lock, halves of an entry | a device reaches only its VM, its interrupts only their vCPU |
| virtual PCI, `dm/vpci/*`, `hw/pci.c` | address register, config space, BARs, MSI state | config access, BAR sizing and moves, MSI programming | EPT, assignment | sequences of partial writes, two vCPUs on one address port | BARs map what the guest programmed, MSIs go where it said |
| I/O dispatch, vRTC, vUART, `dm/io_req.c`, `dm/vrtc.c`, `libs/debug/vuart.c` | handler table, RTC index, FIFOs, connections | register, read, write, connect | vCPU loop, console | full FIFOs, connected VMs that come and go, the shared clock | characters in order, own register of the clock |
| MSR, CR and CPUID, `guest/vmsr.c`, `virtual_cr.c`, `vcpuid.c`, `vmcs.c` | VMCS fields, saved MSRs, register caches, CPUID table | read, write, switch, initialise | vCPU loop | combinations of bits, cached registers, processors with other capabilities | only valid states reach the VMCS, tables agree with each other |
| memory map, `e820.c`, `guest/ve820.c` | entry list | read, cut off, allocate | boot, paging | boundaries | the trampoline has memory of its own |
| console and shell, `libs/debug/console.c`, `shell.c`, `uart16550.c` | line buffers, VM shown | kick, edit, execute, switch | vUARTs, VM life cycle | output racing input, buffers used in turn | what was typed is run, what was written is shown |
| guest loading, `common/vm_load.c`, `boot/guest/vboot_info.c`, `configs/vacpi.c` | guest memory | copy kernel, GDT, arguments, zero page, ACPI tables | guest memory, SMAP | parts that may overlap, a second start | every part intact at the entry point |
| boot code, ACPI parsing, formatted output, string helpers | none kept | run once, or output only | boot | none | none stated |

## Modules

| Module | What it is |
|---|---|
| `Mutex` | the atomic lock that users of a spinlock rely on |
| `TicketLock` | the spinlock, one action per atomic instruction, refining `Mutex` |
| `SchedOps` | the scheduler's operations as actions on its variables, shared by the next two |
| `Schedule` | any set of pCPUs running idle loop, vCPU loop and `schedule()`, with arbitrary sleeps, wakes and kicks from each other |
| `VmLifecycle` | one non-safety VM from its start to its release, with the IPIs, the lock, the requests and the shutdown |
| `Boot` | start-up of the pCPUs and launch of the VMs |
| `Virq` | one vCPU's requests and injected events, with an NMI source and a peer that changes the EPT |
| `PageTableOps` | the paging structures as a function from entries to what they hold, and the operations of `pagetable.c` on it: add, split, modify, delete, look up |
| `FlatMap` | what an address space promises: a function from page to frame and rights |
| `Ept`, `MCEpt` | the EPT of one VM: its construction, BAR writes, EPT violations on fetches, translations of guest addresses by several vCPUs; refines `FlatMap` |
| `E820` | the platform's memory map and the allocation below 1 MByte |
| `HvPaging` | the hypervisor's own page tables: `init_paging` and the region updates after it |
| `HostMemory`, `MCHostMemory` | composes `E820` and `HvPaging` with what each pCPU sets up, what its VMCS restores at an exit, and the loading of two guests |
| `Vtd`, `MCVtd` | a remapping unit and the pCPUs that create VMs, attach devices, program interrupts and shut down |
| `Vpci` | the configuration space of a VM, accessed by several vCPUs, with MSI, BARs and the command register of a passthrough device |
| `VcpuRegs` | control registers, EFER, PAT, MISC_ENABLE and the extended state of a vCPU |
| `VcpuTsc` | TSC, TSC_ADJUST, TSC_DEADLINE and whether the last is intercepted |
| `VmxCtrls` | the VMX controls on processors that force some of them, and the table of exit handlers |
| `Msrs`, `Cpuid` | the MSR bitmap and the tests of the handlers; the CPUID table and its search |
| `VcpuState` | composes the last five: a vCPU from its creation through exits, switches and INITs |
| `Vuart` | the registers and FIFOs of a virtual UART |
| `Devices`, `MCDevices` | the vUARTs and vRTCs of two VMs, their creation and shutdown, the console and the shell |
| `ScheduleProofs`, `VirqProofs`, `BootProofs`, `VtdProofs`, `VpciProofs`, `VcpuProofs`, `DevicesProofs` | theorems about the modules they are named for (`ScheduleProofs` also about `TicketLock`, `VcpuProofs` about `VcpuState`) |
| `PagingProofs` | lemmas about the operations of `PageTableOps` and `E820`, and the theorems about `Ept`, `HvPaging` and `HostMemory` |

Atomicity. An operation that runs under a spinlock and touches nothing else that
is shared is one action (`sleep_thread`, `wake_thread`, the locked part of
`schedule()`); `TicketImplementsMutex` is what justifies treating a lock as
atomic. Where the code drops the lock between two effects, or waits, there are
two actions: `DoSchedule` and `SwitchOut`/`SwitchIn`, each wait loop, each
bit of a request word that is tested and cleared on its own. In `Ept` each of
`ept_add_mr`, `ept_modify_mr` and `ept_del_mr` is one step, because it runs under
`ept_lock`; `lookup_address` takes no lock, and the dereference of the pointer
it returns is a step of its own. In `Vtd` every write to a table that the unit
reads is a step, and so is each half of a remapping entry; the unit fetches,
caches and drains between any two of them. In `Vpci` every write to a register of
the device is a step. A vCPU in `VcpuState` shares nothing: an exit and its handler
are one step, and what matters is the order of the handlers, the entries, the
switches and the INITs.

Correspondence, beyond the map. `pc` names places in the code: `v_top` is the
head of the loop of `vcpu_thread`, `v_pend` and `v_inject` the two halves of
`acrn_handle_pending_request`, `v_run` the entry in `run_vcpu`, `guest` non-root
mode; a place of a handler is prefixed by the handler (`init_`, `sipi_`, `fat_`,
`sd_`). `init_sig` is the INIT a pCPU's LAPIC has latched: blocked in VMX root
operation, it makes a guest exit at once and resets a core that has left VMX
operation (external behaviour of the processor, as the code relies on it).
`started` says whether a vCPU thread has run before: a switched-in thread that
has resumes after the `schedule()` call in `vcpu_thread`, below the test.
Exceptions are their vectors in `Virq`; in `VmLifecycle` only whether there is one.

An entry of a paging structure is named by its level and its index in the whole
address space (`Node`), and holds nothing, a reference to a table, or a page with
its frame and rights (`None`, `Table`, `Leaf`). Addresses are numbers of 4-KByte
pages; `Fan` stands for the 512 entries of a table. One PML4E is modelled: the
loops over PML4Es repeat the same walk. The entries of a table stay behind when
the reference to it is cleared, as the contents of its page do (`Seen` is what a
walk reaches).

Registers are sets of named bits (`VcpuRegs`), or bytes where the code masks bytes
(`Vpci`, where destination masks are sets of bits); "R" stands for the reserved
bits. The guest's own view of CR0 and CR4 is `Seen`: the shadow for the bits the
hypervisor owns, the register for the others. `tlb` is the paging mode the guest's
translations were made under, and `own`, `wrote` and `sent` record what a guest has
written, to compare with what it gets, and `under` the TSC offset under which its
deadline was armed. Three more variables are history that no guard reads:
`overtaken` the vCPUs that a pause has taken for stopped and were not, `raced` that
a shutdown met the linking or unlinking of the peer, `cmos_reset` that `cmos_lock`
was initialised while in use. Memory in `HostMemory` holds names of parts, not their
bytes.

## Runs

Deadlock checking is off for `VmLifecycle`, `Boot`, `HostMemory`, `Vtd`, `Vpci` and
`Devices`: a VM that has been shut down, a hypervisor whose pCPUs idle, guests
that have started, and inputs that are used up do stop.

| Run | Bounds | Checks |
|---|---|---|
| `ticket_lock` | 3 processors, counters modulo 3: every third obtain wraps and the queue fills the whole counter range | `Fifo`, `ObtainReturns`, `ImplementsMutex` |
| `schedule` | 2 pCPUs, each sleeping, waking and kicking any thread at any time | `NoLostRequest`, `RequestInterruptsGuest`, `RescheduleServed` |
| `vm_lifecycle` | 2 vCPUs; either sends INIT and STARTUP IPIs, as many as it likes, meets fatal errors and has exceptions, at any time | `StoppedVmIsOut`: no vCPU executes in a paused VM (`PausedVmIsOut`) and nothing that is released is used (`ReleasedUnused`); `ResetOutsideGuest`; `FatalEndsVm`: the shutdown ends (`FatalShutsDown`) and the pCPUs are taken offline (`PcpusGoOffline`); `LaunchedEntersGuest` |
| `vm_deadlock` | 2 vCPUs, a fatal error on vCPU 0 | `RequestsDoNotDeadlock`, which TLC finds violated (see the divergences) |
| `boot` | 4 pCPUs and the two VMs of the scenario, any AP late or dead | `PcpusStarted` (`OwnStack`, `AllUpOrFailed`), `BarrierOpens` |
| `virq` | guest vectors of all classes, handler vectors #UD, #GP, #PF | `FollowsDoubleFaultTable`, `StaleEptFlushed` |
| `ept` | 8 pages in three levels with 2 entries per table; RAM of one page of each size that matters, a reserved entry, an entry that is larger than the VM's memory; two BARs of different sizes that can overlap; two vCPUs that fetch; one of them has addresses translated, the other writes BARs | `ImplementsFlatMap`, `LargeNotExecutable`, `WindowOnlyBars`, `FetchSucceeds` |
| `memory` | 21 memory maps and 4 places of the boot loader's tables, image bases on and off a PDE boundary, every end of the code, 2 pCPUs and VMs, `MaxStarts` = 2 starts of VM 0, whose memory is arbitrary before the second | `MappingRight` (`NoPageTable`, `ImageProtected`), `TrampolineOwn`, `HostProtected` (`SmapClean`, `HostStateKept`), `GuestLoaded` |
| `vtd` | 2 VMs with a device each on one bus, 2 vectors, a queue of 3 descriptors, which wraps at every other request | `DmaConfined` (`AttachedTranslated`, `NothingCached`), `IrteRight` (`IrteOwned`, `IrteFresh`), `RequestsAnswered` |
| `vpci` | 2 vCPUs, any width and offset, bytes 0, 17 and 255, a guest that uses the command register, the BARs or MSI | `MsiAsProgrammed`, `IntxDisabled`, `BarsWhereRegistersSay` |
| `vcpu_state` | the bits with a rule of their own in each register and one reserved bit, controls that the processor forces, TSC modulo 5, native TSC_ADJUST 0, 1 and 3, processors with 45 sets of CPUID limits | `GuestStateValid`, `ExitsHandled`, `TranslationFollowsGuest`, `OwnExtendedState`, `TscAsWritten` (`TscAdjustTracksOffset`, `DeadlineReadsBack`, `DeadlineArmed`, `InterceptedAsOffset`), `AnswersAgree` |
| `devices` | 2 connected VMs, FIFOs of 2 characters, a command line of 2 words; `Budgets` gives up to 4 port accesses, 3 clock accesses, 6 keys and 2 fatal errors of a guest, not all at once; VMs are created and shut down whenever the code allows it, two at a time too | `CharsInOrder`, `LinkedBothWays`, `CommandAsTyped`, `RtcOwnRegister`, `RtcReturns`, `OutputDrained` |

Two processors are enough for the scheduler because a pCPU's block is touched by its
owner and by callers that hold its lock, one at a time: a second caller is
indistinguishable from the first (and the theorems hold for any number). Two vCPUs
are a BSP and an AP, either of which can wait for the other; their INITs, STARTUP
IPIs and fatal errors are not counted, so every number of restarts is covered. With
a third vCPU the state space does not fit into a run: that the loop of `pause_vm`
goes over several others, each at any place, is covered for one other only. Two
entries per table are enough for the page tables: a split has an entry that the
caller's range covers and one that it must leave alone, and a range can begin or end
on and off the boundary of each level. Two VMs give `Vtd` the concurrent attachments
to one bus and requests queued behind another pCPU's. Bytes 0 and 255 set and clear
every bit of a register, and 17 tells the halves of a byte apart. A FIFO of two
overflows with the third character. In `devices` the guests, the
keyboard, the clock and what creates or stops a VM meet in the budgets that give each of
two of them something; the rest of each is independent. One budget fills the FIFO of a
vUART while the console shows it, others let the VM whose pCPU runs the console stop.
`MaxStarts` and `Budgets` are the only counter bounds; everything else is finite by
itself.

The halves of `vcpu_state` that are about tables (`ExitsHandled`, `AnswersAgree`)
compare definitions that the code keeps in different files: the controls against
the handlers, the MSR bitmap against the ranges the handlers test, the search in
the CPUID table against a reference, CPUID against what CR4 and XSETBV accept.

### Known divergences

Each statement fails: in the runs as they are, or with the change named here. The
line is the one it disagrees with, or where it happens. Where a property of a
passing run excuses such a case, it names the case, and it is false without the
excuse.

- `RequestsDoNotDeadlock` (run `vm_deadlock`): a vCPU waits under `vm_lock` for
  another to stop (`guest/vcpu.c:1684`, from the INIT in `guest/vlapic.c:541` or from
  `pause_vm`), which spins for `vm_lock` in an exit handler, as in
  `fatal_error_shutdown_vm` (`guest/vm_reset.c:56`; its comment at line 44 says
  "@threadsafety yes"). `FatalShutsDown` and `LaunchedEntersGuest` excuse this state,
  and nothing else: no other one keeps a VM from going down or a vCPU from its guest.
- `schedule()` releases the scheduler lock before `context_switch_in` sets
  `vcpu->running`, so `pause_vcpu` in that window does not wait; and only a thread that
  has run before resumes below the reschedule test. `overtaken` records the vCPUs to
  which this happened. They may be on their way to the guest when the VM is paused, and
  even when it is released; `PausedVmIsOut` and `ResetOutsideGuest` say that they have
  been told to leave: the reschedule request is there, and the latched INIT ends their
  stay before the first instruction (`ToldToLeave`).
- `EntryReady`, added to `VmLifecycle.cfg`: in the same window an INIT and a STARTUP
  reset the vCPU while its own thread moves on: `run_vcpu` picks
  VMLAUNCH or VMRESUME against the state of the VMCS, and
  `ASSERT(status == 0, "vm fail")` (`guest/vcpu.c:1447`) fails.
- `InjectsVector`, added to `VmLifecycle.cfg`:
  `reset_vcpu` (`guest/vcpu.c:1611`) invalidates the queued vector and keeps the
  request, so that the restarted vCPU injects `VECTOR_INVALID`, for which
  `exception_type` (`guest/virq.c:94`) has no entry.
- `SchedulerReady`, added to `Boot.cfg`: the first pCPU of a VM initialises vCPU
  threads on pCPUs whose `init_sched` may not have run (`cpu.c:701`). The window is
  short in practice; nothing in the code closes it.
- `TranslationRight`, added to `Ept.cfg`: `local_gpa2hpa` looks an entry up without
  `ept_lock` and reads it again later (`guest/guest_memory.c:106` and `:111`); the
  EPT violation handler of another vCPU splits the large page in between, and the
  address is made from a reference to a table.
- The same window in the EPT violation handler (`vmx_io.c:202`): the vCPU that looked
  the entry up before the other split it finds a memory type that is not write-back,
  and its guest gets a #PF for its own RAM. `FetchSucceeds` says that this is the only
  way to such a #PF: the entry is that of a large page which another vCPU has
  split since to make a page of it executable.
- BARs that are moved over each other: unmapping removes what is at the old place,
  which may be another BAR's mapping; a guest that swaps two BARs ends with one of
  them not mapped. `WindowOnlyBars` and `BarsWhereRegistersSay` are what does hold:
  nothing is left behind.
- `InterceptedWhenOffset`, added to `VcpuState.cfg`: by the comments in
  `guest/vmsr.c` (lines 1233 and 2055) TSC_DEADLINE is intercepted while the TSC
  offset is not 0. `init_exec_ctrl` decides on the offset that the VMCS still has
  and writes the new one afterwards, so that a vCPU may start with an offset and no
  interception if the native TSC_ADJUST is not 0. Its guest then writes the native
  deadline itself, and the timer expires early or late by the offset. `TscAsWritten`
  says when: only until the guest writes its TSC or its TSC_ADJUST
  (`InterceptedAsOffset`), and only by the processor's TSC_ADJUST (`DeadlineArmed`).
- `LinkedBothWays` without `raced`: two connected VMs that shut down at once both
  disconnect, and the second may go through a `target` that is NULL
  (`libs/debug/vuart.c:512`); a VM whose peer is shut down while it is created
  links to a vUART that is not active.
- `RtcOwnRegister` and `RtcReturns` without `cmos_reset`: `vrtc_init` of the second
  VM initialises the one `cmos_lock` again (`dm/vrtc.c:485`) while a guest may hold
  it or wait for it, although its comment says "@threadsafety Yes" (line 460) and
  that the lock is to "prevent simultaneous access to the physical RTC" (line 482).
- `mmu_add` on a range of which a page is present: `add_pte` skips that page without
  advancing, so that the rest of the range is shifted by it (`pagetable.c:944`). The
  model does the same (`TakenFor`); no caller in the program reaches it, which
  `WindowOnlyBars` and the lemma `AddView` say for the BARs.
- A write of the divisor latch on a connected vUART goes to the peer as a
  character (`libs/debug/vuart.c:331`, against the comment at line 237), the shell
  executes a full line without Enter, and `vuart_setup` keeps LCR and MCR of the VM's
  run before. The model has all three; no property forbids them.
- `e820_alloc_low_memory` gives memory above 1 MByte for an entry whose first whole
  pages are below and whose end is above it: an entry from 2 to 24 in `Mmaps` breaks
  `TrampolineOwn`.
- `build_vacpi` adds the old checksum into the new one when a VM is started a
  second time. It is called for non-safety VMs only, and only VM 0, the safety
  VM of the scenario, is started again; `GuestLoaded` does not depend on it.
- `get_mod_idx_by_tag` may return `INVALID_MOD_IDX`, which its callers use as an
  index, and results of `copy_to_gpa` are not tested. The configurations of the
  run have their modules and fit into their memory.

## Fairness

Each pCPU executes its own code: weak fairness of the steps a pCPU can take by
itself. A latched INIT is delivered: the exit it causes is among those steps. A
guest need not exit otherwise, so the other exits have no fairness. A pCPU that asks
for `vm_lock` or for the lock of the remapping unit gets it if the lock keeps
becoming free: strong fairness of the obtaining step, which is what the FIFO
property of the ticket lock provides. In `Boot` an AP in `Late` may stay in the
trampoline for ever. In `Vtd` the unit executes commands and drains its queue (weak
fairness), which is what the code's time-outs presuppose; it need not translate or
fill its caches. The pCPU that boots and one that creates, runs or shuts down a VM
take the steps that only they can take; a VM need not be created. In `Devices` the
creation and the shutdown of a VM and the access that is under way proceed; guests
and keys are free. The console proceeds as long as its pCPU is in service:
`console_kick` runs on one pCPU only (`console.c:34`, `:113`), which `shutdown_vm`
of the VM it belongs to (`ConsoleVm`) takes offline (`vm.c:636`). From then on its
steps are disabled (`KickBegins`), so that weak fairness of them asks for nothing.

## Proofs

TLAPS proves, for all values of the constants:

- `TicketMutualExclusion`, `TicketFifo`, `TicketImplementsMutex`. Assumption:
  the processors are finitely many and no more than the counter has values. The
  equality test alone is not inductive; `TicketInv` adds that `head` is as far
  from `tail`, around the wrap, as there are live tickets, that live tickets
  are pairwise different and less than that distance from `tail`.
- `ScheduleInvariance` and from it `ScheduleNoLostRequest`,
  `ScheduleRequestInterruptsGuest`, `ScheduleRunningFlagExact`, for any set of
  pCPUs. The invariants of the run are not inductive: a thread can be put to
  sleep, woken and put to sleep again before its pCPU schedules, and the last of
  these makes no request. `StaleStatusFlagged` says that the first one's is
  still there.
- `VirqInvariance` and from it `VirqDoubleFault`, `VirqPendingHasVector`,
  `VirqTripleFault`, for any sets of vectors. `QueueInv` adds what the queue and
  the request word hold at each stage between an exit and the next entry
  (`Resolved`), and that a hardware exception never stays behind in
  `idt_vectoring_info`.
- `BootInvariance` and from it `StartedOnOwnStacks` (`PcpusStarted`), for any
  number of pCPUs, any of which may be late or never start, and any VMs. Two APs in
  the trampoline would share a stack, which no state of one AP shows: `Trampoline`
  says that the stack symbol names the AP that is in the trampoline and that the
  loop of `start_pcpus` sends no other there before; `Progress` which APs the loop
  has left behind as running.
- `VtdInvariance` and from it `DmaIsConfined`, `IrteIsRight`, for any number of VMs,
  devices and buses and any queue of more than two descriptors. Assumption: devices
  have different remapping indices (`guest/assign.c:235` makes the index of six bits
  of the virtual address and two of the VM's number). A cache of the unit may be
  behind its table: `Outstanding` says that it is so only while the request to
  forget the entry has not been executed, and `OneRequest` that the queue holds the
  request of the pCPU with the lock, at the head, so that what a pCPU finds
  `COMPLETED` is its own request, wherever the indices wrap.
- `VpciInvariance` and from it `MsiIsAsProgrammed`, `IntxIsDisabled`,
  `BarsFollowRegisters`, for any number of vCPUs, any bytes they write, and every
  destination mask. `Programmed` says what has been set up at each place where the
  vCPU that writes the MSI registers may be overtaken; `BarInv` that every mapping
  belongs to a BAR whose base is that page; `Fresh` what a device not yet
  initialised holds.
- `VcpuInvariance` and from it `EntryIsValid` (`GuestStateValid`),
  `TranslationIsCurrent`, `ExtendedStateIsOwn`, `ClockIsAsWritten` (`TscAsWritten`),
  for any set of bits with or without rules of their own, any values and any width
  of the counter. The state of the VMCS is valid only together with what the next
  entry will still write: `NextEfer`, the pending `INIT_VMCS` (`Pending`) and the
  cache of registers (`Cached`) are what the invariants add. For the clock,
  `InterceptedAsOffset` needs to know the offset while INIT_VMCS is pending: the one
  TSC_ADJUST gives, or none while TSC_ADJUST is 0 (`FirstOffset`), and
  `DeadlineArmed` that a switch to or from interception converts the one deadline
  into the other (`InterceptionKeepsArmed`).
- `LargePagesNotExecutable`: on a processor with the page-size-change erratum no
  large page of an EPT is executable. `NoExe` states it of all entries
  and not only of those a walk reaches: an operation that places a reference to a
  table makes the table's entries reachable. The step that matters is
  `FetchModify`, which sets the execute right: a large page never fits into the
  one page it is called for, so it has been split before.
- `EptInvariance` and from it `WindowShowsBars` (`WindowOnlyBars`) and
  `EptImplementsFlatMap` (`ImplementsFlatMap`), for any number of entries per table,
  any address space, any number of vCPUs in each part. Assumption
  `EptConfiguration`: the e820 entries that are mapped end below the BAR window and
  do not overlap, nor do the BARs as configured. `ve820.c` and the scenarios (512
  MByte and 1 GByte of memory, the window from 3 GByte) satisfy it; what the guest
  writes to the BARs later is free. The argument: `SplitView`, `DelView`,
  `ModifyView` and `AddView` say what the operations of `pagetable.c` do to the
  translation of any one page, by following its walk through the four levels: the
  entries of a level divide the address space, and an entry above covers whole
  entries below (`Levels`, `Nested`). For `mmu_add` the new entry on a walk is
  unique, and a table that it builds hides no entry that was seen; on a free range
  `add_pte` skips nothing (`NothingSkipped`), so that its addresses advance with the
  range. Then each action keeps the flat map, frees pages, or fills a free range
  (`MapStep`). That the range is free needs the invariant: `WindowInv` says that a
  mapped page of the window belongs to a BAR that is there, and that the pages of
  the BAR being moved are vacated, first the old and then the new ones, although the
  vCPU gives other vCPUs steps in between; `WbOutside` and `FetchInv` that the
  violation handler, whose lookup may be stale, never changes a page of the window.
- `TrampolineIsOwn`, `MappingIsRight`, and `HostInvariance` with `HostIsProtected`
  and `GuestIsLoaded` from it, for any number of pCPUs and VMs, any memory map,
  image address and page-table size, under the hypothesis `HostConfiguration`. It
  says: the tables have large pages (`ppt_mem_ops`); the image, the devices'
  registers, the boot loader's tables and its modules are below 4 GByte, and the
  latter three and the VMs' memory (`start_hpa` of the scenario) lie outside the
  image; no RAM entry of the memory map extends across 1 MByte (a PC's map has the
  ROM area there; without this `e820_alloc_low_memory` hands out memory above it,
  see the divergences); every VM has a module with its tag that fits behind what is
  loaded below it; the platform has the memory that the scenario gives to the VMs,
  if `init_paging` does not refuse it; VM 0, the only one that is started again, is
  the safety VM, as in the scenarios. `MCHostMemory` assumes the same formula, so
  TLC evaluates it: the run's instance satisfies it. The argument, with an invariant
  for each part: `OrderInv` is the order of start-up, in which the first pCPU does
  alone what the others then find done; `ImageInv` where the image and the
  trampoline are; it needs what `init_e820` and `e820_alloc_low_memory` return for
  every map, for which `MaxNat`, `MinNat` and `LeastNat` are proved from the
  well-founded order of the naturals. `PagingInv` says at each step of `init_paging`
  what one page is mapped to (`PageAs`); `ModifyPages`, `ModifyRights` and
  `AddNoTables` say that a range of whole PDEs (`Whole`) is changed without a page
  table, which the tables of the hypervisor could not get. `CpuInv` says for each
  stage of a pCPU what its registers hold and what the VMCS will restore (`CpuAs`);
  `GuestsInv` what the loader has written so far and will not overwrite (`GuestAs`);
  `AccessInv` that what a pCPU touches at a stage is mapped for it.
- `CharsInvariance` and from it `CharsOrdered` (`CharsInOrder`), for any number of
  VMs, any FIFO sizes and any number of characters. The order of what is *in* a FIFO
  and was read from it is not inductive: a vUART shows, after a reset or a new
  connection, whatever its FIFO memory held, and the next character may come from a
  writer that was overtaken between counting its character and putting it into the
  peer's FIFO. `CharsInv` says that every character a FIFO shows, or a guest or the
  console has read, was sent, and is older than the one its source is about to put.
  `RingMod`, `RingTurn`, `PutContents` and `RestContents` say what `fifo_putchar` and
  `fifo_getchar` do to the contents of the ring, for every position of its indices and
  with the oldest character lost when it is full.
- `LinkInvariance` and from it `Linked` (`LinkedBothWays`), for any VMs, created and
  shut down at any time. `LinkInv` says for every stage of a creation or a shutdown
  which of the four pointers of a pair are set, for each stage the peer may be in.
  It holds until a shutdown meets the linking or unlinking of the peer; that is all
  `raced` records, and after it the property is false (see the divergences).
  Assumption: the configuration connects each VM's vUART with one whose own
  configuration connects it back (`Peer` is an involution). The scenarios of the
  repository configure no second vUART; one that is connected on one side only would
  be a mistake in the configuration.
- `RtcInvariance` and from it `RtcOwn` (`RtcOwnRegister`), for any number of VMs,
  created at any time, until `vrtc_init` clears the lock while it is in use
  (`cmos_reset`); an initialisation that finds it free does no harm. `RtcInv` is the
  argument of the ticket lock, for tickets that do not wrap: those of the VMs that
  wait or hold the lock lie between `head` and `tail` and are different, and the
  holder's is `head`; between the holder's write of the index port and its read no
  other VM writes it.
- `ShellInvariance` and from it `ShellCommands` (`CommandAsTyped`), for any line
  size and any set of keys. `ShellIInv` says that the active buffer shows the line
  typed up to its end, and the other one the line before, terminator included, so
  that what a longer line left behind is never part of a command.

`MutualExclusion`, `RunningFlagExact`, `PendingHasVector` and the absence of an entry
with a triple fault are proved only; TLC checks on small instances what implies
them or is proved from the same invariant. The inductive invariants of the other
proofs were checked with TLC on the runs' instances before they were proved.

Only model-checked:

- all liveness properties: the prover has no reasoning about fairness or ENABLED;
- `FetchSucceeds`, a statement about a vCPU's lookup and what others do to the EPT
  before it uses it;
- `ExitsHandled` and `AnswersAgree`: they compare tables of constants, which TLC
  evaluates completely;
- `VmLifecycle`, with two vCPUs, as its run does.

## Not modelled

- Timing: a bounded poll is a step that may come at any time, and a time-out of
  the remapping unit's registers ends the program.
- The formats of registers, descriptors, VMCS fields and ACPI tables, and values
  that are only stored and read back: general-purpose and segment registers,
  MSRs without a rule, the read-only registers of the vLAPIC.
- Fixed IPIs of a guest and the virtual interrupts, which hardware passes
  through; `vuart_toggle_intr`, which is empty.
- Panics, the safety VM's on a fatal error included: they end the program.
- Keys that come before all VMs have been created for the first time, and `start_test`
  while VM 0 is still being shut down: `prepare_vm` and `shutdown_vm` are thread-safe
  "when vm is different" only (`guest/vm.c:572`, `:788`).
- More than one PML4E; the walk of the EPT that flushes the cache for WBINVD,
  which changes no state of the model; cache and TLB flushes of the host, except
  that `HvPaging` remembers which translations may be stale.
- Reads of the configuration space, which have no effect but the answer, and the
  enumeration of physical devices, which is a constant here.
- Remapping units other than the one all devices are behind, which `vtd.c`
  configures as ignored.
- Code that runs once and alone before the C code (boot code, relocation), the
  parsing of the platform's ACPI tables, detection of CPU features, output and its
  formatting, string and memory helpers.

Weak memory: x86 orders the locked instructions involved; `running` is a
volatile flag and its store is modelled at once.

## Plan

1. Done: ticket lock, scheduler, VM life cycle, start-up, request handling.
2. Done: page tables, EPT, BAR mappings, the hypervisor's own paging, the memory
   map, what a pCPU sets up, guest loading.
3. Done: the remapping unit, virtual PCI, the register state of a vCPU, CPUID and
   MSR tables, vUART, vRTC, console and shell.
4. Done, proofs: ticket lock, scheduler, requests, start-up, remapping unit, virtual
   PCI, register state, EPT, host memory, virtual devices and shell.
5. Left, models: the guest's own page tables in `guest_memory.c`, reads of the
   configuration space.
