-------------------------------- MODULE Boot --------------------------------
(***************************************************************************)
(* Bringing up the physical CPUs and launching the VMs: init_primary_pcpu, *)
(* init_secondary_pcpu (arch/x86/init.c), start_pcpus and wait_sync_change *)
(* (arch/x86/cpu.c), launch_vms (arch/x86/guest/vm.c).                     *)
(*                                                                         *)
(* pCPU 0 starts the others one after the other, through one trampoline    *)
(* page with one stack symbol in it, and waits a bounded time for each.    *)
(* The pCPUs that came up wait for pcpu_sync, and then every pCPU does the *)
(* rest on its own: init_sched for itself, and the first pCPU of a VM      *)
(* creates all vCPU threads of that VM.                                    *)
(***************************************************************************)
EXTENDS Naturals, FiniteSets, FiniteSetsExt

CONSTANTS Pcpu,        \* the pCPUs, numbered from BOOT_CPU_ID = 0
          VmAffinity,  \* the configured VMs, each the set of pCPUs of its vCPUs
          Late         \* the pCPUs that may miss CPU_UP_TIMEOUT or never start

AP == Pcpu \ {0}

ASSUME BootAssumption ==
  /\ 0 \in Pcpu /\ Pcpu \subseteq Nat /\ IsFiniteSet(Pcpu)
  /\ VmAffinity \subseteq (SUBSET Pcpu) \ {{}}
  /\ Late \subseteq AP

VARIABLES pc,            \* where each pCPU is
          boot_state,    \* per_cpu(boot_state)
          pcpu_sync,     \* the start barrier
          start_mask,    \* expected_start_mask of start_pcpus
          starting,      \* the pCPU start_pcpu is waiting for; 0 for none
          failed,        \* start_pcpus will return false
          tramp_stack,   \* the pCPU whose stack secondary_cpu_stack names
          stack,         \* the pCPU whose stack each pCPU runs on
          scheduler,     \* per_cpu(sched_ctl).scheduler is set
          seen,          \* the scheduler pointer init_thread_data has read
          todo,          \* vCPUs create_vm has still to prepare, by their pCPU
          thread,        \* pCPUs whose vCPU thread_object is initialised
          vm_started     \* pCPUs that have started their VM

vars == <<pc, boot_state, pcpu_sync, start_mask, starting, failed, tramp_stack,
          stack, scheduler, seen, todo, thread, vm_started>>

DEAD    == "PCPU_STATE_DEAD"
RUNNING == "PCPU_STATE_RUNNING"

\* Where pCPU 0 is inside start_pcpus, and where an AP is before the barrier.
InStart  == {"loop", "wait", "fail", "release"}
BeforeUp == {"off", "tramp", "pre"}
Places   == InStart \cup BeforeUp \cup
            {"start", "barrier", "sched", "launch", "vcpu", "thread",
             "idle", "panic", "fault"}

\* State and values have the types the code gives them.
TypeOK ==
  /\ pc \in [Pcpu -> Places]
  /\ boot_state \in [Pcpu -> {DEAD, RUNNING}]
  /\ pcpu_sync \in {0, 1}
  /\ start_mask \subseteq AP
  /\ starting \in Pcpu
  /\ failed \in BOOLEAN
  /\ tramp_stack \in Pcpu
  /\ stack \in [Pcpu -> Pcpu]
  /\ scheduler \in [Pcpu -> BOOLEAN]
  /\ seen \in [Pcpu -> BOOLEAN]
  /\ todo \in [Pcpu -> SUBSET Pcpu]
  /\ thread \subseteq Pcpu
  /\ vm_started \subseteq Pcpu

\* init_pcpu_pre(true) has run on pCPU 0: BSS is zero, hence DEAD, and pCPU 0 is
\* RUNNING on its own stack.  The APs wait for an INIT-SIPI sequence.
Init ==
  /\ pc = [p \in Pcpu |-> IF p = 0 THEN "start" ELSE "off"]
  /\ boot_state = [p \in Pcpu |-> IF p = 0 THEN RUNNING ELSE DEAD]
  /\ pcpu_sync = 0
  /\ start_mask = {}
  /\ starting = 0
  /\ failed = FALSE
  /\ tramp_stack = 0
  /\ stack = [p \in Pcpu |-> 0]
  /\ scheduler = [p \in Pcpu |-> FALSE]
  /\ seen = [p \in Pcpu |-> FALSE]
  /\ todo = [p \in Pcpu |-> {}]
  /\ thread = {}
  /\ vm_started = {}

schedVars == <<scheduler, seen, todo, thread, vm_started>>
startVars == <<boot_state, pcpu_sync, start_mask, starting, failed,
               tramp_stack, stack>>

Goto(p, place) == pc' = [pc EXCEPT ![p] = place]

-----------------------------------------------------------------------------
(* start_pcpus, on pCPU 0.                                                 *)

\* start_pcpus(AP_MASK) prepares the trampoline and raises the barrier.
StartPcpus ==
  /\ pc[0] = "start" /\ Goto(0, "loop")
  /\ pcpu_sync' = 1
  /\ start_mask' = AP
  /\ UNCHANGED <<boot_state, starting, failed, tramp_stack, stack, schedVars>>

\* All APs load their stack pointer from the one symbol.
write_trampoline_stack_sym(i) == tramp_stack' = i

\* INIT, a delay and STARTUP: the AP begins at the trampoline, if it starts at all.
send_startup_ipi(i) == pc' = [pc EXCEPT ![0] = "wait", ![i] = "tramp"]

\* start_pcpu for the lowest bit of the mask.
StartPcpu ==
  /\ pc[0] = "loop" /\ start_mask # {}
  /\ LET i == Min(start_mask) IN
       /\ start_mask' = start_mask \ {i}
       /\ starting' = i
       /\ write_trampoline_stack_sym(i)
       /\ send_startup_ipi(i)
  /\ UNCHANGED <<boot_state, pcpu_sync, failed, stack, schedVars>>

\* The polling loop of start_pcpu ends because the AP is RUNNING.
StartPcpuUp ==
  /\ pc[0] = "wait" /\ boot_state[starting] = RUNNING
  /\ Goto(0, "loop")
  /\ starting' = 0
  /\ UNCHANGED <<boot_state, pcpu_sync, start_mask, failed, tramp_stack, stack,
                 schedVars>>

\* The polling loop ends on timeout, and boot_state, read once more, is still not
\* RUNNING.
StartPcpuTimeout ==
  /\ pc[0] = "wait" /\ starting \in Late /\ boot_state[starting] # RUNNING
  /\ Goto(0, "fail")
  /\ UNCHANGED <<startVars, schedVars>>

\* Mutation of StartPcpuFail: a failed AP does not end the loop of start_pcpus.
FailContinues ==
  /\ pc[0] = "fail" /\ Goto(0, "loop")
  /\ boot_state' = [boot_state EXCEPT ![starting] = DEAD]
  /\ failed' = TRUE
  /\ starting' = 0
  /\ UNCHANGED <<pcpu_sync, start_mask, tramp_stack, stack, schedVars>>

\* The AP is declared DEAD, whatever it has done since that read, and the loop
\* of start_pcpus is left.
StartPcpuFail ==
  /\ pc[0] = "fail" /\ Goto(0, "release")
  /\ boot_state' = [boot_state EXCEPT ![starting] = DEAD]
  /\ failed' = TRUE
  /\ starting' = 0
  /\ UNCHANGED <<pcpu_sync, start_mask, tramp_stack, stack, schedVars>>

\* Mutation of Release: the barrier is lowered only when every AP is up.
ReleaseOnSuccess ==
  /\ pc[0] = "release" \/ (pc[0] = "loop" /\ start_mask = {})
  /\ Goto(0, IF failed THEN "panic" ELSE "sched")
  /\ pcpu_sync' = IF failed THEN pcpu_sync ELSE 0
  /\ UNCHANGED <<boot_state, start_mask, starting, failed, tramp_stack, stack,
                 schedVars>>

\* The end of start_pcpus: the barrier is lowered in either case, and
\* init_pcpu_post panics, halting pCPU 0 alone, if an AP failed.
Release ==
  /\ pc[0] = "release" \/ (pc[0] = "loop" /\ start_mask = {})
  /\ Goto(0, IF failed THEN "panic" ELSE "sched")
  /\ pcpu_sync' = 0
  /\ UNCHANGED <<boot_state, start_mask, starting, failed, tramp_stack, stack,
                 schedVars>>

-----------------------------------------------------------------------------
(* init_secondary_pcpu, on each AP.                                        *)

\* The trampoline loads the stack pointer and jumps to init_secondary_pcpu.
ApEntry(p) ==
  /\ pc[p] = "tramp" /\ Goto(p, "pre")
  /\ stack' = [stack EXCEPT ![p] = tramp_stack]
  /\ UNCHANGED <<boot_state, pcpu_sync, start_mask, starting, failed,
                 tramp_stack, schedVars>>

\* The end of init_pcpu_pre(false): pcpu_set_current_state(RUNNING).
ApUp(p) ==
  /\ pc[p] = "pre" /\ Goto(p, "barrier")
  /\ boot_state' = [boot_state EXCEPT ![p] = RUNNING]
  /\ UNCHANGED <<pcpu_sync, start_mask, starting, failed, tramp_stack, stack,
                 schedVars>>

\* wait_sync_change(&pcpu_sync, 0) returns.
ApSync(p) ==
  /\ pc[p] = "barrier" /\ pcpu_sync = 0
  /\ Goto(p, "sched")
  /\ UNCHANGED <<startVars, schedVars>>

-----------------------------------------------------------------------------
(* The rest of the initialisation, on every pCPU.                          *)

\* init_sched(pcpu_id) for the pCPU itself.
InitSched(p) ==
  /\ pc[p] = "sched" /\ Goto(p, "launch")
  /\ scheduler' = [scheduler EXCEPT ![p] = TRUE]
  /\ UNCHANGED <<startVars, seen, todo, thread, vm_started>>

\* get_vm_bsp_pcpu_id.
get_vm_bsp_pcpu_id(vm) == Min(vm)

\* init_guest_mode: vmx_on, then launch_vms(pcpu_id) -> prepare_vm -> create_vm
\* for the VMs of which p is the first pCPU.
LaunchVms(p) ==
  /\ pc[p] = "launch"
  /\ LET mine == {vm \in VmAffinity : get_vm_bsp_pcpu_id(vm) = p} IN
       /\ todo' = [todo EXCEPT ![p] = UNION mine]
       /\ Goto(p, IF mine = {} THEN "idle" ELSE "vcpu")
  /\ UNCHANGED <<startVars, scheduler, seen, thread, vm_started>>

\* prepare_vcpu for the next vCPU, up to the read of the scheduler pointer by
\* init_thread_data, which happens before the scheduler lock is taken.
PrepareVcpu(p) ==
  /\ pc[p] = "vcpu" /\ todo[p] # {}
  /\ Goto(p, "thread")
  /\ seen' = [seen EXCEPT ![p] = scheduler[Min(todo[p])]]
  /\ UNCHANGED <<startVars, scheduler, todo, thread, vm_started>>

\* The locked part of init_thread_data: it tests scheduler->init_data and blocks
\* the thread.  Through a NULL pointer the test may find anything: the pCPU goes
\* on, or it is lost in an exception or a wild call.
InitThreadData(p) ==
  /\ pc[p] = "thread"
  /\ \/ /\ Goto(p, "vcpu")
        /\ thread' = thread \cup {Min(todo[p])}
        /\ todo' = [todo EXCEPT ![p] = @ \ {Min(todo[p])}]
     \/ /\ ~seen[p]
        /\ Goto(p, "fault")
        /\ UNCHANGED <<thread, todo>>
  /\ UNCHANGED <<startVars, scheduler, seen, vm_started>>

\* start_vm wakes the vCPU of this pCPU, and run_idle_thread follows.
StartVm(p) ==
  /\ pc[p] = "vcpu" /\ todo[p] = {}
  /\ Goto(p, "idle")
  /\ vm_started' = vm_started \cup {p}
  /\ UNCHANGED <<startVars, scheduler, seen, todo, thread>>

PcpuPost(p) == \/ InitSched(p) \/ LaunchVms(p) \/ PrepareVcpu(p)
               \/ InitThreadData(p) \/ StartVm(p)

StartLoop == \/ StartPcpus \/ StartPcpu \/ StartPcpuUp \/ StartPcpuTimeout
             \/ StartPcpuFail \/ Release

Next ==
  \/ StartLoop
  \/ \E p \in AP : ApEntry(p) \/ ApUp(p) \/ ApSync(p)
  \/ \E p \in Pcpu : PcpuPost(p)

Spec == Init /\ [][Next]_vars

\* Every pCPU executes its own code, so each of its steps is fair; a pCPU in Late
\* may never leave the trampoline.
FairSpec ==
  /\ Spec
  /\ WF_vars(StartLoop)
  /\ \A p \in AP \ Late : WF_vars(ApEntry(p))
  /\ \A p \in AP : WF_vars(ApUp(p)) /\ WF_vars(ApSync(p))
  /\ \A p \in Pcpu : WF_vars(PcpuPost(p))

-----------------------------------------------------------------------------
\* Every AP that left the trampoline runs on its own stack, though all of them
\* load it from the one symbol start_pcpu rewrites for each, and though an AP
\* declared DEAD by the timeout may still come up later.
OwnStack == \A p \in AP : pc[p] \notin {"off", "tramp"} => stack[p] = p

\* A pCPU that gets past start_pcpus, or past the barrier after it, without an
\* AP having failed finds every pCPU RUNNING.
AllUpOrFailed ==
  (pc[0] \notin InStart \cup {"start"} /\ ~failed)
     => \A p \in Pcpu : boot_state[p] = RUNNING

\* Both together: start_pcpus and start_pcpu bring up whom they say, each by itself.
PcpusStarted == OwnStack /\ AllUpOrFailed

\* An AP that reached the barrier is let through, even when a later AP failed to
\* start: start_pcpus lowers pcpu_sync on both of its ways out.
BarrierOpens == \A p \in AP : (pc[p] = "barrier") ~> (pc[p] # "barrier")

\* init_thread_data and wake_thread use the scheduler of a pCPU only after
\* init_sched has run there: "This API can be called only after init_sched have
\* been called once on the processor specified by obj->pcpu_id".
SchedulerReady ==
  \A p \in Pcpu : pc[p] = "thread" => seen[p]

=============================================================================
