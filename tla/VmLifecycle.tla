---------------------------- MODULE VmLifecycle ----------------------------
(***************************************************************************)
(* The life of one non-safety VM: its BSP is launched, vCPUs start each    *)
(* other with INIT and STARTUP IPIs written to the virtual ICR, a fatal    *)
(* error of a vCPU pauses the VM, and the idle thread of that vCPU's pCPU  *)
(* shuts it down and takes its pCPUs offline.                              *)
(*                                                                         *)
(* vCPU v runs on pCPU v, and only there (vcpu_affinity).  Besides the     *)
(* places of module Schedule, pc[v] takes the values                       *)
(*   v_pend, v_inject, v_run   the stages of vcpu_thread before VM entry   *)
(*   init_* , sipi_*           vlapic_process_init_sipi on behalf of v     *)
(*   fat_*                     fatal_error_shutdown_vm                     *)
(*   sd_*                      shutdown_vm_from_idle and shutdown_vm       *)
(*   dead, reset               after cpu_dead                              *)
(* tgt[v] is the loop or argument variable of the handler v is in.         *)
(***************************************************************************)
EXTENDS SchedOps, FiniteSets

CONSTANTS NoOwner,       \* vm_lock is free
          IcrSenders,    \* vCPUs whose guest writes the ICR
          FatalVcpus,    \* vCPUs that may meet a fatal error
          ExcVcpus       \* vCPUs whose exits queue an exception

ASSUME VmAssumption == /\ Pcpu = 0 .. (Cardinality(Pcpu) - 1)
                       /\ 0 \in Pcpu
                       /\ NoOwner \notin Pcpu
                       /\ IcrSenders \cup FatalVcpus \cup ExcVcpus \subseteq Pcpu

VARIABLES
  pc, tgt,
  running, started,  \* as in Schedule
  vm_state,          \* acrn_vm.state
  vm_lock,           \* owner of acrn_vm.vm_lock, a Mutex
  vstate,            \* acrn_vcpu.state
  nr_sipi,           \* acrn_vcpu_arch.nr_sipi
  pending,           \* acrn_vcpu_arch.pending_req
  exception,         \* exception_info.exception is a vector / VECTOR_INVALID
  launched,          \* acrn_vcpu.launched
  vmcs,              \* launch state the processor keeps in the VMCS
  shutdown_req,      \* NEED_SHUTDOWN_VM in pcpu_flag
  offline_req,       \* NEED_OFFLINE in pcpu_flag
  boot_state,        \* per_cpu(boot_state)
  released,          \* shutdown_vm has released EPT, IOMMU domain and devices
  overtaken          \* history: vCPUs that a pause has taken for stopped, and were not

cpuVars == <<running, started>>
vmVars  == <<vm_state, vm_lock, released>>
vcpuVars == <<vstate, nr_sipi, pending, exception, launched, vmcs>>
reqVars == <<shutdown_req, offline_req, boot_state>>
vars == <<schedVars, pc, tgt, cpuVars, vmVars, vcpuVars, reqVars, overtaken>>

BSP  == 0
Last == Cardinality(Pcpu) - 1
Requests == {"INIT_VMCS", "TRP_FAULT", "LAPIC_RESET", "EXCP"}
VECTOR_INVALID == "VECTOR_INVALID"

\* Code of the vCPU thread between the need_reschedule test and the VM exit.
Entering == {"v_pend", "v_inject", "v_run", "guest"}
InHandler == {"init_lock", "init_pause", "init_wait", "init_reset", "sipi_lock",
              "sipi_request", "sipi_launch", "fat_lock", "fat_pause", "fat_wait",
              "fat_next", "fat_request"}
InShutdown == {"sd_lock", "sd_reset", "sd_offline", "sd_wait"}

\* The VM exists (create_vm) and every pCPU but the BSP's idles; the BSP's pCPU
\* is about to execute start_vm in launch_vms.
Init ==
  /\ status = [p \in Pcpu |-> [t \in Thread |->
                 IF t = "idle" /\ p # BSP THEN RUNNING ELSE BLOCKED]]
  /\ noop_obj = [p \in Pcpu |-> NULL]
  /\ curr_obj = [p \in Pcpu |-> IF p = BSP THEN NULL ELSE "idle"]
  /\ need_resched = [p \in Pcpu |-> FALSE]
  /\ init_sig = [p \in Pcpu |-> FALSE]
  /\ pc = [p \in Pcpu |-> IF p = BSP THEN "start_vm" ELSE "idle"]
  /\ tgt = [p \in Pcpu |-> 0]
  /\ running = [p \in Pcpu |-> FALSE]
  /\ started = [p \in Pcpu |-> FALSE]
  /\ vm_state = "VM_CREATED"
  /\ vm_lock = NoOwner
  /\ released = FALSE
  /\ vstate = [p \in Pcpu |-> "VCPU_INIT"]
  /\ nr_sipi = [p \in Pcpu |-> 0]
  /\ pending = [p \in Pcpu |-> {}]
  /\ exception = [p \in Pcpu |-> VECTOR_INVALID]
  /\ launched = [p \in Pcpu |-> FALSE]
  /\ vmcs = [p \in Pcpu |-> "none"]
  /\ shutdown_req = [p \in Pcpu |-> FALSE]
  /\ offline_req = [p \in Pcpu |-> FALSE]
  /\ boot_state = [p \in Pcpu |-> "RUNNING"]
  /\ overtaken = {}

Goto(v, l) == pc' = [pc EXCEPT ![v] = l]

-----------------------------------------------------------------------------
(* Requests and vCPU state changes that several handlers share.            *)

\* vcpu_make_request: the bit, then kick_vcpu.
vcpu_make_request(me, v, r) == /\ pending' = [pending EXCEPT ![v] = @ \cup {r}]
                               /\ kick_thread(me, v)

\* Mutation of launch_vcpu: the thread is not woken.
launch_without_wake(me, v) == /\ vstate' = [vstate EXCEPT ![v] = "VCPU_RUNNING"]
                              /\ UNCHANGED schedVars

\* launch_vcpu.
launch_vcpu(me, v) == /\ vstate' = [vstate EXCEPT ![v] = "VCPU_RUNNING"]
                      /\ wake_thread(me, v)

\* Mutation of pause_vcpu: it does not wait for the vCPU to leave its pCPU.
pause_without_wait(me, v, wait, done) ==
  /\ vstate' = [vstate EXCEPT ![v] = IF @ \in {"VCPU_RUNNING", "VCPU_INIT"}
                                     THEN "VCPU_ZOMBIE" ELSE @]
  /\ IF vstate[v] = "VCPU_RUNNING" THEN sleep_thread(me, v) ELSE UNCHANGED schedVars
  /\ Goto(me, done) /\ UNCHANGED overtaken

\* pause_vcpu up to its wait: me goes on to `wait` when the vCPU was running on
\* another pCPU, else to `done`.  A thread that schedule() has made the current one
\* and that has not set vcpu->running yet is taken for stopped.
pause_vcpu(me, v, wait, done) ==
  /\ vstate' = [vstate EXCEPT ![v] = IF @ \in {"VCPU_RUNNING", "VCPU_INIT"}
                                     THEN "VCPU_ZOMBIE" ELSE @]
  /\ IF vstate[v] = "VCPU_RUNNING" THEN sleep_thread(me, v) ELSE UNCHANGED schedVars
  /\ overtaken' = overtaken \cup {t \in {v} : vstate[v] = "VCPU_RUNNING" /\ pc[v] = "switch_in"}
  /\ Goto(me, IF vstate[v] = "VCPU_RUNNING" /\ v # me THEN wait ELSE done)

\* reset_vcpu, with the state and SIPI count its caller leaves right after it.
\* exception is invalidated; pending_req is not cleared; running is cleared even
\* when the vCPU's thread is the current one of its pCPU.
reset_vcpu(me, v, state, sipis) ==
  /\ vstate' = [vstate EXCEPT ![v] = state]
  /\ launched' = [launched EXCEPT ![v] = FALSE]
  /\ running' = [running EXCEPT ![v] = FALSE]
  /\ nr_sipi' = [nr_sipi EXCEPT ![v] = sipis]
  /\ exception' = [exception EXCEPT ![v] = VECTOR_INVALID]
  /\ overtaken' = overtaken \cup {t \in {v} : curr_obj[v] = "vcpu"}
  /\ vcpu_make_request(me, v, "LAPIC_RESET")
  /\ UNCHANGED <<vmcs, started>>
-----------------------------------------------------------------------------
(* launch_vms on the BSP's pCPU, and the idle thread.                       *)

\* start_vm: the kick inside vcpu_make_request finds the thread BLOCKED.
StartVm == /\ pc[BSP] = "start_vm"
           /\ vm_state' = "VM_STARTED"
           /\ pending' = [pending EXCEPT ![BSP] = @ \cup {"INIT_VMCS"}]
           /\ launch_vcpu(BSP, BSP)
           /\ Goto(BSP, "boot")
           /\ UNCHANGED <<tgt, cpuVars, vm_lock, released, nr_sipi, exception, launched,
                          vmcs, reqVars, overtaken>>

\* run_idle_thread -> run_thread: the pCPU reaches its idle loop.
RunIdleThread(p) == /\ pc[p] = "boot"
                    /\ run_thread_idle(p)
                    /\ Goto(p, "idle")
                    /\ UNCHANGED <<tgt, cpuVars, vmVars, vcpuVars, reqVars, overtaken>>

\* schedule(), called by default_idle or vcpu_thread, and where it leaves p.
DoSchedule(p) ==
  /\ pc[p] \in {"idle", "v_top"}
  /\ need_resched[p]
  /\ schedule_pick(p)
  /\ LET prev == curr_obj[p]
         next == pick_next(p)
     IN  Goto(p, IF prev = next THEN IF prev = "idle" THEN "idle" ELSE "v_pend"
                                ELSE IF prev = "idle" THEN "switch_in" ELSE "switch_out")
  /\ UNCHANGED <<tgt, cpuVars, vmVars, vcpuVars, reqVars, overtaken>>

\* context_switch_out, then arch_switch_to the idle thread.
SwitchOut(p) == /\ pc[p] = "switch_out"
                /\ running' = [running EXCEPT ![p] = FALSE]
                /\ started' = [started EXCEPT ![p] = TRUE]
                /\ overtaken' = overtaken \ {p}
                /\ Goto(p, "idle")
                /\ UNCHANGED <<schedVars, tgt, vmVars, vcpuVars, reqVars>>

\* context_switch_in, then arch_switch_to: a thread that ran before resumes
\* below the need_reschedule test of vcpu_thread, a new one above it.
SwitchIn(p) == /\ pc[p] = "switch_in"
               /\ running' = [running EXCEPT ![p] = TRUE]
               /\ Goto(p, IF started[p] THEN "v_pend" ELSE "v_top")
               /\ UNCHANGED <<schedVars, tgt, started, vmVars, vcpuVars, reqVars, overtaken>>

\* vmx_off unblocks INIT: one that is latched resets the core, before or after the
\* core has written its boot_state.
vmx_off(p) == {"dead"} \cup {x \in {"reset"} : init_sig[p]}

\* default_idle -> need_offline -> cpu_dead.
IdleOffline(p) ==
  /\ pc[p] = "idle" /\ ~need_resched[p] /\ offline_req[p]
  /\ offline_req' = [offline_req EXCEPT ![p] = FALSE]
  /\ \E end \in vmx_off(p) :
       /\ boot_state' = [boot_state EXCEPT ![p] = IF end = "dead" THEN "DEAD" ELSE @]
       /\ Goto(p, end)
  /\ UNCHANGED <<schedVars, tgt, cpuVars, vmVars, vcpuVars, shutdown_req, overtaken>>

\* default_idle -> need_shutdown_vm -> shutdown_vm_from_idle.
IdleShutdown(p) ==
  /\ pc[p] = "idle" /\ ~need_resched[p] /\ ~offline_req[p] /\ shutdown_req[p]
  /\ shutdown_req' = [shutdown_req EXCEPT ![p] = FALSE]
  /\ Goto(p, "sd_lock")
  /\ UNCHANGED <<schedVars, tgt, cpuVars, vmVars, vcpuVars, offline_req, boot_state, overtaken>>

-----------------------------------------------------------------------------
(* shutdown_vm_from_idle and shutdown_vm.                                   *)

\* The pCPUs of the VM's vCPUs: each vCPU is tied to the pCPU of its number.
get_pcpu_bitmap == Pcpu

\* The start of shutdown_vm: the VM becomes POWERED_OFF and the pCPU, which is one of
\* the VM's, requests its own offlining.
BeginShutdown(p) ==
  /\ vm_state' = "VM_POWERED_OFF"
  /\ offline_req' = [offline_req EXCEPT ![p] = @ \/ p \in get_pcpu_bitmap]
  /\ tgt' = [tgt EXCEPT ![p] = 0]
  /\ Goto(p, "sd_reset")

\* shutdown_vm_from_idle: under vm_lock, only a PAUSED VM is shut down.
ShutdownLock(p) ==
  /\ pc[p] = "sd_lock" /\ vm_lock = NoOwner
  /\ IF vm_state = "VM_PAUSED"
     THEN vm_lock' = p /\ BeginShutdown(p)
     ELSE /\ Goto(p, "idle")
          /\ UNCHANGED <<vm_lock, vm_state, offline_req, tgt>>
  /\ UNCHANGED <<schedVars, cpuVars, released, vcpuVars, shutdown_req, boot_state, overtaken>>

\* foreach_vcpu: reset_vcpu and offline_vcpu.
ShutdownReset(p) ==
  /\ pc[p] = "sd_reset"
  /\ IF vstate[tgt[p]] # "VCPU_OFFLINE"
     THEN reset_vcpu(p, tgt[p], "VCPU_OFFLINE", 0)
     ELSE UNCHANGED <<schedVars, cpuVars, vcpuVars, overtaken>>
  /\ Goto(p, "sd_offline")
  /\ UNCHANGED <<tgt, vmVars, reqVars>>

\* make_pcpu_offline of every other pCPU of the VM: the flag, then INIT.
ShutdownOffline(p) ==
  /\ pc[p] = "sd_offline"
  /\ LET t == tgt[p] IN
       IF t = p THEN UNCHANGED <<offline_req, init_sig>>
                ELSE /\ offline_req' = [offline_req EXCEPT ![t] = TRUE]
                     /\ send_single_init(t)
  /\ tgt' = [tgt EXCEPT ![p] = IF @ < Last THEN @ + 1 ELSE @]
  /\ Goto(p, IF tgt[p] < Last THEN "sd_reset" ELSE "sd_wait")
  /\ UNCHANGED <<status, noop_obj, curr_obj, need_resched, cpuVars, vmVars, vcpuVars,
                 shutdown_req, boot_state, overtaken>>

\* The rest of shutdown_vm: vpci_cleanup, deinit_vuart, destroy_iommu_domain,
\* destroy_ept; then shutdown_vm_from_idle releases vm_lock.
Cleanup(p) == /\ pc[p] = "sd_wait"
              /\ released' = TRUE
              /\ vm_lock' = NoOwner
              /\ Goto(p, "idle")
              /\ UNCHANGED <<schedVars, tgt, cpuVars, vm_state, vcpuVars, reqVars, overtaken>>

\* wait_pcpus_offline ends because no other pCPU of the VM is active ...
ShutdownAllDead(p) == /\ \A q \in get_pcpu_bitmap \ {p} : boot_state[q] = "DEAD"
                      /\ Cleanup(p)

\* ... or because CPU_DOWN_TIMEOUT has passed; it does not tell its caller.
ShutdownTimeout(p) == /\ \E q \in get_pcpu_bitmap \ {p} : boot_state[q] # "DEAD"
                      /\ Cleanup(p)

-----------------------------------------------------------------------------
(* vcpu_thread: one round of its loop.                                      *)

\* The need_reschedule test at the top of vcpu_thread fails.
TestReschedule(v) ==
  /\ pc[v] = "v_top" /\ ~need_resched[v]
  /\ Goto(v, "v_pend")
  /\ UNCHANGED <<schedVars, tgt, cpuVars, vmVars, vcpuVars, reqVars, overtaken>>

\* acrn_handle_pending_request, first ACRN_REQUEST_INIT_VMCS: init_vmcs executes
\* VMCLEAR, which makes the launch state "clear".
PendingInitVmcs(v) ==
  /\ pc[v] = "v_pend"
  /\ IF "INIT_VMCS" \in pending[v]
     THEN /\ pending' = [pending EXCEPT ![v] = @ \ {"INIT_VMCS"}]
          /\ vmcs' = [vmcs EXCEPT ![v] = "clear"]
     ELSE UNCHANGED <<pending, vmcs>>
  /\ Goto(v, "v_inject")
  /\ UNCHANGED <<schedVars, tgt, cpuVars, vmVars, vstate, nr_sipi, exception, launched,
                 reqVars, overtaken>>

\* The other requests: a triple fault ends the round in fatal_error_shutdown_vm;
\* otherwise the LAPIC is reset and a queued exception is injected.
PendingOthers(v) ==
  /\ pc[v] = "v_inject"
  /\ IF "TRP_FAULT" \in pending[v]
     THEN /\ pending' = [pending EXCEPT ![v] = @ \ {"TRP_FAULT"}]
          /\ Goto(v, "fat_lock")
          /\ UNCHANGED exception
     ELSE /\ pending' = [pending EXCEPT ![v] = @ \ {"LAPIC_RESET", "EXCP"}]
          /\ exception' = [exception EXCEPT ![v] =
                             IF "EXCP" \in pending[v] THEN VECTOR_INVALID ELSE @]
          /\ Goto(v, "v_run")
  /\ UNCHANGED <<schedVars, tgt, cpuVars, vmVars, vstate, nr_sipi, launched, vmcs, reqVars,
                 overtaken>>

\* run_vcpu: VMLAUNCH needs a clear VMCS, VMRESUME a launched one; otherwise the
\* instruction fails and vcpu_thread calls fatal_error_shutdown_vm.
RunVcpu(v) ==
  /\ pc[v] = "v_run"
  /\ launched' = [launched EXCEPT ![v] = TRUE]
  /\ IF vmcs[v] = (IF launched[v] THEN "launched" ELSE "clear")
     THEN /\ vmcs' = [vmcs EXCEPT ![v] = "launched"]
          /\ Goto(v, "guest")
     ELSE /\ Goto(v, "fat_lock")
          /\ UNCHANGED vmcs
  /\ UNCHANGED <<schedVars, tgt, cpuVars, vmVars, vstate, nr_sipi, pending, exception,
                 reqVars, overtaken>>

\* init_signal_vmexit_handler.
InitExit(v) ==
  /\ pc[v] = "guest" /\ init_sig[v]
  /\ init_sig' = [init_sig EXCEPT ![v] = FALSE]
  /\ Goto(v, "v_top")
  /\ UNCHANGED <<status, noop_obj, curr_obj, need_resched, tgt, cpuVars, vmVars, vcpuVars,
                 reqVars, overtaken>>

\* An exit whose handler changes nothing modelled here.
PlainExit(v) ==
  /\ pc[v] = "guest"
  /\ Goto(v, "v_top")
  /\ UNCHANGED <<schedVars, tgt, cpuVars, vmVars, vcpuVars, reqVars, overtaken>>

\* An exit whose handler queues an exception (vcpu_inject_gp and the like).
ExceptionExit(v) ==
  /\ pc[v] = "guest" /\ v \in ExcVcpus
  /\ exception' = [exception EXCEPT ![v] = "vector"]
  /\ vcpu_make_request(v, v, "EXCP")
  /\ Goto(v, "v_top")
  /\ UNCHANGED <<tgt, cpuVars, vmVars, vstate, nr_sipi, launched, vmcs, reqVars, overtaken>>

\* An exit that ends in ACRN_REQUEST_TRP_FAULT.
TripleFaultExit(v) ==
  /\ pc[v] = "guest" /\ v \in FatalVcpus
  /\ vcpu_make_request(v, v, "TRP_FAULT")
  /\ Goto(v, "v_top")
  /\ UNCHANGED <<tgt, cpuVars, vmVars, vstate, nr_sipi, exception, launched, vmcs, reqVars,
                 overtaken>>

\* An exit whose handler calls fatal_error_shutdown_vm.
FatalExit(v) ==
  /\ pc[v] = "guest" /\ v \in FatalVcpus
  /\ Goto(v, "fat_lock")
  /\ UNCHANGED <<schedVars, tgt, cpuVars, vmVars, vcpuVars, reqVars, overtaken>>

\* vlapic_x2apic_pt_icr_access: the target's state is tested before vm_lock is
\* taken.  INIT and STARTUP to the BSP are dropped.  The guest executes a WRMSR
\* only if no INIT is latched; an exit while an injected event is delivered, as
\* the exits above may be, can still come first.
IcrExit(v, t, l) ==
  /\ pc[v] = "guest" /\ v \in IcrSenders /\ ~init_sig[v]
  /\ t # BSP /\ vstate[t] # "VCPU_OFFLINE"
  /\ tgt' = [tgt EXCEPT ![v] = t]
  /\ Goto(v, l)
  /\ UNCHANGED <<schedVars, cpuVars, vmVars, vcpuVars, reqVars, overtaken>>

\* An INIT and a STARTUP IPI.
InitIpiExit(v, t) == IcrExit(v, t, "init_lock")

SipiExit(v, t) == IcrExit(v, t, "sipi_lock")

-----------------------------------------------------------------------------
(* vlapic_process_init_sipi.                                                *)

\* spinlock_obtain(&vm->vm_lock).
InitLock(v) == /\ pc[v] = "init_lock" /\ vm_lock = NoOwner
               /\ vm_lock' = v
               /\ Goto(v, "init_pause")
               /\ UNCHANGED <<schedVars, tgt, cpuVars, vm_state, released, vcpuVars, reqVars,
                              overtaken>>

\* vlapic_process_init_sipi, INIT: pause_vcpu on the target.
InitPause(v) == /\ pc[v] = "init_pause"
                /\ pause_vcpu(v, tgt[v], "init_wait", "init_reset")
                /\ UNCHANGED <<tgt, cpuVars, vmVars, nr_sipi, pending, exception, launched,
                               vmcs, reqVars>>

\* while (vcpu->running) in pause_vcpu.
InitWait(v) == /\ pc[v] = "init_wait" /\ ~running[tgt[v]]
               /\ Goto(v, "init_reset")
               /\ UNCHANGED <<schedVars, tgt, cpuVars, vmVars, vcpuVars, reqVars, overtaken>>

\* reset_vcpu, nr_sipi = 1, and the lock is released.
InitReset(v) == /\ pc[v] = "init_reset"
                /\ reset_vcpu(v, tgt[v], "VCPU_INIT", 1)
                /\ vm_lock' = NoOwner
                /\ Goto(v, "v_top")
                /\ UNCHANGED <<tgt, vm_state, released, reqVars>>

\* A STARTUP IPI counts only after an INIT, and only once.
SipiLock(v) ==
  /\ pc[v] = "sipi_lock" /\ vm_lock = NoOwner
  /\ IF vstate[tgt[v]] = "VCPU_INIT" /\ nr_sipi[tgt[v]] # 0
     THEN vm_lock' = v /\ Goto(v, "sipi_request")
     ELSE UNCHANGED vm_lock /\ Goto(v, "v_top")
  /\ UNCHANGED <<schedVars, tgt, cpuVars, vm_state, released, vcpuVars, reqVars, overtaken>>

\* The count goes down and the VMCS of the target is to be initialised.
SipiRequest(v) == /\ pc[v] = "sipi_request"
                  /\ nr_sipi' = [nr_sipi EXCEPT ![tgt[v]] = @ - 1]
                  /\ vcpu_make_request(v, tgt[v], "INIT_VMCS")
                  /\ Goto(v, "sipi_launch")
                  /\ UNCHANGED <<tgt, cpuVars, vmVars, vstate, exception, launched, vmcs,
                                 reqVars, overtaken>>

\* launch_vcpu on the target, and the lock is released.
SipiLaunch(v) == /\ pc[v] = "sipi_launch"
                 /\ launch_vcpu(v, tgt[v])
                 /\ vm_lock' = NoOwner
                 /\ Goto(v, "v_top")
                 /\ UNCHANGED <<tgt, cpuVars, vm_state, released, nr_sipi, pending, exception,
                                launched, vmcs, reqVars, overtaken>>

-----------------------------------------------------------------------------
(* fatal_error_shutdown_vm and pause_vm.                                    *)

\* fatal_error_shutdown_vm takes vm_lock; pause_vm does something only to a
\* STARTED VM.
FatalLock(v) ==
  /\ pc[v] = "fat_lock" /\ vm_lock = NoOwner
  /\ tgt' = [tgt EXCEPT ![v] = 0]
  /\ IF vm_state = "VM_STARTED"
     THEN vm_lock' = v /\ Goto(v, "fat_pause")
     ELSE UNCHANGED vm_lock /\ Goto(v, "fat_request")
  /\ UNCHANGED <<schedVars, cpuVars, vm_state, released, vcpuVars, reqVars, overtaken>>

\* pause_vcpu on the next vCPU, and its wait.
FatalPause(v) == /\ pc[v] = "fat_pause"
                 /\ pause_vcpu(v, tgt[v], "fat_wait", "fat_next")
                 /\ UNCHANGED <<tgt, cpuVars, vmVars, nr_sipi, pending, exception, launched,
                                vmcs, reqVars>>

FatalWait(v) == /\ pc[v] = "fat_wait" /\ ~running[tgt[v]]
                /\ Goto(v, "fat_next")
                /\ UNCHANGED <<schedVars, tgt, cpuVars, vmVars, vcpuVars, reqVars, overtaken>>

\* foreach_vcpu in pause_vm; after the last one the VM is PAUSED and
\* fatal_error_shutdown_vm releases the lock.
FatalNext(v) ==
  /\ pc[v] = "fat_next"
  /\ IF tgt[v] < Last
     THEN /\ tgt' = [tgt EXCEPT ![v] = @ + 1]
          /\ Goto(v, "fat_pause")
          /\ UNCHANGED <<vm_state, vm_lock>>
     ELSE /\ vm_state' = "VM_PAUSED"
          /\ vm_lock' = NoOwner
          /\ Goto(v, "fat_request")
          /\ UNCHANGED tgt
  /\ UNCHANGED <<schedVars, cpuVars, released, vcpuVars, reqVars, overtaken>>

\* Mutation of FatalRequest: the shutdown is not requested.
FatalNoRequest(v) == /\ pc[v] = "fat_request"
                     /\ Goto(v, "v_top")
                     /\ UNCHANGED <<schedVars, tgt, cpuVars, vmVars, vcpuVars, reqVars, overtaken>>

\* shutdown_vm_id and make_shutdown_vm_request for the vCPU's own pCPU.
FatalRequest(v) == /\ pc[v] = "fat_request"
                   /\ shutdown_req' = [shutdown_req EXCEPT ![v] = TRUE]
                   /\ Goto(v, "v_top")
                   /\ UNCHANGED <<schedVars, tgt, cpuVars, vmVars, vcpuVars, offline_req,
                                  boot_state, overtaken>>

-----------------------------------------------------------------------------
\* What pCPU v does by itself, other than take vm_lock.
Step(v) ==
  \/ (v = BSP /\ StartVm) \/ RunIdleThread(v) \/ DoSchedule(v) \/ SwitchOut(v) \/ SwitchIn(v)
  \/ IdleOffline(v) \/ IdleShutdown(v)
  \/ ShutdownReset(v) \/ ShutdownOffline(v) \/ ShutdownAllDead(v) \/ ShutdownTimeout(v)
  \/ TestReschedule(v) \/ PendingInitVmcs(v) \/ PendingOthers(v) \/ RunVcpu(v) \/ InitExit(v)
  \/ InitPause(v) \/ InitWait(v) \/ InitReset(v) \/ SipiRequest(v) \/ SipiLaunch(v)
  \/ FatalPause(v) \/ FatalWait(v) \/ FatalNext(v) \/ FatalRequest(v)

\* spinlock_obtain(&vm->vm_lock) returns to v.
Lock(v) == InitLock(v) \/ SipiLock(v) \/ FatalLock(v) \/ ShutdownLock(v)

\* What the guest may do and need not.
GuestExit(v) == \/ PlainExit(v) \/ ExceptionExit(v) \/ TripleFaultExit(v) \/ FatalExit(v)
                \/ \E t \in Pcpu : InitIpiExit(v, t) \/ SipiExit(v, t)

Next == \E v \in Pcpu : Step(v) \/ Lock(v) \/ GuestExit(v)

Spec == Init /\ [][Next]_vars

(***************************************************************************)
(* Every pCPU keeps executing, the hardware delivers a latched INIT, and   *)
(* the ticket lock serves its askers in order (TicketLock!ObtainReturns),  *)
(* so that a processor that asks while the lock keeps becoming free gets   *)
(* it.  The guest's exits are not fair.                                    *)
(***************************************************************************)
FairSpec == Spec /\ \A v \in Pcpu : WF_vars(Step(v)) /\ SF_vars(Lock(v))

-----------------------------------------------------------------------------
Places == {"start_vm", "boot", "idle", "switch_out", "switch_in", "v_top", "dead", "reset"}
            \cup Entering \cup InHandler \cup InShutdown

\* State and values have the types the code gives them; in particular nr_sipi, an
\* unsigned counter that a STARTUP IPI decrements, never goes below 0.
TypeOK ==
  /\ SchedTypeOK
  /\ pc \in [Pcpu -> Places]
  /\ tgt \in [Pcpu -> Pcpu]
  /\ running \in [Pcpu -> BOOLEAN] /\ started \in [Pcpu -> BOOLEAN]
  /\ vm_state \in {"VM_CREATED", "VM_STARTED", "VM_PAUSED", "VM_POWERED_OFF"}
  /\ vm_lock \in Pcpu \cup {NoOwner}
  /\ released \in BOOLEAN
  /\ vstate \in [Pcpu -> {"VCPU_OFFLINE", "VCPU_INIT", "VCPU_RUNNING", "VCPU_ZOMBIE"}]
  /\ nr_sipi \in [Pcpu -> 0 .. 1]
  /\ pending \in [Pcpu -> SUBSET Requests]
  /\ exception \in [Pcpu -> {"vector", VECTOR_INVALID}]
  /\ launched \in [Pcpu -> BOOLEAN]
  /\ vmcs \in [Pcpu -> {"none", "clear", "launched"}]
  /\ shutdown_req \in [Pcpu -> BOOLEAN] /\ offline_req \in [Pcpu -> BOOLEAN]
  /\ boot_state \in [Pcpu -> {"RUNNING", "DEAD"}]
  /\ overtaken \subseteq Pcpu

\* A vCPU that goes on although its pause did not wait for it has been told to leave:
\* its thread is to be switched, and the latched INIT ends its stay in the guest
\* before the first instruction.
ToldToLeave(v) == v \in overtaken /\ need_resched[v] /\ init_sig[v]

\* pause_vm sets VM_PAUSED after pausing all vCPUs: from then on no STARTUP IPI that
\* was under way starts one, in whatever order the pCPUs got there, and none of them
\* executes in the guest.
PausedVmIsOut ==
  vm_state \in {"VM_PAUSED", "VM_POWERED_OFF"}
    => \A v \in Pcpu : /\ vstate[v] # "VCPU_RUNNING" /\ status[v]["vcpu"] = BLOCKED
                       /\ pc[v] = "guest" => ToldToLeave(v)

\* EPT, IOMMU domain and devices are released only when no vCPU can use them any
\* more, even if wait_pcpus_offline gave up waiting.
ReleasedUnused ==
  released => \A v \in Pcpu \ overtaken : pc[v] \notin Entering \cup InHandler

\* Both together: what runs of a VM once it is paused, and once it is released.
StoppedVmIsOut == PausedVmIsOut /\ ReleasedUnused

\* When INIT or shutdown_vm resets a vCPU it is not running, and the state is not
\* pulled from under another vCPU on its way into the guest, unless it will leave
\* before it executes an instruction.
ResetOutsideGuest ==
  \A v \in Pcpu : pc[v] \in {"init_reset", "sd_reset"}
                    => /\ vstate[tgt[v]] # "VCPU_RUNNING"
                       /\ tgt[v] # v /\ pc[tgt[v]] \in Entering => ToldToLeave(tgt[v])

\* The VM entry run_vcpu chooses is the one the VMCS is ready for, which is what
\* its ASSERT(status == 0, "vm fail") expects.
EntryReady ==
  \A v \in Pcpu : pc[v] = "v_run" => vmcs[v] = (IF launched[v] THEN "launched" ELSE "clear")

\* vcpu_inject_exception is only asked to inject a real vector.
InjectsVector ==
  \A v \in Pcpu : pc[v] = "v_inject" /\ "EXCP" \in pending[v] /\ "TRP_FAULT" \notin pending[v]
                    => exception[v] # VECTOR_INVALID

\* One vCPU waits, as the owner of vm_lock, for another one to leave, and that one
\* waits for vm_lock in its exit handler.
Deadlock ==
  \E w, v \in Pcpu : /\ vm_lock = w /\ pc[w] \in {"init_wait", "fat_wait"}
                     /\ tgt[w] = v /\ running[v]
                     /\ pc[v] \in {"init_lock", "sipi_lock", "fat_lock"}

\* "@threadsafety yes" of fatal_error_shutdown_vm, which takes the lock "for
\* protecting simultaneous VM state transition requests": two of them do not lock
\* each other up.
RequestsDoNotDeadlock == ~Deadlock

\* A vCPU that calls fatal_error_shutdown_vm brings the whole VM down.
FatalShutsDown ==
  \A v \in Pcpu : pc[v] = "fat_lock" ~> vm_state = "VM_POWERED_OFF" \/ Deadlock

\* Shutting a VM down takes every one of its pCPUs out of service.
PcpusGoOffline ==
  vm_state = "VM_POWERED_OFF" ~> \A v \in Pcpu : pc[v] \in {"dead", "reset"}

\* Both together: a fatal error ends with the VM off and its pCPUs out of service,
\* whatever INITs, STARTUP IPIs and other fatal errors cross it, unless two vCPUs
\* are left waiting for each other; nothing else can stop it.
FatalEndsVm == FatalShutsDown /\ PcpusGoOffline

\* A vCPU that has been launched, and is not paused again, enters the guest, with the
\* same exception.
LaunchedEntersGuest ==
  \A v \in Pcpu : vstate[v] = "VCPU_RUNNING"
                    ~> pc[v] = "guest" \/ vstate[v] # "VCPU_RUNNING" \/ Deadlock

=============================================================================
