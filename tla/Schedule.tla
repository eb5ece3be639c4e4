------------------------------ MODULE Schedule ------------------------------
(***************************************************************************)
(* Threads switching on every pCPU: default_idle, vcpu_thread (as far as   *)
(* scheduling sees it) and schedule(), while any pCPU that executes        *)
(* hypervisor code sleeps, wakes or kicks the vCPU thread of any other.    *)
(*                                                                         *)
(* pc[p] is the place of pCPU p:                                           *)
(*   boot        before run_idle_thread                                    *)
(*   idle        top of the loop of default_idle                           *)
(*   switch_out  in schedule() after the lock was released, before         *)
(*               context_switch_out of the vCPU                            *)
(*   switch_in   the same, before context_switch_in of the vCPU            *)
(*   v_top       top of the loop of vcpu_thread                            *)
(*   v_pend      after the need_reschedule test, root mode                 *)
(*   guest       VMX non-root operation                                    *)
(*   v_exit      after a VM exit or a failure, in a handler                *)
(***************************************************************************)
EXTENDS SchedOps

VARIABLES pc,
          running,   \* acrn_vcpu.running
          started    \* host_sp is a saved context, no longer the first frame

vars == <<schedVars, pc, running, started>>

InVcpuLoop == {"v_top", "v_pend", "guest", "v_exit"}
Places == {"boot", "idle", "switch_out", "switch_in"} \cup InVcpuLoop

Init == /\ SchedInit
        /\ pc = [p \in Pcpu |-> "boot"]
        /\ running = [p \in Pcpu |-> FALSE]
        /\ started = [p \in Pcpu |-> FALSE]

Goto(p, l) == pc' = [pc EXCEPT ![p] = l]

-----------------------------------------------------------------------------
\* Where sleep_thread, wake_thread and kick_thread are called from: launch_vms,
\* the idle loop's shutdown_vm and the VM-exit handlers.
CanRequest(q) == pc[q] \in {"boot", "idle", "v_exit"}

Sleep(q, p) == CanRequest(q) /\ sleep_thread(q, p) /\ UNCHANGED <<pc, running, started>>
Wake(q, p)  == CanRequest(q) /\ wake_thread(q, p)  /\ UNCHANGED <<pc, running, started>>
Kick(q, p)  == CanRequest(q) /\ kick_thread(q, p)  /\ UNCHANGED <<pc, running, started>>

RunIdleThread(p) == /\ pc[p] = "boot"
                    /\ run_thread_idle(p)
                    /\ Goto(p, "idle")
                    /\ UNCHANGED <<running, started>>

\* Where schedule() leaves the pCPU when the lock is released: with prev = next
\* it returns to its caller, otherwise it starts the switch.
AfterPick(prev, next) ==
  IF prev = next THEN IF prev = "idle" THEN "idle" ELSE "v_pend"
                 ELSE IF prev = "idle" THEN "switch_in" ELSE "switch_out"

\* need_reschedule is true and schedule() is called, by default_idle or by
\* vcpu_thread; it picks under the lock.
DoSchedule(p) ==
  /\ pc[p] \in {"idle", "v_top"}
  /\ need_resched[p]
  /\ schedule_pick(p)
  /\ Goto(p, AfterPick(curr_obj[p], pick_next(p)))
  /\ UNCHANGED <<running, started>>

\* context_switch_out of the vCPU, then arch_switch_to saves its context and
\* resumes the idle loop.
SwitchOut(p) ==
  /\ pc[p] = "switch_out"
  /\ running' = [running EXCEPT ![p] = FALSE]
  /\ started' = [started EXCEPT ![p] = TRUE]
  /\ Goto(p, "idle")
  /\ UNCHANGED schedVars

\* context_switch_in of the vCPU, then arch_switch_to: the first time to the
\* entry of vcpu_thread, later to the return of its schedule() call.
SwitchIn(p) ==
  /\ pc[p] = "switch_in"
  /\ running' = [running EXCEPT ![p] = TRUE]
  /\ Goto(p, IF started[p] THEN "v_pend" ELSE "v_top")
  /\ UNCHANGED <<schedVars, started>>

\* Mutation of TestReschedule: the test at the top of the loop is dropped.
NoTestReschedule(p) == /\ pc[p] = "v_top"
                       /\ Goto(p, "v_pend")
                       /\ UNCHANGED <<schedVars, running, started>>

\* need_reschedule is false at the top of vcpu_thread's loop.
TestReschedule(p) == /\ pc[p] = "v_top"
                     /\ ~need_resched[p]
                     /\ Goto(p, "v_pend")
                     /\ UNCHANGED <<schedVars, running, started>>

\* acrn_handle_pending_request and run_vcpu succeed, or one of them fails and
\* the error path (fatal_error_shutdown_vm) runs.
VmEntry(p) == /\ pc[p] = "v_pend"
              /\ \E l \in {"guest", "v_exit"} : Goto(p, l)
              /\ UNCHANGED <<schedVars, running, started>>

\* A latched INIT forces the exit EXIT_REASON_INIT_SIGNAL and is consumed.
InitExit(p) == /\ pc[p] = "guest"
               /\ init_sig[p]
               /\ init_sig' = [init_sig EXCEPT ![p] = FALSE]
               /\ Goto(p, "v_exit")
               /\ UNCHANGED <<status, noop_obj, curr_obj, need_resched, running, started>>

\* Any other exit; the guest need never cause one.
OtherExit(p) == /\ pc[p] = "guest"
                /\ Goto(p, "v_exit")
                /\ UNCHANGED <<schedVars, running, started>>

\* The handler is done: vcpu_thread goes round its loop.
HandlerDone(p) == /\ pc[p] = "v_exit"
                  /\ Goto(p, "v_top")
                  /\ UNCHANGED <<schedVars, running, started>>

\* What pCPU p does by itself.
Step(p) == \/ RunIdleThread(p) \/ DoSchedule(p) \/ SwitchOut(p) \/ SwitchIn(p)
           \/ TestReschedule(p) \/ VmEntry(p) \/ InitExit(p) \/ HandlerDone(p)

Next == \/ \E p \in Pcpu : Step(p) \/ OtherExit(p)
        \/ \E q, p \in Pcpu : Sleep(q, p) \/ Wake(q, p) \/ Kick(q, p)

Spec == Init /\ [][Next]_vars

(***************************************************************************)
(* Every pCPU keeps executing.  A guest is never obliged to exit: only the *)
(* hardware's delivery of a latched INIT is fair.                          *)
(***************************************************************************)
FairSpec == Spec /\ \A p \in Pcpu : WF_vars(Step(p))

-----------------------------------------------------------------------------
\* Types; and schedule() always finds a current thread to switch from, the
\* precondition its comment states.
TypeOK == /\ SchedTypeOK
          /\ pc \in [Pcpu -> Places]
          /\ running \in [Pcpu -> BOOLEAN]
          /\ started \in [Pcpu -> BOOLEAN]
          /\ \A p \in Pcpu : curr_obj[p] = NULL <=> pc[p] = "boot"

\* The thread schedule() would pick and the statuses agree: sched_noop keeps the
\* vCPU thread exactly while it is not BLOCKED.
PolicyMatchesStatus ==
  \A p \in Pcpu : noop_obj[p] = "vcpu" <=> status[p]["vcpu"] # BLOCKED

\* A RUNNING thread is the current one of its pCPU, so at most one is RUNNING.
RunningIsCurrent ==
  \A p \in Pcpu : \A t \in Thread : status[p][t] = RUNNING => curr_obj[p] = t

\* No wake-up and no sleep is lost: whenever the current thread is not the one
\* schedule() would pick, NEED_RESCHEDULE is set.
NoLostRequest ==
  \A p \in Pcpu : /\ pc[p] # "boot" /\ curr_obj[p] # pick_next(p) => need_resched[p]
                  /\ pc[p] = "boot" /\ noop_obj[p] = "vcpu" => need_resched[p]

\* A request that vcpu_thread's test came too early to see finds an INIT latched,
\* so VM entry is followed by an exit at once: the flag-then-INIT order of
\* make_reschedule_request closes the window between test and VM entry.
RequestInterruptsGuest ==
  \A p \in Pcpu : need_resched[p] /\ pc[p] \in {"switch_in", "v_pend", "guest"}
                    => init_sig[p] \/ (pc[p] = "switch_in" /\ ~started[p])

\* acrn_vcpu.running is set exactly while the vCPU's own code can be executing
\* on its pCPU, and that code executes only as the current thread.
RunningFlagExact ==
  \A p \in Pcpu : /\ running[p] <=> pc[p] \in InVcpuLoop \cup {"switch_out"}
                  /\ pc[p] \in InVcpuLoop \cup {"switch_in"} => curr_obj[p] = "vcpu"
                  /\ pc[p] \in {"idle", "switch_out"} => curr_obj[p] = "idle"

\* Every reschedule request is served, even when the guest never exits by itself;
\* and pause_vcpu's wait ends: a vCPU thread that stays asleep leaves its pCPU.
RescheduleServed ==
  \A p \in Pcpu : /\ need_resched[p] ~> ~need_resched[p]
                  /\ status[p]["vcpu"] = BLOCKED /\ running[p]
                       ~> ~running[p] \/ status[p]["vcpu"] # BLOCKED
=============================================================================
