------------------------------ MODULE SchedOps ------------------------------
(***************************************************************************)
(* The scheduling framework of common/schedule.c with the policy of        *)
(* common/sched_noop.c: the state of every sched_control block and the     *)
(* critical sections that work on it.                                      *)
(*                                                                         *)
(* In this scenario each physical CPU owns an idle thread and at most one  *)
(* vCPU thread, so a thread is named by its pCPU and its kind.  Every      *)
(* operator below is the body of one critical section of that pCPU's       *)
(* scheduler_lock (TicketLock), hence one atomic step; `me` is the pCPU    *)
(* that executes it and p the pCPU whose thread it is about.               *)
(***************************************************************************)
EXTENDS Naturals

CONSTANT Pcpu

VARIABLES status,        \* thread_object.status, per pCPU and kind of thread
          noop_obj,      \* sched_noop_control.noop_thread_obj
          curr_obj,      \* sched_control.curr_obj
          need_resched,  \* bit NEED_RESCHEDULE of sched_control.flags
          init_sig       \* an INIT IPI is latched by this pCPU

schedVars == <<status, noop_obj, curr_obj, need_resched, init_sig>>

Thread == {"idle", "vcpu"}
NULL   == "NULL"
BLOCKED  == "THREAD_STS_BLOCKED"
RUNNABLE == "THREAD_STS_RUNNABLE"
RUNNING  == "THREAD_STS_RUNNING"
States   == {BLOCKED, RUNNABLE, RUNNING}

SchedTypeOK ==
  /\ status \in [Pcpu -> [Thread -> States]]
  /\ noop_obj \in [Pcpu -> {NULL, "vcpu"}]
  /\ curr_obj \in [Pcpu -> Thread \cup {NULL}]
  /\ need_resched \in [Pcpu -> BOOLEAN]
  /\ init_sig \in [Pcpu -> BOOLEAN]

\* init_sched on every pCPU; prepare_vcpu -> init_thread_data has made the vCPU
\* thread BLOCKED, and a zeroed idle thread_object reads as BLOCKED as well.
SchedInit ==
  /\ status = [p \in Pcpu |-> [t \in Thread |-> BLOCKED]]
  /\ noop_obj = [p \in Pcpu |-> NULL]
  /\ curr_obj = [p \in Pcpu |-> NULL]
  /\ need_resched = [p \in Pcpu |-> FALSE]
  /\ init_sig = [p \in Pcpu |-> FALSE]

-----------------------------------------------------------------------------
\* send_single_init: the IPI is latched until p is in VMX non-root operation.
send_single_init(p) == init_sig' = [init_sig EXCEPT ![p] = TRUE]

\* Mutation of make_reschedule_request: the target is not notified.
reschedule_without_init(me, p) ==
  /\ need_resched' = [need_resched EXCEPT ![p] = TRUE]
  /\ UNCHANGED init_sig

\* First the flag, then the notification: p is told only if it is another pCPU.
make_reschedule_request(me, p) ==
  /\ need_resched' = [need_resched EXCEPT ![p] = TRUE]
  /\ IF me # p THEN send_single_init(p) ELSE UNCHANGED init_sig

\* sched_noop_pick_next.
pick_next(p) == IF noop_obj[p] # NULL THEN noop_obj[p] ELSE "idle"

\* Mutation of sleep_thread: the status is tested after it was overwritten.
sleep_tests_late(me, p) ==
  /\ noop_obj' = [noop_obj EXCEPT ![p] = NULL]
  /\ status' = [status EXCEPT ![p]["vcpu"] = BLOCKED]
  /\ UNCHANGED <<curr_obj, need_resched, init_sig>>

\* sleep_thread: sched_noop_sleep drops the thread, a running one is asked to
\* reschedule, and the thread is BLOCKED whatever it was.
sleep_thread(me, p) ==
  /\ noop_obj' = [noop_obj EXCEPT ![p] = NULL]
  /\ status' = [status EXCEPT ![p]["vcpu"] = BLOCKED]
  /\ IF status[p]["vcpu"] = RUNNING THEN make_reschedule_request(me, p)
                                    ELSE UNCHANGED <<need_resched, init_sig>>
  /\ UNCHANGED curr_obj

\* wake_thread: only a BLOCKED thread is handed to sched_noop_wake.
wake_thread(me, p) ==
  IF status[p]["vcpu"] = BLOCKED
  THEN /\ noop_obj' = [noop_obj EXCEPT ![p] = IF @ = NULL THEN "vcpu" ELSE @]
       /\ status' = [status EXCEPT ![p]["vcpu"] = RUNNABLE]
       /\ make_reschedule_request(me, p)
       /\ UNCHANGED curr_obj
  ELSE UNCHANGED schedVars

\* kick_thread: a running thread elsewhere is only interrupted, a runnable one
\* gets a reschedule request, a blocked one nothing.
kick_thread(me, p) ==
  /\ \/ /\ status[p]["vcpu"] = RUNNING
        /\ IF me # p THEN send_single_init(p) ELSE UNCHANGED init_sig
        /\ UNCHANGED need_resched
     \/ /\ status[p]["vcpu"] = RUNNABLE
        /\ make_reschedule_request(me, p)
     \/ /\ status[p]["vcpu"] = BLOCKED
        /\ UNCHANGED <<need_resched, init_sig>>
  /\ UNCHANGED <<status, noop_obj, curr_obj>>

\* schedule, the part under scheduler_lock.
schedule_pick(p) ==
  LET prev == curr_obj[p]
      next == pick_next(p)
  IN  /\ status' = [status EXCEPT ![p] = [t \in Thread |->
                      IF t = next THEN RUNNING
                      ELSE IF t = prev /\ @[t] = RUNNING THEN RUNNABLE ELSE @[t]]]
      /\ curr_obj' = [curr_obj EXCEPT ![p] = next]
      /\ need_resched' = [need_resched EXCEPT ![p] = FALSE]
      /\ UNCHANGED <<noop_obj, init_sig>>

\* run_idle_thread -> run_thread: init_thread_data, then the idle thread becomes
\* the current one.  Requests made to this pCPU before that are kept.
run_thread_idle(p) ==
  /\ status' = [status EXCEPT ![p]["idle"] = RUNNING]
  /\ curr_obj' = [curr_obj EXCEPT ![p] = "idle"]
  /\ UNCHANGED <<noop_obj, need_resched, init_sig>>
=============================================================================
