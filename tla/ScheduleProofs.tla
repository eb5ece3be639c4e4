--------------------------- MODULE ScheduleProofs ---------------------------
(***************************************************************************)
(* Proofs about the scheduler, for every set of pCPUs, and about the       *)
(* ticket spinlock that makes each of its operations one step, for every   *)
(* finite set of processors and every counter width that can number them.  *)
(*                                                                         *)
(* The invariants that Schedule.cfg checks on two pCPUs are, together with *)
(* StaleStatusFlagged, inductive; TicketInv is for the lock.               *)
(***************************************************************************)
EXTENDS Schedule, TicketLock, FiniteSetTheorems, TLAPS

\* A current vCPU thread whose status is no longer RUNNING has a request
\* pending.  It holds the invariant together when a thread is put to sleep and
\* woken again before its pCPU ever called schedule(): a second sleep_thread
\* finds it RUNNABLE, makes no request, and relies on the first one.
StaleStatusFlagged ==
  \A p \in Pcpu : curr_obj[p] = "vcpu" /\ status[p]["vcpu"] # RUNNING => need_resched[p]

SchedInv == /\ TypeOK
            /\ PolicyMatchesStatus
            /\ RunningIsCurrent
            /\ NoLostRequest
            /\ RequestInterruptsGuest
            /\ RunningFlagExact
            /\ StaleStatusFlagged

LEMMA InitSchedInv == Init => SchedInv
  BY DEF Init, SchedInit, SchedInv, TypeOK, SchedTypeOK, PolicyMatchesStatus,
         RunningIsCurrent, NoLostRequest, RequestInterruptsGuest, RunningFlagExact,
         StaleStatusFlagged, InVcpuLoop, Places, Thread, NULL, States, BLOCKED,
         RUNNABLE, RUNNING, pick_next

-----------------------------------------------------------------------------
\* Every step keeps the types, and curr_obj NULL only before run_idle_thread.
LEMMA TypeStep == TypeOK /\ [Next]_vars => TypeOK'
<1> SUFFICES ASSUME TypeOK, [Next]_vars PROVE TypeOK'
  OBVIOUS
<1> USE DEF TypeOK, SchedTypeOK, Thread, NULL, States, BLOCKED, RUNNABLE, RUNNING,
            Places, InVcpuLoop
<1>1. ASSUME NEW q \in Pcpu, NEW p \in Pcpu, Sleep(q, p) PROVE TypeOK'
  BY <1>1 DEF Sleep, sleep_thread, make_reschedule_request, send_single_init
<1>2. ASSUME NEW q \in Pcpu, NEW p \in Pcpu, Wake(q, p) PROVE TypeOK'
  <2>1. status' \in [Pcpu -> [Thread -> States]]
    BY <1>2 DEF Wake, wake_thread, schedVars
  <2>2. need_resched' \in [Pcpu -> BOOLEAN] /\ init_sig' \in [Pcpu -> BOOLEAN]
    BY <1>2 DEF Wake, wake_thread, make_reschedule_request, send_single_init, schedVars
  <2>3. noop_obj' \in [Pcpu -> {NULL, "vcpu"}]
    BY <1>2 DEF Wake, wake_thread, schedVars
  <2> QED BY <1>2, <2>1, <2>2, <2>3 DEF Wake, wake_thread, schedVars
<1>3. ASSUME NEW q \in Pcpu, NEW p \in Pcpu, Kick(q, p) PROVE TypeOK'
  BY <1>3 DEF Kick, kick_thread, make_reschedule_request, send_single_init
<1>4. ASSUME NEW p \in Pcpu, RunIdleThread(p) PROVE TypeOK'
  BY <1>4 DEF RunIdleThread, run_thread_idle, Goto
<1>5. ASSUME NEW p \in Pcpu, DoSchedule(p) PROVE TypeOK'
  BY <1>5 DEF DoSchedule, schedule_pick, AfterPick, pick_next, Goto
<1>6. ASSUME NEW p \in Pcpu, SwitchOut(p) PROVE TypeOK'
  BY <1>6 DEF SwitchOut, Goto, schedVars
<1>7. ASSUME NEW p \in Pcpu, SwitchIn(p) PROVE TypeOK'
  BY <1>7 DEF SwitchIn, Goto, schedVars
<1>8. ASSUME NEW p \in Pcpu, TestReschedule(p) PROVE TypeOK'
  BY <1>8 DEF TestReschedule, Goto, schedVars
<1>9. ASSUME NEW p \in Pcpu, VmEntry(p) PROVE TypeOK'
  BY <1>9 DEF VmEntry, Goto, schedVars
<1>10. ASSUME NEW p \in Pcpu, InitExit(p) PROVE TypeOK'
  BY <1>10 DEF InitExit, Goto
<1>11. ASSUME NEW p \in Pcpu, OtherExit(p) PROVE TypeOK'
  BY <1>11 DEF OtherExit, Goto, schedVars
<1>12. ASSUME NEW p \in Pcpu, HandlerDone(p) PROVE TypeOK'
  BY <1>12 DEF HandlerDone, Goto, schedVars
<1>13. CASE UNCHANGED vars
  BY <1>13 DEF vars, schedVars
<1> QED BY <1>1, <1>2, <1>3, <1>4, <1>5, <1>6, <1>7, <1>8, <1>9, <1>10, <1>11, <1>12, <1>13 DEF Next, Step

\* wake_thread keeps the scheduling invariants: it changes p's block only, and
\* leaves the thread RUNNABLE, picked by the policy and with a request pending.
LEMMA WakeStep ==
  ASSUME SchedInv, TypeOK', NEW q \in Pcpu, NEW p \in Pcpu, Wake(q, p)
  PROVE  SchedInv'
<1>1. CASE status[p]["vcpu"] # BLOCKED
  BY <1>1 DEF Wake, wake_thread, schedVars, SchedInv, TypeOK, PolicyMatchesStatus,
      RunningIsCurrent, NoLostRequest, RequestInterruptsGuest, RunningFlagExact,
      StaleStatusFlagged, pick_next
<1>2. CASE status[p]["vcpu"] = BLOCKED
  <2>1. UNCHANGED <<curr_obj, pc, running, started>>
    BY <1>2 DEF Wake, wake_thread
  <2>2. /\ noop_obj'[p] = "vcpu"
        /\ status'[p]["vcpu"] = RUNNABLE
        /\ status'[p]["idle"] = status[p]["idle"]
        /\ need_resched'[p]
    BY <1>2 DEF Wake, wake_thread, make_reschedule_request, SchedInv, TypeOK, SchedTypeOK,
        Thread, NULL
  <2>3. \A x \in Pcpu : x # p => /\ noop_obj'[x] = noop_obj[x]
                                 /\ status'[x] = status[x]
                                 /\ need_resched'[x] = need_resched[x]
    BY <1>2 DEF Wake, wake_thread, make_reschedule_request, SchedInv, TypeOK, SchedTypeOK
  <2>4. \A x \in Pcpu : init_sig[x] => init_sig'[x]
    BY <1>2 DEF Wake, wake_thread, make_reschedule_request, send_single_init, SchedInv,
        TypeOK, SchedTypeOK
  <2>5. q # p => init_sig'[p]
    BY <1>2 DEF Wake, wake_thread, make_reschedule_request, send_single_init, SchedInv,
        TypeOK, SchedTypeOK
  <2>6. PolicyMatchesStatus'
    BY <2>2, <2>3 DEF SchedInv, PolicyMatchesStatus, RUNNABLE, BLOCKED
  <2>7. RunningIsCurrent'
    BY <2>1, <2>2, <2>3 DEF SchedInv, RunningIsCurrent, RUNNABLE, RUNNING, Thread
  <2>8. NoLostRequest' /\ StaleStatusFlagged'
    BY <2>1, <2>2, <2>3 DEF SchedInv, NoLostRequest, StaleStatusFlagged, pick_next
  <2>9. RequestInterruptsGuest'
    BY <2>1, <2>2, <2>3, <2>4, <2>5 DEF SchedInv, RequestInterruptsGuest, Wake, CanRequest
  <2>10. RunningFlagExact'
    BY <2>1 DEF SchedInv, RunningFlagExact
  <2> QED BY <2>6, <2>7, <2>8, <2>9, <2>10 DEF SchedInv
<1> QED BY <1>1, <1>2

\* Every step keeps the scheduling invariants, given the types before and after.
LEMMA SchedStep == SchedInv /\ TypeOK' /\ [Next]_vars => SchedInv'
<1> SUFFICES ASSUME SchedInv, TypeOK', [Next]_vars PROVE SchedInv'
  OBVIOUS
<1> USE DEF SchedInv, TypeOK, SchedTypeOK, Thread, NULL, States, BLOCKED, RUNNABLE, RUNNING,
            Places, InVcpuLoop, pick_next, PolicyMatchesStatus, RunningIsCurrent,
            NoLostRequest, RequestInterruptsGuest, RunningFlagExact, StaleStatusFlagged
<1>1. ASSUME NEW q \in Pcpu, NEW p \in Pcpu, Sleep(q, p) PROVE SchedInv'
  BY <1>1 DEF Sleep, sleep_thread, make_reschedule_request, send_single_init, CanRequest
<1>2. ASSUME NEW q \in Pcpu, NEW p \in Pcpu, Wake(q, p) PROVE SchedInv'
  BY <1>2, WakeStep
<1>3. ASSUME NEW q \in Pcpu, NEW p \in Pcpu, Kick(q, p) PROVE SchedInv'
  BY <1>3 DEF Kick, kick_thread, make_reschedule_request, send_single_init, CanRequest
<1>4. ASSUME NEW p \in Pcpu, RunIdleThread(p) PROVE SchedInv'
  BY <1>4 DEF RunIdleThread, run_thread_idle, Goto
<1>5. ASSUME NEW p \in Pcpu, DoSchedule(p) PROVE SchedInv'
  BY <1>5 DEF DoSchedule, schedule_pick, AfterPick, pick_next, Goto
<1>6. ASSUME NEW p \in Pcpu, SwitchOut(p) PROVE SchedInv'
  BY <1>6 DEF SwitchOut, Goto, schedVars
<1>7. ASSUME NEW p \in Pcpu, SwitchIn(p) PROVE SchedInv'
  BY <1>7 DEF SwitchIn, Goto, schedVars
<1>8. ASSUME NEW p \in Pcpu, TestReschedule(p) PROVE SchedInv'
  BY <1>8 DEF TestReschedule, Goto, schedVars
<1>9. ASSUME NEW p \in Pcpu, VmEntry(p) PROVE SchedInv'
  BY <1>9 DEF VmEntry, Goto, schedVars
<1>10. ASSUME NEW p \in Pcpu, InitExit(p) PROVE SchedInv'
  BY <1>10 DEF InitExit, Goto
<1>11. ASSUME NEW p \in Pcpu, OtherExit(p) PROVE SchedInv'
  BY <1>11 DEF OtherExit, Goto, schedVars
<1>12. ASSUME NEW p \in Pcpu, HandlerDone(p) PROVE SchedInv'
  BY <1>12 DEF HandlerDone, Goto, schedVars
<1>13. CASE UNCHANGED vars
  BY <1>13 DEF vars, schedVars
<1> QED BY <1>1, <1>2, <1>3, <1>4, <1>5, <1>6, <1>7, <1>8, <1>9, <1>10, <1>11, <1>12, <1>13 DEF Next, Step

\* schedule(), sleep_thread, wake_thread and kick_thread keep the scheduler of
\* every pCPU consistent, in every interleaving and for any number of pCPUs.
THEOREM ScheduleInvariance == Spec => []SchedInv
<1>1. SchedInv /\ [Next]_vars => SchedInv'
  BY TypeStep, SchedStep DEF SchedInv
<1> QED BY <1>1, InitSchedInv, PTL DEF Spec

\* No sleep_thread or wake_thread is forgotten by the pCPU it is meant for.
THEOREM ScheduleNoLostRequest == Spec => []NoLostRequest
  BY ScheduleInvariance, PTL DEF SchedInv

\* A request that arrives after vcpu_thread's test cannot be slept through in
\* the guest: an INIT is latched for it.
THEOREM ScheduleRequestInterruptsGuest == Spec => []RequestInterruptsGuest
  BY ScheduleInvariance, PTL DEF SchedInv

\* acrn_vcpu.running tells exactly when the vCPU's code is on its pCPU.
THEOREM ScheduleRunningFlagExact == Spec => []RunningFlagExact
  BY ScheduleInvariance, PTL DEF SchedInv

-----------------------------------------------------------------------------
(***************************************************************************)
(* The ticket lock.                                                        *)
(***************************************************************************)
\* Number of live tickets.
Live == Cardinality(Active)

\* head is Live tickets past tail, modulo the wrap.
HeadPos == head = IF tail + Live < Modulus THEN tail + Live
                                           ELSE tail + Live - Modulus

\* Live tickets are distinct, they are the Live ones from tail on, and the
\* processor inside the section holds the one that is being served.
TicketInv == /\ LockTypeOK
             /\ HeadPos
             /\ \A p, q \in Active : ticket[p] = ticket[q] => p = q
             /\ \A p \in Active : Ahead(ticket[p]) < Live
             /\ \A p \in Proc : at[p] = "in" => ticket[p] = tail

\* The increment of a counter never leaves its word, and wraps only at the top.
LEMMA IncWraps ==
  ASSUME NEW w \in Word
  PROVE  Inc(w) = IF w = Modulus - 1 THEN 0 ELSE w + 1
<1>1. CASE w = Modulus - 1
  <2>1. (w + 1) = Modulus
    BY <1>1, LockAssumption DEF Word
  <2>2. Modulus % Modulus = 0
    BY LockAssumption, Z3
  <2> QED BY <1>1, <2>1, <2>2 DEF Inc
<1>2. CASE w # Modulus - 1
  <2>1. w + 1 \in 0 .. (Modulus - 1)
    BY <1>2, LockAssumption DEF Word
  <2>2. \A a \in 0 .. (Modulus - 1) : a % Modulus = a
    BY LockAssumption, Z3
  <2> QED BY <1>2, <2>1, <2>2 DEF Inc
<1> QED BY <1>1, <1>2

\* There are at most Modulus live tickets, so the counters cannot lap them.
LEMMA LiveBound ==
  /\ IsFiniteSet(Active)
  /\ Live \in Nat
  /\ Live <= Modulus
  /\ \A p \in Proc : p \notin Active => Live < Modulus
<1>1. Active \subseteq Proc
  BY DEF Active
<1>2. IsFiniteSet(Active) /\ Live <= Cardinality(Proc) /\ Live \in Nat
  BY <1>1, FS_Subset, FS_CardinalityType, LockAssumption DEF Live
<1>3. ASSUME NEW p \in Proc, p \notin Active
      PROVE  Live < Modulus
  <2>1. Cardinality(Active) # Cardinality(Proc)
    BY <1>1, <1>3, FS_Subset, LockAssumption
  <2> QED BY <1>2, <2>1, FS_CardinalityType, LockAssumption DEF Live
<1> QED BY <1>2, <1>3, FS_CardinalityType, LockAssumption

LEMMA InitTicketInv == LockInit => TicketInv
<1> SUFFICES ASSUME LockInit PROVE TicketInv
  OBVIOUS
<1>1. LockTypeOK
  BY LockAssumption DEF LockInit, LockTypeOK, Word
<1>2. Active = {}
  BY DEF LockInit, Active
<1>3. Live = 0
  BY <1>2, FS_EmptySet DEF Live
<1> QED BY <1>1, <1>2, <1>3, LockAssumption DEF LockInit, TicketInv, HeadPos, Active

\* Taking a ticket adds the farthest one; it differs from all live ones.
LEMMA TakeTicketInv ==
  ASSUME TicketInv, NEW p \in Proc, TakeTicket(p)
  PROVE  TicketInv'
<1> USE LockAssumption DEF TicketInv, TakeTicket
<1>1. Active' = Active \cup {p} /\ p \notin Active
  BY DEF Active, LockTypeOK
<1>2. Live' = Live + 1
  BY <1>1, LiveBound, FS_AddElement DEF Live
<1>3. head \in Word /\ head' = IF head = Modulus - 1 THEN 0 ELSE head + 1
  BY IncWraps DEF LockTypeOK
<1>4. Live \in Nat /\ Live < Modulus
  BY <1>1, LiveBound
<1>5. LockTypeOK'
  BY <1>3 DEF LockTypeOK, Word
<1>6. HeadPos'
  BY <1>2, <1>3, <1>4 DEF HeadPos, LockTypeOK, Word
<1>7. Ahead(head) = Live
  BY <1>4 DEF Ahead, HeadPos, LockTypeOK, Word
<1>8. \A q \in Active : ticket'[q] = ticket[q] /\ ticket'[q] # head
  BY <1>1, <1>7, <1>4 DEF LockTypeOK, Active
<1>9. ticket'[p] = head
  BY DEF LockTypeOK
<1>10. (\A r, q \in Active : ticket[r] = ticket[q] => r = q)'
  BY <1>1, <1>8, <1>9
<1>11. (\A q \in Active : Ahead(ticket[q]) < Live)'
  <2>1. \A q \in Active : Ahead(ticket[q]) \in Int
    BY DEF Ahead, LockTypeOK, Word, Active
  <2>2. \A w : Ahead(w)' = Ahead(w)
    BY DEF Ahead
  <2> QED BY <1>1, <1>2, <1>4, <1>7, <1>8, <1>9, <2>1, <2>2
<1>12. (\A q \in Proc : at[q] = "in" => ticket[q] = tail)'
  BY <1>9 DEF LockTypeOK
<1> QED BY <1>5, <1>6, <1>10, <1>11, <1>12

\* Entering changes neither counters nor tickets.
LEMMA EnterInv ==
  ASSUME TicketInv, NEW p \in Proc, Enter(p)
  PROVE  TicketInv'
<1> USE DEF TicketInv, Enter
<1>1. Active' = Active
  BY DEF Active, LockTypeOK
<1>2. Live' = Live
  BY <1>1 DEF Live
<1>3. \A w : Ahead(w)' = Ahead(w)
  BY DEF Ahead
<1>4. LockTypeOK' /\ HeadPos'
  BY <1>2 DEF LockTypeOK, HeadPos
<1> QED BY <1>1, <1>2, <1>3, <1>4 DEF LockTypeOK

\* Releasing retires the ticket at tail: every other live one moves one closer.
LEMMA LeaveInv ==
  ASSUME TicketInv, NEW p \in Proc, Leave(p)
  PROVE  TicketInv'
<1> USE LockAssumption DEF TicketInv, Leave
<1>1. p \in Active /\ Active' = Active \ {p}
  BY DEF Active, LockTypeOK
<1>2. Live' = Live - 1 /\ Live \in Nat /\ Live <= Modulus
  BY <1>1, LiveBound, FS_RemoveElement DEF Live
<1>3. tail \in Word /\ tail' = IF tail = Modulus - 1 THEN 0 ELSE tail + 1
  BY IncWraps DEF LockTypeOK
<1>4. LockTypeOK'
  BY <1>3 DEF LockTypeOK, Word
<1>5. Live > 0
  <2>1. Ahead(ticket[p]) = 0
    BY <1>3 DEF Ahead, Word
  <2> QED BY <1>1, <1>2, <2>1
<1>6. HeadPos'
  BY <1>2, <1>3, <1>5 DEF HeadPos, LockTypeOK, Word
<1>7. ASSUME NEW q \in Active, q # p
      PROVE  Ahead(ticket[q])' = Ahead(ticket[q]) - 1
  <2>1. ticket[q] # tail /\ ticket[q] \in Word
    BY <1>1, <1>7 DEF LockTypeOK, Active
  <2> QED BY <1>3, <2>1 DEF Ahead, Word
<1>8. (\A q \in Active : Ahead(ticket[q]) < Live)'
  <2>1. \A q \in Active : Ahead(ticket[q]) \in Int
    BY DEF Ahead, LockTypeOK, Word, Active
  <2> QED BY <1>1, <1>2, <1>7, <2>1
<1>9. (\A q \in Proc : at[q] = "in" => ticket[q] = tail)'
  BY <1>1 DEF LockTypeOK, Active
<1> QED BY <1>1, <1>4, <1>6, <1>8, <1>9

\* The counters and tickets of spinlock.h stay in the shape TicketInv
\* describes, whatever the number of processors and the counter width.
THEOREM TicketInvariance == LockSpec => []TicketInv
<1>1. TicketInv /\ [LockNext]_lockVars => TicketInv'
  <2> SUFFICES ASSUME TicketInv, [LockNext]_lockVars PROVE TicketInv'
    OBVIOUS
  <2>1. CASE UNCHANGED lockVars
    BY <2>1 DEF lockVars, TicketInv, LockTypeOK, HeadPos, Live, Active, Ahead
  <2>2. ASSUME NEW p \in Proc, TakeTicket(p) PROVE TicketInv'
    BY <2>2, TakeTicketInv
  <2>3. ASSUME NEW p \in Proc, Enter(p) PROVE TicketInv'
    BY <2>3, EnterInv
  <2>4. ASSUME NEW p \in Proc, Leave(p) PROVE TicketInv'
    BY <2>4, LeaveInv
  <2> QED BY <2>1, <2>2, <2>3, <2>4 DEF LockNext
<1> QED BY <1>1, InitTicketInv, PTL DEF LockSpec

\* No two processors are ever inside the section that spinlock_obtain and
\* spinlock_release bracket, although both counters wrap.
THEOREM TicketMutualExclusion == LockSpec => []MutualExclusion
<1>1. TicketInv => MutualExclusion
  BY DEF TicketInv, MutualExclusion, Active
<1> QED BY <1>1, TicketInvariance, PTL

\* spinlock_obtain serves tickets in the order they were taken, also across
\* the wrap: the processor let in has the live ticket nearest to tail.
THEOREM TicketFifo == LockSpec => Fifo
<1> DEFINE Served(p) == \A q \in Active \ {p} : Ahead(ticket[p]) < Ahead(ticket[q])
<1>1. ASSUME TicketInv, [LockNext]_lockVars, NEW p \in Proc, at[p] = "spin", at'[p] = "in"
      PROVE  Served(p)
  <2>1. Enter(p)
    BY <1>1 DEF LockNext, lockVars, TakeTicket, Enter, Leave, TicketInv, LockTypeOK
  <2>2. Ahead(ticket[p]) = 0
    BY <1>1, <2>1, LockAssumption DEF Ahead, Enter, TicketInv, LockTypeOK, Word
  <2>3. p \in Active
    BY <1>1 DEF Active
  <2>4. ASSUME NEW q \in Active \ {p}
        PROVE  Ahead(ticket[q]) > 0
    <3>1. ticket[q] \in Word /\ ticket[q] # tail
      BY <1>1, <2>1, <2>3 DEF Active, Enter, TicketInv, LockTypeOK
    <3> QED BY <1>1, <3>1, LockAssumption DEF Ahead, TicketInv, LockTypeOK, Word
  <2> QED BY <2>2, <2>4
<1>2. TicketInv /\ [LockNext]_lockVars
        => [\A p \in Proc : at[p] = "spin" /\ at'[p] = "in" => Served(p)]_lockVars
  BY <1>1
<1> QED BY <1>2, TicketInvariance, PTL DEF LockSpec, Fifo

-----------------------------------------------------------------------------
\* With at most one processor inside, Holder is that processor.
LEMMA HolderIsInside ==
  ASSUME MutualExclusion, LockAssumption
  PROVE  /\ \A p \in Proc : at[p] = "in" => Holder = p
         /\ \A p \in Proc : Holder = p => at[p] = "in"
         /\ (\A p \in Proc : at[p] # "in") => Holder = NoOwner
<1>1. ASSUME NEW p \in Proc, at[p] = "in" PROVE Holder = p
  <2> DEFINE c == CHOOSE q \in Proc : at[q] = "in"
  <2>1. c \in Proc /\ at[c] = "in"
    BY <1>1
  <2>2. c = p
    BY <1>1, <2>1 DEF MutualExclusion
  <2> QED BY <1>1, <2>2 DEF Holder
<1>2. (\A p \in Proc : at[p] # "in") => Holder = NoOwner
  BY DEF Holder
<1>3. ASSUME NEW p \in Proc, Holder = p PROVE at[p] = "in"
  BY <1>1, <1>2, <1>3, LockAssumption
<1> QED BY <1>1, <1>2, <1>3

\* The ticket lock implements the lock its users assume: a step of
\* spinlock_obtain or spinlock_release is a step of Mutex.
THEOREM TicketImplementsMutex == LockSpec => ImplementsMutex
<1> DEFINE Spinning == {p \in Proc : at[p] = "spin"}
<1>1. LockInit => Abstract!Init
  BY DEF LockInit, Abstract!Init, Holder
<1>2. ASSUME LockTypeOK, MutualExclusion, MutualExclusion', [LockNext]_lockVars
      PROVE  [Abstract!Next]_(Abstract!vars)
  <2> USE <1>2, LockAssumption
  <2>1. CASE UNCHANGED lockVars
    BY <2>1 DEF lockVars, Abstract!vars, Holder
  <2>2. ASSUME NEW p \in Proc, TakeTicket(p)
        PROVE  Abstract!Ask(p)
    <3>1. Spinning' = Spinning \cup {p} /\ p \notin Spinning
      BY <2>2 DEF TakeTicket, LockTypeOK
    <3>2. \A q \in Proc : at'[q] = "in" <=> at[q] = "in"
      BY <2>2 DEF TakeTicket, LockTypeOK
    <3>3. Holder' = Holder
      <4>1. CASE \E q \in Proc : at[q] = "in"
        <5>1. PICK q \in Proc : at[q] = "in"
          BY <4>1
        <5>2. Holder = q
          BY <5>1, HolderIsInside
        <5>3. Holder' = q
          BY <5>1, <3>2 DEF Holder, MutualExclusion
        <5> QED BY <5>2, <5>3
      <4>2. CASE \A q \in Proc : at[q] # "in"
        BY <4>2, <3>2 DEF Holder
      <4> QED BY <4>1, <4>2
    <3>4. Holder # p
      BY <2>2, HolderIsInside DEF TakeTicket
    <3> QED BY <3>1, <3>3, <3>4 DEF Abstract!Ask
  <2>3. ASSUME NEW p \in Proc, Enter(p)
        PROVE  Abstract!Acquire(p)
    <3>1. Spinning' = Spinning \ {p} /\ p \in Spinning
      BY <2>3 DEF Enter, LockTypeOK
    <3>2. Holder' = p
      <4>1. at'[p] = "in"
        BY <2>3 DEF Enter, LockTypeOK
      <4> QED BY <4>1 DEF Holder, MutualExclusion
    <3>3. \A q \in Proc : at[q] # "in"
      BY <2>3 DEF Enter, LockTypeOK, MutualExclusion
    <3>4. Holder = NoOwner
      BY <3>3, HolderIsInside
    <3> QED BY <3>1, <3>2, <3>4 DEF Abstract!Acquire
  <2>4. ASSUME NEW p \in Proc, Leave(p)
        PROVE  Abstract!Release(p)
    <3>1. Spinning' = Spinning
      BY <2>4 DEF Leave, LockTypeOK
    <3>2. Holder = p
      BY <2>4, HolderIsInside DEF Leave
    <3>3. \A q \in Proc : at'[q] # "in"
      BY <2>4 DEF Leave, LockTypeOK, MutualExclusion
    <3>4. Holder' = NoOwner
      BY <3>3 DEF Holder
    <3> QED BY <3>1, <3>2, <3>4 DEF Abstract!Release
  <2>5. CASE LockNext
    BY <2>5, <2>2, <2>3, <2>4 DEF LockNext, Abstract!Next
  <2> QED BY <2>1, <2>5
<1>3. TicketInv => LockTypeOK
  BY DEF TicketInv
<1> QED BY <1>1, <1>2, <1>3, TicketInvariance, TicketMutualExclusion, PTL
        DEF LockSpec, ImplementsMutex, Abstract!Spec
=============================================================================
