----------------------------- MODULE BootProofs -----------------------------
(***************************************************************************)
(* Proofs about the start-up of the pCPUs, for every number of pCPUs, any  *)
(* of which may be late or never start, and every set of VMs.              *)
(***************************************************************************)
EXTENDS Boot, WellFoundedInduction, TLAPS

\* Where start_pcpus is, and which APs it has already sent a STARTUP to: an AP still
\* in the mask is off, and an AP in the trampoline is the one that the stack symbol
\* names.  No second AP is sent there before the first is RUNNING.
Trampoline ==
  /\ pc[0] \notin BeforeUp \cup {"barrier"}
  /\ \A p \in AP : pc[p] \notin InStart \cup {"start"}
  /\ \A p \in AP : p \in start_mask \/ pc[0] = "start" => pc[p] = "off"
  /\ \A p \in AP : pc[p] = "tramp" => tramp_stack = p
  /\ pc[0] = "loop" => \A p \in AP : pc[p] # "tramp"

\* Which APs are up: those the loop has left behind, unless it was left early.
Progress ==
  /\ boot_state[0] = RUNNING
  /\ \A p \in AP : boot_state[p] = RUNNING => pc[p] \notin BeforeUp
  /\ pc[0] \in {"wait", "fail"} => starting \in AP /\ tramp_stack = starting
  /\ failed <=> pc[0] \in {"release", "panic"}
  /\ pc[0] # "start" /\ ~failed =>
       \A p \in AP : \/ p \in start_mask \/ boot_state[p] = RUNNING
                     \/ p = starting /\ pc[0] \in {"wait", "fail"}
  /\ pc[0] \notin InStart \cup {"start"} /\ ~failed => start_mask = {}

\* A pCPU initialises a thread only of a vCPU that it has still to prepare.
Preparing == \A p \in Pcpu : pc[p] = "thread" => todo[p] # {}

BootInv == TypeOK /\ Preparing /\ OwnStack /\ Trampoline /\ Progress

\* Min returns an element of a set of pCPU numbers.
LEMMA MinOfPcpus ==
  ASSUME NEW S, S \subseteq Pcpu, S # {}
  PROVE  Min(S) \in S
<1>1. S \subseteq Nat
  BY BootAssumption
<1>2. PICK x \in S : \A y \in S : <<y, x>> \notin OpToRel(<, Nat)
  BY <1>1, WFMin, NatLessThanWellFounded
<1>3. \A y \in S : x <= y
  <2> SUFFICES ASSUME NEW y \in S PROVE x <= y
    OBVIOUS
  <2>1. ~(y < x)
    BY <1>1, <1>2 DEF OpToRel
  <2> QED BY <1>1, <2>1
<1> QED BY <1>3 DEF Min

LEMMA InitBootInv == Init => BootInv
<1> SUFFICES ASSUME Init PROVE BootInv
  OBVIOUS
<1> USE BootAssumption DEF Init, AP, InStart, BeforeUp, DEAD, RUNNING
<1>1. TypeOK
  BY DEF TypeOK, Places
<1>2. OwnStack
  BY DEF OwnStack
<1>5. Preparing
  BY DEF Preparing
<1>3. Trampoline
  BY DEF Trampoline
<1>4. Progress
  BY DEF Progress
<1> QED BY <1>1, <1>2, <1>3, <1>4, <1>5 DEF BootInv

\* Every step keeps the types: the steps of start_pcpus, ...
LEMMA StartTypes == TypeOK /\ Preparing /\ StartLoop => TypeOK' /\ Preparing'
<1> SUFFICES ASSUME TypeOK, Preparing, StartLoop PROVE TypeOK' /\ Preparing'
  OBVIOUS
<1> USE BootAssumption DEF TypeOK, Preparing, Goto, schedVars, startVars, AP, Places, InStart, BeforeUp, DEAD, RUNNING
<1>1. CASE StartPcpus
  BY <1>1 DEF StartPcpus
<1>2. CASE StartPcpu
  <2>1. Min(start_mask) \in AP
    BY <1>2, MinOfPcpus DEF StartPcpu
  <2> QED BY <1>2, <2>1 DEF StartPcpu, write_trampoline_stack_sym, send_startup_ipi
<1>3. CASE StartPcpuUp
  BY <1>3 DEF StartPcpuUp
<1>4. CASE StartPcpuTimeout
  BY <1>4 DEF StartPcpuTimeout
<1>5. CASE StartPcpuFail
  BY <1>5 DEF StartPcpuFail
<1>6. CASE Release
  BY <1>6 DEF Release
<1> QED BY <1>1, <1>2, <1>3, <1>4, <1>5, <1>6 DEF StartLoop

\* ... of an AP up to the barrier, and of every pCPU after it.
LEMMA PcpuTypes ==
  ASSUME TypeOK, Preparing, NEW p \in Pcpu, ApEntry(p) \/ ApUp(p) \/ ApSync(p) \/ PcpuPost(p)
  PROVE  TypeOK' /\ Preparing'
<1> USE BootAssumption DEF TypeOK, Preparing, Goto, schedVars, startVars, AP, Places, InStart, BeforeUp, DEAD, RUNNING
<1>1. CASE ApEntry(p)
  BY <1>1 DEF ApEntry
<1>2. CASE ApUp(p)
  BY <1>2 DEF ApUp
<1>3. CASE ApSync(p)
  BY <1>3 DEF ApSync
<1>4. CASE InitSched(p)
  BY <1>4 DEF InitSched
<1>5. CASE LaunchVms(p)
  <2> DEFINE mine == {vm \in VmAffinity : get_vm_bsp_pcpu_id(vm) = p}
  <2>1. UNION mine \subseteq Pcpu
    OBVIOUS
  <2> HIDE DEF mine
  <2>2. todo' = [todo EXCEPT ![p] = UNION mine] /\ (Goto(p, "idle") \/ Goto(p, "vcpu"))
    BY <1>5 DEF LaunchVms, mine
  <2> QED BY <1>5, <2>1, <2>2 DEF LaunchVms
<1>6. CASE PrepareVcpu(p)
  <2>1. Min(todo[p]) \in Pcpu
    BY <1>6, MinOfPcpus DEF PrepareVcpu
  <2> QED BY <1>6, <2>1 DEF PrepareVcpu
<1>7. CASE InitThreadData(p)
  <2>1. Min(todo[p]) \in Pcpu
    BY <1>7, MinOfPcpus DEF InitThreadData
  <2>2. CASE Goto(p, "vcpu") /\ thread' = thread \cup {Min(todo[p])} /\ todo' = [todo EXCEPT ![p] = @ \ {Min(todo[p])}]
    <3>1. thread' \subseteq Pcpu
      BY <2>1, <2>2
    <3> HIDE DEF AP
    <3> QED BY <1>7, <2>2, <3>1 DEF InitThreadData
  <2>3. CASE Goto(p, "fault") /\ UNCHANGED <<thread, todo>>
    BY <1>7, <2>3 DEF InitThreadData
  <2> QED BY <1>7, <2>2, <2>3 DEF InitThreadData
<1>8. CASE StartVm(p)
  BY <1>8 DEF StartVm
<1> QED BY <1>1, <1>2, <1>3, <1>4, <1>5, <1>6, <1>7, <1>8 DEF PcpuPost

-----------------------------------------------------------------------------
\* The rest of the invariant, over start_pcpus ...
LEMMA StartStep == BootInv /\ StartLoop => OwnStack' /\ Trampoline' /\ Progress'
<1> SUFFICES ASSUME BootInv, StartLoop PROVE OwnStack' /\ Trampoline' /\ Progress'
  OBVIOUS
<1> USE BootAssumption DEF BootInv, TypeOK, Goto, AP, InStart, BeforeUp, DEAD, RUNNING
<1>1. CASE StartPcpus
  BY <1>1 DEF StartPcpus, OwnStack, Trampoline, Progress
<1>2. CASE StartPcpu
  <2> DEFINE i == Min(start_mask)
  <2>1. i \in start_mask /\ i \in AP
    BY <1>2, MinOfPcpus DEF StartPcpu
  <2> HIDE DEF i
  <2>2. /\ pc[0] = "loop" /\ start_mask' = start_mask \ {i} /\ starting' = i /\ tramp_stack' = i
        /\ pc' = [pc EXCEPT ![0] = "wait", ![i] = "tramp"]
        /\ UNCHANGED <<boot_state, failed, stack>>
    BY <1>2 DEF StartPcpu, write_trampoline_stack_sym, send_startup_ipi, i
  <2>3. OwnStack' /\ Trampoline'
    BY <2>1, <2>2 DEF OwnStack, Trampoline
  <2>4. pc[i] = "off" /\ boot_state[i] # RUNNING
    BY <2>1 DEF Trampoline, Progress
  <2>5. Progress'
    BY <2>1, <2>2, <2>4 DEF Progress
  <2> QED BY <2>3, <2>5
<1>3. CASE StartPcpuUp
  <2>1. starting \in AP /\ pc[starting] # "tramp" /\ tramp_stack = starting
    BY <1>3 DEF StartPcpuUp, Progress
  <2>2. OwnStack' /\ Trampoline'
    BY <1>3, <2>1 DEF StartPcpuUp, OwnStack, Trampoline
  <2>3. Progress'
    BY <1>3, <2>1 DEF StartPcpuUp, Progress
  <2> QED BY <2>2, <2>3
<1>4. CASE StartPcpuTimeout
  BY <1>4 DEF StartPcpuTimeout, startVars, OwnStack, Trampoline, Progress
<1>5. CASE StartPcpuFail
  <2>1. starting \in AP
    BY <1>5 DEF StartPcpuFail, Progress
  <2> QED BY <1>5, <2>1 DEF StartPcpuFail, OwnStack, Trampoline, Progress
<1>6. CASE Release
  <2>1. OwnStack' /\ Trampoline'
    BY <1>6 DEF Release, OwnStack, Trampoline
  <2>2. Progress'
    BY <1>6 DEF Release, Progress
  <2> QED BY <2>1, <2>2
<1> QED BY <1>1, <1>2, <1>3, <1>4, <1>5, <1>6 DEF StartLoop

\* ... and over the steps of the pCPUs themselves.
LEMMA PcpuStep ==
  ASSUME BootInv, NEW p \in Pcpu, (p \in AP /\ (ApEntry(p) \/ ApUp(p) \/ ApSync(p))) \/ PcpuPost(p)
  PROVE  OwnStack' /\ Trampoline' /\ Progress'
<1> USE BootAssumption DEF BootInv, TypeOK, Goto, AP, InStart, BeforeUp, DEAD, RUNNING
<1>1. CASE p \in AP /\ ApEntry(p)
  BY <1>1 DEF ApEntry, OwnStack, Trampoline, Progress
<1>2. CASE p \in AP /\ ApUp(p)
  BY <1>2 DEF ApUp, OwnStack, Trampoline, Progress
<1>3. CASE p \in AP /\ ApSync(p)
  BY <1>3 DEF ApSync, startVars, OwnStack, Trampoline, Progress
\* Past the barrier nothing of this changes but the place of the pCPU.
<1>4. CASE PcpuPost(p)
  <2> DEFINE Post == {"sched", "launch", "vcpu", "thread", "idle", "fault"}
  <2>1. PICK q \in Post : pc[p] \in Post /\ pc' = [pc EXCEPT ![p] = q] /\ UNCHANGED startVars
    BY <1>4 DEF PcpuPost, InitSched, LaunchVms, PrepareVcpu, InitThreadData, StartVm
  <2>2. OwnStack' /\ Trampoline'
    BY <2>1 DEF startVars, OwnStack, Trampoline
  <2>3. Progress'
    BY <2>1 DEF startVars, Progress
  <2> QED BY <2>2, <2>3
<1> QED BY <1>1, <1>2, <1>3, <1>4

\* The inductive invariant of the start-up.
THEOREM BootInvariance == Spec => []BootInv
<1>1. BootInv /\ [Next]_vars => BootInv'
  <2> SUFFICES ASSUME BootInv, [Next]_vars PROVE BootInv'
    OBVIOUS
  <2>1. CASE StartLoop
    BY <2>1, StartTypes, StartStep DEF BootInv
  <2>2. ASSUME NEW p \in AP, ApEntry(p) \/ ApUp(p) \/ ApSync(p) PROVE BootInv'
    BY <2>2, PcpuTypes, PcpuStep DEF BootInv, AP
  <2>3. ASSUME NEW p \in Pcpu, PcpuPost(p) PROVE BootInv'
    BY <2>3, PcpuTypes, PcpuStep DEF BootInv
  <2>4. CASE UNCHANGED vars
    BY <2>4 DEF vars, BootInv, TypeOK, Preparing, OwnStack, Trampoline, Progress
  <2> QED BY <2>1, <2>2, <2>3, <2>4 DEF Next
<1> QED BY <1>1, InitBootInv, PTL DEF Spec

\* Every AP runs on its own stack, though all of them take it from one symbol and one
\* declared DEAD may still come up; and unless an AP has failed start_pcpus returns
\* with every pCPU RUNNING, whichever of them are late.
THEOREM StartedOnOwnStacks == Spec => []PcpusStarted
<1>1. BootInv => PcpusStarted
  BY DEF BootInv, PcpusStarted, AllUpOrFailed, Progress, InStart, AP
<1> QED BY <1>1, BootInvariance, PTL
=============================================================================
