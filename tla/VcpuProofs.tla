------------------------------ MODULE VcpuProofs ------------------------------
(***************************************************************************)
(* Proofs about the registers of a vCPU, for every set of bits and values  *)
(* that guests write and every width of the time-stamp counter, 2^64 too.  *)
(***************************************************************************)
EXTENDS VcpuState, TLAPS

Cr0Names == Cr0Bit \cup {"NE", "CD", "NW", "PE"}
Cr4Names == Cr4Bit \cup {"VMXE"}
EferNames == EferBit \cup {"LMA"}
PatValues == Pat \cup {"ALL_UC", "POWER_ON", None}
VmcsSet == [cr0 : SUBSET Cr0Names, shadow0 : SUBSET Cr0Names, cr4 : SUBSET Cr4Names, shadow4 : SUBSET Cr4Names,
            efer : SUBSET EferNames, pat : PatValues, ia32e : BOOLEAN, pdptes : BOOLEAN,
            ctls : {{}, InitialControls}]
CtxSet == [cr0 : SUBSET Cr0Names, cr4 : SUBSET Cr4Names, efer : SUBSET EferNames]
ExtSet == [xcr0 : SUBSET {"X87", "SSE", "AVX", "R"}, kernel_gs : {0, 1}]

RegsTypeOK ==
    /\ rpc \in {"out", "root", "guest", "exit"} /\ launched \in BOOLEAN /\ powerup \in BOOLEAN
    /\ vmcs \in VmcsSet /\ ctx \in CtxSet
    /\ misc \in SUBSET MiscBit /\ pat \in PatValues /\ csl \in BOOLEAN
    /\ ext \in ExtSet /\ hw \in ExtSet /\ own \in ExtSet

TscTypeOK ==
    /\ padjust \in Tsc /\ pdl \in Tsc /\ vadjust \in Tsc /\ vdl \in Tsc /\ offset \in Tsc
    /\ under \in Tsc /\ intercepted \in BOOLEAN

TypeOK == RegsTypeOK /\ TscTypeOK

\* The value of EFER at the next entry.
NextEfer == IF "EFER" \in reg_updated THEN ctx.efer ELSE vmcs.efer

\* INIT_VMCS is pending from the creation or from INIT to the next run of the
\* thread, and the guest does not run meanwhile.
Pending ==
    /\ "INIT_VMCS" \in req =>
         /\ rpc \in {"out", "root"} /\ ~launched
         /\ "EFER" \in reg_updated /\ ctx.efer = {} /\ ctx.cr4 = {}
         /\ ctx.cr0 \in {realmode_init_vregs, protect_mode_init_vregs}
    /\ launched => powerup
    /\ rpc \in {"guest", "exit"} => launched /\ req = {} /\ reg_updated = {}
    /\ rpc = "out" /\ "INIT_VMCS" \notin req => launched

\* While an exit is handled, what run_vcpu has read is in the cache.
Cached ==
    rpc = "exit" => reg_cached = {"EFER", "CR0"} /\ ctx.efer = vmcs.efer /\ ctx.cr0 = SeenCr0

\* CR0 and CR4 of the guest and their shadows agree on what the processor translates by.
Shadowed ==
    "INIT_VMCS" \notin req =>
      /\ vmcs.cr0 \cap {"PE", "PG", "WP"} = vmcs.shadow0 \cap {"PE", "PG", "WP"}
      /\ vmcs.cr4 \cap {"PAE", "PSE", "SMEP", "SMAP"} = vmcs.shadow4 \cap {"PAE", "PSE", "SMEP", "SMAP"}

\* The state of the guest is valid with the EFER of the next entry.
Valid ==
    "INIT_VMCS" \notin req =>
      /\ vmcs.ia32e <=> "LMA" \in NextEfer
      /\ "LMA" \in NextEfer <=> "LME" \in NextEfer /\ "PG" \in vmcs.cr0
      /\ vmcs.ia32e => "PAE" \in vmcs.cr4
      /\ "PG" \in vmcs.cr0 => "PE" \in vmcs.cr0
      /\ "PG" \in vmcs.cr0 /\ "PAE" \in vmcs.cr4 /\ ~vmcs.ia32e => vmcs.pdptes
      /\ "XD_DISABLE" \in misc => "NXE" \notin NextEfer

\* Translations of another mode are left only while a flush is requested.
Mode(efer) ==
    [cr0 |-> vmcs.cr0 \cap {"PG", "WP"}, cd |-> "CD" \in vmcs.shadow0,
     cr4 |-> vmcs.cr4 \cap {"PAE", "PSE", "SMEP", "SMAP"}, nxe |-> "NXE" \in efer]
Translated ==
    "INIT_VMCS" \notin req =>
      /\ launched => "EPT_FLUSH" \in req \/ tlb = Mode(NextEfer)
      /\ "CD" \notin vmcs.shadow0 => vmcs.pat = pat

\* The registers switched with the thread are in ext_ctx while it is out.
Switched == IF rpc = "out" THEN ext = own ELSE hw = own

\* The guest has written no deadline while INIT_VMCS is pending.
NoneWritten == "INIT_VMCS" \in req => wrote = NoDeadline

\* Until the first INIT_VMCS the TSC has no offset; from then on it follows TSC_ADJUST.
FirstOffset == "INIT_VMCS" \in req => offset = Sub(vadjust, padjust) \/ (offset = 0 /\ vadjust = 0)

RegsInv == Pending /\ Cached /\ Shadowed /\ Valid /\ Translated
VcpuInv == TypeOK /\ RegsInv /\ Switched /\ NoneWritten /\ FirstOffset /\ TscAsWritten

-----------------------------------------------------------------------------
(***************************************************************************)
(* Arithmetic of the counters.                                             *)
(***************************************************************************)
LEMMA TscArithmetic ==
  ASSUME NEW a \in Tsc, NEW b \in Tsc
  PROVE  /\ Add(a, b) = IF a + b < TscMod THEN a + b ELSE a + b - TscMod
         /\ Sub(a, b) = IF a >= b THEN a - b ELSE a - b + TscMod
         /\ Add(a, b) \in Tsc /\ Sub(a, b) \in Tsc
<1> USE TscAssumption DEF Tsc
<1>1. \A n \in 0 .. TscMod - 1 : n % TscMod = n
  OBVIOUS
<1>2. \A n \in TscMod .. 2 * TscMod - 1 : n % TscMod = n - TscMod
  OBVIOUS
<1>3. \A n \in 1 - TscMod .. -1 : n % TscMod = n + TscMod
  OBVIOUS
<1>4. a \in Int /\ b \in Int /\ TscMod \in Int /\ a + b \in Int /\ a - b \in Int
  OBVIOUS
<1>5. Add(a, b) = IF a + b < TscMod THEN a + b ELSE a + b - TscMod
  BY <1>1, <1>2, <1>4 DEF Add
<1>6. Sub(a, b) = IF a >= b THEN a - b ELSE a - b + TscMod
  BY <1>1, <1>3, <1>4 DEF Sub
<1> QED BY <1>4, <1>5, <1>6

\* WRMSR of the TSC and of TSC_ADJUST: the two ways round.
LEMMA TscWritten ==
  ASSUME NEW d \in Tsc, NEW v \in Tsc, NEW o \in Tsc, NEW p \in Tsc, o = Sub(v, p)
  PROVE  /\ d = Sub(Add(v, Sub(d, o)), p)
         /\ Add(o, Sub(d, v)) = Sub(d, p)
         /\ Add(v, Sub(d, o)) \in Tsc /\ Add(o, Sub(d, v)) \in Tsc
<1>1. Sub(d, o) \in Tsc /\ Sub(d, v) \in Tsc
  BY TscArithmetic
<1>2. Add(v, Sub(d, o)) \in Tsc /\ Add(o, Sub(d, v)) \in Tsc
  BY <1>1, TscArithmetic
<1>3. /\ Sub(v, p) = IF v >= p THEN v - p ELSE v - p + TscMod
      /\ Sub(d, o) = IF d >= o THEN d - o ELSE d - o + TscMod
      /\ Sub(d, v) = IF d >= v THEN d - v ELSE d - v + TscMod
      /\ Sub(d, p) = IF d >= p THEN d - p ELSE d - p + TscMod
  BY TscArithmetic
<1>4. /\ Add(v, Sub(d, o)) = IF v + Sub(d, o) < TscMod THEN v + Sub(d, o) ELSE v + Sub(d, o) - TscMod
      /\ Add(o, Sub(d, v)) = IF o + Sub(d, v) < TscMod THEN o + Sub(d, v) ELSE o + Sub(d, v) - TscMod
  BY <1>1, TscArithmetic
<1>5. Sub(Add(v, Sub(d, o)), p) =
        IF Add(v, Sub(d, o)) >= p THEN Add(v, Sub(d, o)) - p ELSE Add(v, Sub(d, o)) - p + TscMod
  BY <1>2, TscArithmetic
<1> QED BY <1>1, <1>2, <1>3, <1>4, <1>5, TscAssumption DEF Tsc

-----------------------------------------------------------------------------
(***************************************************************************)
(* Extended state.                                                         *)
(***************************************************************************)
LEMMA InitInv == Init => VcpuInv
<1> SUFFICES ASSUME Init PROVE VcpuInv
  OBVIOUS
<1> USE DEF Init, RegsInit, TscInit
<1>1. RegsTypeOK
  BY DEF RegsTypeOK, VmcsSet, CtxSet, ExtSet, init_xsave, init_pcpu_xsave, realmode_init_vregs, Cr0Names, PatValues
<1>2. TscTypeOK
  <2>1. padjust \in Tsc /\ 0 \in Tsc
    BY TscAssumption DEF Tsc
  <2> QED BY <2>1 DEF TscTypeOK
<1>3. RegsInv
  BY DEF RegsInv, Pending, Cached, Shadowed, Valid, Translated
<1>4. Switched /\ NoneWritten /\ FirstOffset /\ TscAsWritten
  BY DEF Switched, NoneWritten, FirstOffset, TscAsWritten, TscAdjustTracksOffset, DeadlineReadsBack, DeadlineArmed, InterceptedAsOffset
<1> QED BY <1>1, <1>2, <1>3, <1>4 DEF VcpuInv, TypeOK

\* The registers that are switched are exchanged between the processor and ext_ctx,
\* and the guest's own writes and INIT change both copies.
LEMMA SwitchedStep == VcpuInv /\ [Next]_vars => Switched'
<1> SUFFICES ASSUME VcpuInv, [Next]_vars PROVE Switched'
  OBVIOUS
<1>1. Switched /\ RegsTypeOK
  BY DEF VcpuInv, TypeOK
<1> USE DEF Switched, switched, regsVars
<1>2. CASE Create \/ INIT
  BY <1>1, <1>2 DEF Create, INIT, init_vcpu_protect_mode_regs, reset_vcpu, SetRegs
<1>3. CASE InitVmcs \/ Switch \/ Enter
  BY <1>1, <1>3 DEF InitVmcs, init_vmcs, Switch, context_switch_in, context_switch_out, SwitchedIn, Enter, EnterGuest
<1>4. CASE Leave
  BY <1>1, <1>4 DEF Leave, Exit
<1>5. CASE vmexit_handler
  <2> USE <1>1 DEF Handles
  <2>1. CASE cr_access_vmexit_handler
    BY <2>1 DEF cr_access_vmexit_handler, MovToCr0, Lmsw, MovToCr4, WriteCr0
  <2>2. CASE wrmsr_vmexit_handler \/ rdmsr_vmexit_handler
    BY <2>2 DEF wrmsr_vmexit_handler, write_efer_msr, write_pat_msr, set_guest_ia32_misc_enable, TscMsr, rdmsr_vmexit_handler
  <2>3. CASE InstructionExit
    <3>1. CASE cpuid_vmexit_handler \/ OtherExit
      BY <3>1 DEF cpuid_vmexit_handler, OtherExit
    <3>2. CASE xsetbv_vmexit_handler
      BY <3>2 DEF xsetbv_vmexit_handler
    <3> QED BY <2>3, <3>1, <3>2 DEF InstructionExit
  <2> QED BY <1>5, <2>1, <2>2, <2>3 DEF vmexit_handler
<1>6. CASE NativeTimer \/ UNCHANGED vars
  BY <1>1, <1>6 DEF NativeTimer, vars
<1> QED BY <1>2, <1>3, <1>4, <1>5, <1>6 DEF Next

-----------------------------------------------------------------------------
(***************************************************************************)
(* Time-stamp counter.                                                     *)
(***************************************************************************)
\* Whatever the change of the interception, the guest reads what it read before.
LEMMA InterceptionKeepsDeadline ==
  ASSUME TscTypeOK, NEW i \in BOOLEAN, set_tsc_msr_interception(i, intercepted)
  PROVE  DeadlineRead' = DeadlineRead /\ intercepted' \in BOOLEAN /\ pdl' \in Tsc /\ vdl' \in Tsc
<1>1. 0 \in Tsc
  BY TscAssumption DEF Tsc
<1>2. CASE ~i /\ intercepted /\ pdl # 0
  <2>1. intercepted' = i /\ pdl' = vdl /\ vdl' = vdl
    BY <1>2 DEF set_tsc_msr_interception
  <2> QED BY <1>2, <2>1 DEF TscTypeOK, DeadlineRead
<1>3. CASE ~i /\ intercepted /\ pdl = 0
  <2>1. intercepted' = i /\ vdl' = 0 /\ pdl' = pdl
    BY <1>3 DEF set_tsc_msr_interception
  <2> QED BY <1>1, <1>3, <2>1 DEF TscTypeOK, DeadlineRead
<1>4. CASE i /\ ~intercepted
  <2>1. intercepted' = i /\ vdl' = pdl /\ pdl' = pdl
    BY <1>4 DEF set_tsc_msr_interception
  <2> QED BY <1>4, <2>1 DEF TscTypeOK, DeadlineRead
<1>5. CASE i <=> intercepted
  <2>1. intercepted' = i /\ vdl' = vdl /\ pdl' = pdl
    BY <1>5 DEF set_tsc_msr_interception
  <2> QED BY <1>5, <2>1 DEF TscTypeOK, DeadlineRead
<1> QED BY <1>2, <1>3, <1>4, <1>5 DEF TscTypeOK

\* The steps that leave the TSC alone keep INIT_VMCS pending or not.
LEMMA QuietSteps ==
  ASSUME VcpuInv, \/ Create \/ Switch \/ Enter \/ Leave \/ cr_access_vmexit_handler \/ InstructionExit
                  \/ (write_efer_msr \/ write_pat_msr \/ set_guest_ia32_misc_enable) /\ UNCHANGED tscVars
                  \/ UNCHANGED vars
  PROVE  UNCHANGED tscVars /\ ("INIT_VMCS" \in req' <=> "INIT_VMCS" \in req)
<1> USE DEF run, Refused, regsVars
<1>1. CASE Create \/ Switch \/ UNCHANGED vars
  BY <1>1 DEF Create, init_vcpu_protect_mode_regs, Switch, context_switch_in, context_switch_out, vars
<1>2. CASE Enter \/ Leave
  BY <1>2 DEF Enter, EnterGuest, Leave, Exit
<1>3. CASE cr_access_vmexit_handler
  <2>1. ASSUME NEW cr0, WriteCr0(cr0) PROVE "INIT_VMCS" \in req' <=> "INIT_VMCS" \in req
    BY <2>1 DEF WriteCr0, vmx_write_cr0, Cr0Flush
  <2>2. ASSUME MovToCr4 PROVE "INIT_VMCS" \in req' <=> "INIT_VMCS" \in req
    BY <2>2 DEF MovToCr4, vmx_write_cr4
  <2> QED BY <1>3, <2>1, <2>2 DEF cr_access_vmexit_handler, MovToCr0, Lmsw
<1>4. CASE InstructionExit
  BY <1>4 DEF InstructionExit, cpuid_vmexit_handler, xsetbv_vmexit_handler, OtherExit
<1>5. CASE (write_efer_msr \/ write_pat_msr \/ set_guest_ia32_misc_enable) /\ UNCHANGED tscVars
  <2>1. CASE write_efer_msr
    BY <1>5, <2>1 DEF write_efer_msr
  <2>2. CASE write_pat_msr
    BY <1>5, <2>2 DEF write_pat_msr
  <2>3. CASE set_guest_ia32_misc_enable
    BY <1>5, <2>3 DEF set_guest_ia32_misc_enable, MiscWritten
  <2> QED BY <1>5, <2>1, <2>2, <2>3
<1> QED BY <1>1, <1>2, <1>3, <1>4, <1>5

\* Every step leaves the offset by which the deadline was made a native one, or sets
\* it to 0 or to the present one.
LEMMA UnderTyped == TscTypeOK /\ 0 \in Tsc /\ [Next]_vars => under' \in Tsc
<1> SUFFICES ASSUME TscTypeOK, 0 \in Tsc, [Next]_vars PROVE under' \in Tsc
  OBVIOUS
<1>1. under \in Tsc /\ offset \in Tsc
  BY DEF TscTypeOK
<1>2. CASE UNCHANGED tscVars
  BY <1>1, <1>2 DEF tscVars
<1>3. CASE InitVmcs
  BY <1>1, <1>3 DEF InitVmcs, init_tsc, set_tsc_msr_interception
<1>4. CASE INIT
  BY <1>1, <1>4 DEF INIT, reset_tsc
<1>5. CASE wrmsr_vmexit_handler \/ rdmsr_vmexit_handler
  BY <1>1, <1>2, <1>5 DEF wrmsr_vmexit_handler, rdmsr_vmexit_handler, set_guest_tsc, set_guest_tsc_adjust,
     set_tsc_msr_interception, vlapic_set_tsc_deadline_msr, vlapic_get_tsc_deadline_msr
<1>6. CASE NativeTimer
  BY <1>1, <1>6 DEF NativeTimer, WriteNative, Expire
<1>7. CASE Create \/ Switch \/ Enter \/ Leave \/ cr_access_vmexit_handler \/ InstructionExit \/ UNCHANGED vars
  <2>1. UNCHANGED tscVars
    BY <1>7 DEF Create, Switch, Enter, Leave, cr_access_vmexit_handler, InstructionExit, vars
  <2> QED BY <1>2, <2>1
<1> QED BY <1>3, <1>4, <1>5, <1>6, <1>7 DEF Next, vmexit_handler

\* The guest reads the deadline it has written, and its TSC_ADJUST goes with the offset.
ClockInv == NoneWritten /\ TscAdjustTracksOffset /\ DeadlineReadsBack

LEMMA TscStep == VcpuInv /\ [Next]_vars => TscTypeOK' /\ ClockInv'
<1> SUFFICES ASSUME VcpuInv, [Next]_vars PROVE TscTypeOK' /\ ClockInv'
  OBVIOUS
<1>1. /\ TscTypeOK /\ NoneWritten /\ TscAdjustTracksOffset /\ DeadlineReadsBack
      /\ rpc \in {"guest", "exit"} => "INIT_VMCS" \notin req
  BY DEF VcpuInv, TypeOK, TscAsWritten, RegsInv, Pending
<1>2. 0 \in Tsc
  BY TscAssumption DEF Tsc
<1>0. under' \in Tsc
  BY <1>1, <1>2, UnderTyped
<1>3. ASSUME UNCHANGED tscVars, "INIT_VMCS" \in req' <=> "INIT_VMCS" \in req
      PROVE  TscTypeOK' /\ ClockInv'
  BY <1>1, <1>3 DEF tscVars, TscTypeOK, ClockInv, NoneWritten, TscAdjustTracksOffset, DeadlineReadsBack, DeadlineRead
<1>4. CASE INIT
  BY <1>0, <1>1, <1>4 DEF INIT, reset_vcpu, reset_tsc, TscTypeOK, ClockInv, NoneWritten, TscAdjustTracksOffset, DeadlineReadsBack
<1>5. CASE InitVmcs
  <2>1. /\ "INIT_VMCS" \in req /\ "INIT_VMCS" \notin req' /\ offset' = Sub(vadjust, padjust)
        /\ UNCHANGED <<padjust, vadjust, wrote>> /\ set_tsc_msr_interception(offset # 0, TRUE)
    BY <1>5 DEF InitVmcs, init_vmcs, init_tsc
  <2>2. intercepted' \in BOOLEAN /\ pdl' \in Tsc /\ vdl' \in Tsc
    <3>1. CASE offset # 0
      BY <1>1, <2>1, <3>1 DEF set_tsc_msr_interception, TscTypeOK
    <3>2. CASE offset = 0 /\ pdl # 0
      BY <1>1, <2>1, <3>2 DEF set_tsc_msr_interception, TscTypeOK
    <3>3. CASE offset = 0 /\ pdl = 0
      BY <1>1, <1>2, <2>1, <3>3 DEF set_tsc_msr_interception, TscTypeOK
    <3> QED BY <3>1, <3>2, <3>3
  <2>3. offset' \in Tsc
    BY <1>1, <2>1, TscArithmetic DEF TscTypeOK
  <2> QED BY <1>0, <1>1, <2>1, <2>2, <2>3 DEF TscTypeOK, ClockInv, NoneWritten, TscAdjustTracksOffset, DeadlineReadsBack
<1>6. ASSUME NEW t \in Tsc, TscMsr, set_guest_tsc(t) \/ set_guest_tsc_adjust(t)
      PROVE  TscTypeOK' /\ ClockInv'
  <2>1. "INIT_VMCS" \notin req /\ req' = req
    BY <1>1, <1>6 DEF TscMsr, Handles, run
  <2>2. offset = Sub(vadjust, padjust)
    BY <1>1, <2>1 DEF TscAdjustTracksOffset
  <2>3. offset' = Sub(vadjust', padjust') /\ offset' \in Tsc /\ vadjust' \in Tsc
    BY <1>1, <1>6, <2>2, TscWritten DEF set_guest_tsc, set_guest_tsc_adjust, TscTypeOK
  <2>4. /\ UNCHANGED <<padjust, wrote>>
        /\ \E i \in BOOLEAN : set_tsc_msr_interception(i, intercepted)
    BY <1>6 DEF set_guest_tsc, set_guest_tsc_adjust
  <2>5. DeadlineRead' = DeadlineRead /\ intercepted' \in BOOLEAN /\ pdl' \in Tsc /\ vdl' \in Tsc
    BY <1>1, <2>4, InterceptionKeepsDeadline
  <2>6. TscTypeOK'
    BY <1>0, <1>1, <2>3, <2>4, <2>5 DEF TscTypeOK
  <2> QED BY <1>1, <2>1, <2>3, <2>4, <2>5, <2>6 DEF ClockInv, NoneWritten, TscAdjustTracksOffset, DeadlineReadsBack
<1>7. ASSUME NEW t \in Tsc, TscMsr, vlapic_set_tsc_deadline_msr(t)
      PROVE  TscTypeOK' /\ ClockInv'
  <2>1. "INIT_VMCS" \notin req /\ req' = req
    BY <1>1, <1>7 DEF TscMsr, Handles, run
  <2>2. NativeDeadline(t) \in Tsc /\ (NativeDeadline(t) = 0 <=> t = 0)
    <3>1. t # 0 => 1 \in Tsc
      BY TscAssumption DEF Tsc
    <3>2. Sub(t, offset) \in Tsc
      BY <1>1, TscArithmetic DEF TscTypeOK
    <3> QED BY <1>2, <3>1, <3>2 DEF NativeDeadline
  <2>3. /\ intercepted /\ vdl' = t /\ pdl' = NativeDeadline(t) /\ wrote' = t
        /\ UNCHANGED <<padjust, vadjust, offset, intercepted>>
    BY <1>7 DEF vlapic_set_tsc_deadline_msr
  <2>4. TscTypeOK'
    BY <1>0, <1>1, <2>2, <2>3 DEF TscTypeOK
  <2>5. DeadlineRead' = wrote'
    BY <2>2, <2>3 DEF DeadlineRead
  <2> QED BY <1>1, <2>1, <2>3, <2>4, <2>5 DEF ClockInv, NoneWritten, TscAdjustTracksOffset, DeadlineReadsBack
<1>8. CASE TscMsr /\ vlapic_get_tsc_deadline_msr
  <2>1. UNCHANGED req /\ vdl' = DeadlineRead /\ intercepted /\ UNCHANGED <<padjust, pdl, vadjust, offset, intercepted, wrote>>
    BY <1>8 DEF TscMsr, run, vlapic_get_tsc_deadline_msr
  <2>2. DeadlineRead \in Tsc /\ DeadlineRead' = DeadlineRead
    BY <1>1, <1>2, <2>1 DEF DeadlineRead, TscTypeOK
  <2>3. TscTypeOK'
    BY <1>0, <1>1, <2>1, <2>2 DEF TscTypeOK
  <2> QED BY <1>1, <2>1, <2>2, <2>3 DEF ClockInv, NoneWritten, TscAdjustTracksOffset, DeadlineReadsBack
<1>9. CASE NativeTimer
  <2>1. UNCHANGED <<rpc, req, padjust, vadjust, vdl, offset, intercepted>> /\ pdl' \in Tsc
    BY <1>2, <1>9 DEF NativeTimer, regsVars, run, WriteNative, Expire
  <2>2. TscTypeOK'
    BY <1>0, <1>1, <2>1 DEF TscTypeOK
  <2>3. CASE rpc = "guest" /\ \E t \in Tsc : WriteNative(t)
    <3>1. ~intercepted /\ wrote' = pdl'
      BY <2>3 DEF WriteNative
    <3>2. DeadlineRead' = wrote'
      BY <1>1, <2>1, <3>1 DEF DeadlineRead, TscTypeOK
    <3> QED BY <1>1, <2>1, <2>2, <2>3, <3>2 DEF ClockInv, NoneWritten, TscAdjustTracksOffset, DeadlineReadsBack
  <2>4. CASE Expire
    <3>1. pdl' = 0 /\ wrote' = IF wrote = NoDeadline THEN wrote ELSE 0
      BY <2>4 DEF Expire
    <3>2. DeadlineRead' = 0
      BY <3>1 DEF DeadlineRead
    <3> QED BY <1>1, <2>1, <2>2, <3>1, <3>2 DEF ClockInv, NoneWritten, TscAdjustTracksOffset, DeadlineReadsBack
  <2> QED BY <1>9, <2>3, <2>4 DEF NativeTimer
<1>10. CASE \/ Create \/ Switch \/ Enter \/ Leave \/ cr_access_vmexit_handler \/ InstructionExit
            \/ (write_efer_msr \/ write_pat_msr \/ set_guest_ia32_misc_enable) /\ UNCHANGED tscVars
            \/ UNCHANGED vars
  BY <1>3, <1>10, QuietSteps
<1> QED BY <1>4, <1>5, <1>6, <1>7, <1>8, <1>9, <1>10 DEF Next, vmexit_handler, wrmsr_vmexit_handler, rdmsr_vmexit_handler

\* The interception follows the offset.
LEMMA OffsetStep == VcpuInv /\ [Next]_vars => FirstOffset' /\ InterceptedAsOffset'
<1> SUFFICES ASSUME VcpuInv, [Next]_vars PROVE FirstOffset' /\ InterceptedAsOffset'
  OBVIOUS
<1>1. /\ FirstOffset /\ InterceptedAsOffset /\ TscAdjustTracksOffset
      /\ rpc \in {"guest", "exit"} => "INIT_VMCS" \notin req
  BY DEF VcpuInv, TypeOK, TscAsWritten, RegsInv, Pending
<1>2. ASSUME UNCHANGED <<padjust, vadjust, offset, intercepted>>, "INIT_VMCS" \in req' <=> "INIT_VMCS" \in req
      PROVE  FirstOffset' /\ InterceptedAsOffset'
  BY <1>1, <1>2 DEF FirstOffset, InterceptedAsOffset
<1>3. CASE INIT
  BY <1>1, <1>3 DEF INIT, reset_vcpu, reset_tsc, FirstOffset, InterceptedAsOffset, TscAdjustTracksOffset
<1>4. CASE InitVmcs
  <2>1. /\ "INIT_VMCS" \in req /\ "INIT_VMCS" \notin req' /\ offset' = Sub(vadjust, padjust)
        /\ vadjust' = vadjust /\ intercepted' = (offset # 0)
    BY <1>4 DEF InitVmcs, init_vmcs, init_tsc, set_tsc_msr_interception
  <2> QED BY <1>1, <2>1 DEF FirstOffset, InterceptedAsOffset
<1>5. ASSUME NEW t \in Tsc, TscMsr, set_guest_tsc(t) \/ set_guest_tsc_adjust(t)
      PROVE  FirstOffset' /\ InterceptedAsOffset'
  <2>1. "INIT_VMCS" \notin req'
    BY <1>1, <1>5 DEF TscMsr, Handles, run
  <2>2. intercepted' = (offset' # 0)
    BY <1>5 DEF set_guest_tsc, set_guest_tsc_adjust, set_tsc_msr_interception
  <2> QED BY <2>1, <2>2 DEF FirstOffset, InterceptedAsOffset
<1>6. ASSUME NEW t \in Tsc, TscMsr, vlapic_set_tsc_deadline_msr(t) PROVE FirstOffset' /\ InterceptedAsOffset'
  BY <1>2, <1>6 DEF TscMsr, run, vlapic_set_tsc_deadline_msr
<1>7. CASE TscMsr /\ vlapic_get_tsc_deadline_msr
  BY <1>2, <1>7 DEF TscMsr, run, vlapic_get_tsc_deadline_msr
<1>8. CASE NativeTimer
  BY <1>2, <1>8 DEF NativeTimer, regsVars, run, WriteNative, Expire
<1>9. CASE \/ Create \/ Switch \/ Enter \/ Leave \/ cr_access_vmexit_handler \/ InstructionExit
           \/ (write_efer_msr \/ write_pat_msr \/ set_guest_ia32_misc_enable) /\ UNCHANGED tscVars
           \/ UNCHANGED vars
  BY <1>2, <1>9, QuietSteps DEF tscVars
<1> QED BY <1>3, <1>4, <1>5, <1>6, <1>7, <1>8, <1>9 DEF Next, vmexit_handler, wrmsr_vmexit_handler, rdmsr_vmexit_handler

\* The timer of the processor is armed for the guest's deadline: a change of the
\* interception keeps it so, ...
LEMMA InterceptionKeepsArmed ==
  ASSUME TscTypeOK, DeadlineReadsBack, DeadlineArmed, UNCHANGED <<padjust, wrote>>,
         NEW i \in BOOLEAN, set_tsc_msr_interception(i, intercepted)
  PROVE  DeadlineArmed'
<1> SUFFICES ASSUME wrote # NoDeadline PROVE DeadlineArmed'
  BY DEF DeadlineArmed
<1>1. CASE ~i /\ intercepted /\ pdl # 0
  <2>1. pdl' = vdl /\ under' = 0
    BY <1>1 DEF set_tsc_msr_interception
  <2>2. wrote = vdl /\ wrote # 0 /\ vdl \in Tsc
    BY <1>1 DEF DeadlineReadsBack, DeadlineRead, DeadlineArmed, TscTypeOK
  <2>3. Add(vdl, 0) = vdl
    BY <2>2, TscAssumption, TscArithmetic DEF Tsc
  <2> QED BY <2>1, <2>2, <2>3 DEF DeadlineArmed
<1>2. CASE ~i /\ intercepted /\ pdl = 0
  BY <1>2 DEF set_tsc_msr_interception, DeadlineArmed
<1>3. CASE i \/ ~intercepted
  <2>1. pdl' = pdl /\ under' = under
    BY <1>3 DEF set_tsc_msr_interception
  <2> QED BY <2>1 DEF DeadlineArmed
<1> QED BY <1>1, <1>2, <1>3

\* ... and so does what the guest writes.
LEMMA ArmedStep == VcpuInv /\ [Next]_vars => DeadlineArmed'
<1> SUFFICES ASSUME VcpuInv, [Next]_vars PROVE DeadlineArmed'
  OBVIOUS
<1>1. /\ TscTypeOK /\ NoneWritten /\ TscAsWritten
      /\ rpc \in {"guest", "exit"} => "INIT_VMCS" \notin req
  BY DEF VcpuInv, TypeOK, RegsInv, Pending
<1>2. 0 \in Tsc
  BY TscAssumption DEF Tsc
<1>3. ASSUME UNCHANGED <<padjust, pdl, wrote, under>> PROVE DeadlineArmed'
  BY <1>1, <1>3 DEF TscAsWritten, DeadlineArmed
<1>4. CASE INIT
  BY <1>4 DEF INIT, reset_tsc, DeadlineArmed
<1>5. CASE InitVmcs
  BY <1>1, <1>5 DEF InitVmcs, init_vmcs, init_tsc, NoneWritten, DeadlineArmed
<1>6. ASSUME NEW t \in Tsc, TscMsr, set_guest_tsc(t) \/ set_guest_tsc_adjust(t) PROVE DeadlineArmed'
  <2>1. UNCHANGED <<padjust, wrote>> /\ \E i \in BOOLEAN : set_tsc_msr_interception(i, intercepted)
    BY <1>6 DEF set_guest_tsc, set_guest_tsc_adjust
  <2> QED BY <1>1, <2>1, InterceptionKeepsArmed DEF TscAsWritten
<1>7. ASSUME NEW t \in Tsc, TscMsr, vlapic_set_tsc_deadline_msr(t) PROVE DeadlineArmed'
  <2>1. pdl' = NativeDeadline(t) /\ wrote' = t /\ under' = offset /\ offset \in Tsc
    BY <1>1, <1>7 DEF vlapic_set_tsc_deadline_msr, TscTypeOK
  <2>2. CASE t = 0
    BY <2>1, <2>2 DEF NativeDeadline, DeadlineArmed
  <2>3. CASE t # 0 /\ Sub(t, offset) = 0
    <3>1. t = offset
      <4>1. Sub(t, offset) = IF t >= offset THEN t - offset ELSE t - offset + TscMod
        BY <2>1, TscArithmetic
      <4>2. t \in 0 .. TscMod - 1 /\ offset \in 0 .. TscMod - 1 /\ TscMod \in Nat
        BY <2>1, TscAssumption DEF Tsc
      <4> QED BY <2>3, <4>1, <4>2
    <3> QED BY <2>1, <2>3, <3>1 DEF NativeDeadline, DeadlineArmed
  <2>4. CASE t # 0 /\ Sub(t, offset) # 0
    <3> DEFINE d == Sub(t, offset)
    <3>1. d \in Tsc /\ d = IF t >= offset THEN t - offset ELSE t - offset + TscMod
      BY <2>1, TscArithmetic
    <3> HIDE DEF d
    <3>2. Add(d, offset) = IF d + offset < TscMod THEN d + offset ELSE d + offset - TscMod
      BY <2>1, <3>1, TscArithmetic
    <3>3. Add(d, offset) = t
      BY <2>1, <3>1, <3>2, TscAssumption DEF Tsc
    <3>4. NativeDeadline(t) = d /\ d # 0
      BY <2>4 DEF NativeDeadline, d
    <3> QED BY <2>1, <2>4, <3>3, <3>4 DEF DeadlineArmed
  <2> QED BY <2>2, <2>3, <2>4
<1>8. CASE TscMsr /\ vlapic_get_tsc_deadline_msr
  BY <1>3, <1>8 DEF vlapic_get_tsc_deadline_msr
<1>9. CASE NativeTimer
  <2>1. ASSUME rpc = "guest", NEW t \in Tsc, WriteNative(t) PROVE DeadlineArmed'
    <3>1. pdl' = t /\ wrote' = t /\ under' = offset /\ ~intercepted /\ padjust' = padjust
      BY <2>1 DEF WriteNative
    <3>2. offset = 0 \/ (vadjust = 0 /\ offset = Sub(vadjust, padjust))
      <4>1. "INIT_VMCS" \notin req /\ InterceptedAsOffset /\ TscAdjustTracksOffset
        BY <1>1, <2>1 DEF TscAsWritten
      <4> QED BY <3>1, <4>1 DEF InterceptedAsOffset, TscAdjustTracksOffset
    <3>3. Add(t, 0) = t
      BY <1>2, TscArithmetic, TscAssumption DEF Tsc
    <3>4. pdl' = 0 <=> wrote' = 0
      BY <3>1
    <3>5. CASE offset = 0
      <4>1. Add(pdl', under') = wrote'
        BY <3>1, <3>3, <3>5
      <4> QED BY <3>4, <4>1 DEF DeadlineArmed
    <3>6. CASE offset = Sub(0, padjust)
      <4>1. pdl' = wrote' /\ under' = Sub(0, padjust')
        BY <3>1, <3>6
      <4> QED BY <3>4, <4>1 DEF DeadlineArmed
    <3> QED BY <3>2, <3>5, <3>6
  <2>2. ASSUME Expire PROVE DeadlineArmed'
    BY <2>2 DEF Expire, DeadlineArmed
  <2> QED BY <1>9, <2>1, <2>2 DEF NativeTimer
<1>10. CASE \/ Create \/ Switch \/ Enter \/ Leave \/ cr_access_vmexit_handler \/ InstructionExit
            \/ (write_efer_msr \/ write_pat_msr \/ set_guest_ia32_misc_enable) /\ UNCHANGED tscVars
            \/ UNCHANGED vars
  BY <1>3, <1>10, QuietSteps DEF tscVars
<1> QED BY <1>4, <1>6, <1>5, <1>7, <1>8, <1>9, <1>10 DEF Next, vmexit_handler, wrmsr_vmexit_handler, rdmsr_vmexit_handler

-----------------------------------------------------------------------------
(***************************************************************************)
(* Control registers and EFER.                                             *)
(***************************************************************************)
\* What the getters return while an exit is handled.
LEMMA Getters ==
  ASSUME VcpuInv, rpc = "exit"
  PROVE  /\ vcpu_get_efer = vmcs.efer /\ NextEfer = vmcs.efer /\ req = {} /\ launched
         /\ vcpu_get_cr0 = SeenCr0 /\ vcpu_get_cr4 = SeenCr4
         /\ \A b \in {"PE", "PG", "WP"} : b \in SeenCr0 <=> b \in vmcs.cr0
         /\ "CD" \in SeenCr0 <=> "CD" \in vmcs.shadow0
         /\ \A b \in {"PAE", "PSE", "SMEP", "SMAP"} : b \in SeenCr4 <=> b \in vmcs.cr4
<1>1. /\ reg_cached = {"EFER", "CR0"} /\ ctx.efer = vmcs.efer /\ ctx.cr0 = SeenCr0
      /\ req = {} /\ reg_updated = {} /\ launched
  BY DEF VcpuInv, RegsInv, Cached, Pending
<1>2. /\ vmcs.cr0 \cap {"PE", "PG", "WP"} = vmcs.shadow0 \cap {"PE", "PG", "WP"}
      /\ vmcs.cr4 \cap {"PAE", "PSE", "SMEP", "SMAP"} = vmcs.shadow4 \cap {"PAE", "PSE", "SMEP", "SMAP"}
  BY <1>1 DEF VcpuInv, RegsInv, Shadowed
<1>3. vcpu_get_efer = vmcs.efer /\ NextEfer = vmcs.efer
  BY <1>1 DEF vcpu_get_efer, NextEfer
<1>4. vcpu_get_cr0 = SeenCr0 /\ vcpu_get_cr4 = SeenCr4
  BY <1>1 DEF vcpu_get_cr0, vcpu_get_cr4
<1>5. /\ \A b \in {"PE", "PG", "WP"} : b \in SeenCr0 <=> b \in vmcs.cr0
      /\ "CD" \in SeenCr0 <=> "CD" \in vmcs.shadow0
  BY <1>2 DEF SeenCr0, Seen, cr0_host_mask, CR0_TRAP_MASK
<1>6. \A b \in {"PAE", "PSE", "SMEP", "SMAP"} : b \in SeenCr4 <=> b \in vmcs.cr4
  BY <1>2 DEF SeenCr4, Seen, cr4_host_mask, CR4_TRAP_MASK
<1> QED BY <1>1, <1>3, <1>4, <1>5, <1>6

LEMMA SeenTypes ==
  ASSUME VcpuInv
  PROVE  SeenCr0 \in SUBSET Cr0Names /\ SeenCr4 \in SUBSET Cr4Names
  BY DEF VcpuInv, TypeOK, RegsTypeOK, VmcsSet, SeenCr0, SeenCr4, Seen

\* A handler for the registers: what it leaves alone, ...
Handler == Handles("regs") /\ UNCHANGED <<focus, safety, csl, launched, powerup, tlb, answer, switched>>

\* ... and what follows from the registers it leaves behind.
LEMMA HandlerSuffices ==
  ASSUME VcpuInv, Handler,
         vmcs' \in VmcsSet, ctx' \in CtxSet, misc' \in SUBSET MiscBit, pat' \in PatValues,
         "INIT_VMCS" \notin req' /\ Shadowed' /\ Valid' /\ Translated'
  PROVE  RegsTypeOK' /\ RegsInv'
<1>1. RegsTypeOK /\ Pending /\ rpc = "exit" /\ rpc' = "root" /\ UNCHANGED <<launched, powerup, csl, ext, hw, own>>
  BY DEF Handler, Handles, VcpuInv, TypeOK, RegsInv, switched
<1>2. RegsTypeOK'
  BY <1>1 DEF RegsTypeOK
<1>3. Pending' /\ Cached'
  BY <1>1 DEF Pending, Cached
<1> QED BY <1>2, <1>3 DEF RegsInv

LEMMA RefusedStep ==
  ASSUME VcpuInv, Handler, Refused
  PROVE  RegsTypeOK' /\ RegsInv'
<1>1. /\ UNCHANGED <<vmcs, ctx, reg_cached, reg_updated, pat, misc, req, launched, tlb>> /\ rpc = "exit"
      /\ RegsTypeOK /\ Shadowed /\ Valid /\ Translated /\ Pending
  BY DEF Refused, Handler, Handles, VcpuInv, TypeOK, RegsInv
<1>2. /\ vmcs' \in VmcsSet /\ ctx' \in CtxSet /\ misc' \in SUBSET MiscBit /\ pat' \in PatValues
      /\ "INIT_VMCS" \notin req'
  BY <1>1 DEF RegsTypeOK, Pending
<1>3. Shadowed' /\ Valid' /\ Translated'
  BY <1>1 DEF Shadowed, Valid, Translated, NextEfer, Mode
<1> QED BY <1>2, <1>3, HandlerSuffices

LEMMA WriteCr0Step ==
  ASSUME VcpuInv, Handler, NEW cr0 \in SUBSET Cr0Names, NEW tss16, NEW pdpt,
         ~Cr0Refused(cr0, tss16, pdpt), vmx_write_cr0(cr0)
  PROVE  RegsTypeOK' /\ RegsInv'
<1>1. /\ RegsTypeOK /\ Shadowed /\ Valid /\ Translated /\ rpc = "exit" /\ UNCHANGED <<pat, misc, launched, tlb>>
      /\ reg_updated = {}
  BY DEF Handler, Handles, VcpuInv, TypeOK, RegsInv, Pending, vmx_write_cr0
<1>2. /\ vcpu_get_efer = vmcs.efer /\ NextEfer = vmcs.efer /\ req = {} /\ launched
      /\ vcpu_get_cr0 = SeenCr0 /\ vcpu_get_cr4 = SeenCr4
      /\ "PG" \in SeenCr0 <=> "PG" \in vmcs.cr0
      /\ "WP" \in SeenCr0 <=> "WP" \in vmcs.cr0
      /\ "CD" \in SeenCr0 <=> "CD" \in vmcs.shadow0
      /\ "PAE" \in SeenCr4 <=> "PAE" \in vmcs.cr4
  BY <1>1, Getters
<1> DEFINE on == "PG" \notin vmcs.cr0 /\ "PG" \in cr0
           off == "PG" \in vmcs.cr0 /\ "PG" \notin cr0
           lme == "LME" \in vmcs.efer
           pae == "PAE" \in vmcs.cr4
           flush == Xor(cr0, SeenCr0) \cap {"PG", "WP", "CD"} # {}
<1>3. (TurnsOn(cr0) <=> on) /\ (TurnsOff(cr0) <=> off) /\ (LmeSet <=> lme) /\ (is_pae <=> pae)
  BY <1>2 DEF TurnsOn, TurnsOff, LmeSet, is_pae, is_paging_enabled
<1>4. ("PG" \in cr0 => "PE" \in cr0) /\ ("PG" \in cr0 /\ lme => pae)
  BY <1>2, <1>3 DEF Cr0Refused, is_cr0_write_valid
<1>5. PatAfter(cr0) \in PatValues /\ ("CD" \notin cr0 => PatAfter(cr0) = pat)
  <2>1. "CD" \in cr0 \ SeenCr0 => PatAfter(cr0) = "ALL_UC"
    BY <1>2 DEF PatAfter
  <2>2. "CD" \in SeenCr0 \ cr0 => PatAfter(cr0) = pat
    BY <1>2 DEF PatAfter
  <2>3. ("CD" \in cr0 <=> "CD" \in SeenCr0) => PatAfter(cr0) = vmcs.pat
    BY <1>2 DEF PatAfter
  <2>4. vmcs.pat \in PatValues /\ pat \in PatValues /\ ("CD" \notin vmcs.shadow0 => vmcs.pat = pat)
    BY <1>1, <1>2 DEF RegsTypeOK, VmcsSet, Translated
  <2> QED BY <1>2, <2>1, <2>2, <2>3, <2>4 DEF PatValues
<1> DEFINE ia32e == IF lme /\ on THEN TRUE ELSE IF lme /\ off THEN FALSE ELSE vmcs.ia32e
           pdptes == (on /\ ~lme /\ pae) \/ vmcs.pdptes
           efer == IF lme /\ on THEN vmcs.efer \cup {"LMA"} ELSE IF lme /\ off THEN vmcs.efer \ {"LMA"} ELSE vmcs.efer
<1>6. /\ vmcs' = [vmcs EXCEPT !.ia32e = ia32e, !.pdptes = pdptes, !.pat = PatAfter(cr0),
                              !.cr0 = (cr0_always_on_mask \cup cr0) \ {"CD", "NW"}, !.shadow0 = cr0 \cup {"NE"}]
      /\ ctx' = [(IF "PG" \in cr0 THEN Cache4.ctx ELSE ctx) EXCEPT !.efer = efer]
      /\ reg_updated' = IF lme /\ (on \/ off) THEN {"EFER"} ELSE {}
      /\ req' = IF flush THEN {"EPT_FLUSH"} ELSE {}
  <2>1. /\ ctx' = [(IF "PG" \in cr0 THEN Cache4.ctx ELSE ctx) EXCEPT !.efer =
                       CASE LmeSet /\ TurnsOn(cr0) -> vcpu_get_efer \cup {"LMA"}
                         [] LmeSet /\ TurnsOff(cr0) -> vcpu_get_efer \ {"LMA"}
                         [] OTHER -> vcpu_get_efer]
        /\ reg_updated' = reg_updated \cup (IF LmeSet /\ (TurnsOn(cr0) \/ TurnsOff(cr0)) THEN {"EFER"} ELSE {})
    BY DEF vmx_write_cr0
  <2>2. ctx' = [(IF "PG" \in cr0 THEN Cache4.ctx ELSE ctx) EXCEPT !.efer = efer]
    BY <1>2, <1>3, <2>1
  <2>3. reg_updated' = IF lme /\ (on \/ off) THEN {"EFER"} ELSE {}
    BY <1>1, <1>3, <2>1
  <2>4. vmcs' = [vmcs EXCEPT !.ia32e = ia32e, !.pdptes = pdptes, !.pat = PatAfter(cr0),
                             !.cr0 = (cr0_always_on_mask \cup cr0) \ {"CD", "NW"}, !.shadow0 = cr0 \cup {"NE"}]
    BY <1>3 DEF vmx_write_cr0
  <2>5. req' = IF flush THEN {"EPT_FLUSH"} ELSE {}
    BY <1>2 DEF vmx_write_cr0, Cr0Flush
  <2> QED BY <2>2, <2>3, <2>4, <2>5
<1>7. Cache4.ctx \in CtxSet /\ ctx \in CtxSet
  BY <1>1, <1>2, SeenTypes DEF RegsTypeOK, CtxSet, Cache4
<1>8. efer \in SUBSET EferNames /\ (\A b : b # "LMA" => (b \in efer <=> b \in vmcs.efer))
  BY <1>1 DEF RegsTypeOK, VmcsSet, EferNames
<1>9. ctx' \in CtxSet /\ ctx'.efer = efer
  BY <1>6, <1>7, <1>8 DEF CtxSet
<1>10. /\ ia32e \in BOOLEAN /\ pdptes \in BOOLEAN
       /\ (cr0_always_on_mask \cup cr0) \ {"CD", "NW"} \in SUBSET Cr0Names /\ cr0 \cup {"NE"} \in SUBSET Cr0Names
  BY <1>1 DEF RegsTypeOK, VmcsSet, Cr0Names, cr0_always_on_mask
<1> DEFINE real0 == (cr0_always_on_mask \cup cr0) \ {"CD", "NW"}
           shadow == cr0 \cup {"NE"}
           newpat == PatAfter(cr0)
<1>11. \A b \in {"PE", "PG", "WP"} : (b \in real0 <=> b \in cr0) /\ (b \in shadow <=> b \in cr0)
  BY DEF cr0_always_on_mask
<1>12. "CD" \in shadow <=> "CD" \in cr0
  OBVIOUS
<1>13. real0 \in SUBSET Cr0Names /\ shadow \in SUBSET Cr0Names
  BY <1>10
<1>14. /\ vmcs' = [vmcs EXCEPT !.ia32e = ia32e, !.pdptes = pdptes, !.pat = newpat, !.cr0 = real0, !.shadow0 = shadow]
       /\ newpat \in PatValues /\ ("CD" \notin cr0 => newpat = pat)
  BY <1>5, <1>6
<1>15. NextEfer' = efer
  BY <1>6, <1>9, <1>14, <1>1 DEF NextEfer, RegsTypeOK, VmcsSet
<1>16. ~flush => \A b \in {"PG", "WP", "CD"} : b \in cr0 <=> b \in SeenCr0
  BY DEF Xor
<1>17. /\ vmcs.ia32e <=> "LMA" \in vmcs.efer
       /\ "LMA" \in vmcs.efer <=> "LME" \in vmcs.efer /\ "PG" \in vmcs.cr0
       /\ vmcs.ia32e => "PAE" \in vmcs.cr4
       /\ "PG" \in vmcs.cr0 /\ "PAE" \in vmcs.cr4 /\ ~vmcs.ia32e => vmcs.pdptes
       /\ "XD_DISABLE" \in misc => "NXE" \notin vmcs.efer
       /\ tlb = Mode(vmcs.efer)
       /\ vmcs.cr4 \cap {"PAE", "PSE", "SMEP", "SMAP"} = vmcs.shadow4 \cap {"PAE", "PSE", "SMEP", "SMAP"}
  BY <1>1, <1>2 DEF Valid, Translated, Shadowed
<1>18. /\ ia32e <=> "LMA" \in efer
       /\ "LMA" \in efer <=> "LME" \in efer /\ "PG" \in cr0
       /\ ia32e => "PAE" \in vmcs.cr4
       /\ "PG" \in cr0 /\ "PAE" \in vmcs.cr4 /\ ~ia32e => pdptes
  BY <1>4, <1>17
<1> HIDE DEF on, off, lme, pae, flush, ia32e, pdptes, efer, real0, shadow, newpat
<1>19. /\ vmcs' \in VmcsSet /\ vmcs'.ia32e = ia32e /\ vmcs'.pdptes = pdptes /\ vmcs'.pat = newpat /\ vmcs'.cr0 = real0
       /\ vmcs'.shadow0 = shadow /\ vmcs'.cr4 = vmcs.cr4 /\ vmcs'.shadow4 = vmcs.shadow4 /\ vmcs'.efer = vmcs.efer
  BY <1>1, <1>10, <1>13, <1>14 DEF RegsTypeOK, VmcsSet
<1>20. Shadowed'
  BY <1>11, <1>17, <1>19 DEF Shadowed
<1>21. Valid'
  BY <1>1, <1>4, <1>8, <1>11, <1>15, <1>17, <1>18, <1>19 DEF Valid
<1>22. Translated'
  <2>1. ~flush => Mode(NextEfer)' = Mode(vmcs.efer)
    <3> SUFFICES ASSUME ~flush PROVE Mode(NextEfer)' = Mode(vmcs.efer)
      OBVIOUS
    <3>1. /\ vmcs'.cr0 \cap {"PG", "WP"} = vmcs.cr0 \cap {"PG", "WP"}
          /\ "CD" \in vmcs'.shadow0 <=> "CD" \in vmcs.shadow0
          /\ "NXE" \in NextEfer' <=> "NXE" \in vmcs.efer
      BY <1>2, <1>8, <1>11, <1>12, <1>15, <1>16, <1>19
    <3>2. ("CD" \in vmcs'.shadow0) = ("CD" \in vmcs.shadow0) /\ ("NXE" \in NextEfer') = ("NXE" \in vmcs.efer)
      BY <3>1
    <3>3. vmcs'.cr4 = vmcs.cr4 /\ vmcs'.cr0 \cap {"PG", "WP"} = vmcs.cr0 \cap {"PG", "WP"}
      BY <1>19, <3>1
    <3> QED BY <3>2, <3>3, Zenon DEF Mode
  <2>2. flush => "EPT_FLUSH" \in req'
    BY <1>6
  <2> QED BY <1>1, <1>12, <1>14, <1>17, <1>19, <2>1, <2>2 DEF Translated
<1>23. "INIT_VMCS" \notin req'
  BY <1>6
<1> QED BY <1>1, <1>9, <1>19, <1>20, <1>21, <1>22, <1>23, HandlerSuffices DEF RegsTypeOK

\* What the invariant says while an exit is handled.
LEMMA AtExit ==
  ASSUME VcpuInv, rpc = "exit"
  PROVE  /\ vmcs.ia32e <=> "LMA" \in vmcs.efer
         /\ "LMA" \in vmcs.efer <=> "LME" \in vmcs.efer /\ "PG" \in vmcs.cr0
         /\ vmcs.ia32e => "PAE" \in vmcs.cr4
         /\ "PG" \in vmcs.cr0 => "PE" \in vmcs.cr0
         /\ "PG" \in vmcs.cr0 /\ "PAE" \in vmcs.cr4 /\ ~vmcs.ia32e => vmcs.pdptes
         /\ "XD_DISABLE" \in misc => "NXE" \notin vmcs.efer
         /\ tlb = Mode(vmcs.efer) /\ ("CD" \notin vmcs.shadow0 => vmcs.pat = pat)
         /\ vmcs.cr0 \cap {"PE", "PG", "WP"} = vmcs.shadow0 \cap {"PE", "PG", "WP"}
         /\ vmcs.cr4 \cap {"PAE", "PSE", "SMEP", "SMAP"} = vmcs.shadow4 \cap {"PAE", "PSE", "SMEP", "SMAP"}
  BY Getters DEF VcpuInv, RegsInv, Valid, Translated, Shadowed

LEMMA WriteCr4Step ==
  ASSUME VcpuInv, Handler, NEW cr4 \in SUBSET Cr4Bit, is_cr4_write_valid(cr4), vmx_write_cr4(cr4)
  PROVE  RegsTypeOK' /\ RegsInv'
<1>1. RegsTypeOK /\ rpc = "exit" /\ reg_updated = {} /\ UNCHANGED <<reg_updated, pat, misc, launched, tlb>>
  BY DEF Handler, Handles, VcpuInv, TypeOK, RegsInv, Pending, vmx_write_cr4
<1>2. /\ vcpu_get_efer = vmcs.efer /\ NextEfer = vmcs.efer /\ req = {} /\ launched
      /\ vcpu_get_cr0 = SeenCr0 /\ vcpu_get_cr4 = SeenCr4
      /\ "PG" \in SeenCr0 <=> "PG" \in vmcs.cr0
      /\ \A b \in {"PAE", "PSE", "SMEP", "SMAP"} : b \in SeenCr4 <=> b \in vmcs.cr4
  BY <1>1, Getters
<1> DEFINE flush == Cr4Flushes(cr4)
           pdptes == Cr4Loads(cr4) \/ vmcs.pdptes
           real4 == cr4_always_on_mask \cup cr4
<1>3. ~flush => \A b \in {"PAE", "PSE", "SMEP", "SMAP"} : b \in cr4 <=> b \in vmcs.cr4
  BY <1>2 DEF Cr4Flushes, Xor
<1>4. "LMA" \in vmcs.efer => "PAE" \in cr4
  BY <1>2 DEF is_cr4_write_valid, is_long_mode
<1>5. "PG" \in vmcs.cr0 /\ "PAE" \in cr4 /\ "LMA" \notin vmcs.efer /\ "PAE" \notin vmcs.cr4 => pdptes
  BY <1>2, <1>3 DEF Cr4Loads, is_paging_enabled, is_long_mode
<1>6. \A b \in {"PAE", "PSE", "SMEP", "SMAP"} : b \in real4 <=> b \in cr4
  BY DEF cr4_always_on_mask
<1>7. /\ vmcs' = [vmcs EXCEPT !.pdptes = pdptes, !.cr4 = real4, !.shadow4 = cr4]
      /\ ctx' = Cache4.ctx /\ req' = IF flush THEN {"EPT_FLUSH"} ELSE {}
  BY <1>2 DEF vmx_write_cr4
<1>8. ctx' \in CtxSet
  BY <1>1, <1>2, <1>7, SeenTypes DEF RegsTypeOK, CtxSet, Cache4
<1>9. pdptes \in BOOLEAN /\ real4 \in SUBSET Cr4Names /\ cr4 \in SUBSET Cr4Names /\ (vmcs.pdptes => pdptes)
  BY <1>1 DEF RegsTypeOK, VmcsSet, Cr4Names, cr4_always_on_mask
<1> HIDE DEF flush, pdptes, real4
<1>10. /\ vmcs' \in VmcsSet /\ vmcs'.ia32e = vmcs.ia32e /\ vmcs'.pdptes = pdptes /\ vmcs'.pat = vmcs.pat
       /\ vmcs'.cr0 = vmcs.cr0 /\ vmcs'.shadow0 = vmcs.shadow0 /\ vmcs'.cr4 = real4 /\ vmcs'.shadow4 = cr4
       /\ vmcs'.efer = vmcs.efer
  BY <1>1, <1>7, <1>9 DEF RegsTypeOK, VmcsSet
<1>11. NextEfer' = vmcs.efer
  BY <1>1, <1>10 DEF NextEfer
<1>12. Shadowed'
  BY <1>1, <1>6, <1>10, AtExit DEF Shadowed
<1>13. Valid'
  BY <1>1, <1>4, <1>5, <1>6, <1>9, <1>10, <1>11, AtExit DEF Valid
<1>14. Translated'
  <2>1. ~flush => Mode(NextEfer)' = Mode(vmcs.efer)
    BY <1>3, <1>6, <1>10, <1>11 DEF Mode
  <2>2. flush => "EPT_FLUSH" \in req'
    BY <1>7
  <2> QED BY <1>1, <1>10, <2>1, <2>2, AtExit DEF Translated
<1>15. "INIT_VMCS" \notin req'
  BY <1>7
<1> QED BY <1>1, <1>8, <1>10, <1>12, <1>13, <1>14, <1>15, HandlerSuffices DEF RegsTypeOK

\* EFER and MISC_ENABLE: both write EFER, and flush if NXE changes.
LEMMA WriteEferStep ==
  ASSUME VcpuInv, Handler, NEW efer \in SUBSET EferNames, NEW v \in SUBSET MiscBit,
         vcpu_set_efer(efer), misc' = v, UNCHANGED <<vmcs, pat>>,
         "NXE" \in Xor(efer, vmcs.efer) => "EPT_FLUSH" \in req', "INIT_VMCS" \notin req',
         "LMA" \in efer <=> "LMA" \in vmcs.efer,
         "PG" \in vmcs.cr0 => ("LME" \in efer <=> "LME" \in vmcs.efer),
         "XD_DISABLE" \in v => "NXE" \notin efer
  PROVE  RegsTypeOK' /\ RegsInv'
<1>1. RegsTypeOK /\ rpc = "exit" /\ UNCHANGED <<launched, tlb, vmcs, pat>> /\ vmcs \in VmcsSet /\ pat \in PatValues
  BY DEF Handler, Handles, VcpuInv, TypeOK, RegsTypeOK
<1>2. ctx' \in CtxSet /\ ctx'.efer = efer /\ "EFER" \in reg_updated'
  BY <1>1 DEF vcpu_set_efer, RegsTypeOK, CtxSet
<1>3. NextEfer' = efer
  BY <1>2 DEF NextEfer
<1>4. Shadowed'
  BY <1>1, AtExit DEF Shadowed
<1>5. Valid'
  BY <1>1, <1>3, AtExit DEF Valid
<1>6. Translated'
  <2>1. "NXE" \notin Xor(efer, vmcs.efer) => Mode(NextEfer)' = Mode(vmcs.efer)
    BY <1>1, <1>3 DEF Mode, Xor
  <2> QED BY <1>1, <2>1, AtExit DEF Translated
<1> QED BY <1>1, <1>2, <1>4, <1>5, <1>6, HandlerSuffices

LEMMA RegisterHandlers ==
  ASSUME VcpuInv, \/ cr_access_vmexit_handler \/ write_efer_msr \/ write_pat_msr \/ set_guest_ia32_misc_enable
  PROVE  RegsTypeOK' /\ RegsInv'
<1>1. RegsTypeOK
  BY DEF VcpuInv, TypeOK
<1>2. ASSUME NEW cr0 \in SUBSET Cr0Names, WriteCr0(cr0) PROVE RegsTypeOK' /\ RegsInv'
  <2>1. Handler
    BY <1>2 DEF WriteCr0, Handler
  <2> QED BY <1>2, <2>1, RefusedStep, WriteCr0Step DEF WriteCr0
<1>3. CASE MovToCr0
  BY <1>2, <1>3 DEF MovToCr0, Cr0Names
<1>4. CASE Lmsw
  <2>1. rpc = "exit"
    BY <1>4 DEF Lmsw, WriteCr0, Handles
  <2>2. vcpu_get_cr0 \in SUBSET Cr0Names
    BY <2>1, Getters, SeenTypes
  <2> QED BY <1>2, <1>4, <2>2 DEF Lmsw, Cr0Names
<1>5. CASE MovToCr4
  <2>1. Handler
    BY <1>5 DEF MovToCr4, Handler
  <2> QED BY <1>5, <2>1, RefusedStep, WriteCr4Step DEF MovToCr4
<1>6. CASE write_efer_msr
  <2>1. Handler /\ rpc = "exit"
    BY <1>6 DEF write_efer_msr, Handler, Handles
  <2>2. PICK efer \in SUBSET EferBit :
          IF EferRefused(efer) THEN Refused
          ELSE /\ vcpu_set_efer((efer \ {"LMA"}) \cup (vcpu_get_efer \cap {"LMA"}))
               /\ req' = req \cup IF "NXE" \in Xor(efer, vcpu_get_efer) THEN {"EPT_FLUSH"} ELSE {}
               /\ UNCHANGED <<vmcs, reg_cached, pat, misc>>
    BY <1>6 DEF write_efer_msr
  <2>3. CASE EferRefused(efer)
    BY <2>1, <2>2, <2>3, RefusedStep
  <2>4. CASE ~EferRefused(efer)
    <3> DEFINE new == (efer \ {"LMA"}) \cup (vmcs.efer \cap {"LMA"})
    <3>1. /\ vcpu_get_efer = vmcs.efer /\ req = {} /\ (is_paging_enabled <=> "PG" \in vmcs.cr0)
      BY <2>1, Getters DEF is_paging_enabled
    <3>2. /\ vcpu_set_efer(new) /\ UNCHANGED <<vmcs, pat, misc>>
          /\ req' = IF "NXE" \in Xor(efer, vmcs.efer) THEN {"EPT_FLUSH"} ELSE {}
      BY <2>2, <2>4, <3>1
    <3>3. /\ new \in SUBSET EferNames /\ ("LMA" \in new <=> "LMA" \in vmcs.efer)
          /\ "NXE" \in Xor(new, vmcs.efer) <=> "NXE" \in Xor(efer, vmcs.efer)
      BY DEF EferNames, Xor
    <3>4. "PG" \in vmcs.cr0 => ("LME" \in new <=> "LME" \in vmcs.efer)
      BY <2>4, <3>1 DEF EferRefused, Xor
    <3>5. "XD_DISABLE" \in misc => "NXE" \notin new
      BY <2>4 DEF EferRefused, guest_cpuid_80000001h
    <3>6. misc' = misc /\ misc \in SUBSET MiscBit
      BY <1>1, <3>2 DEF RegsTypeOK
    <3> HIDE DEF new
    <3> QED BY <2>1, <3>2, <3>3, <3>4, <3>5, <3>6, WriteEferStep
  <2> QED BY <2>3, <2>4
<1>7. CASE write_pat_msr
  <2>1. Handler /\ rpc = "exit"
    BY <1>7 DEF write_pat_msr, Handler, Handles
  <2>2. PICK value \in Pat \cup {"INVALID"} :
          IF value = "INVALID" THEN Refused
          ELSE /\ pat' = value
               /\ vmcs' = IF "CD" \in vcpu_get_cr0 THEN vmcs ELSE [vmcs EXCEPT !.pat = value]
               /\ UNCHANGED <<ctx, reg_cached, reg_updated, misc, req>>
    BY <1>7 DEF write_pat_msr
  <2>3. CASE value = "INVALID"
    BY <2>1, <2>2, <2>3, RefusedStep
  <2>4. CASE value # "INVALID"
    <3>1. /\ pat' = value /\ UNCHANGED <<ctx, reg_updated, misc, req, launched, tlb>> /\ value \in PatValues
          /\ vmcs' = IF "CD" \in vmcs.shadow0 THEN vmcs ELSE [vmcs EXCEPT !.pat = value]
          /\ reg_updated = {} /\ req = {}
      BY <2>1, <2>2, <2>4, Getters DEF PatValues, Handler, VcpuInv, RegsInv, Pending
    <3>2. /\ vmcs' \in VmcsSet /\ vmcs'.ia32e = vmcs.ia32e /\ vmcs'.pdptes = vmcs.pdptes
          /\ vmcs'.cr0 = vmcs.cr0 /\ vmcs'.shadow0 = vmcs.shadow0 /\ vmcs'.cr4 = vmcs.cr4
          /\ vmcs'.shadow4 = vmcs.shadow4 /\ vmcs'.efer = vmcs.efer
          /\ "CD" \notin vmcs.shadow0 => vmcs'.pat = value
      BY <1>1, <3>1 DEF RegsTypeOK, VmcsSet
    <3>3. NextEfer' = vmcs.efer
      BY <3>1, <3>2 DEF NextEfer
    <3>4. Mode(NextEfer)' = Mode(vmcs.efer)
      BY <3>2, <3>3 DEF Mode
    <3>5. Shadowed' /\ Valid' /\ Translated'
      BY <2>1, <3>1, <3>2, <3>3, <3>4, AtExit DEF Shadowed, Valid, Translated
    <3>6. ctx' \in CtxSet /\ misc' \in SUBSET MiscBit /\ pat' \in PatValues /\ "INIT_VMCS" \notin req'
      BY <1>1, <3>1 DEF RegsTypeOK
    <3> QED BY <2>1, <3>2, <3>5, <3>6, HandlerSuffices
  <2> QED BY <2>3, <2>4
<1>8. CASE set_guest_ia32_misc_enable
  <2>1. Handler /\ rpc = "exit"
    BY <1>8 DEF set_guest_ia32_misc_enable, Handler, Handles
  <2>2. PICK v \in SUBSET MiscBit :
          IF Xor(v, misc) \ MSR_IA32_MISC_ENABLE_MASK # {} THEN Refused
          ELSE MiscWritten(v) /\ UNCHANGED <<vmcs, reg_cached, pat>>
    BY <1>8 DEF set_guest_ia32_misc_enable
  <2>3. CASE Refused
    BY <2>1, <2>3, RefusedStep
  <2>4. CASE MiscWritten(v) /\ UNCHANGED <<vmcs, reg_cached, pat>>
    <3>1. vcpu_get_efer = vmcs.efer /\ req = {} /\ reg_updated = {} /\ vmcs.efer \in SUBSET EferNames
      BY <1>1, <2>1, Getters DEF RegsTypeOK, VmcsSet, VcpuInv, RegsInv, Pending
    <3>2. CASE "XD_DISABLE" \in v /\ "NXE" \in vmcs.efer
      <4> DEFINE new == vmcs.efer \ {"NXE"}
      <4>1. vcpu_set_efer(new) /\ req' = {"EPT_FLUSH"} /\ misc' = v /\ UNCHANGED <<vmcs, pat>>
        BY <2>4, <3>1, <3>2 DEF MiscWritten
      <4>2. new \in SUBSET EferNames /\ "NXE" \notin new /\ \A b : b # "NXE" => (b \in new <=> b \in vmcs.efer)
        BY <3>1
      <4> HIDE DEF new
      <4> QED BY <2>1, <4>1, <4>2, WriteEferStep
    <3>3. CASE ~("XD_DISABLE" \in v /\ "NXE" \in vmcs.efer)
      <4>1. misc' = v /\ UNCHANGED <<vmcs, pat, ctx, reg_updated, req, launched, tlb>>
        BY <2>1, <2>4, <3>1, <3>3 DEF MiscWritten, Handler
      <4>2. NextEfer' = vmcs.efer /\ Mode(NextEfer)' = Mode(vmcs.efer)
        BY <3>1, <4>1 DEF NextEfer, Mode
      <4>3. Shadowed' /\ Valid' /\ Translated'
        BY <2>1, <3>3, <4>1, <4>2, AtExit DEF Shadowed, Valid, Translated
      <4>4. vmcs' \in VmcsSet /\ ctx' \in CtxSet /\ misc' \in SUBSET MiscBit /\ pat' \in PatValues /\ "INIT_VMCS" \notin req'
        BY <1>1, <3>1, <4>1 DEF RegsTypeOK
      <4> QED BY <2>1, <4>3, <4>4, HandlerSuffices
    <3> QED BY <3>2, <3>3
  <2> QED BY <2>2, <2>3, <2>4
<1> QED BY <1>3, <1>4, <1>5, <1>6, <1>7, <1>8 DEF cr_access_vmexit_handler


\* Creation and INIT: both leave INIT_VMCS pending.
LEMMA ResetSteps ==
  ASSUME VcpuInv, Create \/ INIT
  PROVE  RegsTypeOK' /\ RegsInv'
<1>1. RegsTypeOK /\ Pending /\ rpc = "out"
  BY DEF VcpuInv, TypeOK, RegsInv, Create, INIT, init_vcpu_protect_mode_regs, reset_vcpu
<1>2. PICK cr0 \in {realmode_init_vregs, protect_mode_init_vregs} : SetRegs(cr0)
  BY DEF Create, INIT, init_vcpu_protect_mode_regs, reset_vcpu
<1>3. UNCHANGED <<rpc, vmcs, misc, pat, csl, powerup, hw>> /\ launched' = FALSE /\ "INIT_VMCS" \in req'
  BY <1>1 DEF Create, INIT, init_vcpu_protect_mode_regs, reset_vcpu, run, Pending, RegsTypeOK
<1>4. cr0 \in SUBSET Cr0Names
  BY <1>2 DEF realmode_init_vregs, protect_mode_init_vregs, Cr0Names
<1>5. ctx' = [cr0 |-> cr0, cr4 |-> {}, efer |-> {}] /\ "EFER" \in reg_updated' /\ ctx' \in CtxSet
  BY <1>2, <1>4 DEF SetRegs, CtxSet
<1>6. ext' \in ExtSet /\ own' \in ExtSet
  BY <1>1, <1>2 DEF SetRegs, RegsTypeOK, ExtSet
<1>7. RegsTypeOK'
  BY <1>1, <1>3, <1>5, <1>6 DEF RegsTypeOK
<1>8. Pending'
  BY <1>1, <1>2, <1>3, <1>5 DEF Pending
<1> QED BY <1>1, <1>3, <1>7, <1>8 DEF RegsInv, Cached, Shadowed, Valid, Translated

\* INIT_VMCS makes a state that is valid with the EFER of the next entry, 0.
LEMMA InitVmcsStep ==
  ASSUME VcpuInv, InitVmcs
  PROVE  RegsTypeOK' /\ RegsInv'
<1>1. /\ RegsTypeOK /\ Pending /\ rpc = "root" /\ "INIT_VMCS" \in req /\ vmcs' = InitialVmcs
      /\ "INIT_VMCS" \notin req' /\ misc' = {} /\ csl' = FALSE /\ pat' = InitialPat(pat)
      /\ UNCHANGED <<rpc, ctx, reg_updated, launched, powerup, ext, hw, own>>
  BY DEF VcpuInv, TypeOK, RegsInv, InitVmcs, init_vmcs, InitialMisc, switched
<1>2. /\ ctx.efer = {} /\ ctx.cr4 = {} /\ ctx.cr0 \in {realmode_init_vregs, protect_mode_init_vregs}
      /\ "EFER" \in reg_updated /\ ~launched
  BY <1>1 DEF Pending
<1>3. InitialPat(pat) \in PatValues /\ InitialPat(vmcs.pat) \in PatValues
  BY <1>1 DEF InitialPat, PatValues, RegsTypeOK, VmcsSet
<1> DEFINE real0 == (cr0_always_on_mask \cup ctx.cr0) \ {"CD", "NW"}
           shadow == ctx.cr0 \cup {"NE"}
<1>4. /\ real0 \in SUBSET Cr0Names /\ shadow \in SUBSET Cr0Names /\ "CD" \in shadow /\ "PG" \notin real0
      /\ real0 \cap {"PE", "PG", "WP"} = shadow \cap {"PE", "PG", "WP"}
  BY <1>2 DEF realmode_init_vregs, protect_mode_init_vregs, Cr0Names, cr0_always_on_mask
<1>5. vmcs' = [cr0 |-> real0, shadow0 |-> shadow, cr4 |-> cr4_always_on_mask, shadow4 |-> {},
               ctls |-> InitialControls, efer |-> vmcs.efer, pdptes |-> FALSE, ia32e |-> FALSE,
               pat |-> InitialPat(vmcs.pat)]
  BY <1>1, <1>2 DEF InitialVmcs
<1> HIDE DEF real0, shadow
<1>6. vmcs.efer \in SUBSET EferNames /\ cr4_always_on_mask \in SUBSET Cr4Names
  BY <1>1 DEF RegsTypeOK, VmcsSet, cr4_always_on_mask, Cr4Names
<1>7. vmcs' \in VmcsSet
  BY <1>3, <1>4, <1>5, <1>6 DEF VmcsSet
<1>8. RegsTypeOK'
  BY <1>1, <1>3, <1>7 DEF RegsTypeOK
<1>9. NextEfer' = {}
  BY <1>1, <1>2 DEF NextEfer
<1>10. Shadowed'
  BY <1>4, <1>5 DEF Shadowed, cr4_always_on_mask
<1>11. Valid'
  BY <1>1, <1>4, <1>5, <1>9 DEF Valid
<1>12. Translated'
  BY <1>1, <1>2, <1>4, <1>5 DEF Translated
<1>13. Pending' /\ Cached'
  BY <1>1, <1>2 DEF Pending, Cached
<1> QED BY <1>8, <1>10, <1>11, <1>12, <1>13 DEF RegsInv

\* The thread is switched, or an exit is handled that changes none of these registers.
LEMMA UnchangedSteps ==
  ASSUME VcpuInv,
         \/ Switch \/ NativeTimer \/ UNCHANGED vars
         \/ TscMsr \/ xsetbv_vmexit_handler \/ OtherExit \/ cpuid_vmexit_handler
  PROVE  RegsTypeOK' /\ RegsInv'
<1> USE DEF regs, run, switched, regsVars
<1>1. /\ RegsTypeOK /\ Pending /\ Cached /\ Shadowed /\ Valid /\ Translated
  BY DEF VcpuInv, TypeOK, RegsInv
<1>2. UNCHANGED <<vmcs, reg_updated, misc, pat, csl, req, launched, powerup, tlb>>
  BY DEF Switch, context_switch_in, context_switch_out, NativeTimer, vars, TscMsr, xsetbv_vmexit_handler,
         OtherExit, cpuid_vmexit_handler
<1>3. ctx' \in CtxSet /\ ctx'.efer = ctx.efer /\ ctx'.cr0 = ctx.cr0 /\ (rpc # "exit" => ctx' = ctx)
  <2>1. CASE cpuid_vmexit_handler
    <3>1. rpc = "exit" /\ ctx' = [ctx EXCEPT !.cr4 = SeenCr4]
      BY <2>1, Getters DEF cpuid_vmexit_handler, Handles, Cache4
    <3> QED BY <1>1, <3>1, SeenTypes DEF RegsTypeOK, CtxSet
  <2>2. CASE ~cpuid_vmexit_handler
    <3>1. ctx' = ctx
      BY <2>2 DEF Switch, context_switch_in, context_switch_out, NativeTimer, vars, TscMsr, xsetbv_vmexit_handler,
                  OtherExit
    <3> QED BY <1>1, <3>1 DEF RegsTypeOK
  <2> QED BY <2>1, <2>2
<1>4. /\ ext' \in ExtSet /\ hw' \in ExtSet /\ own' \in ExtSet
  <2>1. CASE xsetbv_vmexit_handler
    BY <1>1, <2>1 DEF xsetbv_vmexit_handler, RegsTypeOK, ExtSet
  <2>2. CASE context_switch_in \/ context_switch_out
    BY <1>1, <2>2 DEF context_switch_in, context_switch_out, SwitchedIn, RegsTypeOK, ExtSet
  <2>3. CASE NativeTimer \/ UNCHANGED vars \/ TscMsr \/ OtherExit \/ cpuid_vmexit_handler
    BY <1>1, <2>3 DEF NativeTimer, vars, TscMsr, OtherExit, cpuid_vmexit_handler, RegsTypeOK
  <2> QED BY <2>1, <2>2, <2>3 DEF Switch
<1>5. \/ rpc' = rpc /\ UNCHANGED <<reg_cached, ctx>>
      \/ rpc = "out" /\ rpc' = "root"
      \/ rpc = "root" /\ launched /\ rpc' = "out"
      \/ rpc = "exit" /\ rpc' = "root"
  BY DEF Switch, context_switch_in, context_switch_out, NativeTimer, vars, TscMsr, xsetbv_vmexit_handler,
         OtherExit, cpuid_vmexit_handler, Handles
<1>6. RegsTypeOK'
  BY <1>1, <1>2, <1>3, <1>4, <1>5 DEF RegsTypeOK
<1>7. Pending'
  BY <1>1, <1>2, <1>3, <1>5 DEF Pending
<1>8. Cached'
  BY <1>1, <1>2, <1>5 DEF Cached, SeenCr0
<1>9. NextEfer' = NextEfer
  BY <1>2, <1>3 DEF NextEfer
<1>10. Shadowed' /\ Valid'
  BY <1>1, <1>2, <1>9 DEF Shadowed, Valid
<1>11. Translated'
  BY <1>1, <1>2, <1>9 DEF Translated, Mode
<1> QED BY <1>6, <1>7, <1>8, <1>10, <1>11 DEF RegsInv

\* The entry writes EFER, and what is translated by is that of the guest again.
LEMMA EnterStep ==
  ASSUME VcpuInv, Enter
  PROVE  RegsTypeOK' /\ RegsInv'
<1>1. /\ RegsTypeOK /\ Shadowed /\ Valid /\ Translated
      /\ "INIT_VMCS" \notin req /\ rpc' = "guest" /\ req' = {} /\ reg_updated' = {}
      /\ powerup' = TRUE /\ launched' = TRUE /\ csl' = FALSE
      /\ UNCHANGED <<ctx, misc, pat, ext, hw, own>>
      /\ tlb' = IF ~launched \/ "EPT_FLUSH" \in req THEN PagingMode(vmcs') ELSE tlb
  BY DEF VcpuInv, TypeOK, RegsInv, Enter, EnterGuest, switched
<1>2. vmcs' = [vmcs EXCEPT !.efer = NextEfer]
  BY DEF Enter, EnterGuest, NextEfer
<1>3. NextEfer \in SUBSET EferNames
  BY <1>1 DEF NextEfer, RegsTypeOK, VmcsSet, CtxSet
<1>4. /\ vmcs' \in VmcsSet /\ vmcs'.ia32e = vmcs.ia32e /\ vmcs'.pdptes = vmcs.pdptes /\ vmcs'.pat = vmcs.pat
      /\ vmcs'.cr0 = vmcs.cr0 /\ vmcs'.shadow0 = vmcs.shadow0 /\ vmcs'.cr4 = vmcs.cr4
      /\ vmcs'.shadow4 = vmcs.shadow4 /\ vmcs'.efer = NextEfer
  BY <1>1, <1>2, <1>3 DEF RegsTypeOK, VmcsSet
<1>5. NextEfer' = NextEfer
  BY <1>1, <1>4 DEF NextEfer
<1>6. tlb' = Mode(NextEfer)'
  <2>1. PagingMode(vmcs') = Mode(NextEfer)
    BY <1>4 DEF PagingMode, Mode
  <2>2. Mode(NextEfer)' = Mode(NextEfer)
    BY <1>4, <1>5 DEF Mode
  <2> QED BY <1>1, <2>1, <2>2 DEF Translated
<1>7. RegsTypeOK'
  BY <1>1, <1>4 DEF RegsTypeOK
<1>8. Pending' /\ Cached'
  BY <1>1 DEF Pending, Cached
<1>9. Shadowed' /\ Valid'
  BY <1>1, <1>4, <1>5 DEF Shadowed, Valid
<1>10. Translated'
  BY <1>1, <1>4, <1>6 DEF Translated
<1> QED BY <1>7, <1>8, <1>9, <1>10 DEF RegsInv

\* The guest owns no bit that decides how its memory is translated.
LEMMA ExitStep ==
  ASSUME VcpuInv, Leave
  PROVE  RegsTypeOK' /\ RegsInv'
<1>1. /\ RegsTypeOK /\ Pending /\ Shadowed /\ Valid /\ Translated
      /\ rpc = "guest" /\ rpc' = "exit" /\ csl' \in BOOLEAN
      /\ UNCHANGED <<reg_updated, misc, pat, req, launched, powerup, tlb, ext>>
      /\ reg_cached' = {"EFER", "CR0"}
      /\ ctx' = [efer |-> vmcs'.efer, cr0 |-> Seen(vmcs'.shadow0, vmcs'.cr0, cr0_host_mask), cr4 |-> {}]
  BY DEF VcpuInv, TypeOK, RegsInv, Leave, Exit, AfterExit, run
<1>2. PICK own0 \in SUBSET (Cr0Bit \ (cr0_host_mask \cup {"R"})), own4 \in SUBSET (Cr4Bit \ (cr4_host_mask \cup {"R"})) :
        vmcs' = [vmcs EXCEPT !.cr0 = (@ \cap cr0_host_mask) \cup own0,
                             !.cr4 = (@ \cap cr4_host_mask) \cup own4,
                             !.pdptes = @ /\ "PG" \in vmcs.cr0 /\ "PAE" \in vmcs.cr4 /\ ~vmcs.ia32e]
  BY DEF Leave, Exit
<1> DEFINE real0 == (vmcs.cr0 \cap cr0_host_mask) \cup own0
           real4 == (vmcs.cr4 \cap cr4_host_mask) \cup own4
           pdptes == vmcs.pdptes /\ "PG" \in vmcs.cr0 /\ "PAE" \in vmcs.cr4 /\ ~vmcs.ia32e
<1>3. vmcs' = [vmcs EXCEPT !.cr0 = real0, !.cr4 = real4, !.pdptes = pdptes]
  BY <1>1, <1>2 DEF RegsTypeOK, VmcsSet
<1>4. /\ real0 \in SUBSET Cr0Names /\ real4 \in SUBSET Cr4Names /\ pdptes \in BOOLEAN
  BY <1>1 DEF RegsTypeOK, VmcsSet, Cr0Names, Cr4Names
<1>5. /\ \A b \in {"PE", "PG", "WP"} : b \in real0 <=> b \in vmcs.cr0
      /\ \A b \in {"PAE", "PSE", "SMEP", "SMAP"} : b \in real4 <=> b \in vmcs.cr4
  BY DEF cr0_host_mask, CR0_TRAP_MASK, cr4_host_mask, CR4_TRAP_MASK
<1>6. pdptes <=> vmcs.pdptes /\ "PG" \in vmcs.cr0 /\ "PAE" \in vmcs.cr4 /\ ~vmcs.ia32e
  OBVIOUS
<1> HIDE DEF real0, real4, pdptes
<1>7. /\ vmcs' \in VmcsSet /\ vmcs'.ia32e = vmcs.ia32e /\ vmcs'.pdptes = pdptes /\ vmcs'.pat = vmcs.pat
      /\ vmcs'.cr0 = real0 /\ vmcs'.shadow0 = vmcs.shadow0 /\ vmcs'.cr4 = real4
      /\ vmcs'.shadow4 = vmcs.shadow4 /\ vmcs'.efer = vmcs.efer
  BY <1>1, <1>3, <1>4 DEF RegsTypeOK, VmcsSet
<1>8. ctx' \in CtxSet
  <2>1. Seen(vmcs'.shadow0, vmcs'.cr0, cr0_host_mask) \in SUBSET Cr0Names /\ vmcs'.efer \in SUBSET EferNames
    BY <1>7 DEF Seen, VmcsSet
  <2> QED BY <1>1, <2>1 DEF CtxSet
<1>9. own' \in ExtSet /\ hw' \in ExtSet
  BY <1>1 DEF Leave, Exit, RegsTypeOK, ExtSet
<1>10. RegsTypeOK'
  BY <1>1, <1>7, <1>8, <1>9 DEF RegsTypeOK
<1>11. NextEfer = vmcs.efer /\ NextEfer' = vmcs.efer /\ req = {} /\ req' = {} /\ launched
  BY <1>1, <1>7 DEF NextEfer, Pending
<1>12. Pending' /\ Cached'
  BY <1>1, <1>11 DEF Pending, Cached, SeenCr0
<1>13. Shadowed'
  BY <1>1, <1>5, <1>7, <1>11 DEF Shadowed
<1>14. Valid'
  BY <1>1, <1>5, <1>6, <1>7, <1>11 DEF Valid
<1>15. Translated'
  <2>1. Mode(NextEfer)' = Mode(NextEfer)
    BY <1>5, <1>7, <1>11 DEF Mode
  <2> QED BY <1>1, <1>7, <1>11, <2>1 DEF Translated
<1> QED BY <1>10, <1>12, <1>13, <1>14, <1>15 DEF RegsInv

LEMMA NextInv == VcpuInv /\ [Next]_vars => VcpuInv'
<1> SUFFICES ASSUME VcpuInv, [Next]_vars PROVE VcpuInv'
  OBVIOUS
<1>1. RegsTypeOK' /\ RegsInv'
  <2>1. CASE Create \/ INIT
    BY <2>1, ResetSteps
  <2>2. CASE InitVmcs
    BY <2>2, InitVmcsStep
  <2>3. CASE Switch \/ NativeTimer \/ UNCHANGED vars
    BY <2>3, UnchangedSteps
  <2>4. CASE Enter
    BY <2>4, EnterStep
  <2>5. CASE Leave
    BY <2>5, ExitStep
  <2>6. CASE vmexit_handler
    BY <2>6, UnchangedSteps, RegisterHandlers
       DEF vmexit_handler, wrmsr_vmexit_handler, rdmsr_vmexit_handler, InstructionExit
  <2> QED BY <2>1, <2>2, <2>3, <2>4, <2>5, <2>6 DEF Next
<1> QED BY <1>1, SwitchedStep, TscStep, OffsetStep, ArmedStep DEF VcpuInv, TypeOK, ClockInv, TscAsWritten

-----------------------------------------------------------------------------
(***************************************************************************)
(* Theorems.                                                               *)
(***************************************************************************)
\* The inductive invariant holds of every vCPU, from its creation through any number
\* of exits and INITs.
THEOREM VcpuInvariance == Spec => []VcpuInv
  BY InitInv, NextInv, PTL DEF Spec

\* The state run_vcpu enters the guest with is one that VM entry accepts.
THEOREM EntryIsValid == Spec => []GuestStateValid
<1>1. VcpuInv => GuestStateValid
  <2> SUFFICES ASSUME VcpuInv, rpc = "guest" PROVE GuestStateValid
    BY DEF GuestStateValid
  <2>1. Pending /\ Valid
    BY DEF VcpuInv, RegsInv
  <2>2. "INIT_VMCS" \notin req /\ NextEfer = vmcs.efer
    BY <2>1 DEF Pending, NextEfer
  <2> QED BY <2>1, <2>2 DEF Valid, GuestStateValid
<1> QED BY <1>1, VcpuInvariance, PTL

\* No translation and no memory type of an earlier mode is left when the guest runs.
THEOREM TranslationIsCurrent == Spec => []TranslationFollowsGuest
<1>1. VcpuInv => TranslationFollowsGuest
  <2> SUFFICES ASSUME VcpuInv, rpc = "guest" PROVE TranslationFollowsGuest
    BY DEF TranslationFollowsGuest
  <2>1. Pending /\ Translated
    BY DEF VcpuInv, RegsInv
  <2>2. req = {} /\ launched /\ NextEfer = vmcs.efer
    BY <2>1 DEF Pending, NextEfer
  <2>3. Mode(NextEfer) = PagingMode(vmcs)
    BY <2>2 DEF Mode, PagingMode
  <2> QED BY <2>1, <2>2, <2>3 DEF Translated, TranslationFollowsGuest
<1> QED BY <1>1, VcpuInvariance, PTL

\* The thread switch gives the guest the XCR0 and GS base it has set itself.
THEOREM ExtendedStateIsOwn == Spec => []OwnExtendedState
<1>1. VcpuInv => OwnExtendedState
  BY DEF VcpuInv, Switched, OwnExtendedState
<1> QED BY <1>1, VcpuInvariance, PTL

\* TSC_ADJUST and the interception follow the offset, the deadline reads back, and the timer
\* of the processor is armed for it, for every TscMod.
THEOREM ClockIsAsWritten == Spec => []TscAsWritten
<1>1. VcpuInv => TscAsWritten
  BY DEF VcpuInv
<1> QED BY <1>1, VcpuInvariance, PTL
=============================================================================
