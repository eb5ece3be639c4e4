------------------------------ MODULE VcpuState ------------------------------
(***************************************************************************)
(* The register state of one vCPU, from its creation through its exits to  *)
(* INIT and its next start: VcpuRegs and VcpuTsc, which init_vmcs and INIT *)
(* set together, and the CPUID table of the VM on several processors.      *)
(***************************************************************************)
EXTENDS VcpuRegs, VcpuTsc, Msrs

CONSTANTS Level, Subleaves, Xlevel      \* processors that CPUID may describe

vars == <<regsVars, tscVars>>

\* Guests that use the three groups of registers apart from each other; a native
\* TSC_ADJUST other than 0 matters to the last only.
Init ==
    /\ RegsInit /\ TscInit
    /\ focus \in {"regs", "ext", "tsc"}
    /\ focus # "tsc" => padjust = 0

Create == init_vcpu_protect_mode_regs /\ UNCHANGED tscVars
INIT == reset_vcpu /\ reset_tsc
InitVmcs == init_vmcs /\ init_tsc
Switch == (context_switch_in \/ context_switch_out) /\ UNCHANGED tscVars
Enter == EnterGuest /\ UNCHANGED tscVars
Leave == Exit /\ UNCHANGED tscVars

cr_access_vmexit_handler == (MovToCr0 \/ Lmsw \/ MovToCr4) /\ UNCHANGED tscVars

\* The MSRs of the TSC, which leave the other registers alone.
TscMsr == Handles("tsc") /\ UNCHANGED <<focus, safety, regs, run, answer, switched>>

wrmsr_vmexit_handler ==
    \/ (write_efer_msr \/ write_pat_msr \/ set_guest_ia32_misc_enable) /\ UNCHANGED tscVars
    \/ TscMsr /\ \E t \in Tsc : set_guest_tsc(t) \/ set_guest_tsc_adjust(t) \/ vlapic_set_tsc_deadline_msr(t)

\* Of the reads that exit only that of TSC_DEADLINE changes anything.
rdmsr_vmexit_handler == TscMsr /\ vlapic_get_tsc_deadline_msr

\* The other exits leave the TSC alone.
InstructionExit ==
    (cpuid_vmexit_handler \/ xsetbv_vmexit_handler \/ OtherExit) /\ UNCHANGED tscVars

vmexit_handler ==
    cr_access_vmexit_handler \/ wrmsr_vmexit_handler \/ rdmsr_vmexit_handler \/ InstructionExit

NativeTimer ==
    /\ focus = "tsc"
    /\ \/ rpc = "guest" /\ \E t \in Tsc : WriteNative(t)
       \/ Expire
    /\ UNCHANGED regsVars

Next ==
    \/ Create \/ INIT \/ InitVmcs \/ Switch \/ Enter \/ Leave
    \/ vmexit_handler \/ NativeTimer

Spec == Init /\ [][Next]_vars

-----------------------------------------------------------------------------
(* Properties.                                                             *)

\* The guest enters with the controls, EFER and CR0 that VM entry accepts: IA-32e
\* mode exactly when LMA is set, LMA exactly when LME and paging are, and then
\* PAE; with PAE paging the PDPTEs are in the VMCS; and no execute-disable in a
\* guest that has turned the feature off.  CR0, CR4, EFER and the entry controls
\* are written by different handlers and at different times (EFER only by
\* run_vcpu).
GuestStateValid ==
    rpc = "guest" =>
      /\ vmcs.ia32e <=> "LMA" \in vmcs.efer
      /\ "LMA" \in vmcs.efer <=> {"LME"} \subseteq vmcs.efer /\ "PG" \in vmcs.cr0
      /\ vmcs.ia32e => "PAE" \in vmcs.cr4
      /\ "PG" \in vmcs.cr0 => "PE" \in vmcs.cr0
      /\ "PG" \in vmcs.cr0 /\ "PAE" \in vmcs.cr4 /\ ~vmcs.ia32e => vmcs.pdptes
      /\ "XD_DISABLE" \in misc => "NXE" \notin vmcs.efer

\* The controls and the handlers agree, at every start of the vCPU: whatever the
\* processor forces on, no instruction of the guest, no interrupt and no exception
\* makes an exit that dispatch_table or exception_vmexit_handler takes for
\* unexpected, which shuts down the VM; and no instruction that is undefined in the
\* guest is shown to it by CPUID.
ExitsHandled ==
    rpc = "guest" =>
      /\ \A exit \in ExitsOf(vmcs.ctls) : dispatch_table[exit] # "unexpected"
      /\ \A v \in exception_bitmap : exception_vmexit_handler(v) # "fatal_error_shutdown_vm"
      /\ LET hidden == Undefined(vmcs.ctls)
         IN  /\ "MONITOR" \in hidden => guest_cpuid_01h({"MONITOR"}, {}, safety) = {}
             /\ "XSVE_XRSTR" \in hidden => guest_cpuid_0dh({"XSAVES"}, 1) = {}
             /\ "INVPCID" \in hidden => "INVPCID" \in init_vcpuid_entry(7, 0, TRUE).hides
             /\ "RDPMC" \in hidden => 10 \in Hidden
             /\ "RDTSCP" \notin hidden

\* How memory is translated and cached when the guest runs follows its last writes:
\* no translation of an earlier paging mode is left (every emulated write that
\* the processor would follow by a flush requests one), and with caches enabled
\* the PAT is the one the guest has written last, also while they were disabled.
TranslationFollowsGuest ==
    rpc = "guest" => /\ tlb = PagingMode(vmcs)
                     /\ "CD" \notin vmcs.shadow0 => vmcs.pat = pat

\* The guest runs with the XCR0 and GS base that it has set itself, however often
\* its thread was switched.
OwnExtendedState == rpc = "guest" => hw = own

\* TSC_ADJUST of the guest and the offset of its TSC change together.
TscAdjustTracksOffset == "INIT_VMCS" \notin req => offset = Sub(vadjust, padjust)

\* The guest reads the deadline it has written, or 0 after the timer expired,
\* however the interception changed in between.
DeadlineReadsBack == wrote # NoDeadline => DeadlineRead = wrote

\* The timer of the processor is armed exactly if the guest's is, for the guest's
\* deadline less the offset the TSC of the guest had when the deadline was written or
\* its interception ended.  Not so while the offset is the one that init_exec_ctrl has
\* derived from a TSC_ADJUST of the processor: then the guest writes the native
\* deadline itself.
DeadlineArmed ==
    wrote # NoDeadline =>
      /\ pdl = 0 <=> wrote = 0
      /\ wrote # 0 => \/ Add(pdl, under) = wrote
                      \/ pdl = 1 /\ under = wrote
                      \/ pdl = wrote /\ under = Sub(0, padjust)

\* The guest writes the native deadline itself only while its TSC has no offset, or the
\* first one it was given: it has moved neither its TSC nor its TSC_ADJUST since.
InterceptedAsOffset ==
    "INIT_VMCS" \notin req => IF intercepted THEN offset # 0 ELSE offset = 0 \/ vadjust = 0

\* All together: the guest's clock and its timer are as it has written them.
TscAsWritten == TscAdjustTracksOffset /\ DeadlineReadsBack /\ DeadlineArmed /\ InterceptedAsOffset

\* The comment in update_msr_bitmap_x2apic_passthru: TSC_DEADLINE is intercepted
\* if the TSC offset is not 0.
InterceptedWhenOffset == rpc = "guest" /\ offset # 0 => intercepted

Processors == [level : Level, subleaves : Subleaves, xlevel : Xlevel]

\* The reference for the search in the CPUID table: the only entry for a leaf.
EntryFor(T, proc, leaf, subleaf) ==
    LET S(l) == {i \in 1 .. Len(T) : Answers(T[i], l, subleaf)}
        limit == IF leaf >= Ext THEN Ext + proc.xlevel ELSE proc.level
        S1 == IF S(leaf) = {} /\ leaf > limit THEN S(proc.level) ELSE S(leaf)
    IN  IF S1 = {} THEN NoEntry ELSE CHOOSE i \in S1 : \A k \in S1 : i <= k

\* What CPUID tells a guest.  OSXSAVE of leaf 1 is as the guest has it in CR4 now,
\* though it changes that bit without an exit and CR4 is cached between reads.
\* When the VM is created, on every processor described: the halved linear
\* search finds the entry of every leaf and subleaf that has one and no other,
\* and leaf 2 for what a limited guest does not have; the ids of all vCPUs fit
\* the width of their level; a feature is hidden everywhere or nowhere (MPX,
\* processor trace and INVPCID are each in two leaves), it is hidden exactly if
\* CR4 refuses its bit, and the state components of leaf 0DH are those that
\* XSETBV accepts.
CpuidAnswers ==
  /\ answer # None => ("OSXSAVE" \in answer <=> "OSXSAVE" \in SeenCr4)
  /\ ~powerup /\ rpc = "out" =>
      /\ \A proc \in Processors : LET T == set_vcpuid_entries(proc) IN
           \A leaf \in 0 .. proc.level + 2 \cup Ext .. Ext + proc.xlevel + 2, sub \in 0 .. 3 :
             /\ guest_cpuid(T, proc, FALSE, leaf, sub) = EntryFor(T, proc, leaf, sub)
             /\ guest_cpuid(T, proc, TRUE, leaf, sub) =
                  IF leaf \in 3 .. Ext - 1 \/ leaf > Ext + proc.xlevel THEN EntryFor(T, proc, 2, 0)
                  ELSE EntryFor(T, proc, leaf, sub)
      /\ \A proc \in {p \in Processors : p.level >= 7} :
           LET T == set_vcpuid_entries(proc)
               hides == T[guest_cpuid(T, proc, FALSE, 7, 0)].hides
           IN  /\ "MPX" \in hides <=> guest_cpuid_0dh({"BNDREGS", "BNDCSR"}, 0) = {}
               /\ "PROC_TRC" \in hides <=> guest_cpuid_0dh({"PT"}, 1) = {}
               /\ "INVPCID" \in hides <=> guest_cpuid_01h({"PCIDE"}, {}, safety) = {}
      /\ \A f \in {"VMXE", "SMXE", "PCIDE", "DE", "VME", "MCE", "PSE", "PAE"} :
           guest_cpuid_01h({f}, {}, safety) = {} <=> ~is_cr4_write_valid({f})
      /\ \A n \in 1 .. 9 : LET level == guest_cpuid_0bh(1, n)
                          IN  2 ^ level.shift >= level.count /\ (n > 1 => 2 ^ (level.shift - 1) < n)
      /\ \A v \in SUBSET {"X87", "SSE", "AVX", "BNDREGS", "BNDCSR"} :
           "X87" \in v /\ ("AVX" \in v => "SSE" \in v) =>
             (XsetbvRefused(0, v) <=> ~(v \subseteq guest_cpuid_0dh({"X87", "SSE", "AVX", "BNDREGS", "BNDCSR"}, 0)))

\* The MSR bitmap, the ranges the handlers test and IA32_MCG_CAP agree: a VM
\* reaches CTL, CTL2 and STATUS of the banks that are reported to it and nothing
\* else of any bank; no access to the x2APIC exits only to be refused; and an MSR
\* that is written without an exit is read without one, but for MCi_STATUS.
MsrAccess ==
    ~powerup /\ rpc = "out" =>
      LET Bank(b) == {MSR_IA32_MC0_CTL2 + b, MSR_IA32_MC0_CTL + 4 * b, MSR_IA32_MC0_STATUS + 4 * b}
          Reported == UNION {Bank(b) : b \in 0 .. ReportedBanks(safety) - 1}
          BankMsrs == \h280 .. \h28B \cup \h400 .. \h42A
          bitmap == init_msr_emulation(safety)
      IN  /\ Readable(safety) \cap BankMsrs = Reported
          /\ Writable(safety) \cap BankMsrs = Reported
          /\ x2apic_msrs \subseteq Readable(safety) \cap Writable(safety)
          /\ \A m \in Msr \ bitmap.write : m \notin bitmap.read \/ is_mc_status_msr(m) \/ is_x2apic_msr(m)

\* Both together: the tables the guest is answered from agree with each other.
AnswersAgree == CpuidAnswers /\ MsrAccess
=============================================================================
