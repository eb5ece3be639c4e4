-------------------------------- MODULE Msrs --------------------------------
(***************************************************************************)
(* The MSR bitmap of a vCPU (init_msr_emulation) and the accesses that     *)
(* exit through it: which rdmsr_vmexit_handler and wrmsr_vmexit_handler    *)
(* answer and which they refuse with #GP (arch/x86/guest/vmsr.c).          *)
(*                                                                         *)
(* An MSR is its address; High stands for 0xC0000000.  The interception of *)
(* TSC_DEADLINE changes while the guest runs and is in VcpuTsc.            *)
(***************************************************************************)
EXTENDS Naturals

High == 16384

NUM_MC_BANKS == 10
MSR_IA32_MC0_CTL2 == \h280
MSR_IA32_MC4_CTL2 == \h284
MSR_IA32_MC0_CTL == \h400
MSR_IA32_MC0_STATUS == \h401
MSR_IA32_TIME_STAMP_COUNTER == \h10
MSR_IA32_EFER == High + \h80
MSR_IA32_EXT_XAPICID == \h802
MSR_IA32_EXT_APIC_LDR == \h80D
MSR_IA32_EXT_APIC_ICR == \h830

unintercepted_msrs ==
    {\h17, \h49, 12 * 16 + 14, \h10B, \h13C, \h174, \h175, \h176}
      \cup High + \h81 .. High + \h84 \cup High + \h100 .. High + \h103

x2apic_msrs ==
    {\h802, \h803, \h808, \h80A, \h80B, \h80D, \h80F} \cup \h810 .. \h828
      \cup {\h82F, \h830} \cup \h832 .. \h839 \cup {\h83E, \h83F}

\* The cases of the two handlers, without the machine-check banks and the x2APIC;
\* the last set takes the value 0 only.
ReadCases == {\h0, \h1, \h17A, \h3B, \h8B, \h277, \h1B, \h3A, \h1A0, \h48, \h6, \h179}
WriteCases == {\h3B, \h10, \h277, MSR_IA32_EFER, \h1A0, \h48, \h6}
WriteZeroCases == {\h0, \h1, \h17A, \h8B}

\* The MSRs looked at: those above and the neighbours of the ranges.
Msr ==
    ReadCases \cup WriteCases \cup WriteZeroCases \cup unintercepted_msrs
      \cup \h27F .. \h28B \cup \h3FF .. \h42A \cup \h7FF .. \h840

is_mc_ctl2_msr(msr) == msr >= MSR_IA32_MC0_CTL2 /\ msr < MSR_IA32_MC0_CTL2 + NUM_MC_BANKS

is_mc_ctl_msr(msr) ==
    msr >= MSR_IA32_MC0_CTL /\ msr < MSR_IA32_MC0_CTL + 4 * NUM_MC_BANKS /\ msr % 4 = 0

is_mc_status_msr(msr) ==
    msr >= MSR_IA32_MC0_STATUS /\ msr < MSR_IA32_MC0_STATUS + 4 * NUM_MC_BANKS /\ msr % 4 = 1

is_x2apic_msr(msr) == msr \in x2apic_msrs

-----------------------------------------------------------------------------
(* The bitmap: the MSRs whose reads and whose writes exit.                 *)

enable_msr_interception(bitmap, msrs, mode) ==
    [read |-> IF "READ" \in mode THEN bitmap.read \cup msrs ELSE bitmap.read \ msrs,
     write |-> IF "WRITE" \in mode THEN bitmap.write \cup msrs ELSE bitmap.write \ msrs]

intercept_x2apic_msrs(bitmap, mode) == enable_msr_interception(bitmap, x2apic_msrs, mode)

update_msr_bitmap_x2apic_passthru(bitmap) ==
    LET b1 == intercept_x2apic_msrs(bitmap, {})
        b2 == enable_msr_interception(b1, {MSR_IA32_EXT_XAPICID, MSR_IA32_EXT_APIC_LDR}, {"READ"})
    IN  enable_msr_interception(b2, {MSR_IA32_EXT_APIC_ICR}, {"READ", "WRITE"})

\* What init_msr_emulation changes for the safety VM: the banks.
SafetyBanks(bitmap) ==
    LET Every4th(first) == {first + 4 * b : b \in 0 .. NUM_MC_BANKS - 1}
        b1 == enable_msr_interception(bitmap, MSR_IA32_MC0_CTL2 .. MSR_IA32_MC4_CTL2 - 1, {})
        b2 == enable_msr_interception(b1, Every4th(MSR_IA32_MC0_CTL), {})
    IN  enable_msr_interception(b2, Every4th(MSR_IA32_MC0_STATUS), {"READ"})

init_msr_emulation(safety) ==
    LET b1 == enable_msr_interception([read |-> Msr, write |-> Msr], unintercepted_msrs, {})
        b2 == enable_msr_interception(b1, {MSR_IA32_TIME_STAMP_COUNTER, MSR_IA32_EFER}, {"WRITE"})
    IN  update_msr_bitmap_x2apic_passthru(IF safety THEN SafetyBanks(b2) ELSE b2)

-----------------------------------------------------------------------------
(* The handlers: whether they end without #GP.                             *)

\* The registers of the virtual local APIC that can be read, by their offsets.
x2apic_msr_to_regoff(msr) == ((msr - \h800) % \h400) * 16
vlapic_read(offset) == offset \in {\h20, 13 * 16, \h300}

vlapic_x2apic_read(msr) ==
    /\ msr \in {MSR_IA32_EXT_APIC_LDR, MSR_IA32_EXT_XAPICID, MSR_IA32_EXT_APIC_ICR}
    /\ vlapic_read(x2apic_msr_to_regoff(msr))

vlapic_x2apic_write(msr) == msr = MSR_IA32_EXT_APIC_ICR

rdmsr_answered(safety, msr) ==
    \/ msr \in ReadCases
    \/ safety /\ (is_mc_ctl2_msr(msr) \/ is_mc_ctl_msr(msr) \/ is_mc_status_msr(msr))
    \/ is_x2apic_msr(msr) /\ vlapic_x2apic_read(msr)

wrmsr_answered(safety, msr, value) ==
    \/ msr \in WriteCases
    \/ msr \in WriteZeroCases /\ value = 0
    \/ safety /\ (is_mc_ctl2_msr(msr) \/ is_mc_ctl_msr(msr) \/ is_mc_status_msr(msr))
    \/ is_x2apic_msr(msr) /\ vlapic_x2apic_write(msr)

\* MCG_CAP_FOR_SAFETY_VM: the number of banks that IA32_MCG_CAP reports.
ReportedBanks(safety) == IF safety THEN \h040A % 256 ELSE 0

\* What a guest can read, and write any value to.
Readable(safety) ==
    {m \in Msr : m \in init_msr_emulation(safety).read => rdmsr_answered(safety, m)}
Writable(safety) ==
    {m \in Msr : m \in init_msr_emulation(safety).write => wrmsr_answered(safety, m, 1)}
=============================================================================
