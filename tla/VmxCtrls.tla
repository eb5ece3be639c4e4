------------------------------ MODULE VmxCtrls ------------------------------
(***************************************************************************)
(* The VMX controls that init_vmcs gives a vCPU (arch/x86/guest/vmcs.c), as *)
(* one set of names, the exits they cause, and the handler that            *)
(* dispatch_table (arch/x86/guest/vmexit.c) has for each exit.             *)
(***************************************************************************)
EXTENDS TLC

CONSTANTS AllowedZero,  \* controls that the processor sets whatever is asked for
          AllowedOne    \* controls that it can set

\* The MSRs IA32_VMX_*_CTLS: what is asked for, as far as the processor has it.
check_vmx_ctrl(ctrl_req, msr) == (ctrl_req \cap AllowedOne) \cup (AllowedZero \cap msr)

\* The controls that share an MSR.
PINBASED == {"IRQ_EXIT"}
PROCBASED ==
    {"IRQ_WIN", "TSC_OFF", "INVLPG", "MWAIT", "RDPMC", "CR3_LOAD", "CR3_STORE", "CR8_LOAD", "CR8_STORE",
     "TPR_SHADOW", "MOV_DR", "IO_BITMAP", "MSR_BITMAP", "MONITOR", "SECONDARY"}
PROCBASED2 == {"VAPIC", "EPT", "RDTSCP", "VPID", "WBINVD", "UNRESTRICT", "INVPCID", "XSVE_XRSTR"}
EXIT_CTLS == {"SAVE_DEBUGCTL", "HOST_ADDR64", "ACK_IRQ", "SAVE_PAT", "LOAD_HOST_PAT", "SAVE_EFER", "LOAD_HOST_EFER"}
ENTRY_CTLS == {"LOAD_DEBUGCTL", "LOAD_PAT", "LOAD_EFER"}

PinControls == check_vmx_ctrl({"IRQ_EXIT"}, PINBASED)

ProcControls ==
    (check_vmx_ctrl({"TSC_OFF", "TPR_SHADOW", "IO_BITMAP", "MSR_BITMAP", "SECONDARY"}, PROCBASED)
       \ {"CR3_LOAD", "CR3_STORE", "CR8_LOAD", "CR8_STORE", "INVLPG"})
      \cup {"RDPMC", "MWAIT", "MOV_DR", "MONITOR"}

Proc2Controls ==
    ((check_vmx_ctrl({"VAPIC", "EPT", "RDTSCP", "UNRESTRICT"}, PROCBASED2) \cup {"VPID"}) \ {"XSVE_XRSTR"})
      \cup {"WBINVD"}

init_exec_ctrl == PinControls \cup ProcControls \cup Proc2Controls

\* VMX_EXCEPTION_BITMAP: the exceptions that exit, by their vectors, and what the
\* guest gets for one: another exception, or the end of its VM.
exception_bitmap == {1}
exception_vmexit_handler(vector) == IF vector = 1 THEN "#GP" ELSE "fatal_error_shutdown_vm"

init_entry_ctrl == check_vmx_ctrl({"LOAD_EFER", "LOAD_PAT"}, ENTRY_CTLS) \ {"LOAD_DEBUGCTL"}

init_exit_ctrl ==
    check_vmx_ctrl({"ACK_IRQ", "SAVE_PAT", "LOAD_HOST_PAT", "LOAD_HOST_EFER", "SAVE_EFER", "HOST_ADDR64"}, EXIT_CTLS)
      \ {"SAVE_DEBUGCTL"}

\* Mutant: the interrupts of the guest go on to exit.
switch_keeps_irq_exit(ctls) == ctls \ {"ACK_IRQ", "TPR_SHADOW", "VAPIC"}

\* The guest has the local APIC: its interrupts do not exit.
switch_apicv_mode_x2apic(ctls) == ctls \ {"IRQ_EXIT", "ACK_IRQ", "TPR_SHADOW", "VAPIC"}

InitialControls == switch_apicv_mode_x2apic(init_exec_ctrl \cup init_entry_ctrl \cup init_exit_ctrl)

-----------------------------------------------------------------------------
(* Exits.  Those for accesses to control registers are told apart by their *)
(* qualification, as cr_access_vmexit_handler does.                        *)

\* What exits without a control.
Unconditional ==
    {"INIT_SIGNAL", "TASK_SWITCH", "CPUID", "INVD", "XSETBV", "VMX_INSTRUCTION", "INVEPT", "INVVPID",
     "IO_INSTRUCTION", "RDMSR", "WRMSR", "EXCEPTION_OR_NMI", "MOV_TO_CR0", "LMSW", "MOV_TO_CR4"}

\* The exit that a control causes.
Causes ==
    {<<"IRQ_EXIT", "EXTERNAL_INTERRUPT">>, <<"IRQ_WIN", "INTERRUPT_WINDOW">>,
     <<"INVLPG", "INVLPG">>, <<"MWAIT", "MWAIT">>, <<"MONITOR", "MONITOR">>,
     <<"RDPMC", "RDPMC">>, <<"CR3_LOAD", "MOV_TO_CR3">>, <<"CR3_STORE", "MOV_FROM_CR3">>,
     <<"CR8_LOAD", "MOV_TO_CR8">>, <<"CR8_STORE", "MOV_FROM_CR8">>, <<"TPR_SHADOW", "TPR_BELOW_THRESHOLD">>,
     <<"MOV_DR", "DR_ACCESS">>, <<"VAPIC", "APIC_ACCESS">>, <<"EPT", "EPT_VIOLATION">>,
     <<"WBINVD", "WBINVD">>, <<"INVPCID", "INVPCID">>, <<"XSVE_XRSTR", "XSAVES">>}

ExitsOf(ctls) == Unconditional \cup {p[2] : p \in {q \in Causes : q[1] \in ctls}}

\* dispatch_table, by the number of the exit: events (0 to 8), ...
Events ==
    [EXCEPTION_OR_NMI |-> "exception", EXTERNAL_INTERRUPT |-> "unexpected", TRIPLE_FAULT |-> "unexpected",
     INIT_SIGNAL |-> "init_signal", INTERRUPT_WINDOW |-> "unexpected"]

\* ... instructions (9 to 32); cr_access_vmexit_handler takes the other accesses to
\* control registers for impossible, ...
Instructions ==
    [TASK_SWITCH |-> "taskswitch", CPUID |-> "cpuid", INVD |-> "invd", INVLPG |-> "unexpected",
     RDPMC |-> "undefined", VMX_INSTRUCTION |-> "undefined",
     MOV_TO_CR0 |-> "cr_access", LMSW |-> "cr_access", MOV_TO_CR4 |-> "cr_access",
     MOV_TO_CR3 |-> "unexpected", MOV_FROM_CR3 |-> "unexpected",
     MOV_TO_CR8 |-> "unexpected", MOV_FROM_CR8 |-> "unexpected",
     DR_ACCESS |-> "movdr", IO_INSTRUCTION |-> "pio_instr", RDMSR |-> "rdmsr", WRMSR |-> "wrmsr"]

\* ... and what was added with later processors (33 to 64).
Extensions ==
    [MWAIT |-> "undefined", MONITOR |-> "undefined", TPR_BELOW_THRESHOLD |-> "unexpected",
     APIC_ACCESS |-> "unexpected", EPT_VIOLATION |-> "ept_violation", INVEPT |-> "undefined",
     INVVPID |-> "undefined", WBINVD |-> "wbinvd", XSETBV |-> "xsetbv", INVPCID |-> "unexpected",
     XSAVES |-> "unexpected"]

dispatch_table == Events @@ Instructions @@ Extensions

\* Instructions that are undefined in the guest: their exit injects #UD, or the
\* control that enables them is off.
Undefined(ctls) ==
    {x \in ExitsOf(ctls) : dispatch_table[x] = "undefined"} \cup ({"INVPCID", "XSVE_XRSTR", "RDTSCP"} \ ctls)
=============================================================================
