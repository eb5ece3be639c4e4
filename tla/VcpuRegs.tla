------------------------------ MODULE VcpuRegs ------------------------------
(***************************************************************************)
(* The control registers and MSRs of a vCPU that decide how its memory is  *)
(* translated: CR0, CR4 (virtual_cr.c), EFER, PAT and MISC_ENABLE          *)
(* (vmsr.c), where they live (the VMCS, the run context with its bits      *)
(* "cached" and "updated", the guest MSR array), how init_vmcs (vmcs.c)    *)
(* and INIT set them, and the state that is switched with the thread       *)
(* (vcpu.c).  A register is the set of the names of the bits that are set. *)
(*                                                                         *)
(* What the guest does without an exit happens in the step that ends its   *)
(* run: it may change the bits it owns, CS.L and CR3.                      *)
(***************************************************************************)
EXTENDS Cpuid, VmxCtrls

CONSTANTS Cr0Bit, Cr4Bit, EferBit, MiscBit,   \* bits that guests write
          Pat,                  \* values that guests write to the PAT
          SafetyVm,             \* whether the VM may be the safety VM
          Features,             \* CPUID features of the processor
          None

CR0_TRAP_MASK == {"PE", "PG", "WP", "CD", "NW"}
CR4_TRAP_MASK == {"PSE", "PAE", "VMXE", "PCIDE", "SMEP", "SMAP", "PKE", "SMXE",
                  "DE", "MCE", "PCE", "VME", "PVI"}
MSR_IA32_EFER_MASK == {"SCE", "LME", "LMA", "NXE"}
MSR_IA32_MISC_ENABLE_MASK == {"LIMIT_CPUID", "XD_DISABLE"}

\* init_cr0_cr4_host_mask: what IA32_VMX_CR0_FIXED0/1 and IA32_VMX_CR4_FIXED0/1
\* make of the masks; "R" stands for the bits that may never be set.
cr0_always_on_mask == {"NE"}
cr0_always_off_mask == {"R"}
cr0_host_mask == CR0_TRAP_MASK \cup cr0_always_on_mask
cr4_always_on_mask == {"VMXE"}
cr4_always_off_mask == {"R"}
cr4_host_mask == CR4_TRAP_MASK \cup cr4_always_on_mask

VARIABLES focus,    \* what this guest uses: "regs", "ext" or "tsc"
          rpc,      \* where the thread is: "out", "root", "guest", "exit"
          safety,   \* the vCPU is of the safety VM
          vmcs,     \* guest fields of the VMCS
          ctx,      \* vcpu->arch.context.run_ctx
          reg_cached, reg_updated,
          misc, pat,            \* guest_msrs: MISC_ENABLE and PAT
          csl,                  \* the L bit of CS in the VMCS
          req,                  \* pending_req
          launched, powerup,
          tlb,                  \* paging mode of the translations cached for the VPID
          answer,               \* features in the answer to the last CPUID.01H
          ext, hw,              \* ext_ctx, and the registers of the processor
          own                   \* what the guest last gave those registers

regs == <<vmcs, ctx, reg_cached, reg_updated, misc, pat, csl>>
run == <<req, launched, powerup, tlb>>
switched == <<ext, hw, own>>
regsVars == <<focus, rpc, safety, regs, run, answer, switched>>

Xor(A, B) == (A \ B) \cup (B \ A)

\* vcpu_get_cr0, vcpu_get_cr4, vcpu_get_efer.
Seen(shadow, real, mask) == (shadow \cap mask) \cup (real \ mask)
SeenCr0 == Seen(vmcs.shadow0, vmcs.cr0, cr0_host_mask)
SeenCr4 == Seen(vmcs.shadow4, vmcs.cr4, cr4_host_mask)
vcpu_get_cr0 == IF "CR0" \in reg_cached THEN ctx.cr0 ELSE SeenCr0
vcpu_get_cr4 == IF "CR4" \in reg_cached THEN ctx.cr4 ELSE SeenCr4
vcpu_get_efer == IF "EFER" \in reg_updated \cup reg_cached THEN ctx.efer ELSE vmcs.efer

is_paging_enabled == "PG" \in vcpu_get_cr0
is_pae == "PAE" \in vcpu_get_cr4
is_long_mode == "LMA" \in vcpu_get_efer

\* The mode that set_vcpu_mode has recorded at the exit being handled.
cpu_mode ==
    CASE "LMA" \in vcpu_get_efer /\ csl -> "64BIT"
      [] "LMA" \in vcpu_get_efer /\ ~csl -> "COMPATIBILITY"
      [] "LMA" \notin vcpu_get_efer /\ "PE" \in vcpu_get_cr0 -> "PROTECTED"
      [] OTHER -> "REAL"

\* How the processor translates for the guest.
PagingMode(v) ==
    [cr0 |-> v.cr0 \cap {"PG", "WP"}, cd |-> "CD" \in v.shadow0,
     cr4 |-> v.cr4 \cap {"PAE", "PSE", "SMEP", "SMAP"}, nxe |-> "NXE" \in v.efer]

realmode_init_vregs == {"NE", "CD", "NW"}           \* CR0, with CR4 and EFER 0
protect_mode_init_vregs == {"NE", "CD", "NW", "PE"}

-----------------------------------------------------------------------------
(* Creation, INIT and the first entry.                                     *)

\* The extended state: of a new vCPU, and of its pCPU after the start-up.
init_xsave == [xcr0 |-> {"X87"}, kernel_gs |-> 0]
init_pcpu_xsave == [xcr0 |-> {"X87"}, kernel_gs |-> 0]

\* create_vcpu, on a VMCS that is all zero: init_xsave, reset_vcpu_regs.
RegsInit ==
    /\ rpc = "out" /\ safety \in SafetyVm
    /\ vmcs = [cr0 |-> {}, shadow0 |-> {}, cr4 |-> {}, shadow4 |-> {}, efer |-> {},
               pat |-> "ALL_UC", ia32e |-> FALSE, pdptes |-> FALSE, ctls |-> {}]
    /\ ctx = [cr0 |-> realmode_init_vregs, cr4 |-> {}, efer |-> {}]
    /\ reg_cached = {} /\ reg_updated = {"EFER"}
    /\ misc = {} /\ pat = None
    /\ csl = FALSE
    /\ req = {"INIT_VMCS"} /\ launched = FALSE /\ powerup = FALSE
    /\ tlb = None /\ answer = None
    /\ ext = init_xsave
    /\ hw = init_pcpu_xsave
    /\ own = init_xsave

\* set_vcpu_regs
SetRegs(cr0) ==
    /\ ctx' = [cr0 |-> cr0, cr4 |-> {}, efer |-> {}]
    /\ reg_updated' = reg_updated \cup {"EFER"}
    /\ ext' = [ext EXCEPT !.kernel_gs = 0]
    /\ own' = [own EXCEPT !.kernel_gs = 0]

\* init_vcpu_protect_mode_regs, of the BSP that is about to boot.
init_vcpu_protect_mode_regs ==
    /\ rpc = "out" /\ ~powerup /\ ctx.cr0 = realmode_init_vregs
    /\ SetRegs(protect_mode_init_vregs)
    /\ UNCHANGED <<focus, rpc, safety, vmcs, reg_cached, misc, pat, csl, run, answer, hw>>

\* reset_vcpu of a vCPU that is out, which need not have been in its guest yet: by
\* INIT, after which the SIPI requests INIT_VMCS again.
reset_vcpu ==
    /\ rpc = "out"
    /\ SetRegs(realmode_init_vregs)
    /\ launched' = FALSE
    /\ req' = req \cup {"INIT_VMCS", "LAPIC_RESET"}
    /\ UNCHANGED <<focus, rpc, safety, vmcs, reg_cached, misc, pat, csl, powerup, tlb, answer, hw>>

\* init_guest_vmx: the PAT at power-up only; the bits of MISC_ENABLE that guests
\* write are those of the processor, 0.
InitialPat(now) == IF powerup THEN now ELSE "POWER_ON"
InitialMisc == {}

\* Mutant: the entry controls keep IA-32e mode.
vmcs_keeps_ia32e ==
    [cr0 |-> (cr0_always_on_mask \cup ctx.cr0) \ {"CD", "NW"}, shadow0 |-> ctx.cr0 \cup {"NE"},
     cr4 |-> cr4_always_on_mask \cup ctx.cr4, shadow4 |-> ctx.cr4,
     ctls |-> InitialControls, efer |-> vmcs.efer, pdptes |-> FALSE, ia32e |-> vmcs.ia32e,
     pat |-> InitialPat(vmcs.pat)]

\* The VMCS as init_exec_ctrl, init_guest_state and init_entry_ctrl make it: CR4 and
\* CR0 written with is_init, CR3 0.
InitialVmcs ==
    [cr0 |-> (cr0_always_on_mask \cup ctx.cr0) \ {"CD", "NW"}, shadow0 |-> ctx.cr0 \cup {"NE"},
     cr4 |-> cr4_always_on_mask \cup ctx.cr4, shadow4 |-> ctx.cr4,
     ctls |-> InitialControls, efer |-> vmcs.efer, pdptes |-> FALSE, ia32e |-> FALSE,
     pat |-> InitialPat(vmcs.pat)]

\* ACRN_REQUEST_INIT_VMCS
init_vmcs ==
    /\ rpc = "root" /\ "INIT_VMCS" \in req
    /\ req' = req \ {"INIT_VMCS"}
    /\ vmcs' = InitialVmcs
    /\ reg_cached' = reg_cached \ {"CR0", "CR4"}
    /\ misc' = InitialMisc /\ csl' = FALSE
    /\ pat' = InitialPat(pat)
    /\ UNCHANGED <<focus, rpc, safety, ctx, reg_updated, launched, powerup, tlb, answer, switched>>

-----------------------------------------------------------------------------
(* The thread: switched in and out, into the guest and back.               *)

\* Mutant: XCR0 stays as it was widened for XRSTORS.
switched_in_wide == [ext EXCEPT !.xcr0 = @ \cup {"SSE", "AVX"}]

\* context_switch_in, rstore_xsave_area: XCR0 is widened for XRSTORS and then
\* set back.
SwitchedIn == ext

context_switch_in ==
    /\ rpc = "out" /\ rpc' = "root"
    /\ hw' = SwitchedIn
    /\ UNCHANGED <<focus, safety, regs, run, answer, ext, own>>

\* context_switch_out, save_xsave_area
context_switch_out ==
    /\ rpc = "root" /\ launched
    /\ rpc' = "out"
    /\ ext' = hw
    /\ hw' = [hw EXCEPT !.xcr0 = @ \cup {"SSE", "AVX"}]
    /\ answer' = None
    /\ UNCHANGED <<focus, safety, regs, run, own>>

\* The requests LAPIC_RESET and EPT_FLUSH, then run_vcpu until the guest runs.
\* What the guest has in CS is known again at its exit.
EnterGuest ==
    /\ rpc = "root" /\ "INIT_VMCS" \notin req
    /\ rpc' = "guest"
    /\ req' = {}
    /\ vmcs' = [vmcs EXCEPT !.efer = IF "EFER" \in reg_updated THEN ctx.efer ELSE @]
    /\ reg_updated' = {}
    /\ powerup' = TRUE /\ launched' = TRUE
    /\ tlb' = IF ~launched \/ "EPT_FLUSH" \in req THEN PagingMode(vmcs') ELSE tlb
    /\ answer' = None /\ csl' = FALSE
    /\ UNCHANGED <<focus, safety, ctx, reg_cached, misc, pat, switched>>

\* What run_vcpu reads after the exit; CR4 is read again when it is needed.
AfterExit == [cached |-> {"EFER", "CR0"},
              ctx |-> [efer |-> vmcs'.efer, cr0 |-> Seen(vmcs'.shadow0, vmcs'.cr0, cr0_host_mask),
                       cr4 |-> {}]]

\* The guest ran and exits.  It may have changed the bits it owns, CS.L, CR3
\* (which loads the PDPTEs under PAE paging only) and the GS base.
Exit ==
    /\ rpc = "guest" /\ rpc' = "exit"
    /\ \E own0 \in SUBSET (Cr0Bit \ (cr0_host_mask \cup {"R"})), own4 \in SUBSET (Cr4Bit \ (cr4_host_mask \cup {"R"})) :
          vmcs' = [vmcs EXCEPT !.cr0 = (@ \cap cr0_host_mask) \cup own0,
                               !.cr4 = (@ \cap cr4_host_mask) \cup own4,
                               !.pdptes = @ /\ "PG" \in vmcs.cr0 /\ "PAE" \in vmcs.cr4 /\ ~vmcs.ia32e]
    /\ csl' \in IF focus = "regs" THEN BOOLEAN ELSE {FALSE}
    /\ reg_cached' = AfterExit.cached
    /\ ctx' = AfterExit.ctx
    /\ \E g \in IF focus = "ext" THEN {0, 1} ELSE {0} :
          /\ own' = [own EXCEPT !.kernel_gs = g]
          /\ hw' = [hw EXCEPT !.kernel_gs = g]
    /\ UNCHANGED <<focus, safety, reg_updated, misc, pat, run, answer, ext>>

-----------------------------------------------------------------------------
(* Exit handlers.  A write that is refused injects an exception and leaves *)
(* the registers as they are.                                              *)

Handles(group) == rpc = "exit" /\ focus = group /\ rpc' = "root"

\* The getters cache CR4; CR0 and EFER are cached already.
Cache4 == [cached |-> reg_cached \cup {"CR4"}, ctx |-> [ctx EXCEPT !.cr4 = vcpu_get_cr4]]

Refused == UNCHANGED <<vmcs, ctx, reg_cached, reg_updated, pat, misc, req>>

is_cr0_write_valid(cr0) ==
    /\ cr0 \cap cr0_always_off_mask = {}
    /\ ~("PE" \in vcpu_get_cr0 /\ "PE" \notin cr0)
    /\ ~("PG" \in cr0 /\ ~is_pae /\ "LME" \in vcpu_get_efer)
    /\ ~("PE" \notin cr0 /\ "PG" \in cr0)
    /\ ~("CD" \notin cr0 /\ "NW" \in cr0)

TurnsOn(cr0) == ~is_paging_enabled /\ "PG" \in cr0
TurnsOff(cr0) == is_paging_enabled /\ "PG" \notin cr0
LmeSet == "LME" \in vcpu_get_efer

\* The PDPTEs in the memory of the guest: it may not be mapped, one that is present
\* may have reserved bits set.  Only all four together are loaded.
Pdpt == {"unmapped", "reserved", "valid"}
load_pdptrs(pdpt) == pdpt = "valid"

\* When vmx_write_cr0 finds an error; tss16 tells whether TR is a busy 16-bit TSS.
Cr0Refused(cr0, tss16, pdpt) ==
    \/ ~is_cr0_write_valid(cr0)
    \/ TurnsOn(cr0) /\ LmeSet /\ (csl \/ tss16)
    \/ TurnsOn(cr0) /\ ~LmeSet /\ is_pae /\ ~load_pdptrs(pdpt)
    \/ TurnsOff(cr0) /\ LmeSet /\ cpu_mode # "COMPATIBILITY"

PatAfter(cr0) ==
    CASE "CD" \in cr0 \ vcpu_get_cr0 -> "ALL_UC"
      [] "CD" \in vcpu_get_cr0 \ cr0 -> pat
      [] OTHER -> vmcs.pat

\* Mutant: a change of WP does not flush.
cr0_flush_not_wp(cr0) == IF Xor(cr0, vcpu_get_cr0) \cap {"PG", "CD"} # {} THEN {"EPT_FLUSH"} ELSE {}

Cr0Flush(cr0) == IF Xor(cr0, vcpu_get_cr0) \cap {"PG", "WP", "CD"} # {} THEN {"EPT_FLUSH"} ELSE {}

vmx_write_cr0(cr0) ==
    /\ vmcs' = [vmcs EXCEPT
          !.ia32e = IF LmeSet /\ TurnsOn(cr0) THEN TRUE ELSE IF LmeSet /\ TurnsOff(cr0) THEN FALSE ELSE @,
          !.pdptes = (TurnsOn(cr0) /\ ~LmeSet /\ is_pae) \/ @,
          !.pat = PatAfter(cr0),
          !.cr0 = (cr0_always_on_mask \cup cr0) \ {"CD", "NW"},
          !.shadow0 = cr0 \cup {"NE"}]
    /\ LET efer == CASE LmeSet /\ TurnsOn(cr0) -> vcpu_get_efer \cup {"LMA"}
                     [] LmeSet /\ TurnsOff(cr0) -> vcpu_get_efer \ {"LMA"}
                     [] OTHER -> vcpu_get_efer
       IN  /\ ctx' = [(IF "PG" \in cr0 THEN Cache4.ctx ELSE ctx) EXCEPT !.efer = efer]
           /\ reg_updated' = reg_updated \cup (IF LmeSet /\ (TurnsOn(cr0) \/ TurnsOff(cr0)) THEN {"EFER"} ELSE {})
    /\ reg_cached' = (IF "PG" \in cr0 THEN Cache4.cached ELSE reg_cached) \ {"CR0"}
    /\ req' = req \cup Cr0Flush(cr0)
    /\ UNCHANGED <<pat, misc>>

\* cr_access_vmexit_handler: MOV to CR0 and LMSW, which cannot clear PE.
WriteCr0(cr0) ==
    /\ Handles("regs")
    /\ \E tss16 \in BOOLEAN, pdpt \in Pdpt :
          IF Cr0Refused(cr0, tss16, pdpt) THEN Refused ELSE vmx_write_cr0(cr0)
    /\ UNCHANGED <<focus, safety, csl, launched, powerup, tlb, answer, switched>>

MovToCr0 == \E cr0 \in SUBSET Cr0Bit : WriteCr0(cr0)
Lmsw == \E s \in SUBSET (Cr0Bit \cap {"PE", "MP", "EM", "TS"}) :
            WriteCr0((vcpu_get_cr0 \ {"MP", "EM", "TS"}) \cup s)

is_cr4_write_valid(cr4) ==
    /\ cr4 \cap cr4_always_off_mask = {}
    /\ cr4 \cap {"VMXE", "SMXE", "PKE", "PCE", "DE", "VME", "PVI", "PCIDE"} = {}
    /\ ~(~safety /\ "MCE" \in cr4)
    /\ ~(is_long_mode /\ "PAE" \notin cr4)

Cr4Flushes(cr4) == Xor(cr4, vcpu_get_cr4) \cap {"PGE", "PSE", "PAE", "SMEP", "SMAP"} # {}

Cr4Loads(cr4) == Cr4Flushes(cr4) /\ "PAE" \in cr4 /\ is_paging_enabled /\ ~is_long_mode

vmx_write_cr4(cr4) ==
    /\ vmcs' = [vmcs EXCEPT !.pdptes = Cr4Loads(cr4) \/ @,
                            !.cr4 = cr4_always_on_mask \cup cr4, !.shadow4 = cr4]
    /\ ctx' = Cache4.ctx
    /\ reg_cached' = reg_cached \ {"CR4"}
    /\ req' = req \cup IF Cr4Flushes(cr4) THEN {"EPT_FLUSH"} ELSE {}
    /\ UNCHANGED <<reg_updated, pat, misc>>

MovToCr4 ==
    /\ Handles("regs")
    /\ \E cr4 \in SUBSET Cr4Bit, pdpt \in Pdpt :
          IF ~is_cr4_write_valid(cr4) \/ (Cr4Loads(cr4) /\ ~load_pdptrs(pdpt)) THEN Refused ELSE vmx_write_cr4(cr4)
    /\ UNCHANGED <<focus, safety, csl, launched, powerup, tlb, answer, switched>>

vcpu_set_efer(efer) ==
    /\ ctx' = [ctx EXCEPT !.efer = efer]
    /\ reg_updated' = reg_updated \cup {"EFER"}

EferRefused(efer) ==
    \/ Xor(efer, vcpu_get_efer) \ MSR_IA32_EFER_MASK # {}
    \/ "LME" \in Xor(efer, vcpu_get_efer) /\ is_paging_enabled
    \/ "NXE" \in efer /\ "XD" \notin guest_cpuid_80000001h(Features, misc)

write_efer_msr ==
    /\ Handles("regs")
    /\ \E efer \in SUBSET EferBit :
          IF EferRefused(efer) THEN Refused
          ELSE /\ vcpu_set_efer((efer \ {"LMA"}) \cup (vcpu_get_efer \cap {"LMA"}))
               /\ req' = req \cup IF "NXE" \in Xor(efer, vcpu_get_efer) THEN {"EPT_FLUSH"} ELSE {}
               /\ UNCHANGED <<vmcs, reg_cached, pat, misc>>
    /\ UNCHANGED <<focus, safety, csl, launched, powerup, tlb, answer, switched>>

\* One of the fields of the value "INVALID" is not a memory type.
write_pat_msr ==
    /\ Handles("regs")
    /\ \E value \in Pat \cup {"INVALID"} :
          IF value = "INVALID" THEN Refused
          ELSE /\ pat' = value
               /\ vmcs' = IF "CD" \in vcpu_get_cr0 THEN vmcs ELSE [vmcs EXCEPT !.pat = value]
               /\ UNCHANGED <<ctx, reg_cached, reg_updated, misc, req>>
    /\ UNCHANGED <<focus, safety, csl, launched, powerup, tlb, answer, switched>>

MiscWritten(v) ==
    /\ misc' = v
    /\ IF "XD_DISABLE" \in v /\ "NXE" \in vcpu_get_efer
       THEN vcpu_set_efer(vcpu_get_efer \ {"NXE"}) /\ req' = req \cup {"EPT_FLUSH"}
       ELSE UNCHANGED <<ctx, reg_updated, req>>

set_guest_ia32_misc_enable ==
    /\ Handles("regs")
    /\ \E v \in SUBSET MiscBit :
          IF Xor(v, misc) \ MSR_IA32_MISC_ENABLE_MASK # {} THEN Refused
          ELSE MiscWritten(v) /\ UNCHANGED <<vmcs, reg_cached, pat>>
    /\ UNCHANGED <<focus, safety, csl, launched, powerup, tlb, answer, switched>>

\* cpuid_vmexit_handler, for leaf 1.  With LIMIT_CPUID it answers as without.
cpuid_vmexit_handler ==
    /\ Handles("regs")
    /\ answer' = guest_cpuid_01h(Features, vcpu_get_cr4, safety)
    /\ reg_cached' = Cache4.cached /\ ctx' = Cache4.ctx
    /\ UNCHANGED <<focus, safety, vmcs, reg_updated, misc, pat, csl, run, switched>>

XCR0_EMULATED_RESERVED_BITS == {"BNDREGS", "BNDCSR", "R"}

XsetbvRefused(index, v) ==
    \/ index # 0 \/ "X87" \notin v
    \/ v \cap XCR0_EMULATED_RESERVED_BITS # {}
    \/ "AVX" \in v /\ "SSE" \notin v

xsetbv_vmexit_handler ==
    /\ Handles("ext")
    /\ \E index \in {0, 1}, v \in SUBSET {"X87", "SSE", "AVX", "R"} :
          IF XsetbvRefused(index, v) THEN UNCHANGED <<hw, own>>
          ELSE hw' = [hw EXCEPT !.xcr0 = v] /\ own' = [own EXCEPT !.xcr0 = v]
    /\ UNCHANGED <<focus, safety, regs, run, answer, ext>>

\* Handlers that leave this state alone: they inject an exception (undefined,
\* task switch, INVD, refused MSRs), answer from constants (MOV DR) or do nothing.
OtherHandlers == {"undefined", "taskswitch", "invd", "movdr", "wbinvd", "rdmsr", "wrmsr", "init_signal"}

OtherExit ==
    /\ Handles("regs")
    /\ \E exit \in ExitsOf(vmcs.ctls) : dispatch_table[exit] \in OtherHandlers
    /\ UNCHANGED <<focus, safety, regs, run, answer, switched>>
=============================================================================
