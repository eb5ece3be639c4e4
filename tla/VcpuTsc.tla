------------------------------- MODULE VcpuTsc -------------------------------
(***************************************************************************)
(* The time-stamp counter of a vCPU: the TSC offset of its VMCS, the guest *)
(* values of TSC_ADJUST and TSC_DEADLINE (vmsr.c, vlapic.c) and whether    *)
(* those MSRs are intercepted.  While they are not, the guest reaches the  *)
(* MSRs of the processor.  Values wrap at TscMod, as those of the MSRs do  *)
(* at 2^64.                                                                *)
(***************************************************************************)
EXTENDS Integers

CONSTANTS TscMod,
          PhysAdjust,   \* values TSC_ADJUST of the processor may have
          NoDeadline    \* the guest has written no deadline since INIT

ASSUME TscAssumption == TscMod \in Nat \ {0} /\ PhysAdjust \subseteq 0 .. TscMod - 1

VARIABLES padjust, pdl,         \* TSC_ADJUST and TSC_DEADLINE of the processor
          vadjust, vdl,         \* those in guest_msrs
          offset,               \* VMX_TSC_OFFSET_FULL
          intercepted,          \* RDMSR and WRMSR of TSC_DEADLINE exit
          wrote,                \* history: the deadline that the guest has yet to see,
          under                 \* and the TSC offset by which it was last made a native one

tscVars == <<padjust, pdl, vadjust, vdl, offset, intercepted, wrote, under>>

Tsc == 0 .. TscMod - 1
Add(a, b) == (a + b) % TscMod
Sub(a, b) == (a - b) % TscMod

TscInit ==
    /\ padjust \in PhysAdjust
    /\ pdl = 0 /\ vadjust = 0 /\ vdl = 0 /\ offset = 0
    /\ intercepted = FALSE /\ wrote = NoDeadline /\ under = 0

\* set_tsc_msr_interception, when the bitmap has "now".  A timer that is armed when
\* the interception ends is armed again, for a counter without an offset.
set_tsc_msr_interception(interception, now) ==
    /\ intercepted' = interception
    /\ under' = IF now /\ ~interception THEN 0 ELSE under
    /\ CASE ~interception /\ now /\ pdl # 0 -> pdl' = vdl /\ UNCHANGED vdl
         [] ~interception /\ now /\ pdl = 0 -> vdl' = 0 /\ UNCHANGED pdl
         [] interception /\ ~now -> vdl' = pdl /\ UNCHANGED pdl
         [] OTHER -> UNCHANGED <<vdl, pdl>>

\* init_exec_ctrl: init_msr_emulation intercepts every MSR and then looks at the
\* offset the VMCS has so far; only then the offset is written.
init_tsc ==
    /\ set_tsc_msr_interception(offset # 0, TRUE)
    /\ offset' = Sub(vadjust, padjust)
    /\ UNCHANGED <<padjust, vadjust, wrote>>

\* INIT: whatever deadline there was is no longer the guest's.
reset_tsc ==
    wrote' = NoDeadline /\ UNCHANGED <<padjust, pdl, vadjust, vdl, offset, intercepted, under>>

\* WRMSR of the TSC; delta is the difference to the native counter.
set_guest_tsc(delta) ==
    /\ vadjust' = Add(vadjust, Sub(delta, offset))
    /\ offset' = delta
    /\ set_tsc_msr_interception(delta # 0, intercepted)
    /\ UNCHANGED <<padjust, wrote>>

set_guest_tsc_adjust(tsc_adjust) ==
    /\ offset' = Add(offset, Sub(tsc_adjust, vadjust))
    /\ vadjust' = tsc_adjust
    /\ set_tsc_msr_interception(offset' # 0, intercepted)
    /\ UNCHANGED <<padjust, wrote>>

\* Mutant: the offset is forgotten.
native_deadline_as_is(val) == val

\* The native deadline for one of the guest, which must not become 0 by the offset:
\* that disarms the timer.
NativeDeadline(val) ==
    IF val = 0 THEN 0 ELSE IF Sub(val, offset) = 0 THEN 1 ELSE Sub(val, offset)

\* vlapic_set_tsc_deadline_msr
vlapic_set_tsc_deadline_msr(val) ==
    /\ intercepted
    /\ vdl' = val /\ pdl' = NativeDeadline(val)
    /\ wrote' = val /\ under' = offset
    /\ UNCHANGED <<padjust, vadjust, offset, intercepted>>

\* vlapic_get_tsc_deadline_msr
DeadlineRead == IF intercepted THEN (IF pdl = 0 THEN 0 ELSE vdl) ELSE pdl

vlapic_get_tsc_deadline_msr ==
    /\ intercepted
    /\ vdl' = DeadlineRead
    /\ UNCHANGED <<padjust, pdl, vadjust, offset, intercepted, wrote, under>>

\* The guest writes the deadline of the processor.
WriteNative(val) ==
    /\ ~intercepted
    /\ pdl' = val /\ wrote' = val /\ under' = offset
    /\ UNCHANGED <<padjust, vadjust, vdl, offset, intercepted>>

\* The timer of the processor expires.
Expire ==
    /\ pdl # 0
    /\ pdl' = 0 /\ wrote' = IF wrote = NoDeadline THEN wrote ELSE 0
    /\ UNCHANGED <<padjust, vadjust, vdl, offset, intercepted, under>>
=============================================================================
