-------------------------------- MODULE Cpuid --------------------------------
(***************************************************************************)
(* The CPUID leaves of a VM (arch/x86/guest/vcpuid.c): the table that      *)
(* set_vcpuid_entries builds once for all vCPUs and the search in it, and  *)
(* the leaves that depend on the vCPU, as sets of the features they show.  *)
(*                                                                         *)
(* A processor is described by its highest basic leaf, its highest         *)
(* extended leaf and the number of subleaves of leaf 4.                    *)
(***************************************************************************)
EXTENDS Naturals, Sequences, FiniteSetsExt, SequencesExt

Ext == 4096     \* stands for 0x80000000, CPUID_MAX_EXTENDED_FUNCTION
NoEntry == 0

\* struct vcpuid_entry: the registers are those the processor has for the leaf and
\* subleaf, without some features (leaves 6, 15H and 80000006H have constants in
\* some fields).
init_vcpuid_entry(leaf, subleaf, check) ==
    [leaf |-> leaf, subleaf |-> subleaf, check |-> check,
     hides |-> IF leaf = 7 THEN {"INVPCID", "PQM", "PQE", "SGX", "SGX_LC", "MPX", "PROC_TRC", "HLE",
                                 "STIBP", "TSX_FORCE_ABORT"} ELSE {}]

PerCpu == {1, 11, 13, Ext + 1}
Hidden == {5, 8, 9, 10, 12} \cup 14 .. 20

\* The entries of one basic leaf.
EntriesOf(hw, leaf) ==
    CASE leaf \in PerCpu \cup Hidden -> <<>>
      [] leaf = 4 -> [j \in 1 .. hw.subleaves |-> init_vcpuid_entry(4, j - 1, TRUE)]
      [] leaf = 7 -> <<init_vcpuid_entry(7, 0, TRUE)>>
      [] OTHER -> <<init_vcpuid_entry(leaf, 0, FALSE)>>

\* Leaf 0x80000000 and, from 0x80000002, the other extended ones.
set_vcpuid_extended_function(hw) ==
    <<init_vcpuid_entry(Ext, 0, FALSE)>> \o [k \in 1 .. hw.xlevel - 1 |-> init_vcpuid_entry(Ext + k + 1, 0, FALSE)]

set_vcpuid_entries(hw) ==
    <<init_vcpuid_entry(0, 0, FALSE)>>
      \o FlattenSeq([leaf \in 1 .. hw.level |-> EntriesOf(hw, leaf)])
      \o set_vcpuid_extended_function(hw)

Answers(e, leaf, subleaf) == e.leaf = leaf /\ (e.check => e.subleaf = subleaf)

\* The scan stops at the first entry that answers or is of a later leaf.
Scan(T, from, leaf, subleaf) ==
    LET S == {i \in from .. Len(T) : T[i].leaf > leaf \/ Answers(T[i], leaf, subleaf)}
    IN  IF S # {} /\ Answers(T[Min(S)], leaf, subleaf) THEN Min(S) ELSE NoEntry

\* Mutant: the second half is taken when it begins with the leaf itself.
find_from_equal(T, leaf, subleaf) ==
    LET half == Len(T) \div 2 + 1
    IN  Scan(T, IF T[half].leaf <= leaf THEN half ELSE 1, leaf, subleaf)

local_find_vcpuid_entry(T, leaf, subleaf) ==
    LET half == Len(T) \div 2 + 1
    IN  Scan(T, IF T[half].leaf < leaf THEN half ELSE 1, leaf, subleaf)

\* A leaf above its limit is answered as the highest basic leaf.
find_vcpuid_entry(T, hw, leaf, subleaf) ==
    LET found == local_find_vcpuid_entry(T, leaf, subleaf)
        limit == IF leaf >= Ext THEN Ext + hw.xlevel ELSE hw.level
    IN  IF found = NoEntry /\ leaf > limit
        THEN local_find_vcpuid_entry(T, hw.level, subleaf)
        ELSE found

\* guest_limit_cpuid: the leaf that answers when the guest limits CPUID to 3 leaves.
guest_limit_cpuid(hw, limited, leaf) ==
    IF limited /\ (leaf \in 3 .. Ext - 1 \/ leaf > Ext + hw.xlevel) THEN 2 ELSE leaf

\* guest_cpuid_01h: features of the processor that the guest does not see; those
\* of CR4 are VMXE, SMXE, PCIDE, DE, VME, and MCE but for the safety VM.
guest_cpuid_01h(features, cr4, safety) ==
    (features \ ({"MONITOR", "SMXE", "VMXE", "PCIDE", "DE", "VME", "MTRR", "OSXSAVE"}
                   \cup (IF safety THEN {"HTT"} ELSE {"MCE"})))
      \cup (cr4 \cap {"OSXSAVE"})

\* The most significant bit that is set.
fls32(value) == CHOOSE k \in 0 .. 31 : 2 ^ k <= value /\ value < 2 ^ (k + 1)

\* guest_cpuid_0bh: the width of the ids at a level of the topology, and the
\* number of vCPUs there.
guest_cpuid_0bh(subleaf, created_vcpus) ==
    CASE subleaf = 0 -> [shift |-> 0, count |-> 1]
      [] subleaf = 1 -> [shift |-> IF created_vcpus = 1 THEN 0 ELSE fls32(created_vcpus - 1) + 1,
                         count |-> created_vcpus]
      [] OTHER -> [shift |-> 0, count |-> 0]

\* guest_cpuid_0dh: the state components of each subleaf, without MPX, XSAVES and
\* processor trace.
guest_cpuid_0dh(features, subleaf) ==
    CASE subleaf = 0 -> features \ {"BNDREGS", "BNDCSR"}
      [] subleaf = 1 -> features \ {"XSAVES", "PT"}
      [] subleaf = 2 -> features
      [] OTHER -> {}

\* guest_cpuid_80000001h: no execute-disable once the guest has disabled it.
guest_cpuid_80000001h(features, misc_enable) ==
    IF "XD_DISABLE" \in misc_enable THEN features \ {"XD"} ELSE features

\* guest_cpuid: the entry of the table that answers a leaf which is the same for
\* all vCPUs.  Leaf 0 then reports 2 as the highest leaf if CPUID is limited.
guest_cpuid(T, hw, limited, leaf, subleaf) ==
    LET l == guest_limit_cpuid(hw, limited, leaf)
    IN  find_vcpuid_entry(T, hw, l, IF l = leaf THEN subleaf ELSE 0)
=============================================================================
