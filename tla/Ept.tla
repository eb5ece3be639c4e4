--------------------------------- MODULE Ept ---------------------------------
(***************************************************************************)
(* The EPT of one VM (arch/x86/guest/ept.c): built by create_vm from the   *)
(* VM's e820 table and the BARs of its passthrough devices, and then       *)
(* changed and read by its vCPUs in parallel: the handler of EPT           *)
(* violations (vmx_io.c), writes to the BARs (dm/vpci/pci_pt.c) and        *)
(* translations of guest physical addresses (guest_memory.c).              *)
(*                                                                         *)
(* ept_add_mr, ept_modify_mr and ept_del_mr work under ept_lock and are    *)
(* one step each; the EPT flush they request is in Virq.  lookup_address   *)
(* takes no lock and returns a pointer to an entry, which its callers      *)
(* dereference in a later step.                                            *)
(***************************************************************************)
EXTENDS PageTableOps, Sequences

CONSTANTS E820,       \* the VM's e820 table: a sequence of [base, len, ram]
          Low1M,      \* the pages below MEM_1M
          StartHpa, MemSize,              \* vm_config->memory
          Bars,       \* the memory BARs of the VM's devices: a sequence of [hpa, size, start]
          VbarBase, VbarTop,              \* the window that vbar_base_is_valid accepts
          FetchCpus, BarCpus, CopyCpus,   \* vCPUs that may fetch, write BARs, have memory read
          NoCpu

Cpu == FetchCpus \cup BarCpus \cup CopyCpus
Bar == DOMAIN Bars

ASSUME EptAssumption ==
    /\ StartHpa \in Nat /\ MemSize \in Nat /\ Low1M \in Nat
    /\ VbarBase \in Page \ {0} /\ VbarTop \in Nat /\ VbarTop <= Top
    /\ NoCpu \notin Cpu

\* pci_vdev_update_bar_base: a base outside the window leaves the BAR unmapped.
BarBase(b, val) ==
    IF val >= VbarBase /\ val + Bars[b].size <= VbarTop THEN val ELSE 0

\* The e820 entries that create_vm may map, and the pages of an entry.
Mappable(e) == e.len # 0 /\ e.len <= MemSize /\ (e.ram \/ e.base < Low1M)
Span(e) == e.base .. e.base + e.len - 1

\* The configuration of the VM (ve820.c, pci_dev.c): its memory ends below the
\* window, e820 entries do not overlap, and neither do the BARs as configured.
ASSUME EptConfiguration ==
    /\ E820 \in Seq([base : Nat, len : Nat, ram : BOOLEAN])
    /\ Bars \in Seq([hpa : Nat, size : Nat \ {0}, start : Nat])
    /\ \A i \in DOMAIN E820 : Mappable(E820[i]) =>
         /\ Span(E820[i]) \subseteq Page \ (VbarBase .. VbarTop - 1)
         /\ \A j \in DOMAIN E820 \ {i} : Mappable(E820[j]) => Span(E820[i]) \cap Span(E820[j]) = {}
    /\ \A b \in Bar : \A c \in Bar \ {b} :
         LET x == BarBase(b, Bars[b].start)
             y == BarBase(c, Bars[c].start)
         IN  x # 0 /\ y # 0 => x + Bars[b].size <= y \/ y + Bars[c].size <= x

VARIABLES tbl,     \* the paging structures
          boot,    \* create_vm: entries done, base_hpa, remaining_hpa_size
          base,    \* vbar->base, 0 if the BAR is not mapped
          lock,    \* the vCPU that holds vpci->lock
          job,     \* the BAR write of that vCPU: [bar, new]
          pc,      \* where each vCPU is
          gpa,     \* the page its exit is about
          pgentry, \* what lookup_address returned to it
          hpa      \* what local_gpa2hpa returned to it

vars == <<tbl, boot, base, lock, job, pc, gpa, pgentry, hpa>>

\* An address that local_gpa2hpa returns is written like an entry without rights.
INVALID_HPA == None
NoJob == [bar |-> 0, new |-> 0]

Init ==
    /\ tbl = EmptyTable
    /\ boot = [done |-> 0, hpa |-> StartHpa, left |-> MemSize]
    /\ base = [b \in Bar |-> 0]
    /\ lock = NoCpu
    /\ job = NoJob
    /\ pc = [c \in Cpu |-> "guest"]
    /\ gpa = [c \in Cpu |-> 0]
    /\ pgentry = [c \in Cpu |-> NULL]
    /\ hpa = [c \in Cpu |-> INVALID_HPA]

(***************************************************************************)
(* The memory operations of ept.c.                                         *)
(***************************************************************************)
EPT_RWX == {"R", "W", "X"}
EPT_WB == {"WB"}
EPT_UNCACHED == {}

\* Memory that is not uncached is snooped by the IOMMU.
ept_add_mr(t, pa, v, cnt, prot) ==
    mmu_add(t, pa, v, cnt, IF EPT_WB \subseteq prot THEN prot \cup {"SNP"} ELSE prot)

ept_modify_mr(t, v, cnt, set, clr) ==
    mmu_modify(t, v .. v + cnt - 1, IF EPT_WB \subseteq set THEN set \cup {"SNP"} ELSE set, clr)

ept_del_mr(t, v, cnt) == mmu_del(t, v .. v + cnt - 1)

(***************************************************************************)
(* create_vm.                                                              *)
(***************************************************************************)
Booted == boot.done = Len(E820) + Len(Bars)

\* prepare_prelaunched_vm_memmap, one e820 entry: RAM while the VM's memory
\* lasts, and uncached memory for the reserved entries of the first MByte.
MapE820Entry ==
    /\ boot.done < Len(E820)
    /\ LET e == E820[boot.done + 1]
           fits == boot.left >= e.len /\ (e.ram \/ e.base < Low1M)
           mt == IF e.ram THEN EPT_WB ELSE EPT_UNCACHED
       IN  IF e.len = 0
           THEN boot' = [boot EXCEPT !.done = Len(E820)] /\ UNCHANGED tbl
           ELSE IF fits
           THEN /\ tbl' = ept_add_mr(tbl, boot.hpa, e.base, e.len, EPT_RWX \cup mt)
                /\ boot' = [done |-> boot.done + 1, hpa |-> boot.hpa + e.len, left |-> boot.left - e.len]
           ELSE boot' = [boot EXCEPT !.done = @ + 1] /\ UNCHANGED tbl
    /\ UNCHANGED <<base, lock, job, pc, gpa, pgentry, hpa>>

UnmapBar(t, b, at) == IF at # 0 THEN ept_del_mr(t, at, Bars[b].size) ELSE t
AddBar(t, b, at) ==
    IF at # 0 THEN ept_add_mr(t, Bars[b].hpa, at, Bars[b].size, {"R", "W"} \cup EPT_UNCACHED) ELSE t

\* init_vdev_pt, one BAR: it gets its configured base and is mapped.
InitBar ==
    /\ boot.done \in Len(E820) .. Len(E820) + Len(Bars) - 1
    /\ LET b == boot.done - Len(E820) + 1
           at == BarBase(b, Bars[b].start)
       IN  /\ base' = [base EXCEPT ![b] = at]
           /\ tbl' = AddBar(UnmapBar(tbl, b, at), b, at)
    /\ boot' = [boot EXCEPT !.done = @ + 1]
    /\ UNCHANGED <<lock, job, pc, gpa, pgentry, hpa>>

(***************************************************************************)
(* vdev_pt_write_vbar, under vpci->lock.                                   *)
(***************************************************************************)
\* Mutant: the old mapping is not removed.
BarUnmapForgets(c) ==
    /\ Booted /\ pc[c] = "guest" /\ c \in BarCpus /\ lock = NoCpu
    /\ lock' = c
    /\ \E b \in Bar :
         job' \in {[bar |-> b, new |-> BarBase(b, v)] : v \in {w \in Page : w % Bars[b].size = 0}}
    /\ pc' = [pc EXCEPT ![c] = "write_bar"]
    /\ UNCHANGED <<tbl, boot, base, gpa, pgentry, hpa>>

\* vdev_pt_unmap_mem_vbar.  The value written is cut to a multiple of the size.
BarUnmap(c) ==
    /\ Booted /\ pc[c] = "guest" /\ c \in BarCpus /\ lock = NoCpu
    /\ lock' = c
    /\ \E b \in Bar :
         /\ tbl' = UnmapBar(tbl, b, base[b])
         /\ job' \in {[bar |-> b, new |-> BarBase(b, v)] : v \in {w \in Page : w % Bars[b].size = 0}}
    /\ pc' = [pc EXCEPT ![c] = "write_bar"]
    /\ UNCHANGED <<boot, base, gpa, pgentry, hpa>>

\* pci_vdev_write_bar, and the unmapping that vdev_pt_map_mem_vbar begins with.
BarWrite(c) ==
    /\ pc[c] = "write_bar"
    /\ base' = [base EXCEPT ![job.bar] = job.new]
    /\ tbl' = UnmapBar(tbl, job.bar, job.new)
    /\ pc' = [pc EXCEPT ![c] = "map_bar"]
    /\ UNCHANGED <<boot, lock, job, gpa, pgentry, hpa>>

\* The mapping; write_cfg then releases the lock.
BarMap(c) ==
    /\ pc[c] = "map_bar"
    /\ tbl' = AddBar(tbl, job.bar, job.new)
    /\ lock' = NoCpu
    /\ job' = NoJob
    /\ pc' = [pc EXCEPT ![c] = "guest"]
    /\ UNCHANGED <<boot, base, gpa, pgentry, hpa>>

(***************************************************************************)
(* ept_violation_vmexit_handler.                                           *)
(***************************************************************************)
\* The guest fetches from a page that it may not execute.
FetchExit(c) ==
    /\ Booted /\ pc[c] = "guest" /\ c \in FetchCpus
    /\ \E v \in Page : /\ "X" \notin Translate(tbl, v).prot
                       /\ gpa' = [gpa EXCEPT ![c] = v]
    /\ pc' = [pc EXCEPT ![c] = "lookup"]
    /\ UNCHANGED <<tbl, boot, base, lock, job, pgentry, hpa>>

FetchLookup(c) ==
    /\ pc[c] = "lookup"
    /\ pgentry' = [pgentry EXCEPT ![c] = lookup_address(tbl, gpa[c])]
    /\ pc' = [pc EXCEPT ![c] = "deref"]
    /\ UNCHANGED <<tbl, boot, base, lock, job, gpa, hpa>>

\* (*pgentry & EPT_MT_MASK) == EPT_WB.  The memory type bits of an entry that
\* refers to a table or to the sanitized page are 0, which is EPT_UNCACHED.
FetchDeref(c) ==
    /\ pc[c] = "deref"
    /\ pc' = [pc EXCEPT ![c] = IF pgentry[c] # NULL /\ EPT_WB \subseteq tbl[pgentry[c]].prot
                               THEN "modify" ELSE "inject_pf"]
    /\ pgentry' = [pgentry EXCEPT ![c] = NULL]
    /\ UNCHANGED <<tbl, boot, base, lock, job, gpa, hpa>>

\* Mutant: the rights to set and to clear are swapped.
FetchModifySwapped(c) ==
    /\ pc[c] = "modify"
    /\ tbl' = ept_modify_mr(tbl, gpa[c], 1, {}, {"X"})
    /\ pc' = [pc EXCEPT ![c] = "guest"]
    /\ gpa' = [gpa EXCEPT ![c] = 0]
    /\ UNCHANGED <<boot, base, lock, job, pgentry, hpa>>

\* The page becomes executable and the guest fetches again.
FetchModify(c) ==
    /\ pc[c] = "modify"
    /\ tbl' = ept_modify_mr(tbl, gpa[c], 1, {"X"}, {})
    /\ pc' = [pc EXCEPT ![c] = "guest"]
    /\ gpa' = [gpa EXCEPT ![c] = 0]
    /\ UNCHANGED <<boot, base, lock, job, pgentry, hpa>>

FetchFault(c) ==
    /\ pc[c] = "inject_pf"
    /\ pc' = [pc EXCEPT ![c] = "guest"]
    /\ gpa' = [gpa EXCEPT ![c] = 0]
    /\ UNCHANGED <<tbl, boot, base, lock, job, pgentry, hpa>>

(***************************************************************************)
(* local_gpa2hpa, called for a page of guest RAM.                          *)
(***************************************************************************)
CopyLookup(c) ==
    /\ Booted /\ pc[c] = "guest" /\ c \in CopyCpus
    /\ \E v \in Page :
         /\ EPT_WB \subseteq Translate(tbl, v).prot
         /\ gpa' = [gpa EXCEPT ![c] = v]
         /\ pgentry' = [pgentry EXCEPT ![c] = lookup_address(tbl, v)]
    /\ pc' = [pc EXCEPT ![c] = "gpa2hpa"]
    /\ UNCHANGED <<tbl, boot, base, lock, job, hpa>>

\* The address in *pgentry, with the offset of the page size found before.
CopyDeref(c) ==
    /\ pc[c] = "gpa2hpa"
    /\ LET n == pgentry[c]
       IN  hpa' = [hpa EXCEPT ![c] =
             IF n = NULL THEN INVALID_HPA
             ELSE IF tbl[n].kind = "leaf" THEN Leaf(tbl[n].pa + gpa[c] - First(n), {})
             ELSE Table]  \* an address inside the hypervisor
    /\ pgentry' = [pgentry EXCEPT ![c] = NULL]
    /\ pc' = [pc EXCEPT ![c] = "copy"]
    /\ UNCHANGED <<tbl, boot, base, lock, job, gpa>>

\* local_copy_gpa has copied; the caller goes on.
CopyDone(c) ==
    /\ pc[c] = "copy"
    /\ pc' = [pc EXCEPT ![c] = "guest"]
    /\ gpa' = [gpa EXCEPT ![c] = 0]
    /\ hpa' = [hpa EXCEPT ![c] = INVALID_HPA]
    /\ UNCHANGED <<tbl, boot, base, lock, job, pgentry>>

VmExit(c) ==
    \/ BarUnmap(c) \/ BarWrite(c) \/ BarMap(c)
    \/ FetchExit(c) \/ FetchLookup(c) \/ FetchDeref(c) \/ FetchModify(c) \/ FetchFault(c)
    \/ CopyLookup(c) \/ CopyDeref(c) \/ CopyDone(c)

Next == MapE820Entry \/ InitBar \/ \E c \in Cpu : VmExit(c)

Spec == Init /\ [][Next]_vars

-----------------------------------------------------------------------------
(***************************************************************************)
(* Properties.                                                             *)
(***************************************************************************)
\* In the mode that works around the page-size-change erratum the execute right
\* of a page is the violation handler's business, so it is left out here.
VisibleProt(prot) == IF TweakExe THEN prot \ {"X"} ELSE prot

\* What the paging structures say of every page.
FlatView == [v \in Page |-> [Translate(tbl, v) EXCEPT !.prot = VisibleProt(@)]]

Flat == INSTANCE FlatMap WITH Free <- None, map <- FlatView

\* The paging structures implement a flat map: splitting large pages, choosing
\* them, and reusing the pages of tables never changes what any guest page is
\* mapped to, except for the range that ept_add_mr and ept_del_mr are called for,
\* and ept_modify_mr changes no visible right.
ImplementsFlatMap == Flat!Spec

\* On a processor with the erratum no large page is ever executable: neither one
\* that mmu_add has placed nor one that split_large_page or ept_modify_mr left
\* (page.c: ept_tweak_exe_right).
LargeNotExecutable ==
    TweakExe => \A n \in Node : n[1] \in {2, 3} /\ Seen(tbl, n).kind = "leaf" => "X" \notin tbl[n].prot

BarPages(b) == IF base[b] = 0 THEN {} ELSE base[b] .. base[b] + Bars[b].size - 1

\* Between two writes to BARs the guest reaches a device at a page of the window
\* only through a BAR that is at that page now: no mapping survives the move of
\* its BAR (vdev_pt_unmap_mem_vbar), whatever BARs overlapped meanwhile; and
\* ept_add_mr is called for unmapped pages only, as mmu_add requires.
WindowOnlyBars ==
    /\ Booted /\ lock = NoCpu =>
         \A v \in VbarBase .. VbarTop - 1 :
           Mapped(tbl, v) => \E b \in Bar : v \in BarPages(b) /\ Translate(tbl, v).pa = Bars[b].hpa + v - base[b]
    /\ lock # NoCpu /\ pc[lock] = "map_bar" /\ job.new # 0
         => \A v \in job.new .. job.new + Bars[job.bar].size - 1 : ~Mapped(tbl, v)

\* Whatever the other vCPUs do to the EPT meanwhile, a page that the handler of a fetch
\* changes is executable when it returns; and it refuses a page of RAM only when
\* another vCPU has split the large page whose entry it had looked up, to make a page of
\* it executable (ept_violation_vmexit_handler).
FetchSucceeds ==
    [][\A c \in FetchCpus :
         /\ pc[c] = "modify" /\ pc'[c] = "guest" => "X" \in Translate(tbl', gpa[c]).prot
         /\ pc[c] = "deref" /\ pc'[c] = "inject_pf" /\ EPT_WB \subseteq Translate(tbl, gpa[c]).prot =>
              /\ pgentry[c] # NULL /\ gpa[c] \in Pages(pgentry[c])
              /\ \E v \in Pages(pgentry[c]) : "X" \in Translate(tbl, v).prot]_vars

\* local_gpa2hpa returns the host page that the guest page is mapped to
\* (guest_memory.c:67).
TranslationRight ==
    \A c \in Cpu : pc[c] = "copy" => hpa[c] = [Translate(tbl, gpa[c]) EXCEPT !.prot = {}]
=============================================================================
