------------------------------- MODULE HvPaging -------------------------------
(***************************************************************************)
(* The hypervisor's own mapping: init_paging and                           *)
(* hv_access_memory_region_update (arch/x86/mmu.c) on the identity map of  *)
(* ppt_mem_ops (arch/x86/page.c), which has pages for PDPTs and PDs and,   *)
(* since get_pt_page is NULL there, none for page tables.                  *)
(*                                                                         *)
(* init_paging makes seven calls of mmu_add and mmu_modify_or_del in a     *)
(* row; each is a step of the BSP.  HostMemory composes it with what comes *)
(* before and after.                                                       *)
(***************************************************************************)
EXTENDS PageTableOps, E820

CONSTANTS Pcpu, BOOT_CPU_ID,
          FourG,        \* the page at 4 GBytes
          HvRam,        \* CONFIG_HV_RAM_SIZE
          Guards        \* the guard pages of the pCPUs' stacks, of a PDE each

ASSUME HvPagingAssumption ==
    /\ BOOT_CPU_ID \in Pcpu
    /\ FourG \in Page /\ FourG % (Fan * Fan) = 0 /\ TopAddrSpace <= Top * PAGE_SIZE
    /\ HvRam \in Nat \ {0} /\ HvRam % Fan = 0
    /\ \A g \in Guards : g \in Nat /\ g % Fan = 0

VARIABLES ppt,       \* the paging structures
          stage,     \* where each pCPU is
          image,     \* get_hv_image_base() and the end of the code
          hv_e820,   \* the memory map
          stale      \* pages whose rights changed since the TLB was flushed

pagingVars == <<ppt, stage, image, hv_e820, stale>>

PdeDown(v) == (v \div Fan) * Fan
PdeUp(v) == PdeDown(v + Fan - 1)
PageOf(addr) == addr \div PAGE_SIZE
PageUp(addr) == PageOf(round_page_up(addr))

high64_max_ram == PdeUp(PageUp(obtain_mem_range_info(hv_e820)))

\* The highest end below 4 GBytes: an entry that ends at 4 GBytes does not count.
low32_max_ram ==
    Max({End(en) : en \in {hv_e820[i] : i \in {j \in DOMAIN hv_e820 :
            /\ hv_e820[j].type = "RAM" /\ hv_e820[j].base < FourG * PAGE_SIZE
            /\ End(hv_e820[j]) < FourG * PAGE_SIZE}}} \cup {0})

Step(c, from, to) == stage[c] = from /\ stage' = [stage EXCEPT ![c] = to]
Then(from, to, t) == /\ Step(BOOT_CPU_ID, from, to)
                     /\ ppt' = t /\ UNCHANGED <<image, hv_e820, stale>>

\* Everything is mapped uncached and not executable, unless the platform is
\* larger or smaller than configured, which is a panic.
MapAll ==
    LET wrong == high64_max_ram > PageOf(TopAddrSpace) \/ high64_max_ram < FourG
    IN  Then("add", IF wrong THEN "panic" ELSE "low",
             IF wrong THEN ppt ELSE mmu_add(ppt, 0, 0, high64_max_ram, {"P", "RW", "USER", "NX"}))

SetWb(r) == mmu_modify(ppt, r, {"WB"}, {"WB"})

\* RAM below 4 GBytes, and all above, become write-back.
LowWb == Then("low", "high", SetWb(0 .. PdeUp(PageUp(low32_max_ram)) - 1))
HighWb == Then("high", "image", SetWb(FourG .. high64_max_ram - 1))

\* The pages of the image: one PDE more when it does not begin at a PDE.
ImageRange ==
    PdeDown(image.hv_hpa) .. PdeDown(image.hv_hpa) + HvRam
                             + (IF image.hv_hpa % Fan # 0 THEN Fan ELSE 0) - 1

\* The image is write-back and for the supervisor only; its code is executable.
ImageWb == Then("image", "text", mmu_modify(ppt, ImageRange, {"WB"}, {"WB", "USER"}))

TextRange == PdeDown(image.hv_hpa) .. PdeUp(image.text_end) - 1
TextExecutable == Then("text", "guards", mmu_modify(ppt, TextRange, {}, {"NX"}))

\* The guard pages are unmapped.
DelGuards == Then("guards", "enable", mmu_del(ppt, UNION {g .. g + Fan - 1 : g \in Guards}))

init_paging == MapAll \/ LowWb \/ HighWb \/ ImageWb \/ TextExecutable \/ DelGuards

\* Mutant: the region is not rounded.
UpdateRangeExact(base, size) == base .. base + size - 1

UpdateRange(base, size) == LET low == PdeDown(base) IN low .. low + PdeUp(base + size - low) - 1

\* hv_access_memory_region_update: the PDEs of regions become supervisor pages.
\* Nothing is flushed.
RegionUpdate(bases, size) ==
    LET r == UNION {UpdateRange(b, size) : b \in bases}
    IN  /\ ppt' = mmu_modify(ppt, r, {}, {"USER"})
        /\ stale' = stale \cup {v \in r : Mapped(ppt, v) /\ "USER" \in Translate(ppt, v).prot}

-----------------------------------------------------------------------------
\* No PDE ever refers to a page table: split_large_page would call get_pt_page,
\* which is NULL in ppt_mem_ops.  It depends on every range init_paging and
\* hv_access_memory_region_update pass being a multiple of a PDE.
NoPageTable == \A n \in Node : n[1] = 2 => Seen(ppt, n).kind # "table"

\* What init_paging is for, once paging is enabled and whatever regions are
\* updated later: the image is mapped one to one, write-back and out of reach of
\* user-mode accesses, its code is executable and nothing outside the PDEs of its
\* code is, and the guard pages of the stacks are not mapped.
ImageProtected ==
    stage[BOOT_CPU_ID] \notin {"e820", "add", "low", "high", "image", "text", "guards", "panic"} =>
      LET guard == UNION {g .. g + Fan - 1 : g \in Guards}
          pages == image.hv_hpa .. image.hv_hpa + HvRam - 1
          at(v) == Translate(ppt, v)
      IN  /\ \A v \in guard : ~Mapped(ppt, v)
          /\ \A v \in pages \ guard :
               at(v).pa = v /\ {"P", "WB"} \subseteq at(v).prot /\ "USER" \notin at(v).prot
          /\ \A v \in Page : Mapped(ppt, v) =>
               /\ v \in image.hv_hpa .. image.text_end - 1 => "NX" \notin at(v).prot
               /\ "NX" \notin at(v).prot => v \in TextRange

\* Both together: what init_paging maps, with the large pages it has to use.
MappingRight == NoPageTable /\ ImageProtected
=============================================================================
