-------------------------------- MODULE E820 --------------------------------
(***************************************************************************)
(* The memory map of the platform (arch/x86/e820.c) and the buffer below   *)
(* 1 MByte that the start-up code of the other pCPUs is copied to          *)
(* (arch/x86/trampoline.c).                                                *)
(*                                                                         *)
(* Addresses count the smallest unit that matters: PAGE_SIZE of them are a *)
(* page, so that an entry of the map need not begin or end at a page.      *)
(***************************************************************************)
EXTENDS Naturals, Sequences, FiniteSetsExt

CONSTANTS PAGE_SIZE,
          MEM_1M,
          E820_MAX_ENTRIES,
          TopAddrSpace,       \* CONFIG_PLATFORM_RAM_SIZE + PLATFORM_LO_MMIO_SIZE
          LowRamSize,         \* CONFIG_LOW_RAM_SIZE
          INVALID             \* ACRN_INVALID_HPA

ASSUME E820Assumption ==
    /\ PAGE_SIZE \in Nat \ {0} /\ MEM_1M \in Nat \ {0} /\ MEM_1M % PAGE_SIZE = 0
    /\ LowRamSize \in Nat \ {0} /\ E820_MAX_ENTRIES \in Nat \ {0}
    /\ TopAddrSpace \in Nat /\ INVALID \notin Nat

End(en) == en.base + en.length
InEntry(en, x) == x \in en.base .. End(en) - 1

\* init_e820: as many entries of the boot loader's map as there is room for, cut
\* off at the end of the configured address space.
CutOff(en) ==
    [en EXCEPT !.length = IF en.base >= TopAddrSpace THEN 0
                          ELSE IF End(en) > TopAddrSpace THEN TopAddrSpace - en.base ELSE @]
init_e820(mmap) == [i \in 1 .. Min({Len(mmap), E820_MAX_ENTRIES}) |-> CutOff(mmap[i])]

\* obtain_mem_range_info: mem_top, which alone is used.
obtain_mem_range_info(e820) == Max({End(e820[i]) : i \in DOMAIN e820} \cup {0})

round_page_down(x) == (x \div PAGE_SIZE) * PAGE_SIZE
round_page_up(x) == round_page_down(x + PAGE_SIZE - 1)

\* Mutant: an entry is used as it is, page boundaries or not.
fits_unrounded(en, size) == en.type = "RAM" /\ en.length >= size /\ en.base + size <= MEM_1M

\* The whole pages of an entry, and whether the allocation takes them.  What is
\* below 1 MByte is their first part, and what is returned their last.
FirstPage(en) == round_page_up(en.base)
LastPage(en) == round_page_down(End(en))
Fits(en, size) ==
    /\ en.type = "RAM"
    /\ FirstPage(en) + size <= LastPage(en)
    /\ FirstPage(en) + size <= MEM_1M
e820_alloc_low_memory(e820, size_arg) ==
    LET size == round_page_up(size_arg)
        fit == {i \in DOMAIN e820 : Fits(e820[i], size)}
    IN  IF fit = {} THEN INVALID ELSE LastPage(e820[Min(fit)]) - size

Overlaps(from, to, addr, len) == to > addr /\ from < addr + len

\* get_ap_trampoline_buf: INVALID stands for its panics.  mb says where the boot
\* loader put its tables.
get_ap_trampoline_buf(e820, mb) ==
    LET ret == e820_alloc_low_memory(e820, LowRamSize)
    IN  IF ret = INVALID THEN INVALID
        ELSE IF \E t \in {"mmap", "info", "mods"} :
                  Overlaps(ret, ret + LowRamSize, mb.addr[t], mb.len[t])
             THEN INVALID
             ELSE ret

\* send_startup_ipi passes the number of a page below 1 MByte, and the code is
\* patched with a real-mode segment and offset: both hold 20 bits of an address.
RealMode(addr) == addr % MEM_1M
=============================================================================
