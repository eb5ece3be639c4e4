---------------------------- MODULE PageTableOps ----------------------------
(***************************************************************************)
(* Four-level paging structures and the operations on them:                *)
(* arch/x86/pagetable.c, used by the hypervisor for its own mapping        *)
(* (HvPaging) and for the EPT of each VM (Ept).                            *)
(*                                                                         *)
(* Addresses count 4-KByte pages.  Level 1 holds the PTEs, 2 the PDEs, 3   *)
(* the PDPTEs, 4 the PML4Es.  The page of every table is fixed by the      *)
(* address it serves (get_pt_page returns pt_base + (gpa >> PDE_SHIFT)),   *)
(* so an entry is identified by its level and its position in the whole    *)
(* address space, and an entry that references a table needs no address.   *)
(* The loops of the source visit the entries of a range in address order;  *)
(* here each operation says what becomes of every entry.                   *)
(***************************************************************************)
EXTENDS Naturals, FiniteSets, FiniteSetsExt

CONSTANTS Fan,         \* entries per table: 512 in the code
          Top,         \* number of 4-KByte pages of the address space
          LargePages,  \* mem_ops->large_page_enabled
          TweakExe     \* tweak_exe_right and recover_exe_right are not the nop versions

ASSUME PageTableAssumption ==
    /\ Fan \in Nat \ {0, 1} /\ Top \in Nat \ {0}
    /\ Top % (Fan * Fan) = 0 /\ Top >= Fan * Fan
    /\ LargePages \in BOOLEAN /\ TweakExe \in BOOLEAN

Page == 0 .. Top - 1
\* One PML4E covers all memory that the hypervisor maps.
Size(l) == <<1, Fan, Fan * Fan, Top>>[l]

\* Entry n = <<l, i>> is the i-th of its level.
Node == UNION {{<<l, v \div Size(l)>> : v \in Page} : l \in 1 .. 4}
At(l, v) == <<l, v \div Size(l)>>
First(n) == n[2] * Size(n[1])
Pages(n) == First(n) .. First(n) + Size(n[1]) - 1
Parent(n) == At(n[1] + 1, First(n))

\* A non-present entry refers to the sanitized page, whatever it held before.
None == [kind |-> "none", pa |-> 0, prot |-> {}]
Table == [kind |-> "table", pa |-> 0, prot |-> {}]
Leaf(pa, prot) == [kind |-> "leaf", pa |-> pa, prot |-> prot]

EmptyTable == [n \in Node |-> None]

NULL == <<0, 0>>

\* Entry n as a walk from the PML4 table finds it: what is left in tables that
\* no entry refers to is not seen.
Linked(tbl, n) == \A l \in n[1] + 1 .. 4 : tbl[At(l, First(n))].kind = "table"
Seen(tbl, n) == IF Linked(tbl, n) THEN tbl[n] ELSE None

\* lookup_address: the entry that maps page v, or NULL.
lookup_address(tbl, v) ==
    LET found == {n \in {At(l, v) : l \in 1 .. 3} : tbl[n].kind = "leaf" /\ Linked(tbl, n)}
    IN  IF found = {} THEN NULL ELSE CHOOSE n \in found : TRUE

Mapped(tbl, v) == lookup_address(tbl, v) # NULL

tweak_exe_right(prot) == IF TweakExe THEN prot \ {"X"} ELSE prot
recover_exe_right(prot) == IF TweakExe THEN prot \cup {"X"} ELSE prot

(***************************************************************************)
(* mmu_add: map the unmapped range of cnt pages from v to those from pa.   *)
(***************************************************************************)
\* add_pdpte and add_pde use a large page for an entry that the range covers
\* and whose physical address is aligned as well; add_pte needs neither.
LargeFits(n, pa, v, cnt) ==
    /\ LargePages
    /\ n[1] \in {2, 3}
    /\ Pages(n) \subseteq v .. v + cnt - 1
    /\ (pa + First(n) - v) % Size(n[1]) = 0

\* add_pte goes past an entry that is present without counting its addresses, so the
\* entry of page x is filled as if it were that of an earlier page.
TakenFor(tbl, v, x) ==
    x - Cardinality({y \in Pages(At(2, x)) : v <= y /\ y < x /\ Mapped(tbl, y)})

\* What is mapped already is left as it is.
ToMap(tbl, v, cnt) ==
    {x \in Page : v <= x /\ ~Mapped(tbl, x) /\ TakenFor(tbl, v, x) \in v .. v + cnt - 1}

\* The entries that are to map the range: the highest that fits and does not
\* refer to a table already.
NewLeaves(tbl, pa, v, cnt) ==
    {At(Max({l \in 1 .. 3 : /\ l = 1 \/ LargeFits(At(l, x), pa, v, cnt)
                            /\ Seen(tbl, At(l, x)).kind # "table"}), x)
       : x \in ToMap(tbl, v, cnt)}

\* effective_prot is tweaked for a large page and stays so for the entries that
\* follow in the same call of add_pdpte or add_pde, their tables included.
EffectiveProt(n, new, prot) ==
    IF \/ n[1] > 1
       \/ \E m \in new : /\ m[1] > 1 /\ First(m) < First(n)
                         /\ Parent(m) = At(m[1] + 1, First(n))
    THEN tweak_exe_right(prot) ELSE prot

mmu_add(tbl, pa, v, cnt, prot) ==
    LET new == NewLeaves(tbl, pa, v, cnt)
        above == {n \in Node : \E m \in new : m[1] < n[1] /\ At(n[1], First(m)) = n}
        \* construct_pgentry sanitizes the page of a table it links in
        built == {n \in above : Seen(tbl, n).kind # "table"}
    IN  [n \in Node |->
           IF n \in new
           THEN Leaf(pa + TakenFor(tbl, v, First(n)) - v, EffectiveProt(n, new, prot))
           ELSE IF n \in above THEN Table
           ELSE IF n[1] < 4 /\ Parent(n) \in built THEN None
           ELSE tbl[n]]

(***************************************************************************)
(* mmu_modify_or_del on the pages of the set r.                            *)
(***************************************************************************)
\* The range covers a part of what entry n maps, and not all of it.
Cuts(r, n) == Pages(n) \cap r # {} /\ ~(Pages(n) \subseteq r)

\* Mutant: every piece gets the address of the large page.
split_without_increment(e, m, n) ==
    Leaf(e.pa, IF n[1] = 1 THEN recover_exe_right(e.prot) ELSE e.prot)

\* Mutant: the split into 2-MByte pages recovers the execute right too.
split_recovers_always(e, m, n) == Leaf(e.pa + First(n) - First(m), recover_exe_right(e.prot))

\* split_large_page: what large page m, seen as entry e, leaves to entry n below
\* it.  Only the split into PTEs recovers the execute right.
split_large_page(e, m, n) ==
    Leaf(e.pa + First(n) - First(m),
         IF n[1] = 1 THEN recover_exe_right(e.prot) ELSE e.prot)

\* Every large page that r cuts is split, down to entries that it does not cut.
SplitAll(tbl, r) ==
    [n \in Node |->
       LET m == lookup_address(tbl, First(n))
       IN  IF n[1] = 4 \/ m = NULL \/ m[1] < n[1] \/ (m[1] > n[1] /\ ~Cuts(r, Parent(n)))
           THEN tbl[n]
           ELSE IF Cuts(r, n) THEN Table
           ELSE IF m = n THEN tbl[n]
           ELSE split_large_page(tbl[m], m, n)]

\* The entries that the walk over r reaches after the splits and hands to
\* local_modify_or_del_pte: those that map pages of r and none outside it.
Covered(s, r, n) == n[1] < 4 /\ Pages(n) \subseteq r /\ Seen(s, n).kind = "leaf"

mmu_modify(tbl, r, set, clr) ==
    LET s == SplitAll(tbl, r)
    IN  [n \in Node |-> IF Covered(s, r, n) THEN Leaf(s[n].pa, (s[n].prot \ clr) \cup set) ELSE s[n]]

mmu_del(tbl, r) ==
    LET s == SplitAll(tbl, r)
    IN  [n \in Node |-> IF Covered(s, r, n) THEN None ELSE s[n]]

\* What the paging structures say of page v: the physical page and the rights.
Translate(tbl, v) ==
    LET n == lookup_address(tbl, v)
    IN  IF n = NULL THEN None ELSE Leaf(tbl[n].pa + v - First(n), tbl[n].prot)
=============================================================================
