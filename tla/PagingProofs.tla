------------------------------ MODULE PagingProofs ------------------------------
(***************************************************************************)
(* Proofs about the paging structures, for any number of entries per table *)
(* and any size of the address space.                                      *)
(*                                                                         *)
(* The EPT of a VM, for any e820 table and BARs that EptConfiguration      *)
(* admits and any number of vCPUs:                                         *)
(*   - no large page is executable on a processor with the page-size-change*)
(*     erratum;                                                            *)
(*   - the window shows the BARs where they are and nothing else;          *)
(*   - the paging structures implement FlatMap.                            *)
(* The host's memory, for any memory map, image, devices and VMs that      *)
(* HostConfiguration admits and any number of pCPUs:                       *)
(*   - the code of the other pCPUs is copied to RAM that is nobody else's; *)
(*   - the hypervisor's own mapping is what init_paging is for;            *)
(*   - SMEP, SMAP and the host state of the VMCS are in force, and nothing *)
(*     the hypervisor does runs into them;                                 *)
(*   - a VM that is started finds what the loader put together.            *)
(* Both rest on what mmu_add, mmu_modify and mmu_del do to the translation *)
(* of one page (AddView, ModifyView, ModifyRights, DelView), which follows *)
(* from what they do to the entries on the walk for that page.             *)
(***************************************************************************)
EXTENDS Ept, HostMemory, FiniteSetTheorems, WellFoundedInduction, NaturalsInduction, TLAPS

\* The inductive invariant: also of entries that no walk reaches, since an
\* operation may link the table they are in.
NoExe(t) == \A n \in Node : n[1] \in {2, 3} /\ t[n].kind = "leaf" => "X" \notin t[n].prot

\* The sizes of what the entries of each level map.
LEMMA SizeFacts == /\ \A l \in 1 .. 4 : Size(l) \in Nat \ {0}
                   /\ Size(2) >= 2 /\ Size(3) >= 2
<1>1. Fan \in Nat /\ Fan >= 2 /\ Top \in Nat /\ Top # 0
  BY PageTableAssumption
<1>2. Fan * Fan \in Nat /\ Fan * Fan >= 2
  BY <1>1
<1>3. Size(1) = 1 /\ Size(2) = Fan /\ Size(3) = Fan * Fan /\ Size(4) = Top
  BY DEF Size
<1> QED
  BY <1>1, <1>2, <1>3

\* The first page of an entry is a page of the address space.
LEMMA FirstInPage == ASSUME NEW n \in Node PROVE First(n) \in Page /\ n[1] \in 1 .. 4
<1>1. PICK l \in 1 .. 4, v \in Page : n = <<l, v \div Size(l)>>
  BY DEF Node
<1>2. Size(l) \in Nat /\ Size(l) > 0 /\ v \in Nat /\ Top \in Nat
  BY SizeFacts, PageTableAssumption DEF Page
<1> DEFINE s == Size(l)
           q == v \div s
<1>3. s \in Nat /\ s > 0 /\ v \in Nat
  BY <1>2
<1>4. q \in Nat /\ q * s \in Nat /\ q * s <= v
  <2> HIDE DEF s
  <2>1. q \in Int /\ v = s * q + (v % s) /\ v % s \in 0 .. s - 1
    BY <1>3
  <2>2. q >= 0
    BY <1>3
  <2>3. q * s = s * q /\ q * s \in Nat
    BY <2>1, <2>2, <1>3
  <2> QED
    BY <2>1, <2>2, <2>3, <1>3
<1>5. First(n) = q * s /\ n[1] = l
  BY <1>1 DEF First
<1> QED
  BY <1>4, <1>5, <1>2 DEF Page

\* An entry found by a walk is an entry that maps, of level 1, 2 or 3.
LEMMA LookupFacts ==
    ASSUME NEW t, NEW v \in Page, lookup_address(t, v) # NULL
    PROVE  LET m == lookup_address(t, v)
           IN  m \in Node /\ m[1] \in 1 .. 3 /\ t[m].kind = "leaf"
<1> DEFINE found == {n \in {At(l, v) : l \in 1 .. 3} : t[n].kind = "leaf" /\ Linked(t, n)}
           m == lookup_address(t, v)
<1>1. found # {} /\ m \in found
  BY DEF lookup_address
<1>2. PICK l \in 1 .. 3 : m = At(l, v) /\ t[m].kind = "leaf"
  BY <1>1
<1>3. m = <<l, v \div Size(l)>> /\ l \in 1 .. 4
  BY <1>2 DEF At
<1>4. m \in Node
  BY <1>3 DEF Node
<1> QED
  BY <1>2, <1>3, <1>4

\* A large page is never contained in one 4-KByte page.
LEMMA LargeIsLarge ==
    ASSUME NEW n \in Node, n[1] \in {2, 3}, NEW v \in Int
    PROVE  ~(Pages(n) \subseteq v .. v)
<1>1. First(n) \in Int
  BY FirstInPage, PageTableAssumption DEF Page
<1>2. Size(n[1]) \in Nat /\ Size(n[1]) >= 2
  BY SizeFacts
<1>3. First(n) \in Pages(n) /\ First(n) + 1 \in Pages(n)
  BY <1>1, <1>2 DEF Pages
<1> QED
  BY <1>1, <1>3

\* mmu_add makes no large page executable.
LEMMA AddNoExe ==
    ASSUME TweakExe, NEW t, NoExe(t), NEW pa, NEW v, NEW cnt, NEW prot
    PROVE  NoExe(mmu_add(t, pa, v, cnt, prot))
<1> DEFINE new == NewLeaves(t, pa, v, cnt)
           u == mmu_add(t, pa, v, cnt, prot)
<1> SUFFICES ASSUME NEW n \in Node, n[1] \in {2, 3}, u[n].kind = "leaf" PROVE "X" \notin u[n].prot
  BY DEF NoExe
<1>1. CASE n \in new
  <2>1. u[n] = Leaf(pa + TakenFor(t, v, First(n)) - v, EffectiveProt(n, new, prot))
    BY <1>1 DEF mmu_add
  <2>2. EffectiveProt(n, new, prot) = prot \ {"X"}
    BY DEF EffectiveProt, tweak_exe_right
  <2> QED
    BY <2>1, <2>2 DEF Leaf
<1>2. CASE n \notin new
  <2>1. u[n] = Table \/ u[n] = None \/ u[n] = t[n]
    BY <1>2 DEF mmu_add
  <2> QED
    BY <2>1 DEF Table, None, NoExe
<1> QED
  BY <1>1, <1>2

\* Splitting makes no large page executable.
LEMMA SplitNoExe == ASSUME NEW t, NoExe(t), NEW r PROVE NoExe(SplitAll(t, r))
<1> DEFINE u == SplitAll(t, r)
<1> SUFFICES ASSUME NEW n \in Node, n[1] \in {2, 3}, u[n].kind = "leaf" PROVE "X" \notin u[n].prot
  BY DEF NoExe
<1> DEFINE m == lookup_address(t, First(n))
<1>1. \/ u[n] = t[n]
      \/ u[n] = Table
      \/ m # NULL /\ ~(m[1] < n[1]) /\ m # n /\ u[n] = split_large_page(t[m], m, n)
  BY DEF SplitAll
<1>2. CASE u[n] = t[n] \/ u[n] = Table
  BY <1>2 DEF Table, NoExe
<1>3. CASE m # NULL /\ ~(m[1] < n[1]) /\ u[n] = split_large_page(t[m], m, n)
  <2>1. m \in Node /\ m[1] \in 1 .. 3 /\ t[m].kind = "leaf"
    BY <1>3, FirstInPage, LookupFacts
  <2>2. m[1] \in {2, 3}
    BY <1>3, <2>1
  <2>3. "X" \notin t[m].prot
    BY <2>1, <2>2 DEF NoExe
  <2>4. u[n].prot = t[m].prot
    BY <1>3 DEF split_large_page, Leaf
  <2> QED
    BY <2>3, <2>4
<1> QED
  BY <1>1, <1>2, <1>3

\* Unmapping makes no large page executable.
LEMMA DelNoExe == ASSUME NEW t, NoExe(t), NEW r PROVE NoExe(mmu_del(t, r))
<1> DEFINE s == SplitAll(t, r)
           u == mmu_del(t, r)
<1>1. NoExe(s)
  BY SplitNoExe
<1>2. \A n \in Node : u[n] = None \/ u[n] = s[n]
  BY DEF mmu_del
<1> QED
  BY <1>1, <1>2 DEF NoExe, None

\* Changing the rights of one 4-KByte page makes no large page executable: the
\* large page it is in has been split.
LEMMA ModifyNoExe ==
    ASSUME NEW t, NoExe(t), NEW v \in Int, NEW set, NEW clr
    PROVE  NoExe(mmu_modify(t, v .. v, set, clr))
<1> DEFINE s == SplitAll(t, v .. v)
           u == mmu_modify(t, v .. v, set, clr)
<1>1. NoExe(s)
  BY SplitNoExe
<1>2. \A n \in Node : u[n] = s[n] \/ Pages(n) \subseteq v .. v
  BY DEF mmu_modify, Covered
<1> QED
  BY <1>1, <1>2, LargeIsLarge DEF NoExe

IInv == TweakExe => NoExe(tbl)

\* The types of what the handlers remember: the page of an exit.
GpaOK == gpa \in [Cpu -> Page]

\* They are kept by every step.
LEMMA GpaTyped == Spec => []GpaOK
<1>1. Init => GpaOK
  BY PageTableAssumption DEF Init, GpaOK, Page
<1>2. GpaOK /\ [Next]_vars => GpaOK'
  <2> SUFFICES ASSUME GpaOK, [Next]_vars PROVE GpaOK'
    OBVIOUS
  <2>0. 0 \in Page
    BY PageTableAssumption DEF Page
  <2>1. CASE UNCHANGED gpa
    BY <2>1 DEF GpaOK
  <2>2. ASSUME NEW c \in Cpu, FetchExit(c) \/ FetchModify(c) \/ FetchFault(c) \/ CopyLookup(c) \/ CopyDone(c)
        PROVE  GpaOK'
    BY <2>0, <2>2 DEF GpaOK, FetchExit, FetchModify, FetchFault, CopyLookup, CopyDone
  <2>3. UNCHANGED vars => UNCHANGED gpa
    BY DEF vars
  <2>4. MapE820Entry \/ InitBar => UNCHANGED gpa
    BY DEF MapE820Entry, InitBar
  <2>5. ASSUME NEW c \in Cpu, BarUnmap(c) \/ BarWrite(c) \/ BarMap(c) \/ FetchLookup(c) \/ FetchDeref(c) \/ CopyDeref(c)
        PROVE  UNCHANGED gpa
    BY <2>5 DEF BarUnmap, BarWrite, BarMap, FetchLookup, FetchDeref, CopyDeref
  <2> QED
    BY <2>1, <2>2, <2>3, <2>4, <2>5 DEF Next, VmExit
<1> QED
  BY <1>1, <1>2, PTL DEF Spec

\* The operations of ept.c.
LEMMA EptNoExe ==
    ASSUME TweakExe, NEW t, NoExe(t), NEW b, NEW at
    PROVE  NoExe(UnmapBar(t, b, at)) /\ NoExe(AddBar(t, b, at))
<1>1. NoExe(UnmapBar(t, b, at))
  BY DelNoExe DEF UnmapBar, ept_del_mr
<1>2. NoExe(AddBar(t, b, at))
  BY AddNoExe DEF AddBar, ept_add_mr
<1> QED
  BY <1>1, <1>2

\* On a processor with the page-size-change erratum no large page of an EPT is
\* executable, whatever mmu_add placed and whatever mmu_modify_or_del split.
THEOREM LargePagesNotExecutable == Spec => []LargeNotExecutable
<1>1. Init => IInv
  BY DEF Init, IInv, NoExe, EmptyTable, None
<1>2. GpaOK /\ IInv /\ [Next]_vars => IInv'
  <2> SUFFICES ASSUME GpaOK, IInv, [Next]_vars, TweakExe PROVE NoExe(tbl')
    BY DEF IInv, NoExe
  <2>0. NoExe(tbl)
    BY DEF IInv
  <2>1. CASE UNCHANGED tbl
    BY <2>0, <2>1
  <2>2. CASE MapE820Entry
    <3>1. \/ UNCHANGED tbl
          \/ \E pa, v, cnt, prot : tbl' = mmu_add(tbl, pa, v, cnt, prot)
      BY <2>2 DEF MapE820Entry, ept_add_mr
    <3> QED
      BY <3>1, <2>0, <2>1, AddNoExe
  <2>3. CASE InitBar
    <3>1. \E b, at : tbl' = AddBar(UnmapBar(tbl, b, at), b, at)
      BY <2>3 DEF InitBar
    <3> QED
      BY <3>1, <2>0, EptNoExe
  <2>4. ASSUME NEW c \in Cpu, BarUnmap(c) PROVE NoExe(tbl')
    <3>1. \E b : tbl' = UnmapBar(tbl, b, base[b])
      BY <2>4 DEF BarUnmap
    <3> QED
      BY <3>1, <2>0, EptNoExe
  <2>5. ASSUME NEW c \in Cpu, BarWrite(c) PROVE NoExe(tbl')
    BY <2>5, <2>0, EptNoExe DEF BarWrite
  <2>6. ASSUME NEW c \in Cpu, BarMap(c) PROVE NoExe(tbl')
    BY <2>6, <2>0, EptNoExe DEF BarMap
  <2>7. ASSUME NEW c \in Cpu, FetchModify(c) PROVE NoExe(tbl')
    <3>1. gpa[c] \in Int /\ gpa[c] + 1 - 1 = gpa[c]
      BY PageTableAssumption DEF GpaOK, Page
    <3>2. \E set, clr : tbl' = mmu_modify(tbl, gpa[c] .. gpa[c], set, clr)
      BY <2>7, <3>1 DEF FetchModify, ept_modify_mr
    <3> QED
      BY <3>1, <3>2, <2>0, ModifyNoExe
  <2>8. ASSUME NEW c \in Cpu, \/ FetchExit(c) \/ FetchLookup(c) \/ FetchDeref(c) \/ FetchFault(c)
                              \/ CopyLookup(c) \/ CopyDeref(c) \/ CopyDone(c)
        PROVE  UNCHANGED tbl
    BY <2>8 DEF FetchExit, FetchLookup, FetchDeref, FetchFault, CopyLookup, CopyDeref, CopyDone
  <2>9. UNCHANGED vars => UNCHANGED tbl
    BY DEF vars
  <2> QED
    BY <2>1, <2>2, <2>3, <2>4, <2>5, <2>6, <2>7, <2>8, <2>9 DEF Next, VmExit
<1>3. IInv => LargeNotExecutable
  BY DEF IInv, NoExe, LargeNotExecutable, Seen, None
<1> QED
  BY <1>1, <1>2, <1>3, GpaTyped, PTL DEF Spec

-----------------------------------------------------------------------------
(***************************************************************************)
(* The tree of entries: what is needed of the arithmetic.                  *)
(***************************************************************************)
\* A quotient and the multiple of the divisor below the number.
LEMMA DivBounds ==
    ASSUME NEW x \in Nat, NEW s \in Nat \ {0}
    PROVE  /\ x \div s \in Nat
           /\ (x \div s) * s <= x /\ x < (x \div s) * s + s
<1>1. x = s * (x \div s) + (x % s) /\ x % s \in 0 .. s - 1 /\ x \div s \in Int
  OBVIOUS
<1>2. x \div s >= 0
  OBVIOUS
<1> DEFINE q == x \div s
           r == x % s
<1>3. q \in Nat /\ r \in 0 .. s - 1 /\ x = s * q + r
  BY <1>1, <1>2
<1> HIDE DEF q, r
<1>4. s * q = q * s /\ q * s \in Nat
  BY <1>3
<1>5. q * s <= x /\ x < q * s + s
  BY <1>3, <1>4
<1> QED BY <1>3, <1>5 DEF q

\* The quotient is the only number with those bounds.
LEMMA DivUnique ==
    ASSUME NEW x \in Nat, NEW s \in Nat \ {0}, NEW q \in Nat, q * s <= x, x < q * s + s
    PROVE  x \div s = q
<1> DEFINE p == x \div s
<1>1. p \in Nat /\ p * s <= x /\ x < p * s + s
  BY DivBounds
<1> HIDE DEF p
<1>2. ASSUME NEW a \in Nat, NEW b \in Nat, a < b PROVE a * s + s <= b * s
  <2>1. PICK d \in Nat : b = a + 1 + d
    <3>1. b - a - 1 \in Nat /\ b = a + 1 + (b - a - 1)
      BY <1>2
    <3> QED BY <3>1
  <2>2. b * s = a * s + s + d * s
    BY <2>1
  <2>3. d * s \in Nat /\ a * s \in Nat
    OBVIOUS
  <2> QED BY <2>2, <2>3
<1>3. p * s \in Nat /\ q * s \in Nat
  BY <1>1
<1>4. ~(p < q) /\ ~(q < p)
  BY <1>1, <1>2, <1>3
<1> QED BY <1>1, <1>4 DEF p

\* The numbers of entries divide each other.
LEMMA Divides ==
    /\ \A l \in 1 .. 4 : \E k \in Nat : Top = k * Size(l)
    /\ \A x \in Nat : x \div (Fan * Fan) = (x \div Fan) \div Fan
<1>1. Fan \in Nat \ {0, 1} /\ Top \in Nat \ {0} /\ Top % (Fan * Fan) = 0 /\ Fan * Fan \in Nat \ {0}
  BY PageTableAssumption
<1>2. Size(1) = 1 /\ Size(2) = Fan /\ Size(3) = Fan * Fan /\ Size(4) = Top
  BY DEF Size
<1> DEFINE f2 == Fan * Fan
           k3 == Top \div f2
<1>3. Top = k3 * f2 /\ k3 \in Nat
  <2> HIDE DEF f2
  <2>1. f2 \in Nat \ {0} /\ Top % f2 = 0
    BY <1>1 DEF f2
  <2>2. Top = f2 * k3 + (Top % f2) /\ k3 \in Nat
    BY <1>1, <2>1, DivBounds
  <2> HIDE DEF k3
  <2> QED BY <1>1, <2>1, <2>2
<1>4. \A l \in 1 .. 4 : \E k \in Nat : Top = k * Size(l)
  <2> HIDE DEF k3
  <2>1. Top = (k3 * Fan) * Fan /\ k3 * Fan \in Nat
    BY <1>1, <1>3
  <2>2. Top = Top * 1 /\ Top = 1 * Top
    BY <1>1
  <2>3. Top = k3 * Size(3)
    BY <1>2, <1>3
  <2>4. \E k \in Nat : Top = k * Size(1)
    BY <1>1, <1>2, <2>2
  <2>5. \E k \in Nat : Top = k * Size(2)
    BY <1>2, <2>1
  <2>6. \E k \in Nat : Top = k * Size(3)
    BY <1>3, <2>3
  <2>7. \E k \in Nat : Top = k * Size(4)
    BY <1>2, <2>2
  <2> QED BY <2>4, <2>5, <2>6, <2>7
<1>5. ASSUME NEW x \in Nat PROVE x \div (Fan * Fan) = (x \div Fan) \div Fan
  <2> DEFINE a == x \div Fan
             b == a \div Fan
  <2>1. a \in Nat /\ a * Fan <= x /\ x < a * Fan + Fan
    BY <1>1, DivBounds
  <2> HIDE DEF a
  <2>2. b \in Nat /\ b * Fan <= a /\ a < b * Fan + Fan
    BY <1>1, <2>1, DivBounds
  <2> HIDE DEF b
  <2>3. b * (Fan * Fan) <= x
    <3>1. PICK d \in Nat : a = b * Fan + d
      <4>1. a - b * Fan \in Nat /\ a = b * Fan + (a - b * Fan)
        BY <1>1, <2>1, <2>2
      <4> QED BY <4>1
    <3>2. a * Fan = b * (Fan * Fan) + d * Fan /\ d * Fan \in Nat /\ b * (Fan * Fan) \in Nat /\ a * Fan \in Nat
      BY <1>1, <2>1, <2>2, <3>1
    <3> QED BY <2>1, <3>2
  <2>4. x < b * (Fan * Fan) + Fan * Fan
    <3>1. PICK d \in Nat : b * Fan + Fan = a + 1 + d
      <4>1. b * Fan + Fan - a - 1 \in Nat /\ b * Fan + Fan = a + 1 + (b * Fan + Fan - a - 1)
        BY <1>1, <2>1, <2>2
      <4> QED BY <4>1
    <3>2. (b * Fan + Fan) * Fan = b * (Fan * Fan) + Fan * Fan /\ (a + 1 + d) * Fan = a * Fan + Fan + d * Fan
      BY <1>1, <2>1, <2>2, <3>1
    <3>3. d * Fan \in Nat /\ a * Fan \in Nat /\ b * (Fan * Fan) \in Nat /\ Fan * Fan \in Nat
      BY <1>1, <2>1, <2>2
    <3> QED BY <1>1, <2>1, <3>1, <3>2, <3>3
  <2>5. x \div (Fan * Fan) = b
    BY <1>1, <2>2, <2>3, <2>4, DivUnique
  <2> QED BY <2>5 DEF a, b
<1> QED BY <1>4, <1>5

\* Each level divides the address space into the pages of its entries, ...
LEMMA Levels ==
    ASSUME NEW l \in 1 .. 4, NEW x \in Page
    PROVE  /\ At(l, x) \in Node /\ At(l, x)[1] = l
           /\ First(At(l, x)) \in Page /\ Pages(At(l, x)) \subseteq Page
           /\ x \in Pages(At(l, x)) /\ First(At(l, x)) \in Pages(At(l, x))
           /\ \A y \in Page : y \in Pages(At(l, x)) <=> At(l, y) = At(l, x)
<1> DEFINE s == Size(l)
           q == x \div s
<1>1. s \in Nat \ {0} /\ Top \in Nat \ {0} /\ x \in Nat /\ x < Top
  BY SizeFacts, PageTableAssumption DEF Page
<1>2. PICK k \in Nat : Top = k * s
  BY Divides
<1>3. At(l, x) = <<l, q>> /\ At(l, x)[1] = l /\ At(l, x) \in Node
  BY DEF At, Node
<1>4. First(At(l, x)) = q * s /\ Pages(At(l, x)) = q * s .. q * s + s - 1
  BY <1>3 DEF First, Pages
<1> HIDE DEF s
<1>5. q \in Nat /\ q * s <= x /\ x < q * s + s /\ q * s \in Nat
  BY <1>1, DivBounds
<1> HIDE DEF q
<1>6. q * s + s <= Top
  <2>1. q < k
    <3> SUFFICES ASSUME k <= q PROVE FALSE
      BY <1>2, <1>5
    <3>1. PICK d \in Nat : q = k + d
      <4>1. q - k \in Nat /\ q = k + (q - k)
        BY <1>2, <1>5
      <4> QED BY <4>1
    <3>2. q * s = k * s + d * s /\ d * s \in Nat /\ k * s \in Nat
      BY <1>1, <3>1
    <3> QED BY <1>1, <1>2, <1>5, <3>2
  <2>2. PICK d \in Nat : k = q + 1 + d
    <3>1. k - q - 1 \in Nat /\ k = q + 1 + (k - q - 1)
      BY <1>5, <2>1
    <3> QED BY <3>1
  <2>3. k * s = q * s + s + d * s /\ d * s \in Nat
    BY <1>1, <1>5, <2>2
  <2> QED BY <1>1, <1>2, <1>5, <2>3
<1>7. ASSUME NEW y \in Page PROVE y \in q * s .. q * s + s - 1 <=> At(l, y) = <<l, q>>
  <2>1. y \in Nat /\ At(l, y) = <<l, y \div s>>
    BY <1>1 DEF Page, At, s
  <2>2. y \in q * s .. q * s + s - 1 <=> q * s <= y /\ y < q * s + s
    BY <1>1, <1>5, <2>1
  <2>3. q * s <= y /\ y < q * s + s => y \div s = q
    BY <1>1, <1>5, <2>1, DivUnique
  <2>4. y \div s = q => q * s <= y /\ y < q * s + s
    BY <1>1, <2>1, DivBounds
  <2> QED BY <2>1, <2>2, <2>3, <2>4
<1>8. q * s \in Page /\ q * s .. q * s + s - 1 \subseteq Page /\ q * s \in q * s .. q * s + s - 1 /\ x \in q * s .. q * s + s - 1
  BY <1>1, <1>5, <1>6 DEF Page
<1> QED BY <1>3, <1>4, <1>7, <1>8

\* ... and an entry of a higher level covers whole entries of the lower ones.
LEMMA Nested ==
    ASSUME NEW l \in 1 .. 4, NEW k \in l .. 4, NEW x \in Page, NEW y \in Page, At(l, x) = At(l, y)
    PROVE  At(k, x) = At(k, y)
<1>1. /\ Fan \in Nat \ {0, 1} /\ Top \in Nat \ {0} /\ x \in Nat /\ y \in Nat /\ x < Top /\ y < Top
  BY PageTableAssumption DEF Page
<1>2. Size(1) = 1 /\ Size(2) = Fan /\ Size(3) = Fan * Fan /\ Size(4) = Top
  BY DEF Size
<1>3. x \div Size(l) = y \div Size(l)
  BY DEF At
<1>4. CASE l = k
  BY <1>4
<1>5. CASE l = 1
  <2>1. x \div 1 = x /\ y \div 1 = y
    BY <1>1
  <2> QED BY <1>2, <1>3, <1>5, <2>1
<1>6. CASE k = 4
  <2>1. 0 * Top <= x /\ x < 0 * Top + Top /\ 0 * Top <= y /\ y < 0 * Top + Top
    BY <1>1
  <2>2. x \div Top = 0 /\ y \div Top = 0
    BY <1>1, <2>1, DivUnique
  <2> QED BY <1>2, <1>6, <2>2 DEF At
<1>7. CASE l = 2 /\ k = 3
  BY <1>1, <1>2, <1>3, <1>7, Divides DEF At
<1> QED BY <1>4, <1>5, <1>6, <1>7

\* A PTE maps one page.
LEMMA Level1 == \A x \in Page : Pages(At(1, x)) = {x}
<1> SUFFICES ASSUME NEW x \in Page PROVE Pages(At(1, x)) = {x}
  OBVIOUS
<1>1. x \in Nat /\ x \div 1 = x /\ x * 1 = x /\ x .. x + 1 - 1 = {x}
  BY PageTableAssumption DEF Page
<1>2. At(1, x) = <<1, x \div 1>>
  BY DEF At, Size
<1> QED BY <1>1, <1>2 DEF Pages, First, Size

\* Every entry is the entry of its pages.
LEMMA Nodes == \A n \in Node : n[1] \in 1 .. 4 /\ First(n) \in Page /\ n = At(n[1], First(n))
<1> SUFFICES ASSUME NEW n \in Node PROVE n[1] \in 1 .. 4 /\ First(n) \in Page /\ n = At(n[1], First(n))
  OBVIOUS
<1>1. PICK l \in 1 .. 4, v \in Page : n = At(l, v)
  BY DEF Node, At
<1>2. n[1] = l /\ First(n) \in Page /\ First(n) \in Pages(n)
  BY <1>1, Levels
<1>3. At(l, First(n)) = At(l, v)
  BY <1>1, <1>2, Levels
<1> QED BY <1>1, <1>2, <1>3

-----------------------------------------------------------------------------
(***************************************************************************)
(* Walks.                                                                  *)
(***************************************************************************)
\* The walk for page x ends at the entry of level l.
MapsAt(t, x, l) == t[At(l, x)].kind = "leaf" /\ \A k \in l + 1 .. 4 : t[At(k, x)].kind = "table"
Unmapped(t, x) == \A l \in 1 .. 3 : ~MapsAt(t, x, l)

\* The path to an entry is that of every page it covers.
LEMMA Path == \A l, k \in 1 .. 4 : \A x, y \in Page : l <= k /\ At(l, y) = At(l, x) => At(k, y) = At(k, x)
  BY Nested

\* The first page of an entry is on the paths of all its pages.
LEMMA FirstPath ==
    ASSUME NEW l \in 1 .. 4, NEW x \in Page, NEW y, y = First(At(l, x))
    PROVE  y \in Page /\ \A k \in l .. 4 : At(k, y) = At(k, x)
<1>1. y \in Page /\ y \in Pages(At(l, x))
  BY Levels
<1>2. At(l, y) = At(l, x)
  BY <1>1, Levels
<1> QED BY <1>1, <1>2, Path

\* An entry is linked when the walk for its pages comes through tables.
LEMMA LinkedPath ==
    ASSUME NEW t, NEW l \in 1 .. 4, NEW x \in Page
    PROVE  Linked(t, At(l, x)) <=> \A k \in l + 1 .. 4 : t[At(k, x)].kind = "table"
<1>1. At(l, x)[1] = l
  BY Levels
<1>2. \A k \in l + 1 .. 4 : At(k, First(At(l, x))) = At(k, x)
  BY FirstPath
<1> QED BY <1>1, <1>2 DEF Linked

\* At most one level maps a page, and lookup_address finds it.
LEMMA Lookup ==
    ASSUME NEW t, NEW x \in Page
    PROVE  /\ \A l \in 1 .. 3 : MapsAt(t, x, l) => lookup_address(t, x) = At(l, x)
           /\ Unmapped(t, x) => lookup_address(t, x) = NULL
           /\ lookup_address(t, x) # NULL => \E l \in 1 .. 3 : MapsAt(t, x, l) /\ lookup_address(t, x) = At(l, x)
<1> DEFINE found == {n \in {At(l, x) : l \in 1 .. 3} : t[n].kind = "leaf" /\ Linked(t, n)}
<1>1. lookup_address(t, x) = IF found = {} THEN NULL ELSE CHOOSE n \in found : TRUE
  BY DEF lookup_address
<1>2. \A l \in 1 .. 3 : At(l, x) # NULL
  BY DEF At, NULL
<1>3. \A l \in 1 .. 3 : Linked(t, At(l, x)) <=> \A k \in l + 1 .. 4 : t[At(k, x)].kind = "table"
  <2> SUFFICES ASSUME NEW l \in 1 .. 3
               PROVE  Linked(t, At(l, x)) <=> \A k \in l + 1 .. 4 : t[At(k, x)].kind = "table"
    OBVIOUS
  <2>1. l \in 1 .. 4
    OBVIOUS
  <2> QED BY <2>1, LinkedPath
<1>4. found = {At(l, x) : l \in {k \in 1 .. 3 : MapsAt(t, x, k)}}
  BY <1>3 DEF MapsAt
<1>5. \A l, k \in 1 .. 3 : MapsAt(t, x, l) /\ MapsAt(t, x, k) => l = k
  <2> SUFFICES ASSUME NEW l \in 1 .. 3, NEW k \in 1 .. 3, MapsAt(t, x, l), MapsAt(t, x, k), l < k PROVE FALSE
    OBVIOUS
  <2>1. t[At(k, x)].kind = "leaf" /\ t[At(k, x)].kind = "table"
    BY DEF MapsAt
  <2> QED BY <2>1
<1> HIDE DEF found
<1>6. ASSUME NEW l \in 1 .. 3, MapsAt(t, x, l) PROVE lookup_address(t, x) = At(l, x)
  <2>1. found = {At(l, x)}
    BY <1>4, <1>5, <1>6
  <2> QED BY <1>1, <2>1
<1>7. Unmapped(t, x) => found = {}
  BY <1>4 DEF Unmapped
<1>8. lookup_address(t, x) # NULL => \E l \in 1 .. 3 : MapsAt(t, x, l)
  BY <1>1, <1>7 DEF Unmapped
<1> QED BY <1>1, <1>6, <1>7, <1>8

\* Mapped says that the walk ends at some level.
LEMMA MappedWalk == \A t : \A x \in Page : Mapped(t, x) <=> ~Unmapped(t, x)
  BY Lookup DEF Mapped, Unmapped, At, NULL

\* Translate is what the entry of that level says.
LEMMA TranslateWalk ==
    ASSUME NEW t, NEW x \in Page
    PROVE  /\ Unmapped(t, x) => Translate(t, x) = None
           /\ \A l \in 1 .. 3 : MapsAt(t, x, l) =>
                Translate(t, x) = Leaf(t[At(l, x)].pa + x - First(At(l, x)), t[At(l, x)].prot)
<1>1. \A l \in 1 .. 3 : At(l, x) # NULL
  BY DEF At, NULL
<1> QED BY <1>1, Lookup DEF Translate

-----------------------------------------------------------------------------
(***************************************************************************)
(* split_large_page.                                                       *)
(***************************************************************************)
\* What is cut below is cut above, and a PTE is never cut.
LEMMA CutsUp ==
    ASSUME NEW r, NEW l \in 1 .. 4, NEW k \in 1 .. 4, l <= k, NEW x \in Page, Cuts(r, At(l, x))
    PROVE  Cuts(r, At(k, x)) /\ l # 1
<1>1. Pages(At(l, x)) \subseteq Pages(At(k, x))
  <2> SUFFICES ASSUME NEW y \in Pages(At(l, x)) PROVE y \in Pages(At(k, x))
    OBVIOUS
  <2>1. y \in Page /\ At(l, y) = At(l, x)
    BY Levels
  <2>2. At(k, y) = At(k, x)
    BY <2>1, Path
  <2> QED BY <2>1, <2>2, Levels
<1>2. l # 1
  BY Level1 DEF Cuts
<1> QED BY <1>1, <1>2 DEF Cuts

\* Splitting leaves what the page is mapped to, with an entry that r does not cut.
LEMMA SplitWalk ==
    ASSUME NEW t, NEW r, NEW x \in Page, NEW s, s = SplitAll(t, r)
    PROVE  /\ \A k \in 1 .. 3 : MapsAt(t, x, k) =>
                \E j \in 1 .. k : /\ MapsAt(s, x, j) /\ ~Cuts(r, At(j, x))
                                  /\ s[At(j, x)] = IF j = k THEN t[At(k, x)]
                                                   ELSE split_large_page(t[At(k, x)], At(k, x), At(j, x))
           /\ Unmapped(t, x) => Unmapped(s, x)
<1>1. ASSUME NEW l \in 1 .. 4, NEW m, m = lookup_address(t, First(At(l, x)))
      PROVE  s[At(l, x)] =
               IF l = 4 \/ m = NULL \/ m[1] < l \/ (m[1] > l /\ ~Cuts(r, Parent(At(l, x)))) THEN t[At(l, x)]
               ELSE IF Cuts(r, At(l, x)) THEN Table
               ELSE IF m = At(l, x) THEN t[At(l, x)]
               ELSE split_large_page(t[m], m, At(l, x))
  <2>1. At(l, x) \in Node /\ At(l, x)[1] = l
    BY Levels
  <2> QED BY <1>1, <2>1 DEF SplitAll
\* Where the walk has come through tables, only a leaf at this level can change.
<1>2. ASSUME NEW l \in 1 .. 4, \A k \in l + 1 .. 4 : t[At(k, x)].kind = "table", t[At(l, x)].kind # "leaf"
      PROVE  s[At(l, x)] = t[At(l, x)]
  <2> DEFINE y == First(At(l, x))
             m == lookup_address(t, y)
  <2>1. y \in Page /\ \A k \in l .. 4 : At(k, y) = At(k, x)
    BY FirstPath
  <2>2. ASSUME m # NULL PROVE m[1] < l
    <3>1. PICK i \in 1 .. 3 : MapsAt(t, y, i) /\ m = At(i, y)
      BY <2>1, <2>2, Lookup
    <3>2. m[1] = i
      BY <2>1, <3>1, Levels
    <3>3. ~(i >= l)
      BY <1>2, <2>1, <3>1 DEF MapsAt
    <3> QED BY <3>2, <3>3
  <2> HIDE DEF m
  <2> QED BY <1>1, <2>2 DEF m
<1>3. ASSUME NEW k \in 1 .. 3, MapsAt(t, x, k)
      PROVE \E j \in 1 .. k : /\ MapsAt(s, x, j) /\ ~Cuts(r, At(j, x))
                              /\ s[At(j, x)] = IF j = k THEN t[At(k, x)]
                                               ELSE split_large_page(t[At(k, x)], At(k, x), At(j, x))
  <2>1. \A l \in k + 1 .. 4 : s[At(l, x)].kind = "table"
    <3> SUFFICES ASSUME NEW l \in k + 1 .. 4 PROVE s[At(l, x)].kind = "table"
      OBVIOUS
    <3>1. t[At(l, x)].kind = "table" /\ \A i \in l + 1 .. 4 : t[At(i, x)].kind = "table"
      BY <1>3 DEF MapsAt
    <3> QED BY <1>2, <3>1
  <2>2. ASSUME NEW l \in 1 .. k
        PROVE  s[At(l, x)] = IF l < k /\ ~Cuts(r, At(l + 1, x)) THEN t[At(l, x)]
                             ELSE IF Cuts(r, At(l, x)) THEN Table
                             ELSE IF l = k THEN t[At(k, x)]
                             ELSE split_large_page(t[At(k, x)], At(k, x), At(l, x))
    <3> DEFINE y == First(At(l, x))
    <3>1. y \in Page /\ \A i \in l .. 4 : At(i, y) = At(i, x)
      BY FirstPath
    <3>2. lookup_address(t, y) = At(k, x)
      BY <1>3, <3>1, Lookup DEF MapsAt
    <3>3. Parent(At(l, x)) = At(l + 1, x)
      BY <3>1, Levels DEF Parent
    <3>4. At(k, x)[1] = k /\ At(k, x) # NULL /\ (At(k, x) = At(l, x) <=> k = l)
      BY Levels DEF NULL
    <3> HIDE DEF y
    <3> QED BY <1>1, <3>2, <3>3, <3>4 DEF y
  <2>3. ~Cuts(r, At(1, x)) /\ (Cuts(r, At(2, x)) => Cuts(r, At(3, x)))
    BY CutsUp
  <2>4. Table.kind = "table" /\ t[At(k, x)].kind = "leaf"
    BY <1>3 DEF Table, MapsAt
  <2>5. \A j \in 1 .. 3 : split_large_page(t[At(k, x)], At(k, x), At(j, x)).kind = "leaf"
    BY DEF split_large_page, Leaf
  <2>6. CASE ~Cuts(r, At(k, x))
    <3>1. s[At(k, x)] = t[At(k, x)]
      BY <2>2, <2>6
    <3>2. MapsAt(s, x, k)
      BY <2>1, <2>4, <3>1 DEF MapsAt
    <3> QED BY <2>6, <3>1, <3>2
  <2>7. ASSUME NEW j \in 1 .. k, j < k, ~Cuts(r, At(j, x)), \A i \in j + 1 .. k : Cuts(r, At(i, x))
        PROVE  /\ MapsAt(s, x, j)
               /\ s[At(j, x)] = split_large_page(t[At(k, x)], At(k, x), At(j, x))
    <3>1. s[At(j, x)] = split_large_page(t[At(k, x)], At(k, x), At(j, x))
      BY <2>2, <2>7
    <3>2. ASSUME NEW i \in j + 1 .. k PROVE s[At(i, x)].kind = "table"
      <4>1. i \in 1 .. k /\ Cuts(r, At(i, x)) /\ (i < k => Cuts(r, At(i + 1, x)))
        BY <2>7
      <4> QED BY <2>2, <2>4, <4>1
    <3>3. \A i \in j + 1 .. 4 : s[At(i, x)].kind = "table"
      BY <2>1, <3>2
    <3> QED BY <2>5, <3>1, <3>3 DEF MapsAt
  <2>8. CASE Cuts(r, At(k, x))
    <3>1. k = 2 \/ k = 3
      BY <2>3, <2>8
    <3>2. CASE k = 2
      <4>1. 1 \in 1 .. k /\ 1 < k /\ \A i \in 2 .. k : Cuts(r, At(i, x))
        BY <2>8, <3>2
      <4> QED BY <2>3, <2>7, <4>1
    <3>3. CASE k = 3 /\ ~Cuts(r, At(2, x))
      <4>1. 2 \in 1 .. k /\ 2 < k /\ \A i \in 3 .. k : Cuts(r, At(i, x))
        BY <2>8, <3>3
      <4> QED BY <2>7, <3>3, <4>1
    <3>4. CASE k = 3 /\ Cuts(r, At(2, x))
      <4>1. 1 \in 1 .. k /\ 1 < k /\ \A i \in 2 .. k : Cuts(r, At(i, x))
        BY <2>8, <3>4
      <4> QED BY <2>3, <2>7, <4>1
    <3> QED BY <3>1, <3>2, <3>3, <3>4
  <2> QED BY <2>6, <2>8
<1>4. ASSUME Unmapped(t, x), NEW j \in 1 .. 3, MapsAt(s, x, j) PROVE FALSE
  <2>1. \A l \in 1 .. 3 : (\A k \in l + 1 .. 4 : t[At(k, x)].kind = "table") => t[At(l, x)].kind # "leaf"
    BY <1>4 DEF Unmapped, MapsAt
  <2>2. s[At(4, x)] = t[At(4, x)]
    BY <1>1
  <2>3. t[At(4, x)].kind = "table"
    BY <1>4, <2>2 DEF MapsAt
  <2>4. s[At(3, x)] = t[At(3, x)] /\ t[At(3, x)].kind # "leaf"
    BY <1>2, <2>1, <2>3
  <2>5. j < 3 /\ t[At(3, x)].kind = "table"
    BY <1>4, <2>4 DEF MapsAt
  <2>6. s[At(2, x)] = t[At(2, x)] /\ t[At(2, x)].kind # "leaf"
    BY <1>2, <2>1, <2>3, <2>5
  <2>7. j = 1 /\ t[At(2, x)].kind = "table"
    BY <1>4, <2>5, <2>6 DEF MapsAt
  <2>8. s[At(1, x)] = t[At(1, x)] /\ t[At(1, x)].kind # "leaf"
    BY <1>2, <2>1, <2>3, <2>5, <2>7
  <2> QED BY <1>4, <2>7, <2>8 DEF MapsAt
<1> QED BY <1>3, <1>4 DEF Unmapped

-----------------------------------------------------------------------------
(***************************************************************************)
(* What the operations do to the flat map.                                 *)
(***************************************************************************)
\* What the flat map holds for page x.
View(t, x) == [Translate(t, x) EXCEPT !.prot = VisibleProt(@)]

\* The entries hold addresses, and a PTE refers to no table.
Typed(t) == \A n \in Node : t[n].pa \in Int /\ (t[n].kind = "table" => n[1] # 1)

\* The fields of entries.
LEMMA EntryFields ==
    /\ \A pa, prot : Leaf(pa, prot).kind = "leaf" /\ Leaf(pa, prot).pa = pa /\ Leaf(pa, prot).prot = prot
    /\ Table.kind = "table" /\ Table.pa = 0 /\ Table.prot = {}
    /\ None.kind = "none" /\ None.pa = 0 /\ None.prot = {}
  BY DEF Leaf, Table, None

\* The view of a page is that of the entry its walk ends at.
LEMMA ViewWalk ==
    ASSUME NEW t, NEW x \in Page
    PROVE  /\ Unmapped(t, x) <=> View(t, x) = None
           /\ Mapped(t, x) <=> View(t, x) # None
           /\ View(t, x).pa = Translate(t, x).pa
           /\ \A l \in 1 .. 3 : MapsAt(t, x, l) =>
                View(t, x) = Leaf(t[At(l, x)].pa + x - First(At(l, x)), VisibleProt(t[At(l, x)].prot))
<1>1. VisibleProt({}) = {}
  BY DEF VisibleProt
<1>2. \A pa, prot : [Leaf(pa, prot) EXCEPT !.prot = VisibleProt(@)] = Leaf(pa, VisibleProt(prot))
  BY DEF Leaf
<1>3. [None EXCEPT !.prot = VisibleProt(@)] = None
  BY <1>1 DEF None
<1>4. \A pa, prot : Leaf(pa, prot) # None /\ Leaf(pa, prot).pa = pa
  BY DEF Leaf, None
<1>5. Unmapped(t, x) => Translate(t, x) = None
  BY TranslateWalk
<1>6. \A l \in 1 .. 3 : MapsAt(t, x, l) =>
         Translate(t, x) = Leaf(t[At(l, x)].pa + x - First(At(l, x)), t[At(l, x)].prot)
  BY TranslateWalk
<1>7. Mapped(t, x) <=> ~Unmapped(t, x)
  BY MappedWalk
<1>8. Unmapped(t, x) => View(t, x) = None /\ View(t, x).pa = Translate(t, x).pa
  BY <1>3, <1>5 DEF View
<1>9. \A l \in 1 .. 3 : MapsAt(t, x, l) =>
         /\ View(t, x) = Leaf(t[At(l, x)].pa + x - First(At(l, x)), VisibleProt(t[At(l, x)].prot))
         /\ View(t, x).pa = Translate(t, x).pa
  BY <1>2, <1>4, <1>6 DEF View
<1>10. ~Unmapped(t, x) => \E l \in 1 .. 3 : MapsAt(t, x, l)
  BY DEF Unmapped
<1> QED BY <1>4, <1>7, <1>8, <1>9, <1>10

\* Splitting leaves the view of every page.
LEMMA SplitView ==
    ASSUME NEW t, Typed(t), NEW r, NEW x \in Page, NEW s, s = SplitAll(t, r), NEW k \in 1 .. 3, MapsAt(t, x, k)
    PROVE  \E j \in 1 .. 3 : /\ MapsAt(s, x, j) /\ ~Cuts(r, At(j, x))
                             /\ View(s, x) = View(t, x)
                             /\ s[At(j, x)].pa + x - First(At(j, x)) = t[At(k, x)].pa + x - First(At(k, x))
<1>1. PICK j \in 1 .. k : /\ MapsAt(s, x, j) /\ ~Cuts(r, At(j, x))
                          /\ s[At(j, x)] = IF j = k THEN t[At(k, x)]
                                           ELSE split_large_page(t[At(k, x)], At(k, x), At(j, x))
  BY SplitWalk
<1>2. j \in 1 .. 3 /\ At(j, x) \in Node /\ At(k, x) \in Node
  BY Levels
<1>3. /\ View(t, x) = Leaf(t[At(k, x)].pa + x - First(At(k, x)), VisibleProt(t[At(k, x)].prot))
      /\ View(s, x) = Leaf(s[At(j, x)].pa + x - First(At(j, x)), VisibleProt(s[At(j, x)].prot))
  BY <1>1, <1>2, ViewWalk
<1>4. First(At(j, x)) \in Int /\ First(At(k, x)) \in Int /\ x \in Int /\ t[At(k, x)].pa \in Int
  BY <1>2, Levels, PageTableAssumption DEF Page, Typed
<1>5. CASE j = k
  BY <1>1, <1>2, <1>3, <1>5
<1>6. CASE j # k
  <2> DEFINE e == t[At(k, x)]
             f == s[At(j, x)]
  <2>1. f.pa = e.pa + First(At(j, x)) - First(At(k, x)) /\ f.prot \in {e.prot, recover_exe_right(e.prot)}
    BY <1>1, <1>6 DEF split_large_page, Leaf
  <2>2. f.pa + x - First(At(j, x)) = e.pa + x - First(At(k, x))
    <3> HIDE DEF e, f
    <3>1. e.pa \in Int
      BY <1>4 DEF e
    <3> QED BY <1>4, <2>1, <3>1
  <2>3. VisibleProt(f.prot) = VisibleProt(e.prot)
    BY <2>1 DEF VisibleProt, recover_exe_right
  <2> QED BY <1>1, <1>2, <1>3, <2>2, <2>3
<1> QED BY <1>5, <1>6

\* mmu_del unmaps the pages of r and leaves the others.
LEMMA DelView ==
    ASSUME NEW t, Typed(t), NEW r, NEW x \in Page, NEW u, u = mmu_del(t, r)
    PROVE  View(u, x) = IF x \in r THEN None ELSE View(t, x)
<1> DEFINE s == SplitAll(t, r)
<1>1. \A l \in 1 .. 4 : At(l, x) \in Node /\ At(l, x)[1] = l /\ x \in Pages(At(l, x))
  BY Levels
<1>2. \A l \in 1 .. 4 : u[At(l, x)] = IF Covered(s, r, At(l, x)) THEN None ELSE s[At(l, x)]
  BY <1>1 DEF mmu_del
<1>3. None.kind = "none"
  BY DEF None
<1>4. CASE Unmapped(t, x)
  <2>1. Unmapped(s, x)
    BY <1>4, SplitWalk
  <2>2. \A l \in 1 .. 3 : MapsAt(u, x, l) => MapsAt(s, x, l)
    BY <1>2, <1>3 DEF MapsAt
  <2>3. Unmapped(u, x)
    BY <2>1, <2>2 DEF Unmapped
  <2> QED BY <1>4, <2>3, ViewWalk
<1>5. ASSUME NEW k \in 1 .. 3, MapsAt(t, x, k) PROVE View(u, x) = IF x \in r THEN None ELSE View(t, x)
  <2>1. PICK j \in 1 .. 3 : MapsAt(s, x, j) /\ ~Cuts(r, At(j, x)) /\ View(s, x) = View(t, x)
    BY <1>5, SplitView
  <2> HIDE DEF s
  <2>2. s[At(j, x)].kind = "leaf" /\ \A l \in j + 1 .. 4 : s[At(l, x)].kind = "table"
    BY <2>1 DEF MapsAt
  <2>3. Linked(s, At(j, x))
    BY <2>2, LinkedPath
  <2>4. Covered(s, r, At(j, x)) <=> x \in r
    BY <1>1, <2>1, <2>2, <2>3 DEF Covered, Seen, Cuts
  <2>5. \A l \in j + 1 .. 4 : ~Covered(s, r, At(l, x))
    BY <2>2 DEF Covered, Seen, None
  <2>6. \A l \in j + 1 .. 4 : u[At(l, x)].kind = "table"
    BY <1>2, <2>2, <2>5
  <2>7. CASE x \in r
    <3>1. u[At(j, x)].kind = "none"
      BY <1>2, <1>3, <2>4, <2>7
    <3>2. ASSUME NEW l \in 1 .. 3, MapsAt(u, x, l) PROVE FALSE
      <4>1. u[At(l, x)].kind = "leaf" /\ (l < j => u[At(j, x)].kind = "table")
        BY <3>2 DEF MapsAt
      <4> QED BY <2>6, <3>1, <4>1
    <3>3. Unmapped(u, x)
      BY <3>2 DEF Unmapped
    <3> QED BY <2>7, <3>3, ViewWalk
  <2>8. CASE x \notin r
    <3>1. u[At(j, x)] = s[At(j, x)]
      BY <1>2, <2>4, <2>8
    <3>2. MapsAt(u, x, j)
      BY <2>2, <2>6, <3>1 DEF MapsAt
    <3> QED BY <2>1, <2>8, <3>1, <3>2, ViewWalk
  <2> QED BY <2>7, <2>8
<1> QED BY <1>4, <1>5 DEF Unmapped

\* ept_modify_mr gives one page the execute right, which is not visible unless the
\* processor has no erratum and the page did not have the right.
LEMMA ModifyView ==
    ASSUME NEW t, Typed(t), NEW v, NEW x \in Page, NEW u, u = mmu_modify(t, v .. v, {"X"}, {}),
           TweakExe \/ x \notin v .. v \/ View(t, x) = None \/ "X" \in View(t, x).prot
    PROVE  View(u, x) = View(t, x)
<1> DEFINE r == v .. v
           s == SplitAll(t, r)
<1>1. \A l \in 1 .. 4 : At(l, x) \in Node /\ At(l, x)[1] = l /\ x \in Pages(At(l, x))
  BY Levels
<1>2. \A l \in 1 .. 4 : u[At(l, x)] = IF Covered(s, r, At(l, x))
                                      THEN Leaf(s[At(l, x)].pa, (s[At(l, x)].prot \ {}) \cup {"X"})
                                      ELSE s[At(l, x)]
  BY <1>1 DEF mmu_modify
<1> HIDE DEF r
<1>3. \A l \in 1 .. 4 : Covered(s, r, At(l, x)) => s[At(l, x)].kind = "leaf"
  BY DEF Covered, Seen, None
<1>4. \A l \in 1 .. 4 : u[At(l, x)].kind = s[At(l, x)].kind
  BY <1>2, <1>3 DEF Leaf
<1>5. \A l \in 1 .. 3 : MapsAt(u, x, l) <=> MapsAt(s, x, l)
  BY <1>4 DEF MapsAt
<1>6. CASE Unmapped(t, x)
  <2>1. Unmapped(s, x)
    BY <1>6, SplitWalk
  <2>2. Unmapped(u, x)
    BY <1>5, <2>1 DEF Unmapped
  <2> QED BY <1>6, <2>2, ViewWalk
<1>7. ASSUME NEW k \in 1 .. 3, MapsAt(t, x, k) PROVE View(u, x) = View(t, x)
  <2>1. PICK j \in 1 .. 3 : MapsAt(s, x, j) /\ ~Cuts(r, At(j, x)) /\ View(s, x) = View(t, x)
    BY <1>7, SplitView
  <2> DEFINE f == s[At(j, x)]
             d == x - First(At(j, x))
  <2>2. View(s, x) = Leaf(f.pa + x - First(At(j, x)), VisibleProt(f.prot))
    BY <2>1, ViewWalk
  <2>3. View(u, x) = Leaf(u[At(j, x)].pa + x - First(At(j, x)), VisibleProt(u[At(j, x)].prot))
    BY <1>5, <2>1, ViewWalk
  <2>4. u[At(j, x)] = f \/ (x \in r /\ u[At(j, x)] = Leaf(f.pa, (f.prot \ {}) \cup {"X"}))
    <3>1. Covered(s, r, At(j, x)) => x \in r
      BY <1>1 DEF Covered
    <3>2. u[At(j, x)] = IF Covered(s, r, At(j, x)) THEN Leaf(f.pa, (f.prot \ {}) \cup {"X"}) ELSE f
      <4>1. j \in 1 .. 4
        OBVIOUS
      <4> QED BY <1>2, <4>1
    <3> QED BY <3>1, <3>2
  <2> HIDE DEF f, s
  <2>5. View(s, x) # None /\ View(s, x).prot = VisibleProt(f.prot)
    BY <2>2 DEF Leaf, None
  <2>6. x \in r => VisibleProt((f.prot \ {}) \cup {"X"}) = VisibleProt(f.prot)
    BY <2>1, <2>5 DEF VisibleProt, r
  <2>7. u[At(j, x)].pa = f.pa /\ VisibleProt(u[At(j, x)].prot) = VisibleProt(f.prot)
    <3>1. CASE u[At(j, x)] = f
      BY <3>1
    <3>2. CASE x \in r /\ u[At(j, x)] = Leaf(f.pa, (f.prot \ {}) \cup {"X"})
      <4> DEFINE g == (f.prot \ {}) \cup {"X"}
      <4>1. u[At(j, x)].pa = f.pa /\ u[At(j, x)].prot = g
        <5>1. Leaf(f.pa, g).pa = f.pa /\ Leaf(f.pa, g).prot = g
          BY Zenon DEF Leaf
        <5> QED BY <3>2, <5>1
      <4> QED BY <2>6, <3>2, <4>1
    <3> QED BY <2>4, <3>1, <3>2
  <2> QED BY <2>1, <2>2, <2>3, <2>7
<1> QED BY <1>6, <1>7 DEF Unmapped

-----------------------------------------------------------------------------
(***************************************************************************)
(* mmu_add.                                                                *)
(***************************************************************************)
\* The levels at which mmu_add could map page x: NewLeaves takes the highest.
FitLevels(t, pa, v, cnt, x) ==
    {l \in 1 .. 3 : /\ l = 1 \/ LargeFits(At(l, x), pa, v, cnt)
                    /\ Seen(t, At(l, x)).kind # "table"}

\* The highest of some levels.
LEMMA MaxOfLevels ==
    ASSUME NEW S \in SUBSET (1 .. 3), S # {}
    PROVE  Max(S) \in S /\ \A l \in S : l <= Max(S)
<1>1. \E m \in S : \A l \in S : m >= l
  <2>1. CASE 3 \in S
    BY <2>1
  <2>2. CASE 3 \notin S /\ 2 \in S
    BY <2>2
  <2>3. CASE 3 \notin S /\ 2 \notin S
    <3>1. \A l \in S : l = 1
      BY <2>3
    <3>2. 1 \in S
      BY <3>1
    <3>3. \A l \in S : 1 >= l
      BY <3>1
    <3> QED BY <3>2, <3>3
  <2> QED BY <2>1, <2>2, <2>3
<1>2. Max(S) \in S /\ \A l \in S : Max(S) >= l
  BY <1>1 DEF Max
<1> QED BY <1>2

\* A table is seen when everything above it is a table too.
LEMMA SeenPath ==
    ASSUME NEW t, NEW l \in 1 .. 4, NEW x \in Page
    PROVE  Seen(t, At(l, x)).kind = "table" <=> \A k \in l .. 4 : t[At(k, x)].kind = "table"
<1>1. Linked(t, At(l, x)) <=> \A k \in l + 1 .. 4 : t[At(k, x)].kind = "table"
  BY LinkedPath
<1>2. l .. 4 = {l} \cup (l + 1 .. 4)
  OBVIOUS
<1> QED BY <1>1, <1>2 DEF Seen, None

\* mmu_add is called for a range of which no page is mapped.
Free(t, v, cnt) == \A x \in v .. v + cnt - 1 : Unmapped(t, x)

\* Then add_pte skips no entry: every page is filled as the page it is.
LEMMA NothingSkipped ==
    ASSUME NEW t, NEW v \in Int, NEW cnt \in Int, v .. v + cnt - 1 \subseteq Page, Free(t, v, cnt)
    PROVE  /\ ToMap(t, v, cnt) = v .. v + cnt - 1
           /\ \A x \in v .. v + cnt - 1 : TakenFor(t, v, x) = x /\ ~Mapped(t, x)
<1> DEFINE R == v .. v + cnt - 1
           Skipped(x) == {y \in Pages(At(2, x)) : v <= y /\ y < x /\ Mapped(t, y)}
<1>1. \A x \in R : x \in Page /\ ~Mapped(t, x)
  BY MappedWalk DEF Free
<1>2. \A x \in Page : x \in Nat /\ Skipped(x) \subseteq Int
  <2> SUFFICES ASSUME NEW x \in Page PROVE x \in Nat /\ Skipped(x) \subseteq Int
    OBVIOUS
  <2>1. At(2, x) \in Node /\ At(2, x)[1] = 2
    BY Levels
  <2>2. First(At(2, x)) \in Int /\ Size(2) \in Nat
    BY <2>1, FirstInPage, SizeFacts, PageTableAssumption DEF Page
  <2> QED BY <2>1, <2>2, PageTableAssumption DEF Pages, Page
<1>3. ASSUME NEW x \in R PROVE TakenFor(t, v, x) = x
  <2>1. Skipped(x) = {}
    <3> SUFFICES ASSUME NEW y \in Skipped(x) PROVE FALSE
      OBVIOUS
    <3>1. y \in Int /\ x \in Nat /\ v <= y /\ y < x /\ Mapped(t, y)
      BY <1>1, <1>2
    <3>2. y \in R
      BY <3>1
    <3> QED BY <1>1, <3>1, <3>2
  <2>2. Cardinality(Skipped(x)) = 0
    BY <2>1, FS_EmptySet
  <2>3. TakenFor(t, v, x) = x - Cardinality(Skipped(x))
    BY DEF TakenFor
  <2> QED BY <1>1, <1>2, <2>2, <2>3
<1>4. ASSUME NEW x \in Page, v <= x, x \notin R PROVE TakenFor(t, v, x) \notin R
  <2> DEFINE S == v + cnt .. x - 1
  <2>1. x \in Nat /\ v + cnt <= x
    BY <1>2, <1>4
  <2>2. Skipped(x) \subseteq S
    <3> SUFFICES ASSUME NEW y \in Skipped(x) PROVE y \in S
      OBVIOUS
    <3>1. y \in Int /\ v <= y /\ y < x /\ y \notin R
      BY <1>1, <1>2
    <3> QED BY <2>1, <3>1
  <2>3. IsFiniteSet(S) /\ Cardinality(S) = x - (v + cnt)
    <3>1. v + cnt \in Int /\ x - 1 \in Int
      BY <2>1
    <3>2. /\ IsFiniteSet(S)
          /\ Cardinality(S) = IF v + cnt > x - 1 THEN 0 ELSE (x - 1) - (v + cnt) + 1
      BY <3>1, FS_Interval
    <3> HIDE DEF S
    <3> QED BY <2>1, <3>2
  <2>4. IsFiniteSet(Skipped(x)) /\ Cardinality(Skipped(x)) <= Cardinality(S)
    BY <2>2, <2>3, FS_Subset
  <2>5. Cardinality(Skipped(x)) \in Nat
    BY <2>4, FS_CardinalityType
  <2>6. TakenFor(t, v, x) = x - Cardinality(Skipped(x))
    BY DEF TakenFor
  <2> HIDE DEF Skipped, S
  <2> QED BY <2>1, <2>3, <2>4, <2>5, <2>6
<1>5. ToMap(t, v, cnt) = R
  <2>1. \A x \in R : v <= x
    OBVIOUS
  <2> QED BY <1>1, <1>3, <1>4, <2>1 DEF ToMap
<1> QED BY <1>1, <1>3, <1>5

\* A new entry is on the path of a page of the range.
LEMMA NewLeafPage ==
    ASSUME NEW t, NEW pa, NEW v \in Int, NEW cnt \in Int, v .. v + cnt - 1 \subseteq Page, Free(t, v, cnt),
           NEW n \in NewLeaves(t, pa, v, cnt)
    PROVE  \E y \in v .. v + cnt - 1 : ~Mapped(t, y) /\ n = At(Max(FitLevels(t, pa, v, cnt, y)), y)
<1>1. PICK y \in ToMap(t, v, cnt) : n = At(Max(FitLevels(t, pa, v, cnt, y)), y)
  BY DEF NewLeaves, FitLevels
<1>2. y \in v .. v + cnt - 1 /\ ~Mapped(t, y)
  BY NothingSkipped
<1> QED BY <1>1, <1>2

\* The new entries: each maps pages of the range only, is on the path of an
\* unmapped page and takes the highest level that fits.
LEMMA NewLeaf ==
    ASSUME NEW t, Typed(t), NEW pa, NEW v \in Int, NEW cnt \in Int, NEW x \in Page, NEW l \in 1 .. 4,
           At(l, x) \in NewLeaves(t, pa, v, cnt), v .. v + cnt - 1 \subseteq Page,
           Free(t, v, cnt)
    PROVE  /\ x \in v .. v + cnt - 1 /\ Unmapped(t, x)
           /\ l = Max(FitLevels(t, pa, v, cnt, x)) /\ l \in 1 .. 3
<1>1. PICK y \in v .. v + cnt - 1 : ~Mapped(t, y) /\ At(l, x) = At(Max(FitLevels(t, pa, v, cnt, y)), y)
  BY NewLeafPage
<1>2. y \in Page /\ Unmapped(t, y)
  BY <1>1, MappedWalk
<1> DEFINE F == FitLevels(t, pa, v, cnt, y)
           G == FitLevels(t, pa, v, cnt, x)
<1>3. F \in SUBSET (1 .. 3) /\ F # {}
  <2>1. At(1, y) \in Node /\ At(1, y)[1] = 1
    BY <1>2, Levels
  <2>2. Seen(t, At(1, y)).kind # "table"
    BY <2>1 DEF Typed, Seen, None
  <2>3. 1 \in F
    BY <2>2 DEF FitLevels
  <2> QED BY <2>3 DEF FitLevels
<1>4. Max(F) \in F /\ \A k \in F : k <= Max(F)
  BY <1>3, MaxOfLevels
<1>5. l = Max(F) /\ l \in 1 .. 3
  <2>1. Max(F) \in 1 .. 3
    BY <1>3, <1>4
  <2>2. At(l, x)[1] = l /\ At(Max(F), y)[1] = Max(F)
    BY <1>2, <2>1, Levels
  <2> QED BY <1>1, <2>1, <2>2
<1>6. At(l, x) = At(l, y)
  BY <1>1, <1>5
<1>7. \A k \in l .. 3 : At(k, x) = At(k, y)
  BY <1>2, <1>5, <1>6, Path
<1>8. x \in v .. v + cnt - 1 /\ (l = 1 => x = y)
  <2>1. x \in Pages(At(l, x))
    BY Levels
  <2>2. CASE l = 1
    BY <1>1, <1>2, <1>6, <2>1, <2>2, Level1
  <2>3. CASE l # 1
    BY <1>4, <1>5, <1>6, <2>1, <2>3 DEF FitLevels, LargeFits
  <2> QED BY <2>2, <2>3
<1>9. Unmapped(t, x)
  <2> SUFFICES ASSUME NEW k \in 1 .. 3, MapsAt(t, x, k) PROVE FALSE
    BY DEF Unmapped
  <2>1. CASE k >= l
    <3>1. \A i \in k .. 4 : At(i, x) = At(i, y)
      BY <1>2, <1>5, <1>6, <2>1, Path
    <3>2. MapsAt(t, y, k)
      BY <3>1 DEF MapsAt
    <3> QED BY <1>2, <3>2 DEF Unmapped
  <2>2. CASE k < l
    <3>0. \A i \in l .. 4 : t[At(i, x)].kind = "table"
      BY <1>5, <2>2 DEF MapsAt
    <3>1. Seen(t, At(l, x)).kind = "table"
      BY <3>0, SeenPath
    <3>2. Seen(t, At(l, y)).kind # "table"
      BY <1>4, <1>5 DEF FitLevels
    <3> QED BY <1>6, <3>1, <3>2
  <2> QED BY <1>5, <2>1, <2>2
<1>10. l = Max(G)
  <2>1. l \in G /\ \A k \in l .. 3 : k \in G <=> k \in F
    BY <1>4, <1>5, <1>7, <1>8 DEF FitLevels
  <2>2. Max(G) \in G /\ \A k \in G : k <= Max(G)
    <3>1. G \in SUBSET (1 .. 3) /\ G # {}
      BY <2>1 DEF FitLevels
    <3> QED BY <3>1, MaxOfLevels
  <2>3. Max(G) \in 1 .. 3
    BY <2>2 DEF FitLevels
  <2> HIDE DEF F, G
  <2> QED BY <1>4, <1>5, <2>1, <2>2, <2>3
<1> QED BY <1>5, <1>8, <1>9, <1>10

\* Every page of the range gets a new entry.
LEMMA NewLeafExists ==
    ASSUME NEW t, Typed(t), NEW pa, NEW v \in Int, NEW cnt \in Int, NEW x \in Page,
           v .. v + cnt - 1 \subseteq Page, Free(t, v, cnt), x \in v .. v + cnt - 1
    PROVE  \E l \in 1 .. 3 : At(l, x) \in NewLeaves(t, pa, v, cnt)
<1> DEFINE F == FitLevels(t, pa, v, cnt, x)
<1>1. F \in SUBSET (1 .. 3) /\ F # {}
  <2>1. At(1, x) \in Node /\ At(1, x)[1] = 1
    BY Levels
  <2>2. Seen(t, At(1, x)).kind # "table"
    BY <2>1 DEF Typed, Seen, None
  <2>3. 1 \in F
    BY <2>2 DEF FitLevels
  <2> QED BY <2>3 DEF FitLevels
<1>2. Max(F) \in 1 .. 3
  BY <1>1, MaxOfLevels
<1>3. x \in ToMap(t, v, cnt)
  BY NothingSkipped
<1>4. At(Max(F), x) \in NewLeaves(t, pa, v, cnt)
  BY <1>3 DEF NewLeaves, FitLevels
<1> QED BY <1>2, <1>4

\* A new entry is filled as that of its first page.
LEMMA NewLeafTaken ==
    ASSUME NEW t, Typed(t), NEW pa, NEW v \in Int, NEW cnt \in Int, v .. v + cnt - 1 \subseteq Page,
           Free(t, v, cnt), NEW n \in Node, n \in NewLeaves(t, pa, v, cnt)
    PROVE  TakenFor(t, v, First(n)) = First(n)
<1>1. First(n) \in Page /\ n[1] \in 1 .. 4 /\ n = At(n[1], First(n))
  BY Nodes
<1>2. At(n[1], First(n)) \in NewLeaves(t, pa, v, cnt)
  BY <1>1
<1>3. First(n) \in v .. v + cnt - 1
  BY <1>1, <1>2, NewLeaf
<1> QED BY <1>3, NothingSkipped

\* What mmu_add maps a page to: its part of the block if it is in the range.
Added(t, pa, v, cnt, prot, x) ==
    IF x \in v .. v + cnt - 1 THEN Leaf(pa + x - v, VisibleProt(prot)) ELSE View(t, x)

\* mmu_add maps a range that is not mapped as one block and leaves the other pages.
LEMMA AddView ==
    ASSUME NEW t, Typed(t), NEW pa \in Int, NEW v \in Int, NEW cnt \in Int, v .. v + cnt - 1 \subseteq Page,
           Free(t, v, cnt), NEW prot, NEW x \in Page, NEW u, u = mmu_add(t, pa, v, cnt, prot)
    PROVE  View(u, x) = Added(t, pa, v, cnt, prot, x)
<1> DEFINE new == NewLeaves(t, pa, v, cnt)
           above == {n \in Node : \E m \in new : m[1] < n[1] /\ At(n[1], First(m)) = n}
           built == {n \in above : Seen(t, n).kind # "table"}
<1>1. \A l \in 1 .. 4 : At(l, x) \in Node /\ At(l, x)[1] = l
  BY Levels
<1>2. \A l \in 1 .. 3 : Parent(At(l, x)) = At(l + 1, x)
  <2> SUFFICES ASSUME NEW l \in 1 .. 3 PROVE Parent(At(l, x)) = At(l + 1, x)
    OBVIOUS
  <2>1. At(l + 1, First(At(l, x))) = At(l + 1, x)
    BY FirstPath
  <2> QED BY <1>1, <2>1 DEF Parent
<1>3. \A l \in 1 .. 4 : u[At(l, x)] =
         IF At(l, x) \in new THEN Leaf(pa + First(At(l, x)) - v, EffectiveProt(At(l, x), new, prot))
         ELSE IF At(l, x) \in above THEN Table
         ELSE IF l < 4 /\ At(l + 1, x) \in built THEN None
         ELSE t[At(l, x)]
  <2> SUFFICES ASSUME NEW l \in 1 .. 4
               PROVE  u[At(l, x)] =
                        IF At(l, x) \in new THEN Leaf(pa + First(At(l, x)) - v, EffectiveProt(At(l, x), new, prot))
                        ELSE IF At(l, x) \in above THEN Table
                        ELSE IF l < 4 /\ At(l + 1, x) \in built THEN None
                        ELSE t[At(l, x)]
    OBVIOUS
  <2>1. u[At(l, x)] =
          IF At(l, x) \in new
          THEN Leaf(pa + TakenFor(t, v, First(At(l, x))) - v, EffectiveProt(At(l, x), new, prot))
          ELSE IF At(l, x) \in above THEN Table
          ELSE IF At(l, x)[1] < 4 /\ Parent(At(l, x)) \in built THEN None
          ELSE t[At(l, x)]
    BY <1>1 DEF mmu_add
  <2>2. l < 4 => Parent(At(l, x)) = At(l + 1, x)
    BY <1>2
  <2>3. At(l, x) \in new => TakenFor(t, v, First(At(l, x))) = First(At(l, x))
    BY <1>1, NewLeafTaken
  <2> HIDE DEF new, above, built
  <2> QED BY <1>1, <2>1, <2>2, <2>3
\* An entry above a new one is on the path of an unmapped page.
<1>4. ASSUME NEW l \in 1 .. 4, At(l, x) \in above
      PROVE  \E y \in Page : Unmapped(t, y) /\ \A k \in l .. 4 : At(k, x) = At(k, y)
  <2>1. PICK m \in new : m[1] < l /\ At(l, First(m)) = At(l, x)
    BY <1>1, <1>4
  <2>2. m \in Node
    <3>1. PICK y \in v .. v + cnt - 1 : ~Mapped(t, y) /\ m = At(Max(FitLevels(t, pa, v, cnt, y)), y)
      BY NewLeafPage
    <3>2. y \in Page /\ Unmapped(t, y)
      BY <3>1, MappedWalk
    <3>3. PICK i \in 1 .. 3 : At(i, y) \in new
      BY <3>1, <3>2, NewLeafExists
    <3>4. i = Max(FitLevels(t, pa, v, cnt, y))
      BY <3>2, <3>3, NewLeaf
    <3> QED BY <3>1, <3>2, <3>4, Levels
  <2>3. First(m) \in Page /\ m[1] \in 1 .. 4 /\ m = At(m[1], First(m))
    BY <2>2, Nodes
  <2>4. Unmapped(t, First(m))
    BY <2>3, NewLeaf
  <2>5. \A k \in l .. 4 : At(k, x) = At(k, First(m))
    BY <2>1, <2>3, Path
  <2> QED BY <2>3, <2>4, <2>5
<1>5. \A l \in 1 .. 4 : At(l, x) \in new => x \in v .. v + cnt - 1 /\ Unmapped(t, x)
  BY NewLeaf
<1>6. View(t, x) = None <=> Unmapped(t, x)
  BY ViewWalk
<1>7. ASSUME x \in v .. v + cnt - 1 PROVE View(u, x) = Leaf(pa + x - v, VisibleProt(prot))
  <2>1. PICK l \in 1 .. 3 : At(l, x) \in new
    BY <1>7, NewLeafExists
  <2>2. \A k \in l + 1 .. 4 : At(k, x) \notin new
    <3> SUFFICES ASSUME NEW k \in l + 1 .. 4, At(k, x) \in new PROVE FALSE
      OBVIOUS
    <3>1. l = Max(FitLevels(t, pa, v, cnt, x)) /\ k = Max(FitLevels(t, pa, v, cnt, x))
      BY <2>1, NewLeaf
    <3> QED BY <3>1
  <2>3. \A k \in l + 1 .. 4 : At(k, x) \in above
    <3> SUFFICES ASSUME NEW k \in l + 1 .. 4 PROVE At(k, x) \in above
      OBVIOUS
    <3>1. At(k, First(At(l, x))) = At(k, x)
      BY FirstPath
    <3> QED BY <1>1, <2>1, <3>1
  <2> DEFINE ep == EffectiveProt(At(l, x), new, prot)
  <2>4. u[At(l, x)] = Leaf(pa + First(At(l, x)) - v, ep)
    BY <1>3, <2>1
  <2>5. VisibleProt(ep) = VisibleProt(prot)
    BY DEF EffectiveProt, tweak_exe_right, VisibleProt
  <2> HIDE DEF ep, new, above, built
  <2>6. \A k \in l + 1 .. 4 : u[At(k, x)].kind = "table"
    BY <1>3, <2>2, <2>3 DEF Table
  <2>7. MapsAt(u, x, l)
    BY <2>4, <2>6 DEF MapsAt, Leaf
  <2>8. View(u, x) = Leaf(u[At(l, x)].pa + x - First(At(l, x)), VisibleProt(u[At(l, x)].prot))
    BY <2>7, ViewWalk
  <2>9. u[At(l, x)].pa = pa + First(At(l, x)) - v /\ u[At(l, x)].prot = ep
    BY <2>4 DEF Leaf
  <2>10. First(At(l, x)) \in Int /\ x \in Int
    <3>1. First(At(l, x)) \in Page
      BY Levels
    <3> QED BY <3>1, PageTableAssumption DEF Page
  <2>11. u[At(l, x)].pa + x - First(At(l, x)) = pa + x - v
    BY <2>9, <2>10
  <2> QED BY <2>5, <2>8, <2>9, <2>11
<1> HIDE DEF new, above, built
<1>8. ASSUME NEW k \in 1 .. 3, MapsAt(t, x, k) PROVE View(u, x) = View(t, x)
  <2>1. t[At(k, x)].kind = "leaf" /\ \A l \in k + 1 .. 4 : t[At(l, x)].kind = "table"
    BY <1>8 DEF MapsAt
  <2>2. \A l \in 1 .. 4 : At(l, x) \notin new
    BY <1>5, <1>8 DEF Unmapped
  <2>3. \A l \in k + 1 .. 4 : At(l, x) \notin built
    <3> SUFFICES ASSUME NEW l \in k + 1 .. 4 PROVE At(l, x) \notin built
      OBVIOUS
    <3>0. l \in 1 .. 4 /\ \A i \in l .. 4 : t[At(i, x)].kind = "table"
      BY <2>1
    <3>1. Seen(t, At(l, x)).kind = "table"
      BY <3>0, SeenPath
    <3> QED BY <3>1 DEF built
  <2>4. At(k, x) \notin above
    <3> SUFFICES ASSUME At(k, x) \in above PROVE FALSE
      OBVIOUS
    <3>1. PICK y \in Page : Unmapped(t, y) /\ \A l \in k .. 4 : At(l, x) = At(l, y)
      BY <1>4
    <3>2. MapsAt(t, y, k)
      BY <2>1, <3>1 DEF MapsAt
    <3> QED BY <3>1, <3>2 DEF Unmapped
  <2>5. u[At(k, x)] = t[At(k, x)]
    BY <1>3, <2>2, <2>3, <2>4
  <2>6. ASSUME NEW l \in k + 1 .. 4 PROVE u[At(l, x)].kind = "table"
    <3>1. l < 4 => At(l + 1, x) \notin built
      BY <2>3
    <3> QED BY <1>3, <2>1, <2>2, <3>1 DEF Table
  <2>7. MapsAt(u, x, k)
    BY <2>1, <2>5, <2>6 DEF MapsAt
  <2> QED BY <1>8, <2>5, <2>7, ViewWalk
<1>9. ASSUME Unmapped(t, x), x \notin v .. v + cnt - 1 PROVE Unmapped(u, x)
  <2> SUFFICES ASSUME NEW j \in 1 .. 3, MapsAt(u, x, j) PROVE FALSE
    BY DEF Unmapped
  <2>1. u[At(j, x)].kind = "leaf" /\ \A k \in j + 1 .. 4 : u[At(k, x)].kind = "table"
    BY DEF MapsAt
  <2>2. \A l \in 1 .. 4 : At(l, x) \notin new
    BY <1>5, <1>9
  <2>3. t[At(j, x)].kind = "leaf" /\ At(j + 1, x) \notin built
    BY <1>3, <2>1, <2>2 DEF Table, None
  \* A table on the path was there before, or mmu_add has built it.
  <2> DEFINE Old(k) == Seen(t, At(k, x)).kind = "table"
  <2>4. ASSUME NEW k \in j + 1 .. 4, k = 4 \/ At(k + 1, x) \in built \/ Old(k + 1)
        PROVE  At(k, x) \in built \/ Old(k)
    <3>1. CASE At(k, x) \in above
      BY <3>1 DEF built
    <3>2. CASE At(k, x) \notin above
      <4>1. u[At(k, x)] = IF k < 4 /\ At(k + 1, x) \in built THEN None ELSE t[At(k, x)]
        BY <1>3, <2>2, <3>2
      <4>2. t[At(k, x)].kind = "table" /\ (k < 4 => Old(k + 1))
        BY <2>1, <2>4, <4>1 DEF None
      <4>3. k < 4 => \A i \in k + 1 .. 4 : t[At(i, x)].kind = "table"
        <5> SUFFICES ASSUME k < 4 PROVE \A i \in k + 1 .. 4 : t[At(i, x)].kind = "table"
          OBVIOUS
        <5>1. k + 1 \in 1 .. 4 /\ Seen(t, At(k + 1, x)).kind = "table"
          BY <4>2
        <5> QED BY <5>1, SeenPath
      <4>4. \A i \in k .. 4 : t[At(i, x)].kind = "table"
        BY <4>2, <4>3
      <4>5. k \in 1 .. 4
        OBVIOUS
      <4> QED BY <4>4, <4>5, SeenPath
    <3> QED BY <3>1, <3>2
  <2>5. Old(j + 1)
    <3> HIDE DEF Old
    <3>1. At(4, x) \in built \/ Old(4)
      BY <2>4
    <3>2. j <= 2 => At(3, x) \in built \/ Old(3)
      BY <2>4, <3>1
    <3>3. j <= 1 => At(2, x) \in built \/ Old(2)
      BY <2>4, <3>2
    <3>4. j = 1 \/ j = 2 \/ j = 3
      OBVIOUS
    <3> QED BY <2>3, <3>1, <3>2, <3>3, <3>4
  <2>6. \A k \in j + 1 .. 4 : t[At(k, x)].kind = "table"
    <3>1. j + 1 \in 1 .. 4 /\ Seen(t, At(j + 1, x)).kind = "table"
      BY <2>5
    <3> QED BY <3>1, SeenPath
  <2>7. MapsAt(t, x, j)
    BY <2>3, <2>6 DEF MapsAt
  <2> QED BY <1>9, <2>7 DEF Unmapped
<1>10. Unmapped(u, x) => View(u, x) = None
  BY ViewWalk
<1>11. Unmapped(t, x) \/ \E k \in 1 .. 3 : MapsAt(t, x, k)
  BY DEF Unmapped
<1>12. View(u, x) = IF x \in v .. v + cnt - 1 THEN Leaf(pa + x - v, VisibleProt(prot)) ELSE View(t, x)
  BY <1>6, <1>7, <1>8, <1>9, <1>10, <1>11
<1> QED BY <1>12 DEF Added

\* A range is free when every page of it is translated to nothing.
LEMMA FreeRange ==
    ASSUME NEW t, NEW v, NEW cnt, v .. v + cnt - 1 \subseteq Page, \A x \in v .. v + cnt - 1 : View(t, x) = None
    PROVE  Free(t, v, cnt)
  BY ViewWalk DEF Free

-----------------------------------------------------------------------------
(***************************************************************************)
(* The inductive invariant of the EPT.                                     *)
(***************************************************************************)
Window == VbarBase .. VbarTop - 1

\* A BAR is not mapped, or inside the window.
Placed(b, at) == at \in Nat /\ (at # 0 => VbarBase <= at /\ at + Bars[b].size <= VbarTop)

\* create_vm runs before the vCPUs do: what it has mapped so far.
BootInv ==
    /\ boot \in [done : Nat, hpa : Nat, left : Nat]
    /\ boot.done <= Len(E820) + Len(Bars) /\ boot.left <= MemSize
    /\ ~Booted => /\ \A c \in Cpu : pc[c] = "guest"
                  /\ \A b \in Bar : base[b] = IF b + Len(E820) <= boot.done THEN BarBase(b, Bars[b].start) ELSE 0
    /\ boot.done < Len(E820) =>
         \A v \in Page : View(tbl, v) # None =>
           \E i \in DOMAIN E820 : i <= boot.done /\ Mappable(E820[i]) /\ v \in Span(E820[i])

\* Where a vCPU may be.
Pcs == {"guest", "write_bar", "map_bar", "lookup", "deref", "modify", "inject_pf", "gpa2hpa", "copy"}

\* The vCPU that writes a BAR holds vpci->lock.
BarInv ==
    /\ base \in [Bar -> Nat] /\ \A b \in Bar : Placed(b, base[b])
    /\ lock \in Cpu \cup {NoCpu} /\ pc \in [Cpu -> Pcs]
    /\ \A c \in Cpu : pc[c] \in {"write_bar", "map_bar"} <=> lock = c
    /\ lock # NoCpu => job.bar \in Bar /\ Placed(job.bar, job.new)

\* The window shows BARs where they are; the pages of the BAR that is being moved
\* are vacated, first the old ones, then the new ones.
WindowInv ==
    /\ \A v \in Window : View(tbl, v) # None =>
         \E b \in Bar : v \in BarPages(b) /\ View(tbl, v).pa = Bars[b].hpa + v - base[b]
    /\ lock # NoCpu => \A v \in BarPages(job.bar) : View(tbl, v) = None
    /\ lock # NoCpu /\ pc[lock] = "map_bar" => base[job.bar] = job.new

\* No entry maps a page of the window as RAM, ...
WbOutside(t) == \A n \in Node : EPT_WB \subseteq t[n].prot => Pages(n) \cap Window = {}

\* ... so the violation handler changes the rights of RAM only, which is
\* executable from the start on a processor without the erratum.
FetchInv ==
    /\ gpa \in [Cpu -> Page] /\ pgentry \in [Cpu -> Node \cup {NULL}]
    /\ \A c \in Cpu : pc[c] = "deref" /\ pgentry[c] # NULL => gpa[c] \in Pages(pgentry[c])
    /\ \A c \in Cpu : pc[c] = "modify" => gpa[c] \notin Window
    /\ ~TweakExe => \A v \in Page \ Window : View(tbl, v) # None => "X" \in View(tbl, v).prot

EptInv == Typed(tbl) /\ WbOutside(tbl) /\ BootInv /\ BarInv /\ WindowInv /\ FetchInv

-----------------------------------------------------------------------------
(***************************************************************************)
(* The operations keep the invariants of the entries.                      *)
(***************************************************************************)
\* The first page of an entry is a number.
LEMMA FirstInt == \A n \in Node : First(n) \in Int
  BY FirstInPage, PageTableAssumption DEF Page

\* What splitting leaves in an entry: what was there, a table, or a piece of the
\* large page that the entry is in.
LEMMA SplitEntry ==
    ASSUME NEW t, NEW r, NEW n \in Node, NEW s, s = SplitAll(t, r)
    PROVE  \/ s[n] = t[n]
           \/ s[n] = Table /\ n[1] # 1
           \/ \E m \in Node : Pages(n) \subseteq Pages(m) /\ s[n] = split_large_page(t[m], m, n)
<1> DEFINE m == lookup_address(t, First(n))
<1>1. n[1] \in 1 .. 4 /\ First(n) \in Page /\ n = At(n[1], First(n))
  BY Nodes
<1>2. \/ s[n] = t[n]
      \/ s[n] = Table /\ Cuts(r, n)
      \/ m # NULL /\ ~(m[1] < n[1]) /\ s[n] = split_large_page(t[m], m, n)
  BY DEF SplitAll
<1>3. Cuts(r, n) => n[1] # 1
  BY <1>1, CutsUp
<1>4. ASSUME m # NULL, ~(m[1] < n[1]) PROVE m \in Node /\ Pages(n) \subseteq Pages(m)
  <2>1. PICK k \in 1 .. 3 : m = At(k, First(n))
    BY <1>1, <1>4, Lookup
  <2>2. m \in Node /\ m[1] = k
    BY <1>1, <2>1, Levels
  <2>3. n[1] <= k
    BY <1>1, <1>4, <2>2
  <2>4. ASSUME NEW y \in Pages(n) PROVE y \in Pages(m)
    <3>1. y \in Page /\ At(n[1], y) = At(n[1], First(n))
      BY <1>1, <2>4, Levels
    <3>2. At(k, y) = At(k, First(n))
      BY <1>1, <2>3, <3>1, Path
    <3> QED BY <1>1, <2>1, <3>1, <3>2, Levels
  <2> QED BY <2>2, <2>4
<1> HIDE DEF m
<1> QED BY <1>2, <1>3, <1>4

\* Splitting keeps the types of entries, ...
LEMMA SplitTyped == ASSUME NEW t, Typed(t), NEW r PROVE Typed(SplitAll(t, r))
<1> DEFINE s == SplitAll(t, r)
<1> SUFFICES ASSUME NEW n \in Node PROVE s[n].pa \in Int /\ (s[n].kind = "table" => n[1] # 1)
  BY DEF Typed
<1>1. \/ s[n] = t[n]
      \/ s[n] = Table /\ n[1] # 1
      \/ \E m \in Node : s[n] = split_large_page(t[m], m, n)
  BY SplitEntry
<1> HIDE DEF s
<1>2. ASSUME NEW m \in Node, s[n] = split_large_page(t[m], m, n) PROVE s[n].pa \in Int /\ s[n].kind = "leaf"
  <2>1. s[n].pa = t[m].pa + First(n) - First(m) /\ s[n].kind = "leaf"
    BY <1>2, EntryFields DEF split_large_page
  <2>2. t[m].pa \in Int /\ First(n) \in Int /\ First(m) \in Int
    BY FirstInt DEF Typed
  <2> QED BY <2>1, <2>2
<1> QED BY <1>1, <1>2, EntryFields DEF Typed

\* ... and maps no page of the window as RAM.
LEMMA SplitOutside == ASSUME NEW t, WbOutside(t), NEW r PROVE WbOutside(SplitAll(t, r))
<1> DEFINE s == SplitAll(t, r)
<1> SUFFICES ASSUME NEW n \in Node, EPT_WB \subseteq s[n].prot PROVE Pages(n) \cap Window = {}
  BY DEF WbOutside
<1>1. \/ s[n] = t[n]
      \/ s[n] = Table
      \/ \E m \in Node : Pages(n) \subseteq Pages(m) /\ s[n] = split_large_page(t[m], m, n)
  BY SplitEntry
<1> HIDE DEF s
<1>2. ASSUME NEW m \in Node, Pages(n) \subseteq Pages(m), s[n] = split_large_page(t[m], m, n)
      PROVE  Pages(n) \cap Window = {}
  <2>1. s[n].prot \in {t[m].prot, recover_exe_right(t[m].prot)}
    BY <1>2, EntryFields DEF split_large_page
  <2>2. EPT_WB \subseteq t[m].prot
    BY <2>1 DEF recover_exe_right, EPT_WB
  <2> QED BY <1>2, <2>2 DEF WbOutside
<1>3. s[n] # Table
  BY EntryFields DEF EPT_WB
<1> QED BY <1>1, <1>2, <1>3 DEF WbOutside

\* The same of mmu_del, ...
LEMMA DelKeeps ==
    ASSUME NEW t, Typed(t), WbOutside(t), NEW r
    PROVE  Typed(mmu_del(t, r)) /\ WbOutside(mmu_del(t, r))
<1> DEFINE s == SplitAll(t, r)
           u == mmu_del(t, r)
<1>1. Typed(s) /\ WbOutside(s)
  BY SplitTyped, SplitOutside
<1>2. \A n \in Node : u[n] = None \/ u[n] = s[n]
  BY DEF mmu_del
<1> HIDE DEF s, u
<1>3. Typed(u)
  BY <1>1, <1>2, EntryFields DEF Typed
<1>4. WbOutside(u)
  BY <1>1, <1>2, EntryFields DEF WbOutside, EPT_WB
<1> QED BY <1>3, <1>4 DEF u

\* ... of the mmu_modify that the violation handler requests ...
LEMMA ModifyKeeps ==
    ASSUME NEW t, Typed(t), WbOutside(t), NEW r
    PROVE  Typed(mmu_modify(t, r, {"X"}, {})) /\ WbOutside(mmu_modify(t, r, {"X"}, {}))
<1> DEFINE s == SplitAll(t, r)
           u == mmu_modify(t, r, {"X"}, {})
<1>1. Typed(s) /\ WbOutside(s)
  BY SplitTyped, SplitOutside
<1>2. \A n \in Node : u[n] = s[n] \/ u[n] = Leaf(s[n].pa, (s[n].prot \ {}) \cup {"X"})
  BY DEF mmu_modify
<1> HIDE DEF s, u
<1>0. \A n \in Node : \/ u[n] = s[n]
                      \/ u[n].kind = "leaf" /\ u[n].pa = s[n].pa /\ u[n].prot = (s[n].prot \ {}) \cup {"X"}
  <2> TAKE n \in Node
  <2> DEFINE g == (s[n].prot \ {}) \cup {"X"}
  <2>1. u[n] = s[n] \/ u[n] = Leaf(s[n].pa, g)
    BY <1>2
  <2>2. Leaf(s[n].pa, g).kind = "leaf" /\ Leaf(s[n].pa, g).pa = s[n].pa /\ Leaf(s[n].pa, g).prot = g
    BY Zenon DEF Leaf
  <2> QED BY <2>1, <2>2
<1>3. Typed(u)
  <2> SUFFICES ASSUME NEW n \in Node PROVE u[n].pa \in Int /\ (u[n].kind = "table" => n[1] # 1)
    BY DEF Typed
  <2> QED BY <1>0, <1>1 DEF Typed
<1>4. \A n \in Node : EPT_WB \subseteq u[n].prot => EPT_WB \subseteq s[n].prot
  BY <1>0 DEF EPT_WB
<1>5. WbOutside(u)
  BY <1>1, <1>4 DEF WbOutside
<1> QED BY <1>3, <1>5 DEF u

\* ... and of mmu_add, if the range is outside the window or not RAM.
LEMMA AddKeeps ==
    ASSUME NEW t, Typed(t), WbOutside(t), NEW pa \in Int, NEW v \in Int, NEW cnt \in Int,
           v .. v + cnt - 1 \subseteq Page, Free(t, v, cnt), NEW prot,
           EPT_WB \subseteq prot => (v .. v + cnt - 1) \cap Window = {}
    PROVE  Typed(mmu_add(t, pa, v, cnt, prot)) /\ WbOutside(mmu_add(t, pa, v, cnt, prot))
<1> DEFINE u == mmu_add(t, pa, v, cnt, prot)
           new == NewLeaves(t, pa, v, cnt)
<1>1. \A n \in Node : \/ n \in new /\ u[n] = Leaf(pa + First(n) - v, EffectiveProt(n, new, prot))
                      \/ u[n] = Table /\ n[1] # 1
                      \/ u[n] = None
                      \/ u[n] = t[n]
  <2> SUFFICES ASSUME NEW n \in Node
               PROVE  \/ n \in new /\ u[n] = Leaf(pa + First(n) - v, EffectiveProt(n, new, prot))
                      \/ u[n] = Table /\ n[1] # 1
                      \/ u[n] = None
                      \/ u[n] = t[n]
    OBVIOUS
  <2>1. n \in new => u[n] = Leaf(pa + First(n) - v, EffectiveProt(n, new, prot))
    <3>1. n \in new => u[n] = Leaf(pa + TakenFor(t, v, First(n)) - v, EffectiveProt(n, new, prot))
      BY DEF mmu_add
    <3> QED BY <3>1, NewLeafTaken
  <2>2. n \notin new => \/ u[n] = Table /\ \E m \in new : m[1] < n[1]
                        \/ u[n] = None
                        \/ u[n] = t[n]
    BY DEF mmu_add
  <2>3. ASSUME NEW m \in new, m[1] < n[1] PROVE n[1] # 1
    <3>1. PICK y \in v .. v + cnt - 1 : ~Mapped(t, y) /\ m = At(Max(FitLevels(t, pa, v, cnt, y)), y)
      BY NewLeafPage
    <3>2. y \in Page /\ Unmapped(t, y)
      BY <3>1, MappedWalk
    <3>3. PICK i \in 1 .. 3 : At(i, y) \in new
      BY <3>1, <3>2, NewLeafExists
    <3>4. i = Max(FitLevels(t, pa, v, cnt, y))
      BY <3>2, <3>3, NewLeaf
    <3>5. m[1] = i
      BY <3>1, <3>2, <3>4, Levels
    <3> QED BY <2>3, <3>5
  <2> QED BY <2>1, <2>2, <2>3
<1>2. ASSUME NEW n \in new, n \in Node PROVE Pages(n) \subseteq v .. v + cnt - 1
  <2>1. n[1] \in 1 .. 4 /\ First(n) \in Page /\ n = At(n[1], First(n))
    BY <1>2, Nodes
  <2>2. ASSUME NEW y \in Pages(n) PROVE y \in v .. v + cnt - 1
    <3>1. y \in Page /\ At(n[1], y) = n
      BY <2>1, <2>2, Levels
    <3>2. At(n[1], y) \in new
      BY <1>2, <3>1
    <3> QED BY <2>1, <3>1, <3>2, NewLeaf
  <2> QED BY <2>2
<1>3. \A n \in Node : EPT_WB \subseteq EffectiveProt(n, new, prot) => EPT_WB \subseteq prot
  BY DEF EffectiveProt, tweak_exe_right, EPT_WB
<1> HIDE DEF u, new
<1>4. \A n \in Node : pa + First(n) - v \in Int
  BY FirstInt
<1>5. Typed(u)
  BY <1>1, <1>4, EntryFields DEF Typed
<1>6. WbOutside(u)
  <2> SUFFICES ASSUME NEW n \in Node, EPT_WB \subseteq u[n].prot PROVE Pages(n) \cap Window = {}
    BY DEF WbOutside
  <2>1. CASE n \in new /\ u[n] = Leaf(pa + First(n) - v, EffectiveProt(n, new, prot))
    BY <1>2, <1>3, <2>1, EntryFields
  <2>2. CASE u[n] = Table \/ u[n] = None
    BY <2>2, EntryFields DEF EPT_WB
  <2>3. CASE u[n] = t[n]
    BY <2>3 DEF WbOutside
  <2> QED BY <1>1, <2>1, <2>2, <2>3
<1> QED BY <1>5, <1>6 DEF u

-----------------------------------------------------------------------------
(***************************************************************************)
(* The operations of ept.c as the actions call them.                       *)
(***************************************************************************)
\* What the assumptions say of the constants.
LEMMA Config ==
    /\ Top \in Nat \ {0} /\ VbarBase \in Nat \ {0} /\ VbarTop \in Nat /\ VbarTop <= Top /\ Window \subseteq Page
    /\ Len(Bars) \in Nat /\ Bar = 1 .. Len(Bars) /\ Len(E820) \in Nat /\ DOMAIN E820 = 1 .. Len(E820)
    /\ \A b \in Bar : Bars[b].hpa \in Nat /\ Bars[b].size \in Nat \ {0} /\ Bars[b].start \in Nat
    /\ \A i \in DOMAIN E820 : E820[i].base \in Nat /\ E820[i].len \in Nat /\ E820[i].ram \in BOOLEAN
<1>1. Top \in Nat \ {0} /\ VbarBase \in Nat \ {0} /\ VbarTop \in Nat /\ VbarTop <= Top
  BY PageTableAssumption, EptAssumption DEF Page
<1>2. Window \subseteq Page
  BY <1>1 DEF Window, Page
<1>3. /\ Len(Bars) \in Nat /\ Bar = 1 .. Len(Bars)
      /\ \A b \in Bar : Bars[b] \in [hpa : Nat, size : Nat \ {0}, start : Nat]
  <2> DEFINE S == [hpa : Nat, size : Nat \ {0}, start : Nat]
  <2>1. Bars \in Seq(S)
    BY EptConfiguration
  <2> HIDE DEF S
  <2>2. Len(Bars) \in Nat /\ DOMAIN Bars = 1 .. Len(Bars) /\ \A b \in 1 .. Len(Bars) : Bars[b] \in S
    BY <2>1
  <2> QED BY <2>2 DEF Bar, S
<1>4. /\ Len(E820) \in Nat /\ DOMAIN E820 = 1 .. Len(E820)
      /\ \A i \in DOMAIN E820 : E820[i] \in [base : Nat, len : Nat, ram : BOOLEAN]
  <2> DEFINE S == [base : Nat, len : Nat, ram : BOOLEAN]
  <2>1. E820 \in Seq(S)
    BY EptConfiguration
  <2> HIDE DEF S
  <2>2. Len(E820) \in Nat /\ DOMAIN E820 = 1 .. Len(E820) /\ \A i \in 1 .. Len(E820) : E820[i] \in S
    BY <2>1
  <2> QED BY <2>2 DEF S
<1> QED BY <1>1, <1>2, <1>3, <1>4

\* pci_vdev_update_bar_base accepts bases inside the window only.
LEMMA BarBasePlaced == \A b \in Bar : \A val \in Nat : Placed(b, BarBase(b, val))
  BY Config DEF Placed, BarBase

\* The pages of BAR b when it is at page at.
BarAt(b, at) == IF at = 0 THEN {} ELSE at .. at + Bars[b].size - 1

\* The pages of a BAR that is placed are pages of the window.
LEMMA PlacedPages ==
    ASSUME NEW b \in Bar, NEW at, Placed(b, at)
    PROVE  /\ BarAt(b, at) \subseteq Window /\ BarAt(b, at) \subseteq Page
           /\ at \in Int /\ Bars[b].size \in Int /\ Bars[b].hpa \in Int
           /\ at # 0 => at .. at + Bars[b].size - 1 \subseteq Page
<1>1. at # 0 => at .. at + Bars[b].size - 1 \subseteq Window
  BY Config DEF Placed, Window
<1> QED BY <1>1, Config DEF Placed, BarAt

\* vdev_pt_unmap_mem_vbar frees the pages of the BAR.
LEMMA UnmapBarView ==
    ASSUME NEW t, Typed(t), NEW b \in Bar, NEW at, Placed(b, at), NEW u, u = UnmapBar(t, b, at), NEW x \in Page
    PROVE  View(u, x) = IF x \in BarAt(b, at) THEN None ELSE View(t, x)
<1>1. CASE at = 0
  BY <1>1 DEF UnmapBar, BarAt
<1>2. CASE at # 0
  <2> DEFINE r == at .. at + Bars[b].size - 1
  <2>1. u = mmu_del(t, r)
    BY <1>2 DEF UnmapBar, ept_del_mr
  <2>2. View(u, x) = IF x \in r THEN None ELSE View(t, x)
    <3> HIDE DEF r
    <3> QED BY <2>1, DelView
  <2> QED BY <1>2, <2>2 DEF BarAt
<1> QED BY <1>1, <1>2

\* vdev_pt_map_mem_vbar maps them if they are free.
LEMMA AddBarView ==
    ASSUME NEW t, Typed(t), NEW b \in Bar, NEW at, Placed(b, at), NEW u, u = AddBar(t, b, at), NEW x \in Page,
           \A y \in BarAt(b, at) : View(t, y) = None
    PROVE  View(u, x) = IF x \in BarAt(b, at)
                        THEN Leaf(Bars[b].hpa + x - at, VisibleProt({"R", "W"})) ELSE View(t, x)
<1>1. CASE at = 0
  BY <1>1 DEF AddBar, BarAt
<1>2. CASE at # 0
  <2>1. {"R", "W"} \cup EPT_UNCACHED = {"R", "W"} /\ ~(EPT_WB \subseteq {"R", "W"})
    BY DEF EPT_UNCACHED, EPT_WB
  <2>2. u = mmu_add(t, Bars[b].hpa, at, Bars[b].size, {"R", "W"})
    BY <1>2, <2>1 DEF AddBar, ept_add_mr
  <2>3. at \in Int /\ Bars[b].size \in Int /\ Bars[b].hpa \in Int /\ at .. at + Bars[b].size - 1 \subseteq Page
    BY <1>2, PlacedPages
  <2> DEFINE n == Bars[b].size
             pa == Bars[b].hpa
             rw == {"R", "W"}
  <2>4. View(u, x) = IF x \in at .. at + n - 1 THEN Leaf(pa + x - at, VisibleProt(rw)) ELSE View(t, x)
    <3>0. Free(t, at, n)
      BY <1>2, <2>3, FreeRange DEF BarAt
    <3>1. u = mmu_add(t, pa, at, n, rw) /\ at \in Int /\ n \in Int /\ pa \in Int /\ at .. at + n - 1 \subseteq Page
      BY <2>2, <2>3
    <3> HIDE DEF n, pa, rw
    <3>2. View(u, x) = Added(t, pa, at, n, rw, x)
      BY <3>0, <3>1, AddView
    <3> QED BY <3>2 DEF Added
  <2> QED BY <1>2, <2>4 DEF BarAt
<1> QED BY <1>1, <1>2

\* Both keep the invariants of the entries.
LEMMA BarKeeps ==
    ASSUME NEW t, Typed(t), WbOutside(t), NEW b \in Bar, NEW at, Placed(b, at)
    PROVE  Typed(UnmapBar(t, b, at)) /\ WbOutside(UnmapBar(t, b, at))
  BY DelKeeps DEF UnmapBar, ept_del_mr

LEMMA AddBarKeeps ==
    ASSUME NEW t, Typed(t), WbOutside(t), NEW b \in Bar, NEW at, Placed(b, at),
           \A y \in BarAt(b, at) : View(t, y) = None
    PROVE  Typed(AddBar(t, b, at)) /\ WbOutside(AddBar(t, b, at))
<1>2. CASE at = 0
  BY <1>2 DEF AddBar
<1>3. CASE at # 0
  <2>1. {"R", "W"} \cup EPT_UNCACHED = {"R", "W"} /\ ~(EPT_WB \subseteq {"R", "W"})
    BY DEF EPT_UNCACHED, EPT_WB
  <2>2. AddBar(t, b, at) = mmu_add(t, Bars[b].hpa, at, Bars[b].size, {"R", "W"})
    BY <1>3, <2>1 DEF AddBar, ept_add_mr
  <2>3. at \in Int /\ Bars[b].size \in Int /\ Bars[b].hpa \in Int /\ at .. at + Bars[b].size - 1 \subseteq Page
    BY <1>3, PlacedPages
  <2>4. Typed(mmu_add(t, Bars[b].hpa, at, Bars[b].size, {"R", "W"})) /\ WbOutside(mmu_add(t, Bars[b].hpa, at, Bars[b].size, {"R", "W"}))
    <3>1. Free(t, at, Bars[b].size)
      BY <1>3, <2>3, FreeRange DEF BarAt
    <3> QED BY <2>1, <2>3, <3>1, AddKeeps
  <2> QED BY <2>2, <2>4
<1> QED BY <1>2, <1>3

\* One e820 entry, as MapE820Entry maps it: the rights asked for and those set.
RamArg(e) == EPT_RWX \cup (IF e.ram THEN EPT_WB ELSE EPT_UNCACHED)
RamProt(e) == EPT_RWX \cup (IF e.ram THEN EPT_WB \cup {"SNP"} ELSE {})

\* What create_vm does for an entry that it maps.
LEMMA RamView ==
    ASSUME NEW t, Typed(t), WbOutside(t), NEW i \in DOMAIN E820, NEW e, e = E820[i], Mappable(e), NEW pa \in Int,
           NEW u, u = ept_add_mr(t, pa, e.base, e.len, RamArg(e)),
           \A x \in Span(e) : View(t, x) = None
    PROVE  /\ Typed(u) /\ WbOutside(u)
           /\ Span(e) \subseteq Page \ Window
           /\ \A x \in Page : View(u, x) = IF x \in Span(e)
                                           THEN Leaf(pa + x - e.base, VisibleProt(RamProt(e))) ELSE View(t, x)
<1>1. e.base \in Nat /\ e.len \in Nat /\ e.ram \in BOOLEAN
  BY Config
<1>2. Span(e) \subseteq Page \ Window /\ Span(e) = e.base .. e.base + e.len - 1
  BY EptConfiguration DEF Span, Window
<1>3. u = mmu_add(t, pa, e.base, e.len, RamProt(e))
  <2>1. CASE e.ram
    BY <2>1 DEF ept_add_mr, RamArg, RamProt, EPT_WB, EPT_RWX
  <2>2. CASE ~e.ram
    <3>1. EPT_RWX \cup {} = EPT_RWX /\ ~(EPT_WB \subseteq EPT_RWX)
      BY DEF EPT_RWX, EPT_WB
    <3> QED BY <2>2, <3>1 DEF ept_add_mr, RamArg, RamProt, EPT_UNCACHED
  <2> QED BY <2>1, <2>2
<1> DEFINE v == e.base
           n == e.len
           rp == RamProt(e)
<1>4. /\ u = mmu_add(t, pa, v, n, rp) /\ pa \in Int /\ v \in Int /\ n \in Int
      /\ v .. v + n - 1 \subseteq Page /\ (v .. v + n - 1) \cap Window = {} /\ Span(e) = v .. v + n - 1
  BY <1>1, <1>2, <1>3
<1> HIDE DEF v, n, rp
<1>4a. Free(t, v, n)
  BY <1>4, FreeRange
<1>5. Typed(u) /\ WbOutside(u)
  BY <1>4, <1>4a, AddKeeps
<1>6. ASSUME NEW x \in Page
      PROVE  View(u, x) = IF x \in v .. v + n - 1 THEN Leaf(pa + x - v, VisibleProt(rp)) ELSE View(t, x)
  <2>1. View(mmu_add(t, pa, v, n, rp), x) =
          IF x \in v .. v + n - 1 THEN Leaf(pa + x - v, VisibleProt(rp)) ELSE View(t, x)
    <3>1. pa \in Int /\ v \in Int /\ n \in Int /\ v .. v + n - 1 \subseteq Page
      BY <1>4
    <3>2. View(mmu_add(t, pa, v, n, rp), x) = Added(t, pa, v, n, rp, x)
      BY <1>4a, <3>1, AddView
    <3> QED BY <3>2 DEF Added
  <2> QED BY <1>4, <2>1
<1>7. ASSUME NEW x \in Page
      PROVE  View(u, x) = IF x \in Span(e)
                          THEN Leaf(pa + x - e.base, VisibleProt(RamProt(e))) ELSE View(t, x)
  BY <1>4, <1>6 DEF v, rp
<1> QED BY <1>2, <1>5, <1>7

-----------------------------------------------------------------------------
(***************************************************************************)
(* Each action keeps the invariant and does one of three things to the     *)
(* flat map: nothing, free some pages, or fill a free range.               *)
(***************************************************************************)
Kept(t, u) == \A x \in Page : View(u, x) = View(t, x)
Freed(t, u, r) == \A x \in Page : View(u, x) = IF x \in r THEN None ELSE View(t, x)
Filled(t, u, low, cnt, pa, prot) ==
    /\ low .. low + cnt - 1 \subseteq Page
    /\ \A x \in low .. low + cnt - 1 : View(t, x) = None /\ View(u, x) = Leaf(pa + x - low, prot)
    /\ \A x \in Page \ (low .. low + cnt - 1) : View(u, x) = View(t, x)

MapStep(t, u) ==
    \/ Kept(t, u)
    \/ \E r : Freed(t, u, r)
    \/ \E low \in Nat, cnt \in Nat \ {0}, pa \in Nat : \E prot : Filled(t, u, low, cnt, pa, prot)

\* A vCPU that writes no BAR leaves what its invariants speak about.
LEMMA OtherSteps ==
    ASSUME EptInv, Booted, UNCHANGED <<boot, base, lock, job>>, Kept(tbl, tbl'),
           NEW c \in Cpu, NEW p \in Pcs, p \notin {"write_bar", "map_bar"},
           pc[c] \notin {"write_bar", "map_bar"}, pc' = [pc EXCEPT ![c] = p]
    PROVE  /\ BootInv' /\ BarInv' /\ WindowInv'
           /\ ~TweakExe => \A v \in Page \ Window : View(tbl', v) # None => "X" \in View(tbl', v).prot
<1>1. Booted' /\ boot' = boot /\ base' = base /\ lock' = lock /\ job' = job
  BY DEF Booted
<1>2. BootInv'
  <2>1. boot.done >= Len(E820)
    BY Config DEF Booted
  <2>2. ~(boot.done < Len(E820))
    BY <2>1, Config DEF EptInv, BootInv
  <2> QED BY <1>1, <2>2 DEF EptInv, BootInv
<1>3. BarInv'
  <2>1. pc' \in [Cpu -> Pcs] /\ \A d \in Cpu : pc'[d] = IF d = c THEN p ELSE pc[d]
    BY DEF EptInv, BarInv
  <2>2. \A d \in Cpu : pc'[d] \in {"write_bar", "map_bar"} <=> lock' = d
    BY <1>1, <2>1 DEF EptInv, BarInv
  <2>3. /\ base' \in [Bar -> Nat] /\ \A b \in Bar : Placed(b, base'[b])
        /\ lock' \in Cpu \cup {NoCpu}
        /\ lock' # NoCpu => job'.bar \in Bar /\ Placed(job'.bar, job'.new)
    BY <1>1 DEF EptInv, BarInv
  <2> QED BY <2>1, <2>2, <2>3 DEF BarInv
<1>4. WindowInv'
  <2>1. \A b : BarPages(b)' = BarPages(b)
    BY <1>1 DEF BarPages
  <2>2. \A v \in Window : View(tbl', v) # None =>
          \E b \in Bar : v \in BarPages(b)' /\ View(tbl', v).pa = Bars[b].hpa + v - base'[b]
    BY <1>1, <2>1, Config DEF Kept, EptInv, WindowInv
  <2>3. lock # NoCpu => BarPages(job.bar) \subseteq Page
    BY PlacedPages DEF EptInv, BarInv, BarPages, BarAt
  <2>4. lock' # NoCpu => \A v \in BarPages(job.bar)' : View(tbl', v) = None
    BY <1>1, <2>1, <2>3 DEF Kept, EptInv, WindowInv
  <2>5. lock' # NoCpu /\ pc'[lock'] = "map_bar" => base'[job'.bar] = job'.new
    BY <1>1 DEF EptInv, BarInv, WindowInv
  <2> QED BY <1>1, <2>1, <2>2, <2>4, <2>5 DEF WindowInv
<1>5. ~TweakExe => \A v \in Page \ Window : View(tbl', v) # None => "X" \in View(tbl', v).prot
  BY DEF Kept, EptInv, FetchInv
<1> QED BY <1>2, <1>3, <1>4, <1>5

\* Only a vCPU's handler has left the guest, and create_vm is over then.
LEMMA OutOfGuest == ASSUME EptInv, NEW c \in Cpu, pc[c] # "guest" PROVE Booted
  BY DEF EptInv, BootInv

\* The steps of the handlers that only read the EPT.
LEMMA ReadSteps ==
    ASSUME EptInv, NEW c \in Cpu,
           \/ FetchExit(c) \/ FetchLookup(c) \/ FetchDeref(c) \/ FetchFault(c)
           \/ CopyLookup(c) \/ CopyDeref(c) \/ CopyDone(c)
    PROVE  EptInv' /\ Kept(tbl, tbl')
<1>1. tbl' = tbl /\ UNCHANGED <<boot, base, lock, job>>
  BY DEF FetchExit, FetchLookup, FetchDeref, FetchFault, CopyLookup, CopyDeref, CopyDone
<1>2. Kept(tbl, tbl')
  BY <1>1 DEF Kept
<1>3. pc \in [Cpu -> Pcs] /\ gpa \in [Cpu -> Page] /\ pgentry \in [Cpu -> Node \cup {NULL}] /\ 0 \in Page
  BY Config DEF EptInv, BarInv, FetchInv, Page
<1>4. PICK p \in Pcs : /\ p \notin {"write_bar", "map_bar"} /\ pc[c] \notin {"write_bar", "map_bar"}
                       /\ pc' = [pc EXCEPT ![c] = p]
  BY DEF FetchExit, FetchLookup, FetchDeref, FetchFault, CopyLookup, CopyDeref, CopyDone, Pcs
<1>5. Booted
  BY OutOfGuest DEF FetchExit, FetchLookup, FetchDeref, FetchFault, CopyLookup, CopyDeref, CopyDone
<1>6. /\ BootInv' /\ BarInv' /\ WindowInv'
      /\ ~TweakExe => \A v \in Page \ Window : View(tbl', v) # None => "X" \in View(tbl', v).prot
  BY <1>1, <1>2, <1>4, <1>5, OtherSteps
<1>7. Typed(tbl') /\ WbOutside(tbl')
  BY <1>1 DEF EptInv
<1>8. \A t : \A v \in Page : lookup_address(t, v) \in Node \cup {NULL}
                             /\ (lookup_address(t, v) # NULL => v \in Pages(lookup_address(t, v)))
  <2> SUFFICES ASSUME NEW t, NEW v \in Page, lookup_address(t, v) # NULL
               PROVE  lookup_address(t, v) \in Node /\ v \in Pages(lookup_address(t, v))
    OBVIOUS
  <2>1. PICK l \in 1 .. 3 : lookup_address(t, v) = At(l, v)
    BY Lookup
  <2> QED BY <2>1, Levels
<1>9. gpa' \in [Cpu -> Page] /\ pgentry' \in [Cpu -> Node \cup {NULL}]
  BY <1>3, <1>8 DEF FetchExit, FetchLookup, FetchDeref, FetchFault, CopyLookup, CopyDeref, CopyDone
<1>10. \A d \in Cpu \ {c} : pc'[d] = pc[d] /\ gpa'[d] = gpa[d] /\ pgentry'[d] = pgentry[d]
  BY <1>3 DEF FetchExit, FetchLookup, FetchDeref, FetchFault, CopyLookup, CopyDeref, CopyDone
<1>11. pc'[c] = "deref" /\ pgentry'[c] # NULL => gpa'[c] \in Pages(pgentry'[c])
  <2>1. CASE FetchLookup(c)
    BY <1>3, <1>8, <2>1 DEF FetchLookup
  <2>2. CASE ~FetchLookup(c)
    <3>1. pc'[c] # "deref"
      BY <1>3, <2>2 DEF FetchExit, FetchDeref, FetchFault, CopyLookup, CopyDeref, CopyDone
    <3> QED BY <3>1
  <2> QED BY <2>1, <2>2
<1>12. pc'[c] = "modify" => gpa'[c] \notin Window
  <2>1. CASE FetchDeref(c)
    <3>1. ASSUME pc'[c] = "modify" PROVE gpa[c] \notin Window
      <4>1. pgentry[c] # NULL /\ EPT_WB \subseteq tbl[pgentry[c]].prot /\ pc[c] = "deref"
        BY <1>3, <2>1, <3>1 DEF FetchDeref
      <4>2. pgentry[c] \in Node /\ gpa[c] \in Pages(pgentry[c])
        BY <1>3, <4>1 DEF EptInv, FetchInv
      <4> QED BY <4>1, <4>2 DEF EptInv, WbOutside
    <3>2. gpa' = gpa
      BY <2>1 DEF FetchDeref
    <3> QED BY <3>1, <3>2
  <2>2. CASE ~FetchDeref(c)
    <3>1. pc'[c] # "modify"
      BY <1>3, <2>2 DEF FetchExit, FetchLookup, FetchFault, CopyLookup, CopyDeref, CopyDone
    <3> QED BY <3>1
  <2> QED BY <2>1, <2>2
<1>13. FetchInv'
  <2>1. \A d \in Cpu : pc'[d] = "deref" /\ pgentry'[d] # NULL => gpa'[d] \in Pages(pgentry'[d])
    BY <1>10, <1>11 DEF EptInv, FetchInv
  <2>2. \A d \in Cpu : pc'[d] = "modify" => gpa'[d] \notin Window
    BY <1>10, <1>12 DEF EptInv, FetchInv
  <2> QED BY <1>6, <1>9, <2>1, <2>2 DEF FetchInv
<1> QED BY <1>2, <1>6, <1>7, <1>13 DEF EptInv

\* The step of the handler that makes a page executable.
LEMMA ModifyStep == ASSUME EptInv, NEW c \in Cpu, FetchModify(c) PROVE EptInv' /\ Kept(tbl, tbl')
<1>1. /\ pc[c] = "modify" /\ pc' = [pc EXCEPT ![c] = "guest"] /\ gpa' = [gpa EXCEPT ![c] = 0]
      /\ UNCHANGED <<boot, base, lock, job, pgentry>>
  BY DEF FetchModify
<1>2. pc \in [Cpu -> Pcs] /\ gpa \in [Cpu -> Page] /\ gpa[c] \in Page /\ gpa[c] \notin Window /\ 0 \in Page
  BY <1>1, Config DEF EptInv, BarInv, FetchInv, Page
<1>3. tbl' = mmu_modify(tbl, gpa[c] .. gpa[c], {"X"}, {})
  <2>1. gpa[c] + 1 - 1 = gpa[c]
    BY <1>2, Config DEF Page
  <2>2. ~(EPT_WB \subseteq {"X"})
    BY DEF EPT_WB
  <2> QED BY <2>1, <2>2 DEF FetchModify, ept_modify_mr
<1>4. Typed(tbl') /\ WbOutside(tbl')
  BY <1>3, ModifyKeeps DEF EptInv
<1>5. ASSUME NEW x \in Page PROVE View(tbl', x) = View(tbl, x)
  <2>1. x \in gpa[c] .. gpa[c] => x = gpa[c]
    BY <1>2, Config DEF Page
  <2>2. TweakExe \/ x \notin gpa[c] .. gpa[c] \/ View(tbl, x) = None \/ "X" \in View(tbl, x).prot
    BY <1>2, <2>1 DEF EptInv, FetchInv
  <2> QED BY <1>3, <2>2, ModifyView DEF EptInv
<1>6. Kept(tbl, tbl')
  BY <1>5 DEF Kept
<1>7. Booted
  BY <1>1, OutOfGuest
<1>8. /\ BootInv' /\ BarInv' /\ WindowInv'
      /\ ~TweakExe => \A v \in Page \ Window : View(tbl', v) # None => "X" \in View(tbl', v).prot
  <2>1. "guest" \in Pcs /\ pc[c] \notin {"write_bar", "map_bar"}
    BY <1>1 DEF Pcs
  <2>2. pc' = [pc EXCEPT ![c] = "guest"] /\ UNCHANGED <<boot, base, lock, job>>
    BY <1>1
  <2> QED BY <1>6, <1>7, <2>1, <2>2, OtherSteps
<1>9. FetchInv'
  <2>1. /\ gpa' \in [Cpu -> Page] /\ pgentry' = pgentry /\ pc'[c] = "guest"
        /\ \A d \in Cpu \ {c} : pc'[d] = pc[d] /\ gpa'[d] = gpa[d]
    BY <1>1, <1>2
  <2>2. \A d \in Cpu : /\ pc'[d] = "deref" /\ pgentry'[d] # NULL => gpa'[d] \in Pages(pgentry'[d])
                       /\ pc'[d] = "modify" => gpa'[d] \notin Window
    BY <2>1 DEF EptInv, FetchInv
  <2>3. pgentry' \in [Cpu -> Node \cup {NULL}]
    BY <2>1 DEF EptInv, FetchInv
  <2> QED BY <1>8, <2>1, <2>2, <2>3 DEF FetchInv
<1> QED BY <1>4, <1>6, <1>8, <1>9 DEF EptInv

\* The steps of a BAR write leave the invariants of the fetches and of create_vm.
LEMMA BarSteps ==
    ASSUME EptInv, Booted, boot' = boot, UNCHANGED <<gpa, pgentry>>,
           NEW c \in Cpu, NEW p \in {"guest", "write_bar", "map_bar"}, pc' = [pc EXCEPT ![c] = p],
           \A x \in Page \ Window : View(tbl', x) = View(tbl, x)
    PROVE  /\ BootInv' /\ FetchInv'
           /\ pc' \in [Cpu -> Pcs] /\ pc'[c] = p /\ \A d \in Cpu \ {c} : pc'[d] = pc[d]
<1>1. Booted' /\ boot' = boot /\ ~(boot.done < Len(E820))
  BY Config DEF Booted
<1>2. BootInv'
  BY <1>1 DEF EptInv, BootInv
<1>3. pc' \in [Cpu -> Pcs] /\ pc'[c] = p /\ \A d \in Cpu \ {c} : pc'[d] = pc[d]
  BY DEF EptInv, BarInv, Pcs
<1>4. gpa' \in [Cpu -> Page] /\ pgentry' \in [Cpu -> Node \cup {NULL}]
  BY DEF EptInv, FetchInv
<1>5. \A d \in Cpu : /\ pc'[d] = "deref" /\ pgentry'[d] # NULL => gpa'[d] \in Pages(pgentry'[d])
                     /\ pc'[d] = "modify" => gpa'[d] \notin Window
  BY <1>3 DEF EptInv, FetchInv
<1>6. ~TweakExe => \A v \in Page \ Window : View(tbl', v) # None => "X" \in View(tbl', v).prot
  BY DEF EptInv, FetchInv
<1>7. FetchInv'
  BY <1>4, <1>5, <1>6 DEF FetchInv
<1> QED BY <1>2, <1>3, <1>7

\* vdev_pt_unmap_mem_vbar frees the old pages.
LEMMA BarUnmapStep ==
    ASSUME EptInv, NEW c \in Cpu, BarUnmap(c) PROVE EptInv' /\ \E r : Freed(tbl, tbl', r)
<1>1. /\ Booted /\ pc[c] = "guest" /\ lock = NoCpu /\ lock' = c /\ pc' = [pc EXCEPT ![c] = "write_bar"]
      /\ boot' = boot /\ base' = base /\ UNCHANGED <<gpa, pgentry>>
  BY DEF BarUnmap
<1>2. PICK b \in Bar, w \in Page : tbl' = UnmapBar(tbl, b, base[b]) /\ job' = [bar |-> b, new |-> BarBase(b, w)]
  BY DEF BarUnmap
<1>3. Placed(b, base[b]) /\ Placed(b, BarBase(b, w))
  <2>1. w \in Nat
    BY Config DEF Page
  <2> QED BY <2>1, BarBasePlaced DEF EptInv, BarInv
<1>4. Typed(tbl') /\ WbOutside(tbl')
  BY <1>2, <1>3, BarKeeps DEF EptInv
<1>5. \A x \in Page : View(tbl', x) = IF x \in BarAt(b, base[b]) THEN None ELSE View(tbl, x)
  BY <1>2, <1>3, UnmapBarView DEF EptInv
<1>6. BarAt(b, base[b]) \subseteq Window /\ BarAt(b, base[b]) \subseteq Page
  BY <1>3, PlacedPages
<1>7. /\ BootInv' /\ FetchInv'
      /\ pc' \in [Cpu -> Pcs] /\ pc'[c] = "write_bar" /\ \A d \in Cpu \ {c} : pc'[d] = pc[d]
  <2>1. \A x \in Page \ Window : View(tbl', x) = View(tbl, x)
    BY <1>5, <1>6
  <2> QED BY <1>1, <2>1, BarSteps
<1>8. BarInv'
  <2>1. \A d \in Cpu : pc'[d] \in {"write_bar", "map_bar"} <=> lock' = d
    <3>1. \A d \in Cpu : d # NoCpu
      BY EptAssumption
    <3> QED BY <1>1, <1>7, <3>1 DEF EptInv, BarInv
  <2>2. base' \in [Bar -> Nat] /\ (\A d \in Bar : Placed(d, base'[d])) /\ lock' \in Cpu \cup {NoCpu}
    BY <1>1 DEF EptInv, BarInv
  <2>3. job'.bar \in Bar /\ Placed(job'.bar, job'.new)
    BY <1>2, <1>3
  <2> QED BY <1>7, <2>1, <2>2, <2>3 DEF BarInv
<1>9. WindowInv'
  <2>1. \A d \in Bar : BarPages(d)' = BarPages(d)
    BY <1>1 DEF BarPages
  <2>2. \A v \in Window : View(tbl', v) # None =>
          \E d \in Bar : v \in BarPages(d)' /\ View(tbl', v).pa = Bars[d].hpa + v - base'[d]
    BY <1>1, <1>5, <2>1, Config DEF EptInv, WindowInv
  <2>3. job'.bar = b
    BY <1>2
  <2>4. BarPages(job.bar)' = BarAt(b, base[b])
    BY <1>1, <2>3 DEF BarPages, BarAt
  <2>5. \A v \in BarPages(job.bar)' : View(tbl', v) = None
    BY <1>5, <1>6, <2>4
  <2>6. pc'[lock'] # "map_bar"
    BY <1>1, <1>7
  <2> QED BY <2>2, <2>5, <2>6 DEF WindowInv
<1>10. Freed(tbl, tbl', BarAt(b, base[b]))
  BY <1>5 DEF Freed
<1> QED BY <1>4, <1>7, <1>8, <1>9, <1>10 DEF EptInv

\* The vCPU that is in the middle of a BAR write holds the lock.
LEMMA Holder ==
    ASSUME EptInv, NEW c \in Cpu, pc[c] \in {"write_bar", "map_bar"}
    PROVE  Booted /\ lock = c /\ lock # NoCpu /\ job.bar \in Bar /\ Placed(job.bar, job.new)
<1>1. lock = c /\ lock # NoCpu
  BY EptAssumption DEF EptInv, BarInv
<1> QED BY <1>1, OutOfGuest DEF EptInv, BarInv

\* The new base is set, and its pages are freed.
LEMMA BarWriteStep ==
    ASSUME EptInv, NEW c \in Cpu, BarWrite(c) PROVE EptInv' /\ \E r : Freed(tbl, tbl', r)
<1> DEFINE b == job.bar
           at == job.new
<1>1. /\ pc[c] = "write_bar" /\ pc' = [pc EXCEPT ![c] = "map_bar"]
      /\ boot' = boot /\ lock' = lock /\ job' = job /\ UNCHANGED <<gpa, pgentry>>
      /\ base' = [base EXCEPT ![b] = at] /\ tbl' = UnmapBar(tbl, b, at)
  BY DEF BarWrite
<1>2. Booted /\ lock = c /\ lock # NoCpu /\ b \in Bar /\ Placed(b, at)
  BY <1>1, Holder
<1> HIDE DEF b, at
<1>3. Typed(tbl') /\ WbOutside(tbl')
  BY <1>1, <1>2, BarKeeps DEF EptInv
<1>4. \A x \in Page : View(tbl', x) = IF x \in BarAt(b, at) THEN None ELSE View(tbl, x)
  BY <1>1, <1>2, UnmapBarView DEF EptInv
<1>5. BarAt(b, at) \subseteq Window /\ BarAt(b, at) \subseteq Page
  BY <1>2, PlacedPages
<1>6. /\ BootInv' /\ FetchInv'
      /\ pc' \in [Cpu -> Pcs] /\ pc'[c] = "map_bar" /\ \A d \in Cpu \ {c} : pc'[d] = pc[d]
  <2>1. \A x \in Page \ Window : View(tbl', x) = View(tbl, x)
    BY <1>4, <1>5
  <2> QED BY <1>1, <1>2, <2>1, BarSteps
<1>7. base' \in [Bar -> Nat] /\ base'[b] = at /\ \A d \in Bar \ {b} : base'[d] = base[d]
  BY <1>1, <1>2 DEF EptInv, BarInv, Placed
<1>8. BarInv'
  <2>1. \A d \in Cpu : pc'[d] \in {"write_bar", "map_bar"} <=> lock' = d
    BY <1>1, <1>2, <1>6 DEF EptInv, BarInv
  <2>2. (\A d \in Bar : Placed(d, base'[d])) /\ lock' \in Cpu \cup {NoCpu}
    BY <1>1, <1>2, <1>7 DEF EptInv, BarInv
  <2>3. job'.bar \in Bar /\ Placed(job'.bar, job'.new)
    BY <1>1, <1>2 DEF b, at
  <2> QED BY <1>6, <1>7, <2>1, <2>2, <2>3 DEF BarInv
<1>9. WindowInv'
  <2>1. \A d \in Bar \ {b} : BarPages(d)' = BarPages(d)
    BY <1>7 DEF BarPages
  <2>2. ASSUME NEW v \in Window, View(tbl', v) # None
        PROVE  \E d \in Bar : v \in BarPages(d)' /\ View(tbl', v).pa = Bars[d].hpa + v - base'[d]
    <3>1. v \in Page /\ View(tbl', v) = View(tbl, v)
      BY <1>4, <2>2, Config
    <3>2. PICK d \in Bar : v \in BarPages(d) /\ View(tbl, v).pa = Bars[d].hpa + v - base[d]
      BY <2>2, <3>1 DEF EptInv, WindowInv
    <3>3. d # b
      BY <1>2, <2>2, <3>1, <3>2 DEF EptInv, WindowInv, b
    <3> QED BY <1>7, <2>1, <3>1, <3>2, <3>3
  <2>3. BarPages(job.bar)' = BarAt(b, at)
    BY <1>1, <1>7 DEF BarPages, BarAt, b
  <2>4. \A v \in BarPages(job.bar)' : View(tbl', v) = None
    BY <1>4, <1>5, <2>3
  <2>5. base'[job'.bar] = job'.new
    BY <1>1, <1>7 DEF b, at
  <2> QED BY <2>2, <2>4, <2>5 DEF WindowInv
<1>10. Freed(tbl, tbl', BarAt(b, at))
  BY <1>4 DEF Freed
<1> QED BY <1>3, <1>6, <1>8, <1>9, <1>10 DEF EptInv

\* The new pages, which are free, are mapped.
LEMMA BarMapStep == ASSUME EptInv, NEW c \in Cpu, BarMap(c) PROVE EptInv' /\ MapStep(tbl, tbl')
<1> DEFINE b == job.bar
           at == job.new
<1>1. /\ pc[c] = "map_bar" /\ pc' = [pc EXCEPT ![c] = "guest"]
      /\ boot' = boot /\ lock' = NoCpu /\ base' = base /\ UNCHANGED <<gpa, pgentry>>
      /\ tbl' = AddBar(tbl, b, at)
  BY DEF BarMap
<1>2. Booted /\ lock = c /\ lock # NoCpu /\ b \in Bar /\ Placed(b, at)
  BY <1>1, Holder
<1>3. base[b] = at /\ BarPages(b) = BarAt(b, at) /\ \A v \in BarAt(b, at) : View(tbl, v) = None
  BY <1>1, <1>2 DEF EptInv, WindowInv, BarPages, BarAt
<1> HIDE DEF b, at
<1>4. Typed(tbl') /\ WbOutside(tbl')
  BY <1>1, <1>2, <1>3, AddBarKeeps DEF EptInv
<1>5. \A x \in Page : View(tbl', x) = IF x \in BarAt(b, at)
                                      THEN Leaf(Bars[b].hpa + x - at, VisibleProt({"R", "W"})) ELSE View(tbl, x)
  BY <1>1, <1>2, <1>3, AddBarView DEF EptInv
<1>6. BarAt(b, at) \subseteq Window /\ BarAt(b, at) \subseteq Page
  BY <1>2, PlacedPages
<1>7. /\ BootInv' /\ FetchInv'
      /\ pc' \in [Cpu -> Pcs] /\ pc'[c] = "guest" /\ \A d \in Cpu \ {c} : pc'[d] = pc[d]
  <2>1. \A x \in Page \ Window : View(tbl', x) = View(tbl, x)
    BY <1>5, <1>6
  <2> QED BY <1>1, <1>2, <2>1, BarSteps
<1>8. BarInv'
  <2>1. \A d \in Cpu : pc'[d] \in {"write_bar", "map_bar"} <=> lock' = d
    <3>1. \A d \in Cpu : d # NoCpu
      BY EptAssumption
    <3> QED BY <1>1, <1>2, <1>7, <3>1 DEF EptInv, BarInv
  <2> QED BY <1>1, <1>7, <2>1 DEF EptInv, BarInv
<1>9. WindowInv'
  <2>1. \A d \in Bar : BarPages(d)' = BarPages(d)
    BY <1>1 DEF BarPages
  <2>2. ASSUME NEW v \in Window, View(tbl', v) # None
        PROVE  \E d \in Bar : v \in BarPages(d)' /\ View(tbl', v).pa = Bars[d].hpa + v - base'[d]
    <3>1. CASE v \in BarAt(b, at)
      <4>1. View(tbl', v).pa = Bars[b].hpa + v - at
        BY <1>5, <1>6, <3>1, EntryFields
      <4> QED BY <1>1, <1>2, <1>3, <2>1, <3>1, <4>1
    <3>2. CASE v \notin BarAt(b, at)
      <4>1. View(tbl', v) = View(tbl, v)
        BY <1>5, <3>2, Config
      <4> QED BY <1>1, <2>1, <2>2, <4>1 DEF EptInv, WindowInv
    <3> QED BY <3>1, <3>2
  <2> QED BY <1>1, <2>2 DEF WindowInv
<1>10. MapStep(tbl, tbl')
  <2>1. CASE at = 0
    <3>1. Kept(tbl, tbl')
      BY <1>5, <2>1 DEF Kept, BarAt
    <3> QED BY <3>1 DEF MapStep
  <2>2. CASE at # 0
    <3>1. BarAt(b, at) = at .. at + Bars[b].size - 1
      BY <2>2 DEF BarAt
    <3>2. Filled(tbl, tbl', at, Bars[b].size, Bars[b].hpa, VisibleProt({"R", "W"}))
      BY <1>3, <1>5, <1>6, <3>1 DEF Filled
    <3>3. at \in Nat /\ Bars[b].size \in Nat \ {0} /\ Bars[b].hpa \in Nat
      BY <1>2, Config DEF Placed
    <3> QED BY <3>2, <3>3 DEF MapStep
  <2> QED BY <2>1, <2>2
<1> QED BY <1>4, <1>7, <1>8, <1>9, <1>10 DEF EptInv

\* While create_vm runs no vCPU does.
LEMMA Booting ==
    ASSUME EptInv, ~Booted
    PROVE  lock = NoCpu /\ (\A c \in Cpu : pc[c] = "guest")
           /\ \A b \in Bar : base[b] = IF b + Len(E820) <= boot.done THEN BarBase(b, Bars[b].start) ELSE 0
<1>1. /\ \A c \in Cpu : pc[c] = "guest"
      /\ \A b \in Bar : base[b] = IF b + Len(E820) <= boot.done THEN BarBase(b, Bars[b].start) ELSE 0
  BY DEF EptInv, BootInv
<1>2. lock \notin Cpu
  BY <1>1 DEF EptInv, BarInv
<1> QED BY <1>1, <1>2 DEF EptInv, BarInv

\* One e820 entry: its pages are free when they are mapped.
LEMMA E820Step == ASSUME EptInv, MapE820Entry PROVE EptInv' /\ MapStep(tbl, tbl')
<1> DEFINE i == boot.done + 1
           e == E820[i]
           fits == boot.left >= e.len /\ (e.ram \/ e.base < Low1M)
<1>1. UNCHANGED <<base, lock, job, pc, gpa, pgentry, hpa>> /\ boot.done < Len(E820)
  BY DEF MapE820Entry
<1>2. boot.done \in Nat /\ boot.hpa \in Nat /\ boot.left \in Nat /\ boot.left <= MemSize
  BY DEF EptInv, BootInv
<1>3. i \in DOMAIN E820 /\ e.len \in Nat /\ e.base \in Nat /\ ~Booted /\ Len(E820) \in Nat /\ Len(Bars) \in Nat
  BY <1>1, <1>2, Config DEF Booted
<1>4. \/ e.len = 0 /\ tbl' = tbl /\ boot' = [boot EXCEPT !.done = Len(E820)]
      \/ e.len # 0 /\ ~fits /\ tbl' = tbl /\ boot' = [boot EXCEPT !.done = @ + 1]
      \/ /\ e.len # 0 /\ fits
         /\ tbl' = ept_add_mr(tbl, boot.hpa, e.base, e.len, RamArg(e))
         /\ boot' = [done |-> boot.done + 1, hpa |-> boot.hpa + e.len, left |-> boot.left - e.len]
  BY DEF MapE820Entry, RamArg
<1>5. lock = NoCpu /\ (\A c \in Cpu : pc[c] = "guest") /\ \A b \in Bar : base[b] = 0
  <2>1. \A b \in Bar : ~(b + Len(E820) <= boot.done)
    BY <1>1, <1>2, <1>3, Config
  <2> QED BY <1>3, <2>1, Booting
<1>6. /\ boot' \in [done : Nat, hpa : Nat, left : Nat] /\ boot'.left <= MemSize
      /\ boot'.done \in {boot.done + 1, Len(E820)} /\ boot'.done <= Len(E820)
  <2>1. boot \in [done : Nat, hpa : Nat, left : Nat] /\ MemSize \in Nat
    BY EptAssumption DEF EptInv, BootInv
  <2> DEFINE E == Len(E820)
             len == e.len
  <2>2. boot.done < E /\ E \in Nat /\ len \in Nat
    BY <1>1, <1>3
  <2>3. \/ boot' = [boot EXCEPT !.done = E]
        \/ boot' = [boot EXCEPT !.done = @ + 1]
        \/ boot' = [done |-> boot.done + 1, hpa |-> boot.hpa + len, left |-> boot.left - len] /\ boot.left >= len
    BY <1>4
  <2> HIDE DEF e, i, E, len
  <2>4. /\ boot' \in [done : Nat, hpa : Nat, left : Nat] /\ boot'.left <= MemSize
        /\ boot'.done \in {boot.done + 1, E} /\ boot'.done <= E
    <3>1. CASE boot' = [boot EXCEPT !.done = E]
      BY <1>2, <2>1, <2>2, <3>1
    <3>2. CASE boot' = [boot EXCEPT !.done = @ + 1]
      BY <1>2, <2>1, <2>2, <3>2
    <3>3. CASE boot' = [done |-> boot.done + 1, hpa |-> boot.hpa + len, left |-> boot.left - len] /\ boot.left >= len
      BY <1>2, <2>1, <2>2, <3>3
    <3> QED BY <2>3, <3>1, <3>2, <3>3
  <2> QED BY <2>4 DEF E
\* The pages of an entry that is mapped were free.
<1>7. ASSUME e.len # 0, fits
      PROVE  /\ Typed(tbl') /\ WbOutside(tbl') /\ Mappable(e) /\ Span(e) \subseteq Page \ Window
             /\ \A x \in Span(e) : View(tbl, x) = None
             /\ \A x \in Page : View(tbl', x) = IF x \in Span(e)
                                                THEN Leaf(boot.hpa + x - e.base, VisibleProt(RamProt(e))) ELSE View(tbl, x)
  <2>1. Mappable(e)
    <3>1. MemSize \in Nat
      BY EptAssumption
    <3>2. e.len <= MemSize
      BY <1>2, <1>3, <1>7, <3>1
    <3> QED BY <1>7, <3>2 DEF Mappable
  <2>2. tbl' = ept_add_mr(tbl, boot.hpa, e.base, e.len, RamArg(e))
    BY <1>4, <1>7
  <2>3. Span(e) \subseteq Page
    BY <1>3, <2>1, EptConfiguration DEF Span
  <2>4. ASSUME NEW x \in Span(e), View(tbl, x) # None PROVE FALSE
    <3>1. PICK j \in DOMAIN E820 : j <= boot.done /\ Mappable(E820[j]) /\ x \in Span(E820[j])
      BY <1>1, <2>3, <2>4 DEF EptInv, BootInv
    <3>2. j # i
      BY <1>2, <3>1, Config
    <3>3. Span(E820[i]) \cap Span(E820[j]) = {}
      BY <1>3, <2>1, <3>1, <3>2, EptConfiguration
    <3> QED BY <2>4, <3>1, <3>3
  <2>5. /\ Typed(tbl') /\ WbOutside(tbl') /\ Span(e) \subseteq Page \ Window
        /\ \A x \in Page : View(tbl', x) = IF x \in Span(e)
                                           THEN Leaf(boot.hpa + x - e.base, VisibleProt(RamProt(e))) ELSE View(tbl, x)
    <3>1. Typed(tbl) /\ WbOutside(tbl)
      BY DEF EptInv
    <3>2. e = E820[i]
      OBVIOUS
    <3> HIDE DEF e, i, fits
    <3>3. PICK k \in DOMAIN E820, h \in Nat, f \in {e} : k = i /\ f = e /\ h = boot.hpa
      BY <1>2, <1>3
    <3>4. /\ f = E820[k] /\ Mappable(f)
          /\ tbl' = ept_add_mr(tbl, h, f.base, f.len, RamArg(f))
          /\ \A x \in Span(f) : View(tbl, x) = None
      BY <2>1, <2>2, <2>4, <3>2, <3>3
    <3>5. /\ Typed(tbl') /\ WbOutside(tbl') /\ Span(f) \subseteq Page \ Window
          /\ \A x \in Page : View(tbl', x) = IF x \in Span(f)
                                             THEN Leaf(h + x - f.base, VisibleProt(RamProt(f))) ELSE View(tbl, x)
      BY <3>1, <3>4, RamView
    <3> QED BY <3>3, <3>5
  <2> QED BY <2>1, <2>4, <2>5
<1>8. \/ tbl' = tbl
      \/ e.len # 0 /\ fits
  BY <1>4
<1> HIDE DEF fits
<1>9. Typed(tbl') /\ WbOutside(tbl')
  BY <1>7, <1>8 DEF EptInv
<1>10. BootInv'
  <2>1. \A c \in Cpu : pc'[c] = "guest"
    BY <1>1, <1>5
  <2>2. \A b \in Bar : base'[b] = IF b + Len(E820) <= boot'.done THEN BarBase(b, Bars[b].start) ELSE 0
    <3>1. \A b \in Bar : ~(b + Len(E820) <= boot'.done)
      BY <1>3, <1>6, Config
    <3> QED BY <1>1, <1>5, <3>1
  <2>3. ASSUME boot'.done < Len(E820), NEW v \in Page, View(tbl', v) # None
        PROVE  \E j \in DOMAIN E820 : j <= boot'.done /\ Mappable(E820[j]) /\ v \in Span(E820[j])
    <3>1. boot'.done = i /\ i \in Nat
      BY <1>2, <1>3, <1>6, <2>3
    <3>2. CASE View(tbl', v) = View(tbl, v)
      <4>1. PICK j \in DOMAIN E820 : j <= boot.done /\ Mappable(E820[j]) /\ v \in Span(E820[j])
        BY <1>1, <2>3, <3>2 DEF EptInv, BootInv
      <4>2. j <= boot'.done
        BY <1>2, <3>1, <4>1, Config
      <4> QED BY <4>1, <4>2
    <3>3. CASE View(tbl', v) # View(tbl, v)
      <4>1. Mappable(e) /\ v \in Span(e)
        BY <1>7, <1>8, <3>3
      <4>2. i <= boot'.done
        BY <3>1
      <4> QED BY <1>3, <4>1, <4>2
    <3> QED BY <3>2, <3>3
  <2>4. boot'.done <= Len(E820) + Len(Bars)
    BY <1>3, <1>6
  <2> QED BY <1>6, <2>1, <2>2, <2>3, <2>4 DEF BootInv
<1>11. BarInv'
  BY <1>1 DEF EptInv, BarInv
<1>12. \A x \in Window : View(tbl', x) = View(tbl, x)
  BY <1>7, <1>8, Config
<1>13. WindowInv'
  <2>1. \A d \in Bar : BarPages(d)' = BarPages(d)
    BY <1>1 DEF BarPages
  <2>2. \A v \in Window : View(tbl', v) # None =>
          \E d \in Bar : v \in BarPages(d)' /\ View(tbl', v).pa = Bars[d].hpa + v - base'[d]
    BY <1>1, <1>12, <2>1 DEF EptInv, WindowInv
  <2>3. lock' = NoCpu
    BY <1>1, <1>5
  <2> QED BY <2>2, <2>3 DEF WindowInv
<1>14. FetchInv'
  <2>1. ~TweakExe => \A v \in Page \ Window : View(tbl', v) # None => "X" \in View(tbl', v).prot
    <3> SUFFICES ASSUME ~TweakExe, NEW v \in Page \ Window, View(tbl', v) # None PROVE "X" \in View(tbl', v).prot
      OBVIOUS
    <3>1. CASE View(tbl', v) = View(tbl, v)
      BY <3>1 DEF EptInv, FetchInv
    <3>2. CASE View(tbl', v) # View(tbl, v)
      <4>1. View(tbl', v).prot = VisibleProt(RamProt(e))
        BY <1>7, <1>8, <3>2, EntryFields
      <4> QED BY <4>1 DEF VisibleProt, RamProt, EPT_RWX
    <3> QED BY <3>1, <3>2
  <2> QED BY <1>1, <2>1 DEF EptInv, FetchInv
<1>15. MapStep(tbl, tbl')
  <2>1. CASE tbl' = tbl
    BY <2>1 DEF MapStep, Kept
  <2>2. CASE e.len # 0 /\ fits
    <3>1. Filled(tbl, tbl', e.base, e.len, boot.hpa, VisibleProt(RamProt(e)))
      BY <1>7, <2>2 DEF Filled, Span
    <3>2. e.len \in Nat \ {0}
      BY <1>3, <2>2
    <3> QED BY <1>2, <1>3, <3>1, <3>2 DEF MapStep
  <2> QED BY <1>8, <2>1, <2>2
<1> QED BY <1>9, <1>10, <1>11, <1>13, <1>14, <1>15 DEF EptInv

\* The first mapping of a BAR: its pages are free.
LEMMA InitBarStep == ASSUME EptInv, InitBar PROVE EptInv' /\ MapStep(tbl, tbl')
<1> DEFINE b == boot.done - Len(E820) + 1
           at == BarBase(b, Bars[b].start)
           t == UnmapBar(tbl, b, at)
<1>1. /\ UNCHANGED <<lock, job, pc, gpa, pgentry, hpa>> /\ boot.done \in Len(E820) .. Len(E820) + Len(Bars) - 1
      /\ base' = [base EXCEPT ![b] = at] /\ tbl' = AddBar(t, b, at) /\ boot' = [boot EXCEPT !.done = @ + 1]
  BY DEF InitBar
<1>2. boot \in [done : Nat, hpa : Nat, left : Nat] /\ boot.left <= MemSize
  BY DEF EptInv, BootInv
<1>3. b \in Bar /\ ~Booted /\ Len(E820) \in Nat /\ Len(Bars) \in Nat
  BY <1>1, <1>2, Config DEF Booted
<1>4. Placed(b, at) /\ Bars[b].start \in Nat
  BY <1>3, Config, BarBasePlaced
<1>5. /\ lock = NoCpu /\ (\A c \in Cpu : pc[c] = "guest") /\ base[b] = 0
      /\ \A d \in Bar : base[d] = IF d + Len(E820) <= boot.done THEN BarBase(d, Bars[d].start) ELSE 0
  <2>1. ~(b + Len(E820) <= boot.done)
    BY <1>2, <1>3
  <2> QED BY <1>3, <2>1, Booting
<1>6. BarAt(b, at) \subseteq Window /\ BarAt(b, at) \subseteq Page
  BY <1>3, <1>4, PlacedPages
<1> HIDE DEF at
<1>7. Typed(tbl) /\ WbOutside(tbl) /\ Typed(t) /\ WbOutside(t)
  BY <1>3, <1>4, BarKeeps DEF EptInv
<1>8. \A x \in Page : View(t, x) = IF x \in BarAt(b, at) THEN None ELSE View(tbl, x)
  BY <1>3, <1>4, <1>7, UnmapBarView
<1> HIDE DEF t
<1>9. Typed(tbl') /\ WbOutside(tbl')
  BY <1>1, <1>3, <1>4, <1>6, <1>7, <1>8, AddBarKeeps
<1>10. \A x \in Page : View(tbl', x) = IF x \in BarAt(b, at)
                                       THEN Leaf(Bars[b].hpa + x - at, VisibleProt({"R", "W"})) ELSE View(tbl, x)
  <2>1. \A x \in Page : View(tbl', x) = IF x \in BarAt(b, at)
                                        THEN Leaf(Bars[b].hpa + x - at, VisibleProt({"R", "W"})) ELSE View(t, x)
    BY <1>1, <1>3, <1>4, <1>6, <1>7, <1>8, AddBarView
  <2> QED BY <1>8, <2>1
\* The BARs before it are elsewhere.
<1>11. ASSUME NEW x \in BarAt(b, at) PROVE View(tbl, x) = None
  <2> SUFFICES ASSUME View(tbl, x) # None PROVE FALSE
    OBVIOUS
  <2>1. PICK d \in Bar : x \in BarPages(d)
    BY <1>6, <1>11 DEF EptInv, WindowInv
  <2>2. base[d] # 0 /\ x \in base[d] .. base[d] + Bars[d].size - 1
    BY <2>1 DEF BarPages
  <2>3. d # b /\ base[d] = BarBase(d, Bars[d].start)
    BY <1>5, <2>2
  <2>4. at # 0 /\ x \in at .. at + Bars[b].size - 1
    BY <1>11 DEF BarAt
  <2>5. base[d] + Bars[d].size <= at \/ at + Bars[b].size <= base[d]
    <3> HIDE DEF b
    <3> QED BY <1>3, <2>2, <2>3, <2>4, EptConfiguration DEF at
  <2>6. base[d] \in Nat /\ Bars[d].size \in Nat /\ at \in Nat /\ Bars[b].size \in Nat
    BY <1>3, <1>4, Config DEF EptInv, BarInv, Placed
  <2> HIDE DEF b
  <2> QED BY <2>2, <2>4, <2>5, <2>6
<1>12. base' \in [Bar -> Nat] /\ base'[b] = at /\ \A d \in Bar \ {b} : base'[d] = base[d]
  BY <1>1, <1>3, <1>4 DEF EptInv, BarInv, Placed
<1>13. BootInv'
  <2>1. boot' \in [done : Nat, hpa : Nat, left : Nat] /\ boot'.left <= MemSize /\ boot'.done = boot.done + 1
    BY <1>1, <1>2
  <2>2. boot'.done <= Len(E820) + Len(Bars) /\ ~(boot'.done < Len(E820))
    BY <1>1, <1>2, <1>3, <2>1
  <2>3. \A d \in Bar : base'[d] = IF d + Len(E820) <= boot'.done THEN BarBase(d, Bars[d].start) ELSE 0
    <3> SUFFICES ASSUME NEW d \in Bar
                 PROVE  base'[d] = IF d + Len(E820) <= boot'.done THEN BarBase(d, Bars[d].start) ELSE 0
      OBVIOUS
    <3>1. CASE d = b
      <4>1. b + Len(E820) <= boot'.done
        BY <1>2, <1>3, <2>1
      <4> QED BY <1>12, <3>1, <4>1 DEF at
    <3>2. CASE d # b
      <4>1. d + Len(E820) <= boot'.done <=> d + Len(E820) <= boot.done
        BY <1>2, <1>3, <2>1, <3>2, Config
      <4> QED BY <1>5, <1>12, <3>2, <4>1
    <3> QED BY <3>1, <3>2
  <2>4. \A c \in Cpu : pc'[c] = "guest"
    BY <1>1, <1>5
  <2> QED BY <2>1, <2>2, <2>3, <2>4 DEF BootInv
<1> HIDE DEF b
<1>14. BarInv'
  <2>1. \A d \in Bar : Placed(d, base'[d])
    BY <1>4, <1>12 DEF EptInv, BarInv
  <2> QED BY <1>1, <1>12, <2>1 DEF EptInv, BarInv
<1>15. WindowInv'
  <2>1. \A d \in Bar : BarPages(d)' = IF d = b THEN BarAt(b, at) ELSE BarPages(d)
    BY <1>3, <1>12 DEF BarPages, BarAt
  <2>2. ASSUME NEW v \in Window, View(tbl', v) # None
        PROVE  \E d \in Bar : v \in BarPages(d)' /\ View(tbl', v).pa = Bars[d].hpa + v - base'[d]
    <3>1. CASE v \in BarAt(b, at)
      <4>1. View(tbl', v).pa = Bars[b].hpa + v - at
        BY <1>6, <1>10, <3>1, EntryFields
      <4>2. PICK d \in Bar : d = b
        BY <1>3
      <4>3. v \in BarPages(d)' /\ View(tbl', v).pa = Bars[d].hpa + v - base'[d]
        BY <1>12, <2>1, <3>1, <4>1, <4>2
      <4> QED BY <4>3
    <3>2. CASE v \notin BarAt(b, at)
      <4>1. View(tbl', v) = View(tbl, v)
        BY <1>10, <3>2, Config
      <4>2. PICK d \in Bar : v \in BarPages(d) /\ View(tbl, v).pa = Bars[d].hpa + v - base[d]
        BY <2>2, <4>1 DEF EptInv, WindowInv
      <4>3. d # b
        BY <1>5, <4>2 DEF BarPages
      <4> QED BY <1>12, <2>1, <4>1, <4>2, <4>3
    <3> QED BY <3>1, <3>2
  <2>3. lock' = NoCpu
    BY <1>1, <1>5
  <2> QED BY <2>2, <2>3 DEF WindowInv
<1>16. FetchInv'
  <2>1. \A v \in Page \ Window : View(tbl', v) = View(tbl, v)
    BY <1>6, <1>10
  <2> QED BY <1>1, <2>1 DEF EptInv, FetchInv
<1>17. MapStep(tbl, tbl')
  <2>1. CASE at = 0
    <3>1. Kept(tbl, tbl')
      BY <1>10, <2>1 DEF Kept, BarAt
    <3> QED BY <3>1 DEF MapStep
  <2>2. CASE at # 0
    <3>1. BarAt(b, at) = at .. at + Bars[b].size - 1
      BY <2>2 DEF BarAt
    <3>2. Filled(tbl, tbl', at, Bars[b].size, Bars[b].hpa, VisibleProt({"R", "W"}))
      BY <1>6, <1>10, <1>11, <3>1 DEF Filled
    <3>3. at \in Nat /\ Bars[b].size \in Nat \ {0} /\ Bars[b].hpa \in Nat
      BY <1>3, <1>4, Config DEF Placed
    <3> QED BY <3>2, <3>3 DEF MapStep
  <2> QED BY <2>1, <2>2
<1> QED BY <1>9, <1>13, <1>14, <1>15, <1>16, <1>17 DEF EptInv

-----------------------------------------------------------------------------
\* The invariant holds when create_vm begins ...
LEMMA EptInit == Init => EptInv
<1> SUFFICES ASSUME Init PROVE EptInv
  OBVIOUS
<1>1. \A n \in Node : tbl[n] = None
  BY DEF Init, EmptyTable
<1>2. \A x \in Page : View(tbl, x) = None
  <2> TAKE x \in Page
  <2>1. \A l \in 1 .. 3 : tbl[At(l, x)].kind = "none"
    BY <1>1, Levels, EntryFields
  <2>2. Unmapped(tbl, x)
    BY <2>1 DEF Unmapped, MapsAt
  <2> QED BY <2>2, ViewWalk
<1>3. Typed(tbl) /\ WbOutside(tbl)
  BY <1>1, EntryFields DEF Typed, WbOutside, EPT_WB
<1>4. boot = [done |-> 0, hpa |-> StartHpa, left |-> MemSize] /\ StartHpa \in Nat /\ MemSize \in Nat
  BY EptAssumption DEF Init
<1>5. base \in [Bar -> Nat] /\ (\A b \in Bar : base[b] = 0) /\ lock = NoCpu /\ pc = [c \in Cpu |-> "guest"]
  BY DEF Init
<1>6. BootInv
  <2>1. boot \in [done : Nat, hpa : Nat, left : Nat] /\ boot.done = 0 /\ boot.left <= MemSize
    BY <1>4
  <2>2. \A b \in Bar : ~(b + Len(E820) <= 0)
    BY Config
  <2>3. 0 <= Len(E820) + Len(Bars)
    BY Config
  <2> QED BY <1>2, <1>5, <2>1, <2>2, <2>3 DEF BootInv
<1>7. BarInv
  <2>1. \A b \in Bar : Placed(b, 0)
    BY DEF Placed
  <2>2. \A c \in Cpu : c # NoCpu
    BY EptAssumption
  <2> QED BY <1>5, <2>1, <2>2 DEF BarInv, Pcs
<1>8. WindowInv
  BY <1>2, <1>5, Config DEF WindowInv
<1>9. FetchInv
  <2>1. 0 \in Page
    BY Config DEF Page
  <2>2. gpa \in [Cpu -> Page] /\ pgentry \in [Cpu -> Node \cup {NULL}]
    BY <2>1 DEF Init
  <2> QED BY <1>2, <1>5, <2>2 DEF FetchInv
<1> QED BY <1>3, <1>6, <1>7, <1>8, <1>9 DEF EptInv

\* ... and every step keeps it.
LEMMA EptNext == EptInv /\ [Next]_vars => EptInv' /\ MapStep(tbl, tbl')
<1> SUFFICES ASSUME EptInv, [Next]_vars PROVE EptInv' /\ MapStep(tbl, tbl')
  OBVIOUS
<1>1. CASE UNCHANGED vars
  <2>1. /\ tbl' = tbl /\ boot' = boot /\ base' = base /\ lock' = lock /\ job' = job
        /\ pc' = pc /\ gpa' = gpa /\ pgentry' = pgentry
    BY <1>1 DEF vars
  <2>2. Typed(tbl') /\ WbOutside(tbl') /\ MapStep(tbl, tbl')
    BY <2>1 DEF EptInv, MapStep, Kept
  <2>3. BootInv'
    BY <2>1 DEF EptInv, BootInv, Booted
  <2>4. BarInv'
    BY <2>1 DEF EptInv, BarInv
  <2>5. WindowInv'
    BY <2>1 DEF EptInv, WindowInv, BarPages
  <2>6. FetchInv'
    BY <2>1 DEF EptInv, FetchInv
  <2> QED BY <2>2, <2>3, <2>4, <2>5, <2>6 DEF EptInv
<1>2. CASE MapE820Entry
  BY <1>2, E820Step
<1>3. CASE InitBar
  BY <1>3, InitBarStep
<1>4. ASSUME NEW c \in Cpu, BarUnmap(c) PROVE EptInv' /\ MapStep(tbl, tbl')
  BY <1>4, BarUnmapStep DEF MapStep
<1>5. ASSUME NEW c \in Cpu, BarWrite(c) PROVE EptInv' /\ MapStep(tbl, tbl')
  BY <1>5, BarWriteStep DEF MapStep
<1>6. ASSUME NEW c \in Cpu, BarMap(c) PROVE EptInv' /\ MapStep(tbl, tbl')
  BY <1>6, BarMapStep
<1>7. ASSUME NEW c \in Cpu, FetchModify(c) PROVE EptInv' /\ MapStep(tbl, tbl')
  BY <1>7, ModifyStep DEF MapStep
<1>8. ASSUME NEW c \in Cpu, \/ FetchExit(c) \/ FetchLookup(c) \/ FetchDeref(c) \/ FetchFault(c)
                            \/ CopyLookup(c) \/ CopyDeref(c) \/ CopyDone(c)
      PROVE  EptInv' /\ MapStep(tbl, tbl')
  BY <1>8, ReadSteps DEF MapStep
<1> QED BY <1>1, <1>2, <1>3, <1>4, <1>5, <1>6, <1>7, <1>8 DEF Next, VmExit

\* The inductive invariant of the EPT, for any table size, address space, e820
\* table and BARs that do not overlap as configured, and any number of vCPUs.
THEOREM EptInvariance == Spec => []EptInv
  BY EptInit, EptNext, PTL DEF Spec

\* Between two writes to BARs the guest reaches a device at a page of the window
\* only through a BAR that is at that page now, and mmu_add is called for unmapped
\* pages only, whatever BARs overlap meanwhile (vdev_pt_write_vbar).
THEOREM WindowShowsBars == Spec => []WindowOnlyBars
<1>1. EptInv => WindowOnlyBars
  <2> SUFFICES ASSUME EptInv PROVE WindowOnlyBars
    OBVIOUS
  <2>1. ASSUME NEW v \in Window, Mapped(tbl, v)
        PROVE  \E b \in Bar : v \in BarPages(b) /\ Translate(tbl, v).pa = Bars[b].hpa + v - base[b]
    <3>1. v \in Page
      BY Config
    <3>2. View(tbl, v) # None /\ View(tbl, v).pa = Translate(tbl, v).pa
      BY <2>1, <3>1, ViewWalk
    <3> QED BY <3>2 DEF EptInv, WindowInv
  <2>2. ASSUME lock # NoCpu, pc[lock] = "map_bar", job.new # 0,
               NEW v \in job.new .. job.new + Bars[job.bar].size - 1
        PROVE  ~Mapped(tbl, v)
    <3>1. base[job.bar] = job.new /\ job.bar \in Bar /\ Placed(job.bar, job.new)
      BY <2>2 DEF EptInv, WindowInv, BarInv
    <3>2. v \in BarPages(job.bar) /\ v \in BarAt(job.bar, job.new)
      BY <2>2, <3>1 DEF BarPages, BarAt
    <3>3. v \in Page /\ View(tbl, v) = None
      BY <2>2, <3>1, <3>2, PlacedPages DEF EptInv, WindowInv
    <3> QED BY <3>3, ViewWalk
  <2> QED BY <2>1, <2>2 DEF WindowOnlyBars, Window
<1> QED BY <1>1, EptInvariance, PTL

-----------------------------------------------------------------------------
(***************************************************************************)
(* The refinement of the flat map.                                         *)
(***************************************************************************)
\* The flat map holds the view of every page.
LEMMA FlatViews ==
    /\ DOMAIN FlatView = Page /\ \A x \in Page : FlatView[x] = View(tbl, x)
    /\ DOMAIN FlatView' = Page /\ \A x \in Page : FlatView'[x] = View(tbl', x)
  BY DEF FlatView, View

\* A step of the invariant's three kinds is a step of the flat map.
LEMMA FlatStep == MapStep(tbl, tbl') => Flat!Next
<1> SUFFICES ASSUME MapStep(tbl, tbl') PROVE Flat!Next
  OBVIOUS
<1> DEFINE old == FlatView
           new == FlatView'
           changed == {v \in Page : new[v] # old[v]}
<1>1. DOMAIN new = Page /\ \A x \in Page : old[x] = View(tbl, x) /\ new[x] = View(tbl', x)
  BY FlatViews
<1> HIDE DEF old, new
<1>2. CASE Kept(tbl, tbl')
  <2>1. changed = {}
    BY <1>1, <1>2 DEF Kept
  <2>2. Flat!Del(changed, new)
    BY <2>1 DEF Flat!Del
  <2> QED BY <1>1, <2>2 DEF Flat!Next, old, new
<1>3. ASSUME NEW r, Freed(tbl, tbl', r) PROVE Flat!Next
  <2>1. \A v \in changed : new[v] = None
    BY <1>1, <1>3 DEF Freed
  <2>2. Flat!Del(changed, new)
    BY <2>1 DEF Flat!Del
  <2> QED BY <1>1, <2>2 DEF Flat!Next, old, new
<1>4. ASSUME NEW low \in Nat, NEW cnt \in Nat \ {0}, NEW pa \in Nat, NEW prot, Filled(tbl, tbl', low, cnt, pa, prot)
      PROVE  Flat!Next
  <2> DEFINE range == low .. low + cnt - 1
             high == low + cnt - 1
  <2>1. /\ range \subseteq Page
        /\ \A x \in range : old[x] = None /\ new[x] = Leaf(pa + x - low, prot)
        /\ \A x \in Page \ range : new[x] = old[x]
    BY <1>1, <1>4 DEF Filled
  <2>2. \A x \in range : new[x] # old[x]
    <3>1. \A x \in range : new[x].kind = "leaf" /\ old[x].kind = "none"
      BY <2>1, EntryFields
    <3> QED BY <3>1
  <2>3. changed = range
    BY <2>1, <2>2
  <2>4. low \in range /\ high \in range /\ range = low .. high
    OBVIOUS
  <2>5. new[low] = Leaf(pa, prot)
    <3>1. new[low] = Leaf(pa + low - low, prot) /\ pa + low - low = pa
      BY <2>1, <2>4
    <3> QED BY <3>1
  <2>6. ASSUME NEW v \in range PROVE new[v] = [new[low] EXCEPT !.pa = @ + v - low]
    <3>1. new[v] = Leaf(pa + v - low, prot)
      BY <2>1
    <3>2. [Leaf(pa, prot) EXCEPT !.pa = @ + v - low] = Leaf(pa + v - low, prot)
      BY DEF Leaf
    <3> QED BY <2>5, <3>1, <3>2
  <2> HIDE DEF range, high
  <2>7. Flat!Add(range, old, new)
    BY <2>1, <2>4, <2>6 DEF Flat!Add
  <2> HIDE DEF changed
  <2>8. Flat!Add(changed, old, new)
    BY <2>3, <2>7
  <2> QED BY <1>1, <2>8 DEF Flat!Next, old, new, changed
<1> QED BY <1>2, <1>3, <1>4 DEF MapStep

\* The paging structures implement a flat map: splitting and choosing large pages
\* and reusing the pages of tables never change what any guest page is mapped to,
\* except for the range that ept_add_mr or ept_del_mr is called for, which is free
\* or becomes free as a whole; ept_modify_mr changes no visible right (ept.c).
THEOREM EptImplementsFlatMap == Spec => ImplementsFlatMap
<1>1. Init => Flat!Init
  <2> SUFFICES ASSUME Init PROVE FlatView = [v \in Page |-> None]
    BY DEF Flat!Init
  <2>1. \A n \in Node : tbl[n] = None
    BY DEF Init, EmptyTable
  <2>2. ASSUME NEW x \in Page PROVE View(tbl, x) = None
    <3>1. \A l \in 1 .. 3 : tbl[At(l, x)].kind = "none"
      BY <2>1, Levels, EntryFields
    <3>2. Unmapped(tbl, x)
      BY <3>1 DEF Unmapped, MapsAt
    <3> QED BY <3>2, ViewWalk
  <2> QED BY <2>2 DEF FlatView, View
<1>2. EptInv /\ [Next]_vars => [Flat!Next]_FlatView
  BY EptNext, FlatStep
<1> QED BY <1>1, <1>2, EptInvariance, PTL DEF Spec, ImplementsFlatMap, Flat!Spec
-----------------------------------------------------------------------------
(***************************************************************************)
(* The host's memory.  Where the pCPUs are, and what does not change.      *)
(***************************************************************************)
BSP == stage[BOOT_CPU_ID]
SetUpStages == {"enable", "uart", "interrupt", "iommu", "start_pcpus"}
Early == {"e820", "add", "low", "high", "image", "text", "guards"} \cup SetUpStages
Late == {"smep", "smap", "vmx_on", "create", "vacpi", "gdt", "kernel", "bootargs", "prepare",
         "started", "guest", "exit"}

\* The other pCPUs are offline until the BSP has started them all.
OrderInv ==
    /\ stage \in [Pcpu -> Early \cup Late \cup {"panic", "offline"}]
    /\ BSP # "offline"
    /\ BSP \in Late => \A c \in Pcpu : stage[c] \in Late
    /\ BSP \notin Late => \A c \in Pcpu \ {BOOT_CPU_ID} : stage[c] = "offline"
    /\ mbi \in Boots
    /\ BSP \notin {"e820", "panic"} => mbi.magic /\ mbi.has_mmap /\ hv_e820 = init_e820(mbi.mmap)

\* The image, its code and the guard pages.
GuardPages == UNION {g .. g + Fan - 1 : g \in Guards}
ImageInv ==
    /\ image.hv_hpa \in Images
    /\ image.text_end \in image.hv_hpa + 1 .. image.hv_hpa + HvRam
    /\ \A g \in Guards : PdeUp(image.text_end) <= g /\ g + Fan <= image.hv_hpa + HvRam

\* What init_paging has done when it is at a stage.
AddDone == SetUpStages \cup Late \cup {"low", "high", "image", "text", "guards"}
WbDone == SetUpStages \cup Late \cup {"text", "guards"}
TextDone == SetUpStages \cup Late \cup {"guards"}
DelDone == SetUpStages \cup Late
UartDone == Late \cup {"interrupt", "iommu", "start_pcpus"}
DrhdDone == Late \cup {"start_pcpus"}

\* The structure of the tables, and for each page its entry.
NoTables(t) == \A n \in Node : n[1] = 2 => t[n].kind # "table"
PageAs(p, e, x, top, text, img) ==
    /\ p \in AddDone =>
         /\ x < top /\ ~(p \in DelDone /\ x \in GuardPages) => e.kind = "leaf" /\ e.pa = x /\ "P" \in e.prot
         /\ e # None /\ x \notin text => "NX" \in e.prot
    /\ p \in WbDone /\ x \in img /\ e # None => "WB" \in e.prot /\ "USER" \notin e.prot
    /\ p \in TextDone /\ x \in text /\ e # None => "NX" \notin e.prot
    /\ p \in DelDone /\ x \in GuardPages => e = None
    /\ p \in UartDone /\ x \in Devices \ Drhds => "USER" \notin e.prot
    /\ p \in DrhdDone /\ x \in Devices => "USER" \notin e.prot
PageInv(x) == PageAs(BSP, View(ppt, x), x, high64_max_ram, TextRange, ImageRange)

PagingInv ==
    /\ Typed(ppt) /\ NoTables(ppt)
    /\ BSP \in {"e820", "add"} => ppt = EmptyTable
    /\ BSP \in AddDone => FourG <= high64_max_ram /\ high64_max_ram <= Top
    /\ \A x \in Page : PageInv(x)

\* What a pCPU at stage p has set up, and what its VMCS has.
Base == enable_paging(BeginPost({"x2APIC", "IDTR"}))
HostBase == (Base \ {"x2APIC"}) \cup {"CR4.SMEP", "CR4.SMAP"} \cup vmx_on({})
CpuAs(p, s, h) ==
    /\ "#GP" \notin s /\ "#GP" \notin h
    /\ "CR4.SMAP" \in s => p \in Late \ {"smep", "smap"}
    /\ p \in {"uart", "interrupt", "iommu", "start_pcpus"} => enable_paging({}) \subseteq s
    /\ p \in {"interrupt", "iommu", "start_pcpus"} => BeginPost({"x2APIC"}) \subseteq s
    /\ p \in {"iommu", "start_pcpus"} => "IDTR" \in s
    /\ p \in Late \ {"guest"} => Base \subseteq s
    /\ p \in Late \ {"smep", "guest"} => "CR4.SMEP" \in s
    /\ p \in Late \ {"smep", "smap", "guest"} => "CR4.SMAP" \in s
    /\ p \in Late \ {"smep", "smap", "vmx_on", "guest"} => vmx_on({}) \subseteq s
    /\ p = "guest" => "x2APIC" \in s /\ HostBase \subseteq h
CpuInv ==
    /\ cpu = [c \in Pcpu |-> cpu[c]] /\ host = [c \in Pcpu |-> host[c]]
    /\ \A c \in Pcpu : CpuAs(stage[c], cpu[c], host[c])
    /\ BSP \in Late \ {"smep"} => stale = {}

\* What is accessed is memory outside of the image, between stac and clac.
AccessInv ==
    /\ access = [c \in Pcpu |-> access[c]]
    /\ \A c \in Pcpu : \A p \in access[c].pages :
         access[c].ac = TRUE /\ BSP \in Late /\ p \in Outside /\ p < high64_max_ram

\* A guest at stage p: f is its configuration, m its module, z its memory map, and s, g,
\* k and r are its part of sw, gmem, cksum and regs.
LoadAt(f) == IF f.type = "BZIMAGE" THEN f.pref_addr ELSE f.load_addr
SwAs(f, m) == [load |-> LoadAt(f), size |-> m.size, bootargs |-> IF f.bootargs > 0 THEN LoadAt(f) - 2 ELSE 0]
Before == Early \cup {"panic", "offline", "smep", "smap", "vmx_on", "create"}
Loading == {"gdt", "kernel", "bootargs", "prepare", "started"}
GuestAs(p, f, m, z, s, g, k, r) ==
    LET load == LoadAt(f)
        end == load + m.size
    IN  /\ p \in Loading \cup {"vacpi"} => s = SwAs(f, m)
        /\ p \in Before \cup {"vacpi"} /\ ~f.safety => k = FALSE
        /\ p \in Loading /\ ~f.safety => g[ACPI_BASE] = <<"acpi", 0>>
        /\ p \in Loading \ {"gdt"} => r.gdt = end /\ g[end] = <<"gdt", 0>>
        /\ p \in Loading \ {"gdt", "kernel"} => \A x \in load .. end - 1 : g[x] = <<m.tag, 0>>
        /\ p \in {"prepare", "started"} /\ f.bootargs > 0 => g[load - 2] = <<"bootargs", 0>>
        /\ p = "started" => r.rip \in load .. end - 1
        /\ p = "started" /\ f.type = "BZIMAGE" => g[r.rsi] = <<"zero_page", s.bootargs, z>>
GuestInv(v) ==
    GuestAs(stage[v], config[v], TagModule(v), create_zeropage_e820(v), sw[v], gmem[v], cksum[v], regs[v])

SwSet == [load : Int, size : Int, bootargs : Int]
RegSet == [rip : Int, rsi : Int, gdt : Int]
GuestsInv ==
    /\ \A v \in Vm : config[v] \in Configs[v]
    /\ sw \in [Vm -> SwSet] /\ regs \in [Vm -> RegSet] /\ cksum \in [Vm -> BOOLEAN]
    /\ gmem = [v \in Vm |-> gmem[v]] /\ \A v \in Vm : DOMAIN gmem[v] = 0 .. config[v].size - 1
    /\ \A v \in Vm : GuestInv(v)
    /\ unmasked \subseteq Ioapics \X (0 .. MaxRte)
    /\ BSP \in Late \cup {"iommu", "start_pcpus"} => unmasked = {}
-----------------------------------------------------------------------------
(***************************************************************************)
(* Numbers: the least and the greatest of a set.                           *)
(***************************************************************************)
NatLess == {p \in Nat \X Nat : p[1] < p[2]}

\* There is no infinite descent in the natural numbers.
LEMMA NatWellFounded == IsWellFoundedOn(NatLess, Nat)
<1> SUFFICES ASSUME NEW f \in [Nat -> Nat], \A n \in Nat : f[n + 1] < f[n] PROVE FALSE
  BY DEF IsWellFoundedOn, NatLess
<1> QED
  BY NatLessThanWellFounded DEF IsWellFoundedOn, OpToRel

\* A set of natural numbers has a least one: the induction that the proofs need.
LEMMA LeastNat == ASSUME NEW T, T \subseteq Nat, T # {} PROVE \E x \in T : \A y \in T : x <= y
<1>1. PICK x \in T : \A y \in T : ~(<<y, x>> \in NatLess)
  BY NatWellFounded, WFMin
<1>2. ASSUME NEW y \in T PROVE x <= y
  <2>1. ~(<<y, x>> \in NatLess) /\ x \in Nat /\ y \in Nat
    BY <1>1
  <2>2. ~(y < x)
    BY <2>1 DEF NatLess
  <2> QED BY <2>1, <2>2
<1> QED BY <1>2

\* Finitely many natural numbers have a bound.
LEMMA Bounded == ASSUME NEW n \in Nat, NEW f \in [1 .. n -> Nat] PROVE \E b \in Nat : \A i \in 1 .. n : f[i] <= b
<1> DEFINE Bound(k) == \E b \in Nat : \A i \in 1 .. k : f[i] <= b
           Bad == {k \in Nat : k <= n /\ ~Bound(k)}
<1> SUFFICES ASSUME n \in Bad PROVE FALSE
  OBVIOUS
<1>1. Bad \subseteq Nat /\ Bad # {}
  OBVIOUS
<1>2. PICK k \in Bad : \A y \in Bad : k <= y
  BY <1>1, LeastNat
<1>3. Bound(0)
  <2>1. \A i \in 1 .. 0 : f[i] <= 0
    OBVIOUS
  <2> QED BY <2>1
<1>4. k \in Nat /\ k <= n /\ ~Bound(k)
  OBVIOUS
<1>5. k # 0
  BY <1>3, <1>4
<1>6. k - 1 \in Nat /\ k - 1 <= n /\ k \in 1 .. n
  BY <1>4, <1>5
<1>7. k - 1 \notin Bad
  <2> HIDE DEF Bad
  <2>1. k - 1 \in Bad => k <= k - 1
    BY <1>2
  <2> QED BY <1>4, <2>1
<1>8. PICK b \in Nat : \A i \in 1 .. k - 1 : f[i] <= b
  BY <1>6, <1>7
<1>9. f[k] \in Nat
  BY <1>6
<1> HIDE DEF Bad
<1>10. \A i \in 1 .. k : f[i] <= b + f[k]
  <2> SUFFICES ASSUME NEW i \in 1 .. k PROVE f[i] <= b + f[k]
    OBVIOUS
  <2>1. f[i] \in Nat /\ (i = k \/ i \in 1 .. k - 1)
    BY <1>4, <1>6
  <2> QED BY <1>8, <1>9, <2>1
<1>11. b + f[k] \in Nat
  BY <1>9
<1> QED BY <1>4, <1>10, <1>11

\* A bounded set of natural numbers has a greatest one, and Max is it.
LEMMA MaxNat ==
    ASSUME NEW T, T \subseteq Nat, T # {}, NEW b \in Nat, \A x \in T : x <= b
    PROVE  Max(T) \in T /\ \A y \in T : y <= Max(T)
<1> DEFINE U == {k \in Nat : \E x \in T : k = b - x}
<1>1. \A x \in T : x \in Nat /\ b - x \in Nat
  OBVIOUS
<1>2. U \subseteq Nat /\ U # {}
  <2>1. PICK x \in T : TRUE
    OBVIOUS
  <2>2. b - x \in U
    BY <1>1
  <2> QED BY <2>2
<1>3. PICK k \in U : \A j \in U : k <= j
  BY <1>2, LeastNat
<1>4. PICK x \in T : k = b - x
  BY <1>3
<1>5. ASSUME NEW y \in T PROVE x >= y
  <2>1. b - y \in U /\ x \in Nat /\ y \in Nat
    BY <1>1
  <2> QED BY <1>3, <1>4, <2>1
<1>6. Max(T) \in T /\ \A y \in T : Max(T) >= y
  BY <1>5 DEF Max
<1>7. Max(T) \in Nat
  BY <1>6
<1> QED BY <1>6, <1>7

\* Min of a set of natural numbers is its least one.
LEMMA MinNat == ASSUME NEW T, T \subseteq Nat, T # {} PROVE Min(T) \in T /\ \A y \in T : Min(T) <= y
  BY LeastNat DEF Min

-----------------------------------------------------------------------------
(***************************************************************************)
(* Ranges of whole PDEs.                                                   *)
(***************************************************************************)
\* Entries of level 2 are in such a set of pages or out of it.
Whole(r) == \A n \in Node : n[1] = 2 => ~Cuts(r, n)
Multiple(a) == \E i \in Nat : a = i * Fan

\* Rounding to PDEs.
LEMMA Rounding ==
    ASSUME NEW v \in Nat
    PROVE  /\ PdeDown(v) \in Nat /\ PdeDown(v) <= v /\ v < PdeDown(v) + Fan /\ Multiple(PdeDown(v))
           /\ PdeUp(v) \in Nat /\ v <= PdeUp(v) /\ PdeUp(v) < v + Fan /\ Multiple(PdeUp(v))
<1>1. Fan \in Nat \ {0} /\ v + Fan - 1 \in Nat
  BY PageTableAssumption
<1>2. ASSUME NEW w \in Nat
      PROVE  PdeDown(w) \in Nat /\ PdeDown(w) <= w /\ w < PdeDown(w) + Fan /\ Multiple(PdeDown(w))
  <2>1. w \div Fan \in Nat /\ (w \div Fan) * Fan <= w /\ w < (w \div Fan) * Fan + Fan
    BY <1>1, DivBounds
  <2> QED BY <1>1, <2>1 DEF PdeDown, Multiple
<1>3. /\ PdeUp(v) \in Nat /\ PdeUp(v) <= v + Fan - 1 /\ v + Fan - 1 < PdeUp(v) + Fan
      /\ Multiple(PdeUp(v))
  BY <1>1, <1>2 DEF PdeUp
<1> QED BY <1>1, <1>2, <1>3

\* Multiples that are ordered are one divisor apart.
LEMMA NextMultiple ==
    ASSUME NEW s \in Nat, NEW i \in Nat, NEW j \in Nat, i < j
    PROVE  i * s + s <= j * s
<1>1. j - i - 1 \in Nat /\ j = i + 1 + (j - i - 1)
  OBVIOUS
<1>2. j * s = i * s + s + (j - i - 1) * s /\ (j - i - 1) * s \in Nat /\ i * s \in Nat
  BY <1>1
<1> QED BY <1>2

\* A range between multiples is of whole PDEs.
LEMMA WholeRange == ASSUME NEW a, NEW b, Multiple(a), Multiple(b) PROVE Whole(a .. b - 1)
<1>1. PICK i \in Nat, j \in Nat : a = i * Fan /\ b = j * Fan
  BY DEF Multiple
<1>2. Fan \in Nat \ {0} /\ Size(2) = Fan
  BY PageTableAssumption DEF Size
<1> SUFFICES ASSUME NEW n \in Node, n[1] = 2, NEW x \in Pages(n), x \in a .. b - 1, NEW y \in Pages(n)
             PROVE  y \in a .. b - 1
  BY DEF Whole, Cuts
<1>3. n[2] \in Nat
  <2>1. PICK l \in 1 .. 4, w \in Page : n = <<l, w \div Size(l)>>
    BY DEF Node
  <2>2. w \in Nat /\ Size(l) \in Nat \ {0}
    BY SizeFacts, PageTableAssumption DEF Page
  <2> QED BY <2>1, <2>2, DivBounds
<1> DEFINE q == n[2]
           c == q * Fan
<1>4. Pages(n) = c .. c + Fan - 1 /\ c \in Nat /\ a \in Nat /\ b \in Nat
  BY <1>1, <1>2, <1>3 DEF Pages, First
<1>5. q < i => c + Fan <= a
  BY <1>1, <1>2, <1>3, NextMultiple
<1>6. i < q => a + Fan <= c
  BY <1>1, <1>2, <1>3, NextMultiple
<1>7. q < j => c + Fan <= b
  BY <1>1, <1>2, <1>3, NextMultiple
<1>8. j < q => b + Fan <= c
  BY <1>1, <1>2, <1>3, NextMultiple
<1>9. q = j => b = c
  BY <1>1
<1>10. q = i => a = c
  BY <1>1
<1>11. c <= x /\ x < c + Fan /\ a <= x /\ x < b /\ c <= y /\ y < c + Fan /\ x \in Int /\ y \in Int
  BY <1>2, <1>4
<1> HIDE DEF c, q
<1>12. q \in Nat
  BY <1>3 DEF q
<1>13. a <= c
  BY <1>2, <1>4, <1>5, <1>6, <1>10, <1>11, <1>12
<1>14. c + Fan <= b
  BY <1>2, <1>4, <1>7, <1>8, <1>9, <1>11, <1>12
<1> QED BY <1>2, <1>4, <1>11, <1>13, <1>14

\* So is a union of such sets.
LEMMA WholeUnion == ASSUME NEW S, \A r \in S : Whole(r) PROVE Whole(UNION S)
<1> SUFFICES ASSUME NEW n \in Node, n[1] = 2, NEW x \in Pages(n), x \in UNION S PROVE Pages(n) \subseteq UNION S
  BY DEF Whole, Cuts
<1>1. PICK r \in S : x \in r
  OBVIOUS
<1>2. Pages(n) \subseteq r
  BY <1>1 DEF Whole, Cuts
<1> QED BY <1>2
-----------------------------------------------------------------------------
(***************************************************************************)
(* What the operations do to the tables of the hypervisor.                 *)
(***************************************************************************)
\* Splitting for whole PDEs makes no page table.
LEMMA SplitNoTables == ASSUME NEW t, NoTables(t), NEW r, Whole(r) PROVE NoTables(SplitAll(t, r))
<1> DEFINE s == SplitAll(t, r)
<1> SUFFICES ASSUME NEW n \in Node, n[1] = 2 PROVE s[n].kind # "table"
  BY DEF NoTables
<1>1. ~Cuts(r, n) /\ t[n].kind # "table"
  BY DEF Whole, NoTables
<1>2. s[n] = t[n] \/ \E m : s[n] = split_large_page(t[m], m, n)
  BY <1>1 DEF SplitAll
<1>3. \A m : split_large_page(t[m], m, n).kind = "leaf"
  BY EntryFields DEF split_large_page
<1> HIDE DEF s
<1> QED BY <1>1, <1>2, <1>3

\* mmu_modify and mmu_del for whole PDEs keep the structure.
LEMMA OpsKeep ==
    ASSUME NEW t, Typed(t), NoTables(t), NEW r, Whole(r), NEW set, NEW clr
    PROVE  /\ Typed(mmu_modify(t, r, set, clr)) /\ NoTables(mmu_modify(t, r, set, clr))
           /\ Typed(mmu_del(t, r)) /\ NoTables(mmu_del(t, r))
<1> DEFINE s == SplitAll(t, r)
           u == mmu_modify(t, r, set, clr)
           d == mmu_del(t, r)
<1>1. Typed(s) /\ NoTables(s)
  BY SplitTyped, SplitNoTables
<1>2. \A n \in Node : u[n] = s[n] \/ \E p : u[n] = Leaf(s[n].pa, p)
  BY DEF mmu_modify
<1>3. \A n \in Node : d[n] = s[n] \/ d[n] = None
  BY DEF mmu_del
<1> HIDE DEF s, u, d
<1>4. \A n \in Node : u[n].pa = s[n].pa /\ (u[n].kind = "table" => s[n].kind = "table")
  BY <1>2, EntryFields
<1>5. \A n \in Node : d[n].pa \in {s[n].pa, 0} /\ (d[n].kind = "table" => s[n].kind = "table")
  BY <1>3, EntryFields
<1>6. Typed(u) /\ NoTables(u)
  BY <1>1, <1>4 DEF Typed, NoTables
<1>7. Typed(d) /\ NoTables(d)
  BY <1>1, <1>5 DEF Typed, NoTables
<1> QED BY <1>6, <1>7 DEF u, d

\* Without the erratum a view is the translation.
LEMMA ViewIsTranslate == ASSUME ~TweakExe, NEW t, NEW x \in Page PROVE Translate(t, x) = View(t, x)
<1>1. \A p : VisibleProt(p) = p
  BY DEF VisibleProt
<1>2. CASE Unmapped(t, x)
  BY <1>2, ViewWalk, TranslateWalk
<1>3. ASSUME NEW l \in 1 .. 3, MapsAt(t, x, l) PROVE Translate(t, x) = View(t, x)
  BY <1>1, <1>3, ViewWalk, TranslateWalk
<1> QED BY <1>2, <1>3 DEF Unmapped

\* A view is nothing or a leaf, and the empty table shows nothing.
LEMMA ViewKinds == ASSUME NEW t, NEW x \in Page
    PROVE  /\ View(t, x) = None \/ View(t, x).kind = "leaf"
           /\ View(EmptyTable, x) = None
<1>1. Unmapped(t, x) => View(t, x) = None
  BY ViewWalk
<1>2. ASSUME NEW l \in 1 .. 3, MapsAt(t, x, l) PROVE View(t, x).kind = "leaf"
  BY <1>2, ViewWalk, EntryFields
<1>3. Unmapped(EmptyTable, x)
  <2>1. \A l \in 1 .. 3 : EmptyTable[At(l, x)] = None
    <3>1. \A l \in 1 .. 3 : At(l, x) \in Node
      BY Levels
    <3> QED BY <3>1 DEF EmptyTable
  <2> QED BY <2>1, EntryFields DEF Unmapped, MapsAt
<1>4. View(EmptyTable, x) = None
  BY <1>3, ViewWalk
<1> QED BY <1>1, <1>2, <1>4 DEF Unmapped

\* mmu_modify changes the rights of the pages of r that are mapped.
Changed(e, d, inside, set, clr) ==
    /\ e = None => d = None
    /\ e # None /\ inside => d = Leaf(e.pa, (e.prot \ clr) \cup set)
    /\ e # None /\ ~inside => d = e

LEMMA ModifyRights ==
    ASSUME ~TweakExe, NEW t, Typed(t), NEW r, NEW set, NEW clr, NEW x \in Page
    PROVE  Changed(View(t, x), View(mmu_modify(t, r, set, clr), x), x \in r, set, clr)
<1> DEFINE s == SplitAll(t, r)
           u == mmu_modify(t, r, set, clr)
<1>1. \A l \in 1 .. 4 : At(l, x) \in Node /\ At(l, x)[1] = l /\ x \in Pages(At(l, x))
  BY Levels
<1>2. \A l \in 1 .. 4 : u[At(l, x)] = IF Covered(s, r, At(l, x))
                                      THEN Leaf(s[At(l, x)].pa, (s[At(l, x)].prot \ clr) \cup set)
                                      ELSE s[At(l, x)]
  BY <1>1 DEF mmu_modify
<1> HIDE DEF u
<1>3. \A l \in 1 .. 4 : Covered(s, r, At(l, x)) => s[At(l, x)].kind = "leaf"
  BY DEF Covered, Seen, None
<1>4. \A l \in 1 .. 4 : u[At(l, x)].kind = s[At(l, x)].kind
  BY <1>2, <1>3, EntryFields
<1>5. \A l \in 1 .. 3 : MapsAt(u, x, l) <=> MapsAt(s, x, l)
  BY <1>4 DEF MapsAt
<1>6. ASSUME Unmapped(t, x) PROVE View(t, x) = None /\ View(u, x) = None
  <2>1. Unmapped(s, x)
    BY <1>6, SplitWalk
  <2>2. Unmapped(u, x)
    BY <1>5, <2>1 DEF Unmapped
  <2> QED BY <1>6, <2>2, ViewWalk
<1>7. ASSUME NEW k \in 1 .. 3, MapsAt(t, x, k)
      PROVE  /\ View(t, x) # None
             /\ View(u, x) = IF x \in r THEN Leaf(View(t, x).pa, (View(t, x).prot \ clr) \cup set) ELSE View(t, x)
  <2>1. PICK j \in 1 .. 3 : MapsAt(s, x, j) /\ ~Cuts(r, At(j, x)) /\ View(s, x) = View(t, x)
    BY <1>7, SplitView
  <2> HIDE DEF s
  <2> DEFINE e == s[At(j, x)]
             d == u[At(j, x)]
             a == First(At(j, x))
  <2>2. s[At(j, x)].kind = "leaf" /\ \A l \in j + 1 .. 4 : s[At(l, x)].kind = "table"
    BY <2>1 DEF MapsAt
  <2>3. Linked(s, At(j, x)) /\ j \in 1 .. 4
    BY <2>2, LinkedPath
  <2>4. Covered(s, r, At(j, x)) <=> x \in r
    BY <1>1, <2>1, <2>2, <2>3 DEF Covered, Seen, Cuts
  <2>5. \A p : VisibleProt(p) = p
    BY DEF VisibleProt
  <2>6. View(t, x) = Leaf(e.pa + x - a, e.prot)
    BY <2>1, <2>5, ViewWalk
  <2>7. View(u, x) = Leaf(d.pa + x - a, d.prot)
    BY <1>5, <2>1, <2>5, ViewWalk
  <2>8. d = IF x \in r THEN Leaf(e.pa, (e.prot \ clr) \cup set) ELSE e
    BY <1>2, <2>3, <2>4
  <2> HIDE DEF e, d, a
  <2>9. View(t, x).pa = e.pa + x - a /\ View(t, x).prot = e.prot /\ View(t, x) # None
    BY <2>6, EntryFields
  <2>10. CASE x \in r
    <3>1. d.pa = e.pa /\ d.prot = (e.prot \ clr) \cup set
      BY <2>8, <2>10, EntryFields
    <3> QED BY <2>7, <2>9, <2>10, <3>1
  <2>11. CASE x \notin r
    BY <2>6, <2>7, <2>8, <2>9, <2>11
  <2> QED BY <2>9, <2>10, <2>11
<1>8. Unmapped(t, x) => View(t, x) = None
  BY ViewWalk
<1>9. Changed(View(t, x), View(u, x), x \in r, set, clr)
  BY <1>6, <1>7, <1>8 DEF Unmapped, Changed
<1> QED BY <1>9 DEF u

\* What mmu_add leaves in an entry.
LEMMA AddEntry ==
    ASSUME NEW t, Typed(t), NEW pa \in Int, NEW v \in Int, NEW cnt \in Int,
           v .. v + cnt - 1 \subseteq Page, Free(t, v, cnt), NEW prot, NEW n \in Node,
           NEW new, new = NewLeaves(t, pa, v, cnt), NEW u, u = mmu_add(t, pa, v, cnt, prot)
    PROVE  \/ n \in new /\ u[n] = Leaf(pa + First(n) - v, EffectiveProt(n, new, prot))
           \/ u[n] = Table /\ \E m \in new : m[1] \in 1 .. 3 /\ m[1] < n[1]
           \/ u[n] = None
           \/ u[n] = t[n]
<1>1. n \in new => u[n] = Leaf(pa + First(n) - v, EffectiveProt(n, new, prot))
  <2>1. n \in new => u[n] = Leaf(pa + TakenFor(t, v, First(n)) - v, EffectiveProt(n, new, prot))
    BY DEF mmu_add
  <2> QED BY <2>1, NewLeafTaken
<1>2. n \notin new => \/ u[n] = Table /\ \E m \in new : m[1] < n[1]
                      \/ u[n] = None
                      \/ u[n] = t[n]
  BY DEF mmu_add
<1>3. ASSUME NEW m \in new PROVE m[1] \in 1 .. 3
  <2>1. PICK y \in v .. v + cnt - 1 : ~Mapped(t, y) /\ m = At(Max(FitLevels(t, pa, v, cnt, y)), y)
    BY NewLeafPage
  <2>2. y \in Page /\ Unmapped(t, y)
    BY <2>1, MappedWalk
  <2>3. PICK i \in 1 .. 3 : At(i, y) \in new
    BY <2>1, <2>2, NewLeafExists
  <2>4. i = Max(FitLevels(t, pa, v, cnt, y))
    BY <2>2, <2>3, NewLeaf
  <2> QED BY <2>1, <2>2, <2>4, Levels
<1> QED BY <1>1, <1>2, <1>3

\* mmu_add keeps the types of entries.
LEMMA AddTyped ==
    ASSUME NEW t, Typed(t), NEW pa \in Int, NEW v \in Int, NEW cnt \in Int,
           v .. v + cnt - 1 \subseteq Page, Free(t, v, cnt), NEW prot
    PROVE  Typed(mmu_add(t, pa, v, cnt, prot))
<1> DEFINE u == mmu_add(t, pa, v, cnt, prot)
           new == NewLeaves(t, pa, v, cnt)
<1>1. \A n \in Node : \/ u[n] = Leaf(pa + First(n) - v, EffectiveProt(n, new, prot))
                      \/ u[n] = Table /\ \E m \in new : m[1] \in 1 .. 3 /\ m[1] < n[1]
                      \/ u[n] = None
                      \/ u[n] = t[n]
  BY AddEntry
<1> HIDE DEF u, new
<1>2. \A n \in Node : pa + First(n) - v \in Int
  BY FirstInt
<1> SUFFICES ASSUME NEW n \in Node PROVE u[n].pa \in Int /\ (u[n].kind = "table" => n[1] # 1)
  BY DEF u, Typed
<1>3. CASE u[n] = Leaf(pa + First(n) - v, EffectiveProt(n, new, prot))
  BY <1>2, <1>3, EntryFields
<1>4. CASE u[n] = Table /\ \E m \in new : m[1] \in 1 .. 3 /\ m[1] < n[1]
  BY <1>4, EntryFields
<1>5. CASE u[n] = None
  BY <1>5, EntryFields
<1>6. CASE u[n] = t[n]
  BY <1>6 DEF Typed
<1> QED BY <1>1, <1>3, <1>4, <1>5, <1>6

\* A multiple leaves no rest.
LEMMA MultipleRest == ASSUME NEW q \in Nat, NEW s \in Nat \ {0} PROVE (q * s) % s = 0
<1> DEFINE x == q * s
<1>1. x \in Nat
  OBVIOUS
<1>2. x \div s = q
  BY <1>1, DivUnique
<1>3. x = s * (x \div s) + (x % s) /\ x % s \in 0 .. s - 1
  BY <1>1
<1>4. s * q = q * s
  OBVIOUS
<1> HIDE DEF x
<1>5. x = s * q
  BY <1>4 DEF x
<1>6. s * q \in Int
  OBVIOUS
<1>7. x = s * q + (x % s)
  BY <1>2, <1>3
<1> QED BY <1>3, <1>5, <1>6, <1>7 DEF x

\* Nothing is mapped at first.
LEMMA EmptyFree == \A v, cnt : Free(EmptyTable, v, cnt) \/ ~(v .. v + cnt - 1 \subseteq Page)
<1>1. ASSUME NEW x \in Page PROVE Unmapped(EmptyTable, x)
  <2>1. \A k \in 1 .. 3 : EmptyTable[At(k, x)] = None
    BY Levels DEF EmptyTable
  <2> QED BY <2>1, EntryFields DEF Unmapped, MapsAt
<1> QED BY <1>1 DEF Free

\* The first mapping, of whole PDEs one to one, needs no page table.
LEMMA AddNoTables ==
    ASSUME LargePages, NEW cnt \in Nat, cnt <= Top, Multiple(cnt), NEW prot
    PROVE  Typed(EmptyTable) /\ NoTables(EmptyTable) /\ NoTables(mmu_add(EmptyTable, 0, 0, cnt, prot))
<1> DEFINE t == EmptyTable
           u == mmu_add(t, 0, 0, cnt, prot)
           new == NewLeaves(t, 0, 0, cnt)
           r == 0 .. 0 + cnt - 1
<1>1. \A n \in Node : t[n] = None
  BY DEF EmptyTable
<1>2. Typed(t) /\ NoTables(t)
  BY <1>1, EntryFields DEF Typed, NoTables
<1>3. r \subseteq Page
  BY PageTableAssumption DEF Page
<1>3a. Free(t, 0, cnt)
  BY <1>3, EmptyFree
<1>4. Whole(r)
  <2>1. Multiple(0) /\ 0 .. 0 + cnt - 1 = 0 .. cnt - 1
    BY PageTableAssumption DEF Multiple
  <2> QED BY <2>1, WholeRange
<1>5. ASSUME NEW m \in new PROVE m[1] # 1
  <2>1. PICK y \in r : m = At(Max(FitLevels(t, 0, 0, cnt, y)), y) /\ ~Mapped(t, y)
    BY <1>3, <1>3a, <1>5, NewLeafPage
  <2>2. y \in Page
    BY <1>3
  <2> DEFINE F == FitLevels(t, 0, 0, cnt, y)
             n == At(2, y)
  <2>3. n \in Node /\ n[1] = 2 /\ y \in Pages(n) /\ First(n) \in Page
    BY <2>2, Levels
  <2>4. Pages(n) \subseteq r
    BY <1>4, <2>3 DEF Whole, Cuts
  <2>5. (0 + First(n) - 0) % Size(2) = 0
    <3>1. n[2] \in Nat /\ Size(2) \in Nat \ {0} /\ First(n) = n[2] * Size(2)
      <4>1. Size(2) \in Nat \ {0} /\ y \in Nat
        BY <2>2, SizeFacts, PageTableAssumption DEF Page
      <4>2. n[2] = y \div Size(2)
        BY DEF At
      <4>3. y \div Size(2) \in Nat
        BY <4>1, DivBounds
      <4> QED BY <2>3, <4>1, <4>2, <4>3 DEF First
    <3> DEFINE q == n[2]
               sz == Size(2)
    <3>2. q \in Nat /\ sz \in Nat \ {0} /\ First(n) = q * sz
      BY <3>1
    <3> HIDE DEF n, q, sz
    <3>3. q * sz \in Nat
      BY <3>2
    <3>4. (q * sz) % sz = 0
      BY <3>2, MultipleRest
    <3>5. 0 + First(n) - 0 = q * sz
      BY <3>2, <3>3
    <3> QED BY <3>4, <3>5 DEF sz
  <2>6. LargeFits(n, 0, 0, cnt)
    BY <2>3, <2>4, <2>5 DEF LargeFits
  <2>7. Seen(t, n).kind # "table"
    BY <1>1, <2>3, EntryFields DEF Seen
  <2>8. F \in SUBSET (1 .. 3) /\ 2 \in F
    BY <2>6, <2>7 DEF FitLevels
  <2>9. Max(F) \in 1 .. 3 /\ Max(F) >= 2
    BY <2>8, MaxOfLevels
  <2>10. m[1] = Max(F)
    BY <2>1, <2>2, <2>9, Levels
  <2> QED BY <2>9, <2>10
<1>6. \A n \in Node : \/ u[n] = Leaf(0 + First(n) - 0, EffectiveProt(n, new, prot))
                      \/ u[n] = Table /\ \E m \in new : m[1] \in 1 .. 3 /\ m[1] < n[1]
                      \/ u[n] = None
                      \/ u[n] = t[n]
  BY <1>2, <1>3, <1>3a, AddEntry
<1> HIDE DEF u, new, t
<1>7. NoTables(u)
  <2> SUFFICES ASSUME NEW n \in Node, n[1] = 2 PROVE u[n].kind # "table"
    BY DEF NoTables
  <2>1. ~\E m \in new : m[1] \in 1 .. 3 /\ m[1] < n[1]
    BY <1>5
  <2> QED BY <1>1, <1>6, <2>1, EntryFields
<1> QED BY <1>2, <1>7 DEF t, u
-----------------------------------------------------------------------------
(***************************************************************************)
(* The memory map.                                                         *)
(***************************************************************************)
MapEntry == [base : Nat, length : Nat, type : STRING]

\* Cutting an entry off only shortens it.
LEMMA CutShortens ==
    ASSUME NEW en \in MapEntry
    PROVE  /\ CutOff(en) \in MapEntry /\ CutOff(en).base = en.base /\ CutOff(en).type = en.type
           /\ CutOff(en).length <= en.length
<1>1. en.base \in Nat /\ en.length \in Nat /\ TopAddrSpace \in Nat
  BY E820Assumption DEF MapEntry
<1> DEFINE len == IF en.base >= TopAddrSpace THEN 0
                  ELSE IF End(en) > TopAddrSpace THEN TopAddrSpace - en.base ELSE en.length
<1>2. len \in Nat /\ len <= en.length
  BY <1>1 DEF End
<1>3. CutOff(en) = [en EXCEPT !.length = len]
  BY DEF CutOff
<1> HIDE DEF len
<1> QED BY <1>2, <1>3 DEF MapEntry

\* The entries that init_e820 keeps.
LEMMA KeptEntries ==
    ASSUME NEW mmap \in Seq(MapEntry), NEW e, e = init_e820(mmap)
    PROVE  \E n \in Nat : /\ n <= Len(mmap) /\ e \in [1 .. n -> MapEntry]
                          /\ \A i \in 1 .. n : e[i] = CutOff(mmap[i]) /\ mmap[i] \in MapEntry
<1> DEFINE n == Min({Len(mmap), E820_MAX_ENTRIES})
<1>1. Len(mmap) \in Nat /\ E820_MAX_ENTRIES \in Nat
  BY E820Assumption
<1>2. n \in {Len(mmap), E820_MAX_ENTRIES} /\ \A y \in {Len(mmap), E820_MAX_ENTRIES} : n <= y
  BY <1>1, MinNat
<1>3. n \in Nat /\ n <= Len(mmap)
  BY <1>1, <1>2
<1>4. e = [i \in 1 .. n |-> CutOff(mmap[i])]
  BY DEF init_e820
<1> HIDE DEF n
<1>5. \A i \in 1 .. n : mmap[i] \in MapEntry
  BY <1>1, <1>3
<1>6. \A i \in 1 .. n : CutOff(mmap[i]) \in MapEntry
  BY <1>5, CutShortens
<1> QED BY <1>3, <1>4, <1>5, <1>6

\* The greatest of the ends of some entries, and 0, is a number.
LEMMA EndsMax ==
    ASSUME NEW n \in Nat, NEW e \in [1 .. n -> MapEntry], NEW I, I \subseteq 1 .. n
    PROVE  Max({End(e[i]) : i \in I} \cup {0}) \in Nat
<1> DEFINE f == [i \in 1 .. n |-> End(e[i])]
           S == {End(e[i]) : i \in I} \cup {0}
<1>1. \A i \in 1 .. n : End(e[i]) \in Nat
  BY DEF End, MapEntry
<1>2. f \in [1 .. n -> Nat]
  BY <1>1
<1>3. PICK b \in Nat : \A i \in 1 .. n : f[i] <= b
  BY <1>2, Bounded
<1>4. S \subseteq Nat /\ S # {} /\ \A x \in S : x <= b
  BY <1>1, <1>3
<1>5. Max(S) \in S
  BY <1>4, MaxNat
<1> QED BY <1>4, <1>5

\* The ends of RAM that init_paging computes are numbers, of whole PDEs.
LEMMA RamEnds ==
    ASSUME mbi.mmap \in Seq(MapEntry), hv_e820 = init_e820(mbi.mmap)
    PROVE  /\ high64_max_ram \in Nat /\ Multiple(high64_max_ram)
           /\ PdeUp(PageUp(low32_max_ram)) \in Nat /\ Multiple(PdeUp(PageUp(low32_max_ram)))
<1>1. PICK n \in Nat : hv_e820 \in [1 .. n -> MapEntry]
  BY KeptEntries
<1>2. obtain_mem_range_info(hv_e820) \in Nat
  BY <1>1, EndsMax DEF obtain_mem_range_info
<1>3. low32_max_ram \in Nat
  <2> DEFINE I == {j \in DOMAIN hv_e820 :
                     /\ hv_e820[j].type = "RAM" /\ hv_e820[j].base < FourG * PAGE_SIZE
                     /\ End(hv_e820[j]) < FourG * PAGE_SIZE}
  <2>1. {End(en) : en \in {hv_e820[i] : i \in I}} = {End(hv_e820[i]) : i \in I}
    OBVIOUS
  <2>2. I \subseteq 1 .. n
    BY <1>1
  <2>3. low32_max_ram = Max({End(hv_e820[i]) : i \in I} \cup {0})
    BY <2>1 DEF low32_max_ram
  <2> QED BY <1>1, <2>2, <2>3, EndsMax
<1>4. ASSUME NEW a \in Nat PROVE PageUp(a) \in Nat
  <2>1. PAGE_SIZE \in Nat \ {0} /\ a + PAGE_SIZE - 1 \in Nat
    BY E820Assumption
  <2>2. (a + PAGE_SIZE - 1) \div PAGE_SIZE \in Nat
    BY <2>1, DivBounds
  <2>3. round_page_up(a) \in Nat
    BY <2>1, <2>2 DEF round_page_up, round_page_down
  <2> QED BY <2>1, <2>3, DivBounds DEF PageUp, PageOf
<1> QED BY <1>2, <1>3, <1>4, Rounding DEF high64_max_ram
-----------------------------------------------------------------------------
(***************************************************************************)
(* The order in which the pCPUs start.                                     *)
(***************************************************************************)
\* A step of a pCPU that is started, and a step of the BSP before.
LateStep(c) ==
    /\ c \in Pcpu /\ \E from, to \in Late : Step(c, from, to)
    /\ UNCHANGED <<ppt, image, hv_e820, mbi, unmasked, tramp>>
EarlyStep(from, to) == Step(BOOT_CPU_ID, from, to) /\ UNCHANGED <<image, mbi, tramp>>

\* Every step is one of these, or the start of the other pCPUs.
LEMMA Steps ==
    ASSUME HostConfiguration
    PROVE  /\ \A c \in Pcpu : EnableSmep(c) \/ EnableSmap(c) \/ InitGuestMode(c) \/ PrepareVm(c) => LateStep(c)
           /\ StartTest => LateStep(0)
           /\ Paging /\ MapAll => EarlyStep("add", "low") \/ EarlyStep("add", "panic")
           /\ Paging /\ LowWb => EarlyStep("low", "high")
           /\ Paging /\ HighWb => EarlyStep("high", "image")
           /\ Paging /\ ImageWb => EarlyStep("image", "text")
           /\ Paging /\ TextExecutable => EarlyStep("text", "guards")
           /\ Paging /\ DelGuards => EarlyStep("guards", "enable")
           /\ EnablePaging => EarlyStep("enable", "uart")
           /\ InitUart => EarlyStep("uart", "interrupt")
           /\ init_interrupt => EarlyStep("interrupt", "iommu")
           /\ register_hrhd_units => EarlyStep("iommu", "start_pcpus")
<1>1. ASSUME NEW c \in Pcpu, EnableSmep(c) \/ EnableSmap(c) \/ InitGuestMode(c) PROVE LateStep(c)
  BY <1>1 DEF EnableSmep, EnableSmap, InitGuestMode, enable_smep, enable_smap, SetUp, LateStep, Late
<1>2. ASSUME NEW c \in Pcpu, CreateVm(c) \/ build_vacpi(c) \/ LoadGdt(c) \/ LoadKernel(c) \/ LoadBootargs(c) \/ PrepareLoading(c)
      PROVE  LateStep(c)
  BY <1>2 DEF CreateVm, build_vacpi, LoadGdt, LoadKernel, LoadBootargs, PrepareLoading, Unchanged, hostVars, LateStep, Late
<1>3. ASSUME NEW c \in Pcpu, InitVmcs(c) \/ LeaveGuest(c) PROVE LateStep(c)
  BY <1>3 DEF InitVmcs, LeaveGuest, SetUp, LateStep, Late
<1>4. StartTest => LateStep(0)
  BY DEF StartTest, Unchanged, hostVars, LateStep, Late, HostConfiguration, Vm
<1>5. \A c \in Pcpu : EnableSmep(c) \/ EnableSmap(c) \/ InitGuestMode(c) \/ PrepareVm(c) => LateStep(c)
  BY <1>1, <1>2, <1>3 DEF PrepareVm
<1>6. /\ Paging /\ MapAll => EarlyStep("add", "low") \/ EarlyStep("add", "panic")
      /\ Paging /\ LowWb => EarlyStep("low", "high")
      /\ Paging /\ HighWb => EarlyStep("high", "image")
  BY DEF Paging, MapAll, LowWb, HighWb, Then, hostVars, EarlyStep
<1>7. /\ Paging /\ ImageWb => EarlyStep("image", "text")
      /\ Paging /\ TextExecutable => EarlyStep("text", "guards")
      /\ Paging /\ DelGuards => EarlyStep("guards", "enable")
  BY DEF Paging, ImageWb, TextExecutable, DelGuards, Then, hostVars, EarlyStep
<1>8. /\ EnablePaging => EarlyStep("enable", "uart")
      /\ InitUart => EarlyStep("uart", "interrupt")
      /\ init_interrupt => EarlyStep("interrupt", "iommu")
      /\ register_hrhd_units => EarlyStep("iommu", "start_pcpus")
  BY DEF EnablePaging, InitUart, init_interrupt, register_hrhd_units, SetUp, hostVars, EarlyStep
<1> QED BY <1>4, <1>5, <1>6, <1>7, <1>8

\* The other steps of the BSP leave the memory map.
LEMMA MapKept ==
    Paging \/ EnablePaging \/ InitUart \/ init_interrupt \/ register_hrhd_units => UNCHANGED hv_e820
<1>1. Paging => UNCHANGED hv_e820
  BY DEF Paging, init_paging, MapAll, LowWb, HighWb, ImageWb, TextExecutable, DelGuards, Then
<1> QED BY <1>1 DEF EnablePaging, InitUart, init_interrupt, register_hrhd_units

\* The invariants of the order, for the two kinds of steps.
LEMMA LateOrder == ASSUME OrderInv, NEW c, LateStep(c) PROVE OrderInv' /\ BSP \in Late /\ BSP' \in Late
<1>1. PICK from \in Late, to \in Late : Step(c, from, to)
  BY DEF LateStep
<1>2. c \in Pcpu /\ stage[c] \in Late /\ BOOT_CPU_ID \in Pcpu
  BY <1>1, HvPagingAssumption DEF LateStep, Step
<1>3. BSP \in Late
  BY <1>2 DEF OrderInv, Late, BSP
<1>4. stage' = [stage EXCEPT ![c] = to]
  BY <1>1 DEF Step
<1>5. stage' \in [Pcpu -> Early \cup Late \cup {"panic", "offline"}] /\ \A d \in Pcpu : stage'[d] \in Late
  BY <1>2, <1>3, <1>4 DEF OrderInv
<1>6. BSP' \in Late /\ BSP \notin {"e820", "panic"} /\ BSP' # "offline"
  BY <1>2, <1>3, <1>5 DEF BSP, Late
<1> QED BY <1>3, <1>5, <1>6 DEF OrderInv, LateStep

LEMMA EarlyOrder ==
    ASSUME OrderInv, NEW from \in Early \ {"e820"}, NEW to \in (Early \ {"e820"}) \cup {"panic"}, EarlyStep(from, to),
           UNCHANGED hv_e820
    PROVE  OrderInv' /\ BSP = from /\ BSP' = to
<1>1. stage' = [stage EXCEPT ![BOOT_CPU_ID] = to] /\ BSP = from /\ BOOT_CPU_ID \in Pcpu
  BY HvPagingAssumption DEF EarlyStep, Step, BSP
<1>2. BSP' = to /\ \A d \in Pcpu \ {BOOT_CPU_ID} : stage'[d] = stage[d]
  BY <1>1 DEF OrderInv, BSP
<1>3. from \notin Late /\ to \notin Late /\ from # "panic" /\ to # "offline"
  BY DEF Early, Late, SetUpStages
<1>4. stage' \in [Pcpu -> Early \cup Late \cup {"panic", "offline"}]
  BY <1>1 DEF OrderInv
<1>5. \A d \in Pcpu \ {BOOT_CPU_ID} : stage'[d] = "offline"
  BY <1>1, <1>2, <1>3 DEF OrderInv
<1>6. UNCHANGED <<mbi, hv_e820>>
  BY DEF EarlyStep
<1> QED BY <1>1, <1>2, <1>3, <1>4, <1>5, <1>6 DEF OrderInv

\* The order is kept.
LEMMA OrderInvariance == ASSUME HostConfiguration PROVE HostSpec => [](OrderInv /\ ImageInv)
<1>1. HostInit => OrderInv /\ ImageInv
  <2> SUFFICES ASSUME HostInit PROVE OrderInv /\ ImageInv
    OBVIOUS
  <2>1. stage = [c \in Pcpu |-> IF c = BOOT_CPU_ID THEN "e820" ELSE "offline"] /\ BOOT_CPU_ID \in Pcpu /\ mbi \in Boots
    BY HvPagingAssumption DEF HostInit
  <2>2. BSP = "e820"
    BY <2>1 DEF BSP
  <2>3. OrderInv
    BY <2>1, <2>2 DEF OrderInv, Early, Late
  <2>4. ImageInv
    BY DEF HostInit, ImageInv
  <2> QED BY <2>3, <2>4
<1>2. OrderInv /\ ImageInv /\ [HostNext]_allVars => OrderInv' /\ ImageInv'
  <2> SUFFICES ASSUME OrderInv, ImageInv, [HostNext]_allVars PROVE OrderInv' /\ ImageInv'
    OBVIOUS
  <2>1. ASSUME NEW c, LateStep(c) PROVE OrderInv' /\ ImageInv'
    BY <2>1, LateOrder DEF LateStep, ImageInv
  <2>2. ASSUME NEW from \in Early \ {"e820"}, NEW to \in (Early \ {"e820"}) \cup {"panic"}, EarlyStep(from, to), UNCHANGED hv_e820
        PROVE  OrderInv' /\ ImageInv'
    BY <2>2, EarlyOrder DEF EarlyStep, ImageInv
  <2>3. CASE InitE820
    <3>1. BSP = "e820" /\ stage' = [stage EXCEPT ![BOOT_CPU_ID] = IF mbi.magic /\ mbi.has_mmap THEN "add" ELSE "panic"]
      BY <2>3 DEF InitE820, Step, BSP
    <3>2. UNCHANGED <<mbi, image>> /\ (mbi.magic /\ mbi.has_mmap => hv_e820' = init_e820(mbi.mmap))
      BY <2>3 DEF InitE820, hostVars
    <3>3. BOOT_CPU_ID \in Pcpu /\ "e820" \notin Late
      BY HvPagingAssumption DEF Late
    <3>4. /\ BSP' = IF mbi.magic /\ mbi.has_mmap THEN "add" ELSE "panic"
          /\ stage' \in [Pcpu -> Early \cup Late \cup {"panic", "offline"}]
          /\ \A d \in Pcpu \ {BOOT_CPU_ID} : stage'[d] = "offline"
      BY <3>1, <3>3 DEF OrderInv, BSP, Early
    <3>5. BSP' \in {"add", "panic"} /\ BSP' \notin Late /\ BSP' # "offline"
      BY <3>4 DEF Late
    <3>6. OrderInv'
      BY <3>2, <3>4, <3>5 DEF OrderInv
    <3> QED BY <3>2, <3>6 DEF ImageInv
  <2>4. CASE Paging
    <3>1. UNCHANGED hv_e820
      BY <2>4, MapKept
    <3>2. MapAll \/ LowWb \/ HighWb \/ ImageWb \/ TextExecutable \/ DelGuards
      BY <2>4 DEF Paging, init_paging
    <3> QED BY <2>2, <2>4, <3>1, <3>2, Steps DEF Early, SetUpStages
  <2>5. CASE EnablePaging \/ InitUart \/ init_interrupt \/ register_hrhd_units
    <3>1. UNCHANGED hv_e820
      BY <2>5, MapKept
    <3> QED BY <2>2, <2>5, <3>1, Steps DEF Early, SetUpStages
  <2>6. CASE prepare_trampoline
    <3>1. BSP = "start_pcpus" /\ UNCHANGED <<image, hv_e820, mbi>>
      BY <2>6 DEF prepare_trampoline, BSP
    <3>2. stage' = [c \in Pcpu |-> "smep"] \/ stage' = [stage EXCEPT ![BOOT_CPU_ID] = "panic"]
      BY <2>6 DEF prepare_trampoline
    <3>3. BOOT_CPU_ID \in Pcpu /\ "start_pcpus" \notin Late /\ "smep" \in Late /\ "panic" \notin Late
      BY HvPagingAssumption DEF Late
    <3>4. stage' \in [Pcpu -> Early \cup Late \cup {"panic", "offline"}]
      BY <3>2, <3>3 DEF OrderInv
    <3>5. CASE stage' = [c \in Pcpu |-> "smep"]
      <4>1. BSP' = "smep" /\ \A c \in Pcpu : stage'[c] \in Late
        BY <3>3, <3>5 DEF BSP
      <4> QED BY <3>1, <3>3, <3>4, <4>1 DEF OrderInv, ImageInv
    <3>6. CASE stage' = [stage EXCEPT ![BOOT_CPU_ID] = "panic"]
      <4>1. BSP' = "panic" /\ \A c \in Pcpu \ {BOOT_CPU_ID} : stage'[c] = "offline"
        BY <3>1, <3>3, <3>6 DEF BSP, OrderInv
      <4> QED BY <3>1, <3>3, <3>4, <4>1 DEF OrderInv, ImageInv
    <3> QED BY <3>2, <3>5, <3>6
  <2>7. CASE StartTest \/ \E c \in Pcpu : EnableSmep(c) \/ EnableSmap(c) \/ InitGuestMode(c) \/ PrepareVm(c)
    BY <2>1, <2>7, Steps
  <2>8. CASE UNCHANGED allVars
    BY <2>8 DEF allVars, pagingVars, hostVars, OrderInv, ImageInv, BSP
  <2> QED BY <2>3, <2>4, <2>5, <2>6, <2>7, <2>8 DEF HostNext
<1> QED BY <1>1, <1>2, PTL DEF HostSpec
-----------------------------------------------------------------------------
(***************************************************************************)
(* The trampoline.                                                         *)
(***************************************************************************)
\* Rounding to pages.
LEMMA PageRounding ==
    ASSUME NEW x \in Nat
    PROVE  /\ \E q \in Nat : round_page_down(x) = q * PAGE_SIZE
           /\ round_page_down(x) \in Nat /\ round_page_down(x) <= x
           /\ \E q \in Nat : round_page_up(x) = q * PAGE_SIZE
           /\ round_page_up(x) \in Nat /\ x <= round_page_up(x)
<1>1. PAGE_SIZE \in Nat \ {0} /\ x + PAGE_SIZE - 1 \in Nat
  BY E820Assumption
<1>2. ASSUME NEW y \in Nat
      PROVE  /\ y \div PAGE_SIZE \in Nat /\ round_page_down(y) = (y \div PAGE_SIZE) * PAGE_SIZE
             /\ round_page_down(y) \in Nat /\ round_page_down(y) <= y /\ y < round_page_down(y) + PAGE_SIZE
  BY <1>1, DivBounds DEF round_page_down
<1>3. round_page_up(x) = round_page_down(x + PAGE_SIZE - 1)
  BY DEF round_page_up
<1>4. /\ round_page_up(x) \in Nat /\ x + PAGE_SIZE - 1 < round_page_up(x) + PAGE_SIZE
      /\ \E q \in Nat : round_page_up(x) = q * PAGE_SIZE
  BY <1>1, <1>2, <1>3
<1>5. /\ round_page_down(x) \in Nat /\ round_page_down(x) <= x
      /\ \E q \in Nat : round_page_down(x) = q * PAGE_SIZE
  BY <1>2
<1>6. x <= round_page_up(x)
  BY <1>1, <1>4
<1> QED BY <1>4, <1>5, <1>6

\* The difference of two multiples is a multiple.
LEMMA PageDifference ==
    ASSUME NEW q \in Nat, NEW p \in Nat, p * PAGE_SIZE <= q * PAGE_SIZE
    PROVE  (q * PAGE_SIZE - p * PAGE_SIZE) % PAGE_SIZE = 0
<1>1. PAGE_SIZE \in Nat \ {0}
  BY E820Assumption
<1>2. q * PAGE_SIZE \in Nat /\ p * PAGE_SIZE \in Nat
  BY <1>1
<1>3. q < p => q * PAGE_SIZE + PAGE_SIZE <= p * PAGE_SIZE
  BY <1>1, NextMultiple
<1>4. q - p \in Nat
  BY <1>1, <1>2, <1>3
<1>5. (q - p) * PAGE_SIZE = q * PAGE_SIZE - p * PAGE_SIZE
  BY <1>1, <1>4
<1>6. ((q - p) * PAGE_SIZE) % PAGE_SIZE = 0
  BY <1>1, <1>4, MultipleRest
<1> QED BY <1>5, <1>6

\* The buffer that get_ap_trampoline_buf returns.
LEMMA BufferRight ==
    ASSUME BootProvides(mbi), hv_e820 = init_e820(mbi.mmap),
           NEW at, at = get_ap_trampoline_buf(hv_e820, mbi), at # INVALID
    PROVE  /\ at % PAGE_SIZE = 0 /\ RealMode(at) = at
           /\ \A x \in at .. at + LowRamSize - 1 :
               /\ \E i \in DOMAIN mbi.mmap : InEntry(mbi.mmap[i], x) /\ mbi.mmap[i].type = "RAM"
               /\ \A t \in DOMAIN mbi.addr : x \notin mbi.addr[t] .. mbi.addr[t] + mbi.len[t] - 1
<1> DEFINE size == round_page_up(LowRamSize)
           fit == {i \in DOMAIN hv_e820 : Fits(hv_e820[i], size)}
           i == Min(fit)
           en == hv_e820[i]
           m == mbi.mmap[i]
<1>1. mbi.mmap \in Seq(MapEntry)
  BY DEF BootProvides, MapEntry
<1>2. PICK n \in Nat : /\ n <= Len(mbi.mmap) /\ hv_e820 \in [1 .. n -> MapEntry]
                       /\ \A j \in 1 .. n : hv_e820[j] = CutOff(mbi.mmap[j]) /\ mbi.mmap[j] \in MapEntry
  BY <1>1, KeptEntries
<1>3. at = e820_alloc_low_memory(hv_e820, LowRamSize)
  BY DEF get_ap_trampoline_buf
<1>4. ~\E t \in {"mmap", "info", "mods"} : Overlaps(at, at + LowRamSize, mbi.addr[t], mbi.len[t])
  BY DEF get_ap_trampoline_buf
<1>5. fit # {} /\ at = LastPage(en) - size
  BY <1>3 DEF e820_alloc_low_memory
<1>6. i \in fit /\ i \in 1 .. n
  <2>1. fit \subseteq 1 .. n
    BY <1>2
  <2>2. fit \subseteq Nat
    BY <2>1
  <2>3. Min(fit) \in fit
    BY <1>5, <2>2, MinNat
  <2> QED BY <2>1, <2>3
<1>7. Fits(en, size) /\ en = CutOff(m) /\ m \in MapEntry
  BY <1>2, <1>6
<1>8. i \in DOMAIN mbi.mmap
  BY <1>1, <1>2, <1>6
<1>9. \A t \in DOMAIN mbi.addr : /\ t \in {"mmap", "info", "mods"}
                                 /\ mbi.addr[t] \in Nat /\ mbi.len[t] \in Nat
  BY DEF BootProvides
<1>10. m.type = "RAM" /\ m.base < MEM_1M => End(m) <= MEM_1M
  BY <1>8 DEF BootProvides
<1> HIDE DEF size, fit, i, en, m
<1>11. en \in MapEntry /\ en.base = m.base /\ en.type = m.type /\ en.length <= m.length
  BY <1>7, CutShortens
<1>12. m.base \in Nat /\ m.length \in Nat /\ en.length \in Nat /\ End(en) = m.base + en.length /\ End(m) = m.base + m.length
  BY <1>7, <1>11 DEF MapEntry, End
<1>13. LowRamSize \in Nat \ {0} /\ MEM_1M \in Nat \ {0}
  BY E820Assumption
<1>14. size \in Nat /\ LowRamSize <= size /\ \E p \in Nat : size = p * PAGE_SIZE
  BY <1>13, PageRounding DEF size
<1>15. /\ LastPage(en) \in Nat /\ LastPage(en) <= End(en) /\ \E q \in Nat : LastPage(en) = q * PAGE_SIZE
       /\ FirstPage(en) \in Nat /\ m.base <= FirstPage(en)
  <2>1. End(en) \in Nat /\ en.base \in Nat
    BY <1>11, <1>12
  <2> QED BY <1>11, <2>1, PageRounding DEF LastPage, FirstPage
<1>16. en.type = "RAM" /\ FirstPage(en) + size <= LastPage(en) /\ FirstPage(en) + size <= MEM_1M
  BY <1>7 DEF Fits
<1>17. End(m) <= MEM_1M
  BY <1>10, <1>11, <1>12, <1>13, <1>14, <1>15, <1>16
<1>18. at \in Nat /\ at + size = LastPage(en) /\ FirstPage(en) <= at /\ at + size <= End(m) /\ at < MEM_1M
  BY <1>5, <1>11, <1>12, <1>13, <1>14, <1>15, <1>16, <1>17
<1>19. at % PAGE_SIZE = 0
  <2>1. PICK p \in Nat, q \in Nat : size = p * PAGE_SIZE /\ LastPage(en) = q * PAGE_SIZE
    BY <1>14, <1>15
  <2>2. p * PAGE_SIZE <= q * PAGE_SIZE
    BY <1>14, <1>15, <1>16, <2>1
  <2> QED BY <1>5, <2>1, <2>2, PageDifference
<1>20. RealMode(at) = at
  BY <1>13, <1>18 DEF RealMode
<1>21. ASSUME NEW x \in at .. at + LowRamSize - 1
       PROVE  /\ InEntry(m, x) /\ m.type = "RAM"
              /\ \A t \in DOMAIN mbi.addr : x \notin mbi.addr[t] .. mbi.addr[t] + mbi.len[t] - 1
  <2>1. x \in Nat /\ at <= x /\ x < at + LowRamSize
    BY <1>13, <1>18
  <2>2. InEntry(m, x) /\ m.type = "RAM"
    BY <1>11, <1>12, <1>13, <1>14, <1>15, <1>16, <1>18, <2>1 DEF InEntry
  <2>3. ASSUME NEW t \in DOMAIN mbi.addr PROVE x \notin mbi.addr[t] .. mbi.addr[t] + mbi.len[t] - 1
    <3>1. mbi.addr[t] \in Nat /\ mbi.len[t] \in Nat /\ ~Overlaps(at, at + LowRamSize, mbi.addr[t], mbi.len[t])
      BY <1>4, <1>9
    <3> QED BY <1>13, <1>18, <2>1, <3>1 DEF Overlaps
  <2> QED BY <2>2, <2>3
<1> QED BY <1>8, <1>19, <1>20, <1>21 DEF m

\* The trampoline is where TrampolineOwn says, for every memory map.
THEOREM TrampolineIsOwn == ASSUME HostConfiguration PROVE HostSpec => []TrampolineOwn
<1>1. HostInit => TrampolineOwn
  BY DEF HostInit, TrampolineOwn
<1>2. OrderInv /\ TrampolineOwn /\ [HostNext]_allVars => TrampolineOwn'
  <2> SUFFICES ASSUME OrderInv, TrampolineOwn, [HostNext]_allVars PROVE TrampolineOwn'
    OBVIOUS
  <2>1. ASSUME UNCHANGED <<tramp, mbi>> PROVE TrampolineOwn'
    BY <2>1 DEF TrampolineOwn
  <2>2. CASE InitE820
    BY <2>1, <2>2 DEF InitE820, hostVars
  <2>3. CASE Paging
    BY <2>1, <2>3 DEF Paging, hostVars
  <2>4. CASE EnablePaging \/ InitUart \/ init_interrupt \/ register_hrhd_units
    BY <2>1, <2>4, Steps DEF EarlyStep
  <2>5. CASE prepare_trampoline
    <3> DEFINE dest == get_ap_trampoline_buf(hv_e820, mbi)
    <3>1. BSP = "start_pcpus" /\ UNCHANGED mbi /\ (dest = INVALID => UNCHANGED tramp)
      BY <2>5 DEF prepare_trampoline, BSP
    <3>2. CASE dest = INVALID
      BY <2>1, <3>1, <3>2
    <3>3. CASE dest # INVALID
      <4>1. tramp' = <<dest, RealMode(dest)>>
        BY <2>5, <3>3 DEF prepare_trampoline
      <4>2. hv_e820 = init_e820(mbi.mmap) /\ BootProvides(mbi)
        BY <3>1 DEF OrderInv, HostConfiguration
      <4> DEFINE Good(at) ==
            /\ at % PAGE_SIZE = 0 /\ RealMode(at) = at
            /\ \A x \in at .. at + LowRamSize - 1 :
                 /\ \E i \in DOMAIN mbi.mmap : InEntry(mbi.mmap[i], x) /\ mbi.mmap[i].type = "RAM"
                 /\ \A t \in DOMAIN mbi.addr : x \notin mbi.addr[t] .. mbi.addr[t] + mbi.len[t] - 1
      <4>3. Good(dest)
        BY <3>3, <4>2, BufferRight
      <4> HIDE DEF dest
      <4> QED BY <3>1, <4>1, <4>3 DEF TrampolineOwn
    <3> QED BY <3>2, <3>3
  <2>6. CASE StartTest \/ \E c \in Pcpu : EnableSmep(c) \/ EnableSmap(c) \/ InitGuestMode(c) \/ PrepareVm(c)
    BY <2>1, <2>6, Steps DEF LateStep
  <2>7. CASE UNCHANGED allVars
    BY <2>1, <2>7 DEF allVars, hostVars
  <2> QED BY <2>2, <2>3, <2>4, <2>5, <2>6, <2>7 DEF HostNext
<1> QED BY <1>1, <1>2, OrderInvariance, PTL DEF HostSpec
-----------------------------------------------------------------------------
(***************************************************************************)
(* init_paging and the regions made accessible.                            *)
(***************************************************************************)
\* Multiples of a PDE.
LEMMA Multiples ==
    /\ \A a, b : Multiple(a) /\ Multiple(b) => Multiple(a + b)
    /\ \A a \in Nat : a % Fan = 0 => Multiple(a) /\ PdeDown(a) = a
    /\ Multiple(0) /\ Multiple(Fan)
<1>1. Fan \in Nat \ {0}
  BY PageTableAssumption
<1>2. ASSUME NEW a, NEW b, Multiple(a), Multiple(b) PROVE Multiple(a + b)
  <2>1. PICK i \in Nat, j \in Nat : a = i * Fan /\ b = j * Fan
    BY <1>2 DEF Multiple
  <2>2. a + b = (i + j) * Fan /\ i + j \in Nat
    BY <1>1, <2>1
  <2> QED BY <2>2 DEF Multiple
<1>3. ASSUME NEW a \in Nat, a % Fan = 0 PROVE Multiple(a) /\ PdeDown(a) = a
  <2>1. a \div Fan \in Nat
    BY <1>1, DivBounds
  <2>2. a = Fan * (a \div Fan) + (a % Fan)
    BY <1>1
  <2>3. a = (a \div Fan) * Fan
    BY <1>1, <1>3, <2>1, <2>2
  <2> QED BY <2>1, <2>3 DEF Multiple, PdeDown
<1>4. 0 = 0 * Fan /\ Fan = 1 * Fan
  BY <1>1
<1> QED BY <1>2, <1>3, <1>4 DEF Multiple

\* The image, its code and its guard pages are whole PDEs below 4 GBytes.
LEMMA ImageRanges ==
    ASSUME HostConfiguration, ImageInv
    PROVE  /\ Whole(ImageRange) /\ Whole(TextRange) /\ Whole(GuardPages)
           /\ image.hv_hpa \in Nat /\ image.text_end \in Nat /\ image.hv_hpa + HvRam <= FourG
           /\ image.hv_hpa .. image.hv_hpa + HvRam - 1 \subseteq ImageRange
           /\ image.hv_hpa .. image.text_end - 1 \subseteq TextRange
           /\ GuardPages \subseteq image.hv_hpa .. image.hv_hpa + HvRam - 1
           /\ GuardPages \cap Outside = {}
<1> DEFINE hv == image.hv_hpa
           text == image.text_end
           more == IF hv % Fan # 0 THEN Fan ELSE 0
<1>1. Fan \in Nat \ {0} /\ HvRam \in Nat /\ HvRam % Fan = 0 /\ FourG \in Nat
  BY PageTableAssumption, HvPagingAssumption DEF Page
<1>2. hv \in Images /\ hv \in Nat /\ hv + HvRam <= FourG
  BY DEF ImageInv, HostConfiguration
<1>3. text \in Nat /\ hv < text
  BY <1>1, <1>2 DEF ImageInv
<1>4. more \in Nat /\ Multiple(more) /\ Multiple(HvRam)
  BY <1>1, Multiples
<1>5. Whole(ImageRange)
  <2>1. Multiple(PdeDown(hv)) /\ PdeDown(hv) \in Nat
    BY <1>2, Rounding
  <2>2. Multiple(PdeDown(hv) + HvRam + more)
    BY <1>4, <2>1, Multiples
  <2> DEFINE b == PdeDown(hv) + HvRam + more
  <2>3. ImageRange = PdeDown(hv) .. b - 1
    <3>1. ImageRange = PdeDown(hv) .. PdeDown(hv) + HvRam + more - 1
      BY DEF ImageRange
    <3> HIDE DEF hv, more
    <3> QED BY <1>1, <1>4, <2>1, <3>1
  <2> HIDE DEF b
  <2>4. Whole(PdeDown(hv) .. b - 1)
    BY <2>1, <2>2, WholeRange DEF b
  <2> QED BY <2>3, <2>4
<1>6. Whole(TextRange)
  BY <1>2, <1>3, Rounding, WholeRange DEF TextRange
<1>7. Whole(GuardPages)
  <2>1. ASSUME NEW g \in Guards PROVE Whole(g .. g + Fan - 1)
    <3>1. g \in Nat /\ Multiple(g) /\ Multiple(g + Fan)
      BY HvPagingAssumption, Multiples
    <3> DEFINE b == g + Fan
    <3> HIDE DEF b
    <3>2. Whole(g .. b - 1)
      BY <3>1, WholeRange DEF b
    <3> QED BY <1>1, <3>1, <3>2 DEF b
  <2> QED BY <2>1, WholeUnion DEF GuardPages
<1>8. hv .. hv + HvRam - 1 \subseteq ImageRange
  <2>1. ImageRange = PdeDown(hv) .. PdeDown(hv) + HvRam + more - 1
    BY DEF ImageRange
  <2>2. PdeDown(hv) \in Nat /\ PdeDown(hv) <= hv /\ hv < PdeDown(hv) + Fan
    BY <1>2, Rounding
  <2>3. hv <= PdeDown(hv) + more
    BY <1>1, <1>2, <2>2, Multiples
  <2> HIDE DEF hv, more
  <2> QED BY <1>1, <1>2, <1>4, <2>1, <2>2, <2>3
<1>9. hv .. text - 1 \subseteq TextRange
  <2>1. TextRange = PdeDown(hv) .. PdeUp(text) - 1
    BY DEF TextRange
  <2>2. PdeDown(hv) \in Nat /\ PdeDown(hv) <= hv /\ PdeUp(text) \in Nat /\ text <= PdeUp(text)
    BY <1>2, <1>3, Rounding
  <2> HIDE DEF hv, text
  <2> QED BY <1>2, <1>3, <2>1, <2>2
<1>10. GuardPages \subseteq hv .. hv + HvRam - 1
  <2>1. ASSUME NEW g \in Guards PROVE g .. g + Fan - 1 \subseteq hv .. hv + HvRam - 1
    <3>1. g \in Nat /\ PdeUp(text) <= g /\ g + Fan <= hv + HvRam
      BY HvPagingAssumption DEF ImageInv
    <3>2. PdeUp(text) \in Nat /\ text <= PdeUp(text)
      BY <1>3, Rounding
    <3> HIDE DEF hv, text
    <3> QED BY <1>1, <1>2, <1>3, <3>1, <3>2
  <2> QED BY <2>1 DEF GuardPages
<1>11. GuardPages \cap Outside = {}
  BY <1>2, <1>10 DEF Outside
<1> QED BY <1>2, <1>3, <1>5, <1>6, <1>7, <1>8, <1>9, <1>10, <1>11

\* The regions of hv_access_memory_region_update are whole PDEs that contain their base.
LEMMA UpdateRanges ==
    ASSUME NEW b \in Nat, NEW size \in Nat \ {0}
    PROVE  Whole(UpdateRange(b, size)) /\ b \in UpdateRange(b, size)
<1> DEFINE low == PdeDown(b)
           top == PdeUp(b + size - low)
<1>1. low \in Nat /\ low <= b /\ Multiple(low)
  BY Rounding
<1>2. b + size - low \in Nat
  BY <1>1
<1>3. top \in Nat /\ b + size - low <= top /\ Multiple(top)
  BY <1>2, Rounding
<1>4. UpdateRange(b, size) = low .. low + top - 1
  BY DEF UpdateRange
<1> HIDE DEF low, top
<1>5. Multiple(low + top)
  BY <1>1, <1>3, Multiples
<1>6. Whole(low .. low + top - 1)
  <2> DEFINE c == low + top
  <2> HIDE DEF c
  <2>1. Whole(low .. c - 1)
    BY <1>1, <1>5, WholeRange DEF c
  <2> QED BY <1>1, <1>3, <2>1 DEF c
<1> QED BY <1>1, <1>3, <1>4, <1>6

\* What a modification of whole PDEs does to the entry of each page.
LEMMA ModifyPages ==
    ASSUME ~TweakExe, NEW t, Typed(t), NoTables(t), NEW r, Whole(r), NEW set, NEW clr,
           NEW u, u = mmu_modify(t, r, set, clr)
    PROVE  /\ Typed(u) /\ NoTables(u)
           /\ \A x \in Page : Changed(View(t, x), View(u, x), x \in r, set, clr)
<1>1. Typed(u) /\ NoTables(u)
  BY OpsKeep
<1>2. ASSUME NEW x \in Page PROVE Changed(View(t, x), View(u, x), x \in r, set, clr)
  BY ModifyRights
<1> QED BY <1>1, <1>2

\* What becomes of an entry that is modified.
LEMMA ChangedEntry ==
    ASSUME NEW e, NEW d, NEW x, NEW r, NEW set, NEW clr, Changed(e, d, x \in r, set, clr),
           e = None \/ e.kind = "leaf"
    PROVE  /\ d.kind = e.kind /\ d.pa = e.pa /\ (d = None <=> e = None)
           /\ \A w : w \in d.prot <=> IF x \in r /\ e # None THEN w \in set \/ (w \in e.prot /\ w \notin clr)
                                                          ELSE w \in e.prot
<1>1. CASE e = None \/ x \notin r
  BY <1>1 DEF Changed
<1>2. CASE e # None /\ x \in r
  <2>1. d.kind = "leaf" /\ d.pa = e.pa /\ d.prot = (e.prot \ clr) \cup set /\ d # None
    BY <1>2, EntryFields DEF Changed
  <2> QED BY <1>2, <2>1
<1> QED BY <1>1, <1>2

\* The invariant after a step of the BSP that leaves the image and the memory map.
LEMMA PagingStep ==
    ASSUME UNCHANGED <<image, hv_e820>>, Typed(ppt'), NoTables(ppt'), BSP' \notin {"e820", "add"},
           BSP' \in AddDone => FourG <= high64_max_ram /\ high64_max_ram <= Top,
           \A x \in Page : PageAs(BSP', View(ppt', x), x, high64_max_ram, TextRange, ImageRange)
    PROVE  PagingInv'
<1>1. high64_max_ram' = high64_max_ram
  BY DEF high64_max_ram
<1>2. TextRange' = TextRange /\ ImageRange' = ImageRange
  BY DEF TextRange, ImageRange
<1>3. \A x \in Page : PageInv(x)'
  BY <1>1, <1>2 DEF PageInv
<1> QED BY <1>1, <1>3 DEF PagingInv

\* A modification: what is to be shown of each page it leaves mapped as it was.
LEMMA ModifyKeepsPaging ==
    ASSUME HostConfiguration, PagingInv, UNCHANGED <<image, hv_e820>>, NEW r, Whole(r), NEW set, NEW clr,
           ppt' = mmu_modify(ppt, r, set, clr), BSP \in AddDone, BSP' \in AddDone,
           \A x \in Page : \A d :
             PageInv(x) /\ Changed(View(ppt, x), d, x \in r, set, clr) /\ (View(ppt, x) = None \/ View(ppt, x).kind = "leaf")
               => PageAs(BSP', d, x, high64_max_ram, TextRange, ImageRange)
    PROVE  PagingInv'
<1>1. Typed(ppt) /\ NoTables(ppt) /\ ~TweakExe
  BY DEF PagingInv, HostConfiguration
<1>2. /\ Typed(ppt') /\ NoTables(ppt')
      /\ \A x \in Page : Changed(View(ppt, x), View(ppt', x), x \in r, set, clr)
  BY <1>1, ModifyPages
<1>3. \A x \in Page : PageAs(BSP', View(ppt', x), x, high64_max_ram, TextRange, ImageRange)
  BY <1>2, ViewKinds DEF PagingInv
<1>4. BSP' \notin {"e820", "add"}
  BY DEF AddDone, Late, SetUpStages
<1>5. FourG <= high64_max_ram /\ high64_max_ram <= Top
  BY DEF PagingInv
<1> QED BY <1>2, <1>3, <1>4, <1>5, PagingStep

\* MapAll maps every page below the end of memory.
LEMMA MapAllStep == ASSUME HostConfiguration, OrderInv, PagingInv, Paging, MapAll PROVE PagingInv'
<1> DEFINE H == high64_max_ram
           wrong == H > PageOf(TopAddrSpace) \/ H < FourG
           prot == {"P", "RW", "USER", "NX"}
<1>1. BSP = "add" /\ UNCHANGED <<image, hv_e820>> /\ ppt = EmptyTable /\ BOOT_CPU_ID \in Pcpu
  BY HvPagingAssumption DEF MapAll, Then, Step, BSP, PagingInv
<1>2. /\ BSP' = IF wrong THEN "panic" ELSE "low"
      /\ ppt' = IF wrong THEN ppt ELSE mmu_add(ppt, 0, 0, H, prot)
  BY <1>1 DEF MapAll, Then, Step, BSP, OrderInv
<1>3. H \in Nat /\ Multiple(H)
  <2>1. hv_e820 = init_e820(mbi.mmap) /\ BootProvides(mbi)
    BY <1>1 DEF OrderInv, HostConfiguration
  <2>2. mbi.mmap \in Seq(MapEntry)
    BY <2>1 DEF BootProvides, MapEntry
  <2> QED BY <2>1, <2>2, RamEnds
<1> HIDE DEF H
<1>4. CASE wrong
  <2>1. BSP' = "panic" /\ ppt' = ppt
    BY <1>2, <1>4
  <2>2. BSP' \notin AddDone \cup WbDone \cup TextDone \cup DelDone \cup UartDone \cup DrhdDone
    BY <2>1 DEF AddDone, WbDone, TextDone, DelDone, UartDone, DrhdDone, Late, SetUpStages
  <2>3. \A x \in Page : PageAs(BSP', View(ppt', x), x, high64_max_ram, TextRange, ImageRange)
    BY <2>2 DEF PageAs
  <2> QED BY <1>1, <2>1, <2>2, <2>3, PagingStep DEF PagingInv
<1>5. CASE ~wrong
  <2>1. BSP' = "low" /\ ppt' = mmu_add(EmptyTable, 0, 0, H, prot)
    BY <1>1, <1>2, <1>5
  <2>2. H <= PageOf(TopAddrSpace) /\ FourG <= H
    <3>1. PageOf(TopAddrSpace) \in Nat
      BY E820Assumption, DivBounds DEF PageOf
    <3> QED BY <1>3, <1>5, <3>1, HvPagingAssumption DEF Page
  <2>3. H <= Top
    <3>1. PAGE_SIZE \in Nat \ {0} /\ TopAddrSpace \in Nat /\ Top \in Nat /\ TopAddrSpace <= Top * PAGE_SIZE
      BY E820Assumption, HvPagingAssumption, PageTableAssumption
    <3> DEFINE k == TopAddrSpace \div PAGE_SIZE
    <3>2. k \in Nat /\ k * PAGE_SIZE <= TopAddrSpace
      BY <3>1, DivBounds
    <3> HIDE DEF k
    <3>3. k <= Top
      <4>1. k * PAGE_SIZE <= Top * PAGE_SIZE
        BY <3>1, <3>2
      <4>2. ASSUME Top < k PROVE FALSE
        <5>1. Top * PAGE_SIZE + PAGE_SIZE <= k * PAGE_SIZE
          BY <3>1, <3>2, <4>2, NextMultiple
        <5>2. Top * PAGE_SIZE \in Nat /\ k * PAGE_SIZE \in Nat
          BY <3>1, <3>2
        <5> QED BY <3>1, <4>1, <5>1, <5>2
      <4> QED BY <3>1, <3>2, <4>2
    <3> QED BY <1>3, <2>2, <3>1, <3>2, <3>3 DEF k, PageOf
  <2>4. Typed(EmptyTable) /\ NoTables(ppt')
    BY <1>3, <2>1, <2>3, AddNoTables DEF HostConfiguration
  <2>5. 0 .. 0 + H - 1 \subseteq Page /\ Top \in Nat /\ Free(EmptyTable, 0, H)
    <3>1. 0 .. 0 + H - 1 \subseteq Page /\ Top \in Nat
      BY <1>3, <2>3, PageTableAssumption DEF Page
    <3> QED BY <3>1, EmptyFree
  <2>6. Typed(ppt')
    BY <1>3, <2>1, <2>4, <2>5, AddTyped
  <2>7. ASSUME NEW x \in Page PROVE PageAs(BSP', View(ppt', x), x, H, TextRange, ImageRange)
    <3>1. View(ppt', x) = Added(EmptyTable, 0, 0, H, prot, x)
      BY <1>3, <2>1, <2>4, <2>5, AddView
    <3>2. View(EmptyTable, x) = None /\ VisibleProt(prot) = prot
      BY ViewKinds DEF VisibleProt, HostConfiguration
    <3>3. View(ppt', x) = IF x \in 0 .. 0 + H - 1 THEN Leaf(0 + x - 0, prot) ELSE None
      BY <3>1, <3>2 DEF Added
    <3>4. x \in Nat
      BY <2>5 DEF Page
    <3>5. x < H => View(ppt', x).kind = "leaf" /\ View(ppt', x).pa = x /\ "P" \in View(ppt', x).prot /\ "NX" \in View(ppt', x).prot
      BY <1>3, <3>3, <3>4, EntryFields
    <3>6. ~(x < H) => View(ppt', x) = None
      BY <1>3, <3>3, <3>4
    <3>7. BSP' \notin WbDone \cup TextDone \cup DelDone \cup UartDone \cup DrhdDone
      BY <2>1 DEF WbDone, TextDone, DelDone, UartDone, DrhdDone, Late, SetUpStages
    <3> HIDE DEF prot
    <3> QED BY <3>5, <3>6, <3>7 DEF PageAs
  <2>8. BSP' \notin {"e820", "add"}
    BY <2>1
  <2> QED BY <1>1, <2>2, <2>3, <2>4, <2>6, <2>7, <2>8, PagingStep DEF H
<1> QED BY <1>4, <1>5

\* RAM becomes write-back, the image is taken from the user and its code made executable.
LEMMA RightsSteps ==
    ASSUME HostConfiguration, OrderInv, ImageInv, PagingInv, Paging, LowWb \/ HighWb \/ ImageWb \/ TextExecutable
    PROVE  PagingInv'
<1>1. UNCHANGED <<image, hv_e820>> /\ BOOT_CPU_ID \in Pcpu
  BY HvPagingAssumption DEF LowWb, HighWb, ImageWb, TextExecutable, Then
<1>2. ASSUME NEW from, NEW to, NEW t, Then(from, to, t) PROVE BSP = from /\ BSP' = to /\ ppt' = t
  BY <1>1, <1>2 DEF Then, Step, BSP, OrderInv
<1>3. CASE LowWb \/ HighWb
  <2>1. PICK r : Whole(r) /\ ppt' = mmu_modify(ppt, r, {"WB"}, {"WB"})
    <3>1. BSP \in {"low", "high"}
      BY <1>2, <1>3 DEF LowWb, HighWb
    <3>2. hv_e820 = init_e820(mbi.mmap) /\ mbi.mmap \in Seq(MapEntry)
      BY <3>1 DEF OrderInv, HostConfiguration, BootProvides, MapEntry
    <3>3. Multiple(high64_max_ram) /\ Multiple(PdeUp(PageUp(low32_max_ram)))
      BY <3>2, RamEnds
    <3>4. Multiple(0) /\ Multiple(FourG)
      <4>1. Fan \in Nat \ {0} /\ FourG \in Nat /\ FourG % (Fan * Fan) = 0
        BY PageTableAssumption, HvPagingAssumption DEF Page
      <4> QED BY <4>1, Multiples, MultipleRest
    <3>5. Whole(0 .. PdeUp(PageUp(low32_max_ram)) - 1) /\ Whole(FourG .. high64_max_ram - 1)
      BY <3>3, <3>4, WholeRange
    <3>6. CASE LowWb
      BY <1>2, <3>5, <3>6 DEF LowWb, SetWb
    <3>7. CASE HighWb
      BY <1>2, <3>5, <3>7 DEF HighWb, SetWb
    <3> QED BY <1>3, <3>6, <3>7
  <2>2. BSP \in {"low", "high"} /\ BSP' \in {"high", "image"}
    BY <1>2, <1>3 DEF LowWb, HighWb
  <2>3. BSP \in AddDone /\ BSP' \in AddDone /\ BSP \notin DelDone
        /\ BSP' \notin WbDone \cup TextDone \cup DelDone \cup UartDone \cup DrhdDone
    BY <2>2 DEF AddDone, WbDone, TextDone, DelDone, UartDone, DrhdDone, Late, SetUpStages
  <2>4. ASSUME NEW x \in Page, NEW d, PageInv(x), Changed(View(ppt, x), d, x \in r, {"WB"}, {"WB"}),
               View(ppt, x) = None \/ View(ppt, x).kind = "leaf"
        PROVE  PageAs(BSP', d, x, high64_max_ram, TextRange, ImageRange)
    <3> DEFINE e == View(ppt, x)
    <3>1. /\ d.kind = e.kind /\ d.pa = e.pa /\ (d = None <=> e = None)
          /\ \A w : w # "WB" => (w \in d.prot <=> w \in e.prot)
      BY <2>4, ChangedEntry
    <3> HIDE DEF e
    <3>2. PageAs(BSP, e, x, high64_max_ram, TextRange, ImageRange)
      BY <2>4 DEF PageInv, e
    <3>3. "P" # "WB" /\ "NX" # "WB"
      OBVIOUS
    <3> QED BY <2>3, <3>1, <3>2, <3>3 DEF PageAs
  <2> QED BY <1>1, <2>1, <2>3, <2>4, ModifyKeepsPaging
<1>4. CASE ImageWb
  <2>1. BSP = "image" /\ BSP' = "text" /\ ppt' = mmu_modify(ppt, ImageRange, {"WB"}, {"WB", "USER"})
    BY <1>2, <1>4 DEF ImageWb
  <2>2. BSP \in AddDone /\ BSP' \in AddDone /\ BSP \notin DelDone
        /\ BSP' \notin TextDone \cup DelDone \cup UartDone \cup DrhdDone
    BY <2>1 DEF AddDone, TextDone, DelDone, UartDone, DrhdDone, Late, SetUpStages
  <2>3. ASSUME NEW x \in Page, NEW d, PageInv(x), Changed(View(ppt, x), d, x \in ImageRange, {"WB"}, {"WB", "USER"}),
               View(ppt, x) = None \/ View(ppt, x).kind = "leaf"
        PROVE  PageAs(BSP', d, x, high64_max_ram, TextRange, ImageRange)
    <3> DEFINE e == View(ppt, x)
    <3>1. /\ d.kind = e.kind /\ d.pa = e.pa /\ (d = None <=> e = None)
          /\ \A w : w \notin {"WB", "USER"} => (w \in d.prot <=> w \in e.prot)
          /\ x \in ImageRange /\ e # None => "WB" \in d.prot /\ "USER" \notin d.prot
      BY <2>3, ChangedEntry
    <3> HIDE DEF e
    <3>2. PageAs(BSP, e, x, high64_max_ram, TextRange, ImageRange)
      BY <2>3 DEF PageInv, e
    <3>3. "P" \notin {"WB", "USER"} /\ "NX" \notin {"WB", "USER"}
      OBVIOUS
    <3> QED BY <2>2, <3>1, <3>2, <3>3 DEF PageAs
  <2> QED BY <1>1, <2>1, <2>2, <2>3, ImageRanges, ModifyKeepsPaging
<1>5. CASE TextExecutable
  <2>1. BSP = "text" /\ BSP' = "guards" /\ ppt' = mmu_modify(ppt, TextRange, {}, {"NX"})
    BY <1>2, <1>5 DEF TextExecutable
  <2>2. BSP \in AddDone \cap WbDone /\ BSP' \in AddDone /\ BSP \notin DelDone
        /\ BSP' \notin DelDone \cup UartDone \cup DrhdDone
    BY <2>1 DEF AddDone, WbDone, DelDone, UartDone, DrhdDone, Late, SetUpStages
  <2>3. ASSUME NEW x \in Page, NEW d, PageInv(x), Changed(View(ppt, x), d, x \in TextRange, {}, {"NX"}),
               View(ppt, x) = None \/ View(ppt, x).kind = "leaf"
        PROVE  PageAs(BSP', d, x, high64_max_ram, TextRange, ImageRange)
    <3> DEFINE e == View(ppt, x)
    <3>1. /\ d.kind = e.kind /\ d.pa = e.pa /\ (d = None <=> e = None)
          /\ \A w : w # "NX" \/ x \notin TextRange => (w \in d.prot <=> w \in e.prot)
          /\ x \in TextRange /\ e # None => "NX" \notin d.prot
      BY <2>3, ChangedEntry
    <3> HIDE DEF e
    <3>2. PageAs(BSP, e, x, high64_max_ram, TextRange, ImageRange)
      BY <2>3 DEF PageInv, e
    <3>3. "P" # "NX" /\ "WB" # "NX" /\ "USER" # "NX"
      OBVIOUS
    <3> QED BY <2>2, <3>1, <3>2, <3>3 DEF PageAs
  <2> QED BY <1>1, <2>1, <2>2, <2>3, ImageRanges, ModifyKeepsPaging
<1> QED BY <1>3, <1>4, <1>5

\* The guard pages are unmapped and nothing else.
LEMMA GuardStep == ASSUME HostConfiguration, OrderInv, ImageInv, PagingInv, Paging, DelGuards PROVE PagingInv'
<1>1. UNCHANGED <<image, hv_e820>> /\ BOOT_CPU_ID \in Pcpu
  BY HvPagingAssumption DEF DelGuards, Then
<1>2. BSP = "guards" /\ BSP' = "enable" /\ ppt' = mmu_del(ppt, GuardPages)
  BY <1>1 DEF DelGuards, Then, Step, BSP, OrderInv, GuardPages
<1>3. Typed(ppt') /\ NoTables(ppt')
  BY <1>2, ImageRanges, OpsKeep DEF PagingInv
<1>4. BSP \in AddDone \cap WbDone \cap TextDone /\ BSP \notin DelDone /\ BSP' \notin UartDone \cup DrhdDone
  BY <1>2 DEF AddDone, WbDone, TextDone, DelDone, UartDone, DrhdDone, Late, SetUpStages
<1>5. ASSUME NEW x \in Page PROVE PageAs(BSP', View(ppt', x), x, high64_max_ram, TextRange, ImageRange)
  <2> DEFINE e == View(ppt, x)
             d == View(ppt', x)
  <2>1. d = IF x \in GuardPages THEN None ELSE e
    BY <1>2, DelView DEF PagingInv
  <2>2. PageAs(BSP, e, x, high64_max_ram, TextRange, ImageRange)
    BY DEF PagingInv, PageInv
  <2>3. BSP' \in DelDone
    BY <1>2 DEF DelDone, SetUpStages
  <2> HIDE DEF e, d
  <2>4. PageAs(BSP', d, x, high64_max_ram, TextRange, ImageRange)
    BY <1>4, <2>1, <2>2, <2>3 DEF PageAs
  <2> QED BY <2>4 DEF d
<1>6. FourG <= high64_max_ram /\ high64_max_ram <= Top
  BY <1>4 DEF PagingInv
<1> QED BY <1>1, <1>2, <1>3, <1>5, <1>6, PagingStep

\* A region of registers loses the right of the user and nothing else.
LEMMA RegionStep ==
    ASSUME HostConfiguration, PagingInv, UNCHANGED <<image, hv_e820>>, NEW B, B \subseteq Page, NEW size \in Nat \ {0},
           RegionUpdate(B, size), BSP \in DelDone, BSP' \in DelDone,
           BSP' \in UartDone => BSP \in UartDone \/ Devices \ Drhds \subseteq B,
           BSP' \in DrhdDone => BSP \in UartDone /\ Drhds \subseteq B
    PROVE  PagingInv'
<1> DEFINE r == UNION {UpdateRange(b, size) : b \in B}
<1>1. \A b \in B : Whole(UpdateRange(b, size)) /\ b \in UpdateRange(b, size)
  BY UpdateRanges DEF Page
<1>2. Whole(r) /\ B \subseteq r
  BY <1>1, WholeUnion
<1>3. ppt' = mmu_modify(ppt, r, {}, {"USER"})
  BY DEF RegionUpdate
<1> HIDE DEF r
<1>4. /\ BSP \in AddDone \cap WbDone \cap TextDone
      /\ BSP' \in AddDone \cap WbDone \cap TextDone
  BY DEF DelDone, AddDone, WbDone, TextDone
<1>5. ASSUME NEW x \in Page, NEW d, PageInv(x), Changed(View(ppt, x), d, x \in r, {}, {"USER"}),
             View(ppt, x) = None \/ View(ppt, x).kind = "leaf"
      PROVE  PageAs(BSP', d, x, high64_max_ram, TextRange, ImageRange)
  <2> DEFINE e == View(ppt, x)
  <2>1. /\ d.kind = e.kind /\ d.pa = e.pa /\ (d = None <=> e = None)
        /\ \A w : w # "USER" => (w \in d.prot <=> w \in e.prot)
        /\ "USER" \in d.prot => "USER" \in e.prot /\ (x \notin r \/ e = None)
    BY <1>5, ChangedEntry
  <2>2. e = None => "USER" \notin e.prot
    BY EntryFields
  <2> HIDE DEF e
  <2>3. PageAs(BSP, e, x, high64_max_ram, TextRange, ImageRange)
    BY <1>5 DEF PageInv, e
  <2>4. "P" # "USER" /\ "WB" # "USER" /\ "NX" # "USER"
    OBVIOUS
  <2>5. BSP' \in UartDone /\ x \in Devices \ Drhds => "USER" \notin d.prot
    BY <1>2, <2>1, <2>2, <2>3 DEF PageAs
  <2>6. BSP' \in DrhdDone /\ x \in Devices => "USER" \notin d.prot
    BY <1>2, <2>1, <2>2, <2>3 DEF PageAs
  <2> QED BY <1>4, <2>1, <2>3, <2>4, <2>5, <2>6 DEF PageAs
<1> QED BY <1>2, <1>3, <1>4, <1>5, ModifyKeepsPaging

LEMMA RegionSteps ==
    ASSUME HostConfiguration, OrderInv, PagingInv, InitUart \/ init_interrupt \/ register_hrhd_units
    PROVE  PagingInv'
<1>1. UNCHANGED <<image, hv_e820>> /\ BOOT_CPU_ID \in Pcpu
  BY HvPagingAssumption DEF InitUart, init_interrupt, register_hrhd_units
<1>2. ASSUME NEW from, NEW to, Step(BOOT_CPU_ID, from, to) PROVE BSP = from /\ BSP' = to
  BY <1>1, <1>2 DEF Step, BSP, OrderInv
<1>3. Fan \in Nat \ {0} /\ 1 \in Nat \ {0} /\ Devices \subseteq Page /\ Ioapics \subseteq Page
  BY PageTableAssumption DEF HostConfiguration, Outside
<1>4. CASE InitUart
  <2>1. BSP = "uart" /\ BSP' = "interrupt"
    BY <1>2, <1>4 DEF InitUart
  <2>2. BSP \in DelDone /\ BSP' \in DelDone /\ BSP' \notin DrhdDone
    BY <2>1 DEF DelDone, DrhdDone, Late, SetUpStages
  <2>3. CASE Uart.enabled /\ ~Uart.port_mapped
    <3>1. RegionUpdate({Uart.base}, Fan)
      BY <1>4, <2>3 DEF InitUart, uart16550_init
    <3>2. Devices \ Drhds \subseteq {Uart.base} /\ {Uart.base} \subseteq Page
      BY <1>3, <2>3 DEF Devices
    <3> QED BY <1>1, <1>3, <2>2, <3>1, <3>2, RegionStep
  <2>4. CASE ~(Uart.enabled /\ ~Uart.port_mapped)
    <3>1. ppt' = ppt
      BY <1>4, <2>4 DEF InitUart, uart16550_init
    <3>2. Devices \ Drhds = {}
      BY <2>4 DEF Devices
    <3>3. BSP \in AddDone \cap WbDone \cap TextDone
      BY <2>2 DEF DelDone, AddDone, WbDone, TextDone
    <3>4. ASSUME NEW x \in Page PROVE PageAs(BSP', View(ppt, x), x, high64_max_ram, TextRange, ImageRange)
      <4> DEFINE e == View(ppt, x)
      <4>1. PageAs(BSP, e, x, high64_max_ram, TextRange, ImageRange)
        BY DEF PagingInv, PageInv
      <4> HIDE DEF e
      <4>2. PageAs(BSP', e, x, high64_max_ram, TextRange, ImageRange)
        BY <2>2, <3>2, <3>3, <4>1 DEF PageAs
      <4> QED BY <4>2 DEF e
    <3>5. FourG <= high64_max_ram /\ high64_max_ram <= Top /\ Typed(ppt') /\ NoTables(ppt')
      BY <3>1, <3>3 DEF PagingInv
    <3> QED BY <1>1, <2>1, <3>1, <3>4, <3>5, PagingStep
  <2> QED BY <2>3, <2>4
<1>5. CASE init_interrupt
  <2>1. BSP = "interrupt" /\ BSP' = "iommu" /\ RegionUpdate(Ioapics, 1)
    BY <1>2, <1>5 DEF init_interrupt, ioapic_setup_irqs
  <2>2. BSP \in DelDone \cap UartDone /\ BSP' \in DelDone /\ BSP' \notin DrhdDone
    BY <2>1 DEF DelDone, UartDone, DrhdDone, Late, SetUpStages
  <2> QED BY <1>1, <1>3, <2>1, <2>2, RegionStep
<1>6. CASE register_hrhd_units
  <2>1. BSP = "iommu" /\ BSP' = "start_pcpus" /\ RegionUpdate(Drhds, 1)
    BY <1>2, <1>6 DEF register_hrhd_units
  <2>2. BSP \in DelDone \cap UartDone /\ BSP' \in DelDone
    BY <2>1 DEF DelDone, UartDone, DrhdDone, Late, SetUpStages
  <2>3. Drhds \subseteq Page
    BY <1>3 DEF Devices
  <2> QED BY <1>1, <1>3, <2>1, <2>2, <2>3, RegionStep
<1> QED BY <1>4, <1>5, <1>6

\* The other steps leave the tables.
LEMMA OtherPaging ==
    ASSUME HostConfiguration, OrderInv, PagingInv,
           InitE820 \/ EnablePaging \/ prepare_trampoline \/ \E c : LateStep(c)
    PROVE  PagingInv'
<1>1. ppt' = ppt /\ image' = image /\ BOOT_CPU_ID \in Pcpu
  BY HvPagingAssumption DEF InitE820, EnablePaging, prepare_trampoline, LateStep
<1>2. CASE InitE820
  <2>1. BSP = "e820" /\ BSP' \in {"add", "panic"}
    BY <1>1, <1>2 DEF InitE820, Step, BSP, OrderInv
  <2>2. BSP' \notin AddDone \cup WbDone \cup TextDone \cup DelDone \cup UartDone \cup DrhdDone
    BY <2>1 DEF AddDone, WbDone, TextDone, DelDone, UartDone, DrhdDone, Late, SetUpStages
  <2>3. \A x, e, t, r, s : PageAs(BSP', e, x, t, r, s)
    BY <2>2 DEF PageAs
  <2>4. \A x \in Page : PageInv(x)'
    BY <2>3 DEF PageInv
  <2> QED BY <1>1, <2>1, <2>2, <2>4 DEF PagingInv
<1>3. CASE EnablePaging \/ prepare_trampoline \/ \E c : LateStep(c)
  <2> DEFINE S == {"enable", "uart"}
             L == {"start_pcpus", "panic"} \cup Late
  <2>1. \/ BSP \in S /\ BSP' \in S
        \/ BSP \in L \ {"panic"} /\ BSP' \in L
    <3>1. CASE EnablePaging
      BY <1>1, <3>1 DEF EnablePaging, Step, BSP, OrderInv
    <3>2. CASE prepare_trampoline
      BY <1>1, <3>2 DEF prepare_trampoline, BSP, OrderInv, Late
    <3>3. CASE \E c : LateStep(c)
      <4>1. BSP \in Late /\ BSP' \in Late
        BY <3>3, LateOrder
      <4> QED BY <4>1 DEF Late
    <3> QED BY <1>3, <3>1, <3>2, <3>3
  <2>2. hv_e820' = hv_e820
    BY <1>3 DEF EnablePaging, prepare_trampoline, LateStep
  <2>3. /\ BSP \in AddDone \cap WbDone \cap TextDone \cap DelDone
        /\ BSP' \in UartDone => BSP \in UartDone
        /\ BSP' \in DrhdDone => BSP \in DrhdDone
        /\ BSP' \in AddDone \cup WbDone \cup TextDone \cup DelDone => BSP' \in DelDone
        /\ BSP' \notin {"e820", "add"}
    BY <2>1 DEF AddDone, WbDone, TextDone, DelDone, UartDone, DrhdDone, Late, SetUpStages
  <2>4. ASSUME NEW x \in Page PROVE PageAs(BSP', View(ppt, x), x, high64_max_ram, TextRange, ImageRange)
    <3> DEFINE e == View(ppt, x)
    <3>1. PageAs(BSP, e, x, high64_max_ram, TextRange, ImageRange)
      BY DEF PagingInv, PageInv
    <3> HIDE DEF e
    <3>2. PageAs(BSP', e, x, high64_max_ram, TextRange, ImageRange)
      BY <2>3, <3>1 DEF PageAs
    <3> QED BY <3>2 DEF e
  <2>5. FourG <= high64_max_ram /\ high64_max_ram <= Top /\ Typed(ppt') /\ NoTables(ppt')
    BY <1>1, <2>3 DEF PagingInv
  <2> QED BY <1>1, <2>2, <2>3, <2>4, <2>5, PagingStep
<1> QED BY <1>2, <1>3

\* The tables are as init_paging is to make them, whichever step comes next.
LEMMA PagingInvariance == ASSUME HostConfiguration PROVE HostSpec => []PagingInv
<1>1. HostInit => PagingInv
  <2> SUFFICES ASSUME HostInit PROVE PagingInv
    OBVIOUS
  <2>1. BSP = "e820" /\ ppt = EmptyTable
    BY HvPagingAssumption DEF HostInit, BSP
  <2>2. BSP \notin AddDone \cup WbDone \cup TextDone \cup DelDone \cup UartDone \cup DrhdDone
    BY <2>1 DEF AddDone, WbDone, TextDone, DelDone, UartDone, DrhdDone, Late, SetUpStages
  <2>3. \A x \in Page : PageInv(x)
    BY <2>2 DEF PageInv, PageAs
  <2>4. Typed(EmptyTable) /\ NoTables(EmptyTable)
    BY EntryFields DEF Typed, NoTables, EmptyTable
  <2> QED BY <2>1, <2>2, <2>3, <2>4 DEF PagingInv
<1>2. OrderInv /\ ImageInv /\ PagingInv /\ [HostNext]_allVars => PagingInv'
  <2> SUFFICES ASSUME OrderInv, ImageInv, PagingInv, [HostNext]_allVars PROVE PagingInv'
    OBVIOUS
  <2>1. CASE Paging
    BY <2>1, MapAllStep, RightsSteps, GuardStep DEF Paging, init_paging
  <2>2. CASE InitUart \/ init_interrupt \/ register_hrhd_units
    BY <2>2, RegionSteps
  <2>3. CASE InitE820 \/ EnablePaging \/ prepare_trampoline
    BY <2>3, OtherPaging
  <2>4. CASE StartTest \/ \E c \in Pcpu : EnableSmep(c) \/ EnableSmap(c) \/ InitGuestMode(c) \/ PrepareVm(c)
    BY <2>4, Steps, OtherPaging
  <2>5. CASE UNCHANGED allVars
    <3>1. UNCHANGED <<ppt, stage, image, hv_e820>>
      BY <2>5 DEF allVars, pagingVars
    <3>2. high64_max_ram' = high64_max_ram /\ TextRange' = TextRange /\ ImageRange' = ImageRange /\ BSP' = BSP
      BY <3>1 DEF high64_max_ram, TextRange, ImageRange, BSP
    <3>3. \A x \in Page : PageInv(x)'
      BY <3>1, <3>2 DEF PageInv, PagingInv
    <3> QED BY <3>1, <3>2, <3>3 DEF PagingInv
  <2> QED BY <2>1, <2>2, <2>3, <2>4, <2>5 DEF HostNext
<1> QED BY <1>1, <1>2, OrderInvariance, PTL DEF HostSpec

\* The image is mapped one to one with large pages, write-back and for the
\* supervisor; its code alone is executable; and the guard pages are not mapped.
THEOREM MappingIsRight == ASSUME HostConfiguration PROVE HostSpec => []MappingRight
<1>1. OrderInv /\ ImageInv /\ PagingInv => MappingRight
  <2> SUFFICES ASSUME OrderInv, ImageInv, PagingInv PROVE MappingRight
    OBVIOUS
  <2>1. NoPageTable
    BY EntryFields DEF NoPageTable, Seen, PagingInv, NoTables
  <2>2. ImageProtected
    <3> DEFINE pages == image.hv_hpa .. image.hv_hpa + HvRam - 1
    <3> SUFFICES ASSUME BSP \notin {"e820", "add", "low", "high", "image", "text", "guards", "panic"}
                 PROVE  /\ \A v \in GuardPages : ~Mapped(ppt, v)
                        /\ \A v \in pages \ GuardPages :
                             /\ Translate(ppt, v).pa = v /\ {"P", "WB"} \subseteq Translate(ppt, v).prot
                             /\ "USER" \notin Translate(ppt, v).prot
                        /\ \A v \in Page : Mapped(ppt, v) =>
                             /\ v \in image.hv_hpa .. image.text_end - 1 => "NX" \notin Translate(ppt, v).prot
                             /\ "NX" \notin Translate(ppt, v).prot => v \in TextRange
      BY DEF ImageProtected, BSP, GuardPages
    <3>1. BSP \in DelDone
      <4>1. BSP \in Early \cup Late
        BY HvPagingAssumption DEF OrderInv, BSP
      <4> QED BY <4>1 DEF DelDone, Early
    <3>2. BSP \in AddDone \cap WbDone \cap TextDone
      BY <3>1 DEF DelDone, AddDone, WbDone, TextDone
    <3>3. /\ GuardPages \subseteq pages /\ pages \subseteq ImageRange
          /\ image.hv_hpa .. image.text_end - 1 \subseteq TextRange
          /\ image.hv_hpa \in Nat /\ image.hv_hpa + HvRam <= FourG
      BY ImageRanges
    <3>4. FourG <= high64_max_ram /\ high64_max_ram <= Top
      BY <3>2 DEF PagingInv
    <3>5. pages \subseteq Page /\ \A v \in pages : v < high64_max_ram
      <4>1. HvRam \in Nat /\ FourG \in Nat /\ Top \in Nat
        BY HvPagingAssumption, PageTableAssumption DEF Page
      <4>2. high64_max_ram \in Int
        <5>1. hv_e820 = init_e820(mbi.mmap) /\ mbi.mmap \in Seq(MapEntry)
          BY DEF OrderInv, HostConfiguration, BootProvides, MapEntry
        <5> QED BY <5>1, RamEnds
      <4> QED BY <3>3, <3>4, <4>1, <4>2 DEF Page
    <3>6. \A v \in Page : Translate(ppt, v) = View(ppt, v) /\ (Mapped(ppt, v) <=> View(ppt, v) # None)
      BY ViewIsTranslate, ViewWalk DEF HostConfiguration
    <3>7. \A v \in Page : PageAs(BSP, View(ppt, v), v, high64_max_ram, TextRange, ImageRange)
      BY DEF PagingInv, PageInv
    <3> HIDE DEF pages
    <3>8. \A v \in GuardPages : ~Mapped(ppt, v)
      BY <3>1, <3>3, <3>5, <3>6, <3>7 DEF PageAs
    <3>9. ASSUME NEW v \in pages \ GuardPages
          PROVE  /\ Translate(ppt, v).pa = v /\ {"P", "WB"} \subseteq Translate(ppt, v).prot
                 /\ "USER" \notin Translate(ppt, v).prot
      <4>1. v \in Page /\ v \in ImageRange /\ v < high64_max_ram /\ Translate(ppt, v) = View(ppt, v)
        BY <3>3, <3>5, <3>6
      <4>2. View(ppt, v).kind = "leaf" /\ View(ppt, v).pa = v /\ "P" \in View(ppt, v).prot
        BY <3>2, <3>7, <4>1 DEF PageAs
      <4>3. View(ppt, v) # None
        BY <4>2, EntryFields
      <4> QED BY <3>2, <3>7, <4>1, <4>2, <4>3 DEF PageAs
    <3>10. \A v \in Page : Mapped(ppt, v) =>
             /\ v \in image.hv_hpa .. image.text_end - 1 => "NX" \notin Translate(ppt, v).prot
             /\ "NX" \notin Translate(ppt, v).prot => v \in TextRange
      BY <3>2, <3>3, <3>6, <3>7 DEF PageAs
    <3> QED BY <3>8, <3>9, <3>10
  <2> QED BY <2>1, <2>2 DEF MappingRight
<1> QED BY <1>1, OrderInvariance, PagingInvariance, PTL
-----------------------------------------------------------------------------
(***************************************************************************)
(* What the pCPUs set up, and what they access.                            *)
(***************************************************************************)
\* The invariant of one pCPU along what it does.
LEMMA CpuBoot ==
    ASSUME NEW s, NEW h
    PROVE  /\ CpuAs("enable", s, h) => CpuAs("uart", enable_paging(s), h)
           /\ CpuAs("uart", s, h) => CpuAs("interrupt", BeginPost(early_init_lapic(s)), h)
           /\ CpuAs("interrupt", s, h) => CpuAs("iommu", init_lapic(set_idt(s)), h)
           /\ CpuAs("iommu", s, h) => CpuAs("start_pcpus", s, h)
           /\ CpuAs("start_pcpus", s, h) => CpuAs("smep", s, h)
           /\ CpuAs("offline", s, h) => CpuAs("smep", init_secondary_pcpu(s), h)
<1>1. ASSUME CpuAs("enable", s, h) PROVE CpuAs("uart", enable_paging(s), h)
  BY <1>1 DEF CpuAs, enable_paging, Late
<1>2. ASSUME CpuAs("uart", s, h) PROVE CpuAs("interrupt", BeginPost(early_init_lapic(s)), h)
  BY <1>2 DEF CpuAs, enable_paging, BeginPost, load_gdtr_and_tr, set_fs_base, early_init_lapic, Late
<1>3. ASSUME CpuAs("interrupt", s, h) PROVE CpuAs("iommu", init_lapic(set_idt(s)), h)
  <2>1. "x2APIC" \in s
    BY <1>3 DEF CpuAs, BeginPost, load_gdtr_and_tr, set_fs_base
  <2>2. init_lapic(set_idt(s)) = s \cup {"IDTR", "LVT"}
    BY <2>1 DEF init_lapic, set_idt
  <2> QED BY <1>3, <2>2 DEF CpuAs, Late
<1>4. ASSUME CpuAs("iommu", s, h) PROVE CpuAs("start_pcpus", s, h)
  BY <1>4 DEF CpuAs, Late
<1>5. ASSUME CpuAs("start_pcpus", s, h) PROVE CpuAs("smep", s, h)
  BY <1>5 DEF CpuAs, Late, Base, enable_paging, BeginPost, load_gdtr_and_tr, set_fs_base
<1>6. ASSUME CpuAs("offline", s, h) PROVE CpuAs("smep", init_secondary_pcpu(s), h)
  <2>1. init_secondary_pcpu(s) = Base \cup s \cup {"LVT"}
    BY DEF init_secondary_pcpu, init_lapic, set_idt, Base, enable_paging, BeginPost, load_gdtr_and_tr, set_fs_base,
           early_init_lapic
  <2>2. "#GP" \notin Base /\ "CR4.SMAP" \notin Base
    BY DEF Base, enable_paging, BeginPost, load_gdtr_and_tr, set_fs_base
  <2> QED BY <1>6, <2>1, <2>2 DEF CpuAs, Late
<1> QED BY <1>1, <1>2, <1>3, <1>4, <1>5, <1>6

LEMMA CpuGuest ==
    ASSUME NEW s, NEW h
    PROVE  /\ CpuAs("smep", s, h) => CpuAs("smap", s \cup {"CR4.SMEP"}, h)
           /\ CpuAs("smap", s, h) => CpuAs("vmx_on", s \cup {"CR4.SMAP"}, h)
           /\ CpuAs("vmx_on", s, h) => CpuAs("create", vmx_on(s), h)
           /\ \A p, q \in Late \ {"smep", "smap", "vmx_on", "guest"} : CpuAs(p, s, h) => CpuAs(q, s, h)
           /\ CpuAs("started", s, h) => CpuAs("guest", s \cap {"x2APIC"}, init_host_state(s))
           /\ CpuAs("guest", s, h) => CpuAs("exit", s \cup h, h)
<1>1. ASSUME CpuAs("smep", s, h) PROVE CpuAs("smap", s \cup {"CR4.SMEP"}, h)
  BY <1>1 DEF CpuAs, Late
<1>2. ASSUME CpuAs("smap", s, h) PROVE CpuAs("vmx_on", s \cup {"CR4.SMAP"}, h)
  BY <1>2 DEF CpuAs, Late
<1>3. ASSUME CpuAs("vmx_on", s, h) PROVE CpuAs("create", vmx_on(s), h)
  BY <1>3 DEF CpuAs, Late, vmx_on
<1>4. ASSUME NEW p \in Late \ {"smep", "smap", "vmx_on", "guest"}, NEW q \in Late \ {"smep", "smap", "vmx_on", "guest"},
             CpuAs(p, s, h)
      PROVE  CpuAs(q, s, h)
  BY <1>4 DEF CpuAs, Late
<1>5. ASSUME CpuAs("started", s, h) PROVE CpuAs("guest", s \cap {"x2APIC"}, init_host_state(s))
  <2>1. /\ Base \subseteq s /\ "CR4.SMEP" \in s /\ "CR4.SMAP" \in s /\ vmx_on({}) \subseteq s /\ "#GP" \notin s
    BY <1>5 DEF CpuAs, Late
  <2>2. HostBase \subseteq init_host_state(s) /\ "#GP" \notin init_host_state(s) /\ "x2APIC" \in s
    BY <2>1 DEF HostBase, init_host_state, HostTables, HostRegisters, Base, enable_paging, BeginPost, load_gdtr_and_tr,
                set_fs_base, vmx_on
  <2> QED BY <2>1, <2>2 DEF CpuAs, Late
<1>6. ASSUME CpuAs("guest", s, h) PROVE CpuAs("exit", s \cup h, h)
  <2>1. "x2APIC" \in s /\ HostBase \subseteq h /\ "#GP" \notin s /\ "#GP" \notin h
    BY <1>6 DEF CpuAs
  <2>2. Base \subseteq s \cup h /\ "CR4.SMEP" \in h /\ "CR4.SMAP" \in h /\ vmx_on({}) \subseteq h
    BY <2>1 DEF HostBase
  <2> QED BY <2>1, <2>2 DEF CpuAs, Late
<1> QED BY <1>1, <1>2, <1>3, <1>4, <1>5, <1>6

\* A step of one pCPU, which takes it from one stage to the next.
LEMMA CpuStep ==
    ASSUME OrderInv, CpuInv, NEW c \in Pcpu, NEW p, NEW q, Step(c, p, q),
           NEW s, NEW h,
           cpu' = [cpu EXCEPT ![c] = s], host' = [host EXCEPT ![c] = h],
           CpuAs(p, cpu[c], host[c]) => CpuAs(q, s, h),
           \/ stale' = {}
           \/ stale' = stale /\ p \in Late \ {"smep"}
           \/ q \notin Late \ {"smep"} /\ BSP \notin Late
    PROVE  CpuInv'
<1>1. stage[c] = p /\ stage' = [stage EXCEPT ![c] = q] /\ DOMAIN stage = Pcpu /\ BOOT_CPU_ID \in Pcpu
  BY HvPagingAssumption DEF Step, OrderInv
<1>2. cpu' = [d \in Pcpu |-> cpu'[d]] /\ host' = [d \in Pcpu |-> host'[d]]
  BY DEF CpuInv
<1>3. \A d \in Pcpu : CpuAs(stage'[d], cpu'[d], host'[d])
  <2> SUFFICES ASSUME NEW d \in Pcpu PROVE CpuAs(stage'[d], cpu'[d], host'[d])
    OBVIOUS
  <2>1. CASE d = c
    <3>1. stage'[d] = q /\ cpu'[d] = s /\ host'[d] = h
      BY <1>1, <2>1 DEF CpuInv
    <3> QED BY <1>1, <3>1 DEF CpuInv
  <2>2. CASE d # c
    <3>1. stage'[d] = stage[d] /\ cpu'[d] = cpu[d] /\ host'[d] = host[d]
      BY <1>1, <2>2 DEF CpuInv
    <3> QED BY <3>1 DEF CpuInv
  <2> QED BY <2>1, <2>2
<1>4. BSP' \in Late \ {"smep"} => stale' = {}
  <2>1. BSP' = IF c = BOOT_CPU_ID THEN q ELSE BSP
    BY <1>1 DEF BSP
  <2>2. c = BOOT_CPU_ID => BSP = p
    BY <1>1 DEF BSP
  <2> QED BY <2>1, <2>2 DEF CpuInv
<1> QED BY <1>2, <1>3, <1>4 DEF CpuInv

\* What the BSP and the others do, step by step.
LEMMA CpuNext ==
    ASSUME HostConfiguration, OrderInv, CpuInv, HostNext
    PROVE  CpuInv'
<1>1. BOOT_CPU_ID \in Pcpu /\ DOMAIN stage = Pcpu
  BY HvPagingAssumption DEF OrderInv
<1>3. \A c \in Pcpu : cpu = [cpu EXCEPT ![c] = cpu[c]] /\ host = [host EXCEPT ![c] = host[c]]
  BY DEF CpuInv
<1> DEFINE B == BOOT_CPU_ID
<1>5. CASE InitE820 \/ Paging
  <2>1. PICK p \in Early, q \in Early \cup {"panic"} :
          Step(B, p, q) /\ (q = "enable" \/ q \notin SetUpStages) /\ p \notin SetUpStages
    <3>1. CASE InitE820
      BY <3>1 DEF InitE820, Early, SetUpStages
    <3>2. CASE Paging
      <4>1. PICK p \in {"add", "low", "high", "image", "text", "guards"},
                 q \in {"low", "high", "image", "text", "guards", "enable", "panic"} : Step(B, p, q)
        BY <3>2 DEF Paging, init_paging, MapAll, LowWb, HighWb, ImageWb, TextExecutable, DelGuards, Then
      <4> QED BY <4>1 DEF Early, SetUpStages
    <3> QED BY <1>5, <3>1, <3>2
  <2>2. UNCHANGED <<cpu, host>>
    BY <1>5 DEF InitE820, Paging, hostVars
  <2>3. BSP = p /\ p \notin Late /\ q \notin Late
    BY <2>1 DEF Step, BSP, Early, Late, SetUpStages
  <2>4. CpuAs(p, cpu[B], host[B]) => CpuAs(q, cpu[B], host[B])
    BY <2>1, <2>3 DEF CpuAs, SetUpStages, Late
  <2>5. cpu' = [cpu EXCEPT ![B] = cpu[B]] /\ host' = [host EXCEPT ![B] = host[B]]
    BY <1>1, <1>3, <2>2
  <2> QED BY <1>1, <2>1, <2>3, <2>4, <2>5, CpuStep
<1>6. CASE EnablePaging \/ InitUart \/ init_interrupt \/ register_hrhd_units
  <2>1. host' = [host EXCEPT ![B] = host[B]]
    BY <1>1, <1>3, <1>6 DEF EnablePaging, InitUart, init_interrupt, register_hrhd_units, SetUp, hostVars
  <2>2. ASSUME NEW p \in SetUpStages, NEW q \in SetUpStages, Step(B, p, q), NEW s, cpu' = [cpu EXCEPT ![B] = s],
               CpuAs(p, cpu[B], host[B]) => CpuAs(q, s, host[B])
        PROVE  CpuInv'
    <3>1. BSP = p /\ p \notin Late /\ q \notin Late
      BY <2>2 DEF Step, BSP, Late, SetUpStages
    <3> QED BY <1>1, <2>1, <2>2, <3>1, CpuStep
  <2>3. {"enable", "uart", "interrupt", "iommu", "start_pcpus"} = SetUpStages
    BY DEF SetUpStages
  <2>4. CASE EnablePaging
    <3>1. Step(B, "enable", "uart") /\ cpu' = [cpu EXCEPT ![B] = enable_paging(cpu[B])]
      BY <2>4 DEF EnablePaging, SetUp
    <3> QED BY <1>1, <2>2, <2>3, <3>1, CpuBoot
  <2>5. CASE InitUart
    <3>1. Step(B, "uart", "interrupt") /\ cpu' = [cpu EXCEPT ![B] = BeginPost(early_init_lapic(cpu[B]))]
      BY <2>5 DEF InitUart, SetUp
    <3> QED BY <1>1, <2>2, <2>3, <3>1, CpuBoot
  <2>6. CASE init_interrupt
    <3>1. Step(B, "interrupt", "iommu") /\ cpu' = [cpu EXCEPT ![B] = init_lapic(set_idt(cpu[B]))]
      BY <2>6 DEF init_interrupt
    <3> QED BY <1>1, <2>2, <2>3, <3>1, CpuBoot
  <2>7. CASE register_hrhd_units
    <3>1. Step(B, "iommu", "start_pcpus") /\ cpu' = [cpu EXCEPT ![B] = cpu[B]]
      BY <1>1, <1>3, <2>7 DEF register_hrhd_units, hostVars
    <3> QED BY <1>1, <2>2, <2>3, <3>1, CpuBoot
  <2> QED BY <1>6, <2>4, <2>5, <2>6, <2>7
<1>7. CASE prepare_trampoline
  <2> DEFINE ok == get_ap_trampoline_buf(hv_e820, mbi) # INVALID
  <2>1. /\ BSP = "start_pcpus" /\ UNCHANGED <<host, stale>>
        /\ stage' = IF ok THEN [c \in Pcpu |-> "smep"] ELSE [stage EXCEPT ![B] = "panic"]
        /\ cpu' = [c \in Pcpu |-> IF ok /\ c # B THEN init_secondary_pcpu(cpu[c]) ELSE cpu[c]]
    BY <1>7 DEF prepare_trampoline, BSP
  <2> HIDE DEF ok
  <2>2. BSP \notin Late
    BY <2>1 DEF Late
  <2>3. \A c \in Pcpu \ {B} : stage[c] = "offline"
    BY <2>2 DEF OrderInv
  <2>4. cpu' = [d \in Pcpu |-> cpu'[d]] /\ host' = [d \in Pcpu |-> host'[d]]
    BY <2>1 DEF CpuInv
  <2>5. BSP' \notin Late \ {"smep"}
    BY <1>1, <2>1 DEF BSP, Late
  <2>6. ASSUME NEW c \in Pcpu PROVE CpuAs(stage'[c], cpu'[c], host[c])
    <3>1. CpuAs(stage[c], cpu[c], host[c])
      BY DEF CpuInv
    <3>2. CASE ok /\ c # B
      BY <2>1, <2>3, <3>1, <3>2, CpuBoot
    <3>3. CASE ok /\ c = B
      BY <2>1, <3>1, <3>3, CpuBoot DEF BSP
    <3>4. CASE ~ok
      <4>1. cpu'[c] = cpu[c] /\ stage'[c] \in {stage[c], "panic"} /\ (stage'[c] # stage[c] => stage[c] = "start_pcpus")
        BY <1>1, <2>1, <3>4 DEF BSP
      <4>2. CpuAs("start_pcpus", cpu[c], host[c]) => CpuAs("panic", cpu[c], host[c])
        BY DEF CpuAs, Late
      <4> QED BY <3>1, <4>1, <4>2
    <3> QED BY <3>2, <3>3, <3>4
  <2> QED BY <2>1, <2>4, <2>5, <2>6 DEF CpuInv
<1>8. ASSUME NEW c \in Pcpu, EnableSmep(c) \/ EnableSmap(c) \/ InitGuestMode(c) PROVE CpuInv'
  <2>1. host' = [host EXCEPT ![c] = host[c]]
    BY <1>3, <1>8 DEF EnableSmep, EnableSmap, InitGuestMode, enable_smep, enable_smap, SetUp
  <2>2. CASE EnableSmep(c)
    <3>1. Step(c, "smep", "smap") /\ cpu' = [cpu EXCEPT ![c] = cpu[c] \cup {"CR4.SMEP"}]
      BY <2>2 DEF EnableSmep, enable_smep, SetUp
    <3>3. CASE c = B
      <4>1. stale' = {}
        BY <2>2, <3>3 DEF EnableSmep, enable_smep
      <4>2. CpuAs("smep", cpu[c], host[c]) => CpuAs("smap", cpu[c] \cup {"CR4.SMEP"}, host[c])
        BY CpuGuest
      <4> QED BY <2>1, <3>1, <4>1, <4>2, CpuStep
    <3>4. CASE c # B
      <4>1. stale' = stale /\ BSP' = BSP /\ stage'[c] = "smap" /\ stage[c] = "smep" /\ \A d \in Pcpu \ {c} : stage'[d] = stage[d]
        BY <1>1, <2>2, <3>1, <3>4 DEF EnableSmep, enable_smep, Step, BSP
      <4>2. cpu' = [d \in Pcpu |-> cpu'[d]] /\ host' = host /\ cpu'[c] = cpu[c] \cup {"CR4.SMEP"}
            /\ \A d \in Pcpu \ {c} : cpu'[d] = cpu[d]
        BY <1>3, <2>1, <3>1 DEF CpuInv
      <4>3. CpuAs("smap", cpu[c] \cup {"CR4.SMEP"}, host[c])
        BY <4>1, CpuGuest DEF CpuInv
      <4>4. \A d \in Pcpu : CpuAs(stage'[d], cpu'[d], host'[d])
        BY <4>1, <4>2, <4>3 DEF CpuInv
      <4> QED BY <4>1, <4>2, <4>4 DEF CpuInv
    <3> QED BY <3>3, <3>4
  <2>3. CASE EnableSmap(c)
    <3>1. Step(c, "smap", "vmx_on") /\ cpu' = [cpu EXCEPT ![c] = cpu[c] \cup {"CR4.SMAP"}] /\ stale' = stale
      BY <2>3 DEF EnableSmap, enable_smap, SetUp
    <3>2. "smap" \in Late \ {"smep"}
      BY DEF Late
    <3>3. CpuAs("smap", cpu[c], host[c]) => CpuAs("vmx_on", cpu[c] \cup {"CR4.SMAP"}, host[c])
      BY CpuGuest
    <3> QED BY <2>1, <3>1, <3>2, <3>3, CpuStep
  <2>4. CASE InitGuestMode(c)
    <3>1. Step(c, "vmx_on", "create") /\ cpu' = [cpu EXCEPT ![c] = vmx_on(cpu[c])] /\ stale' = stale
      BY <2>4 DEF InitGuestMode, SetUp
    <3>2. "vmx_on" \in Late \ {"smep"}
      BY DEF Late
    <3>3. CpuAs("vmx_on", cpu[c], host[c]) => CpuAs("create", vmx_on(cpu[c]), host[c])
      BY CpuGuest
    <3> QED BY <2>1, <3>1, <3>2, <3>3, CpuStep
  <2> QED BY <1>8, <2>2, <2>3, <2>4
<1>9. ASSUME NEW c \in Pcpu,
             CreateVm(c) \/ build_vacpi(c) \/ LoadGdt(c) \/ LoadKernel(c) \/ LoadBootargs(c) \/ PrepareLoading(c)
               \/ (c = 0 /\ StartTest)
      PROVE  CpuInv'
  <2>1. PICK p \in Late \ {"smep", "smap", "vmx_on", "guest"}, q \in Late \ {"smep", "smap", "vmx_on", "guest"} : Step(c, p, q)
    BY <1>9 DEF CreateVm, build_vacpi, LoadGdt, LoadKernel, LoadBootargs, PrepareLoading, StartTest, Late
  <2>2. UNCHANGED <<cpu, host, stale>>
    BY <1>9 DEF CreateVm, build_vacpi, LoadGdt, LoadKernel, LoadBootargs, PrepareLoading, StartTest, Unchanged, hostVars
  <2>3. cpu' = [cpu EXCEPT ![c] = cpu[c]] /\ host' = [host EXCEPT ![c] = host[c]]
    BY <1>3, <2>2
  <2>4. CpuAs(p, cpu[c], host[c]) => CpuAs(q, cpu[c], host[c])
    BY CpuGuest
  <2>5. stale' = stale /\ p \in Late \ {"smep"}
    BY <2>2
  <2> QED BY <2>1, <2>3, <2>4, <2>5, CpuStep
<1>10. ASSUME NEW c \in Pcpu, InitVmcs(c) PROVE CpuInv'
  <2>1. /\ Step(c, "started", "guest") /\ stale' = stale /\ "started" \in Late \ {"smep"}
        /\ cpu' = [cpu EXCEPT ![c] = cpu[c] \cap {"x2APIC"}] /\ host' = [host EXCEPT ![c] = init_host_state(cpu[c])]
    BY <1>10 DEF InitVmcs, Late
  <2>2. CpuAs("started", cpu[c], host[c]) => CpuAs("guest", cpu[c] \cap {"x2APIC"}, init_host_state(cpu[c]))
    BY CpuGuest
  <2> QED BY <2>1, <2>2, CpuStep
<1>11. ASSUME NEW c \in Pcpu, LeaveGuest(c) PROVE CpuInv'
  <2>1. /\ Step(c, "guest", "exit") /\ stale' = stale /\ "guest" \in Late \ {"smep"}
        /\ cpu' = [cpu EXCEPT ![c] = cpu[c] \cup host[c]] /\ host' = [host EXCEPT ![c] = host[c]]
    BY <1>3, <1>11 DEF LeaveGuest, SetUp, Late
  <2>2. CpuAs("guest", cpu[c], host[c]) => CpuAs("exit", cpu[c] \cup host[c], host[c])
    BY CpuGuest
  <2> QED BY <2>1, <2>2, CpuStep
<1>12. CASE StartTest
  BY <1>9, <1>12 DEF HostConfiguration, Vm
<1>13. CASE \E c \in Pcpu : EnableSmep(c) \/ EnableSmap(c) \/ InitGuestMode(c) \/ PrepareVm(c)
  BY <1>8, <1>9, <1>10, <1>11, <1>13 DEF PrepareVm
<1> QED BY <1>5, <1>6, <1>7, <1>12, <1>13 DEF HostNext
-----------------------------------------------------------------------------
(***************************************************************************)
(* The guests.                                                             *)
(***************************************************************************)
\* What the configuration and the boot loader provide for a VM.
LEMMA GuestFacts ==
    ASSUME HostConfiguration, OrderInv, GuestsInv, NEW v \in Vm, BSP \notin {"e820", "panic"},
           NEW f, f = config[v], NEW m, m = TagModule(v)
    PROVE  /\ m \in mbi.modules /\ m.page \in Outside /\ m.page < FourG
           /\ f.type \in {"BZIMAGE", "ZEPHYR"} /\ get_kernel_load_addr(v) = LoadAt(f) /\ LoadAt(f) \in Nat
           /\ m.size \in Nat /\ f.size \in Nat /\ ACPI_BASE \in Nat /\ ACPI_BASE >= 2
           /\ ACPI_BASE + 2 < LoadAt(f) /\ LoadAt(f) + m.size < f.size /\ f.bootargs \in {0, 1}
           /\ f.type = "BZIMAGE" => f.setup_size \in 0 .. m.size - 1
           /\ f.type # "BZIMAGE" => f.entry \in LoadAt(f) .. LoadAt(f) + m.size - 1
           /\ f.at_1m \in ACPI_BASE + 1 .. f.size /\ f.safety \in BOOLEAN /\ f.start \in Nat
           /\ HostUnit \in Nat \ {0}
<1>1. f \in Configs[v] /\ mbi \in Boots /\ mbi.magic /\ mbi.has_mmap
  BY DEF GuestsInv, OrderInv
<1>2. BootProvides(mbi)
  BY <1>1 DEF HostConfiguration
<1>3. /\ \E k \in mbi.modules : k.tag = f.tag
      /\ \A k \in mbi.modules : k.tag = f.tag => Loadable(f, k)
      /\ \A k \in mbi.modules : k.page < FourG /\ k.page \in Outside
  BY <1>1, <1>2 DEF BootProvides
<1>4. m \in mbi.modules /\ m.tag = f.tag
  BY <1>3 DEF TagModule
<1>5. Loadable(f, m)
  BY <1>3, <1>4
<1>6. /\ f.start \in Nat /\ f.size \in Nat /\ f.at_1m \in ACPI_BASE + 1 .. f.size /\ f.safety \in BOOLEAN
      /\ HostUnit \in Nat \ {0} /\ ACPI_BASE \in Nat /\ ACPI_BASE >= 2
  BY <1>1 DEF HostConfiguration
<1>7. get_kernel_load_addr(v) = LoadAt(f)
  BY <1>5 DEF Loadable, get_kernel_load_addr, LoadAt
<1> QED BY <1>3, <1>4, <1>5, <1>6, <1>7 DEF Loadable, LoadAt

\* All of the VM's memory is mapped, so that a copy is complete.
LEMMA CopyComplete ==
    ASSUME HostConfiguration, OrderInv, GuestsInv, NEW v \in Vm, BSP \notin {"e820", "panic"},
           NEW from \in Nat, NEW n \in Nat, from + n <= config[v].size, NEW what
    PROVE  /\ Copied(v, from, n) = from .. from + n - 1
           /\ DOMAIN copy_gpa(v, what, from, n) = 0 .. config[v].size - 1
           /\ \A x \in 0 .. config[v].size - 1 :
                copy_gpa(v, what, from, n)[x] = IF x \in from .. from + n - 1 THEN <<what, 0>> ELSE gmem[v][x]
<1> DEFINE f == config[v]
<1>1. f.size \in Nat /\ ACPI_BASE \in Nat /\ f.at_1m \in ACPI_BASE + 1 .. f.size
  BY GuestFacts
<1>2. GuestMapped(v) = 0 .. f.size - 1
  <2> DEFINE e == create_prelaunched_vm_e820(v)
  <2>1. /\ e[1].base = 0 /\ e[1].length = ACPI_BASE
        /\ e[2].base = ACPI_BASE /\ e[2].length = f.at_1m - ACPI_BASE
        /\ e[3].base = f.at_1m /\ e[3].length = f.size - f.at_1m
    BY DEF create_prelaunched_vm_e820
  <2>2. GuestMapped(v) = {x \in 0 .. f.size - 1 : \E i \in 1 .. 3 : InEntry(e[i], x)}
    BY DEF GuestMapped
  <2> HIDE DEF e, f
  <2>3. ASSUME NEW x \in 0 .. f.size - 1 PROVE \E i \in 1 .. 3 : InEntry(e[i], x)
    <3>1. CASE x < ACPI_BASE
      <4>1. InEntry(e[1], x)
        BY <1>1, <2>1, <3>1 DEF InEntry, End
      <4> QED BY <4>1
    <3>2. CASE ACPI_BASE <= x /\ x < f.at_1m
      <4>1. InEntry(e[2], x)
        BY <1>1, <2>1, <3>2 DEF InEntry, End
      <4> QED BY <4>1
    <3>3. CASE f.at_1m <= x
      <4>1. InEntry(e[3], x)
        BY <1>1, <2>1, <3>3 DEF InEntry, End
      <4> QED BY <4>1
    <3> QED BY <1>1, <3>1, <3>2, <3>3
  <2> QED BY <2>2, <2>3
<1>3. Copied(v, from, n) = from .. from + n - 1
  <2>1. \A x \in from .. from + n - 1 : \A h \in from .. x : h \in 0 .. f.size - 1
    BY <1>1
  <2> QED BY <1>2, <2>1 DEF Copied
<1>4. DOMAIN gmem[v] = 0 .. f.size - 1
  BY DEF GuestsInv
<1> HIDE DEF f
<1> QED BY <1>3, <1>4 DEF copy_gpa, f

\* A step of VM v: the others are as they were.
Becomes(v, q, s, g, k, r) ==
    /\ stage' = [stage EXCEPT ![v] = q] /\ sw' = [sw EXCEPT ![v] = s] /\ gmem' = [gmem EXCEPT ![v] = g]
    /\ cksum' = [cksum EXCEPT ![v] = k] /\ regs' = [regs EXCEPT ![v] = r]

LEMMA GuestStep ==
    ASSUME OrderInv, GuestsInv, NEW v \in Vm, NEW q, BSP \in Late, BSP' \in Late,
           UNCHANGED <<config, mbi, unmasked>>,
           NEW s \in SwSet, NEW g, NEW k \in BOOLEAN, NEW r \in RegSet,
           Becomes(v, q, s, g, k, r), DOMAIN g = 0 .. config[v].size - 1,
           GuestAs(q, config[v], TagModule(v), create_zeropage_e820(v), s, g, k, r)
    PROVE  GuestsInv'
<1>1. stage'[v] = q /\ \A w \in Vm \ {v} : stage'[w] = stage[w]
  BY DEF Becomes, OrderInv, Vm
<1>2. sw' \in [Vm -> SwSet] /\ regs' \in [Vm -> RegSet] /\ cksum' \in [Vm -> BOOLEAN]
  BY DEF GuestsInv, Becomes
<1>3. /\ gmem' = [w \in Vm |-> gmem'[w]] /\ gmem'[v] = g
      /\ \A w \in Vm \ {v} : gmem'[w] = gmem[w]
  BY DEF GuestsInv, Becomes
<1>4. /\ sw'[v] = s /\ cksum'[v] = k /\ regs'[v] = r
      /\ \A w \in Vm \ {v} : sw'[w] = sw[w] /\ cksum'[w] = cksum[w] /\ regs'[w] = regs[w]
  BY DEF GuestsInv, Becomes
<1>5. \A w \in Vm : TagModule(w)' = TagModule(w) /\ create_zeropage_e820(w)' = create_zeropage_e820(w)
  BY DEF TagModule, create_zeropage_e820, create_prelaunched_vm_e820
<1>6. ASSUME NEW w \in Vm PROVE GuestInv(w)'
  <2>1. GuestAs(stage[w], config[w], TagModule(w), create_zeropage_e820(w), sw[w], gmem[w], cksum[w], regs[w])
    BY DEF GuestsInv, GuestInv
  <2>2. GuestAs(stage'[w], config[w], TagModule(w), create_zeropage_e820(w), sw'[w], gmem'[w], cksum'[w], regs'[w])
    <3>1. CASE w = v
      BY <1>1, <1>3, <1>4, <2>1, <3>1
    <3>2. CASE w # v
      BY <1>1, <1>3, <1>4, <2>1, <3>2
    <3> QED BY <3>1, <3>2
  <2> QED BY <1>5, <2>2 DEF GuestInv
<1>7. \A w \in Vm : DOMAIN gmem'[w] = 0 .. config'[w].size - 1 /\ config'[w] \in Configs[w]
  BY <1>3 DEF GuestsInv
<1>8. BSP' \in Late \cup {"iommu", "start_pcpus"} => unmasked' = {}
  BY DEF GuestsInv
<1>9. unmasked' \subseteq Ioapics \X (0 .. MaxRte)
  BY DEF GuestsInv
<1> QED BY <1>2, <1>3, <1>6, <1>7, <1>8, <1>9 DEF GuestsInv

\* A step that leaves the VMs.
LEMMA GuestsKept ==
    ASSUME OrderInv, GuestsInv, UNCHANGED <<config, mbi, sw, gmem, cksum, regs>>,
           \A v \in Vm : \/ stage'[v] = stage[v]
                         \/ stage[v] \in Before /\ stage'[v] \in Before
                         \/ stage'[v] \in {"guest", "exit"},
           unmasked' \subseteq unmasked, BSP' \in Late \cup {"iommu", "start_pcpus"} => unmasked' = {}
    PROVE  GuestsInv'
<1>1. \A w \in Vm : TagModule(w)' = TagModule(w) /\ create_zeropage_e820(w)' = create_zeropage_e820(w)
  BY DEF TagModule, create_zeropage_e820, create_prelaunched_vm_e820
<1>2. ASSUME NEW p, NEW q, NEW f, NEW m, NEW z, NEW s, NEW g, NEW k, NEW r, GuestAs(p, f, m, z, s, g, k, r),
             q = p \/ (p \in Before /\ q \in Before) \/ q \in {"guest", "exit"}
      PROVE  GuestAs(q, f, m, z, s, g, k, r)
  <2>1. CASE q = p
    BY <1>2, <2>1
  <2>2. CASE p \in Before /\ q \in Before
    <3>1. q \notin Loading \cup {"vacpi"}
      BY <2>2 DEF Before, Early, SetUpStages, Loading
    <3> QED BY <1>2, <2>2, <3>1 DEF GuestAs, Loading
  <2>3. CASE q \in {"guest", "exit"}
    <3>1. q \notin Loading \cup {"vacpi"} \cup Before
      BY <2>3 DEF Before, Early, SetUpStages, Loading
    <3> QED BY <3>1 DEF GuestAs, Loading
  <2> QED BY <1>2, <2>1, <2>2, <2>3
<1>3. ASSUME NEW w \in Vm PROVE GuestInv(w)'
  <2>1. GuestAs(stage[w], config[w], TagModule(w), create_zeropage_e820(w), sw[w], gmem[w], cksum[w], regs[w])
    BY DEF GuestsInv, GuestInv
  <2>2. GuestAs(stage'[w], config[w], TagModule(w), create_zeropage_e820(w), sw[w], gmem[w], cksum[w], regs[w])
    BY <1>2, <2>1
  <2> QED BY <1>1, <2>2 DEF GuestInv
<1> QED BY <1>3 DEF GuestsInv

\* The steps of prepare_vm that change the VM.
LEMMA LoadSteps ==
    ASSUME HostConfiguration, OrderInv, GuestsInv, NEW v \in Vm,
           CreateVm(v) \/ build_vacpi(v) \/ LoadGdt(v) \/ LoadKernel(v) \/ LoadBootargs(v)
    PROVE  GuestsInv'
<1> DEFINE f == config[v]
           m == TagModule(v)
           z == create_zeropage_e820(v)
           load == LoadAt(f)
           end == load + m.size
           dom == 0 .. f.size - 1
           Was(p) == GuestAs(p, f, m, z, sw[v], gmem[v], cksum[v], regs[v])
<1>1. v \in Pcpu /\ LateStep(v)
  BY Steps DEF Vm, PrepareVm
<1>2. BSP \in Late /\ BSP' \in Late /\ BSP \notin {"e820", "panic"} /\ UNCHANGED <<mbi, unmasked>>
  BY <1>1, LateOrder DEF LateStep, Late
<1>3. UNCHANGED config
  BY DEF CreateVm, build_vacpi, LoadGdt, LoadKernel, LoadBootargs
<1>4. /\ sw[v] \in SwSet /\ regs[v] \in RegSet /\ cksum[v] \in BOOLEAN /\ DOMAIN gmem[v] = dom
      /\ sw = [sw EXCEPT ![v] = sw[v]] /\ regs = [regs EXCEPT ![v] = regs[v]]
      /\ cksum = [cksum EXCEPT ![v] = cksum[v]] /\ gmem = [gmem EXCEPT ![v] = gmem[v]]
  BY DEF GuestsInv
<1>5. /\ f.type \in {"BZIMAGE", "ZEPHYR"} /\ get_kernel_load_addr(v) = load /\ load \in Nat
      /\ m.size \in Nat /\ f.size \in Nat /\ ACPI_BASE \in Nat
      /\ ACPI_BASE + 2 < load /\ end < f.size /\ f.bootargs \in {0, 1} /\ f.safety \in BOOLEAN
  BY <1>2, GuestFacts
<1>6. ASSUME NEW from \in Nat, NEW n \in Nat, from + n <= f.size, NEW what, NEW g, g = copy_gpa(v, what, from, n)
      PROVE  /\ DOMAIN g = dom
             /\ \A x \in dom : g[x] = IF x \in from .. from + n - 1 THEN <<what, 0>> ELSE gmem[v][x]
  BY <1>2, <1>6, CopyComplete
<1>7. ASSUME NEW q, NEW s \in SwSet, NEW g, NEW k \in BOOLEAN, NEW r \in RegSet,
             Becomes(v, q, s, g, k, r), DOMAIN g = dom, GuestAs(q, f, m, z, s, g, k, r)
      PROVE  GuestsInv'
  BY <1>2, <1>3, <1>7, GuestStep
<1> HIDE DEF f, m, z
<1>12. CASE CreateVm(v)
  <2> DEFINE s == SwAs(f, m)
  <2>1. /\ Step(v, "create", "vacpi") /\ UNCHANGED <<gmem, cksum, regs>>
        /\ sw' = [sw EXCEPT ![v] = init_vm_bootargs_info(init_vm_kernel_info(sw[v], v), v)]
    BY <1>12 DEF CreateVm, init_vm_boot_info
  <2>2. init_vm_bootargs_info(init_vm_kernel_info(sw[v], v), v) = s
    <3> DEFINE t == init_vm_kernel_info(sw[v], v)
    <3>1. t = [sw[v] EXCEPT !.load = load, !.size = m.size]
      BY <1>5 DEF init_vm_kernel_info, m
    <3>2. load \in Int /\ m.size \in Int
      BY <1>5
    <3>3. t \in SwSet /\ t.load = load /\ t.size = m.size
      <4> HIDE DEF t, load
      <4> QED BY <1>4, <3>1, <3>2 DEF SwSet
    <3>4. init_vm_bootargs_info(t, v) = [t EXCEPT !.bootargs = IF f.bootargs > 0 THEN load - 2 ELSE 0]
      BY <3>3 DEF init_vm_bootargs_info, f
    <3> HIDE DEF t, load
    <3>5. \A b : [t EXCEPT !.bootargs = b] = [load |-> t.load, size |-> t.size, bootargs |-> b]
      BY <3>3 DEF SwSet
    <3> QED BY <3>3, <3>4, <3>5 DEF SwAs, t, load
  <2>3. s \in SwSet
    BY <1>5 DEF SwAs, SwSet
  <2>6. Was("create")
    BY <2>1 DEF GuestsInv, GuestInv, Step, f, m, z
  <2>4. GuestAs("vacpi", f, m, z, s, gmem[v], cksum[v], regs[v])
    BY <2>6 DEF GuestAs, Before, Early, SetUpStages, Loading
  <2>5. Becomes(v, "vacpi", s, gmem[v], cksum[v], regs[v])
    BY <1>4, <2>1, <2>2 DEF Becomes, Step
  <2> HIDE DEF s
  <2> QED BY <1>4, <1>7, <2>1, <2>3, <2>4, <2>5
<1>8. CASE build_vacpi(v)
  <2>1. Step(v, "vacpi", "gdt") /\ UNCHANGED <<sw, regs>>
    BY <1>8 DEF build_vacpi, f, m
  <2>2. CASE f.safety
    <3>1. UNCHANGED <<gmem, cksum>>
      BY <1>8, <2>2 DEF build_vacpi, f, m
    <3>4. Was("vacpi")
      BY <2>1 DEF GuestsInv, GuestInv, Step, f, m, z
    <3>2. GuestAs("gdt", f, m, z, sw[v], gmem[v], cksum[v], regs[v])
      BY <2>2, <3>4 DEF GuestAs, Before, Early, SetUpStages, Loading
    <3>3. Becomes(v, "gdt", sw[v], gmem[v], cksum[v], regs[v])
      BY <1>4, <2>1, <3>1 DEF Becomes, Step
    <3> QED BY <1>4, <1>7, <2>1, <3>2, <3>3
  <2>3. CASE ~f.safety
    <3> DEFINE k == calculate_checksum8(cksum[v])
               what == IF k THEN "acpi" ELSE "acpi_bad"
               g == copy_gpa(v, what, ACPI_BASE, 1)
    <3>1. gmem' = [gmem EXCEPT ![v] = g] /\ cksum' = [cksum EXCEPT ![v] = k]
      BY <1>8, <2>3 DEF build_vacpi, copy_to_gpa, f, m
    <3>2. Was("vacpi")
      BY <2>1 DEF GuestsInv, GuestInv, Step, f, m, z
    <3>3. sw[v] = SwAs(f, m) /\ cksum[v] = FALSE
      BY <2>3, <3>2 DEF GuestAs
    <3>4. k \in BOOLEAN /\ what = "acpi"
      BY <3>3 DEF calculate_checksum8
    <3>5. DOMAIN g = dom /\ g[ACPI_BASE] = <<"acpi", 0>>
      <4>1. ACPI_BASE + 1 <= f.size /\ ACPI_BASE \in dom /\ ACPI_BASE \in ACPI_BASE .. ACPI_BASE + 1 - 1 /\ 1 \in Nat
        BY <1>5
      <4>2. /\ DOMAIN g = dom
            /\ \A x \in dom : g[x] = IF x \in ACPI_BASE .. ACPI_BASE + 1 - 1 THEN <<what, 0>> ELSE gmem[v][x]
        BY <1>5, <1>6, <4>1
      <4> HIDE DEF dom, g, what
      <4> QED BY <3>4, <4>1, <4>2
    <3> HIDE DEF k, what, g
    <3>6. GuestAs("gdt", f, m, z, sw[v], g, k, regs[v])
      BY <3>3, <3>5 DEF GuestAs, Before, Early, SetUpStages, Loading
    <3>7. Becomes(v, "gdt", sw[v], g, k, regs[v])
      BY <1>4, <2>1, <3>1 DEF Becomes, Step
    <3> QED BY <1>4, <1>7, <2>1, <3>1, <3>4, <3>5, <3>6, <3>7
  <2> QED BY <2>2, <2>3
<1>9. CASE LoadGdt(v)
  <2> DEFINE g == copy_gpa(v, "gdt", end, 1)
             r == [regs[v] EXCEPT !.gdt = end]
  <2>1. Step(v, "gdt", "kernel") /\ UNCHANGED <<sw, cksum>> /\ Was("gdt")
    BY <1>9 DEF LoadGdt, GuestsInv, GuestInv, Step, f, m, z
  <2>2. sw[v].load = load /\ sw[v].size = m.size /\ sw[v].bootargs = IF f.bootargs > 0 THEN load - 2 ELSE 0
    BY <2>1 DEF GuestAs, Loading, SwAs
  <2>3. get_guest_gdt_base_gpa(v) = end
    <3> DEFINE b == sw[v].bootargs + f.bootargs
    <3>1. b \in Nat /\ b <= end /\ end \in Nat
      BY <1>5, <2>2
    <3>2. get_guest_gdt_base_gpa(v) = Max({end, b})
      BY <2>2 DEF get_guest_gdt_base_gpa, f
    <3> HIDE DEF b, end
    <3>3. Max({end, b}) \in {end, b} /\ end <= Max({end, b})
      BY <3>1, MaxNat
    <3> QED BY <3>1, <3>2, <3>3
  <2>4. gmem' = [gmem EXCEPT ![v] = g] /\ regs' = [regs EXCEPT ![v] = r]
    BY <1>9, <2>3 DEF LoadGdt, copy_to_gpa, f, m
  <2>5. end \in Nat /\ end + 1 <= f.size /\ end \in dom /\ ACPI_BASE \in dom /\ ACPI_BASE < end
    BY <1>5
  <2>6. DOMAIN g = dom /\ g[end] = <<"gdt", 0>> /\ g[ACPI_BASE] = gmem[v][ACPI_BASE]
    <3>1. end \in end .. end + 1 - 1 /\ ACPI_BASE \notin end .. end + 1 - 1 /\ 1 \in Nat
      BY <1>5, <2>5
    <3>2. /\ DOMAIN g = dom
          /\ \A x \in dom : g[x] = IF x \in end .. end + 1 - 1 THEN <<"gdt", 0>> ELSE gmem[v][x]
      BY <1>6, <2>5, <3>1
    <3> HIDE DEF dom, end, g
    <3> QED BY <2>5, <3>1, <3>2
  <2>7. r \in RegSet /\ r.gdt = end
    BY <1>4, <2>5 DEF RegSet
  <2> HIDE DEF g, r
  <2>8. GuestAs("kernel", f, m, z, sw[v], g, cksum[v], r)
    BY <2>1, <2>6, <2>7 DEF GuestAs, Before, Early, SetUpStages, Loading
  <2>9. Becomes(v, "kernel", sw[v], g, cksum[v], r)
    BY <1>4, <2>1, <2>4 DEF Becomes, Step
  <2> QED BY <1>4, <1>7, <2>1, <2>4, <2>6, <2>7, <2>8, <2>9
<1>10. CASE LoadKernel(v)
  <2> DEFINE g == copy_gpa(v, m.tag, load, m.size)
  <2>1. Step(v, "kernel", "bootargs") /\ UNCHANGED <<sw, cksum, regs>> /\ Was("kernel")
    BY <1>10 DEF LoadKernel, GuestsInv, GuestInv, Step, f, m, z
  <2>2. sw[v].load = load /\ sw[v].size = m.size
    BY <2>1 DEF GuestAs, Loading, SwAs
  <2>3. gmem' = [gmem EXCEPT ![v] = g]
    BY <1>10, <2>2 DEF LoadKernel, copy_to_gpa, f, m
  <2>4. /\ end <= f.size /\ end \in dom /\ ACPI_BASE \in dom /\ load .. end - 1 \subseteq dom
        /\ ACPI_BASE \notin load .. end - 1 /\ end \notin load .. end - 1
    BY <1>5
  <2>5. /\ DOMAIN g = dom /\ g[end] = gmem[v][end] /\ g[ACPI_BASE] = gmem[v][ACPI_BASE]
        /\ \A x \in load .. end - 1 : g[x] = <<m.tag, 0>>
    <3>1. /\ DOMAIN g = dom
          /\ \A x \in dom : g[x] = IF x \in load .. load + m.size - 1 THEN <<m.tag, 0>> ELSE gmem[v][x]
      BY <1>5, <1>6, <2>4
    <3> HIDE DEF dom, g
    <3> QED BY <1>5, <2>4, <3>1
  <2> HIDE DEF g
  <2>6. GuestAs("bootargs", f, m, z, sw[v], g, cksum[v], regs[v])
    BY <2>1, <2>5 DEF GuestAs, Before, Early, SetUpStages, Loading
  <2>7. Becomes(v, "bootargs", sw[v], g, cksum[v], regs[v])
    BY <1>4, <2>1, <2>3 DEF Becomes, Step
  <2> QED BY <1>4, <1>7, <2>1, <2>3, <2>5, <2>6, <2>7
<1>11. CASE LoadBootargs(v)
  <2> DEFINE g == copy_gpa(v, "bootargs", load - 2, 1)
             h == IF f.bootargs > 0 THEN g ELSE gmem[v]
  <2>1. Step(v, "bootargs", "prepare") /\ UNCHANGED <<sw, cksum, regs>> /\ Was("bootargs")
    BY <1>11 DEF LoadBootargs, GuestsInv, GuestInv, Step, f, m, z
  <2>2. f.bootargs > 0 => sw[v].bootargs = load - 2
    BY <2>1 DEF GuestAs, Loading, SwAs
  <2>3. gmem' = [gmem EXCEPT ![v] = h]
    BY <1>4, <1>11, <2>2 DEF LoadBootargs, copy_to_gpa, f, m
  <2>4. /\ load - 2 \in Nat /\ load - 2 + 1 <= f.size /\ load - 2 \in dom /\ end \in dom /\ ACPI_BASE \in dom
        /\ load .. end - 1 \subseteq dom /\ load - 2 .. load - 2 + 1 - 1 = {load - 2}
        /\ ACPI_BASE # load - 2 /\ end # load - 2 /\ \A x \in load .. end - 1 : x # load - 2
    BY <1>5
  <2>5. /\ DOMAIN g = dom /\ g[end] = gmem[v][end] /\ g[ACPI_BASE] = gmem[v][ACPI_BASE]
        /\ \A x \in load .. end - 1 : g[x] = gmem[v][x]
        /\ g[load - 2] = <<"bootargs", 0>>
    <3>1. /\ DOMAIN g = dom
          /\ \A x \in dom : g[x] = IF x \in load - 2 .. load - 2 + 1 - 1 THEN <<"bootargs", 0>> ELSE gmem[v][x]
      BY <1>5, <1>6, <2>4
    <3> HIDE DEF dom, g
    <3> QED BY <1>5, <2>4, <3>1
  <2>6. /\ DOMAIN h = dom /\ h[end] = gmem[v][end] /\ h[ACPI_BASE] = gmem[v][ACPI_BASE]
        /\ \A x \in load .. end - 1 : h[x] = gmem[v][x]
        /\ f.bootargs > 0 => h[load - 2] = <<"bootargs", 0>>
    BY <1>4, <2>5
  <2> HIDE DEF g, h
  <2>7. GuestAs("prepare", f, m, z, sw[v], h, cksum[v], regs[v])
    BY <2>1, <2>6 DEF GuestAs, Before, Early, SetUpStages, Loading
  <2>8. Becomes(v, "prepare", sw[v], h, cksum[v], regs[v])
    BY <1>4, <2>1, <2>3 DEF Becomes, Step
  <2> QED BY <1>4, <1>7, <2>1, <2>3, <2>6, <2>7, <2>8
<1> QED BY <1>12, <1>8, <1>9, <1>10, <1>11

\* The last step of the loader: the zero page and the entry point.
LEMMA PrepareStep == ASSUME HostConfiguration, OrderInv, GuestsInv, NEW v \in Vm, PrepareLoading(v) PROVE GuestsInv'
<1> DEFINE f == config[v]
           m == TagModule(v)
           z == create_zeropage_e820(v)
           load == LoadAt(f)
           end == load + m.size
           dom == 0 .. f.size - 1
<1>1. v \in Pcpu /\ LateStep(v)
  BY Steps DEF Vm, PrepareVm
<1>2. BSP \in Late /\ BSP' \in Late /\ BSP \notin {"e820", "panic"} /\ UNCHANGED <<mbi, unmasked>>
  BY <1>1, LateOrder DEF LateStep, Late
<1>3. UNCHANGED <<config, sw, cksum>> /\ Step(v, "prepare", "started")
  BY DEF PrepareLoading
<1>4. /\ sw[v] \in SwSet /\ regs[v] \in RegSet /\ cksum[v] \in BOOLEAN /\ DOMAIN gmem[v] = dom
      /\ sw = [sw EXCEPT ![v] = sw[v]] /\ cksum = [cksum EXCEPT ![v] = cksum[v]] /\ gmem = [gmem EXCEPT ![v] = gmem[v]]
  BY DEF GuestsInv
<1>5. /\ load \in Nat /\ m.size \in Nat /\ f.size \in Nat /\ ACPI_BASE \in Nat /\ ACPI_BASE >= 2
      /\ ACPI_BASE + 2 < load /\ end < f.size /\ f.bootargs \in {0, 1}
      /\ f.type = "BZIMAGE" => f.setup_size \in 0 .. m.size - 1
      /\ f.type # "BZIMAGE" => f.entry \in load .. end - 1
  <2>1. /\ load \in Nat /\ m.size \in Nat /\ f.size \in Nat /\ ACPI_BASE \in Nat /\ ACPI_BASE >= 2
        /\ ACPI_BASE + 2 < load /\ end < f.size /\ f.bootargs \in {0, 1}
        /\ f.type = "BZIMAGE" => f.setup_size \in 0 .. m.size - 1
        /\ f.type # "BZIMAGE" => f.entry \in load .. load + m.size - 1
    BY <1>2, GuestFacts
  <2> HIDE DEF load, f, m
  <2> QED BY <2>1
<1>6. ASSUME NEW g, NEW r \in RegSet, Becomes(v, "started", sw[v], g, cksum[v], r), DOMAIN g = dom,
             GuestAs("started", f, m, z, sw[v], g, cksum[v], r)
      PROVE  GuestsInv'
  BY <1>2, <1>3, <1>4, <1>6, GuestStep
<1>7. GuestAs("prepare", f, m, z, sw[v], gmem[v], cksum[v], regs[v])
  BY <1>3 DEF GuestsInv, GuestInv, Step
<1>8. sw[v].load = load /\ sw[v].bootargs = IF f.bootargs > 0 THEN load - 2 ELSE 0
  BY <1>7 DEF GuestAs, Loading, SwAs
<1> HIDE DEF f, m, z
<1>9. CASE f.type = "BZIMAGE"
  <2> DEFINE at == sw[v].bootargs + 1
             e == <<"zero_page", sw[v].bootargs, z>>
             g == [gmem[v] EXCEPT ![at] = e]
             r == [regs[v] EXCEPT !.rsi = at, !.rip = load + f.setup_size]
  <2>1. gmem' = [gmem EXCEPT ![v] = g] /\ regs' = [regs EXCEPT ![v] = r]
    BY <1>4, <1>8, <1>9 DEF PrepareLoading, prepare_loading_bzimage, ZeroPageAt, create_zero_page, f, z
  <2>2. /\ at \in dom /\ end \in dom /\ ACPI_BASE \in dom /\ load .. end - 1 \subseteq dom
        /\ at \notin load .. end - 1 /\ at # ACPI_BASE /\ at # end
        /\ f.bootargs > 0 => load - 2 \in dom /\ at # load - 2
    BY <1>5, <1>8
  <2>3. at \in Int /\ load + f.setup_size \in load .. end - 1 /\ load + f.setup_size \in Int
    BY <1>5, <1>8, <1>9
  <2>4. DOMAIN g = dom /\ g[at] = e /\ \A x \in dom : x # at => g[x] = gmem[v][x]
    <3> HIDE DEF dom, at, e
    <3> QED BY <1>4, <2>2
  <2> HIDE DEF e, g, at, dom
  <2>5. r \in RegSet /\ r.rsi = at /\ r.rip = load + f.setup_size /\ r.gdt = regs[v].gdt
    <3> HIDE DEF load
    <3> QED BY <1>4, <2>3 DEF RegSet
  <2> HIDE DEF r
  <2>6. Becomes(v, "started", sw[v], g, cksum[v], r)
    BY <1>3, <1>4, <2>1 DEF Becomes, Step
  <2>7. GuestAs("started", f, m, z, sw[v], g, cksum[v], r)
    <3>1. r.rip \in load .. end - 1 /\ g[r.rsi] = <<"zero_page", sw[v].bootargs, z>>
      BY <2>3, <2>4, <2>5 DEF e
    <3>2. g[ACPI_BASE] = gmem[v][ACPI_BASE] /\ g[end] = gmem[v][end] /\ (f.bootargs > 0 => g[load - 2] = gmem[v][load - 2])
      BY <2>2, <2>4
    <3>3. \A x \in load .. end - 1 : g[x] = gmem[v][x]
      BY <2>2, <2>4
    <3> QED BY <1>7, <2>5, <3>1, <3>2, <3>3 DEF GuestAs, Before, Early, SetUpStages, Loading
  <2> QED BY <1>6, <2>4, <2>5, <2>6, <2>7
<1>10. CASE f.type # "BZIMAGE"
  <2> DEFINE r == [regs[v] EXCEPT !.rip = f.entry]
  <2>1. gmem' = [gmem EXCEPT ![v] = gmem[v]] /\ regs' = [regs EXCEPT ![v] = r]
    BY <1>4, <1>10 DEF PrepareLoading, prepare_loading_rawimage, f
  <2>2. f.entry \in load .. end - 1 /\ f.entry \in Int
    BY <1>5, <1>10
  <2>3. r \in RegSet /\ r.rip = f.entry /\ r.gdt = regs[v].gdt
    BY <1>4, <2>2 DEF RegSet
  <2> HIDE DEF r
  <2>4. Becomes(v, "started", sw[v], gmem[v], cksum[v], r)
    BY <1>3, <1>4, <2>1 DEF Becomes, Step
  <2>5. GuestAs("started", f, m, z, sw[v], gmem[v], cksum[v], r)
    BY <1>7, <1>10, <2>2, <2>3 DEF GuestAs, Before, Early, SetUpStages, Loading
  <2> QED BY <1>4, <1>6, <2>3, <2>4, <2>5
<1> QED BY <1>9, <1>10

\* The other steps.
LEMMA GuestsNext == ASSUME HostConfiguration, OrderInv, GuestsInv, HostNext PROVE GuestsInv'
<1>1. BOOT_CPU_ID \in Pcpu /\ DOMAIN stage = Pcpu /\ stage \in [Pcpu -> Early \cup Late \cup {"panic", "offline"}]
  BY HvPagingAssumption DEF OrderInv
<1>2. ASSUME NEW c \in Pcpu, NEW p, NEW q, Step(c, p, q), (p \in Before /\ q \in Before) \/ q \in {"guest", "exit"},
             UNCHANGED <<config, mbi, sw, gmem, cksum, regs>>, unmasked' \subseteq unmasked,
             BSP' \in Late \cup {"iommu", "start_pcpus"} => unmasked' = {}
      PROVE  GuestsInv'
  <2>1. \A v \in Vm : \/ stage'[v] = stage[v]
                      \/ stage[v] \in Before /\ stage'[v] \in Before
                      \/ stage'[v] \in {"guest", "exit"}
    BY <1>1, <1>2 DEF Step, Vm
  <2> QED BY <1>2, <2>1, GuestsKept
<1>3. CASE InitE820 \/ Paging \/ EnablePaging \/ InitUart \/ init_interrupt \/ register_hrhd_units
  <2>1. PICK p \in Early, q \in Early \cup {"panic"} :
          /\ Step(BOOT_CPU_ID, p, q)
          /\ q \in {"iommu", "start_pcpus"} => p \in {"iommu", "start_pcpus"} \/ init_interrupt
    <3>1. CASE Paging
      <4>1. PICK p \in {"add", "low", "high", "image", "text", "guards"},
                 q \in {"low", "high", "image", "text", "guards", "enable", "panic"} : Step(BOOT_CPU_ID, p, q)
        BY <3>1 DEF Paging, init_paging, MapAll, LowWb, HighWb, ImageWb, TextExecutable, DelGuards, Then
      <4> QED BY <4>1 DEF Early, SetUpStages
    <3>2. CASE InitE820 \/ EnablePaging \/ InitUart
      BY <3>2 DEF InitE820, EnablePaging, InitUart, Early, SetUpStages
    <3>3. CASE init_interrupt \/ register_hrhd_units
      BY <3>3 DEF init_interrupt, register_hrhd_units, Early, SetUpStages
    <3> QED BY <1>3, <3>1, <3>2, <3>3
  <2>2. UNCHANGED <<config, mbi, sw, gmem, cksum, regs>>
    BY <1>3 DEF InitE820, Paging, EnablePaging, InitUart, init_interrupt, register_hrhd_units, SetUp, hostVars, guestVars
  <2>3. BSP = p /\ BSP' = q /\ q \notin Late /\ p \in Before /\ q \in Before
    BY <1>1, <2>1 DEF Step, BSP, Early, Late, SetUpStages, Before
  <2>4. CASE init_interrupt
    <3>1. unmasked' = unmasked \ (Ioapics \X (0 .. (MaxRte + 1) - 1))
      BY <2>4 DEF init_interrupt, ioapic_setup_irqs, ioapic_set_routing, ioapic_nr_pins
    <3>2. (MaxRte + 1) - 1 = MaxRte
      BY DEF HostConfiguration
    <3>3. unmasked' = {} /\ unmasked' \subseteq unmasked
      BY <3>1, <3>2 DEF GuestsInv
    <3> QED BY <1>1, <1>2, <2>1, <2>2, <2>3, <3>3
  <2>5. CASE ~init_interrupt
    <3>1. unmasked' = unmasked
      BY <1>3, <2>5 DEF InitE820, Paging, EnablePaging, InitUart, register_hrhd_units, SetUp, hostVars
    <3>2. BSP' \in Late \cup {"iommu", "start_pcpus"} => unmasked' = {}
      BY <2>1, <2>3, <2>5, <3>1 DEF GuestsInv
    <3> QED BY <1>1, <1>2, <2>1, <2>2, <2>3, <3>1, <3>2
  <2> QED BY <2>4, <2>5
<1>4. CASE prepare_trampoline
  <2>1. /\ UNCHANGED <<config, mbi, sw, gmem, cksum, regs, unmasked>> /\ BSP = "start_pcpus"
        /\ stage' = [c \in Pcpu |-> "smep"] \/ stage' = [stage EXCEPT ![BOOT_CPU_ID] = "panic"]
    BY <1>4 DEF prepare_trampoline, guestVars, BSP
  <2>2. \A v \in Vm : stage[v] \in Before
    <3>1. BSP \notin Late /\ BSP \in Before
      BY <2>1 DEF Late, Before, Early, SetUpStages
    <3> QED BY <3>1 DEF OrderInv, Vm, BSP, Before
  <2>3. \A v \in Vm : stage'[v] \in {"smep", "panic", stage[v]}
    BY <1>1, <2>1 DEF Vm
  <2>4. "smep" \in Before /\ "panic" \in Before
    BY DEF Before
  <2>5. unmasked' = {}
    BY <2>1 DEF GuestsInv
  <2> QED BY <2>1, <2>2, <2>3, <2>4, <2>5, GuestsKept
<1>5. ASSUME NEW c \in Pcpu, EnableSmep(c) \/ EnableSmap(c) \/ InitGuestMode(c) \/ InitVmcs(c) \/ LeaveGuest(c) PROVE GuestsInv'
  <2>1. LateStep(c)
    BY <1>5, Steps DEF PrepareVm
  <2>2. BSP \in Late /\ unmasked' = unmasked /\ unmasked = {}
    BY <2>1, LateOrder DEF LateStep, GuestsInv
  <2>3. UNCHANGED <<config, mbi, sw, gmem, cksum, regs>>
    BY <1>5 DEF EnableSmep, EnableSmap, InitGuestMode, InitVmcs, LeaveGuest, enable_smep, enable_smap, SetUp, guestVars
  <2>4. PICK p, q : Step(c, p, q) /\ ((p \in Before /\ q \in Before) \/ q \in {"guest", "exit"})
    BY <1>5 DEF EnableSmep, EnableSmap, InitGuestMode, InitVmcs, LeaveGuest, Before
  <2> QED BY <1>2, <2>2, <2>3, <2>4
<1>6. CASE StartTest
  <2> DEFINE g == [x \in DOMAIN gmem[0] |-> <<"guest", 0>>]
  <2>1. 0 \in Vm /\ 0 \in Pcpu
    BY DEF HostConfiguration, Vm
  <2>2. LateStep(0)
    BY <1>6, Steps
  <2>3. BSP \in Late /\ BSP' \in Late /\ UNCHANGED <<config, mbi, unmasked>>
    BY <1>6, <2>2, LateOrder DEF LateStep, StartTest
  <2>4. /\ sw[0] \in SwSet /\ regs[0] \in RegSet /\ cksum[0] \in BOOLEAN /\ DOMAIN g = 0 .. config[0].size - 1
        /\ sw = [sw EXCEPT ![0] = sw[0]] /\ regs = [regs EXCEPT ![0] = regs[0]] /\ cksum = [cksum EXCEPT ![0] = cksum[0]]
    BY <2>1 DEF GuestsInv
  <2>5. Becomes(0, "create", sw[0], g, cksum[0], regs[0])
    BY <1>6, <2>4 DEF StartTest, Becomes, Step
  <2>6. config[0].safety
    BY <2>1 DEF GuestsInv, HostConfiguration
  <2> HIDE DEF g
  <2>7. GuestAs("create", config[0], TagModule(0), create_zeropage_e820(0), sw[0], g, cksum[0], regs[0])
    BY <2>6 DEF GuestAs, Loading
  <2> QED BY <2>1, <2>3, <2>4, <2>5, <2>7, GuestStep
<1>7. CASE \E c \in Pcpu : EnableSmep(c) \/ EnableSmap(c) \/ InitGuestMode(c) \/ PrepareVm(c)
  BY <1>5, <1>7, LoadSteps, PrepareStep DEF PrepareVm, Vm
<1> QED BY <1>3, <1>4, <1>6, <1>7 DEF HostNext

\* What the loader accesses is memory of its VM or a module or table of the boot loader.
LEMMA AccessStep ==
    ASSUME HostConfiguration, OrderInv, ImageInv, PagingInv, GuestsInv, AccessInv, NEW v \in Vm,
           CreateVm(v) \/ build_vacpi(v) \/ LoadGdt(v) \/ LoadKernel(v) \/ LoadBootargs(v) \/ PrepareLoading(v)
    PROVE  AccessInv'
<1>1. v \in Pcpu /\ LateStep(v)
  BY Steps DEF Vm, PrepareVm
<1>2. BSP \in Late /\ BSP' \in Late /\ BSP \notin {"e820", "panic"} /\ UNCHANGED hv_e820
  BY <1>1, LateOrder DEF LateStep, Late
<1>3. high64_max_ram' = high64_max_ram
  BY <1>2 DEF high64_max_ram
<1>4. hv_e820 = init_e820(mbi.mmap) /\ BootProvides(mbi)
  BY <1>2 DEF OrderInv, HostConfiguration
<1>5. FourG <= high64_max_ram /\ high64_max_ram \in Nat /\ FourG \in Nat
  <2>1. mbi.mmap \in Seq(MapEntry)
    BY <1>4 DEF BootProvides, MapEntry
  <2>2. high64_max_ram \in Nat
    BY <1>4, <2>1, RamEnds
  <2> QED BY <1>2, <2>2, HvPagingAssumption DEF PagingInv, AddDone, Page
<1> DEFINE Ok(p) == p \in Outside /\ p < high64_max_ram
           f == config[v]
           m == TagModule(v)
<1>6. \A g \in 0 .. f.size - 1 : Ok(HostPage(v, g))
  <2>1. f \in Configs[v]
    BY DEF GuestsInv
  <2>2. \A p \in GuestPages(f) : Ok(p)
    <3>1. high64_max_ram = PdeUp(PageUp(obtain_mem_range_info(init_e820(mbi.mmap))))
      BY <1>4 DEF high64_max_ram
    <3>2. high64_max_ram >= FourG
      BY <1>5
    <3> QED BY <1>4, <2>1, <3>1, <3>2 DEF BootProvides, HostConfiguration
  <2> QED BY <2>2 DEF GuestPages, HostPage
<1>7. /\ m.page \in Outside /\ m.page < FourG /\ LoadAt(f) \in Nat /\ m.size \in Nat /\ f.size \in Nat
      /\ ACPI_BASE \in Nat /\ ACPI_BASE + 2 < LoadAt(f) /\ LoadAt(f) + m.size < f.size /\ f.bootargs \in {0, 1}
  BY <1>2, GuestFacts
<1>8. \A p \in Outside : p < FourG => Ok(p)
  BY <1>5 DEF Outside, Page
<1>9. Ok(m.page) /\ Ok(PageOf(mbi.addr["info"])) /\ Ok(PageOf(mbi.addr["mods"]))
  BY <1>4, <1>7, <1>8 DEF BootProvides
<1> HIDE DEF Ok
<1>10. ASSUME NEW pages, Access(v, pages, TRUE), \A p \in pages : Ok(p) PROVE AccessInv'
  <2>1. access' = [access EXCEPT ![v] = [pages |-> pages, ac |-> TRUE]]
    BY <1>10 DEF Access
  <2>2. access' = [c \in Pcpu |-> access'[c]] /\ access'[v] = [pages |-> pages, ac |-> TRUE]
        /\ \A c \in Pcpu \ {v} : access'[c] = access[c]
    BY <1>1, <2>1 DEF AccessInv
  <2>3. ASSUME NEW c \in Pcpu, NEW p \in access'[c].pages
        PROVE  access'[c].ac = TRUE /\ p \in Outside /\ p < high64_max_ram
    <3>1. CASE c = v
      BY <1>10, <2>2, <2>3, <3>1 DEF Ok
    <3>2. CASE c # v
      BY <2>2, <2>3, <3>2 DEF AccessInv
    <3> QED BY <3>1, <3>2
  <2> QED BY <1>2, <1>3, <2>2, <2>3 DEF AccessInv
<1>11. ASSUME UNCHANGED access PROVE AccessInv'
  BY <1>2, <1>3, <1>11 DEF AccessInv
<1>12. ASSUME NEW what, NEW from \in Nat, NEW n \in Nat, from + n <= f.size, copy_to_gpa(v, what, from, n) PROVE AccessInv'
  <2> DEFINE pages == {HostPage(v, g) : g \in Copied(v, from, n)}
  <2>1. Copied(v, from, n) = from .. from + n - 1
    BY <1>2, <1>12, CopyComplete
  <2>2. from .. from + n - 1 \subseteq 0 .. f.size - 1
    BY <1>7, <1>12
  <2>3. \A p \in pages : Ok(p)
    BY <1>6, <2>1, <2>2
  <2>4. Access(v, pages, TRUE)
    BY <1>12 DEF copy_to_gpa
  <2> HIDE DEF pages
  <2> QED BY <1>10, <2>3, <2>4
<1>13. ASSUME stage[v] \in Loading
       PROVE  /\ sw[v].load = LoadAt(f) /\ sw[v].size = m.size
              /\ sw[v].bootargs = IF f.bootargs > 0 THEN LoadAt(f) - 2 ELSE 0
  <2>1. sw[v] = SwAs(f, m)
    BY <1>13 DEF GuestsInv, GuestInv, GuestAs
  <2> QED BY <2>1 DEF SwAs
<1> HIDE DEF f, m
<1>14. CASE CreateVm(v)
  <2> DEFINE pages == {PageOf(mbi.addr["info"]), PageOf(mbi.addr["mods"]), m.page}
  <2>1. Access(v, pages, TRUE)
    BY <1>14 DEF CreateVm, init_vm_boot_info, m
  <2>2. \A p \in pages : Ok(p)
    BY <1>9
  <2> HIDE DEF pages
  <2> QED BY <1>10, <2>1, <2>2
<1>15. CASE build_vacpi(v)
  <2>1. CASE f.safety
    BY <1>11, <1>15, <2>1 DEF build_vacpi, f
  <2>2. CASE ~f.safety
    <3>1. \E what : copy_to_gpa(v, what, ACPI_BASE, 1)
      BY <1>15, <2>2 DEF build_vacpi, f
    <3>2. 1 \in Nat /\ ACPI_BASE + 1 <= f.size
      BY <1>7
    <3> QED BY <1>7, <1>12, <3>1, <3>2
  <2> QED BY <2>1, <2>2
<1>16. CASE LoadGdt(v)
  <2> DEFINE b == sw[v].bootargs + f.bootargs
             end == LoadAt(f) + m.size
  <2>1. stage[v] \in Loading
    BY <1>16 DEF LoadGdt, Step, Loading
  <2>2. get_guest_gdt_base_gpa(v) = Max({end, b})
    BY <1>13, <2>1 DEF get_guest_gdt_base_gpa, f
  <2>3. b \in Nat /\ b <= end /\ end \in Nat /\ end + 1 <= f.size /\ 1 \in Nat
    BY <1>7, <1>13, <2>1
  <2> HIDE DEF b, end
  <2>4. Max({end, b}) \in {end, b} /\ end <= Max({end, b})
    BY <2>3, MaxNat
  <2>5. get_guest_gdt_base_gpa(v) = end
    BY <2>2, <2>3, <2>4
  <2>6. copy_to_gpa(v, "gdt", end, 1)
    BY <1>16, <2>5 DEF LoadGdt
  <2> QED BY <1>12, <2>3, <2>6
<1>17. CASE LoadKernel(v)
  <2>1. stage[v] \in Loading
    BY <1>17 DEF LoadKernel, Step, Loading
  <2>2. copy_to_gpa(v, m.tag, LoadAt(f), m.size)
    BY <1>13, <1>17, <2>1 DEF LoadKernel, m
  <2>3. LoadAt(f) + m.size <= f.size
    BY <1>7
  <2> QED BY <1>7, <1>12, <2>2, <2>3
<1>18. CASE LoadBootargs(v)
  <2>1. stage[v] \in Loading
    BY <1>18 DEF LoadBootargs, Step, Loading
  <2>2. CASE f.bootargs > 0
    <3>1. copy_to_gpa(v, "bootargs", LoadAt(f) - 2, 1)
      BY <1>13, <1>18, <2>1, <2>2 DEF LoadBootargs, f
    <3>2. LoadAt(f) - 2 \in Nat /\ LoadAt(f) - 2 + 1 <= f.size /\ 1 \in Nat
      BY <1>7
    <3> QED BY <1>12, <3>1, <3>2
  <2>3. CASE ~(f.bootargs > 0)
    BY <1>11, <1>18, <2>3 DEF LoadBootargs, f
  <2> QED BY <2>2, <2>3
<1>19. CASE PrepareLoading(v)
  <2>1. stage[v] \in Loading
    BY <1>19 DEF PrepareLoading, Step, Loading
  <2>2. CASE f.type = "BZIMAGE"
    <3> DEFINE pages == {HostPage(v, ZeroPageAt(v)), HostPage(v, sw[v].load), m.page}
    <3>1. Access(v, pages, TRUE)
      BY <1>19, <2>2 DEF PrepareLoading, prepare_loading_bzimage, f, m
    <3>2. ZeroPageAt(v) \in 0 .. f.size - 1 /\ sw[v].load \in 0 .. f.size - 1
      BY <1>7, <1>13, <2>1 DEF ZeroPageAt
    <3>3. \A p \in pages : Ok(p)
      BY <1>6, <1>9, <3>2
    <3> HIDE DEF pages
    <3> QED BY <1>10, <3>1, <3>3
  <2>3. CASE f.type # "BZIMAGE"
    BY <1>11, <1>19, <2>3 DEF PrepareLoading, prepare_loading_rawimage, f
  <2> QED BY <2>2, <2>3
<1> QED BY <1>14, <1>15, <1>16, <1>17, <1>18, <1>19

\* The invariants of the host's memory together.
HostInv == OrderInv /\ ImageInv /\ PagingInv /\ CpuInv /\ GuestsInv /\ AccessInv

\* Before the other pCPUs are started nothing is accessed that needs a right.
LEMMA AccessKept ==
    ASSUME HostConfiguration, OrderInv, AccessInv, UNCHANGED access, HostNext PROVE AccessInv'
<1>1. CASE \E c : LateStep(c)
  <2>1. BSP' \in Late /\ UNCHANGED hv_e820
    BY <1>1, LateOrder DEF LateStep
  <2>2. high64_max_ram' = high64_max_ram
    BY <2>1 DEF high64_max_ram
  <2> QED BY <2>1, <2>2 DEF AccessInv
<1>2. CASE BSP \notin Late
  <2>1. \A c \in Pcpu : access[c].pages = {}
    BY <1>2 DEF AccessInv
  <2> QED BY <2>1 DEF AccessInv
<1>3. CASE InitE820 \/ Paging \/ EnablePaging \/ InitUart \/ init_interrupt \/ register_hrhd_units \/ prepare_trampoline
  <2>1. BSP \in Early
    BY <1>3 DEF InitE820, Paging, init_paging, MapAll, LowWb, HighWb, ImageWb, TextExecutable, DelGuards, Then,
                EnablePaging, InitUart, init_interrupt, register_hrhd_units, prepare_trampoline, Step, BSP, Early, SetUpStages
  <2>2. BSP \notin Late
    BY <2>1 DEF Early, Late, SetUpStages
  <2> QED BY <1>2, <2>2
<1> QED BY <1>1, <1>3, Steps DEF HostNext

\* The inductive invariant of host memory: what the processors, the pages of the
\* hypervisor's map, each pCPU's registers, each VM's loader and the pages touched
\* are at every stage of init_pcpu_pre, init_paging, init_pcpu_post and launch_vms.
THEOREM HostInvariance == ASSUME HostConfiguration PROVE HostSpec => []HostInv
<1>1. HostInit => CpuInv /\ GuestsInv /\ AccessInv
  <2> SUFFICES ASSUME HostInit PROVE CpuInv /\ GuestsInv /\ AccessInv
    OBVIOUS
  <2>1. /\ stage = [c \in Pcpu |-> IF c = BOOT_CPU_ID THEN "e820" ELSE "offline"] /\ BSP = "e820"
        /\ cpu = [c \in Pcpu |-> {}] /\ host = [c \in Pcpu |-> {}] /\ access = [c \in Pcpu |-> NoAccess]
    BY HvPagingAssumption DEF HostInit, BSP
  <2>2. CpuInv
    <3>1. CpuAs("e820", {}, {}) /\ CpuAs("offline", {}, {}) /\ BSP \notin Late
      BY <2>1 DEF CpuAs, Late
    <3>2. \A c \in Pcpu : CpuAs(stage[c], cpu[c], host[c])
      BY <2>1, <3>1
    <3> QED BY <2>1, <3>1, <3>2 DEF CpuInv
  <2>3. AccessInv
    <3>1. \A c \in Pcpu : access[c].pages = {}
      BY <2>1 DEF NoAccess
    <3> QED BY <2>1, <3>1 DEF AccessInv
  <2>4. GuestsInv
    <3>1. /\ \A v \in Vm : config[v] \in Configs[v]
          /\ sw = [v \in Vm |-> [load |-> 0, size |-> 0, bootargs |-> 0]]
          /\ regs = [v \in Vm |-> [rip |-> 0, rsi |-> 0, gdt |-> 0]] /\ cksum = [v \in Vm |-> FALSE]
          /\ gmem = [v \in Vm |-> [g \in 0 .. config[v].size - 1 |-> <<"firmware", 0>>]]
          /\ unmasked = Ioapics \X (0 .. MaxRte)
      BY DEF HostInit
    <3>2. sw \in [Vm -> SwSet] /\ regs \in [Vm -> RegSet] /\ cksum \in [Vm -> BOOLEAN]
      BY <3>1 DEF SwSet, RegSet
    <3>3. gmem = [v \in Vm |-> gmem[v]] /\ \A v \in Vm : DOMAIN gmem[v] = 0 .. config[v].size - 1
      BY <3>1
    <3>4. BSP \notin Late \cup {"iommu", "start_pcpus"}
      BY <2>1 DEF Late
    <3>5. ASSUME NEW v \in Vm PROVE GuestInv(v)
      <4>1. stage[v] \in {"e820", "offline"} /\ cksum[v] = FALSE
        BY <2>1, <3>1 DEF Vm
      <4>2. stage[v] \notin Loading \cup {"vacpi"} /\ stage[v] \notin {"prepare", "started"}
        BY <4>1 DEF Loading
      <4> QED BY <4>1, <4>2 DEF GuestInv, GuestAs
    <3> QED BY <3>1, <3>2, <3>3, <3>4, <3>5 DEF GuestsInv
  <2> QED BY <2>2, <2>3, <2>4
<1>2. OrderInv /\ ImageInv /\ PagingInv /\ CpuInv /\ GuestsInv /\ AccessInv /\ [HostNext]_allVars
        => CpuInv' /\ GuestsInv' /\ AccessInv'
  <2> SUFFICES ASSUME OrderInv, ImageInv, PagingInv, CpuInv, GuestsInv, AccessInv, [HostNext]_allVars
               PROVE  CpuInv' /\ GuestsInv' /\ AccessInv'
    OBVIOUS
  <2>1. CASE HostNext
    <3>1. CpuInv' /\ GuestsInv'
      BY <2>1, CpuNext, GuestsNext
    <3>2. AccessInv'
      <4>1. CASE \E v \in Vm : CreateVm(v) \/ build_vacpi(v) \/ LoadGdt(v) \/ LoadKernel(v) \/ LoadBootargs(v) \/ PrepareLoading(v)
        BY <4>1, AccessStep
      <4>2. CASE \/ InitE820 \/ Paging \/ EnablePaging \/ InitUart \/ init_interrupt \/ register_hrhd_units
                 \/ prepare_trampoline \/ StartTest
                 \/ \E c \in Pcpu : EnableSmep(c) \/ EnableSmap(c) \/ InitGuestMode(c) \/ InitVmcs(c) \/ LeaveGuest(c)
        <5>1. UNCHANGED access
          BY <4>2 DEF InitE820, Paging, EnablePaging, InitUart, init_interrupt, register_hrhd_units, prepare_trampoline,
                      StartTest, EnableSmep, EnableSmap, InitGuestMode, InitVmcs, LeaveGuest
        <5> QED BY <2>1, <5>1, AccessKept
      <4> QED BY <2>1, <4>1, <4>2 DEF HostNext, PrepareVm, Vm
    <3> QED BY <3>1, <3>2
  <2>2. CASE UNCHANGED allVars
    <3>1. UNCHANGED <<stage, hv_e820, stale, mbi, unmasked, cpu, host, access, config, sw, gmem, cksum, regs>>
      BY <2>2 DEF allVars, pagingVars, hostVars, guestVars
    <3>2. BSP' = BSP /\ high64_max_ram' = high64_max_ram
      BY <3>1 DEF BSP, high64_max_ram
    <3>3. CpuInv' /\ AccessInv'
      BY <3>1, <3>2 DEF CpuInv, AccessInv
    <3>4. GuestsInv'
      BY <3>1, <3>2, GuestsKept DEF GuestsInv
    <3> QED BY <3>3, <3>4
  <2> QED BY <2>1, <2>2
<1> QED BY <1>1, <1>2, OrderInvariance, PagingInvariance, PTL DEF HostSpec, HostInv

\* Nothing the hypervisor does runs into the protections it has set up for itself,
\* and every VM exit finds all of them in force.
THEOREM HostIsProtected == ASSUME HostConfiguration PROVE HostSpec => []HostProtected
<1>1. HostInv => HostProtected
  <2> SUFFICES ASSUME HostInv PROVE HostProtected
    OBVIOUS
  <2>1. OrderInv /\ ImageInv /\ PagingInv /\ CpuInv /\ GuestsInv /\ AccessInv /\ BOOT_CPU_ID \in Pcpu
    BY HvPagingAssumption DEF HostInv
  <2>2. HostStateKept
    <3> SUFFICES ASSUME NEW c \in Pcpu
                 PROVE  /\ "#GP" \notin cpu[c]
                        /\ stage[c] = "exit" =>
                             {"x2APIC"} \cup enable_paging(vmx_on(BeginPost({"IDTR", "CR4.SMEP", "CR4.SMAP"}))) \subseteq cpu[c]
      BY DEF HostStateKept
    <3>1. CpuAs(stage[c], cpu[c], host[c])
      BY <2>1 DEF CpuInv
    <3>2. {"x2APIC"} \cup enable_paging(vmx_on(BeginPost({"IDTR", "CR4.SMEP", "CR4.SMAP"})))
            = Base \cup {"CR4.SMEP", "CR4.SMAP"} \cup vmx_on({})
      BY DEF Base, enable_paging, vmx_on, BeginPost, load_gdtr_and_tr, set_fs_base
    <3>3. stage[c] = "exit" => Base \subseteq cpu[c] /\ "CR4.SMEP" \in cpu[c] /\ "CR4.SMAP" \in cpu[c] /\ vmx_on({}) \subseteq cpu[c]
      BY <3>1 DEF CpuAs, Late
    <3>4. "#GP" \notin cpu[c]
      BY <3>1 DEF CpuAs
    <3> QED BY <3>2, <3>3, <3>4
  <2>3. ASSUME NEW c \in Pcpu, "CR4.SMAP" \in cpu[c]
        PROVE  BSP \in Late /\ (c = BOOT_CPU_ID => stale = {})
    <3>1. stage[c] \in Late \ {"smep", "smap"}
      BY <2>1, <2>3 DEF CpuInv, CpuAs
    <3>2. BSP \in Late
      BY <2>1, <3>1 DEF OrderInv, BSP, Late
    <3> QED BY <2>1, <3>1, <3>2 DEF CpuInv, BSP
  <2>4. ASSUME BSP \in Late, NEW p \in Outside, p < high64_max_ram PROVE Mapped(ppt, p)
    <3>1. p \in Page /\ p \notin GuardPages
      BY <2>1, ImageRanges DEF Outside
    <3>2. PageAs(BSP, View(ppt, p), p, high64_max_ram, TextRange, ImageRange)
      BY <2>1, <3>1 DEF PagingInv, PageInv
    <3>3. View(ppt, p).kind = "leaf"
      BY <2>4, <3>1, <3>2 DEF PageAs, AddDone
    <3>4. View(ppt, p) # None
      BY <3>3, EntryFields
    <3> QED BY <3>1, <3>4, ViewWalk
  <2>5. ASSUME BSP \in Late, NEW p \in Devices PROVE Mapped(ppt, p) /\ "USER" \notin Translate(ppt, p).prot
    <3>1. p \in Outside /\ p < FourG /\ p \in Page
      BY DEF HostConfiguration, Outside
    <3>2. FourG <= high64_max_ram /\ high64_max_ram \in Nat /\ FourG \in Nat /\ p \in Int
      <4>1. hv_e820 = init_e820(mbi.mmap) /\ mbi.mmap \in Seq(MapEntry)
        BY <2>1, <2>5 DEF OrderInv, HostConfiguration, BootProvides, MapEntry, Late
      <4>2. high64_max_ram \in Nat
        BY <4>1, RamEnds
      <4> QED BY <2>1, <2>5, <3>1, <4>2, HvPagingAssumption DEF PagingInv, AddDone, Page
    <3>3. Mapped(ppt, p)
      BY <2>4, <2>5, <3>1, <3>2
    <3>4. PageAs(BSP, View(ppt, p), p, high64_max_ram, TextRange, ImageRange)
      BY <2>1, <3>1 DEF PagingInv, PageInv
    <3>5. "USER" \notin View(ppt, p).prot
      BY <2>5, <3>4 DEF PageAs, DrhdDone
    <3> QED BY <3>1, <3>3, <3>5, ViewIsTranslate DEF HostConfiguration
  <2>6. SmapClean
    <3> SUFFICES ASSUME NEW c \in Pcpu, "CR4.SMAP" \in cpu[c]
                 PROVE  /\ \A p \in Devices : Allowed(c, p, FALSE)
                        /\ \A p \in access[c].pages : Allowed(c, p, access[c].ac)
      BY DEF SmapClean
    <3>1. BSP \in Late /\ (c = BOOT_CPU_ID => stale = {})
      BY <2>3
    <3>2. \A p \in Devices : Allowed(c, p, FALSE)
      BY <2>5, <3>1 DEF Allowed
    <3>3. \A p \in access[c].pages : Allowed(c, p, access[c].ac)
      BY <2>1, <2>4, <3>1 DEF Allowed, AccessInv
    <3> QED BY <3>2, <3>3
  <2> QED BY <2>2, <2>6 DEF HostProtected
<1> QED BY <1>1, HostInvariance, PTL

\* A VM that is started finds its kernel, GDT, boot arguments, zero page and ACPI
\* tables where its registers say, and every pin of the I/O APICs masked.
THEOREM GuestIsLoaded == ASSUME HostConfiguration PROVE HostSpec => []GuestLoaded
<1>1. HostInv => GuestLoaded
  <2> SUFFICES ASSUME HostInv, NEW v \in Vm, stage[v] = "started"
               PROVE  /\ \A g \in sw[v].load .. sw[v].load + TagModule(v).size - 1 : gmem[v][g][1] = TagModule(v).tag
                      /\ regs[v].rip \in sw[v].load .. sw[v].load + TagModule(v).size - 1
                      /\ gmem[v][regs[v].gdt][1] = "gdt"
                      /\ config[v].bootargs > 0 => gmem[v][sw[v].bootargs][1] = "bootargs"
                      /\ config[v].type = "BZIMAGE" => gmem[v][regs[v].rsi] = create_zero_page(v)
                      /\ ~config[v].safety => gmem[v][ACPI_BASE][1] = "acpi"
                      /\ unmasked = {}
    BY DEF GuestLoaded
  <2> DEFINE f == config[v]
             m == TagModule(v)
             z == create_zeropage_e820(v)
             load == LoadAt(f)
             end == load + m.size
  <2>1. OrderInv /\ GuestsInv
    BY DEF HostInv
  <2>2. BSP \in Late
    BY <2>1 DEF OrderInv, BSP, Vm, Late
  <2>3. unmasked = {} /\ BSP \notin {"e820", "panic"}
    BY <2>1, <2>2 DEF GuestsInv, Late
  <2>4. load \in Nat /\ m.size \in Nat
    BY <2>1, <2>3, GuestFacts
  <2>5. GuestAs("started", f, m, z, sw[v], gmem[v], cksum[v], regs[v])
    BY <2>1 DEF GuestsInv, GuestInv
  <2>6. create_zero_page(v) = <<"zero_page", sw[v].bootargs, z>>
    BY DEF create_zero_page
  <2> HIDE DEF f, m, z
  <2>7. /\ sw[v] = SwAs(f, m) /\ regs[v].gdt = end /\ gmem[v][end] = <<"gdt", 0>>
        /\ \A x \in load .. end - 1 : gmem[v][x] = <<m.tag, 0>>
        /\ regs[v].rip \in load .. end - 1
        /\ f.bootargs > 0 => gmem[v][load - 2] = <<"bootargs", 0>>
        /\ f.type = "BZIMAGE" => gmem[v][regs[v].rsi] = <<"zero_page", sw[v].bootargs, z>>
        /\ ~f.safety => gmem[v][ACPI_BASE] = <<"acpi", 0>>
    BY <2>5 DEF GuestAs, Loading
  <2>8. sw[v].load = load /\ (f.bootargs > 0 => sw[v].bootargs = load - 2)
    BY <2>7 DEF SwAs
  <2>9. load .. load + m.size - 1 = load .. end - 1
    <3> HIDE DEF load
    <3> QED BY <2>4
  <2> HIDE DEF load, end
  <2>10. \A x : <<x, 0>>[1] = x
    OBVIOUS
  <2> QED BY <2>3, <2>6, <2>7, <2>8, <2>9, <2>10 DEF f, m
<1> QED BY <1>1, HostInvariance, PTL
=============================================================================
