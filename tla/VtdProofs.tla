------------------------------ MODULE VtdProofs ------------------------------
(***************************************************************************)
(* Proofs about the VT-d unit and its users: DMA and interrupts of a       *)
(* device stay those of its VM, for every number of VMs, devices and       *)
(* buses, every queue size, and every order of the unit's own steps.       *)
(***************************************************************************)
EXTENDS Vtd, TLAPS

\* Where a pCPU waits, with the lock, for a command of the unit.
Commanding == {"disabled", "rooted", "qi_on", "irta_set", "te_on", "ire_on"}
Attaching == {"wait_boot", "add_root", "add_ctx"}
Cleaning == {"cleanup", "free_irte", "destroyed"}
BootPlaces == {"disable", "root", "qi", "irta", "enable", "te", "up"} \cup (Commanding \ {"ire_on"})
WithDev == {"add_root", "add_ctx", "ire", "ire_on", "irte_hi", "irte_lo", "free_irte"}
VmPlaces == Attaching \cup Cleaning \cup WithDev \cup {"run"}

Buses == {Bus[d] : d \in Dev}
Wait(c) == [type |-> "wait", cpu |-> c]
Domain(d) == vmid_to_domainid(Owner[d])
IrteSet == [sid : Dev \cup {None}, present : BOOLEAN, vector : Vector \cup {None}, vm : Vm \cup {None}]

\* The root entry of a bus, once there, is the context table of that bus.
TypeOK ==
    /\ lock \in Cpu \cup {None}
    /\ root \in [Buses -> Buses \cup {None}] /\ \A b \in Buses : root[b] \in {None, b}
    /\ ctx \in [Table -> [Dev -> Nat \cup {None}]]
    /\ irt \in [Index -> IrteSet] /\ iec \in [Index -> IrteSet]
    /\ DOMAIN qi_queue = 0 .. Queue - 1
    /\ iqh \in 0 .. Queue - 1 /\ iqt \in 0 .. Queue - 1 /\ qi_tail = iqt
    /\ status \in [Cpu -> {"INCOMPLETE", "COMPLETED"}]
    /\ ctx_cache \in [Dev -> Nat \cup {None}]
    /\ pc \in [Cpu -> BootPlaces \cup VmPlaces]
    /\ dev \in [Cpu -> Dev \cup {None}]
    /\ todo \in [Cpu -> SUBSET Dev]
    /\ vec \in [Cpu -> Vector \cup {None}]
    /\ DOMAIN req = Cpu

\* Where a pCPU is, what it is doing there and what it still has to request.
VmWorking(c) ==
    /\ pc[c] \in VmPlaces
    /\ todo[c] \subseteq DevsOf(c)
    /\ pc[c] = "destroyed" => todo[c] = {}
    /\ pc[c] \in WithDev => dev[c] \in DevsOf(c)
    /\ pc[c] \in {"add_root", "add_ctx", "free_irte"} => dev[c] \notin todo[c]
    /\ req[c] # <<>> =>
         \/ /\ pc[c] \in {"run", "cleanup"}
            /\ \E d \in DevsOf(c) : req[c] = <<dmar_invalid_iec(irte_index(d))>>
         \/ /\ pc[c] = "free_irte"
            /\ \/ req[c] = <<dmar_invalid_context_cache(dev[c]), dmar_invalid_iotlb(vmid_to_domainid(c))>>
               \/ req[c] = <<dmar_invalid_iotlb(vmid_to_domainid(c))>>

BootWorking ==
    /\ pc[Bsp] \in BootPlaces
    /\ req[Bsp] # <<>> =>
         /\ pc[Bsp] = "te"
         /\ \/ req[Bsp] = <<dmar_invalid_context_cache_global, dmar_invalid_iotlb_global, dmar_invalid_iec_global>>
            \/ req[Bsp] = <<dmar_invalid_iotlb_global, dmar_invalid_iec_global>>
            \/ req[Bsp] = <<dmar_invalid_iec_global>>

Working == BootWorking /\ \A c \in Vm : VmWorking(c)

\* The queue holds one request at a time, that of the pCPU with the lock, and the
\* unit has still to execute it, or only the wait descriptor after it, or nothing.
Executing(c) ==
    \/ /\ status[c] = "INCOMPLETE" /\ qi_queue[iqh] = Head(req[c])
       /\ qi_queue[Wrap(iqh + 1)] = Wait(c) /\ iqt = Wrap(Wrap(iqh + 1) + 1)
    \/ status[c] = "INCOMPLETE" /\ qi_queue[iqh] = Wait(c) /\ iqt = Wrap(iqh + 1)
    \/ status[c] = "COMPLETED" /\ iqh = iqt

OneRequest ==
    /\ \A c \in Cpu : lock = c => IF req[c] = <<>> THEN pc[c] \in Commanding /\ iqh = iqt ELSE Executing(c)
    /\ lock = None => iqh = iqt

\* Request r of pCPU c has not been executed.
Executed(c) == lock = c /\ (status[c] = "COMPLETED" \/ qi_queue[iqh] = Wait(c))
Outstanding(c, r) == req[c] # <<>> /\ Head(req[c]) = r /\ ~Executed(c)

\* The tables of an attached device, and the caches of one that is being removed: a
\* cache may be behind the table only while the request to forget is outstanding.
Dma(d) ==
    LET c == Owner[d] IN
    /\ ctx[Bus[d]][d] \in {None, Domain(d)} /\ ctx_cache[d] \in {None, Domain(d)}
    /\ pc[c] \in Attaching /\ d \notin todo[c] =>
         /\ root[Bus[d]] = Bus[d] \/ (pc[c] = "add_root" /\ dev[c] = d)
         /\ ctx[Bus[d]][d] = Domain(d) \/ (pc[c] # "wait_boot" /\ dev[c] = d)
    /\ pc[c] \notin Attaching => root[Bus[d]] = Bus[d]
    /\ pc[c] \notin Attaching \cup Cleaning => ctx[Bus[d]][d] = Domain(d)
    /\ pc[c] \in Cleaning /\ d \notin todo[c] =>
         /\ ctx[Bus[d]][d] = None
         /\ ctx_cache[d] = None \/ Outstanding(c, dmar_invalid_context_cache(d))

Iotlb ==
    /\ \A t \in iotlb : \E d \in Dev : t = Domain(d)
    /\ \A c \in Vm : pc[c] \in Cleaning /\ todo[c] = {} =>
         \/ vmid_to_domainid(c) \notin iotlb
         \/ Outstanding(c, dmar_invalid_iotlb(vmid_to_domainid(c)))
         \/ \E d \in DevsOf(c) : req[c] # <<>> /\ Head(req[c]) = dmar_invalid_context_cache(d)

\* The interrupt remapping entry of a device, in the table and in the cache.
Irte(d) ==
    LET c == Owner[d]  i == irte_index(d) IN
    /\ irt[i].present => irt[i].sid = d
    /\ iec[i].present => iec[i].sid = d
    /\ pc[c] = "irte_lo" /\ dev[c] = d => irt[i].sid = d
    /\ (iec[i].present => iec[i] = irt[i]) \/ Outstanding(c, dmar_invalid_iec(i))
    /\ pc[c] \in Cleaning /\ d \notin todo[c] => ~irt[i].present \/ (pc[c] = "free_irte" /\ dev[c] = d)

VtdInv == TypeOK /\ Working /\ OneRequest /\ Iotlb /\ \A d \in Dev : Dma(d) /\ Irte(d)

-----------------------------------------------------------------------------
\* The places in the queue that one request takes are different ones, also where
\* the queue wraps around.
LEMMA WrapNext ==
  ASSUME NEW n \in 0 .. Queue - 1
  PROVE  /\ Wrap(n + 1) = IF n = Queue - 1 THEN 0 ELSE n + 1
         /\ Wrap(n + 2) = Wrap(Wrap(n + 1) + 1)
<1> USE VtdAssumption
<1>1. \A a \in 0 .. Queue - 1 : a % Queue = a
  OBVIOUS
<1>2. \A a \in Queue .. 2 * Queue - 1 : a % Queue = a - Queue
  OBVIOUS
<1> QED BY <1>1, <1>2 DEF Wrap

LEMMA WrapRange ==
  ASSUME NEW n \in 0 .. Queue - 1
  PROVE  /\ Wrap(n + 1) \in 0 .. Queue - 1 /\ Wrap(n + 2) \in 0 .. Queue - 1
         /\ Wrap(n + 1) # n /\ Wrap(n + 2) # n
<1>1. Wrap(n + 1) \in 0 .. Queue - 1
  BY VtdAssumption, WrapNext
<1> QED BY <1>1, VtdAssumption, WrapNext

LEMMA HeadTail ==
  /\ \A a : Head(<<a>>) = a /\ Tail(<<a>>) = <<>> /\ <<a>> # <<>>
  /\ \A a, b : Head(<<a, b>>) = a /\ Tail(<<a, b>>) = <<b>> /\ <<a, b>> # <<>>
  /\ \A a, b, c : Head(<<a, b, c>>) = a /\ Tail(<<a, b, c>>) = <<b, c>> /\ <<a, b, c>> # <<>>
  OBVIOUS

\* Descriptors tell by their types what they are.
LEMMA Types ==
  /\ dmar_invalid_context_cache_global.type = "ctx_global"
  /\ dmar_invalid_iotlb_global.type = "iotlb_global"
  /\ dmar_invalid_iec_global.type = "iec_global"
  /\ \A d : dmar_invalid_context_cache(d).type = "ctx" /\ dmar_invalid_context_cache(d).sid = d
  /\ \A t : dmar_invalid_iotlb(t).type = "iotlb" /\ dmar_invalid_iotlb(t).did = t
  /\ \A i : dmar_invalid_iec(i).type = "iec" /\ dmar_invalid_iec(i).index = i
  /\ \A c : Wait(c).type = "wait" /\ Wait(c).cpu = c
  BY DEF dmar_invalid_context_cache_global, dmar_invalid_iotlb_global, dmar_invalid_iec_global,
         dmar_invalid_context_cache, dmar_invalid_iotlb, dmar_invalid_iec, Wait

\* Domains of different VMs are different, and so are entries of different devices.
LEMMA OwnNames ==
  /\ \A c, v \in Vm : vmid_to_domainid(c) \in Nat /\ (vmid_to_domainid(c) = vmid_to_domainid(v) => c = v)
  /\ \A d \in Dev : Domain(d) \in Nat /\ Domain(d) # None /\ irte_index(d) \in Index /\ Bus[d] \in Buses
  /\ \A d, e \in Dev : irte_index(d) = irte_index(e) => d = e
  BY VtdAssumption DEF vmid_to_domainid, Domain, Index, Buses

LEMMA InitInv == Init => VtdInv
<1> SUFFICES ASSUME Init PROVE VtdInv
  OBVIOUS
<1> USE VtdAssumption DEF Init
<1>1. TypeOK
  BY DEF TypeOK, Cpu, Buses, Table, IrteSet, Absent, BootPlaces, VmPlaces, Attaching, DevsOf
<1>2. Working
  BY DEF Working, VmWorking, BootWorking, Cpu, BootPlaces, VmPlaces, Attaching, DevsOf, WithDev
<1>3. OneRequest
  BY DEF OneRequest, Cpu
<1>4. Iotlb
  BY DEF Iotlb, Cleaning, Cpu
<1>5. ASSUME NEW d \in Dev PROVE Dma(d)
  BY DEF Dma, Cpu, Attaching, Cleaning, DevsOf, Table
<1>6. ASSUME NEW d \in Dev PROVE Irte(d)
  BY OwnNames DEF Irte, Absent, Cpu, Cleaning
<1> QED BY <1>1, <1>2, <1>3, <1>4, <1>5, <1>6 DEF VtdInv

-----------------------------------------------------------------------------
(***************************************************************************)
(* The steps that only move a pCPU and take or release the lock.           *)
(***************************************************************************)
Move(c, next) ==
    /\ c \in Cpu /\ req[c] = <<>>
    /\ \/ lock = None /\ lock' = c /\ next \in Commanding
       \/ lock = c /\ lock' = None
       \/ lock = None /\ lock' = None
    /\ Goto(c, next)
    /\ \/ c = Bsp /\ next \in BootPlaces
       \/ c \in Vm /\ pc[c] \in {"ire", "ire_on"} /\ next \in {"ire_on", "irte_hi"}
    /\ UNCHANGED <<tables, queue, caches, dev, todo, vec, req>>

LEMMA MoveStep ==
  ASSUME VtdInv, NEW c, NEW next, Move(c, next)
  PROVE  VtdInv'
<1> USE VtdAssumption DEF Move, Goto, tables, queue, caches
<1>1. TypeOK /\ Working /\ OneRequest /\ Iotlb
  BY DEF VtdInv
<1>2. TypeOK'
  BY <1>1 DEF TypeOK, Cpu, BootPlaces, VmPlaces, WithDev, Commanding
<1>3. Working'
  BY <1>1 DEF TypeOK, Working, VmWorking, BootWorking, Cpu, BootPlaces, VmPlaces, WithDev, Commanding, Attaching, Cleaning
<1>4. OneRequest'
  BY <1>1 DEF TypeOK, OneRequest, Executing, Cpu
<1>5. \A v \in Cpu : \A r : Outstanding(v, r) => Outstanding(v, r)'
  BY <1>1 DEF Outstanding, Executed, Cpu
<1>6. Iotlb'
  <2>1. \A v \in Vm : v \in Cpu /\ (pc'[v] \in Cleaning => pc[v] \in Cleaning) /\ todo'[v] = todo[v] /\ req'[v] = req[v]
    BY <1>1 DEF TypeOK, Cpu, Cleaning, WithDev
  <2> QED BY <1>1, <1>5, <2>1 DEF Iotlb
<1>7. ASSUME NEW d \in Dev PROVE Dma(d)'
  <2>1. Dma(d) /\ Owner[d] \in Vm
    BY DEF VtdInv
  <2>2. pc'[Owner[d]] \in Attaching \cup Cleaning <=> pc[Owner[d]] \in Attaching \cup Cleaning
    BY <1>1, <2>1 DEF TypeOK, Working, VmWorking, BootWorking, Attaching, Cleaning, Cpu
  <2>3. pc[Owner[d]] \in Attaching \cup Cleaning => pc'[Owner[d]] = pc[Owner[d]]
    BY <1>1, <2>1 DEF TypeOK, Attaching, Cleaning, Cpu
  <2> QED BY <1>1, <1>5, <2>1, <2>2, <2>3 DEF Dma, Cpu
<1>8. ASSUME NEW d \in Dev PROVE Irte(d)'
  <2>1. Irte(d) /\ Owner[d] \in Vm
    BY DEF VtdInv
  <2>2. pc'[Owner[d]] \in Cleaning \cup {"irte_lo"} => pc'[Owner[d]] = pc[Owner[d]]
    BY <1>1, <2>1 DEF TypeOK, Cleaning, Cpu
  <2> QED BY <1>1, <1>5, <2>1, <2>2 DEF Irte, Cpu
<1> QED BY <1>2, <1>3, <1>4, <1>6, <1>7, <1>8 DEF VtdInv

\* These are the steps of the registers.
LEMMA RegisterSteps ==
  ASSUME VtdInv
  PROVE  /\ init_iommu(Bsp) \/ dmar_enable_translation(Bsp) => VtdInv'
         /\ \A c \in Vm : dmar_enable_intr_remapping(c) => VtdInv'
<1> USE DEF WriteGcmd, dmar_wait_completion, At, Goto, unit, Commanding, BootPlaces, Move, tables, queue, caches
<1>1. Bsp \in Cpu /\ Vm \subseteq Cpu
  BY DEF Cpu
<1>2. ASSUME dmar_disable_translation(Bsp) PROVE \E next : Move(Bsp, next)
  BY <1>1, <1>2 DEF dmar_disable_translation
<1>3. ASSUME dmar_set_root_table(Bsp) PROVE \E next : Move(Bsp, next)
  BY <1>1, <1>3 DEF dmar_set_root_table
<1>4. ASSUME dmar_enable_qi(Bsp) PROVE \E next : Move(Bsp, next)
  BY <1>1, <1>4 DEF dmar_enable_qi
<1>5. ASSUME dmar_set_intr_remap_table(Bsp) PROVE \E next : Move(Bsp, next)
  BY <1>1, <1>5 DEF dmar_set_intr_remap_table
<1>6. ASSUME dmar_enable_translation(Bsp) PROVE \E next : Move(Bsp, next)
  BY <1>1, <1>6 DEF dmar_enable_translation
<1>7. ASSUME NEW c \in Vm, dmar_enable_intr_remapping(c) PROVE \E next : Move(c, next)
  BY <1>1, <1>7 DEF dmar_enable_intr_remapping
<1> QED BY <1>2, <1>3, <1>4, <1>5, <1>6, <1>7, MoveStep DEF init_iommu, dmar_register_hrhd, dmar_prepare

-----------------------------------------------------------------------------
(***************************************************************************)
(* The invalidation queue.                                                 *)
(***************************************************************************)
LEMMA RequestsOfVm ==
  ASSUME VtdInv, NEW c \in Vm, req[c] # <<>>
  PROVE  \/ /\ pc[c] = "free_irte"
            /\ Head(req[c]) = dmar_invalid_context_cache(dev[c])
            /\ Tail(req[c]) = <<dmar_invalid_iotlb(vmid_to_domainid(c))>>
         \/ /\ pc[c] = "free_irte"
            /\ Head(req[c]) = dmar_invalid_iotlb(vmid_to_domainid(c)) /\ Tail(req[c]) = <<>>
         \/ /\ pc[c] \in {"run", "cleanup"} /\ Tail(req[c]) = <<>>
            /\ \E d \in DevsOf(c) : Head(req[c]) = dmar_invalid_iec(irte_index(d))
<1>1. \/ /\ pc[c] \in {"run", "cleanup"}
         /\ \E d \in DevsOf(c) : req[c] = <<dmar_invalid_iec(irte_index(d))>>
      \/ /\ pc[c] = "free_irte"
         /\ req[c] = <<dmar_invalid_context_cache(dev[c]), dmar_invalid_iotlb(vmid_to_domainid(c))>>
      \/ pc[c] = "free_irte" /\ req[c] = <<dmar_invalid_iotlb(vmid_to_domainid(c))>>
  BY DEF VtdInv, Working, VmWorking, BootWorking
<1>2. ASSUME NEW d \in DevsOf(c), req[c] = <<dmar_invalid_iec(irte_index(d))>>
      PROVE  Head(req[c]) = dmar_invalid_iec(irte_index(d)) /\ Tail(req[c]) = <<>>
  BY <1>2, HeadTail
<1>3. ASSUME req[c] = <<dmar_invalid_context_cache(dev[c]), dmar_invalid_iotlb(vmid_to_domainid(c))>>
      PROVE  /\ Head(req[c]) = dmar_invalid_context_cache(dev[c])
             /\ Tail(req[c]) = <<dmar_invalid_iotlb(vmid_to_domainid(c))>>
  BY <1>3, HeadTail
<1>4. ASSUME req[c] = <<dmar_invalid_iotlb(vmid_to_domainid(c))>>
      PROVE  Head(req[c]) = dmar_invalid_iotlb(vmid_to_domainid(c)) /\ Tail(req[c]) = <<>>
  BY <1>4, HeadTail
<1> QED BY <1>1, <1>2, <1>3, <1>4

LEMMA RequestsOfBoot ==
  ASSUME VtdInv, req[Bsp] # <<>>
  PROVE  /\ pc[Bsp] = "te"
         /\ Head(req[Bsp]) \in {dmar_invalid_context_cache_global, dmar_invalid_iotlb_global,
                                dmar_invalid_iec_global}
  BY HeadTail DEF VtdInv, Working, VmWorking, BootWorking

LEMMA NotWait ==
  ASSUME VtdInv, NEW c \in Cpu, req[c] # <<>>
  PROVE  Head(req[c]).type # "wait" /\ \A v : Head(req[c]) # Wait(v)
<1>1. Head(req[c]).type # "wait"
  BY RequestsOfVm, RequestsOfBoot, Types DEF Cpu
<1> QED BY <1>1, Types

LEMMA IssueStep ==
  ASSUME VtdInv, NEW c \in Cpu, dmar_issue_qi_request(c)
  PROVE  VtdInv'
<1> USE VtdAssumption DEF dmar_issue_qi_request, tables, caches, work
<1>1. TypeOK /\ Working /\ OneRequest /\ Iotlb /\ iqh = iqt /\ None \notin Cpu
  BY DEF VtdInv, OneRequest
<1> DEFINE n == qi_tail
<1>2. /\ n \in 0 .. Queue - 1 /\ iqh = n
      /\ Wrap(n + 1) \in 0 .. Queue - 1 /\ Wrap(n + 1) # n
      /\ Wrap(n + 2) \in 0 .. Queue - 1 /\ Wrap(n + 2) = Wrap(Wrap(n + 1) + 1)
  BY <1>1, WrapRange, WrapNext DEF TypeOK
<1>3. qi_queue'[n] = Head(req[c]) /\ qi_queue'[Wrap(n + 1)] = Wait(c)
  BY <1>1, <1>2 DEF TypeOK, Put, Wait
<1>4. TypeOK'
  BY <1>1, <1>2 DEF TypeOK, Put
<1>5. Working'
  BY <1>1 DEF Working, VmWorking, BootWorking
<1>6. OneRequest'
  BY <1>1, <1>2, <1>3 DEF TypeOK, OneRequest, Executing
<1>7. \A v \in Cpu : \A r : Outstanding(v, r) => Outstanding(v, r)'
  BY <1>1, <1>2, <1>3, NotWait DEF TypeOK, Outstanding, Executed
<1>8. Iotlb'
  BY <1>1, <1>7 DEF Iotlb, Cpu
<1>9. ASSUME NEW d \in Dev PROVE Dma(d)'
  BY <1>1, <1>7 DEF VtdInv, Dma, Cpu
<1>10. ASSUME NEW d \in Dev PROVE Irte(d)'
  BY <1>1, <1>7 DEF VtdInv, Irte, Cpu
<1> QED BY <1>4, <1>5, <1>6, <1>8, <1>9, <1>10 DEF VtdInv

LEMMA CompletedStep ==
  ASSUME VtdInv, NEW c \in Cpu, qi_completed(c)
  PROVE  VtdInv'
<1> USE VtdAssumption DEF qi_completed, tables, caches, work, queue
<1>1. TypeOK /\ Working /\ OneRequest /\ Iotlb /\ None \notin Cpu /\ iqh = iqt
  BY NotWait DEF VtdInv, OneRequest, Executing
<1>2. /\ \A r : ~Outstanding(c, r)
      /\ \A v \in Cpu : \A r : Outstanding(v, r) => Outstanding(v, r)'
  BY <1>1 DEF TypeOK, Outstanding, Executed
<1>3. TypeOK'
  BY <1>1 DEF TypeOK
<1>4. Working'
  <2>1. CASE c = Bsp
    <3>1. /\ req'[c] = Tail(req[c]) /\ pc[c] = "te"
          /\ \A v \in Vm : req'[v] = req[v]
      BY <1>1, <2>1, VtdAssumption DEF TypeOK, Cpu, Working, VmWorking, BootWorking
    <3>2. \/ Tail(req[c]) = <<dmar_invalid_iotlb_global, dmar_invalid_iec_global>>
          \/ Tail(req[c]) = <<dmar_invalid_iec_global>>
          \/ Tail(req[c]) = <<>>
      <4>1. CASE req[c] = <<dmar_invalid_context_cache_global, dmar_invalid_iotlb_global, dmar_invalid_iec_global>>
        BY <4>1, HeadTail
      <4>2. CASE req[c] = <<dmar_invalid_iotlb_global, dmar_invalid_iec_global>>
        BY <4>2, HeadTail
      <4>3. CASE req[c] = <<dmar_invalid_iec_global>>
        BY <4>3, HeadTail
      <4> QED BY <1>1, <2>1, <4>1, <4>2, <4>3 DEF Working, VmWorking, BootWorking
    <3> QED BY <1>1, <2>1, <3>1, <3>2 DEF Working, VmWorking, BootWorking
  <2>2. CASE c \in Vm
    <3>1. /\ req'[c] = Tail(req[c]) /\ req'[Bsp] = req[Bsp]
          /\ \A v \in Vm : v # c => req'[v] = req[v]
      BY <1>1, <2>2, VtdAssumption DEF TypeOK, Cpu
    <3>2. \/ Tail(req[c]) = <<dmar_invalid_iotlb(vmid_to_domainid(c))>> /\ pc[c] = "free_irte"
          \/ Tail(req[c]) = <<>>
      BY <2>2, RequestsOfVm
    <3> QED BY <1>1, <2>2, <3>1, <3>2 DEF Working, VmWorking, BootWorking
  <2> QED BY <2>1, <2>2 DEF Cpu
<1>5. OneRequest'
  BY <1>1 DEF OneRequest
<1>6. Iotlb'
  <2> SUFFICES ASSUME NEW v \in Vm, pc[v] \in Cleaning, todo[v] = {}
               PROVE  \/ vmid_to_domainid(v) \notin iotlb
                      \/ Outstanding(v, dmar_invalid_iotlb(vmid_to_domainid(v)))'
                      \/ \E d \in DevsOf(v) : req'[v] # <<>> /\ Head(req'[v]) = dmar_invalid_context_cache(d)
    BY <1>1 DEF Iotlb
  <2>1. CASE v # c
    BY <1>1, <1>2, <2>1 DEF TypeOK, Iotlb, Cpu
  <2>2. CASE v = c /\ \E d \in DevsOf(v) : Head(req[v]) = dmar_invalid_context_cache(d)
    <3>1. Tail(req[v]) = <<dmar_invalid_iotlb(vmid_to_domainid(v))>>
      <4>1. PICK d \in DevsOf(v) : Head(req[v]) = dmar_invalid_context_cache(d)
        BY <2>2
      <4>2. Head(req[v]).type = "ctx" /\ Head(req[v]) # dmar_invalid_iotlb(vmid_to_domainid(v))
        BY <4>1, Types
      <4>3. \A e : Head(req[v]) # dmar_invalid_iec(irte_index(e))
        BY <4>2, Types
      <4> QED BY <2>2, <4>2, <4>3, RequestsOfVm
    <3> QED BY <1>1, <2>2, <3>1, HeadTail DEF TypeOK, Outstanding, Executed
  <2>3. CASE v = c /\ ~\E d \in DevsOf(v) : Head(req[v]) = dmar_invalid_context_cache(d)
    BY <1>1, <1>2, <2>3 DEF Iotlb
  <2> QED BY <2>1, <2>2, <2>3
<1>7. ASSUME NEW d \in Dev PROVE Dma(d)'
  BY <1>1, <1>2 DEF VtdInv, Dma, Cpu
<1>8. ASSUME NEW d \in Dev PROVE Irte(d)'
  BY <1>1, <1>2 DEF VtdInv, Irte, Cpu
<1> QED BY <1>3, <1>4, <1>5, <1>6, <1>7, <1>8 DEF VtdInv

\* What one descriptor does to the caches: they only forget, and what it names is gone.
LEMMA Forgets ==
  ASSUME TypeOK, HwInvalidate
  PROVE  /\ \A d \in Dev : ctx_cache'[d] \in {ctx_cache[d], None}
         /\ \A d \in Dev : qi_queue[iqh] = dmar_invalid_context_cache(d) => ctx_cache'[d] = None
         /\ ctx_cache' \in [Dev -> Nat \cup {None}]
         /\ iotlb' \subseteq iotlb
         /\ \A t : qi_queue[iqh] = dmar_invalid_iotlb(t) => t \notin iotlb'
         /\ \A i \in Index : iec'[i] \in {iec[i], Absent}
         /\ \A i \in Index : qi_queue[iqh] = dmar_invalid_iec(i) => iec'[i] = Absent
         /\ iec' \in [Index -> IrteSet]
<1> DEFINE q == qi_queue[iqh]
<1>1. /\ ctx_cache' = IF q.type = "ctx_global" THEN [d \in Dev |-> None]
                      ELSE IF q.type = "ctx" THEN [ctx_cache EXCEPT ![q.sid] = None] ELSE ctx_cache
      /\ iotlb' = IF q.type = "iotlb_global" THEN {}
                  ELSE IF q.type = "iotlb" THEN iotlb \ {q.did} ELSE iotlb
      /\ iec' = IF q.type = "iec_global" THEN [i \in Index |-> Absent]
                ELSE IF q.type = "iec" THEN [iec EXCEPT ![q.index] = Absent] ELSE iec
  BY DEF HwInvalidate
<1> HIDE DEF q
<1>2. ctx_cache \in [Dev -> Nat \cup {None}] /\ iec \in [Index -> IrteSet]
  BY DEF TypeOK
<1>3. Absent \in IrteSet
  BY DEF Absent, IrteSet
<1>4. /\ \A d \in Dev : ctx_cache'[d] \in {ctx_cache[d], None}
      /\ \A d \in Dev : q = dmar_invalid_context_cache(d) => ctx_cache'[d] = None
      /\ ctx_cache' \in [Dev -> Nat \cup {None}]
  <2>1. CASE q.type = "ctx"
    <3>1. ctx_cache' = [ctx_cache EXCEPT ![q.sid] = None]
      BY <1>1, <2>1
    <3>2. \A d : q = dmar_invalid_context_cache(d) => q.sid = d
      BY Types
    <3>3. ctx_cache' \in [Dev -> Nat \cup {None}] /\ \A d \in Dev : ctx_cache'[d] = IF d = q.sid THEN None ELSE ctx_cache[d]
      BY <1>2, <3>1
    <3> QED BY <3>2, <3>3
  <2>2. CASE q.type # "ctx"
    <3>1. \A d : q # dmar_invalid_context_cache(d)
      BY <2>2, Types
    <3> QED BY <1>1, <1>2, <2>2, <3>1
  <2> QED BY <2>1, <2>2
<1>5. iotlb' \subseteq iotlb /\ \A t : q = dmar_invalid_iotlb(t) => t \notin iotlb'
  BY <1>1, Types
<1>6. /\ \A i \in Index : iec'[i] \in {iec[i], Absent}
      /\ \A i \in Index : q = dmar_invalid_iec(i) => iec'[i] = Absent
      /\ iec' \in [Index -> IrteSet]
  <2>1. CASE q.type = "iec"
    <3>1. iec' = [iec EXCEPT ![q.index] = Absent]
      BY <1>1, <2>1
    <3>2. \A i : q = dmar_invalid_iec(i) => q.index = i
      BY Types
    <3>3. iec' \in [Index -> IrteSet] /\ \A i \in Index : iec'[i] = IF i = q.index THEN Absent ELSE iec[i]
      BY <1>2, <1>3, <3>1
    <3> QED BY <3>2, <3>3
  <2>2. CASE q.type # "iec"
    <3>1. \A i : q # dmar_invalid_iec(i)
      BY <2>2, Types
    <3>2. iec' = [i \in Index |-> Absent] \/ iec' = iec
      BY <1>1, <2>2
    <3> QED BY <1>2, <1>3, <3>1, <3>2
  <2> QED BY <2>1, <2>2
<1> QED BY <1>4, <1>5, <1>6 DEF q

LEMMA InvalidateStep ==
  ASSUME VtdInv, HwInvalidate
  PROVE  VtdInv'
<1> USE VtdAssumption
<1>1. TypeOK /\ Working /\ OneRequest /\ Iotlb /\ None \notin Cpu
  BY DEF VtdInv
<1>2. UNCHANGED <<lock, root, ctx, irt, qi_queue, qi_tail, iqt, pc, dev, todo, vec, req>> /\ iqh' = Wrap(iqh + 1) /\ iqh # iqt
  BY DEF HwInvalidate, unit, tables, work
<1> DEFINE c == lock
<1>3. c \in Cpu /\ req[c] # <<>> /\ status[c] = "INCOMPLETE"
  BY <1>1, <1>2 DEF TypeOK, OneRequest, Executing
<1>4. \/ /\ qi_queue[iqh] = Head(req[c]) /\ qi_queue[iqh'] = Wait(c) /\ iqt = Wrap(iqh' + 1)
         /\ status' = status
      \/ qi_queue[iqh] = Wait(c) /\ iqh' = iqt /\ status' = [status EXCEPT ![c] = "COMPLETED"]
  <2>1. \/ qi_queue[iqh] = Head(req[c]) /\ qi_queue[iqh'] = Wait(c) /\ iqt = Wrap(iqh' + 1)
        \/ qi_queue[iqh] = Wait(c) /\ iqh' = iqt
    BY <1>1, <1>2, <1>3 DEF OneRequest, Executing
  <2> DEFINE q == qi_queue[iqh]
  <2>2. status' = IF q.type = "wait" THEN [status EXCEPT ![q.cpu] = "COMPLETED"] ELSE status
    BY DEF HwInvalidate
  <2>3. CASE qi_queue[iqh] = Head(req[c])
    BY <1>3, <2>1, <2>2, <2>3, NotWait
  <2>4. CASE qi_queue[iqh] = Wait(c)
    <3>1. q.type = "wait" /\ q.cpu = c
      BY <2>4, Types
    <3> QED BY <1>3, <2>1, <2>2, <2>4, <3>1, NotWait
  <2> QED BY <2>1, <2>3, <2>4
<1>5. iqh' \in 0 .. Queue - 1
  BY <1>1, <1>2, WrapRange DEF TypeOK
<1>6. TypeOK'
  BY <1>1, <1>2, <1>3, <1>4, <1>5, Forgets DEF TypeOK
<1>7. Working'
  BY <1>1, <1>2 DEF Working, VmWorking, BootWorking
<1>8. OneRequest'
  BY <1>1, <1>2, <1>3, <1>4 DEF TypeOK, OneRequest, Executing
<1>9. \A v \in Cpu : \A r : Outstanding(v, r) => Outstanding(v, r)' \/ qi_queue[iqh] = r
  BY <1>1, <1>2, <1>3, <1>4 DEF TypeOK, Outstanding, Executed
<1>10. Iotlb'
  BY <1>1, <1>2, <1>9, Forgets DEF Iotlb, Cpu
<1>11. ASSUME NEW d \in Dev PROVE Dma(d)'
  <2>1. Dma(d) /\ Owner[d] \in Cpu
    BY DEF VtdInv, Cpu
  <2> QED BY <1>1, <1>2, <1>9, <2>1, Forgets DEF Dma
<1>12. ASSUME NEW d \in Dev PROVE Irte(d)'
  <2>1. Irte(d) /\ Owner[d] \in Cpu /\ irte_index(d) \in Index
    BY OwnNames DEF VtdInv, Cpu
  <2>2. Absent.present = FALSE
    BY DEF Absent
  <2> QED BY <1>1, <1>2, <1>9, <2>1, <2>2, Forgets DEF Irte
<1> QED BY <1>6, <1>7, <1>8, <1>10, <1>11, <1>12 DEF VtdInv

-----------------------------------------------------------------------------
(***************************************************************************)
(* The other steps of the unit.                                            *)
(***************************************************************************)
LEMMA CommandStep ==
  ASSUME VtdInv, HwCommand
  PROVE  VtdInv'
<1>1. UNCHANGED <<lock, root, ctx, irt, qi_queue, qi_tail, iqt, iqh, status, ctx_cache, iotlb, iec, pc, dev, todo, vec, req>>
  BY DEF HwCommand, tables, queue, caches, work
<1>2. \A v, r : Outstanding(v, r)' <=> Outstanding(v, r)
  BY <1>1 DEF Outstanding, Executed
<1>3. TypeOK' /\ Working' /\ OneRequest'
  BY <1>1 DEF VtdInv, TypeOK, Working, VmWorking, BootWorking, OneRequest, Executing
<1>4. Iotlb'
  BY <1>1, <1>2 DEF VtdInv, Iotlb
<1>5. ASSUME NEW d \in Dev PROVE Dma(d)' /\ Irte(d)'
  BY <1>1, <1>2 DEF VtdInv, Dma, Irte
<1> QED BY <1>3, <1>4, <1>5 DEF VtdInv

\* A DMA brings nothing of a removed device back: neither the table nor the cache has it.
LEMMA DmaStep ==
  ASSUME VtdInv, NEW e \in Dev, HwDma(e)
  PROVE  VtdInv'
<1> USE VtdAssumption
<1>1. TypeOK /\ Working /\ OneRequest /\ Iotlb /\ Dma(e) /\ Owner[e] \in Vm
  BY DEF VtdInv
<1>2. /\ UNCHANGED <<lock, root, ctx, irt, qi_queue, qi_tail, iqt, iqh, status, iec, pc, dev, todo, vec, req>>
      /\ ctx_cache' = [ctx_cache EXCEPT ![e] = Translation(e)] /\ iotlb' = iotlb \cup {Translation(e)}
      /\ Translation(e) # None
  BY DEF HwDma, unit, tables, queue, work
<1>3. /\ Translation(e) = Domain(e) /\ Domain(e) \in Nat
      /\ ctx_cache[e] = Domain(e) \/ ctx[Bus[e]][e] = Domain(e)
  <2>1. root[Bus[e]] \in {None, Bus[e]} /\ Domain(e) \in Nat
    BY <1>1, OwnNames DEF TypeOK
  <2> QED BY <1>1, <1>2, <2>1 DEF Translation, Dma
<1>4. \A v, r : Outstanding(v, r)' <=> Outstanding(v, r)
  BY <1>2 DEF Outstanding, Executed
<1>5. TypeOK'
  BY <1>1, <1>2, <1>3 DEF TypeOK
<1>6. Working' /\ OneRequest'
  BY <1>1, <1>2 DEF Working, VmWorking, BootWorking, OneRequest, Executing
<1>7. pc[Owner[e]] \in Cleaning /\ e \notin todo[Owner[e]] => Outstanding(Owner[e], dmar_invalid_context_cache(e))
  BY <1>1, <1>3, OwnNames DEF Dma
<1>8. Iotlb'
  <2>1. \A t \in iotlb' : \E d \in Dev : t = Domain(d)
    BY <1>1, <1>2, <1>3 DEF Iotlb
  <2> SUFFICES ASSUME NEW v \in Vm, pc[v] \in Cleaning, todo[v] = {}
               PROVE  \/ vmid_to_domainid(v) \notin iotlb'
                      \/ Outstanding(v, dmar_invalid_iotlb(vmid_to_domainid(v)))
                      \/ \E d \in DevsOf(v) : req[v] # <<>> /\ Head(req[v]) = dmar_invalid_context_cache(d)
    BY <1>2, <1>4, <2>1 DEF Iotlb
  <2>2. CASE v = Owner[e]
    <3>1. e \in DevsOf(v)
      BY <2>2 DEF DevsOf
    <3> QED BY <1>7, <2>2, <3>1 DEF Outstanding
  <2>3. CASE v # Owner[e]
    <3>1. vmid_to_domainid(v) # Domain(e)
      BY <1>1, <2>3, OwnNames DEF Domain
    <3> QED BY <1>1, <1>2, <1>3, <3>1 DEF Iotlb
  <2> QED BY <2>2, <2>3
<1>9. ASSUME NEW d \in Dev PROVE Dma(d)'
  <2>1. Dma(d) /\ ctx_cache'[d] = IF d = e THEN Domain(e) ELSE ctx_cache[d]
    BY <1>1, <1>2, <1>3 DEF VtdInv, TypeOK
  <2> QED BY <1>2, <1>4, <1>7, <2>1 DEF Dma
<1>10. ASSUME NEW d \in Dev PROVE Irte(d)'
  BY <1>2, <1>4 DEF VtdInv, Irte
<1> QED BY <1>5, <1>6, <1>8, <1>9, <1>10 DEF VtdInv

LEMMA InterruptStep ==
  ASSUME VtdInv, NEW i \in Index, HwInterrupt(i)
  PROVE  VtdInv'
<1>1. TypeOK /\ Working /\ OneRequest /\ Iotlb
  BY DEF VtdInv
<1>2. /\ UNCHANGED <<lock, root, ctx, irt, qi_queue, qi_tail, iqt, iqh, status, ctx_cache, iotlb, pc, dev, todo, vec, req>>
      /\ iec' = [iec EXCEPT ![i] = irt[i]]
  BY DEF HwInterrupt, unit, tables, queue, work
<1>3. \A v, r : Outstanding(v, r)' <=> Outstanding(v, r)
  BY <1>2 DEF Outstanding, Executed
<1>4. TypeOK' /\ Working' /\ OneRequest'
  BY <1>1, <1>2 DEF TypeOK, Working, VmWorking, BootWorking, OneRequest, Executing
<1>5. Iotlb'
  BY <1>1, <1>2, <1>3 DEF Iotlb
<1>6. ASSUME NEW d \in Dev PROVE Dma(d)'
  BY <1>2, <1>3 DEF VtdInv, Dma
<1>7. ASSUME NEW d \in Dev PROVE Irte(d)'
  <2>1. Irte(d) /\ iec'[irte_index(d)] = IF irte_index(d) = i THEN irt[i] ELSE iec[irte_index(d)]
    BY <1>1, <1>2, OwnNames DEF VtdInv, TypeOK
  <2> QED BY <1>2, <1>3, <2>1 DEF Irte
<1> QED BY <1>4, <1>5, <1>6, <1>7 DEF VtdInv

-----------------------------------------------------------------------------
(***************************************************************************)
(* The steps of the pCPUs that change tables and make requests: none of    *)
(* them has the lock or a request outstanding when it takes such a step.   *)
(***************************************************************************)
OwnStep(c) ==
    /\ c \in Cpu /\ req[c] = <<>> /\ pc[c] \notin Commanding
    /\ \A v \in Cpu : v # c => pc'[v] = pc[v] /\ req'[v] = req[v] /\ dev'[v] = dev[v] /\ todo'[v] = todo[v]
    /\ UNCHANGED <<lock, qi_queue, qi_tail, iqt, iqh, status, ctx_cache, iotlb, iec>>

LEMMA OwnRequest ==
  ASSUME VtdInv, NEW c, OwnStep(c)
  PROVE  /\ OneRequest'
         /\ \A v \in Cpu : \A r : v # c => (Outstanding(v, r)' <=> Outstanding(v, r))
         /\ \A r : ~Outstanding(c, r) /\ (Outstanding(c, r)' <=> req'[c] # <<>> /\ Head(req'[c]) = r)
<1>1. lock # c
  BY DEF VtdInv, OneRequest, OwnStep
<1>2. OneRequest'
  BY <1>1 DEF VtdInv, OneRequest, Executing, OwnStep
<1>3. \A v \in Cpu : \A r : v # c => (Outstanding(v, r)' <=> Outstanding(v, r))
  BY DEF OwnStep, Outstanding, Executed
<1>4. \A r : ~Outstanding(c, r) /\ (Outstanding(c, r)' <=> req'[c] # <<>> /\ Head(req'[c]) = r)
  BY <1>1 DEF OwnStep, Outstanding, Executed
<1> QED BY <1>2, <1>3, <1>4

\* What is left to show for such a step: its own VM's part, and the tables of others.
LEMMA OwnIotlb ==
  ASSUME VtdInv, NEW c \in Vm, OwnStep(c),
         pc'[c] \in Cleaning /\ todo'[c] = {} =>
            \/ vmid_to_domainid(c) \notin iotlb
            \/ \E d \in DevsOf(c) : req'[c] # <<>> /\ Head(req'[c]) = dmar_invalid_context_cache(d)
  PROVE  Iotlb'
<1>1. Iotlb /\ UNCHANGED iotlb /\ Vm \subseteq Cpu
  BY DEF VtdInv, OwnStep, Cpu
<1>2. \A v \in Vm : v # c => pc'[v] = pc[v] /\ todo'[v] = todo[v] /\ req'[v] = req[v]
  BY <1>1 DEF OwnStep
<1> QED BY <1>1, <1>2, OwnRequest DEF Iotlb

LEMMA OwnWorking ==
  ASSUME VtdInv, NEW c \in Vm, OwnStep(c), VmWorking(c)'
  PROVE  Working'
<1>1. /\ \A v \in Vm : v # c => pc'[v] = pc[v] /\ req'[v] = req[v] /\ dev'[v] = dev[v] /\ todo'[v] = todo[v]
      /\ pc'[Bsp] = pc[Bsp] /\ req'[Bsp] = req[Bsp]
  BY VtdAssumption DEF OwnStep, Cpu
<1> QED BY <1>1 DEF VtdInv, Working, VmWorking, BootWorking

LEMMA OtherDma ==
  ASSUME VtdInv, NEW c, OwnStep(c), NEW d \in Dev, Owner[d] # c,
         root'[Bus[d]] = root[Bus[d]] \/ root'[Bus[d]] = Bus[d], ctx'[Bus[d]][d] = ctx[Bus[d]][d]
  PROVE  Dma(d)'
<1>1. Dma(d) /\ Owner[d] \in Cpu
  BY VtdAssumption DEF VtdInv, Cpu
<1> QED BY <1>1, OwnRequest DEF Dma, OwnStep

LEMMA OtherIrte ==
  ASSUME VtdInv, NEW c, OwnStep(c), NEW d \in Dev, Owner[d] # c, irt'[irte_index(d)] = irt[irte_index(d)]
  PROVE  Irte(d)'
<1>1. Irte(d) /\ Owner[d] \in Cpu
  BY VtdAssumption DEF VtdInv, Cpu
<1> QED BY <1>1, OwnRequest DEF Irte, OwnStep

LEMMA OwnSuffices ==
  ASSUME VtdInv, NEW c \in Vm, OwnStep(c), TypeOK', VmWorking(c)',
         pc'[c] \in Cleaning /\ todo'[c] = {} =>
            \/ vmid_to_domainid(c) \notin iotlb
            \/ \E d \in DevsOf(c) : req'[c] # <<>> /\ Head(req'[c]) = dmar_invalid_context_cache(d),
         \A d \in Dev : Owner[d] # c =>
            /\ root'[Bus[d]] = root[Bus[d]] \/ root'[Bus[d]] = Bus[d]
            /\ ctx'[Bus[d]][d] = ctx[Bus[d]][d] /\ irt'[irte_index(d)] = irt[irte_index(d)],
         \A d \in DevsOf(c) : Dma(d)' /\ Irte(d)'
  PROVE  VtdInv'
<1>1. Working' /\ OneRequest' /\ Iotlb'
  BY OwnWorking, OwnRequest, OwnIotlb
<1>2. ASSUME NEW d \in Dev PROVE Dma(d)' /\ Irte(d)'
  <2>1. CASE Owner[d] # c
    BY <2>1, OtherDma, OtherIrte
  <2>2. CASE Owner[d] = c
    BY <2>2 DEF DevsOf
  <2> QED BY <2>1, <2>2
<1> QED BY <1>1, <1>2 DEF VtdInv

LEMMA EnableStep ==
  ASSUME VtdInv, dmar_enable(Bsp)
  PROVE  VtdInv'
<1> USE VtdAssumption
<1>1. TypeOK /\ Working /\ OneRequest /\ Iotlb
  BY DEF VtdInv
<1>2. /\ UNCHANGED <<lock, root, ctx, irt, qi_queue, qi_tail, iqt, iqh, status, ctx_cache, iotlb, iec, dev, todo, vec>>
      /\ pc' = [pc EXCEPT ![Bsp] = "te"]
      /\ req' = [req EXCEPT ![Bsp] = <<dmar_invalid_context_cache_global, dmar_invalid_iotlb_global,
                                       dmar_invalid_iec_global>>]
      /\ pc[Bsp] = "enable" /\ req[Bsp] = <<>>
  BY DEF dmar_enable, At, Goto, unit, tables, queue, caches
<1>3. OwnStep(Bsp)
  BY <1>1, <1>2 DEF OwnStep, TypeOK, Commanding, Cpu
<1>4. \A v \in Vm : v \in Cpu /\ v # Bsp /\ pc'[v] = pc[v] /\ req'[v] = req[v]
  BY <1>3 DEF OwnStep, Cpu
<1>5. TypeOK'
  BY <1>1, <1>2 DEF TypeOK, BootPlaces
<1>6. Working'
  <2>1. pc'[Bsp] = "te" /\ req'[Bsp] = <<dmar_invalid_context_cache_global, dmar_invalid_iotlb_global,
                                         dmar_invalid_iec_global>>
    BY <1>1, <1>2 DEF TypeOK, Cpu
  <2>2. BootWorking'
    BY <2>1 DEF BootWorking, BootPlaces
  <2>3. \A v \in Vm : VmWorking(v)'
    BY <1>1, <1>2, <1>4 DEF Working, VmWorking
  <2> QED BY <2>2, <2>3 DEF Working
<1>7. Iotlb'
  <2>1. \A v \in Vm : \A r : Outstanding(v, r)' <=> Outstanding(v, r)
    BY <1>3, <1>4, OwnRequest
  <2> QED BY <1>1, <1>2, <1>4, <2>1 DEF Iotlb
<1>8. ASSUME NEW d \in Dev PROVE Dma(d)' /\ Irte(d)'
  BY <1>2, <1>3, OtherDma, OtherIrte
<1> QED BY <1>3, <1>5, <1>6, <1>7, <1>8, OwnRequest DEF VtdInv

-----------------------------------------------------------------------------
\* Attaching: the root entry is read, and written, without a lock.
LEMMA NextAttachStep ==
  ASSUME VtdInv, NEW c \in Vm, NextAttach(c)
  PROVE  VtdInv'
<1> USE VtdAssumption
<1>1. TypeOK /\ Working /\ OneRequest /\ Iotlb /\ c \in Cpu /\ c # Bsp
  BY DEF VtdInv, Cpu
<1>2. /\ UNCHANGED <<lock, root, ctx, irt, qi_queue, qi_tail, iqt, iqh, status, ctx_cache, iotlb, iec, vec, req>>
      /\ pc[c] = "wait_boot" /\ req[c] = <<>>
  BY DEF NextAttach, At, unit, tables, queue, caches
<1>3. \/ todo[c] = {} /\ pc' = [pc EXCEPT ![c] = "run"] /\ UNCHANGED <<dev, todo>>
      \/ \E e \in todo[c] : /\ dev' = [dev EXCEPT ![c] = e]
                            /\ todo' = [todo EXCEPT ![c] = @ \ {e}]
                            /\ pc' = [pc EXCEPT ![c] = IF root[Bus[e]] = None THEN "add_root" ELSE "add_ctx"]
  BY DEF NextAttach, Goto
<1>4. OwnStep(c)
  BY <1>1, <1>2, <1>3 DEF OwnStep, TypeOK, Commanding
<1>5. CASE todo[c] = {} /\ pc' = [pc EXCEPT ![c] = "run"] /\ UNCHANGED <<dev, todo>>
  <2>1. pc'[c] = "run" /\ req'[c] = <<>>
    BY <1>1, <1>2, <1>5 DEF TypeOK
  <2>2. TypeOK'
    BY <1>1, <1>2, <1>5 DEF TypeOK, VmPlaces
  <2>3. VmWorking(c)'
    BY <1>1, <1>5, <2>1 DEF Working, VmWorking, VmPlaces, WithDev
  <2>4. ASSUME NEW d \in DevsOf(c) PROVE Dma(d)' /\ Irte(d)'
    <3>1. d \in Dev /\ Owner[d] = c /\ Dma(d) /\ Irte(d)
      BY DEF VtdInv, DevsOf
    <3>2. Dma(d)'
      BY <1>2, <1>5, <2>1, <3>1 DEF Dma, Attaching, Cleaning
    <3>3. Irte(d)'
      BY <1>2, <1>4, <1>5, <2>1, <3>1, OwnRequest DEF Irte, Cleaning
    <3> QED BY <3>2, <3>3
  <2> QED BY <1>2, <1>4, <2>1, <2>2, <2>3, <2>4, OwnSuffices DEF Cleaning
<1>6. CASE \E e \in todo[c] : /\ dev' = [dev EXCEPT ![c] = e]
                              /\ todo' = [todo EXCEPT ![c] = @ \ {e}]
                              /\ pc' = [pc EXCEPT ![c] = IF root[Bus[e]] = None THEN "add_root" ELSE "add_ctx"]
  <2> PICK e \in todo[c] : /\ dev' = [dev EXCEPT ![c] = e]
                           /\ todo' = [todo EXCEPT ![c] = @ \ {e}]
                           /\ pc' = [pc EXCEPT ![c] = IF root[Bus[e]] = None THEN "add_root" ELSE "add_ctx"]
    BY <1>6
  <2>1. /\ dev'[c] = e /\ todo'[c] = todo[c] \ {e} /\ req'[c] = <<>> /\ e \in DevsOf(c)
        /\ pc'[c] = IF root[Bus[e]] = None THEN "add_root" ELSE "add_ctx"
    BY <1>1, <1>2 DEF TypeOK, Working, VmWorking
  <2>2. e \in Dev /\ root[Bus[e]] \in {None, Bus[e]}
    BY <1>1, <2>1, OwnNames DEF DevsOf, TypeOK
  <2>3. TypeOK'
    BY <1>1, <1>2, <2>2 DEF TypeOK, VmPlaces, WithDev
  <2>4. VmWorking(c)'
    BY <1>1, <2>1 DEF Working, VmWorking, VmPlaces, WithDev
  <2>5. ASSUME NEW d \in DevsOf(c) PROVE Dma(d)' /\ Irte(d)'
    <3>1. d \in Dev /\ Owner[d] = c /\ Dma(d) /\ Irte(d)
      BY DEF VtdInv, DevsOf
    <3>2. Dma(d)'
      BY <1>2, <2>1, <2>2, <3>1 DEF Dma, Attaching, Cleaning
    <3>3. Irte(d)'
      BY <1>2, <1>4, <2>1, <3>1, OwnRequest DEF Irte, Cleaning
    <3> QED BY <3>2, <3>3
  <2> QED BY <1>2, <1>4, <2>1, <2>3, <2>4, <2>5, OwnSuffices DEF Cleaning
<1> QED BY <1>3, <1>5, <1>6

LEMMA AddRootStep ==
  ASSUME VtdInv, NEW c \in Vm, AddRoot(c)
  PROVE  VtdInv'
<1> USE VtdAssumption
<1> DEFINE e == dev[c]
<1>1. TypeOK /\ VmWorking(c) /\ c \in Cpu /\ pc[c] = "add_root" /\ req[c] = <<>>
  BY DEF VtdInv, Working, Cpu, AddRoot, At
<1>2. e \in DevsOf(c) /\ e \in Dev /\ Bus[e] \in Buses
  BY <1>1, OwnNames DEF VmWorking, WithDev, DevsOf
<1>3. /\ UNCHANGED <<lock, ctx, irt, qi_queue, qi_tail, iqt, iqh, status, ctx_cache, iotlb, iec, dev, todo, vec, req>>
      /\ root' = [root EXCEPT ![Bus[e]] = Bus[e]] /\ pc' = [pc EXCEPT ![c] = "add_ctx"]
  BY DEF AddRoot, Goto, get_ctx_table, unit, queue, caches
<1>4. pc'[c] = "add_ctx" /\ \A b \in Buses : root'[b] = IF b = Bus[e] THEN b ELSE root[b]
  BY <1>1, <1>3 DEF TypeOK
<1>5. OwnStep(c)
  BY <1>1, <1>3 DEF OwnStep, TypeOK, Commanding
<1>6. TypeOK'
  BY <1>1, <1>2, <1>3, <1>4 DEF TypeOK, VmPlaces, WithDev
<1>7. VmWorking(c)'
  BY <1>1, <1>3, <1>4 DEF VmWorking, VmPlaces, WithDev
<1>8. \A d \in Dev : root'[Bus[d]] = root[Bus[d]] \/ root'[Bus[d]] = Bus[d]
  BY <1>4, OwnNames
<1>9. ASSUME NEW d \in DevsOf(c) PROVE Dma(d)' /\ Irte(d)'
  <2>1. d \in Dev /\ Owner[d] = c /\ Dma(d) /\ Irte(d) /\ Bus[d] \in Buses
    BY OwnNames DEF VtdInv, DevsOf
  <2>2. Dma(d)'
    BY <1>1, <1>3, <1>4, <2>1 DEF Dma, Attaching, Cleaning
  <2>3. Irte(d)'
    BY <1>1, <1>3, <1>4, <1>5, <2>1, OwnRequest DEF Irte, Cleaning
  <2> QED BY <2>2, <2>3
<1> QED BY <1>3, <1>4, <1>5, <1>6, <1>7, <1>8, <1>9, OwnSuffices DEF Cleaning

LEMMA AddDeviceStep ==
  ASSUME VtdInv, NEW c \in Vm, add_iommu_device(c)
  PROVE  VtdInv'
<1> USE VtdAssumption
<1> DEFINE e == dev[c]
<1>1. TypeOK /\ VmWorking(c) /\ c \in Cpu /\ pc[c] = "add_ctx" /\ req[c] = <<>>
  BY DEF VtdInv, Working, Cpu, add_iommu_device, At
<1>2. e \in DevsOf(c) /\ e \in Dev /\ Owner[e] = c /\ Bus[e] \in Table /\ e \notin todo[c]
  BY <1>1, OwnNames DEF VmWorking, WithDev, DevsOf, Table
<1>3. root[Bus[e]] = Bus[e]
  <2>1. Dma(e)
    BY <1>2 DEF VtdInv
  <2> QED BY <1>1, <1>2, <2>1 DEF Dma, Attaching
<1>4. /\ UNCHANGED <<lock, root, irt, qi_queue, qi_tail, iqt, iqh, status, ctx_cache, iotlb, iec, todo, vec, req>>
      /\ ctx' = [ctx EXCEPT ![Bus[e]][e] = Domain(e)]
      /\ dev' = [dev EXCEPT ![c] = None] /\ pc' = [pc EXCEPT ![c] = "wait_boot"]
  BY <1>2, <1>3 DEF add_iommu_device, Goto, Domain, unit, queue, caches
<1>5. /\ pc'[c] = "wait_boot" /\ dev'[c] = None
      /\ \A d \in Dev : ctx'[Bus[d]][d] = IF d = e THEN Domain(e) ELSE ctx[Bus[d]][d]
  BY <1>1, <1>2, <1>4 DEF TypeOK, Table
<1>6. OwnStep(c)
  BY <1>1, <1>4 DEF OwnStep, TypeOK, Commanding
<1>7. TypeOK'
  BY <1>1, <1>2, <1>4, OwnNames DEF TypeOK, VmPlaces, Attaching
<1>8. VmWorking(c)'
  BY <1>1, <1>4, <1>5 DEF VmWorking, VmPlaces, Attaching, WithDev
<1>9. ASSUME NEW d \in DevsOf(c) PROVE Dma(d)' /\ Irte(d)'
  <2>1. d \in Dev /\ Owner[d] = c /\ Dma(d) /\ Irte(d)
    BY DEF VtdInv, DevsOf
  <2>2. Dma(d)'
    BY <1>1, <1>4, <1>5, <2>1 DEF Dma, Attaching, Cleaning
  <2>3. Irte(d)'
    BY <1>1, <1>4, <1>5, <1>6, <2>1, OwnRequest DEF Irte, Cleaning
  <2> QED BY <2>2, <2>3
<1>10. \A d \in Dev : Owner[d] # c => ctx'[Bus[d]][d] = ctx[Bus[d]][d]
  BY <1>2, <1>5
<1> QED BY <1>4, <1>5, <1>6, <1>7, <1>8, <1>9, <1>10, OwnSuffices DEF Cleaning

-----------------------------------------------------------------------------
\* Remapping: the high half of the entry is that of the device before it is present.
LEMMA RemapStep ==
  ASSUME VtdInv, NEW c \in Vm, ptirq_msix_remap(c)
  PROVE  VtdInv'
<1> USE VtdAssumption
<1>1. TypeOK /\ VmWorking(c) /\ c \in Cpu /\ pc[c] = "run" /\ req[c] = <<>>
  BY DEF VtdInv, Working, Cpu, ptirq_msix_remap, At
<1>2. PICK e \in DevsOf(c), x \in Vector : dev' = [dev EXCEPT ![c] = e] /\ vec' = [vec EXCEPT ![c] = x]
  BY DEF ptirq_msix_remap
<1>3. /\ UNCHANGED <<lock, root, ctx, irt, qi_queue, qi_tail, iqt, iqh, status, ctx_cache, iotlb, iec, todo, req>>
      /\ pc' = [pc EXCEPT ![c] = "ire"]
  BY DEF ptirq_msix_remap, Goto, unit, tables, queue, caches
<1>4. pc'[c] = "ire" /\ dev'[c] = e /\ e \in Dev
  BY <1>1, <1>2, <1>3 DEF TypeOK, DevsOf
<1>5. OwnStep(c)
  BY <1>1, <1>2, <1>3 DEF OwnStep, TypeOK, Commanding
<1>6. TypeOK'
  BY <1>1, <1>2, <1>3, <1>4 DEF TypeOK, VmPlaces, WithDev
<1>7. VmWorking(c)'
  BY <1>1, <1>2, <1>3, <1>4 DEF VmWorking, VmPlaces, WithDev
<1>8. ASSUME NEW d \in DevsOf(c) PROVE Dma(d)' /\ Irte(d)'
  <2>1. d \in Dev /\ Owner[d] = c /\ Dma(d) /\ Irte(d)
    BY DEF VtdInv, DevsOf
  <2>2. Dma(d)'
    BY <1>1, <1>3, <1>4, <2>1 DEF Dma, Attaching, Cleaning
  <2>3. Irte(d)'
    BY <1>1, <1>3, <1>4, <1>5, <2>1, OwnRequest DEF Irte, Cleaning
  <2> QED BY <2>2, <2>3
<1> QED BY <1>3, <1>4, <1>5, <1>6, <1>7, <1>8, OwnSuffices DEF Cleaning

LEMMA AssignStep ==
  ASSUME VtdInv, NEW c \in Vm, dmar_assign_irte(c)
  PROVE  VtdInv'
<1> USE VtdAssumption
<1> DEFINE e == dev[c]
           i == irte_index(dev[c])
<1>1. /\ TypeOK /\ VmWorking(c) /\ c \in Cpu /\ req[c] = <<>> /\ pc[c] \in {"irte_hi", "irte_lo"}
      /\ UNCHANGED <<lock, root, ctx, qi_queue, qi_tail, iqt, iqh, status, ctx_cache, iotlb, iec, todo>>
  BY DEF VtdInv, Working, Cpu, dmar_assign_irte, At, unit, queue, caches
<1>2. e \in DevsOf(c) /\ e \in Dev /\ Owner[e] = c /\ i \in Index
  BY <1>1, OwnNames DEF VmWorking, WithDev, DevsOf
<1>3. \/ /\ pc[c] = "irte_hi" /\ pc' = [pc EXCEPT ![c] = "irte_lo"]
         /\ irt' = [irt EXCEPT ![i].sid = e] /\ UNCHANGED <<dev, vec, req>>
      \/ /\ pc[c] = "irte_lo" /\ pc' = [pc EXCEPT ![c] = "run"]
         /\ irt' = [irt EXCEPT ![i] = [sid |-> irt[i].sid, present |-> TRUE, vector |-> vec[c], vm |-> c]]
         /\ dev' = [dev EXCEPT ![c] = None] /\ vec' = [vec EXCEPT ![c] = None]
         /\ req' = [req EXCEPT ![c] = <<dmar_invalid_iec(i)>>]
  BY <1>2 DEF dmar_assign_irte, At, Goto, Entry
<1>4. irt[i] \in IrteSet /\ Irte(e)
  BY <1>1, <1>2 DEF TypeOK, VtdInv
<1>5. OwnStep(c)
  BY <1>1, <1>3 DEF OwnStep, TypeOK, Commanding
<1>6. /\ irt' \in [Index -> IrteSet] /\ \A j \in Index : j # i => irt'[j] = irt[j]
      /\ irt'[i].present => irt'[i].sid = e
      /\ irt'[i].sid = e
  <2>1. CASE irt' = [irt EXCEPT ![i].sid = e]
    BY <1>1, <1>2, <1>4, <2>1 DEF TypeOK, IrteSet
  <2>2. CASE /\ pc[c] = "irte_lo"
             /\ irt' = [irt EXCEPT ![i] = [sid |-> irt[i].sid, present |-> TRUE, vector |-> vec[c], vm |-> c]]
    <3>1. irt[i].sid = e /\ vec[c] \in Vector \cup {None}
      BY <1>1, <1>2, <1>4, <2>2 DEF Irte, TypeOK
    <3>2. [sid |-> irt[i].sid, present |-> TRUE, vector |-> vec[c], vm |-> c] \in IrteSet
      BY <1>2, <3>1 DEF IrteSet
    <3> QED BY <1>1, <1>2, <2>2, <3>1, <3>2 DEF TypeOK
  <2> QED BY <1>3, <2>1, <2>2
<1>7. TypeOK'
  <2>1. /\ pc' \in [Cpu -> BootPlaces \cup VmPlaces] /\ dev' \in [Cpu -> Dev \cup {None}]
        /\ vec' \in [Cpu -> Vector \cup {None}] /\ DOMAIN req' = Cpu
    BY <1>1, <1>3 DEF TypeOK, VmPlaces, WithDev
  <2> QED BY <1>1, <1>6, <2>1 DEF TypeOK
<1>8. VmWorking(c)'
  <2>1. CASE pc[c] = "irte_hi"
    <3>1. pc'[c] = "irte_lo" /\ dev'[c] = e /\ req'[c] = <<>> /\ todo'[c] = todo[c]
      BY <1>1, <1>3, <2>1 DEF TypeOK
    <3> QED BY <1>1, <1>2, <3>1 DEF VmWorking, VmPlaces, WithDev
  <2>2. CASE pc[c] = "irte_lo"
    <3>1. pc'[c] = "run" /\ req'[c] = <<dmar_invalid_iec(irte_index(e))>> /\ todo'[c] = todo[c]
      BY <1>1, <1>3, <2>2 DEF TypeOK
    <3> QED BY <1>1, <1>2, <3>1 DEF VmWorking, VmPlaces, WithDev
  <2> QED BY <1>1, <2>1, <2>2
<1>9. pc'[c] \in {"irte_lo", "run"} /\ pc[c] \notin Attaching \cup Cleaning
  BY <1>1, <1>3 DEF TypeOK, Attaching, Cleaning
<1>10. \A d \in Dev : Owner[d] # c => irt'[irte_index(d)] = irt[irte_index(d)]
  BY <1>2, <1>6, OwnNames
<1>11. ASSUME NEW d \in DevsOf(c) PROVE Dma(d)' /\ Irte(d)'
  <2>1. d \in Dev /\ Owner[d] = c /\ Dma(d) /\ Irte(d) /\ irte_index(d) \in Index
    BY OwnNames DEF VtdInv, DevsOf
  <2>2. Dma(d)'
    BY <1>1, <1>9, <2>1 DEF Dma, Attaching, Cleaning
  <2>3. CASE d # e
    <3>1. irt'[irte_index(d)] = irt[irte_index(d)] /\ (pc'[c] = "irte_lo" => dev'[c] # d)
      BY <1>1, <1>2, <1>3, <1>6, <2>1, <2>3, OwnNames DEF TypeOK
    <3> QED BY <1>1, <1>5, <1>9, <2>1, <2>2, <3>1, OwnRequest DEF Irte, Cleaning
  <2>4. CASE d = e /\ pc[c] = "irte_hi"
    <3>1. irt'[i] = [irt[i] EXCEPT !.sid = e]
      BY <1>1, <1>2, <1>3, <2>4 DEF TypeOK
    <3>2. iec[i].present => iec[i] = irt[i] /\ irt'[i] = irt[i]
      BY <1>4, <1>5, <2>1, <2>4, <3>1, OwnRequest DEF Irte, IrteSet
    <3> QED BY <1>1, <1>4, <1>6, <1>9, <2>1, <2>2, <2>4, <3>2 DEF Irte, Cleaning
  <2>5. CASE d = e /\ pc[c] = "irte_lo"
    <3>1. req'[c] = <<dmar_invalid_iec(i)>> /\ pc'[c] = "run"
      BY <1>1, <1>3, <2>5 DEF TypeOK
    <3>2. Outstanding(c, dmar_invalid_iec(irte_index(d)))'
      <4>1. req'[c] # <<>> /\ Head(req'[c]) = dmar_invalid_iec(irte_index(d))
        BY <2>5, <3>1, HeadTail
      <4> QED BY <1>5, <4>1, OwnRequest
    <3> QED BY <1>1, <1>4, <1>6, <2>1, <2>2, <2>5, <3>1, <3>2 DEF Irte, Cleaning
  <2> QED BY <1>1, <2>3, <2>4, <2>5
<1> QED BY <1>1, <1>5, <1>7, <1>8, <1>9, <1>10, <1>11, OwnSuffices DEF Cleaning

-----------------------------------------------------------------------------
\* Removing: the tables first, then the caches.
LEMMA CleanupStep ==
  ASSUME VtdInv, NEW c \in Vm, vpci_cleanup(c)
  PROVE  VtdInv'
<1> USE VtdAssumption
<1>1. TypeOK /\ VmWorking(c) /\ c \in Cpu /\ pc[c] = "run" /\ req[c] = <<>> /\ Iotlb
  BY DEF VtdInv, Working, Cpu, vpci_cleanup, At
<1>2. /\ UNCHANGED <<lock, root, ctx, irt, qi_queue, qi_tail, iqt, iqh, status, ctx_cache, iotlb, iec, dev, vec, req>>
      /\ pc' = [pc EXCEPT ![c] = "cleanup"] /\ todo' = [todo EXCEPT ![c] = DevsOf(c)]
  BY DEF vpci_cleanup, Goto, unit, tables, queue, caches
<1>3. pc'[c] = "cleanup" /\ todo'[c] = DevsOf(c)
  BY <1>1, <1>2 DEF TypeOK
<1>4. OwnStep(c)
  BY <1>1, <1>2 DEF OwnStep, TypeOK, Commanding
<1>5. TypeOK'
  BY <1>1, <1>2 DEF TypeOK, VmPlaces, Cleaning, DevsOf
<1>6. VmWorking(c)'
  BY <1>1, <1>2, <1>3 DEF VmWorking, VmPlaces, Cleaning, WithDev
<1>7. ASSUME DevsOf(c) = {} PROVE vmid_to_domainid(c) \notin iotlb
  <2> SUFFICES ASSUME vmid_to_domainid(c) \in iotlb PROVE FALSE
    OBVIOUS
  <2>1. PICK d \in Dev : vmid_to_domainid(c) = vmid_to_domainid(Owner[d])
    BY <1>1 DEF Iotlb, Domain
  <2>2. Owner[d] = c
    BY <2>1, OwnNames
  <2> QED BY <1>7, <2>2 DEF DevsOf
<1>8. ASSUME NEW d \in DevsOf(c) PROVE Dma(d)' /\ Irte(d)'
  <2>1. d \in Dev /\ Owner[d] = c /\ Dma(d) /\ Irte(d)
    BY DEF VtdInv, DevsOf
  <2>2. Dma(d)'
    BY <1>1, <1>2, <1>3, <2>1 DEF Dma, Attaching, Cleaning
  <2>3. Irte(d)'
    BY <1>1, <1>2, <1>3, <1>4, <2>1, OwnRequest DEF Irte, Cleaning
  <2> QED BY <2>2, <2>3
<1> QED BY <1>2, <1>3, <1>4, <1>5, <1>6, <1>7, <1>8, OwnSuffices

LEMMA RemoveStep ==
  ASSUME VtdInv, NEW c \in Vm, remove_iommu_device(c)
  PROVE  VtdInv'
<1> USE VtdAssumption
<1>1. TypeOK /\ VmWorking(c) /\ c \in Cpu /\ pc[c] = "cleanup" /\ req[c] = <<>>
  BY DEF VtdInv, Working, Cpu, remove_iommu_device, At
<1>2. PICK e \in todo[c] :
        /\ dev' = [dev EXCEPT ![c] = e]
        /\ todo' = [todo EXCEPT ![c] = @ \ {e}]
        /\ ctx' = [ctx EXCEPT ![root[Bus[e]]][e] = None]
        /\ req' = [req EXCEPT ![c] = <<dmar_invalid_context_cache(e), dmar_invalid_iotlb(vmid_to_domainid(c))>>]
  BY DEF remove_iommu_device
<1>3. /\ UNCHANGED <<lock, root, irt, qi_queue, qi_tail, iqt, iqh, status, ctx_cache, iotlb, iec, vec>>
      /\ pc' = [pc EXCEPT ![c] = "free_irte"]
  BY DEF remove_iommu_device, Goto, unit, queue, caches
<1>4. e \in DevsOf(c) /\ e \in Dev /\ Owner[e] = c /\ Bus[e] \in Table
  BY <1>1 DEF VmWorking, DevsOf, Table
<1>5. root[Bus[e]] = Bus[e]
  <2>1. Dma(e)
    BY <1>4 DEF VtdInv
  <2> QED BY <1>1, <1>4, <2>1 DEF Dma, Attaching
<1>6. /\ pc'[c] = "free_irte" /\ dev'[c] = e /\ todo'[c] = todo[c] \ {e}
      /\ req'[c] = <<dmar_invalid_context_cache(e), dmar_invalid_iotlb(vmid_to_domainid(c))>>
  BY <1>1, <1>2, <1>3 DEF TypeOK
<1>7. \A d \in Dev : ctx'[Bus[d]][d] = IF d = e THEN None ELSE ctx[Bus[d]][d]
  BY <1>1, <1>2, <1>4, <1>5 DEF TypeOK, Table
<1>8. OwnStep(c)
  BY <1>1, <1>2, <1>3 DEF OwnStep, TypeOK, Commanding
<1>9. TypeOK'
  BY <1>1, <1>2, <1>3, <1>4, <1>5 DEF TypeOK, VmPlaces, Cleaning
<1>10. VmWorking(c)'
  BY <1>1, <1>4, <1>6 DEF VmWorking, VmPlaces, Cleaning, WithDev
<1>11. Head(req'[c]) = dmar_invalid_context_cache(e) /\ req'[c] # <<>>
  BY <1>6, HeadTail
<1>12. ASSUME NEW d \in DevsOf(c) PROVE Dma(d)' /\ Irte(d)'
  <2>1. d \in Dev /\ Owner[d] = c /\ Dma(d) /\ Irte(d)
    BY DEF VtdInv, DevsOf
  <2>2. Outstanding(c, dmar_invalid_context_cache(e))' /\ ~Outstanding(c, dmar_invalid_context_cache(d))
    BY <1>8, <1>11, OwnRequest
  <2>3. Dma(d)'
    BY <1>1, <1>3, <1>6, <1>7, <2>1, <2>2 DEF Dma, Attaching, Cleaning
  <2>4. Irte(d)'
    BY <1>1, <1>3, <1>6, <1>8, <2>1, OwnRequest DEF Irte, Cleaning
  <2> QED BY <2>3, <2>4
<1>13. \A d \in Dev : Owner[d] # c => ctx'[Bus[d]][d] = ctx[Bus[d]][d]
  BY <1>4, <1>7
<1> QED BY <1>3, <1>4, <1>8, <1>9, <1>10, <1>11, <1>12, <1>13, OwnSuffices

LEMMA FreeStep ==
  ASSUME VtdInv, NEW c \in Vm, dmar_free_irte(c)
  PROVE  VtdInv'
<1> USE VtdAssumption
<1> DEFINE e == dev[c]
           i == irte_index(dev[c])
<1>1. TypeOK /\ VmWorking(c) /\ Iotlb /\ c \in Cpu /\ pc[c] = "free_irte" /\ req[c] = <<>>
  BY DEF VtdInv, Working, Cpu, dmar_free_irte, At
<1>2. e \in DevsOf(c) /\ e \in Dev /\ Owner[e] = c /\ i \in Index /\ e \notin todo[c]
  BY <1>1, OwnNames DEF VmWorking, WithDev, DevsOf
<1>3. /\ UNCHANGED <<lock, root, ctx, qi_queue, qi_tail, iqt, iqh, status, ctx_cache, iotlb, iec, todo, vec>>
      /\ irt' = [irt EXCEPT ![i].present = FALSE] /\ req' = [req EXCEPT ![c] = <<dmar_invalid_iec(i)>>]
      /\ dev' = [dev EXCEPT ![c] = None] /\ pc' = [pc EXCEPT ![c] = "cleanup"]
  BY DEF dmar_free_irte, Goto, unit, queue, caches
<1>4. /\ pc'[c] = "cleanup" /\ req'[c] = <<dmar_invalid_iec(i)>>
      /\ Head(req'[c]) = dmar_invalid_iec(i) /\ req'[c] # <<>>
  BY <1>1, <1>3, HeadTail DEF TypeOK
<1>5. irt[i] \in IrteSet
  BY <1>1, <1>2 DEF TypeOK
<1>6. /\ irt' \in [Index -> IrteSet] /\ \A j \in Index : j # i => irt'[j] = irt[j]
      /\ irt'[i].present = FALSE
  BY <1>1, <1>2, <1>3, <1>5 DEF TypeOK, IrteSet
<1>7. OwnStep(c)
  BY <1>1, <1>3 DEF OwnStep, TypeOK, Commanding
<1>8. TypeOK'
  BY <1>1, <1>2, <1>3, <1>6 DEF TypeOK, VmPlaces, Cleaning
<1>9. VmWorking(c)'
  BY <1>1, <1>2, <1>3, <1>4 DEF VmWorking, VmPlaces, Cleaning, WithDev
<1>10. \A d \in Dev : Owner[d] # c => irt'[irte_index(d)] = irt[irte_index(d)]
  BY <1>2, <1>6, OwnNames
<1>11. todo'[c] = {} => vmid_to_domainid(c) \notin iotlb
  <2>1. ~Outstanding(c, dmar_invalid_iotlb(vmid_to_domainid(c)))
    BY <1>7, OwnRequest
  <2> QED BY <1>1, <1>3, <2>1 DEF Iotlb, Cleaning
<1>12. ASSUME NEW d \in DevsOf(c) PROVE Dma(d)' /\ Irte(d)'
  <2>1. d \in Dev /\ Owner[d] = c /\ Dma(d) /\ Irte(d) /\ irte_index(d) \in Index
    BY OwnNames DEF VtdInv, DevsOf
  <2>2. /\ d = e => Outstanding(c, dmar_invalid_iec(irte_index(d)))'
        /\ \A r : ~Outstanding(c, r)
    BY <1>4, <1>7, OwnRequest
  <2>3. Dma(d)'
    BY <1>1, <1>3, <1>4, <2>1, <2>2 DEF Dma, Attaching, Cleaning
  <2>4. CASE d = e
    BY <1>3, <1>4, <1>6, <2>1, <2>2, <2>3, <2>4 DEF Irte, Cleaning
  <2>5. CASE d # e
    <3>1. irt'[irte_index(d)] = irt[irte_index(d)]
      BY <1>2, <1>6, <2>1, <2>5, OwnNames
    <3> QED BY <1>1, <1>3, <1>4, <2>1, <2>2, <2>3, <2>5, <3>1 DEF Irte, Cleaning
  <2> QED BY <2>4, <2>5
<1> QED BY <1>3, <1>4, <1>7, <1>8, <1>9, <1>10, <1>11, <1>12, OwnSuffices

LEMMA DestroyStep ==
  ASSUME VtdInv, NEW c \in Vm, destroy_iommu_domain(c)
  PROVE  VtdInv'
<1> USE VtdAssumption
<1>1. TypeOK /\ VmWorking(c) /\ Iotlb /\ c \in Cpu /\ pc[c] = "cleanup" /\ req[c] = <<>> /\ todo[c] = {}
  BY DEF VtdInv, Working, Cpu, destroy_iommu_domain, At
<1>2. /\ UNCHANGED <<lock, root, ctx, irt, qi_queue, qi_tail, iqt, iqh, status, ctx_cache, iotlb, iec, dev, todo, vec, req>>
      /\ pc' = [pc EXCEPT ![c] = "destroyed"]
  BY DEF destroy_iommu_domain, Goto, unit, tables, queue, caches
<1>3. pc'[c] = "destroyed"
  BY <1>1, <1>2 DEF TypeOK
<1>4. OwnStep(c)
  BY <1>1, <1>2 DEF OwnStep, TypeOK, Commanding
<1>5. TypeOK'
  BY <1>1, <1>2 DEF TypeOK, VmPlaces, Cleaning
<1>6. VmWorking(c)'
  BY <1>1, <1>2, <1>3 DEF VmWorking, VmPlaces, Cleaning, WithDev
<1>7. vmid_to_domainid(c) \notin iotlb
  <2>1. ~Outstanding(c, dmar_invalid_iotlb(vmid_to_domainid(c)))
    BY <1>4, OwnRequest
  <2> QED BY <1>1, <2>1 DEF Iotlb, Cleaning
<1>8. ASSUME NEW d \in DevsOf(c) PROVE Dma(d)' /\ Irte(d)'
  <2>1. d \in Dev /\ Owner[d] = c /\ Dma(d) /\ Irte(d)
    BY DEF VtdInv, DevsOf
  <2>2. \A r : ~Outstanding(c, r)
    BY <1>4, OwnRequest
  <2>3. Dma(d)'
    BY <1>1, <1>2, <1>3, <2>1, <2>2 DEF Dma, Attaching, Cleaning
  <2>4. Irte(d)'
    BY <1>1, <1>2, <1>3, <2>1, <2>2 DEF Irte, Cleaning
  <2> QED BY <2>3, <2>4
<1> QED BY <1>2, <1>3, <1>4, <1>5, <1>6, <1>7, <1>8, OwnSuffices

-----------------------------------------------------------------------------
LEMMA NextInv == VtdInv /\ [Next]_vars => VtdInv'
<1> SUFFICES ASSUME VtdInv, [Next]_vars PROVE VtdInv'
  OBVIOUS
<1>1. CASE Boot(Bsp)
  BY <1>1, RegisterSteps, EnableStep DEF Boot, enable_iommu
<1>2. CASE \E c \in Cpu : Qi(c)
  BY <1>2, IssueStep, CompletedStep DEF Qi
<1>3. ASSUME NEW c \in Vm, Create(c) \/ ptirq_msix_remap(c) \/ Remap(c) \/ vpci_cleanup(c) \/ Shutdown(c)
      PROVE  VtdInv'
  BY <1>3, NextAttachStep, AddRootStep, AddDeviceStep, RemapStep, RegisterSteps, AssignStep, CleanupStep,
     RemoveStep, FreeStep, DestroyStep DEF Create, Remap, Shutdown
<1>4. CASE Hardware
  BY <1>4, CommandStep, InvalidateStep, DmaStep, InterruptStep DEF Hardware
<1>5. CASE UNCHANGED vars
  <2>1. UNCHANGED <<lock, root, ctx, irt, qi_queue, qi_tail, iqt, iqh, status, ctx_cache, iotlb, iec, pc, dev, todo, vec, req>>
    BY <1>5 DEF vars, unit, tables, queue, caches, work
  <2>2. TypeOK' /\ Working' /\ OneRequest'
    BY <2>1 DEF VtdInv, TypeOK, Working, VmWorking, BootWorking, OneRequest, Executing
  <2>3. Iotlb' /\ \A d \in Dev : Dma(d)' /\ Irte(d)'
    BY <2>1 DEF VtdInv, Iotlb, Dma, Irte, Outstanding, Executed
  <2> QED BY <2>2, <2>3 DEF VtdInv
<1> QED BY <1>1, <1>2, <1>3, <1>4, <1>5 DEF Next

\* At most one request is in the invalidation queue, and a cache of the unit is
\* behind the tables only while the request to forget that entry is outstanding
\* (dmar_issue_qi_request).
THEOREM VtdInvariance == Spec => []VtdInv
<1> QED BY InitInv, NextInv, PTL DEF Spec

\* DMA of an attached device goes where its VM's tables say, and nothing of the VM
\* is cached when destroy_iommu_domain has run (add_iommu_device,
\* remove_iommu_device), with any number of VMs and devices at it at the same time.
THEOREM DmaIsConfined == Spec => []DmaConfined
<1>1. VtdInv => DmaConfined
  <2> SUFFICES ASSUME VtdInv PROVE DmaConfined
    OBVIOUS
  <2>1. AttachedTranslated
    <3> SUFFICES ASSUME NEW d \in Dev, Attached(d)
                 PROVE  root[Bus[d]] # None /\ ctx[root[Bus[d]]][d] = vmid_to_domainid(Owner[d])
      BY DEF AttachedTranslated
    <3>1. Dma(d) /\ Bus[d] # None
      BY VtdAssumption DEF VtdInv, Table
    <3> QED BY <3>1 DEF Dma, Attached, Attaching, Cleaning, Domain
  <2>2. NothingCached
    <3> SUFFICES ASSUME NEW v \in Vm, pc[v] = "destroyed"
                 PROVE  /\ vmid_to_domainid(v) \notin iotlb
                        /\ \A d \in DevsOf(v) : ctx_cache[d] = None /\ ~iec[irte_index(d)].present
      BY DEF NothingCached
    <3>1. todo[v] = {} /\ req[v] = <<>> /\ \A r : ~Outstanding(v, r)
      BY DEF VtdInv, Working, VmWorking, Outstanding
    <3>2. vmid_to_domainid(v) \notin iotlb
      BY <3>1 DEF VtdInv, Iotlb, Cleaning
    <3>3. ASSUME NEW d \in DevsOf(v) PROVE ctx_cache[d] = None /\ ~iec[irte_index(d)].present
      <4>1. Dma(d) /\ Irte(d) /\ Owner[d] = v
        BY DEF VtdInv, DevsOf
      <4> QED BY <3>1, <4>1 DEF Dma, Irte, Cleaning
    <3> QED BY <3>2, <3>3
  <2> QED BY <2>1, <2>2 DEF DmaConfined
<1> QED BY <1>1, VtdInvariance, PTL

\* A present interrupt remapping entry has the source id of its own device, in the
\* table and in the cache, and a guest that has programmed an MSI gets its
\* interrupts with the new vector (dmar_assign_irte, dmar_free_irte).
THEOREM IrteIsRight == Spec => []IrteRight
<1>1. VtdInv => IrteRight
  <2> SUFFICES ASSUME VtdInv PROVE IrteRight
    OBVIOUS
  <2>1. IrteOwned
    BY DEF VtdInv, Irte, IrteOwned
  <2>2. IrteFresh
    <3> SUFFICES ASSUME NEW v \in Vm, At(v, "run"), NEW d \in DevsOf(v), iec[irte_index(d)].present
                 PROVE  iec[irte_index(d)] = irt[irte_index(d)]
      BY DEF IrteFresh
    <3>1. Irte(d) /\ Owner[d] = v
      BY DEF VtdInv, DevsOf
    <3> QED BY <3>1 DEF Irte, At, Outstanding
  <2> QED BY <2>1, <2>2 DEF IrteRight
<1> QED BY <1>1, VtdInvariance, PTL
=============================================================================
