--------------------------------- MODULE Vtd ---------------------------------
(***************************************************************************)
(* A VT-d remapping unit (arch/x86/vtd.c) and its users: the boot          *)
(* processor, which sets it up, and the pCPUs that create and shut down    *)
(* VMs in parallel, attach their devices, and program and free interrupt   *)
(* remapping entries (arch/x86/guest/assign.c).                            *)
(*                                                                         *)
(* The unit itself is external: it executes commands, drains the           *)
(* invalidation queue, and translates DMA and interrupts through caches,   *)
(* each at a time of its own.  The tables are shared without a lock; the   *)
(* registers and the queue are used under dmar_unit->lock.  All devices    *)
(* are behind the unit that vtd.c hard-codes, the others are ignored.      *)
(***************************************************************************)
EXTENDS Naturals, Sequences, FiniteSets

CONSTANTS Vm,       \* ids of the VMs, each created and shut down by a pCPU of its own
          Dev,      \* passthrough devices
          Owner,    \* the VM each device is configured for
          Bus,      \* the bus each device is on
          Vbdf,     \* the virtual bus, device and function of each device
          Vector,   \* vectors a guest may program
          Queue,    \* number of descriptors in the invalidation queue
          Bsp,      \* the boot processor
          None

Cpu == Vm \cup {Bsp}
Table == {Bus[d] : d \in Dev} \cup Dev

\* vmid_to_domainid: domain 0 is reserved.
vmid_to_domainid(v) == v + 1

\* remove_msix_remapping, as ptirq_build_physical_msi: the entry of a device.
irte_index(d) == ((Vbdf[d] % 64) + 64 * Owner[d]) % 256

\* Devices with equal entries would overwrite each other's interrupts: the
\* configuration has to keep apart the low 6 bits of the virtual addresses.
ASSUME VtdAssumption ==
    /\ Vm \subseteq Nat /\ Owner \in [Dev -> Vm] /\ Vbdf \in [Dev -> Nat]
    /\ Queue \in Nat /\ Queue > 2
    /\ \A d, e \in Dev : irte_index(d) = irte_index(e) => d = e
    /\ Bsp \notin Vm /\ None \notin Nat \cup Cpu \cup Dev \cup Table

Index == {irte_index(d) : d \in Dev}
\* ptirq_build_physical_msi
Entry(d, vec) == [sid |-> d, present |-> TRUE, vector |-> vec, vm |-> Owner[d]]
Absent == [sid |-> None, present |-> FALSE, vector |-> None, vm |-> None]

VARIABLES gcmd,     \* the software copy of the command register
          cmd,      \* a command the unit has not executed, None if there is none
          gsts,     \* the status register
          lock,     \* dmar_unit->lock
          root, ctx,           \* root table: the context table of a bus; context entries
          irt,                 \* interrupt remapping table
          qi_queue, qi_tail,   \* invalidation queue and its software tail
          iqt, iqh,            \* the unit's tail and head registers
          status,              \* qi_status on each caller's stack
          ctx_cache, iotlb, iec,  \* the unit's caches
          pc, dev, todo, vec,  \* where each pCPU is, with which device, and which are left
          req                  \* the invalidations it still has to request

unit == <<gcmd, cmd, gsts, lock>>
tables == <<root, ctx, irt>>
queue == <<qi_queue, qi_tail, iqt, iqh, status>>
caches == <<ctx_cache, iotlb, iec>>
work == <<pc, dev, todo, vec>>
vars == <<unit, tables, queue, caches, work, req>>

DevsOf(v) == {d \in Dev : Owner[d] = v}

\* The unit is as the firmware left it: translation may be on.
Init ==
    /\ gsts \in SUBSET {"TE", "IRE"} /\ gcmd = gsts /\ cmd = None
    /\ lock = None
    /\ root = [b \in {Bus[d] : d \in Dev} |-> None]
    /\ ctx = [t \in Table |-> [d \in Dev |-> None]]
    /\ irt = [i \in Index |-> Absent]
    /\ qi_queue = [i \in 0 .. Queue - 1 |-> [type |-> "none"]]
    /\ qi_tail = 0 /\ iqt = 0 /\ iqh = 0
    /\ status = [c \in Cpu |-> "COMPLETED"]  \* whatever is on the stack
    /\ ctx_cache = [d \in Dev |-> None] /\ iotlb = {} /\ iec = [i \in Index |-> Absent]
    /\ pc = [c \in Cpu |-> IF c = Bsp THEN "disable" ELSE "wait_boot"]
    /\ dev = [c \in Cpu |-> None]
    /\ todo = [c \in Cpu |-> IF c = Bsp THEN {} ELSE DevsOf(c)]
    /\ vec = [c \in Cpu |-> None]
    /\ req = [c \in Cpu |-> <<>>]

At(c, p) == pc[c] = p /\ req[c] = <<>>
Goto(c, p) == pc' = [pc EXCEPT ![c] = p]

(***************************************************************************)
(* The registers: write GCMD under the lock, then dmar_wait_completion.    *)
(***************************************************************************)
\* The command is the software copy and, for SRTP and SIRTP, a bit that is not
\* kept in it.
WriteGcmd(c, keep, once, next) ==
    /\ lock = None /\ lock' = c
    /\ gcmd' = keep
    /\ cmd' = keep \cup once
    /\ gsts' = gsts \ once
    /\ Goto(c, next)
    /\ UNCHANGED <<tables, queue, caches, dev, todo, vec, req>>

dmar_wait_completion(c, done, next) ==
    /\ lock = c /\ cmd = None /\ done
    /\ lock' = None
    /\ Goto(c, next)
    /\ UNCHANGED <<gcmd, cmd, gsts, tables, queue, caches, dev, todo, vec, req>>

\* Translation is turned off, whatever the firmware left.
dmar_disable_translation(c) ==
    \/ At(c, "disable") /\ WriteGcmd(c, gcmd \ {"TE"}, {}, "disabled")
    \/ At(c, "disabled") /\ dmar_wait_completion(c, "TE" \notin gsts, "root")

dmar_set_root_table(c) ==
    \/ At(c, "root") /\ WriteGcmd(c, gcmd, {"SRTP"}, "rooted")
    \/ At(c, "rooted") /\ dmar_wait_completion(c, "SRTP" \in gsts, "qi")

dmar_enable_qi(c) ==
    \/ At(c, "qi") /\ WriteGcmd(c, gcmd \cup {"QIE"}, {}, "qi_on")
    \/ At(c, "qi_on") /\ dmar_wait_completion(c, "QIE" \in gsts, "irta")

dmar_set_intr_remap_table(c) ==
    \/ At(c, "irta") /\ WriteGcmd(c, gcmd, {"SIRTP"}, "irta_set")
    \/ At(c, "irta_set") /\ dmar_wait_completion(c, "SIRTP" \in gsts, "enable")

\* The requests to the invalidation queue.
dmar_invalid_context_cache_global == [type |-> "ctx_global"]
dmar_invalid_iotlb_global == [type |-> "iotlb_global"]
dmar_invalid_iec_global == [type |-> "iec_global"]
dmar_invalid_context_cache(d) == [type |-> "ctx", sid |-> d]
dmar_invalid_iotlb(did) == [type |-> "iotlb", did |-> did]
dmar_invalid_iec(i) == [type |-> "iec", index |-> i]

\* dmar_enable up to the enabling: everything cached before is thrown away.
dmar_enable(c) ==
    /\ At(c, "enable")
    /\ req' = [req EXCEPT ![c] = <<dmar_invalid_context_cache_global, dmar_invalid_iotlb_global,
                                   dmar_invalid_iec_global>>]
    /\ Goto(c, "te")
    /\ UNCHANGED <<unit, tables, queue, caches, dev, todo, vec>>

dmar_enable_translation(c) ==
    \/ At(c, "te") /\ "TE" \notin gcmd /\ WriteGcmd(c, gcmd \cup {"TE"}, {}, "te_on")
    \/ At(c, "te_on") /\ dmar_wait_completion(c, "TE" \in gsts, "up")

dmar_enable_intr_remapping(c) ==
    \/ At(c, "ire") /\ "IRE" \notin gcmd /\ WriteGcmd(c, gcmd \cup {"IRE"}, {}, "ire_on")
    \/ At(c, "ire_on") /\ dmar_wait_completion(c, "IRE" \in gsts, "irte_hi")
    \/ /\ At(c, "ire") /\ "IRE" \in gcmd /\ lock = None
       /\ Goto(c, "irte_hi")
       /\ UNCHANGED <<unit, tables, queue, caches, dev, todo, vec, req>>

(***************************************************************************)
(* dmar_issue_qi_request, under the lock: the request and a wait           *)
(* descriptor, the tail register, and the wait for the unit's answer.      *)
(***************************************************************************)
Wrap(n) == n % Queue
Put(c) == [qi_queue EXCEPT ![qi_tail] = Head(req[c]), ![Wrap(qi_tail + 1)] = [type |-> "wait", cpu |-> c]]

\* Mutant: the tail register is written before the wait descriptor is counted.
iqt_too_early(c) ==
    /\ req[c] # <<>> /\ lock = None
    /\ lock' = c
    /\ qi_queue' = Put(c) /\ qi_tail' = Wrap(qi_tail + 2) /\ iqt' = Wrap(qi_tail + 1)
    /\ status' = [status EXCEPT ![c] = "INCOMPLETE"]
    /\ UNCHANGED <<gcmd, cmd, gsts, tables, iqh, caches, work, req>>

dmar_issue_qi_request(c) ==
    /\ req[c] # <<>> /\ lock = None
    /\ lock' = c
    /\ qi_queue' = Put(c) /\ qi_tail' = Wrap(qi_tail + 2) /\ iqt' = Wrap(qi_tail + 2)
    /\ status' = [status EXCEPT ![c] = "INCOMPLETE"]
    /\ UNCHANGED <<gcmd, cmd, gsts, tables, iqh, caches, work, req>>

qi_completed(c) ==
    /\ req[c] # <<>> /\ lock = c /\ status[c] = "COMPLETED"
    /\ lock' = None
    /\ req' = [req EXCEPT ![c] = Tail(@)]
    /\ UNCHANGED <<gcmd, cmd, gsts, tables, queue, caches, work>>

(***************************************************************************)
(* create_vm: vpci_init attaches the devices of the VM.                    *)
(***************************************************************************)
get_ctx_table(d) == Bus[d]

\* create_iommu_domain, and the next device of vpci_init_vdevs.
NextAttach(c) ==
    /\ At(c, "wait_boot") /\ pc[Bsp] = "up"
    /\ IF todo[c] = {}
       THEN Goto(c, "run") /\ UNCHANGED <<dev, todo>>
       ELSE \E d \in todo[c] : /\ dev' = [dev EXCEPT ![c] = d]
                               /\ todo' = [todo EXCEPT ![c] = @ \ {d}]
                               /\ Goto(c, IF root[Bus[d]] = None THEN "add_root" ELSE "add_ctx")
    /\ UNCHANGED <<unit, tables, queue, caches, vec, req>>

\* add_iommu_device: the root entry was found absent ...
AddRoot(c) ==
    /\ At(c, "add_root")
    /\ root' = [root EXCEPT ![Bus[dev[c]]] = get_ctx_table(dev[c])]
    /\ Goto(c, "add_ctx")
    /\ UNCHANGED <<unit, ctx, irt, queue, caches, dev, todo, vec, req>>

\* ... and the context entry of the device names the domain of the VM.
add_iommu_device(c) ==
    /\ At(c, "add_ctx")
    /\ ctx' = [ctx EXCEPT ![root[Bus[dev[c]]]][dev[c]] = vmid_to_domainid(c)]
    /\ dev' = [dev EXCEPT ![c] = None]
    /\ Goto(c, "wait_boot")
    /\ UNCHANGED <<unit, root, irt, queue, caches, todo, vec, req>>

(***************************************************************************)
(* The guest programs the MSI of a device (remap_vmsi).                    *)
(***************************************************************************)
ptirq_msix_remap(c) ==
    /\ At(c, "run")
    /\ \E d \in DevsOf(c), v \in Vector :
         dev' = [dev EXCEPT ![c] = d] /\ vec' = [vec EXCEPT ![c] = v]
    /\ Goto(c, "ire")
    /\ UNCHANGED <<unit, tables, queue, caches, todo, req>>

\* Mutant: the low half, with the present bit, is written first.
irte_low_first(c) ==
    LET i == irte_index(dev[c]) e == Entry(dev[c], vec[c])
    IN  \/ /\ At(c, "irte_hi")
           /\ irt' = [irt EXCEPT ![i] = [e EXCEPT !.sid = irt[i].sid]]
           /\ Goto(c, "irte_lo")
           /\ UNCHANGED <<unit, root, ctx, queue, caches, dev, todo, vec, req>>
        \/ /\ At(c, "irte_lo")
           /\ irt' = [irt EXCEPT ![i].sid = e.sid]
           /\ req' = [req EXCEPT ![c] = <<dmar_invalid_iec(i)>>]
           /\ Goto(c, "run")
           /\ dev' = [dev EXCEPT ![c] = None] /\ vec' = [vec EXCEPT ![c] = None]
           /\ UNCHANGED <<unit, root, ctx, queue, caches, todo>>

\* The high half of the entry (source id), then the low half with the present
\* bit, then the invalidation of the cached entry.
dmar_assign_irte(c) ==
    LET i == irte_index(dev[c]) e == Entry(dev[c], vec[c])
    IN  \/ /\ At(c, "irte_hi")
           /\ irt' = [irt EXCEPT ![i].sid = e.sid]
           /\ Goto(c, "irte_lo")
           /\ UNCHANGED <<unit, root, ctx, queue, caches, dev, todo, vec, req>>
        \/ /\ At(c, "irte_lo")
           /\ irt' = [irt EXCEPT ![i] = [e EXCEPT !.sid = irt[i].sid]]
           /\ req' = [req EXCEPT ![c] = <<dmar_invalid_iec(i)>>]
           /\ Goto(c, "run")
           /\ dev' = [dev EXCEPT ![c] = None] /\ vec' = [vec EXCEPT ![c] = None]
           /\ UNCHANGED <<unit, root, ctx, queue, caches, todo>>

(***************************************************************************)
(* shutdown_vm: vpci_cleanup, destroy_iommu_domain, destroy_ept.           *)
(***************************************************************************)
vpci_cleanup(c) ==
    /\ At(c, "run")
    /\ todo' = [todo EXCEPT ![c] = DevsOf(c)]
    /\ Goto(c, "cleanup")
    /\ UNCHANGED <<unit, tables, queue, caches, dev, vec, req>>

\* Mutant: the IOTLB is invalidated before the context cache.
remove_iotlb_first(c) ==
    /\ At(c, "cleanup")
    /\ \E d \in todo[c] :
         /\ dev' = [dev EXCEPT ![c] = d]
         /\ todo' = [todo EXCEPT ![c] = @ \ {d}]
         /\ ctx' = [ctx EXCEPT ![root[Bus[d]]][d] = None]
         /\ req' = [req EXCEPT ![c] = <<dmar_invalid_iotlb(vmid_to_domainid(c)), dmar_invalid_context_cache(d)>>]
    /\ Goto(c, "free_irte")
    /\ UNCHANGED <<unit, root, irt, queue, caches, vec>>

\* The context entry is cleared, then the context cache and the IOTLB forget it.
remove_iommu_device(c) ==
    /\ At(c, "cleanup")
    /\ \E d \in todo[c] :
         /\ dev' = [dev EXCEPT ![c] = d]
         /\ todo' = [todo EXCEPT ![c] = @ \ {d}]
         /\ ctx' = [ctx EXCEPT ![root[Bus[d]]][d] = None]
         /\ req' = [req EXCEPT ![c] = <<dmar_invalid_context_cache(d), dmar_invalid_iotlb(vmid_to_domainid(c))>>]
    /\ Goto(c, "free_irte")
    /\ UNCHANGED <<unit, root, irt, queue, caches, vec>>

dmar_free_irte(c) ==
    /\ At(c, "free_irte")
    /\ LET i == irte_index(dev[c])
       IN  /\ irt' = [irt EXCEPT ![i].present = FALSE]
           /\ req' = [req EXCEPT ![c] = <<dmar_invalid_iec(i)>>]
    /\ dev' = [dev EXCEPT ![c] = None]
    /\ Goto(c, "cleanup")
    /\ UNCHANGED <<unit, root, ctx, queue, caches, todo, vec>>

destroy_iommu_domain(c) ==
    /\ At(c, "cleanup") /\ todo[c] = {}
    /\ Goto(c, "destroyed")
    /\ UNCHANGED <<unit, tables, queue, caches, dev, todo, vec, req>>

(***************************************************************************)
(* The unit.                                                               *)
(***************************************************************************)
HwCommand ==
    /\ cmd # None
    /\ gsts' = (gsts \cap {"SRTP", "SIRTP"}) \cup cmd
    /\ cmd' = None
    /\ UNCHANGED <<gcmd, lock, tables, queue, caches, work, req>>

\* One descriptor of the invalidation queue.
HwInvalidate ==
    /\ "QIE" \in gsts /\ iqh # iqt
    /\ iqh' = Wrap(iqh + 1)
    /\ LET q == qi_queue[iqh]
       IN  /\ ctx_cache' = IF q.type = "ctx_global" THEN [d \in Dev |-> None]
                           ELSE IF q.type = "ctx" THEN [ctx_cache EXCEPT ![q.sid] = None] ELSE ctx_cache
           /\ iotlb' = IF q.type = "iotlb_global" THEN {}
                       ELSE IF q.type = "iotlb" THEN iotlb \ {q.did} ELSE iotlb
           /\ iec' = IF q.type = "iec_global" THEN [i \in Index |-> Absent]
                     ELSE IF q.type = "iec" THEN [iec EXCEPT ![q.index] = Absent] ELSE iec
           /\ status' = IF q.type = "wait" THEN [status EXCEPT ![q.cpu] = "COMPLETED"] ELSE status
    /\ UNCHANGED <<unit, tables, qi_queue, qi_tail, iqt, work, req>>

Translation(d) ==
    IF ctx_cache[d] # None THEN ctx_cache[d]
    ELSE IF root[Bus[d]] # None THEN ctx[root[Bus[d]]][d] ELSE None

\* A DMA of device d: what it needs is fetched and kept.
HwDma(d) ==
    /\ "TE" \in gsts /\ Translation(d) # None
    /\ ctx_cache' = [ctx_cache EXCEPT ![d] = Translation(d)]
    /\ iotlb' = iotlb \cup {Translation(d)}
    /\ UNCHANGED <<unit, tables, queue, iec, work, req>>

HwInterrupt(i) ==
    /\ "IRE" \in gsts /\ ~iec[i].present /\ irt[i].present
    /\ iec' = [iec EXCEPT ![i] = irt[i]]
    /\ UNCHANGED <<unit, tables, queue, ctx_cache, iotlb, work, req>>

-----------------------------------------------------------------------------
dmar_prepare(c) == dmar_set_root_table(c) \/ dmar_enable_qi(c) \/ dmar_set_intr_remap_table(c)
dmar_register_hrhd(c) == dmar_disable_translation(c)
init_iommu(c) == dmar_register_hrhd(c) \/ dmar_prepare(c)
enable_iommu(c) == dmar_enable(c) \/ dmar_enable_translation(c)
Boot(c) == init_iommu(c) \/ enable_iommu(c)

Qi(c) == dmar_issue_qi_request(c) \/ qi_completed(c)

Create(c) == NextAttach(c) \/ AddRoot(c) \/ add_iommu_device(c)
Remap(c) == dmar_enable_intr_remapping(c) \/ dmar_assign_irte(c)
Shutdown(c) == remove_iommu_device(c) \/ dmar_free_irte(c) \/ destroy_iommu_domain(c)

Hardware == HwCommand \/ HwInvalidate \/ (\E d \in Dev : HwDma(d)) \/ (\E i \in Index : HwInterrupt(i))

Next ==
    \/ Boot(Bsp)
    \/ \E c \in Cpu : Qi(c)
    \/ \E c \in Vm : Create(c) \/ ptirq_msix_remap(c) \/ Remap(c) \/ vpci_cleanup(c) \/ Shutdown(c)
    \/ Hardware

\* The unit executes commands and descriptors, and a pCPU that can go on with what
\* it has begun goes on; the lock is a ticket lock, so a request that keeps finding
\* it free sometimes gets it.
Fairness ==
    /\ WF_vars(HwCommand) /\ WF_vars(HwInvalidate)
    /\ WF_vars(Boot(Bsp) \/ qi_completed(Bsp))
    /\ \A c \in Vm : WF_vars(qi_completed(c) \/ Remap(c) \/ Shutdown(c))
    /\ \A c \in Cpu : SF_vars(dmar_issue_qi_request(c))

Spec == Init /\ [][Next]_vars /\ Fairness

-----------------------------------------------------------------------------
(***************************************************************************)
(* Properties.                                                             *)
(***************************************************************************)
Attached(d) == ~(d \in todo[Owner[d]] \/ dev[Owner[d]] = d \/ pc[Owner[d]] \in {"cleanup", "free_irte", "destroyed"})

\* A device that has been attached is translated by the tables of its own VM,
\* whoever attached another device on the same bus at the same time: the root
\* entry is read and written without a lock (add_iommu_device).
AttachedTranslated ==
    \A d \in Dev : Attached(d) => root[Bus[d]] # None /\ ctx[root[Bus[d]]][d] = vmid_to_domainid(Owner[d])

\* When destroy_iommu_domain runs, after which the EPT is freed, the unit caches
\* nothing of the VM any more, although its devices went on with DMA and
\* interrupts during the whole clean-up.
NothingCached ==
    \A v \in Vm : pc[v] = "destroyed" =>
        /\ vmid_to_domainid(v) \notin iotlb
        /\ \A d \in DevsOf(v) : ctx_cache[d] = None /\ ~iec[irte_index(d)].present

\* Both together: from attaching to destroy_iommu_domain, a device's DMA goes where
\* its VM's tables say, and nowhere afterwards.
DmaConfined == AttachedTranslated /\ NothingCached

\* No present interrupt remapping entry, in the table or in the cache, has the
\* source id of another device or none: the two halves are written one by one.
IrteOwned ==
    \A d \in Dev : LET i == irte_index(d)
                   IN  /\ irt[i].present => irt[i].sid = d
                       /\ iec[i].present => iec[i].sid = d

\* A guest that has programmed an MSI gets its interrupts with the new vector:
\* back in the guest, the cached entry is not an older one.
IrteFresh ==
    \A v \in Vm : At(v, "run") => \A d \in DevsOf(v) :
        iec[irte_index(d)].present => iec[irte_index(d)] = irt[irte_index(d)]

\* Both together: interrupts come from their own device, with the vector of the guest.
IrteRight == IrteOwned /\ IrteFresh

\* The set-up of the unit and the clean-up of every VM come to their ends: every
\* request to the invalidation queue is answered, across the wrap-around of the
\* queue and with the other VMs' requests before and after it.
RequestsAnswered ==
    /\ <>(pc[Bsp] = "up")
    /\ \A v \in Vm : pc[v] = "cleanup" ~> pc[v] = "destroyed"
=============================================================================
