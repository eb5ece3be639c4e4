-------------------------------- MODULE Vpci --------------------------------
(***************************************************************************)
(* The PCI configuration space of a VM (dm/vpci): a host bridge and one    *)
(* passthrough device, reached by every vCPU through the ports 0xcf8 and   *)
(* 0xcfc.  The device reads its command register and its MSI registers at  *)
(* any time, so every write to it (hw/pci.c) is a step of its own.         *)
(*                                                                         *)
(* Registers are kept by the byte where the code masks bytes.  An address  *)
(* in a BAR is counted in pages: the low half has 3 bits, the high half 2, *)
(* and the window for BARs is BarBase .. BarTop - 1.                       *)
(***************************************************************************)
EXTENDS Naturals, FiniteSetsExt

CONSTANTS Vcpu,
          Byte,     \* the bytes a guest writes
          Group,    \* groups of registers a guest may concentrate on
          None

ASSUME VpciAssumption ==
    /\ Vcpu # {} /\ Vcpu \subseteq Nat /\ Byte \subseteq 0 .. 255
    /\ Group \subseteq {"command", "bar", "msi"}
    /\ None \notin Nat

COMMAND == 4    \* PCIR_COMMAND
BARS == 16      \* PCIR_BARS
MSI == 64       \* where the device has its MSI capability, if it has one

\* struct pci_bar of the device: a 64-bit BAR in registers 0 and 1, a 32-bit one
\* in register 2, no other.
Bar == 0 .. 2
type == [i \in Bar |-> <<"MEM64", "MEM64HI", "MEM32">>[i + 1]]
size == 1
BarBase == 4
BarTop == 6
AllOnes(i) == IF type[i] = "MEM64HI" THEN 3 ELSE 7
vbar_base == [i \in Bar |-> IF i = 2 THEN BarBase + 1 ELSE IF i = 0 THEN BarBase ELSE 0]

VARIABLES up,       \* the devices of the VM are initialised
          group,    \* the registers this guest uses
          addr,     \* vpci->addr: the device and dword selected, None if disabled
          lock,     \* vpci->lock
          pc, dword,      \* where a vCPU is, and the address it took
          capoff, caplen, \* vdev->msi
          cfg,      \* the bytes of the virtual MSI capability
          pmsi,     \* the device's MSI registers
          irte,     \* its interrupt remapping entry
          intxdis,  \* PCIM_CMD_INTXDIS in its command register
          reg, base,      \* BAR registers and vbar->base
          ept       \* what the EPT has at a page: a BAR or nothing

vpci == <<up, group, addr, lock, pc, dword>>
msi == <<capoff, caplen, cfg, pmsi, irte>>
bars == <<reg, base, ept>>
vars == <<vpci, msi, intxdis, bars>>

Page == 0 .. 31

\* The device as the firmware leaves it: MSI off, INTx perhaps on.  Whether it has
\* an MSI capability, and a 64-bit one, is found by init_vmsi.
Init ==
    /\ up = FALSE /\ group \in Group /\ addr = None /\ lock = None
    /\ pc = [c \in Vcpu |-> "guest"] /\ dword = [c \in Vcpu |-> None]
    /\ capoff = 0 /\ caplen = 0
    /\ cfg = [i \in 0 .. 15 |-> 0]
    /\ pmsi = [enabled |-> FALSE, handle |-> None] /\ irte = None
    /\ intxdis \in BOOLEAN
    /\ reg = [i \in Bar |-> 0] /\ base = [i \in Bar |-> 0] /\ ept = [p \in Page |-> None]

(***************************************************************************)
(* BARs.                                                                   *)
(***************************************************************************)
vbar_base_is_valid(b) == b >= BarBase /\ b + size <= BarTop

\* The low half never reads as all ones (its fixed bits do not), the high half may.
pci_vdev_update_bar_base(r, i) ==
    LET b == IF type[i] # "MEM64" THEN r[i]
             ELSE IF r[i + 1] # AllOnes(i + 1) THEN r[i] + 8 * r[i + 1] ELSE 0
    IN  IF b # 0 /\ ~vbar_base_is_valid(b) THEN 0 ELSE b

\* Mutant: the high half is not the BAR of the low half.
update_idx_self(i) == i

update_idx(i) == IF type[i] = "MEM64HI" THEN i - 1 ELSE i

pci_vdev_write_bar(i, val) ==
    /\ reg' = [reg EXCEPT ![i] = val]
    /\ base' = [base EXCEPT ![update_idx(i)] = pci_vdev_update_bar_base(reg', update_idx(i))]

Unmap(m, b) == IF b = 0 THEN m ELSE [p \in Page |-> IF p \in b .. b + size - 1 THEN None ELSE m[p]]
vdev_pt_unmap_mem_vbar(m, i) == Unmap(m, base[i])
vdev_pt_map_mem_vbar(m, b, i) ==
    IF b[i] = 0 THEN m ELSE [p \in Page |-> IF p \in b[i] .. b[i] + size - 1 THEN i ELSE Unmap(m, b[i])[p]]

\* Under the lock; the other vCPUs' accesses to the pages are in module Ept.
vdev_pt_write_vbar(i, val) ==
    /\ pci_vdev_write_bar(i, val)
    /\ ept' = vdev_pt_map_mem_vbar(vdev_pt_unmap_mem_vbar(ept, update_idx(i)), base', update_idx(i))

(***************************************************************************)
(* MSI.                                                                    *)
(***************************************************************************)
\* Where the vector is, and how a byte of the capability takes a written one
\* (msi_32_ro_mask, msi_64_ro_mask).
DataAt == IF caplen = 14 THEN 12 ELSE 8
Writable == {2, 5, 6, DataAt}
Masked(i, old, val) ==
    CASE i = 2 -> (old - (old % 2)) + (val % 2)
      [] i = 5 -> (old % 16) + (val - (val % 16))
      [] i = 6 -> (old - (old % 16)) + (val % 16)
      [] OTHER -> val

Enabled(f) == f[2] % 2 = 1
Vector(f) == f[DataAt]
Valid(f) == Vector(f) \in 16 .. 254
Dest(f) == (f[6] % 16) * 16 + f[5] \div 16

\* The destination is taken as the APIC id of a vCPU, which is its number; the
\* remapping entry names the pCPU of that vCPU by its logical id (lapic_ldr, of
\* cluster 0 for up to 16 pCPUs), or nobody.  A logical id, and the mask that they
\* are combined to, is the set of the bits that are set.
vlapic_build_id(v) == v
vm_apicid2vcpu_id(id) == {v \in Vcpu : vlapic_build_id(v) = id}
vlapic_calc_dest(dest) == vm_apicid2vcpu_id(dest)
pcpuid_from_vcpu(v) == v + 1        \* the VM follows a VM with one vCPU
vcpumask2pcpumask(vdmask) == {pcpuid_from_vcpu(v) : v \in vdmask}
lapic_ldr(p) == {p}
calculate_logical_dest_mask(pdmask) == UNION {lapic_ldr(p) : p \in pdmask}
ptirq_build_physical_msi(f) ==
    [vector |-> Vector(f),
     dest |-> calculate_logical_dest_mask(vcpumask2pcpumask(vlapic_calc_dest(Dest(f))))]

Release(c) == lock' = None /\ pc' = [pc EXCEPT ![c] = "guest"] /\ dword' = [dword EXCEPT ![c] = None]
Hold(c, p) == lock' = c /\ pc' = [pc EXCEPT ![c] = p] /\ UNCHANGED dword

\* Mutant: the device is not silenced before the guest's registers change.
vmsi_write_enabled(c, first, bytes, val) ==
    LET B == first .. first + bytes - 1
        f == [i \in 0 .. 15 |-> IF i \in B \cap Writable THEN Masked(i, cfg[i], val) ELSE cfg[i]]
    IN  /\ cfg' = f
        /\ IF B \cap Writable # {} /\ Enabled(f) /\ Valid(f) THEN Hold(c, "irte") ELSE Release(c)
        /\ UNCHANGED <<capoff, caplen, irte, pmsi>>

\* The writable bits of the bytes covered change, the device's MSI is disabled,
\* and if the guest has MSI enabled with a valid vector it is remapped.
vmsi_write_cfg(c, first, bytes, val) ==
    LET B == first .. first + bytes - 1
        f == [i \in 0 .. 15 |-> IF i \in B \cap Writable THEN Masked(i, cfg[i], val) ELSE cfg[i]]
    IN  /\ IF B \cap Writable = {}
           THEN Release(c) /\ UNCHANGED <<cfg, pmsi>>
           ELSE /\ cfg' = f
                /\ pmsi' = [pmsi EXCEPT !.enabled = FALSE]
                /\ IF Enabled(f) /\ Valid(f) THEN Hold(c, "irte") ELSE Release(c)
        /\ UNCHANGED <<capoff, caplen, irte>>

\* remap_vmsi: the remapping entry (ptirq_msix_remap), ...
RemapIrte(c) ==
    /\ pc[c] = "irte"
    /\ irte' = ptirq_build_physical_msi(cfg)
    /\ Hold(c, "msg")
    /\ UNCHANGED <<up, group, addr, capoff, caplen, cfg, pmsi, intxdis, bars>>

\* ... the address and data of the device's MSI, which name the entry, ...
RemapMessage(c) ==
    /\ pc[c] = "msg"
    /\ pmsi' = [pmsi EXCEPT !.handle = "irte"]
    /\ Hold(c, "enable")
    /\ UNCHANGED <<up, group, addr, capoff, caplen, cfg, irte, intxdis, bars>>

\* ... and its enable bit.
RemapEnable(c) ==
    /\ pc[c] = "enable"
    /\ pmsi' = [pmsi EXCEPT !.enabled = TRUE]
    /\ Release(c)
    /\ UNCHANGED <<up, group, addr, capoff, caplen, cfg, irte, intxdis, bars>>

(***************************************************************************)
(* Initialisation.                                                         *)
(***************************************************************************)
\* init_default_cfg; what else it copies the guest only reads.
init_default_cfg == intxdis' = TRUE

\* The capability list of the device leads to an MSI capability or to none.  The
\* guest sees one message only and starts with its address 0.
init_vmsi ==
    /\ capoff' \in {0, MSI}
    /\ caplen' \in IF capoff' = 0 THEN {0} ELSE {10, 14}
    /\ UNCHANGED <<cfg, pmsi, irte>>

\* Every BAR that the firmware has placed is put where the VM's configuration says
\* and mapped; a 64-bit one takes two registers.
init_vdev_pt ==
    /\ reg' = vbar_base
    /\ base' = [i \in Bar |-> IF type[i] = "MEM64HI" THEN 0 ELSE pci_vdev_update_bar_base(reg', i)]
    /\ ept' = vdev_pt_map_mem_vbar(vdev_pt_map_mem_vbar(ept, base', 0), base', 2)

\* The device is then attached to the IOMMU domain, in module Vtd.
vpci_init_pt_dev == init_default_cfg /\ init_vmsi /\ init_vdev_pt

vpci_init ==
    /\ ~up /\ up' = TRUE /\ \A c \in Vcpu : pc[c] = "guest"
    /\ addr' = None
    /\ vpci_init_pt_dev
    /\ UNCHANGED <<group, lock, pc, dword>>

(***************************************************************************)
(* The configuration ports.                                                *)
(***************************************************************************)
PCI_CONFIG_ADDR == \h0CF8
PCI_CONFIG_DATA == \h0CFC
Port == PCI_CONFIG_ADDR - 1 .. PCI_CONFIG_DATA + 4

\* vm->emul_pio, as vpci_init registers it: the first port of a handler and the one
\* after its last.
emul_pio == <<[port_start |-> PCI_CONFIG_ADDR, port_end |-> PCI_CONFIG_ADDR + 1, handler |-> "cfgaddr"],
              [port_start |-> PCI_CONFIG_DATA, port_end |-> PCI_CONFIG_DATA + 4, handler |-> "cfgdata"]>>

\* The handler of an access is that of its first port.
hv_emulate_pio(port) ==
    LET H == {i \in DOMAIN emul_pio : port >= emul_pio[i].port_start /\ port < emul_pio[i].port_end}
    IN  IF H = {} THEN "default" ELSE emul_pio[Min(H)].handler

AddrPort == {p \in Port : hv_emulate_pio(p) = "cfgaddr"}
DataPort == {p \in Port : hv_emulate_pio(p) = "cfgdata"}

\* pio_instr_vmexit_handler: 3 bytes, or more than 4, are refused.
PioSize == {1, 2, 4}

\* Accesses the guest makes in a group: dwords of the device, and of others.
DwordOf(g) ==
    CASE g = "command" -> {COMMAND, 60}
      [] g = "bar" -> {BARS, BARS + 4, BARS + 8}
      [] g = "msi" -> {MSI, MSI + 4, MSI + 8, MSI + 12}
Selected == [dev : {"bridge", "pt", "absent"}, reg : DwordOf(group)]

\* Any vCPU selects a dword, or disables the address.  Other widths do nothing.
pci_cfgaddr_io_write(c) ==
    /\ up /\ pc[c] = "guest"
    /\ \E port \in AddrPort, bytes \in PioSize :
          IF port = PCI_CONFIG_ADDR /\ bytes = 4 THEN addr' \in Selected \cup {None} ELSE UNCHANGED addr
    /\ UNCHANGED <<up, group, lock, pc, dword, msi, intxdis, bars>>

\* pci_cfgdata_io_read, pci_cfgdata_io_write: the address is taken and disabled in
\* one step (atomic_swap32); without one the access ends, and reads all ones.
TakeAddress(c) ==
    /\ up /\ pc[c] = "guest" /\ addr # None
    /\ addr' = None
    /\ dword' = [dword EXCEPT ![c] = addr]
    /\ pc' = [pc EXCEPT ![c] = "access"]
    /\ UNCHANGED <<up, group, lock, msi, intxdis, bars>>

vpci_is_valid_access(offset, bytes) == bytes \in {1, 2, 4} /\ offset % bytes = 0

\* The end of an access that changes nothing.
EndAccess(c) ==
    /\ pc[c] = "access" /\ Release(c)
    /\ UNCHANGED <<up, group, addr, msi, intxdis, bars>>

\* The access is not aligned: the lock is not taken.
Misaligned(c) ==
    /\ pc[c] = "access"
    /\ \E port \in DataPort, bytes \in PioSize :
          ~vpci_is_valid_access(dword[c].reg + (port - PCI_CONFIG_DATA), bytes)
    /\ pc' = [pc EXCEPT ![c] = "guest"] /\ dword' = [dword EXCEPT ![c] = None]
    /\ UNCHANGED <<up, group, addr, lock, msi, intxdis, bars>>

\* read_cfg, under the lock: of a device (vpci_read_pt_dev_cfg, vhostbridge_read_cfg)
\* or, if there is none, of nothing.
read_cfg(c) == lock = None /\ EndAccess(c)

\* The host bridge ignores writes.
vhostbridge_write_cfg(c) == lock = None /\ pc[c] = "access" /\ dword[c].dev = "bridge" /\ EndAccess(c)

\* pci_find_vdev: the VM has a host bridge and the device.
pci_find_vdev(d) == d.dev \in {"bridge", "pt"}

\* write_cfg, with no such device.
NoDevice(c) == lock = None /\ pc[c] = "access" /\ ~pci_find_vdev(dword[c]) /\ EndAccess(c)

vbar_access(o) == o >= BARS /\ o < BARS + 4 * 6
msicap_access(o) == capoff # 0 /\ o >= capoff /\ o < capoff + caplen

\* Mutant: only a write to the whole register keeps INTx disabled.
intx_forced_wide(o, bytes, val) == IF o = COMMAND /\ bytes = 4 THEN TRUE ELSE (val \div 4) % 2 = 1

\* PCIM_CMD_INTXDIS, bit 2 of byte 5, after a write that covers that byte.
IntxAfter(o, bytes, val) ==
    IF <<o, bytes>> \in {<<COMMAND + 1, 1>>, <<COMMAND, 2>>, <<COMMAND, 4>>} THEN TRUE ELSE (val \div 4) % 2 = 1

\* write_cfg finds the device under the lock; offset of an aligned access.
Writes(c, o, bytes) ==
    /\ pc[c] = "access" /\ lock = None /\ dword[c].dev = "pt"
    /\ vpci_is_valid_access(o, bytes)
    /\ UNCHANGED <<up, group, addr>>

\* vpci_write_pt_dev_cfg, by what the offset is in.
WriteBar(c, o, bytes) ==
    LET i == (o - BARS) \div 4
    IN  /\ Writes(c, o, bytes) /\ vbar_access(o)
        /\ IF bytes = 4 THEN \E v \in 0 .. AllOnes(i) : vdev_pt_write_vbar(i, v) ELSE UNCHANGED bars
        /\ Release(c)
        /\ UNCHANGED <<msi, intxdis>>

WriteMsi(c, o, bytes, val) ==
    /\ Writes(c, o, bytes) /\ ~vbar_access(o) /\ msicap_access(o)
    /\ vmsi_write_cfg(c, o - capoff, bytes, val)
    /\ UNCHANGED <<intxdis, bars>>

WriteOther(c, o, bytes, val) ==
    /\ Writes(c, o, bytes) /\ ~vbar_access(o) /\ ~msicap_access(o)
    /\ intxdis' = IF o \in COMMAND .. COMMAND + 3 /\ COMMAND + 1 \in o .. o + bytes - 1
                  THEN IntxAfter(o, bytes, val) ELSE intxdis
    /\ Release(c)
    /\ UNCHANGED <<msi, bars>>

vpci_write_pt_dev_cfg(c) ==
    \E port \in DataPort, bytes \in PioSize :
        /\ pc[c] = "access"
        /\ LET o == dword[c].reg + (port - PCI_CONFIG_DATA)
           IN  \/ WriteBar(c, o, bytes)
               \/ \E val \in Byte : WriteMsi(c, o, bytes, val) \/ WriteOther(c, o, bytes, val)

\* The remapping entry goes, the device's own registers stay.
deinit_vmsi ==
    /\ irte' = IF capoff # 0 THEN None ELSE irte
    /\ UNCHANGED <<capoff, caplen, cfg, pmsi>>

\* Once the vCPUs are paused.
vpci_cleanup ==
    /\ up /\ \A c \in Vcpu : pc[c] = "guest"
    /\ up' = FALSE
    /\ deinit_vmsi
    /\ pc' = [c \in Vcpu |-> "off"]
    /\ UNCHANGED <<group, addr, lock, dword, intxdis, bars>>

-----------------------------------------------------------------------------
Access(c) == vpci_write_pt_dev_cfg(c) \/ RemapIrte(c) \/ RemapMessage(c) \/ RemapEnable(c)

Next ==
    \/ vpci_init \/ vpci_cleanup
    \/ \E c \in Vcpu : pci_cfgaddr_io_write(c) \/ TakeAddress(c) \/ Misaligned(c) \/ read_cfg(c)
                         \/ vhostbridge_write_cfg(c) \/ NoDevice(c) \/ Access(c)

Spec == Init /\ [][Next]_vars

-----------------------------------------------------------------------------
(***************************************************************************)
(* Properties.                                                             *)
(***************************************************************************)
Live == \E c \in Vcpu : pc[c] # "off"

\* Whenever the device may signal an interrupt, during a reprogramming too, its
\* message names its own remapping entry and that entry has the vector of the
\* guest's registers and reaches the pCPU of the vCPU they name, and no other,
\* or nobody if the VM has no such vCPU (vmsi_write_cfg, remap_vmsi).
MsiConsistent ==
    Live /\ pmsi.enabled =>
      /\ pmsi.handle = "irte" /\ irte.vector = Vector(cfg)
      /\ \A p \in 0 .. Cardinality(Vcpu) :
            p \in irte.dest <=> \E v \in Vcpu : v = Dest(cfg) /\ pcpuid_from_vcpu(v) = p

\* Between two accesses the device has MSI enabled exactly when the guest has it
\* enabled with a vector the code accepts, whichever bytes were written by
\* which vCPU in which order.
MsiFollowsGuest ==
    lock = None => (pmsi.enabled <=> Enabled(cfg) /\ Valid(cfg))

\* Both together: the device signals the interrupts that the guest programmed.
MsiAsProgrammed == MsiConsistent /\ MsiFollowsGuest

\* A guest cannot turn on the device's INTx, with any width at any offset.
IntxDisabled == up => intxdis

\* Between two accesses no page of the BAR window leads to a BAR that is not
\* there, and a BAR with a base is what the registers of both its halves say.
BarsWhereRegistersSay ==
    /\ \A p \in Page : ept[p] # None => p \in base[ept[p]] .. base[ept[p]] + size - 1
    /\ \A i \in Bar : base[i] # 0 =>
          /\ vbar_base_is_valid(base[i])
          /\ base[i] = reg[i] + (IF type[i] = "MEM64" THEN 8 * reg[i + 1] ELSE 0)
=============================================================================
