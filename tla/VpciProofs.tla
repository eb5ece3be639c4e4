------------------------------ MODULE VpciProofs ------------------------------
(***************************************************************************)
(* Proofs about the PCI configuration space of a VM, for any number of     *)
(* vCPUs and any bytes they write.                                         *)
(***************************************************************************)
EXTENDS Vpci, TLAPS

Busy == {"irte", "msg", "enable"}

\* The vCPU that reprograms the device holds the lock, and who holds it does that.
LockInv ==
    /\ pc \in [Vcpu -> {"guest", "access", "off"} \cup Busy]
    /\ \A c \in Vcpu : pc[c] \in Busy => lock = c
    /\ lock # None => lock \in Vcpu /\ pc[lock] \in Busy

\* The dword an access is to is one of the guest's group.
Dwords == [dev : {"bridge", "pt", "absent"}, reg : DwordOf(group)]
AddressInv ==
    /\ group \in Group
    /\ addr # None => addr \in Dwords
    /\ \A c \in Vcpu : pc[c] = "access" => dword[c] \in Dwords
    /\ DOMAIN dword = Vcpu

\* No vCPU has reached the device before it is initialised.
Reached == \A c \in Vcpu : pc[c] \in {"access"} \cup Busy => up
Fresh == ~up /\ Live =>
    /\ cfg = [i \in 0 .. 15 |-> 0] /\ ~pmsi.enabled
    /\ base = [i \in Bar |-> 0] /\ ept = [p \in Page |-> None]

MsiTypeOK == pmsi \in [enabled : BOOLEAN, handle : {"irte", None}]

\* What the device signals through, as far as the vCPU that holds the lock has come.
Programmed(c) ==
    /\ ~pmsi.enabled /\ Enabled(cfg) /\ Valid(cfg)
    /\ pc[c] \in {"msg", "enable"} => irte = ptirq_build_physical_msi(cfg)
    /\ pc[c] = "enable" => pmsi.handle = "irte"
MsiInv ==
    /\ MsiTypeOK
    /\ \A c \in Vcpu : pc[c] \in Busy => Programmed(c)
    /\ MsiFollowsGuest
    /\ lock = None /\ Live /\ pmsi.enabled => pmsi.handle = "irte" /\ irte = ptirq_build_physical_msi(cfg)

\* A BAR is mapped where it is and nowhere else, and its base is in its registers.
BarInv ==
    /\ reg \in [Bar -> 0 .. 7] /\ base \in [Bar -> {0} \cup BarBase .. BarTop - 1] /\ base[1] = 0
    /\ ept \in [Page -> Bar \cup {None}]
    /\ \A p \in Page : ept[p] # None => p = base[ept[p]] /\ base[ept[p]] # 0
    /\ base[0] # 0 => base[0] = reg[0] + 8 * reg[1]
    /\ base[2] # 0 => base[2] = reg[2]

VpciInv == LockInv /\ AddressInv /\ Reached /\ Fresh /\ MsiInv /\ IntxDisabled /\ BarInv


-----------------------------------------------------------------------------
(***************************************************************************)
(* The ports and the registers.                                            *)
(***************************************************************************)
LEMMA DataPorts == \A port \in DataPort : port - PCI_CONFIG_DATA \in 0 .. 3
<1> SUFFICES ASSUME NEW port \in DataPort PROVE port - PCI_CONFIG_DATA \in 0 .. 3
  OBVIOUS
<1>1. PCI_CONFIG_ADDR = 3320 /\ PCI_CONFIG_DATA = 3324
  BY DEF PCI_CONFIG_ADDR, PCI_CONFIG_DATA
<1>2. port \in Port /\ port \in Int /\ hv_emulate_pio(port) = "cfgdata"
  BY <1>1 DEF DataPort, Port
<1>3. /\ DOMAIN emul_pio = {1, 2} /\ emul_pio[1].handler = "cfgaddr"
      /\ emul_pio[2].port_start = PCI_CONFIG_DATA /\ emul_pio[2].port_end = PCI_CONFIG_DATA + 4
  BY DEF emul_pio
<1> DEFINE H == {i \in {1, 2} : port >= emul_pio[i].port_start /\ port < emul_pio[i].port_end}
<1>4. H # {} /\ emul_pio[Min(H)].handler = "cfgdata"
  BY <1>2, <1>3 DEF hv_emulate_pio
<1>5. \E x \in H : \A y \in H : x <= y
  BY <1>4
<1>6. Min(H) \in H
  BY <1>5 DEF Min
<1>7. Min(H) = 2
  BY <1>3, <1>4, <1>6
<1> QED BY <1>1, <1>2, <1>3, <1>6, <1>7

\* The registers of the BARs, and where an access is in a group.
LEMMA BarTypes ==
  /\ type[0] = "MEM64" /\ type[1] = "MEM64HI" /\ type[2] = "MEM32"
  /\ update_idx(0) = 0 /\ update_idx(1) = 0 /\ update_idx(2) = 2
  /\ Bar = {0, 1, 2}
<1>1. type[0] = "MEM64" /\ type[1] = "MEM64HI" /\ type[2] = "MEM32" /\ Bar = {0, 1, 2}
  BY DEF type, Bar
<1> QED BY <1>1 DEF update_idx

LEMMA Offsets ==
  ASSUME AddressInv, NEW c \in Vcpu, pc[c] = "access", NEW port \in DataPort,
         NEW o, o = dword[c].reg + (port - PCI_CONFIG_DATA)
  PROVE  o \in Nat /\ (vbar_access(o) => (o - BARS) \div 4 \in Bar)
<1>1. dword[c].reg \in DwordOf(group) /\ group \in {"command", "bar", "msi"}
  BY VpciAssumption DEF AddressInv, Dwords
<1>2. dword[c].reg \in {4, 60, 16, 20, 24, 64, 68, 72, 76}
  BY <1>1 DEF DwordOf, COMMAND, BARS, MSI
<1>3. PICK d \in 0 .. 3 : o = dword[c].reg + d
  BY DataPorts
<1> QED BY <1>2, <1>3, BarTypes DEF vbar_access, BARS


-----------------------------------------------------------------------------
(***************************************************************************)
(* The lock, the address and the command register.                         *)
(***************************************************************************)
LEMMA InitInv == Init => VpciInv
<1> SUFFICES ASSUME Init PROVE VpciInv
  OBVIOUS
<1> USE DEF Init
<1>1. LockInv
  BY DEF LockInv, Busy
<1>2. AddressInv
  BY DEF AddressInv
<1>3. Reached /\ Fresh /\ IntxDisabled
  BY DEF Reached, Fresh, IntxDisabled, Busy
<1>4. MsiInv
  <2>1. ~Enabled(cfg)
    BY DEF Enabled
  <2> QED BY <2>1 DEF MsiInv, MsiTypeOK, MsiFollowsGuest, Busy
<1>5. BarInv
  BY BarTypes DEF BarInv
<1> QED BY <1>1, <1>2, <1>3, <1>4, <1>5 DEF VpciInv

\* What a write to the device leaves alone, and how it ends.
LEMMA WriteEnds ==
  ASSUME NEW c \in Vcpu, vpci_write_pt_dev_cfg(c)
  PROVE  /\ pc[c] = "access" /\ lock = None /\ UNCHANGED <<up, group, addr>>
         /\ Release(c) \/ Hold(c, "irte")
<1>1. ASSUME NEW first, NEW bytes, NEW val, vmsi_write_cfg(c, first, bytes, val)
      PROVE  Release(c) \/ Hold(c, "irte")
  BY <1>1 DEF vmsi_write_cfg
<1>2. PICK port \in DataPort, bytes \in PioSize :
        LET o == dword[c].reg + (port - PCI_CONFIG_DATA)
        IN  \/ WriteBar(c, o, bytes)
            \/ \E val \in Byte : WriteMsi(c, o, bytes, val) \/ WriteOther(c, o, bytes, val)
  BY DEF vpci_write_pt_dev_cfg
<1> DEFINE o == dword[c].reg + (port - PCI_CONFIG_DATA)
<1>3. Writes(c, o, bytes)
  BY <1>2 DEF WriteBar, WriteMsi, WriteOther
<1>4. Release(c) \/ Hold(c, "irte")
  BY <1>1, <1>2 DEF WriteBar, WriteMsi, WriteOther
<1> HIDE DEF o
<1> QED BY <1>3, <1>4 DEF Writes

LEMMA LockStep == VpciInv /\ [Next]_vars => LockInv' /\ AddressInv'
<1> SUFFICES ASSUME VpciInv, [Next]_vars PROVE LockInv' /\ AddressInv'
  OBVIOUS
<1>1. LockInv /\ AddressInv
  BY DEF VpciInv
<1>2. \A c \in Vcpu : c # None
  BY VpciAssumption
<1>3. CASE vpci_init \/ UNCHANGED vars
  BY <1>1, <1>3 DEF vpci_init, vars, vpci, LockInv, AddressInv, Dwords
<1>4. CASE vpci_cleanup
  BY <1>1, <1>2, <1>4 DEF vpci_cleanup, LockInv, AddressInv, Dwords, Busy
<1>5. ASSUME NEW c \in Vcpu, pci_cfgaddr_io_write(c) PROVE LockInv' /\ AddressInv'
  BY <1>1, <1>5 DEF pci_cfgaddr_io_write, Selected, LockInv, AddressInv, Dwords
<1>6. ASSUME NEW c \in Vcpu, TakeAddress(c) PROVE LockInv' /\ AddressInv'
  BY <1>1, <1>6 DEF TakeAddress, LockInv, AddressInv, Dwords, Busy
<1>7. ASSUME NEW c \in Vcpu, pc[c] = "access", UNCHANGED <<group, addr, lock>>,
             pc' = [pc EXCEPT ![c] = "guest"], dword' = [dword EXCEPT ![c] = None]
      PROVE  LockInv' /\ AddressInv'
  BY <1>1, <1>7 DEF LockInv, AddressInv, Dwords, Busy
<1>8. ASSUME NEW c \in Vcpu, lock = None, EndAccess(c) PROVE LockInv' /\ AddressInv'
  BY <1>7, <1>8 DEF EndAccess, Release
<1>9. ASSUME NEW c \in Vcpu, pc[c] \in {"access"} \cup Busy, pc[c] = "access" => lock = None,
             UNCHANGED <<group, addr>>, Release(c) \/ \E p \in Busy : Hold(c, p)
      PROVE  LockInv' /\ AddressInv'
  <2>1. \A d \in Vcpu : pc[d] \in Busy => d = c
    BY <1>1, <1>2, <1>9 DEF LockInv, Busy
  <2>2. CASE Release(c)
    <3>1. LockInv'
      BY <1>1, <2>1, <2>2 DEF Release, LockInv, Busy
    <3>2. AddressInv'
      BY <1>1, <1>9, <2>2 DEF Release, LockInv, AddressInv, Dwords
    <3> QED BY <3>1, <3>2
  <2>3. CASE \E p \in Busy : Hold(c, p)
    <3>1. PICK p \in Busy : lock' = c /\ pc' = [pc EXCEPT ![c] = p] /\ UNCHANGED dword
      BY <2>3 DEF Hold
    <3>2. LockInv'
      BY <1>1, <2>1, <3>1 DEF LockInv, Busy
    <3>3. AddressInv'
      BY <1>1, <1>9, <3>1 DEF LockInv, AddressInv, Dwords, Busy
    <3> QED BY <3>2, <3>3
  <2> QED BY <1>9, <2>2, <2>3
<1>10. ASSUME NEW c \in Vcpu, Access(c) PROVE LockInv' /\ AddressInv'
  <2>1. CASE vpci_write_pt_dev_cfg(c)
    BY <1>9, <2>1, WriteEnds DEF Busy
  <2>2. CASE RemapIrte(c) \/ RemapMessage(c) \/ RemapEnable(c)
    BY <1>9, <2>2 DEF RemapIrte, RemapMessage, RemapEnable, Busy
  <2> QED BY <1>10, <2>1, <2>2 DEF Access
<1>11. ASSUME NEW c \in Vcpu, Misaligned(c) \/ read_cfg(c) \/ vhostbridge_write_cfg(c) \/ NoDevice(c)
       PROVE  LockInv' /\ AddressInv'
  BY <1>7, <1>8, <1>11 DEF Misaligned, read_cfg, vhostbridge_write_cfg, NoDevice
<1> QED BY <1>3, <1>4, <1>5, <1>6, <1>10, <1>11 DEF Next

\* A step that does not touch the device, and the steps that do.
Quiet(c) == \/ pci_cfgaddr_io_write(c) \/ TakeAddress(c) \/ Misaligned(c) \/ read_cfg(c)
            \/ vhostbridge_write_cfg(c) \/ NoDevice(c)

LEMMA QuietStep ==
  ASSUME LockInv, NEW c \in Vcpu, Quiet(c)
  PROVE  /\ UNCHANGED <<msi, intxdis, bars, up>> /\ pc[c] \notin Busy /\ pc'[c] \notin Busy
         /\ pc[c] # "off" /\ (lock' = None <=> lock = None)
         /\ \A d \in Vcpu : d # c => pc'[d] = pc[d]
  BY DEF Quiet, pci_cfgaddr_io_write, TakeAddress, Misaligned, read_cfg, vhostbridge_write_cfg, NoDevice,
         EndAccess, Release, LockInv, Busy

\* Before the device is initialised nothing reaches it; after, no write turns INTx on.
LEMMA IntxStep == VpciInv /\ [Next]_vars => IntxDisabled'
<1> SUFFICES ASSUME VpciInv, [Next]_vars PROVE IntxDisabled'
  OBVIOUS
<1>1. LockInv /\ AddressInv /\ IntxDisabled
  BY DEF VpciInv
<1>2. CASE vpci_init \/ vpci_cleanup \/ UNCHANGED vars
  BY <1>1, <1>2 DEF vpci_init, vpci_init_pt_dev, init_default_cfg, vpci_cleanup, vars, vpci, IntxDisabled
<1>3. ASSUME NEW c \in Vcpu, Quiet(c) PROVE IntxDisabled'
  BY <1>1, <1>3, QuietStep DEF IntxDisabled
<1>4. ASSUME NEW c \in Vcpu, RemapIrte(c) \/ RemapMessage(c) \/ RemapEnable(c) PROVE IntxDisabled'
  BY <1>1, <1>4 DEF RemapIrte, RemapMessage, RemapEnable, IntxDisabled
<1>5. ASSUME NEW c \in Vcpu, vpci_write_pt_dev_cfg(c) PROVE IntxDisabled'
  <2>1. pc[c] = "access" /\ UNCHANGED up
    BY <1>5, WriteEnds
  <2>2. PICK port \in DataPort, bytes \in PioSize :
          LET o == dword[c].reg + (port - PCI_CONFIG_DATA)
          IN  \/ WriteBar(c, o, bytes)
              \/ \E val \in Byte : WriteMsi(c, o, bytes, val) \/ WriteOther(c, o, bytes, val)
    BY <1>5 DEF vpci_write_pt_dev_cfg
  <2> DEFINE o == dword[c].reg + (port - PCI_CONFIG_DATA)
  <2>3. o \in Nat
    BY <1>1, <2>1, Offsets
  <2>4. CASE UNCHANGED intxdis
    BY <1>1, <2>1, <2>4 DEF IntxDisabled
  <2>5. ASSUME NEW val \in Byte, WriteOther(c, o, bytes, val) PROVE IntxDisabled'
    <3> HIDE DEF o
    <3>1. bytes \in {1, 2, 4} /\ o % bytes = 0
      BY <2>5 DEF WriteOther, Writes, vpci_is_valid_access
    <3>2. intxdis' = IF o \in COMMAND .. COMMAND + 3 /\ COMMAND + 1 \in o .. o + bytes - 1
                     THEN IntxAfter(o, bytes, val) ELSE intxdis
      BY <2>5 DEF WriteOther
    <3>3. o \in 4 .. 7 /\ 5 \in o .. o + bytes - 1 => <<o, bytes>> \in {<<5, 1>>, <<4, 2>>, <<4, 4>>}
      <4>1. o \in 4 .. 7 => o \in {4, 5, 6, 7}
        BY <2>3
      <4> QED BY <2>3, <3>1, <4>1
    <3>4. o \in COMMAND .. COMMAND + 3 /\ COMMAND + 1 \in o .. o + bytes - 1 => IntxAfter(o, bytes, val)
      BY <3>3 DEF COMMAND, IntxAfter
    <3> QED BY <1>1, <2>1, <3>2, <3>4 DEF IntxDisabled
  <2> QED BY <2>2, <2>4, <2>5 DEF WriteBar, WriteMsi
<1> QED BY <1>2, <1>3, <1>4, <1>5 DEF Next, Access, Quiet


-----------------------------------------------------------------------------
(***************************************************************************)
(* BARs.                                                                   *)
(***************************************************************************)
\* A BAR that moves to b, from where it is mapped now.
LEMMA MovedBar ==
  ASSUME NEW m \in [Page -> Bar \cup {None}], NEW old \in [Bar -> {0} \cup BarBase .. BarTop - 1],
         NEW new \in [Bar -> {0} \cup BarBase .. BarTop - 1], NEW u \in Bar,
         \A p \in Page : m[p] # None => p = old[m[p]] /\ old[m[p]] # 0,
         \A i \in Bar : i # u => new[i] = old[i],
         NEW m2, m2 = vdev_pt_map_mem_vbar(Unmap(m, old[u]), new, u)
  PROVE  /\ m2 \in [Page -> Bar \cup {None}]
         /\ \A p \in Page : m2[p] # None => p = new[m2[p]] /\ new[m2[p]] # 0
<1>1. BarBase = 4 /\ BarTop = 6 /\ size = 1 /\ Page = 0 .. 31 /\ Bar = {0, 1, 2} /\ None \notin Nat
  BY BarTypes, VpciAssumption DEF BarBase, BarTop, size, Page
<1> DEFINE m1 == Unmap(m, old[u])
           m0 == Unmap(m1, new[u])
<1>2. old[u] \in {0, 4, 5} /\ new[u] \in {0, 4, 5}
  BY <1>1
<1>a. ASSUME NEW f \in [Page -> Bar \cup {None}], NEW at \in {0, 4, 5}
      PROVE  /\ Unmap(f, at) \in [Page -> Bar \cup {None}]
             /\ \A p \in Page : Unmap(f, at)[p] = IF p = at /\ at # 0 THEN None ELSE f[p]
  BY <1>1 DEF Unmap
<1>3. m1 \in [Page -> Bar \cup {None}] /\ \A p \in Page : m1[p] = IF p = old[u] /\ old[u] # 0 THEN None ELSE m[p]
  BY <1>2, <1>a
<1> HIDE DEF m1
<1>4. \A p \in Page : m1[p] # u
  <2>1. u # None
    BY <1>1
  <2> QED BY <1>3, <2>1
<1>5. m0 \in [Page -> Bar \cup {None}] /\ \A p \in Page : m0[p] = IF p = new[u] /\ new[u] # 0 THEN None ELSE m1[p]
  BY <1>2, <1>3, <1>a
<1>6. m2 = IF new[u] = 0 THEN m1 ELSE [p \in Page |-> IF p \in new[u] .. new[u] + size - 1 THEN u ELSE m0[p]]
  BY DEF vdev_pt_map_mem_vbar, m1
<1> HIDE DEF m0
<1>7. \A p \in Page : p \in new[u] .. new[u] + size - 1 <=> p = new[u]
  BY <1>1, <1>2
<1>8. m2 \in [Page -> Bar \cup {None}]
  BY <1>3, <1>5, <1>6
<1>9. \A p \in Page : m2[p] = IF p = new[u] /\ new[u] # 0 THEN u ELSE m1[p]
  BY <1>3, <1>5, <1>6, <1>7
<1>10. ASSUME NEW p \in Page, m2[p] # None PROVE p = new[m2[p]] /\ new[m2[p]] # 0
  <2>1. CASE p = new[u] /\ new[u] # 0
    BY <1>9, <2>1
  <2>2. CASE ~(p = new[u] /\ new[u] # 0)
    <3>1. m2[p] = m[p] /\ m[p] \in Bar /\ m[p] # u
      BY <1>3, <1>4, <1>9, <1>10, <2>2
    <3> QED BY <3>1, <1>10
  <2> QED BY <2>1, <2>2
<1> QED BY <1>8, <1>10

\* The base that the registers give is 0 or in the window, and then it is in them.
LEMMA UpdatedBase ==
  ASSUME NEW r \in [Bar -> 0 .. 7], NEW i \in {0, 2}, NEW b, b = pci_vdev_update_bar_base(r, i)
  PROVE  /\ b \in {0} \cup BarBase .. BarTop - 1
         /\ b # 0 => b = r[i] + IF i = 0 THEN 8 * r[1] ELSE 0
<1>1. BarBase = 4 /\ BarTop = 6 /\ size = 1 /\ r[0] \in 0 .. 7 /\ r[1] \in 0 .. 7 /\ r[2] \in 0 .. 7
  BY BarTypes DEF BarBase, BarTop, size
<1>2. CASE i = 0
  BY <1>1, <1>2, BarTypes DEF pci_vdev_update_bar_base, vbar_base_is_valid
<1>3. CASE i = 2
  BY <1>1, <1>3, BarTypes DEF pci_vdev_update_bar_base, vbar_base_is_valid
<1> QED BY <1>2, <1>3

LEMMA BarStep == VpciInv /\ [Next]_vars => BarInv'
<1> SUFFICES ASSUME VpciInv, [Next]_vars PROVE BarInv'
  OBVIOUS
<1>1. LockInv /\ AddressInv /\ Fresh /\ BarInv
  BY DEF VpciInv
<1>2. ASSUME UNCHANGED bars PROVE BarInv'
  BY <1>1, <1>2 DEF bars, BarInv
<1>3. CASE vpci_init
  <2>1. Live /\ ~up
    BY <1>3, VpciAssumption DEF vpci_init, Live
  <2>2. base = [i \in Bar |-> 0] /\ ept = [p \in Page |-> None]
    BY <1>1, <2>1 DEF Fresh
  <2>3. /\ reg' = vbar_base /\ ept' = vdev_pt_map_mem_vbar(vdev_pt_map_mem_vbar(ept, base', 0), base', 2)
        /\ base' = [i \in Bar |-> IF type[i] = "MEM64HI" THEN 0 ELSE pci_vdev_update_bar_base(reg', i)]
    BY <1>3 DEF vpci_init, vpci_init_pt_dev, init_vdev_pt
  <2>4. reg' \in [Bar -> 0 .. 7]
    BY <2>3, BarTypes DEF vbar_base, BarBase
  <2>5. /\ base'[0] = pci_vdev_update_bar_base(reg', 0) /\ base'[1] = 0
        /\ base'[2] = pci_vdev_update_bar_base(reg', 2) /\ DOMAIN base' = Bar /\ base' = [i \in Bar |-> base'[i]]
    BY <2>3, BarTypes
  <2>6. /\ base'[0] \in {0} \cup BarBase .. BarTop - 1 /\ (base'[0] # 0 => base'[0] = reg'[0] + 8 * reg'[1])
        /\ base'[2] \in {0} \cup BarBase .. BarTop - 1 /\ (base'[2] # 0 => base'[2] = reg'[2])
    <3>1. base'[2] # 0 => base'[2] = reg'[2] + 0
      BY <2>4, <2>5, UpdatedBase
    <3>2. reg'[2] \in 0 .. 7
      BY <2>4, BarTypes
    <3> QED BY <2>4, <2>5, <3>1, <3>2, UpdatedBase
  <2>7. base' \in [Bar -> {0} \cup BarBase .. BarTop - 1]
    BY <2>5, <2>6, BarTypes
  <2> DEFINE none == [i \in Bar |-> 0]
             first == [i \in Bar |-> IF i = 0 THEN base'[0] ELSE 0]
             m1 == vdev_pt_map_mem_vbar(ept, base', 0)
  <2>8. none \in [Bar -> {0} \cup BarBase .. BarTop - 1] /\ first \in [Bar -> {0} \cup BarBase .. BarTop - 1]
    BY <2>7, BarTypes
  <2>9. m1 = vdev_pt_map_mem_vbar(Unmap(ept, none[0]), first, 0)
    BY BarTypes DEF Unmap, vdev_pt_map_mem_vbar
  <2>10. /\ m1 \in [Page -> Bar \cup {None}]
         /\ \A p \in Page : m1[p] # None => p = first[m1[p]] /\ first[m1[p]] # 0
    <3>1. ept \in [Page -> Bar \cup {None}] /\ \A p \in Page : ept[p] = None
      BY <2>2
    <3>2. 0 \in Bar /\ \A i \in Bar : i # 0 => first[i] = none[i]
      BY BarTypes
    <3> HIDE DEF none, first, m1
    <3> QED BY <2>8, <2>9, <3>1, <3>2, MovedBar
  <2>11. ept' = vdev_pt_map_mem_vbar(Unmap(m1, first[2]), base', 2)
    BY <2>3, BarTypes DEF Unmap
  <2>12. 2 \in Bar /\ \A i \in Bar : i # 2 => base'[i] = first[i]
    BY <2>5, BarTypes
  <2>13. /\ ept' \in [Page -> Bar \cup {None}]
         /\ \A p \in Page : ept'[p] # None => p = base'[ept'[p]] /\ base'[ept'[p]] # 0
    <3> HIDE DEF first, m1
    <3> QED BY <2>7, <2>8, <2>10, <2>11, <2>12, MovedBar
  <2> QED BY <2>4, <2>5, <2>6, <2>7, <2>13 DEF BarInv
<1>4. CASE vpci_cleanup \/ UNCHANGED vars
  BY <1>2, <1>4 DEF vpci_cleanup, vars
<1>5. ASSUME NEW c \in Vcpu, Quiet(c) PROVE BarInv'
  BY <1>1, <1>2, <1>5, QuietStep
<1>6. ASSUME NEW c \in Vcpu, RemapIrte(c) \/ RemapMessage(c) \/ RemapEnable(c) PROVE BarInv'
  BY <1>2, <1>6 DEF RemapIrte, RemapMessage, RemapEnable
<1>7. ASSUME NEW i \in Bar, NEW v \in 0 .. AllOnes(i), vdev_pt_write_vbar(i, v) PROVE BarInv'
  <2> DEFINE u == update_idx(i)
  <2>1. u \in {0, 2} /\ u \in Bar /\ (u = 2 => i = 2) /\ (u = 0 => i \in {0, 1})
    BY BarTypes
  <2>2. v \in 0 .. 7
    BY BarTypes DEF AllOnes
  <2>3. /\ reg' = [reg EXCEPT ![i] = v]
        /\ base' = [base EXCEPT ![u] = pci_vdev_update_bar_base(reg', u)]
        /\ ept' = vdev_pt_map_mem_vbar(Unmap(ept, base[u]), base', u)
    BY <1>7 DEF vdev_pt_write_vbar, pci_vdev_write_bar, vdev_pt_unmap_mem_vbar
  <2> HIDE DEF u
  <2>4. reg' \in [Bar -> 0 .. 7]
    BY <1>1, <2>2, <2>3 DEF BarInv
  <2>5. /\ base'[u] = pci_vdev_update_bar_base(reg', u)
        /\ \A k \in Bar : k # u => base'[k] = base[k]
    BY <1>1, <2>1, <2>3 DEF BarInv
  <2>6. /\ base'[u] \in {0} \cup BarBase .. BarTop - 1
        /\ base'[u] # 0 => base'[u] = reg'[u] + IF u = 0 THEN 8 * reg'[1] ELSE 0
    BY <2>1, <2>4, <2>5, UpdatedBase
  <2>7. base' \in [Bar -> {0} \cup BarBase .. BarTop - 1] /\ base'[1] = 0
    BY <1>1, <2>1, <2>3, <2>5, <2>6, BarTypes DEF BarInv
  <2>8. /\ ept' \in [Page -> Bar \cup {None}]
        /\ \A p \in Page : ept'[p] # None => p = base'[ept'[p]] /\ base'[ept'[p]] # 0
    <3>1. /\ ept \in [Page -> Bar \cup {None}] /\ base \in [Bar -> {0} \cup BarBase .. BarTop - 1]
          /\ \A p \in Page : ept[p] # None => p = base[ept[p]] /\ base[ept[p]] # 0
      BY <1>1 DEF BarInv
    <3>2. ept' = vdev_pt_map_mem_vbar(Unmap(ept, base[u]), base', u) /\ u \in Bar
      BY <2>1, <2>3
    <3>3. base' \in [Bar -> {0} \cup BarBase .. BarTop - 1] /\ \A k \in Bar : k # u => base'[k] = base[k]
      BY <2>5, <2>7
    <3> QED BY <3>1, <3>2, <3>3, MovedBar
  <2>9. (base'[0] # 0 => base'[0] = reg'[0] + 8 * reg'[1]) /\ (base'[2] # 0 => base'[2] = reg'[2])
    <3>1. reg'[2] \in 0 .. 7 /\ reg'[2] + 0 = reg'[2]
      BY <2>4, BarTypes
    <3>2. CASE u = 0
      <4>1. base'[2] = base[2] /\ reg'[2] = reg[2]
        BY <1>1, <2>1, <2>3, <2>5, <3>2, BarTypes DEF BarInv
      <4> QED BY <1>1, <2>6, <3>2, <4>1 DEF BarInv
    <3>3. CASE u = 2
      <4>1. base'[0] = base[0] /\ reg'[0] = reg[0] /\ reg'[1] = reg[1]
        BY <1>1, <2>1, <2>3, <2>5, <3>3, BarTypes DEF BarInv
      <4> QED BY <1>1, <2>6, <3>1, <3>3, <4>1 DEF BarInv
    <3> QED BY <2>1, <3>2, <3>3
  <2> QED BY <2>4, <2>7, <2>8, <2>9 DEF BarInv
<1>8. ASSUME NEW c \in Vcpu, vpci_write_pt_dev_cfg(c) PROVE BarInv'
  <2>1. pc[c] = "access"
    BY <1>8, WriteEnds
  <2>2. PICK port \in DataPort, bytes \in PioSize :
          LET o == dword[c].reg + (port - PCI_CONFIG_DATA)
          IN  \/ WriteBar(c, o, bytes)
              \/ \E val \in Byte : WriteMsi(c, o, bytes, val) \/ WriteOther(c, o, bytes, val)
    BY <1>8 DEF vpci_write_pt_dev_cfg
  <2> DEFINE o == dword[c].reg + (port - PCI_CONFIG_DATA)
             i == (o - BARS) \div 4
  <2>3. vbar_access(o) => i \in Bar
    BY <1>1, <2>1, Offsets
  <2>4. CASE WriteBar(c, o, bytes)
    <3>1. vbar_access(o) /\ (UNCHANGED bars \/ \E v \in 0 .. AllOnes(i) : vdev_pt_write_vbar(i, v))
      BY <2>4 DEF WriteBar
    <3> HIDE DEF i
    <3> QED BY <1>2, <1>7, <2>3, <3>1
  <2>5. CASE \E val \in Byte : WriteMsi(c, o, bytes, val) \/ WriteOther(c, o, bytes, val)
    BY <1>2, <2>5 DEF WriteMsi, WriteOther
  <2> QED BY <2>2, <2>4, <2>5
<1> QED BY <1>3, <1>4, <1>5, <1>6, <1>8 DEF Next, Access, Quiet


-----------------------------------------------------------------------------
(***************************************************************************)
(* MSI.                                                                    *)
(***************************************************************************)

LEMMA FreshStep == VpciInv /\ [Next]_vars => Reached' /\ Fresh'
<1> SUFFICES ASSUME VpciInv, [Next]_vars PROVE Reached' /\ Fresh'
  OBVIOUS
<1>1. LockInv /\ Reached /\ Fresh
  BY DEF VpciInv
<1>2. CASE UNCHANGED vars
  BY <1>1, <1>2 DEF vars, vpci, msi, bars, Reached, Fresh, Live
<1>3. CASE vpci_init
  BY <1>3 DEF vpci_init, Reached, Fresh
<1>4. CASE vpci_cleanup
  BY <1>4 DEF vpci_cleanup, Live, Reached, Fresh, Busy
<1>5. ASSUME NEW c \in Vcpu, Quiet(c) PROVE Reached' /\ Fresh'
  <2>1. UNCHANGED <<msi, bars, up>> /\ Live /\ pc'[c] \notin Busy /\ \A d \in Vcpu : d # c => pc'[d] = pc[d]
    BY <1>1, <1>5, QuietStep DEF Live
  <2>2. pc'[c] = "access" => up
    BY <1>1, <1>5 DEF Quiet, pci_cfgaddr_io_write, TakeAddress, Misaligned, read_cfg, vhostbridge_write_cfg,
                      NoDevice, EndAccess, Release, LockInv, Reached
  <2> QED BY <1>1, <2>1, <2>2 DEF msi, bars, Reached, Fresh
<1>6. ASSUME NEW c \in Vcpu, Access(c) PROVE Reached' /\ Fresh'
  <2>1. up /\ up' = up
    <3>1. CASE vpci_write_pt_dev_cfg(c)
      BY <1>1, <3>1, WriteEnds DEF Reached
    <3>2. CASE RemapIrte(c) \/ RemapMessage(c) \/ RemapEnable(c)
      BY <1>1, <3>2 DEF RemapIrte, RemapMessage, RemapEnable, Reached, Busy
    <3> QED BY <1>6, <3>1, <3>2 DEF Access
  <2> QED BY <2>1 DEF Reached, Fresh
<1> QED BY <1>2, <1>3, <1>4, <1>5, <1>6 DEF Next, Quiet

\* A write to the capability: the device is silenced before the entry may change, and
\* if it is to signal again the lock is held until it does.
LEMMA MsiWriteStep ==
  ASSUME VpciInv, NEW c \in Vcpu, pc[c] = "access", lock = None,
         NEW first, NEW bytes, NEW val, vmsi_write_cfg(c, first, bytes, val)
  PROVE  MsiInv'
<1>1. LockInv /\ MsiInv /\ \A d \in Vcpu : pc[d] \notin Busy
  BY VpciAssumption DEF VpciInv, LockInv
<1>2. UNCHANGED <<capoff, caplen, irte>>
  BY DEF vmsi_write_cfg
<1>3. CASE Release(c) /\ UNCHANGED <<cfg, pmsi>>
  <2>1. lock' = None /\ \A d \in Vcpu : pc'[d] \notin Busy
    BY <1>1, <1>3 DEF Release, LockInv, Busy
  <2>2. Live
    BY DEF Live
  <2>3. /\ Enabled(cfg)' = Enabled(cfg) /\ Valid(cfg)' = Valid(cfg)
        /\ ptirq_build_physical_msi(cfg)' = ptirq_build_physical_msi(cfg)
    BY <1>2, <1>3 DEF Enabled, Valid, Vector, DataAt, ptirq_build_physical_msi, Dest
  <2> QED BY <1>1, <1>2, <1>3, <2>1, <2>2, <2>3 DEF MsiInv, MsiTypeOK, MsiFollowsGuest
<1>4. CASE ~(Release(c) /\ UNCHANGED <<cfg, pmsi>>)
  <2>1. PICK f : /\ cfg' = f /\ pmsi' = [pmsi EXCEPT !.enabled = FALSE]
                 /\ IF Enabled(f) /\ Valid(f) THEN Hold(c, "irte") ELSE Release(c)
    BY <1>4 DEF vmsi_write_cfg
  <2>2. pmsi'.enabled = FALSE /\ MsiTypeOK'
    BY <1>1, <2>1 DEF MsiInv, MsiTypeOK
  <2>3. (Enabled(cfg)' <=> Enabled(f)) /\ (Valid(cfg)' <=> Valid(f))
    BY <1>2, <2>1 DEF Enabled, Valid, Vector, DataAt
  <2>4. CASE Enabled(f) /\ Valid(f)
    <3>1. lock' = c /\ pc'[c] = "irte" /\ \A d \in Vcpu : d # c => pc'[d] \notin Busy
      BY <1>1, <2>1, <2>4 DEF Hold, LockInv
    <3>2. lock' # None
      BY <3>1, VpciAssumption
    <3>3. Programmed(c)'
      BY <2>2, <2>3, <2>4, <3>1 DEF Programmed
    <3>4. \A d \in Vcpu : pc'[d] \in Busy => Programmed(d)'
      BY <3>1, <3>3
    <3> QED BY <2>2, <3>2, <3>4 DEF MsiInv, MsiFollowsGuest
  <2>5. CASE ~(Enabled(f) /\ Valid(f))
    <3>1. \A d \in Vcpu : pc'[d] \notin Busy
      BY <1>1, <2>1, <2>5 DEF Release, LockInv, Busy
    <3> QED BY <2>2, <2>3, <2>5, <3>1 DEF MsiInv, MsiFollowsGuest
  <2> QED BY <2>4, <2>5
<1> QED BY <1>3, <1>4

\* What is built from the registers stays the same while they do.
LEMMA SameRegisters ==
  ASSUME UNCHANGED <<capoff, caplen, cfg>>
  PROVE  /\ Enabled(cfg)' = Enabled(cfg) /\ Valid(cfg)' = Valid(cfg)
         /\ ptirq_build_physical_msi(cfg)' = ptirq_build_physical_msi(cfg)
  BY DEF Enabled, Valid, Vector, DataAt, ptirq_build_physical_msi, Dest

LEMMA MsiStep == VpciInv /\ [Next]_vars => MsiInv'
<1> SUFFICES ASSUME VpciInv, [Next]_vars PROVE MsiInv'
  OBVIOUS
<1>1. LockInv /\ Fresh /\ MsiInv /\ None \notin Vcpu
  BY VpciAssumption DEF VpciInv
<1>2. CASE UNCHANGED vars
  BY <1>1, <1>2, SameRegisters DEF vars, vpci, msi, MsiInv, MsiTypeOK, MsiFollowsGuest, Programmed, Live
<1>3. CASE vpci_init
  <2>1. /\ cfg = [i \in 0 .. 15 |-> 0] /\ ~pmsi.enabled /\ UNCHANGED <<cfg, pmsi, irte, lock, pc>>
        /\ \A c \in Vcpu : pc[c] \notin Busy
    BY <1>1, <1>3, VpciAssumption DEF vpci_init, vpci_init_pt_dev, init_vmsi, Fresh, Live, Busy
  <2>2. ~Enabled(cfg)'
    BY <2>1 DEF Enabled
  <2> QED BY <1>1, <2>1, <2>2 DEF MsiInv, MsiTypeOK, MsiFollowsGuest
<1>4. CASE vpci_cleanup
  <2>1. /\ UNCHANGED <<capoff, caplen, cfg, pmsi, lock>> /\ ~Live' /\ \A c \in Vcpu : pc'[c] \notin Busy
    BY <1>4 DEF vpci_cleanup, deinit_vmsi, Live, Busy
  <2> QED BY <1>1, <2>1, SameRegisters DEF MsiInv, MsiTypeOK, MsiFollowsGuest
<1>5. ASSUME NEW c \in Vcpu, pc[c] # "off", pc[c] \notin Busy, pc'[c] \notin Busy, UNCHANGED msi,
             lock' = None <=> lock = None, \A d \in Vcpu : d # c => pc'[d] = pc[d]
      PROVE  MsiInv'
  <2>1. Live /\ UNCHANGED <<capoff, caplen, cfg, pmsi, irte>>
    BY <1>5 DEF Live, msi
  <2>2. \A d \in Vcpu : pc'[d] \in Busy => pc'[d] = pc[d]
    BY <1>5
  <2>3. \A d \in Vcpu : pc'[d] \in Busy => Programmed(d)'
    BY <1>1, <2>1, <2>2, SameRegisters DEF MsiInv, Programmed
  <2> QED BY <1>1, <1>5, <2>1, <2>3, SameRegisters DEF MsiInv, MsiTypeOK, MsiFollowsGuest
<1>6. ASSUME NEW c \in Vcpu, Quiet(c) PROVE MsiInv'
  BY <1>1, <1>5, <1>6, QuietStep
<1>7. ASSUME NEW c \in Vcpu, RemapIrte(c) \/ RemapMessage(c) \/ RemapEnable(c) PROVE MsiInv'
  <2>1. /\ pc[c] \in Busy /\ lock = c /\ Programmed(c) /\ UNCHANGED <<capoff, caplen, cfg>>
        /\ \A d \in Vcpu : d # c => pc[d] \notin Busy
    BY <1>1, <1>7 DEF RemapIrte, RemapMessage, RemapEnable, LockInv, MsiInv, Busy
  <2>2. \A d \in Vcpu : d # c => pc'[d] \notin Busy
    BY <1>1, <1>7, <2>1 DEF RemapIrte, RemapMessage, RemapEnable, Hold, Release, LockInv
  <2>3. CASE RemapIrte(c) \/ RemapMessage(c)
    <3>1. lock' = c /\ c # None
      BY <1>1, <2>3 DEF RemapIrte, RemapMessage, Hold
    <3>2. MsiTypeOK' /\ pmsi'.enabled = pmsi.enabled
      BY <1>1, <2>3 DEF RemapIrte, RemapMessage, MsiInv, MsiTypeOK
    <3>3. Programmed(c)'
      <4>1. CASE RemapIrte(c)
        <5>1. pc'[c] = "msg" /\ irte' = ptirq_build_physical_msi(cfg)
          BY <1>1, <4>1 DEF RemapIrte, Hold, LockInv
        <5> QED BY <2>1, <3>2, <5>1, SameRegisters DEF Programmed
      <4>2. CASE RemapMessage(c)
        <5>1. pc[c] = "msg" /\ pc'[c] = "enable" /\ irte' = irte /\ pmsi'.handle = "irte"
          BY <1>1, <4>2 DEF RemapMessage, Hold, LockInv, MsiInv, MsiTypeOK
        <5> QED BY <2>1, <3>2, <5>1, SameRegisters DEF Programmed
      <4> QED BY <2>3, <4>1, <4>2
    <3>4. \A d \in Vcpu : pc'[d] \in Busy => Programmed(d)'
      BY <2>2, <3>3
    <3> QED BY <3>1, <3>2, <3>4 DEF MsiInv, MsiFollowsGuest
  <2>4. CASE RemapEnable(c)
    <3>1. /\ pc[c] = "enable" /\ pc'[c] = "guest" /\ irte' = irte
          /\ pmsi' = [pmsi EXCEPT !.enabled = TRUE]
      BY <1>1, <2>4 DEF RemapEnable, Release, LockInv
    <3>2. MsiTypeOK' /\ pmsi'.enabled = TRUE /\ pmsi'.handle = pmsi.handle
      BY <1>1, <3>1 DEF MsiInv, MsiTypeOK
    <3>3. \A d \in Vcpu : pc'[d] \notin Busy
      BY <2>2, <3>1 DEF Busy
    <3> QED BY <2>1, <3>1, <3>2, <3>3, SameRegisters DEF MsiInv, MsiFollowsGuest, Programmed
  <2> QED BY <1>7, <2>3, <2>4
<1>8. ASSUME NEW c \in Vcpu, vpci_write_pt_dev_cfg(c) PROVE MsiInv'
  <2>1. pc[c] = "access" /\ lock = None
    BY <1>8, WriteEnds
  <2>2. ASSUME Release(c), UNCHANGED msi PROVE MsiInv'
    <3>1. pc'[c] = "guest" /\ lock' = None /\ \A d \in Vcpu : d # c => pc'[d] = pc[d]
      BY <1>1, <2>2 DEF Release, LockInv
    <3> QED BY <1>5, <2>1, <2>2, <3>1 DEF Busy
  <2>3. \/ Release(c) /\ UNCHANGED msi
        \/ \E first, bytes, val : vmsi_write_cfg(c, first, bytes, val)
    BY <1>8 DEF vpci_write_pt_dev_cfg, WriteBar, WriteMsi, WriteOther
  <2> QED BY <2>1, <2>2, <2>3, MsiWriteStep
<1> QED BY <1>2, <1>3, <1>4, <1>6, <1>7, <1>8 DEF Next, Access, Quiet

LEMMA NextInv == VpciInv /\ [Next]_vars => VpciInv'
  BY LockStep, FreshStep, MsiStep, IntxStep, BarStep DEF VpciInv

-----------------------------------------------------------------------------
(***************************************************************************)
(* Theorems.                                                               *)
(***************************************************************************)
\* The inductive invariant of the configuration space.
THEOREM VpciInvariance == Spec => []VpciInv
  BY InitInv, NextInv, PTL DEF Spec

\* The device signals the interrupts that the guest programmed, while a vCPU
\* reprograms it too, for any number of vCPUs and any bytes written.
THEOREM MsiIsAsProgrammed == Spec => []MsiAsProgrammed
<1>1. VpciInv => MsiAsProgrammed
  <2> SUFFICES ASSUME VpciInv PROVE MsiAsProgrammed
    OBVIOUS
  <2>1. LockInv /\ MsiInv
    BY DEF VpciInv
  <2>2. ASSUME Live, pmsi.enabled PROVE pmsi.handle = "irte" /\ irte = ptirq_build_physical_msi(cfg)
    <3>1. lock = None
      BY <2>1, <2>2 DEF LockInv, MsiInv, Programmed
    <3> QED BY <2>1, <2>2, <3>1 DEF MsiInv
  <2>3. \A p \in 0 .. Cardinality(Vcpu) :
          p \in ptirq_build_physical_msi(cfg).dest <=> \E v \in Vcpu : v = Dest(cfg) /\ pcpuid_from_vcpu(v) = p
    BY DEF ptirq_build_physical_msi, calculate_logical_dest_mask, lapic_ldr, vcpumask2pcpumask, vlapic_calc_dest,
           vm_apicid2vcpu_id, vlapic_build_id
  <2>4. ptirq_build_physical_msi(cfg).vector = Vector(cfg)
    BY DEF ptirq_build_physical_msi
  <2>5. MsiConsistent
    BY <2>2, <2>3, <2>4 DEF MsiConsistent
  <2> QED BY <2>1, <2>5 DEF MsiAsProgrammed, MsiInv
<1> QED BY <1>1, VpciInvariance, PTL

\* No write of a guest, of any width at any offset, turns on the device's INTx.
THEOREM IntxIsDisabled == Spec => []IntxDisabled
<1>1. VpciInv => IntxDisabled
  BY DEF VpciInv
<1> QED BY <1>1, VpciInvariance, PTL

\* Every page that leads to a BAR is where the registers of the BAR say.
THEOREM BarsFollowRegisters == Spec => []BarsWhereRegistersSay
<1>1. VpciInv => BarsWhereRegistersSay
  <2> SUFFICES ASSUME VpciInv PROVE BarsWhereRegistersSay
    OBVIOUS
  <2>1. BarInv
    BY DEF VpciInv
  <2>2. BarBase = 4 /\ BarTop = 6 /\ size = 1 /\ Page = 0 .. 31
    BY DEF BarBase, BarTop, size, Page
  <2>3. \A p \in Page : ept[p] # None => p \in base[ept[p]] .. base[ept[p]] + size - 1
    BY <2>1, <2>2 DEF BarInv
  <2>4. ASSUME NEW i \in Bar, base[i] # 0
        PROVE  vbar_base_is_valid(base[i]) /\ base[i] = reg[i] + (IF type[i] = "MEM64" THEN 8 * reg[i + 1] ELSE 0)
    <3>1. vbar_base_is_valid(base[i])
      BY <2>1, <2>2, <2>4 DEF BarInv, vbar_base_is_valid
    <3>2. reg[2] \in 0 .. 7 /\ reg[2] + 0 = reg[2] /\ 0 + 1 = 1
      BY <2>1, BarTypes DEF BarInv
    <3>3. i = 0 \/ i = 2
      BY <2>1, <2>4, BarTypes DEF BarInv
    <3>4. i = 0 => base[i] = reg[i] + (IF type[i] = "MEM64" THEN 8 * reg[i + 1] ELSE 0)
      BY <2>1, <2>4, BarTypes DEF BarInv
    <3>5. i = 2 => base[i] = reg[i] + (IF type[i] = "MEM64" THEN 8 * reg[i + 1] ELSE 0)
      BY <2>1, <2>4, <3>2, BarTypes DEF BarInv
    <3> QED BY <3>1, <3>3, <3>4, <3>5
  <2> QED BY <2>3, <2>4 DEF BarsWhereRegistersSay
<1> QED BY <1>1, VpciInvariance, PTL
=============================================================================
