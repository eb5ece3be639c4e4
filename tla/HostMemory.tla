------------------------------ MODULE HostMemory ------------------------------
(***************************************************************************)
(* The memory of the host from boot until the guests start: the memory     *)
(* map, init_paging, the device regions made accessible, the trampoline of *)
(* the other pCPUs, SMEP and SMAP, and the loading of the guests           *)
(* (arch/x86/cpu.c, init.c, mmu.c, ioapic.c, guest/ve820.c, guest/vm.c,    *)
(* boot/guest/vboot_info.c, configs/vacpi.c, common/vm_load.c and          *)
(* guest/guest_memory.c).                                                  *)
(*                                                                         *)
(* pCPU c creates VM c.  Boot has how the pCPUs find each other; here the  *)
(* other pCPUs are there once start_pcpus has returned.  Guest memory is   *)
(* counted in units of 4 KBytes, or less where less is used of one;        *)
(* HostUnit of them share a page of the host's model.                      *)
(***************************************************************************)
EXTENDS HvPaging

CONSTANTS Boots,       \* what the boot loader may leave: memory map and tables
          Images,      \* possible image bases
          Uart,        \* uart_enabled, serial_port_mapped, uart_base_address
          Ioapics,     \* the pages of the I/O APICs
          MaxRte,      \* the number of the last pin, in the version register
          Drhds,       \* the pages of the VT-d units' registers
          Configs,     \* for each VM, its possible configurations
          ACPI_BASE,   \* where the guest's ACPI tables go
          HostUnit,
          MaxStarts    \* bound: how often VM 0 is started

Vm == Pcpu

VARIABLES mbi,         \* multiboot information
          unmasked,    \* pins of the I/O APICs that are not masked
          tramp,       \* trampoline_start16_paddr, and where its code expects to be
          cpu, host,   \* what each pCPU has set up, and what its VMCS has as host state
          access,      \* the last access of each pCPU to pages not its own, and EFLAGS.AC
          config, sw,  \* the VM's configuration, vm->sw
          gmem,        \* what is where in the VM's memory
          cksum,       \* checksum field of the ACPI tables is set, or still 0
          regs,        \* RIP, RSI and the GDT base of the VM's first vCPU
          starts       \* how often VM 0 was started

hostVars == <<mbi, unmasked, tramp, cpu, host>>
guestVars == <<config, sw, gmem, cksum, regs, starts>>
allVars == <<pagingVars, hostVars, guestVars, access>>

NoAccess == [pages |-> {}, ac |-> FALSE]

HostInit ==
    /\ ppt = EmptyTable /\ stale = {} /\ hv_e820 = <<>>
    /\ stage = [c \in Pcpu |-> IF c = BOOT_CPU_ID THEN "e820" ELSE "offline"]
    /\ \E hv \in Images : \E text \in hv + 1 .. hv + HvRam :
         /\ \A g \in Guards : PdeUp(text) <= g /\ g + Fan <= hv + HvRam
         /\ image = [hv_hpa |-> hv, text_end |-> text]
    /\ mbi \in Boots
    /\ unmasked = Ioapics \X (0 .. MaxRte) /\ tramp = <<INVALID, INVALID>>
    /\ cpu = [c \in Pcpu |-> {}] /\ host = [c \in Pcpu |-> {}]
    /\ access = [c \in Pcpu |-> NoAccess]
    /\ config \in {f \in [Vm -> UNION {Configs[v] : v \in Vm}] : \A v \in Vm : f[v] \in Configs[v]}
    /\ sw = [v \in Vm |-> [load |-> 0, size |-> 0, bootargs |-> 0]]
    /\ gmem = [v \in Vm |-> [g \in 0 .. config[v].size - 1 |-> <<"firmware", 0>>]]
    /\ cksum = [v \in Vm |-> FALSE]
    /\ regs = [v \in Vm |-> [rip |-> 0, rsi |-> 0, gdt |-> 0]] /\ starts = 0

-----------------------------------------------------------------------------
(* What a pCPU sets up for itself, on the set of what it has.               *)

enable_paging(s) == s \cup {"EFER.NXE", "CR0.WP", "CR3"}
early_init_lapic(s) == s \cup {"x2APIC"}
set_fs_base(s) == s \cup {"FS"}                  \* the stack canary
load_gdtr_and_tr(s) == s \cup {"GDTR", "TR"}     \* with the stacks of #MC, #DF and #SS
set_idt(s) == s \cup {"IDTR"}

\* Its registers are MSRs only in x2APIC mode; all local interrupts are masked.
init_lapic(s) == s \cup (IF "x2APIC" \in s THEN {"LVT"} ELSE {"#GP"})
vmx_on(s) == s \cup {"CR0.NE", "CR4.VMXE"}

\* init_pcpu_post up to the barrier, and all an AP does until there: nobody else
\* looks at it.
BeginPost(s) == load_gdtr_and_tr(set_fs_base(s))
init_secondary_pcpu(s) == init_lapic(set_idt(BeginPost(early_init_lapic(enable_paging(s)))))

\* init_host_state: the VMCS gets what the pCPU has when the vCPU first runs on it.
\* A VM exit loads it, whatever the pCPU was given later.
HostTables(s) == s \cap {"GDTR", "TR", "IDTR"}
HostRegisters(s) == s \cap {"EFER.NXE", "CR0.WP", "CR0.NE", "CR3", "CR4.VMXE", "CR4.SMEP", "CR4.SMAP", "FS"}
init_host_state(s) == HostTables(s) \cup HostRegisters(s)

-----------------------------------------------------------------------------
(* init_pcpu_pre and init_pcpu_post of the BSP.                             *)

InitE820 ==
    /\ Step(BOOT_CPU_ID, "e820", IF mbi.magic /\ mbi.has_mmap THEN "add" ELSE "panic")
    /\ hv_e820' = IF mbi.magic /\ mbi.has_mmap THEN init_e820(mbi.mmap) ELSE hv_e820
    /\ UNCHANGED <<ppt, image, stale, hostVars, guestVars, access>>

Paging == init_paging /\ UNCHANGED <<hostVars, guestVars, access>>

SetUp(c, s) == cpu' = [cpu EXCEPT ![c] = s] /\ UNCHANGED <<mbi, unmasked, tramp, host>>

EnablePaging ==
    /\ Step(BOOT_CPU_ID, "enable", "uart")
    /\ SetUp(BOOT_CPU_ID, enable_paging(cpu[BOOT_CPU_ID]))
    /\ UNCHANGED <<ppt, image, hv_e820, stale, guestVars, access>>

\* Mutant: the UART's registers stay user pages.
uart_left_alone == UNCHANGED <<ppt, stale>>

\* uart16550_init(false): a UART in memory has its registers made accessible.
uart16550_init ==
    IF Uart.enabled /\ ~Uart.port_mapped THEN RegionUpdate({Uart.base}, Fan)
                                         ELSE UNCHANGED <<ppt, stale>>

\* The rest of init_pcpu_pre, and init_pcpu_post up to init_interrupt.
InitUart == /\ Step(BOOT_CPU_ID, "uart", "interrupt")
            /\ uart16550_init
            /\ SetUp(BOOT_CPU_ID, BeginPost(early_init_lapic(cpu[BOOT_CPU_ID])))
            /\ UNCHANGED <<image, hv_e820, guestVars, access>>

\* ioapic_setup_irqs: every pin is masked.  ioapic_set_routing writes the half of
\* the entry that has the mask first.
ioapic_nr_pins == MaxRte + 1
ioapic_set_routing(pins) == unmasked' = unmasked \ (Ioapics \X pins)
ioapic_setup_irqs ==
    RegionUpdate(Ioapics, 1) /\ ioapic_set_routing(0 .. ioapic_nr_pins - 1)

init_interrupt ==
    /\ Step(BOOT_CPU_ID, "interrupt", "iommu")
    /\ cpu' = [cpu EXCEPT ![BOOT_CPU_ID] = init_lapic(set_idt(@))]
    /\ ioapic_setup_irqs
    /\ UNCHANGED <<image, hv_e820, mbi, tramp, host, guestVars, access>>

register_hrhd_units ==
    /\ Step(BOOT_CPU_ID, "iommu", "start_pcpus")
    /\ RegionUpdate(Drhds, 1)
    /\ UNCHANGED <<image, hv_e820, hostVars, guestVars, access>>

\* start_pcpus: prepare_trampoline copies the code and update_trampoline_code_refs
\* has it refer to its new place.  The other pCPUs come up to the barrier.
prepare_trampoline ==
    LET dest == get_ap_trampoline_buf(hv_e820, mbi)
        ok == dest # INVALID
    IN  /\ stage[BOOT_CPU_ID] = "start_pcpus"
        /\ stage' = IF ok THEN [c \in Pcpu |-> "smep"] ELSE [stage EXCEPT ![BOOT_CPU_ID] = "panic"]
        /\ tramp' = IF ok THEN <<dest, RealMode(dest)>> ELSE tramp
        /\ cpu' = [c \in Pcpu |-> IF ok /\ c # BOOT_CPU_ID THEN init_secondary_pcpu(cpu[c]) ELSE cpu[c]]
        /\ UNCHANGED <<ppt, image, hv_e820, stale, mbi, unmasked, host, guestVars, access>>

\* enable_smep: the change of CR4.SMEP invalidates the TLB of the pCPU.  Only the
\* BSP was there when rights changed.
enable_smep(c) == /\ SetUp(c, cpu[c] \cup {"CR4.SMEP"})
                  /\ stale' = IF c = BOOT_CPU_ID THEN {} ELSE stale
EnableSmep(c) == Step(c, "smep", "smap") /\ enable_smep(c) /\ UNCHANGED <<ppt, image, hv_e820, guestVars, access>>

enable_smap(c) == SetUp(c, cpu[c] \cup {"CR4.SMAP"})
EnableSmap(c) == /\ Step(c, "smap", "vmx_on") /\ enable_smap(c)
                 /\ UNCHANGED <<ppt, image, hv_e820, stale, guestVars, access>>

\* init_guest_mode: vmx_on, then launch_vms.
InitGuestMode(c) == /\ Step(c, "vmx_on", "create") /\ SetUp(c, vmx_on(cpu[c]))
                    /\ UNCHANGED <<ppt, image, hv_e820, stale, guestVars, access>>

-----------------------------------------------------------------------------
(* prepare_vm.                                                              *)

Unchanged == UNCHANGED <<ppt, image, hv_e820, stale, hostVars>>

\* create_prelaunched_vm_e820: RAM, a reserved part below 1 MByte, and RAM up to
\* the configured size.
create_prelaunched_vm_e820(v) ==
    <<[base |-> 0, length |-> ACPI_BASE, type |-> "RAM"],
      [base |-> ACPI_BASE, length |-> config[v].at_1m - ACPI_BASE, type |-> "RESERVED"],
      [base |-> config[v].at_1m, length |-> config[v].size - config[v].at_1m, type |-> "RAM"]>>

\* prepare_prelaunched_vm_memmap gives each entry the next part of the VM's memory.
GuestMapped(v) == {g \in 0 .. config[v].size - 1 :
                     \E i \in 1 .. 3 : InEntry(create_prelaunched_vm_e820(v)[i], g)}
HostPage(v, g) == config[v].start + g \div HostUnit

\* An access to the host's pages between stac and clac, or without.
Access(c, pages, ac) == access' = [access EXCEPT ![c] = [pages |-> pages, ac |-> ac]]

\* copy_gpa: piece by piece, each under stac, until one is not mapped.
Copied(v, from, size) ==
    {g \in from .. from + size - 1 : \A h \in from .. g : h \in GuestMapped(v)}
copy_gpa(v, what, from, size) ==
    [g \in DOMAIN gmem[v] |-> IF g \in Copied(v, from, size) THEN <<what, 0>> ELSE gmem[v][g]]
copy_to_gpa(v, what, from, size) ==
    /\ gmem' = [gmem EXCEPT ![v] = copy_gpa(v, what, from, size)]
    /\ Access(v, {HostPage(v, g) : g \in Copied(v, from, size)}, TRUE)

\* get_kernel_load_addr: for a kernel in the bzImage format it is in its header.
get_kernel_load_addr(v) ==
    CASE config[v].type = "BZIMAGE" -> config[v].pref_addr
      [] config[v].type = "ZEPHYR" -> config[v].load_addr

\* init_vm_boot_info: the module whose tag is the VM's, and the boot arguments,
\* which go 8 KBytes below the kernel.  The multiboot tables and the header are
\* read under stac.
TagModule(v) == CHOOSE m \in mbi.modules : m.tag = config[v].tag
init_vm_kernel_info(s, v) == [s EXCEPT !.load = get_kernel_load_addr(v), !.size = TagModule(v).size]
init_vm_bootargs_info(s, v) == [s EXCEPT !.bootargs = IF config[v].bootargs > 0 THEN s.load - 2 ELSE 0]
init_vm_boot_info(v) ==
    /\ sw' = [sw EXCEPT ![v] = init_vm_bootargs_info(init_vm_kernel_info(@, v), v)]
    /\ Access(v, {PageOf(mbi.addr["info"]), PageOf(mbi.addr["mods"]), TagModule(v).page}, TRUE)

CreateVm(v) == /\ Step(v, "create", "vacpi")
               /\ init_vm_boot_info(v)
               /\ Unchanged /\ UNCHANGED <<config, gmem, cksum, regs, starts>>

\* calculate_checksum8 sums up the whole table, the checksum field of the last time
\* included: the table then has a valid checksum, and the field is 0 again.
calculate_checksum8(old) == ~old

\* build_vacpi, not for the safety VM.
build_vacpi(v) ==
    /\ Step(v, "vacpi", "gdt")
    /\ IF config[v].safety THEN UNCHANGED <<gmem, cksum, access>>
       ELSE LET sum == calculate_checksum8(cksum[v])
            IN  /\ copy_to_gpa(v, IF sum THEN "acpi" ELSE "acpi_bad", ACPI_BASE, 1)
                /\ cksum' = [cksum EXCEPT ![v] = sum]
    /\ Unchanged /\ UNCHANGED <<config, sw, regs, starts>>

\* Mutant: the GDT is put behind the boot arguments.
gdt_behind_bootargs(v) == sw[v].bootargs + config[v].bootargs

\* get_guest_gdt_base_gpa: behind the kernel and the boot arguments.
get_guest_gdt_base_gpa(v) ==
    Max({sw[v].load + sw[v].size, sw[v].bootargs + config[v].bootargs})

\* direct_boot_sw_loader: the GDT (init_vcpu_protect_mode_regs), the kernel, the
\* boot arguments.
LoadGdt(v) == /\ Step(v, "gdt", "kernel")
              /\ copy_to_gpa(v, "gdt", get_guest_gdt_base_gpa(v), 1)
              /\ regs' = [regs EXCEPT ![v].gdt = get_guest_gdt_base_gpa(v)]
              /\ Unchanged /\ UNCHANGED <<config, sw, cksum, starts>>
LoadKernel(v) == /\ Step(v, "kernel", "bootargs")
                 /\ copy_to_gpa(v, TagModule(v).tag, sw[v].load, sw[v].size)
                 /\ Unchanged /\ UNCHANGED <<config, sw, cksum, regs, starts>>
LoadBootargs(v) == /\ Step(v, "bootargs", "prepare")
                   /\ IF config[v].bootargs > 0 THEN copy_to_gpa(v, "bootargs", sw[v].bootargs, 1)
                                                ELSE UNCHANGED <<gmem, access>>
                   /\ Unchanged /\ UNCHANGED <<config, sw, cksum, regs, starts>>

\* create_zero_page: one page above the boot arguments, which it refers to, with a
\* copy of the VM's memory map.  It is written under stac, through gpa2hva.
ZeroPageAt(v) == sw[v].bootargs + 1
create_zeropage_e820(v) ==
    LET e820 == create_prelaunched_vm_e820(v)
    IN  IF Len(e820) \in 1 .. E820_MAX_ENTRIES THEN e820 ELSE <<>>
create_zero_page(v) == <<"zero_page", sw[v].bootargs, create_zeropage_e820(v)>>

\* prepare_loading_bzimage or prepare_loading_rawimage, and RIP.
prepare_loading_bzimage(v) ==
    /\ gmem' = [gmem EXCEPT ![v][ZeroPageAt(v)] = create_zero_page(v)]
    /\ Access(v, {HostPage(v, ZeroPageAt(v)), HostPage(v, sw[v].load), TagModule(v).page}, TRUE)
    /\ regs' = [regs EXCEPT ![v].rsi = ZeroPageAt(v),
                            ![v].rip = sw[v].load + config[v].setup_size]
prepare_loading_rawimage(v) ==
    regs' = [regs EXCEPT ![v].rip = config[v].entry] /\ UNCHANGED <<gmem, access>>
PrepareLoading(v) ==
    /\ Step(v, "prepare", "started")
    /\ IF config[v].type = "BZIMAGE" THEN prepare_loading_bzimage(v) ELSE prepare_loading_rawimage(v)
    /\ starts' = IF v = 0 THEN starts + 1 ELSE starts
    /\ Unchanged /\ UNCHANGED <<config, sw, cksum>>

\* init_vmcs when the vCPU first runs, and the VM entry: the guest's state is loaded.
\* VM 0 runs once only: when it is shut down its pCPUs go offline for good.
InitVmcs(v) ==
    /\ Step(v, "started", "guest") /\ (v = 0 => starts = 1)
    /\ host' = [host EXCEPT ![v] = init_host_state(cpu[v])]
    /\ cpu' = [cpu EXCEPT ![v] = @ \cap {"x2APIC"}]
    /\ UNCHANGED <<ppt, image, hv_e820, stale, mbi, unmasked, tramp, guestVars, access>>
LeaveGuest(v) == /\ Step(v, "guest", "exit") /\ SetUp(v, cpu[v] \cup host[v])
                 /\ UNCHANGED <<ppt, image, hv_e820, stale, guestVars, access>>

\* shell_start_test, after VM 0 has run and left its memory in any state.
StartTest == /\ starts < MaxStarts /\ Step(0, "exit", "create")
             /\ gmem' = [gmem EXCEPT ![0] = [g \in DOMAIN @ |-> <<"guest", 0>>]]
             /\ Unchanged /\ UNCHANGED <<config, sw, cksum, regs, starts, access>>

PrepareVm(v) == \/ CreateVm(v) \/ build_vacpi(v) \/ LoadGdt(v) \/ LoadKernel(v) \/ LoadBootargs(v)
                \/ PrepareLoading(v) \/ InitVmcs(v) \/ LeaveGuest(v)

HostNext == \/ InitE820 \/ Paging \/ EnablePaging \/ InitUart \/ init_interrupt \/ register_hrhd_units
            \/ prepare_trampoline \/ StartTest
            \/ \E c \in Pcpu : EnableSmep(c) \/ EnableSmap(c) \/ InitGuestMode(c) \/ PrepareVm(c)

HostSpec == HostInit /\ [][HostNext]_allVars

-----------------------------------------------------------------------------
(* What the platform, the boot loader and the configuration have to provide.  *)

\* The pages of registers in memory that are used without stac.
Devices == Drhds \cup (IF Uart.enabled /\ ~Uart.port_mapped THEN {Uart.base} ELSE {})

\* The kernel of a VM with the GDT behind it, and the boot arguments with the zero
\* page in front of it, fit into the VM's memory above its ACPI tables.
Loadable(f, m) ==
    LET load == IF f.type = "BZIMAGE" THEN f.pref_addr ELSE f.load_addr
    IN  /\ f.type \in {"BZIMAGE", "ZEPHYR"} /\ load \in Nat /\ m.size \in Nat
        /\ ACPI_BASE + 2 < load /\ load + m.size < f.size
        /\ f.bootargs \in {0, 1}
        /\ IF f.type = "BZIMAGE" THEN f.setup_size \in 0 .. m.size - 1
                                 ELSE f.entry \in load .. load + m.size - 1

\* The pages of a VM's memory, and the pages that no image of the hypervisor is in.
GuestPages(f) == {f.start + g \div HostUnit : g \in 0 .. f.size - 1}
Outside == {p \in Page : \A hv \in Images : p \notin hv .. hv + HvRam - 1}

\* A boot loader that passes a memory map says where its tables and modules are, all
\* below 4 GBytes; no RAM extends across 1 MByte; and a platform that init_paging
\* does not refuse has the memory that the VMs are configured to have.
BootProvides(b) ==
    LET top == PdeUp(PageUp(obtain_mem_range_info(init_e820(b.mmap))))
    IN  /\ b.mmap \in Seq([base : Nat, length : Nat, type : STRING])
        /\ \A i \in DOMAIN b.mmap :
             b.mmap[i].type = "RAM" /\ b.mmap[i].base < MEM_1M => End(b.mmap[i]) <= MEM_1M
        /\ b.addr \in [{"mmap", "info", "mods"} -> Nat] /\ b.len \in [{"mmap", "info", "mods"} -> Nat]
        /\ \A t \in {"info", "mods"} : PageOf(b.addr[t]) < FourG /\ PageOf(b.addr[t]) \in Outside
        /\ \A m \in b.modules : m.page < FourG /\ m.page \in Outside
        /\ \A v \in Vm : \A f \in Configs[v] :
             /\ \E m \in b.modules : m.tag = f.tag
             /\ \A m \in b.modules : m.tag = f.tag => Loadable(f, m)
             /\ top >= FourG => \A p \in GuestPages(f) : p < top

\* The hypervisor's tables have large pages (ppt_mem_ops); the image, the devices and
\* their registers are below 4 GBytes and apart from each other and from the VMs'
\* memory; VM 0, which alone can be started again, is the safety VM.
HostConfiguration ==
    /\ LargePages /\ ~TweakExe
    /\ 0 \in Vm /\ \A f \in Configs[0] : f.safety
    /\ HostUnit \in Nat \ {0} /\ MaxRte \in Nat /\ ACPI_BASE \in Nat /\ ACPI_BASE >= 2
    /\ \A hv \in Images : hv \in Nat /\ hv + HvRam <= FourG
    /\ \A p \in Devices : p < FourG /\ p \in Outside
    /\ Ioapics \subseteq Page
    /\ \A v \in Vm : \A f \in Configs[v] :
         /\ f.start \in Nat /\ f.size \in Nat /\ GuestPages(f) \subseteq Outside
         /\ f.at_1m \in ACPI_BASE + 1 .. f.size /\ f.safety \in BOOLEAN
    /\ \A b \in Boots : b.magic /\ b.has_mmap => BootProvides(b)

-----------------------------------------------------------------------------
\* The code of the other pCPUs is copied to whole pages of RAM below 1 MByte, where
\* a startup IPI and real-mode addresses find it, and nothing that the boot loader
\* left and that is still read lies there.
TrampolineOwn ==
    LET at == tramp[1]
    IN  at # INVALID =>
          /\ at % PAGE_SIZE = 0 /\ tramp[2] = at
          /\ \A x \in at .. at + LowRamSize - 1 :
               /\ \E i \in DOMAIN mbi.mmap : InEntry(mbi.mmap[i], x) /\ mbi.mmap[i].type = "RAM"
               /\ \A t \in DOMAIN mbi.addr : x \notin mbi.addr[t] .. mbi.addr[t] + mbi.len[t] - 1

\* Once a pCPU has SMAP enabled, all it touches is mapped, and what is a user page
\* is touched between stac and clac only: the multiboot tables, the guests' memory,
\* and the registers of the UART and of VT-d, which are used without.  No translation
\* from before the rights changed is left in its TLB.
Allowed(c, p, ac) ==
    /\ Mapped(ppt, p)
    /\ ac \/ ("USER" \notin Translate(ppt, p).prot /\ ~(c = BOOT_CPU_ID /\ p \in stale))
SmapClean ==
    \A c \in {d \in Pcpu : "CR4.SMAP" \in cpu[d]} :
                    /\ \A p \in Devices : Allowed(c, p, FALSE)
                    /\ \A p \in access[c].pages : Allowed(c, p, access[c].ac)

\* A VM exit leaves the pCPU with all it had set up for itself: paging with its
\* protections, SMEP and SMAP, the tables and stacks for exceptions, and its stack
\* canary; and no register of the local APIC was written outside of x2APIC mode.
HostStateKept ==
    \A c \in Pcpu : /\ "#GP" \notin cpu[c]
                   /\ stage[c] = "exit" =>
                        {"x2APIC"} \cup enable_paging(vmx_on(BeginPost({"IDTR", "CR4.SMEP", "CR4.SMAP"})))
                          \subseteq cpu[c]

\* Both together: the hypervisor's protections against its own stray accesses are in
\* force, and nothing it does runs into them.
HostProtected == SmapClean /\ HostStateKept

\* A VM that is started finds what the loader put together, none of it overwritten
\* by another part: the kernel with the entry point in it, the GDT, the boot
\* arguments with the zero page that refers to them, and valid ACPI tables; and no
\* pin of an I/O APIC interrupts it.
GuestLoaded ==
    \A v \in Vm : stage[v] = "started" =>
      LET kernel == sw[v].load .. sw[v].load + TagModule(v).size - 1
          at(g) == gmem[v][g][1]
      IN  /\ \A g \in kernel : at(g) = TagModule(v).tag
          /\ regs[v].rip \in kernel /\ at(regs[v].gdt) = "gdt"
          /\ config[v].bootargs > 0 => at(sw[v].bootargs) = "bootargs"
          /\ config[v].type = "BZIMAGE" => gmem[v][regs[v].rsi] = create_zero_page(v)
          /\ ~config[v].safety => at(ACPI_BASE) = "acpi"
          /\ unmasked = {}
=============================================================================
