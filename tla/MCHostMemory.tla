---------------------------- MODULE MCHostMemory ----------------------------
(* Half pages are the unit of the memory map.  Two pages are below 1 MByte,   *)
(* 16 below 4 GBytes: the image from page 4 or 5, the kernels at pages 10 and *)
(* 11, the devices at 12 to 15.  The guests' memory is above 4 GBytes.        *)
EXTENDS HostMemory

Entry(base, to, type) == [base |-> base, length |-> to - base, type |-> type]

\* Memory maps with different ends of the RAM below 1 MByte and of all RAM, with an
\* entry more than there is room for, and in another order.
Mmaps ==
    {<<Entry(a, b, "RAM"), Entry(4, 25, "RAM"), Entry(25, 32, "RESERVED"), Entry(32, t, "RAM")>>
       : a \in {0, 1}, b \in {2, 3, 4}, t \in {48, 63, 66}}
    \cup {<<Entry(3, 4, "RESERVED"), Entry(0, 3, "RAM"), Entry(32, 48, "RAM"), Entry(4, 24, "RAM")>>,
          <<Entry(0, 4, "RAM"), Entry(4, 24, "RAM"), Entry(24, 25, "RESERVED"), Entry(25, 26, "RESERVED"),
            Entry(32, 48, "RAM")>>,
          <<Entry(0, 4, "RAM"), Entry(32, 48, "RAM"), Entry(4, 32, "RAM")>>}

MCBoots ==
    {[magic |-> TRUE, has_mmap |-> TRUE, mmap |-> m,
      addr |-> [mmap |-> x[1], info |-> x[2], mods |-> x[3]],
      len |-> [mmap |-> 1, info |-> 1, mods |-> 1],
      modules |-> {[tag |-> "zephyr", size |-> 2, page |-> 10], [tag |-> "linux", size |-> 3, page |-> 11]}]
       : m \in Mmaps, x \in {<<0, 1, 20>>, <<20, 21, 3>>, <<20, 3, 21>>, <<22, 20, 21>>}}
    \cup {[magic |-> b, has_mmap |-> FALSE, mmap |-> <<>>] : b \in BOOLEAN}

MCUart == [enabled |-> TRUE, port_mapped |-> FALSE, base |-> 15]

\* Guests of ten units, of which two are RAM below 1 MByte and three reserved.
MCConfigs ==
    [v \in {0, 1} |->
       IF v = 0
       THEN {[type |-> "ZEPHYR", tag |-> "zephyr", safety |-> TRUE, start |-> 16, size |-> 10, at_1m |-> 5,
              load_addr |-> 5, entry |-> 5, bootargs |-> 0]}
       ELSE {[type |-> "BZIMAGE", tag |-> "linux", safety |-> FALSE, start |-> 20, size |-> 10, at_1m |-> 5,
              pref_addr |-> p, setup_size |-> 1, bootargs |-> b] : p \in {5, 6}, b \in {0, 1}}]

\* The instance is one that the theorems about HostMemory are about.
ASSUME MCConfiguration == HostConfiguration
=============================================================================
