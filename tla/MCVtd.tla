-------------------------------- MODULE MCVtd --------------------------------
(***************************************************************************)
(* The two VMs of the logical-partition scenario with a device each, on    *)
(* one bus and at the same virtual address (libs/scenarios/.../pci_dev.c). *)
(***************************************************************************)
EXTENDS Vtd

CONSTANTS usb, eth

MCDev == {usb, eth}
MCOwner == [d \in MCDev |-> IF d = usb THEN 0 ELSE 1]
MCBus == [d \in MCDev |-> 0]
MCVbdf == [d \in MCDev |-> 8]
=============================================================================
