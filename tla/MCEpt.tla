-------------------------------- MODULE MCEpt --------------------------------
(***************************************************************************)
(* A small VM: 8 guest pages, in two PDPTEs of two PDEs of two PTEs.  Its  *)
(* RAM takes a 1-GByte page, 0..3.  Page 5 is reserved and below 1 MByte,  *)
(* and the last e820 entry is more than the memory of the VM.  A BAR of    *)
(* two pages, which takes a 2-MByte page, and one of one page move in and  *)
(* out of the window 6..7.                                                 *)
(***************************************************************************)
EXTENDS Ept

MCE820 == <<[base |-> 0, len |-> 4, ram |-> TRUE],
            [base |-> 5, len |-> 1, ram |-> FALSE],
            [base |-> 6, len |-> 7, ram |-> TRUE],
            [base |-> 0, len |-> 0, ram |-> FALSE],
            [base |-> 0, len |-> 0, ram |-> FALSE]>>

MCBars == <<[hpa |-> 64, size |-> 2, start |-> 6],
            [hpa |-> 71, size |-> 1, start |-> 0]>>
=============================================================================
