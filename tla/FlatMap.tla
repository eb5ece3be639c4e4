------------------------------- MODULE FlatMap -------------------------------
(***************************************************************************)
(* What the paging structures of a VM promise: a function from guest pages *)
(* to host pages and rights.  A contiguous range is mapped, to contiguous  *)
(* host pages and with the same rights, only when all of it is free, and a *)
(* contiguous range is unmapped; no other page is ever affected.           *)
(***************************************************************************)
EXTENDS Naturals

CONSTANTS Page, Free

VARIABLE map

Init == map = [v \in Page |-> Free]

\* The pages of c, all of them free in old, are mapped as one block in new.
Add(c, old, new) ==
    \E low, high \in c :
      /\ c = low .. high
      /\ \A v \in c : old[v] = Free /\ new[v] = [new[low] EXCEPT !.pa = @ + v - low]

\* The pages of c are unmapped.
Del(c, new) == \A v \in c : new[v] = Free

Next == LET old == map
            new == map'
            changed == {v \in Page : new[v] # old[v]}
        IN  DOMAIN new = Page /\ (Add(changed, old, new) \/ Del(changed, new))

Spec == Init /\ [][Next]_map
=============================================================================
