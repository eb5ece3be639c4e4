------------------------------- MODULE Mutex -------------------------------
(***************************************************************************)
(* What a spinlock_t promises its users, whatever its implementation: a    *)
(* processor asks for the lock, one of the askers at a time holds it, and  *)
(* only the holder gives it back.  The scheduler and the VM life-cycle     *)
(* modules rely on exactly this; TicketLock is shown to implement it.      *)
(***************************************************************************)
CONSTANTS Proc,      \* the logical processors
          NoOwner    \* the lock is free

VARIABLES owner,     \* the processor inside the critical section, or NoOwner
          asking     \* the processors spinning in spinlock_obtain

vars == <<owner, asking>>

Init == /\ owner = NoOwner
        /\ asking = {}

\* spinlock_obtain is called.
Ask(p) == /\ p # owner
          /\ p \notin asking
          /\ asking' = asking \cup {p}
          /\ UNCHANGED owner

\* spinlock_obtain returns.
Acquire(p) == /\ owner = NoOwner
              /\ p \in asking
              /\ owner' = p
              /\ asking' = asking \ {p}

\* spinlock_release.
Release(p) == /\ owner = p
              /\ owner' = NoOwner
              /\ UNCHANGED asking

Next == \E p \in Proc : Ask(p) \/ Acquire(p) \/ Release(p)

Spec == Init /\ [][Next]_vars
=============================================================================
