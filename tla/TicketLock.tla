----------------------------- MODULE TicketLock -----------------------------
(***************************************************************************)
(* The ticket spinlock of include/arch/x86/lib/spinlock.h.                 *)
(*                                                                         *)
(* spinlock_obtain takes a ticket with `lock xadd` on head and spins until *)
(* tail shows that ticket; spinlock_release increments tail.  Both         *)
(* counters are machine words that wrap: Modulus is 2^32 in the code and   *)
(* small in the models, so that the wrap-around is reached.                *)
(***************************************************************************)
EXTENDS Integers, FiniteSets

CONSTANTS Proc,       \* logical processors that share the lock
          Modulus,    \* 2^32: head and tail are uint32_t
          NoOwner

\* A wrapped ticket stays unambiguous only while there are no more contending
\* processors than ticket values (MAX_PCPU_NUM is 4, far below 2^32).
ASSUME LockAssumption == /\ Modulus \in Nat \ {0}
                         /\ IsFiniteSet(Proc)
                         /\ Cardinality(Proc) <= Modulus
                         /\ NoOwner \notin Proc

VARIABLES head,       \* next ticket to hand out
          tail,       \* ticket being served
          ticket,     \* %eax of each processor, kept while it spins or holds
          at          \* "out", "spin" (ticket taken), "in" (critical section)

lockVars == <<head, tail, ticket, at>>

Word == 0 .. (Modulus - 1)

\* lock xadd / lock inc on a uint32_t.
Inc(w) == (w + 1) % Modulus

\* spinlock_init: the lock is zeroed.
LockInit == /\ head = 0
            /\ tail = 0
            /\ ticket = [p \in Proc |-> 0]
            /\ at = [p \in Proc |-> "out"]

\* spinlock_obtain: movl $1,%eax; lock xaddl %eax,head.
TakeTicket(p) == /\ at[p] = "out"
                 /\ ticket' = [ticket EXCEPT ![p] = head]
                 /\ head' = Inc(head)
                 /\ at' = [at EXCEPT ![p] = "spin"]
                 /\ UNCHANGED tail

\* Mutation of Enter: the comparison with tail is dropped.
EnterUnchecked(p) == /\ at[p] = "spin"
                     /\ at' = [at EXCEPT ![p] = "in"]
                     /\ UNCHANGED <<head, tail, ticket>>

\* Mutation of Enter: the comparison is "tail has reached my ticket".
EnterOrdered(p) == /\ at[p] = "spin"
                   /\ ticket[p] <= tail
                   /\ at' = [at EXCEPT ![p] = "in"]
                   /\ UNCHANGED <<head, tail, ticket>>

\* spinlock_obtain: cmpl %eax,tail succeeds and the processor falls through.
\* While the comparison fails it executes pause and compares again.
Enter(p) == /\ at[p] = "spin"
            /\ ticket[p] = tail
            /\ at' = [at EXCEPT ![p] = "in"]
            /\ UNCHANGED <<head, tail, ticket>>

\* Mutation of Leave: the wrong one of the two counters is incremented.
LeaveWrongCounter(p) == /\ at[p] = "in"
                        /\ head' = Inc(head)
                        /\ at' = [at EXCEPT ![p] = "out"]
                        /\ UNCHANGED <<tail, ticket>>

\* spinlock_release: lock incl tail.
Leave(p) == /\ at[p] = "in"
            /\ tail' = Inc(tail)
            /\ at' = [at EXCEPT ![p] = "out"]
            /\ UNCHANGED <<head, ticket>>

LockNext == \E p \in Proc : TakeTicket(p) \/ Enter(p) \/ Leave(p)

LockSpec == LockInit /\ [][LockNext]_lockVars

(***************************************************************************)
(* A spinning processor keeps comparing and a holder eventually releases   *)
(* (every critical section of the code is finite); asking for the lock is  *)
(* the callers' choice and is not fair.                                    *)
(***************************************************************************)
LockFairSpec == LockSpec /\ \A p \in Proc : WF_lockVars(Enter(p)) /\ WF_lockVars(Leave(p))

-----------------------------------------------------------------------------
LockTypeOK == /\ head \in Word
              /\ tail \in Word
              /\ ticket \in [Proc -> Word]
              /\ at \in [Proc -> {"out", "spin", "in"}]

\* Processors holding a live ticket.
Active == {p \in Proc : at[p] # "out"}

\* How many releases away a ticket is from being served, across the wrap.
Ahead(w) == IF w >= tail THEN w - tail ELSE w - tail + Modulus

\* No two processors are inside the section spinlock_obtain and
\* spinlock_release bracket, even after head and tail have wrapped.
MutualExclusion == \A p, q \in Proc : at[p] = "in" /\ at[q] = "in" => p = q

\* Tickets are served in the order spinlock_obtain took them: a processor
\* never enters while a live ticket is ahead of its own.
Fifo == [][\A p \in Proc : at[p] = "spin" /\ at'[p] = "in"
             => \A q \in Active \ {p} : Ahead(ticket[p]) < Ahead(ticket[q])]_lockVars

\* Every processor that called spinlock_obtain returns from it.
ObtainReturns == \A p \in Proc : at[p] = "spin" ~> at[p] = "in"

-----------------------------------------------------------------------------
\* The holder, as the abstract lock sees it.
Holder == IF \E p \in Proc : at[p] = "in"
          THEN CHOOSE p \in Proc : at[p] = "in"
          ELSE NoOwner

\* The ticket lock implements the abstract lock that its users assume.
Abstract == INSTANCE Mutex WITH owner <- Holder,
                                asking <- {p \in Proc : at[p] = "spin"}

\* spinlock_obtain and spinlock_release are an implementation of Mutex.
ImplementsMutex == Abstract!Spec
=============================================================================
