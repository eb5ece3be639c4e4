----------------------------- MODULE VirqProofs -----------------------------
(***************************************************************************)
(* Proofs about Virq, for every set of guest and handler vectors.          *)
(*                                                                         *)
(* The injected event follows the double fault table because the queue of  *)
(* length one and the triple fault request together hold, at every point   *)
(* between an exit and the next injection, what the table gives for the    *)
(* exceptions raised since the exit: Resolved.                             *)
(***************************************************************************)
EXTENDS Virq, SequenceTheorems, TLAPS

\* The table's entry for the two exceptions raised since the last VM entry.
Outcome == DoubleFaultTable[Row(raised[1])][get_excep_class(raised[2])]

\* At most one exception was raised since the last VM entry.
AtMostOne == raised = <<>> \/ Len(raised) = 1

\* The queue and the triple fault request hold what the table gives.
Resolved ==
  /\ raised = <<>> => exception = VECTOR_INVALID /\ TRP_FAULT \notin pending_req
  /\ Len(raised) = 1 => exception = raised[1] /\ TRP_FAULT \notin pending_req
  /\ Len(raised) = 2 =>
       /\ Outcome = "serial" => exception = raised[2] /\ TRP_FAULT \notin pending_req
       /\ Outcome = "double" => /\ exception = IDT_DF /\ error = 0
                                /\ TRP_FAULT \notin pending_req
       /\ Outcome = "shutdown" => TRP_FAULT \in pending_req

\* Where the thread is, and what it can have met on the way there.
QueueInv ==
  /\ pc \in {"nmi", "guest"} => raised = <<>>
  /\ pc = "handler" => AtMostOne
  /\ pc \in {"trp", "flush", "excp", "nmi", "guest", "handler"} => Resolved
  /\ pc \in {"flush", "excp", "nmi"} => TRP_FAULT \notin pending_req
  /\ pc \in {"enter", "guest"} => exception = VECTOR_INVALID
  /\ pc \in {"trp", "flush", "excp", "nmi", "handler"} => entry = None
  /\ idt_vec.type # "HW_EXP"

\* The inductive invariant: the invariants of Virq, made inductive by QueueInv.
VirqInv ==
  /\ TypeOK
  /\ PendingHasVector
  /\ EntryEventValid
  /\ FaultRetainsRip
  /\ NoEntryAfterTripleFault
  /\ FollowsDoubleFaultTable
  /\ QueueInv

-----------------------------------------------------------------------------
\* VECTOR_INVALID is no vector.
LEMMA VectorIsValid == ASSUME NEW x \in Vectors PROVE x # VECTOR_INVALID
BY DEF Vectors, VECTOR_INVALID

\* The initial state, in which nothing is pending and nothing was raised.
LEMMA VirqInit == Init => VirqInv
<1> SUFFICES ASSUME Init PROVE VirqInv
  OBVIOUS
<1> USE DEF Init, None
<1>1. TypeOK
  <2>1. raised \in Seq(Vectors) /\ Len(raised) <= 2
    OBVIOUS
  <2> QED
    BY <2>1 DEF TypeOK, Event
<1>2. PendingHasVector /\ EntryEventValid /\ FaultRetainsRip
  BY DEF PendingHasVector, EntryEventValid, FaultRetainsRip
<1>3. NoEntryAfterTripleFault /\ FollowsDoubleFaultTable
  BY DEF NoEntryAfterTripleFault, FollowsDoubleFaultTable
<1>4. QueueInv
  BY DEF QueueInv, Resolved, AtMostOne
<1> QED
  BY <1>1, <1>2, <1>3, <1>4 DEF VirqInv

\* vcpu_queue_exception keeps the queue in step with the table, whatever the
\* vector, provided at most one exception was raised before on this exit.
LEMMA QueueStep ==
  ASSUME TypeOK, PendingHasVector, Resolved, AtMostOne,
         NEW v \in Vectors, NEW e \in {0, 1}, vcpu_queue_exception(v, e)
  PROVE  /\ exception' \in Vectors /\ error' \in {0, 1}
         /\ pending_req' \subseteq Requests /\ EXCP \in pending_req'
         /\ raised' \in Seq(Vectors) /\ Len(raised') = Len(raised) + 1
         /\ Resolved'
<1>1. /\ raised \in Seq(Vectors) /\ raised' = Append(raised, v)
      /\ pending_req \subseteq Requests /\ error \in {0, 1}
      /\ exception \in Vectors \cup {VECTOR_INVALID}
  BY DEF TypeOK, vcpu_queue_exception
<1>2. /\ raised' \in Seq(Vectors) /\ Len(raised') = Len(raised) + 1
      /\ raised'[Len(raised')] = v
      /\ Len(raised) = 1 => raised'[1] = raised[1]
  BY <1>1
<1>3. CASE raised = <<>>
  <2>1. exception = VECTOR_INVALID /\ TRP_FAULT \notin pending_req
    BY <1>3 DEF Resolved
  <2>2. ~Merges(exception, v) /\ exception # IDT_DF
    BY <2>1 DEF Merges, get_excep_class, VECTOR_INVALID, IDT_DE, IDT_TS, IDT_NP,
                IDT_SS, IDT_GP, IDT_PF, IDT_VE, IDT_DF
  <2>3. exception' = v /\ error' \in {0, 1} /\ pending_req' = pending_req \cup {EXCP}
    BY <2>2 DEF vcpu_queue_exception
  <2>4. Len(raised') = 1 /\ raised'[1] = v /\ raised' # <<>>
    BY <1>2, <1>3
  <2> QED
    BY <1>1, <1>2, <2>1, <2>3, <2>4 DEF Resolved, Requests, EXCP, TRP_FAULT
<1>4. CASE Len(raised) = 1
  <2>1. exception = raised[1] /\ TRP_FAULT \notin pending_req /\ raised[1] \in Vectors
    BY <1>1, <1>4 DEF Resolved
  <2>a. exception # VECTOR_INVALID
    BY <2>1, VectorIsValid
  <2>2. EXCP \in pending_req
    BY <2>a DEF PendingHasVector
  <2>3. Len(raised') = 2 /\ raised'[1] = exception /\ raised'[2] = v /\ raised' # <<>>
    <3>1. Len(raised') = 2
      BY <1>2, <1>4
    <3>2. raised' # <<>>
      BY <3>1
    <3>3. raised'[1] = exception /\ raised'[2] = v
      BY <1>2, <1>4, <2>1, <3>1
    <3> QED BY <3>1, <3>2, <3>3
  <2>4. CASE exception = IDT_DF /\ get_excep_class(v) # "BENIGN"
    <3>1. /\ pending_req' = pending_req \cup {TRP_FAULT}
          /\ exception' = exception /\ error' = error
      BY <2>4 DEF vcpu_queue_exception
    <3>2. Outcome' = "shutdown"
      BY <2>3, <2>4 DEF Outcome, Row, DoubleFaultTable, get_excep_class
    <3> QED
      BY <1>1, <1>2, <2>1, <2>2, <2>3, <3>1, <3>2 DEF Resolved, Requests, EXCP, TRP_FAULT
  <2>5. CASE ~(exception = IDT_DF /\ get_excep_class(v) # "BENIGN")
    <3>1. /\ exception' = IF Merges(exception, v) THEN IDT_DF ELSE v
          /\ error' \in {0, 1}
          /\ Merges(exception, v) /\ v # IDT_DF => error' = 0
          /\ pending_req' = pending_req \cup {EXCP}
      BY <2>5 DEF vcpu_queue_exception
    <3>2. Outcome' = IF Merges(exception, v) THEN "double" ELSE "serial"
      BY <2>3, <2>5 DEF Outcome, Row, DoubleFaultTable, Merges, get_excep_class,
         IDT_DE, IDT_TS, IDT_NP, IDT_SS, IDT_GP, IDT_PF, IDT_VE, IDT_DF
    <3>3. Merges(exception, v) => v # IDT_DF
      BY DEF Merges, get_excep_class, IDT_DE, IDT_TS, IDT_NP, IDT_SS, IDT_GP,
             IDT_PF, IDT_VE, IDT_DF
    <3>4. exception' \in Vectors
      BY <3>1 DEF Vectors, IDT_DF
    <3> QED
      BY <1>1, <1>2, <2>1, <2>3, <3>1, <3>2, <3>3, <3>4
      DEF Resolved, Requests, EXCP, TRP_FAULT
  <2> QED
    BY <2>4, <2>5
<1> QED
  BY <1>3, <1>4 DEF AtMostOne

\* The lengths raised can have.
LEMMA ShortSeq ==
  ASSUME NEW s \in Seq(Vectors), Len(s) <= 2
  PROVE  s = <<>> \/ Len(s) = 1 \/ Len(s) = 2
<1>1. Len(s) \in Nat /\ (s = <<>> <=> Len(s) = 0)
  BY EmptySeq, LenProperties
<1>2. \A n \in Nat : n <= 2 => n \in {0, 1, 2}
  OBVIOUS
<1>3. Len(s) \in {0, 1, 2}
  BY <1>1, <1>2
<1> QED
  BY <1>1, <1>3

\* With an empty queue and no triple fault, nothing was raised.
LEMMA NothingRaised ==
  ASSUME TypeOK, Resolved, TRP_FAULT \notin pending_req, exception = VECTOR_INVALID
  PROVE  raised = <<>>
<1>1. raised \in Seq(Vectors) /\ Len(raised) <= 2
  BY DEF TypeOK
<1>2. raised = <<>> \/ Len(raised) = 1 \/ Len(raised) = 2
  BY <1>1, ShortSeq
<1>3. Len(raised) # 1
  <2> SUFFICES ASSUME Len(raised) = 1 PROVE FALSE
    OBVIOUS
  <2>1. raised[1] \in Vectors
    BY <1>1
  <2> QED
    BY <2>1, VectorIsValid DEF Resolved
<1>4. Len(raised) # 2
  <2> SUFFICES ASSUME Len(raised) = 2 PROVE FALSE
    OBVIOUS
  <2>1. raised[2] \in Vectors
    BY <1>1
  <2>2. IDT_DF \in Vectors
    BY DEF IDT_DF, Vectors
  <2>3. Outcome \in {"serial", "double", "shutdown"}
    BY DEF Outcome, DoubleFaultTable, Row, get_excep_class
  <2> QED
    BY <2>1, <2>2, <2>3, VectorIsValid DEF Resolved
<1> QED
  BY <1>2, <1>3, <1>4

\* Every step of Virq preserves the inductive invariant.
LEMMA VirqStep == VirqInv /\ [Next]_vars => VirqInv'
<1> SUFFICES ASSUME VirqInv, [Next]_vars PROVE VirqInv'
  OBVIOUS
<1>0. /\ TypeOK /\ PendingHasVector /\ EntryEventValid /\ FaultRetainsRip
      /\ NoEntryAfterTripleFault /\ FollowsDoubleFaultTable /\ QueueInv
  BY DEF VirqInv
<1> USE <1>0
<1>1. CASE TestTripleFault
  <2> USE <1>1 DEF TestTripleFault
  <2>1. TypeOK'
    BY DEF TypeOK
  <2>2. PendingHasVector'
    BY DEF PendingHasVector, EXCP, TRP_FAULT
  <2>3. (EntryEventValid /\ FaultRetainsRip /\ NoEntryAfterTripleFault)'
    BY DEF EntryEventValid, FaultRetainsRip, NoEntryAfterTripleFault
  <2>4. FollowsDoubleFaultTable'
    BY DEF FollowsDoubleFaultTable
  <2>5. QueueInv'
    BY DEF QueueInv, Resolved, Outcome
  <2> QED
    BY <2>1, <2>2, <2>3, <2>4, <2>5 DEF VirqInv
<1>2. CASE TestEptFlush
  <2> USE <1>2 DEF TestEptFlush
  <2>1. TypeOK'
    BY DEF TypeOK
  <2>2. PendingHasVector'
    BY DEF PendingHasVector, EXCP, EPT_FLUSH
  <2>3. (EntryEventValid /\ FaultRetainsRip /\ NoEntryAfterTripleFault)'
    BY DEF EntryEventValid, FaultRetainsRip, NoEntryAfterTripleFault
  <2>4. FollowsDoubleFaultTable'
    BY DEF FollowsDoubleFaultTable
  <2>5. QueueInv'
    BY DEF QueueInv, Resolved, Outcome, TRP_FAULT, EPT_FLUSH
  <2> QED
    BY <2>1, <2>2, <2>3, <2>4, <2>5 DEF VirqInv
<1>3. CASE InjectException
  <2> USE <1>3 DEF InjectException
  <2>0. exception \in Vectors
    <3>1. exception # VECTOR_INVALID
      BY DEF PendingHasVector
    <3> QED
      BY <3>1 DEF TypeOK
  <2>1. TypeOK'
    BY <2>0 DEF TypeOK, Event, NoCode
  <2>2. PendingHasVector'
    BY DEF PendingHasVector
  <2>3. EntryEventValid'
    BY DEF EntryEventValid, ErrorCodeValid, NoCode, TypeOK, IDT_DF, IDT_TS, IDT_NP,
           IDT_SS, IDT_GP, IDT_PF
  <2>4. (FaultRetainsRip /\ NoEntryAfterTripleFault)'
    BY DEF FaultRetainsRip, NoEntryAfterTripleFault, QueueInv
  <2>5. FollowsDoubleFaultTable'
    <3>1. Resolved /\ TRP_FAULT \notin pending_req
      BY DEF QueueInv
    <3>2. entry'.type = "HW_EXP" /\ entry'.vector = exception /\ raised' = raised
      OBVIOUS
    <3>3. ErrorCodeValid(IDT_DF)
      BY DEF ErrorCodeValid
    <3>4. exception = IDT_DF => entry'.code = error
      BY <3>3
    <3> QED
      BY <3>1, <3>2, <3>4 DEF FollowsDoubleFaultTable, Resolved, Outcome
  <2>6. QueueInv'
    BY DEF QueueInv, Resolved, Outcome
  <2> QED
    BY <2>1, <2>2, <2>3, <2>4, <2>5, <2>6 DEF VirqInv
<1>4. CASE NoException
  <2> USE <1>4 DEF NoException
  <2>0. exception = VECTOR_INVALID
    BY DEF PendingHasVector
  <2>1. TypeOK'
    BY DEF TypeOK
  <2>2. PendingHasVector'
    BY DEF PendingHasVector
  <2>3. (EntryEventValid /\ FaultRetainsRip /\ NoEntryAfterTripleFault)'
    BY DEF EntryEventValid, FaultRetainsRip, NoEntryAfterTripleFault
  <2>4. FollowsDoubleFaultTable'
    BY DEF FollowsDoubleFaultTable
  <2>5. QueueInv'
    <3>1. Resolved /\ TRP_FAULT \notin pending_req
      BY DEF QueueInv
    <3>2. raised = <<>>
      BY <2>0, <3>1, NothingRaised
    <3> QED
      BY <3>2 DEF QueueInv, Resolved, Outcome
  <2> QED
    BY <2>1, <2>2, <2>3, <2>4, <2>5 DEF VirqInv
<1>5. CASE InjectNmiOrEvent
  <2> USE <1>5 DEF InjectNmiOrEvent
  <2>1. TypeOK'
    <3>1. [type |-> "NMI", vector |-> IDT_NMI, code |-> NoCode] \in Event
      BY DEF Event, Vectors, IDT_NMI
    <3>2. None \in Event
      BY DEF Event
    <3> QED
      BY <3>1, <3>2 DEF TypeOK
  <2>2. PendingHasVector'
    BY DEF PendingHasVector, EXCP, NMI
  <2>3. (EntryEventValid /\ FaultRetainsRip /\ NoEntryAfterTripleFault)'
    <3>1. entry'.type # "HW_EXP"
      BY DEF QueueInv, None
    <3> QED
      BY <3>1 DEF EntryEventValid, FaultRetainsRip, NoEntryAfterTripleFault, QueueInv
  <2>4. FollowsDoubleFaultTable'
    BY DEF FollowsDoubleFaultTable, QueueInv
  <2>5. QueueInv'
    <3>1. exception = VECTOR_INVALID
      BY DEF QueueInv, Resolved
    <3> QED
      BY <3>1 DEF QueueInv, None
  <2> QED
    BY <2>1, <2>2, <2>3, <2>4, <2>5 DEF VirqInv
<1>6. CASE VmEntry
  <2> USE <1>6 DEF VmEntry
  <2>1. TypeOK'
    BY DEF TypeOK
  <2>2. PendingHasVector'
    BY DEF PendingHasVector
  <2>3. (EntryEventValid /\ FaultRetainsRip /\ NoEntryAfterTripleFault)'
    BY DEF EntryEventValid, FaultRetainsRip, NoEntryAfterTripleFault
  <2>4. FollowsDoubleFaultTable'
    BY DEF FollowsDoubleFaultTable
  <2>5. QueueInv'
    BY DEF QueueInv, Resolved, Outcome, NoEntryAfterTripleFault
  <2> QED
    BY <2>1, <2>2, <2>3, <2>4, <2>5 DEF VirqInv
<1>7. CASE InitExit
  <2> USE <1>7 DEF InitExit
  <2>1. TypeOK'
    BY DEF TypeOK, Event
  <2>2. PendingHasVector'
    BY DEF PendingHasVector
  <2>3. (EntryEventValid /\ FaultRetainsRip /\ NoEntryAfterTripleFault)'
    BY DEF EntryEventValid, FaultRetainsRip, NoEntryAfterTripleFault, None
  <2>4. FollowsDoubleFaultTable'
    BY DEF FollowsDoubleFaultTable
  <2>5. QueueInv'
    BY DEF QueueInv, Resolved, Outcome, None
  <2> QED
    BY <2>1, <2>2, <2>3, <2>4, <2>5 DEF VirqInv
<1>8. CASE HandlerReturns
  <2> USE <1>8 DEF HandlerReturns
  <2>1. TypeOK'
    BY DEF TypeOK
  <2>2. PendingHasVector'
    BY DEF PendingHasVector
  <2>3. (EntryEventValid /\ FaultRetainsRip /\ NoEntryAfterTripleFault)'
    BY DEF EntryEventValid, FaultRetainsRip, NoEntryAfterTripleFault
  <2>4. FollowsDoubleFaultTable'
    BY DEF FollowsDoubleFaultTable
  <2>5. QueueInv'
    BY DEF QueueInv, Resolved, Outcome
  <2> QED
    BY <2>1, <2>2, <2>3, <2>4, <2>5 DEF VirqInv
<1>9. CASE HandlerFlushes
  <2> USE <1>9 DEF HandlerFlushes
  <2>1. TypeOK'
    BY DEF TypeOK, Requests
  <2>2. PendingHasVector'
    BY DEF PendingHasVector, EXCP, EPT_FLUSH
  <2>3. (EntryEventValid /\ FaultRetainsRip /\ NoEntryAfterTripleFault)'
    BY DEF EntryEventValid, FaultRetainsRip, NoEntryAfterTripleFault
  <2>4. FollowsDoubleFaultTable'
    BY DEF FollowsDoubleFaultTable
  <2>5. QueueInv'
    BY DEF QueueInv, Resolved, Outcome, TRP_FAULT, EPT_FLUSH
  <2> QED
    BY <2>1, <2>2, <2>3, <2>4, <2>5 DEF VirqInv
<1>10. CASE HandlerInjects
  <2> USE <1>10 DEF HandlerInjects
  <2>0. PICK v \in HandlerVectors, e \in {0, 1} : vcpu_queue_exception(v, e)
    OBVIOUS
  <2>a. v \in Vectors /\ Resolved /\ AtMostOne
    BY VirqAssumption DEF QueueInv
  <2>b. /\ exception' \in Vectors /\ error' \in {0, 1}
        /\ pending_req' \subseteq Requests /\ EXCP \in pending_req'
        /\ raised' \in Seq(Vectors) /\ Len(raised') = Len(raised) + 1
        /\ Resolved'
    BY <2>0, <2>a, QueueStep
  <2>c. Len(raised') <= 2
    <3>1. Len(raised) \in {0, 1}
      BY <2>a DEF AtMostOne
    <3>2. \A n \in {0, 1} : n + 1 <= 2
      OBVIOUS
    <3>3. Len(raised) + 1 <= 2
      BY <3>1, <3>2, Zenon
    <3> QED
      BY <2>b, <3>3, Zenon
  <2>1. TypeOK'
    BY <2>b, <2>c DEF TypeOK
  <2>2. PendingHasVector'
    BY <2>b, VectorIsValid DEF PendingHasVector
  <2>3. (EntryEventValid /\ FaultRetainsRip /\ NoEntryAfterTripleFault)'
    BY DEF EntryEventValid, FaultRetainsRip, NoEntryAfterTripleFault
  <2>4. FollowsDoubleFaultTable'
    BY DEF FollowsDoubleFaultTable
  <2>5. QueueInv'
    BY <2>b DEF QueueInv
  <2> QED
    BY <2>1, <2>2, <2>3, <2>4, <2>5 DEF VirqInv
<1>11. CASE GuestExit
  <2>0. PICK ev \in Delivered :
          IF ev.type = "HW_EXP"
          THEN /\ vcpu_queue_exception(ev.vector, IF ev.code = NoCode THEN 0 ELSE ev.code)
               /\ idt_vec' = None
          ELSE /\ idt_vec' = ev
               /\ UNCHANGED <<exception, error, pending_req, raised>>
    BY <1>11 DEF GuestExit
  <2>a. /\ pc = "guest" /\ pc' = "handler" /\ entry' = None /\ retain_rip' = FALSE
        /\ UNCHANGED <<init_sig, peer, stale_ept>>
    BY <1>11 DEF GuestExit
  <2>b. raised = <<>> /\ Resolved /\ TRP_FAULT \notin pending_req /\ AtMostOne
    BY <2>a DEF QueueInv, NoEntryAfterTripleFault, AtMostOne
  <2>c. ev \in Event
    <3>1. CASE ev \in {None, entry}
      BY <3>1 DEF TypeOK, Event
    <3>2. CASE ev = [type |-> "EXT_INT", vector |-> 31, code |-> NoCode]
      <4>1. 31 \in Vectors
        BY DEF Vectors
      <4> QED
        BY <3>2, <4>1 DEF Event
    <3>3. CASE ev \in [type : {"HW_EXP"}, vector : GuestVectors, code : {0, 1, NoCode}]
      BY <3>3, VirqAssumption DEF Event
    <3>4. \/ ev \in {None, entry, [type |-> "EXT_INT", vector |-> 31, code |-> NoCode]}
          \/ ev \in [type : {"HW_EXP"}, vector : {v \in GuestVectors : ErrorCodeValid(v)},
                      code : {0, 1}]
          \/ ev \in [type : {"HW_EXP"}, vector : {v \in GuestVectors : ~ErrorCodeValid(v)},
                      code : {NoCode}]
      BY Zenon DEF Delivered
    <3> QED
      BY <3>1, <3>2, <3>3, <3>4
  <2>d. CASE ev.type = "HW_EXP"
    <3>1. /\ vcpu_queue_exception(ev.vector, IF ev.code = NoCode THEN 0 ELSE ev.code)
          /\ idt_vec' = None
      BY <2>0, <2>d
    <3>2. ev.vector \in Vectors /\ (IF ev.code = NoCode THEN 0 ELSE ev.code) \in {0, 1}
      BY <2>c, <2>d DEF Event, None, NoCode
    <3>3. /\ exception' \in Vectors /\ error' \in {0, 1}
          /\ pending_req' \subseteq Requests /\ EXCP \in pending_req'
          /\ raised' \in Seq(Vectors) /\ Len(raised') = Len(raised) + 1
          /\ Resolved'
      BY <2>b, <3>1, <3>2, QueueStep
    <3>4. Len(raised') = 1
      BY <2>b, <3>3
    <3>a. Len(raised') <= 2
      BY <3>4
    <3>b. idt_vec' \in Event /\ entry' \in Event
      BY <2>a, <3>1 DEF Event
    <3>5. TypeOK'
      BY <2>a, <3>3, <3>a, <3>b DEF TypeOK
    <3>6. PendingHasVector'
      BY <3>3, VectorIsValid DEF PendingHasVector
    <3>7. (EntryEventValid /\ FaultRetainsRip /\ NoEntryAfterTripleFault)'
      BY <2>a DEF EntryEventValid, FaultRetainsRip, NoEntryAfterTripleFault, None
    <3>8. FollowsDoubleFaultTable'
      BY <2>a DEF FollowsDoubleFaultTable
    <3>9. QueueInv'
      BY <2>a, <3>1, <3>3, <3>4 DEF QueueInv, AtMostOne, None
    <3> QED
      BY <3>5, <3>6, <3>7, <3>8, <3>9 DEF VirqInv
  <2>e. CASE ev.type # "HW_EXP"
    <3>1. idt_vec' = ev /\ UNCHANGED <<exception, error, pending_req, raised>>
      BY <2>0, <2>e
    <3>5. TypeOK'
      BY <2>a, <2>c, <3>1 DEF TypeOK, Event
    <3>6. PendingHasVector'
      BY <3>1 DEF PendingHasVector
    <3>7. (EntryEventValid /\ FaultRetainsRip /\ NoEntryAfterTripleFault)'
      BY <2>a DEF EntryEventValid, FaultRetainsRip, NoEntryAfterTripleFault, None
    <3>8. FollowsDoubleFaultTable'
      BY <2>a DEF FollowsDoubleFaultTable
    <3>9. QueueInv'
      BY <2>a, <2>b, <2>e, <3>1 DEF QueueInv, AtMostOne, Resolved, Outcome
    <3> QED
      BY <3>5, <3>6, <3>7, <3>8, <3>9 DEF VirqInv
  <2> QED
    BY <2>d, <2>e
<1>12. CASE handle_nmi
  <2> USE <1>12 DEF handle_nmi
  <2>1. TypeOK'
    BY DEF TypeOK, Requests
  <2>2. PendingHasVector'
    BY DEF PendingHasVector, EXCP, NMI
  <2>3. (EntryEventValid /\ FaultRetainsRip /\ NoEntryAfterTripleFault)'
    BY DEF EntryEventValid, FaultRetainsRip, NoEntryAfterTripleFault, TRP_FAULT, NMI
  <2>4. FollowsDoubleFaultTable'
    BY DEF FollowsDoubleFaultTable
  <2>5. QueueInv'
    BY DEF QueueInv, Resolved, Outcome, AtMostOne, TRP_FAULT, NMI
  <2> QED
    BY <2>1, <2>2, <2>3, <2>4, <2>5 DEF VirqInv
<1>13. CASE PeerModifies \/ PeerKicks
  <2> USE <1>13 DEF PeerModifies, PeerKicks
  <2>1. TypeOK'
    BY DEF TypeOK
  <2>2. PendingHasVector'
    BY DEF PendingHasVector
  <2>3. (EntryEventValid /\ FaultRetainsRip /\ NoEntryAfterTripleFault)'
    BY DEF EntryEventValid, FaultRetainsRip, NoEntryAfterTripleFault
  <2>4. FollowsDoubleFaultTable'
    BY DEF FollowsDoubleFaultTable
  <2>5. QueueInv'
    BY DEF QueueInv, Resolved, Outcome, AtMostOne
  <2> QED
    BY <2>1, <2>2, <2>3, <2>4, <2>5 DEF VirqInv
<1>14. CASE PeerPosts
  <2> USE <1>14 DEF PeerPosts
  <2>1. TypeOK'
    BY DEF TypeOK, Requests
  <2>2. PendingHasVector'
    BY DEF PendingHasVector, EXCP, EPT_FLUSH
  <2>3. (EntryEventValid /\ FaultRetainsRip /\ NoEntryAfterTripleFault)'
    BY DEF EntryEventValid, FaultRetainsRip, NoEntryAfterTripleFault, TRP_FAULT,
           EPT_FLUSH
  <2>4. FollowsDoubleFaultTable'
    BY DEF FollowsDoubleFaultTable
  <2>5. QueueInv'
    BY DEF QueueInv, Resolved, Outcome, AtMostOne, TRP_FAULT, EPT_FLUSH
  <2> QED
    BY <2>1, <2>2, <2>3, <2>4, <2>5 DEF VirqInv
<1>15. CASE UNCHANGED vars
  <2> USE <1>15 DEF vars
  <2>1. TypeOK'
    BY DEF TypeOK
  <2>2. PendingHasVector'
    BY DEF PendingHasVector
  <2>3. (EntryEventValid /\ FaultRetainsRip /\ NoEntryAfterTripleFault)'
    BY DEF EntryEventValid, FaultRetainsRip, NoEntryAfterTripleFault
  <2>4. FollowsDoubleFaultTable'
    BY DEF FollowsDoubleFaultTable
  <2>5. QueueInv'
    BY DEF QueueInv, Resolved, Outcome, AtMostOne
  <2> QED
    BY <2>1, <2>2, <2>3, <2>4, <2>5 DEF VirqInv
<1> QED
  BY <1>1, <1>2, <1>3, <1>4, <1>5, <1>6, <1>7, <1>8, <1>9, <1>10, <1>11, <1>12,
     <1>13, <1>14, <1>15 DEF Next, vcpu_thread

-----------------------------------------------------------------------------
\* VirqInv holds in every reachable state.
THEOREM VirqInvariance == Spec => []VirqInv
BY VirqInit, VirqStep, PTL DEF Spec

\* For every set of vectors, what vcpu_inject_exception injects is what the double
\* fault table of the processor manual gives.
THEOREM VirqDoubleFault == Spec => []FollowsDoubleFaultTable
<1>1. VirqInv => FollowsDoubleFaultTable
  BY DEF VirqInv
<1> QED
  BY <1>1, VirqInvariance, PTL

\* Without a vCPU reset the request bit and the queued vector go together:
\* exception_type[] is never indexed with VECTOR_INVALID.
THEOREM VirqPendingHasVector == Spec => []PendingHasVector
<1>1. VirqInv => PendingHasVector
  BY DEF VirqInv
<1> QED
  BY <1>1, VirqInvariance, PTL

\* After a triple fault the guest is never entered again.
THEOREM VirqTripleFault == Spec => []NoEntryAfterTripleFault
<1>1. VirqInv => NoEntryAfterTripleFault
  BY DEF VirqInv
<1> QED
  BY <1>1, VirqInvariance, PTL

=============================================================================
