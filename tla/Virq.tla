-------------------------------- MODULE Virq --------------------------------
(***************************************************************************)
(* The requests pending for one vCPU and the events injected into it:      *)
(* arch/x86/guest/virq.c, with the loop of vcpu_thread (common/hv_main.c)  *)
(* and the start of vmexit_handler (arch/x86/guest/vmexit.c) around it.    *)
(*                                                                         *)
(* Three actors work on pending_req: the vCPU thread, an NMI that hits its *)
(* pCPU in root mode (handle_nmi), and another vCPU of the VM that changes *)
(* the EPT (ept_modify_mr).  The vCPU thread takes one step per            *)
(* bitmap_test_and_clear_lock, so that the others come in between.         *)
(***************************************************************************)
EXTENDS Naturals, Sequences

CONSTANTS GuestVectors,   \* vectors of the guest's own hardware exceptions
          HandlerVectors  \* vectors the exit handlers inject

IDT_DE == 0
IDT_DB == 1
IDT_NMI == 2
IDT_BP == 3
IDT_OF == 4
IDT_DF == 8
IDT_TS == 10
IDT_NP == 11
IDT_SS == 12
IDT_GP == 13
IDT_PF == 14
IDT_MC == 18
IDT_VE == 20
VECTOR_INVALID == 256
Vectors == 0 .. 31

ASSUME VirqAssumption == GuestVectors \subseteq Vectors /\ HandlerVectors \subseteq Vectors

EXCP == "ACRN_REQUEST_EXCP"
NMI == "ACRN_REQUEST_NMI"
EPT_FLUSH == "ACRN_REQUEST_EPT_FLUSH"
TRP_FAULT == "ACRN_REQUEST_TRP_FAULT"
Requests == {EXCP, NMI, EPT_FLUSH, TRP_FAULT}

VARIABLES pc,           \* where the vCPU thread is
          pending_req,  \* arch.pending_req
          exception,    \* arch.exception_info.exception
          error,        \* arch.exception_info.error: 0, or 1 for any other code
          idt_vec,      \* arch.idt_vectoring_info
          entry,        \* the VM-entry interruption information of the VMCS
          retain_rip,   \* arch.inst_len is 0
          init_sig,     \* an INIT is latched by this pCPU
          peer,         \* where the other vCPU is in ept_modify_mr
          stale_ept,    \* the pCPU may hold EPT translations from before a change
          raised        \* history: exceptions queued since the last VM entry

vars == <<pc, pending_req, exception, error, idt_vec, entry, retain_rip,
          init_sig, peer, stale_ept, raised>>

\* An event: its VMX type, its vector, and the error code it comes with, if any.
NoCode == 2
None  == [type |-> "none", vector |-> 0, code |-> NoCode]
Event == {None} \cup [type : {"HW_EXP"}, vector : Vectors, code : {0, 1, NoCode}]
                \cup [type : {"NMI", "EXT_INT", "SW_EXP"}, vector : Vectors, code : {NoCode}]

\* State and values have the types the code gives them.
TypeOK ==
  /\ pc \in {"trp", "flush", "excp", "nmi", "enter", "guest", "handler", "dead"}
  /\ pending_req \subseteq Requests
  /\ exception \in Vectors \cup {VECTOR_INVALID}
  /\ error \in {0, 1}
  /\ idt_vec \in Event
  /\ entry \in Event
  /\ retain_rip \in BOOLEAN
  /\ init_sig \in BOOLEAN
  /\ peer \in {"out", "modified", "posted"}
  /\ stale_ept \in BOOLEAN
  /\ raised \in Seq(Vectors) /\ Len(raised) <= 2

\* create_vcpu has run.
Init ==
  /\ pc = "trp"
  /\ pending_req = {}
  /\ exception = VECTOR_INVALID
  /\ error = 0
  /\ idt_vec = None
  /\ entry = None
  /\ retain_rip = TRUE
  /\ init_sig = FALSE
  /\ peer = "out"
  /\ stale_ept = FALSE
  /\ raised = <<>>

-----------------------------------------------------------------------------
(* Exception classes, and the exception queue of length one.               *)

\* exception_type[]: the vectors delivered with an error code.
ErrorCodeValid(v) == v \in {IDT_DF, IDT_TS, IDT_NP, IDT_SS, IDT_GP, IDT_PF, 17}

\* get_exception_type(v) == EXCEPTION_FAULT.
IsFault(v) == v \in Vectors \ {IDT_NMI, IDT_DB, IDT_BP, IDT_OF, IDT_DF, IDT_MC}

get_excep_class(v) ==
  IF v \in {IDT_DE, IDT_TS, IDT_NP, IDT_SS, IDT_GP} THEN "CONT"
  ELSE IF v \in {IDT_PF, IDT_VE} THEN "PF"
  ELSE "BENIGN"

\* The pairs that vcpu_queue_exception turns into a double fault.
Merges(prev, new) ==
  \/ get_excep_class(prev) = "CONT" /\ get_excep_class(new) = "CONT"
  \/ get_excep_class(prev) = "PF" /\ get_excep_class(new) # "BENIGN"

\* Mutation of vcpu_queue_exception: a fault on the way to the double fault
\* handler is queued like any other.
queue_without_triple(v, e) ==
  LET vector == IF Merges(exception, v) THEN IDT_DF ELSE v IN
    /\ exception' = vector
    /\ error' = IF vector = v /\ ErrorCodeValid(vector) THEN e ELSE 0
    /\ pending_req' = pending_req \cup {EXCP}
    /\ raised' = Append(raised, v)

\* vcpu_queue_exception with vector v and error code e.  The kick that ends
\* vcpu_make_request does nothing: the thread runs on this very pCPU.
vcpu_queue_exception(v, e) ==
  /\ raised' = Append(raised, v)
  /\ IF exception = IDT_DF /\ get_excep_class(v) # "BENIGN"
     THEN /\ pending_req' = pending_req \cup {TRP_FAULT}
          /\ UNCHANGED <<exception, error>>
     ELSE LET vector == IF Merges(exception, v) THEN IDT_DF ELSE v IN
          /\ exception' = vector
          /\ error' = IF vector = v /\ ErrorCodeValid(vector) THEN e ELSE 0
          /\ pending_req' = pending_req \cup {EXCP}

-----------------------------------------------------------------------------
(* acrn_handle_pending_request.                                            *)

\* A triple fault: -EFAULT, and vcpu_thread shuts the VM down.
TestTripleFault ==
  /\ pc = "trp"
  /\ IF TRP_FAULT \in pending_req
     THEN pc' = "dead" /\ pending_req' = pending_req \ {TRP_FAULT}
     ELSE pc' = "flush" /\ UNCHANGED pending_req
  /\ UNCHANGED <<exception, error, idt_vec, entry, retain_rip, init_sig, peer,
                 stale_ept, raised>>

\* ACRN_REQUEST_EPT_FLUSH is taken and invept executed.
TestEptFlush ==
  /\ pc = "flush" /\ pc' = "excp"
  /\ pending_req' = pending_req \ {EPT_FLUSH}
  /\ stale_ept' = (stale_ept /\ EPT_FLUSH \notin pending_req)
  /\ UNCHANGED <<exception, error, idt_vec, entry, retain_rip, init_sig, peer, raised>>

\* vcpu_inject_exception returns true.
InjectException ==
  /\ pc = "excp" /\ EXCP \in pending_req /\ pc' = "enter"
  /\ pending_req' = pending_req \ {EXCP}
  /\ entry' = [type |-> "HW_EXP", vector |-> exception,
               code |-> IF ErrorCodeValid(exception) THEN error ELSE NoCode]
  /\ exception' = VECTOR_INVALID
  /\ retain_rip' = (retain_rip \/ IsFault(exception))
  /\ UNCHANGED <<error, idt_vec, init_sig, peer, stale_ept, raised>>

\* vcpu_inject_exception returns false.
NoException ==
  /\ pc = "excp" /\ EXCP \notin pending_req /\ pc' = "nmi"
  /\ UNCHANGED <<pending_req, exception, error, idt_vec, entry, retain_rip,
                 init_sig, peer, stale_ept, raised>>

\* An NMI if one is pending, else the event whose delivery the exit interrupted.
InjectNmiOrEvent ==
  /\ pc = "nmi" /\ pc' = "enter"
  /\ IF NMI \in pending_req
     THEN /\ pending_req' = pending_req \ {NMI}
          /\ entry' = [type |-> "NMI", vector |-> IDT_NMI, code |-> NoCode]
          /\ UNCHANGED idt_vec
     ELSE /\ entry' = IF idt_vec # None THEN idt_vec ELSE entry
          /\ idt_vec' = None
          /\ UNCHANGED pending_req
  /\ UNCHANGED <<exception, error, retain_rip, init_sig, peer, stale_ept, raised>>

-----------------------------------------------------------------------------
(* run_vcpu, and the exit.                                                 *)

VmEntry ==
  /\ pc = "enter" /\ pc' = "guest"
  /\ raised' = <<>>
  /\ UNCHANGED <<pending_req, exception, error, idt_vec, entry, retain_rip,
                 init_sig, peer, stale_ept>>

\* An INIT signal makes the guest exit between two instructions:
\* init_signal_vmexit_handler.
InitExit ==
  /\ pc = "guest" /\ init_sig /\ pc' = "trp"
  /\ init_sig' = FALSE
  /\ entry' = None
  /\ idt_vec' = None
  /\ retain_rip' = TRUE
  /\ UNCHANGED <<pending_req, exception, error, peer, stale_ept, raised>>

\* The events whose delivery an exit can interrupt: the one just injected, or one
\* of the guest's own.
Delivered ==
  {None, entry, [type |-> "EXT_INT", vector |-> 31, code |-> NoCode]}
  \cup [type : {"HW_EXP"}, vector : {v \in GuestVectors : ErrorCodeValid(v)}, code : {0, 1}]
  \cup [type : {"HW_EXP"}, vector : {v \in GuestVectors : ~ErrorCodeValid(v)}, code : {NoCode}]

\* Any other exit, up to the dispatch in vmexit_handler: an interrupted hardware
\* exception is queued again, any other event is kept for re-injection.
GuestExit ==
  /\ pc = "guest" /\ pc' = "handler"
  /\ entry' = None
  /\ retain_rip' = FALSE
  /\ \E ev \in Delivered :
       IF ev.type = "HW_EXP"
       THEN /\ vcpu_queue_exception(ev.vector, IF ev.code = NoCode THEN 0 ELSE ev.code)
            /\ idt_vec' = None
       ELSE /\ idt_vec' = ev
            /\ UNCHANGED <<exception, error, pending_req, raised>>
  /\ UNCHANGED <<init_sig, peer, stale_ept>>

\* The handler is done, having kept the RIP on the instruction or not.
HandlerReturns ==
  /\ pc = "handler" /\ pc' = "trp"
  /\ retain_rip' \in BOOLEAN
  /\ UNCHANGED <<pending_req, exception, error, idt_vec, entry, init_sig, peer,
                 stale_ept, raised>>

\* The handler injects an exception, or fails and vcpu_thread injects #GP(0).
HandlerInjects ==
  /\ pc = "handler" /\ pc' = "trp"
  /\ \E v \in HandlerVectors, e \in {0, 1} : vcpu_queue_exception(v, e)
  /\ UNCHANGED <<idt_vec, entry, retain_rip, init_sig, peer, stale_ept>>

\* A handler that changes CR0, CR4 or the EPT asks for a flush on its own vCPU.
HandlerFlushes ==
  /\ pc = "handler" /\ pc' = "trp"
  /\ stale_ept' = TRUE
  /\ pending_req' = pending_req \cup {EPT_FLUSH}
  /\ UNCHANGED <<exception, error, idt_vec, entry, retain_rip, init_sig, peer, raised>>

-----------------------------------------------------------------------------
(* The other actors.                                                       *)

\* handle_nmi, on this pCPU in root mode: no kick.  In the guest an NMI is
\* delivered by the processor without an exit.
handle_nmi ==
  /\ pc \notin {"guest", "dead"}
  /\ pending_req' = pending_req \cup {NMI}
  /\ UNCHANGED <<pc, exception, error, idt_vec, entry, retain_rip, init_sig, peer,
                 stale_ept, raised>>

\* Another vCPU: ept_modify_mr changes the tables under ept_lock, then
\* vcpu_make_request sets the bit and kicks.
PeerModifies ==
  /\ peer = "out" /\ peer' = "modified"
  /\ stale_ept' = TRUE
  /\ UNCHANGED <<pc, pending_req, exception, error, idt_vec, entry, retain_rip,
                 init_sig, raised>>

PeerPosts ==
  /\ peer = "modified" /\ peer' = "posted"
  /\ pending_req' = pending_req \cup {EPT_FLUSH}
  /\ UNCHANGED <<pc, exception, error, idt_vec, entry, retain_rip, init_sig,
                 stale_ept, raised>>

\* Mutation of PeerKicks: the running vCPU is not interrupted.
PeerKicksNobody ==
  /\ peer = "posted" /\ peer' = "out"
  /\ UNCHANGED <<pc, pending_req, exception, error, idt_vec, entry, retain_rip,
                 init_sig, stale_ept, raised>>

\* kick_thread: the thread is RUNNING on another pCPU, which gets an INIT.
PeerKicks ==
  /\ peer = "posted" /\ peer' = "out"
  /\ init_sig' = TRUE
  /\ UNCHANGED <<pc, pending_req, exception, error, idt_vec, entry, retain_rip,
                 stale_ept, raised>>

vcpu_thread == \/ TestTripleFault \/ TestEptFlush \/ InjectException \/ NoException
               \/ InjectNmiOrEvent \/ VmEntry \/ InitExit
               \/ HandlerReturns \/ HandlerInjects \/ HandlerFlushes

Next == vcpu_thread \/ GuestExit \/ handle_nmi \/ PeerModifies \/ PeerPosts \/ PeerKicks

Spec == Init /\ [][Next]_vars

\* The pCPUs execute their code, and a latched INIT ends guest mode; the guest
\* itself need never exit, and no NMI nor EPT change need ever happen.
FairSpec == Spec /\ WF_vars(vcpu_thread) /\ WF_vars(PeerPosts) /\ WF_vars(PeerKicks)

-----------------------------------------------------------------------------
\* A request for exception injection is pending exactly while exception_info
\* holds a vector: vcpu_inject_exception never indexes exception_type[] with
\* VECTOR_INVALID, and vcpu_queue_exception never merges with an exception that
\* was already delivered.
PendingHasVector == (EXCP \in pending_req) <=> (exception # VECTOR_INVALID)

\* The VM-entry interruption information is one a VM entry accepts: a hardware
\* exception has an error code exactly if its vector delivers one.
EntryEventValid ==
  entry.type = "HW_EXP" =>
    (entry.code # NoCode) = (entry.vector \in {8, 10, 11, 12, 13, 14, 17})

\* The "Conditions for Generating a Double Fault" of the processor manual: what a
\* second exception gives after a first one that was not delivered.
DoubleFaultTable == [
  BENIGN |-> [BENIGN |-> "serial", CONT |-> "serial", PF |-> "serial"],
  CONT   |-> [BENIGN |-> "serial", CONT |-> "double", PF |-> "serial"],
  PF     |-> [BENIGN |-> "serial", CONT |-> "double", PF |-> "double"],
  DF     |-> [BENIGN |-> "serial", CONT |-> "shutdown", PF |-> "shutdown"]]

Row(v) == IF v = IDT_DF THEN "DF" ELSE get_excep_class(v)

\* What is injected on the entry that follows an exit is what the table gives for
\* the exception whose delivery was interrupted and the one the exit handler
\* raised; shutdown instead of an entry.
FollowsDoubleFaultTable ==
  (pc = "enter" /\ raised # <<>>) =>
    /\ entry.type = "HW_EXP"
    /\ Len(raised) = 1 => entry.vector = raised[1]
    /\ Len(raised) = 2 =>
         LET outcome == DoubleFaultTable[Row(raised[1])][get_excep_class(raised[2])] IN
           /\ outcome = "serial" => entry.vector = raised[2]
           /\ outcome = "double" => entry.vector = IDT_DF /\ entry.code = 0
           /\ outcome # "shutdown"

\* A fault is delivered with the RIP of the instruction that caused it.
FaultRetainsRip ==
  (pc = "enter" /\ entry.type = "HW_EXP" /\ IsFault(entry.vector)) => retain_rip

\* Once a vCPU has met a triple fault it never enters the guest again.
NoEntryAfterTripleFault ==
  pc \in {"enter", "guest"} => TRP_FAULT \notin pending_req

\* A vCPU stops using EPT translations from before a change, however its guest
\* behaves: every change is followed by an invept on its pCPU.
StaleEptFlushed == stale_ept ~> (~stale_ept \/ pc = "dead")

=============================================================================
