-------------------------------- MODULE Vuart --------------------------------
(***************************************************************************)
(* The registers and FIFOs of one virtual UART (libs/debug/vuart.c), and   *)
(* what a write or a read of a register does to them.  Every operator      *)
(* stands for code under the vUART's own lock.                             *)
(*                                                                         *)
(* The divisor latch, the scratch register and the other bits of the  *)
(* line control register are only stored and read back, and are left out.  *)
(***************************************************************************)
EXTENDS Naturals, Sequences

CONSTANTS RX_BUF_SIZE, TX_BUF_SIZE,
          None         \* the character -1, the NULL pointer

ASSUME VuartAssumption == RX_BUF_SIZE \in Nat \ {0} /\ TX_BUF_SIZE \in Nat \ {0}

\* struct vuart_fifo
fifo_reset(f) == [f EXCEPT !.rindex = 0, !.windex = 0, !.num = 0]
EmptyFifo(size) == [buf |-> [i \in 0 .. size - 1 |-> None], size |-> size,
                    rindex |-> 0, windex |-> 0, num |-> 0]

\* Mutant: a full FIFO drops the new character, and forgets that it is full.
putchar_wraps(f, ch) ==
    [f EXCEPT !.buf[f.windex] = ch,
              !.windex = (@ + 1) % f.size,
              !.num = (@ + 1) % (f.size + 1)]

\* A full FIFO loses its oldest character.
fifo_putchar(f, ch) ==
    [f EXCEPT !.buf[f.windex] = ch,
              !.windex = (@ + 1) % f.size,
              !.num = IF @ < f.size THEN @ + 1 ELSE @,
              !.rindex = IF f.num < f.size THEN @ ELSE (@ + 1) % f.size]

\* fifo_getchar: the character, -1 from an empty FIFO, and the FIFO after it.
fifo_front(f) == IF f.num > 0 THEN f.buf[f.rindex] ELSE None
fifo_rest(f) == IF f.num > 0 THEN [f EXCEPT !.rindex = (@ + 1) % f.size, !.num = @ - 1] ELSE f

\* The characters in a FIFO, the oldest first.
Contents(f) == [i \in 1 .. f.num |-> f.buf[(f.rindex + i - 1) % f.size]]

-----------------------------------------------------------------------------
\* The modem status lines that a modem control value gives: in loopback they are
\* its outputs, else a carrier and a ready peer.
get_modem_status(mcr) ==
    IF "LOOPBACK" \in mcr
    THEN {s \in {"CTS", "DSR", "RI", "DCD"} :
            [CTS |-> "RTS", DSR |-> "DTR", RI |-> "OUT1", DCD |-> "OUT2"][s] \in mcr}
    ELSE {"DCD", "DSR"}

MSR_DELTA_MASK == {"DCTS", "DDSR", "TERI", "DDCD"}

\* A change of a line is remembered in its delta bit; of RI, only its trailing edge.
update_modem_status(new, old) ==
    LET moved(s) == (s \in new) # (s \in old)
    IN  new \cup (old \cap MSR_DELTA_MASK)
            \cup (IF moved("CTS") THEN {"DCTS"} ELSE {})
            \cup (IF moved("DSR") THEN {"DDSR"} ELSE {})
            \cup (IF moved("DCD") THEN {"DDCD"} ELSE {})
            \cup (IF "RI" \in old \ new THEN {"TERI"} ELSE {})

\* The interrupt identification, by priority.
vuart_intr_reason(vu) ==
    IF vu.oe /\ "ELSI" \in vu.ier THEN "RLS"
    ELSE IF vu.rxfifo.num > 0 /\ "ERBFI" \in vu.ier THEN "RXTOUT"
    ELSE IF vu.thre /\ "ETBEI" \in vu.ier THEN "TXRDY"
    ELSE IF vu.msr \cap MSR_DELTA_MASK # {} /\ "EMSC" \in vu.ier THEN "MLSC"
    ELSE "NOPEND"

\* struct acrn_vuart before the first vuart_setup: all zero.
ZeroVuart == [active |-> FALSE, target |-> None, dlab |-> FALSE, mcr |-> {}, ier |-> {},
              oe |-> FALSE, msr |-> {}, thre |-> FALSE,
              rxfifo |-> EmptyFifo(RX_BUF_SIZE), txfifo |-> EmptyFifo(TX_BUF_SIZE)]

\* vuart_setup.  The line, modem and line status registers keep what the last
\* guest left in them.
vuart_setup(vu) ==
    [vu EXCEPT !.active = TRUE, !.target = None, !.ier = {}, !.thre = TRUE,
               !.rxfifo = fifo_reset(@), !.txfifo = fifo_reset(@)]

\* write_reg, by register.  While DLAB is set the first two are the divisor latch.
WriteThr(vu, ch) ==
    IF vu.dlab THEN vu
    ELSE IF "LOOPBACK" \in vu.mcr
         THEN [vu EXCEPT !.rxfifo = fifo_putchar(@, ch), !.oe = TRUE, !.thre = TRUE]
         ELSE [vu EXCEPT !.txfifo = fifo_putchar(@, ch), !.thre = TRUE]
WriteIer(vu, ier) ==
    [vu EXCEPT !.thre = @ \/ "ETBEI" \in ier \ vu.ier, !.ier = ier]
WriteMcr(vu, mcr) ==
    [vu EXCEPT !.mcr = mcr, !.msr = update_modem_status(get_modem_status(mcr), @)]

write_reg(vu, reg, val) ==
    CASE reg = "THR" -> WriteThr(vu, val)
      [] reg = "IER" -> IF vu.dlab THEN vu ELSE WriteIer(vu, val)
      [] reg = "FCR" -> IF val THEN [vu EXCEPT !.rxfifo = fifo_reset(@)] ELSE vu
      [] reg = "LCR" -> [vu EXCEPT !.dlab = val]
      [] reg = "MCR" -> WriteMcr(vu, val)

\* vuart_read: the vUART after a read of a register; while the divisor latch is
\* addressed no read changes anything.
vuart_read(vu, reg) ==
    IF vu.dlab THEN vu
    ELSE CASE reg = "RBR" -> [vu EXCEPT !.oe = FALSE, !.rxfifo = fifo_rest(@)]
           [] reg = "IIR" -> [vu EXCEPT !.thre = @ /\ vuart_intr_reason(vu) # "TXRDY"]
           [] reg = "LSR" -> [vu EXCEPT !.oe = FALSE]
           [] reg = "MSR" -> [vu EXCEPT !.msr = @ \ MSR_DELTA_MASK]

\* LSR_DR, as a read of the line status register reports it.
DataReady(vu) == ~vu.dlab /\ vu.rxfifo.num > 0

\* send_to_target: only an active vUART takes a character.
send_to_target(vu, ch) ==
    IF vu.active THEN [vu EXCEPT !.rxfifo = fifo_putchar(@, ch), !.thre = TRUE] ELSE vu
=============================================================================
