---------------------------- MODULE DevicesProofs ----------------------------
(***************************************************************************)
(* Proofs about the virtual devices and the console of Devices, for any    *)
(* number of VMs, any FIFO sizes, any length of the shell's line and any   *)
(* keys.                                                                   *)
(***************************************************************************)
EXTENDS Devices, SequenceTheorems, TLAPS

-----------------------------------------------------------------------------
(* Types.                                                                  *)

Source == Vu \cup {Keyboard}
Char == (Source \X Nat) \cup {None}

\* struct vuart_fifo: the write index is where the characters end.
FifoSet(n) == [buf : [0 .. n - 1 -> Char], size : {n},
               rindex : 0 .. n - 1, windex : 0 .. n - 1, num : 0 .. n]
Fifo(n) == {f \in FifoSet(n) : f.windex = (f.rindex + f.num) % n}

McrBit == {"LOOPBACK", "OUT1"}
IerBit == {"ERBFI", "ETBEI"}
MsrBit == {"CTS", "DSR", "RI", "DCD", "DCTS", "DDSR", "TERI", "DDCD"}
VuartSet == [active : BOOLEAN, target : Vu \cup {None}, dlab : BOOLEAN, mcr : SUBSET McrBit,
             ier : SUBSET IerBit, oe : BOOLEAN, msr : SUBSET MsrBit, thre : BOOLEAN,
             rxfifo : Fifo(RX_BUF_SIZE), txfifo : Fifo(TX_BUF_SIZE)]

RtcHolds == {"rtc_select", "rtc_poll", "rtc_index", "rtc_data", "rtc_release"}
RtcPlace == RtcHolds \cup {"rtc_wait"}
GuestPlace == RtcPlace \cup {"guest", "send", "write", "fatal", "panic"}

UartTypes ==
    /\ vuarts \in [Vu -> VuartSet]
    /\ sent \in [Source -> Nat]
    /\ ready \subseteq Vu
    /\ got \in [Vu -> SUBSET Char] /\ out \in [Vu -> SUBSET Char]
    /\ gp \in [Vm -> GuestPlace]
    /\ req \in [Vm -> (Vu \X Char) \cup {None}]
    /\ \A v \in Vm : gp[v] \in {"send", "write"} => req[v] \in Vu \X Char
    /\ cvu \in Vu \cup {None} /\ (con \in {"rx", "tx"} => cvu # None)
    /\ console_vmid \in Vm \cup {None}

-----------------------------------------------------------------------------
(* Characters.                                                             *)

\* The characters a vUART has, those its FIFOs' memory still shows included.
Seen(x) == {vuarts[x].rxfifo.buf[i] : i \in 0 .. RX_BUF_SIZE - 1}
           \cup {vuarts[x].txfifo.buf[i] : i \in 0 .. TX_BUF_SIZE - 1} \cup got[x] \cup out[x]

\* Is a guest between the choice of a vUART and its lock?
Pending(v) == gp[v] \in {"send", "write"}

\* A character is no newer than the last one written, and older than the one of its
\* source that is on its way.
Old(c) == /\ c # None => c[2] <= sent[c[1]]
          /\ \A v \in Vm : Pending(v) => Before(c, req[v][2])

CharsInv ==
    /\ \A x \in Vu : \A c \in Seen(x) : Old(c)
    /\ \A v \in Vm : Pending(v) /\ req[v][2] # None =>
         req[v][2][1] \in {<<v, 0>>, <<v, 1>>} /\ req[v][2][2] <= sent[req[v][2][1]]

CharsIInv == UartTypes /\ CharsInv /\ CharsInOrder

-----------------------------------------------------------------------------
(* The clock.                                                              *)

RtcTypes ==
    /\ gp \in [Vm -> GuestPlace]
    /\ vrtc_offset \in [Vm -> RtcReg]
    /\ cmos_lock \in [head : Nat, tail : Nat]
    /\ rtc \in [Vm -> [ticket : Nat, tries : Nat]]

\* Who has a ticket of cmos_lock will be served, alone.
RtcInv ==
    /\ cmos_lock.head <= cmos_lock.tail
    /\ \A v \in Vm : gp[v] \in RtcPlace =>
         cmos_lock.head <= rtc[v].ticket /\ rtc[v].ticket < cmos_lock.tail
    /\ \A v, w \in Vm : v # w /\ gp[v] \in RtcPlace /\ gp[w] \in RtcPlace =>
         rtc[v].ticket # rtc[w].ticket
    /\ \A v \in Vm : gp[v] \in RtcHolds => rtc[v].ticket = cmos_lock.head

OwnRegister == \A v \in Vm : gp[v] = "rtc_data" => cmos = vrtc_offset[v]

RtcIInv == RtcTypes /\ RtcInv /\ OwnRegister

-----------------------------------------------------------------------------
(* The shell.                                                              *)

Line == [0 .. SHELL_CMD_MAX_LEN -> Keys \cup {None}]
Text == {t \in Seq(Keys) : Len(t) <= SHELL_CMD_MAX_LEN}

\* A buffer that holds a text, and nothing after it.
Shows(line, t) == \A i \in 0 .. SHELL_CMD_MAX_LEN : line[i] = IF i < Len(t) THEN t[i + 1] ELSE None

ShellIInv ==
    /\ sh \in [line : [{0, 1} -> Line], active : {0, 1}, len : 0 .. SHELL_CMD_MAX_LEN]
    /\ typed \in Text /\ prev \in Text
    /\ sh.len = Len(typed)
    /\ Shows(sh.line[sh.active], typed)
    /\ Shows(sh.line[Other(sh.active)], prev)
    /\ ran = <<ran[1], ran[1]>>

-----------------------------------------------------------------------------
(* Connections.                                                            *)

Target(v) == vuarts[<<v, 1>>].target
Active(v) == vuarts[<<v, 1>>].active
Far(v) == <<Peer[v], 1>>
Stages == Creating \cup Stopping \cup {"on", "off"}
Live == {"connect", "link", "linkback", "rtc", "on", "stop0", "stop1"}

\* What the stages of a VM and its peer say of the VM's end of the connection.
End(v) ==
    LET p == Peer[v]
    IN  /\ Active(v) <=> stage[v] \in Live
        /\ Target(v) \in {None, Far(v)}
        /\ Target(v) # None => stage[v] \notin {"setup0", "setup1", "off"}
        /\ Target(v) # None /\ Target(p) = None => stage[v] \in {"linkback", "unlinked"}
        /\ stage[v] \in {"linkback", "unlink", "unlinked"} => Target(v) # None
        /\ stage[v] \in {"link", "linkback"} => stage[p] \in Live
        /\ stage[v] = "unlink" => Target(p) # None /\ stage[p] \notin {"link", "linkback", "unlink"}
        /\ stage[v] = "unlinked" => Target(p) = None /\ stage[p] \notin {"link", "linkback"}

LinkInv == \A v \in Vm : vuarts[<<v, 0>>].target = None /\ End(v)

-----------------------------------------------------------------------------
(* The FIFO.                                                               *)

\* The place k places behind place r in a ring of n.
Ring(n, r, k) == IF r + k < n THEN r + k ELSE r + k - n

LEMMA RingMod ==
    ASSUME NEW n \in Nat \ {0}, NEW r \in 0 .. n - 1, NEW k \in 0 .. n
    PROVE  (r + k) % n = Ring(n, r, k) /\ Ring(n, r, k) \in 0 .. n - 1
  BY DEF Ring

\* One further from the start is one more to go.
LEMMA RingShift ==
    ASSUME NEW n \in Nat \ {0}, NEW r \in 0 .. n - 1, NEW k \in 0 .. n - 1, NEW m, m = k + 1
    PROVE  /\ Ring(n, Ring(n, r, 1), k) = Ring(n, r, m)
           /\ Ring(n, Ring(n, r, k), 1) = Ring(n, r, m)
  BY DEF Ring

\* A full turn, and the place where it starts.
LEMMA RingTurn ==
    ASSUME NEW n \in Nat \ {0}, NEW r \in 0 .. n - 1
    PROVE  /\ Ring(n, r, n) = r /\ Ring(n, r, 0) = r
           /\ \A k, m \in 0 .. n - 1 : k # m => Ring(n, r, k) # Ring(n, r, m)
  BY DEF Ring

LEMMA FifoFields ==
    ASSUME NEW n \in Nat \ {0}, NEW f \in Fifo(n)
    PROVE  /\ f.buf \in [0 .. n - 1 -> Char] /\ f.size = n
           /\ f.rindex \in 0 .. n - 1 /\ f.windex \in 0 .. n - 1 /\ f.num \in 0 .. n
           /\ f.windex = Ring(n, f.rindex, f.num)
           /\ f \in FifoSet(n)
<1>1. f \in FifoSet(n) /\ f.windex = (f.rindex + f.num) % n
  BY DEF Fifo
<1>2. f.rindex \in 0 .. n - 1 /\ f.num \in 0 .. n
  BY <1>1 DEF FifoSet
<1>3. (f.rindex + f.num) % n = Ring(n, f.rindex, f.num)
  BY <1>2, RingMod
<1> QED
  BY <1>1, <1>3 DEF FifoSet

LEMMA FifoIs ==
    ASSUME NEW n \in Nat \ {0}, NEW g \in FifoSet(n), g.windex = Ring(n, g.rindex, g.num)
    PROVE  g \in Fifo(n)
<1>1. g.rindex \in 0 .. n - 1 /\ g.num \in 0 .. n
  BY DEF FifoSet
<1>2. (g.rindex + g.num) % n = Ring(n, g.rindex, g.num)
  BY <1>1, RingMod
<1> QED
  BY <1>2 DEF Fifo

\* Where the characters of a FIFO are.
LEMMA ContentsAt ==
    ASSUME NEW n \in Nat \ {0}, NEW f \in Fifo(n)
    PROVE  /\ DOMAIN Contents(f) = 1 .. f.num
           /\ \A i \in 1 .. f.num : /\ Contents(f)[i] = f.buf[Ring(n, f.rindex, i - 1)]
                                    /\ Ring(n, f.rindex, i - 1) \in 0 .. n - 1
<1>1. f.size = n /\ f.rindex \in 0 .. n - 1 /\ f.num \in 0 .. n
  BY FifoFields
<1>2. DOMAIN Contents(f) = 1 .. f.num
  BY DEF Contents
<1>3. ASSUME NEW i \in 1 .. f.num
      PROVE  /\ Contents(f)[i] = f.buf[Ring(n, f.rindex, i - 1)]
             /\ Ring(n, f.rindex, i - 1) \in 0 .. n - 1
  <2>1. i - 1 \in 0 .. n /\ f.rindex + i - 1 = f.rindex + (i - 1)
    BY <1>1
  <2>2. Contents(f)[i] = f.buf[(f.rindex + i - 1) % n]
    BY <1>1 DEF Contents
  <2>3. /\ (f.rindex + (i - 1)) % n = Ring(n, f.rindex, i - 1)
        /\ Ring(n, f.rindex, i - 1) \in 0 .. n - 1
    BY <1>1, <2>1, RingMod
  <2> QED
    BY <2>1, <2>2, <2>3
<1> QED
  BY <1>2, <1>3

\* fifo_putchar: its fields.
LEMMA PutFields ==
    ASSUME NEW n \in Nat \ {0}, NEW f \in Fifo(n), NEW ch \in Char, NEW g, g = fifo_putchar(f, ch)
    PROVE  /\ g \in Fifo(n)
           /\ g.buf = [f.buf EXCEPT ![f.windex] = ch]
           /\ g.num = IF f.num < n THEN f.num + 1 ELSE n
           /\ g.rindex = IF f.num < n THEN f.rindex ELSE Ring(n, f.rindex, 1)
<1>1. /\ f.buf \in [0 .. n - 1 -> Char] /\ f.size = n
      /\ f.rindex \in 0 .. n - 1 /\ f.windex \in 0 .. n - 1 /\ f.num \in 0 .. n
      /\ f.windex = Ring(n, f.rindex, f.num)
      /\ f \in FifoSet(n) /\ 1 \in 0 .. n
  BY FifoFields
<1>2. /\ (f.windex + 1) % n = Ring(n, f.windex, 1) /\ (f.rindex + 1) % n = Ring(n, f.rindex, 1)
      /\ Ring(n, f.windex, 1) \in 0 .. n - 1 /\ Ring(n, f.rindex, 1) \in 0 .. n - 1
  BY <1>1, RingMod
<1> DEFINE w == Ring(n, f.windex, 1)
           k == IF f.num < n THEN f.num + 1 ELSE n
           r == IF f.num < n THEN f.rindex ELSE Ring(n, f.rindex, 1)
           buf == [f.buf EXCEPT ![f.windex] = ch]
<1>3. k = IF f.num < n THEN f.num + 1 ELSE f.num
  BY <1>1
<1>4. g = [f EXCEPT !.buf = buf, !.windex = w, !.num = k, !.rindex = r]
  BY <1>1, <1>2, <1>3 DEF fifo_putchar, FifoSet
<1>5. buf \in [0 .. n - 1 -> Char] /\ k \in 0 .. n /\ r \in 0 .. n - 1 /\ w \in 0 .. n - 1
  <2>1. buf \in [0 .. n - 1 -> Char]
    BY <1>1
  <2>2. k \in 0 .. n
    BY <1>1
  <2>3. r \in 0 .. n - 1 /\ w \in 0 .. n - 1
    BY <1>1, <1>2
  <2> QED
    BY <2>1, <2>2, <2>3
<1>6. w = Ring(n, r, k)
  <2>1. CASE f.num < n
    <3>1. f.num \in 0 .. n - 1
      BY <1>1, <2>1
    <3> QED
      BY <1>1, <2>1, <3>1, RingShift
  <2>2. CASE f.num = n
    <3>1. w = Ring(n, f.rindex, 1) /\ r = Ring(n, f.rindex, 1) /\ k = n
      BY <1>1, <2>2, RingTurn
    <3>2. Ring(n, Ring(n, f.rindex, 1), n) = Ring(n, f.rindex, 1)
      BY <1>2, RingTurn
    <3> QED
      BY <3>1, <3>2
  <2> QED
    BY <1>1, <2>1, <2>2
<1> HIDE DEF w, k, r, buf
<1>7. /\ g \in FifoSet(n)
      /\ g.buf = buf /\ g.windex = w /\ g.num = k /\ g.rindex = r
  BY <1>1, <1>4, <1>5 DEF FifoSet
<1>8. g \in Fifo(n)
  BY <1>6, <1>7, FifoIs
<1> QED
  BY <1>7, <1>8 DEF k, r, buf

\* A character is put behind the others; a full FIFO loses the first of them.
LEMMA PutContents ==
    ASSUME NEW n \in Nat \ {0}, NEW f \in Fifo(n), NEW ch \in Char, NEW g, g = fifo_putchar(f, ch)
    PROVE  /\ g \in Fifo(n) /\ g.num \in 1 .. n
           /\ Contents(g)[g.num] = ch
           /\ \E d \in {0, 1} : \A i \in 1 .. g.num - 1 :
                i + d \in 1 .. f.num /\ Contents(g)[i] = Contents(f)[i + d]
<1>1. /\ f.buf \in [0 .. n - 1 -> Char]
      /\ f.rindex \in 0 .. n - 1 /\ f.windex \in 0 .. n - 1 /\ f.num \in 0 .. n
      /\ f.windex = Ring(n, f.rindex, f.num)
  BY FifoFields
<1>2. /\ g \in Fifo(n)
      /\ g.buf = [f.buf EXCEPT ![f.windex] = ch]
      /\ g.num = (IF f.num < n THEN f.num + 1 ELSE n)
      /\ g.rindex = (IF f.num < n THEN f.rindex ELSE Ring(n, f.rindex, 1))
  BY PutFields
<1>3. /\ \A k \in 0 .. n - 1 : k # f.windex => g.buf[k] = f.buf[k]
      /\ g.buf[f.windex] = ch
  BY <1>1, <1>2
<1>4. \A i \in 1 .. f.num : /\ Contents(f)[i] = f.buf[Ring(n, f.rindex, i - 1)]
                           /\ Ring(n, f.rindex, i - 1) \in 0 .. n - 1
  BY ContentsAt
<1>5. \A i \in 1 .. g.num : Contents(g)[i] = g.buf[Ring(n, g.rindex, i - 1)]
  <2>1. g \in Fifo(n)
    BY <1>2
  <2>2. \A h \in Fifo(n) : \A i \in 1 .. h.num : Contents(h)[i] = h.buf[Ring(n, h.rindex, i - 1)]
    BY ContentsAt
  <2> QED
    BY <2>1, <2>2
<1>6. CASE f.num < n
  <2>1. g.rindex = f.rindex /\ g.num = f.num + 1 /\ g.num \in 1 .. n /\ f.num \in 0 .. n - 1
    BY <1>1, <1>2, <1>6
  <2>2. g.num - 1 = f.num /\ g.num \in 1 .. g.num
    BY <1>1, <2>1
  <2>3. Contents(g)[g.num] = ch
    BY <1>1, <1>2, <1>3, <2>1, <2>2, ContentsAt
  <2>4. ASSUME NEW i \in 1 .. g.num - 1
        PROVE  i + 0 \in 1 .. f.num /\ Contents(g)[i] = Contents(f)[i + 0]
    <3>1. i \in 1 .. f.num /\ i + 0 = i /\ i \in 1 .. g.num /\ i - 1 \in 0 .. n - 1 /\ i - 1 # f.num
      BY <1>1, <2>1, <2>2
    <3>2. /\ Contents(g)[i] = g.buf[Ring(n, f.rindex, i - 1)]
          /\ Contents(f)[i] = f.buf[Ring(n, f.rindex, i - 1)]
          /\ Ring(n, f.rindex, i - 1) \in 0 .. n - 1
      BY <2>1, <3>1, <1>4, <1>5
    <3>3. Ring(n, f.rindex, i - 1) # f.windex
      BY <1>1, <2>1, <3>1, RingTurn
    <3> QED
      BY <1>3, <3>1, <3>2, <3>3
  <2>5. \A i \in 1 .. g.num - 1 : i + 0 \in 1 .. f.num /\ Contents(g)[i] = Contents(f)[i + 0]
    BY <2>4
  <2> QED
    BY <1>2, <2>1, <2>3, <2>5
<1>7. CASE f.num = n
  <2>1. /\ g.rindex = Ring(n, f.rindex, 1) /\ g.num = n /\ f.windex = f.rindex
        /\ g.num \in 1 .. g.num /\ g.num \in 1 .. n
    BY <1>1, <1>2, <1>7, RingTurn
  <2>2. ASSUME NEW i \in 1 .. g.num
        PROVE  Contents(g)[i] = g.buf[Ring(n, f.rindex, i)] /\ Ring(n, f.rindex, i) \in 0 .. n - 1
    <3>1. i - 1 \in 0 .. n - 1 /\ (i - 1) + 1 = i /\ i \in 0 .. n
      BY <2>1
    <3>2. Contents(g)[i] = g.buf[Ring(n, g.rindex, i - 1)]
      BY <1>5
    <3>3. Ring(n, Ring(n, f.rindex, 1), i - 1) = Ring(n, f.rindex, i)
      BY <1>1, <3>1, RingShift
    <3> QED
      BY <1>1, <2>1, <3>1, <3>2, <3>3, RingMod
  <2>3. Contents(g)[g.num] = ch
    BY <1>1, <1>3, <2>1, <2>2, RingTurn
  <2>4. ASSUME NEW i \in 1 .. g.num - 1
        PROVE  i + 1 \in 1 .. f.num /\ Contents(g)[i] = Contents(f)[i + 1]
    <3>1. /\ i \in 1 .. g.num /\ i + 1 \in 1 .. f.num /\ (i + 1) - 1 = i
          /\ i \in 0 .. n - 1 /\ 0 \in 0 .. n - 1 /\ i # 0
      BY <1>7, <2>1
    <3>2. Contents(f)[i + 1] = f.buf[Ring(n, f.rindex, i)]
      BY <3>1, ContentsAt
    <3>3. Ring(n, f.rindex, i) # f.windex
      <4>1. Ring(n, f.rindex, i) # Ring(n, f.rindex, 0) /\ Ring(n, f.rindex, 0) = f.rindex
        BY <1>1, <3>1, RingTurn
      <4> QED
        BY <2>1, <4>1
    <3> QED
      BY <1>3, <2>2, <3>1, <3>2, <3>3
  <2>5. \A i \in 1 .. g.num - 1 : i + 1 \in 1 .. f.num /\ Contents(g)[i] = Contents(f)[i + 1]
    BY <2>4
  <2> QED
    BY <1>2, <2>1, <2>3, <2>5
<1> QED
  BY <1>1, <1>6, <1>7

\* fifo_getchar takes the first character.
LEMMA RestContents ==
    ASSUME NEW n \in Nat \ {0}, NEW f \in Fifo(n), f.num > 0, NEW g, g = fifo_rest(f)
    PROVE  /\ g \in Fifo(n) /\ g.buf = f.buf /\ g.num = f.num - 1
           /\ fifo_front(f) = Contents(f)[1]
           /\ \A i \in 1 .. g.num : i + 1 \in 1 .. f.num /\ Contents(g)[i] = Contents(f)[i + 1]
<1>1. /\ f.buf \in [0 .. n - 1 -> Char] /\ f.size = n
      /\ f.rindex \in 0 .. n - 1 /\ f.windex \in 0 .. n - 1 /\ f.num \in 1 .. n
      /\ f.windex = Ring(n, f.rindex, f.num)
      /\ f \in FifoSet(n) /\ 1 \in 0 .. n
  BY FifoFields
<1> DEFINE r == Ring(n, f.rindex, 1)
           k == f.num - 1
<1>2. (f.rindex + 1) % n = r /\ r \in 0 .. n - 1
  BY <1>1, RingMod
<1>3. k \in 0 .. n - 1 /\ k \in 0 .. n /\ k + 1 = f.num
  BY <1>1
<1>4. g = [f EXCEPT !.rindex = r, !.num = k]
  BY <1>1, <1>2 DEF fifo_rest
<1>5. f.windex = Ring(n, r, k)
  BY <1>1, <1>3, RingShift
<1>6. fifo_front(f) = Contents(f)[1]
  <2>1. 1 \in 1 .. f.num /\ 1 - 1 = 0
    BY <1>1
  <2>2. Contents(f)[1] = f.buf[Ring(n, f.rindex, 0)]
    BY <2>1, ContentsAt
  <2> QED
    BY <1>1, <2>2, RingTurn DEF fifo_front
<1> HIDE DEF r, k
<1>7. g \in FifoSet(n) /\ g.buf = f.buf /\ g.num = k /\ g.rindex = r /\ g.windex = f.windex
  BY <1>1, <1>2, <1>3, <1>4 DEF FifoSet
<1>8. g \in Fifo(n)
  BY <1>5, <1>7, FifoIs
<1>9. ASSUME NEW i \in 1 .. g.num
      PROVE  i + 1 \in 1 .. f.num /\ Contents(g)[i] = Contents(f)[i + 1]
  <2>1. i + 1 \in 1 .. f.num /\ i - 1 \in 0 .. n - 1 /\ (i - 1) + 1 = i /\ (i + 1) - 1 = i
    BY <1>1, <1>3, <1>7
  <2>2. Contents(g)[i] = f.buf[Ring(n, r, i - 1)] /\ Contents(f)[i + 1] = f.buf[Ring(n, f.rindex, i)]
    BY <1>7, <1>8, <2>1, ContentsAt
  <2>3. Ring(n, r, i - 1) = Ring(n, f.rindex, i)
    BY <1>1, <2>1, RingShift DEF r
  <2> QED
    BY <2>1, <2>2, <2>3
<1> QED
  BY <1>6, <1>7, <1>8, <1>9 DEF k

\* What a put keeps: the order of the characters of a source.
LEMMA PutInOrder ==
    ASSUME NEW n \in Nat \ {0}, NEW f \in Fifo(n), NEW ch \in Char, NEW read \in SUBSET Char,
           InOrder(f, read),
           \A i \in 0 .. n - 1 : Before(f.buf[i], ch),
           \A c \in read : Before(c, ch)
    PROVE  InOrder(fifo_putchar(f, ch), read)
<1> DEFINE g == fifo_putchar(f, ch)
<1>1. /\ f.num \in 0 .. n /\ f.rindex \in 0 .. n - 1
  BY FifoFields
<1>2. g \in Fifo(n) /\ g.num \in 1 .. n /\ Contents(g)[g.num] = ch
  BY PutContents
<1>3. PICK d \in {0, 1} :
        \A i \in 1 .. g.num - 1 : i + d \in 1 .. f.num /\ Contents(g)[i] = Contents(f)[i + d]
  BY PutContents
<1>4. DOMAIN Contents(f) = 1 .. f.num /\ DOMAIN Contents(g) = 1 .. g.num
  BY <1>2, ContentsAt
<1>5. \A i \in 1 .. f.num : Before(Contents(f)[i], ch)
  <2> SUFFICES ASSUME NEW i \in 1 .. f.num PROVE Before(Contents(f)[i], ch)
    OBVIOUS
  <2>1. PICK k \in 0 .. n - 1 : Contents(f)[i] = f.buf[k]
    BY ContentsAt
  <2> QED
    BY <2>1
<1>6. /\ \A i, j \in 1 .. f.num : i < j => Before(Contents(f)[i], Contents(f)[j])
      /\ \A c \in read, i \in 1 .. f.num : Before(c, Contents(f)[i])
  BY <1>4 DEF InOrder
<1> HIDE DEF g
<1>7. ASSUME NEW i \in 1 .. g.num, NEW j \in 1 .. g.num, i < j
      PROVE  Before(Contents(g)[i], Contents(g)[j])
  <2>1. i \in 1 .. g.num - 1 /\ (j = g.num \/ j \in 1 .. g.num - 1)
    BY <1>2, <1>7
  <2>2. i + d \in 1 .. f.num /\ Contents(g)[i] = Contents(f)[i + d]
    BY <1>3, <2>1
  <2>3. CASE j = g.num
    BY <1>2, <1>5, <2>2, <2>3
  <2>4. CASE j \in 1 .. g.num - 1
    <3>1. j + d \in 1 .. f.num /\ Contents(g)[j] = Contents(f)[j + d] /\ i + d < j + d
      BY <1>2, <1>3, <1>7, <2>4
    <3> QED
      BY <1>6, <2>2, <3>1
  <2> QED
    BY <2>1, <2>3, <2>4
<1>8. ASSUME NEW c \in read, NEW i \in 1 .. g.num
      PROVE  Before(c, Contents(g)[i])
  <2>1. i = g.num \/ i \in 1 .. g.num - 1
    BY <1>2
  <2>2. Before(c, ch)
    OBVIOUS
  <2> QED
    BY <1>2, <1>3, <1>6, <2>1, <2>2
<1>9. InOrder(g, read)
  BY <1>4, <1>7, <1>8 DEF InOrder
<1> QED
  BY <1>9 DEF g

\* What a reader takes is older than all that is left.
LEMMA RestInOrder ==
    ASSUME NEW n \in Nat \ {0}, NEW f \in Fifo(n), NEW read \in SUBSET Char, InOrder(f, read)
    PROVE  /\ fifo_rest(f) \in Fifo(n) /\ fifo_rest(f).buf = f.buf
           /\ InOrder(fifo_rest(f), read)
           /\ InOrder(fifo_rest(f), read \cup {fifo_front(f)})
           /\ fifo_front(f) # None => \E i \in 0 .. n - 1 : fifo_front(f) = f.buf[i]
<1> DEFINE g == fifo_rest(f)
<1>0. f.num \in 0 .. n /\ f.rindex \in 0 .. n - 1
  BY FifoFields
<1>1. DOMAIN Contents(f) = 1 .. f.num
  BY ContentsAt
<1>2. CASE f.num = 0
  <2>1. g = f /\ fifo_front(f) = None
    BY <1>2 DEF fifo_rest, fifo_front
  <2>2. DOMAIN Contents(f) = {}
    BY <1>1, <1>2
  <2> QED
    BY <2>1, <2>2 DEF InOrder
<1>3. CASE f.num > 0
  <2>1. /\ g \in Fifo(n) /\ g.buf = f.buf /\ g.num = f.num - 1
        /\ fifo_front(f) = Contents(f)[1]
        /\ \A i \in 1 .. g.num : i + 1 \in 1 .. f.num /\ Contents(g)[i] = Contents(f)[i + 1]
    BY <1>3, RestContents
  <2>2. DOMAIN Contents(g) = 1 .. g.num
    BY <2>1, ContentsAt
  <2>3. /\ \A i, j \in 1 .. f.num : i < j => Before(Contents(f)[i], Contents(f)[j])
        /\ \A c \in read, i \in 1 .. f.num : Before(c, Contents(f)[i])
    BY <1>1 DEF InOrder
  <2>4. fifo_front(f) = f.buf[f.rindex]
    BY <1>3 DEF fifo_front
  <2> HIDE DEF g
  <2>5. ASSUME NEW i \in 1 .. g.num, NEW j \in 1 .. g.num, i < j
        PROVE  Before(Contents(g)[i], Contents(g)[j])
    <3>1. i + 1 < j + 1
      BY <1>0, <2>1, <2>5
    <3> QED
      BY <2>1, <2>3, <3>1
  <2>6. \A c \in read, i \in 1 .. g.num : Before(c, Contents(g)[i])
    BY <2>1, <2>3
  <2>7. \A i \in 1 .. g.num : Before(fifo_front(f), Contents(g)[i])
    <3>1. \A i \in 1 .. g.num : 1 < i + 1 /\ 1 \in 1 .. f.num
      BY <1>0, <1>3, <2>1
    <3> QED
      BY <2>1, <2>3, <3>1
  <2>8. InOrder(g, read) /\ InOrder(g, read \cup {fifo_front(f)})
    BY <2>2, <2>5, <2>6, <2>7 DEF InOrder
  <2> QED
    BY <1>0, <2>1, <2>4, <2>8 DEF g
<1> QED
  BY <1>0, <1>2, <1>3

\* A FIFO that is reset is empty.
LEMMA ResetInOrder ==
    ASSUME NEW n \in Nat \ {0}, NEW f \in Fifo(n), NEW read
    PROVE  /\ fifo_reset(f) \in Fifo(n) /\ fifo_reset(f).buf = f.buf
           /\ InOrder(fifo_reset(f), read)
<1> DEFINE g == fifo_reset(f)
<1>1. f \in FifoSet(n) /\ 0 \in 0 .. n - 1 /\ 0 \in 0 .. n
  BY FifoFields
<1>2. /\ g \in FifoSet(n) /\ g.buf = f.buf /\ g.num = 0 /\ g.rindex = 0 /\ g.windex = 0
      /\ Ring(n, 0, 0) = 0
  <2>1. Ring(n, 0, 0) = 0
    BY DEF Ring
  <2>2. g = [f EXCEPT !.rindex = 0, !.windex = 0, !.num = 0]
    BY DEF fifo_reset
  <2> HIDE DEF g
  <2> QED
    BY <1>1, <2>1, <2>2 DEF FifoSet
<1>3. g \in Fifo(n)
  BY <1>2, FifoIs
<1>4. DOMAIN Contents(g) = {}
  BY <1>2, <1>3, ContentsAt
<1> QED
  BY <1>2, <1>3, <1>4 DEF InOrder

-----------------------------------------------------------------------------
(* What the operations on a vUART leave alone, and what they do to its FIFOs. *)

LEMMA SizesPositive == RX_BUF_SIZE \in Nat \ {0} /\ TX_BUF_SIZE \in Nat \ {0}
  BY VuartAssumption

LEMMA FifoPut ==
    ASSUME NEW n \in Nat \ {0}, NEW f \in Fifo(n), NEW ch \in Char
    PROVE  fifo_putchar(f, ch) \in Fifo(n)
  BY PutFields

LEMMA FifoRest ==
    ASSUME NEW n \in Nat \ {0}, NEW f \in Fifo(n)
    PROVE  fifo_rest(f) \in Fifo(n)
<1>1. f.num \in 0 .. n
  BY FifoFields
<1>2. CASE f.num > 0
  BY <1>2, RestContents
<1>3. CASE f.num = 0
  BY <1>3 DEF fifo_rest
<1> QED
  BY <1>1, <1>2, <1>3

LEMMA FifoReset ==
    ASSUME NEW n \in Nat \ {0}, NEW f \in Fifo(n)
    PROVE  fifo_reset(f) \in Fifo(n)
  BY ResetInOrder

LEMMA VuartSetup ==
    ASSUME NEW vu \in VuartSet
    PROVE  /\ vuart_setup(vu) \in VuartSet
           /\ vuart_setup(vu).active = TRUE /\ vuart_setup(vu).target = None
           /\ vuart_setup(vu).rxfifo = fifo_reset(vu.rxfifo)
           /\ vuart_setup(vu).txfifo = fifo_reset(vu.txfifo)
<1>1. vu.rxfifo \in Fifo(RX_BUF_SIZE) /\ vu.txfifo \in Fifo(TX_BUF_SIZE)
  BY DEF VuartSet
<1>2. fifo_reset(vu.rxfifo) \in Fifo(RX_BUF_SIZE) /\ fifo_reset(vu.txfifo) \in Fifo(TX_BUF_SIZE)
  BY <1>1, FifoReset, SizesPositive
<1> QED
  BY <1>2 DEF vuart_setup, VuartSet

LEMMA VuartThr ==
    ASSUME NEW vu \in VuartSet, NEW ch \in Char, NEW u, u = WriteThr(vu, ch)
    PROVE  /\ u \in VuartSet /\ u.active = vu.active /\ u.target = vu.target
           /\ u.rxfifo = vu.rxfifo \/ u.rxfifo = fifo_putchar(vu.rxfifo, ch)
           /\ u.txfifo = vu.txfifo \/ u.txfifo = fifo_putchar(vu.txfifo, ch)
<1>1. vu.rxfifo \in Fifo(RX_BUF_SIZE) /\ vu.txfifo \in Fifo(TX_BUF_SIZE)
  BY DEF VuartSet
<1>2. /\ fifo_putchar(vu.rxfifo, ch) \in Fifo(RX_BUF_SIZE)
      /\ fifo_putchar(vu.txfifo, ch) \in Fifo(TX_BUF_SIZE)
  BY <1>1, FifoPut, SizesPositive
<1>3. CASE u = vu
  BY <1>3
<1>4. CASE u = [vu EXCEPT !.rxfifo = fifo_putchar(vu.rxfifo, ch), !.oe = TRUE, !.thre = TRUE]
  BY <1>2, <1>4 DEF VuartSet
<1>5. CASE u = [vu EXCEPT !.txfifo = fifo_putchar(vu.txfifo, ch), !.thre = TRUE]
  BY <1>2, <1>5 DEF VuartSet
<1> QED
  BY <1>3, <1>4, <1>5 DEF WriteThr

LEMMA VuartSend ==
    ASSUME NEW vu \in VuartSet, NEW ch \in Char, NEW u, u = send_to_target(vu, ch)
    PROVE  /\ u \in VuartSet /\ u.active = vu.active /\ u.target = vu.target
           /\ u.rxfifo = vu.rxfifo \/ u.rxfifo = fifo_putchar(vu.rxfifo, ch)
           /\ u.txfifo = vu.txfifo
<1>1. vu.rxfifo \in Fifo(RX_BUF_SIZE)
  BY DEF VuartSet
<1>2. fifo_putchar(vu.rxfifo, ch) \in Fifo(RX_BUF_SIZE)
  BY <1>1, FifoPut, SizesPositive
<1>3. CASE u = vu
  BY <1>3
<1>4. CASE u = [vu EXCEPT !.rxfifo = fifo_putchar(vu.rxfifo, ch), !.thre = TRUE]
  BY <1>2, <1>4 DEF VuartSet
<1> QED
  BY <1>3, <1>4 DEF send_to_target

LEMMA VuartRead ==
    ASSUME NEW vu \in VuartSet, NEW reg \in {"RBR", "IIR", "LSR", "MSR"}, NEW u, u = vuart_read(vu, reg)
    PROVE  /\ u \in VuartSet /\ u.active = vu.active /\ u.target = vu.target
           /\ u.rxfifo = IF reg = "RBR" /\ ~vu.dlab THEN fifo_rest(vu.rxfifo) ELSE vu.rxfifo
           /\ u.txfifo = vu.txfifo
<1>1. vu.rxfifo \in Fifo(RX_BUF_SIZE)
  BY DEF VuartSet
<1>2. fifo_rest(vu.rxfifo) \in Fifo(RX_BUF_SIZE)
  BY <1>1, FifoRest, SizesPositive
<1>3. CASE vu.dlab
  BY <1>3 DEF vuart_read
<1>4. CASE ~vu.dlab /\ reg = "RBR"
  <2>1. u = [vu EXCEPT !.oe = FALSE, !.rxfifo = fifo_rest(vu.rxfifo)]
    BY <1>4 DEF vuart_read
  <2> QED
    BY <1>2, <1>4, <2>1 DEF VuartSet
<1>5. CASE ~vu.dlab /\ reg = "IIR"
  <2>1. PICK b \in BOOLEAN : u = [vu EXCEPT !.thre = b]
    BY <1>5 DEF vuart_read
  <2> QED
    BY <1>5, <2>1 DEF VuartSet
<1>6. CASE ~vu.dlab /\ reg = "LSR"
  <2>1. u = [vu EXCEPT !.oe = FALSE]
    BY <1>6 DEF vuart_read
  <2> QED
    BY <1>6, <2>1 DEF VuartSet
<1>7. CASE ~vu.dlab /\ reg = "MSR"
  <2>1. u = [vu EXCEPT !.msr = vu.msr \ MSR_DELTA_MASK]
    BY <1>7 DEF vuart_read
  <2> QED
    BY <1>7, <2>1 DEF VuartSet
<1> QED
  BY <1>3, <1>4, <1>5, <1>6, <1>7

LEMMA ModemStatus ==
    ASSUME NEW mcr, NEW old \in SUBSET MsrBit
    PROVE  update_modem_status(get_modem_status(mcr), old) \in SUBSET MsrBit
<1>1. get_modem_status(mcr) \in SUBSET MsrBit
  BY Zenon DEF get_modem_status, MsrBit
<1> HIDE DEF get_modem_status
<1>2. \A new \in SUBSET MsrBit : update_modem_status(new, old) \in SUBSET MsrBit
  BY DEF update_modem_status, MSR_DELTA_MASK, MsrBit
<1> QED
  BY <1>1, <1>2

LEMMA VuartWrite ==
    ASSUME NEW vu \in VuartSet, NEW x, NEW w \in RegValues(x), NEW u, u = write_reg(vu, w[1], w[2])
    PROVE  /\ u \in VuartSet /\ u.active = vu.active /\ u.target = vu.target
           /\ u.rxfifo = vu.rxfifo \/ (w[1] = "FCR" /\ u.rxfifo = fifo_reset(vu.rxfifo))
           /\ u.txfifo = vu.txfifo
<1>1. vu.rxfifo \in Fifo(RX_BUF_SIZE)
  BY DEF VuartSet
<1>2. fifo_reset(vu.rxfifo) \in Fifo(RX_BUF_SIZE)
  BY <1>1, FifoReset, SizesPositive
<1>3. CASE w = <<"FCR", TRUE>>
  <2>1. u = [vu EXCEPT !.rxfifo = fifo_reset(vu.rxfifo)] /\ w[1] = "FCR"
    BY <1>3 DEF write_reg
  <2> QED
    BY <1>2, <2>1 DEF VuartSet
<1>4. CASE \E b \in BOOLEAN : w = <<"LCR", b>>
  <2>1. PICK b \in BOOLEAN : w = <<"LCR", b>>
    BY <1>4
  <2>2. u = [vu EXCEPT !.dlab = b]
    BY <2>1 DEF write_reg
  <2> QED
    BY <2>2 DEF VuartSet
<1>5. CASE \E s \in SUBSET IerBit : w = <<"IER", s>>
  <2>1. PICK s \in SUBSET IerBit : w = <<"IER", s>>
    BY <1>5
  <2>2. u = vu \/ u = WriteIer(vu, s)
    BY <2>1 DEF write_reg
  <2>3. WriteIer(vu, s) = [vu EXCEPT !.thre = (vu.thre \/ "ETBEI" \in s \ vu.ier), !.ier = s]
    BY DEF WriteIer
  <2>4. PICK b \in BOOLEAN : u = vu \/ u = [vu EXCEPT !.thre = b, !.ier = s]
    BY <2>2, <2>3
  <2> QED
    BY <2>4 DEF VuartSet
<1>6. CASE \E s \in SUBSET McrBit : w = <<"MCR", s>>
  <2>1. PICK s \in SUBSET McrBit : w = <<"MCR", s>>
    BY <1>6
  <2> DEFINE m == update_modem_status(get_modem_status(s), vu.msr)
  <2>2. u = [vu EXCEPT !.mcr = s, !.msr = m]
    BY <2>1 DEF write_reg, WriteMcr
  <2>3. m \in SUBSET MsrBit
    BY ModemStatus DEF VuartSet
  <2> HIDE DEF m
  <2> QED
    BY <2>2, <2>3 DEF VuartSet
<1>7. \/ w = <<"FCR", TRUE>> \/ \E b \in BOOLEAN : w = <<"LCR", b>>
      \/ \E s \in SUBSET IerBit : w = <<"IER", s>>
      \/ \E s \in SUBSET McrBit : w = <<"MCR", s>>
  <2>1. /\ {} \in SUBSET IerBit /\ {"ERBFI", "ETBEI"} \in SUBSET IerBit
        /\ {} \in SUBSET McrBit /\ {"LOOPBACK", "OUT1"} \in SUBSET McrBit
    BY DEF IerBit, McrBit
  <2>2. \/ w \in {<<"IER", {}>>, <<"IER", {"ERBFI", "ETBEI"}>>, <<"FCR", TRUE>>}
        \/ w \in {<<"MCR", {"LOOPBACK", "OUT1"}>>, <<"MCR", {}>>}
        \/ w \in {<<"LCR", TRUE>>, <<"LCR", FALSE>>}
    BY Zenon DEF RegValues
  <2> QED
    BY <2>1, <2>2, Zenon
<1> QED
  BY <1>3, <1>4, <1>5, <1>6, <1>7

-----------------------------------------------------------------------------
(* Characters: the steps that move none.                                   *)

\* A step that at most resets FIFOs, of vUARTs whose guests know of no character.
Calm == /\ vuarts' \in [Vu -> VuartSet]
        /\ \A y \in Vu :
             /\ \/ vuarts'[y].rxfifo = vuarts[y].rxfifo
                \/ vuarts'[y].rxfifo = fifo_reset(vuarts[y].rxfifo) /\ y \notin ready'
             /\ \/ vuarts'[y].txfifo = vuarts[y].txfifo
                \/ vuarts'[y].txfifo = fifo_reset(vuarts[y].txfifo)
        /\ UNCHANGED <<sent, got, out>> /\ ready' \subseteq ready

\* No guest begins to write.
NoWrite == /\ gp' \in [Vm -> GuestPlace] /\ req' = req
           /\ \A v \in Vm : gp'[v] = gp[v] \/ gp'[v] \notin {"send", "write"}

ConTypes == /\ cvu \in Vu \cup {None} /\ (con \in {"rx", "tx"} => cvu # None)
            /\ console_vmid \in Vm \cup {None}

LEMMA Fifos ==
    ASSUME UartTypes, NEW x \in Vu
    PROVE  /\ vuarts[x].rxfifo \in Fifo(RX_BUF_SIZE) /\ vuarts[x].txfifo \in Fifo(TX_BUF_SIZE)
           /\ vuarts[x] \in VuartSet
           /\ got[x] \in SUBSET Char /\ out[x] \in SUBSET Char
  BY DEF UartTypes, VuartSet

\* Nothing new is seen and nothing new is on its way.
LEMMA CharsFewer ==
    ASSUME CharsInv, UartTypes, sent' = sent, \A x \in Vu : Seen(x)' \subseteq Seen(x),
           \A v \in Vm : Pending(v)' => Pending(v) /\ req'[v] = req[v]
    PROVE  CharsInv'
<1>1. ASSUME NEW x \in Vu, NEW c \in Seen(x)'
      PROVE  Old(c)'
  <2>1. Old(c)
    BY DEF CharsInv
  <2> QED
    BY <2>1 DEF Old
<1>2. \A v \in Vm : Pending(v)' /\ req'[v][2] # None =>
        req'[v][2][1] \in {<<v, 0>>, <<v, 1>>} /\ req'[v][2][2] <= sent'[req'[v][2][1]]
  BY DEF CharsInv
<1> QED
  BY <1>1, <1>2 DEF CharsInv

LEMMA CalmOrder ==
    ASSUME UartTypes, CharsInOrder, Calm
    PROVE  CharsInOrder' /\ \A x \in Vu : Seen(x)' \subseteq Seen(x)
<1>1. ASSUME NEW x \in Vu
      PROVE  /\ InOrder(vuarts'[x].rxfifo, got'[x]) /\ InOrder(vuarts'[x].txfifo, out'[x])
             /\ vuarts'[x].rxfifo.buf = vuarts[x].rxfifo.buf
             /\ vuarts'[x].txfifo.buf = vuarts[x].txfifo.buf
             /\ got'[x] = got[x] /\ out'[x] = out[x]
  <2>1. vuarts[x].rxfifo \in Fifo(RX_BUF_SIZE) /\ vuarts[x].txfifo \in Fifo(TX_BUF_SIZE)
    BY Fifos
  <2>2. InOrder(vuarts[x].rxfifo, got[x]) /\ InOrder(vuarts[x].txfifo, out[x])
    BY DEF CharsInOrder
  <2>3. got' = got /\ out' = out
    BY DEF Calm
  <2>4. InOrder(vuarts'[x].rxfifo, got'[x]) /\ vuarts'[x].rxfifo.buf = vuarts[x].rxfifo.buf
    BY <2>1, <2>2, <2>3, SizesPositive, ResetInOrder DEF Calm
  <2>5. InOrder(vuarts'[x].txfifo, out'[x]) /\ vuarts'[x].txfifo.buf = vuarts[x].txfifo.buf
    BY <2>1, <2>2, <2>3, SizesPositive, ResetInOrder DEF Calm
  <2> QED
    BY <2>3, <2>4, <2>5
<1>2. ReadyMeansData'
  BY DEF CharsInOrder, ReadyMeansData, Calm, UartTypes
<1>3. CharsInOrder'
  BY <1>1, <1>2 DEF CharsInOrder
<1>4. ASSUME NEW x \in Vu
      PROVE  Seen(x)' \subseteq Seen(x)
  BY <1>1 DEF Seen
<1> QED
  BY <1>3, <1>4

LEMMA CalmStep ==
    ASSUME CharsIInv, Calm, NoWrite, ConTypes'
    PROVE  CharsIInv'
<1>1. \A v \in Vm : Pending(v)' => Pending(v) /\ req'[v] = req[v]
  BY DEF NoWrite, Pending
<1>2. CharsInOrder' /\ \A x \in Vu : Seen(x)' \subseteq Seen(x)
  BY CalmOrder DEF CharsIInv
<1>3. CharsInv'
  BY <1>1, <1>2, CharsFewer DEF CharsIInv, Calm
<1>4. UartTypes'
  BY DEF CharsIInv, UartTypes, Calm, NoWrite, ConTypes
<1> QED
  BY <1>2, <1>3, <1>4 DEF CharsIInv

\* A field of one vUART other than its FIFOs changes.
LEMMA CalmTouch ==
    ASSUME UartTypes, NEW x \in Vu, NEW u \in VuartSet, vuarts' = [vuarts EXCEPT ![x] = u],
           \/ u.rxfifo = vuarts[x].rxfifo
           \/ u.rxfifo = fifo_reset(vuarts[x].rxfifo) /\ x \notin ready',
           u.txfifo = vuarts[x].txfifo \/ u.txfifo = fifo_reset(vuarts[x].txfifo),
           UNCHANGED <<sent, got, out>>, ready' \subseteq ready
    PROVE  Calm
<1>1. vuarts \in [Vu -> VuartSet]
  BY DEF UartTypes
<1>2. vuarts' \in [Vu -> VuartSet] /\ vuarts'[x] = u /\ \A y \in Vu : y # x => vuarts'[y] = vuarts[y]
  BY <1>1
<1> QED
  BY <1>2 DEF Calm

LEMMA CalmSame ==
    ASSUME UartTypes, UNCHANGED uartVars
    PROVE  Calm
  BY DEF UartTypes, Calm, uartVars

LEMMA CalmTarget ==
    ASSUME UartTypes, NEW x \in Vu, NEW y \in Vu \cup {None}, SetTarget(x, y)
    PROVE  Calm
<1> DEFINE u == [vuarts[x] EXCEPT !.target = y]
<1>1. vuarts' = [vuarts EXCEPT ![x] = u] /\ UNCHANGED <<sent, ready, got, out>>
  BY DEF SetTarget
<1>2. vuarts[x] \in VuartSet
  BY Fifos
<1>3. u \in VuartSet /\ u.rxfifo = vuarts[x].rxfifo /\ u.txfifo = vuarts[x].txfifo
  BY <1>2 DEF VuartSet
<1> HIDE DEF u
<1> QED
  BY <1>1, <1>3, CalmTouch

LEMMA CalmActive ==
    ASSUME UartTypes, NEW x \in Vu, Deactivate(x)
    PROVE  Calm
<1> DEFINE u == [vuarts[x] EXCEPT !.active = FALSE]
<1>1. vuarts' = [vuarts EXCEPT ![x] = u] /\ UNCHANGED <<sent, ready, got, out>>
  BY DEF Deactivate
<1>2. vuarts[x] \in VuartSet
  BY Fifos
<1>3. u \in VuartSet /\ u.rxfifo = vuarts[x].rxfifo /\ u.txfifo = vuarts[x].txfifo
  BY <1>2 DEF VuartSet
<1> HIDE DEF u
<1> QED
  BY <1>1, <1>3, CalmTouch

LEMMA CalmSetup ==
    ASSUME UartTypes, NEW x \in Vu, vuarts' = [vuarts EXCEPT ![x] = vuart_setup(@)],
           ready' = ready \ {x}, UNCHANGED <<sent, got, out>>
    PROVE  Calm
<1>1. vuarts[x] \in VuartSet
  BY Fifos
<1>2. /\ vuart_setup(vuarts[x]) \in VuartSet
      /\ vuart_setup(vuarts[x]).rxfifo = fifo_reset(vuarts[x].rxfifo)
      /\ vuart_setup(vuarts[x]).txfifo = fifo_reset(vuarts[x].txfifo)
  BY <1>1, VuartSetup
<1>3. vuarts' = [vuarts EXCEPT ![x] = vuart_setup(vuarts[x])]
  OBVIOUS
<1> QED
  BY <1>2, <1>3, CalmTouch

LEMMA PeerVu ==
    ASSUME NEW v \in Vm
    PROVE  /\ <<v, 0>> \in Vu /\ <<v, 1>> \in Vu /\ <<Peer[v], 1>> \in Vu /\ Peer[v] \in Vm
           /\ Peer[Peer[v]] = v /\ <<v, 0>> # None /\ <<v, 1>> # None
<1>1. Peer[v] \in Vm /\ Peer[Peer[v]] = v /\ None \notin Vm \X {0, 1}
  BY DevicesAssumption
<1> QED
  BY <1>1 DEF Vu

LEMMA CharsCreate ==
    ASSUME CharsIInv, NEW v \in Vm, Create(v)
    PROVE  CharsIInv'
<1>0. UartTypes
  BY DEF CharsIInv
<1>1. UNCHANGED <<gp, req, con, cvu, console_vmid>>
  BY DEF Create, InitVuart0, InitVuart1, vuart_setup_connection, Link, LinkBack, vrtc_init, conVars
<1>2. NoWrite /\ ConTypes'
  BY <1>0, <1>1 DEF UartTypes, NoWrite, ConTypes
<1>3. Calm
  <2>1. CASE InitVuart0(v)
    BY <1>0, <2>1, PeerVu, CalmSetup DEF InitVuart0
  <2>2. CASE InitVuart1(v)
    BY <1>0, <2>2, PeerVu, CalmSetup DEF InitVuart1
  <2>3. CASE vuart_setup_connection(v) \/ vrtc_init(v)
    BY <1>0, <2>3, CalmSame DEF vuart_setup_connection, vrtc_init
  <2>4. CASE Link(v)
    BY <1>0, <2>4, PeerVu, CalmTarget DEF Link
  <2>5. CASE LinkBack(v)
    BY <1>0, <2>5, PeerVu, CalmTarget DEF LinkBack
  <2> QED
    BY <2>1, <2>2, <2>3, <2>4, <2>5 DEF Create
<1> QED
  BY <1>2, <1>3, CalmStep

LEMMA CharsShutdown ==
    ASSUME CharsIInv, NEW v \in Vm, Shutdown(v)
    PROVE  CharsIInv'
<1>0. UartTypes
  BY DEF CharsIInv
<1>1. /\ UNCHANGED <<req, con, cvu, console_vmid>>
      /\ gp' = gp \/ gp' = [gp EXCEPT ![v] = "guest"]
  BY DEF Shutdown, FatalError, Stop0, Stop1, Unlink, Unlinked, conVars
<1>2. gp \in [Vm -> GuestPlace]
  BY <1>0 DEF UartTypes
<1>3. NoWrite
  BY <1>1, <1>2 DEF NoWrite, GuestPlace
<1>4. ConTypes'
  BY <1>0, <1>1 DEF UartTypes, ConTypes
<1>5. Calm
  <2>1. CASE FatalError(v)
    BY <1>0, <2>1, CalmSame DEF FatalError
  <2>2. CASE Stop0(v)
    BY <1>0, <2>2, PeerVu, CalmActive DEF Stop0
  <2>3. CASE Stop1(v)
    BY <1>0, <2>3, PeerVu, CalmActive DEF Stop1
  <2>4. CASE Unlink(v) /\ vuarts[<<v, 1>>].target = None
    BY <1>0, <2>4, CalmSame DEF Unlink, uartVars
  <2>5. CASE Unlink(v) /\ vuarts[<<v, 1>>].target # None
    <3>1. vuarts[<<v, 1>>].target \in Vu
      BY <1>0, <2>5, PeerVu, Fifos DEF VuartSet
    <3>2. SetTarget(vuarts[<<v, 1>>].target, None)
      BY <2>5 DEF Unlink, SetTarget
    <3> QED
      BY <1>0, <3>1, <3>2, CalmTarget
  <2>6. CASE Unlinked(v)
    BY <1>0, <2>6, PeerVu, CalmTarget DEF Unlinked
  <2> QED
    BY <2>1, <2>2, <2>3, <2>4, <2>5, <2>6 DEF Shutdown
<1> QED
  BY <1>3, <1>4, <1>5, CalmStep

LEMMA CharsClock ==
    ASSUME CharsIInv, NEW v \in Vm, vrtc_write(v) \/ vrtc_read(v) \/ RtcRead(v)
    PROVE  CharsIInv'
<1>0. UartTypes
  BY DEF CharsIInv
<1>1. UNCHANGED <<req, con, cvu, console_vmid, uartVars>>
  BY DEF vrtc_write, vrtc_read, RtcRead, RtcLocked, RtcSelect, RtcPoll, RtcIndex, RtcData, RtcRelease,
         RtcStep, conVars
<1>2. gp' = gp \/ \E p \in GuestPlace \ {"send", "write"} : gp' = [gp EXCEPT ![v] = p]
  BY DEF vrtc_write, vrtc_read, cmos_get_reg_val, RtcRead, RtcLocked, RtcSelect, RtcPoll, RtcIndex,
         RtcData, RtcRelease, RtcStep, Goto, GuestPlace, RtcPlace, RtcHolds
<1>3. gp \in [Vm -> GuestPlace]
  BY <1>0 DEF UartTypes
<1>4. NoWrite
  BY <1>1, <1>2, <1>3 DEF NoWrite
<1>5. ConTypes'
  BY <1>0, <1>1 DEF UartTypes, ConTypes
<1> QED
  BY <1>0, <1>1, <1>4, <1>5, CalmSame, CalmStep

LEMMA CharsWriteReg ==
    ASSUME CharsIInv, NEW v \in Vm, WriteReg(v)
    PROVE  CharsIInv'
<1>0. UartTypes
  BY DEF CharsIInv
<1>1. UNCHANGED <<sent, got, out, gp, req, con, cvu, console_vmid>>
  BY DEF WriteReg, conVars
<1>2. NoWrite /\ ConTypes'
  BY <1>0, <1>1 DEF UartTypes, NoWrite, ConTypes
<1>3. PICK i \in {0, 1} : \E w \in RegValues(<<v, i>>) :
        /\ vuarts' = [vuarts EXCEPT ![<<v, i>>] = write_reg(@, w[1], w[2])]
        /\ ready' = IF w[1] \in {"FCR", "LCR"} THEN ready \ {<<v, i>>} ELSE ready
  BY DEF WriteReg
<1> DEFINE x == <<v, i>>
<1>4. PICK w \in RegValues(x) :
        /\ vuarts' = [vuarts EXCEPT ![x] = write_reg(@, w[1], w[2])]
        /\ ready' = IF w[1] \in {"FCR", "LCR"} THEN ready \ {x} ELSE ready
  BY <1>3
<1>5. x \in Vu
  BY DEF Vu
<1> HIDE DEF x
<1>6. vuarts[x] \in VuartSet
  BY <1>0, <1>5, Fifos
<1> DEFINE u == write_reg(vuarts[x], w[1], w[2])
<1>7. /\ u \in VuartSet
      /\ u.rxfifo = vuarts[x].rxfifo \/ (w[1] = "FCR" /\ u.rxfifo = fifo_reset(vuarts[x].rxfifo))
      /\ u.txfifo = vuarts[x].txfifo
  BY <1>6, VuartWrite
<1>8. vuarts' = [vuarts EXCEPT ![x] = u]
  BY <1>4
<1> HIDE DEF u
<1>9. ready' \subseteq ready /\ (w[1] = "FCR" => x \notin ready')
  BY <1>4
<1>10. Calm
  BY <1>0, <1>1, <1>5, <1>7, <1>8, <1>9, CalmTouch
<1> QED
  BY <1>2, <1>10, CalmStep

LEMMA CharsShell ==
    ASSUME CharsIInv, KickVm \/ shell_kick \/ Escape \/ StopTest \/ StartTest \/ TestDone
                      \/ UNCHANGED vars
    PROVE  CharsIInv'
<1>0. UartTypes /\ ConTypes
  BY DEF CharsIInv, UartTypes, ConTypes
<1>1. UNCHANGED <<uartVars, gp, req>>
  BY DEF KickVm, shell_kick, Escape, StopTest, StartTest, TestDone, vars
<1>2. NoWrite
  BY <1>0, <1>1 DEF UartTypes, NoWrite
<1>3. ConTypes'
  <2>1. CASE KickVm
    <3>1. console_vmid \in Vm
      BY <1>0, <2>1 DEF KickVm, Shown, ConTypes
    <3> QED
      BY <1>0, <2>1, <3>1, PeerVu DEF KickVm, ConTypes
  <2>2. CASE shell_kick
    <3>1. 0 \in Vm
      BY DevicesAssumption
    <3>2. \A argv : shell_to_vm_console(argv) \in Vm \cup {None}
      BY <1>0, <3>1 DEF shell_to_vm_console, sanitize_vmid, ConTypes
    <3>3. ASSUME NEW argv, shell_process_cmd(argv)
          PROVE  console_vmid' \in Vm \cup {None} /\ con' \in {"start", "stop", "idle"}
      BY <1>0, <3>2, <3>3 DEF shell_process_cmd, ConTypes
    <3>4. cvu' = cvu /\ con = "idle"
      BY <2>2 DEF shell_kick, KickBegins
    <3>5. \/ \E argv : shell_process_cmd(argv)
          \/ UNCHANGED <<con, console_vmid>>
      BY <2>2 DEF shell_kick
    <3> QED
      BY <1>0, <3>3, <3>4, <3>5 DEF ConTypes
  <2>3. CASE Escape \/ StopTest \/ StartTest \/ TestDone \/ UNCHANGED vars
    BY <1>0, <2>3 DEF Escape, StopTest, StartTest, TestDone, vars, conVars, ConTypes
  <2> QED
    BY <2>1, <2>2, <2>3
<1> QED
  BY <1>0, <1>1, <1>2, <1>3, CalmSame, CalmStep

-----------------------------------------------------------------------------
(* Characters: the steps that write, store, read and show them.            *)

LEMMA CharIs ==
    ASSUME NEW c \in Char, c # None
    PROVE  c[1] \in Source /\ c[2] \in Nat /\ c = <<c[1], c[2]>>
  BY DEF Char

LEMMA IsChar ==
    ASSUME NEW s \in Source, NEW n \in Nat
    PROVE  <<s, n>> \in Char /\ <<s, n>> # None
<1>1. None \notin Source \X Nat
  BY DevicesAssumption DEF Source, Vu, Keyboard
<1> QED
  BY <1>1 DEF Char

LEMMA SeenChar ==
    ASSUME UartTypes, NEW x \in Vu, NEW c \in Seen(x)
    PROVE  c \in Char
<1>1. vuarts[x].rxfifo \in Fifo(RX_BUF_SIZE) /\ vuarts[x].txfifo \in Fifo(TX_BUF_SIZE)
      /\ got[x] \in SUBSET Char /\ out[x] \in SUBSET Char
  BY Fifos
<1>2. /\ vuarts[x].rxfifo.buf \in [0 .. RX_BUF_SIZE - 1 -> Char]
      /\ vuarts[x].txfifo.buf \in [0 .. TX_BUF_SIZE - 1 -> Char]
  BY <1>1, FifoFields, SizesPositive
<1> QED
  BY <1>1, <1>2 DEF Seen

\* The sources of the VMs differ from each other and from the keyboard.
LEMMA Sources ==
    ASSUME NEW v \in Vm, NEW w \in Vm, NEW a \in {<<v, 0>>, <<v, 1>>}
    PROVE  a # Keyboard /\ a \in Source /\ (a \in {<<w, 0>>, <<w, 1>>} => v = w)
<1>1. a[1] = v /\ Len(a) = 2 /\ Len(<<>>) = 0
  OBVIOUS
<1>2. a \in Vu
  BY DEF Vu
<1> QED
  BY <1>1, <1>2 DEF Source, Keyboard

\* Written characters are numbered, so a new one is newer than all that are seen.
LEMMA CharsTransmit ==
    ASSUME CharsIInv, NEW v \in Vm, Transmit(v)
    PROVE  CharsIInv'
<1>0. UartTypes /\ CharsInv /\ CharsInOrder
  BY DEF CharsIInv
<1>1. /\ vuarts \in [Vu -> VuartSet] /\ sent \in [Source -> Nat] /\ gp \in [Vm -> GuestPlace]
      /\ req \in [Vm -> (Vu \X Char) \cup {None}]
  BY <1>0 DEF UartTypes
<1>2. UNCHANGED <<vuarts, ready, got, out, con, cvu, console_vmid>>
  BY DEF Transmit, conVars
<1>3. PICK i \in {0, 1} : \E ch \in {<<<<v, i>>, sent[<<v, i>>] + 1>>, None} : vuart_write(v, <<v, i>>, ch)
  BY DEF Transmit
<1> DEFINE x == <<v, i>>
<1>4. x \in Vu /\ x \in Source /\ x \in {<<v, 0>>, <<v, 1>>}
  BY DEF Vu, Source
<1>5. PICK ch \in {<<x, sent[x] + 1>>, None} : vuart_write(v, x, ch)
  BY <1>3
<1> HIDE DEF x
<1>6. sent' = [sent EXCEPT ![x] = sent[x] + 1]
  BY <1>5 DEF vuart_write
<1>7. /\ sent' \in [Source -> Nat] /\ sent'[x] = sent[x] + 1 /\ sent[x] \in Nat
      /\ \A s \in Source : s # x => sent'[s] = sent[s]
  BY <1>1, <1>4, <1>6
<1>8. \A s \in Source : sent[s] \in Nat /\ sent[s] <= sent'[s]
  BY <1>1, <1>7
<1>9. ch \in Char
  BY <1>4, <1>5, <1>7, IsChar DEF Char
<1>10. \E y \in Vu, p \in {"send", "write"} :
         gp' = [gp EXCEPT ![v] = p] /\ req' = [req EXCEPT ![v] = <<y, ch>>]
  <2>1. vuarts[x].target # None => vuarts[x].target \in Vu
    BY <1>1, <1>4 DEF VuartSet
  <2> QED
    BY <1>4, <1>5, <2>1 DEF vuart_write, Goto
<1>11. PICK y \in Vu, p \in {"send", "write"} :
         gp' = [gp EXCEPT ![v] = p] /\ req' = [req EXCEPT ![v] = <<y, ch>>]
  BY <1>10
<1>12. /\ gp' \in [Vm -> GuestPlace] /\ \A w \in Vm : w # v => gp'[w] = gp[w] /\ req'[w] = req[w]
       /\ req'[v] = <<y, ch>> /\ req' \in [Vm -> (Vu \X Char) \cup {None}]
  BY <1>1, <1>9, <1>11 DEF GuestPlace
<1>13. <<y, ch>> \in Vu \X Char
  BY <1>9
<1>14. UartTypes'
  <2>1. \A w \in Vm : gp'[w] \in {"send", "write"} => req'[w] \in Vu \X Char
    BY <1>0, <1>12, <1>13 DEF UartTypes
  <2> QED
    BY <1>0, <1>2, <1>7, <1>12, <2>1 DEF UartTypes
<1>15. CharsInOrder' /\ \A z \in Vu : Seen(z)' = Seen(z)
  BY <1>0, <1>2 DEF CharsInOrder, ReadyMeansData, Seen
<1>16. ASSUME NEW z \in Vu, NEW c \in Seen(z)
       PROVE  Old(c)'
  <2>1. Old(c) /\ c \in Char
    BY <1>0, SeenChar DEF CharsInv
  <2>2. c # None => c[1] \in Source /\ c[2] \in Nat /\ c[2] <= sent[c[1]]
    BY <2>1, CharIs DEF Old
  <2>3. c # None => c[2] <= sent'[c[1]]
    BY <1>8, <2>2, <1>7
  <2>4. Before(c, ch)
    <3> SUFFICES ASSUME c # None, ch # None, c[1] = ch[1] PROVE c[2] < ch[2]
      BY DEF Before
    <3>1. ch[1] = x /\ ch[2] = sent[x] + 1
      BY <1>5
    <3> QED
      BY <1>7, <2>2, <3>1
  <2>5. \A w \in Vm : Pending(w)' => Before(c, req'[w][2])
    <3> SUFFICES ASSUME NEW w \in Vm, Pending(w)' PROVE Before(c, req'[w][2])
      OBVIOUS
    <3>1. CASE w = v
      BY <1>12, <2>4, <3>1
    <3>2. CASE w # v
      BY <1>12, <2>1, <3>2 DEF Old, Pending
    <3> QED
      BY <3>1, <3>2
  <2> QED
    BY <2>3, <2>5 DEF Old
<1>17. ASSUME NEW w \in Vm, Pending(w)', req'[w][2] # None
       PROVE  req'[w][2][1] \in {<<w, 0>>, <<w, 1>>} /\ req'[w][2][2] <= sent'[req'[w][2][1]]
  <2>1. CASE w = v
    <3>1. req'[w][2] = ch /\ ch = <<x, sent[x] + 1>>
      BY <1>5, <1>12, <1>17, <2>1
    <3> QED
      BY <1>4, <1>7, <2>1, <3>1
  <2>2. CASE w # v
    <3>1. Pending(w) /\ req'[w] = req[w]
      BY <1>12, <1>17, <2>2 DEF Pending
    <3>2. req[w][2][1] \in {<<w, 0>>, <<w, 1>>} /\ req[w][2][2] <= sent[req[w][2][1]]
      BY <1>0, <1>17, <3>1 DEF CharsInv
    <3>3. req[w] \in Vu \X Char
      BY <1>0, <1>1, <3>1 DEF UartTypes, Pending
    <3>4. req[w][2][1] \in Source /\ req[w][2][2] \in Nat
      BY <1>17, <3>1, <3>3, CharIs
    <3> QED
      BY <1>7, <1>8, <3>1, <3>2, <3>4
  <2> QED
    BY <2>1, <2>2
<1>18. CharsInv'
  BY <1>15, <1>16, <1>17 DEF CharsInv
<1> QED
  BY <1>14, <1>15, <1>18 DEF CharsIInv

\* The parts of a vUART's FIFOs, its reader's and the console's sets that a step
\* leaves as they are stay in order.
LEMMA OrderFrame ==
    ASSUME CharsInOrder, NEW x \in Vu,
           \A y \in Vu : y # x => vuarts'[y] = vuarts[y] /\ got'[y] = got[y] /\ out'[y] = out[y],
           InOrder(vuarts'[x].rxfifo, got'[x]), InOrder(vuarts'[x].txfifo, out'[x]),
           \A y \in ready' : y \in Vu /\ (y # x => y \in ready),
           x \in ready' => vuarts'[x].rxfifo.num > 0
    PROVE  CharsInOrder'
<1>1. \A y \in Vu : InOrder(vuarts'[y].rxfifo, got'[y]) /\ InOrder(vuarts'[y].txfifo, out'[y])
  BY DEF CharsInOrder
<1>2. ReadyMeansData'
  BY DEF CharsInOrder, ReadyMeansData
<1> QED
  BY <1>1, <1>2 DEF CharsInOrder

\* A character is put, or not, behind older ones.
LEMMA PutOrdered ==
    ASSUME NEW n \in Nat \ {0}, NEW f \in Fifo(n), NEW read \in SUBSET Char, NEW ch \in Char,
           InOrder(f, read), \A i \in 0 .. n - 1 : Before(f.buf[i], ch), \A c \in read : Before(c, ch),
           NEW g, g = f \/ g = fifo_putchar(f, ch)
    PROVE  /\ InOrder(g, read) /\ \A i \in 0 .. n - 1 : g.buf[i] \in {f.buf[i], ch}
           /\ f.num > 0 => g.num > 0
<1>1. CASE g = f
  BY <1>1
<1>2. CASE g = fifo_putchar(f, ch)
  <2>1. InOrder(g, read)
    BY <1>2, PutInOrder
  <2>2. /\ g.buf = [f.buf EXCEPT ![f.windex] = ch] /\ g.num = (IF f.num < n THEN f.num + 1 ELSE n)
        /\ f.buf \in [0 .. n - 1 -> Char] /\ f.windex \in 0 .. n - 1 /\ f.num \in 0 .. n
    BY <1>2, PutFields, FifoFields
  <2> QED
    BY <2>1, <2>2
<1> QED
  BY <1>1, <1>2

\* The character is stored in the FIFO that was chosen, whatever happened since.
LEMMA CharsStore ==
    ASSUME CharsIInv, NEW v \in Vm, Store(v)
    PROVE  CharsIInv'
<1>0. UartTypes /\ CharsInv /\ CharsInOrder
  BY DEF CharsIInv
<1>1. /\ vuarts \in [Vu -> VuartSet] /\ sent \in [Source -> Nat] /\ gp \in [Vm -> GuestPlace]
      /\ req \in [Vm -> (Vu \X Char) \cup {None}]
  BY <1>0 DEF UartTypes
<1>2. UNCHANGED <<sent, ready, got, out, con, cvu, console_vmid>> /\ Pending(v)
  BY DEF Store, conVars, Pending
<1>3. req[v] \in Vu \X Char
  BY <1>0, <1>2 DEF UartTypes, Pending
<1>4. PICK x \in Vu, ch \in Char : req[v] = <<x, ch>>
  BY <1>3
<1> DEFINE u == IF gp[v] = "send" THEN send_to_target(vuarts[x], ch) ELSE WriteThr(vuarts[x], ch)
<1>5. vuarts' = [vuarts EXCEPT ![x] = u]
  BY <1>4 DEF Store
<1>6. gp' = [gp EXCEPT ![v] = "guest"] /\ req' = [req EXCEPT ![v] = None]
  BY DEF Store, Goto
<1>7. vuarts[x] \in VuartSet
  BY <1>1, <1>4
<1>8. /\ u \in VuartSet
      /\ u.rxfifo = vuarts[x].rxfifo \/ u.rxfifo = fifo_putchar(vuarts[x].rxfifo, ch)
      /\ u.txfifo = vuarts[x].txfifo \/ u.txfifo = fifo_putchar(vuarts[x].txfifo, ch)
  BY <1>4, <1>7, VuartThr, VuartSend
<1> HIDE DEF u
<1>9. /\ vuarts' \in [Vu -> VuartSet] /\ vuarts'[x] = u
      /\ \A y \in Vu : y # x => vuarts'[y] = vuarts[y]
  BY <1>1, <1>4, <1>5, <1>8
<1>10. /\ gp' \in [Vm -> GuestPlace] /\ ~Pending(v)'
       /\ \A w \in Vm : w # v => gp'[w] = gp[w] /\ req'[w] = req[w]
       /\ req' \in [Vm -> (Vu \X Char) \cup {None}]
  BY <1>1, <1>6 DEF GuestPlace, Pending
<1>11. UartTypes'
  <2>1. \A w \in Vm : gp'[w] \in {"send", "write"} => req'[w] \in Vu \X Char
    BY <1>0, <1>10 DEF UartTypes, Pending
  <2> QED
    BY <1>0, <1>2, <1>9, <1>10, <2>1 DEF UartTypes
<1>12. \A c \in Seen(x) : Before(c, ch)
  BY <1>0, <1>2, <1>4 DEF CharsInv, Old
<1>13. /\ vuarts[x].rxfifo \in Fifo(RX_BUF_SIZE) /\ vuarts[x].txfifo \in Fifo(TX_BUF_SIZE)
       /\ got[x] \in SUBSET Char /\ out[x] \in SUBSET Char
  BY <1>0, <1>4, Fifos
<1>14. /\ \A i \in 0 .. RX_BUF_SIZE - 1 : Before(vuarts[x].rxfifo.buf[i], ch)
       /\ \A i \in 0 .. TX_BUF_SIZE - 1 : Before(vuarts[x].txfifo.buf[i], ch)
       /\ \A c \in got[x] : Before(c, ch)
       /\ \A c \in out[x] : Before(c, ch)
  BY <1>12 DEF Seen
<1>15. InOrder(vuarts[x].rxfifo, got[x]) /\ InOrder(vuarts[x].txfifo, out[x])
  BY <1>0, <1>4 DEF CharsInOrder
<1>16. /\ InOrder(u.rxfifo, got[x])
       /\ \A i \in 0 .. RX_BUF_SIZE - 1 : u.rxfifo.buf[i] \in {vuarts[x].rxfifo.buf[i], ch}
       /\ vuarts[x].rxfifo.num > 0 => u.rxfifo.num > 0
  BY <1>8, <1>13, <1>14, <1>15, SizesPositive, PutOrdered
<1>17. /\ InOrder(u.txfifo, out[x])
       /\ \A i \in 0 .. TX_BUF_SIZE - 1 : u.txfifo.buf[i] \in {vuarts[x].txfifo.buf[i], ch}
  BY <1>8, <1>13, <1>14, <1>15, SizesPositive, PutOrdered
<1>18. CharsInOrder'
  <2>1. x \in ready' => vuarts'[x].rxfifo.num > 0
    BY <1>0, <1>2, <1>9, <1>16 DEF CharsInOrder, ReadyMeansData
  <2>2. ready' = ready /\ ready \subseteq Vu
    BY <1>0, <1>2 DEF UartTypes
  <2> QED
    BY <1>0, <1>2, <1>4, <1>9, <1>16, <1>17, <2>1, <2>2, OrderFrame
<1>19. ASSUME NEW y \in Vu, NEW c \in Seen(y)'
       PROVE  c = ch \/ c \in Seen(y)
  <2>1. CASE y = x
    BY <1>2, <1>9, <1>16, <1>17, <2>1 DEF Seen
  <2>2. CASE y # x
    BY <1>2, <1>9, <2>2 DEF Seen
  <2> QED
    BY <2>1, <2>2
<1>20. Old(ch)'
  <2>1. ch # None => ch[1] \in {<<v, 0>>, <<v, 1>>} /\ ch[2] <= sent[ch[1]]
    BY <1>0, <1>2, <1>4 DEF CharsInv
  <2>2. \A w \in Vm : w # v /\ Pending(w) => Before(ch, req[w][2])
    <3> SUFFICES ASSUME NEW w \in Vm, w # v, Pending(w), ch # None, req[w][2] # None
                 PROVE  ch[1] # req[w][2][1]
      BY DEF Before
    <3>1. req[w][2][1] \in {<<w, 0>>, <<w, 1>>}
      BY <1>0 DEF CharsInv
    <3> QED
      BY <2>1, <3>1, Sources
  <2>3. \A w \in Vm : Pending(w)' => w # v /\ Pending(w) /\ req'[w] = req[w]
    BY <1>10 DEF Pending
  <2> QED
    BY <1>2, <2>1, <2>2, <2>3 DEF Old
<1>21. CharsInv'
  <2>1. \A w \in Vm : Pending(w)' => Pending(w) /\ req'[w] = req[w]
    BY <1>10 DEF Pending
  <2>2. ASSUME NEW y \in Vu, NEW c \in Seen(y)'
        PROVE  Old(c)'
    <3>1. CASE c = ch
      BY <1>20, <3>1
    <3>2. CASE c \in Seen(y)
      <4>1. Old(c)
        BY <1>0, <3>2 DEF CharsInv
      <4> QED
        BY <1>2, <2>1, <4>1 DEF Old
    <3> QED
      BY <1>19, <3>1, <3>2
  <2>3. \A w \in Vm : Pending(w)' /\ req'[w][2] # None =>
          req'[w][2][1] \in {<<w, 0>>, <<w, 1>>} /\ req'[w][2][2] <= sent'[req'[w][2][1]]
    BY <1>0, <1>2, <2>1 DEF CharsInv
  <2> QED
    BY <2>2, <2>3 DEF CharsInv
<1> QED
  BY <1>11, <1>18, <1>21 DEF CharsIInv

\* A character that is taken out of a FIFO was seen in it before.
LEMMA CharsRead ==
    ASSUME CharsIInv, NEW v \in Vm, ReadReg(v)
    PROVE  CharsIInv'
<1>0. UartTypes /\ CharsInv /\ CharsInOrder
  BY DEF CharsIInv
<1>1. UNCHANGED <<sent, out, gp, req, con, cvu, console_vmid>>
  BY DEF ReadReg, conVars
<1>2. PICK i \in {0, 1}, reg \in {"RBR", "IIR", "LSR", "MSR"} :
        LET x == <<v, i>>  vu == vuarts[x]  ch == fifo_front(vu.rxfifo)
        IN  /\ vuarts' = [vuarts EXCEPT ![x] = vuart_read(vu, reg)]
            /\ got' = IF reg = "RBR" /\ ~vu.dlab /\ ch # None THEN [got EXCEPT ![x] = @ \cup {ch}] ELSE got
            /\ ready' = CASE reg = "LSR" -> IF DataReady(vu) THEN ready \cup {x} ELSE ready \ {x}
                          [] reg = "RBR" -> ready \ {x}
                          [] OTHER -> ready
  BY DEF ReadReg
<1> DEFINE x == <<v, i>>
<1>3. x \in Vu
  BY DEF Vu
<1> DEFINE vu == vuarts[x]
           ch == fifo_front(vu.rxfifo)
           u == vuart_read(vu, reg)
           taken == reg = "RBR" /\ ~vu.dlab
<1>4. /\ vuarts' = [vuarts EXCEPT ![x] = u]
      /\ got' = IF taken /\ ch # None THEN [got EXCEPT ![x] = @ \cup {ch}] ELSE got
      /\ \A y \in ready' : y \in ready \/ y = x
      /\ x \in ready' => (reg = "LSR" /\ DataReady(vu)) \/ (reg # "RBR" /\ x \in ready)
  BY <1>2
<1>5. /\ vuarts \in [Vu -> VuartSet] /\ got \in [Vu -> SUBSET Char] /\ ready \subseteq Vu
  BY <1>0 DEF UartTypes
<1> HIDE DEF x
<1>6. /\ vu \in VuartSet /\ vu.rxfifo \in Fifo(RX_BUF_SIZE) /\ vu.txfifo \in Fifo(TX_BUF_SIZE)
      /\ got[x] \in SUBSET Char
      /\ InOrder(vu.rxfifo, got[x]) /\ InOrder(vu.txfifo, out[x])
  BY <1>0, <1>3, Fifos DEF CharsInOrder
<1>7. /\ u \in VuartSet /\ u.txfifo = vu.txfifo
      /\ u.rxfifo = IF taken THEN fifo_rest(vu.rxfifo) ELSE vu.rxfifo
  <2>1. vu \in VuartSet
    BY <1>6
  <2> HIDE DEF vu
  <2> QED
    BY <2>1, VuartRead
<1>8. /\ fifo_rest(vu.rxfifo).buf = vu.rxfifo.buf
      /\ InOrder(fifo_rest(vu.rxfifo), got[x])
      /\ InOrder(fifo_rest(vu.rxfifo), got[x] \cup {ch})
      /\ ch # None => \E k \in 0 .. RX_BUF_SIZE - 1 : ch = vu.rxfifo.buf[k]
  BY <1>6, SizesPositive, RestInOrder
<1>9. ch # None => ch \in Seen(x) /\ ch \in Char
  <2>1. ch # None => ch \in Seen(x)
    BY <1>8 DEF Seen
  <2> QED
    BY <1>0, <1>3, <2>1, SeenChar
<1>10. DataReady(vu) => vu.rxfifo.num > 0
  BY DEF DataReady
<1> HIDE DEF u, ch
<1>11. /\ vuarts' \in [Vu -> VuartSet] /\ vuarts'[x] = u
       /\ \A y \in Vu : y # x => vuarts'[y] = vuarts[y]
  BY <1>3, <1>4, <1>5, <1>7
<1>12. /\ got' \in [Vu -> SUBSET Char]
       /\ got'[x] = IF taken /\ ch # None THEN got[x] \cup {ch} ELSE got[x]
       /\ \A y \in Vu : y # x => got'[y] = got[y]
  BY <1>3, <1>4, <1>5, <1>9
<1>13. ready' \subseteq Vu /\ \A y \in ready' : y \in Vu /\ (y # x => y \in ready)
  BY <1>3, <1>4, <1>5
<1>14. UartTypes'
  BY <1>0, <1>1, <1>11, <1>12, <1>13 DEF UartTypes
<1>15. InOrder(vuarts'[x].rxfifo, got'[x]) /\ vuarts'[x].rxfifo.buf = vu.rxfifo.buf
  BY <1>6, <1>7, <1>8, <1>11, <1>12
<1>16. InOrder(vuarts'[x].txfifo, out'[x]) /\ vuarts'[x].txfifo = vu.txfifo
  BY <1>1, <1>6, <1>7, <1>11
<1>17. x \in ready' => vuarts'[x].rxfifo.num > 0
  <2> SUFFICES ASSUME x \in ready' PROVE vuarts'[x].rxfifo.num > 0
    OBVIOUS
  <2>1. ~taken /\ vu.rxfifo.num > 0
    BY <1>0, <1>4, <1>10 DEF CharsInOrder, ReadyMeansData
  <2> QED
    BY <1>7, <1>11, <2>1
<1>18. CharsInOrder'
  BY <1>0, <1>1, <1>3, <1>11, <1>12, <1>13, <1>15, <1>16, <1>17, OrderFrame
<1>19. ASSUME NEW y \in Vu
       PROVE  Seen(y)' \subseteq Seen(y)
  <2>1. CASE y = x
    <3>1. got'[x] \subseteq Seen(x)
      <4>1. got[x] \subseteq Seen(x)
        BY DEF Seen
      <4> QED
        BY <1>9, <1>12, <4>1
    <3>2. /\ vuarts'[x].rxfifo.buf = vuarts[x].rxfifo.buf /\ vuarts'[x].txfifo.buf = vuarts[x].txfifo.buf
          /\ out'[x] = out[x]
      BY <1>1, <1>15, <1>16
    <3> QED
      BY <2>1, <3>1, <3>2 DEF Seen
  <2>2. CASE y # x
    BY <1>1, <1>11, <1>12, <2>2 DEF Seen
  <2> QED
    BY <2>1, <2>2
<1>20. CharsInv'
  BY <1>0, <1>1, <1>19, CharsFewer DEF Pending
<1> QED
  BY <1>14, <1>18, <1>20 DEF CharsIInv

LEMMA CharsShow ==
    ASSUME CharsIInv, vuart_console_tx_chars
    PROVE  CharsIInv'
<1>0. UartTypes /\ CharsInv /\ CharsInOrder
  BY DEF CharsIInv
<1>1. UNCHANGED <<sent, got, ready, gp, req, console_vmid>> /\ con = "tx"
  BY DEF vuart_console_tx_chars
<1>2. PICK x \in Vu : cvu = x
  BY <1>0, <1>1 DEF UartTypes
<1> DEFINE vu == vuarts[x]
           ch == fifo_front(vu.txfifo)
           u == [vu EXCEPT !.txfifo = fifo_rest(vu.txfifo)]
<1>3. /\ vuarts' = [vuarts EXCEPT ![x] = u]
      /\ out' = IF ch = None THEN out ELSE [out EXCEPT ![x] = @ \cup {ch}]
      /\ con' = (IF ch = None THEN "idle" ELSE "tx") /\ cvu' = (IF ch = None THEN None ELSE cvu)
  BY <1>2 DEF vuart_console_tx_chars
<1>4. vuarts \in [Vu -> VuartSet] /\ out \in [Vu -> SUBSET Char] /\ x # None
  BY <1>0, <1>1, <1>2 DEF UartTypes
<1>5. /\ vu \in VuartSet /\ vu.rxfifo \in Fifo(RX_BUF_SIZE) /\ vu.txfifo \in Fifo(TX_BUF_SIZE)
      /\ out[x] \in SUBSET Char
      /\ InOrder(vu.rxfifo, got[x]) /\ InOrder(vu.txfifo, out[x])
  BY <1>0, Fifos DEF CharsInOrder
<1>6. /\ fifo_rest(vu.txfifo).buf = vu.txfifo.buf /\ fifo_rest(vu.txfifo) \in Fifo(TX_BUF_SIZE)
      /\ InOrder(fifo_rest(vu.txfifo), out[x])
      /\ InOrder(fifo_rest(vu.txfifo), out[x] \cup {ch})
      /\ ch # None => \E k \in 0 .. TX_BUF_SIZE - 1 : ch = vu.txfifo.buf[k]
  BY <1>5, SizesPositive, RestInOrder
<1>7. u \in VuartSet /\ u.rxfifo = vu.rxfifo /\ u.txfifo = fifo_rest(vu.txfifo)
  BY <1>5, <1>6 DEF VuartSet
<1>8. ch # None => ch \in Seen(x) /\ ch \in Char
  <2>1. ch # None => ch \in Seen(x)
    BY <1>6 DEF Seen
  <2> QED
    BY <1>0, <2>1, SeenChar
<1> HIDE DEF u, ch
<1>9. /\ vuarts' \in [Vu -> VuartSet] /\ vuarts'[x] = u
      /\ \A y \in Vu : y # x => vuarts'[y] = vuarts[y]
  BY <1>3, <1>4, <1>7
<1>10. /\ out' \in [Vu -> SUBSET Char]
       /\ out'[x] = IF ch # None THEN out[x] \cup {ch} ELSE out[x]
       /\ \A y \in Vu : y # x => out'[y] = out[y]
  BY <1>3, <1>4, <1>8
<1>11. UartTypes'
  <2>1. cvu' \in Vu \cup {None} /\ (con' \in {"rx", "tx"} => cvu' # None)
    BY <1>2, <1>3, <1>4
  <2> QED
    BY <1>0, <1>1, <1>9, <1>10, <2>1 DEF UartTypes
<1>12. InOrder(vuarts'[x].txfifo, out'[x]) /\ vuarts'[x].txfifo.buf = vu.txfifo.buf
  BY <1>5, <1>6, <1>7, <1>9, <1>10
<1>13. InOrder(vuarts'[x].rxfifo, got'[x]) /\ vuarts'[x].rxfifo = vu.rxfifo
  BY <1>1, <1>5, <1>7, <1>9
<1>14. CharsInOrder'
  <2>1. x \in ready' => vuarts'[x].rxfifo.num > 0
    BY <1>0, <1>1, <1>13 DEF CharsInOrder, ReadyMeansData
  <2>2. ready' = ready /\ ready \subseteq Vu
    BY <1>0, <1>1 DEF UartTypes
  <2> QED
    BY <1>0, <1>1, <1>9, <1>10, <1>12, <1>13, <2>1, <2>2, OrderFrame
<1>15. ASSUME NEW y \in Vu
       PROVE  Seen(y)' \subseteq Seen(y)
  <2>1. CASE y = x
    <3>1. out'[x] \subseteq Seen(x)
      <4>1. out[x] \subseteq Seen(x)
        BY DEF Seen
      <4> QED
        BY <1>8, <1>10, <4>1
    <3>2. /\ vuarts'[x].rxfifo.buf = vuarts[x].rxfifo.buf /\ vuarts'[x].txfifo.buf = vuarts[x].txfifo.buf
          /\ got'[x] = got[x]
      BY <1>1, <1>12, <1>13
    <3> QED
      BY <2>1, <3>1, <3>2 DEF Seen
  <2>2. CASE y # x
    BY <1>1, <1>9, <1>10, <2>2 DEF Seen
  <2> QED
    BY <2>1, <2>2
<1>16. CharsInv'
  BY <1>0, <1>1, <1>15, CharsFewer DEF Pending
<1> QED
  BY <1>11, <1>14, <1>16 DEF CharsIInv

\* A key is put into the receive FIFO of the VM on the console.
LEMMA CharsType ==
    ASSUME CharsIInv, vuart_console_rx_chars
    PROVE  CharsIInv'
<1>0. UartTypes /\ CharsInv /\ CharsInOrder
  BY DEF CharsIInv
<1>1. UNCHANGED <<got, out, ready, gp, req, cvu>> /\ con = "rx"
  BY DEF vuart_console_rx_chars
<1>2. PICK x \in Vu : cvu = x
  BY <1>0, <1>1 DEF UartTypes
<1>3. console_vmid' \in Vm \cup {None}
  BY <1>0 DEF vuart_console_rx_chars, UartTypes
<1>4. vuarts \in [Vu -> VuartSet] /\ sent \in [Source -> Nat] /\ x # None
  BY <1>0, <1>1, <1>2 DEF UartTypes
<1>5. CASE UNCHANGED <<vuarts, sent>>
  <2>1. Calm /\ NoWrite
    BY <1>0, <1>1, <1>5, CalmSame DEF uartVars, NoWrite, UartTypes
  <2>2. ConTypes'
    BY <1>1, <1>2, <1>3, <1>4 DEF ConTypes
  <2> QED
    BY <2>1, <2>2, CalmStep
<1>6. CASE /\ vuarts' = [vuarts EXCEPT ![cvu].rxfifo =
                          fifo_putchar(@, <<Keyboard, sent[Keyboard] + 1>>)]
           /\ sent' = [sent EXCEPT ![Keyboard] = @ + 1]
  <2>1. Keyboard \in Source /\ sent[Keyboard] \in Nat
    BY <1>4 DEF Source
  <2>2. PICK ch \in Char : ch = <<Keyboard, sent[Keyboard] + 1>> /\ ch # None
    <3>1. sent[Keyboard] + 1 \in Nat
      BY <2>1
    <3>2. <<Keyboard, sent[Keyboard] + 1>> \in Char /\ <<Keyboard, sent[Keyboard] + 1>> # None
      BY <2>1, <3>1, IsChar
    <3> QED
      BY <3>2
  <2> DEFINE vu == vuarts[x]
             f == fifo_putchar(vu.rxfifo, ch)
             u == [vu EXCEPT !.rxfifo = f]
  <2>3. vuarts' = [vuarts EXCEPT ![x] = u]
    BY <1>2, <1>6, <2>2
  <2>4. /\ sent' \in [Source -> Nat] /\ sent'[Keyboard] = sent[Keyboard] + 1
        /\ \A s \in Source : sent[s] \in Nat /\ sent[s] <= sent'[s]
        /\ \A s \in Source : s # Keyboard => sent'[s] = sent[s]
    BY <1>4, <1>6, <2>1
  <2>5. /\ vu \in VuartSet /\ vu.rxfifo \in Fifo(RX_BUF_SIZE) /\ vu.txfifo \in Fifo(TX_BUF_SIZE)
        /\ got[x] \in SUBSET Char
        /\ InOrder(vu.rxfifo, got[x]) /\ InOrder(vu.txfifo, out[x])
    BY <1>0, Fifos DEF CharsInOrder
  <2>6. ASSUME NEW y \in Vu, NEW c \in Seen(y)
        PROVE  Before(c, ch)
    <3>1. Old(c) /\ c \in Char
      BY <1>0, SeenChar DEF CharsInv
    <3>2. c # None => c[2] \in Nat /\ c[2] <= sent[c[1]]
      BY <3>1, CharIs DEF Old
    <3>3. ch[1] = Keyboard /\ ch[2] = sent[Keyboard] + 1
      BY <2>2
    <3> QED
      BY <2>1, <3>2, <3>3 DEF Before
  <2>7. /\ \A i \in 0 .. RX_BUF_SIZE - 1 : Before(vu.rxfifo.buf[i], ch)
        /\ \A c \in got[x] : Before(c, ch)
    BY <2>6 DEF Seen
  <2>8. f \in Fifo(RX_BUF_SIZE)
    BY <2>5, FifoPut, SizesPositive
  <2>9. /\ InOrder(f, got[x])
        /\ \A i \in 0 .. RX_BUF_SIZE - 1 : f.buf[i] \in {vu.rxfifo.buf[i], ch}
        /\ vu.rxfifo.num > 0 => f.num > 0
    BY <2>5, <2>7, SizesPositive, PutOrdered
  <2> HIDE DEF f
  <2>10. u \in VuartSet /\ u.rxfifo = f /\ u.txfifo = vu.txfifo
    BY <2>5, <2>8 DEF VuartSet
  <2> HIDE DEF u
  <2>11. /\ vuarts' \in [Vu -> VuartSet] /\ vuarts'[x] = u
         /\ \A y \in Vu : y # x => vuarts'[y] = vuarts[y]
    BY <1>4, <2>3, <2>10
  <2>12. UartTypes'
    BY <1>0, <1>1, <1>2, <1>3, <1>4, <2>4, <2>11 DEF UartTypes
  <2>13. CharsInOrder'
    <3>1. x \in ready' => vuarts'[x].rxfifo.num > 0
      BY <1>0, <1>1, <2>9, <2>10, <2>11 DEF CharsInOrder, ReadyMeansData
    <3>2. ready' = ready /\ ready \subseteq Vu
      BY <1>0, <1>1 DEF UartTypes
    <3>3. InOrder(vuarts'[x].rxfifo, got'[x]) /\ InOrder(vuarts'[x].txfifo, out'[x])
      BY <1>1, <2>5, <2>9, <2>10, <2>11
    <3> QED
      BY <1>0, <1>1, <2>11, <3>1, <3>2, <3>3, OrderFrame
  <2>14. ASSUME NEW y \in Vu, NEW c \in Seen(y)'
         PROVE  c = ch \/ c \in Seen(y)
    <3>1. CASE y = x
      BY <1>1, <2>9, <2>10, <2>11, <3>1 DEF Seen
    <3>2. CASE y # x
      BY <1>1, <2>11, <3>2 DEF Seen
    <3> QED
      BY <3>1, <3>2
  <2>15. ASSUME NEW y \in Vu, NEW c \in Seen(y)'
         PROVE  Old(c)'
    <3>1. CASE c = ch
      <4>1. c[1] = Keyboard /\ c[2] = sent'[Keyboard] /\ c[2] \in Nat
        BY <2>1, <2>2, <2>4, <3>1
      <4>2. \A w \in Vm : Pending(w)' => Before(c, req'[w][2])
        <5> SUFFICES ASSUME NEW w \in Vm, Pending(w), req[w][2] # None
                     PROVE  c[1] # req[w][2][1]
          BY <1>1 DEF Before, Pending
        <5>1. req[w][2][1] \in {<<w, 0>>, <<w, 1>>}
          BY <1>0 DEF CharsInv
        <5> QED
          BY <4>1, <5>1, Sources
      <4> QED
        BY <4>1, <4>2 DEF Old
    <3>2. CASE c \in Seen(y)
      <4>1. Old(c) /\ c \in Char
        BY <1>0, <3>2, SeenChar DEF CharsInv
      <4>2. c # None => c[1] \in Source /\ c[2] \in Nat /\ c[2] <= sent[c[1]]
        BY <4>1, CharIs DEF Old
      <4>3. c # None => c[2] <= sent'[c[1]]
        <5> SUFFICES ASSUME c # None PROVE c[2] <= sent'[c[1]]
          OBVIOUS
        <5>1. c[2] \in Nat /\ c[2] <= sent[c[1]] /\ sent[c[1]] \in Nat /\ sent[c[1]] <= sent'[c[1]]
          BY <2>4, <4>2
        <5>2. sent'[c[1]] \in Nat
          BY <2>4, <4>2
        <5> QED
          BY <5>1, <5>2
      <4> QED
        BY <1>1, <4>1, <4>3 DEF Old, Pending
    <3> QED
      BY <2>14, <3>1, <3>2
  <2>16. ASSUME NEW w \in Vm, Pending(w)', req'[w][2] # None
         PROVE  req'[w][2][1] \in {<<w, 0>>, <<w, 1>>} /\ req'[w][2][2] <= sent'[req'[w][2][1]]
    <3>1. Pending(w) /\ req'[w] = req[w]
      BY <1>1, <2>16 DEF Pending
    <3>2. req[w][2][1] \in {<<w, 0>>, <<w, 1>>} /\ req[w][2][2] <= sent[req[w][2][1]]
      BY <1>0, <2>16, <3>1 DEF CharsInv
    <3>3. req[w][2][1] # Keyboard /\ req[w][2][1] \in Source
      BY <3>2, Sources
    <3> QED
      BY <2>4, <3>1, <3>2, <3>3
  <2>17. CharsInv'
    BY <2>15, <2>16 DEF CharsInv
  <2> QED
    BY <2>12, <2>13, <2>17 DEF CharsIInv
<1> QED
  BY <1>5, <1>6 DEF vuart_console_rx_chars

LEMMA CharsInitial ==
    ASSUME Init
    PROVE  CharsIInv
<1>1. /\ vuarts = [x \in Vu |-> ZeroVuart] /\ sent = [x \in Vu \cup {Keyboard} |-> 0] /\ ready = {}
      /\ got = [x \in Vu |-> {}] /\ out = [x \in Vu |-> {}] /\ gp = [v \in Vm |-> "guest"]
      /\ req = [v \in Vm |-> None] /\ con = "idle" /\ cvu = None /\ console_vmid = None
  BY DEF Init
<1>2. ASSUME NEW n \in Nat \ {0}
      PROVE  EmptyFifo(n) \in Fifo(n) /\ Contents(EmptyFifo(n)) = <<>>
             /\ \A i \in 0 .. n - 1 : EmptyFifo(n).buf[i] = None
  <2> DEFINE f == EmptyFifo(n)
  <2>1. 0 \in 0 .. n - 1 /\ 0 \in 0 .. n /\ Ring(n, 0, 0) = 0
    BY DEF Ring
  <2>2. f.num = 0 /\ f.rindex = 0 /\ f.windex = 0 /\ \A i \in 0 .. n - 1 : f.buf[i] = None
    BY DEF EmptyFifo
  <2>3. f \in FifoSet(n)
    BY <2>1 DEF EmptyFifo, FifoSet, Char
  <2>4. f \in Fifo(n)
    BY <2>1, <2>2, <2>3, FifoIs
  <2>5. Contents(f) = <<>>
    BY <2>2 DEF Contents
  <2> QED
    BY <2>2, <2>4, <2>5
<1>3. ZeroVuart \in VuartSet
  BY <1>2, SizesPositive DEF ZeroVuart, VuartSet, McrBit, IerBit, MsrBit
<1>4. UartTypes
  BY <1>1, <1>3 DEF UartTypes, Source, GuestPlace
<1>5. ASSUME NEW x \in Vu
      PROVE  /\ InOrder(vuarts[x].rxfifo, got[x]) /\ InOrder(vuarts[x].txfifo, out[x])
             /\ Seen(x) \subseteq {None}
  <2>1. /\ vuarts[x].rxfifo = EmptyFifo(RX_BUF_SIZE) /\ vuarts[x].txfifo = EmptyFifo(TX_BUF_SIZE)
        /\ got[x] = {} /\ out[x] = {}
    BY <1>1 DEF ZeroVuart
  <2>2. Contents(vuarts[x].rxfifo) = <<>> /\ Contents(vuarts[x].txfifo) = <<>>
    BY <1>2, <2>1, SizesPositive
  <2>3. DOMAIN <<>> = {}
    OBVIOUS
  <2>4. InOrder(vuarts[x].rxfifo, got[x]) /\ InOrder(vuarts[x].txfifo, out[x])
    BY <2>1, <2>2, <2>3 DEF InOrder
  <2>5. /\ \A i \in 0 .. RX_BUF_SIZE - 1 : vuarts[x].rxfifo.buf[i] = None
        /\ \A i \in 0 .. TX_BUF_SIZE - 1 : vuarts[x].txfifo.buf[i] = None
    BY <1>2, <2>1, SizesPositive
  <2>6. Seen(x) \subseteq {None}
    BY <2>1, <2>5 DEF Seen
  <2> QED
    BY <2>4, <2>6
<1>6. CharsInOrder
  BY <1>1, <1>5 DEF CharsInOrder, ReadyMeansData
<1>7. CharsInv
  <2>1. \A v \in Vm : ~Pending(v)
    BY <1>1 DEF Pending
  <2> QED
    BY <1>5, <2>1 DEF CharsInv, Old
<1> QED
  BY <1>4, <1>6, <1>7 DEF CharsIInv

\* The vUARTs keep their types, and no character is newer than what was written,
\* in every behaviour.
THEOREM CharsInvariance == Spec => []CharsIInv
<1>1. Init => CharsIInv
  BY CharsInitial
<1>2. CharsIInv /\ [Next]_vars => CharsIInv'
  <2> SUFFICES ASSUME CharsIInv, [Next]_vars PROVE CharsIInv'
    OBVIOUS
  <2>1. CASE UNCHANGED vars \/ Console
    BY <2>1, CharsShell, CharsShow, CharsType DEF Console
  <2>2. ASSUME NEW v \in Vm, Create(v) \/ Shutdown(v) \/ Guest(v) \/ Store(v) \/ RtcRead(v)
        PROVE  CharsIInv'
    BY <2>2, CharsCreate, CharsShutdown, CharsTransmit, CharsWriteReg, CharsRead, CharsClock, CharsStore
       DEF Guest
  <2> QED
    BY <2>1, <2>2 DEF Next
<1> QED
  BY <1>1, <1>2, PTL DEF Spec

\* The characters of a source reach their reader in the order in which they were
\* written, and a guest that saw LSR_DR finds a character, for any number of VMs and
\* any size of the FIFOs: CharsInOrder is an invariant.
THEOREM CharsOrdered == Spec => []CharsInOrder
<1>1. CharsIInv => CharsInOrder
  BY DEF CharsIInv
<1> QED
  BY <1>1, CharsInvariance, PTL

-----------------------------------------------------------------------------
(* Connections.                                                            *)

LinkIInv == stage \in [Vm -> Stages] /\ LinkInv

\* What the connections are made of, for each VM: the ends' targets, and whether the
\* vUART is active.
SameWires == \A v \in Vm : /\ vuarts'[<<v, 0>>].target = vuarts[<<v, 0>>].target
                           /\ Target(v)' = Target(v) /\ Active(v)' = Active(v)

LEMMA Peers ==
    /\ \A v \in Vm : Peer[v] \in Vm /\ Peer[v] # v /\ Peer[Peer[v]] = v
    /\ \A v \in Vm : Far(v) # None /\ Far(v) \in Vu
    /\ \A v, w \in Vm : Far(v) = Far(w) => v = w
<1>1. /\ \A v \in Vm : Peer[v] \in Vm /\ Peer[v] # v /\ Peer[Peer[v]] = v
      /\ \A v \in Vm : Far(v) # None /\ Far(v) \in Vu
  BY PeerVu, DevicesAssumption DEF Far
<1>2. \A v, w \in Vm : Far(v) = Far(w) => Peer[v] = Peer[w]
  BY DEF Far
<1> QED
  BY <1>1, <1>2

\* One end of a connection changes.
LEMMA WireStep ==
    ASSUME UartTypes, NEW y \in Vm, NEW u, vuarts' = [vuarts EXCEPT ![<<y, 1>>] = u]
    PROVE  /\ \A w \in Vm : vuarts'[<<w, 0>>].target = vuarts[<<w, 0>>].target
           /\ \A w \in Vm : w # y => Target(w)' = Target(w) /\ Active(w)' = Active(w)
           /\ Target(y)' = u.target /\ Active(y)' = u.active
<1>1. vuarts \in [Vu -> VuartSet]
  BY DEF UartTypes
<1>2. \A w \in Vm : <<w, 0>> \in Vu /\ <<w, 1>> \in Vu /\ <<w, 0>> # <<y, 1>> /\ (w # y => <<w, 1>> # <<y, 1>>)
  BY DEF Vu
<1>3. vuarts'[<<y, 1>>] = u /\ \A x \in Vu : x # <<y, 1>> => vuarts'[x] = vuarts[x]
  BY <1>1, <1>2
<1> QED
  BY <1>2, <1>3 DEF Target, Active

LEMMA WireTarget ==
    ASSUME UartTypes, NEW y \in Vm, NEW t \in Vu \cup {None}, SetTarget(<<y, 1>>, t)
    PROVE  /\ \A w \in Vm : vuarts'[<<w, 0>>].target = vuarts[<<w, 0>>].target
           /\ \A w \in Vm : Active(w)' = Active(w)
           /\ \A w \in Vm : w # y => Target(w)' = Target(w)
           /\ Target(y)' = t
<1> DEFINE u == [vuarts[<<y, 1>>] EXCEPT !.target = t]
<1>1. vuarts' = [vuarts EXCEPT ![<<y, 1>>] = u]
  BY DEF SetTarget
<1>2. vuarts[<<y, 1>>] \in VuartSet
  BY PeerVu, Fifos
<1>3. u.target = t /\ u.active = vuarts[<<y, 1>>].active
  BY <1>2 DEF VuartSet
<1> HIDE DEF u
<1> QED
  BY <1>1, <1>3, WireStep DEF Active

LEMMA WireFrame ==
    ASSUME UartTypes, NEW x \in Vu, NEW u, vuarts' = [vuarts EXCEPT ![x] = u],
           u.target = vuarts[x].target, u.active = vuarts[x].active
    PROVE  SameWires
<1>1. vuarts \in [Vu -> VuartSet]
  BY DEF UartTypes
<1>2. \A y \in Vu : vuarts'[y].target = vuarts[y].target /\ vuarts'[y].active = vuarts[y].active
  BY <1>1
<1> QED
  BY <1>2, PeerVu DEF SameWires, Target, Active

LEMMA WiresUnchanged ==
    ASSUME vuarts' = vuarts
    PROVE  SameWires
  BY DEF SameWires, Target, Active

LEMMA LinkSame ==
    ASSUME LinkIInv, SameWires, stage' = stage
    PROVE  LinkIInv'
<1>1. LinkInv /\ stage \in [Vm -> Stages]
  BY DEF LinkIInv
<1>2. ASSUME NEW v \in Vm
      PROVE  vuarts'[<<v, 0>>].target = None /\ End(v)'
  <2>1. vuarts[<<v, 0>>].target = None /\ End(v)
    BY <1>1 DEF LinkInv
  <2>2. /\ vuarts'[<<v, 0>>].target = vuarts[<<v, 0>>].target
        /\ Target(v)' = Target(v) /\ Active(v)' = Active(v) /\ Target(Peer[v])' = Target(Peer[v])
    BY Peers DEF SameWires
  <2> QED
    BY <2>1, <2>2 DEF End
<1> QED
  BY <1>1, <1>2 DEF LinkIInv, LinkInv

\* A step of creation or shutdown concerns the two ends of one connection.
Beside(v) == \A w \in Vm : /\ vuarts'[<<w, 0>>].target = vuarts[<<w, 0>>].target
                           /\ w # v /\ w # Peer[v] => Target(w)' = Target(w) /\ Active(w)' = Active(w)

LEMMA LinkMove ==
    ASSUME LinkIInv, NEW v \in Vm, NEW to \in Stages, stage' = [stage EXCEPT ![v] = to],
           Beside(v), End(v)', End(Peer[v])'
    PROVE  LinkIInv'
<1>1. stage' \in [Vm -> Stages] /\ \A w \in Vm : w # v => stage'[w] = stage[w]
  BY DEF LinkIInv
<1>2. ASSUME NEW w \in Vm
      PROVE  vuarts'[<<w, 0>>].target = None /\ End(w)'
  <2>1. vuarts[<<w, 0>>].target = None /\ End(w)
    BY DEF LinkIInv, LinkInv
  <2>2. CASE w = v \/ w = Peer[v]
    BY <2>1, <2>2 DEF Beside
  <2>3. CASE w # v /\ w # Peer[v]
    <3>1. Peer[w] \in Vm /\ Peer[w] # v /\ Peer[w] # Peer[v]
      BY <2>3, Peers
    <3>2. /\ stage'[w] = stage[w] /\ stage'[Peer[w]] = stage[Peer[w]]
          /\ Target(w)' = Target(w) /\ Active(w)' = Active(w) /\ Target(Peer[w])' = Target(Peer[w])
      BY <1>1, <2>3, <3>1 DEF Beside
    <3> QED
      BY <2>1, <3>2 DEF Beside, End
  <2> QED
    BY <2>2, <2>3
<1> QED
  BY <1>1, <1>2 DEF LinkIInv, LinkInv

\* The stages and the ends of the two before a step of v from stage from to stage to.
LEMMA LinkAt ==
    ASSUME LinkIInv, NEW v \in Vm, NEW from, NEW to \in Stages, Stage(v, from, to)
    PROVE  /\ stage[v] = from /\ stage' = [stage EXCEPT ![v] = to]
           /\ stage'[v] = to /\ stage'[Peer[v]] = stage[Peer[v]]
           /\ Peer[v] \in Vm /\ Peer[Peer[v]] = v /\ Peer[v] # v
           /\ End(v) /\ End(Peer[v])
  BY Peers DEF LinkIInv, LinkInv, Stage

\* Steps of creation and shutdown that change no connection.
LEMMA LinkStage ==
    ASSUME LinkIInv, SameWires, NEW v \in Vm, NEW from, NEW to, Stage(v, from, to),
           \/ from = "setup0" /\ to = "setup1"
           \/ from = "connect" /\ to = "rtc"
           \/ from = "connect" /\ to = "link" /\ Active(Peer[v])
           \/ from = "rtc" /\ to = "on"
           \/ from = "stop0" /\ to = "stop1"
           \/ from = "on" /\ to = "stop0"
           \/ from = "off" /\ to = "setup0"
    PROVE  LinkIInv'
<1>1. to \in Stages
  BY DEF Stages, Creating, Stopping
<1>2. /\ Target(v)' = Target(v) /\ Active(v)' = Active(v)
      /\ Target(Peer[v])' = Target(Peer[v]) /\ Active(Peer[v])' = Active(Peer[v])
  BY Peers DEF SameWires
<1>3. Beside(v)
  BY DEF Beside, SameWires
<1>4. End(v)'
  BY <1>1, <1>2, LinkAt DEF End, Live
<1>5. End(Peer[v])'
  BY <1>1, <1>2, LinkAt DEF End, Live
<1> QED
  BY <1>1, <1>3, <1>4, <1>5, LinkMove, LinkAt

\* InitVuart1: nobody is connected with a VM that is being set up.
LEMMA LinkSetup ==
    ASSUME LinkIInv, UartTypes, NEW v \in Vm, InitVuart1(v)
    PROVE  LinkIInv'
<1> DEFINE u == vuart_setup(vuarts[<<v, 1>>])
<1>1. u.target = None /\ u.active = TRUE
  BY PeerVu, Fifos, VuartSetup
<1>2. vuarts' = [vuarts EXCEPT ![<<v, 1>>] = u] /\ Stage(v, "setup1", "connect")
  BY DEF InitVuart1
<1> HIDE DEF u
<1>3. /\ Beside(v) /\ Target(v)' = None /\ Active(v)' = TRUE
      /\ Target(Peer[v])' = Target(Peer[v]) /\ Active(Peer[v])' = Active(Peer[v])
  BY <1>1, <1>2, WireStep, Peers DEF Beside
<1>4. "connect" \in Stages
  BY DEF Stages, Creating
<1>5. End(v)'
  BY <1>2, <1>3, <1>4, LinkAt DEF End, Live
<1>6. End(Peer[v])'
  BY <1>2, <1>3, <1>4, LinkAt DEF End, Live
<1> QED
  BY <1>2, <1>3, <1>4, <1>5, <1>6, LinkMove, LinkAt

\* One end is connected with the other, then that one with it.
LEMMA LinkFirst ==
    ASSUME LinkIInv, UartTypes, NEW v \in Vm, Link(v)
    PROVE  LinkIInv'
<1>1. Stage(v, "link", "linkback") /\ "linkback" \in Stages
  BY DEF Link, Stages, Creating
<1>2. /\ Beside(v) /\ Target(v)' = Far(v) /\ Active(v)' = Active(v)
      /\ Target(Peer[v])' = Target(Peer[v]) /\ Active(Peer[v])' = Active(Peer[v])
  BY WireTarget, Peers DEF Link, Beside, Far
<1>3. End(v)'
  BY <1>1, <1>2, LinkAt, Peers DEF End, Live
<1>4. End(Peer[v])'
  BY <1>1, <1>2, LinkAt, Peers DEF End, Live
<1> QED
  BY <1>1, <1>2, <1>3, <1>4, LinkMove, LinkAt

LEMMA LinkSecond ==
    ASSUME LinkIInv, UartTypes, NEW v \in Vm, LinkBack(v)
    PROVE  LinkIInv'
<1>1. Stage(v, "linkback", "rtc") /\ "rtc" \in Stages
  BY DEF LinkBack, Stages, Creating
<1>2. Far(Peer[v]) = <<v, 1>> /\ <<v, 1>> \in Vu /\ Far(Peer[v]) # None /\ Peer[v] \in Vm
  BY Peers, PeerVu DEF Far
<1>3. /\ Beside(v) /\ Target(Peer[v])' = Far(Peer[v]) /\ Active(Peer[v])' = Active(Peer[v])
      /\ Target(v)' = Target(v) /\ Active(v)' = Active(v)
  BY <1>2, WireTarget, Peers DEF LinkBack, Beside
<1>4. End(v)'
  BY <1>1, <1>2, <1>3, LinkAt DEF End, Live
<1>5. End(Peer[v])'
  BY <1>1, <1>2, <1>3, LinkAt DEF End, Live
<1> QED
  BY <1>1, <1>3, <1>4, <1>5, LinkMove, LinkAt

\* Stop1, unless the peer is between its test and its assignment: who has a target will
\* disconnect, and its peer has one, too.
LEMMA LinkStop ==
    ASSUME LinkIInv, UartTypes, NEW v \in Vm, Stop1(v),
           stage[Peer[v]] \notin {"link", "linkback", "unlink"}
    PROVE  LinkIInv'
<1> DEFINE u == [vuarts[<<v, 1>>] EXCEPT !.active = FALSE]
<1>1. vuarts[<<v, 1>>] \in VuartSet
  BY PeerVu, Fifos
<1>2. u.target = Target(v) /\ u.active = FALSE /\ vuarts' = [vuarts EXCEPT ![<<v, 1>>] = u]
  BY <1>1 DEF Stop1, Deactivate, VuartSet, Target
<1> HIDE DEF u
<1>3. /\ Beside(v) /\ Target(v)' = Target(v) /\ Active(v)' = FALSE
      /\ Target(Peer[v])' = Target(Peer[v]) /\ Active(Peer[v])' = Active(Peer[v])
  <2>1. \A w \in Vm : vuarts'[<<w, 0>>].target = vuarts[<<w, 0>>].target
    BY <1>2, WireStep
  <2>2. \A w \in Vm : w # v => Target(w)' = Target(w) /\ Active(w)' = Active(w)
    BY <1>2, WireStep
  <2>3. Target(v)' = u.target /\ Active(v)' = u.active
    BY <1>2, WireStep
  <2>4. Beside(v)
    BY <2>1, <2>2 DEF Beside
  <2>5. Peer[v] \in Vm /\ Peer[v] # v
    BY Peers
  <2> QED
    BY <1>2, <2>2, <2>3, <2>4, <2>5
<1>4. CASE Target(v) # None
  <2>1. Stage(v, "stop1", "unlink") /\ "unlink" \in Stages
    BY <1>4 DEF Stop1, Target, Stages, Stopping
  <2>2. End(v)'
    BY <1>3, <1>4, <2>1, LinkAt DEF End, Live
  <2>3. End(Peer[v])'
    BY <1>3, <1>4, <2>1, LinkAt DEF End, Live
  <2> QED
    BY <1>3, <2>1, <2>2, <2>3, LinkMove, LinkAt
<1>5. CASE Target(v) = None
  <2>1. Stage(v, "stop1", "off") /\ "off" \in Stages
    BY <1>5 DEF Stop1, Target, Stages
  <2>2. End(v)'
    BY <1>3, <1>5, <2>1, LinkAt DEF End, Live
  <2>3. End(Peer[v])'
    BY <1>3, <1>5, <2>1, LinkAt DEF End, Live
  <2> QED
    BY <1>3, <2>1, <2>2, <2>3, LinkMove, LinkAt
<1> QED
  BY <1>4, <1>5

\* Unlink finds a target; afterwards none of the two has one.
LEMMA LinkReset ==
    ASSUME LinkIInv, UartTypes, NEW v \in Vm, Unlink(v)
    PROVE  LinkIInv'
<1>1. stage[v] = "unlink" /\ End(v)
  BY DEF Unlink, Stage, LinkIInv, LinkInv
<1>2. Target(v) = Far(v) /\ Far(v) # None /\ Peer[v] \in Vm
  BY <1>1, Peers DEF End
<1>3. /\ Stage(v, "unlink", "unlinked") /\ "unlinked" \in Stages
      /\ vuarts' = [vuarts EXCEPT ![<<Peer[v], 1>>].target = None]
  BY <1>2 DEF Unlink, Target, Far, Stages, Stopping
<1>4. /\ Beside(v) /\ Target(Peer[v])' = None /\ Active(Peer[v])' = Active(Peer[v])
      /\ Target(v)' = Target(v) /\ Active(v)' = Active(v)
  <2> DEFINE u == [vuarts[<<Peer[v], 1>>] EXCEPT !.target = None]
  <2>1. vuarts' = [vuarts EXCEPT ![<<Peer[v], 1>>] = u]
    BY <1>3
  <2>2. vuarts[<<Peer[v], 1>>] \in VuartSet
    BY PeerVu, Fifos
  <2>3. u.target = None /\ u.active = Active(Peer[v])
    BY <2>2 DEF VuartSet, Active
  <2> HIDE DEF u
  <2>4. v # Peer[v] /\ Peer[Peer[v]] = v
    BY Peers
  <2>5. \A w \in Vm : vuarts'[<<w, 0>>].target = vuarts[<<w, 0>>].target
    BY <1>2, <2>1, WireStep
  <2>6. \A w \in Vm : w # Peer[v] => Target(w)' = Target(w) /\ Active(w)' = Active(w)
    BY <1>2, <2>1, WireStep
  <2>7. Target(Peer[v])' = u.target /\ Active(Peer[v])' = u.active
    BY <1>2, <2>1, WireStep
  <2>8. Beside(v)
    BY <2>5, <2>6 DEF Beside
  <2> QED
    BY <2>3, <2>4, <2>6, <2>7, <2>8
<1>5. End(v)'
  BY <1>2, <1>3, <1>4, LinkAt DEF End, Live
<1>6. End(Peer[v])'
  BY <1>2, <1>3, <1>4, LinkAt DEF End, Live
<1> QED
  BY <1>3, <1>4, <1>5, <1>6, LinkMove, LinkAt

LEMMA LinkOff ==
    ASSUME LinkIInv, UartTypes, NEW v \in Vm, Unlinked(v)
    PROVE  LinkIInv'
<1>1. Stage(v, "unlinked", "off") /\ "off" \in Stages
  BY DEF Unlinked, Stages
<1>2. /\ Beside(v) /\ Target(v)' = None /\ Active(v)' = Active(v)
      /\ Target(Peer[v])' = Target(Peer[v]) /\ Active(Peer[v])' = Active(Peer[v])
  BY WireTarget, Peers DEF Unlinked, Beside
<1>3. End(v)'
  BY <1>1, <1>2, LinkAt DEF End, Live
<1>4. End(Peer[v])'
  BY <1>1, <1>2, LinkAt DEF End, Live
<1> QED
  BY <1>1, <1>2, <1>3, <1>4, LinkMove, LinkAt

LEMMA LinkCreate ==
    ASSUME LinkIInv, UartTypes, NEW v \in Vm, Create(v)
    PROVE  LinkIInv'
<1>1. CASE InitVuart0(v)
  <2>1. <<v, 0>> \in Vu /\ vuarts[<<v, 0>>] \in VuartSet
    BY PeerVu, Fifos
  <2>2. vuarts' = [vuarts EXCEPT ![<<v, 0>>] = vuart_setup(vuarts[<<v, 0>>])]
    BY <1>1 DEF InitVuart0
  <2>3. vuart_setup(vuarts[<<v, 0>>]).target = None /\ vuarts[<<v, 0>>].target = None
    BY <2>1, VuartSetup DEF LinkIInv, LinkInv
  <2>4. \A w \in Vm : <<w, 0>> \in Vu /\ <<w, 1>> \in Vu /\ <<w, 1>> # <<v, 0>> /\ (w # v => <<w, 0>> # <<v, 0>>)
    BY DEF Vu
  <2>5. /\ vuarts'[<<v, 0>>] = vuart_setup(vuarts[<<v, 0>>])
        /\ \A y \in Vu : y # <<v, 0>> => vuarts'[y] = vuarts[y]
    BY <2>1, <2>2 DEF UartTypes
  <2>6. SameWires
    BY <2>3, <2>4, <2>5 DEF SameWires, Target, Active
  <2> QED
    BY <1>1, <2>6, LinkStage DEF InitVuart0
<1>2. CASE InitVuart1(v)
  BY <1>2, LinkSetup
<1>3. CASE vuart_setup_connection(v)
  <2>1. SameWires
    BY <1>3, WiresUnchanged DEF vuart_setup_connection, uartVars
  <2>2. \/ Stage(v, "connect", "rtc")
        \/ Stage(v, "connect", "link") /\ Active(Peer[v])
    BY <1>3 DEF vuart_setup_connection, Active
  <2> QED
    BY <2>1, <2>2, LinkStage
<1>4. CASE Link(v)
  BY <1>4, LinkFirst
<1>5. CASE LinkBack(v)
  BY <1>5, LinkSecond
<1>6. CASE vrtc_init(v)
  <2>1. SameWires
    BY <1>6, WiresUnchanged DEF vrtc_init, uartVars
  <2> QED
    BY <1>6, <2>1, LinkStage DEF vrtc_init
<1> QED
  BY <1>1, <1>2, <1>3, <1>4, <1>5, <1>6 DEF Create

LEMMA LinkShutdown ==
    ASSUME LinkIInv, UartTypes, NEW v \in Vm, Shutdown(v)
    PROVE  raced' \/ LinkIInv'
<1>1. CASE FatalError(v)
  <2>1. SameWires
    BY <1>1, WiresUnchanged DEF FatalError, uartVars
  <2>2. Stage(v, "on", "stop0")
    BY <1>1 DEF FatalError, Stage
  <2> QED
    BY <2>1, <2>2, LinkStage
<1>2. CASE Stop0(v)
  <2> DEFINE u == [vuarts[<<v, 0>>] EXCEPT !.active = FALSE]
  <2>1. <<v, 0>> \in Vu /\ vuarts[<<v, 0>>] \in VuartSet
    BY PeerVu, Fifos
  <2>2. vuarts' = [vuarts EXCEPT ![<<v, 0>>] = u] /\ u.target = vuarts[<<v, 0>>].target
    BY <1>2, <2>1 DEF Stop0, Deactivate, VuartSet
  <2>3. \A w \in Vm : <<w, 0>> \in Vu /\ <<w, 1>> \in Vu /\ <<w, 1>> # <<v, 0>> /\ (w # v => <<w, 0>> # <<v, 0>>)
    BY DEF Vu
  <2> HIDE DEF u
  <2>4. vuarts'[<<v, 0>>] = u /\ \A y \in Vu : y # <<v, 0>> => vuarts'[y] = vuarts[y]
    BY <2>1, <2>2 DEF UartTypes
  <2>5. SameWires
    BY <2>2, <2>3, <2>4 DEF SameWires, Target, Active
  <2> QED
    BY <1>2, <2>5, LinkStage DEF Stop0
<1>3. CASE Stop1(v)
  <2>1. CASE stage[Peer[v]] \in {"link", "linkback", "unlink"}
    BY <1>3, <2>1 DEF Stop1
  <2>2. CASE stage[Peer[v]] \notin {"link", "linkback", "unlink"}
    BY <1>3, <2>2, LinkStop
  <2> QED
    BY <2>1, <2>2
<1>4. CASE Unlink(v) \/ Unlinked(v)
  BY <1>4, LinkReset, LinkOff
<1> QED
  BY <1>1, <1>2, <1>3, <1>4 DEF Shutdown

LEMMA LinkGuest ==
    ASSUME LinkIInv, UartTypes, NEW v \in Vm, Guest(v) \/ Store(v) \/ RtcRead(v)
    PROVE  LinkIInv'
<1>1. stage' = stage
  BY DEF Guest, Transmit, WriteReg, ReadReg, vrtc_write, vrtc_read, Store, RtcRead, RtcLocked,
         RtcSelect, RtcPoll, RtcIndex, RtcData, RtcRelease, RtcStep
<1>2. CASE Transmit(v) \/ vrtc_write(v) \/ vrtc_read(v) \/ RtcRead(v)
  <2>1. vuarts' = vuarts
    BY <1>2 DEF Transmit, vrtc_write, vrtc_read, RtcRead, RtcLocked, RtcSelect, RtcPoll, RtcIndex,
       RtcData, RtcRelease, RtcStep, uartVars
  <2> QED
    BY <1>1, <2>1, WiresUnchanged, LinkSame
<1>3. CASE WriteReg(v)
  <2>1. PICK i \in {0, 1} : \E w \in RegValues(<<v, i>>) :
          vuarts' = [vuarts EXCEPT ![<<v, i>>] = write_reg(@, w[1], w[2])]
    BY <1>3 DEF WriteReg
  <2>2. PICK w \in RegValues(<<v, i>>) :
          vuarts' = [vuarts EXCEPT ![<<v, i>>] = write_reg(vuarts[<<v, i>>], w[1], w[2])]
    BY <2>1
  <2>3. <<v, i>> \in Vu /\ vuarts[<<v, i>>] \in VuartSet
    BY Fifos DEF Vu
  <2> DEFINE u == write_reg(vuarts[<<v, i>>], w[1], w[2])
  <2>4. u.active = vuarts[<<v, i>>].active /\ u.target = vuarts[<<v, i>>].target
    BY <2>3, VuartWrite
  <2> HIDE DEF u
  <2>5. SameWires
    <3>1. vuarts' = [vuarts EXCEPT ![<<v, i>>] = u]
      BY <2>2 DEF u
    <3> QED
      BY <2>3, <2>4, <3>1, WireFrame
  <2> QED
    BY <1>1, <2>5, LinkSame
<1>4. CASE ReadReg(v)
  <2>1. PICK i \in {0, 1}, reg \in {"RBR", "IIR", "LSR", "MSR"} :
          vuarts' = [vuarts EXCEPT ![<<v, i>>] = vuart_read(vuarts[<<v, i>>], reg)]
    BY <1>4 DEF ReadReg
  <2>2. <<v, i>> \in Vu /\ vuarts[<<v, i>>] \in VuartSet
    BY Fifos DEF Vu
  <2> DEFINE u == vuart_read(vuarts[<<v, i>>], reg)
  <2>3. u.active = vuarts[<<v, i>>].active /\ u.target = vuarts[<<v, i>>].target
    <3> DEFINE vu == vuarts[<<v, i>>]
    <3>1. vu \in VuartSet
      BY <2>2
    <3>2. u = vuart_read(vu, reg)
      OBVIOUS
    <3> HIDE DEF u, vu
    <3>3. u.active = vu.active /\ u.target = vu.target
      BY <3>1, <3>2, VuartRead, ZenonT(30)
    <3> QED
      BY <3>3 DEF vu
  <2> HIDE DEF u
  <2>4. SameWires
    <3>1. vuarts' = [vuarts EXCEPT ![<<v, i>>] = u]
      BY <2>1 DEF u
    <3> QED
      BY <2>2, <2>3, <3>1, WireFrame
  <2> QED
    BY <1>1, <2>4, LinkSame
<1>5. CASE Store(v)
  <2>1. req[v] \in Vu \X Char
    BY <1>5 DEF Store, UartTypes
  <2>2. PICK x \in Vu, ch \in Char : req[v] = <<x, ch>>
    BY <2>1
  <2> DEFINE u == IF gp[v] = "send" THEN send_to_target(vuarts[x], ch) ELSE WriteThr(vuarts[x], ch)
  <2>3. vuarts' = [vuarts EXCEPT ![x] = u]
    BY <1>5, <2>2 DEF Store
  <2>4. vuarts[x] \in VuartSet
    BY Fifos
  <2>5. u.active = vuarts[x].active /\ u.target = vuarts[x].target
    BY <2>4, VuartThr, VuartSend
  <2> HIDE DEF u
  <2>6. SameWires
    BY <2>3, <2>5, WireFrame
  <2> QED
    BY <1>1, <2>6, LinkSame
<1> QED
  BY <1>2, <1>3, <1>4, <1>5 DEF Guest

LEMMA LinkConsole ==
    ASSUME LinkIInv, UartTypes, Console \/ UNCHANGED vars
    PROVE  LinkIInv'
<1>1. CASE StopTest
  <2>1. SameWires
    BY <1>1, WiresUnchanged DEF StopTest, uartVars
  <2>2. Stage(0, "on", "stop0") /\ 0 \in Vm
    BY <1>1, DevicesAssumption DEF StopTest, Stage
  <2> QED
    BY <2>1, <2>2, LinkStage
<1>2. CASE StartTest
  <2>1. SameWires
    BY <1>2, WiresUnchanged DEF StartTest, uartVars
  <2>2. Stage(0, "off", "setup0") /\ 0 \in Vm
    BY <1>2, DevicesAssumption DEF StartTest, Stage
  <2> QED
    BY <2>1, <2>2, LinkStage
<1>3. CASE KickVm \/ shell_kick \/ Escape \/ TestDone \/ UNCHANGED vars
  <2>1. stage' = stage /\ vuarts' = vuarts
    BY <1>3 DEF KickVm, shell_kick, Escape, TestDone, vars, uartVars
  <2> QED
    BY <2>1, WiresUnchanged, LinkSame
<1>4. CASE vuart_console_rx_chars \/ vuart_console_tx_chars
  <2>1. stage' = stage /\ con \in {"rx", "tx"}
    BY <1>4 DEF vuart_console_rx_chars, vuart_console_tx_chars
  <2>2. PICK x \in Vu : cvu = x
    BY <2>1 DEF UartTypes
  <2>3. vuarts[x] \in VuartSet
    BY Fifos
  <2>4. \/ vuarts' = vuarts
        \/ \E f : vuarts' = [vuarts EXCEPT ![x] = [vuarts[x] EXCEPT !.rxfifo = f]]
        \/ \E f : vuarts' = [vuarts EXCEPT ![x] = [vuarts[x] EXCEPT !.txfifo = f]]
    BY <1>4, <2>2 DEF vuart_console_rx_chars, vuart_console_tx_chars
  <2>5. ASSUME NEW f, vuarts' = [vuarts EXCEPT ![x] = [vuarts[x] EXCEPT !.rxfifo = f]]
        PROVE  SameWires
    BY <2>3, <2>5, WireFrame DEF VuartSet
  <2>6. ASSUME NEW f, vuarts' = [vuarts EXCEPT ![x] = [vuarts[x] EXCEPT !.txfifo = f]]
        PROVE  SameWires
    BY <2>3, <2>6, WireFrame DEF VuartSet
  <2> QED
    BY <2>1, <2>4, <2>5, <2>6, WiresUnchanged, LinkSame
<1> QED
  BY <1>1, <1>2, <1>3, <1>4 DEF Console

\* What has happened stays in the history.
LEMMA RacedStays ==
    ASSUME raced, [Next]_vars
    PROVE  raced'
<1>1. CASE UNCHANGED vars
  BY <1>1 DEF vars, history
<1>2. CASE Console
  BY <1>2 DEF Console, KickVm, vuart_console_rx_chars, vuart_console_tx_chars, shell_kick, Escape,
              StopTest, StartTest, TestDone, history
<1>3. ASSUME NEW v \in Vm, Create(v) \/ Shutdown(v)
      PROVE  raced'
  BY <1>3 DEF Create, InitVuart0, InitVuart1, vuart_setup_connection, Link, LinkBack, vrtc_init,
              Shutdown, FatalError, Stop0, Stop1, Unlink, Unlinked, history
<1>4. ASSUME NEW v \in Vm, Guest(v) \/ Store(v) \/ RtcRead(v)
      PROVE  raced'
  BY <1>4 DEF Guest, Transmit, WriteReg, ReadReg, vrtc_write, vrtc_read, Store, RtcRead, RtcLocked,
              RtcSelect, RtcPoll, RtcIndex, RtcData, RtcRelease, RtcStep, history
<1> QED
  BY <1>1, <1>2, <1>3, <1>4 DEF Next

\* The stages of creation and shutdown say what is connected, whichever VMs are created
\* and shut down at once, until a shutdown meets the peer's link or unlink.
THEOREM LinkInvariance == Spec => [](raced \/ LinkIInv)
<1>1. Init => LinkIInv
  <2> SUFFICES ASSUME Init PROVE LinkIInv
    OBVIOUS
  <2>1. stage \in [Vm -> Stages] /\ \A v \in Vm : stage[v] = "setup0"
    BY DEF Init, Stages, Creating
  <2>2. \A x \in Vu : vuarts[x].target = None /\ vuarts[x].active = FALSE
    BY DEF Init, ZeroVuart
  <2> QED
    BY <2>1, <2>2, Peers, PeerVu DEF LinkIInv, LinkInv, End, Target, Active, Live
<1>2. (raced \/ LinkIInv) /\ CharsIInv /\ [Next]_vars => (raced \/ LinkIInv)'
  <2> SUFFICES ASSUME LinkIInv, UartTypes, [Next]_vars PROVE raced' \/ LinkIInv'
    BY RacedStays DEF CharsIInv
  <2>1. CASE UNCHANGED vars \/ Console
    BY <2>1, LinkConsole
  <2>2. ASSUME NEW v \in Vm, Create(v) \/ Shutdown(v) \/ Guest(v) \/ Store(v) \/ RtcRead(v)
        PROVE  raced' \/ LinkIInv'
    BY <2>2, LinkCreate, LinkShutdown, LinkGuest
  <2> QED
    BY <2>1, <2>2 DEF Next
<1> QED
  BY <1>1, <1>2, CharsInvariance, PTL DEF Spec

\* A connection has two active ends outside of creation and shutdown, and no shutdown
\* goes through a NULL target, for any number of VMs: LinkedBothWays is an invariant.
THEOREM Linked == Spec => []LinkedBothWays
<1>1. raced \/ LinkIInv => LinkedBothWays
  <2> SUFFICES ASSUME LinkIInv PROVE LinkedBothWays
    BY DEF LinkedBothWays
  <2>0. /\ \A v \in Vm : vuarts[<<v, 0>>].target = None /\ End(v) /\ End(Peer[v])
        /\ \A v \in Vm : stage[v] \in Stages
    BY Peers DEF LinkIInv, LinkInv
  <2>1. \A v \in Vm : stage[v] # "fault"
    BY <2>0 DEF Stages, Creating, Stopping
  <2>2. ASSUME \A v \in Vm : stage[v] \in {"on", "off"}, NEW x \in Vu, vuarts[x].target # None
        PROVE  vuarts[x].active /\ vuarts[vuarts[x].target].target = x
    <3>1. PICK v \in Vm : x = <<v, 0>> \/ x = <<v, 1>>
      BY DEF Vu
    <3>2. x = <<v, 1>> /\ Target(v) # None
      BY <2>0, <2>2, <3>1 DEF Target
    <3>3. Target(v) = Far(v) /\ stage[v] = "on" /\ Active(v)
      BY <2>0, <2>2, <3>2 DEF End, Live
    <3>4. Target(Peer[v]) # None
      BY <2>0, <2>2, <3>2 DEF End
    <3>5. Target(Peer[v]) = Far(Peer[v]) /\ Far(Peer[v]) = x
      BY <2>0, <3>2, <3>4, Peers DEF End, Far
    <3> QED
      BY <3>2, <3>3, <3>5 DEF Target, Far, Active
  <2> QED
    BY <2>1, <2>2 DEF LinkedBothWays
<1> QED
  BY <1>1, LinkInvariance, PTL
-----------------------------------------------------------------------------
(* What a VM reads from the clock.                                         *)

\* A step that leaves the clock and the places of its readers alone keeps the invariant.
LEMMA RtcFrame ==
    ASSUME RtcIInv, UNCHANGED rtcVars, gp' \in [Vm -> GuestPlace],
           \A w \in Vm : gp'[w] = gp[w] \/ (gp[w] \notin RtcPlace /\ gp'[w] \notin RtcPlace)
    PROVE  RtcIInv'
<1>1. RtcTypes'
  BY DEF RtcIInv, RtcTypes, rtcVars
<1>2. \A w \in Vm : gp'[w] \in RtcPlace => gp'[w] = gp[w]
  OBVIOUS
<1>3. RtcInv'
  BY <1>2 DEF RtcIInv, RtcInv, rtcVars, RtcPlace
<1>4. OwnRegister'
  BY <1>2 DEF RtcIInv, OwnRegister, rtcVars, RtcPlace, RtcHolds
<1> QED
  BY <1>1, <1>3, <1>4 DEF RtcIInv

LEMMA RtcInitial ==
    ASSUME Init
    PROVE  RtcIInv
<1>1. RtcTypes
  BY DEF Init, RtcTypes, GuestPlace, RtcReg
<1>2. cmos_lock.head <= cmos_lock.tail /\ \A v \in Vm : gp[v] \notin RtcPlace
  BY DEF Init, RtcPlace, RtcHolds
<1> QED
  BY <1>1, <1>2 DEF RtcIInv, RtcInv, OwnRegister, RtcPlace, RtcHolds

\* vrtc_init: without a ticket that has not been served nobody reads the clock.
LEMMA RtcCreate ==
    ASSUME RtcIInv, NEW v \in Vm, Create(v)
    PROVE  cmos_reset' \/ RtcIInv'
<1>1. CASE vrtc_init(v)
  <2>1. CASE cmos_lock.head # cmos_lock.tail
    BY <1>1, <2>1 DEF vrtc_init
  <2>2. CASE cmos_lock.head = cmos_lock.tail
    <3>1. cmos_lock.head \in Nat /\ \A w \in Vm : rtc[w].ticket \in Nat
      BY DEF RtcIInv, RtcTypes
    <3>2. \A w \in Vm : gp'[w] \notin RtcPlace
      BY <1>1, <2>2, <3>1 DEF vrtc_init, RtcIInv, RtcInv
    <3>3. RtcTypes' /\ cmos_lock' = [head |-> 0, tail |-> 0]
      BY <1>1 DEF vrtc_init, RtcIInv, RtcTypes, RtcReg
    <3> QED
      BY <3>2, <3>3 DEF RtcIInv, RtcInv, OwnRegister, RtcPlace, RtcHolds
  <2> QED
    BY <2>1, <2>2
<1>2. CASE ~vrtc_init(v)
  <2>1. UNCHANGED <<rtcVars, gp>>
    BY <1>2 DEF Create, InitVuart0, InitVuart1, vuart_setup_connection, Link, LinkBack
  <2> QED
    BY <2>1, RtcFrame DEF RtcIInv, RtcTypes
<1> QED
  BY <1>1, <1>2

LEMMA RtcShutdown ==
    ASSUME RtcIInv, NEW v \in Vm, Shutdown(v)
    PROVE  RtcIInv'
<1>1. UNCHANGED rtcVars
  BY DEF Shutdown, FatalError, Stop0, Stop1, Unlink, Unlinked
<1>2. gp' = gp \/ (gp[v] \in {"fatal", "guest"} /\ gp' = [gp EXCEPT ![v] = "guest"])
  BY DEF Shutdown, FatalError, Stop0, Stop1, Unlink, Unlinked
<1>3. gp \in [Vm -> GuestPlace]
  BY DEF RtcIInv, RtcTypes
<1>4. gp' \in [Vm -> GuestPlace]
  BY <1>2, <1>3 DEF GuestPlace
<1>5. \A w \in Vm : gp'[w] = gp[w] \/ (gp[w] \notin RtcPlace /\ gp'[w] \notin RtcPlace)
  BY <1>2, <1>3 DEF RtcPlace, RtcHolds
<1> QED
  BY <1>1, <1>4, <1>5, RtcFrame

LEMMA RtcStore ==
    ASSUME RtcIInv, NEW v \in Vm, Store(v) \/ Transmit(v) \/ WriteReg(v) \/ ReadReg(v)
    PROVE  RtcIInv'
<1>1. UNCHANGED rtcVars
  BY DEF Store, Transmit, WriteReg, ReadReg
<1>2. \/ gp' = gp
      \/ /\ gp[v] \in {"guest", "send", "write"}
         /\ \E p \in {"guest", "send", "write"} : gp' = [gp EXCEPT ![v] = p]
  BY DEF Store, Transmit, WriteReg, ReadReg, Start, vuart_write, Goto
<1>3. gp \in [Vm -> GuestPlace]
  BY DEF RtcIInv, RtcTypes
<1>4. gp' \in [Vm -> GuestPlace]
  BY <1>2, <1>3 DEF GuestPlace
<1>5. \A w \in Vm : gp'[w] = gp[w] \/ (gp[w] \notin RtcPlace /\ gp'[w] \notin RtcPlace)
  BY <1>2, <1>3 DEF RtcPlace, RtcHolds
<1> QED
  BY <1>1, <1>4, <1>5, RtcFrame

LEMMA RtcConsole ==
    ASSUME RtcIInv, Console \/ UNCHANGED vars
    PROVE  RtcIInv'
<1>1. UNCHANGED <<rtcVars, gp>>
  BY DEF Console, KickVm, vuart_console_rx_chars, vuart_console_tx_chars, shell_kick, Escape,
         StopTest, StartTest, TestDone, vars
<1> QED
  BY <1>1, RtcFrame DEF RtcIInv, RtcTypes

\* A guest chooses a register, or takes a ticket behind all others.
LEMMA RtcStart ==
    ASSUME RtcIInv, NEW v \in Vm, vrtc_write(v) \/ vrtc_read(v)
    PROVE  RtcIInv'
<1>0. /\ gp \in [Vm -> GuestPlace] /\ vrtc_offset \in [Vm -> RtcReg]
      /\ cmos_lock \in [head : Nat, tail : Nat] /\ rtc \in [Vm -> [ticket : Nat, tries : Nat]]
  BY DEF RtcIInv, RtcTypes
<1>1. gp[v] = "guest"
  BY DEF vrtc_write, vrtc_read, Start
<1>2. CASE vrtc_write(v)
  <2>1. PICK r \in RtcReg : vrtc_offset' = [vrtc_offset EXCEPT ![v] = r]
    BY <1>2 DEF vrtc_write
  <2>2. UNCHANGED <<cmos, cmos_lock, rtc, gp>>
    BY <1>2 DEF vrtc_write
  <2>3. RtcTypes' /\ \A w \in Vm : w # v => vrtc_offset'[w] = vrtc_offset[w]
    BY <1>0, <2>1, <2>2 DEF RtcTypes
  <2>4. RtcInv'
    BY <2>2 DEF RtcIInv, RtcInv
  <2> QED
    BY <1>1, <2>2, <2>3, <2>4 DEF RtcIInv, OwnRegister
<1>3. CASE vrtc_read(v) /\ vrtc_offset[v] = "ALARM"
  <2>1. UNCHANGED <<rtcVars, gp>>
    BY <1>3 DEF vrtc_read, rtcVars
  <2> QED
    BY <1>0, <2>1, RtcFrame
<1>4. CASE vrtc_read(v) /\ vrtc_offset[v] # "ALARM"
  <2>1. cmos_get_reg_val(v) /\ UNCHANGED <<vrtc_offset, cmos>>
    BY <1>4 DEF vrtc_read
  <2>2. /\ gp' = [gp EXCEPT ![v] = "rtc_wait"]
        /\ cmos_lock' = [cmos_lock EXCEPT !.tail = @ + 1]
        /\ rtc' = [rtc EXCEPT ![v].tries = Tries, ![v].ticket = cmos_lock.tail]
    BY <2>1 DEF cmos_get_reg_val, Goto
  <2>3. /\ gp'[v] = "rtc_wait" /\ \A w \in Vm : w # v => gp'[w] = gp[w]
        /\ gp' \in [Vm -> GuestPlace]
    BY <1>0, <2>2 DEF GuestPlace, RtcPlace
  <2>4. /\ cmos_lock'.head = cmos_lock.head /\ cmos_lock'.tail = cmos_lock.tail + 1
        /\ cmos_lock' \in [head : Nat, tail : Nat]
    BY <1>0, <2>2
  <2>5. /\ rtc'[v].ticket = cmos_lock.tail /\ \A w \in Vm : w # v => rtc'[w] = rtc[w]
        /\ rtc' \in [Vm -> [ticket : Nat, tries : Nat]]
    <3>1. rtc'[v] = [rtc[v] EXCEPT !.tries = Tries, !.ticket = cmos_lock.tail]
      BY <1>0, <2>2
    <3>2. rtc[v] \in [ticket : Nat, tries : Nat] /\ Tries \in Nat /\ cmos_lock.tail \in Nat
      BY <1>0, DevicesAssumption
    <3>3. rtc'[v].ticket = cmos_lock.tail /\ rtc'[v] \in [ticket : Nat, tries : Nat]
      BY <3>1, <3>2
    <3>4. \A w \in Vm : w # v => rtc'[w] = rtc[w]
      BY <1>0, <2>2
    <3>5. rtc' = [w \in Vm |-> rtc'[w]]
      BY <1>0, <2>2
    <3>6. \A w \in Vm : rtc'[w] \in [ticket : Nat, tries : Nat]
      BY <1>0, <3>3, <3>4
    <3> QED
      BY <3>3, <3>4, <3>5, <3>6
  <2>6. RtcTypes'
    BY <1>0, <2>1, <2>3, <2>4, <2>5 DEF RtcTypes
  <2>7. RtcInv'
    <3>1. cmos_lock.head \in Nat /\ cmos_lock.tail \in Nat /\ cmos_lock.head <= cmos_lock.tail
      BY <1>0 DEF RtcIInv, RtcInv
    <3>2. \A w \in Vm : w # v /\ gp'[w] \in RtcPlace =>
            /\ gp[w] \in RtcPlace /\ rtc'[w].ticket = rtc[w].ticket /\ rtc[w].ticket \in Nat
            /\ cmos_lock.head <= rtc[w].ticket /\ rtc[w].ticket < cmos_lock.tail
      BY <1>0, <2>3, <2>5 DEF RtcIInv, RtcInv
    <3>3. \A w \in Vm : gp'[w] \in RtcPlace =>
            cmos_lock'.head <= rtc'[w].ticket /\ rtc'[w].ticket < cmos_lock'.tail
      BY <2>4, <2>5, <3>1, <3>2
    <3>4. \A w, x \in Vm : w # x /\ gp'[w] \in RtcPlace /\ gp'[x] \in RtcPlace =>
            rtc'[w].ticket # rtc'[x].ticket
      <4>1. \A w \in Vm : w # v /\ gp'[w] \in RtcPlace => rtc'[w].ticket # rtc'[v].ticket
        BY <2>5, <3>1, <3>2
      <4>2. \A w, x \in Vm : w # v /\ x # v /\ w # x /\ gp'[w] \in RtcPlace /\ gp'[x] \in RtcPlace =>
              rtc'[w].ticket # rtc'[x].ticket
        BY <3>2 DEF RtcIInv, RtcInv
      <4> QED
        BY <4>1, <4>2
    <3>5. \A w \in Vm : gp'[w] \in RtcHolds => rtc'[w].ticket = cmos_lock'.head
      <4>1. \A w \in Vm : gp'[w] \in RtcHolds => w # v /\ gp[w] \in RtcHolds
        BY <2>3 DEF RtcHolds
      <4> QED
        BY <4>1, <2>4, <2>5 DEF RtcIInv, RtcInv
    <3>6. cmos_lock'.head <= cmos_lock'.tail
      BY <2>4, <3>1
    <3> QED
      BY <3>3, <3>4, <3>5, <3>6 DEF RtcInv
  <2> QED
    BY <2>1, <2>3, <2>6, <2>7 DEF RtcIInv, OwnRegister
<1> QED
  BY <1>2, <1>3, <1>4

\* The steps of a read.  Only the VM whose ticket is served goes past the wait.
LEMMA RtcReads ==
    ASSUME RtcIInv, NEW v \in Vm, RtcRead(v)
    PROVE  RtcIInv'
<1>0. /\ gp \in [Vm -> GuestPlace] /\ vrtc_offset \in [Vm -> RtcReg]
      /\ cmos_lock \in [head : Nat, tail : Nat] /\ rtc \in [Vm -> [ticket : Nat, tries : Nat]]
      /\ gp[v] \in RtcPlace /\ vrtc_offset' = vrtc_offset
  BY DEF RtcIInv, RtcTypes, RtcRead, RtcLocked, RtcSelect, RtcPoll, RtcIndex, RtcData, RtcRelease,
         RtcStep, RtcPlace, RtcHolds
<1>1. PICK to \in GuestPlace : gp' = [gp EXCEPT ![v] = to]
  BY DEF RtcRead, RtcLocked, RtcSelect, RtcPoll, RtcIndex, RtcData, RtcRelease, RtcStep, Goto,
         GuestPlace, RtcPlace, RtcHolds
<1>2. gp' \in [Vm -> GuestPlace] /\ gp'[v] = to /\ \A w \in Vm : w # v => gp'[w] = gp[w]
  BY <1>0, <1>1
<1>3. /\ rtc' \in [Vm -> [ticket : Nat, tries : Nat]]
      /\ \A w \in Vm : rtc'[w].ticket = rtc[w].ticket
  <2>1. CASE rtc' = rtc
    BY <1>0, <2>1
  <2>2. CASE \E n \in Nat : rtc' = [rtc EXCEPT ![v].tries = n]
    BY <1>0, <2>2
  <2>3. RtcPoll(v) => \E n \in Nat : rtc' = [rtc EXCEPT ![v].tries = n]
    <3> SUFFICES ASSUME RtcPoll(v) PROVE \E n \in Nat : rtc' = [rtc EXCEPT ![v].tries = n]
      OBVIOUS
    <3>1. rtc[v].tries \in Nat
      BY <1>0
    <3>2. PICK busy \in BOOLEAN :
            rtc' = [rtc EXCEPT ![v].tries = IF busy /\ rtc[v].tries # 0 THEN rtc[v].tries - 1
                                            ELSE rtc[v].tries]
      BY DEF RtcPoll
    <3> DEFINE n == IF busy /\ rtc[v].tries # 0 THEN rtc[v].tries - 1 ELSE rtc[v].tries
    <3>3. n \in Nat
      BY <3>1
    <3>4. rtc' = [rtc EXCEPT ![v].tries = n]
      BY <3>2
    <3> QED
      BY <3>3, <3>4
  <2> QED
    BY <2>1, <2>2, <2>3 DEF RtcRead, RtcLocked, RtcSelect, RtcIndex, RtcData, RtcRelease
<1>4. \A w \in Vm : gp[w] \in RtcHolds /\ gp[v] \in RtcHolds => w = v
  BY DEF RtcIInv, RtcInv, RtcPlace
<1>5. CASE RtcRelease(v)
  <2>1. /\ gp[v] \in RtcHolds /\ to \notin RtcPlace /\ cmos' = cmos
        /\ cmos_lock' = [cmos_lock EXCEPT !.head = @ + 1]
    BY <1>0, <1>2, <1>5 DEF RtcRelease, RtcStep, Goto, RtcPlace, RtcHolds
  <2>2. /\ cmos_lock'.head = cmos_lock.head + 1 /\ cmos_lock'.tail = cmos_lock.tail
        /\ cmos_lock' \in [head : Nat, tail : Nat]
    BY <1>0, <2>1
  <2>3. \A w \in Vm : gp'[w] \in RtcPlace => w # v /\ gp[w] = gp'[w] /\ gp[w] \notin RtcHolds
    BY <1>2, <1>4, <2>1
  <2>4. rtc[v].ticket = cmos_lock.head /\ rtc[v].ticket < cmos_lock.tail
    BY <2>1 DEF RtcIInv, RtcInv, RtcPlace
  <2>5. \A w \in Vm : gp'[w] \in RtcPlace => cmos_lock.head + 1 <= rtc[w].ticket
    <3> SUFFICES ASSUME NEW w \in Vm, gp'[w] \in RtcPlace
                 PROVE  cmos_lock.head + 1 <= rtc[w].ticket
      OBVIOUS
    <3>1. w # v /\ gp[w] \in RtcPlace /\ gp[v] \in RtcPlace
      BY <1>0, <2>3
    <3>2. rtc[w].ticket # rtc[v].ticket /\ cmos_lock.head <= rtc[w].ticket
      BY <3>1 DEF RtcIInv, RtcInv
    <3>3. rtc[w].ticket \in Nat /\ cmos_lock.head \in Nat
      BY <1>0
    <3> QED
      BY <3>2, <3>3, <2>4
  <2>6. RtcInv'
    BY <1>0, <1>3, <2>2, <2>3, <2>4, <2>5 DEF RtcIInv, RtcInv, RtcPlace
  <2>7. RtcTypes'
    BY <1>0, <1>2, <1>3, <2>2 DEF RtcTypes
  <2>8. OwnRegister'
    BY <2>3 DEF OwnRegister, RtcPlace, RtcHolds
  <2> QED
    BY <2>6, <2>7, <2>8 DEF RtcIInv
<1>6. CASE ~RtcRelease(v)
  <2>1. cmos_lock' = cmos_lock /\ (to \in RtcHolds => rtc[v].ticket = cmos_lock.head)
    BY <1>0, <1>2, <1>6 DEF RtcRead, RtcLocked, RtcSelect, RtcPoll, RtcIndex, RtcData, RtcStep,
       RtcIInv, RtcInv, RtcHolds
  <2>2. to \in RtcHolds
    BY <1>0, <1>2, <1>6 DEF RtcRead, RtcLocked, RtcSelect, RtcPoll, RtcIndex, RtcData, RtcStep, Goto,
       RtcHolds
  <2>3. RtcInv'
    <3>1. \A w \in Vm : gp'[w] \in RtcPlace => gp[w] \in RtcPlace
      BY <1>0, <1>2
    <3>2. \A w \in Vm : gp'[w] \in RtcHolds => w = v \/ gp[w] \in RtcHolds
      BY <1>2
    <3>3. \A w \in Vm : gp'[w] \in RtcHolds => rtc'[w].ticket = cmos_lock'.head
      BY <1>3, <2>1, <2>2, <3>2 DEF RtcIInv, RtcInv
    <3>4. /\ cmos_lock'.head <= cmos_lock'.tail
          /\ \A w \in Vm : gp'[w] \in RtcPlace =>
               cmos_lock'.head <= rtc'[w].ticket /\ rtc'[w].ticket < cmos_lock'.tail
      BY <1>3, <2>1, <3>1 DEF RtcIInv, RtcInv
    <3>5. \A w, x \in Vm : w # x /\ gp'[w] \in RtcPlace /\ gp'[x] \in RtcPlace =>
            rtc'[w].ticket # rtc'[x].ticket
      BY <1>3, <3>1 DEF RtcIInv, RtcInv
    <3> QED
      BY <3>3, <3>4, <3>5 DEF RtcInv
  <2>4. \A w \in Vm : gp'[w] = "rtc_data" => w = v
    BY <2>2, <2>3, <1>0, <1>2 DEF RtcInv, RtcPlace, RtcHolds
  <2>5. to = "rtc_data" => cmos' = vrtc_offset[v]
    BY <1>0, <1>2, <1>6 DEF RtcRead, RtcLocked, RtcSelect, RtcPoll, RtcIndex, RtcData, RtcStep, Goto,
       RtcHolds
  <2>6. OwnRegister'
    BY <1>0, <1>2, <2>4, <2>5 DEF OwnRegister
  <2> QED
    BY <1>0, <1>2, <1>3, <2>1, <2>3, <2>6 DEF RtcIInv, RtcTypes
<1> QED
  BY <1>5, <1>6

LEMMA ResetStays ==
    ASSUME cmos_reset, [Next]_vars
    PROVE  cmos_reset'
<1>1. CASE UNCHANGED vars
  BY <1>1 DEF vars, history
<1>2. CASE Console
  BY <1>2 DEF Console, KickVm, vuart_console_rx_chars, vuart_console_tx_chars, shell_kick, Escape,
              StopTest, StartTest, TestDone, history
<1>3. ASSUME NEW v \in Vm, Create(v) \/ Shutdown(v)
      PROVE  cmos_reset'
  BY <1>3 DEF Create, InitVuart0, InitVuart1, vuart_setup_connection, Link, LinkBack, vrtc_init,
              Shutdown, FatalError, Stop0, Stop1, Unlink, Unlinked, history
<1>4. ASSUME NEW v \in Vm, Guest(v) \/ Store(v) \/ RtcRead(v)
      PROVE  cmos_reset'
  BY <1>4 DEF Guest, Transmit, WriteReg, ReadReg, vrtc_write, vrtc_read, Store, RtcRead, RtcLocked,
              RtcSelect, RtcPoll, RtcIndex, RtcData, RtcRelease, RtcStep, history
<1> QED
  BY <1>1, <1>2, <1>3, <1>4 DEF Next

\* The clock's invariant holds until vrtc_init initialises the lock while a VM has a
\* ticket of it.
THEOREM RtcInvariance == Spec => [](cmos_reset \/ RtcIInv)
<1>1. Init => RtcIInv
  BY RtcInitial
<1>2. (cmos_reset \/ RtcIInv) /\ [Next]_vars => (cmos_reset \/ RtcIInv)'
  <2> SUFFICES ASSUME RtcIInv, [Next]_vars PROVE cmos_reset' \/ RtcIInv'
    BY ResetStays
  <2>1. CASE UNCHANGED vars \/ Console
    BY <2>1, RtcConsole
  <2>2. ASSUME NEW v \in Vm, Create(v) \/ Shutdown(v) \/ Guest(v) \/ Store(v) \/ RtcRead(v)
        PROVE  cmos_reset' \/ RtcIInv'
    BY <2>2, RtcCreate, RtcShutdown, RtcStore, RtcStart, RtcReads DEF Guest
  <2> QED
    BY <2>1, <2>2 DEF Next
<1> QED
  BY <1>1, <1>2, PTL DEF Spec

\* What a VM reads from the data port of the clock is the register its own guest
\* chose, for any number of VMs: RtcOwnRegister is an invariant.
THEOREM RtcOwn == Spec => []RtcOwnRegister
<1>1. cmos_reset \/ RtcIInv => RtcOwnRegister
  BY DEF RtcIInv, OwnRegister, RtcOwnRegister
<1> QED
  BY <1>1, RtcInvariance, PTL

-----------------------------------------------------------------------------
(* What the shell executes.                                                *)

\* A text ends where it ends.
LEMMA TextIs ==
    ASSUME NEW t \in Text
    PROVE  /\ t \in Seq(Keys) /\ Len(t) \in 0 .. SHELL_CMD_MAX_LEN
           /\ \A i \in 1 .. Len(t) : t[i] \in Keys /\ t[i] # None
           /\ SHELL_CMD_MAX_LEN \in Nat /\ SHELL_CMD_MAX_LEN > 0
<1>1. t \in Seq(Keys) /\ Len(t) <= SHELL_CMD_MAX_LEN /\ Len(t) \in Nat
  BY DEF Text
<1>2. SHELL_CMD_MAX_LEN \in Nat /\ SHELL_CMD_MAX_LEN > 0 /\ None \notin Keys
  BY DevicesAssumption
<1>3. \A i \in 1 .. Len(t) : t[i] \in Keys
  BY <1>1
<1> QED
  BY <1>1, <1>2, <1>3

\* string_to_argv finds in a buffer the text that was typed into it.
LEMMA WordsAreTyped ==
    ASSUME NEW line, NEW t \in Text, Shows(line, t)
    PROVE  Words(line) = t
<1> DEFINE E(n) == /\ n = SHELL_CMD_MAX_LEN \/ line[n] = None
                   /\ \A i \in 0 .. n - 1 : line[i] # None
           end == CHOOSE n \in 0 .. SHELL_CMD_MAX_LEN : E(n)
<1>1. /\ t \in Seq(Keys) /\ Len(t) \in 0 .. SHELL_CMD_MAX_LEN
      /\ \A i \in 1 .. Len(t) : t[i] \in Keys /\ t[i] # None
      /\ SHELL_CMD_MAX_LEN \in Nat
  BY TextIs
<1>2. \A i \in 0 .. SHELL_CMD_MAX_LEN : line[i] = IF i < Len(t) THEN t[i + 1] ELSE None
  BY DEF Shows
<1>3. \A i \in 0 .. Len(t) - 1 : line[i] = t[i + 1] /\ line[i] # None
  BY <1>1, <1>2
<1>4. line[Len(t)] = None
  BY <1>1, <1>2
<1>5. E(Len(t))
  BY <1>3, <1>4
<1>6. ASSUME NEW n \in 0 .. SHELL_CMD_MAX_LEN, E(n)
      PROVE  n = Len(t)
  <2>1. CASE n < Len(t)
    BY <1>1, <1>3, <1>6, <2>1
  <2>2. CASE n > Len(t)
    BY <1>1, <1>4, <1>6, <2>2
  <2> QED
    BY <1>1, <2>1, <2>2
<1>7. end \in 0 .. SHELL_CMD_MAX_LEN /\ E(end)
  <2> HIDE DEF E
  <2> QED
    BY <1>1, <1>5
<1>8. end = Len(t)
  <2> HIDE DEF E, end
  <2> QED
    BY <1>6, <1>7
<1>9. Words(line) = [i \in 1 .. end |-> line[i - 1]]
  BY DEF Words
<1>10. \A i \in 1 .. Len(t) : line[i - 1] = t[i]
  <2> SUFFICES ASSUME NEW i \in 1 .. Len(t) PROVE line[i - 1] = t[i]
    OBVIOUS
  <2>1. i - 1 \in 0 .. Len(t) - 1 /\ (i - 1) + 1 = i
    BY <1>1
  <2> QED
    BY <2>1, <1>3
<1>11. t = [i \in 1 .. Len(t) |-> t[i]]
  BY <1>1
<1> HIDE DEF end
<1> QED
  BY <1>8, <1>9, <1>10, <1>11

LEMMA EmptyShows == EmptyLine \in Line /\ Shows(EmptyLine, <<>>) /\ <<>> \in Text
<1>1. SHELL_CMD_MAX_LEN \in Nat
  BY DevicesAssumption
<1>2. <<>> \in Text /\ Len(<<>>) = 0
  BY <1>1 DEF Text
<1> QED
  BY <1>1, <1>2 DEF EmptyLine, Line, Shows

\* A line that is complete is executed as typed, and the buffers change roles.
LEMMA ShellDone ==
    ASSUME ShellIInv, NEW s, s = [sh EXCEPT !.len = 0], NEW now,
           now = IF typed # <<>> /\ typed[1] = "." THEN prev ELSE typed,
           sh' = shell_process(s), typed' = <<>>, prev' = now, ran' = <<ProcessedLine(s), now>>
    PROVE  ShellIInv'
<1>1. /\ sh.line \in [{0, 1} -> Line] /\ sh.active \in {0, 1} /\ s.line = sh.line
      /\ s.active = sh.active
      /\ s \in [line : [{0, 1} -> Line], active : {0, 1}, len : 0 .. SHELL_CMD_MAX_LEN]
      /\ s.len = 0
  <2>1. sh \in [line : [{0, 1} -> Line], active : {0, 1}, len : 0 .. SHELL_CMD_MAX_LEN]
    BY DEF ShellIInv
  <2>2. 0 \in 0 .. SHELL_CMD_MAX_LEN
    BY DevicesAssumption
  <2> QED
    BY <2>1, <2>2
<1>2. /\ typed \in Text /\ prev \in Text
      /\ Shows(sh.line[sh.active], typed) /\ Shows(sh.line[Other(sh.active)], prev)
  BY DEF ShellIInv
<1> DEFINE again == sh.line[sh.active][0] = "."
<1>3. again <=> (typed # <<>> /\ typed[1] = ".")
  <2>1. sh.line[sh.active][0] = IF 0 < Len(typed) THEN typed[0 + 1] ELSE None
    BY <1>2, TextIs DEF Shows
  <2>2. None # "."
    BY DevicesAssumption
  <2>3. 0 < Len(typed) <=> typed # <<>>
    BY <1>2, TextIs
  <2> QED
    BY <2>1, <2>2, <2>3
<1>4. Other(sh.active) \in {0, 1} /\ Other(Other(sh.active)) = sh.active /\ Other(sh.active) # sh.active
  BY <1>1 DEF Other
<1>5. ProcessedLine(s) = now
  <2>1. ProcessedLine(s) = Words(sh.line[IF again THEN Other(sh.active) ELSE sh.active])
    BY <1>1 DEF ProcessedLine
  <2>2. CASE again
    BY <1>2, <1>3, <2>1, <2>2, WordsAreTyped
  <2>3. CASE ~again
    BY <1>2, <1>3, <2>1, <2>3, WordsAreTyped
  <2> QED
    BY <2>2, <2>3
<1> DEFINE b == IF again THEN sh.active ELSE Other(sh.active)
<1>6. sh' = [s EXCEPT !.active = b, !.line[b] = EmptyLine]
  BY <1>1 DEF shell_process
<1>7. b \in {0, 1} /\ Other(b) \in {0, 1} /\ Other(b) # b
  BY <1>1, <1>4
<1>8. Shows(sh.line[Other(b)], now)
  BY <1>2, <1>3, <1>4
<1>9. now \in Text
  BY <1>2
<1> HIDE DEF b
<1>10. /\ sh'.active = b /\ sh'.len = 0
       /\ sh'.line = [sh.line EXCEPT ![b] = EmptyLine]
       /\ DOMAIN sh' = DOMAIN s
  BY <1>1, <1>6, <1>7
<1>11. sh'.line[b] = EmptyLine /\ sh'.line[Other(b)] = sh.line[Other(b)]
  BY <1>1, <1>7, <1>10
<1>12. sh' \in [line : [{0, 1} -> Line], active : {0, 1}, len : 0 .. SHELL_CMD_MAX_LEN]
  <2>1. [sh.line EXCEPT ![b] = EmptyLine] \in [{0, 1} -> Line]
    BY <1>1, EmptyShows
  <2> QED
    BY <1>1, <1>6, <1>7, <2>1
<1>13. Len(<<>>) = 0
  OBVIOUS
<1> QED
  BY <1>5, <1>8, <1>9, <1>10, <1>11, <1>12, <1>13, EmptyShows DEF ShellIInv

\* A key is added to the line.
LEMMA ShellKey ==
    ASSUME ShellIInv, NEW ch \in Keys, ~Full(sh), UNCHANGED <<prev, ran>>, typed' = Append(typed, ch),
           sh' = [sh EXCEPT !.len = @ + 1, !.line[sh.active][sh.len] = ch]
    PROVE  ShellIInv'
<1>1. /\ sh.line \in [{0, 1} -> Line] /\ sh.active \in {0, 1} /\ sh.len \in 0 .. SHELL_CMD_MAX_LEN
      /\ sh \in [line : [{0, 1} -> Line], active : {0, 1}, len : 0 .. SHELL_CMD_MAX_LEN]
  BY DEF ShellIInv
<1>2. /\ typed \in Text /\ prev \in Text /\ sh.len = Len(typed)
      /\ Shows(sh.line[sh.active], typed) /\ Shows(sh.line[Other(sh.active)], prev)
  BY DEF ShellIInv
<1>3. /\ typed \in Seq(Keys) /\ Len(typed) \in Nat /\ SHELL_CMD_MAX_LEN \in Nat
      /\ Len(typed) < SHELL_CMD_MAX_LEN
  BY <1>2, TextIs DEF Full
<1>4. /\ typed' \in Text /\ Len(typed') = Len(typed) + 1 /\ typed'[Len(typed) + 1] = ch
      /\ \A i \in 1 .. Len(typed) : typed'[i] = typed[i]
  BY <1>3 DEF Text
<1> DEFINE line == [sh.line[sh.active] EXCEPT ![sh.len] = ch]
<1>5. line \in Line
  BY <1>1 DEF Line
<1>6. Shows(line, typed')
  <2> SUFFICES ASSUME NEW i \in 0 .. SHELL_CMD_MAX_LEN
               PROVE  line[i] = IF i < Len(typed') THEN typed'[i + 1] ELSE None
    BY DEF Shows
  <2>1. sh.line[sh.active][i] = IF i < Len(typed) THEN typed[i + 1] ELSE None
    BY <1>2 DEF Shows
  <2>2. CASE i = Len(typed)
    BY <1>1, <1>2, <1>3, <1>4, <2>2 DEF Line
  <2>3. CASE i # Len(typed)
    <3>1. line[i] = sh.line[sh.active][i]
      BY <1>1, <1>2, <2>3 DEF Line
    <3> QED
      BY <1>3, <1>4, <2>1, <2>3, <3>1
  <2> QED
    BY <2>2, <2>3
<1> HIDE DEF line
<1>7. sh' = [sh EXCEPT !.len = sh.len + 1, !.line = [sh.line EXCEPT ![sh.active] = line]]
  BY <1>1 DEF line
<1>8. [sh.line EXCEPT ![sh.active] = line] \in [{0, 1} -> Line] /\ sh.len + 1 \in 0 .. SHELL_CMD_MAX_LEN
  BY <1>1, <1>2, <1>3, <1>5
<1>9. sh' \in [line : [{0, 1} -> Line], active : {0, 1}, len : 0 .. SHELL_CMD_MAX_LEN]
  BY <1>1, <1>7, <1>8
<1>10. /\ sh'.active = sh.active /\ sh'.len = Len(typed')
       /\ sh'.line = [sh.line EXCEPT ![sh.active] = line]
  BY <1>1, <1>2, <1>4, <1>7
<1>11. Other(sh.active) \in {0, 1} /\ Other(sh.active) # sh.active
  BY <1>1 DEF Other
<1>12. sh'.line[sh.active] = line /\ sh'.line[Other(sh.active)] = sh.line[Other(sh.active)]
  BY <1>1, <1>10, <1>11
<1> QED
  BY <1>2, <1>4, <1>6, <1>9, <1>10, <1>12 DEF ShellIInv

\* A backspace takes the last key away.
LEMMA ShellBackspace ==
    ASSUME ShellIInv, sh.len > 0, UNCHANGED <<prev, ran>>,
           typed' = SubSeq(typed, 1, Len(typed) - 1),
           sh' = [sh EXCEPT !.len = @ - 1, !.line[sh.active][sh.len - 1] = None]
    PROVE  ShellIInv'
<1>1. /\ sh.line \in [{0, 1} -> Line] /\ sh.active \in {0, 1} /\ sh.len \in 0 .. SHELL_CMD_MAX_LEN
      /\ sh \in [line : [{0, 1} -> Line], active : {0, 1}, len : 0 .. SHELL_CMD_MAX_LEN]
  BY DEF ShellIInv
<1>2. /\ typed \in Text /\ prev \in Text /\ sh.len = Len(typed)
      /\ Shows(sh.line[sh.active], typed) /\ Shows(sh.line[Other(sh.active)], prev)
  BY DEF ShellIInv
<1>3. /\ typed \in Seq(Keys) /\ Len(typed) \in Nat /\ SHELL_CMD_MAX_LEN \in Nat
      /\ Len(typed) > 0 /\ Len(typed) <= SHELL_CMD_MAX_LEN
  BY <1>2, TextIs
<1>4. /\ typed' \in Text /\ Len(typed') = Len(typed) - 1
      /\ \A i \in 1 .. Len(typed) - 1 : typed'[i] = typed[i]
  <2> DEFINE n == Len(typed) - 1
  <2>1. n \in Int /\ n >= 0 /\ \A i \in 1 .. n : typed[i] \in Keys
    BY <1>3
  <2>2. /\ typed' \in Seq(Keys) /\ Len(typed') = (IF 1 <= n THEN n - 1 + 1 ELSE 0)
        /\ \A i \in 1 .. n - 1 + 1 : typed'[i] = typed[1 + i - 1]
    BY <2>1, SubSeqProperties
  <2>3. n - 1 + 1 = n /\ Len(typed') = n
    <3> HIDE DEF n
    <3>1. n - 1 + 1 = n /\ (1 <= n \/ n = 0)
      BY <2>1
    <3> QED
      BY <3>1, <2>2
  <2>4. \A i \in 1 .. n : 1 + i - 1 = i
    BY <2>1
  <2>5. \A i \in 1 .. n : typed'[i] = typed[i]
    <3> HIDE DEF n
    <3> QED
      BY <2>2, <2>3, <2>4
  <2> QED
    BY <1>3, <2>1, <2>2, <2>3, <2>5 DEF Text
<1> DEFINE line == [sh.line[sh.active] EXCEPT ![sh.len - 1] = None]
<1>5. line \in Line
  BY <1>1 DEF Line
<1>6. Shows(line, typed')
  <2> SUFFICES ASSUME NEW i \in 0 .. SHELL_CMD_MAX_LEN
               PROVE  line[i] = IF i < Len(typed') THEN typed'[i + 1] ELSE None
    BY DEF Shows
  <2>1. sh.line[sh.active][i] = IF i < Len(typed) THEN typed[i + 1] ELSE None
    BY <1>2 DEF Shows
  <2>2. CASE i = Len(typed) - 1
    BY <1>1, <1>2, <1>3, <1>4, <2>2 DEF Line
  <2>3. CASE i # Len(typed) - 1
    <3>1. line[i] = sh.line[sh.active][i]
      BY <1>1, <1>2, <2>3 DEF Line
    <3> QED
      BY <1>3, <1>4, <2>1, <2>3, <3>1
  <2> QED
    BY <2>2, <2>3
<1> HIDE DEF line
<1>7. sh' = [sh EXCEPT !.len = sh.len - 1, !.line = [sh.line EXCEPT ![sh.active] = line]]
  BY <1>1 DEF line
<1>8. [sh.line EXCEPT ![sh.active] = line] \in [{0, 1} -> Line] /\ sh.len - 1 \in 0 .. SHELL_CMD_MAX_LEN
  BY <1>1, <1>2, <1>3, <1>5
<1>9. sh' \in [line : [{0, 1} -> Line], active : {0, 1}, len : 0 .. SHELL_CMD_MAX_LEN]
  BY <1>1, <1>7, <1>8
<1>10. /\ sh'.active = sh.active /\ sh'.len = Len(typed')
       /\ sh'.line = [sh.line EXCEPT ![sh.active] = line]
  BY <1>1, <1>2, <1>4, <1>7
<1>11. Other(sh.active) \in {0, 1} /\ Other(sh.active) # sh.active
  BY <1>1 DEF Other
<1>12. sh'.line[sh.active] = line /\ sh'.line[Other(sh.active)] = sh.line[Other(sh.active)]
  BY <1>1, <1>10, <1>11
<1> QED
  BY <1>2, <1>4, <1>6, <1>9, <1>10, <1>12 DEF ShellIInv

LEMMA ShellKick ==
    ASSUME ShellIInv, shell_kick
    PROVE  ShellIInv'
<1> DEFINE now == IF typed # <<>> /\ typed[1] = "." THEN prev ELSE typed
           s(ch) == shell_input_line(sh, ch)
           done(ch) == ch = "CR" \/ (ch # "BS" /\ Full(sh))
           line(ch) == CASE ch = "BS" /\ typed # <<>> -> SubSeq(typed, 1, Len(typed) - 1)
                         [] ch \in Printable -> Append(typed, ch)
                         [] OTHER -> typed
<1>1. PICK ch \in Keys \cup {None} :
        IF done(ch)
        THEN sh' = shell_process(s(ch)) /\ typed' = <<>> /\ prev' = now
             /\ ran' = <<ProcessedLine(s(ch)), now>>
        ELSE sh' = s(ch) /\ UNCHANGED <<prev, ran>> /\ typed' = line(ch)
  BY DEF shell_kick
<1>2. typed \in Text /\ sh.len = Len(typed) /\ (typed # <<>> <=> sh.len > 0)
  BY TextIs DEF ShellIInv
<1>3. ch \in Printable => ch \in Keys /\ ch # "BS" /\ ch # "CR"
  BY DEF Printable
<1>4. CASE done(ch)
  <2>1. s(ch) = [sh EXCEPT !.len = 0]
    <3>1. ~(ch = "BS" /\ sh.len > 0) /\ ~(ch \in Printable /\ ~Full(sh))
      BY <1>3, <1>4
    <3> QED
      BY <1>4, <3>1 DEF shell_input_line
  <2> QED
    BY <1>1, <1>4, <2>1, ShellDone
<1>5. CASE ~done(ch) /\ ch = "BS" /\ sh.len > 0
  <2>1. s(ch) = [sh EXCEPT !.len = @ - 1, !.line[sh.active][sh.len - 1] = None]
    BY <1>3, <1>5 DEF shell_input_line
  <2>2. line(ch) = SubSeq(typed, 1, Len(typed) - 1)
    BY <1>2, <1>3, <1>5
  <2> QED
    BY <1>1, <1>5, <2>1, <2>2, ShellBackspace
<1>6. CASE ~done(ch) /\ ch \in Printable
  <2>1. s(ch) = [sh EXCEPT !.len = @ + 1, !.line[sh.active][sh.len] = ch] /\ ~Full(sh)
    BY <1>3, <1>6 DEF shell_input_line
  <2>2. line(ch) = Append(typed, ch)
    BY <1>3, <1>6
  <2> QED
    BY <1>1, <1>3, <1>6, <2>1, <2>2, ShellKey
<1>7. CASE ~done(ch) /\ ch \notin Printable /\ ~(ch = "BS" /\ sh.len > 0)
  <2>1. s(ch) = sh
    BY <1>7 DEF shell_input_line
  <2>2. line(ch) = typed
    BY <1>2, <1>7
  <2> QED
    BY <1>1, <1>7, <2>1, <2>2 DEF ShellIInv
<1> QED
  BY <1>4, <1>5, <1>6, <1>7

LEMMA ShellFrame ==
    ASSUME [Next]_vars, ~shell_kick
    PROVE  UNCHANGED <<sh, typed, prev, ran>>
<1>1. CASE UNCHANGED vars \/ Console
  BY <1>1 DEF Console, KickVm, vuart_console_rx_chars, vuart_console_tx_chars, Escape,
         StopTest, StartTest, TestDone, vars, conVars
<1>2. ASSUME NEW v \in Vm, Create(v) \/ Shutdown(v)
      PROVE  UNCHANGED <<sh, typed, prev, ran>>
  BY <1>2 DEF Create, InitVuart0, InitVuart1, vuart_setup_connection, Link, LinkBack, vrtc_init,
         Shutdown, FatalError, Stop0, Stop1, Unlink, Unlinked, conVars
<1>3. ASSUME NEW v \in Vm, Guest(v) \/ Store(v) \/ RtcRead(v)
      PROVE  UNCHANGED <<sh, typed, prev, ran>>
  BY <1>3 DEF Guest, Transmit, WriteReg, ReadReg, vrtc_write, vrtc_read, Store, RtcRead, RtcLocked,
         RtcSelect, RtcPoll, RtcIndex, RtcData, RtcRelease, RtcStep, conVars
<1> QED
  BY <1>1, <1>2, <1>3 DEF Next

\* The line buffers of the shell hold what was typed, in every behaviour.
THEOREM ShellInvariance == Spec => []ShellIInv
<1>1. Init => ShellIInv
  <2> SUFFICES ASSUME Init PROVE ShellIInv
    OBVIOUS
  <2>1. /\ sh = [line |-> [b \in {0, 1} |-> EmptyLine], active |-> 0, len |-> 0]
        /\ typed = <<>> /\ prev = <<>> /\ ran = <<<<>>, <<>>>>
    BY DEF Init
  <2>2. SHELL_CMD_MAX_LEN \in Nat
    BY DevicesAssumption
  <2>3. sh \in [line : [{0, 1} -> Line], active : {0, 1}, len : 0 .. SHELL_CMD_MAX_LEN]
    BY <2>1, <2>2, EmptyShows
  <2>4. sh.line[sh.active] = EmptyLine /\ sh.line[Other(sh.active)] = EmptyLine /\ sh.len = 0
    BY <2>1 DEF Other
  <2>5. Len(<<>>) = 0
    OBVIOUS
  <2> QED
    BY <2>1, <2>3, <2>4, <2>5, EmptyShows DEF ShellIInv
<1>2. ShellIInv /\ [Next]_vars => ShellIInv'
  <2> SUFFICES ASSUME ShellIInv, [Next]_vars, ~shell_kick PROVE ShellIInv'
    BY ShellKick
  <2>1. UNCHANGED <<sh, typed, prev, ran>>
    BY ShellFrame
  <2> QED
    BY <2>1 DEF ShellIInv
<1> QED
  BY <1>1, <1>2, PTL DEF Spec

\* The shell executes the line that was typed, or for "." the one before, whatever
\* the length of its buffers: CommandAsTyped is an invariant.
THEOREM ShellCommands == Spec => []CommandAsTyped
<1>1. ShellIInv => CommandAsTyped
  BY DEF ShellIInv, CommandAsTyped
<1> QED
  BY <1>1, ShellInvariance, PTL
=============================================================================
