------------------------------- MODULE Devices -------------------------------
(***************************************************************************)
(* The virtual UARTs and the virtual RTC of every VM, and the console of   *)
(* the hypervisor (libs/debug/vuart.c, console.c, shell.c, uart16550.c and *)
(* dm/vrtc.c), shared by the processors of all VMs.                        *)
(*                                                                         *)
(* VM v has the vUARTs <<v, 0>>, its console, and <<v, 1>>, which the      *)
(* configuration connects with that of Peer[v].  Its guest accesses them   *)
(* from one vCPU; a part of an access that runs under a lock is one step.  *)
(* One processor runs console_kick, from the idle thread or when the       *)
(* preemption timer of its guest expires.                                  *)
(*                                                                         *)
(* A character is <<where it was written, its number>>.  A key is a word   *)
(* of the shell's input or a control character.                            *)
(***************************************************************************)
EXTENDS Vuart, FiniteSets

CONSTANTS Vm, Peer,     \* the VMs, and the VM at the other end of the connection
          Loopback,     \* vUARTs whose guest uses loopback
          Divisor,      \* vUARTs whose guest sets the divisor latch
          Keys,         \* what can be typed
          SHELL_CMD_MAX_LEN,
          Tries,        \* polls of the RTC before its reader gives up
          ConsoleVm,    \* the VM that has the processor CONSOLE_CPU_ID
          Budgets       \* bounds: how many characters written, other accesses to a
                        \* vUART or the clock, keys and fatal errors there are

ASSUME DevicesAssumption ==
    /\ 0 \in Vm /\ Peer \in [Vm -> Vm] /\ ConsoleVm \in Vm
    /\ \A v \in Vm : Peer[v] # v /\ Peer[Peer[v]] = v
    /\ None \notin Vm \cup (Vm \X {0, 1}) \cup Keys \cup {"."}
    /\ None \notin ((Vm \X {0, 1}) \cup {<<>>}) \X Nat
    /\ SHELL_CMD_MAX_LEN \in Nat \ {0} /\ Tries \in Nat \ {0}

VARIABLES vuarts,
          stage,        \* how far the VM's creation or shutdown is
          gp, req,      \* what the VM's guest has the hypervisor do
          budget,       \* accesses and keys that are left
          gone,         \* VMs whose processors are offline: shutdown_vm never brings them back
          raced,        \* history: a shutdown met the link or unlink of the VM's peer
          cmos_reset,   \* history: cmos_lock was initialised while it was in use
          sent,         \* characters written to each vUART, and typed
          ready,        \* vUARTs whose guest has read LSR_DR and not read on
          got, out,     \* characters a guest has read, characters shown on the console
          con, cvu, console_vmid,  \* console_kick: where it is, its vUART; the VM shown
          sh,           \* struct shell
          typed, prev, ran,        \* the line as typed, the one before, the one executed
          vrtc_offset, cmos, cmos_lock, rtc  \* vRTC, the index port, the lock, a read's progress

uartVars == <<vuarts, sent, ready, got, out>>
conVars == <<con, cvu, console_vmid, sh, typed, prev, ran>>
rtcVars == <<vrtc_offset, cmos, cmos_lock, rtc>>
history == <<raced, cmos_reset>>
vars == <<uartVars, conVars, rtcVars, stage, gp, req, budget, gone, history>>

Vu == Vm \X {0, 1}
Keyboard == <<>>                       \* where the characters typed come from
RtcReg == {"SEC", "MIN", "ALARM"}      \* two read from the clock, one that is a constant
Creating == {"setup0", "setup1", "connect", "link", "linkback", "rtc"}
Stopping == {"stop0", "stop1", "unlink", "unlinked"}

\* vm->state = VM_POWERED_OFF, which is 0: also before create_vm has set VM_CREATED.
PoweredOff(v) == stage[v] # "on"

EmptyLine == [i \in 0 .. SHELL_CMD_MAX_LEN |-> None]

Init ==
    /\ vuarts = [x \in Vu |-> ZeroVuart]
    /\ sent = [x \in Vu \cup {Keyboard} |-> 0] /\ ready = {}
    /\ got = [x \in Vu |-> {}] /\ out = [x \in Vu |-> {}]
    /\ stage = [v \in Vm |-> "setup0"]
    /\ gp = [v \in Vm |-> "guest"] /\ req = [v \in Vm |-> None] /\ gone = {} /\ budget \in Budgets
    /\ raced = FALSE /\ cmos_reset = FALSE
    /\ con = "idle" /\ cvu = None /\ console_vmid = None
    /\ sh = [line |-> [b \in {0, 1} |-> EmptyLine], active |-> 0, len |-> 0]
    /\ typed = <<>> /\ prev = <<>> /\ ran = <<<<>>, <<>>>>
    /\ vrtc_offset = [v \in Vm |-> "SEC"] /\ cmos = "STATUSA"
    /\ cmos_lock = [head |-> 0, tail |-> 0]
    /\ rtc = [v \in Vm |-> [ticket |-> 0, tries |-> 0]]

-----------------------------------------------------------------------------
(* create_vm: init_vuart and vrtc_init.                                     *)

Stage(v, from, to) == stage[v] = from /\ stage' = [stage EXCEPT ![v] = to]

\* vuart_setup of the two vUARTs.  Nobody uses them until active is set at its end.
InitVuart0(v) == /\ Stage(v, "setup0", "setup1")
                 /\ vuarts' = [vuarts EXCEPT ![<<v, 0>>] = vuart_setup(@)]
                 /\ ready' = ready \ {<<v, 0>>}
                 /\ UNCHANGED <<sent, got, out, conVars, rtcVars, gp, req, budget, gone, history>>
InitVuart1(v) == /\ Stage(v, "setup1", "connect")
                 /\ vuarts' = [vuarts EXCEPT ![<<v, 1>>] = vuart_setup(@)]
                 /\ ready' = ready \ {<<v, 1>>}
                 /\ UNCHANGED <<sent, got, out, conVars, rtcVars, gp, req, budget, gone, history>>

\* Mutant: a vUART that has a target already is connected again, one way only.
connect_onesided(v) ==
    /\ Stage(v, "connect", IF vuarts[<<Peer[v], 1>>].active THEN "linkback" ELSE "rtc")
    /\ UNCHANGED <<uartVars, conVars, rtcVars, gp, req, budget, gone, history>>

\* vuart_setup_connection: the target must be active and not connected.  The test
\* and the two assignments are not under a lock.
vuart_setup_connection(v) ==
    /\ Stage(v, "connect",
             IF vuarts[<<Peer[v], 1>>].active /\ vuarts[<<Peer[v], 1>>].target = None
             THEN "link" ELSE "rtc")
    /\ UNCHANGED <<uartVars, conVars, rtcVars, gp, req, budget, gone, history>>

SetTarget(x, y) == /\ vuarts' = [vuarts EXCEPT ![x].target = y]
                   /\ UNCHANGED <<sent, ready, got, out>>
Link(v) == /\ Stage(v, "link", "linkback") /\ SetTarget(<<v, 1>>, <<Peer[v], 1>>)
           /\ UNCHANGED <<conVars, rtcVars, gp, req, budget, gone, history>>
LinkBack(v) == /\ Stage(v, "linkback", "rtc") /\ SetTarget(<<Peer[v], 1>>, <<v, 1>>)
               /\ UNCHANGED <<conVars, rtcVars, gp, req, budget, gone, history>>

\* vrtc_init initialises the lock that all VMs share, whoever holds it.
vrtc_init(v) ==
    /\ Stage(v, "rtc", "on")
    /\ vrtc_offset' = [vrtc_offset EXCEPT ![v] = "SEC"]
    /\ cmos_lock' = [head |-> 0, tail |-> 0]
    /\ cmos_reset' = (cmos_reset \/ cmos_lock.head # cmos_lock.tail)
    /\ UNCHANGED <<uartVars, conVars, cmos, rtc, gp, req, budget, gone, raced>>

Create(v) == InitVuart0(v) \/ InitVuart1(v) \/ vuart_setup_connection(v) \/ Link(v) \/ LinkBack(v)
             \/ vrtc_init(v)

-----------------------------------------------------------------------------
(* shutdown_vm: the VM's processors are offline when deinit_vuart runs.     *)

Spend(what, n) == budget[what] >= n /\ budget' = [budget EXCEPT ![what] = @ - n]

FatalError(v) == /\ \/ gp[v] = "fatal" /\ UNCHANGED budget
                    \/ gp[v] = "guest" /\ Spend("fatal", 1)
                 /\ v \notin gone /\ stage[v] = "on"
                 /\ stage' = [stage EXCEPT ![v] = "stop0"]
                 /\ gp' = [gp EXCEPT ![v] = "guest"] /\ gone' = gone \cup {v}
                 /\ UNCHANGED <<uartVars, conVars, rtcVars, req, history>>

Deactivate(x) == /\ vuarts' = [vuarts EXCEPT ![x].active = FALSE]
                 /\ UNCHANGED <<sent, ready, got, out>>
Stop0(v) == /\ Stage(v, "stop0", "stop1") /\ Deactivate(<<v, 0>>)
            /\ UNCHANGED <<conVars, rtcVars, gp, req, budget, gone, history>>
Stop1(v) == /\ Stage(v, "stop1", IF vuarts[<<v, 1>>].target # None THEN "unlink" ELSE "off")
            /\ Deactivate(<<v, 1>>)
            /\ raced' = (raced \/ stage[Peer[v]] \in {"link", "linkback", "unlink"})
            /\ UNCHANGED <<conVars, rtcVars, gp, req, budget, gone, cmos_reset>>

\* vuart_deinit_connect: target_vu is read again.  Another VM may have reset it
\* since the test, and the assignment goes through a NULL pointer.
Unlink(v) ==
    LET t == vuarts[<<v, 1>>].target
    IN  /\ Stage(v, "unlink", IF t = None THEN "fault" ELSE "unlinked")
        /\ vuarts' = IF t = None THEN vuarts ELSE [vuarts EXCEPT ![t].target = None]
        /\ UNCHANGED <<sent, ready, got, out, conVars, rtcVars, gp, req, budget, gone, history>>
Unlinked(v) == /\ Stage(v, "unlinked", "off") /\ SetTarget(<<v, 1>>, None)
               /\ UNCHANGED <<conVars, rtcVars, gp, req, budget, gone, history>>

Shutdown(v) == FatalError(v) \/ Stop0(v) \/ Stop1(v) \/ Unlink(v) \/ Unlinked(v)

-----------------------------------------------------------------------------
(* Port accesses of the guest of v.                                         *)

Goto(v, p) == gp' = [gp EXCEPT ![v] = p]
Start(v, what) == /\ gp[v] = "guest" /\ stage[v] = "on" /\ v \notin gone
                  /\ Spend(what, 1)

\* vuart_write to the transmit holding register: the modem control register and
\* the target are read without a lock, and DLAB is not looked at.  The character
\* 0xff is -1.
vuart_write(v, x, ch) ==
    /\ IF "LOOPBACK" \notin vuarts[x].mcr /\ vuarts[x].target # None
       THEN Goto(v, "send") /\ req' = [req EXCEPT ![v] = <<vuarts[x].target, ch>>]
       ELSE Goto(v, "write") /\ req' = [req EXCEPT ![v] = <<x, ch>>]
    /\ sent' = [sent EXCEPT ![x] = @ + 1]
Transmit(v) ==
    /\ Start(v, "thr")
    /\ \E i \in {0, 1} : \E ch \in {<<<<v, i>>, sent[<<v, i>>] + 1>>, None} :
         vuart_write(v, <<v, i>>, ch)
    /\ UNCHANGED <<vuarts, ready, got, out, conVars, rtcVars, stage, gone, history>>

\* The locked part: send_to_target or write_reg.
Store(v) ==
    /\ gp[v] \in {"send", "write"}
    /\ vuarts' = [vuarts EXCEPT ![req[v][1]] = IF gp[v] = "send" THEN send_to_target(@, req[v][2])
                                                                 ELSE WriteThr(@, req[v][2])]
    /\ Goto(v, "guest") /\ req' = [req EXCEPT ![v] = None]
    /\ UNCHANGED <<sent, ready, got, out, conVars, rtcVars, stage, budget, gone, history>>

\* Values a guest writes to the other registers of a vUART.
RegValues(x) ==
    {<<"IER", {}>>, <<"IER", {"ERBFI", "ETBEI"}>>, <<"FCR", TRUE>>}
    \cup (IF x \in Loopback THEN {<<"MCR", {"LOOPBACK", "OUT1"}>>, <<"MCR", {}>>} ELSE {})
    \cup (IF x \in Divisor THEN {<<"LCR", TRUE>>, <<"LCR", FALSE>>} ELSE {})
WriteReg(v) ==
    /\ Start(v, "uart")
    /\ \E i \in {0, 1} : \E w \in RegValues(<<v, i>>) :
         /\ vuarts' = [vuarts EXCEPT ![<<v, i>>] = write_reg(@, w[1], w[2])]
         /\ ready' = IF w[1] \in {"FCR", "LCR"} THEN ready \ {<<v, i>>} ELSE ready
    /\ UNCHANGED <<sent, got, out, conVars, rtcVars, stage, gp, req, gone, history>>

ReadReg(v) ==
    /\ Start(v, "uart")
    /\ \E i \in {0, 1}, reg \in {"RBR", "IIR", "LSR", "MSR"} :
         LET x == <<v, i>>  vu == vuarts[x]  ch == fifo_front(vu.rxfifo)
         IN  /\ vuarts' = [vuarts EXCEPT ![x] = vuart_read(vu, reg)]
             /\ got' = IF reg = "RBR" /\ ~vu.dlab /\ ch # None THEN [got EXCEPT ![x] = @ \cup {ch}] ELSE got
             /\ ready' = CASE reg = "LSR" -> IF DataReady(vu) THEN ready \cup {x} ELSE ready \ {x}
                           [] reg = "RBR" -> ready \ {x}
                           [] OTHER -> ready
    /\ UNCHANGED <<sent, out, conVars, rtcVars, stage, gp, req, gone, history>>

-----------------------------------------------------------------------------
(* The real-time clock.  The index port of the clock is shared.             *)

vrtc_write(v) == /\ Start(v, "rtc")
                 /\ \E r \in RtcReg : vrtc_offset' = [vrtc_offset EXCEPT ![v] = r]
                 /\ UNCHANGED <<uartVars, conVars, cmos, cmos_lock, rtc, stage, gp, req, gone, history>>

\* Mutant: the lock is not taken.
read_unlocked(v) == /\ rtc' = [rtc EXCEPT ![v].tries = Tries]
                    /\ Goto(v, "rtc_select") /\ UNCHANGED cmos_lock

\* cmos_get_reg_val: registers that are not passed through need no clock; for the
\* others a ticket of cmos_lock is taken.
cmos_get_reg_val(v) == /\ rtc' = [rtc EXCEPT ![v].tries = Tries, ![v].ticket = cmos_lock.tail]
                       /\ cmos_lock' = [cmos_lock EXCEPT !.tail = @ + 1]
                       /\ Goto(v, "rtc_wait")
vrtc_read(v) ==
    /\ Start(v, "rtc")
    /\ IF vrtc_offset[v] = "ALARM" THEN UNCHANGED <<rtc, cmos_lock, gp>> ELSE cmos_get_reg_val(v)
    /\ UNCHANGED <<uartVars, conVars, vrtc_offset, cmos, stage, req, gone, history>>

RtcStep(v, from, to) ==
    gp[v] = from /\ Goto(v, to) /\ UNCHANGED <<uartVars, conVars, vrtc_offset, stage, req, budget, gone, history>>

RtcLocked(v) == /\ cmos_lock.head = rtc[v].ticket
                /\ RtcStep(v, "rtc_wait", "rtc_select") /\ UNCHANGED <<cmos, cmos_lock, rtc>>

\* cmos_update_in_progress, until the update is over or the tries are used up.
RtcSelect(v) == /\ RtcStep(v, "rtc_select", "rtc_poll")
                /\ cmos' = "STATUSA" /\ UNCHANGED <<cmos_lock, rtc>>
RtcPoll(v) ==
    /\ \E busy \in BOOLEAN :
         LET left == IF busy /\ rtc[v].tries # 0 THEN rtc[v].tries - 1 ELSE rtc[v].tries
         IN  /\ rtc' = [rtc EXCEPT ![v].tries = left]
             /\ RtcStep(v, "rtc_poll", IF busy /\ rtc[v].tries # 0 THEN "rtc_select"
                                       ELSE IF left = 0 THEN "rtc_release" ELSE "rtc_index")
    /\ UNCHANGED <<cmos, cmos_lock>>
RtcIndex(v) == /\ RtcStep(v, "rtc_index", "rtc_data")
               /\ cmos' = vrtc_offset[v] /\ UNCHANGED <<cmos_lock, rtc>>
RtcData(v) == RtcStep(v, "rtc_data", "rtc_release") /\ UNCHANGED <<cmos, cmos_lock, rtc>>

\* Mutant: the lock is not released when the clock does not answer.
release_on_success(v) ==
    /\ RtcStep(v, "rtc_release", IF rtc[v].tries # 0 THEN "guest"
                                 ELSE IF v = 0 THEN "panic" ELSE "fatal")
    /\ cmos_lock' = IF rtc[v].tries = 0 THEN cmos_lock ELSE [cmos_lock EXCEPT !.head = @ + 1]
    /\ UNCHANGED <<cmos, rtc>>

\* A clock that does not answer is a fatal error of the VM; VM 0 is the safety VM, whose
\* processor panics: it halts.
RtcRelease(v) == /\ RtcStep(v, "rtc_release", IF rtc[v].tries # 0 THEN "guest"
                                              ELSE IF v = 0 THEN "panic" ELSE "fatal")
                 /\ cmos_lock' = [cmos_lock EXCEPT !.head = @ + 1] /\ UNCHANGED <<cmos, rtc>>

RtcRead(v) == RtcLocked(v) \/ RtcSelect(v) \/ RtcPoll(v) \/ RtcIndex(v) \/ RtcData(v) \/ RtcRelease(v)
Guest(v) == Transmit(v) \/ WriteReg(v) \/ ReadReg(v) \/ vrtc_write(v) \/ vrtc_read(v)

-----------------------------------------------------------------------------
(* console_kick.                                                            *)

\* uart16550_getc: a key, or -1 when nothing has been typed.  Bound: keys come when the
\* VMs have been created for the first time.
Typed(ch) == /\ ch # None => \A v \in Vm : stage[v] \notin Creating
             /\ Spend("keys", IF ch = None THEN 0 ELSE 1)
Printable == Keys \ {"BS", "CR", "ESC", "SWITCH"}

\* vuart_console_active.  An inactive vUART leaves the console to the shell.
Shown == console_vmid # None /\ ~PoweredOff(console_vmid) /\ vuarts[<<console_vmid, 0>>].active

\* When its VM is shut down the processor goes offline with the kick that is under way
\* completed, and none begins any more.
KickBegins == con = "idle" /\ ConsoleVm \notin gone

KickVm == /\ KickBegins /\ Shown
          /\ con' = "rx" /\ cvu' = <<console_vmid, 0>>
          /\ UNCHANGED <<uartVars, console_vmid, sh, typed, prev, ran, rtcVars, stage, gp, req,
                         budget, gone, history>>

\* Mutant: the console looks for output only after input.
rx_then_tx ==
    /\ con = "rx"
    /\ \E ch \in Keys \cup {None} :
         /\ Typed(ch)
         /\ con' = IF ch = None THEN "idle" ELSE "tx"
         /\ console_vmid' = IF ch = "SWITCH" THEN None ELSE console_vmid
    /\ UNCHANGED <<uartVars, cvu, sh, typed, prev, ran, rtcVars, stage, gp, req, gone, history>>

\* vuart_console_rx_chars: the key that leaves the VM's console is also passed to it.
vuart_console_rx_chars ==
    /\ con = "rx" /\ con' = "tx"
    /\ \E ch \in Keys \cup {None} :
         /\ Typed(ch)
         /\ console_vmid' = IF ch = "SWITCH" THEN None ELSE console_vmid
         /\ IF ch = None THEN UNCHANGED <<vuarts, sent>>
            ELSE /\ vuarts' = [vuarts EXCEPT ![cvu].rxfifo =
                                 fifo_putchar(@, <<Keyboard, sent[Keyboard] + 1>>)]
                 /\ sent' = [sent EXCEPT ![Keyboard] = @ + 1]
    /\ UNCHANGED <<ready, got, out, cvu, sh, typed, prev, ran, rtcVars, stage, gp, req, gone, history>>

\* vuart_console_tx_chars, a character at a time, until vuart_getchar returns -1:
\* at the end of the FIFO, or at a character 0xff in it.
vuart_console_tx_chars ==
    /\ con = "tx"
    /\ LET ch == fifo_front(vuarts[cvu].txfifo)
       IN  /\ con' = IF ch = None THEN "idle" ELSE "tx"
           /\ cvu' = IF ch = None THEN None ELSE cvu
           /\ vuarts' = [vuarts EXCEPT ![cvu].txfifo = fifo_rest(@)]
           /\ out' = IF ch = None THEN out ELSE [out EXCEPT ![cvu] = @ \cup {ch}]
    /\ UNCHANGED <<sent, ready, got, console_vmid, sh, typed, prev, ran, rtcVars, stage, gp, req,
                   budget, gone, history>>

-----------------------------------------------------------------------------
(* The shell: shell_kick.                                                   *)

\* A line up to its terminating NUL, which string_to_argv splits into words.
Words(line) == LET end == CHOOSE n \in 0 .. SHELL_CMD_MAX_LEN :
                            (n = SHELL_CMD_MAX_LEN \/ line[n] = None) /\ \A i \in 0 .. n - 1 : line[i] # None
               IN  [i \in 1 .. end |-> line[i - 1]]
Other(b) == 1 - b

\* strtol_deci: a word that does not begin with a digit is 0.  A number that is no
\* VM means VM 0, too.
strtol_deci(w) == IF w = "1" THEN 1 ELSE 0
sanitize_vmid(vmid) == IF vmid \in Vm THEN vmid ELSE 0

\* shell_to_vm_console: without one argument it is VM 0.
shell_to_vm_console(argv) ==
    LET v == IF Len(argv) = 2 THEN sanitize_vmid(strtol_deci(argv[2])) ELSE 0
    IN  IF ~PoweredOff(v) /\ vuarts[<<v, 0>>].active THEN v ELSE console_vmid

\* shell_process_cmd, for the commands that change something here; start_test and
\* stop_test are completed before the next key is looked at.
shell_process_cmd(argv) ==
    LET cmd == IF argv = <<>> THEN None ELSE argv[1]
    IN  /\ console_vmid' = IF cmd = "vm_console" THEN shell_to_vm_console(argv) ELSE console_vmid
        /\ con' = CASE cmd = "start_test" /\ stage[0] = "off" -> "start"
                     [] cmd = "stop_test" /\ ~PoweredOff(0) -> "stop"
                     [] OTHER -> "idle"

\* Mutant: the line that is reused is not cleared.
process_keeps(s) ==
    LET again == s.line[s.active][0] = "."
    IN  [s EXCEPT !.active = IF again THEN @ ELSE Other(@)]

\* shell_process: "." executes the line before; else the buffers change roles.  The
\* active one is then cleared.
shell_process(s) ==
    LET again == s.line[s.active][0] = "."
        active == IF again THEN s.active ELSE Other(s.active)
    IN  [s EXCEPT !.active = active, !.line[active] = EmptyLine]
ProcessedLine(s) == Words(s.line[IF s.line[s.active][0] = "." THEN Other(s.active) ELSE s.active])

\* Without a key ("\\n", an escape sequence, -1) nothing happens, unless the line is full.
Full(s) == s.len >= SHELL_CMD_MAX_LEN
shell_input_line(s, ch) ==
    CASE ch = "BS" /\ s.len > 0 -> [s EXCEPT !.len = @ - 1, !.line[s.active][s.len - 1] = None]
      [] ch \in Printable /\ ~Full(s) -> [s EXCEPT !.len = @ + 1, !.line[s.active][s.len] = ch]
      [] ch = "CR" \/ (ch # "BS" /\ Full(s)) -> [s EXCEPT !.len = 0]
      [] OTHER -> s

shell_kick ==
    /\ KickBegins /\ ~Shown
    /\ \E ch \in Keys \cup {None} :
         LET s == shell_input_line(sh, ch)
             done == ch = "CR" \/ (ch # "BS" /\ Full(sh))
             now == IF typed # <<>> /\ typed[1] = "." THEN prev ELSE typed
         IN  /\ Typed(ch)
             /\ IF done
                THEN /\ sh' = shell_process(s) /\ shell_process_cmd(ProcessedLine(s))
                     /\ typed' = <<>> /\ prev' = now /\ ran' = <<ProcessedLine(s), now>>
                ELSE /\ sh' = s /\ UNCHANGED <<con, console_vmid, prev, ran>>
                     /\ typed' = CASE ch = "BS" /\ typed # <<>> -> SubSeq(typed, 1, Len(typed) - 1)
                                   [] ch \in Printable -> Append(typed, ch)
                                   [] OTHER -> typed
    /\ UNCHANGED <<uartVars, cvu, rtcVars, stage, gp, req, gone, history>>

\* shell_handle_special_char: an escape takes the next two keys with it, if typed.
Escape == /\ KickBegins /\ ~Shown /\ ~Full(sh)
          /\ "ESC" \in Keys /\ \A v \in Vm : stage[v] \notin Creating
          /\ \E n \in 1 .. 3 : Spend("keys", n)
          /\ UNCHANGED <<uartVars, con, cvu, console_vmid, sh, typed, prev, ran, rtcVars, stage, gp, req,
                         gone, history>>

\* shell_stop_test and shell_start_test: VM 0 is shut down, or prepared again.  Its
\* processors stay offline.
StopTest == /\ con = "stop" /\ gp[0] \in {"guest", "panic"} /\ stage[0] = "on"
            /\ con' = "stopping" /\ stage' = [stage EXCEPT ![0] = "stop0"] /\ gone' = gone \cup {0}
            /\ UNCHANGED <<uartVars, cvu, console_vmid, sh, typed, prev, ran, rtcVars, gp, req, budget,
                           history>>
StartTest == /\ con = "start" /\ stage[0] = "off"
             /\ con' = "starting" /\ stage' = [stage EXCEPT ![0] = "setup0"]
             /\ UNCHANGED <<uartVars, cvu, console_vmid, sh, typed, prev, ran, rtcVars, gp, req, budget,
                            gone, history>>
TestDone == /\ (con = "stopping" /\ stage[0] = "off") \/ (con = "starting" /\ stage[0] = "on")
               \/ (con = "stop" /\ PoweredOff(0))
            /\ con' = "idle"
            /\ UNCHANGED <<uartVars, cvu, console_vmid, sh, typed, prev, ran, rtcVars, stage, gp, req,
                           budget, gone, history>>

Console == KickVm \/ vuart_console_rx_chars \/ vuart_console_tx_chars \/ shell_kick \/ Escape
           \/ StopTest \/ StartTest \/ TestDone

Next == \/ \E v \in Vm : Create(v) \/ Shutdown(v) \/ Guest(v) \/ Store(v) \/ RtcRead(v)
        \/ Console

Fairness == /\ \A v \in Vm : WF_vars(Create(v)) /\ WF_vars(Store(v)) /\ WF_vars(RtcRead(v))
                              /\ WF_vars(Stop0(v) \/ Stop1(v) \/ Unlink(v) \/ Unlinked(v))
            /\ WF_vars(Console)

Spec == Init /\ [][Next]_vars /\ Fairness

-----------------------------------------------------------------------------
\* A guest that has seen LSR_DR finds a character in the receive buffer, whatever
\* its peer and the console do in between.
ReadyMeansData == \A x \in ready : vuarts[x].rxfifo.num > 0

\* Two characters of one source, the first written before the second; and what that
\* means for a FIFO and those read from it.
Before(c, d) == c # None /\ d # None /\ c[1] = d[1] => c[2] < d[2]
InOrder(f, read) ==
    LET q == Contents(f)
    IN  /\ \A i, j \in DOMAIN q : i < j => Before(q[i], q[j])
        /\ \A c \in read, i \in DOMAIN q : Before(c, q[i])

\* Characters of one source reach their reader in the order they were written and
\* none comes twice: through the receive FIFO the guest, its peer and the console
\* fill at the same time, and through the transmit FIFO to the console.  A full FIFO
\* loses the oldest, so what is in it is newer than all that was read; and a guest
\* that was told of a character finds one.
CharsInOrder ==
    /\ \A x \in Vu : InOrder(vuarts[x].rxfifo, got[x]) /\ InOrder(vuarts[x].txfifo, out[x])
    /\ ReadyMeansData

\* Outside of creation and shutdown a connection has two ends, both active, and
\* no shutdown goes through a NULL target: whichever VMs are created and shut down at
\* once, unless one shutdown comes between the other's test and its assignment.
LinkedBothWays ==
    raced \/ /\ \A v \in Vm : stage[v] # "fault"
             /\ (\A v \in Vm : stage[v] \in {"on", "off"}) =>
                  \A x \in Vu : vuarts[x].target # None =>
                    /\ vuarts[x].active
                    /\ vuarts[vuarts[x].target].target = x

\* The shell executes the line that was typed, or for "." the line before: none of
\* the two line buffers shows what another line left in it.
CommandAsTyped == ran[1] = ran[2]

\* What a VM reads from the data port is the clock's register its own guest chose, as
\* long as no VM was created while another one read the clock.
RtcOwnRegister == cmos_reset \/ \A v \in Vm : gp[v] = "rtc_data" => cmos = vrtc_offset[v]

\* A guest's read of the clock returns, or stops the guest, on the same condition.
RtcReturns == \A v \in Vm : gp[v] = "rtc_wait" ~> gp[v] \in {"guest", "fatal", "panic"} \/ cmos_reset

\* What the guest of the VM on the console has written is shown, as long as the
\* processor of the console is not taken offline.  Only the shell, which is shown in
\* between, takes the console from one VM to the other.
Undrained == console_vmid # None /\ vuarts[<<console_vmid, 0>>].txfifo.num > 0
OutputDrained ==
    Undrained ~> ~Undrained \/ PoweredOff(console_vmid) \/ ConsoleVm \in gone
=============================================================================
