------------------------------- MODULE JtagUart -------------------------------
(***************************************************************************)
(* The console of the program: printf ends in the interrupt-driven driver  *)
(* of the JTAG UART (altera_avalon_jtag_uart_*.c), which main waits for    *)
(* whenever its buffer is full.  Modelled are the calls of the driver in   *)
(* the order of their accesses to what they share with its interrupt       *)
(* routine, the routine, the alarm that looks for the terminal, and the    *)
(* terminal, which comes and goes.                                         *)
(*                                                                         *)
(* One pass of the interrupt routine is one step: it meets only the        *)
(* terminal, and what that does during a pass could as well come before or *)
(* after.  The driver writes every change of irq_enable to the device at   *)
(* once with interrupts disabled, so that one variable stands for both.    *)
(***************************************************************************)
EXTENDS Naturals, Sequences, FiniteSets

CONSTANTS
  BUF_LEN,          \* ALTERA_AVALON_JTAG_UART_BUF_LEN
  FifoDepth,        \* of the two FIFOs of the device
  WriteThreshold,   \* the device asks for data when it has no more than this
  DEFAULT_TIMEOUT,  \* ALTERA_AVALON_JTAG_UART_DEFAULT_TIMEOUT
  INT_MAX,
  Systems,          \* what is looked at: with a clock for alarms or without (the
                    \* board has none, the driver is written for both), and
                    \* bounds: how many bytes are written and typed at most
  MaxCount          \* bound: bytes of a call

ASSUME JtagUartAssumption ==
  /\ BUF_LEN \in Nat /\ BUF_LEN >= 2
  /\ FifoDepth \in Nat \ {0}
  /\ WriteThreshold \in Nat /\ WriteThreshold < FifoDepth
  /\ INT_MAX \in Nat /\ DEFAULT_TIMEOUT \in 2 .. INT_MAX - 2
  /\ Systems \subseteq [clock : BOOLEAN, written : Nat, typed : Nat]
  /\ MaxCount \in Nat \ {0}

Slot == 0 .. BUF_LEN - 1
Byte == Nat     \* the bytes of a direction are numbered

VARIABLES
  system,           \* one of Systems, for all the behaviour
  pc,               \* where the program is
  left, nonblock,   \* the call: bytes still to do, and O_NONBLOCK
  some,             \* has the read moved its pointer?
  seen,             \* the pointer of the other side that the call waits for
  n, chunk,         \* what is being copied: how much, and out of rx_buf
  irq_enable, irq,  \* RE and WE; is the interrupt routine running?
  timeout, host_inactive,
  tx_buf, tx_in, tx_out, rx_buf, rx_in, rx_out,
  tx, rx, ac,       \* the device: FIFOs, and the activity bit of its control
  listening,        \* is a terminal connected?
  sent, typed,      \* history: the numbers of the next bytes
  heard, given      \* history: the last bytes out of the two directions

callVars == <<left, nonblock, some, seen, n, chunk>>
timeVars == <<system, timeout, host_inactive>>
txVars == <<tx_buf, tx_in, tx_out, sent>>
rxVars == <<rx_buf, rx_in, rx_out, given>>
hostVars == <<tx, rx, ac, listening, typed, heard>>
vars == <<system, pc, left, nonblock, some, seen, n, chunk, irq_enable, irq,
          timeout, host_inactive, tx_buf, tx_in, tx_out, rx_buf, rx_in, rx_out,
          tx, rx, ac, listening, sent, typed, heard, given>>

-----------------------------------------------------------------------------
(* Rings.                                                                   *)

\* i % BUF_LEN, for the sums that occur.
Wrap(i) == IF i >= BUF_LEN THEN i - BUF_LEN ELSE i

Used(in, out) == IF in >= out THEN in - out ELSE in + BUF_LEN - out
Buffered(buf, in, out) == [i \in 1 .. Used(in, out) |-> buf[Wrap(out + i - 1)]]

\* The ring after the sequence s is stored at in.
Stored(buf, in, s) ==
  [i \in Slot |-> LET d == Used(i, in) IN IF d < Len(s) THEN s[d + 1] ELSE buf[i]]

\* The free bytes in a row from in, and the used ones in a row from out.  The
\* variant of the mutation runs fills the last byte of the ring.
RoomNoGap(in, out) == IF in < out THEN out - 1 - in ELSE BUF_LEN - in
Room(in, out) ==
  CASE in < out             -> out - 1 - in
    [] in >= out /\ out > 0 -> BUF_LEN - in
    [] OTHER                -> BUF_LEN - 1 - in
Ready(in, out) == IF in >= out THEN in - out ELSE BUF_LEN - out

Least(a, b) == IF a < b THEN a ELSE b
Silent == host_inactive >= timeout

-----------------------------------------------------------------------------
(* Start-up: alt_main, alt_sys_init.                                        *)

Init ==
  /\ system \in Systems
  /\ pc = "boot"
  /\ left = 0 /\ nonblock = FALSE /\ some = FALSE /\ seen = 0 /\ n = 0 /\ chunk = <<>>
  /\ irq_enable = {} /\ irq = FALSE
  /\ timeout = DEFAULT_TIMEOUT /\ host_inactive = 0
  /\ tx_buf = [i \in Slot |-> 0] /\ tx_in = 0 /\ tx_out = 0
  /\ rx_buf = [i \in Slot |-> 0] /\ rx_in = 0 /\ rx_out = 0
  /\ tx = <<>> /\ rx = <<>> /\ ac = FALSE /\ listening \in BOOLEAN
  /\ sent = 0 /\ typed = 0 /\ heard = <<>> /\ given = <<>>

EnableDevice ==
  /\ pc = "boot" /\ pc' = "register"
  /\ irq_enable' = {"RE"}
  /\ UNCHANGED <<callVars, irq, timeVars, txVars, rxVars, hostVars>>

\* The handler is entered in the table and the line enabled, with interrupts
\* disabled; the processor has had them enabled since alt_irq_init.
RegisterHandler ==
  /\ pc = "register" /\ pc' = "alarm"
  /\ UNCHANGED <<callVars, irq_enable, irq, timeVars, txVars, rxVars, hostVars>>
Registered == pc \notin {"boot", "register"}

\* Without a clock the alarm cannot be set, and the terminal counts as there.
StartAlarm ==
  /\ pc = "alarm" /\ ~irq /\ pc' = "idle"
  /\ host_inactive' = 0
  /\ timeout' = IF system.clock THEN timeout ELSE INT_MAX
  /\ UNCHANGED <<callVars, irq_enable, irq, system, txVars, rxVars, hostVars>>

-----------------------------------------------------------------------------
(* The interrupt routine.                                                   *)

RI == "RE" \in irq_enable /\ rx # <<>>
WI == "WE" \in irq_enable /\ Len(tx) <= WriteThreshold

\* The device's FIFO to rx_buf, until one is empty or the other full.  Data
\* that is left turns the request off.
Receive ==
  LET free == BUF_LEN - 1 - Used(rx_in, rx_out)
      k == Least(free, Len(rx))
  IN  /\ rx_buf' = Stored(rx_buf, rx_in, SubSeq(rx, 1, k))
      /\ rx_in' = Wrap(rx_in + k)
      /\ rx' = SubSeq(rx, k + 1, Len(rx))
ReceiveOff == IF Len(rx) > BUF_LEN - 1 - Used(rx_in, rx_out) THEN {"RE"} ELSE {}

\* tx_buf to the device's FIFO.  Room that is left turns the request off; the
\* variant of the mutation runs turns it off although data is left.
Space == FifoDepth - Len(tx)
Transmit ==
  LET k == Least(Space, Used(tx_in, tx_out))
  IN  /\ tx' = tx \o SubSeq(Buffered(tx_buf, tx_in, tx_out), 1, k)
      /\ tx_out' = Wrap(tx_out + k)
TransmitOffEarly == {"WE"}
TransmitOff == IF Space > Used(tx_in, tx_out) THEN {"WE"} ELSE {}

Interrupt ==
  /\ Registered /\ (RI \/ WI)
  /\ irq' = TRUE
  /\ IF RI THEN Receive ELSE UNCHANGED <<rx_buf, rx_in, rx>>
  /\ IF WI THEN Transmit ELSE UNCHANGED <<tx, tx_out>>
  /\ irq_enable' = irq_enable \ ((IF RI THEN ReceiveOff ELSE {})
                                 \union (IF WI THEN TransmitOff ELSE {}))
  /\ UNCHANGED <<pc, callVars, timeVars, tx_buf, tx_in, sent, rx_out, given, ac,
                 listening, typed, heard>>

\* The routine returns, and alt_irq_handler finds nothing else pending.
Return ==
  /\ irq /\ ~RI /\ ~WI
  /\ irq' = FALSE
  /\ UNCHANGED <<pc, callVars, irq_enable, timeVars, txVars, rxVars, hostVars>>

\* The alarm, once a second: has the terminal been there?  The variants of the
\* mutation runs stop counting one too early, and never.
CountOnShort(count) == IF count < INT_MAX - 3 THEN count + 1 ELSE count
CountOnWild(count) == count + 1
CountOn(count) == IF count < INT_MAX - 2 THEN count + 1 ELSE count
Tick ==
  /\ system.clock /\ pc \notin {"boot", "register", "alarm"} /\ ~irq
  /\ host_inactive' = IF ac THEN 0 ELSE CountOn(host_inactive)
  /\ ac' = FALSE
  /\ UNCHANGED <<pc, callVars, irq_enable, irq, system, timeout, txVars, rxVars,
                 tx, rx, listening, typed, heard>>

-----------------------------------------------------------------------------
(* The calls.  A call that ends leaves its locals behind.                   *)

At(from) == pc = from /\ ~irq
Done ==
  /\ pc' = "idle"
  /\ left' = 0 /\ nonblock' = FALSE /\ some' = FALSE /\ seen' = 0 /\ n' = 0 /\ chunk' = <<>>

\* write, read (of nothing: nothing happens), close, ioctl(TIOCSTIMEOUT).
Call ==
  /\ At("idle")
  /\ nonblock' \in BOOLEAN
  /\ \/ pc' = "w_fill" /\ left' \in 0 .. Least(MaxCount, system.written - sent)
     \/ pc' = "r_look" /\ left' \in 1 .. MaxCount
     \/ pc' = "c_wait" /\ left' = 0
  /\ UNCHANGED <<some, seen, n, chunk, irq_enable, irq, timeVars, txVars, rxVars, hostVars>>

SetTimeout ==
  /\ At("idle") /\ timeout # INT_MAX
  /\ timeout' \in 2 .. INT_MAX - 1
  /\ UNCHANGED <<pc, callVars, irq_enable, irq, system, host_inactive, txVars, rxVars, hostVars>>

\* As much as there is room for, by the pointer that is read here ...
WriteFill ==
  /\ At("w_fill")
  /\ LET m == IF left = 0 THEN 0 ELSE Least(Room(tx_in, tx_out), left)
     IN  /\ n' = m /\ left' = left - m
         /\ tx_buf' = Stored(tx_buf, tx_in, [i \in 1 .. m |-> sent + i - 1])
         /\ pc' = IF m = 0 THEN "w_kick" ELSE "w_publish"
         /\ seen' = IF left > 0 /\ m = 0 THEN tx_out ELSE 0
  /\ UNCHANGED <<nonblock, some, chunk, irq_enable, irq, timeVars, tx_in, tx_out, sent,
                 rxVars, hostVars>>

\* ... and only then the routine may have it.
WritePublish ==
  /\ At("w_publish") /\ pc' = "w_fill"
  /\ tx_in' = Wrap(tx_in + n)
  /\ sent' = sent + n
  /\ n' = 0
  /\ UNCHANGED <<left, nonblock, some, seen, chunk, irq_enable, irq, timeVars, tx_buf,
                 tx_out, rxVars, hostVars>>

\* The request is turned on each time, with interrupts disabled.
WriteKick ==
  /\ At("w_kick")
  /\ irq_enable' = irq_enable \union {"WE"}
  /\ IF left = 0 \/ nonblock
     THEN Done
     ELSE pc' = "w_wait" /\ UNCHANGED callVars
  /\ UNCHANGED <<irq, timeVars, txVars, rxVars, hostVars>>

\* For ever, if there is no clock and no terminal.  With a clock a terminal
\* that missed a second ends the call.  (host_inactive is read once more after
\* the loop; an alarm in between means one more round, which changes nothing.)
WriteWait ==
  /\ At("w_wait") /\ (seen # tx_out \/ Silent)
  /\ IF host_inactive # 0
     THEN Done
     ELSE pc' = "w_fill" /\ seen' = 0 /\ UNCHANGED <<left, nonblock, some, n, chunk>>
  /\ UNCHANGED <<irq_enable, irq, timeVars, txVars, rxVars, hostVars>>

\* What is there, up to the end of the ring ...
ReadLook ==
  /\ At("r_look")
  /\ LET m == Least(Ready(rx_in, rx_out), left)
     IN  IF m > 0
         THEN /\ pc' = "r_free"
              /\ chunk' = SubSeq(Buffered(rx_buf, rx_in, rx_out), 1, m)
              /\ n' = m /\ left' = left - m
              /\ UNCHANGED <<nonblock, some, seen>>
         ELSE CASE some              -> pc' = "r_enable" /\ UNCHANGED callVars
                [] ~some /\ nonblock -> Done
                [] OTHER             -> /\ pc' = "r_wait" /\ seen' = rx_in
                                        /\ UNCHANGED <<left, nonblock, some, n, chunk>>
  /\ UNCHANGED <<irq_enable, irq, timeVars, txVars, rxVars, hostVars>>

\* ... and only then the routine may overwrite it.
ReadFree ==
  /\ At("r_free") /\ pc' = IF left > 0 THEN "r_look" ELSE "r_enable"
  /\ rx_out' = Wrap(rx_out + n)
  /\ given' = chunk /\ chunk' = <<>> /\ n' = 0
  /\ some' = TRUE
  /\ UNCHANGED <<left, nonblock, seen, irq_enable, irq, timeVars, txVars, rx_buf, rx_in,
                 hostVars>>

\* Something was read: there is room, whatever the routine has found.  The
\* variant of the mutation runs leaves the request as it is.
ReadEnableNot ==
  /\ At("r_enable") /\ Done
  /\ UNCHANGED <<irq_enable, irq, timeVars, txVars, rxVars, hostVars>>
ReadEnable ==
  /\ At("r_enable") /\ Done
  /\ irq_enable' = irq_enable \union {"RE"}
  /\ UNCHANGED <<irq, timeVars, txVars, rxVars, hostVars>>

ReadWait ==
  /\ At("r_wait") /\ (seen # rx_in \/ Silent)
  /\ IF seen = rx_in THEN Done
     ELSE pc' = "r_look" /\ seen' = 0 /\ UNCHANGED <<left, nonblock, some, n, chunk>>
  /\ UNCHANGED <<irq_enable, irq, timeVars, txVars, rxVars, hostVars>>

\* close waits for the buffer to drain, or for the terminal to be missed.
CloseWait ==
  /\ At("c_wait") /\ (tx_in = tx_out \/ Silent \/ nonblock)
  /\ Done
  /\ UNCHANGED <<irq_enable, irq, timeVars, txVars, rxVars, hostVars>>

Program ==
  \/ EnableDevice \/ RegisterHandler \/ StartAlarm
  \/ WriteFill \/ WritePublish \/ WriteKick \/ WriteWait
  \/ ReadLook \/ ReadFree \/ ReadEnable \/ ReadWait \/ CloseWait

-----------------------------------------------------------------------------
(* The terminal.                                                            *)

UnchangedProgram ==
  UNCHANGED <<pc, callVars, irq_enable, irq, timeVars, txVars, rxVars>>

HostTakes ==
  /\ listening /\ tx # <<>>
  /\ heard' = <<Head(tx)>> /\ tx' = Tail(tx) /\ ac' = TRUE
  /\ UnchangedProgram /\ UNCHANGED <<rx, listening, typed>>

HostTypes ==
  /\ listening /\ Len(rx) < FifoDepth /\ typed < system.typed
  /\ rx' = Append(rx, typed) /\ typed' = typed + 1 /\ ac' = TRUE
  /\ UnchangedProgram /\ UNCHANGED <<tx, listening, heard>>

HostPolls ==
  /\ listening /\ ac' = TRUE
  /\ UnchangedProgram /\ UNCHANGED <<tx, rx, listening, typed, heard>>

HostComesOrGoes ==
  /\ listening' = ~listening
  /\ UnchangedProgram /\ UNCHANGED <<tx, rx, ac, typed, heard>>

Host == HostTakes \/ HostTypes \/ HostPolls \/ HostComesOrGoes

Next == Program \/ Call \/ SetTimeout \/ Interrupt \/ Return \/ Tick \/ Host

\* The processor runs, the alarm rings, and a terminal that is there now and
\* then takes what is printed.  Nobody has to type or to call.
Spec ==
  /\ Init /\ [][Next]_vars
  /\ WF_vars(Program) /\ WF_vars(Interrupt) /\ WF_vars(Return) /\ WF_vars(Tick)
  /\ SF_vars(HostTakes)

-----------------------------------------------------------------------------

Places == {"boot", "register", "alarm", "idle", "w_fill", "w_publish", "w_kick", "w_wait",
           "r_look", "r_free", "r_enable", "r_wait", "c_wait"}

TypeOK ==
  /\ system \in Systems /\ pc \in Places
  /\ left \in 0 .. MaxCount /\ nonblock \in BOOLEAN /\ some \in BOOLEAN
  /\ seen \in Slot /\ n \in Slot /\ chunk \in Seq(Byte)
  /\ irq_enable \in SUBSET {"RE", "WE"} /\ irq \in BOOLEAN
  /\ timeout \in 2 .. INT_MAX /\ host_inactive \in 0 .. INT_MAX - 2
  /\ {tx_in, tx_out, rx_in, rx_out} \subseteq Slot
  /\ tx_buf \in [Slot -> Byte] /\ rx_buf \in [Slot -> Byte]
  /\ tx \in Seq(Byte) /\ Len(tx) <= FifoDepth
  /\ rx \in Seq(Byte) /\ Len(rx) <= FifoDepth
  /\ ac \in BOOLEAN /\ listening \in BOOLEAN
  /\ sent \in 0 .. system.written /\ typed \in 0 .. system.typed
  /\ heard \in Seq(Byte) /\ given \in Seq(Byte)

\* No request is turned off for good: while bytes wait in a buffer, the
\* interrupt that moves them is on, or the call that will turn it on is under
\* way (irq_enable has two writers, the routine and the calls).
Writing == pc \in {"w_fill", "w_publish", "w_kick"}
NoLostWakeUp ==
  /\ tx_in # tx_out /\ ~Writing => "WE" \in irq_enable
  /\ "RE" \notin irq_enable =>
       pc = "boot" \/ Used(rx_in, rx_out) = BUF_LEN - 1 \/ some

\* Each direction is a pipe: rings, wrapped copies and FIFOs lose, double or
\* reorder nothing, and the routine never fetches what has not been copied.
ToHost == INSTANCE Pipe WITH
  Capacity <- BUF_LEN - 1 + FifoDepth,
  items <- tx \o Buffered(tx_buf, tx_in, tx_out), next <- sent, took <- heard
FromHost == INSTANCE Pipe WITH
  Capacity <- BUF_LEN - 1 + FifoDepth,
  items <- Buffered(rx_buf, rx_in, rx_out) \o rx, next <- typed, took <- given
RefinesPipes == ToHost!Spec /\ FromHost!Spec

\* A write or a close ends if a terminal is there again and again, or if there
\* is a limit to the patience of the driver: INT_MAX - 1 seconds are never
\* counted.  On the board, without a clock, printf without a terminal waits
\* for ever once the buffer is full.
Patient == timeout >= INT_MAX - 1
CallsEnd ==
  []<>listening \/ <>[]~Patient =>
    (pc \in {"w_fill", "w_publish", "w_kick", "w_wait", "c_wait"}) ~> (pc = "idle")

\* A read that waits is woken by what is typed.
ReadsEnd == (pc = "r_wait" /\ rx # <<>>) ~> (pc # "r_wait")

=============================================================================
