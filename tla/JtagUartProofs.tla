---------------------------- MODULE JtagUartProofs ----------------------------
(***************************************************************************)
(* Theorems about the console: every FIFO and ring, every number of calls. *)
(***************************************************************************)
EXTENDS JtagUart, TLAPS, SequenceTheorems

\* Arithmetic of a ring: what a pointer, a free row and a used row may be.
LEMMA RingFacts ==
  ASSUME NEW in \in Slot, NEW out \in Slot
  PROVE  /\ BUF_LEN \in Nat /\ BUF_LEN >= 2
         /\ Used(in, out) \in Slot
         /\ Used(in, out) = 0 <=> in = out
         /\ Room(in, out) \in 0 .. BUF_LEN - 1 - Used(in, out)
         /\ Ready(in, out) \in 0 .. Used(in, out)
         /\ \A k \in Slot : Wrap(in + k) \in Slot
<1>1. BUF_LEN \in Nat /\ BUF_LEN >= 2 /\ in \in 0 .. BUF_LEN - 1 /\ out \in 0 .. BUF_LEN - 1
  BY JtagUartAssumption DEF Slot
<1>2. Used(in, out) \in Slot /\ (Used(in, out) = 0 <=> in = out)
  BY <1>1 DEF Used, Slot
<1>3. Room(in, out) \in 0 .. BUF_LEN - 1 - Used(in, out)
  <2>1. CASE in < out
    BY <1>1, <2>1 DEF Used, Room
  <2>2. CASE in >= out /\ out > 0
    BY <1>1, <2>2 DEF Used, Room
  <2>3. CASE in >= out /\ out = 0
    BY <1>1, <2>3 DEF Used, Room
  <2> QED
    BY <1>1, <2>1, <2>2, <2>3
<1>4. Ready(in, out) \in 0 .. Used(in, out)
  BY <1>1 DEF Used, Ready
<1>5. \A k \in Slot : Wrap(in + k) \in Slot
  BY <1>1 DEF Wrap, Slot
<1> QED
  BY <1>1, <1>2, <1>3, <1>4, <1>5

\* Putting k bytes in and taking k out, when they fit and when they are there.
LEMMA RingMoves ==
  ASSUME NEW in \in Slot, NEW out \in Slot, NEW k \in Nat
  PROVE  /\ k <= BUF_LEN - 1 - Used(in, out) => Used(Wrap(in + k), out) = Used(in, out) + k
         /\ k <= Used(in, out) => Used(in, Wrap(out + k)) = Used(in, out) - k
<1>1. BUF_LEN \in Nat /\ BUF_LEN >= 2 /\ in \in 0 .. BUF_LEN - 1 /\ out \in 0 .. BUF_LEN - 1
  BY JtagUartAssumption DEF Slot
<1>2. k <= BUF_LEN - 1 - Used(in, out) => Used(Wrap(in + k), out) = Used(in, out) + k
  BY <1>1 DEF Used, Wrap
<1>3. k <= Used(in, out) => Used(in, Wrap(out + k)) = Used(in, out) - k
  BY <1>1 DEF Used, Wrap
<1> QED
  BY <1>2, <1>3

\* The bytes of a ring are a sequence, and storing a sequence keeps the ring.
LEMMA RingTypes ==
  ASSUME NEW in \in Slot, NEW out \in Slot, NEW buf \in [Slot -> Byte]
  PROVE  /\ Buffered(buf, in, out) \in Seq(Byte)
         /\ Len(Buffered(buf, in, out)) = Used(in, out)
         /\ \A s \in Seq(Byte) : Stored(buf, in, s) \in [Slot -> Byte]
<1>1. Used(in, out) \in Slot /\ Slot \subseteq Nat /\ \A k \in Slot : Wrap(out + k) \in Slot
  <2>1. Used(in, out) \in Slot /\ \A k \in Slot : Wrap(out + k) \in Slot
    BY RingFacts
  <2>2. Slot \subseteq Nat
    BY JtagUartAssumption DEF Slot
  <2> QED
    BY <2>1, <2>2
<1>2. \A i \in 1 .. Used(in, out) : buf[Wrap(out + i - 1)] \in Byte
  <2> TAKE i \in 1 .. Used(in, out)
  <2>1. i - 1 \in Slot /\ out + i - 1 = out + (i - 1)
    BY <1>1, JtagUartAssumption DEF Slot
  <2> QED
    BY <1>1, <2>1
<1>3. Buffered(buf, in, out) \in Seq(Byte) /\ Len(Buffered(buf, in, out)) = Used(in, out)
  <2>1. ASSUME NEW m \in Nat, NEW f \in [1 .. m -> Byte] PROVE f \in Seq(Byte) /\ Len(f) = m
    BY <2>1
  <2>2. Used(in, out) \in Nat /\ Buffered(buf, in, out) \in [1 .. Used(in, out) -> Byte]
    BY <1>1, <1>2 DEF Buffered
  <2> QED
    BY <2>1, <2>2
<1>4. ASSUME NEW s \in Seq(Byte) PROVE Stored(buf, in, s) \in [Slot -> Byte]
  <2>1. ASSUME NEW i \in Slot, Used(i, in) < Len(s) PROVE s[Used(i, in) + 1] \in Byte
    <3>1. Used(i, in) \in Nat
      BY RingFacts, <1>1
    <3>2. Used(i, in) + 1 \in 1 .. Len(s)
      BY <2>1, <3>1, LenProperties
    <3> QED
      BY <3>2, ElementOfSeq
  <2> QED
    BY <2>1 DEF Stored
<1> QED
  BY <1>3, <1>4

-----------------------------------------------------------------------------
(* Types, and no request turned off for good.                               *)

\* What a call has done and may still do.
Calls ==
  /\ some => pc \in {"r_look", "r_free", "r_enable"}
  /\ pc = "boot" => irq_enable = {}
  /\ pc \in {"w_fill", "w_kick", "w_wait"} => sent + left <= system.written
  /\ pc = "w_publish" => sent + n + left <= system.written

Inv == TypeOK /\ NoLostWakeUp /\ Calls

LEMMA InitInv == Init => Inv
<1> SUFFICES ASSUME Init PROVE Inv
  OBVIOUS
<1> USE DEF Init
<1>1. 0 \in Slot /\ \A s \in Systems : s.written \in Nat /\ s.typed \in Nat
  BY JtagUartAssumption DEF Slot
<1>2. TypeOK
  BY <1>1, JtagUartAssumption, EmptySeq DEF TypeOK, Byte, Places
<1>3. NoLostWakeUp /\ Calls
  BY <1>1, JtagUartAssumption DEF NoLostWakeUp, Calls
<1> QED
  BY <1>2, <1>3 DEF Inv

\* The routine: what it moves, and what it turns off.
LEMMA InterruptInv == Inv /\ Interrupt => Inv'
<1> SUFFICES ASSUME Inv, Interrupt PROVE Inv'
  OBVIOUS
<1>1. /\ UNCHANGED <<pc, left, nonblock, some, seen, n, chunk, system, timeout,
                     host_inactive, tx_buf, tx_in, sent, rx_out, given, ac, listening,
                     typed, heard>>
      /\ irq' = TRUE /\ Registered
  BY DEF Interrupt, callVars, timeVars
<1>2. /\ tx_in \in Slot /\ tx_out \in Slot /\ rx_in \in Slot /\ rx_out \in Slot
      /\ tx_buf \in [Slot -> Byte] /\ rx_buf \in [Slot -> Byte]
      /\ tx \in Seq(Byte) /\ rx \in Seq(Byte)
      /\ Len(tx) \in 0 .. FifoDepth /\ Len(rx) \in 0 .. FifoDepth
      /\ FifoDepth \in Nat /\ BUF_LEN \in Nat /\ BUF_LEN >= 2
      /\ irq_enable \in SUBSET {"RE", "WE"}
  BY LenProperties, JtagUartAssumption DEF Inv, TypeOK
<1>3. Used(rx_in, rx_out) \in Slot /\ Used(tx_in, tx_out) \in Slot
  BY <1>2, RingFacts
<1>4. /\ rx_in' \in Slot /\ rx_buf' \in [Slot -> Byte]
      /\ rx' \in Seq(Byte) /\ Len(rx') <= FifoDepth
      /\ RI /\ ReceiveOff # {} => Used(rx_in', rx_out) = BUF_LEN - 1
      /\ ~RI => UNCHANGED <<rx_in, rx_buf, rx>>
  <2>1. CASE RI
    <3> DEFINE free == BUF_LEN - 1 - Used(rx_in, rx_out)
               k == Least(free, Len(rx))
    <3>1. k \in Slot /\ k <= free /\ k <= Len(rx) /\ k \in Nat
      BY <1>2, <1>3 DEF Least, Slot
    <3>2. /\ rx_buf' = Stored(rx_buf, rx_in, SubSeq(rx, 1, k))
          /\ rx_in' = Wrap(rx_in + k) /\ rx' = SubSeq(rx, k + 1, Len(rx))
      BY <2>1 DEF Interrupt, Receive
    <3> HIDE DEF k
    <3>3. SubSeq(rx, 1, k) \in Seq(Byte)
      BY <1>2, <3>1, ElementOfSeq, SubSeqProperties
    <3>4. rx' \in Seq(Byte) /\ Len(rx') <= FifoDepth
      BY <1>2, <3>1, <3>2, ElementOfSeq, SubSeqProperties
    <3>5. rx_in' \in Slot /\ rx_buf' \in [Slot -> Byte]
      BY <1>2, <3>1, <3>2, <3>3, RingFacts, RingTypes
    <3>6. ReceiveOff # {} => k = free
      BY <1>2, <1>3 DEF k, ReceiveOff, Least, Slot
    <3>7. ReceiveOff # {} => Used(rx_in', rx_out) = BUF_LEN - 1
      BY <1>2, <1>3, <3>1, <3>2, <3>6, RingMoves DEF Slot
    <3> QED
      BY <2>1, <3>4, <3>5, <3>7
  <2>2. CASE ~RI
    BY <1>2, <2>2 DEF Interrupt
  <2> QED
    BY <2>1, <2>2
<1>5. /\ tx_out' \in Slot /\ tx' \in Seq(Byte) /\ Len(tx') <= FifoDepth
      /\ WI /\ TransmitOff # {} => tx_in = tx_out'
      /\ ~WI => UNCHANGED <<tx_out, tx>>
  <2>1. CASE WI
    <3> DEFINE k == Least(Space, Used(tx_in, tx_out))
               q == Buffered(tx_buf, tx_in, tx_out)
    <3>1. k \in Slot /\ k <= Space /\ k <= Used(tx_in, tx_out) /\ k \in Nat
      BY <1>2, <1>3 DEF Least, Slot, Space
    <3>2. tx' = tx \o SubSeq(q, 1, k) /\ tx_out' = Wrap(tx_out + k)
      BY <2>1 DEF Interrupt, Transmit
    <3>3. q \in Seq(Byte) /\ Len(q) = Used(tx_in, tx_out)
      BY <1>2, RingTypes
    <3>4. TransmitOff # {} => k = Used(tx_in, tx_out)
      BY <1>2, <1>3 DEF TransmitOff, Least, Space, Slot
    <3> HIDE DEF k, q
    <3>5. SubSeq(q, 1, k) \in Seq(Byte) /\ Len(SubSeq(q, 1, k)) = k
      BY <3>1, <3>3, ElementOfSeq, SubSeqProperties
    <3>6. tx' \in Seq(Byte) /\ Len(tx') <= FifoDepth
      BY <1>2, <3>1, <3>2, <3>5, ConcatProperties DEF Space
    <3>7. tx_out' \in Slot
      BY <1>2, <3>1, <3>2, RingFacts
    <3>8. TransmitOff # {} => Used(tx_in, tx_out') = 0
      BY <1>2, <1>3, <3>1, <3>2, <3>4, RingMoves DEF Slot
    <3> QED
      BY <2>1, <3>6, <3>7, <3>8, <1>2, RingFacts
  <2>2. CASE ~WI
    BY <1>2, <2>2 DEF Interrupt
  <2> QED
    BY <2>1, <2>2
<1>6. irq_enable' = irq_enable \ ((IF RI THEN ReceiveOff ELSE {})
                                  \union (IF WI THEN TransmitOff ELSE {}))
  BY DEF Interrupt
<1>7. ReceiveOff \in {{}, {"RE"}} /\ TransmitOff \in {{}, {"WE"}}
  BY DEF ReceiveOff, TransmitOff
<1>8. irq_enable' \in SUBSET {"RE", "WE"}
  BY <1>2, <1>6
<1>9. TypeOK'
  BY <1>1, <1>2, <1>4, <1>5, <1>8, RingFacts DEF Inv, TypeOK
<1>10. tx_in' # tx_out' /\ ~Writing' => "WE" \in irq_enable'
  <2>1. CASE WI /\ TransmitOff # {}
    BY <2>1, <1>1, <1>5
  <2>2. CASE WI /\ TransmitOff = {}
    BY <2>2, <1>6, <1>7 DEF WI
  <2>3. CASE ~WI
    BY <2>3, <1>1, <1>5, <1>6, <1>7 DEF Inv, NoLostWakeUp, Writing
  <2> QED
    BY <2>1, <2>2, <2>3
<1>11. "RE" \notin irq_enable' =>
         pc' = "boot" \/ Used(rx_in', rx_out') = BUF_LEN - 1 \/ some'
  BY <1>1, <1>2, <1>4, <1>6, <1>7 DEF Inv, NoLostWakeUp, RI
<1>12. Calls'
  BY <1>1 DEF Inv, Calls, Registered
<1> QED
  BY <1>9, <1>10, <1>11, <1>12 DEF Inv, NoLostWakeUp

LEMMA BootInv == Inv /\ (EnableDevice \/ RegisterHandler \/ StartAlarm) => Inv'
<1> SUFFICES ASSUME Inv, EnableDevice \/ RegisterHandler \/ StartAlarm PROVE Inv'
  OBVIOUS
<1> USE DEF callVars, txVars, rxVars, hostVars, timeVars
<1>1. UNCHANGED <<left, nonblock, some, seen, n, chunk, irq, system, tx_buf, tx_in, tx_out,
                  sent, rx_buf, rx_in, rx_out, given, tx, rx, ac, listening, typed, heard>>
  BY DEF EnableDevice, RegisterHandler, StartAlarm
<1>2. /\ pc \in {"boot", "register", "alarm"} /\ pc' \in {"register", "alarm", "idle"}
      /\ pc = "boot" => irq_enable' = {"RE"}
      /\ pc # "boot" => irq_enable' = irq_enable
  BY DEF EnableDevice, RegisterHandler, StartAlarm
<1>3. timeout' \in 2 .. INT_MAX /\ host_inactive' \in 0 .. INT_MAX - 2
  BY JtagUartAssumption DEF Inv, TypeOK, EnableDevice, RegisterHandler, StartAlarm
<1>4. TypeOK'
  BY <1>1, <1>2, <1>3 DEF Inv, TypeOK, Places
<1>5. NoLostWakeUp'
  BY <1>1, <1>2 DEF Inv, NoLostWakeUp, Calls, Writing, Used
<1>6. Calls'
  BY <1>1, <1>2 DEF Inv, Calls
<1> QED
  BY <1>4, <1>5, <1>6 DEF Inv

\* The steps of the routine's return, of the alarm and of the terminal.
LEMMA OutsideInv == Inv /\ (Return \/ Tick \/ Host) => Inv'
<1> SUFFICES ASSUME Inv, Return \/ Tick \/ Host PROVE Inv'
  OBVIOUS
<1> USE DEF callVars, txVars, rxVars, hostVars, timeVars, UnchangedProgram
<1>1. UNCHANGED <<pc, left, nonblock, some, seen, n, chunk, irq_enable, system, timeout,
                  tx_buf, tx_in, tx_out, sent, rx_buf, rx_in, rx_out, given>>
  BY DEF Return, Tick, Host, HostTakes, HostTypes, HostPolls, HostComesOrGoes
<1>2. irq' \in BOOLEAN /\ ac' \in BOOLEAN /\ listening' \in BOOLEAN
  BY DEF Inv, TypeOK, Return, Tick, Host, HostTakes, HostTypes, HostPolls, HostComesOrGoes
<1>3. host_inactive' \in 0 .. INT_MAX - 2
  <2>1. INT_MAX \in Nat /\ host_inactive \in 0 .. INT_MAX - 2 /\ INT_MAX >= 2
    BY JtagUartAssumption DEF Inv, TypeOK
  <2>2. CASE Tick
    BY <2>1, <2>2 DEF Tick, CountOn
  <2>3. CASE ~Tick
    BY <2>1, <2>3 DEF Return, Host, HostTakes, HostTypes, HostPolls, HostComesOrGoes
  <2> QED
    BY <2>2, <2>3
<1>4. tx' \in Seq(Byte) /\ Len(tx') <= FifoDepth /\ heard' \in Seq(Byte)
  <2>1. CASE HostTakes
    <3>1. tx # <<>> /\ heard' = <<Head(tx)>> /\ tx' = Tail(tx) /\ tx \in Seq(Byte)
      BY <2>1 DEF HostTakes, Inv, TypeOK
    <3>2. Head(tx) \in Byte /\ Tail(tx) \in Seq(Byte) /\ Len(Tail(tx)) = Len(tx) - 1
      BY <3>1, HeadTailProperties
    <3> QED
      BY <3>1, <3>2, LenProperties, JtagUartAssumption DEF Inv, TypeOK
  <2>2. CASE ~HostTakes
    BY <2>2 DEF Inv, TypeOK, Return, Tick, Host, HostTypes, HostPolls, HostComesOrGoes
  <2> QED
    BY <2>1, <2>2
<1>5. rx' \in Seq(Byte) /\ Len(rx') <= FifoDepth /\ typed' \in 0 .. system.typed
  <2>1. CASE HostTypes
    <3>1. /\ rx \in Seq(Byte) /\ typed \in Byte /\ Len(rx) < FifoDepth /\ typed < system.typed
          /\ rx' = Append(rx, typed) /\ typed' = typed + 1
          /\ system.typed \in Nat /\ typed \in Nat
      BY <2>1, JtagUartAssumption DEF HostTypes, Inv, TypeOK, Byte
    <3> QED
      BY <3>1, AppendProperties, LenProperties, JtagUartAssumption
  <2>2. CASE ~HostTypes
    BY <2>2 DEF Inv, TypeOK, Return, Tick, Host, HostTakes, HostPolls, HostComesOrGoes
  <2> QED
    BY <2>1, <2>2
<1>6. TypeOK'
  BY <1>1, <1>2, <1>3, <1>4, <1>5 DEF Inv, TypeOK
<1>7. NoLostWakeUp' /\ Calls'
  BY <1>1 DEF Inv, NoLostWakeUp, Calls, Writing, Used
<1> QED
  BY <1>6, <1>7 DEF Inv

LEMMA CallInv == Inv /\ (Call \/ SetTimeout) => Inv'
<1> SUFFICES ASSUME Inv, Call \/ SetTimeout PROVE Inv'
  OBVIOUS
<1> USE DEF callVars, txVars, rxVars, hostVars, timeVars
<1>1. UNCHANGED <<some, seen, n, chunk, irq_enable, irq, system, host_inactive, tx_buf,
                  tx_in, tx_out, sent, rx_buf, rx_in, rx_out, given, tx, rx, ac, listening,
                  typed, heard>> /\ pc = "idle"
  BY DEF Call, SetTimeout, At
<1>2. /\ nonblock' \in BOOLEAN /\ left' \in 0 .. MaxCount
      /\ pc' \in {"idle", "w_fill", "r_look", "c_wait"}
      /\ pc' = "w_fill" => sent + left' <= system.written
      /\ timeout' \in 2 .. INT_MAX
  <2>1. system.written \in Nat /\ sent \in 0 .. system.written /\ MaxCount \in Nat \ {0}
    BY JtagUartAssumption DEF Inv, TypeOK
  <2>2. CASE Call
    <3>1. pc' = "w_fill" => left' \in 0 .. MaxCount /\ sent + left' <= system.written
      <4> SUFFICES ASSUME pc' = "w_fill" PROVE left' \in 0 .. MaxCount /\ sent + left' <= system.written
        OBVIOUS
      <4>1. left' \in 0 .. Least(MaxCount, system.written - sent)
        BY <2>2 DEF Call
      <4> QED
        BY <4>1, <2>1 DEF Least
    <3>2. pc' # "w_fill" => left' \in 0 .. MaxCount
      BY <2>1, <2>2 DEF Call
    <3> QED
      BY <2>2, <3>1, <3>2 DEF Call, Inv, TypeOK
  <2>3. CASE SetTimeout
    BY <2>1, <2>3, JtagUartAssumption DEF SetTimeout, Inv, TypeOK, At
  <2> QED
    BY <2>2, <2>3
<1>3. TypeOK'
  BY <1>1, <1>2 DEF Inv, TypeOK, Places
<1>4. NoLostWakeUp' /\ Calls'
  BY <1>1, <1>2 DEF Inv, NoLostWakeUp, Calls, Writing, Used
<1> QED
  BY <1>3, <1>4 DEF Inv

LEMMA WriteInv == Inv /\ (WriteFill \/ WritePublish \/ WriteKick \/ WriteWait) => Inv'
<1> SUFFICES ASSUME Inv, WriteFill \/ WritePublish \/ WriteKick \/ WriteWait PROVE Inv'
  OBVIOUS
<1> USE DEF callVars, txVars, rxVars, hostVars, timeVars
<1>1. UNCHANGED <<irq, system, timeout, host_inactive, tx_out, rx_buf, rx_in, rx_out, given,
                  tx, rx, ac, listening, typed, heard>>
  BY DEF WriteFill, WritePublish, WriteKick, WriteWait
<1>2. /\ tx_in \in Slot /\ tx_out \in Slot /\ tx_buf \in [Slot -> Byte]
      /\ left \in 0 .. MaxCount /\ n \in Slot /\ seen \in Slot /\ sent \in 0 .. system.written
      /\ BUF_LEN \in Nat /\ BUF_LEN >= 2 /\ MaxCount \in Nat /\ system.written \in Nat
  BY JtagUartAssumption DEF Inv, TypeOK
<1>3. pc \in {"w_fill", "w_publish", "w_kick", "w_wait"} /\ ~some
  BY DEF Inv, Calls, WriteFill, WritePublish, WriteKick, WriteWait, At
<1>4. CASE WriteFill
  <2> DEFINE m == IF left = 0 THEN 0 ELSE Least(Room(tx_in, tx_out), left)
             s == [i \in 1 .. m |-> sent + i - 1]
  <2>1. Room(tx_in, tx_out) \in 0 .. BUF_LEN - 1
    <3>1. Used(tx_in, tx_out) \in Slot /\ Room(tx_in, tx_out) \in 0 .. BUF_LEN - 1 - Used(tx_in, tx_out)
      BY <1>2, RingFacts
    <3> QED
      BY <1>2, <3>1 DEF Slot
  <2>2. m \in Slot /\ m <= left
    BY <1>2, <2>1 DEF Least, Slot
  <2>3. /\ n' = m /\ left' = left - m /\ tx_buf' = Stored(tx_buf, tx_in, s)
        /\ pc' = IF m = 0 THEN "w_kick" ELSE "w_publish"
        /\ seen' = IF left > 0 /\ m = 0 THEN tx_out ELSE 0
        /\ UNCHANGED <<nonblock, some, chunk, irq_enable, tx_in, sent>>
        /\ pc = "w_fill"
    BY <1>4 DEF WriteFill, At
  <2> HIDE DEF m
  <2>4. s \in Seq(Byte)
    <3>1. \A i \in 1 .. m : sent + i - 1 \in Byte
      BY <1>2, <2>2 DEF Byte, Slot
    <3>2. ASSUME NEW f \in [1 .. m -> Byte] PROVE f \in Seq(Byte)
      BY <2>2, <3>2 DEF Slot
    <3> QED
      BY <3>1, <3>2
  <2>5. tx_buf' \in [Slot -> Byte] /\ n' \in Slot /\ left' \in 0 .. MaxCount /\ seen' \in Slot
    <3>1. tx_buf' \in [Slot -> Byte]
      BY <1>2, <2>3, <2>4, RingTypes
    <3> HIDE DEF s
    <3>2. n' \in Slot /\ left' \in 0 .. MaxCount
      BY <1>2, <2>2, <2>3 DEF Slot
    <3>3. seen' \in Slot
      BY <1>2, <2>3 DEF Slot
    <3> QED
      BY <3>1, <3>2, <3>3
  <2>6. TypeOK'
    BY <1>1, <2>3, <2>5 DEF Inv, TypeOK, Places
  <2>7. NoLostWakeUp'
    BY <1>1, <2>3 DEF Inv, NoLostWakeUp, Writing, Used
  <2>8. sent + left <= system.written
    BY <2>3 DEF Inv, Calls
  <2>9. Calls'
    BY <1>1, <1>2, <1>3, <2>2, <2>3, <2>8 DEF Calls, Slot
  <2> QED
    BY <2>6, <2>7, <2>9 DEF Inv
<1>5. CASE WritePublish
  <2>1. /\ tx_in' = Wrap(tx_in + n) /\ sent' = sent + n /\ n' = 0
        /\ pc = "w_publish" /\ pc' = "w_fill"
        /\ UNCHANGED <<left, nonblock, some, seen, chunk, irq_enable, tx_buf>>
    BY <1>5 DEF WritePublish, At
  <2>2. sent + n + left <= system.written
    BY <2>1 DEF Inv, Calls
  <2>3. tx_in' \in Slot /\ sent' \in 0 .. system.written /\ n' \in Slot
    <3>1. tx_in' \in Slot
      BY <1>2, <2>1, RingFacts
    <3> QED
      BY <1>2, <2>1, <2>2, <3>1 DEF Slot
  <2>4. TypeOK'
    BY <1>1, <2>1, <2>3 DEF Inv, TypeOK, Places
  <2>5. NoLostWakeUp'
    BY <1>1, <2>1 DEF Inv, NoLostWakeUp, Writing, Used
  <2>6. Calls'
    BY <1>1, <1>2, <1>3, <2>1, <2>2 DEF Calls, Slot
  <2> QED
    BY <2>4, <2>5, <2>6 DEF Inv
<1>6. CASE WriteKick \/ WriteWait
  <2>1. UNCHANGED <<tx_buf, tx_in, sent>>
    BY <1>6 DEF WriteKick, WriteWait
  <2>2. /\ left' \in {0, left} /\ nonblock' \in {FALSE, nonblock} /\ some' \in {FALSE, some}
        /\ seen' \in {0, seen} /\ n' \in {0, n} /\ chunk' \in {<<>>, chunk}
        /\ pc' \in {"idle", "w_wait", "w_fill"}
        /\ pc' # "idle" => left' = left
    BY <1>6 DEF WriteKick, WriteWait, Done
  <2>3. /\ pc = "w_kick" => irq_enable' = irq_enable \union {"WE"}
        /\ pc # "w_kick" => irq_enable' = irq_enable
        /\ pc \in {"w_kick", "w_wait"}
    BY <1>6 DEF WriteKick, WriteWait, At
  <2>4. left' \in 0 .. MaxCount /\ seen' \in Slot /\ n' \in Slot
    BY <1>2, <2>2 DEF Slot
  <2>5. chunk' \in Seq(Byte) /\ nonblock' \in BOOLEAN /\ some' \in BOOLEAN
    BY <2>2, EmptySeq DEF Inv, TypeOK
  <2>6. irq_enable' \in SUBSET {"RE", "WE"} /\ pc' \in Places
    BY <2>2, <2>3 DEF Inv, TypeOK, Places
  <2>7. TypeOK'
    BY <1>1, <2>1, <2>4, <2>5, <2>6 DEF Inv, TypeOK
  <2>8. NoLostWakeUp'
    BY <1>1, <1>3, <2>1, <2>2, <2>3 DEF Inv, NoLostWakeUp, Writing, Used
  <2>9. sent + left <= system.written
    BY <2>3 DEF Inv, Calls
  <2>10. Calls'
    <3>1. ~some' /\ pc' \notin {"boot", "w_publish"}
      <4>1. some' = FALSE
        BY <1>3, <2>2 DEF Inv, TypeOK
      <4> QED
        BY <4>1, <2>2
    <3>2. pc' # "idle" => sent' + left' <= system'.written
      BY <1>1, <2>1, <2>2, <2>9
    <3> QED
      BY <3>1, <3>2 DEF Calls
  <2> QED
    BY <2>7, <2>8, <2>10 DEF Inv
<1> QED
  BY <1>4, <1>5, <1>6

LEMMA ReadInv ==
  Inv /\ (ReadLook \/ ReadFree \/ ReadEnable \/ ReadWait \/ CloseWait) => Inv'
<1> SUFFICES ASSUME Inv, ReadLook \/ ReadFree \/ ReadEnable \/ ReadWait \/ CloseWait
             PROVE  Inv'
  OBVIOUS
<1> USE DEF callVars, txVars, rxVars, hostVars, timeVars
<1>1. UNCHANGED <<irq, system, timeout, host_inactive, tx_buf, tx_in, tx_out, sent, rx_buf,
                  rx_in, tx, rx, ac, listening, typed, heard>>
  BY DEF ReadLook, ReadFree, ReadEnable, ReadWait, CloseWait
<1>2. /\ rx_in \in Slot /\ rx_out \in Slot /\ rx_buf \in [Slot -> Byte]
      /\ left \in 0 .. MaxCount /\ n \in Slot /\ seen \in Slot /\ chunk \in Seq(Byte)
      /\ BUF_LEN \in Nat /\ BUF_LEN >= 2 /\ MaxCount \in Nat
  BY JtagUartAssumption DEF Inv, TypeOK
<1>3. /\ pc \in {"r_look", "r_free", "r_enable", "r_wait", "c_wait"}
      /\ pc' \in {"r_look", "r_free", "r_enable", "r_wait", "idle"}
  BY DEF ReadLook, ReadFree, ReadEnable, ReadWait, CloseWait, At, Done
<1>4. /\ left' \in 0 .. MaxCount /\ seen' \in Slot /\ n' \in Slot /\ chunk' \in Seq(Byte)
  <2>1. CASE ReadLook
    <3> DEFINE m == Least(Ready(rx_in, rx_out), left)
               q == Buffered(rx_buf, rx_in, rx_out)
    <3>1. /\ q \in Seq(Byte) /\ Len(q) = Used(rx_in, rx_out) /\ Used(rx_in, rx_out) \in Slot
          /\ Ready(rx_in, rx_out) \in 0 .. Used(rx_in, rx_out)
      BY <1>2, RingFacts, RingTypes
    <3>2. m \in 0 .. Len(q) /\ m \in Slot /\ m <= left
      BY <1>2, <3>1 DEF Least, Slot
    <3>3. SubSeq(q, 1, m) \in Seq(Byte)
      BY <3>1, <3>2, ElementOfSeq, SubSeqProperties
    <3>4. \/ chunk' = SubSeq(q, 1, m) /\ n' = m /\ left' = left - m /\ seen' = seen
          \/ left' = left /\ n' = n /\ chunk' = chunk /\ seen' \in {seen, rx_in}
          \/ left' = 0 /\ n' = 0 /\ chunk' = <<>> /\ seen' = 0
      BY <2>1 DEF ReadLook, Done
    <3> QED
      BY <1>2, <3>2, <3>3, <3>4, EmptySeq DEF Slot
  <2>2. CASE ~ReadLook
    <3>1. /\ left' \in {left, 0} /\ n' \in {n, 0} /\ chunk' \in {chunk, <<>>}
          /\ seen' \in {seen, 0}
      BY <2>2 DEF ReadFree, ReadEnable, ReadWait, CloseWait, Done
    <3> QED
      BY <1>2, <3>1, EmptySeq DEF Slot
  <2> QED
    BY <2>1, <2>2
<1>5. /\ rx_out' \in Slot /\ given' \in Seq(Byte)
      /\ pc # "r_free" => UNCHANGED rx_out
  <2>1. CASE ReadFree
    <3>1. rx_out' = Wrap(rx_out + n) /\ given' = chunk /\ pc = "r_free"
      BY <2>1 DEF ReadFree, At
    <3> QED
      BY <1>2, <3>1, RingFacts
  <2>2. CASE ~ReadFree
    BY <2>2 DEF Inv, TypeOK, ReadLook, ReadEnable, ReadWait, CloseWait
  <2> QED
    BY <2>1, <2>2
<1>6. /\ nonblock' \in BOOLEAN /\ some' \in BOOLEAN
      /\ irq_enable' \in {irq_enable, irq_enable \union {"RE"}}
      /\ pc = "r_enable" => "RE" \in irq_enable'
      /\ pc = "r_free" => some'
      /\ some' => pc' \in {"r_look", "r_free", "r_enable"}
      /\ ~some' => ~some \/ pc = "r_enable"
  BY DEF Inv, Calls, TypeOK, ReadLook, ReadFree, ReadEnable, ReadWait, CloseWait, At, Done
<1>7. TypeOK'
  BY <1>1, <1>3, <1>4, <1>5, <1>6 DEF Inv, TypeOK, Places
<1>8. NoLostWakeUp'
  BY <1>1, <1>3, <1>5, <1>6 DEF Inv, NoLostWakeUp, Writing, Used
<1>9. Calls'
  BY <1>1, <1>3, <1>6 DEF Calls
<1> QED
  BY <1>7, <1>8, <1>9 DEF Inv

LEMMA StepInv == Inv /\ [Next]_vars => Inv'
<1> SUFFICES ASSUME Inv, [Next]_vars PROVE Inv'
  OBVIOUS
<1>1. CASE Next
  BY <1>1, InterruptInv, BootInv, OutsideInv, CallInv, WriteInv, ReadInv DEF Next, Program
<1>2. CASE UNCHANGED vars
  BY <1>2 DEF vars, Inv, TypeOK, NoLostWakeUp, Calls, Writing, Used
<1> QED
  BY <1>1, <1>2

\* The types hold for every size of ring and FIFO: no pointer leaves its ring,
\* no FIFO overflows, and the seconds without a terminal never overflow.
THEOREM TypeCorrect == Spec => []TypeOK
<1>1. Inv => TypeOK
  BY DEF Inv
<1> QED
  BY <1>1, InitInv, StepInv, PTL DEF Spec

\* The two writers of irq_enable never leave a request off that is needed.
THEOREM NoWakeUpIsLost == Spec => []NoLostWakeUp
<1>1. Inv => NoLostWakeUp
  BY DEF Inv
<1> QED
  BY <1>1, InitInv, StepInv, PTL DEF Spec

-----------------------------------------------------------------------------
(* The two pipes.                                                           *)

\* Taking n bytes off the front of s \o t, or moving them across.
LEMMA Cut ==
  ASSUME NEW s \in Seq(Byte), NEW t \in Seq(Byte), NEW k \in 0 .. Len(s)
  PROVE  /\ SubSeq(s, 1, k) \in Seq(Byte) /\ Len(SubSeq(s, 1, k)) = k
         /\ SubSeq(s, k + 1, Len(s)) \in Seq(Byte)
         /\ Len(SubSeq(s, k + 1, Len(s))) = Len(s) - k
         /\ SubSeq(s, 1, k) \o SubSeq(s, k + 1, Len(s)) = s
         /\ SubSeq(s \o t, 1, k) = SubSeq(s, 1, k)
         /\ SubSeq(s \o t, k + 1, Len(s \o t)) = SubSeq(s, k + 1, Len(s)) \o t
<1> DEFINE a == SubSeq(s, 1, k)
           b == SubSeq(s, k + 1, Len(s))
           c == SubSeq(s \o t, 1, k)
           d == SubSeq(s \o t, k + 1, Len(s \o t))
<1>1. Len(s) \in Nat /\ Len(t) \in Nat /\ k \in Int /\ k \in Nat
  BY LenProperties
<1>2. /\ s \o t \in Seq(Byte) /\ Len(s \o t) = Len(s) + Len(t)
      /\ \A i \in 1 .. Len(s) + Len(t) :
           (s \o t)[i] = IF i <= Len(s) THEN s[i] ELSE t[i - Len(s)]
  BY ConcatProperties
<1>3. \A i \in 1 .. k : s[i] \in Byte /\ (s \o t)[i] \in Byte
  BY <1>1, <1>2, ElementOfSeq
<1>4. \A i \in k + 1 .. Len(s) : s[i] \in Byte
  BY <1>1, ElementOfSeq
<1>5. \A i \in k + 1 .. Len(s \o t) : (s \o t)[i] \in Byte
  BY <1>1, <1>2, ElementOfSeq
<1>6. a \in Seq(Byte) /\ Len(a) = k /\ \A i \in 1 .. k : a[i] = s[i]
  <2>1. /\ a \in Seq(Byte) /\ Len(a) = IF 1 <= k THEN k - 1 + 1 ELSE 0
        /\ \A i \in 1 .. k - 1 + 1 : a[i] = s[1 + i - 1]
    BY <1>1, <1>3, SubSeqProperties
  <2> QED
    BY <1>1, <2>1
<1>7. c \in Seq(Byte) /\ Len(c) = k /\ \A i \in 1 .. k : c[i] = s[i]
  <2>1. /\ c \in Seq(Byte) /\ Len(c) = IF 1 <= k THEN k - 1 + 1 ELSE 0
        /\ \A i \in 1 .. k - 1 + 1 : c[i] = (s \o t)[1 + i - 1]
    BY <1>1, <1>3, SubSeqProperties
  <2> QED
    BY <1>1, <1>2, <2>1
<1>8. /\ b \in Seq(Byte) /\ Len(b) = Len(s) - k
      /\ \A i \in 1 .. Len(s) - k : b[i] = s[k + i]
  <2>1. /\ b \in Seq(Byte)
        /\ Len(b) = IF k + 1 <= Len(s) THEN Len(s) - (k + 1) + 1 ELSE 0
        /\ \A i \in 1 .. Len(s) - (k + 1) + 1 : b[i] = s[(k + 1) + i - 1]
    BY <1>1, <1>4, SubSeqProperties
  <2> QED
    BY <1>1, <2>1
<1>9. /\ d \in Seq(Byte) /\ Len(d) = Len(s) + Len(t) - k
      /\ \A i \in 1 .. Len(s) + Len(t) - k : d[i] = (s \o t)[k + i]
  <2>1. /\ d \in Seq(Byte)
        /\ Len(d) = IF k + 1 <= Len(s \o t) THEN Len(s \o t) - (k + 1) + 1 ELSE 0
        /\ \A i \in 1 .. Len(s \o t) - (k + 1) + 1 : d[i] = (s \o t)[(k + 1) + i - 1]
    BY <1>1, <1>2, <1>5, SubSeqProperties
  <2> QED
    BY <1>1, <1>2, <2>1
<1> HIDE DEF a, b, c, d
<1>10. a \o b = s
  <2>1. /\ a \o b \in Seq(Byte) /\ Len(a \o b) = Len(a) + Len(b)
        /\ \A i \in 1 .. Len(a) + Len(b) :
             (a \o b)[i] = IF i <= Len(a) THEN a[i] ELSE b[i - Len(a)]
    BY <1>6, <1>8, ConcatProperties
  <2>2. \A i \in 1 .. Len(s) : (a \o b)[i] = s[i]
    <3> TAKE i \in 1 .. Len(s)
    <3>1. CASE i <= k
      BY <1>1, <1>6, <1>8, <2>1, <3>1
    <3>2. CASE i > k
      <4>1. i - k \in 1 .. Len(s) - k /\ k + (i - k) = i
        BY <1>1, <3>2
      <4> QED
        BY <1>1, <1>6, <1>8, <2>1, <3>2, <4>1
    <3>3. i <= k \/ i > k
      BY <1>1
    <3> QED
      BY <3>1, <3>2, <3>3
  <2>3. Len(a \o b) = Len(s)
    BY <1>1, <1>6, <1>8, <2>1
  <2> QED
    BY <2>1, <2>2, <2>3, SeqEqual
<1>11. c = a
  BY <1>6, <1>7, SeqEqual
<1>12. d = b \o t
  <2>1. /\ b \o t \in Seq(Byte) /\ Len(b \o t) = Len(b) + Len(t)
        /\ \A i \in 1 .. Len(b) + Len(t) :
             (b \o t)[i] = IF i <= Len(b) THEN b[i] ELSE t[i - Len(b)]
    BY <1>8, ConcatProperties
  <2>2. \A i \in 1 .. Len(d) : d[i] = (b \o t)[i]
    <3> TAKE i \in 1 .. Len(d)
    <3>1. k + i \in 1 .. Len(s) + Len(t) /\ i \in 1 .. Len(b) + Len(t)
      BY <1>1, <1>8, <1>9
    <3>2. d[i] = IF k + i <= Len(s) THEN s[k + i] ELSE t[k + i - Len(s)]
      BY <1>1, <1>2, <1>9, <3>1
    <3>3. (b \o t)[i] = IF i <= Len(s) - k THEN b[i] ELSE t[i - (Len(s) - k)]
      BY <1>8, <2>1, <3>1
    <3>4. CASE i <= Len(s) - k
      BY <1>1, <1>8, <3>1, <3>2, <3>3, <3>4
    <3>5. CASE i > Len(s) - k
      <4>1. k + i - Len(s) = i - (Len(s) - k) /\ ~(k + i <= Len(s))
        BY <1>1, <3>1, <3>5
      <4> QED
        BY <1>1, <3>1, <3>2, <3>3, <3>5, <4>1
    <3> QED
      BY <1>1, <3>1, <3>4, <3>5
  <2>3. Len(d) = Len(b \o t)
    BY <1>1, <1>8, <1>9, <2>1
  <2> QED
    BY <1>9, <2>1, <2>2, <2>3, SeqEqual
<1> QED
  BY <1>6, <1>8, <1>10, <1>11, <1>12 DEF a, b, c, d

\* Where the bytes of a ring are: those in use, and those stored next.
LEMMA RingPlaces ==
  ASSUME NEW in \in Slot, NEW out \in Slot
  PROVE  /\ \A i \in 1 .. Used(in, out) :
              /\ Wrap(out + i - 1) \in Slot
              /\ Used(Wrap(out + i - 1), in) = BUF_LEN - Used(in, out) + i - 1
         /\ \A j \in Slot : Used(Wrap(in + j), in) = j
         /\ \A k \in Slot : k <= BUF_LEN - 1 - Used(in, out) =>
              \A i \in Used(in, out) + 1 .. Used(in, out) + k :
                Wrap(out + i - 1) = Wrap(in + (i - Used(in, out)) - 1)
         /\ \A k \in Slot : k <= Used(in, out) =>
              \A i \in 1 .. Used(in, out) - k :
                Wrap(Wrap(out + k) + i - 1) = Wrap(out + (k + i) - 1)
<1>1. BUF_LEN \in Nat /\ BUF_LEN >= 2 /\ in \in 0 .. BUF_LEN - 1 /\ out \in 0 .. BUF_LEN - 1
  BY JtagUartAssumption DEF Slot
<1>2. ASSUME NEW i \in 1 .. Used(in, out)
      PROVE  /\ Wrap(out + i - 1) \in Slot
             /\ Used(Wrap(out + i - 1), in) = BUF_LEN - Used(in, out) + i - 1
  BY <1>1 DEF Used, Wrap, Slot
<1>3. ASSUME NEW j \in Slot PROVE Used(Wrap(in + j), in) = j
  BY <1>1 DEF Used, Wrap, Slot
<1>4. ASSUME NEW k \in Slot, k <= BUF_LEN - 1 - Used(in, out),
             NEW i \in Used(in, out) + 1 .. Used(in, out) + k
      PROVE  Wrap(out + i - 1) = Wrap(in + (i - Used(in, out)) - 1)
  BY <1>1, <1>4 DEF Used, Wrap, Slot
<1>5. ASSUME NEW k \in Slot, k <= Used(in, out), NEW i \in 1 .. Used(in, out) - k
      PROVE  Wrap(Wrap(out + k) + i - 1) = Wrap(out + (k + i) - 1)
  BY <1>1, <1>5 DEF Used, Wrap, Slot
<1> QED
  BY <1>2, <1>3, <1>4, <1>5

\* A ring whose used bytes stay and whose next bytes are those of s grows by s.
LEMMA RingGrows ==
  ASSUME NEW in \in Slot, NEW out \in Slot, NEW buf \in [Slot -> Byte],
         NEW buf2 \in [Slot -> Byte], NEW s \in Seq(Byte),
         Len(s) <= BUF_LEN - 1 - Used(in, out),
         \A i \in 1 .. Used(in, out) : buf2[Wrap(out + i - 1)] = buf[Wrap(out + i - 1)],
         \A i \in 1 .. Len(s) : buf2[Wrap(in + i - 1)] = s[i]
  PROVE  Buffered(buf2, Wrap(in + Len(s)), out) = Buffered(buf, in, out) \o s
<1> DEFINE u == Used(in, out)
           in2 == Wrap(in + Len(s))
           q == Buffered(buf, in, out)
           q2 == Buffered(buf2, in2, out)
<1>1. BUF_LEN \in Nat /\ u \in Slot /\ u \in Nat /\ Len(s) \in Nat /\ Len(s) \in Slot
  <2>1. BUF_LEN \in Nat /\ u \in Slot /\ Len(s) \in Nat
    BY RingFacts, LenProperties
  <2> QED
    BY <2>1 DEF Slot
<1>2. in2 \in Slot /\ Used(in2, out) = u + Len(s)
  BY <1>1, RingFacts, RingMoves
<1>3. /\ q \in Seq(Byte) /\ Len(q) = u /\ q2 \in Seq(Byte) /\ Len(q2) = u + Len(s)
  BY <1>2, RingTypes
<1>4. /\ \A i \in 1 .. u : q[i] = buf[Wrap(out + i - 1)]
      /\ \A i \in 1 .. u + Len(s) : q2[i] = buf2[Wrap(out + i - 1)]
  BY <1>2 DEF Buffered
<1>5. \A i \in u + 1 .. u + Len(s) : Wrap(out + i - 1) = Wrap(in + (i - u) - 1)
  BY <1>1, RingPlaces
<1>6. /\ q \o s \in Seq(Byte) /\ Len(q \o s) = u + Len(s)
      /\ \A i \in 1 .. u + Len(s) : (q \o s)[i] = IF i <= u THEN q[i] ELSE s[i - u]
  BY <1>3, ConcatProperties
<1> HIDE DEF u, in2, q, q2
<1>7. \A i \in 1 .. u + Len(s) : q2[i] = (q \o s)[i]
  <2> TAKE i \in 1 .. u + Len(s)
  <2>1. CASE i <= u
    <3>1. i \in 1 .. u
      BY <1>1, <2>1
    <3> QED
      BY <1>4, <1>6, <2>1, <3>1 DEF u
  <2>2. CASE i > u
    <3>1. i - u \in 1 .. Len(s) /\ i \in u + 1 .. u + Len(s) /\ ~(i <= u)
      BY <1>1, <2>2
    <3>2. q2[i] = buf2[Wrap(in + (i - u) - 1)]
      BY <1>4, <1>5, <3>1
    <3>3. q2[i] = s[i - u]
      BY <3>1, <3>2
    <3> QED
      BY <1>6, <3>1, <3>3
  <2>3. i <= u \/ i > u
    BY <1>1
  <2> QED
    BY <2>1, <2>2, <2>3
<1>8. q2 = q \o s
  BY <1>3, <1>6, <1>7, SeqEqual
<1> QED
  BY <1>8 DEF q, q2, in2

\* Storing s at in leaves the bytes in use alone and puts s after them.
LEMMA RingStores ==
  ASSUME NEW in \in Slot, NEW out \in Slot, NEW buf \in [Slot -> Byte], NEW s \in Seq(Byte),
         Len(s) <= BUF_LEN - 1 - Used(in, out)
  PROVE  /\ Buffered(Stored(buf, in, s), in, out) = Buffered(buf, in, out)
         /\ Buffered(Stored(buf, in, s), Wrap(in + Len(s)), out) = Buffered(buf, in, out) \o s
         /\ \A i \in 1 .. Len(s) : Stored(buf, in, s)[Wrap(in + i - 1)] = s[i]
<1> DEFINE b == Stored(buf, in, s)
           u == Used(in, out)
<1>1. BUF_LEN \in Nat /\ u \in Slot /\ u \in Nat /\ Len(s) \in Nat /\ b \in [Slot -> Byte]
  <2>1. BUF_LEN \in Nat /\ u \in Slot /\ Len(s) \in Nat /\ b \in [Slot -> Byte]
    BY RingFacts, LenProperties, RingTypes
  <2> QED
    BY <2>1 DEF Slot
<1>2. \A p \in Slot : b[p] = IF Used(p, in) < Len(s) THEN s[Used(p, in) + 1] ELSE buf[p]
  BY DEF Stored
<1>3. ASSUME NEW i \in 1 .. u PROVE b[Wrap(out + i - 1)] = buf[Wrap(out + i - 1)]
  <2>1. Wrap(out + i - 1) \in Slot /\ Used(Wrap(out + i - 1), in) = BUF_LEN - u + i - 1
    BY RingPlaces
  <2>2. ~(BUF_LEN - u + i - 1 < Len(s))
    BY <1>1
  <2> QED
    BY <1>2, <2>1, <2>2
<1>4. ASSUME NEW i \in 1 .. Len(s) PROVE b[Wrap(in + i - 1)] = s[i]
  <2>1. i - 1 \in Slot /\ in + i - 1 = in + (i - 1) /\ i - 1 < Len(s) /\ (i - 1) + 1 = i
    BY <1>1 DEF Slot
  <2>2. Wrap(in + i - 1) \in Slot /\ Used(Wrap(in + i - 1), in) = i - 1
    BY <2>1, RingFacts, RingPlaces
  <2> QED
    BY <1>2, <2>1, <2>2
<1>5. Buffered(b, in, out) = Buffered(buf, in, out)
  BY <1>3 DEF Buffered
<1>6. Buffered(b, Wrap(in + Len(s)), out) = Buffered(buf, in, out) \o s
  BY <1>1, <1>3, <1>4, RingGrows
<1> QED
  BY <1>4, <1>5, <1>6

\* Taking k bytes out of a ring.
LEMMA RingShrinks ==
  ASSUME NEW in \in Slot, NEW out \in Slot, NEW buf \in [Slot -> Byte],
         NEW k \in Nat, k <= Used(in, out)
  PROVE  Buffered(buf, in, Wrap(out + k)) =
           SubSeq(Buffered(buf, in, out), k + 1, Used(in, out))
<1> DEFINE u == Used(in, out)
           q == Buffered(buf, in, out)
           q2 == Buffered(buf, in, Wrap(out + k))
           t == SubSeq(q, k + 1, u)
<1>1. BUF_LEN \in Nat /\ u \in Slot /\ u \in Nat /\ k \in Slot
  <2>1. BUF_LEN \in Nat /\ u \in Slot
    BY RingFacts
  <2> QED
    BY <2>1 DEF Slot
<1>2. Wrap(out + k) \in Slot /\ Used(in, Wrap(out + k)) = u - k
  BY <1>1, RingFacts, RingMoves
<1>3. q \in Seq(Byte) /\ Len(q) = u /\ q2 \in Seq(Byte) /\ Len(q2) = u - k
  BY <1>2, RingTypes
<1>4. /\ \A i \in 1 .. u : q[i] = buf[Wrap(out + i - 1)]
      /\ \A i \in 1 .. u - k : q2[i] = buf[Wrap(Wrap(out + k) + i - 1)]
  BY <1>2 DEF Buffered
<1>5. \A i \in 1 .. u - k : Wrap(Wrap(out + k) + i - 1) = Wrap(out + (k + i) - 1)
  BY <1>1, RingPlaces
<1> HIDE DEF u, q, q2
<1>6. t \in Seq(Byte) /\ Len(t) = u - k /\ \A i \in 1 .. u - k : t[i] = q[k + i]
  <2>1. \A i \in k + 1 .. u : q[i] \in Byte
    BY <1>1, <1>3, ElementOfSeq
  <2>2. /\ t \in Seq(Byte) /\ Len(t) = IF k + 1 <= u THEN u - (k + 1) + 1 ELSE 0
        /\ \A i \in 1 .. u - (k + 1) + 1 : t[i] = q[(k + 1) + i - 1]
    BY <1>1, <2>1, SubSeqProperties
  <2>3. k <= u
    BY DEF u
  <2> QED
    BY <1>1, <2>2, <2>3
<1> HIDE DEF t
<1>7. \A i \in 1 .. u - k : q2[i] = t[i]
  <2> TAKE i \in 1 .. u - k
  <2>1. k + i \in 1 .. u
    BY <1>1
  <2> QED
    BY <1>4, <1>5, <1>6, <2>1
<1>8. q2 = t
  BY <1>3, <1>6, <1>7, SeqEqual
<1> QED
  BY <1>8 DEF q, q2, t, u

\* What has been copied and not yet been published, or not yet been freed.
Copies ==
  /\ pc = "w_publish" =>
       /\ n \in 1 .. BUF_LEN - 1 - Used(tx_in, tx_out)
       /\ \A i \in 1 .. n : tx_buf[Wrap(tx_in + i - 1)] = sent + i - 1
  /\ pc = "r_free" =>
       /\ n \in 1 .. Used(rx_in, rx_out)
       /\ chunk = SubSeq(Buffered(rx_buf, rx_in, rx_out), 1, n)

toHost == tx \o Buffered(tx_buf, tx_in, tx_out)
fromHost == Buffered(rx_buf, rx_in, rx_out) \o rx

\* What the following lemmas need of the types.
LEMMA Typed ==
  ASSUME Inv
  PROVE  /\ tx_in \in Slot /\ tx_out \in Slot /\ tx_buf \in [Slot -> Byte]
         /\ rx_in \in Slot /\ rx_out \in Slot /\ rx_buf \in [Slot -> Byte]
         /\ tx \in Seq(Byte) /\ Len(tx) \in 0 .. FifoDepth
         /\ rx \in Seq(Byte) /\ Len(rx) \in 0 .. FifoDepth
         /\ n \in Nat /\ left \in Nat /\ sent \in Nat /\ typed \in Nat
         /\ BUF_LEN \in Nat /\ BUF_LEN >= 2 /\ FifoDepth \in Nat
         /\ Used(tx_in, tx_out) \in 0 .. BUF_LEN - 1
         /\ Used(rx_in, rx_out) \in 0 .. BUF_LEN - 1
         /\ Buffered(tx_buf, tx_in, tx_out) \in Seq(Byte)
         /\ Len(Buffered(tx_buf, tx_in, tx_out)) = Used(tx_in, tx_out)
         /\ Buffered(rx_buf, rx_in, rx_out) \in Seq(Byte)
         /\ Len(Buffered(rx_buf, rx_in, rx_out)) = Used(rx_in, rx_out)
<1>1. /\ tx_in \in Slot /\ tx_out \in Slot /\ tx_buf \in [Slot -> Byte]
      /\ rx_in \in Slot /\ rx_out \in Slot /\ rx_buf \in [Slot -> Byte]
      /\ tx \in Seq(Byte) /\ Len(tx) <= FifoDepth
      /\ rx \in Seq(Byte) /\ Len(rx) <= FifoDepth
      /\ n \in Slot /\ left \in 0 .. MaxCount
      /\ sent \in 0 .. system.written /\ typed \in 0 .. system.typed
  BY DEF Inv, TypeOK
<1>2. Len(tx) \in 0 .. FifoDepth /\ Len(rx) \in 0 .. FifoDepth
  BY <1>1, LenProperties, JtagUartAssumption
<1>3. n \in Nat /\ left \in Nat /\ sent \in Nat /\ typed \in Nat
  BY <1>1 DEF Slot
<1>4. /\ BUF_LEN \in Nat /\ BUF_LEN >= 2 /\ FifoDepth \in Nat
      /\ Used(tx_in, tx_out) \in Slot /\ Used(rx_in, rx_out) \in Slot
  BY <1>1, RingFacts, JtagUartAssumption
<1> QED
  BY <1>1, <1>2, <1>3, <1>4, RingTypes DEF Slot

\* The interrupt routine moves bytes within the pipes.
LEMMA InterruptMoves ==
  ASSUME Inv, Copies, Interrupt
  PROVE  toHost' = toHost /\ fromHost' = fromHost /\ Copies'
<1> DEFINE q == Buffered(tx_buf, tx_in, tx_out)
           p == Buffered(rx_buf, rx_in, rx_out)
<1>1. UNCHANGED <<pc, n, chunk, tx_buf, tx_in, sent, rx_out>>
  BY DEF Interrupt, callVars
<1>2. /\ toHost' = toHost
      /\ Used(tx_in, tx_out') <= Used(tx_in, tx_out) /\ Used(tx_in, tx_out') \in Nat
  <2>1. CASE WI
    <3> DEFINE k == Least(Space, Used(tx_in, tx_out))
    <3>1. k \in Nat /\ k <= Used(tx_in, tx_out) /\ k \in 0 .. Len(q)
      BY Typed DEF Least, Space
    <3>2. tx' = tx \o SubSeq(q, 1, k) /\ tx_out' = Wrap(tx_out + k)
      BY <2>1 DEF Interrupt, Transmit
    <3> HIDE DEF k
    <3>3. Buffered(tx_buf, tx_in, tx_out') = SubSeq(q, k + 1, Len(q))
      <4>1. /\ tx_in \in Slot /\ tx_out \in Slot /\ tx_buf \in [Slot -> Byte]
            /\ Len(q) = Used(tx_in, tx_out)
        BY Typed
      <4>2. Buffered(tx_buf, tx_in, Wrap(tx_out + k)) = SubSeq(q, k + 1, Used(tx_in, tx_out))
        BY <3>1, <4>1, RingShrinks
      <4> QED
        BY <3>2, <4>1, <4>2
    <3>4. /\ SubSeq(q, 1, k) \in Seq(Byte) /\ SubSeq(q, k + 1, Len(q)) \in Seq(Byte)
          /\ SubSeq(q, 1, k) \o SubSeq(q, k + 1, Len(q)) = q
      BY <3>1, Typed, EmptySeq, Cut
    <3>5. (tx \o SubSeq(q, 1, k)) \o SubSeq(q, k + 1, Len(q)) = tx \o q
      <4>1. tx \in Seq(Byte)
        BY Typed
      <4>2. \A t, v \in Seq(Byte) : (tx \o t) \o v = tx \o (t \o v)
        BY <4>1, ConcatAssociative
      <4> QED
        BY <3>4, <4>2
    <3>6. toHost' = toHost
      BY <1>1, <3>2, <3>3, <3>5 DEF toHost
    <3>7. Used(tx_in, tx_out') = Used(tx_in, tx_out) - k
      BY <3>1, <3>2, Typed, RingMoves
    <3> QED
      BY <3>1, <3>6, <3>7, Typed
  <2>2. CASE ~WI
    BY <1>1, <2>2, Typed DEF Interrupt, toHost
  <2> QED
    BY <2>1, <2>2
<1>3. /\ fromHost' = fromHost
      /\ \E s \in Seq(Byte) : Buffered(rx_buf', rx_in', rx_out) = p \o s
  <2>1. CASE RI
    <3> DEFINE k == Least(BUF_LEN - 1 - Used(rx_in, rx_out), Len(rx))
               s == SubSeq(rx, 1, k)
    <3>1. k \in 0 .. Len(rx) /\ k <= BUF_LEN - 1 - Used(rx_in, rx_out)
      BY Typed DEF Least
    <3>2. /\ rx_buf' = Stored(rx_buf, rx_in, s) /\ rx_in' = Wrap(rx_in + k)
          /\ rx' = SubSeq(rx, k + 1, Len(rx))
      BY <2>1 DEF Interrupt, Receive
    <3> HIDE DEF k
    <3>3. /\ s \in Seq(Byte) /\ Len(s) = k /\ rx' \in Seq(Byte) /\ s \o rx' = rx
      BY <3>1, <3>2, Typed, EmptySeq, Cut
    <3> HIDE DEF s
    <3>4. Buffered(rx_buf', rx_in', rx_out) = p \o s
      <4>1. rx_in \in Slot /\ rx_out \in Slot /\ rx_buf \in [Slot -> Byte]
        BY Typed
      <4>2. Len(s) <= BUF_LEN - 1 - Used(rx_in, rx_out)
        BY <3>1, <3>3
      <4>3. Buffered(Stored(rx_buf, rx_in, s), Wrap(rx_in + Len(s)), rx_out) = p \o s
        BY <3>3, <4>1, <4>2, RingStores
      <4> QED
        BY <3>2, <3>3, <4>3
    <3>5. (p \o s) \o rx' = p \o rx
      <4>1. p \in Seq(Byte)
        BY Typed
      <4>2. \A t, v \in Seq(Byte) : (p \o t) \o v = p \o (t \o v)
        BY <4>1, ConcatAssociative
      <4> QED
        BY <3>3, <4>2
    <3> QED
      BY <1>1, <3>3, <3>4, <3>5 DEF fromHost
  <2>2. CASE ~RI
    <3>1. p \o <<>> = p /\ <<>> \in Seq(Byte)
      BY Typed, ConcatEmptySeq, EmptySeq
    <3> QED
      BY <1>1, <2>2, <3>1 DEF Interrupt, fromHost
  <2> QED
    BY <2>1, <2>2
<1>4. ASSUME pc = "r_free"
      PROVE  /\ n \in 1 .. Used(rx_in', rx_out)
             /\ chunk = SubSeq(Buffered(rx_buf', rx_in', rx_out), 1, n)
  <2>1. PICK s \in Seq(Byte) : Buffered(rx_buf', rx_in', rx_out) = p \o s
    BY <1>3
  <2>2. n \in 1 .. Len(p) /\ chunk = SubSeq(p, 1, n) /\ p \in Seq(Byte)
    BY <1>4, Typed DEF Copies
  <2>3. SubSeq(p \o s, 1, n) = SubSeq(p, 1, n) /\ Len(p \o s) >= Len(p)
    <3>1. n \in 0 .. Len(p)
      BY <2>2
    <3>2. Len(p \o s) = Len(p) + Len(s) /\ Len(s) \in Nat /\ Len(p) \in Nat
      BY <2>2, ConcatProperties, LenProperties
    <3> QED
      BY <2>2, <3>1, <3>2, Cut
  <2>4. Len(p \o s) = Used(rx_in', rx_out)
    <3>1. Inv'
      BY InterruptInv
    <3>2. rx_in' \in Slot /\ rx_out \in Slot /\ rx_buf' \in [Slot -> Byte]
      BY <1>1, <3>1 DEF Inv, TypeOK
    <3> QED
      BY <2>1, <3>2, RingTypes
  <2>5. Len(p) \in Nat /\ Len(p \o s) \in Nat
    BY <2>2, <2>1, LenProperties, ConcatProperties
  <2> QED
    BY <2>1, <2>2, <2>3, <2>4, <2>5
<1>5. pc = "w_publish" => n \in 1 .. BUF_LEN - 1 - Used(tx_in, tx_out')
  BY <1>2, Typed DEF Copies
<1>6. Copies'
  BY <1>1, <1>4, <1>5 DEF Copies
<1> QED
  BY <1>2, <1>3, <1>6

\* The terminal takes the oldest byte, or puts one in.
LEMMA TerminalMoves ==
  ASSUME Inv, Copies, Host
  PROVE  /\ Copies'
         /\ \/ ToHost!Get(1)
            \/ toHost' = toHost /\ UNCHANGED <<sent, heard>>
         /\ \/ FromHost!Put(1)
            \/ fromHost' = fromHost /\ UNCHANGED <<typed, given>>
<1> USE DEF callVars, txVars, rxVars, hostVars, timeVars, UnchangedProgram
<1> DEFINE q == Buffered(tx_buf, tx_in, tx_out)
           p == Buffered(rx_buf, rx_in, rx_out)
<1>1. UNCHANGED <<pc, n, chunk, tx_buf, tx_in, tx_out, sent, rx_buf, rx_in, rx_out, given>>
  BY DEF Host, HostTakes, HostTypes, HostPolls, HostComesOrGoes
<1>2. Copies'
  BY <1>1 DEF Copies, Buffered, Used
<1>3. q' = q /\ p' = p /\ q \in Seq(Byte) /\ p \in Seq(Byte) /\ tx \in Seq(Byte)
      /\ rx \in Seq(Byte)
  BY <1>1, Typed DEF Buffered, Used
<1>4. CASE HostTakes
  <2>1. tx # <<>> /\ heard' = <<Head(tx)>> /\ tx' = Tail(tx) /\ rx' = rx /\ typed' = typed
    BY <1>4 DEF HostTakes
  <2>2. Len(tx) \in Nat /\ Len(tx) >= 1
    <3>1. Len(tx) \in Nat \ {0}
      BY <1>3, <2>1, EmptySeq
    <3> QED
      BY <3>1
  <2>3. SubSeq(tx, 1, 1) = <<Head(tx)>>
    <3>1. SubSeq(tx, 1, 1) \in Seq(Byte) /\ Len(SubSeq(tx, 1, 1)) = 1
      BY <1>3, <2>2, Cut
    <3>2. Head(tx) = tx[1] /\ tx[1] \in Byte /\ SubSeq(tx, 1, 1)[1] = tx[1]
      BY <1>3, <2>1, <2>2, ElementOfSeq
    <3>3. <<Head(tx)>> \in Seq(Byte) /\ Len(<<Head(tx)>>) = 1 /\ <<Head(tx)>>[1] = Head(tx)
      BY <3>2
    <3>4. \A i \in 1 .. 1 : SubSeq(tx, 1, 1)[i] = <<Head(tx)>>[i]
      BY <3>2, <3>3
    <3> QED
      BY <3>1, <3>3, <3>4, SeqEqual
  <2>4. Tail(tx) = SubSeq(tx, 2, Len(tx))
    BY <1>3, <2>1, TailIsSubSeq
  <2>5. /\ SubSeq(tx \o q, 1, 1) = SubSeq(tx, 1, 1)
        /\ SubSeq(tx \o q, 1 + 1, Len(tx \o q)) = SubSeq(tx, 1 + 1, Len(tx)) \o q
        /\ Len(tx \o q) = Len(tx) + Len(q) /\ Len(q) \in Nat
    BY <1>3, <2>2, Cut, ConcatProperties, LenProperties
  <2>6. ToHost!Get(1)
    BY <1>1, <1>3, <2>1, <2>2, <2>3, <2>4, <2>5 DEF ToHost!Get
  <2>7. fromHost' = fromHost /\ UNCHANGED <<typed, given>>
    BY <1>1, <1>3, <2>1 DEF fromHost
  <2> QED
    BY <1>2, <2>6, <2>7
<1>5. CASE HostTypes
  <2>1. rx' = Append(rx, typed) /\ typed' = typed + 1 /\ Len(rx) < FifoDepth
        /\ UNCHANGED <<tx, heard>>
    BY <1>5 DEF HostTypes
  <2>2. /\ Append(rx, typed) = rx \o <<typed>> /\ <<typed>> \in Seq(Byte)
        /\ typed \in Nat
    <3>1. typed \in Byte /\ typed \in Nat
      BY Typed DEF Byte
    <3> QED
      BY <1>3, <3>1, AppendIsConcat
  <2>3. p \o (rx \o <<typed>>) = (p \o rx) \o <<typed>>
    BY <1>3, <2>2, ConcatAssociative
  <2>4. [i \in 1 .. 1 |-> typed + i - 1] = <<typed>>
    BY <2>2
  <2>5. Len(p \o rx) + 1 <= BUF_LEN - 1 + FifoDepth
    <3>1. Len(p \o rx) = Len(p) + Len(rx)
      BY <1>3, ConcatProperties
    <3>2. Len(p) \in 0 .. BUF_LEN - 1 /\ Len(rx) \in Nat /\ FifoDepth \in Nat /\ BUF_LEN \in Nat
      BY Typed
    <3> QED
      BY <2>1, <3>1, <3>2
  <2>6. FromHost!Put(1)
    BY <1>1, <1>3, <2>1, <2>2, <2>3, <2>4, <2>5 DEF FromHost!Put
  <2>7. toHost' = toHost /\ UNCHANGED <<sent, heard>>
    BY <1>1, <1>3, <2>1 DEF toHost
  <2> QED
    BY <1>2, <2>6, <2>7
<1>6. CASE HostPolls \/ HostComesOrGoes
  <2>1. UNCHANGED <<tx, rx, heard, typed>>
    BY <1>6 DEF HostPolls, HostComesOrGoes
  <2> QED
    BY <1>1, <1>2, <1>3, <2>1 DEF toHost, fromHost
<1> QED
  BY <1>4, <1>5, <1>6 DEF Host

\* A write stores beyond what is in use, and then publishes what it stored.
LEMMA WriteMoves ==
  ASSUME Inv, Copies, WriteFill \/ WritePublish
  PROVE  /\ Copies'
         /\ fromHost' = fromHost /\ UNCHANGED <<typed, given, heard>>
         /\ \/ \E k \in 1 .. BUF_LEN - 1 + FifoDepth : ToHost!Put(k)
            \/ toHost' = toHost /\ UNCHANGED sent
<1> USE DEF callVars, txVars, rxVars, hostVars, timeVars
<1>1. UNCHANGED <<tx_out, rx_buf, rx_in, rx_out, tx, rx, typed, given, heard>>
      /\ pc' # "r_free"
  BY DEF WriteFill, WritePublish
<1>2. fromHost' = fromHost
  BY <1>1 DEF fromHost, Buffered, Used
<1>3. CASE WriteFill
  <2> DEFINE m == IF left = 0 THEN 0 ELSE Least(Room(tx_in, tx_out), left)
             s == [i \in 1 .. m |-> sent + i - 1]
  <2>1. /\ n' = m /\ tx_buf' = Stored(tx_buf, tx_in, s)
        /\ pc' = IF m = 0 THEN "w_kick" ELSE "w_publish"
        /\ UNCHANGED <<tx_in, sent>>
    BY <1>3 DEF WriteFill
  <2>2. m \in 0 .. BUF_LEN - 1 - Used(tx_in, tx_out)
    <3>1. Room(tx_in, tx_out) \in 0 .. BUF_LEN - 1 - Used(tx_in, tx_out)
      BY Typed, RingFacts
    <3> QED
      BY <3>1, Typed DEF Least
  <2> HIDE DEF m
  <2>3. s \in Seq(Byte) /\ Len(s) = m /\ \A i \in 1 .. m : s[i] = sent + i - 1
    <3>1. m \in Nat /\ sent \in Nat
      BY <2>2, Typed
    <3>2. \A i \in 1 .. m : sent + i - 1 \in Byte
      BY <3>1 DEF Byte
    <3>3. ASSUME NEW f \in [1 .. m -> Byte] PROVE f \in Seq(Byte) /\ Len(f) = m
      BY <3>1, <3>3
    <3> QED
      BY <3>2, <3>3
  <2> HIDE DEF s
  <2>4. tx_in \in Slot /\ tx_out \in Slot /\ tx_buf \in [Slot -> Byte]
        /\ Len(s) <= BUF_LEN - 1 - Used(tx_in, tx_out)
    BY <2>2, <2>3, Typed
  <2>5. /\ Buffered(tx_buf', tx_in, tx_out) = Buffered(tx_buf, tx_in, tx_out)
        /\ \A i \in 1 .. m : tx_buf'[Wrap(tx_in + i - 1)] = sent + i - 1
    BY <2>1, <2>3, <2>4, RingStores
  <2>6. toHost' = toHost
    BY <1>1, <2>1, <2>5 DEF toHost
  <2>7. pc' = "w_publish" => m \in 1 .. BUF_LEN - 1 - Used(tx_in, tx_out)
    BY <2>1, <2>2, Typed
  <2>8. Copies'
    BY <1>1, <2>1, <2>5, <2>7 DEF Copies
  <2> QED
    BY <1>1, <1>2, <2>1, <2>6, <2>8
<1>4. CASE WritePublish
  <2> DEFINE s == [i \in 1 .. n |-> sent + i - 1]
             q == Buffered(tx_buf, tx_in, tx_out)
  <2>1. /\ tx_in' = Wrap(tx_in + n) /\ sent' = sent + n /\ tx_buf' = tx_buf
        /\ pc = "w_publish" /\ pc' = "w_fill"
    BY <1>4 DEF WritePublish, At
  <2>2. /\ n \in 1 .. BUF_LEN - 1 - Used(tx_in, tx_out)
        /\ \A i \in 1 .. n : tx_buf[Wrap(tx_in + i - 1)] = sent + i - 1
    BY <2>1 DEF Copies
  <2>3. s \in Seq(Byte) /\ Len(s) = n /\ \A i \in 1 .. n : s[i] = sent + i - 1
    <3>1. n \in Nat /\ sent \in Nat
      BY Typed
    <3>2. \A i \in 1 .. n : sent + i - 1 \in Byte
      BY <3>1 DEF Byte
    <3>3. ASSUME NEW f \in [1 .. n -> Byte] PROVE f \in Seq(Byte) /\ Len(f) = n
      BY <3>1, <3>3
    <3> QED
      BY <3>2, <3>3
  <2>4. tx_in \in Slot /\ tx_out \in Slot /\ tx_buf \in [Slot -> Byte]
        /\ n <= BUF_LEN - 1 - Used(tx_in, tx_out)
    BY <2>2, Typed
  <2>5. \A i \in 1 .. n : tx_buf[Wrap(tx_in + i - 1)] = s[i]
    BY <2>2, <2>3
  <2> HIDE DEF s
  <2>6. Buffered(tx_buf, Wrap(tx_in + n), tx_out) = q \o s
    BY <2>3, <2>4, <2>5, RingGrows
  <2>7. q \in Seq(Byte) /\ tx \in Seq(Byte) /\ tx \o (q \o s) = (tx \o q) \o s
    <3>1. q \in Seq(Byte) /\ tx \in Seq(Byte)
      BY Typed
    <3>2. s \in Seq(Byte)
      BY <2>3
    <3> HIDE DEF q
    <3> QED
      BY <3>1, <3>2, ConcatAssociative
  <2>8. Len(tx \o q) + n <= BUF_LEN - 1 + FifoDepth /\ n \in 1 .. BUF_LEN - 1 + FifoDepth
    <3>1. Len(tx \o q) = Len(tx) + Len(q)
      BY <2>7, ConcatProperties
    <3>2. /\ Len(q) = Used(tx_in, tx_out) /\ Used(tx_in, tx_out) \in 0 .. BUF_LEN - 1
          /\ Len(tx) \in 0 .. FifoDepth /\ FifoDepth \in Nat /\ BUF_LEN \in Nat
      BY Typed
    <3> QED
      BY <2>2, <3>1, <3>2
  <2>9. tx' \o Buffered(tx_buf', tx_in', tx_out') = (tx \o q) \o s
    BY <1>1, <2>1, <2>6, <2>7
  <2>10. ToHost!Put(n)
    BY <1>1, <2>1, <2>8, <2>9 DEF ToHost!Put, s
  <2>11. Copies'
    BY <2>1 DEF Copies
  <2> QED
    BY <1>1, <1>2, <2>8, <2>10, <2>11
<1> QED
  BY <1>3, <1>4

\* A read copies what is in use, and then frees what it copied.
LEMMA ReadMoves ==
  ASSUME Inv, Copies, ReadLook \/ ReadFree
  PROVE  /\ Copies'
         /\ toHost' = toHost /\ UNCHANGED <<sent, heard, typed>>
         /\ \/ \E k \in 1 .. BUF_LEN - 1 + FifoDepth : FromHost!Get(k)
            \/ fromHost' = fromHost /\ UNCHANGED given
<1> USE DEF callVars, txVars, rxVars, hostVars, timeVars
<1> DEFINE p == Buffered(rx_buf, rx_in, rx_out)
<1>1. UNCHANGED <<tx_buf, tx_in, tx_out, rx_buf, rx_in, tx, rx, sent, heard, typed>>
      /\ pc' # "w_publish"
  BY DEF ReadLook, ReadFree, Done
<1>2. toHost' = toHost
  BY <1>1 DEF toHost, Buffered, Used
<1>3. CASE ReadLook
  <2>1. UNCHANGED <<rx_out, given>>
    BY <1>3 DEF ReadLook
  <2>2. pc' = "r_free" =>
          LET m == Least(Ready(rx_in, rx_out), left)
          IN  m > 0 /\ n' = m /\ chunk' = SubSeq(p, 1, m)
    BY <1>3 DEF ReadLook, Done
  <2>3. Ready(rx_in, rx_out) \in 0 .. Used(rx_in, rx_out) /\ left \in Nat
        /\ Used(rx_in, rx_out) \in Nat
    BY Typed, RingFacts
  <2>4. pc' = "r_free" => n' \in 1 .. Used(rx_in, rx_out) /\ chunk' = SubSeq(p, 1, n')
    BY <2>2, <2>3 DEF Least
  <2>5. Copies'
    BY <1>1, <2>1, <2>4 DEF Copies
  <2>6. fromHost' = fromHost
    BY <1>1, <2>1 DEF fromHost, Buffered, Used
  <2> QED
    BY <1>1, <1>2, <2>1, <2>5, <2>6
<1>4. CASE ReadFree
  <2>1. rx_out' = Wrap(rx_out + n) /\ given' = chunk /\ pc = "r_free" /\ pc' # "r_free"
    BY <1>4 DEF ReadFree, At
  <2>2. n \in 1 .. Used(rx_in, rx_out) /\ chunk = SubSeq(p, 1, n)
    BY <2>1 DEF Copies
  <2>3. /\ rx_in \in Slot /\ rx_out \in Slot /\ rx_buf \in [Slot -> Byte] /\ n \in Nat
        /\ p \in Seq(Byte) /\ rx \in Seq(Byte) /\ Len(p) = Used(rx_in, rx_out)
        /\ Used(rx_in, rx_out) \in 0 .. BUF_LEN - 1 /\ BUF_LEN \in Nat /\ FifoDepth \in Nat
    BY Typed
  <2>4. n <= Used(rx_in, rx_out) /\ n \in 0 .. Len(p)
        /\ n \in 1 .. BUF_LEN - 1 + FifoDepth
    BY <2>2, <2>3
  <2>5. Buffered(rx_buf, rx_in, Wrap(rx_out + n)) = SubSeq(p, n + 1, Len(p))
    BY <2>3, <2>4, RingShrinks
  <2>6. /\ SubSeq(p \o rx, 1, n) = SubSeq(p, 1, n)
        /\ SubSeq(p \o rx, n + 1, Len(p \o rx)) = SubSeq(p, n + 1, Len(p)) \o rx
    BY <2>3, <2>4, Cut
  <2>7. n <= Len(p \o rx)
    <3>1. Len(p \o rx) = Len(p) + Len(rx) /\ Len(rx) \in Nat /\ Len(p) \in Nat
      BY <2>3, ConcatProperties, LenProperties
    <3> QED
      BY <2>4, <3>1
  <2>8. FromHost!Get(n)
    BY <1>1, <2>1, <2>2, <2>5, <2>6, <2>7 DEF FromHost!Get
  <2>9. Copies'
    BY <1>1, <2>1 DEF Copies
  <2> QED
    BY <1>1, <1>2, <2>4, <2>8, <2>9
<1> QED
  BY <1>3, <1>4

PipeSteps == [ToHost!Next]_(ToHost!vars) /\ [FromHost!Next]_(FromHost!vars)

\* Every step is a step of each pipe, or none.
LEMMA StepMoves ==
  ASSUME Inv, Copies, [Next]_vars
  PROVE  Copies' /\ PipeSteps
<1> DEFINE Same == /\ toHost' = toHost /\ UNCHANGED <<sent, heard>>
                   /\ fromHost' = fromHost /\ UNCHANGED <<typed, given>>
<1> USE DEF callVars, txVars, rxVars, hostVars, timeVars
<1>1. Same => PipeSteps
  BY DEF PipeSteps, ToHost!vars, FromHost!vars, toHost, fromHost
<1>2. CASE Interrupt
  <2>1. Same /\ Copies'
    BY <1>2, InterruptMoves DEF Interrupt
  <2> QED
    BY <1>1, <2>1
<1>3. CASE Host
  <2>1. ToHost!Get(1) => ToHost!Next
    BY JtagUartAssumption DEF ToHost!Next
  <2>2. FromHost!Put(1) => FromHost!Next
    BY JtagUartAssumption DEF FromHost!Next
  <2>3. Copies' /\ [ToHost!Next]_(ToHost!vars)
    BY <1>3, <2>1, TerminalMoves DEF ToHost!vars, toHost
  <2>4. [FromHost!Next]_(FromHost!vars)
    BY <1>3, <2>2, TerminalMoves DEF FromHost!vars, fromHost
  <2> QED
    BY <2>3, <2>4 DEF PipeSteps
<1>4. CASE WriteFill \/ WritePublish
  <2>1. Copies' /\ [ToHost!Next]_(ToHost!vars)
    BY <1>4, WriteMoves DEF ToHost!Next, ToHost!vars, toHost
  <2>2. [FromHost!Next]_(FromHost!vars)
    BY <1>4, WriteMoves DEF FromHost!vars, fromHost
  <2> QED
    BY <2>1, <2>2 DEF PipeSteps
<1>5. CASE ReadLook \/ ReadFree
  <2>1. Copies' /\ [FromHost!Next]_(FromHost!vars)
    BY <1>5, ReadMoves DEF FromHost!Next, FromHost!vars, fromHost
  <2>2. [ToHost!Next]_(ToHost!vars)
    BY <1>5, ReadMoves DEF ToHost!vars, toHost
  <2> QED
    BY <2>1, <2>2 DEF PipeSteps
<1>6. CASE \/ EnableDevice \/ RegisterHandler \/ StartAlarm \/ WriteKick \/ WriteWait
           \/ ReadEnable \/ ReadWait \/ CloseWait \/ Call \/ SetTimeout
  <2>1. /\ UNCHANGED <<tx_buf, tx_in, tx_out, rx_buf, rx_in, rx_out, tx, rx, sent, typed,
                       heard, given>>
        /\ pc' \notin {"w_publish", "r_free"}
    BY <1>6 DEF EnableDevice, RegisterHandler, StartAlarm, WriteKick, WriteWait, ReadEnable,
       ReadWait, CloseWait, Call, SetTimeout, Done, At
  <2>2. Same /\ Copies'
    BY <2>1 DEF toHost, fromHost, Buffered, Used, Copies
  <2> QED
    BY <1>1, <2>2
<1>7. CASE Return \/ Tick \/ UNCHANGED vars
  <2>1. UNCHANGED <<pc, n, chunk, tx_buf, tx_in, tx_out, rx_buf, rx_in, rx_out, tx, rx, sent,
                    typed, heard, given>>
    BY <1>7 DEF Return, Tick, vars
  <2>2. Same /\ Copies'
    BY <2>1 DEF toHost, fromHost, Buffered, Used, Copies
  <2> QED
    BY <1>1, <2>2
<1> QED
  BY <1>2, <1>3, <1>4, <1>5, <1>6, <1>7 DEF Next, Program

LEMMA InitMoves == Init => Copies /\ ToHost!Init /\ FromHost!Init
<1> SUFFICES ASSUME Init PROVE Copies /\ ToHost!Init /\ FromHost!Init
  OBVIOUS
<1>1. Used(0, 0) = 0
  BY DEF Used
<1>2. Buffered(tx_buf, tx_in, tx_out) = <<>> /\ Buffered(rx_buf, rx_in, rx_out) = <<>>
  <2>1. \A buf : Buffered(buf, 0, 0) = <<>>
    BY <1>1 DEF Buffered
  <2> QED
    BY <2>1 DEF Init
<1>3. <<>> \o <<>> = <<>>
  BY EmptySeq, ConcatEmptySeq
<1> QED
  BY <1>2, <1>3 DEF Init, Copies, ToHost!Init, FromHost!Init

\* The console implements two pipes: what main prints comes out of the
\* terminal, and what is typed reaches who reads, whole and in order, for every
\* size of ring and FIFO, with the routine in any place between two accesses.
THEOREM ImplementsPipes == Spec => RefinesPipes
<1>1. Init => Inv /\ Copies /\ ToHost!Init /\ FromHost!Init
  BY InitInv, InitMoves
<1>2. Inv /\ Copies /\ [Next]_vars => Inv' /\ Copies'
  BY StepInv, StepMoves
<1>3. Inv /\ Copies /\ [Next]_vars
        => [ToHost!Next]_(ToHost!vars) /\ [FromHost!Next]_(FromHost!vars)
  BY StepMoves DEF PipeSteps
<1> QED
  BY <1>1, <1>2, <1>3, PTL DEF Spec, RefinesPipes, ToHost!Spec, FromHost!Spec

=============================================================================
