---------------------------- MODULE HpiBusProofs -----------------------------
(***************************************************************************)
(* Theorems of HpiBus for every set of words and every Gap of two edges or *)
(* more: its types, each call reaches the chip exactly once, and the FPGA  *)
(* and the chip never drive the bus at the same time.                      *)
(***************************************************************************)
EXTENDS HpiBus, TLAPS

Words ==
  /\ pc \in {"init_r", "init_w", "init_address", "init_data", "idle",
             "w_low", "w_data", "w_high", "r_low", "r_data", "r_high"}
  /\ access \in Access /\ elapsed \in 0 .. Gap
  /\ address \in HpiRegister /\ data_out \in Data
  /\ OTG_ADDR \in HpiRegister /\ OTG_RD_N \in {0, 1} /\ OTG_WR_N \in {0, 1}
  /\ from_sw_data_out_buffer \in Data /\ from_sw_data_in \in Data
  /\ kept \in Data /\ out \in Data /\ spoilt \in BOOLEAN

\* The ports r and w follow the place in the program ...
Ports ==
  /\ w = IF Booting \/ pc \in {"w_data", "w_high"} THEN 0 ELSE 1
  /\ r = IF pc \in {"init_r", "r_data", "r_high"} THEN 0 ELSE 1

\* ... and the pins are one edge behind when a strobe ends.
Pins ==
  /\ OTG_RD_N = 0 /\ r = 1 => elapsed = 0 /\ pc \in {"idle", "init_w"}
  /\ OTG_WR_N = 0 /\ w = 1 => elapsed = 0 /\ pc \in {"idle", "init_address"}

Writing == access.op = "write" /\ OTG_RD_N = 1
Reading == access.op = "read" /\ OTG_WR_N = 1
Selected == address = access.address /\ OTG_ADDR = address

\* How far the call has come at the chip.
Progress ==
  /\ pc \in {"w_low", "r_low"} =>
       /\ address = access.address /\ (elapsed >= 1 => OTG_ADDR = address)
       /\ OTG_RD_N = 1 /\ OTG_WR_N = 1 /\ seen = <<>>
       /\ access.op = IF pc = "w_low" THEN "write" ELSE "read"
  /\ pc = "w_data" =>
       Selected /\ Writing /\ seen = <<>> /\ (elapsed >= 1 => OTG_WR_N = 0)
  /\ pc = "w_high" =>
       /\ Selected /\ Writing /\ seen = <<>> /\ OTG_WR_N = 0
       /\ data_out = access.data
       /\ elapsed >= 1 => from_sw_data_out_buffer = access.data
  /\ pc = "r_data" =>
       /\ Selected /\ Reading /\ seen = <<>>
       /\ elapsed >= 1 => OTG_RD_N = 0
       /\ elapsed >= 2 => from_sw_data_in = out
  /\ pc = "r_high" =>
       Selected /\ Reading /\ seen = <<>> /\ OTG_RD_N = 0 /\ out = access.data
  /\ pc = "idle" /\ elapsed >= 1 =>
       OTG_RD_N = 1 /\ OTG_WR_N = 1 /\ seen = <<access>>
  /\ pc = "idle" /\ elapsed = 0 =>
       /\ Selected /\ seen = <<>>
       /\ \/ Writing /\ OTG_WR_N = 0 /\ kept = access.data
          \/ Reading /\ OTG_RD_N = 0 /\ out = access.data

Inv ==
  /\ Words /\ Ports /\ Pins
  /\ pc \in {"init_r", "init_w", "init_address", "init_data"} => spoilt
  /\ ~spoilt => Progress

LEMMA InitInv == Init => Inv
  BY HpiAssumption, SMT
     DEF Init, Inv, Words, Ports, Pins, Progress, Access, HpiRegister, Booting

\* What is on the bus is a word.
LEMMA BusIsAWord == Inv => OTG_DATA \in Data
  BY SMT DEF Inv, Words, OTG_DATA

LEMMA CallInv == Inv /\ Call => Inv'
<1> SUFFICES ASSUME Inv, Call PROVE Inv'
  OBVIOUS
<1>0. elapsed = Gap /\ elapsed' = 0 /\ kept' \in Data
  BY BusIsAWord DEF Call, Due
<1>1. PICK a \in Access :
        /\ access' = a /\ address' = a.address
        /\ pc' = IF a.op = "write" THEN "w_low" ELSE "r_low"
  BY DEF Call
<1>2. Words'
  <2>1. /\ UNCHANGED <<data_out, OTG_ADDR, OTG_RD_N, OTG_WR_N, out,
                      from_sw_data_out_buffer, from_sw_data_in>>
        /\ spoilt' \in BOOLEAN
    BY DEF Call, interfaceVars
  <2>2. a.address \in HpiRegister
    BY DEF Access
  <2> QED
    BY <1>0, <1>1, <2>1, <2>2, HpiAssumption, SMT DEF Inv, Words
<1>3. Ports' /\ Pins'
  BY <1>0, <1>1, HpiAssumption, SMT
     DEF Call, Inv, Words, Ports, Pins, Booting, Access, interfaceVars
<1>4. Progress'
  BY <1>0, <1>1, HpiAssumption, SMT
     DEF Call, Inv, Words, Ports, Pins, Booting, Progress, Access, interfaceVars
<1> QED
  BY <1>1, <1>2, <1>3, <1>4 DEF Inv

LEMMA StepInv == Inv /\ Step => Inv'
<1> SUFFICES ASSUME Inv, Step PROVE Inv'
  OBVIOUS
<1>0. elapsed = Gap /\ elapsed' = 0 /\ kept' = OTG_DATA /\ kept' \in Data
  BY BusIsAWord DEF Step, Due
<1>1. Words'
  BY <1>0, HpiAssumption, SMT
     DEF Step, Inv, Words, Access, HpiRegister, SetPorts, After, AfterInInit,
         AfterInWrite, AfterInRead, interfaceVars, chipVars
<1>2. Ports' /\ Pins'
  BY <1>0, HpiAssumption, SMT
     DEF Step, Inv, Words, Ports, Pins, Booting, SetPorts, After, AfterInInit,
         AfterInWrite, AfterInRead, interfaceVars, chipVars
<1>3. pc' \in {"init_r", "init_w", "init_address", "init_data"} => spoilt'
  BY SMT DEF Step, Inv, Words, After, AfterInInit, AfterInWrite, AfterInRead
<1>4. ASSUME ~spoilt' PROVE Progress'
  <2> USE <1>0, <1>4, HpiAssumption
      DEF Step, Inv, Words, Ports, Pins, Booting, Progress, Selected, Writing,
          Reading, SetPorts, After, AfterInInit, AfterInWrite, AfterInRead,
          interfaceVars, chipVars
  <2>1. CASE pc = "w_low"
    BY <2>1, SMT
  <2>2. CASE pc = "w_data"
    BY <2>2, SMT
  <2>3. CASE pc = "w_high"
    BY <2>3, SMT DEF OTG_DATA
  <2>4. CASE pc = "r_low"
    BY <2>4, SMT
  <2>5. CASE pc = "r_data"
    BY <2>5, SMT DEF Access
  <2>6. CASE pc = "r_high"
    BY <2>6, SMT
  <2> QED
    BY <2>1, <2>2, <2>3, <2>4, <2>5, <2>6
<1> QED
  BY <1>1, <1>2, <1>3, <1>4 DEF Inv

LEMMA ClkEdgeInv == Inv /\ ClkEdge => Inv'
<1> SUFFICES ASSUME Inv, ClkEdge PROVE Inv'
  OBVIOUS
<1>0. /\ elapsed' = (IF elapsed < Gap THEN elapsed + 1 ELSE Gap)
      /\ kept' = OTG_DATA /\ kept' \in Data
  BY BusIsAWord DEF ClkEdge, Elapse
<1>1. elapsed' \in 1 .. Gap
  BY <1>0, HpiAssumption, SMT DEF Inv, Words
<1>2. Words'
  BY <1>0, <1>1, SMT DEF ClkEdge, Inv, Words, Ports, HpiRegister, portVars
<1>3. Ports' /\ Pins'
  BY <1>0, <1>1, SMT DEF ClkEdge, Inv, Words, Ports, Pins, Booting, portVars
<1>4. ASSUME ~spoilt' PROVE Progress'
  <2>0. ~spoilt /\ Progress
    BY <1>4 DEF ClkEdge, Inv
  <2> USE <1>0, <1>1, <1>4, <2>0, HpiAssumption
      DEF ClkEdge, Inv, Words, Ports, Pins, Booting, Progress, Selected,
          Writing, Reading, Strobes, portVars
  <2>1. CASE pc = "w_low" \/ pc = "r_low"
    BY <2>1, SMT
  <2>2. CASE pc = "w_data"
    BY <2>2, SMT
  <2>3. CASE pc = "w_high"
    BY <2>3, SMT
  <2>4. CASE pc = "r_data"
    BY <2>4, SMT DEF OTG_DATA
  <2>5. CASE pc = "r_high"
    BY <2>5, SMT
  <2>6. CASE pc = "idle" /\ elapsed >= 1
    BY <2>6, SMT
  <2>7. CASE pc = "idle" /\ elapsed = 0
    <3>1. seen' = <<access>>
      <4>1. CASE Writing /\ OTG_WR_N = 0 /\ kept = access.data
        <5>1. OTG_DATA = access.data
          BY <2>7, <4>1, SMT DEF OTG_DATA
        <5>2. Saw("write", OTG_DATA) = access
          BY <2>7, <4>1, <5>1, SMT DEF Saw, Access
        <5> QED
          BY <2>7, <4>1, <5>2, SMT
      <4>2. CASE Reading /\ OTG_RD_N = 0 /\ out = access.data
        <5>1. Saw("read", out) = access
          BY <2>7, <4>2, SMT DEF Saw, Access
        <5> QED
          BY <2>7, <4>2, <5>1, SMT
      <4> QED
        BY <2>7, <4>1, <4>2
    <3> QED
      BY <2>7, <3>1, SMT
  <2> QED
    BY <2>1, <2>2, <2>3, <2>4, <2>5, <2>6, <2>7, SMT
<1> QED
  BY <1>2, <1>3, <1>4 DEF ClkEdge, Inv

LEMMA ResetInv == Inv /\ ClkEdgeInReset => Inv'
<1> SUFFICES ASSUME Inv, ClkEdgeInReset PROVE Inv'
  OBVIOUS
<1>1. kept' \in Data /\ elapsed' \in 1 .. Gap
  BY BusIsAWord, HpiAssumption, SMT DEF ClkEdgeInReset, Elapse, Inv, Words
<1>2. Words'
  BY <1>1, HpiAssumption, SMT
     DEF ClkEdgeInReset, Inv, Words, HpiRegister, portVars, chipVars
<1>3. Ports' /\ Pins'
  BY <1>1, SMT DEF ClkEdgeInReset, Inv, Ports, Pins, Booting, portVars, chipVars
<1> QED
  BY <1>2, <1>3 DEF ClkEdgeInReset, Inv

LEMMA Invariance == Spec => []Inv
<1>1. Inv /\ [Next]_vars => Inv'
  <2> SUFFICES ASSUME Inv, [Next]_vars PROVE Inv'
    OBVIOUS
  <2>1. CASE UNCHANGED vars
    BY <2>1, SMT DEF vars, programVars, portVars, interfaceVars, chipVars, Inv,
       Words, Ports, Pins, Booting, Progress, Selected, Writing, Reading
  <2> QED
    BY <2>1, CallInv, StepInv, ClkEdgeInv, ResetInv DEF Next
<1> QED
  BY InitInv, <1>1, PTL DEF Spec

(* Each call of IO_write and IO_read reaches the chip, with its register    *)
(* and its word, once.                                                      *)
THEOREM CallsArriveOnce == Spec => []EachAccessOnce
<1>1. Inv => EachAccessOnce
  BY HpiAssumption, SMT DEF Inv, Words, Progress, EachAccessOnce
<1> QED
  BY Invariance, <1>1, PTL

(* The FPGA and the chip never drive the bus at the same time.              *)
THEOREM BusIsNeverContended == Spec => []NoContention
<1>1. Inv => NoContention
  BY SMT DEF Inv, Words, Ports, Pins, Booting, NoContention
<1> QED
  BY Invariance, <1>1, PTL

-----------------------------------------------------------------------------
\* The strobes the chip has seen: the two that IO_init ends, and one of each
\* call, whatever the reset button does.
Strobed ==
  /\ seen \in Seq(Access) /\ Len(seen) <= 2
  /\ pc \notin {"init_w", "init_address", "init_data", "idle"} => seen = <<>>
  /\ pc = "init_w" => Len(seen) <= OTG_RD_N
  /\ pc = "init_address" => Len(seen) <= 1 + OTG_WR_N
  /\ pc = "idle" /\ (OTG_RD_N = 0 \/ OTG_WR_N = 0) => seen = <<>>

LEMMA EdgeStrobed == Inv /\ Strobed /\ ClkEdge => Strobed'
<1> SUFFICES ASSUME Inv, Strobed, ClkEdge PROVE Strobed'
  OBVIOUS
<1>1. /\ pc' = pc /\ OTG_RD_N' = r /\ OTG_WR_N' = w /\ seen' = Strobes
      /\ r \in {0, 1} /\ w \in {0, 1}
  BY DEF ClkEdge, Inv, Ports
<1>2. CASE OTG_WR_N = 0 /\ w = 1
  <2>1. Saw("write", OTG_DATA) \in Access
    BY BusIsAWord DEF Saw, Access, Inv, Words
  <2>2. PICK s \in Access : seen' = Append(seen, s)
    BY <1>1, <1>2, <2>1 DEF Strobes
  <2> QED
    BY <1>1, <1>2, <2>2, SMT DEF Strobed, Inv, Words, Ports, Pins, Booting
<1>3. CASE ~(OTG_WR_N = 0 /\ w = 1) /\ OTG_RD_N = 0 /\ r = 1
  <2>1. Saw("read", out) \in Access
    BY DEF Saw, Access, Inv, Words
  <2>2. PICK s \in Access : seen' = Append(seen, s)
    BY <1>1, <1>3, <2>1 DEF Strobes
  <2> QED
    BY <1>1, <1>3, <2>2, SMT DEF Strobed, Inv, Words, Ports, Pins, Booting
<1>4. CASE ~(OTG_WR_N = 0 /\ w = 1) /\ ~(OTG_RD_N = 0 /\ r = 1)
  BY <1>1, <1>4, SMT DEF Strobes, Strobed, Inv, Words, Ports, Pins, Booting
<1> QED
  BY <1>2, <1>3, <1>4

LEMMA StrobedInvariance == Spec => []Strobed
<1>1. Init => Strobed
  BY SMT DEF Init, Strobed
<1>2. Inv /\ Strobed /\ [Next]_vars => Strobed'
  <2> SUFFICES ASSUME Inv, Strobed, [Next]_vars PROVE Strobed'
    OBVIOUS
  <2>1. CASE Call
    <3>1. seen' = <<>> /\ pc' \in {"w_low", "r_low"}
      BY <2>1 DEF Call
    <3> QED
      BY <3>1, SMT DEF Strobed
  <2>2. CASE Step
    <3>1. UNCHANGED <<seen, OTG_RD_N, OTG_WR_N>> /\ pc' = After(pc)
      BY <2>2 DEF Step, interfaceVars, chipVars
    <3>2. OTG_RD_N \in {0, 1} /\ OTG_WR_N \in {0, 1} /\ elapsed = Gap /\ Gap >= 2
      BY <2>2, HpiAssumption DEF Step, Due, Inv, Words
    <3>3. ASSUME pc = "init_address" \/ pc = "init_data"
          PROVE  OTG_RD_N = 1 /\ OTG_WR_N = 1
      <4>1. w = 1 /\ r = 1
        BY <3>3, SMT DEF Inv, Ports, Booting
      <4>2. OTG_RD_N # 0 /\ OTG_WR_N # 0
        BY <3>2, <4>1, SMT DEF Inv, Pins
      <4> QED
        BY <3>2, <4>2
    <3>4. pc = "init_data" => pc' = "idle"
      BY <3>1, SMT DEF After, AfterInInit
    <3>5. pc # "idle"
      BY <2>2 DEF Step
    <3>6. seen \in Seq(Access) /\ Len(seen) \in Nat /\ Len(seen) <= 2
      BY SMT DEF Strobed
    <3>7. CASE seen = <<>>
      <4>1. Len(seen) = 0
        BY <3>7, SMT
      <4> QED
        BY <3>1, <3>2, <3>6, <3>7, <4>1, SMT DEF Strobed
    <3>8. CASE seen # <<>>
      <4>1. pc \in {"init_w", "init_address", "init_data"}
        BY <3>5, <3>8 DEF Strobed
      <4>2. pc = "init_w" => pc' = "init_address"
        BY <3>1, SMT DEF After, AfterInInit
      <4>3. pc = "init_address" => pc' = "init_data"
        BY <3>1, SMT DEF After, AfterInInit
      <4>4. pc = "init_w" => Len(seen) <= 1
        BY <3>2, <3>6, SMT DEF Strobed
      <4> QED
        BY <3>1, <3>2, <3>3, <3>4, <3>6, <4>1, <4>2, <4>3, <4>4, SMT DEF Strobed
    <3> QED
      BY <3>7, <3>8
  <2>3. CASE ClkEdgeInReset
    <3>1. UNCHANGED <<pc, seen>> /\ OTG_RD_N' = 1 /\ OTG_WR_N' = 1
      BY <2>3 DEF ClkEdgeInReset, chipVars
    <3>2. OTG_RD_N \in {0, 1}
      BY DEF Inv, Words
    <3> QED
      BY <3>1, <3>2, SMT DEF Strobed
  <2>4. CASE UNCHANGED vars
    BY <2>4 DEF vars, programVars, interfaceVars, chipVars, Strobed
  <2> QED
    BY <2>1, <2>2, <2>3, <2>4, EdgeStrobed DEF Next
<1> QED
  BY <1>1, <1>2, Invariance, PTL DEF Spec

(* The ports, the pins and the words are of their types, and the chip never *)
(* sees more than two strobes between two calls.                            *)
THEOREM TypeCorrect == Spec => []TypeOK
<1>1. Inv /\ Strobed => TypeOK
  BY SMT DEF Inv, Words, Ports, Strobed, TypeOK
<1> QED
  BY Invariance, StrobedInvariance, <1>1, PTL

=============================================================================
