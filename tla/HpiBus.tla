------------------------------- MODULE HpiBus --------------------------------
(***************************************************************************)
(* How the program reaches the registers of the USB controller: IO_init,   *)
(* IO_write and IO_read (io_handler.c) write four ports of the processor   *)
(* one after another, hpi_io_intf.sv passes them on to the chip's pins at  *)
(* every edge of Clk, and the chip takes a word when OTG_WR_N rises and    *)
(* drives the bus while OTG_RD_N is low.                                   *)
(*                                                                         *)
(* OTG_DATA is driven by the port w itself, but the chip sees w one edge   *)
(* later: when a write ends nobody drives the bus for one Clk, and it      *)
(* keeps its last value.                                                   *)
(***************************************************************************)
EXTENDS Naturals, Sequences

CONSTANTS
  Data,    \* words on the bus
  Gap      \* edges of Clk that pass between two accesses to ports, at least

ASSUME HpiAssumption == 0 \in Data /\ Gap \in Nat /\ Gap >= 2

VARIABLES
  pc,                                  \* the next access to a port
  access,                              \* the call of the program
  elapsed,                             \* edges of Clk since the last access
  address, data_out, r, w,             \* the ports of the processor
  OTG_ADDR, OTG_RD_N, OTG_WR_N,        \* registers of the interface
  from_sw_data_out_buffer, from_sw_data_in,
  kept,                                \* what the bus keeps when released
  out,                                 \* what the chip drives
  seen,        \* history: the accesses that the chip saw since the call began
  spoilt       \* history: reset pressed since then

programVars   == <<pc, access, elapsed>>
portVars      == <<address, data_out, r, w>>
interfaceVars == <<OTG_ADDR, OTG_RD_N, OTG_WR_N, from_sw_data_out_buffer,
                   from_sw_data_in>>
chipVars      == <<out, seen>>
vars == <<programVars, portVars, interfaceVars, kept, chipVars, spoilt>>

HpiRegister == 0 .. 3
Access == [op : {"read", "write"}, address : HpiRegister, data : Data]

OTG_DATA == IF w = 0 THEN from_sw_data_out_buffer
            ELSE IF OTG_RD_N = 0 THEN out ELSE kept

\* Every register is 0 when the board is switched on, and so are the ports.
Init ==
  /\ pc = "init_r" /\ elapsed = 0
  /\ access = [op |-> "write", address |-> 0, data |-> 0]
  /\ address = 0 /\ data_out = 0 /\ r = 0 /\ w = 0
  /\ OTG_ADDR = 0 /\ OTG_RD_N = 0 /\ OTG_WR_N = 0
  /\ from_sw_data_out_buffer = 0 /\ from_sw_data_in = 0
  /\ kept = 0 /\ out \in Data
  /\ seen = <<>> /\ spoilt = TRUE

-----------------------------------------------------------------------------
(* The program.                                                             *)

\* The order of the accesses in IO_init (the chip select is 0 already) ...
AfterInInit(p) == CASE p = "init_r" -> "init_w" [] p = "init_w" -> "init_address"
                    [] p = "init_address" -> "init_data" [] OTHER -> "idle"

\* ... in IO_write ...  (Variant: the datum follows the strobe.)
AfterInWriteDataLast(p) == CASE p = "w_low" -> "w_high" [] p = "w_high" -> "w_data"
                             [] OTHER -> "idle"
AfterInWrite(p) == CASE p = "w_low" -> "w_data" [] p = "w_data" -> "w_high"
                     [] OTHER -> "idle"

\* ... and in IO_read.  (Variant: the strobe is left low.)
AfterInReadStaysLow(p) == CASE p = "r_low" -> "r_data" [] OTHER -> "idle"
AfterInRead(p) == CASE p = "r_low" -> "r_data" [] p = "r_data" -> "r_high"
                    [] OTHER -> "idle"

After(p) == IF p \in {"w_low", "w_data", "w_high"} THEN AfterInWrite(p)
            ELSE IF p \in {"r_low", "r_data", "r_high"} THEN AfterInRead(p)
            ELSE AfterInInit(p)

\* The ports after the access p.
SetPorts(p) ==
  /\ address' = IF p = "init_address" THEN 0 ELSE address
  /\ data_out' = CASE p = "init_data" -> 0 [] p = "w_data" -> access.data
                   [] OTHER -> data_out
  /\ w' = CASE p = "w_low" -> 0 [] p \in {"w_high", "init_w"} -> 1 [] OTHER -> w
  /\ r' = CASE p = "r_low" -> 0 [] p \in {"r_high", "init_r"} -> 1 [] OTHER -> r

Due == elapsed = Gap /\ elapsed' = 0 /\ kept' = OTG_DATA

\* A call, with its first access: the register is selected.
Call ==
  /\ pc = "idle" /\ Due
  /\ \E a \in Access :
       /\ access' = a /\ address' = a.address
       /\ pc' = IF a.op = "write" THEN "w_low" ELSE "r_low"
  /\ seen' = <<>> /\ spoilt' = FALSE
  /\ UNCHANGED <<data_out, r, w, interfaceVars, out>>

\* The other accesses.  The answer of a read is kept as its datum.
Step ==
  /\ pc # "idle" /\ Due
  /\ SetPorts(pc) /\ pc' = After(pc)
  /\ access' = IF pc = "r_data" THEN [access EXCEPT !.data = from_sw_data_in]
               ELSE access
  /\ UNCHANGED <<interfaceVars, chipVars, spoilt>>

-----------------------------------------------------------------------------
(* The interface and the chip.                                              *)

Saw(op, d) == [op |-> op, address |-> OTG_ADDR, data |-> d]

\* What the chip sees at its pins when they follow the ports.
Strobes ==
  IF OTG_WR_N = 0 /\ w = 1 THEN Append(seen, Saw("write", OTG_DATA))
  ELSE IF OTG_RD_N = 0 /\ r = 1 THEN Append(seen, Saw("read", out))
  ELSE seen

Elapse == elapsed' = (IF elapsed < Gap THEN elapsed + 1 ELSE Gap)
          /\ kept' = OTG_DATA

ClkEdge ==
  /\ Elapse
  /\ from_sw_data_out_buffer' = data_out /\ from_sw_data_in' = OTG_DATA
  /\ OTG_ADDR' = address /\ OTG_RD_N' = r /\ OTG_WR_N' = w
  /\ seen' = Strobes
  /\ IF OTG_RD_N = 1 /\ r = 0 THEN out' \in Data ELSE UNCHANGED out
  /\ UNCHANGED <<pc, access, portVars, spoilt>>

\* Reset_h is up: the chip is reset as well; the processor knows nothing.
ClkEdgeInReset ==
  /\ Elapse /\ spoilt' = TRUE
  /\ from_sw_data_out_buffer' = 0 /\ from_sw_data_in' = 0
  /\ OTG_ADDR' = 0 /\ OTG_RD_N' = 1 /\ OTG_WR_N' = 1
  /\ UNCHANGED <<pc, access, portVars, chipVars>>

Next == Call \/ Step \/ ClkEdge \/ ClkEdgeInReset

Spec == Init /\ [][Next]_vars

-----------------------------------------------------------------------------

TypeOK ==
  /\ pc \in {"init_r", "init_w", "init_address", "init_data", "idle",
             "w_low", "w_data", "w_high", "r_low", "r_data", "r_high"}
  /\ access \in Access /\ elapsed \in 0 .. Gap
  /\ address \in HpiRegister /\ data_out \in Data /\ r \in {0, 1} /\ w \in {0, 1}
  /\ OTG_ADDR \in HpiRegister /\ OTG_RD_N \in {0, 1} /\ OTG_WR_N \in {0, 1}
  /\ from_sw_data_out_buffer \in Data /\ from_sw_data_in \in Data
  /\ kept \in Data /\ out \in Data /\ spoilt \in BOOLEAN
  /\ seen \in Seq(Access) /\ Len(seen) <= 2

(* When the next call can begin, the chip has seen the last one and nothing *)
(* else: the register that was asked for, the word that was sent or the     *)
(* word that was answered, once; unless the reset button came in between.   *)
(* A second strobe would move the chip's address or clear a message.        *)
EachAccessOnce ==
  pc = "idle" /\ elapsed = Gap /\ ~spoilt => seen = <<access>>

Booting == pc \in {"init_r", "init_w"}

(* Once IO_init has set the strobes, the FPGA and the chip never drive the  *)
(* bus at the same time, although one looks at the port w and the other at  *)
(* the register OTG_RD_N, and whenever the reset button is pressed.  Before *)
(* that both ports are 0, as they come up, and the bus is driven by both.   *)
NoContention == ~Booting => ~(w = 0 /\ OTG_RD_N = 0)

=============================================================================
