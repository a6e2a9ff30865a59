------------------------------ MODULE UsbChip -------------------------------
(***************************************************************************)
(* The CY7C67200 USB controller and the keyboard behind it, as far as the  *)
(* program in main.c and usb.c relies on them.  Neither is part of the     *)
(* repository: this is what the program's own accesses presuppose.         *)
(*                                                                         *)
(* The program writes a list of transactions at 0x0500 and then the        *)
(* current-TD pointer, which makes the chip start (again) at the head of   *)
(* the list.  The chip reports the fate of the first transaction in the    *)
(* byte at 0x0508 and the end of the list by the bit TDListDone of a       *)
(* message register, where it also reports changes on the connector.       *)
(* Lists are abstracted to which request they stand for.                   *)
(***************************************************************************)
EXTENDS Naturals

CONSTANT Keys    \* key codes that the keyboard reports; 0 is no key

Requests == 1 .. 9            \* in the order in which they are made
SetAddress == 1
GetConfigDesc2 == 5
Poll == 10                    \* the poll for a key
List == 0 .. Poll             \* 0: nothing written yet

\* The low byte of the word at 0x051e in the list of a request.  It is the
\* pointer to the next block: 0x0520, or 0 when there are no data to follow.
NoData == {1, 6, 7}
NextBlock == 32
\* Variant: the lists are laid out six bytes lower, where another pointer ends up.
WordAt051eLower(q) == IF q \in NoData THEN 0 ELSE 26
WordAt051e(q) == IF q \in NoData THEN 0 ELSE NextBlock

VARIABLES
  mail, mailFlag,     \* mailbox to the program, and its bit of HPI_STATUS
  job,                \* routine that COMM_EXEC_INT has asked for
  msg, flag,          \* SIE1 message register, and its bit of HPI_STATUS
  list, control,      \* the list at 0x0500, and the byte at 0x0508
  report,             \* low byte of the word at 0x051e
  chip,               \* where the chip is in the list
  present, address,   \* the keyboard: plugged in, and the address it answers to
  done,               \* history: requests one keyboard has carried out
  reported,           \* history: keys that were ever reported
  disturbed           \* history: something has gone wrong outside the program

mailVars     == <<mail, mailFlag, job>>
msgVars      == <<msg, flag>>
listVars     == <<list, control, report>>
keyboardVars == <<present, address>>
history      == <<done, reported, disturbed>>
chipVars     == <<mailVars, msgVars, listVars, chip, keyboardVars, history>>

Message == SUBSET {"TDListDone", "connect"}
Routine == {"none", "sie_init", "bus_reset"}
\* A keyboard is deaf until the bus is reset; then it answers to address 0,
\* the default, until it is given an address of its own.
Address == {"none", "default", "own"}
\* 0x13: not yet carried out; 0x03: carried out at once; else: after retries
Control == {"active", "clean", "retried"}

ChipTypeOK ==
  /\ mail \in {"other", "ack"} /\ mailFlag \in BOOLEAN /\ job \in Routine
  /\ msg \in Message /\ flag \in BOOLEAN
  /\ list \in List /\ control \in Control
  /\ report \in Keys \cup {0, NextBlock}
  /\ chip \in {"idle", "first", "rest"}
  /\ present \in BOOLEAN /\ address \in Address
  /\ done \subseteq Requests /\ reported \subseteq Keys
  /\ disturbed \in BOOLEAN

ChipInit ==
  /\ mail = "other" /\ mailFlag = FALSE /\ job = "none"
  /\ msg = {} /\ flag = FALSE
  /\ list = 0 /\ control = "retried" /\ report = 0 /\ chip = "idle"
  /\ present \in BOOLEAN /\ address = "none"
  /\ done = {} /\ reported = {} /\ disturbed = FALSE

-----------------------------------------------------------------------------

Reachable == address = IF list = SetAddress THEN "default" ELSE "own"

Tell(m) == msg' = msg \cup {m} /\ flag' = TRUE

\* A routine runs to its end before the lists go on; it is answered by mail.
RunRoutine ==
  /\ job # "none" /\ job' = "none"
  /\ mail' \in {"ack", "other"} /\ mailFlag' = TRUE
  /\ address' = IF job = "bus_reset" /\ present THEN "default" ELSE address
  /\ UNCHANGED <<msgVars, listVars, chip, present, history>>

\* A request whose first transaction the keyboard accepts.
SetUp ==
  /\ chip = "first" /\ job = "none" /\ Reachable /\ list \in Requests
  /\ chip' = "rest"
  /\ LET before == IF list = SetAddress THEN {} ELSE done
     IN \/ control' = "clean" /\ done' = before \cup {list} /\ UNCHANGED disturbed
        \/ control' = "retried" /\ done' = before /\ disturbed' = TRUE
  /\ UNCHANGED <<mailVars, msgVars, list, report, keyboardVars, reported>>

\* The rest of a request.
Complete ==
  /\ chip = "rest" /\ job = "none"
  /\ chip' = "idle" /\ Tell("TDListDone")
  /\ address' = IF list = SetAddress THEN "own" ELSE address
  /\ UNCHANGED <<mailVars, listVars, present, history>>

\* The poll has one transaction.  Without a new report the buffer stays.
AnswerPoll ==
  /\ chip = "first" /\ job = "none" /\ Reachable /\ list = Poll
  /\ chip' = "idle" /\ Tell("TDListDone")
  /\ control' \in {"clean", "retried"}
  /\ \/ UNCHANGED <<report, reported>>
     \/ \E k \in Keys : report' = k /\ reported' = reported \cup {k}
  /\ UNCHANGED <<mailVars, list, keyboardVars, done, disturbed>>

\* Nobody answers: the retries run out and the list is given up.
GiveUp ==
  /\ chip = "first" /\ job = "none" /\ ~Reachable
  /\ chip' = "idle" /\ control' = "retried" /\ Tell("TDListDone")
  /\ UNCHANGED <<mailVars, list, report, keyboardVars, history>>

\* The chip may or may not send a message about a change on the connector.
Notice == \/ Tell("connect") /\ disturbed' = TRUE
          \/ UNCHANGED <<msgVars, disturbed>>

PlugIn ==
  /\ ~present /\ present' = TRUE
  /\ Notice
  /\ UNCHANGED <<mailVars, listVars, chip, address, done, reported>>

\* A request under way fails with the keyboard.
PullOut ==
  /\ present /\ present' = FALSE /\ address' = "none" /\ disturbed' = TRUE
  /\ chip' = IF chip = "rest" THEN "idle" ELSE chip
  /\ \E notice \in SUBSET {"connect"} :
       LET news == notice \cup IF chip = "rest" THEN {"TDListDone"} ELSE {}
       IN msg' = msg \cup news /\ flag' = (flag \/ news # {})
  /\ UNCHANGED <<mailVars, listVars, done, reported>>

ChipNext ==
  \/ RunRoutine
  \/ SetUp
  \/ Complete
  \/ AnswerPoll
  \/ GiveUp
  \/ PlugIn
  \/ PullOut

=============================================================================
