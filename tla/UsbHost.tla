------------------------------ MODULE UsbHost -------------------------------
(***************************************************************************)
(* The program of main.c and usb.c: it resets the USB controller, waits    *)
(* for a keyboard, makes the nine requests that set it up, and then polls  *)
(* it for ever, writing the key code to the port KEYCODE of the game.      *)
(*                                                                         *)
(* A step is one access to the chip (or a group of accesses between which  *)
(* the chip has nothing to do), so that an answer can come at any point.   *)
(***************************************************************************)
EXTENDS UsbChip

CONSTANTS
  InsertTries,   \* looks for a keyboard before it is declared missing (5)
  RemoveTries,   \* looks before it is declared removed (7)
  Prompt         \* TRUE: the chip ends a list while the program sleeps 10 ms

ASSUME UsbAssumption ==
  /\ Keys \subseteq Nat
  /\ InsertTries \in Nat \ {0} /\ RemoveTries \in Nat \ {0}
  /\ Prompt \in BOOLEAN

VARIABLES
  pc,        \* the next access
  r,         \* the request being made; Poll when the set-up is over
  slept,     \* the program sleeps before it looks for an answer
  message,   \* what UsbWaitTDListDone has read
  tries,     \* hot_plug_count
  port       \* the port KEYCODE

localVars   == <<r, slept, message, tries, port>>
programVars == <<pc, localVars>>
vars == <<chipVars, programVars>>

Init ==
  /\ ChipInit
  /\ pc = "reset" /\ r = SetAddress /\ slept = FALSE /\ message = {}
  /\ tries = 0 /\ port = 0

-----------------------------------------------------------------------------
(* Starting the controller.                                                 *)

\* UsbSoftReset and step 1a: afterwards no message and no mail is pending.
SoftReset ==
  /\ pc = "reset" /\ pc' = "init"
  /\ r' = SetAddress /\ done' = {}
  /\ chip' = "idle" /\ job' = "none"
  /\ mail' = "other" /\ mailFlag' = FALSE /\ msg' = {} /\ flag' = FALSE
  /\ UNCHANGED <<listVars, keyboardVars, reported, disturbed, slept, message,
                 tries, port>>

Execute(from, routine, to) ==
  /\ pc = from /\ pc' = to /\ job' = routine
  /\ UNCHANGED <<mail, mailFlag, msgVars, listVars, chip, keyboardVars,
                 history, localVars>>

\* What is read from the mailbox stays in it.
ReadMail(from, to) ==
  /\ pc = from /\ mailFlag' = FALSE
  /\ pc' = IF mail = "ack" THEN to ELSE "reset"
  /\ UNCHANGED <<mail, job, msgVars, listVars, chip, keyboardVars, history,
                 localVars>>

InitSie == Execute("init", "sie_init", "init_answer")
\* any bit of HPI_STATUS ends the wait
InitAnswer == (mailFlag \/ flag) /\ ReadMail("init_answer", "reset_bus")
ResetBus == Execute("reset_bus", "bus_reset", "reset_answer")
\* here the mailbox is read at once
ResetAnswer == ReadMail("reset_answer", "look")

-----------------------------------------------------------------------------
(* Looking for a keyboard, before the set-up and between two polls.         *)

\* While the bus is being reset its lines may look as if nobody were there.
Sees(b) == b = present \/ (job = "bus_reset" /\ ~b)

Goto(to) == pc' = to /\ UNCHANGED <<chipVars, r, slept, message, port>>

\* The request q is to be sent; after the second configuration request the
\* program sleeps before it looks for the answer.
Begin(q) ==
  /\ pc' = "send" /\ r' = q /\ slept' = (q = GetConfigDesc2)

Look(from, found, again) ==
  /\ pc = from
  /\ \/ Sees(TRUE)  /\ found /\ UNCHANGED <<chipVars, message, tries, port>>
     \/ Sees(FALSE) /\ Goto(again) /\ tries' = 0

LookAgain(from, found, limit, missing) ==
  /\ pc = from
  /\ \/ Sees(TRUE) /\ found /\ UNCHANGED <<chipVars, message, tries, port>>
     \/ Sees(FALSE) /\ tries + 1 < limit /\ Goto(from) /\ tries' = tries + 1
     \/ Sees(FALSE) /\ tries + 1 = limit /\ Goto(missing) /\ UNCHANGED tries

\* Variant: the test for a keyboard is inverted.
AwaitKeyboardInverted(from) ==
  /\ pc = from /\ Sees(FALSE) /\ Goto("reset") /\ UNCHANGED tries

\* The loops that ask for a keyboard end in USB_HOT_PLUG.
AwaitKeyboard(from) ==
  /\ pc = from /\ Sees(TRUE) /\ Goto("reset") /\ UNCHANGED tries

FirstLook == Look("look", Begin(SetAddress), "look_again")
RetryLook == LookAgain("look_again", Begin(SetAddress), InsertTries, "missing")
Missing == AwaitKeyboard("missing")

\* updateEnemies is called between the look and the test of its result.
PollLook == Look("poll_look", Begin(Poll), "poll_again")
PollAgain == LookAgain("poll_again", Begin(Poll), RemoveTries, "removed")
Removed == AwaitKeyboard("removed")

-----------------------------------------------------------------------------
(* Making a request.                                                        *)

\* The list is written (the poll does not reach the word at 0x051e) ...
Send ==
  /\ pc = "send" /\ pc' = "start"
  /\ list' = r /\ control' = "active"
  /\ report' = IF r = Poll THEN report ELSE WordAt051e(r)
  /\ UNCHANGED <<mailVars, msgVars, chip, keyboardVars, history, localVars>>

\* ... and started, whatever the chip is at.
Start ==
  /\ pc = "start" /\ pc' = "answer" /\ chip' = "first"
  /\ UNCHANGED <<mailVars, msgVars, listVars, keyboardVars, history, localVars>>

Awake == Prompt /\ slept /\ job = "none" => chip = "idle"

\* Without an answer the list is written and started again.
Answer ==
  /\ pc = "answer" /\ Awake
  /\ \/ flag  /\ pc' = "wait" /\ UNCHANGED slept
     \/ ~flag /\ pc' = "send" /\ slept' = TRUE
  /\ UNCHANGED <<chipVars, r, message, tries, port>>

\* UsbWaitTDListDone: the register is read, which clears the flag ...
WaitRead ==
  /\ pc = "wait" /\ pc' = "wait_clear"
  /\ message' = msg /\ flag' = FALSE
  /\ UNCHANGED <<mailVars, msg, listVars, chip, keyboardVars, history, r,
                 slept, tries, port>>

Accepted == message = {"TDListDone"}

\* ... then it is cleared; any other message is dropped.
WaitClear ==
  /\ pc = "wait_clear" /\ msg' = {}
  /\ pc' = IF ~Accepted THEN "wait" ELSE IF r = Poll THEN "key" ELSE "control"
  /\ UNCHANGED <<mailVars, flag, listVars, chip, keyboardVars, history,
                 localVars>>

\* The request after r.  The second configuration request is followed by a
\* descriptor written at 0x0576 and started there as if it were a list.
Advance ==
  /\ Begin(r + 1)
  /\ \/ UNCHANGED <<chip, disturbed>>
     \/ r = GetConfigDesc2 /\ chip' = "rest" /\ disturbed' = TRUE

\* Variant: a request that is still to be carried out counts as done.
ReadControlEarly ==
  /\ pc = "control"
  /\ \/ control # "retried" /\ Advance
     \/ control = "retried" /\ pc' = "retry" /\ UNCHANGED <<r, slept, chip,
                                                            disturbed>>
  /\ UNCHANGED <<mailVars, msgVars, listVars, keyboardVars, done, reported,
                 message, tries, port>>

\* Step 3 to step 9: the byte at 0x0508 must be 0x03.
ReadControl ==
  /\ pc = "control"
  /\ \/ control = "clean" /\ Advance
     \/ control # "clean" /\ pc' = "retry" /\ UNCHANGED <<r, slept, chip,
                                                          disturbed>>
  /\ UNCHANGED <<mailVars, msgVars, listVars, keyboardVars, done, reported,
                 message, tries, port>>

-----------------------------------------------------------------------------
(* UsbGetRetryCnt, called until the byte is 0x03.                           *)

RetryRead ==
  /\ pc = "retry" /\ flag' = FALSE
  /\ pc' = IF msg = {"TDListDone"} THEN "retry_clear" ELSE "retry_control"
  /\ UNCHANGED <<mailVars, msg, listVars, chip, keyboardVars, history,
                 localVars>>

RetryClear ==
  /\ pc = "retry_clear" /\ pc' = "retry_answer" /\ msg' = {}
  /\ UNCHANGED <<mailVars, flag, listVars, chip, keyboardVars, history,
                 localVars>>

RetryAnswer ==
  /\ pc = "retry_answer" /\ flag /\ pc' = "retry_control"
  /\ UNCHANGED <<chipVars, localVars>>

\* Variant: the first request is treated like the others.
RetryControlAlike ==
  /\ pc = "retry_control"
  /\ \/ control = "clean" /\ Advance
     \/ control # "clean" /\ pc' = "retry" /\ UNCHANGED <<r, slept, chip,
                                                          disturbed>>
  /\ UNCHANGED <<mailVars, msgVars, listVars, keyboardVars, done, reported,
                 message, tries, port>>

\* Only the first request goes back to USB_HOT_PLUG.
RetryControl ==
  /\ pc = "retry_control"
  /\ \/ /\ r = SetAddress /\ pc' = "reset" /\ UNCHANGED <<r, slept, chip,
                                                          disturbed>>
     \/ /\ r # SetAddress /\ control = "clean" /\ Advance
     \/ /\ r # SetAddress /\ control # "clean"
        /\ pc' = "retry" /\ UNCHANGED <<r, slept, chip, disturbed>>
  /\ UNCHANGED <<mailVars, msgVars, listVars, keyboardVars, done, reported,
                 message, tries, port>>

-----------------------------------------------------------------------------

\* The key code of the report goes to the game.
ReadKey ==
  /\ pc = "key" /\ pc' = "poll_look" /\ port' = report
  /\ UNCHANGED <<chipVars, r, slept, message, tries>>

Program ==
  \/ SoftReset \/ InitSie \/ InitAnswer \/ ResetBus \/ ResetAnswer
  \/ FirstLook \/ RetryLook \/ Missing
  \/ Send \/ Start \/ Answer \/ WaitRead \/ WaitClear \/ ReadControl
  \/ RetryRead \/ RetryClear \/ RetryAnswer \/ RetryControl
  \/ ReadKey \/ PollLook \/ PollAgain \/ Removed

Chip == ChipNext /\ UNCHANGED programVars

Next == Program \/ Chip

Spec == Init /\ [][Next]_vars

(***************************************************************************)
(* Fairness.  The program is sequential and always goes on.  The chip      *)
(* goes on with its list, and sometimes acknowledges each routine.  The    *)
(* program spends its time asleep in front of Answer, so that the steps of *)
(* the chip sometimes fall there, and not always just before the list is   *)
(* sent again.  And the lines of a bus that is being reset do not hide the *)
(* keyboard every time: step 2 does not wait for the end of the reset,     *)
(* which takes longer than all looks together.                             *)
(***************************************************************************)
Answers(A) == A /\ UNCHANGED programVars

FairSpec ==
  /\ Spec
  /\ WF_vars(Program)
  /\ SF_vars(Answers(RunRoutine) /\ job = "sie_init" /\ mail' = "ack")
  /\ SF_vars(Answers(RunRoutine) /\ job = "bus_reset" /\ mail' = "ack")
  /\ WF_vars(Answers(SetUp \/ Complete \/ AnswerPoll \/ GiveUp))
  /\ SF_vars(Answers(RunRoutine) /\ pc = "answer")
  /\ SF_vars(Answers(SetUp) /\ pc = "answer")
  /\ SF_vars(Answers(Complete) /\ pc = "answer")
  /\ SF_vars(FirstLook /\ pc' = "send")

-----------------------------------------------------------------------------

TypeOK ==
  /\ ChipTypeOK
  /\ pc \in {"reset", "init", "init_answer", "reset_bus", "reset_answer",
             "look", "look_again", "missing", "send", "start", "answer",
             "wait", "wait_clear", "control", "retry", "retry_clear",
             "retry_answer", "retry_control", "key", "poll_look", "poll_again",
             "removed"}
  /\ r \in Requests \cup {Poll} /\ slept \in BOOLEAN /\ message \in Message
  /\ tries \in 0 .. (InsertTries + RemoveTries)
  /\ port \in Keys \cup {0, NextBlock}

(* No request is skipped: one and the same keyboard has carried out all     *)
(* requests before the current one, each at the first try, since the chip   *)
(* was last reset; also when lists are sent twice, answers come late and    *)
(* keyboards are exchanged in between.                                      *)
SetUpInOrder == \A q \in Requests : q < r => q \in done

(* A key that the game reacts to was reported by a keyboard, although an    *)
(* answer left over from the set-up makes the program take a word of the    *)
(* last list for a key (Player.sv reacts to A, D, S, W and Space).          *)
Commands == {4, 7, 22, 26, 44}
NoPhantomKeys == port \in Commands => port \in reported

(* A keyboard that stays plugged in is found, set up and polled for ever,   *)
(* if nothing is disturbed: the assumption on which updateEnemies is run.   *)
KeysKeepComing == (<>[]present /\ []~disturbed) => []<>(pc = "key")

(* Whoever asks for a keyboard gets over it: when one is plugged in for     *)
(* good, the program starts the set-up of it.                               *)
HotPlug == (pc \in {"missing", "removed"} /\ []present) ~> (pc = "send")

(* "Call the appropriate function again if it wasn't processed              *)
(* successfully" (main.c, steps 4 to 9): a request that is not accepted is  *)
(* made again or dropped with all the others.                               *)
RetriedIsSentAgain == (pc = "retry") ~> (pc \in {"send", "reset"})

=============================================================================
