--------------------------- MODULE UsbHostProofs ----------------------------
(***************************************************************************)
(* Proofs about UsbHost: the set-up of the keyboard is complete when it is *)
(* polled, and no word of a list is taken for a key the game reacts to.    *)
(***************************************************************************)
EXTENDS UsbHost, TLAPS

\* The controller has been reset, and no list has been started since.
Starting == {"init", "init_answer", "reset_bus", "reset_answer", "look",
             "look_again", "missing"}
\* The list of the request r is in memory.
Sent == {"start", "answer", "wait", "wait_clear", "control", "retry",
         "retry_clear", "retry_answer", "retry_control", "key"}
\* The end of a list has been accepted for a request of the set-up.
Checking == {"control", "retry", "retry_clear", "retry_answer", "retry_control"}
Polling == {"key", "poll_look", "poll_again", "removed"}

\* The keyboard no longer answers to the address of SetAddress.
Past == address # "default" /\ job = "none"

\* The end of a list is known to the program or waits for it.
DonePending ==
  \/ "TDListDone" \in msg
  \/ pc = "wait_clear" /\ "TDListDone" \in message
  \/ pc \in Checking

Places ==
  /\ r \in Requests \cup {Poll}
  /\ pc \in Starting => r = SetAddress /\ chip = "idle" /\ "TDListDone" \notin msg
  /\ pc \in Sent => list = r
  /\ pc \in Checking => r \in Requests
  /\ pc \in Polling => r = Poll

Addressing ==
  /\ r # SetAddress => Past
  /\ DonePending /\ pc # "reset" => Past
  /\ chip = "rest" => job = "none"
  /\ r = SetAddress /\ chip # "idle" => list = SetAddress

\* What the byte at 0x0508 says of the request r.
Verdict == pc \in Sent /\ r \in Requests /\ control = "clean" => r \in done

Words == report \in Commands => report \in reported

IInv == Places /\ Addressing /\ Verdict /\ SetUpInOrder /\ Words /\ NoPhantomKeys

-----------------------------------------------------------------------------

(* Where the program is says which list is in memory.                        *)
LEMMA PlacesStep ==
  ASSUME Places, [Next]_vars
  PROVE  Places'
<1> USE DEF chipVars, mailVars, msgVars, listVars,
  keyboardVars, history, localVars, Requests, Poll, SetAddress,
  GetConfigDesc2,
  Places, Starting, Sent, Checking, Polling
<1>1. CASE SoftReset
  BY <1>1 DEF SoftReset
<1>2. CASE InitSie
  BY <1>2 DEF InitSie, Execute
<1>3. CASE InitAnswer
  BY <1>3 DEF InitAnswer, ReadMail
<1>4. CASE ResetBus
  BY <1>4 DEF ResetBus, Execute
<1>5. CASE ResetAnswer
  BY <1>5 DEF ResetAnswer, ReadMail
<1>6. CASE FirstLook
  BY <1>6 DEF FirstLook, Look, Begin, Goto
<1>7. CASE RetryLook
  BY <1>7 DEF RetryLook, LookAgain, Begin, Goto
<1>8. CASE Missing
  BY <1>8 DEF Missing, AwaitKeyboard, Goto
<1>9. CASE Send
  BY <1>9 DEF Send
<1>10. CASE Start
  BY <1>10 DEF Start
<1>11. CASE Answer
  BY <1>11 DEF Answer
<1>12. CASE WaitRead
  BY <1>12 DEF WaitRead
<1>13. CASE WaitClear
  BY <1>13 DEF WaitClear, Accepted
<1>14. CASE ReadControl
  BY <1>14 DEF ReadControl, Advance, Begin
<1>15. CASE RetryRead
  BY <1>15 DEF RetryRead
<1>16. CASE RetryClear
  BY <1>16 DEF RetryClear
<1>17. CASE RetryAnswer
  BY <1>17 DEF RetryAnswer
<1>18. CASE RetryControl
  BY <1>18 DEF RetryControl, Advance, Begin
<1>19. CASE ReadKey
  BY <1>19 DEF ReadKey
<1>20. CASE PollLook
  BY <1>20 DEF PollLook, Look, Begin, Goto
<1>21. CASE PollAgain
  BY <1>21 DEF PollAgain, LookAgain, Begin, Goto
<1>22. CASE Removed
  BY <1>22 DEF Removed, AwaitKeyboard, Goto
<1>23. CASE RunRoutine /\ UNCHANGED programVars
  BY <1>23 DEF RunRoutine, programVars
<1>24. CASE SetUp /\ UNCHANGED programVars
  BY <1>24 DEF SetUp, Reachable, programVars
<1>25. CASE Complete /\ UNCHANGED programVars
  BY <1>25 DEF Complete, Tell, programVars
<1>26. CASE AnswerPoll /\ UNCHANGED programVars
  BY <1>26 DEF AnswerPoll, Reachable, Tell, programVars
<1>27. CASE GiveUp /\ UNCHANGED programVars
  BY <1>27 DEF GiveUp, Reachable, Tell, programVars
<1>28. CASE PlugIn /\ UNCHANGED programVars
  BY <1>28 DEF PlugIn, Notice, Tell, programVars
<1>29. CASE PullOut /\ UNCHANGED programVars
  BY <1>29 DEF PullOut, programVars
<1>30. CASE UNCHANGED vars
  BY <1>30 DEF vars, programVars
<1>31. QED
  BY <1>1, <1>2, <1>3, <1>4, <1>5, <1>6, <1>7, <1>8, <1>9, <1>10, <1>11,
     <1>12, <1>13, <1>14, <1>15, <1>16, <1>17, <1>18, <1>19, <1>20, <1>21, <1>22,
     <1>23, <1>24, <1>25, <1>26, <1>27, <1>28, <1>29, <1>30
  DEF Next, Program, Chip, ChipNext

(* Before the first request is over, no other list can end; afterwards the    *)
(* keyboard does not accept an address again.                                 *)
LEMMA AddressingStep ==
  ASSUME Places, Addressing, [Next]_vars
  PROVE  Addressing'
<1> USE DEF chipVars, mailVars, msgVars, listVars,
  keyboardVars, history, localVars, Requests, Poll, SetAddress,
  GetConfigDesc2,
  Places, Addressing, Starting, Sent, Checking, Polling, Past, DonePending
<1>1. CASE SoftReset
  BY <1>1 DEF SoftReset
<1>2. CASE InitSie
  BY <1>2 DEF InitSie, Execute
<1>3. CASE InitAnswer
  BY <1>3 DEF InitAnswer, ReadMail
<1>4. CASE ResetBus
  BY <1>4 DEF ResetBus, Execute
<1>5. CASE ResetAnswer
  BY <1>5 DEF ResetAnswer, ReadMail
<1>6. CASE FirstLook
  BY <1>6 DEF FirstLook, Look, Begin, Goto
<1>7. CASE RetryLook
  BY <1>7 DEF RetryLook, LookAgain, Begin, Goto
<1>8. CASE Missing
  BY <1>8 DEF Missing, AwaitKeyboard, Goto
<1>9. CASE Send
  BY <1>9 DEF Send
<1>10. CASE Start
  BY <1>10 DEF Start
<1>11. CASE Answer
  BY <1>11 DEF Answer
<1>12. CASE WaitRead
  BY <1>12 DEF WaitRead
<1>13. CASE WaitClear
  BY <1>13 DEF WaitClear, Accepted
<1>14. CASE ReadControl
  BY <1>14 DEF ReadControl, Advance, Begin
<1>15. CASE RetryRead
  BY <1>15 DEF RetryRead
<1>16. CASE RetryClear
  BY <1>16 DEF RetryClear
<1>17. CASE RetryAnswer
  BY <1>17 DEF RetryAnswer
<1>18. CASE RetryControl
  BY <1>18 DEF RetryControl, Advance, Begin
<1>19. CASE ReadKey
  BY <1>19 DEF ReadKey
<1>20. CASE PollLook
  BY <1>20 DEF PollLook, Look, Begin, Goto
<1>21. CASE PollAgain
  BY <1>21 DEF PollAgain, LookAgain, Begin, Goto
<1>22. CASE Removed
  BY <1>22 DEF Removed, AwaitKeyboard, Goto
<1>23. CASE RunRoutine /\ UNCHANGED programVars
  BY <1>23 DEF RunRoutine, programVars
<1>24. CASE SetUp /\ UNCHANGED programVars
  BY <1>24 DEF SetUp, Reachable, programVars
<1>25. CASE Complete /\ UNCHANGED programVars
  BY <1>25 DEF Complete, Tell, programVars
<1>26. CASE AnswerPoll /\ UNCHANGED programVars
  BY <1>26 DEF AnswerPoll, Reachable, Tell, programVars
<1>27. CASE GiveUp /\ UNCHANGED programVars
  BY <1>27 DEF GiveUp, Reachable, Tell, programVars
<1>28. CASE PlugIn /\ UNCHANGED programVars
  BY <1>28 DEF PlugIn, Notice, Tell, programVars
<1>29. CASE PullOut /\ UNCHANGED programVars
  BY <1>29 DEF PullOut, programVars
<1>30. CASE UNCHANGED vars
  BY <1>30 DEF vars, programVars
<1>31. QED
  BY <1>1, <1>2, <1>3, <1>4, <1>5, <1>6, <1>7, <1>8, <1>9, <1>10, <1>11,
     <1>12, <1>13, <1>14, <1>15, <1>16, <1>17, <1>18, <1>19, <1>20, <1>21, <1>22,
     <1>23, <1>24, <1>25, <1>26, <1>27, <1>28, <1>29, <1>30
  DEF Next, Program, Chip, ChipNext

(* The byte 0x03 speaks of the request that was made last.                   *)
LEMMA VerdictStep ==
  ASSUME Places, Verdict, [Next]_vars
  PROVE  Verdict'
<1> USE DEF chipVars, mailVars, msgVars, listVars,
  keyboardVars, history, localVars, Requests, Poll, SetAddress,
  GetConfigDesc2,
  Places, Verdict, Starting, Sent, Checking, Polling
<1>1. CASE SoftReset
  BY <1>1 DEF SoftReset
<1>2. CASE InitSie
  BY <1>2 DEF InitSie, Execute
<1>3. CASE InitAnswer
  BY <1>3 DEF InitAnswer, ReadMail
<1>4. CASE ResetBus
  BY <1>4 DEF ResetBus, Execute
<1>5. CASE ResetAnswer
  BY <1>5 DEF ResetAnswer, ReadMail
<1>6. CASE FirstLook
  BY <1>6 DEF FirstLook, Look, Begin, Goto
<1>7. CASE RetryLook
  BY <1>7 DEF RetryLook, LookAgain, Begin, Goto
<1>8. CASE Missing
  BY <1>8 DEF Missing, AwaitKeyboard, Goto
<1>9. CASE Send
  BY <1>9 DEF Send
<1>10. CASE Start
  BY <1>10 DEF Start
<1>11. CASE Answer
  BY <1>11 DEF Answer
<1>12. CASE WaitRead
  BY <1>12 DEF WaitRead
<1>13. CASE WaitClear
  BY <1>13 DEF WaitClear, Accepted
<1>14. CASE ReadControl
  BY <1>14 DEF ReadControl, Advance, Begin
<1>15. CASE RetryRead
  BY <1>15 DEF RetryRead
<1>16. CASE RetryClear
  BY <1>16 DEF RetryClear
<1>17. CASE RetryAnswer
  BY <1>17 DEF RetryAnswer
<1>18. CASE RetryControl
  BY <1>18 DEF RetryControl, Advance, Begin
<1>19. CASE ReadKey
  BY <1>19 DEF ReadKey
<1>20. CASE PollLook
  BY <1>20 DEF PollLook, Look, Begin, Goto
<1>21. CASE PollAgain
  BY <1>21 DEF PollAgain, LookAgain, Begin, Goto
<1>22. CASE Removed
  BY <1>22 DEF Removed, AwaitKeyboard, Goto
<1>23. CASE RunRoutine /\ UNCHANGED programVars
  BY <1>23 DEF RunRoutine, programVars
<1>24. CASE SetUp /\ UNCHANGED programVars
  BY <1>24 DEF SetUp, Reachable, programVars
<1>25. CASE Complete /\ UNCHANGED programVars
  BY <1>25 DEF Complete, Tell, programVars
<1>26. CASE AnswerPoll /\ UNCHANGED programVars
  BY <1>26 DEF AnswerPoll, Reachable, Tell, programVars
<1>27. CASE GiveUp /\ UNCHANGED programVars
  BY <1>27 DEF GiveUp, Reachable, Tell, programVars
<1>28. CASE PlugIn /\ UNCHANGED programVars
  BY <1>28 DEF PlugIn, Notice, Tell, programVars
<1>29. CASE PullOut /\ UNCHANGED programVars
  BY <1>29 DEF PullOut, programVars
<1>30. CASE UNCHANGED vars
  BY <1>30 DEF vars, programVars
<1>31. QED
  BY <1>1, <1>2, <1>3, <1>4, <1>5, <1>6, <1>7, <1>8, <1>9, <1>10, <1>11,
     <1>12, <1>13, <1>14, <1>15, <1>16, <1>17, <1>18, <1>19, <1>20, <1>21, <1>22,
     <1>23, <1>24, <1>25, <1>26, <1>27, <1>28, <1>29, <1>30
  DEF Next, Program, Chip, ChipNext

(* Requests are left behind only when they are done, and stay done.          *)
LEMMA OrderStep ==
  ASSUME Places, Addressing, Verdict, SetUpInOrder, [Next]_vars
  PROVE  SetUpInOrder'
<1> USE DEF chipVars, mailVars, msgVars, listVars,
  keyboardVars, history, localVars, Requests, Poll, SetAddress,
  GetConfigDesc2,
  Places, Addressing, Verdict, SetUpInOrder,
  Starting, Sent, Checking, Polling, Past, DonePending
<1>1. CASE SoftReset
  BY <1>1 DEF SoftReset
<1>2. CASE InitSie
  BY <1>2 DEF InitSie, Execute
<1>3. CASE InitAnswer
  BY <1>3 DEF InitAnswer, ReadMail
<1>4. CASE ResetBus
  BY <1>4 DEF ResetBus, Execute
<1>5. CASE ResetAnswer
  BY <1>5 DEF ResetAnswer, ReadMail
<1>6. CASE FirstLook
  BY <1>6 DEF FirstLook, Look, Begin, Goto
<1>7. CASE RetryLook
  BY <1>7 DEF RetryLook, LookAgain, Begin, Goto
<1>8. CASE Missing
  BY <1>8 DEF Missing, AwaitKeyboard, Goto
<1>9. CASE Send
  BY <1>9 DEF Send
<1>10. CASE Start
  BY <1>10 DEF Start
<1>11. CASE Answer
  BY <1>11 DEF Answer
<1>12. CASE WaitRead
  BY <1>12 DEF WaitRead
<1>13. CASE WaitClear
  BY <1>13 DEF WaitClear, Accepted
<1>14. CASE ReadControl
  BY <1>14 DEF ReadControl, Advance, Begin
<1>15. CASE RetryRead
  BY <1>15 DEF RetryRead
<1>16. CASE RetryClear
  BY <1>16 DEF RetryClear
<1>17. CASE RetryAnswer
  BY <1>17 DEF RetryAnswer
<1>18. CASE RetryControl
  BY <1>18 DEF RetryControl, Advance, Begin
<1>19. CASE ReadKey
  BY <1>19 DEF ReadKey
<1>20. CASE PollLook
  BY <1>20 DEF PollLook, Look, Begin, Goto
<1>21. CASE PollAgain
  BY <1>21 DEF PollAgain, LookAgain, Begin, Goto
<1>22. CASE Removed
  BY <1>22 DEF Removed, AwaitKeyboard, Goto
<1>23. CASE RunRoutine /\ UNCHANGED programVars
  BY <1>23 DEF RunRoutine, programVars
<1>24. CASE SetUp /\ UNCHANGED programVars
  BY <1>24 DEF SetUp, Reachable, programVars
<1>25. CASE Complete /\ UNCHANGED programVars
  BY <1>25 DEF Complete, Tell, programVars
<1>26. CASE AnswerPoll /\ UNCHANGED programVars
  BY <1>26 DEF AnswerPoll, Reachable, Tell, programVars
<1>27. CASE GiveUp /\ UNCHANGED programVars
  BY <1>27 DEF GiveUp, Reachable, Tell, programVars
<1>28. CASE PlugIn /\ UNCHANGED programVars
  BY <1>28 DEF PlugIn, Notice, Tell, programVars
<1>29. CASE PullOut /\ UNCHANGED programVars
  BY <1>29 DEF PullOut, programVars
<1>30. CASE UNCHANGED vars
  BY <1>30 DEF vars, programVars
<1>31. QED
  BY <1>1, <1>2, <1>3, <1>4, <1>5, <1>6, <1>7, <1>8, <1>9, <1>10, <1>11,
     <1>12, <1>13, <1>14, <1>15, <1>16, <1>17, <1>18, <1>19, <1>20, <1>21, <1>22,
     <1>23, <1>24, <1>25, <1>26, <1>27, <1>28, <1>29, <1>30
  DEF Next, Program, Chip, ChipNext

(* The pointers of the lists are no commands.                                *)
LEMMA WordsStep ==
  ASSUME Words, NoPhantomKeys, [Next]_vars
  PROVE  (Words /\ NoPhantomKeys)'
<1> USE DEF chipVars, mailVars, msgVars, listVars,
  keyboardVars, history, localVars, Requests, Poll, SetAddress,
  GetConfigDesc2,
  Words, NoPhantomKeys, Commands, WordAt051e, NextBlock
<1>1. CASE SoftReset
  BY <1>1 DEF SoftReset
<1>2. CASE InitSie
  BY <1>2 DEF InitSie, Execute
<1>3. CASE InitAnswer
  BY <1>3 DEF InitAnswer, ReadMail
<1>4. CASE ResetBus
  BY <1>4 DEF ResetBus, Execute
<1>5. CASE ResetAnswer
  BY <1>5 DEF ResetAnswer, ReadMail
<1>6. CASE FirstLook
  BY <1>6 DEF FirstLook, Look, Begin, Goto
<1>7. CASE RetryLook
  BY <1>7 DEF RetryLook, LookAgain, Begin, Goto
<1>8. CASE Missing
  BY <1>8 DEF Missing, AwaitKeyboard, Goto
<1>9. CASE Send
  BY <1>9 DEF Send
<1>10. CASE Start
  BY <1>10 DEF Start
<1>11. CASE Answer
  BY <1>11 DEF Answer
<1>12. CASE WaitRead
  BY <1>12 DEF WaitRead
<1>13. CASE WaitClear
  BY <1>13 DEF WaitClear, Accepted
<1>14. CASE ReadControl
  BY <1>14 DEF ReadControl, Advance, Begin
<1>15. CASE RetryRead
  BY <1>15 DEF RetryRead
<1>16. CASE RetryClear
  BY <1>16 DEF RetryClear
<1>17. CASE RetryAnswer
  BY <1>17 DEF RetryAnswer
<1>18. CASE RetryControl
  BY <1>18 DEF RetryControl, Advance, Begin
<1>19. CASE ReadKey
  BY <1>19 DEF ReadKey
<1>20. CASE PollLook
  BY <1>20 DEF PollLook, Look, Begin, Goto
<1>21. CASE PollAgain
  BY <1>21 DEF PollAgain, LookAgain, Begin, Goto
<1>22. CASE Removed
  BY <1>22 DEF Removed, AwaitKeyboard, Goto
<1>23. CASE RunRoutine /\ UNCHANGED programVars
  BY <1>23 DEF RunRoutine, programVars
<1>24. CASE SetUp /\ UNCHANGED programVars
  BY <1>24 DEF SetUp, Reachable, programVars
<1>25. CASE Complete /\ UNCHANGED programVars
  BY <1>25 DEF Complete, Tell, programVars
<1>26. CASE AnswerPoll /\ UNCHANGED programVars
  BY <1>26 DEF AnswerPoll, Reachable, Tell, programVars
<1>27. CASE GiveUp /\ UNCHANGED programVars
  BY <1>27 DEF GiveUp, Reachable, Tell, programVars
<1>28. CASE PlugIn /\ UNCHANGED programVars
  BY <1>28 DEF PlugIn, Notice, Tell, programVars
<1>29. CASE PullOut /\ UNCHANGED programVars
  BY <1>29 DEF PullOut, programVars
<1>30. CASE UNCHANGED vars
  BY <1>30 DEF vars, programVars
<1>31. QED
  BY <1>1, <1>2, <1>3, <1>4, <1>5, <1>6, <1>7, <1>8, <1>9, <1>10, <1>11,
     <1>12, <1>13, <1>14, <1>15, <1>16, <1>17, <1>18, <1>19, <1>20, <1>21, <1>22,
     <1>23, <1>24, <1>25, <1>26, <1>27, <1>28, <1>29, <1>30
  DEF Next, Program, Chip, ChipNext

-----------------------------------------------------------------------------

THEOREM Invariance == Spec => []IInv
<1>1. Init => IInv
  BY DEF Init, ChipInit, IInv, Places, Addressing, Verdict, SetUpInOrder, Words,
         NoPhantomKeys, Starting, Sent, Checking, Polling, Past, DonePending,
         Commands, Requests, Poll, SetAddress
<1>2. IInv /\ [Next]_vars => IInv'
  BY PlacesStep, AddressingStep, VerdictStep, OrderStep, WordsStep DEF IInv
<1>3. QED
  BY <1>1, <1>2, PTL DEF Spec

(* Whatever the chip answers, however late, and whenever keyboards are       *)
(* exchanged: a request is made only when all before it are done (main.c,    *)
(* steps 3 to 9).                                                            *)
THEOREM KeyboardIsSetUp == Spec => []SetUpInOrder
<1>1. IInv => SetUpInOrder
  BY DEF IInv
<1>2. QED
  BY <1>1, Invariance, PTL

(* No word of a list is taken for a key that the game reacts to.             *)
THEOREM KeysAreReal == Spec => []NoPhantomKeys
<1>1. IInv => NoPhantomKeys
  BY DEF IInv
<1>2. QED
  BY <1>1, Invariance, PTL

(* Every register of the chip keeps its type.  The lists are numbers; the    *)
(* rest needs no arithmetic.                                                 *)
LEMMA ChipTypesStep ==
  ASSUME Places, ChipTypeOK, [Next]_vars
  PROVE  ChipTypeOK'
<1>0. r \in List /\ NextBlock \in Keys \cup {0, NextBlock}
      /\ 0 \in Keys \cup {0, NextBlock}
  BY DEF Places, List, Requests, Poll
<1> USE DEF chipVars, mailVars, msgVars, listVars, keyboardVars, history,
  localVars, ChipTypeOK, Message, Control, Routine, Address
<1>1. CASE SoftReset
  BY <1>1 DEF SoftReset
<1>2. CASE InitSie
  BY <1>2 DEF InitSie, Execute
<1>3. CASE InitAnswer
  BY <1>3 DEF InitAnswer, ReadMail
<1>4. CASE ResetBus
  BY <1>4 DEF ResetBus, Execute
<1>5. CASE ResetAnswer
  BY <1>5 DEF ResetAnswer, ReadMail
<1>6. CASE FirstLook
  <2>1. UNCHANGED chipVars
    BY <1>6 DEF FirstLook, Look, Goto
  <2>2. QED
    BY <2>1
<1>7. CASE RetryLook
  <2>1. UNCHANGED chipVars
    BY <1>7 DEF RetryLook, LookAgain, Goto
  <2>2. QED
    BY <2>1
<1>8. CASE Missing
  BY <1>8 DEF Missing, AwaitKeyboard, Goto
<1>9. CASE Send
  BY <1>0, <1>9 DEF Send, WordAt051e
<1>10. CASE Start
  BY <1>10 DEF Start
<1>11. CASE Answer
  BY <1>11 DEF Answer
<1>12. CASE WaitRead
  BY <1>12 DEF WaitRead
<1>13. CASE WaitClear
  BY <1>13 DEF WaitClear, Accepted
<1>14. CASE ReadControl
  <2>1. /\ chip' = chip \/ chip' = "rest"
        /\ disturbed' = disturbed \/ disturbed' = TRUE
    BY <1>14 DEF ReadControl, Advance
  <2>2. UNCHANGED <<mailVars, msgVars, listVars, keyboardVars, done, reported>>
    BY <1>14 DEF ReadControl
  <2>3. chip' \in {"idle", "first", "rest"}
    BY <2>1
  <2>4. disturbed' \in BOOLEAN
    BY <2>1
  <2>5. QED
    BY <2>2, <2>3, <2>4
<1>15. CASE RetryRead
  BY <1>15 DEF RetryRead
<1>16. CASE RetryClear
  BY <1>16 DEF RetryClear
<1>17. CASE RetryAnswer
  BY <1>17 DEF RetryAnswer
<1>18. CASE RetryControl
  <2>1. /\ chip' = chip \/ chip' = "rest"
        /\ disturbed' = disturbed \/ disturbed' = TRUE
    BY <1>18 DEF RetryControl, Advance
  <2>2. UNCHANGED <<mailVars, msgVars, listVars, keyboardVars, done, reported>>
    BY <1>18 DEF RetryControl
  <2>3. chip' \in {"idle", "first", "rest"}
    BY <2>1
  <2>4. disturbed' \in BOOLEAN
    BY <2>1
  <2>5. QED
    BY <2>2, <2>3, <2>4
<1>19. CASE ReadKey
  BY <1>19 DEF ReadKey
<1>20. CASE PollLook
  <2>1. UNCHANGED chipVars
    BY <1>20 DEF PollLook, Look, Goto
  <2>2. QED
    BY <2>1
<1>21. CASE PollAgain
  <2>1. UNCHANGED chipVars
    BY <1>21 DEF PollAgain, LookAgain, Goto
  <2>2. QED
    BY <2>1
<1>22. CASE Removed
  BY <1>22 DEF Removed, AwaitKeyboard, Goto
<1>23. CASE RunRoutine /\ UNCHANGED programVars
  BY <1>23 DEF RunRoutine, programVars
<1>24. CASE SetUp /\ UNCHANGED programVars
  BY <1>24 DEF SetUp, Reachable, programVars
<1>25. CASE Complete /\ UNCHANGED programVars
  BY <1>25 DEF Complete, Tell, programVars
<1>26. CASE AnswerPoll /\ UNCHANGED programVars
  BY <1>26 DEF AnswerPoll, Reachable, Tell, programVars
<1>27. CASE GiveUp /\ UNCHANGED programVars
  BY <1>27 DEF GiveUp, Reachable, Tell, programVars
<1>28. CASE PlugIn /\ UNCHANGED programVars
  BY <1>28 DEF PlugIn, Notice, Tell, programVars
<1>29. CASE PullOut /\ UNCHANGED programVars
  BY <1>29 DEF PullOut, programVars
<1>30. CASE UNCHANGED vars
  BY <1>30 DEF vars, programVars
<1>31. QED
  BY <1>1, <1>2, <1>3, <1>4, <1>5, <1>6, <1>7, <1>8, <1>9, <1>10, <1>11,
     <1>12, <1>13, <1>14, <1>15, <1>16, <1>17, <1>18, <1>19, <1>20, <1>21, <1>22,
     <1>23, <1>24, <1>25, <1>26, <1>27, <1>28, <1>29, <1>30
  DEF Next, Program, Chip, ChipNext

(* So does every variable of the program.                                    *)
Labels == {"reset", "init", "init_answer", "reset_bus", "reset_answer", "look",
           "look_again", "missing", "send", "start", "answer", "wait",
           "wait_clear", "control", "retry", "retry_clear", "retry_answer",
           "retry_control", "key", "poll_look", "poll_again", "removed"}

ProgramTypeOK ==
  /\ pc \in Labels /\ slept \in BOOLEAN /\ message \in Message
  /\ tries \in 0 .. (InsertTries + RemoveTries)
  /\ port \in Keys \cup {0, NextBlock}

LEMMA ProgramTypesStep ==
  ASSUME ChipTypeOK, ProgramTypeOK, [Next]_vars
  PROVE  ProgramTypeOK'
<1> USE DEF chipVars, localVars, ProgramTypeOK, Labels
<1>1. CASE SoftReset
  BY <1>1 DEF SoftReset
<1>2. CASE InitSie
  BY <1>2 DEF InitSie, Execute
<1>3. CASE InitAnswer
  BY <1>3 DEF InitAnswer, ReadMail
<1>4. CASE ResetBus
  BY <1>4 DEF ResetBus, Execute
<1>5. CASE ResetAnswer
  BY <1>5 DEF ResetAnswer, ReadMail
<1>6. CASE FirstLook
  <2>1. /\ pc' \in Labels /\ slept' \in BOOLEAN
        /\ tries' = tries \/ tries' = 0
        /\ UNCHANGED <<message, port>>
    BY <1>6 DEF FirstLook, Look, Begin, Goto
  <2>2. 0 \in 0 .. (InsertTries + RemoveTries)
    BY UsbAssumption
  <2>3. QED
    BY <2>1, <2>2
<1>7. CASE RetryLook
  <2>1. pc' \in Labels /\ slept' \in BOOLEAN
    BY <1>7 DEF RetryLook, LookAgain, Begin, Goto
  <2>2. message' = message /\ port' = port
    BY <1>7 DEF RetryLook, LookAgain, Goto
  <2>3. tries' = tries \/ (tries + 1 < InsertTries /\ tries' = tries + 1)
    BY <1>7 DEF RetryLook, LookAgain, Begin, Goto
  <2>4. tries' \in 0 .. (InsertTries + RemoveTries)
    BY <2>3, UsbAssumption
  <2>5. QED
    BY <2>1, <2>2, <2>4
<1>8. CASE Missing
  BY <1>8 DEF Missing, AwaitKeyboard, Goto
<1>9. CASE Send
  BY <1>9 DEF Send
<1>10. CASE Start
  BY <1>10 DEF Start
<1>11. CASE Answer
  BY <1>11 DEF Answer
<1>12. CASE WaitRead
  BY <1>12 DEF WaitRead, ChipTypeOK
<1>13. CASE WaitClear
  BY <1>13 DEF WaitClear, Accepted
<1>14. CASE ReadControl
  BY <1>14 DEF ReadControl, Advance, Begin
<1>15. CASE RetryRead
  BY <1>15 DEF RetryRead
<1>16. CASE RetryClear
  BY <1>16 DEF RetryClear
<1>17. CASE RetryAnswer
  BY <1>17 DEF RetryAnswer
<1>18. CASE RetryControl
  BY <1>18 DEF RetryControl, Advance, Begin
<1>19. CASE ReadKey
  BY <1>19 DEF ReadKey, ChipTypeOK
<1>20. CASE PollLook
  <2>1. /\ pc' \in Labels /\ slept' \in BOOLEAN
        /\ tries' = tries \/ tries' = 0
        /\ UNCHANGED <<message, port>>
    BY <1>20 DEF PollLook, Look, Begin, Goto
  <2>2. 0 \in 0 .. (InsertTries + RemoveTries)
    BY UsbAssumption
  <2>3. QED
    BY <2>1, <2>2
<1>21. CASE PollAgain
  <2>1. pc' \in Labels /\ slept' \in BOOLEAN
    BY <1>21 DEF PollAgain, LookAgain, Begin, Goto
  <2>2. message' = message /\ port' = port
    BY <1>21 DEF PollAgain, LookAgain, Goto
  <2>3. tries' = tries \/ (tries + 1 < RemoveTries /\ tries' = tries + 1)
    BY <1>21 DEF PollAgain, LookAgain, Begin, Goto
  <2>4. tries' \in 0 .. (InsertTries + RemoveTries)
    BY <2>3, UsbAssumption
  <2>5. QED
    BY <2>1, <2>2, <2>4
<1>22. CASE Removed
  BY <1>22 DEF Removed, AwaitKeyboard, Goto
<1>23. CASE RunRoutine /\ UNCHANGED programVars
  BY <1>23 DEF RunRoutine, programVars
<1>24. CASE SetUp /\ UNCHANGED programVars
  BY <1>24 DEF SetUp, Reachable, programVars
<1>25. CASE Complete /\ UNCHANGED programVars
  BY <1>25 DEF Complete, Tell, programVars
<1>26. CASE AnswerPoll /\ UNCHANGED programVars
  BY <1>26 DEF AnswerPoll, Reachable, Tell, programVars
<1>27. CASE GiveUp /\ UNCHANGED programVars
  BY <1>27 DEF GiveUp, Reachable, Tell, programVars
<1>28. CASE PlugIn /\ UNCHANGED programVars
  BY <1>28 DEF PlugIn, Notice, Tell, programVars
<1>29. CASE PullOut /\ UNCHANGED programVars
  BY <1>29 DEF PullOut, programVars
<1>30. CASE UNCHANGED vars
  BY <1>30 DEF vars, programVars
<1>31. QED
  BY <1>1, <1>2, <1>3, <1>4, <1>5, <1>6, <1>7, <1>8, <1>9, <1>10, <1>11,
     <1>12, <1>13, <1>14, <1>15, <1>16, <1>17, <1>18, <1>19, <1>20, <1>21, <1>22,
     <1>23, <1>24, <1>25, <1>26, <1>27, <1>28, <1>29, <1>30
  DEF Next, Program, Chip, ChipNext

(* The types hold, whatever the chip answers.                                *)
THEOREM TypeCorrect == Spec => []TypeOK
<1>1. Init => ChipTypeOK /\ ProgramTypeOK
  <2>1. 0 \in List /\ 0 \in 0 .. (InsertTries + RemoveTries)
    BY UsbAssumption DEF List, Poll
  <2>2. QED
    BY <2>1 DEF Init, ChipInit, ChipTypeOK, ProgramTypeOK, Message, Control,
                Routine, Address, Labels
<1>2. Places /\ ChipTypeOK /\ ProgramTypeOK /\ [Next]_vars =>
        ChipTypeOK' /\ ProgramTypeOK'
  BY ChipTypesStep, ProgramTypesStep
<1>3. IInv => Places
  BY DEF IInv
<1>4. Places /\ ChipTypeOK /\ ProgramTypeOK => TypeOK
  BY DEF Places, ProgramTypeOK, TypeOK, Labels
<1>5. QED
  BY <1>1, <1>2, <1>3, <1>4, Invariance, PTL DEF Spec

=============================================================================
