# Legend of NIOS: models, checks and proofs

Legend of NIOS is a small dungeon game on an Altera board. A game in
SystemVerilog (`src/Legend_Of_NIOS_Quartus/*.sv`) draws eight rooms, moves a
player and five enemies, keeps health and score; a NIOS processor in the same
FPGA runs a C program (`software/usb_kb`) that reads a USB keyboard through a
CY7C67200 controller and steers the enemies. This directory holds a TLA+ model
of it, the TLC configurations that check it, and TLAPS proofs.

Paths below are relative to `src/Legend_Of_NIOS_Quartus/`.

## 1. The system

### Parts, their state and their operations

| Part (source) | State | Operations |
|---|---|---|
| Clocks (`lab8.sv`, `VGA_controller.sv`) | `Reset_h`, `VGA_CLK`, `h_counter`, `v_counter`, `VGA_VS` | every Clk edge; a pixel every second one; a frame when `VGA_VS` rises |
| Player (`Player.sv`) | position, motion, `doorcode`, `attack` | one frame: move, or leave by a door, or be stopped by a wall; reset |
| Rooms (`RoomState.sv`, `level_rom.sv`) | `room` | one frame: go through the door; reset to room 0 |
| Rules (`GameState.sv`) | `health`, two score digits, five damage flags, `counter`, `game_over` | one frame: restart, strike, lose a heart, or nothing |
| Enemies (`Enemy.sv`, five of them) | position, motion, `active`, `Enemy_Type` | load the residents of a room, walk, die, reset |
| Entity ports (`entityInterface.sv`) | five directions, a selected position and type | every Clk edge: latch what is selected |
| Enemy controller (`enemyController.c`) | `enemyCounter[]`, a position of the player and of one enemy | `updateEnemies`: for each enemy select, read, decide, write |
| USB host (`main.c`, `usb.c`) | place in the program, `hot_plug_count`, `toggle` | reset the chip, look for a keyboard, nine requests, poll for ever |
| Console (driver and interrupt dispatch in `software/usb_kb_bsp`) | two rings with their pointers, `irq_enable`, `timeout`, `host_inactive` | write, read, close, set timeout; interrupt routine; alarm |
| HPI bus (`io_handler.c`, `hpi_io_intf.sv`) | ports of the processor, pin registers | `IO_init`, `IO_read`, `IO_write` |
| Drawing (`Color_Mapper.sv`, `Background.sv`, `TextDisplay.sv`, sprites, fonts, hex displays) | none | combinational |

### How they interact

* Everything in the game is tied to the frame. `GameState` and `RoomState` are
  clocked by `VGA_VS` itself; `Player` and `Enemy` are clocked by Clk and act at
  the first Clk edge *after* `VGA_VS` has risen (an edge detector). A frame
  therefore has two steps in a fixed order, and each part sees some of its
  inputs from this frame and some from the last: the room register is written
  from the door of the last frame, the player then moves against the walls of
  the new room; damage is computed from the old positions.
* `game_over` resets player, rooms and enemies. The button `KEY[0]` resets the
  clocks as well, and with them the very edges that would carry the reset.
* The program and the game share registers without any handshake: three input
  and four output ports for the enemies, one port for the key code.
* The program and the USB chip share memory, a mailbox and a message register
  with flags; requests are repeated when an answer is late, so that answers and
  requests can get out of step. `updateEnemies` is called once per report of
  the keyboard: if the keyboard's program hangs, the enemies hang with it.
* The program prints in that loop, too. `printf` ends in the interrupt-driven
  driver of the JTAG UART, which waits for room in its ring: if the console
  hangs, everything hangs with it.

### What is hard

Order of the two steps of a frame (stale positions, stale doors); a restart in
any frame; saturation and wrap-around of small counters; ten-bit positions
without sign; program and hardware running side by side with single-register
ports; reset and clock that exclude each other; late, lost and left-over
answers of the chip; a keyboard that comes and goes at any time; a chip that
needs a retry; enemies steered by coordinates of frames ago; two writers, the
calls and the interrupt routine, of one mask and of two rings. `PROJECT.json` lists the hazards by line, each with the
properties that cover it or the reason why none does.

### What makes each part correct

* Player and rooms: the player never stands in a wall, every opening leads
  somewhere, arrivals are safe, lost games restart at the start.
* Rules: the score counts hits, hearts are spaced, games start fresh, who is
  touched all the time loses.
* Enemies: only residents are alive, the dead stay dead, cleared rooms are safe.
* Clocks: frames have the right length and go on; the reset never meets a frame.
* Entity ports: an order reaches the enemy it is for, computed from the right
  positions, and wrong ones are corrected.
* USB host: nothing of the set-up is skipped, keys are real, polling goes on.
* HPI bus: each call reaches the chip once and unharmed; no bus conflict.
* Chase: walls hold who keeps its direction; a ReDead arrives and rests, a Slider
  keeps its column, comes down and rests.
* Console: both directions are pipes; no interrupt is turned off for good; calls
  end whenever a terminal or a limit to the driver's patience lets them.

## 2. Modules

```
LevelRom   RoomState --- Player --+          Residents --- Enemy
    |          |                  |              |           |
    |          |                Dungeon ---------+           |
 MCDungeon ----|------------------+ refines Maze             |
               |                                             |
 FrameClock -- Board         GameState --- GameRules         |
                                 |                           |
                              Combat (GameRules, RoomState, Enemy)

 LevelRom, Residents --- Chase --- MCChase

 EntityBus                  UsbChip --- UsbHost              HpiBus

 JtagUart --- MCJtagUart    (refines Pipe, once for each direction)
```

* **LevelRom** (`level_rom.sv`, `Player.sv:22-29`): the 120 rows of the ROM and
  the four corner lookups that make a box touch a wall.
* **RoomState**: passages, the reset that overrides them, `initialize_room`.
* **Player**: the registers of `Player.sv`. `PlayerFrame(key, room)` is one pass
  of its combinational block: ten-bit sums, door tests in the order of the code,
  wall test, the motion that the key commands for the next frame. `PlayerReset`
  leaves `doorcode` and `attack` alone, as the code does.
* **Residents**, **Enemy**: the table of `Enemy.sv:262-539` with positions and
  types, and the life cycle: loading, dying, being moved to (700, 700) one frame
  later, reset. The walk is abstracted: an enemy is `hidden` or anywhere; the
  walk itself is in Chase.
* **Dungeon**: Player, rooms and walls with the two steps of a frame and a game
  that may be lost in any frame. **Maze** is its abstract specification: rooms,
  two-way corridors, restarts.
* **GameState**: the four branches of the block in `GameState.sv`, with positions
  abstracted to the sets of enemies within 64 pixels (`near`) and within 32
  (`touch`). **GameRules** runs it under every input and adds history variables.
* **Combat**: GameRules, RoomState and Enemy with both steps of a frame; the
  player is an input. Where GameRules lets anybody be near the player, here it is
  who is on the screen: `CombatSpec` implements `Rules`, the safety part of
  GameRules, by extension, and this is proved (section 4).
* **FrameClock**: one step is one Clk edge with what it sets off in order: Clk
  registers, then what `VGA_CLK` clocks, then what `VGA_VS` clocks. **Board** adds
  the room register and the button.
* **EntityBus**: one step is one port access of `updateEnemies`, one Clk edge, or
  a change of room or a death in the game. Positions are abstracted to *whose*
  position it is; the computed direction to any that the branch can command.
* **UsbChip**, **UsbHost**: the chip with the keyboard (external: what the
  program's own accesses presuppose), and the program of `main.c` and `usb.c`.
  A label of `pc` is a place where the program accesses the chip and the chip
  can have moved in between. The nine requests share the same code shape and so
  the same actions; what differs (the sleep after the sixth list, the descriptor
  started as if it were a list, the first request that starts over, the pointer
  at 0x051e) is kept.
* **HpiBus**: one step is one port access or one Clk edge, with the reset button.
* **Chase**: one living enemy and the player with their coordinates. The tests of
  `updateEnemies` that overlap are an IF chain, in which the first one decides as
  in the code. `Frame` is
  the frame edge of `Enemy.sv` (move by the motion of the last frame, look up the
  walls at the new place for the next one); the other actions are the accesses of
  `updateEnemies` for this enemy, with the frames falling anywhere between them.
  Of the ports it keeps what they do to the direction: the value of the last
  resident until the first order, and, from `entity_write` to `entity_dir`, the
  value still on the port. A lookup off the screen has an arbitrary answer.
* **Pipe**: what one direction of the console promises. **JtagUart**: start-up,
  the calls in the order of their accesses to what they share with the interrupt
  routine, the routine (one pass is one step: it cannot be interrupted by the
  program, and what the terminal does meanwhile could come before or after), the
  alarm, and a terminal that comes and goes. One variable stands for the driver's
  `irq_enable` and the register of the device, which are written together with
  interrupts off. Bytes are numbered, so that refining Pipe says that none is
  lost, doubled, changed or overtaken. `system.clock` is FALSE on this board,
  which has no timer; the driver is written for both and both are checked.
* **MCDungeon, MCGameRules, MCCombat, MCEntityBus, MCChase, MCJtagUart**: values
  of constants for TLC.
* **DungeonProofs, BoardProofs, CombatProofs (with GameRules), ChaseProofs,
  EntityBusProofs, UsbHostProofs, HpiBusProofs, JtagUartProofs**: theorems.

Operators whose comment calls them a variant are mistakes one could make in the
code; each property is checked to fail with one of them in the place of the
definition it varies.

## 3. Runs

| Run | States | What it shows |
|---|---|---|
| `dungeon` | 188 000 | TypeOK, NeverInWall, DoorsLeadOut, ArrivalIsSafe, RestartsAtTheStart, RefinesMaze |
| `game_rules` | 240 000 | TypeOK, ScoreCountsHits, NoHitLostInDeath, HeartsAreSpaced, FreshStart, TouchKills |
| `combat` | 66 000 | OnlyResidents, TwoPointsAtMost, AppearOnArrival, ClearedRoomIsSafe |
| `board` | 17 000 | ResetMissesTheFrame, FramePeriod, FramesGoOn |
| `board_reset` | (violation) | ResetRestartsTheRooms: the button does not restart the rooms |
| `entity_bus` | 218 000 | TypeOK, RightPositions, OrdersReachTheirEnemy, SlidersSettle, KeeseTurn |
| `usb_host` | 2 490 000 | SetUpInOrder, NoPhantomKeys |
| `usb_prompt` | 161 000 | KeysKeepComing, HotPlug |
| `usb_retry` | (violation) | RetriedIsSentAgain: a retried request is never sent again |
| `hpi_bus` | 12 000 | EachAccessOnce, NoContention |
| `chase` | 477 000 | TypeOK, OneStepIntoWalls, ColumnKept, ReDeadArrives, SliderSettles |
| `console` | 221 000 | TypeOK, NoLostWakeUp, RefinesPipes, CallsEnd, ReadsEnd |

All actions of all modules are taken in these runs. Where TypeOK is not in the
list, a theorem proves it for every value of the constants. The runs also
evaluate every ASSUME; those about the real wall map and table are `DoorsMatchUp`,
`StartIsFree` and `DoorsAreClear` (Dungeon) and `StartAssumption` (Chase).

### Bounds

* `dungeon`: the real ROM, start position and table; steps of 16 pixels instead
  of 3. Sixteen divides the tile size, so that the player fits every door and
  reaches every edge of every tile. With the step of the program the same
  properties hold over 4.69 million states; that run takes too long to be kept
  among the others. The theorems hold for every step from 1 to 31.
* `game_rules`: the program's numbers (90 and 125 frames, seven bits, base 10);
  two enemies, the least for which one hides another in the else-if chain.
* `combat`: two enemies, so that one dies while the other lives; all rooms and
  the whole table; the counter and the digits cut down (2, 3, 4; base 2), since
  their exactness is the subject of `game_rules`. `hitsOn` stops at three.
* `board`: a screen of two by six with two lines of sync instead of 800 by 525;
  the button changes at any Clk edge. `ticks` stops one beyond the length of a
  frame, `edges` at two.
* `entity_bus`: two enemies; three rooms that give the same enemy different
  types or none; four of five directions; a Keese turns every second pass.
  `enemyCounter` is counted up to its limit only, beyond which nothing depends
  on it.
* `usb_host`: the program's numbers of looks (5 and 7); keys "none" and "A".
  `usb_prompt` and `usb_retry`: two looks each and no key, which the liveness
  properties do not tell apart.
* `chase`: five scenes, each with its own behaviour (listed in MCChase): a ReDead
  that must come from the side and then from below, a Slider with the player
  nearly and exactly in line, two Sliders driven off their column, against a wall
  and into the open, and a Keese flying past the openings on both sides. The
  player walks over one or two spots or stands: the two liveness properties speak
  of a player that stands, and the invariants of the enemy alone. Up to
  `PollFrames` = 4 frames pass between two orders for the enemy, and one of them
  may fall between `entity_write` and `entity_dir` (`MaxStrays`). With
  `PollFrames` = 10 a ReDead swings about the player for ever: the 33 pixels in
  which it rests are less than what it walks on stale coordinates. With
  two pixels a frame, forth and back, that begins at about eight frames.
* `console`: rings of three bytes and FIFOs of one instead of 2048 and 64, so
  that both fill and both wrap; a `DEFAULT_TIMEOUT` of 2 and an `INT_MAX` of 4
  keep every order between the two, `INT_MAX - 2` and the count; up to four bytes
  each way. `MaxCount` exceeds the room of the ring.
* `hpi_bus`: three words, all four registers, two Clk edges between accesses.
  More edges change nothing, because the pins have followed the ports after one
  and the read register after two.

### Fairness

* `Board`, `GameRules`: WF of the step. Clk does not stop, and frames go on
  (shown by FramesGoOn).
* `EntityBus`: WF of `ClkEdge`, and WF of the program. The program is a
  sequential loop; that it is called again and again is what KeysKeepComing
  shows of the loop around it, for a keyboard that stays.
* `UsbHost` (`FairSpec`): WF of the program (sequential; it is interrupted only by
  the console, whose routine ends) and of the chip's list processing. The program
  also prints; that `printf` returns is what CallsEnd shows, for a console with a
  terminal. SF, not WF, where the environment has to be kind
  sometimes: a routine is acknowledged sometimes; the lines of a bus under reset
  do not hide the keyboard every time (step 2 does not wait for the end of the
  reset, which takes longer than all looks together); and the chip's steps
  sometimes fall into the time before `Answer`, where the program spends nearly
  all of its time asleep. `Prompt` adds that a list ends while the program
  sleeps: 10 ms against the few milliseconds of a control transfer.
* `Chase`: WF of the program, as in EntityBus; SF of `Frame`, because the bound
  on strays disables it for the moment between two accesses.
* `JtagUart`: WF of the program inside a call, of the interrupt routine, its
  return and the alarm; SF of `HostTakes`: a terminal that is there again and
  again takes what is printed. Nobody has to type, to call, or to connect. The
  premise of CallsEnd, a terminal again and again or a patience that ends, is
  exactly what the code needs: without either the wait never ends.

### What the violations show

* `board_reset` (code bug): `RoomState` and `GameState` have reset branches, but
  their clock is `VGA_VS`, which the same reset holds low. After the button the
  player stands at the start position of the room it was in, with the health
  and the score it had.
* `usb_retry`: `main.c:211` and its copies say the function is called again if
  the request was not processed successfully. It is called again only while no
  message has come. With a control byte other than 0x03, `UsbGetRetryCnt` rereads
  that byte for ever, and the loop does not look for a removed keyboard.

Observations without a run:

* From power-up until `IO_init` the ports of both strobes are 0
  (`software/usb_kb_bsp/system.h:584` and `611`), so the FPGA drives the data bus
  with both strobes low, although `hpi_io_intf.sv:17` wants it released when
  nothing is written; `NoContention` starts after that.
* The last key stays on its port while no keyboard is plugged in.
* The list of door codes in `RoomState.sv:5-6` has left and right exchanged;
  `Player.sv:220-230` and the passages agree with each other.
* The message register is a bit map (`lcp_cmd.h:86`) but is compared as a whole
  (`usb.c:549`) and then cleared: an end of a list read beside another message is
  lost. That is why KeysKeepComing needs a connector that is left alone.
* The ReDead of room 1 starts in the pillar in the middle of the room, as the
  only resident in a wall (`StartAssumption`), and comes out on the wrong side.
* An enemy whose direction changes while it is a step deep in a wall takes the
  way in for the way out and walks through. `lost` marks such an enemy, and
  OneStepIntoWalls and the two liveness properties set it aside; Chase does not
  follow it further.
* A Slider keeps its column only up to the direction and motion left over from
  the room before and the frames that fall between two accesses; ColumnKept is
  that bound, and fails with one frame less.
* A Slider does not see a player exactly above or below it
  (`enemyController.c:84`).
* Without a timer the alarm cannot be set and the driver's patience is infinite
  (`altera_avalon_jtag_uart_init.c:95`): with no terminal, `printf` waits for ever
  once ring and FIFO are full, some 2100 bytes, and the game's loop with it. With
  a timer a write ends short as soon as one second has passed without the
  terminal, not after `timeout` (`altera_avalon_jtag_uart_write.c:187`).

## 4. Proofs

All theorems are of the form `Spec => []Inv` or `Spec => [][A]_v`, for every
value of the constants that the named ASSUMEs allow.

* **DungeonProofs** (TypeCorrect, PlayerIsNeverStuck, OpeningsAreDoors,
  LostGamesRestart, ArrivalsAreSafe, PassagesAreTwoWay, DungeonIsAMaze). From the
  assumptions `DoorsMatchUp`, `StartIsFree` and `DoorsAreClear` on the wall map and
  the table, which TLC evaluates for the real ones in `dungeon` (the comment in
  `level_rom.sv:7` asks for the first). The invariant adds two facts to the
  properties: the player moves along one axis at a time (`OneAxis`; otherwise it
  could leave by the top door with x outside the field, because y is tested
  first), and it stands at the start between the two steps of a restart
  (`HeldAtStart`). ArrivalsAreSafe has two halves, because a player that has come
  in may already be on its way out again: after the frame of the arrival it is at
  most one step from an edge (`AtItsDoor`), and if it turns back at once, it is put
  on the floor of the other room at the far end. `DoorsAreClear` keeps the
  residents away from both places, and from no others: a resident elsewhere in the
  room is what the game is about. DungeonIsAMaze maps each step to a step of Maze
  or a stutter.
* **CombatProofs**, first part, about GameRules (TypeCorrect, ScoreIsRight,
  DeathLosesNoHit, HeartsSpaced, GamesStartFresh). The key is `CounterIsPeace`: the
  code's counter is the number of frames since the last heart until both saturate.
  `JustDied` and `NewGame` say that a restart comes one frame after a heart was
  lost, so that the counter, which a restart does not touch, still protects the
  first frame of the new game.
* **CombatProofs**, second part, about the game put together.
  CombatPlaysByTheRules is the refinement: the first clock edge of a frame is a
  frame of GameRules with the enemies that are on the screen, the second leaves
  its variables alone. With it, what is proved of the rules for arbitrary enemies
  holds of the game (CombatKeepsTheScore) without a second proof. ResidentsOnly,
  PointsAreBounded, NoResurrection, EmptyRoomsAreSafe and CombatTypeCorrect are
  about what only the composition has; they hold for any number of enemies and,
  except for the last, which needs `EnemyId \subseteq 1 .. 5`, without looking into
  the table. The invariant has one half for each of the two steps of a frame; in
  them an enemy is alive, hit and not yet dead, dead and not yet hidden, or hidden,
  and each station bounds the hits it can have taken.
* **ChaseProofs** (TypeCorrect, SlidersKeepTheirColumn, OneStepAtMost), for any
  scenes, bounds and *any* wall map, and for any answer of the ROMs beyond the edge
  of the screen: of level_rom only the size of its tiles is used.
  - SlidersKeepTheirColumn: a Slider is turned left or right only by a direction
    left on the port, and `ColumnInv` counts: its distance from the column, with the
    motion still to be carried out or its reflection at a wall added, is at most one
    step for the frame in which it was loaded, one for each frame until its first
    order and one for each stray frame; and while such a direction lasts, only the
    frames that have passed (`late`) count, so that there is room for one more.
  - OneStepAtMost: being no deeper than one step in a wall is far from inductive,
    since the motion of a frame was decided one frame earlier by the walls at the
    place before. `WallInv` says instead that the enemy stands on a *retreat*: a
    set of places (`Retreat`), each of them clear of walls but for four pixels, such that
    wherever the two corners of the leading side see a wall, the place one step
    back is in the set too; and that the place of the next frame is in it as well.
    A frame without a wall ahead adds the place one step on (RetreatGrows). That
    this place is clear enough rests on geometry: box and tile are both 32 wide, so
    that no tile fits between the two corners that are looked up, and a step is at
    most four. An enemy that turns while it sees no wall begins a new retreat
    (RetreatStarts, NearClear); one that turns while it sees one is `lost`.
* **BoardProofs** (TypeCorrect, ResetMissesEveryFrame, FramesAreRegular), for any
  size of the screen. The second justifies that GameRules and Dungeon never see
  the button. The third rests on `Counting`: since the second frame edge, the
  history variable `ticks` is two Clk edges for every pixel passed since the line
  after the sync, where `VGA_VS` rises; `Syncing` says that `VGA_VS` is the line
  counter's image.
* **EntityBusProofs** (TypeCorrect, PositionsAreRight, OrdersArrive), for any
  number of enemies. The invariant says what the ports are at each place of the program
  (`PortsFollowTheProgram`), that the registers are what the ports say as soon as
  a Clk edge has come since the last access (`RegistersFollowThePorts`), and what
  the program has read so far (`ProgramHasRead`).
* **UsbHostProofs** (TypeCorrect, KeyboardIsSetUp, KeysAreReal). `Places` says
  which list is in memory at each place; `Addressing`, that a keyboard plugged in later does not
  answer to the lists, because it has no address until the next reset of the bus;
  `Verdict`, that a clean control byte means the request was carried out by *this*
  keyboard, although the list may have been sent twice and the answer be an old
  one. `Words`: the word that the program takes for a key is a pointer or a real
  report.
* **HpiBusProofs** (TypeCorrect, CallsArriveOnce, BusIsNeverContended), for any
  words and any Gap of two or more. `Pins` says that a strobe outlives its port by less than
  one Clk edge; `Progress`, how much of the call the chip has seen at each place.
* **JtagUartProofs** (TypeCorrect, NoWakeUpIsLost, ImplementsPipes), for any ring of
  two bytes or more, any FIFOs, thresholds and timeouts. The invariant is TypeOK,
  NoLostWakeUp and `Calls`, which bounds what a call under way may still do. For
  the pipes, `Copies` adds what has been copied and not yet published, or fetched
  and not yet freed; the lemmas on rings say what appending, storing and dropping
  do to `Buffered`, and each step is a Put, a Get or a stutter of each pipe.

Every safety invariant and every action property that the passing runs check is
the statement of a theorem. Only model-checked are the liveness properties
(TouchKills, FramesGoOn, SlidersSettle, KeeseTurn, KeysKeepComing, HotPlug,
ReDeadArrives, SliderSettles, CallsEnd, ReadsEnd), since fairness and ENABLED are
out of the prover's reach. The fairness part of a specification is used by no
proof: the theorems hold of executions that stop, too. That the real ROM and table
satisfy the assumptions of Dungeon is an evaluation by TLC, not a theorem.

## 5. Assumptions

* Registers without an initial value come up as 0, as on this FPGA family.
* Clocks that are derived from others (`VGA_CLK`, `VGA_VS`) act after the
  registers of the edge that makes them, the order of nonblocking assignment.
* The processor leaves at least one Clk edge between two port accesses
  (EntityBus) or two (HpiBus); the core is the "Tiny" one, which takes several
  cycles per instruction (`nios_system.qsys:770`).
* An enemy at (700, 700) is more than 64 pixels away from every position of the
  player (at most 607, 447).
* In EntityBus, a lost game is a sequence of deaths of single enemies.
* In Chase, the two coordinates of the player are read together (it walks along
  one axis at a time), and one enemy is followed: the others only leave values on
  the port. A Keese's coordinates are read and not used.
* The JTAG terminal takes bytes in order, and its visits set the activity bit.
* When the HPI bus is released it keeps its last value for one Clk edge.
* Of the chip: writing the current-TD pointer starts the list again; the byte at
  0x0508 tells the fate of the first transaction of the list; reading the message
  register clears its flag; the mailbox keeps what was read; a keyboard is deaf
  until a bus reset; a list is read as a whole.

## 6. Not modelled

* Drawing, hex displays, fonts and sprites: combinational output that nothing in
  the game reads. `VGA_HS` and `VGA_BLANK_N` for the same reason.
* `ball.sv`, `memory.sv`, `Frame_Buffer.sv`, `Register.sv`: not instantiated.
* Most of the board support package: generated constants (`system.h`), headers of
  registers and macros, and library code that is vendored and not part of this
  program's behaviour: files, directories and environment, which it never uses;
  `alt_log`, `alt_gmon`, the small drivers, exceptions and caches, which are not
  compiled for this processor; alarms, of which there are none without a timer.
  The same for `cy7c67200.h`, 3327 lines of register names. These are most
  of the C lines of the repository, and what the program reaches of their state
  and control (the file descriptors that start-up opens once) is constant while
  it runs.
* Of the console: `TIOCGCONNECTED`, which only reads; semaphores and event flags,
  which are empty without an operating system; the variant of the driver for one.
* The data toggle of the poll (what the chip does with a wrong one is not visible
  in the repository), the reset button in UsbHost, printing.
* More than one walking enemy at a time: enemies do not see each other.

## 7. What could come next

1. **Reset in UsbHost**: the button resets the chip but not the program, which
   goes on polling a chip that is not set up.
2. **The chase with Combat**: positions instead of `near` and `touch`; the product
   of both is far beyond TLC, so it would be a refinement of Enemy by Chase.
3. **Proofs**: that EntityBus with one enemy implements what Chase assumes of the
   ports; OneStepIntoWalls for a `lost` enemy, which needs an invariant about the
   places where it can come out again.
