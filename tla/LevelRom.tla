------------------------------ MODULE LevelRom ------------------------------
(***************************************************************************)
(* The level ROM (level_rom.sv): eight rooms of fifteen rows of twenty      *)
(* 32-pixel tiles, 1 for a wall and 0 for floor.  A row is written with its *)
(* last tile on the left: column c of the screen is bit c of the row        *)
(* (level_rom.sv:159).                                                      *)
(***************************************************************************)
EXTENDS Naturals

TileSize    == 32
RowsPerRoom == 15
RoomNumbers == 0 .. 7

\* The rows of the ROM, room after room.
ROM == <<
  \* Room 0
  \b00000000000000000000,
  \b11111111100111111111,
  \b10000000000000000001,
  \b10000000000000000001,
  \b10000000000000000001,
  \b10000000000000000001,
  \b10000000000000000001,
  \b10000000000000000000,
  \b10000000000000000000,
  \b10000000000000000001,
  \b10000000000000000001,
  \b10000000000000000001,
  \b10000000000000000001,
  \b10000000000000000001,
  \b11111111111111111111,
  \* Room 1
  \b00000000000000000000,
  \b11111111111111111111,
  \b10000000000000000001,
  \b10000000000000000001,
  \b10000000011000000001,
  \b10000000011000000001,
  \b10000000011000000001,
  \b00001111111111110000,
  \b00001111111111110000,
  \b10000000011000000001,
  \b10000000011000000001,
  \b10000000011000000001,
  \b10000000000000000001,
  \b10000000000000000001,
  \b11111111111111111111,
  \* Room 2
  \b00000000000000000000,
  \b11111111111111111111,
  \b10000000000000000001,
  \b10111111000011111101,
  \b10100000000000000101,
  \b10100000000000000101,
  \b10100000000000000101,
  \b10100110000001100101,
  \b10100110000001100101,
  \b10100000000000000101,
  \b10100000000000000101,
  \b10100000000000000101,
  \b10111111000011111101,
  \b10000000000000000001,
  \b11111111100111111111,
  \* Room 3
  \b00000000000000000000,
  \b11111111111111111111,
  \b10000000000000000001,
  \b10000000000000000001,
  \b10011111111111111001,
  \b10010000000000000001,
  \b10010000000000000001,
  \b00010011111111111111,
  \b00010000000000000001,
  \b11110000000000000001,
  \b11111111111111111001,
  \b10000000000000000001,
  \b10000000000000000001,
  \b10000000000000000001,
  \b11111111100111111111,
  \* Room 4
  \b00000000000000000000,
  \b11111111100111111111,
  \b10000000000000000001,
  \b10010000000000000001,
  \b10111000000000000001,
  \b10010000000001000001,
  \b10000000000011100001,
  \b10000000000001000000,
  \b10000001000000000000,
  \b10000011100000000001,
  \b10000001000010000001,
  \b10000000000111000001,
  \b10000000000010000001,
  \b10000000000000000001,
  \b11111111111111111111,
  \* Room 5
  \b00000000000000000000,
  \b11111111100111111111,
  \b10000000000000000001,
  \b10000000000000000001,
  \b10000000011000000001,
  \b10000000111100000001,
  \b10000001111110000001,
  \b00000011111111000000,
  \b00000011111111000000,
  \b10000001111110000001,
  \b10000000111100000001,
  \b10000000011000000001,
  \b10000000000000000001,
  \b10000000000000000001,
  \b11111111111111111111,
  \* Room 6
  \b00000000000000000000,
  \b11111111111111111111,
  \b10000000000000000001,
  \b10110000000000001101,
  \b10100000000000000101,
  \b10000000000000000001,
  \b10000110000001100001,
  \b10000100000000100001,
  \b10000100000000100001,
  \b10000110000001100001,
  \b10000000000000000001,
  \b10100000000000000101,
  \b10110000000000001101,
  \b10000000000000000001,
  \b11111111100111111111,
  \* Room 7
  \b00000000000000000000,
  \b11111111111111111111,
  \b10000000000000000001,
  \b10000001010111010101,
  \b10000001010101011101,
  \b10000001010101001001,
  \b10000001110111001001,
  \b00000000000000000001,
  \b00000000000000000001,
  \b10100101010001000001,
  \b10101101010001000001,
  \b10110101010101000001,
  \b10100101011011000001,
  \b10000000000000000001,
  \b11111111111111111111
  >>

Bit(n, i) == (n \div 2^i) % 2

\* The columns of row i of the ROM that hold a wall.
WallColumns == [i \in 0 .. 119 |-> {c \in 0 .. 19 : Bit(ROM[i + 1], c) = 1}]

\* bg_type at pixel (x, y) of a room.  The lookup is meaningful on the
\* screen only: x < 640 and y < 480.
IsWall(room, x, y) ==
  (x \div TileSize) \in WallColumns[RowsPerRoom * room + (y \div TileSize)]

\* Does the 32x32 box whose upper left pixel is (x, y) touch a wall?  These
\* are the four lookups of Player.sv (UL, UR, BL, BR).
TouchesWall(room, x, y) ==
  \E dx \in {0, 31}, dy \in {0, 31} : IsWall(room, x + dx, y + dy)

=============================================================================
