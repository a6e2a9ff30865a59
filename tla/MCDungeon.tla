----------------------------- MODULE MCDungeon ------------------------------
(* The dungeon with the level ROM of the program, for TLC. *)
EXTENDS Dungeon

LOCAL L == INSTANCE LevelRom

\* The walls of level_rom.sv.
MCBlocked(r, x, y) == L!TouchesWall(r, x, y)

=============================================================================
