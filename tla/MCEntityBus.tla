---------------------------- MODULE MCEntityBus -----------------------------
(* The bus for TLC: two enemies, and three rooms in which the same enemy is *)
(* of different types or absent.                                            *)
EXTENDS EntityBus

MCDir == {0, 1, 2, 3}
MCPopulation == { <<3, 2>>, <<1, 3>>, <<0, 0>> }

=============================================================================
