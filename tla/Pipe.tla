--------------------------------- MODULE Pipe ---------------------------------
(***************************************************************************)
(* What one direction of the console promises: bytes come out as they went *)
(* in, in order, none lost, doubled or changed, and no more than Capacity  *)
(* are on the way.  The bytes are numbered as they go in.                  *)
(***************************************************************************)
EXTENDS Naturals, Sequences

CONSTANT Capacity   \* bytes, one at least

VARIABLES
  items,    \* the bytes on the way, the oldest first
  next,     \* the number of the next byte
  took      \* the bytes that were taken out last

vars == <<items, next, took>>

Init == items = <<>> /\ next = 0 /\ took = <<>>

Put(n) ==
  /\ Len(items) + n <= Capacity
  /\ items' = items \o [i \in 1 .. n |-> next + i - 1]
  /\ next' = next + n
  /\ UNCHANGED took

Get(n) ==
  /\ n <= Len(items)
  /\ took' = SubSeq(items, 1, n)
  /\ items' = SubSeq(items, n + 1, Len(items))
  /\ UNCHANGED next

Next == \E n \in 1 .. Capacity : Put(n) \/ Get(n)

Spec == Init /\ [][Next]_vars

=============================================================================
