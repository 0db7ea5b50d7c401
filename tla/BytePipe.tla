------------------------------ MODULE BytePipe ------------------------------
(* A lossless byte pipe of bounded capacity: what the keyboard staging ring  *)
(* promises to the code on either side of it.  The writer may add a byte     *)
(* while there is room, the reader takes any number of the oldest bytes.     *)
EXTENDS Integers, Sequences

CONSTANTS Byte, Capacity

VARIABLES
  pending,   \* bytes put and not yet passed on
  passed     \* every byte passed on so far, oldest first

vars == <<pending, passed>>

Init == pending = <<>> /\ passed = <<>>

Put(b) ==
  /\ Len(pending) < Capacity
  /\ pending' = Append(pending, b)
  /\ UNCHANGED passed

Pass(n) ==
  /\ passed' = passed \o SubSeq(pending, 1, n)
  /\ pending' = SubSeq(pending, n + 1, Len(pending))

Next == \/ \E b \in Byte : Put(b)
        \/ \E n \in 1..Len(pending) : Pass(n)

Spec == Init /\ [][Next]_vars
=============================================================================
