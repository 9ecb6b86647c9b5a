------------------------------ MODULE PaceSpec ------------------------------
(***************************************************************************)
(* What the pacer promises its caller, without lists, bytes or budgets: a  *)
(* set of waiting packets from which the packet with the smallest sequence *)
(* number leaves next, each waiting packet at most once.                   *)
(***************************************************************************)
EXTENDS Integers

CONSTANT PacketSeqs

VARIABLES
  waiting,
  out    \* the last packet handed to the network, seq -1 before the first; turn
         \* flips with every packet, so that handing one over twice is a step

Init == waiting = {} /\ out = [seq |-> -1, turn |-> 0]

Enqueue == /\ \E s \in PacketSeqs \ waiting : waiting' = waiting \cup {s}
           /\ UNCHANGED out

Transmit == \E s \in waiting : /\ \A x \in waiting : s <= x
                               /\ waiting' = waiting \ {s}
                               /\ out' = [seq |-> s, turn |-> 1 - out.turn]

Next == Enqueue \/ Transmit

Spec == Init /\ [][Next]_<<waiting, out>>
=============================================================================
