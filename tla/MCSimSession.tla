---------------------------- MODULE MCSimSession ----------------------------
(***************************************************************************)
(* Two sessions.  The resending limits are scaled down, in the code's      *)
(* order: one repeat of a command, interruption, then the end of pinging.  *)
(***************************************************************************)
EXTENDS SimSession, TLC

CONSTANTS a, b

MCEnds    == {a, b}
OneCaller == {a}
Swapped   == Permutations(MCEnds)
Timely    == {1}   \* a heartbeat in every quarter of a second
=============================================================================
