---------------------------- MODULE MCPaceSender ----------------------------
(***************************************************************************)
(* Instances of the two pacers, of which razor_api.c makes one for a       *)
(* session, of the estimates of GCC that one of them paces at, and of the  *)
(* rule that says how much video there is to pace, checked in one run: a   *)
(* behaviour is one of the four.  Three packets of two sizes, an idle and  *)
(* a working estimate, and clock steps below the age limit of 250 ms and   *)
(* up to it; tables of two rows or none.  The estimates start at 20        *)
(* between 10 and 24; less, as much or much more comes through; two of     *)
(* GCC's feedbacks, time between them enough for every timer.              *)
(***************************************************************************)
EXTENDS BbrPacer, AbrRule, GccSender

VARIABLE part    \* the GCC pacer, the BBR pacer, the ABR rule or the estimates

PartsInit == /\ part \in {"gcc", "bbr", "abr", "estimates"}
             /\ BbrPacerInit /\ AbrInit /\ GccSenderInit
             /\ part # "abr" => rows = <<>>

PartsNext ==
  /\ UNCHANGED part
  /\ \/ part = "gcc" /\ Next /\ UNCHANGED <<bbrVars, abrVars, gccSenderVars>>
     \/ part = "bbr" /\ BbrPacerNext /\ UNCHANGED <<abrVars, gccSenderVars>>
     \/ part = "abr" /\ AbrNext /\ UNCHANGED <<vars, bbrVars, gccSenderVars>>
     \/ part = "estimates" /\ GccSenderNext /\ UNCHANGED <<vars, bbrVars, abrVars>>

PartsSpec == PartsInit /\ [][PartsNext]_<<vars, bbrVars, abrVars, gccSenderVars, part>>

MCPacketSeqs   == 1 .. 3
MCSizes        == {600, 1100}
MCBitrates     == {100000}
MCPacingRates  == {100}
MCPaddingRates == {0, 100}
MCDelays       == {125}
MCTiers        == <<200, 400, 610>>
MCConfidences  == {2, 8, 9}
MCRows         == {0, 2}
MCCcBitrates   == {250, 500, 4000}
MCSettings     == {[min |-> 10, start |-> 20, max |-> 24]}
MCAckedRates   == {0, 16, 40}
MCLosses       == {[fraction |-> 0, number |-> 2], [fraction |-> 64, number |-> 2]}
=============================================================================
