----------------------------- MODULE MCVideoFec -----------------------------
(***************************************************************************)
(* Instances of the video transport, of the FEC that serves it, of the     *)
(* feedback of the packets that came, and of the controller of BBR and the *)
(* filters it keeps, which say how much may be sent, checked in one run: a *)
(* behaviour is one of the five.                                           *)
(***************************************************************************)
EXTENDS VideoTransport, SimFec, GccFeedback, BbrController, WindowedFilter

VARIABLE part    \* the part of the transport that the behaviour is of

partsVars == <<part, vars, fecVars, gccVars, controllerVars, filterVars>>

PartsInit == /\ part \in {"video", "fec", "feedback", "controller", "filter"}
             /\ Init /\ FecInit /\ GccInit /\ BbrControllerInit /\ FilterInit

PartsNext ==
  /\ \/ part = "video" /\ Next /\ UNCHANGED <<fecVars, gccVars, controllerVars, filterVars>>
     \/ part = "fec" /\ FecNext /\ UNCHANGED <<vars, gccVars, controllerVars, filterVars>>
     \/ part = "feedback" /\ GccNext /\ UNCHANGED <<vars, fecVars, controllerVars, filterVars>>
     \/ part = "controller" /\ BbrControllerNext /\ UNCHANGED <<vars, fecVars, gccVars, filterVars>>
     \/ part = "filter" /\ FilterNext /\ UNCHANGED <<vars, fecVars, gccVars, controllerVars>>
  /\ UNCHANGED part

PartsSpec == PartsInit /\ [][PartsNext]_partsVars

(* The transport's variables and those of FEC keep their types.             *)
PartsTypeOK == TypeOK /\ FecTypeOK

Zero == {0}
One == {1}
AnyRtt == {FALSE, TRUE}
TwoOrFive == {2, 5}
Fractions == {100}
Short == {1, 3}
Prompt == {0, 1}
MCGccPauses == {4}
MCRtts == {3, 50}
MCAmounts == {0, 1}
MCTargets == {3}
MCBwSamples == 0 .. 3
MCRoundGaps == {0, 1, 3, 5}
=============================================================================
