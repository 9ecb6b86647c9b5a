-------------------------- MODULE MCVideoReceiver --------------------------
(***************************************************************************)
(* Instances of what a receiver does with what arrives, and of what BBR's  *)
(* sender is told of it, checked in one run: a behaviour is one of the     *)
(* video receiver, of the REMB receiver, which measures the same packets,  *)
(* or of the feedback loop of BBR, which reports them.                     *)
(***************************************************************************)
EXTENDS VideoReceiver, RembReceiver, BbrFeedback

VARIABLE part    \* the video receiver, the REMB receiver or the feedback loop

partsVars == <<vars, rembVars, feedbackVars, part>>

PartsInit == part \in {"video", "remb", "feedback"} /\ Init /\ RembInit /\ FeedbackInit

PartsNext ==
  /\ \/ part = "video" /\ Next /\ UNCHANGED <<rembVars, feedbackVars>>
     \/ part = "remb" /\ RembNext /\ UNCHANGED <<vars, feedbackVars>>
     \/ part = "feedback" /\ FeedbackNext /\ UNCHANGED <<vars, rembVars>>
  /\ UNCHANGED part

PartsSpec == PartsInit /\ [][PartsNext]_partsVars

One == {1}
Small == {1, 2}
Fast == {FALSE}
ShortOrLong == {1, 2, 3}
MCSizes == {1}
=============================================================================
