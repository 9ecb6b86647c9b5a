------------------------------ MODULE MCSimFec ------------------------------
(***************************************************************************)
(* An instance of FEC alone in which the ids of the groups come round: two *)
(* ids, a group every two seconds, and groups let go after two.            *)
(***************************************************************************)
EXTENDS SimFec

(* The network loses and reorders but does not delay, some segment gets     *)
(* through in every other second, and the receiver evicts before every      *)
(* frame: nothing is late.                                                  *)
Prompt == /\ receive_segment => \A s \in segs : s.packet_id \in put' \ put => s.timestamp = clock
          /\ receive_fec => heard' # heard /\ \A f \in heard' \ heard : f.send_ts = clock
          /\ clock' # clock => Idle /\ rec = Evicted(rec) /\ rec.max_ts + 1 >= clock

PromptSpec == FecInit /\ [][FecNext /\ Prompt]_fecVars

One == {1}
Two == {2}
Zero == {0}
Fractions == {100}
=============================================================================
