----------------------------- MODULE VideoSpec -----------------------------
(***************************************************************************)
(* What the video transport promises the player: frames come out whole, in *)
(* the order they were encoded, none twice, and where frames are missing   *)
(* the first after the gap is a key frame, which needs none of them.       *)
(***************************************************************************)
EXTENDS Integers, Sequences

CONSTANT NewFrame   \* what may be encoded: [ftype, total, ...] records

VARIABLES
  stream,  \* the frames encoded so far
  shown    \* the last frame played, and the number of its segments the player was given

Init == stream = <<>> /\ shown = [fid |-> 0, segments |-> 0]

Encode == /\ Len(stream') = Len(stream) + 1
          /\ SubSeq(stream', 1, Len(stream)) = stream
          /\ stream'[Len(stream')] \in NewFrame
          /\ UNCHANGED shown

Decodable(fid) == stream[fid].ftype = 1 \/ (shown.fid # 0 /\ fid = shown.fid + 1)

Show == /\ \E fid \in shown.fid + 1 .. Len(stream) :
             /\ Decodable(fid)
             /\ shown' = [fid |-> fid, segments |-> stream[fid].total]
        /\ UNCHANGED stream

Next == Encode \/ Show

Spec == Init /\ [][Next]_<<stream, shown>>
=============================================================================
