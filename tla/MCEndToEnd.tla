----------------------------- MODULE MCEndToEnd -----------------------------
(* A small capture for EndToEnd: messages of five to seven cells, whose    *)
(* cells read as headers are lengths from 0 to 50.                         *)
EXTENDS EndToEnd

MCConfig == [json |-> <<9>>, sps_pps |-> <<7>>]

MCScript == <<
    [type |-> PointCloud, seq |-> 1, timestamp |-> 5, points |-> <<2, 4>>],
    [type |-> ImuBatch, seq |-> 1, samples |-> <<1>>],
    [type |-> VideoChunk, seq |-> 1, timestamp |-> 1, is_keyframe |-> TRUE, nal |-> <<4>>]>>

(* What a refused file costs: a point cloud, between any two of the script.*)
MCDropped == {[type |-> PointCloud, seq |-> 9, timestamp |-> 9, points |-> <<9, 9, 9>>]}
=============================================================================
