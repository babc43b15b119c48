----------------------------- MODULE MCPlayback ------------------------------
(* Small recordings for TLC; a second has three clock units. *)
EXTENDS Playback

GOP(ts, codec) == [ts |-> ts, codec |-> codec]

ThreeGOPs == <<GOP(<<0, 2>>, "h264"), GOP(<<5>>, "h264"), GOP(<<7>>, "h264")>>

\* Frames at uneven distances, on both sides of what is asked for.
LongGOP == <<GOP(<<0, 3, 5, 12>>, "h264")>>

\* The camera is switched to another codec.
CodecChange == <<GOP(<<0, 2>>, "h264"), GOP(<<5>>, "h265")>>

MCRecordings == {ThreeGOPs, LongGOP, CodecChange}

MCCodecChange == {CodecChange}

MCRequests == {[start |-> 1, end |-> 6]}

\* Resume, or seek and change the speed.
MCPlayRequests == {[range |-> None, scale |-> None], [range |-> 3, scale |-> 8]}

=============================================================================
