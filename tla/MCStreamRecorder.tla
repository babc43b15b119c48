-------------------------- MODULE MCStreamRecorder --------------------------
(* StreamRecorder as TLC checks it: the constants are given in the cfg files. *)
EXTENDS StreamRecorder

=============================================================================
