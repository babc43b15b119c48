---------------------------- MODULE MCAsyncWriter ----------------------------
(* Small instances of AsyncWriter for TLC. *)
EXTENDS AsyncWriterRefinement, TLC

\* Three jobs of one camera: the first carries the init segment they share.
MCJobs == {"g1", "g2", "g3"}
MCWithInit == {"g1"}
MCInitKeys == {"init"}
MCInitKey == [j \in MCJobs |-> "init"]
MCSize == [j \in MCJobs |-> IF j = "g1" THEN 2 ELSE 1]

\* Workers are interchangeable (safety runs only).
Symmetry == Permutations(Workers)

=============================================================================
