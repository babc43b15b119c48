----------------------- MODULE AsyncWriterRefinement ------------------------
(***************************************************************************)
(* AsyncWriter implements WriterContract: the history of a job's fate      *)
(* gives the status its submitter may rely on.                             *)
(***************************************************************************)
EXTENDS AsyncWriter

\* What the caller of Submit knows, or will find in the index.
StatusOf(f) ==
  CASE f \in {"new", "held"} -> "new"
    [] f \in {"refused", "over_limit", "dropped", "lost"} -> "refused"
    [] f = "queued" -> "accepted"
    [] f \in {"evicted", "failed"} -> "lost"
    [] f = "indexed" -> "recorded"

PhaseOf(pc) ==
  CASE pc = "open" -> "open" [] pc = "waiting" -> "closing" [] pc = "returned" -> "closed"

Phase == IF Crashed THEN "crashed" ELSE PhaseOf(cpc)

Contract == INSTANCE WriterContract WITH
  Objects <- Jobs \cup InitKeys,
  ObjectsOf <- [j \in Jobs |-> IF j \in WithInit THEN {j, InitKey[j]} ELSE {j}],
  status <- [j \in Jobs |-> StatusOf(fate[j])],
  durable <- stored,
  phase <- Phase

\* The writer keeps its contract in every interleaving: a job is accepted only
\* before Close, settled once and by one transaction or one failed batch,
\* recorded only when its objects are durable, Close returns only when no accepted
\* job is left, and the process can only crash in a Submit that Close overtook
\* (Submit, worker, processBatch, Close).
ImplementsContract == Contract!Spec

\* And it keeps it in time: every accepted job is settled and every Close returns,
\* unless the process crashes.
HonoursContract == Contract!FairSpec

=============================================================================
