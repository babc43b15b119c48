--------------------------- MODULE WriterContract ---------------------------
(***************************************************************************)
(* What the asynchronous writer promises to a goroutine that calls Submit, *)
(* without channel, batches or workers.                                    *)
(*                                                                         *)
(* Submit either accepts a job (returns nil) or refuses it (an error, or a *)
(* panic).  An accepted job is settled once: recorded, which means that    *)
(* its objects are durable and the index names it, or lost, which the      *)
(* counters report.  Close ends acceptance first, and returns when every   *)
(* accepted job has been settled.  A Submit that Close overtakes may crash *)
(* the process, and that is the end of every promise.                      *)
(***************************************************************************)
CONSTANTS
  Jobs,        \* the jobs of a behaviour
  Objects,     \* keys of the objects that can be put in storage
  ObjectsOf    \* [Jobs -> SUBSET Objects], the objects a job brings

VARIABLES
  status,      \* [Jobs -> Statuses]
  durable,     \* the objects storage holds
  phase        \* "open", "closing" and "closed" by Close, or "crashed"

vars == <<status, durable, phase>>

Init ==
  /\ status = [j \in Jobs |-> "new"]
  /\ durable = {}
  /\ phase = "open"

Become(js, s) == status' = [j \in Jobs |-> IF j \in js THEN s ELSE status[j]]

All(js, s) == \A j \in js : status[j] = s

Accept(j) ==
  /\ phase = "open" /\ All({j}, "new")
  /\ Become({j}, "accepted")
  /\ UNCHANGED <<durable, phase>>

Refuse(j) ==
  /\ phase # "crashed" /\ All({j}, "new")
  /\ Become({j}, "refused")
  /\ UNCHANGED <<durable, phase>>

\* The refusal is a panic that nobody recovers.
Crash(j) ==
  /\ phase \in {"closing", "closed"} /\ All({j}, "new")
  /\ Become({j}, "refused")
  /\ phase' = "crashed" /\ UNCHANGED durable

\* An object becomes durable; a batch that fails later leaves it behind.
Store(o) ==
  /\ phase # "crashed"
  /\ durable' = durable \cup {o}
  /\ UNCHANGED <<status, phase>>

\* One index transaction: all of js, and only with all their objects.
Record(js) ==
  /\ phase # "crashed" /\ All(js, "accepted")
  /\ \A j \in js : ObjectsOf[j] \subseteq durable
  /\ Become(js, "recorded")
  /\ UNCHANGED <<durable, phase>>

\* A batch is given up, possibly by a Put that stored its object all the same.
Lose(js) ==
  /\ phase # "crashed" /\ All(js, "accepted")
  /\ Become(js, "lost")
  /\ durable' = durable \/ \E o \in Objects : durable' = durable \cup {o}
  /\ UNCHANGED phase

CloseBegin == phase = "open" /\ phase' = "closing" /\ UNCHANGED <<status, durable>>

CloseReturn ==
  /\ phase = "closing" /\ \A j \in Jobs : status[j] # "accepted"
  /\ phase' = "closed" /\ UNCHANGED <<status, durable>>

Batches == (SUBSET Jobs) \ {{}}

Settle(j) == \E js \in Batches : j \in js /\ (Record(js) \/ Lose(js))

Next ==
  \/ \E j \in Jobs : Accept(j) \/ Refuse(j) \/ Crash(j)
  \/ \E js \in Batches : Record(js) \/ Lose(js)
  \/ \E o \in Objects : Store(o)
  \/ CloseBegin \/ CloseReturn

Spec == Init /\ [][Next]_vars

\* An accepted job is settled in the end, and Close returns in the end, if the
\* process lives.
FairSpec == Spec /\ (\A j \in Jobs : WF_vars(Settle(j))) /\ WF_vars(CloseReturn)

=============================================================================
