----------------------------- MODULE MCRetention -----------------------------
(* The database of an older version has one GOP. *)
EXTENDS Retention

MCOldGOPs == {[start |-> 0, end |-> 1, init |-> 0]}

=============================================================================
