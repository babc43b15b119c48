------------------------------- MODULE MCIndex -------------------------------
(* A database that is new, or has the rows of an older version. *)
EXTENDS Index

MCOldSets == {{}, {[start |-> 0, end |-> 2], [start |-> 3, end |-> 4]}}

=============================================================================
