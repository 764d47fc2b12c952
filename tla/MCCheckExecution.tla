--------------------------- MODULE MCCheckExecution ---------------------------
(* A command that forks one descendant.                                     *)
EXTENDS CheckExecution

CONSTANT k1

Descendants == {k1}
=============================================================================
