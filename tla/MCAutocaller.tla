----------------------------- MODULE MCAutocaller -----------------------------
(* A small instance of Autocaller for TLC: only invariants are checked, and  *)
(* alerts, tickets and runs are interchangeable.                             *)
EXTENDS Autocaller, TLC

Symmetric == Permutations(Alert) \cup Permutations(Ticket) \cup Permutations(Run)
===============================================================================
