----------------------------- MODULE MCAddFlow -----------------------------
(***************************************************************************)
(* Instances of AddFlow.  Updates are interchangeable.                     *)
(***************************************************************************)
EXTENDS AddFlow, TLC

Keys == {"name", "month", "day", "year", "auto", "adar", "event"}

Symmetry == Permutations(Updates)
=============================================================================
