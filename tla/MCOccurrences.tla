--------------------------- MODULE MCOccurrences ---------------------------
(***************************************************************************)
(* Instances of Occurrences: the days around the ends of months and years  *)
(* of both calendars, and the two Adars.                                   *)
(***************************************************************************)
EXTENDS Occurrences

Dates(calendar, days, policies) ==
  {[calendar |-> calendar, month |-> x[1], day |-> x[2], policy |-> p] : x \in days, p \in policies}

\* The policy varies for the days it is about.
StoredDays ==
  UNION {
    Dates("gregorian", {<<1, 1>>, <<2, 27>>, <<2, 28>>, <<3, 1>>, <<4, 30>>, <<4, 31>>, <<5, 31>>, <<12, 31>>}, {"feb28"}),
    Dates("gregorian", {<<2, 29>>}, {"feb28", "mar01"}),
    Dates("hebrew", {<<6, 29>>, <<7, 1>>, <<8, 30>>, <<9, 30>>, <<5, 31>>, <<10, 3>>}, {"adar_i"}),
    Dates("hebrew", {<<12, 1>>, <<12, 30>>, <<13, 29>>}, {"adar_i", "adar_ii"})}
=============================================================================
