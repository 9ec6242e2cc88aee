-------------------------- MODULE MCReminderEngine --------------------------
(***************************************************************************)
(* Instances of ReminderEngine for TLC: a calendar of a few days in which  *)
(* each date recurs every Period days.                                     *)
(***************************************************************************)
EXTENDS ReminderEngine, TLC

CONSTANTS u1, e1, Period

\* Dates are residues modulo Period.
MCNextOcc ==
  [dt \in Dates |-> [d \in 0 .. LastDay |->
     LET later == {x \in d .. LastDay : x % Period = dt}
     IN  IF later = {} THEN LastDay ELSE CHOOSE x \in later : \A y \in later : x <= y]]

\* One event has rule 1 to itself, the day before; rule 2 is global, on the day.
OneOwner  == [e \in {e1} |-> u1]
OneUser   == [r \in {1, 2} |-> u1]
OneScope  == 1 :> e1 @@ 2 :> Global
OneOffset == 1 :> 1 @@ 2 :> 0
Midnight  == [r \in {1, 2} |-> 0]
Utc       == [u \in Users |-> 0]
OneStart  == {[t \in Tracks |-> 0]}

\* A user east of Greenwich, an event with two tracks and a time; both rules
\* fire at that time, one as a day-of rule and one as a minute rule.
East      == [u \in Users |-> 1]
DayOf     == [r \in {1, 2} |-> 0]
BothGlobal == [r \in {1, 2} |-> Global]
Noon      == [r \in {1, 2} |-> 1]
TwoTracks == {[t \in Tracks |-> IF t = "primary" THEN 0 ELSE 1],
              [t \in Tracks |-> 0]}

\* One global rule.
OneRule   == [r \in Rules |-> u1]
OneGlobal == [r \in Rules |-> Global]
Zero      == [r \in Rules |-> 0]
=============================================================================
