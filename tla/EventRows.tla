----------------------------- MODULE EventRows -----------------------------
(***************************************************************************)
(* The rows of one user's events and everyone who writes them: the card    *)
(* (mute, delete, undo), the field editor, the tick and the daily job, the *)
(* nightly purge of the trash, and the dual-date backfill run by hand.     *)
(* Handlers, tick and job read whole rows and write them back later, all   *)
(* columns but deleted_at; none of them uses a transaction.                *)
(***************************************************************************)
EXTENDS Integers

CONSTANTS
  Updates,   \* goroutines, and the backfill's process
  Events,    \* ids
  Retention, \* SoftDeleteRetentionDays
  LastDay,   \* bound on days
  None

VARIABLES
  now,    \* the day
  rows,   \* of the events table; None when purged
  run     \* what each goroutine is at, and the rows it has read

vars == <<now, rows, run>>

Calendars == {"gregorian", "hebrew"}

\* The columns told apart: the calendar of the primary date, whether there is a
\* (Gregorian) secondary one, the calendar next_occurrence was computed in, whether
\* secondary_next_occurrence is set, is_active, and the day of deleted_at.
Row == [cal : Calendars, second : BOOLEAN, occ : Calendars, secOcc : BOOLEAN,
        active : BOOLEAN, deleted : 0 .. LastDay \cup {None}]

\* Assumed where the module is instantiated.
EventRowsAssumption ==
  Retention \in Nat /\ LastDay \in Nat /\ None \notin Nat /\ None \notin Row

Born(cal, second) == [cal |-> cal, second |-> second, occ |-> cal, secOcc |-> second,
                      active |-> TRUE, deleted |-> None]

Rest == [do |-> "nothing"]
Busy == {g \in Updates : run[g] # Rest}

\* Events as CreateMinimalEvent makes them: a second date only beside a Hebrew one.
Init ==
  /\ now = 0
  /\ rows \in [Events -> {Born("gregorian", FALSE), Born("hebrew", FALSE), Born("hebrew", TRUE)}]
  /\ run = [g \in Updates |-> Rest]

Exists(e) == rows[e] # None
Live(e)   == Exists(e) /\ rows[e].deleted = None

Return(g) == run' = [run EXCEPT ![g] = Rest]

-----------------------------------------------------------------------------
(* Read, then write: g holds the rows it will write, each as it will write it. *)

\* recomputeOccurrence, of the dates in hand.
Recomputed(row) == [row EXCEPT !.occ = row.cal, !.secOcc = row.second]

\* TickReminders and RecomputeOccurrences move the tracks on that need it.
Advanced(row, tracks) ==
  [row EXCEPT !.occ = IF "primary" \in tracks THEN row.cal ELSE @,
              !.secOcc = IF row.second /\ "secondary" \in tracks THEN TRUE ELSE @]

Hold(g, do, copies) == run' = [run EXCEPT ![g] = [do |-> do, copies |-> copies]]

\* ToggleMute and UpdateEvent.
ReadOwned(g, e) ==
  /\ run[g] = Rest /\ Live(e)
  /\ \/ Hold(g, "write", [x \in {e} |-> [rows[e] EXCEPT !.active = ~@]])
     \/ Hold(g, "write", [x \in {e} |-> Recomputed(rows[e])])
  /\ UNCHANGED <<now, rows>>

\* The events the job lists, or the tick finds in its window; what changes is written.
ReadActive(g) ==
  /\ run[g] = Rest
  /\ \E S \in SUBSET {e \in Events : Live(e) /\ rows[e].active} :
       \E tracks \in [S -> SUBSET {"primary", "secondary"} \ {{}}] :
         S # {} /\ Hold(g, "write", [e \in S |-> Advanced(rows[e], tracks[e])])
  /\ UNCHANGED <<now, rows>>

\* Mutant: the secondary columns are left alone.
WrittenPrimary(e, copy) ==
  [copy EXCEPT !.deleted = rows[e].deleted, !.second = rows[e].second, !.secOcc = rows[e].secOcc]

\* Mutant: deleted_at is written as it was read.
WrittenDeleted(e, copy) == copy

\* EventRepo.Update: every column but deleted_at.
Written(e, copy) == [copy EXCEPT !.deleted = rows[e].deleted]

\* Without a row the statement changes nothing.
Write(g, e) ==
  /\ run[g].do = "write" /\ e \in DOMAIN run[g].copies
  /\ rows' = [rows EXCEPT ![e] = IF Exists(e) THEN Written(e, run[g].copies[e]) ELSE None]
  /\ LET rest == DOMAIN run[g].copies \ {e}
     IN  IF rest = {} THEN Return(g) ELSE Hold(g, "write", [x \in rest |-> run[g].copies[x]])
  /\ UNCHANGED now

-----------------------------------------------------------------------------
(* The trash *)

\* DeleteEvent looks for a live row, RestoreEvent for any.
ReadForTrash(g, e) ==
  /\ run[g] = Rest
  /\ \/ Live(e) /\ run' = [run EXCEPT ![g] = [do |-> "delete", event |-> e]]
     \/ Exists(e) /\ run' = [run EXCEPT ![g] = [do |-> "restore", event |-> e]]
  /\ UNCHANGED <<now, rows>>

SetDeleted(g, do, value) ==
  /\ run[g].do = do
  /\ LET e == run[g].event
     IN  rows' = [rows EXCEPT ![e] = IF Exists(e) THEN [rows[e] EXCEPT !.deleted = value] ELSE None]
  /\ Return(g)
  /\ UNCHANGED now

SoftDelete(g) == SetDeleted(g, "delete", now)
Restore(g)    == SetDeleted(g, "restore", None)

\* PurgeSoftDeleted takes its cutoff first, then asks for the users.
PurgeStart(g) ==
  /\ run[g] = Rest
  /\ run' = [run EXCEPT ![g] = [do |-> "purge", cutoff |-> now - Retention]]
  /\ UNCHANGED <<now, rows>>

Expired(e, cutoff) == rows[e].deleted # None /\ rows[e].deleted < cutoff

\* PurgeDeletedBefore: one statement.
Purge(g) ==
  /\ run[g].do = "purge"
  /\ rows' = [e \in Events |-> IF Exists(e) /\ Expired(e, run[g].cutoff) THEN None ELSE rows[e]]
  /\ Return(g)
  /\ UNCHANGED now

-----------------------------------------------------------------------------
(* The dual-date backfill *)

Eligible == {e \in Events : /\ Live(e) /\ rows[e].active
                            /\ rows[e].cal = "gregorian" /\ ~rows[e].second}

\* Plan computes both occurrences of the dates it finds.
Plan(g) ==
  /\ run[g] = Rest /\ Eligible # {}
  /\ run' = [run EXCEPT ![g] = [do |-> "apply", events |-> Eligible]]
  /\ UNCHANGED <<now, rows>>

Converted(row) ==
  [row EXCEPT !.cal = "hebrew", !.second = TRUE, !.occ = "hebrew", !.secOcc = TRUE]

\* Apply: one transaction that writes the planned dates by id, whatever has become
\* of the rows meanwhile.
Apply(g) ==
  /\ run[g].do = "apply"
  /\ rows' = [e \in Events |-> IF e \in run[g].events /\ Exists(e) THEN Converted(rows[e]) ELSE rows[e]]
  /\ Return(g)
  /\ UNCHANGED now

\* A statement fails, or the process stops: a backfill is rolled back.
Stop(g) == run[g] # Rest /\ Return(g) /\ UNCHANGED <<now, rows>>

Tick == now < LastDay /\ now' = now + 1 /\ UNCHANGED <<rows, run>>

Step(g) ==
  \/ \E e \in Events : ReadOwned(g, e) \/ ReadForTrash(g, e) \/ Write(g, e)
  \/ ReadActive(g) \/ SoftDelete(g) \/ Restore(g) \/ PurgeStart(g) \/ Purge(g)
  \/ Plan(g) \/ Apply(g) \/ Stop(g)

Next == Tick \/ \E g \in Updates : Step(g)

Spec == Init /\ [][Next]_vars

-----------------------------------------------------------------------------
\* Rows are well formed.
TypeOK == now \in 0 .. LastDay /\ rows \in [Events -> Row \cup {None}]

Coherent(row) ==
  /\ row.second => row.cal = "hebrew"
  /\ row.occ = row.cal
  /\ row.secOcc = row.second

\* Whoever writes, and whatever they read before others wrote: a second date stands
\* only beside a Hebrew primary one, and each occurrence is one of the dates now in
\* the row (the rows are written whole, and Apply writes dates and occurrences
\* together).
DatesCoherent == \A e \in Events : Exists(e) => Coherent(rows[e])

\* An event in the trash stays there until the user takes it back, and is not gone
\* before it has been there for the retention: no full-row write of a handler, tick or
\* job that read it before the deletion brings it back.
TrashKept ==
  [][\A e \in Events : Exists(e) =>
       /\ rows[e].deleted # None /\ Exists(e)' /\ rows'[e].deleted = None =>
            \E g \in Updates : run[g] = [do |-> "restore", event |-> e] /\ run'[g] = Rest
       /\ rows'[e] = None => rows[e].deleted # None /\ now - rows[e].deleted > Retention]_vars

\* What makes the two inductive: a copy in hand is a coherent row, whoever read it and
\* whenever, and a purge's cutoff only gets older.
InHand(r) ==
  \/ r = Rest
  \/ /\ r.do = "write" /\ DOMAIN r.copies \subseteq Events
     /\ \A e \in DOMAIN r.copies : r.copies[e] \in Row /\ Coherent(r.copies[e])
  \/ \E e \in Events : r \in {[do |-> "delete", event |-> e], [do |-> "restore", event |-> e]}
  \/ /\ r.do = "purge" /\ r = [do |-> "purge", cutoff |-> r.cutoff]
     /\ r.cutoff \in Int /\ r.cutoff <= now - Retention
  \/ \E S \in SUBSET Events : r = [do |-> "apply", events |-> S]

HeldIsCoherent == DOMAIN run = Updates /\ \A g \in Updates : InHand(run[g])
=============================================================================
