------------------------------- MODULE Rules -------------------------------
(***************************************************************************)
(* A user's reminder rules as handlers/reminders.go adds, switches, times  *)
(* and deletes them.  Its buttons carry all they need; what is read before *)
(* a write is the row and, when a rule is added, the number of rules.      *)
(***************************************************************************)
EXTENDS Integers, FiniteSets

CONSTANTS
  Updates,  \* goroutines of the user's updates
  Events,
  Global,   \* the target of a rule for all events
  Ids,      \* bound: ids of rules, taken in order
  Limit     \* MaxReminderRulesPerEvent, MaxReminderRulesGlobal

Targets == Events \cup {Global}

\* Assumed where the module is instantiated.
RulesAssumption ==
  /\ Global \notin Events /\ Ids \subseteq Nat \ {0} /\ Limit \in Nat
  /\ IsFiniteSet(Updates) /\ Updates # {}

VARIABLES
  rules,   \* id -> row, for the ids in use
  lastId,
  live,    \* events that are not in the trash
  known,   \* events that still have a row
  run      \* what each goroutine is at

vars == <<rules, lastId, live, known, run>>

Rest == [pc |-> "idle"]
Busy == {g \in Updates : run[g] # Rest}

Init ==
  /\ rules = [i \in {} |-> {}] /\ lastId = 0 /\ live = Events /\ known = Events
  /\ run = [g \in Updates |-> Rest]

Of(t) == {i \in DOMAIN rules : rules[i].of = t}

At(g, pc) == run[g].pc = pc
Return(g) == run' = [run EXCEPT ![g] = Rest]
Goto(g, pc) == run' = [run EXCEPT ![g].pc = pc]

-----------------------------------------------------------------------------
(* cbRemPickOffset *)

\* Mutant: the limit itself is still let through.
MaxReachedLater(t) == Cardinality(Of(t)) > Limit

MaxReached(t) == Cardinality(Of(t)) >= Limit

Count(g, t) ==
  /\ run[g] = Rest
  /\ ~MaxReached(t)
  /\ run' = [run EXCEPT ![g] = [pc |-> IF t = Global THEN "insert" ELSE "owned", of |-> t]]
  /\ UNCHANGED <<rules, lastId, live, known>>

Owned(g) ==
  /\ At(g, "owned")
  /\ IF run[g].of \in live THEN Goto(g, "insert") ELSE Return(g)
  /\ UNCHANGED <<rules, lastId, live, known>>

\* The foreign key refuses a rule of an event that was purged.
Create(g) ==
  /\ At(g, "insert")
  /\ IF run[g].of \in known \cup {Global}
     THEN /\ lastId + 1 \in Ids
          /\ lastId' = lastId + 1
          /\ rules' = [i \in DOMAIN rules \cup {lastId + 1} |->
                         IF i = lastId + 1 THEN [of |-> run[g].of, enabled |-> TRUE]
                         ELSE rules[i]]
     ELSE UNCHANGED <<rules, lastId>>
  /\ Return(g)
  /\ UNCHANGED <<live, known>>

-----------------------------------------------------------------------------
(* cbRemToggle, cbRemSetTime and cbRemDelete read the row, then write *)

GetOwned(g, i, do) ==
  /\ run[g] = Rest
  /\ run' = [run EXCEPT ![g] = [pc |-> do, id |-> i, row |-> rules[i]]]
  /\ UNCHANGED <<rules, lastId, live, known>>

Write(g, pc, row) ==
  /\ At(g, pc)
  /\ rules' = [i \in DOMAIN rules |-> IF i = run[g].id THEN row ELSE rules[i]]
  /\ Return(g)
  /\ UNCHANGED <<lastId, live, known>>

\* Toggle flips what is there; Update writes the row with its new time, and all else as
\* it was read.
Toggle(g)  == Write(g, "toggle", [rules[run[g].id] EXCEPT !.enabled = ~@])
SetTime(g) == Write(g, "time", run[g].row)

Delete(g) ==
  /\ At(g, "delete")
  /\ rules' = [i \in DOMAIN rules \ {run[g].id} |-> rules[i]]
  /\ Return(g)
  /\ UNCHANGED <<lastId, live, known>>

\* A statement fails, or the process stops.
Stop(g) == g \in Busy /\ Return(g) /\ UNCHANGED <<rules, lastId, live, known>>

-----------------------------------------------------------------------------
(* The events: trashed, taken back, and purged with their rules (CASCADE) *)

Trash(e) ==
  /\ e \in known
  /\ live' = IF e \in live THEN live \ {e} ELSE live \cup {e}
  /\ UNCHANGED <<rules, lastId, known, run>>

\* Mutant: foreign keys are off.
PurgeLeavesRules(e) ==
  /\ e \in known \ live
  /\ known' = known \ {e}
  /\ UNCHANGED <<rules, lastId, live, run>>

Purge(e) ==
  /\ e \in known \ live
  /\ known' = known \ {e}
  /\ rules' = [i \in DOMAIN rules \ Of(e) |-> rules[i]]
  /\ UNCHANGED <<lastId, live, run>>

Step(g) ==
  \/ (\E t \in Targets : Count(g, t)) \/ Owned(g) \/ Create(g)
  \/ (\E i \in DOMAIN rules, do \in {"toggle", "time", "delete"} : GetOwned(g, i, do))
  \/ Toggle(g) \/ SetTime(g) \/ Delete(g) \/ Stop(g)

Next == (\E e \in Events : Trash(e) \/ Purge(e)) \/ \E g \in Updates : Step(g)

Spec == Init /\ [][Next]_vars

-----------------------------------------------------------------------------
TypeOK ==
  /\ DOMAIN rules \subseteq Ids /\ \A i \in DOMAIN rules : i <= lastId /\ rules[i].of \in known \cup {Global}
  /\ live \subseteq known /\ known \subseteq Events

\* The limit on an event's rules, or on the global ones, is passed only by updates
\* that counted together, by fewer than the goroutines there are.
LimitOvershoot ==
  \A t \in Targets :
    /\ Cardinality(Of(t)) < Limit + Cardinality(Updates)
    /\ Cardinality(Of(t)) + Cardinality({g \in Busy : run[g].pc \in {"owned", "insert"} /\ run[g].of = t})
         <= Limit + Cardinality(Updates)
=============================================================================
