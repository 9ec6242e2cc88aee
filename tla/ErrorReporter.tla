--------------------------- MODULE ErrorReporter ---------------------------
(***************************************************************************)
(* router/errors.go: an update that ends in an error or a panic tells its  *)
(* user, then the admins, the latter once an hour for each signature of an *)
(* error.  The clock is read before the lock is taken, so that updates may *)
(* come to the map with times older than those it was last used at.        *)
(***************************************************************************)
EXTENDS Integers

CONSTANTS
  Updates,     \* goroutines
  Signatures,
  Window,      \* dedupWindow
  LastMoment,  \* bound on the clock
  None

\* Assumed where the module is instantiated.
ErrorReporterAssumption ==
  Window \in Nat \ {0} /\ LastMoment \in Nat /\ None \notin Nat

VARIABLES
  now,
  nextReport, \* signature -> time, None without an entry
  run,        \* what each goroutine is at
  told        \* history: the clock of the last report of each signature

vars == <<now, nextReport, run, told>>

Rest == [pc |-> "idle"]

Nothing == [s \in Signatures |-> None]

Init == now = 0 /\ nextReport = Nothing /\ told = Nothing /\ run = [g \in Updates |-> Rest]

At(g, pc) == run[g].pc = pc

\* report: the user is told first, however long that takes.
Report(g, s) ==
  /\ run[g] = Rest
  /\ run' = [run EXCEPT ![g] = [pc |-> "notify", signature |-> s]]
  /\ UNCHANGED <<now, nextReport, told>>

\* notifyAdmins, before it has the lock.
ReadClock(g) ==
  /\ At(g, "notify")
  /\ run' = [run EXCEPT ![g] = [pc |-> "lock", signature |-> run[g].signature, at |-> now]]
  /\ UNCHANGED <<now, nextReport, told>>

\* Mutant: the entries that are still to come go.
SweptEarly(t) ==
  [s \in Signatures |-> IF nextReport[s] # None /\ nextReport[s] < t + Window THEN None ELSE nextReport[s]]

Swept(t) ==
  [s \in Signatures |-> IF nextReport[s] # None /\ t > nextReport[s] THEN None ELSE nextReport[s]]

NotifyAdmins(g) ==
  LET s == run[g].signature
      t == run[g].at
  IN  /\ At(g, "lock")
      /\ IF Swept(t)[s] # None /\ t < Swept(t)[s]
         THEN nextReport' = Swept(t) /\ UNCHANGED told
         ELSE /\ nextReport' = [Swept(t) EXCEPT ![s] = t + Window]
              /\ told' = [told EXCEPT ![s] = t]
      /\ run' = [run EXCEPT ![g] = Rest]
      /\ UNCHANGED now

\* The map is in memory.
Restart ==
  /\ nextReport' = Nothing /\ told' = Nothing
  /\ run' = [g \in Updates |-> Rest]
  /\ UNCHANGED now

Tick == now < LastMoment /\ now' = now + 1 /\ UNCHANGED <<nextReport, run, told>>

Next ==
  \/ Tick \/ Restart
  \/ \E g \in Updates : (\E s \in Signatures : Report(g, s)) \/ ReadClock(g) \/ NotifyAdmins(g)

Spec == Init /\ [][Next]_vars

-----------------------------------------------------------------------------
TypeOK ==
  /\ nextReport \in [Signatures -> 0 .. LastMoment + Window \cup {None}]
  /\ told \in [Signatures -> 0 .. LastMoment \cup {None}]
  /\ \A g \in Updates : At(g, "lock") => run[g].at <= now

\* The admins hear of an error again only when the hour that began with the clock of
\* its last report is over, though a sweep by a later clock may have dropped the entry
\* before an update with an earlier one looks for it; and an error that is kept from
\* them came within that hour.
ReportsApart ==
  [][\A g \in Updates, s \in Signatures :
       At(g, "lock") /\ run'[g] = Rest /\ run[g].signature = s /\ nextReport' # Nothing =>
         \/ told'[s] = run[g].at /\ (told[s] = None \/ now >= told[s] + Window)
         \/ told'[s] = told[s] /\ told[s] # None /\ run[g].at < told[s] + Window]_vars
=============================================================================
