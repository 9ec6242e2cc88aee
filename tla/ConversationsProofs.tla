------------------------ MODULE ConversationsProofs ------------------------
(***************************************************************************)
(* Proofs about Conversations, for all values of the constants: what is    *)
(* proved of a module holds in the scene in which that module is at work.  *)
(***************************************************************************)
EXTENDS Conversations, FiniteSetTheorems, TLAPS

EvP == INSTANCE EventRowsProofs WITH now <- day, run <- rowsRun

-----------------------------------------------------------------------------
(* The scenes: in its own a module takes its steps, in the others it stands still *)

\* Whatever the scene, a step of the whole is a step of each module or none.
LEMMA EachSteps ==
  ASSUME [Next]_vars
  PROVE  /\ [Acc!Next]_accVars /\ [Edit!Next]_editVars /\ [Ev!Next]_rowsVars /\ [Imp!Next]_impVars
         /\ [Bc!Next]_bcVars /\ [Tpl!Next]_tplVars /\ [Rul!Next]_rulVars /\ [Err!Next]_errVars
BY DEF Next, vars, AccountStep, EditStep, RowsStep, ImportStep, BroadcastStep, TemplatesStep,
       RulesStep, ErrorsStep, OthersStandStill, Still

-----------------------------------------------------------------------------
(* The rows of events: EventRowsProofs, in this composition *)

\* What the module assumes of its constants is assumed here.
LEMMA RowsAssumption == EvP!EventRowsAssumption
BY ConversationsAssumption DEF Ev!EventRowsAssumption, Ev!Row, Ev!Calendars,
   EvP!EventRowsAssumption, EvP!Row, EvP!Calendars

\* The steps are the same ones, by whichever name.
LEMMA SameRowsSteps == Ev!Next <=> EvP!Next
BY DEF Ev!Next, Ev!Tick, Ev!Step, Ev!ReadOwned, Ev!ReadForTrash, Ev!Write, Ev!ReadActive,
       Ev!SoftDelete, Ev!Restore, Ev!SetDeleted, Ev!PurgeStart, Ev!Purge, Ev!Plan,
       Ev!Apply, Ev!Stop, Ev!Hold, Ev!Return, Ev!Recomputed, Ev!Advanced, Ev!Written, Ev!Exists,
       Ev!Live, Ev!Expired, Ev!Eligible, Ev!Converted, Ev!Rest,
       EvP!Next, EvP!Tick, EvP!Step, EvP!ReadOwned, EvP!ReadForTrash, EvP!Write,
       EvP!ReadActive, EvP!SoftDelete, EvP!Restore, EvP!SetDeleted, EvP!PurgeStart,
       EvP!Purge, EvP!Plan, EvP!Apply, EvP!Stop, EvP!Hold, EvP!Return, EvP!Recomputed,
       EvP!Advanced, EvP!Written, EvP!Exists, EvP!Live, EvP!Expired, EvP!Eligible, EvP!Converted,
       EvP!Rest

\* The rows' module takes its steps, or none.
LEMMA RowsBehaviour == Spec => EvP!Spec
<1>1. Init => EvP!Init
  BY DEF Init, Ev!Init, Ev!Born, Ev!Rest, EvP!Init, EvP!Born, EvP!Rest
<1>2. [Next]_vars => [EvP!Next]_(EvP!vars)
  BY EachSteps, SameRowsSteps DEF rowsVars, EvP!vars
<1> QED BY <1>1, <1>2, PTL DEF Spec, EvP!Spec

\* Each occurrence is one of the dates now in its row, and a second date stands beside a
\* Hebrew one: whoever of the handlers, the daily job and the backfill writes the row,
\* after whatever others wrote since it was read.
THEOREM DatesStayCoherent == Spec => []DatesCoherent
<1>1. EvP!Spec => []EvP!DatesCoherent
  BY RowsAssumption, EvP!RowsDatesCoherent
<1>2. EvP!DatesCoherent => DatesCoherent
  BY DEF DatesCoherent, Ev!DatesCoherent, Ev!Exists, Ev!Coherent,
         EvP!DatesCoherent, EvP!Exists, EvP!Coherent
<1> QED BY <1>1, <1>2, RowsBehaviour, PTL

\* An event in the trash stays there until the user takes it back, and is there for the
\* retention: no whole-row write of a handler or job that read it before its deletion
\* brings it back, and no purge takes it early.
THEOREM TrashStaysKept == Spec => TrashKept
<1>1. EvP!Spec => EvP!TrashKept
  BY RowsAssumption, EvP!TrashStays
<1>2. EvP!TrashKept => TrashKept
  BY DEF TrashKept, Ev!TrashKept, Ev!Exists, Ev!Rest, Ev!vars,
         EvP!TrashKept, EvP!Exists, EvP!Rest, EvP!vars
<1> QED BY <1>1, <1>2, RowsBehaviour, PTL

-----------------------------------------------------------------------------
(* The error reporter *)

\* What each goroutine of the reporter is at.
Reporting ==
  {Err!Rest} \cup [pc : {"notify"}, signature : Signatures]
    \cup [pc : {"lock"}, signature : Signatures, at : Nat]

\* An entry is that of the last report; where a sweep has dropped it, its hour is over;
\* and the clock a goroutine has read is no later than now.
ErrInv ==
  /\ clock \in Nat /\ nextReport \in [Signatures -> Nat \cup {None}] /\ told \in [Signatures -> Nat \cup {None}]
  /\ errRun \in [Updates -> Reporting]
  /\ \A g \in Updates : errRun[g].pc = "lock" => errRun[g].at <= clock
  /\ \A s \in Signatures :
       /\ nextReport[s] # None => told[s] # None /\ nextReport[s] = told[s] + Window
       /\ told[s] # None => told[s] <= clock
       /\ told[s] # None /\ nextReport[s] = None => told[s] + Window < clock

\* The constants of the reporter.
LEMMA ErrConstants == Window \in Nat /\ None \notin Nat
BY ConversationsAssumption DEF Err!ErrorReporterAssumption

\* Nothing has been reported.
LEMMA ErrInit == Init => ErrInv
<1> SUFFICES ASSUME Init PROVE ErrInv
  OBVIOUS
<1>1. clock = 0 /\ nextReport = [s \in Signatures |-> None] /\ told = [s \in Signatures |-> None]
      /\ errRun = [g \in Updates |-> Err!Rest]
  BY DEF Init, Err!Init, Err!Nothing
<1>2. errRun \in [Updates -> Reporting] /\ \A g \in Updates : errRun[g].pc # "lock"
  BY <1>1 DEF Reporting, Err!Rest
<1> QED BY <1>1, <1>2, ErrConstants DEF ErrInv

\* Who holds the lock, and what it knows.
LEMMA ErrLocked ==
  ASSUME ErrInv, NEW g \in Updates, errRun[g].pc = "lock"
  PROVE  errRun[g].signature \in Signatures /\ errRun[g].at \in Nat /\ errRun[g].at <= clock
BY DEF ErrInv, Reporting, Err!Rest

\* The map under the lock: the entries that are kept, the signature's own, and what was told.
NotifyLeaves(s, t) ==
  /\ nextReport' \in [Signatures -> Nat \cup {None}]
  /\ told' \in [Signatures -> Nat \cup {None}]
  /\ \A x \in Signatures \ {s} : told'[x] = told[x] /\ nextReport'[x] = Err!Swept(t)[x]
  /\ \/ /\ told'[s] = told[s] /\ nextReport'[s] = Err!Swept(t)[s]
        /\ nextReport[s] # None /\ t < nextReport[s]
     \/ /\ told'[s] = t /\ nextReport'[s] = t + Window
        /\ nextReport[s] = None \/ t >= nextReport[s]

\* What is done under the lock.
LEMMA NotifySteps ==
  ASSUME ErrInv, NEW g \in Updates, Err!NotifyAdmins(g)
  PROVE  /\ errRun[g].pc = "lock" /\ errRun' = [errRun EXCEPT ![g] = Err!Rest] /\ clock' = clock
         /\ NotifyLeaves(errRun[g].signature, errRun[g].at)
<1>1. errRun[g].pc = "lock" /\ errRun' = [errRun EXCEPT ![g] = Err!Rest] /\ clock' = clock
  BY DEF Err!NotifyAdmins, Err!At
<1>2. PICK s \in Signatures, t \in Nat : s = errRun[g].signature /\ t = errRun[g].at
  BY <1>1, ErrLocked
<1>3. Err!Swept(t) \in [Signatures -> Nat \cup {None}]
      /\ \A x \in Signatures : Err!Swept(t)[x] = IF nextReport[x] # None /\ t > nextReport[x]
                                                 THEN None ELSE nextReport[x]
  BY <1>2, ErrConstants DEF ErrInv, Err!Swept
<1>4. \/ /\ Err!Swept(t)[s] # None /\ t < Err!Swept(t)[s]
         /\ nextReport' = Err!Swept(t) /\ told' = told
      \/ /\ ~(Err!Swept(t)[s] # None /\ t < Err!Swept(t)[s])
         /\ nextReport' = [Err!Swept(t) EXCEPT ![s] = t + Window]
         /\ told' = [told EXCEPT ![s] = t]
  BY <1>2 DEF Err!NotifyAdmins
<1>5. told \in [Signatures -> Nat \cup {None}] /\ nextReport \in [Signatures -> Nat \cup {None}]
  BY DEF ErrInv
<1> SUFFICES NotifyLeaves(s, t)
  BY <1>1, <1>2
<1>6. CASE /\ Err!Swept(t)[s] # None /\ t < Err!Swept(t)[s]
           /\ nextReport' = Err!Swept(t) /\ told' = told
  BY <1>2, <1>3, <1>5, <1>6, ErrConstants DEF NotifyLeaves
<1>7. CASE /\ ~(Err!Swept(t)[s] # None /\ t < Err!Swept(t)[s])
           /\ nextReport' = [Err!Swept(t) EXCEPT ![s] = t + Window]
           /\ told' = [told EXCEPT ![s] = t]
  <2>1. nextReport[s] = None \/ t >= nextReport[s]
    BY <1>2, <1>3, <1>5, <1>7, ErrConstants
  <2>2. t + Window \in Nat
    BY <1>2, ErrConstants
  <2> QED BY <1>2, <1>3, <1>5, <1>7, <2>1, <2>2 DEF NotifyLeaves
<1> QED BY <1>4, <1>6, <1>7

\* Whoever acts, the entries stay those of the last reports.
LEMMA ErrNext == ASSUME ErrInv, [Next]_vars PROVE ErrInv'
<1>1. [Err!Next]_errVars
  BY EachSteps
<1>2. CASE UNCHANGED errVars
  BY <1>2 DEF errVars, ErrInv, Reporting
<1>3. CASE Err!Tick
  <2>1. clock' = clock + 1 /\ clock \in Nat /\ UNCHANGED <<nextReport, errRun, told>>
    BY <1>3 DEF Err!Tick, ErrInv
  <2>2. \A g \in Updates : errRun[g].pc = "lock" => errRun[g].at \in Nat /\ errRun[g].at <= clock
    BY ErrLocked
  <2>3. \A s \in Signatures : told[s] # None => told[s] \in Nat /\ told[s] + Window \in Nat
    BY ErrConstants DEF ErrInv
  <2>4. \A s \in Signatures :
          /\ told[s] # None => told[s] <= clock'
          /\ told[s] # None /\ nextReport[s] = None => told[s] + Window < clock'
    BY <2>1, <2>3 DEF ErrInv
  <2>5. \A g \in Updates : errRun[g].pc = "lock" => errRun[g].at <= clock'
    BY <2>1, <2>2
  <2> QED BY <2>1, <2>4, <2>5 DEF ErrInv
<1>4. CASE Err!Restart
  <2>1. clock' = clock /\ nextReport' = [s \in Signatures |-> None]
        /\ told' = [s \in Signatures |-> None] /\ errRun' = [g \in Updates |-> Err!Rest]
    BY <1>4 DEF Err!Restart, Err!Nothing
  <2>2. errRun' \in [Updates -> Reporting] /\ \A g \in Updates : errRun'[g].pc # "lock"
    BY <2>1 DEF Reporting, Err!Rest
  <2> QED BY <2>1, <2>2, ErrConstants DEF ErrInv
<1>5. ASSUME NEW g \in Updates, NEW s \in Signatures, Err!Report(g, s)
      PROVE  ErrInv'
  <2> DEFINE r == [pc |-> "notify", signature |-> s]
  <2>1. errRun' = [errRun EXCEPT ![g] = r] /\ r \in Reporting /\ r.pc # "lock"
        /\ UNCHANGED <<clock, nextReport, told>>
    BY <1>5 DEF Err!Report, Reporting
  <2> HIDE DEF r
  <2> QED BY <2>1 DEF ErrInv
<1>6. ASSUME NEW g \in Updates, Err!ReadClock(g)
      PROVE  ErrInv'
  <2> DEFINE r == [pc |-> "lock", signature |-> errRun[g].signature, at |-> clock]
  <2>1. errRun' = [errRun EXCEPT ![g] = r] /\ UNCHANGED <<clock, nextReport, told>>
        /\ errRun[g].pc = "notify"
    BY <1>6 DEF Err!ReadClock, Err!At
  <2>2. r \in Reporting /\ r.at <= clock
    <3>1. errRun[g].signature \in Signatures /\ clock \in Nat
      BY <2>1 DEF ErrInv, Reporting, Err!Rest
    <3> QED BY <3>1 DEF Reporting
  <2> HIDE DEF r
  <2> QED BY <2>1, <2>2 DEF ErrInv
<1>7. ASSUME NEW g \in Updates, Err!NotifyAdmins(g)
      PROVE  ErrInv'
  <2> DEFINE s == errRun[g].signature
             t == errRun[g].at
  <2>1. s \in Signatures /\ t \in Nat /\ t <= clock
    BY <1>7, NotifySteps, ErrLocked
  <2>2. /\ errRun' = [errRun EXCEPT ![g] = Err!Rest] /\ clock' = clock
        /\ nextReport' \in [Signatures -> Nat \cup {None}]
        /\ told' \in [Signatures -> Nat \cup {None}]
        /\ \A x \in Signatures \ {s} :
             told'[x] = told[x] /\ nextReport'[x] = Err!Swept(t)[x]
        /\ \/ told'[s] = told[s] /\ nextReport'[s] = Err!Swept(t)[s]
           \/ told'[s] = t /\ nextReport'[s] = t + Window
    BY <1>7, NotifySteps DEF NotifyLeaves
  <2>3. \A x \in Signatures : Err!Swept(t)[x] = IF nextReport[x] # None /\ t > nextReport[x]
                                                THEN None ELSE nextReport[x]
    BY DEF Err!Swept
  <2>4. errRun' \in [Updates -> Reporting]
        /\ \A h \in Updates : errRun'[h].pc = "lock" => errRun'[h].at <= clock
    BY <2>2 DEF ErrInv, Reporting, Err!Rest
  <2> HIDE DEF s, t
  <2>5. ASSUME NEW x \in Signatures
        PROVE  /\ nextReport'[x] # None => told'[x] # None /\ nextReport'[x] = told'[x] + Window
               /\ told'[x] # None => told'[x] <= clock
               /\ told'[x] # None /\ nextReport'[x] = None => told'[x] + Window < clock
    <3>1. \/ told'[x] = told[x] /\ nextReport'[x] = Err!Swept(t)[x]
          \/ told'[x] = t /\ nextReport'[x] = t + Window
      BY <2>2
    <3> QED BY <2>1, <2>3, <3>1, ErrConstants DEF ErrInv
  <2> QED BY <2>2, <2>4, <2>5 DEF ErrInv
<1> QED BY <1>1, <1>2, <1>3, <1>4, <1>5, <1>6, <1>7 DEF Err!Next

\* The admins hear of an error again only when the hour that began with the clock of its
\* last report is over, and an error kept from them came within that hour, though clocks
\* are read before the lock is taken and a later one may have swept the map in between.
THEOREM ReportsStayApart == Spec => ReportsApart
<1>1. ErrInv /\ [Next]_vars =>
        [\A g \in Updates, s \in Signatures :
           Err!At(g, "lock") /\ errRun'[g] = Err!Rest /\ errRun[g].signature = s /\ nextReport' # Err!Nothing =>
             \/ told'[s] = errRun[g].at /\ (told[s] = None \/ clock >= told[s] + Window)
             \/ told'[s] = told[s] /\ told[s] # None /\ errRun[g].at < told[s] + Window]_(Err!vars)
  <2> SUFFICES ASSUME ErrInv, [Next]_vars, NEW g \in Updates, NEW s \in Signatures,
                      errRun[g].pc = "lock", errRun'[g] = Err!Rest, errRun[g].signature = s,
                      nextReport' # Err!Nothing, ~UNCHANGED Err!vars
               PROVE  \/ told'[s] = errRun[g].at /\ (told[s] = None \/ clock >= told[s] + Window)
                      \/ told'[s] = told[s] /\ told[s] # None /\ errRun[g].at < told[s] + Window
    BY DEF Err!At
  <2>1. errRun'[g] # errRun[g]
    BY DEF Err!Rest
  <2>2. Err!NotifyAdmins(g)
    <3>1. Err!Next
      BY EachSteps DEF errVars, Err!vars
    <3>2. ~Err!Tick /\ ~Err!Restart
      BY <2>1 DEF Err!Tick, Err!Restart
    <3>3. ASSUME NEW h \in Updates, NEW x \in Signatures, Err!Report(h, x) PROVE FALSE
      BY <2>1, <3>3 DEF Err!Report, ErrInv, Err!Rest
    <3>4. ASSUME NEW h \in Updates, Err!ReadClock(h) PROVE FALSE
      BY <2>1, <3>4 DEF Err!ReadClock, Err!At, ErrInv, Err!Rest
    <3>5. ASSUME NEW h \in Updates, h # g PROVE ~Err!NotifyAdmins(h)
      BY <2>1, <3>5 DEF Err!NotifyAdmins, ErrInv
    <3> QED BY <3>1, <3>2, <3>3, <3>4, <3>5 DEF Err!Next
  <2>3. errRun[g].at \in Nat /\ errRun[g].at <= clock
    BY ErrLocked
  <2>4. \/ /\ told'[s] = told[s] /\ nextReport[s] # None /\ errRun[g].at < nextReport[s]
        \/ /\ told'[s] = errRun[g].at /\ (nextReport[s] = None \/ errRun[g].at >= nextReport[s])
    BY <2>2, NotifySteps DEF NotifyLeaves
  <2> QED BY <2>3, <2>4, ErrConstants DEF ErrInv
<1> QED BY <1>1, ErrInit, ErrNext, PTL DEF Spec, ReportsApart, Err!ReportsApart

-----------------------------------------------------------------------------
(* The limits: updates that counted together *)

\* Finite sets and their sizes are the same in the modules instantiated here.
LEMMA SameSizes ==
  /\ \A S : (Rul!IsFiniteSet(S) <=> IsFiniteSet(S)) /\ (Tpl!IsFiniteSet(S) <=> IsFiniteSet(S))
  /\ \A S : Rul!Cardinality(S) = Cardinality(S) /\ Tpl!Cardinality(S) = Cardinality(S)
BY DEF Rul!IsFiniteSet, Tpl!IsFiniteSet, IsFiniteSet, Rul!Cardinality, Tpl!Cardinality, Cardinality

\* The updates under way are finitely many, and one at least.
LEMMA UpdatesFinite ==
  /\ IsFiniteSet(Updates) /\ Cardinality(Updates) \in Nat /\ Cardinality(Updates) > 0
  /\ RuleLimit \in Nat /\ TemplateLimit \in Nat
BY FS_EmptySet, FS_CardinalityType, SameSizes, ConversationsAssumption
   DEF Rul!RulesAssumption, Tpl!TemplatesAssumption

\* A part of a finite set is no larger.
LEMMA PartOf ==
  ASSUME NEW S, NEW T, IsFiniteSet(S), T \subseteq S
  PROVE  IsFiniteSet(T) /\ Cardinality(T) \in Nat /\ Cardinality(S) \in Nat
         /\ Cardinality(T) <= Cardinality(S)
BY FS_Subset, FS_CardinalityType

\* One may be counted and one be there more, but not both without one counted less.
LEMMA Moved ==
  ASSUME NEW A, NEW B, NEW A2, NEW B2, NEW N \in Nat, IsFiniteSet(A), IsFiniteSet(B),
         Cardinality(A) + Cardinality(B) < N,
         \/ A2 \subseteq A /\ B2 \subseteq B
         \/ \E x, y : A2 \subseteq A \cup {x} /\ y \in B /\ B2 \subseteq B \ {y}
  PROVE  Cardinality(A2) + Cardinality(B2) < N
<1>1. CASE A2 \subseteq A /\ B2 \subseteq B
  <2>1. Cardinality(A2) <= Cardinality(A) /\ Cardinality(B2) <= Cardinality(B)
        /\ Cardinality(A) \in Nat /\ Cardinality(B) \in Nat /\ Cardinality(A2) \in Nat
        /\ Cardinality(B2) \in Nat
    BY <1>1, PartOf
  <2> QED BY <2>1
<1>2. ASSUME NEW x, NEW y, A2 \subseteq A \cup {x}, y \in B, B2 \subseteq B \ {y}
      PROVE  Cardinality(A2) + Cardinality(B2) < N
  <2>1. IsFiniteSet(A \cup {x}) /\ Cardinality(A \cup {x}) <= Cardinality(A) + 1
        /\ Cardinality(A) \in Nat
    <3>1. IsFiniteSet(A \cup {x})
          /\ Cardinality(A \cup {x}) = IF x \in A THEN Cardinality(A) ELSE Cardinality(A) + 1
      BY FS_AddElement
    <3>2. Cardinality(A) \in Nat
      BY FS_CardinalityType
    <3> QED BY <3>1, <3>2
  <2>2. IsFiniteSet(B \ {y}) /\ Cardinality(B \ {y}) = Cardinality(B) - 1 /\ Cardinality(B) \in Nat
    BY <1>2, FS_RemoveElement, FS_CardinalityType
  <2>3. Cardinality(A2) <= Cardinality(A \cup {x}) /\ Cardinality(A2) \in Nat
        /\ Cardinality(A \cup {x}) \in Nat
    BY <1>2, <2>1, PartOf
  <2>4. Cardinality(B2) <= Cardinality(B \ {y}) /\ Cardinality(B2) \in Nat
    BY <1>2, <2>2, PartOf
  <2> QED BY <2>1, <2>2, <2>3, <2>4
<1> QED BY <1>1, <1>2

-----------------------------------------------------------------------------
(* Reminder rules *)

RuleTargets == FewEvents \cup {Global}
RuleRow == [of : RuleTargets, enabled : BOOLEAN]

\* What each goroutine of the rules is at.
Ruling ==
  {Rul!Rest} \cup [pc : {"owned", "insert"}, of : RuleTargets]
    \cup [pc : {"toggle", "time", "delete"}, id : Nat, row : RuleRow]

\* Those who have counted the rules of a target and not yet inserted one.
Counted(t) == {g \in Updates : rulesRun[g].pc \in {"owned", "insert"} /\ rulesRun[g].of = t}

RulesRoom ==
  \A t \in RuleTargets :
    Cardinality(Rul!Of(t)) + Cardinality(Counted(t)) < RuleLimit + Cardinality(Updates)

\* Ids are never used again, so that a rule in hand is still of the target it is of in the
\* table; and who counts finds room.
RulesInv ==
  /\ lastId \in Nat /\ DOMAIN rules \subseteq 1 .. lastId
  /\ \A i \in DOMAIN rules : rules[i] \in RuleRow
  /\ rulesRun \in [Updates -> Ruling]
  /\ \A g \in Updates : rulesRun[g].pc \in {"toggle", "time", "delete"} =>
       /\ rulesRun[g].id <= lastId
       /\ rulesRun[g].id \in DOMAIN rules => rulesRun[g].row.of = rules[rulesRun[g].id].of
  /\ RulesRoom

\* The rules of a target and those who counted them are finitely many.
LEMMA RulesFinite ==
  ASSUME RulesInv, NEW t
  PROVE  IsFiniteSet(Rul!Of(t)) /\ IsFiniteSet(Counted(t))
<1>1. IsFiniteSet(1 .. lastId)
  BY FS_Interval DEF RulesInv
<1>2. Rul!Of(t) \subseteq 1 .. lastId
  BY DEF RulesInv, Rul!Of
<1>3. Counted(t) \subseteq Updates
  BY DEF Counted
<1> QED BY <1>1, <1>2, <1>3, UpdatesFinite, FS_Subset

\* There is no rule at first.
LEMMA RulesInit == Init => RulesInv
<1> SUFFICES ASSUME Init PROVE RulesInv
  OBVIOUS
<1>1. rules = [i \in {} |-> {}] /\ lastId = 0 /\ rulesRun = [g \in Updates |-> Rul!Rest]
  BY DEF Init, Rul!Init
<1>2. rulesRun \in [Updates -> Ruling] /\ \A g \in Updates : rulesRun[g].pc = "idle"
  BY <1>1 DEF Ruling, Rul!Rest
<1>3. DOMAIN rules = {}
  BY <1>1
<1>4. \A t : Rul!Of(t) = {} /\ Counted(t) = {}
  BY <1>2, <1>3 DEF Rul!Of, Counted
<1>5. Cardinality({}) = 0
  BY FS_EmptySet
<1>6. RulesRoom
  BY <1>4, <1>5, UpdatesFinite DEF RulesRoom
<1> QED BY <1>1, <1>2, <1>3, <1>6 DEF RulesInv

\* A goroutine goes on with the table as it is, or with rules that keep their targets.
LEMMA RulesOnward ==
  ASSUME RulesInv, NEW g \in Updates, NEW r \in Ruling, rulesRun' = [rulesRun EXCEPT ![g] = r],
         lastId' = lastId, DOMAIN rules' \subseteq DOMAIN rules,
         \A i \in DOMAIN rules' : rules'[i] \in RuleRow /\ rules'[i].of = rules[i].of,
         r.pc \in {"owned", "insert"} => rulesRun[g].pc \in {"owned", "insert"} /\ rulesRun[g].of = r.of,
         r.pc \in {"toggle", "time", "delete"} => r.id \in DOMAIN rules /\ r.row = rules[r.id]
  PROVE  RulesInv'
<1>1. rulesRun' \in [Updates -> Ruling] /\ \A h \in Updates : rulesRun'[h] = IF h = g THEN r ELSE rulesRun[h]
  BY DEF RulesInv
<1>2. \A h \in Updates : rulesRun'[h].pc \in {"toggle", "time", "delete"} =>
        /\ rulesRun'[h].id <= lastId'
        /\ rulesRun'[h].id \in DOMAIN rules' => rulesRun'[h].row.of = rules'[rulesRun'[h].id].of
  BY <1>1 DEF RulesInv
<1>3. ASSUME NEW t \in RuleTargets
      PROVE  Cardinality(Rul!Of(t)') + Cardinality(Counted(t)') < RuleLimit + Cardinality(Updates)
  <2>1. Rul!Of(t)' \subseteq Rul!Of(t)
    BY DEF Rul!Of
  <2>2. Counted(t)' \subseteq Counted(t)
    BY <1>1 DEF Counted
  <2>3. Cardinality(Rul!Of(t)) + Cardinality(Counted(t)) < RuleLimit + Cardinality(Updates)
    BY DEF RulesInv, RulesRoom
  <2>4. RuleLimit + Cardinality(Updates) \in Nat
    BY UpdatesFinite
  <2> QED BY <2>1, <2>2, <2>3, <2>4, RulesFinite, Moved
<1>4. RulesRoom'
  BY <1>3 DEF RulesRoom
<1> QED BY <1>1, <1>2, <1>4 DEF RulesInv

\* Who counts the rules of a target finds fewer than the limit.
LEMMA CountsRules ==
  ASSUME RulesInv, NEW g \in Updates, NEW t \in RuleTargets, Rul!Count(g, t)
  PROVE  RulesInv'
<1> DEFINE r == [pc |-> IF t = Global THEN "insert" ELSE "owned", of |-> t]
<1>1. rulesRun' = [rulesRun EXCEPT ![g] = r] /\ UNCHANGED <<rules, lastId>>
      /\ rulesRun[g] = Rul!Rest /\ r \in Ruling /\ r.pc \in {"owned", "insert"} /\ r.of = t
  BY DEF Rul!Count, Ruling
<1>2. Cardinality(Rul!Of(t)) < RuleLimit /\ Cardinality(Rul!Of(t)) \in Nat
  BY RulesFinite, FS_CardinalityType, UpdatesFinite, SameSizes DEF Rul!Count, Rul!MaxReached
<1> HIDE DEF r
<1>3. rulesRun' \in [Updates -> Ruling] /\ \A h \in Updates : rulesRun'[h] = IF h = g THEN r ELSE rulesRun[h]
  BY <1>1 DEF RulesInv
<1>4. \A u : Rul!Of(u)' = Rul!Of(u)
  BY <1>1 DEF Rul!Of
<1>5. Cardinality(Counted(t)') <= Cardinality(Updates) /\ Cardinality(Counted(t)') \in Nat
  <2>1. Counted(t)' \subseteq Updates
    BY DEF Counted
  <2> QED BY <2>1, UpdatesFinite, PartOf
<1>6. ASSUME NEW u \in RuleTargets
      PROVE  Cardinality(Rul!Of(u)') + Cardinality(Counted(u)') < RuleLimit + Cardinality(Updates)
  <2>1. CASE u = t
    BY <1>2, <1>4, <1>5, <2>1, UpdatesFinite
  <2>2. CASE u # t
    <3>1. Counted(u)' = Counted(u)
      BY <1>1, <1>3, <2>2 DEF Counted, Rul!Rest
    <3> QED BY <1>4, <3>1 DEF RulesInv, RulesRoom
  <2> QED BY <2>1, <2>2
<1>7. \A h \in Updates : rulesRun'[h].pc \in {"toggle", "time", "delete"} =>
        /\ rulesRun'[h].id <= lastId'
        /\ rulesRun'[h].id \in DOMAIN rules' => rulesRun'[h].row.of = rules'[rulesRun'[h].id].of
  BY <1>1, <1>3 DEF RulesInv
<1>8. RulesRoom'
  BY <1>6 DEF RulesRoom
<1> QED BY <1>1, <1>3, <1>7, <1>8 DEF RulesInv

\* A rule is there, and one less of those who counted.
LEMMA CreatesRule ==
  ASSUME RulesInv, NEW g \in Updates, Rul!Create(g)
  PROVE  RulesInv'
<1>1. rulesRun[g].pc = "insert" /\ rulesRun[g].of \in RuleTargets
      /\ rulesRun' = [rulesRun EXCEPT ![g] = Rul!Rest] /\ Rul!Rest \in Ruling /\ Rul!Rest.pc = "idle"
  BY DEF Rul!Create, Rul!At, Rul!Return, RulesInv, Ruling, Rul!Rest
<1>2. CASE UNCHANGED <<rules, lastId>>
  BY <1>1, <1>2, RulesOnward DEF RulesInv
<1>3. CASE /\ lastId' = lastId + 1
           /\ rules' = [i \in DOMAIN rules \cup {lastId + 1} |->
                          IF i = lastId + 1 THEN [of |-> rulesRun[g].of, enabled |-> TRUE] ELSE rules[i]]
  <2>1. lastId \in Nat /\ lastId + 1 \notin DOMAIN rules /\ DOMAIN rules' = DOMAIN rules \cup {lastId + 1}
        /\ DOMAIN rules' \subseteq 1 .. lastId'
    BY <1>3 DEF RulesInv
  <2>2. rules'[lastId + 1] = [of |-> rulesRun[g].of, enabled |-> TRUE]
        /\ \A i \in DOMAIN rules : rules'[i] = rules[i]
    BY <1>3, <2>1
  <2>3. \A i \in DOMAIN rules' : rules'[i] \in RuleRow
    <3>1. [of |-> rulesRun[g].of, enabled |-> TRUE] \in RuleRow
      BY <1>1 DEF RuleRow
    <3> QED BY <2>1, <2>2, <3>1 DEF RulesInv
  <2>4. rulesRun' \in [Updates -> Ruling]
        /\ \A h \in Updates : rulesRun'[h] = IF h = g THEN Rul!Rest ELSE rulesRun[h]
    BY <1>1 DEF RulesInv
  <2>5. \A h \in Updates : rulesRun'[h].pc \in {"toggle", "time", "delete"} =>
          /\ rulesRun'[h].id <= lastId'
          /\ rulesRun'[h].id \in DOMAIN rules' => rulesRun'[h].row.of = rules'[rulesRun'[h].id].of
    <3> SUFFICES ASSUME NEW h \in Updates, rulesRun'[h].pc \in {"toggle", "time", "delete"}
                 PROVE  /\ rulesRun'[h].id <= lastId'
                        /\ rulesRun'[h].id \in DOMAIN rules' => rulesRun'[h].row.of = rules'[rulesRun'[h].id].of
      OBVIOUS
    <3>1. rulesRun'[h] = rulesRun[h] /\ rulesRun[h].pc \in {"toggle", "time", "delete"}
      BY <1>1, <2>4
    <3>2. rulesRun[h].id \in Nat /\ rulesRun[h].id <= lastId
          /\ (rulesRun[h].id \in DOMAIN rules => rulesRun[h].row.of = rules[rulesRun[h].id].of)
      BY <3>1 DEF RulesInv, Ruling, Rul!Rest
    <3> QED BY <1>3, <2>1, <2>2, <3>1, <3>2
  <2>6. ASSUME NEW u \in RuleTargets
        PROVE  Cardinality(Rul!Of(u)') + Cardinality(Counted(u)') < RuleLimit + Cardinality(Updates)
    <3>1. Cardinality(Rul!Of(u)) + Cardinality(Counted(u)) < RuleLimit + Cardinality(Updates)
      BY DEF RulesInv, RulesRoom
    <3>2. RuleLimit + Cardinality(Updates) \in Nat
      BY UpdatesFinite
    <3>3. CASE u = rulesRun[g].of
      <4>1. Rul!Of(u)' \subseteq Rul!Of(u) \cup {lastId + 1}
        BY <2>1, <2>2 DEF Rul!Of
      <4>2. g \in Counted(u) /\ Counted(u)' \subseteq Counted(u) \ {g}
        BY <1>1, <2>4, <3>3 DEF Counted
      <4> QED BY <3>1, <3>2, <4>1, <4>2, RulesFinite, Moved
    <3>4. CASE u # rulesRun[g].of
      <4>1. Rul!Of(u)' \subseteq Rul!Of(u)
        BY <2>1, <2>2, <3>4 DEF Rul!Of
      <4>2. Counted(u)' \subseteq Counted(u)
        BY <1>1, <2>4 DEF Counted
      <4> QED BY <3>1, <3>2, <4>1, <4>2, RulesFinite, Moved
    <3> QED BY <3>3, <3>4
  <2>7. RulesRoom'
    BY <2>6 DEF RulesRoom
  <2>8. lastId' \in Nat
    BY <1>3, <2>1
  <2> QED BY <2>1, <2>3, <2>4, <2>5, <2>7, <2>8 DEF RulesInv
<1> QED BY <1>2, <1>3 DEF Rul!Create

\* The other steps of a goroutine let nobody through and leave each rule its target.
LEMMA OtherRulesSteps ==
  ASSUME RulesInv, NEW g \in Updates,
         \/ Rul!Owned(g) \/ Rul!Toggle(g) \/ Rul!SetTime(g) \/ Rul!Delete(g) \/ Rul!Stop(g)
         \/ \E i \in DOMAIN rules, do \in {"toggle", "time", "delete"} : Rul!GetOwned(g, i, do)
  PROVE  RulesInv'
<1>1. Rul!Rest \in Ruling /\ Rul!Rest.pc = "idle"
  BY DEF Ruling, Rul!Rest
<1>2. \A i \in DOMAIN rules : rules[i] \in RuleRow /\ i \in Nat
  BY DEF RulesInv
<1>3. CASE Rul!Owned(g)
  <2>1. UNCHANGED <<rules, lastId>> /\ rulesRun[g].pc = "owned"
    BY <1>3 DEF Rul!Owned, Rul!At
  <2>2. CASE Rul!Return(g)
    BY <1>1, <1>2, <2>1, <2>2, RulesOnward DEF Rul!Return
  <2>3. CASE Rul!Goto(g, "insert")
    <3> DEFINE r == [rulesRun[g] EXCEPT !.pc = "insert"]
    <3>1. rulesRun' = [rulesRun EXCEPT ![g] = r]
      BY <2>3 DEF Rul!Goto, RulesInv
    <3>2. r \in Ruling /\ r.pc = "insert" /\ r.of = rulesRun[g].of
      <4>1. rulesRun[g] \in [pc : {"owned", "insert"}, of : RuleTargets]
        BY <2>1 DEF RulesInv, Ruling, Rul!Rest
      <4>2. r \in [pc : {"owned", "insert"}, of : RuleTargets] /\ r.pc = "insert" /\ r.of = rulesRun[g].of
        BY <4>1
      <4> QED BY <4>2 DEF Ruling
    <3> HIDE DEF r
    <3> QED BY <1>2, <2>1, <3>1, <3>2, RulesOnward
  <2> QED BY <1>3, <2>2, <2>3 DEF Rul!Owned
<1>4. CASE Rul!Toggle(g) \/ Rul!SetTime(g)
  <2>1. PICK row : /\ rules' = [i \in DOMAIN rules |-> IF i = rulesRun[g].id THEN row ELSE rules[i]]
                   /\ rulesRun' = [rulesRun EXCEPT ![g] = Rul!Rest] /\ lastId' = lastId
                   /\ rulesRun[g].id \in DOMAIN rules => row \in RuleRow /\ row.of = rules[rulesRun[g].id].of
    <3>1. CASE Rul!Toggle(g)
      <4> DEFINE row == [rules[rulesRun[g].id] EXCEPT !.enabled = ~@]
      <4>1. rulesRun[g].id \in DOMAIN rules => row \in RuleRow /\ row.of = rules[rulesRun[g].id].of
        BY <1>2 DEF RuleRow
      <4> QED BY <3>1, <4>1 DEF Rul!Toggle, Rul!Write, Rul!Return
    <3>2. CASE Rul!SetTime(g)
      <4> DEFINE row == rulesRun[g].row
      <4>1. rulesRun[g].pc = "time"
        BY <3>2 DEF Rul!SetTime, Rul!Write, Rul!At
      <4>2. row \in RuleRow /\ (rulesRun[g].id \in DOMAIN rules => row.of = rules[rulesRun[g].id].of)
        BY <4>1 DEF RulesInv, Ruling, Rul!Rest
      <4> QED BY <3>2, <4>2 DEF Rul!SetTime, Rul!Write, Rul!Return
    <3> QED BY <1>4, <3>1, <3>2
  <2>2. DOMAIN rules' = DOMAIN rules
        /\ \A i \in DOMAIN rules' : rules'[i] \in RuleRow /\ rules'[i].of = rules[i].of
    BY <1>2, <2>1
  <2> QED BY <1>1, <2>1, <2>2, RulesOnward
<1>5. CASE Rul!Delete(g)
  <2>1. rules' = [i \in DOMAIN rules \ {rulesRun[g].id} |-> rules[i]]
        /\ rulesRun' = [rulesRun EXCEPT ![g] = Rul!Rest] /\ lastId' = lastId
    BY <1>5 DEF Rul!Delete, Rul!Return
  <2>2. DOMAIN rules' \subseteq DOMAIN rules
        /\ \A i \in DOMAIN rules' : rules'[i] \in RuleRow /\ rules'[i].of = rules[i].of
    BY <1>2, <2>1
  <2> QED BY <1>1, <2>1, <2>2, RulesOnward
<1>6. CASE Rul!Stop(g)
  BY <1>1, <1>2, <1>6, RulesOnward DEF Rul!Stop, Rul!Return
<1>7. ASSUME NEW i \in DOMAIN rules, NEW do \in {"toggle", "time", "delete"}, Rul!GetOwned(g, i, do)
      PROVE  RulesInv'
  <2> DEFINE r == [pc |-> do, id |-> i, row |-> rules[i]]
  <2>1. rulesRun' = [rulesRun EXCEPT ![g] = r] /\ UNCHANGED <<rules, lastId>>
    BY <1>7 DEF Rul!GetOwned
  <2>2. r \in Ruling /\ r.pc = do /\ r.id = i /\ r.row = rules[i]
    <3>1. rules[i] \in RuleRow /\ i \in Nat
      BY <1>2
    <3> QED BY <3>1 DEF Ruling
  <2> HIDE DEF r
  <2> QED BY <1>2, <2>1, <2>2, RulesOnward
<1> QED BY <1>3, <1>4, <1>5, <1>6, <1>7

\* Whoever acts, there is room for those who counted.
LEMMA RulesNext == ASSUME RulesInv, [Next]_vars PROVE RulesInv'
<1>1. [Rul!Next]_rulVars
  BY EachSteps
<1>2. ASSUME UNCHANGED <<lastId, rulesRun>>, DOMAIN rules' \subseteq DOMAIN rules,
             \A i \in DOMAIN rules' : rules'[i] = rules[i]
      PROVE  RulesInv'
  <2>1. ASSUME NEW t \in RuleTargets
        PROVE  Cardinality(Rul!Of(t)') + Cardinality(Counted(t)') < RuleLimit + Cardinality(Updates)
    <3>1. Rul!Of(t)' \subseteq Rul!Of(t) /\ Counted(t)' \subseteq Counted(t)
      BY <1>2 DEF Rul!Of, Counted
    <3>2. Cardinality(Rul!Of(t)) + Cardinality(Counted(t)) < RuleLimit + Cardinality(Updates)
      BY DEF RulesInv, RulesRoom
    <3>3. RuleLimit + Cardinality(Updates) \in Nat
      BY UpdatesFinite
    <3> QED BY <3>1, <3>2, <3>3, RulesFinite, Moved
  <2>2. RulesRoom'
    BY <2>1 DEF RulesRoom
  <2> QED BY <1>2, <2>2 DEF RulesInv
<1>3. CASE UNCHANGED rulVars
  BY <1>2, <1>3 DEF rulVars
<1>4. ASSUME NEW e \in FewEvents, Rul!Trash(e) \/ Rul!Purge(e) PROVE RulesInv'
  <2>1. UNCHANGED <<lastId, rulesRun>> /\ DOMAIN rules' \subseteq DOMAIN rules
        /\ \A i \in DOMAIN rules' : rules'[i] = rules[i]
    BY <1>4 DEF Rul!Trash, Rul!Purge
  <2> QED BY <1>2, <2>1
<1>5. ASSUME NEW g \in Updates, Rul!Step(g) PROVE RulesInv'
  BY <1>5, CountsRules, CreatesRule, OtherRulesSteps DEF Rul!Step, Rul!Targets, RuleTargets
<1> QED BY <1>1, <1>3, <1>4, <1>5 DEF Rul!Next

-----------------------------------------------------------------------------
(* Greeting templates *)

TplRecord == [state : {"body", NoState}, data : [{"new_event_id", "new_tone"} -> Nat]]
TplRow == [tone : Tones, active : BOOLEAN]
Making == [pc : {"tone", "count", "insert", "clear"}, tone : Tones]

Inserters == {g \in Updates : tplRun[g].pc = "insert"}

TemplatesRoom ==
  Cardinality(Tpl!Active) + Cardinality(Inserters) < TemplateLimit + Cardinality(Updates)

\* Whatever the record holds came from a button, and who counts finds room.
TemplatesInv ==
  /\ tplStore \in TplRecord
  /\ tplStore.data["new_event_id"] \in FewEvents \cup {0} /\ tplStore.data["new_tone"] \in Tones \cup {0}
  /\ templates \in Seq(TplRow) /\ Len(templates) <= MaxTemplates
  /\ result \in 0 .. Len(templates)
  /\ tplRun \in [Updates -> {Tpl!Rest} \cup Making]
  /\ TemplatesRoom

\* What the module assumes of its constants, which are those of the whole.
LEMMA TplConstants ==
  /\ FewEvents \subseteq Nat \ {0} /\ 1 \in Tones /\ Tones \subseteq Nat \ {0}
  /\ TemplateLimit \in Nat /\ MaxTemplates \in Nat
BY ConversationsAssumption DEF Tpl!TemplatesAssumption

\* The templates that are on and those about to insert one are finitely many.
LEMMA TemplatesFinite ==
  ASSUME TemplatesInv
  PROVE  IsFiniteSet(Tpl!Active) /\ IsFiniteSet(Inserters)
<1>1. Tpl!Active \subseteq 1 .. Len(templates) /\ Len(templates) \in Nat
  BY DEF TemplatesInv, Tpl!Active
<1>2. IsFiniteSet(1 .. Len(templates))
  BY <1>1, FS_Interval
<1>3. Inserters \subseteq Updates
  BY DEF Inserters
<1> QED BY <1>1, <1>2, <1>3, UpdatesFinite, FS_Subset

\* There is no template at first.
LEMMA TemplatesInit == Init => TemplatesInv
<1> SUFFICES ASSUME Init PROVE TemplatesInv
  OBVIOUS
<1>1. tplStore = Tpl!Empty /\ templates = <<>> /\ result = 0 /\ tplRun = [g \in Updates |-> Tpl!Rest]
  BY DEF Init, Tpl!Init
<1>2. tplStore \in TplRecord /\ tplStore.data["new_event_id"] = 0 /\ tplStore.data["new_tone"] = 0
  BY <1>1 DEF Tpl!Empty, TplRecord
<1>3. Tpl!Active = {} /\ Inserters = {}
  BY <1>1 DEF Tpl!Active, Inserters, Tpl!Rest
<1>4. TemplatesRoom
  BY <1>3, FS_EmptySet, UpdatesFinite DEF TemplatesRoom
<1>5. templates \in Seq(TplRow) /\ Len(templates) = 0
  BY <1>1
<1>6. tplRun \in [Updates -> {Tpl!Rest} \cup Making]
  BY <1>1
<1> QED BY <1>1, <1>2, <1>4, <1>5, <1>6, TplConstants DEF TemplatesInv

\* The operations of the record: its state is set, one of its values is, or it is emptied.
LEMMA TplRecords ==
  ASSUME TemplatesInv,
         \/ UNCHANGED tplStore \/ Tpl!Clear \/ Tpl!SetState("body")
         \/ \E e \in FewEvents : Tpl!UpdateData({"new_event_id"}, e)
         \/ \E tone \in Tones : Tpl!UpdateData({"new_tone"}, tone)
  PROVE  /\ tplStore' \in TplRecord
         /\ tplStore'.data["new_event_id"] \in FewEvents \cup {0}
         /\ tplStore'.data["new_tone"] \in Tones \cup {0}
<1>1. CASE UNCHANGED tplStore
  BY <1>1 DEF TemplatesInv
<1>2. CASE Tpl!Clear
  BY <1>2 DEF Tpl!Clear, Tpl!Empty, TplRecord
<1>3. CASE Tpl!SetState("body")
  BY <1>3 DEF TemplatesInv, Tpl!SetState, TplRecord
<1>4. CASE \E e \in FewEvents : Tpl!UpdateData({"new_event_id"}, e)
  BY <1>4, TplConstants DEF TemplatesInv, Tpl!UpdateData, TplRecord
<1>5. CASE \E tone \in Tones : Tpl!UpdateData({"new_tone"}, tone)
  BY <1>5, TplConstants DEF TemplatesInv, Tpl!UpdateData, TplRecord
<1> QED BY <1>1, <1>2, <1>3, <1>4, <1>5

\* No more templates are on, and no more goroutines have counted.
LEMMA TemplatesFrame ==
  ASSUME TemplatesInv,
         \/ UNCHANGED tplStore \/ Tpl!Clear \/ Tpl!SetState("body")
         \/ \E e \in FewEvents : Tpl!UpdateData({"new_event_id"}, e)
         \/ \E tone \in Tones : Tpl!UpdateData({"new_tone"}, tone),
         templates' \in Seq(TplRow), Len(templates') = Len(templates),
         \A i \in DOMAIN templates : templates'[i].active => templates[i].active,
         result' \in 0 .. Len(templates),
         tplRun' \in [Updates -> {Tpl!Rest} \cup Making],
         \A g \in Updates : tplRun'[g].pc = "insert" => tplRun[g].pc = "insert"
  PROVE  TemplatesInv'
<1>1. Tpl!Active' \subseteq Tpl!Active
  BY DEF Tpl!Active, TemplatesInv
<1>2. Inserters' \subseteq Inserters
  BY DEF Inserters
<1>3. TemplateLimit + Cardinality(Updates) \in Nat
  BY UpdatesFinite
<1>4. Cardinality(Tpl!Active) + Cardinality(Inserters) < TemplateLimit + Cardinality(Updates)
  BY DEF TemplatesInv, TemplatesRoom
<1>5. Cardinality(Tpl!Active') + Cardinality(Inserters') < TemplateLimit + Cardinality(Updates)
  BY <1>1, <1>2, <1>3, <1>4, TemplatesFinite, Moved
<1>6. TemplatesRoom'
  BY <1>5 DEF TemplatesRoom
<1>7. Len(templates') <= MaxTemplates
  BY DEF TemplatesInv
<1> QED BY <1>6, <1>7, TplRecords DEF TemplatesInv

\* Who counts the templates finds fewer than the limit, or gives up.
LEMMA CountsTemplates ==
  ASSUME TemplatesInv, NEW g \in Updates, Tpl!Count(g)
  PROVE  TemplatesInv'
<1>1. tplRun[g].pc = "count" /\ UNCHANGED <<tplStore, templates, result>>
  BY DEF Tpl!Count, Tpl!At
<1>2. tplRun[g] \in Making
  BY <1>1 DEF TemplatesInv, Tpl!Rest
<1>3. CASE Tpl!LimitReached
  <2> DEFINE r == [tplRun[g] EXCEPT !.pc = "clear"]
  <2>1. tplRun' = [tplRun EXCEPT ![g] = r]
    BY <1>3 DEF Tpl!Count, Tpl!Goto, TemplatesInv
  <2>2. r \in Making /\ r.pc = "clear"
    BY <1>2 DEF Making
  <2> HIDE DEF r
  <2>3. tplRun' \in [Updates -> {Tpl!Rest} \cup Making]
        /\ \A h \in Updates : tplRun'[h].pc = "insert" => tplRun[h].pc = "insert"
    BY <2>1, <2>2 DEF TemplatesInv
  <2> QED BY <1>1, <2>3, TemplatesFrame DEF TemplatesInv
<1>4. CASE ~Tpl!LimitReached
  <2> DEFINE r == [tplRun[g] EXCEPT !.pc = "insert"]
  <2>1. tplRun' = [tplRun EXCEPT ![g] = r]
    BY <1>4 DEF Tpl!Count, Tpl!Goto, TemplatesInv
  <2>2. r \in Making
    BY <1>2 DEF Making
  <2> HIDE DEF r
  <2>3. tplRun' \in [Updates -> {Tpl!Rest} \cup Making]
    BY <2>1, <2>2 DEF TemplatesInv
  <2>4. Cardinality(Tpl!Active) < TemplateLimit /\ Cardinality(Tpl!Active) \in Nat
    BY <1>4, TemplatesFinite, FS_CardinalityType, UpdatesFinite, SameSizes DEF Tpl!LimitReached
  <2>5. Cardinality(Inserters') <= Cardinality(Updates) /\ Cardinality(Inserters') \in Nat
    <3>1. Inserters' \subseteq Updates
      BY DEF Inserters
    <3> QED BY <3>1, UpdatesFinite, PartOf
  <2>6. Tpl!Active' = Tpl!Active
    BY <1>1 DEF Tpl!Active
  <2>7. TemplatesRoom'
    BY <2>4, <2>5, <2>6, UpdatesFinite DEF TemplatesRoom
  <2> QED BY <1>1, <2>3, <2>7 DEF TemplatesInv
<1> QED BY <1>3, <1>4

\* A template is there, and one less of those who counted.
LEMMA InsertsTemplate ==
  ASSUME TemplatesInv, NEW g \in Updates, Tpl!Insert(g)
  PROVE  TemplatesInv'
<1> DEFINE r == [tplRun[g] EXCEPT !.pc = "clear"]
           n == Len(templates)
<1>1. tplRun[g].pc = "insert" /\ UNCHANGED <<tplStore, result>> /\ n \in Nat /\ n < MaxTemplates
      /\ templates' = Append(templates, [tone |-> tplRun[g].tone, active |-> TRUE])
  BY DEF Tpl!Insert, Tpl!At, TemplatesInv
<1>2. tplRun[g] \in Making
  BY <1>1 DEF TemplatesInv, Tpl!Rest
<1>3. PICK q \in {Tpl!Rest} \cup Making : q.pc # "insert" /\ tplRun' = [tplRun EXCEPT ![g] = q]
  <2>1. r \in Making /\ r.pc = "clear"
    BY <1>2 DEF Making
  <2>2. Tpl!Rest.pc # "insert"
    BY DEF Tpl!Rest
  <2>3. tplRun' = [tplRun EXCEPT ![g] = r] \/ tplRun' = [tplRun EXCEPT ![g] = Tpl!Rest]
    BY DEF Tpl!Insert, Tpl!Goto, Tpl!Return, TemplatesInv
  <2> QED BY <2>1, <2>2, <2>3
<1> HIDE DEF r
<1>4. tplRun' \in [Updates -> {Tpl!Rest} \cup Making]
      /\ \A h \in Updates : tplRun'[h] = IF h = g THEN q ELSE tplRun[h]
  BY <1>3 DEF TemplatesInv
<1>5. templates' \in Seq(TplRow) /\ Len(templates') = n + 1 /\ \A i \in 1 .. n : templates'[i] = templates[i]
  <2>1. [tone |-> tplRun[g].tone, active |-> TRUE] \in TplRow
    BY <1>2 DEF Making, TplRow
  <2> QED BY <1>1, <2>1 DEF TemplatesInv
<1>6. Tpl!Active' \subseteq Tpl!Active \cup {n + 1}
  BY <1>1, <1>5 DEF Tpl!Active, TemplatesInv
<1>7. g \in Inserters /\ Inserters' \subseteq Inserters \ {g}
  BY <1>1, <1>3, <1>4 DEF Inserters
<1>8. TemplateLimit + Cardinality(Updates) \in Nat
  BY UpdatesFinite
<1>9. Cardinality(Tpl!Active) + Cardinality(Inserters) < TemplateLimit + Cardinality(Updates)
  BY DEF TemplatesInv, TemplatesRoom
<1>10. Cardinality(Tpl!Active') + Cardinality(Inserters') < TemplateLimit + Cardinality(Updates)
  <2>1. \E x, y : Tpl!Active' \subseteq Tpl!Active \cup {x} /\ y \in Inserters /\ Inserters' \subseteq Inserters \ {y}
    BY <1>6, <1>7
  <2>2. IsFiniteSet(Tpl!Active) /\ IsFiniteSet(Inserters)
    BY TemplatesFinite
  <2> QED BY ONLY <2>1, <2>2, <1>8, <1>9, Moved
<1>11. TemplatesRoom'
  BY <1>10 DEF TemplatesRoom
<1>12. Len(templates') <= MaxTemplates /\ result' \in 0 .. Len(templates')
  <2>1. n + 1 <= MaxTemplates
    BY <1>1, TplConstants
  <2> QED BY <1>1, <1>5, <2>1 DEF TemplatesInv
<1> QED BY <1>1, <1>4, <1>5, <1>11, <1>12 DEF TemplatesInv

\* The other steps of a goroutine leave the templates alone and let nobody through.
LEMMA OtherTemplatesSteps ==
  ASSUME TemplatesInv, NEW g \in Updates,
         \/ Tpl!Tone(g) \/ Tpl!Body(g) \/ Tpl!Fail(g) \/ Tpl!Finish(g)
         \/ \E tone \in Tones : Tpl!NewTone(g, tone)
  PROVE  TemplatesInv'
<1>1. ASSUME NEW r \in {Tpl!Rest} \cup Making, r.pc # "insert", tplRun' = [tplRun EXCEPT ![g] = r],
             UNCHANGED <<templates, result>>,
             \/ UNCHANGED tplStore \/ Tpl!Clear \/ Tpl!SetState("body")
             \/ \E e \in FewEvents : Tpl!UpdateData({"new_event_id"}, e)
             \/ \E tone \in Tones : Tpl!UpdateData({"new_tone"}, tone)
      PROVE  TemplatesInv'
  <2>1. tplRun' \in [Updates -> {Tpl!Rest} \cup Making]
        /\ \A h \in Updates : tplRun'[h].pc = "insert" => tplRun[h].pc = "insert"
    BY <1>1 DEF TemplatesInv
  <2> QED BY <1>1, <2>1, TemplatesFrame DEF TemplatesInv
<1>2. Tpl!Rest \in {Tpl!Rest} \cup Making /\ Tpl!Rest.pc # "insert"
  BY DEF Tpl!Rest
<1>3. CASE Tpl!Tone(g)
  <2>1. tplRun[g].tone \in Tones
    BY <1>3 DEF Tpl!Tone, Tpl!At, TemplatesInv, Making, Tpl!Rest
  <2> QED BY <1>1, <1>2, <1>3, <2>1 DEF Tpl!Tone, Tpl!Return
<1>4. CASE Tpl!Body(g)
  <2> DEFINE r == [pc |-> "count", tone |-> IF Tpl!GetData("new_tone") = 0 THEN 1 ELSE Tpl!GetData("new_tone")]
  <2>1. tplRun' = [tplRun EXCEPT ![g] = r] /\ UNCHANGED <<tplStore, templates, result>>
    BY <1>4 DEF Tpl!Body
  <2>2. r \in Making /\ r.pc = "count"
    BY TplConstants DEF TemplatesInv, Making, Tpl!GetData
  <2> HIDE DEF r
  <2> QED BY <1>1, <2>1, <2>2
<1>5. CASE Tpl!Fail(g)
  BY <1>1, <1>2, <1>5 DEF Tpl!Fail, Tpl!Return
<1>6. CASE Tpl!Finish(g)
  BY <1>1, <1>2, <1>6 DEF Tpl!Finish, Tpl!Return
<1>7. ASSUME NEW tone \in Tones, Tpl!NewTone(g, tone) PROVE TemplatesInv'
  <2> DEFINE r == [pc |-> "tone", tone |-> tone]
  <2>1. tplRun' = [tplRun EXCEPT ![g] = r] /\ UNCHANGED <<templates, result>> /\ Tpl!SetState("body")
    BY <1>7 DEF Tpl!NewTone
  <2>2. r \in Making /\ r.pc = "tone"
    BY DEF Making
  <2> HIDE DEF r
  <2> QED BY <1>1, <2>1, <2>2
<1> QED BY <1>3, <1>4, <1>5, <1>6, <1>7

\* Whoever acts, there is room for those who counted.
LEMMA TemplatesNext == ASSUME TemplatesInv, [Next]_vars PROVE TemplatesInv'
<1>1. [Tpl!Next]_tplVars
  BY EachSteps
<1>2. templates \in Seq(TplRow) /\ DOMAIN templates = 1 .. Len(templates) /\ Len(templates) \in Nat
      /\ result \in 0 .. Len(templates) /\ tplRun \in [Updates -> {Tpl!Rest} \cup Making]
  BY DEF TemplatesInv
<1>3. CASE UNCHANGED tplVars
  BY <1>2, <1>3, TemplatesFrame DEF tplVars
<1>4. ASSUME NEW tone \in Tones, Tpl!Pick(tone) PROVE TemplatesInv'
  <2>1. \A exclude : Tpl!Candidates(tone, exclude) \subseteq 1 .. Len(templates)
    BY <1>2 DEF Tpl!Candidates, Tpl!Active
  <2>2. result' \in 0 .. Len(templates) /\ UNCHANGED <<tplStore, templates, tplRun>>
    BY <1>2, <1>4, <2>1 DEF Tpl!Pick
  <2> QED BY <1>2, <2>2, TemplatesFrame
<1>5. ASSUME NEW i \in DOMAIN templates, Tpl!Use(i) PROVE TemplatesInv'
  BY <1>2, <1>5, TemplatesFrame DEF Tpl!Use
<1>6. ASSUME NEW i \in DOMAIN templates, Tpl!Delete(i) PROVE TemplatesInv'
  <2>1. templates' = [templates EXCEPT ![i].active = FALSE] /\ UNCHANGED <<tplStore, result, tplRun>>
    BY <1>6 DEF Tpl!Delete
  <2>2. templates' \in Seq(TplRow) /\ Len(templates') = Len(templates)
        /\ \A j \in DOMAIN templates : templates'[j].active => templates[j].active
    <3>1. templates[i] \in TplRow
      BY <1>2
    <3>2. [templates[i] EXCEPT !.active = FALSE] \in TplRow
      BY <3>1 DEF TplRow
    <3> QED BY <1>2, <2>1, <3>2 DEF TplRow
  <2> QED BY <1>2, <2>1, <2>2, TemplatesFrame
<1>7. ASSUME NEW e \in FewEvents, Tpl!New(e) PROVE TemplatesInv'
  BY <1>2, <1>7, TemplatesFrame DEF Tpl!New
<1>8. CASE Tpl!Cancel
  BY <1>2, <1>8, TemplatesFrame DEF Tpl!Cancel
<1>9. CASE Tpl!Restart
  <2>1. tplRun' = [g \in Updates |-> Tpl!Rest] /\ UNCHANGED <<templates, result>> /\ Tpl!Clear
    BY <1>9 DEF Tpl!Restart
  <2>2. tplRun' \in [Updates -> {Tpl!Rest} \cup Making] /\ \A g \in Updates : tplRun'[g].pc # "insert"
    BY <2>1 DEF Tpl!Rest
  <2> QED BY <1>2, <2>1, <2>2, TemplatesFrame
<1>10. ASSUME NEW g \in Updates, Tpl!Step(g) PROVE TemplatesInv'
  BY <1>10, CountsTemplates, InsertsTemplate, OtherTemplatesSteps DEF Tpl!Step
<1> QED BY <1>1, <1>3, <1>4, <1>5, <1>6, <1>7, <1>8, <1>9, <1>10 DEF Tpl!Next

-----------------------------------------------------------------------------
(* The limits *)

\* The limits on templates and on the rules of an event are passed only by updates that
\* counted together, by fewer than the goroutines there are: for any number of goroutines,
\* whatever is deleted, trashed or purged meanwhile.
THEOREM LimitsHardlyPassed == Spec => []LimitOvershoot
<1>1. RulesInv => Rul!LimitOvershoot
  <2> SUFFICES ASSUME RulesInv, NEW t \in Rul!Targets
               PROVE  /\ Cardinality(Rul!Of(t)) < RuleLimit + Cardinality(Updates)
                      /\ Cardinality(Rul!Of(t))
                           + Cardinality({g \in Rul!Busy : rulesRun[g].pc \in {"owned", "insert"} /\ rulesRun[g].of = t})
                         <= RuleLimit + Cardinality(Updates)
    BY SameSizes DEF Rul!LimitOvershoot
  <2>1. {g \in Rul!Busy : rulesRun[g].pc \in {"owned", "insert"} /\ rulesRun[g].of = t} = Counted(t)
    BY DEF Rul!Busy, Rul!Rest, Counted
  <2>2. Cardinality(Rul!Of(t)) + Cardinality(Counted(t)) < RuleLimit + Cardinality(Updates)
    BY DEF RulesInv, RulesRoom, RuleTargets, Rul!Targets
  <2>3. Cardinality(Rul!Of(t)) \in Nat /\ Cardinality(Counted(t)) \in Nat
    BY RulesFinite, FS_CardinalityType
  <2> DEFINE waiting == {g \in Rul!Busy : rulesRun[g].pc \in {"owned", "insert"} /\ rulesRun[g].of = t}
  <2>4. Cardinality(waiting) = Cardinality(Counted(t))
    BY <2>1
  <2> HIDE DEF waiting
  <2>5. /\ Cardinality(Rul!Of(t)) < RuleLimit + Cardinality(Updates)
        /\ Cardinality(Rul!Of(t)) + Cardinality(waiting) <= RuleLimit + Cardinality(Updates)
    BY <2>2, <2>3, <2>4, UpdatesFinite
  <2> QED BY <2>5 DEF waiting
<1>2. TemplatesInv => Tpl!LimitOvershoot
  <2> SUFFICES ASSUME TemplatesInv
               PROVE  /\ Cardinality(Tpl!Active) + Cardinality({g \in Updates : Tpl!At(g, "insert")})
                           <= TemplateLimit + Cardinality(Updates)
                      /\ Cardinality(Tpl!Active) < TemplateLimit + Cardinality(Updates)
    BY SameSizes DEF Tpl!LimitOvershoot
  <2>1. {g \in Updates : Tpl!At(g, "insert")} = Inserters
    BY DEF Tpl!At, Inserters
  <2>2. Cardinality(Tpl!Active) + Cardinality(Inserters) < TemplateLimit + Cardinality(Updates)
    BY DEF TemplatesInv, TemplatesRoom
  <2>3. Cardinality(Tpl!Active) \in Nat /\ Cardinality(Inserters) \in Nat
    BY TemplatesFinite, FS_CardinalityType
  <2> QED BY <2>1, <2>2, <2>3, UpdatesFinite
<1>3. RulesInv /\ TemplatesInv => LimitOvershoot
  BY <1>1, <1>2 DEF LimitOvershoot
<1>4. RulesInv /\ TemplatesInv /\ [Next]_vars => RulesInv' /\ TemplatesInv'
  BY RulesNext, TemplatesNext
<1>5. Init => RulesInv /\ TemplatesInv
  BY RulesInit, TemplatesInit
<1> QED BY <1>3, <1>4, <1>5, PTL DEF Spec
=============================================================================
