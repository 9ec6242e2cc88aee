-------------------------- MODULE EventRowsProofs --------------------------
(***************************************************************************)
(* Proofs about EventRows, for any events, goroutines and retention: the   *)
(* dates of a row agree and the trash is kept, whatever was read before    *)
(* whose write.  The invariant speaks of the copies in hand too.           *)
(***************************************************************************)
EXTENDS EventRows, TLAPS

\* What is true of the rows of any day, and of what is in hand.
RowsInv == TypeOK /\ DatesCoherent /\ HeldIsCoherent

-----------------------------------------------------------------------------
(* Rows *)

\* The ways to change a row's columns that the writers have keep it a coherent row.
LEMMA RowChanges ==
  ASSUME NEW row \in Row, Coherent(row)
  PROVE  /\ [row EXCEPT !.active = ~@] \in Row /\ Coherent([row EXCEPT !.active = ~@])
         /\ Recomputed(row) \in Row /\ Coherent(Recomputed(row))
         /\ \A tracks : Advanced(row, tracks) \in Row /\ Coherent(Advanced(row, tracks))
         /\ Converted(row) \in Row /\ Coherent(Converted(row))
         /\ Converted(row).deleted = row.deleted
         /\ \A d \in 0 .. LastDay \cup {None} :
              /\ [row EXCEPT !.deleted = d] \in Row
              /\ Coherent([row EXCEPT !.deleted = d])
              /\ [row EXCEPT !.deleted = d].deleted = d
BY DEF Row, Coherent, Recomputed, Advanced, Converted, Calendars

\* A row just created is coherent.
LEMMA BornCoherent ==
  ASSUME NEW row \in {Born("gregorian", FALSE), Born("hebrew", FALSE), Born("hebrew", TRUE)}
  PROVE  row \in Row /\ Coherent(row) /\ row.deleted = None
<1>1. /\ Born("gregorian", FALSE) \in Row /\ Coherent(Born("gregorian", FALSE))
      /\ Born("gregorian", FALSE).deleted = None
  BY DEF Born, Row, Coherent, Calendars
<1>2. /\ Born("hebrew", FALSE) \in Row /\ Coherent(Born("hebrew", FALSE))
      /\ Born("hebrew", FALSE).deleted = None
  BY DEF Born, Row, Coherent, Calendars
<1>3. /\ Born("hebrew", TRUE) \in Row /\ Coherent(Born("hebrew", TRUE))
      /\ Born("hebrew", TRUE).deleted = None
  BY DEF Born, Row, Coherent, Calendars
<1> QED BY <1>1, <1>2, <1>3, Zenon

\* A row there is, is of its type and coherent.
LEMMA RowThere ==
  ASSUME EventRowsAssumption, TypeOK, DatesCoherent, NEW e \in Events, Exists(e)
  PROVE  rows[e] \in Row /\ Coherent(rows[e]) /\ rows[e].deleted \in 0 .. LastDay \cup {None}
<1>1. rows[e] \in Row
  BY DEF TypeOK, Exists
<1>2. Coherent(rows[e])
  BY DEF DatesCoherent, Exists
<1>3. rows[e].deleted \in 0 .. LastDay \cup {None}
  BY <1>1 DEF Row
<1> QED BY <1>1, <1>2, <1>3

\* EventRepo.Update writes a coherent row from any copy, and leaves deleted_at alone.
LEMMA WrittenCoherent ==
  ASSUME EventRowsAssumption, TypeOK, DatesCoherent, NEW e \in Events, Exists(e),
         NEW copy \in Row, Coherent(copy)
  PROVE  /\ Written(e, copy) \in Row /\ Coherent(Written(e, copy))
         /\ Written(e, copy).deleted = rows[e].deleted
<1>1. rows[e] \in Row /\ Coherent(rows[e]) /\ rows[e].deleted \in 0 .. LastDay \cup {None}
  BY RowThere
<1>2. Written(e, copy) = [copy EXCEPT !.deleted = rows[e].deleted]
  BY DEF Written
<1>3. \A d \in 0 .. LastDay \cup {None} :
        [copy EXCEPT !.deleted = d] \in Row /\ Coherent([copy EXCEPT !.deleted = d])
  BY RowChanges
<1>4. [copy EXCEPT !.deleted = rows[e].deleted].deleted = rows[e].deleted
  BY DEF Row
<1> QED BY <1>1, <1>2, <1>3, <1>4

-----------------------------------------------------------------------------
(* What is in hand *)

\* The kinds of work a goroutine can be at.
LEMMA HandKinds ==
  ASSUME EventRowsAssumption, NEW r, InHand(r)
  PROVE  /\ r.do = "write" => /\ DOMAIN r.copies \subseteq Events
                              /\ \A e \in DOMAIN r.copies : r.copies[e] \in Row /\ Coherent(r.copies[e])
         /\ r.do \in {"delete", "restore"} => r.event \in Events /\ r = [do |-> r.do, event |-> r.event]
         /\ r.do = "purge" => r.cutoff \in Int /\ r.cutoff <= now - Retention
         /\ r.do = "apply" => r.events \subseteq Events
BY DEF InHand, Rest

\* What is in hand stays coherent as the day goes on.
LEMMA HeldOneMore ==
  ASSUME HeldIsCoherent, NEW g \in Updates, NEW r, now' = now,
         run' = [run EXCEPT ![g] = r], InHand(r)
  PROVE  HeldIsCoherent'
<1>1. DOMAIN run' = Updates /\ run'[g] = r /\ \A h \in Updates \ {g} : run'[h] = run[h]
  BY DEF HeldIsCoherent
<1>2. \A h \in Updates : InHand(run'[h])
  BY <1>1 DEF HeldIsCoherent
<1>3. \A s : InHand(s) => InHand(s)'
  BY DEF InHand, Rest
<1> QED BY <1>1, <1>2 DEF HeldIsCoherent, InHand, Rest


\* A step that leaves the rows and the day alone and takes coherent work in hand, or
\* puts it down, keeps the invariant.
LEMMA HandStep ==
  ASSUME EventRowsAssumption, RowsInv, NEW g \in Updates, NEW r,
         run' = [run EXCEPT ![g] = r], InHand(r), UNCHANGED <<now, rows>>
  PROVE  RowsInv'
<1>1. TypeOK' BY DEF RowsInv, TypeOK
<1>2. DatesCoherent' BY DEF RowsInv, DatesCoherent, Exists
<1>3. HeldIsCoherent' BY HeldOneMore DEF RowsInv
<1> QED BY <1>1, <1>2, <1>3 DEF RowsInv

\* So does one that writes coherent rows, or takes rows away, and has less in hand.
LEMMA RowsStep ==
  ASSUME EventRowsAssumption, RowsInv, NEW g \in Updates, NEW r,
         run' = [run EXCEPT ![g] = r], InHand(r), now' = now,
         DOMAIN rows' = Events, rows' = [e \in Events |-> rows'[e]],
         \A e \in Events : rows'[e] = None \/ (rows'[e] \in Row /\ Coherent(rows'[e]))
  PROVE  RowsInv'
<1>1. rows' \in [Events -> Row \cup {None}] OBVIOUS
<1>2. TypeOK' BY <1>1 DEF RowsInv, TypeOK
<1>3. DatesCoherent' BY DEF DatesCoherent, Exists
<1>4. HeldIsCoherent' BY HeldOneMore DEF RowsInv
<1> QED BY <1>2, <1>3, <1>4 DEF RowsInv

\* To have nothing in hand is coherent.
LEMMA RestInHand == InHand(Rest)
BY DEF InHand

-----------------------------------------------------------------------------
(* The steps *)

\* The invariant holds at the start, when nothing is deleted.
LEMMA InitRows == ASSUME EventRowsAssumption, Init PROVE RowsInv
<1>1. \A e \in Events : rows[e] \in Row /\ Coherent(rows[e])
  BY BornCoherent DEF Init
<1>2. rows \in [Events -> Row \cup {None}]
  BY <1>1 DEF Init
<1>3. TypeOK
  BY <1>2 DEF Init, TypeOK, EventRowsAssumption
<1>4. DatesCoherent
  BY <1>1 DEF DatesCoherent
<1>5. HeldIsCoherent
  BY RestInHand DEF HeldIsCoherent, Init
<1> QED BY <1>3, <1>4, <1>5 DEF RowsInv

\* Reading an owned row.
LEMMA ReadOwnedStep ==
  ASSUME EventRowsAssumption, RowsInv, NEW g \in Updates, NEW e \in Events, ReadOwned(g, e)
  PROVE  RowsInv'
<1>1. rows[e] \in Row /\ Coherent(rows[e])
  BY RowThere DEF RowsInv, ReadOwned, Live
<1>2. ASSUME NEW row \in Row, Coherent(row), Hold(g, "write", [x \in {e} |-> row])
      PROVE  RowsInv'
  <2>1. InHand([do |-> "write", copies |-> [x \in {e} |-> row]])
    BY <1>2 DEF InHand
  <2> QED BY <1>2, <2>1, HandStep DEF Hold, ReadOwned
<1>3. LET row == [rows[e] EXCEPT !.active = ~@] IN row \in Row /\ Coherent(row)
  BY <1>1, RowChanges
<1>4. Recomputed(rows[e]) \in Row /\ Coherent(Recomputed(rows[e]))
  BY <1>1, RowChanges
<1>5. CASE Hold(g, "write", [x \in {e} |-> [rows[e] EXCEPT !.active = ~@]])
  BY <1>2, <1>3, <1>5
<1>6. CASE Hold(g, "write", [x \in {e} |-> Recomputed(rows[e])])
  BY <1>2, <1>4, <1>6
<1> QED BY <1>5, <1>6 DEF ReadOwned

\* Reading active rows, as the tick and the daily job do.
LEMMA ReadActiveStep ==
  ASSUME EventRowsAssumption, RowsInv, NEW g \in Updates, ReadActive(g)
  PROVE  RowsInv'
<1>0. PICK S \in SUBSET {e \in Events : Live(e) /\ rows[e].active} :
        \E tracks \in [S -> SUBSET {"primary", "secondary"} \ {{}}] :
          Hold(g, "write", [e \in S |-> Advanced(rows[e], tracks[e])])
  BY DEF ReadActive
<1>1. PICK tracks : Hold(g, "write", [e \in S |-> Advanced(rows[e], tracks[e])])
  BY <1>0
<1>2. \A e \in S : Advanced(rows[e], tracks[e]) \in Row /\ Coherent(Advanced(rows[e], tracks[e]))
  BY RowThere, RowChanges DEF RowsInv, Live
<1>3. InHand([do |-> "write", copies |-> [e \in S |-> Advanced(rows[e], tracks[e])]])
  BY <1>2 DEF InHand
<1> QED BY <1>1, <1>3, HandStep DEF Hold, ReadActive

\* Writing one of the rows in hand, there or not.
LEMMA WriteStep ==
  ASSUME EventRowsAssumption, RowsInv, NEW g \in Updates, NEW e \in Events, Write(g, e)
  PROVE  RowsInv'
<1> DEFINE copies == run[g].copies
           rest == DOMAIN copies \ {e}
<1>1. /\ DOMAIN copies \subseteq Events
      /\ \A x \in DOMAIN copies : copies[x] \in Row /\ Coherent(copies[x])
  BY HandKinds DEF RowsInv, HeldIsCoherent, Write
<1>2. rows' = [rows EXCEPT ![e] = IF Exists(e) THEN Written(e, copies[e]) ELSE None]
  BY DEF Write
<1>3. DOMAIN rows' = Events /\ rows' = [x \in Events |-> rows'[x]]
  BY <1>2 DEF RowsInv, TypeOK
<1>4. rows'[e] = None \/ (rows'[e] \in Row /\ Coherent(rows'[e]))
  BY <1>1, <1>2, WrittenCoherent DEF RowsInv, TypeOK, Write
<1>5. \A x \in Events \ {e} : rows'[x] = rows[x]
  BY <1>2 DEF RowsInv, TypeOK
<1>6. \A x \in Events : rows'[x] = None \/ (rows'[x] \in Row /\ Coherent(rows'[x]))
  BY <1>4, <1>5, RowThere DEF RowsInv, Exists
<1>7. InHand([do |-> "write", copies |-> [x \in rest |-> copies[x]]])
  BY <1>1 DEF InHand
<1>8. now' = now /\ (Return(g) \/ Hold(g, "write", [x \in rest |-> copies[x]]))
  BY DEF Write
<1>9. CASE Return(g)
  BY <1>3, <1>6, <1>8, <1>9, RestInHand, RowsStep DEF Return
<1>10. CASE Hold(g, "write", [x \in rest |-> copies[x]])
  <2> HIDE DEF rest, copies
  <2> QED BY <1>3, <1>6, <1>7, <1>8, <1>10, RowsStep DEF Hold
<1> QED BY <1>8, <1>9, <1>10

\* Finding an event for the trash, or in it.
LEMMA ReadForTrashStep ==
  ASSUME EventRowsAssumption, RowsInv, NEW g \in Updates, NEW e \in Events, ReadForTrash(g, e)
  PROVE  RowsInv'
<1>1. InHand([do |-> "delete", event |-> e]) /\ InHand([do |-> "restore", event |-> e])
  BY DEF InHand
<1> QED BY <1>1, HandStep DEF ReadForTrash

\* Setting deleted_at, to the day or to nothing.
LEMMA SetDeletedStep ==
  ASSUME EventRowsAssumption, RowsInv, NEW g \in Updates, NEW do \in {"delete", "restore"},
         NEW value \in 0 .. LastDay \cup {None}, SetDeleted(g, do, value)
  PROVE  /\ RowsInv' /\ now' = now /\ run[g].event \in Events
         /\ run[g] = [do |-> do, event |-> run[g].event] /\ run'[g] = Rest
         /\ \A e \in Events : /\ rows'[e] # None => rows'[e].deleted \in {rows[e].deleted, value}
                              /\ e # run[g].event => rows'[e] = rows[e]
                              /\ rows'[e] = None <=> rows[e] = None
<1> DEFINE e == run[g].event
<1>1. e \in Events /\ run[g] = [do |-> do, event |-> e]
  BY HandKinds DEF RowsInv, HeldIsCoherent, SetDeleted
<1>2. /\ rows' = [rows EXCEPT ![e] = IF Exists(e) THEN [rows[e] EXCEPT !.deleted = value] ELSE None]
      /\ run' = [run EXCEPT ![g] = Rest] /\ now' = now
  BY DEF SetDeleted, Return
<1> HIDE DEF e
<1>3. DOMAIN rows' = Events /\ rows' = [x \in Events |-> rows'[x]]
  BY <1>1, <1>2 DEF RowsInv, TypeOK
<1>4. \A x \in Events \ {e} : rows'[x] = rows[x]
  BY <1>1, <1>2 DEF RowsInv, TypeOK
<1>5. CASE Exists(e)
  <2>1. rows[e] \in Row /\ Coherent(rows[e])
    BY <1>1, <1>5, RowThere DEF RowsInv
  <2>2. rows'[e] = [rows[e] EXCEPT !.deleted = value]
    BY <1>1, <1>2, <1>5 DEF RowsInv, TypeOK
  <2>3. rows'[e] \in Row /\ Coherent(rows'[e]) /\ rows'[e].deleted = value
    <3>1. LET row == [rows[e] EXCEPT !.deleted = value]
          IN  row \in Row /\ Coherent(row) /\ row.deleted = value
      BY <2>1, RowChanges
    <3> QED BY <2>2, <3>1
  <2>4. rows'[e] # None /\ rows[e] # None
    BY <2>3, <1>5 DEF EventRowsAssumption, Exists
  <2>5. \A x \in Events : rows'[x] = None \/ (rows'[x] \in Row /\ Coherent(rows'[x]))
    BY <1>4, <2>3, RowThere DEF RowsInv, Exists
  <2>6. RowsInv'
    BY <1>2, <1>3, <2>5, RestInHand, RowsStep
  <2> QED BY <1>1, <1>2, <1>4, <2>3, <2>4, <2>6 DEF e, RowsInv, HeldIsCoherent
<1>6. CASE ~Exists(e)
  <2>1. rows'[e] = None /\ rows[e] = None
    BY <1>1, <1>2, <1>6 DEF RowsInv, TypeOK, Exists
  <2>2. \A x \in Events : rows'[x] = None \/ (rows'[x] \in Row /\ Coherent(rows'[x]))
    BY <1>4, <2>1, RowThere DEF RowsInv, Exists
  <2>3. RowsInv'
    BY <1>2, <1>3, <2>2, RestInHand, RowsStep
  <2> QED BY <1>1, <1>2, <1>4, <2>1, <2>3 DEF e, RowsInv, HeldIsCoherent
<1> QED BY <1>5, <1>6


\* SoftDelete and Restore.
LEMMA TrashSteps ==
  ASSUME EventRowsAssumption, RowsInv, NEW g \in Updates
  PROVE  /\ SoftDelete(g) => SetDeleted(g, "delete", now) /\ now \in 0 .. LastDay \cup {None}
         /\ Restore(g) => SetDeleted(g, "restore", None) /\ None \in 0 .. LastDay \cup {None}
BY DEF SoftDelete, Restore, RowsInv, TypeOK

\* Taking the cutoff, and planning a backfill.
LEMMA PlanSteps ==
  ASSUME EventRowsAssumption, RowsInv, NEW g \in Updates, PurgeStart(g) \/ Plan(g) \/ Stop(g)
  PROVE  RowsInv'
<1>1. CASE PurgeStart(g)
  <2>1. InHand([do |-> "purge", cutoff |-> now - Retention])
    BY DEF InHand, RowsInv, TypeOK, EventRowsAssumption
  <2> QED BY <1>1, <2>1, HandStep DEF PurgeStart
<1>2. CASE Plan(g)
  <2>1. InHand([do |-> "apply", events |-> Eligible])
    BY DEF InHand, Eligible
  <2> QED BY <1>2, <2>1, HandStep DEF Plan
<1>3. CASE Stop(g)
  BY <1>3, RestInHand, HandStep DEF Stop, Return
<1> QED BY <1>1, <1>2, <1>3

\* The purge takes away rows, and only expired ones.
LEMMA PurgeStep ==
  ASSUME EventRowsAssumption, RowsInv, NEW g \in Updates, Purge(g)
  PROVE  /\ RowsInv'
         /\ \A e \in Events : \/ rows'[e] = rows[e]
                              \/ rows[e].deleted # None /\ now - rows[e].deleted > Retention
         /\ \A e \in Events : rows'[e] \in {rows[e], None}
<1>1. /\ rows' = [e \in Events |-> IF Exists(e) /\ Expired(e, run[g].cutoff) THEN None ELSE rows[e]]
      /\ run' = [run EXCEPT ![g] = Rest] /\ now' = now
  BY DEF Purge, Return
<1>2. \A e \in Events : rows'[e] = None \/ (rows'[e] \in Row /\ Coherent(rows'[e]))
  BY <1>1, RowThere DEF RowsInv, Exists
<1>3. RowsInv'
  BY <1>1, <1>2, RestInHand, RowsStep
<1>4. run[g].cutoff \in Int /\ run[g].cutoff <= now - Retention
  BY HandKinds DEF RowsInv, HeldIsCoherent, Purge
<1>5. ASSUME NEW e \in Events, rows'[e] # rows[e]
      PROVE  rows[e].deleted # None /\ now - rows[e].deleted > Retention
  <2>1. Exists(e) /\ rows[e].deleted # None /\ rows[e].deleted < run[g].cutoff
    BY <1>1, <1>5 DEF Expired
  <2>2. rows[e].deleted \in 0 .. LastDay
    BY <2>1, RowThere DEF RowsInv
  <2> QED BY <1>4, <2>1, <2>2 DEF RowsInv, TypeOK, EventRowsAssumption
<1> QED BY <1>1, <1>3, <1>5

\* The backfill writes dates and occurrences together.
LEMMA ApplyStep ==
  ASSUME EventRowsAssumption, RowsInv, NEW g \in Updates, Apply(g)
  PROVE  /\ RowsInv'
         /\ \A e \in Events : Exists(e) => rows'[e] # None /\ rows'[e].deleted = rows[e].deleted
<1>1. /\ rows' = [e \in Events |-> IF e \in run[g].events /\ Exists(e) THEN Converted(rows[e]) ELSE rows[e]]
      /\ run' = [run EXCEPT ![g] = Rest] /\ now' = now
  BY DEF Apply, Return
<1>2. \A e \in Events : Exists(e) => /\ rows[e] \in Row /\ Coherent(rows[e])
                                     /\ Converted(rows[e]) \in Row /\ Coherent(Converted(rows[e]))
                                     /\ Converted(rows[e]).deleted = rows[e].deleted
  BY RowThere, RowChanges DEF RowsInv
<1>3. \A e \in Events : rows'[e] = None \/ (rows'[e] \in Row /\ Coherent(rows'[e]))
  <2> TAKE e \in Events
  <2>1. rows'[e] \in {rows[e], Converted(rows[e])} /\ (~Exists(e) => rows'[e] = None)
    BY <1>1 DEF Exists
  <2>2. CASE ~Exists(e) BY <2>1, <2>2
  <2>3. CASE Exists(e) /\ rows'[e] = rows[e] BY <1>2, <2>3
  <2>4. CASE Exists(e) /\ rows'[e] = Converted(rows[e]) BY <1>2, <2>4
  <2> QED BY <2>1, <2>2, <2>3, <2>4
<1>4. RowsInv'
  BY <1>1, <1>3, RestInHand, RowsStep
<1>5. ASSUME NEW e \in Events, Exists(e) PROVE rows'[e] # None /\ rows'[e].deleted = rows[e].deleted
  BY <1>1, <1>2, <1>5 DEF EventRowsAssumption, Exists
<1> QED BY <1>4, <1>5

\* The day goes on, and cutoffs get older.
LEMMA TickStep == ASSUME EventRowsAssumption, RowsInv, Tick PROVE RowsInv'
<1>1. TypeOK'
  BY DEF RowsInv, TypeOK, Tick, EventRowsAssumption
<1>2. DatesCoherent'
  BY DEF RowsInv, DatesCoherent, Exists, Tick
<1>3. now' = now + 1 /\ now \in Int /\ Retention \in Int /\ run' = run
  BY DEF RowsInv, Tick, TypeOK, EventRowsAssumption
<1>4. HeldIsCoherent'
  <2>1. \A r : r.do = "purge" /\ r.cutoff \in Int /\ r.cutoff <= now - Retention => r.cutoff <= now' - Retention
    BY <1>3
  <2>2. \A g \in Updates : InHand(run'[g])
    BY <1>3 DEF RowsInv, HeldIsCoherent
  <2>3. \A r : InHand(r) => InHand(r)'
    BY <2>1 DEF InHand, Rest
  <2> QED BY <1>3, <2>2, <2>3 DEF RowsInv, HeldIsCoherent, InHand, Rest
<1> QED BY <1>1, <1>2, <1>4 DEF RowsInv


\* Every step keeps the invariant.
LEMMA NextKeepsRows == ASSUME EventRowsAssumption, RowsInv, [Next]_vars PROVE RowsInv'
<1>1. CASE Tick
  BY <1>1, TickStep
<1>2. ASSUME NEW g \in Updates, Step(g) PROVE RowsInv'
  <2>1. CASE \E e \in Events : ReadOwned(g, e) \/ ReadForTrash(g, e) \/ Write(g, e)
    BY <2>1, ReadOwnedStep, ReadForTrashStep, WriteStep
  <2>2. CASE ReadActive(g)
    BY <2>2, ReadActiveStep
  <2>3. CASE SoftDelete(g)
    BY <2>3, TrashSteps, SetDeletedStep
  <2>4. CASE Restore(g)
    BY <2>4, TrashSteps, SetDeletedStep
  <2>5. CASE PurgeStart(g) \/ Plan(g) \/ Stop(g)
    BY <2>5, PlanSteps
  <2>6. CASE Purge(g)
    BY <2>6, PurgeStep
  <2>7. CASE Apply(g)
    BY <2>7, ApplyStep
  <2> QED BY <1>2, <2>1, <2>2, <2>3, <2>4, <2>5, <2>6, <2>7 DEF Step
<1>3. CASE UNCHANGED vars
  <2>1. UNCHANGED <<now, rows, run>>
    BY <1>3 DEF vars
  <2> QED BY <2>1 DEF RowsInv, TypeOK, DatesCoherent, Exists, HeldIsCoherent, InHand, Rest
<1> QED BY <1>1, <1>2, <1>3 DEF Next

-----------------------------------------------------------------------------
(* The trash *)

\* What a step may do to an event: to take it out of the trash is the restoring
\* update's, and to do away with it the purge's once its time is over.
KeptFrom(e) ==
  /\ rows[e].deleted # None /\ Exists(e)' /\ rows'[e].deleted = None =>
       \E g \in Updates : run[g] = [do |-> "restore", event |-> e] /\ run'[g] = Rest
  /\ rows'[e] = None => rows[e].deleted # None /\ now - rows[e].deleted > Retention

\* A step that leaves deleted_at of every row alone keeps the trash.
LEMMA DeletedAlone ==
  ASSUME NEW e \in Events, Exists(e), rows'[e] # None, rows'[e].deleted = rows[e].deleted
  PROVE  KeptFrom(e)
BY DEF KeptFrom, Exists

\* A full-row write leaves deleted_at as it finds it.
LEMMA WriteKeepsTrash ==
  ASSUME EventRowsAssumption, RowsInv, NEW g \in Updates, NEW e \in Events, Write(g, e),
         NEW x \in Events, Exists(x)
  PROVE  KeptFrom(x)
<1>1. e \in DOMAIN run[g].copies /\ run[g].copies[e] \in Row /\ Coherent(run[g].copies[e])
  BY HandKinds DEF RowsInv, HeldIsCoherent, Write
<1>2. rows' = [rows EXCEPT ![e] = IF Exists(e) THEN Written(e, run[g].copies[e]) ELSE None]
  BY DEF Write
<1>3. CASE x = e
  <2>1. rows'[x] = Written(e, run[g].copies[e])
    BY <1>2, <1>3 DEF RowsInv, TypeOK
  <2>2. rows'[x] \in Row /\ rows'[x].deleted = rows[x].deleted
    BY <1>1, <1>3, <2>1, WrittenCoherent DEF RowsInv
  <2>3. rows'[x] # None
    BY <2>2 DEF EventRowsAssumption
  <2> QED BY <2>2, <2>3, DeletedAlone
<1>4. CASE x # e
  <2>1. rows'[x] = rows[x]
    BY <1>2, <1>4 DEF RowsInv, TypeOK
  <2> QED BY <2>1, DeletedAlone DEF Exists
<1> QED BY <1>3, <1>4

\* Every step keeps the trash.
LEMMA NextKeepsTrash ==
  ASSUME EventRowsAssumption, RowsInv, [Next]_vars, NEW e \in Events, Exists(e)
  PROVE  KeptFrom(e)
<1>1. CASE UNCHANGED rows
  BY <1>1, DeletedAlone DEF Exists
<1>2. ASSUME NEW g \in Updates, Step(g), ~ UNCHANGED rows PROVE KeptFrom(e)
  <2>1. CASE \E x \in Events : Write(g, x)
    BY <2>1, WriteKeepsTrash
  <2>2. CASE SoftDelete(g)
    <3>0. SetDeleted(g, "delete", now) /\ now \in 0 .. LastDay \cup {None}
      BY <2>2, TrashSteps
    <3>1. /\ rows'[e] # None => rows'[e].deleted \in {rows[e].deleted, now}
          /\ rows'[e] = None <=> rows[e] = None
      BY <3>0, SetDeletedStep
    <3>2. now # None
      BY DEF RowsInv, TypeOK, EventRowsAssumption
    <3> QED BY <3>1, <3>2 DEF KeptFrom, Exists
  <2>3. CASE Restore(g)
    <3>0. SetDeleted(g, "restore", None) /\ None \in 0 .. LastDay \cup {None}
      BY <2>3, TrashSteps
    <3>1. /\ run[g] = [do |-> "restore", event |-> run[g].event] /\ run'[g] = Rest
          /\ e # run[g].event => rows'[e] = rows[e]
          /\ rows'[e] = None <=> rows[e] = None
      <4>1. "restore" \in {"delete", "restore"}
        OBVIOUS
      <4>2. /\ run[g] = [do |-> "restore", event |-> run[g].event] /\ run'[g] = Rest
            /\ \A x \in Events : /\ x # run[g].event => rows'[x] = rows[x]
                                 /\ rows'[x] = None <=> rows[x] = None
        BY <3>0, <4>1, SetDeletedStep, ZenonT(30)
      <4> QED BY <4>2
    <3>2. CASE e = run[g].event
      BY <3>1, <3>2 DEF KeptFrom, Exists
    <3>3. CASE e # run[g].event
      BY <3>1, <3>3, DeletedAlone DEF Exists
    <3> QED BY <3>2, <3>3
  <2>4. CASE Purge(g)
    <3>1. /\ rows'[e] = rows[e] \/ (rows[e].deleted # None /\ now - rows[e].deleted > Retention)
          /\ rows'[e] \in {rows[e], None}
      BY <2>4, PurgeStep
    <3> QED BY <3>1 DEF KeptFrom, Exists
  <2>5. CASE Apply(g)
    BY <2>5, ApplyStep, DeletedAlone
  <2>6. ~(ReadActive(g) \/ PurgeStart(g) \/ Plan(g) \/ Stop(g))
    BY <1>2 DEF ReadActive, PurgeStart, Plan, Stop
  <2>7. ~ \E x \in Events : ReadOwned(g, x) \/ ReadForTrash(g, x)
    BY <1>2 DEF ReadOwned, ReadForTrash
  <2> QED BY <1>2, <2>1, <2>2, <2>3, <2>4, <2>5, <2>6, <2>7 DEF Step
<1>3. Tick => UNCHANGED rows
  BY DEF Tick
<1>4. UNCHANGED vars => UNCHANGED rows
  BY DEF vars
<1> QED BY <1>1, <1>2, <1>3, <1>4 DEF Next

-----------------------------------------------------------------------------
(* The theorems *)

\* The rows and the copies in hand stay coherent: the invariant is inductive.
THEOREM RowsStayCoherent == ASSUME EventRowsAssumption PROVE Spec => []RowsInv
<1>1. Init => RowsInv
  BY InitRows
<1>2. RowsInv /\ [Next]_vars => RowsInv'
  BY NextKeepsRows
<1> QED BY <1>1, <1>2, PTL DEF Spec

\* Whoever writes, and whatever they read before others wrote, the dates of every row
\* and the occurrences computed from them agree.
THEOREM RowsDatesCoherent == ASSUME EventRowsAssumption PROVE Spec => []DatesCoherent
<1>1. RowsInv => DatesCoherent
  BY DEF RowsInv
<1> QED BY <1>1, RowsStayCoherent, PTL

\* Nothing leaves the trash but by the user's undo, or by a purge after the retention.
THEOREM TrashStays == ASSUME EventRowsAssumption PROVE Spec => TrashKept
<1>1. RowsInv /\ [Next]_vars => \A e \in Events : Exists(e) => KeptFrom(e)
  BY NextKeepsTrash
<1>2. RowsInv /\ [Next]_vars =>
        [\A e \in Events : Exists(e) =>
           /\ rows[e].deleted # None /\ Exists(e)' /\ rows'[e].deleted = None =>
                \E g \in Updates : run[g] = [do |-> "restore", event |-> e] /\ run'[g] = Rest
           /\ rows'[e] = None => rows[e].deleted # None /\ now - rows[e].deleted > Retention]_vars
  BY <1>1 DEF KeptFrom
<1> QED BY <1>2, RowsStayCoherent, PTL DEF Spec, TrashKept
=============================================================================
