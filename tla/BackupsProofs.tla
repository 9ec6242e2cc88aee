---------------------------- MODULE BackupsProofs ----------------------------
(***************************************************************************)
(* Proofs about Backups, for any days, retentions and stamps misread: what *)
(* the pruning of three processes, each with a list of its own that it may *)
(* use late, leaves in the directory.                                      *)
(***************************************************************************)
EXTENDS Backups, FiniteSetTheorems, TLAPS

Name == [pool : {"auto"} \cup Tools, day : 0 .. Day, moment : 0 .. DayLen - 1]

DirectoryInv == TypeOK /\ DirectoryKnown /\ ListsAreJust /\ SnapshotIsNewest

-----------------------------------------------------------------------------
(* Days *)

\* The day and the moment of it.
LEMMA Clock ==
  ASSUME TypeOK
  PROVE  Day \in Nat /\ Moment \in 0 .. DayLen - 1 /\ now \in Nat /\ DayLen \in Nat /\ DayLen > 0
BY BackupsAssumption DEF TypeOK, Day, Moment

\* One moment later it is a later moment of the day, or the next day.
LEMMA Later ==
  ASSUME TypeOK, now' = now + 1
  PROVE  (Day' = Day /\ Moment' = Moment + 1) \/ Day' = Day + 1
<1>1. now = Day * DayLen + Moment /\ now \in Nat /\ DayLen \in Nat /\ DayLen > 0 /\ Day \in Nat /\ Moment \in 0 .. DayLen - 1
  BY BackupsAssumption DEF TypeOK, Day, Moment
<1>2. CASE Moment + 1 < DayLen
  BY <1>1, <1>2 DEF Day, Moment
<1>3. CASE Moment + 1 = DayLen
  BY <1>1, <1>3 DEF Day, Moment
<1> QED BY <1>1, <1>2, <1>3


\* The name of a snapshot of now: of this day, and of this moment if taken by hand.
LEMMA NewName ==
  ASSUME TypeOK, NEW pool \in {"auto"} \cup Tools
  PROVE  /\ File(pool) \in Name /\ File(pool).pool = pool /\ File(pool).day = Day
         /\ pool # "auto" => /\ File(pool).moment = Moment
                             /\ File(pool) \in [pool : Tools, day : 0 .. Day, moment : 0 .. DayLen - 1]
BY Clock DEF File, Name, Tools

\* Names are of their types on later days too.
LEMMA NamesLater ==
  ASSUME TypeOK, now' = now \/ now' = now + 1
  PROVE  /\ Day' >= Day /\ (now' = now => Day' = Day /\ Moment' = Moment)
         /\ [pool : {"auto"} \cup Tools, day : 0 .. Day, moment : 0 .. DayLen - 1]
              \subseteq [pool : {"auto"} \cup Tools, day : 0 .. Day', moment : 0 .. DayLen - 1]
         /\ [pool : Tools, day : 0 .. Day, moment : 0 .. DayLen - 1]
              \subseteq [pool : Tools, day : 0 .. Day', moment : 0 .. DayLen - 1]
<1>1. Day \in Nat /\ Day' \in Nat /\ Day' >= Day /\ (now' = now => Day' = Day /\ Moment' = Moment)
  <2>1. now' = now => Day' = Day /\ Moment' = Moment
    BY DEF Day, Moment
  <2> QED BY <2>1, Clock, Later
<1>2. 0 .. Day \subseteq 0 .. Day'
  BY <1>1
<1> QED BY <1>1, <1>2

\* Who has been in the window too long is out of it later too.
LEMMA ExpiredLater ==
  ASSUME TypeOK, now' = now \/ now' = now + 1, NEW f \in Name, Expired(f)
  PROVE  Expired(f)'
<1>1. Day' >= Day /\ Day \in Nat /\ Day' \in Nat /\ f.day \in Nat /\ Retention \in Nat
  <2>1. Day' \in Nat
    BY Clock, Later, NamesLater
  <2> QED BY <2>1, Clock, NamesLater, BackupsAssumption DEF Name
<1>2. CASE f.pool = "auto"
  BY <1>1, <1>2 DEF Expired
<1>3. CASE f.pool # "auto"
  BY <1>3 DEF Expired
<1> QED BY <1>2, <1>3

-----------------------------------------------------------------------------
(* Pools *)

\* Of more snapshots by hand, more are newer than one.
LEMMA MoreNewer ==
  ASSUME NEW S, NEW T, IsFiniteSet(T), S \subseteq T, NEW f
  PROVE  /\ NewerIn(S, f) \subseteq NewerIn(T, f)
         /\ IsFiniteSet(NewerIn(S, f)) /\ IsFiniteSet(NewerIn(T, f))
         /\ Cardinality(NewerIn(S, f)) \in Nat /\ Cardinality(NewerIn(T, f)) \in Nat
         /\ Cardinality(NewerIn(S, f)) <= Cardinality(NewerIn(T, f))
<1>1. NewerIn(S, f) \subseteq NewerIn(T, f) /\ NewerIn(T, f) \subseteq T
  BY DEF NewerIn, InPool
<1>2. IsFiniteSet(NewerIn(T, f))
  BY <1>1, FS_Subset
<1>3. IsFiniteSet(NewerIn(S, f)) /\ Cardinality(NewerIn(S, f)) <= Cardinality(NewerIn(T, f))
  BY <1>1, <1>2, FS_Subset
<1> QED BY <1>1, <1>2, <1>3, FS_CardinalityType

\* A snapshot taken now is newer than every other one by hand.
LEMMA NowIsNewest ==
  ASSUME TypeOK, DirectoryKnown, NEW t \in Tools
  PROVE  NewerIn(written \cup {File(t)}, File(t)) = {}
<1>1. /\ File(t).day = Day /\ File(t).moment = Moment /\ Day \in Nat /\ Moment \in Nat
  BY NewName, Clock DEF Tools
<1>2. ASSUME NEW g \in written PROVE ~ Newer(g, File(t))
  <2>1. g.day \in Nat /\ g.moment \in Nat /\ (g.day < Day \/ (g.day = Day /\ g.moment <= Moment))
    BY DEF TypeOK, DirectoryKnown
  <2> QED BY <1>1, <2>1 DEF Newer
<1>3. ~ Newer(File(t), File(t))
  BY <1>1 DEF Newer
<1> QED BY <1>2, <1>3 DEF NewerIn, InPool

\* A snapshot of another pool is not among the newer ones.
LEMMA OtherPool ==
  ASSUME NEW S, NEW f, NEW g, g.pool # f.pool
  PROVE  NewerIn(S \cup {g}, f) = NewerIn(S, f)
BY DEF NewerIn, InPool

\* The one newest of its pool is on no list of its own tool.
LEMMA NewestIsOnNoList ==
  ASSUME DirectoryInv, NEW t \in Tools, NEW f \in toolTodo[t], NewerIn(written, f) = {}
  PROVE  FALSE
<1>1. ToolRetention > 0 /\ Cardinality(NewerIn(written, f)) >= ToolRetention
  BY DEF DirectoryInv, ListsAreJust
<1>2. Cardinality(NewerIn(written, f)) = 0
  BY FS_EmptySet
<1> QED BY <1>1, <1>2, BackupsAssumption

-----------------------------------------------------------------------------
(* The steps *)

\* An empty directory is well kept.
LEMMA InitDirectory == Init => DirectoryInv
<1> SUFFICES ASSUME Init PROVE DirectoryInv OBVIOUS
<1>1. TypeOK
  BY BackupsAssumption DEF Init, TypeOK, Day, InPool
<1>2. DirectoryKnown
  BY FS_EmptySet DEF Init, DirectoryKnown
<1>3. ListsAreJust
  BY DEF Init, ListsAreJust
<1>4. SnapshotIsNewest
  BY DEF Init, SnapshotIsNewest, Tools
<1> QED BY <1>1, <1>2, <1>3, <1>4 DEF DirectoryInv

\* AutoBackup writes a file of its own pool, and no one else's.
LEMMA AutoVacuumStep == ASSUME DirectoryInv, AutoVacuum PROVE DirectoryInv'
<1>1. /\ files' = files \cup {File("auto")} /\ autoPc' = "list"
      /\ UNCHANGED <<now, autoTodo, toolPc, toolTodo, toolMade, written>>
  BY DEF AutoVacuum
<1>2. File("auto") \in Name /\ File("auto").pool = "auto" /\ Day' = Day /\ Moment' = Moment
  BY <1>1, NewName, NamesLater DEF DirectoryInv
<1>3. TypeOK'
  BY <1>1, <1>2 DEF DirectoryInv, TypeOK, Name, InPool
<1>4. DirectoryKnown'
  BY <1>1, <1>2 DEF DirectoryInv, DirectoryKnown
<1>5. ListsAreJust'
  BY <1>1, <1>2 DEF DirectoryInv, ListsAreJust, Expired, NewerIn, InPool, Newer
<1>6. SnapshotIsNewest'
  BY <1>1 DEF DirectoryInv, SnapshotIsNewest, NewerIn, InPool, Newer
<1> QED BY <1>3, <1>4, <1>5, <1>6 DEF DirectoryInv

\* A snapshot by hand, the bot's or a tool's, is the newest of its pool.
LEMMA ByHandStep ==
  ASSUME DirectoryInv, NEW t \in Tools,
         files' = files \cup {File(t)}, written' = written \cup {File(t)},
         UNCHANGED <<now, autoPc, autoTodo, toolTodo>>,
         \/ UNCHANGED <<toolPc, toolMade>> /\ t = "manual"
         \/ /\ toolPc[t] = "idle" /\ toolPc' = [toolPc EXCEPT ![t] = "list"]
            /\ toolMade' = [toolMade EXCEPT ![t] = {File(t)}]
  PROVE  DirectoryInv'
<1>1. /\ File(t) \in Name /\ File(t).pool = t /\ File(t).day = Day /\ File(t).moment = Moment
      /\ File(t) \in [pool : Tools, day : 0 .. Day, moment : 0 .. DayLen - 1]
      /\ Day' = Day /\ Moment' = Moment /\ Day \in Nat /\ Moment \in Nat
  BY NewName, NamesLater, Clock DEF DirectoryInv, Tools
<1>2. TypeOK'
  <2>1. /\ now' \in 0 .. Horizon
        /\ files' \subseteq [pool : {"auto"} \cup Tools, day : 0 .. Day', moment : 0 .. DayLen - 1]
        /\ written' \subseteq [pool : Tools, day : 0 .. Day', moment : 0 .. DayLen - 1]
        /\ autoPc' \in {"idle", "list", "prune"}
        /\ autoTodo' \subseteq [pool : {"auto"} \cup Tools, day : 0 .. Day', moment : 0 .. DayLen - 1]
    BY <1>1 DEF DirectoryInv, TypeOK, Name
  <2>2. toolPc' \in [Tools -> {"idle", "list", "prune", "apply"}]
    BY DEF DirectoryInv, TypeOK
  <2>3. toolTodo' \in [Tools -> SUBSET written'] /\ \A s \in Tools : toolTodo'[s] \subseteq InPool(written', s)
    BY DEF DirectoryInv, TypeOK, InPool
  <2>4. toolMade' \in [Tools -> SUBSET written'] /\ \A s \in Tools : toolMade'[s] \subseteq InPool(written', s)
    BY <1>1 DEF DirectoryInv, TypeOK, InPool
  <2> QED BY <2>1, <2>2, <2>3, <2>4 DEF TypeOK
<1>3. IsFiniteSet(written')
  BY FS_AddElement DEF DirectoryInv, DirectoryKnown
<1>4. DirectoryKnown'
  BY <1>1, <1>3 DEF DirectoryInv, DirectoryKnown
<1>5. ListsAreJust'
  <2>1. \A f \in autoTodo' : Expired(f)'
    BY <1>1 DEF DirectoryInv, ListsAreJust, Expired
  <2>2. \A s \in Tools : toolPc'[s] # "prune" => toolTodo'[s] = {}
    BY DEF DirectoryInv, ListsAreJust, TypeOK
  <2>3. ASSUME NEW s \in Tools, NEW f \in toolTodo'[s]
        PROVE  ToolRetention > 0 /\ Cardinality(NewerIn(written', f)) >= ToolRetention
    <3>1. ToolRetention > 0 /\ Cardinality(NewerIn(written, f)) >= ToolRetention
      BY <2>3 DEF DirectoryInv, ListsAreJust
    <3>2. /\ Cardinality(NewerIn(written, f)) \in Nat /\ Cardinality(NewerIn(written', f)) \in Nat
          /\ Cardinality(NewerIn(written, f)) <= Cardinality(NewerIn(written', f))
      BY <1>3, MoreNewer
    <3> QED BY <3>1, <3>2, BackupsAssumption
  <2> QED BY <2>1, <2>2, <2>3 DEF ListsAreJust
<1>6. SnapshotIsNewest'
  <2> SUFFICES ASSUME NEW f \in toolMade'["backfill"]
               PROVE  /\ toolPc'["backfill"] # "idle" /\ NewerIn(written', f) = {}
                      /\ f \in files' \/ f.moment \in ReadsOld
    BY DEF SnapshotIsNewest, NewerIn, InPool, Newer
  <2>1. CASE t = "manual"
    <3>1. toolMade'["backfill"] = toolMade["backfill"] /\ toolPc'["backfill"] = toolPc["backfill"]
      BY <2>1 DEF DirectoryInv, TypeOK, Tools
    <3>2. f.pool = "backfill"
      BY <3>1 DEF DirectoryInv, TypeOK, InPool, Tools
    <3>3. NewerIn(written', f) = NewerIn(written, f)
      BY <1>1, <2>1, <3>2, OtherPool
    <3> QED BY <3>1, <3>3 DEF DirectoryInv, SnapshotIsNewest
  <2>2. CASE t = "backfill"
    <3>1. f = File(t) /\ toolPc'["backfill"] = "list"
      BY <2>2 DEF DirectoryInv, TypeOK, Tools
    <3> QED BY <3>1, NowIsNewest DEF DirectoryInv
  <2> QED BY <2>1, <2>2 DEF Tools
<1> QED BY <1>2, <1>4, <1>5, <1>6 DEF DirectoryInv


\* AutoBackup lists what is expired, and gives its list up, used or not.
LEMMA AutoListSteps == ASSUME DirectoryInv, AutoList \/ AutoDone \/ AutoCrash PROVE DirectoryInv'
<1>1. /\ UNCHANGED <<now, files, toolPc, toolTodo, toolMade, written>>
      /\ autoPc' \in {"idle", "list", "prune"}
      /\ autoTodo' \subseteq files \cup autoTodo /\ \A f \in autoTodo' : Expired(f)
  BY DEF AutoList, AutoDone, AutoCrash, DirectoryInv, ListsAreJust, TypeOK
<1>2. Day' = Day /\ Moment' = Moment
  BY <1>1, NamesLater DEF DirectoryInv
<1>3. TypeOK'
  BY <1>1, <1>2 DEF DirectoryInv, TypeOK, InPool
<1>4. DirectoryKnown'
  BY <1>1, <1>2 DEF DirectoryInv, DirectoryKnown
<1>5. ListsAreJust'
  BY <1>1, <1>2 DEF DirectoryInv, ListsAreJust, Expired, NewerIn, InPool, Newer
<1>6. SnapshotIsNewest'
  BY <1>1 DEF DirectoryInv, SnapshotIsNewest, NewerIn, InPool, Newer
<1> QED BY <1>3, <1>4, <1>5, <1>6 DEF DirectoryInv

\* A removal leaves the invariant if it spares what the backfill may roll back to.
LEMMA RemoveStep ==
  ASSUME DirectoryInv, NEW f, files' = files \ {f},
         UNCHANGED <<now, autoPc, toolPc, toolMade, written>>,
         autoTodo' \subseteq autoTodo,
         toolTodo' \in [Tools -> SUBSET written], \A t \in Tools : toolTodo'[t] \subseteq toolTodo[t],
         f \in toolMade["backfill"] => f.moment \in ReadsOld
  PROVE  DirectoryInv'
<1>1. Day' = Day /\ Moment' = Moment
  BY NamesLater DEF DirectoryInv
<1>2. TypeOK'
  BY <1>1 DEF DirectoryInv, TypeOK, InPool
<1>3. DirectoryKnown'
  BY <1>1 DEF DirectoryInv, DirectoryKnown
<1>4. ListsAreJust'
  <2>1. \A g \in autoTodo' : Expired(g)'
    BY <1>1 DEF DirectoryInv, ListsAreJust, Expired
  <2>2. ASSUME NEW t \in Tools
        PROVE  /\ toolPc'[t] # "prune" => toolTodo'[t] = {}
               /\ \A g \in toolTodo'[t] : ToolRetention > 0 /\ Cardinality(NewerIn(written, g)) >= ToolRetention
    BY DEF DirectoryInv, ListsAreJust
  <2> QED BY <2>1, <2>2 DEF ListsAreJust, NewerIn, InPool, Newer
<1>5. SnapshotIsNewest'
  BY DEF DirectoryInv, SnapshotIsNewest, NewerIn, InPool, Newer
<1> QED BY <1>2, <1>3, <1>4, <1>5 DEF DirectoryInv

\* What AutoBackup removes: backups of its own that are out of the window, and names
\* of the tools that it misreads.
LEMMA AutoRemoves ==
  ASSUME DirectoryInv, AutoRemove
  PROVE  /\ DirectoryInv'
         /\ \A f \in Removed : IF f.pool = "auto" THEN f.day < Day - Retention ELSE f.moment \in ReadsOld
<1>1. PICK f \in autoTodo : files' = files \ {f} /\ autoTodo' = autoTodo \ {f}
  BY DEF AutoRemove
<1>2. IF f.pool = "auto" THEN f.day < Day - Retention ELSE f.moment \in ReadsOld
  BY DEF DirectoryInv, ListsAreJust, Expired
<1>3. f \in toolMade["backfill"] => f.moment \in ReadsOld
  BY <1>2 DEF DirectoryInv, TypeOK, InPool, Tools
<1>4. UNCHANGED <<now, autoPc, toolPc, toolTodo, toolMade, written>>
  BY DEF AutoRemove
<1>5. DirectoryInv'
  BY <1>1, <1>3, <1>4, RemoveStep DEF DirectoryInv, TypeOK
<1> QED BY <1>1, <1>2, <1>5 DEF Removed

\* What a tool removes: snapshots of its own pool with enough newer ones.
LEMMA ToolRemoves ==
  ASSUME DirectoryInv, NEW t \in Tools, ToolRemove(t)
  PROVE  /\ DirectoryInv'
         /\ \A f \in Removed : /\ f.pool # "auto" /\ ToolRetention > 0
                               /\ Cardinality(NewerIn(written, f)) >= ToolRetention
<1>1. PICK f \in toolTodo[t] : /\ files' = files \ {f}
                               /\ toolTodo' = [toolTodo EXCEPT ![t] = @ \ {f}]
  BY DEF ToolRemove
<1>2. /\ f \in written /\ f.pool = t
      /\ ToolRetention > 0 /\ Cardinality(NewerIn(written, f)) >= ToolRetention
  BY DEF DirectoryInv, TypeOK, InPool, ListsAreJust
<1>3. f \notin toolMade["backfill"]
  <2>1. f \in toolMade["backfill"] => NewerIn(written, f) = {}
    BY DEF DirectoryInv, SnapshotIsNewest
  <2> QED BY <2>1, NewestIsOnNoList
<1>4. toolTodo' \in [Tools -> SUBSET written] /\ \A s \in Tools : toolTodo'[s] \subseteq toolTodo[s]
  BY <1>1 DEF DirectoryInv, TypeOK
<1>5. UNCHANGED <<now, autoPc, autoTodo, toolPc, toolMade, written>>
  BY DEF ToolRemove
<1>6. DirectoryInv'
  BY <1>1, <1>3, <1>4, <1>5, RemoveStep
<1>7. f.pool # "auto"
  BY <1>2 DEF Tools
<1> QED BY <1>1, <1>2, <1>6, <1>7 DEF Removed

\* What a tool lists has enough newer ones in the directory, and so among all taken.
LEMMA ToolListStep == ASSUME DirectoryInv, NEW t \in Tools, ToolList(t) PROVE DirectoryInv'
<1>1. /\ toolPc[t] = "list" /\ toolTodo' = [toolTodo EXCEPT ![t] = Prunable(t)]
      /\ toolPc' = [toolPc EXCEPT ![t] = "prune"]
      /\ UNCHANGED <<now, files, autoPc, autoTodo, toolMade, written>>
  BY DEF ToolList
<1>2. Day' = Day /\ Moment' = Moment
  BY <1>1, NamesLater DEF DirectoryInv
<1>3. ASSUME NEW f \in Prunable(t)
      PROVE  /\ f \in InPool(written, t) /\ ToolRetention > 0
             /\ Cardinality(NewerIn(written, f)) >= ToolRetention
  <2>1. f \in files /\ f.pool = t /\ ToolRetention > 0 /\ Cardinality(NewerIn(files, f)) >= ToolRetention
    BY DEF Prunable, InPool
  <2>2. f.pool # "auto"
    BY <2>1 DEF Tools
  <2>3. NewerIn(files, f) \subseteq NewerIn(written, f) /\ f \in written
    BY <2>1, <2>2 DEF DirectoryInv, DirectoryKnown, NewerIn, InPool
  <2>4. /\ IsFiniteSet(NewerIn(written, f)) /\ Cardinality(NewerIn(written, f)) \in Nat
    BY MoreNewer DEF DirectoryInv, DirectoryKnown
  <2>5. Cardinality(NewerIn(files, f)) \in Nat /\ Cardinality(NewerIn(files, f)) <= Cardinality(NewerIn(written, f))
    BY <2>3, <2>4, FS_Subset, FS_CardinalityType
  <2> QED BY <2>1, <2>3, <2>4, <2>5, BackupsAssumption DEF InPool
<1>4. TypeOK'
  <2>1. toolPc' \in [Tools -> {"idle", "list", "prune", "apply"}]
    BY <1>1 DEF DirectoryInv, TypeOK
  <2>2. toolTodo' \in [Tools -> SUBSET written] /\ \A s \in Tools : toolTodo'[s] \subseteq InPool(written, s)
    BY <1>1, <1>3 DEF DirectoryInv, TypeOK, InPool
  <2> QED BY <1>1, <1>2, <2>1, <2>2 DEF DirectoryInv, TypeOK, InPool
<1>5. DirectoryKnown'
  BY <1>1, <1>2 DEF DirectoryInv, DirectoryKnown
<1>6. ListsAreJust'
  <2>1. \A g \in autoTodo' : Expired(g)'
    BY <1>1, <1>2 DEF DirectoryInv, ListsAreJust, Expired
  <2>2. ASSUME NEW s \in Tools
        PROVE  /\ toolPc'[s] # "prune" => toolTodo'[s] = {}
               /\ \A g \in toolTodo'[s] : ToolRetention > 0 /\ Cardinality(NewerIn(written, g)) >= ToolRetention
    <3>1. CASE s = t
      BY <1>1, <1>3, <3>1 DEF DirectoryInv, TypeOK
    <3>2. CASE s # t
      BY <1>1, <3>2 DEF DirectoryInv, TypeOK, ListsAreJust
    <3> QED BY <3>1, <3>2
  <2> QED BY <1>1, <2>1, <2>2 DEF ListsAreJust, NewerIn, InPool, Newer
<1>7. SnapshotIsNewest'
  <2>1. toolPc["backfill"] # "idle" => toolPc'["backfill"] # "idle"
    BY <1>1 DEF DirectoryInv, TypeOK, Tools
  <2> QED BY <1>1, <2>1 DEF DirectoryInv, SnapshotIsNewest, NewerIn, InPool, Newer
<1> QED BY <1>4, <1>5, <1>6, <1>7 DEF DirectoryInv

\* A tool that has pruned goes on or is finished; finished, or dead, it has neither a
\* list nor a snapshot of this run.
LEMMA ToolEndSteps ==
  ASSUME DirectoryInv, NEW t \in Tools, NEW next \in {"idle", "apply"},
         UNCHANGED <<now, files, autoPc, autoTodo, written>>,
         toolPc' = [toolPc EXCEPT ![t] = next],
         toolTodo' = [toolTodo EXCEPT ![t] = {}],
         toolMade' = toolMade \/ toolMade' = [toolMade EXCEPT ![t] = {}],
         next = "idle" => toolMade' = [toolMade EXCEPT ![t] = {}]
  PROVE  DirectoryInv'
<1>1. Day' = Day /\ Moment' = Moment
  BY NamesLater DEF DirectoryInv
<1>2. TypeOK'
  <2>1. toolPc' \in [Tools -> {"idle", "list", "prune", "apply"}]
    BY DEF DirectoryInv, TypeOK
  <2>2. toolTodo' \in [Tools -> SUBSET written] /\ \A s \in Tools : toolTodo'[s] \subseteq InPool(written, s)
    BY DEF DirectoryInv, TypeOK
  <2>3. toolMade' \in [Tools -> SUBSET written] /\ \A s \in Tools : toolMade'[s] \subseteq InPool(written, s)
    BY DEF DirectoryInv, TypeOK
  <2> QED BY <1>1, <2>1, <2>2, <2>3 DEF DirectoryInv, TypeOK, InPool
<1>3. DirectoryKnown'
  BY <1>1 DEF DirectoryInv, DirectoryKnown
<1>4. ListsAreJust'
  <2>1. \A g \in autoTodo' : Expired(g)'
    BY <1>1 DEF DirectoryInv, ListsAreJust, Expired
  <2>2. ASSUME NEW s \in Tools
        PROVE  /\ toolPc'[s] # "prune" => toolTodo'[s] = {}
               /\ \A g \in toolTodo'[s] : ToolRetention > 0 /\ Cardinality(NewerIn(written, g)) >= ToolRetention
    <3>1. CASE s = t
      BY <3>1 DEF DirectoryInv, TypeOK
    <3>2. CASE s # t
      BY <3>2 DEF DirectoryInv, TypeOK, ListsAreJust
    <3> QED BY <3>1, <3>2
  <2> QED BY <2>1, <2>2 DEF ListsAreJust, NewerIn, InPool, Newer
<1>5. SnapshotIsNewest'
  <2>1. ASSUME NEW f \in toolMade'["backfill"]
        PROVE  f \in toolMade["backfill"] /\ toolPc'["backfill"] # "idle"
    <3>1. f \in toolMade["backfill"] /\ toolPc["backfill"] # "idle"
      BY <2>1 DEF DirectoryInv, TypeOK, Tools, SnapshotIsNewest
    <3>2. t # "backfill" \/ next = "apply"
      BY <2>1 DEF DirectoryInv, TypeOK, Tools
    <3> QED BY <3>1, <3>2 DEF DirectoryInv, TypeOK, Tools
  <2> QED BY <2>1 DEF DirectoryInv, SnapshotIsNewest, NewerIn, InPool, Newer
<1> QED BY <1>2, <1>3, <1>4, <1>5 DEF DirectoryInv

\* Time passes.
LEMMA PassStep == ASSUME DirectoryInv, Pass PROVE DirectoryInv'
<1>1. /\ now' = now + 1 /\ now' \in 0 .. Horizon
      /\ UNCHANGED <<files, autoPc, autoTodo, toolPc, toolTodo, toolMade, written>>
  BY BackupsAssumption DEF Pass, DirectoryInv, TypeOK
<1>2. TypeOK'
  <2>1. /\ files' \subseteq [pool : {"auto"} \cup Tools, day : 0 .. Day', moment : 0 .. DayLen - 1]
        /\ written' \subseteq [pool : Tools, day : 0 .. Day', moment : 0 .. DayLen - 1]
        /\ autoTodo' \subseteq [pool : {"auto"} \cup Tools, day : 0 .. Day', moment : 0 .. DayLen - 1]
    BY <1>1, NamesLater DEF DirectoryInv, TypeOK
  <2> QED BY <1>1, <2>1 DEF DirectoryInv, TypeOK, InPool
<1>3. DirectoryKnown'
  <2>1. ASSUME NEW f \in written PROVE f.day < Day' \/ (f.day = Day' /\ f.moment <= Moment')
    <3>1. /\ f.day \in Nat /\ f.moment \in Nat /\ Day \in Nat /\ Moment \in Nat
          /\ f.day < Day \/ (f.day = Day /\ f.moment <= Moment)
      BY <2>1, Clock DEF DirectoryInv, TypeOK, DirectoryKnown
    <3> QED BY <1>1, <3>1, Later DEF DirectoryInv
  <2> QED BY <1>1, <2>1 DEF DirectoryInv, DirectoryKnown
<1>4. ListsAreJust'
  <2>1. \A f \in autoTodo' : Expired(f)'
    BY <1>1, ExpiredLater DEF DirectoryInv, ListsAreJust, TypeOK, Name
  <2> QED BY <1>1, <2>1 DEF DirectoryInv, ListsAreJust, NewerIn, InPool, Newer
<1>5. SnapshotIsNewest'
  BY <1>1 DEF DirectoryInv, SnapshotIsNewest, NewerIn, InPool, Newer
<1> QED BY <1>2, <1>3, <1>4, <1>5 DEF DirectoryInv

\* Every step keeps the invariant.
LEMMA NextDirectory == ASSUME DirectoryInv, [Next]_vars PROVE DirectoryInv'
<1>1. CASE AutoVacuum \/ AutoList \/ AutoRemove \/ AutoDone \/ AutoCrash \/ Pass
  BY <1>1, AutoVacuumStep, AutoListSteps, AutoRemoves, PassStep
<1>2. CASE ForceBackup
  BY <1>2, ByHandStep DEF ForceBackup, Tools
<1>3. CASE Applied
  <2>1. toolTodo["backfill"] = {} /\ "backfill" \in Tools
    BY <1>3 DEF Applied, DirectoryInv, ListsAreJust, Tools
  <2>2. toolTodo' = [toolTodo EXCEPT !["backfill"] = {}]
    BY <1>3, <2>1 DEF Applied, DirectoryInv, TypeOK
  <2> QED BY <1>3, <2>1, <2>2, ToolEndSteps DEF Applied
<1>4. ASSUME NEW t \in Tools, ToolStep(t) PROVE DirectoryInv'
  <2>1. CASE ToolVacuum(t)
    BY <2>1, ByHandStep DEF ToolVacuum
  <2>2. CASE ToolPruned(t)
    <3>1. toolTodo' = [toolTodo EXCEPT ![t] = {}]
      BY <2>2 DEF ToolPruned, DirectoryInv, TypeOK
    <3>2. CASE t = "backfill"
      <4>1. toolPc' = [toolPc EXCEPT ![t] = "apply"] /\ toolMade' = toolMade
        BY <2>2, <3>2 DEF ToolPruned, DirectoryInv, TypeOK
      <4> QED BY <2>2, <3>1, <4>1, ToolEndSteps DEF ToolPruned
    <3>3. CASE t # "backfill"
      <4>1. toolPc' = [toolPc EXCEPT ![t] = "idle"] /\ toolMade' = [toolMade EXCEPT ![t] = {}]
        BY <2>2, <3>3 DEF ToolPruned
      <4> QED BY <2>2, <3>1, <4>1, ToolEndSteps DEF ToolPruned
    <3> QED BY <3>2, <3>3
  <2>3. CASE ToolCrash(t)
    BY <2>3, ToolEndSteps DEF ToolCrash
  <2> QED BY <1>4, <2>1, <2>2, <2>3, ToolListStep, ToolRemoves DEF ToolStep
<1>5. CASE UNCHANGED vars
  <2>1. UNCHANGED <<now, files, autoPc, autoTodo, toolPc, toolTodo, toolMade, written>>
    BY <1>5 DEF vars
  <2>2. Day' = Day /\ Moment' = Moment
    BY <2>1 DEF Day, Moment
  <2> QED BY <2>1, <2>2 DEF DirectoryInv, TypeOK, DirectoryKnown, ListsAreJust, Expired, SnapshotIsNewest, NewerIn, InPool, Newer
<1> QED BY <1>1, <1>2, <1>3, <1>4, <1>5 DEF Next

-----------------------------------------------------------------------------
(* The theorems *)

\* The directory stays well kept, and every process's list just: the invariant is
\* inductive.
THEOREM DirectoryStaysKept == Spec => []DirectoryInv
BY InitDirectory, NextDirectory, PTL DEF Spec

\* The state is well formed: no tool ever lists another pool's files.
THEOREM BackupsTyped == Spec => []TypeOK
<1>1. DirectoryInv => TypeOK
  BY DEF DirectoryInv
<1> QED BY <1>1, DirectoryStaysKept, PTL

\* The backfill applies its changes beside the snapshot it took, unless AutoBackup
\* misreads that snapshot's name.
THEOREM SnapshotIsThere == Spec => []AppliesOverBackup
<1>1. DirectoryInv => AppliesOverBackup
  BY DEF DirectoryInv, SnapshotIsNewest, AppliesOverBackup
<1> QED BY <1>1, DirectoryStaysKept, PTL

\* What a step removes, AutoBackup or a tool has removed.
LEMMA WhoRemoves ==
  ASSUME DirectoryInv, [Next]_vars, NEW f \in Removed
  PROVE  /\ f.pool = "auto" => f.day < Day - Retention
         /\ f.pool # "auto" /\ f.moment \notin ReadsOld =>
              ToolRetention > 0 /\ Cardinality(NewerIn(written, f)) >= ToolRetention
<1>1. CASE AutoRemove
  BY <1>1, AutoRemoves
<1>2. CASE \E t \in Tools : ToolRemove(t)
  BY <1>2, ToolRemoves
<1>3. ~(AutoVacuum \/ AutoList \/ AutoDone \/ AutoCrash \/ ForceBackup \/ Applied \/ Pass)
  BY DEF Removed, AutoVacuum, AutoList, AutoDone, AutoCrash, ForceBackup, Applied, Pass
<1>4. ~ \E t \in Tools : ToolVacuum(t) \/ ToolList(t) \/ ToolPruned(t) \/ ToolCrash(t)
  BY DEF Removed, ToolVacuum, ToolList, ToolPruned, ToolCrash
<1>5. ~ UNCHANGED vars
  BY DEF Removed, vars
<1> QED BY <1>1, <1>2, <1>3, <1>4, <1>5 DEF Next, ToolStep

\* A nightly backup is removed only once it is out of the window, by whichever process
\* and however old its list.
THEOREM NightliesAreKept == Spec => NightlyKeptForWindow
<1>1. DirectoryInv /\ [Next]_vars => [\A f \in Removed : f.pool = "auto" => f.day < Day - Retention]_vars
  BY WhoRemoves
<1> QED BY <1>1, DirectoryStaysKept, PTL DEF Spec, NightlyKeptForWindow

\* A snapshot by hand that is not misread goes only when enough newer ones have been
\* taken.
THEOREM NewestByHandAreKept == Spec => NewestByHandKept
<1>1. DirectoryInv /\ [Next]_vars =>
        [\A f \in Removed :
           f.pool # "auto" /\ f.moment \notin ReadsOld
             => ToolRetention > 0 /\ Cardinality(NewerIn(written, f)) >= ToolRetention]_vars
  BY WhoRemoves
<1> QED BY <1>1, DirectoryStaysKept, PTL DEF Spec, NewestByHandKept
=============================================================================
