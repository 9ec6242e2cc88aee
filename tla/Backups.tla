------------------------------ MODULE Backups ------------------------------
(***************************************************************************)
(* The backup directory and the processes that write and prune it: the     *)
(* bot's nightly AutoBackup and its admin command ForceBackup, and the two *)
(* command-line tools, cmd/backup-db and cmd/backfill-dual-dates, each a   *)
(* process of its own that calls backfill.Backup.  A file's name carries a *)
(* pool and a stamp; AutoBackup reads the last "_" part of every name as a *)
(* day, which for the tools' files is the time of day.                     *)
(***************************************************************************)
EXTENDS Integers, FiniteSets

CONSTANTS
  DayLen,         \* moments in a day
  AutoTime,       \* the moment of day AutoBackup's cron entry fires
  ReadsOld,       \* moments of day whose HHMMSS sorts before a YYYYMMDD cutoff
  Retention,      \* BACKUP_RETENTION_DAYS
  ToolRetention,  \* snapshots a tool keeps of its own pool
  Horizon,        \* bound on time
  MaxSnapshots    \* bound on the snapshots taken by hand

ASSUME BackupsAssumption ==
  /\ DayLen \in Nat \ {0} /\ Retention \in Nat /\ ToolRetention \in Int
  /\ AutoTime \in 0 .. DayLen - 1 /\ ReadsOld \subseteq 0 .. DayLen - 1
  /\ Horizon \in Nat /\ MaxSnapshots \in Nat

VARIABLES
  now,        \* moments since the first day
  files,      \* the directory: pool, day and moment of each snapshot
  autoPc,     \* AutoBackup: idle, list, prune
  autoTodo,   \* directory entries it still has to remove
  toolPc,     \* each tool: idle, list, prune, apply
  toolTodo,   \* the names its prune still has to remove
  toolMade,   \* the snapshots its run took
  written     \* ghost: every snapshot ever taken by hand

vars == <<now, files, autoPc, autoTodo, toolPc, toolTodo, toolMade, written>>

Tools == {"manual", "backfill"}

Day == now \div DayLen
Moment == now % DayLen

File(pool) == [pool |-> pool, day |-> Day, moment |-> IF pool = "auto" THEN 0 ELSE Moment]

InPool(S, pool) == {f \in S : f.pool = pool}

Newer(f, g) == f.day > g.day \/ (f.day = g.day /\ f.moment > g.moment)

NewerIn(S, f) == {g \in InPool(S, f.pool) : Newer(g, f)}

Init ==
  /\ now = 0 /\ files = {} /\ written = {}
  /\ autoPc = "idle" /\ autoTodo = {}
  /\ toolPc = [t \in Tools |-> "idle"]
  /\ toolTodo = [t \in Tools |-> {}]
  /\ toolMade = [t \in Tools |-> {}]

-----------------------------------------------------------------------------
(* AutoBackup *)

\* VACUUM INTO fails on a file that exists; AutoBackup then logs and returns.
AutoVacuum ==
  /\ autoPc = "idle" /\ Moment = AutoTime
  /\ File("auto") \notin files
  /\ files' = files \union {File("auto")}
  /\ autoPc' = "list"
  /\ UNCHANGED <<now, autoTodo, toolPc, toolTodo, toolMade, written>>

\* Mutant: the last day of the window is taken to be outside it.
ExpiredEarly(f) ==
  IF f.pool = "auto" THEN f.day <= Day - Retention ELSE f.moment \in ReadsOld

\* fileStamp < cutoffStamp, both strings.
Expired(f) ==
  IF f.pool = "auto" THEN f.day < Day - Retention ELSE f.moment \in ReadsOld

AutoList ==
  /\ autoPc = "list"
  /\ autoTodo' = {f \in files : Expired(f)}
  /\ autoPc' = "prune"
  /\ UNCHANGED <<now, files, toolPc, toolTodo, toolMade, written>>

\* A file another process has already removed only fails the Remove, unchecked.
AutoRemove ==
  /\ autoPc = "prune"
  /\ \E f \in autoTodo : files' = files \ {f} /\ autoTodo' = autoTodo \ {f}
  /\ UNCHANGED <<now, autoPc, toolPc, toolTodo, toolMade, written>>

AutoDone ==
  /\ autoPc = "prune" /\ autoTodo = {}
  /\ autoPc' = "idle"
  /\ UNCHANGED <<now, files, autoTodo, toolPc, toolTodo, toolMade, written>>

-----------------------------------------------------------------------------
(* Snapshots taken by hand *)

\* ForceBackup, which prunes nothing.
ForceBackup ==
  /\ Cardinality(written) < MaxSnapshots
  /\ File("manual") \notin files
  /\ files' = files \union {File("manual")}
  /\ written' = written \union {File("manual")}
  /\ UNCHANGED <<now, autoPc, autoTodo, toolPc, toolTodo, toolMade>>

\* backfill.Backup of tool t; when it fails the tool stops there.
ToolVacuum(t) ==
  /\ toolPc[t] = "idle" /\ Cardinality(written) < MaxSnapshots
  /\ File(t) \notin files
  /\ files' = files \union {File(t)}
  /\ written' = written \union {File(t)}
  /\ toolMade' = [toolMade EXCEPT ![t] = {File(t)}]
  /\ toolPc' = [toolPc EXCEPT ![t] = "list"]
  /\ UNCHANGED <<now, autoPc, autoTodo, toolTodo>>

\* Mutants: names matched without their prefix; one snapshot too few kept; the
\* newest ones taken from the wrong end of the list.
PrunableAnyPool(t) ==
  LET byHand == files \ InPool(files, "auto")
  IN  {f \in byHand :
         ToolRetention > 0 /\ Cardinality({g \in byHand : Newer(g, f)}) >= ToolRetention}

PrunableOneMore(t) ==
  {f \in InPool(files, t) : ToolRetention > 0 /\ Cardinality(NewerIn(files, f)) >= ToolRetention - 1}

PrunableNewest(t) ==
  {f \in InPool(files, t) : /\ ToolRetention > 0
                            /\ Cardinality({g \in InPool(files, t) : Newer(f, g)}) >= ToolRetention}

\* pruneBackups: all but the last ToolRetention names of the tool's own prefix.
Prunable(t) ==
  {f \in InPool(files, t) : ToolRetention > 0 /\ Cardinality(NewerIn(files, f)) >= ToolRetention}

ToolList(t) ==
  /\ toolPc[t] = "list"
  /\ toolTodo' = [toolTodo EXCEPT ![t] = Prunable(t)]
  /\ toolPc' = [toolPc EXCEPT ![t] = "prune"]
  /\ UNCHANGED <<now, files, autoPc, autoTodo, toolMade, written>>

\* In the order of the names, oldest first.
ToolRemove(t) ==
  /\ toolPc[t] = "prune"
  /\ \E f \in toolTodo[t] :
       /\ NewerIn(toolTodo[t], f) = toolTodo[t] \ {f}
       /\ files' = files \ {f}
       /\ toolTodo' = [toolTodo EXCEPT ![t] = @ \ {f}]
  /\ UNCHANGED <<now, autoPc, autoTodo, toolPc, toolMade, written>>

\* The backfill goes on to apply its changes; backup-db is finished.
ToolPruned(t) ==
  /\ toolPc[t] = "prune" /\ toolTodo[t] = {}
  /\ toolPc' = [toolPc EXCEPT ![t] = IF t = "backfill" THEN "apply" ELSE "idle"]
  /\ toolMade' = [toolMade EXCEPT ![t] = IF t = "backfill" THEN @ ELSE {}]
  /\ UNCHANGED <<now, files, autoPc, autoTodo, toolTodo, written>>

\* Apply returns: committed, or rolled back.
Applied ==
  /\ toolPc["backfill"] = "apply"
  /\ toolPc' = [toolPc EXCEPT !["backfill"] = "idle"]
  /\ toolMade' = [toolMade EXCEPT !["backfill"] = {}]
  /\ UNCHANGED <<now, files, autoPc, autoTodo, toolTodo, written>>

-----------------------------------------------------------------------------
(* Crashes and time *)

AutoCrash ==
  /\ autoPc # "idle"
  /\ autoPc' = "idle" /\ autoTodo' = {}
  /\ UNCHANGED <<now, files, toolPc, toolTodo, toolMade, written>>

ToolCrash(t) ==
  /\ toolPc[t] # "idle"
  /\ toolPc' = [toolPc EXCEPT ![t] = "idle"]
  /\ toolTodo' = [toolTodo EXCEPT ![t] = {}]
  /\ toolMade' = [toolMade EXCEPT ![t] = {}]
  /\ UNCHANGED <<now, files, autoPc, autoTodo, written>>

Pass ==
  /\ now < Horizon
  /\ now' = now + 1
  /\ UNCHANGED <<files, autoPc, autoTodo, toolPc, toolTodo, toolMade, written>>

ToolStep(t) ==
  ToolVacuum(t) \/ ToolList(t) \/ ToolRemove(t) \/ ToolPruned(t) \/ ToolCrash(t)

Next ==
  \/ AutoVacuum \/ AutoList \/ AutoRemove \/ AutoDone \/ AutoCrash
  \/ ForceBackup \/ Applied \/ Pass
  \/ \E t \in Tools : ToolStep(t)

Spec == Init /\ [][Next]_vars

-----------------------------------------------------------------------------
(* Properties *)

Removed == files \ files'

\* The state is well formed, and a prune list only holds what its process may
\* remove: the tools never the other pool's files.
TypeOK ==
  /\ now \in 0 .. Horizon
  /\ files \subseteq [pool : {"auto"} \union Tools, day : 0 .. Day, moment : 0 .. DayLen - 1]
  /\ written \subseteq [pool : Tools, day : 0 .. Day, moment : 0 .. DayLen - 1]
  /\ autoPc \in {"idle", "list", "prune"} /\ autoTodo \subseteq
       [pool : {"auto"} \union Tools, day : 0 .. Day, moment : 0 .. DayLen - 1]
  /\ toolPc \in [Tools -> {"idle", "list", "prune", "apply"}]
  /\ toolTodo \in [Tools -> SUBSET written] /\ toolMade \in [Tools -> SUBSET written]
  /\ \A t \in Tools :
       /\ toolTodo[t] \subseteq InPool(written, t)
       /\ toolMade[t] \subseteq InPool(written, t)

\* A nightly backup is only ever removed once it is older than the retention
\* window, whichever process removes it and however late its list is used.
NightlyKeptForWindow ==
  [][\A f \in Removed : f.pool = "auto" => f.day < Day - Retention]_vars

\* A snapshot taken by hand whose name AutoBackup does not misread goes only
\* when ToolRetention newer ones of its pool have been taken: no tool prunes
\* the other's pool, or its own newest, however the processes interleave.
NewestByHandKept ==
  [][\A f \in Removed :
       f.pool # "auto" /\ f.moment \notin ReadsOld
         => ToolRetention > 0 /\ Cardinality(NewerIn(written, f)) >= ToolRetention]_vars

\* "backup before apply": the snapshot the operator would roll back to exists
\* for as long as the changes are being applied, unless AutoBackup misreads it.
AppliesOverBackup ==
  toolPc["backfill"] = "apply" =>
    \A f \in toolMade["backfill"] : f \in files \/ f.moment \in ReadsOld

\* What AutoBackup's comment says: it prunes backups older than the retention
\* window.  Of the tools' snapshots it prunes fresh ones.
AutoPrunesOnlyOld ==
  [][AutoRemove => \A f \in Removed : f.day < Day - Retention]_vars

-----------------------------------------------------------------------------
(* What makes them inductive *)

\* Every snapshot by hand is known, and none is of a moment yet to come.
DirectoryKnown ==
  /\ IsFiniteSet(written)
  /\ \A f \in files : f.pool # "auto" => f \in written
  /\ \A f \in written : f.day < Day \/ (f.day = Day /\ f.moment <= Moment)

\* Whatever is on a list stays removable, however late the list is used.
ListsAreJust ==
  /\ \A f \in autoTodo : Expired(f)
  /\ \A t \in Tools :
       /\ toolPc[t] # "prune" => toolTodo[t] = {}
       /\ \A f \in toolTodo[t] : ToolRetention > 0 /\ Cardinality(NewerIn(written, f)) >= ToolRetention

\* While the backfill runs nobody else adds to its pool, so its snapshot is the newest.
SnapshotIsNewest ==
  \A f \in toolMade["backfill"] :
    /\ toolPc["backfill"] # "idle" /\ NewerIn(written, f) = {}
    /\ f \in files \/ f.moment \in ReadsOld
=============================================================================
