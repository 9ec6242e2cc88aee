--------------------------- MODULE ReminderEngine ---------------------------
(***************************************************************************)
(* The reminder engine of internal/scheduler: the periodic tick            *)
(* (TickReminders with RecoverPending and SendReminder), the daily         *)
(* RecomputeOccurrences job, and the bot handlers that write the same      *)
(* rows while the two are half way through.                                *)
(*                                                                         *)
(* Every SQL statement is atomic (store.go opens the database with one     *)
(* connection); nothing here runs in a transaction, so each statement, and *)
(* each call to Telegram, is a step of its own, and what a job read        *)
(* earlier is a snapshot that may be stale when it is used.  A job never   *)
(* overlaps itself (scheduler.go's safe), so the tick and the job have one *)
(* program counter each.                                                   *)
(*                                                                         *)
(* Time is counted in units, DayLen to a day.  A log row is known by the   *)
(* triple of its UNIQUE constraint, a key <<event, rule, occurrence day>>; *)
(* rule ids are never reused, so a key keeps its rule after the rule's     *)
(* deletion has set rule_id to NULL.                                       *)
(***************************************************************************)
EXTENDS Integers, FiniteSets

CONSTANTS
  Users, Events,
  Rules,        \* reminder_rules.id: the order in which the rows are read
  Tracks,       \* occurrenceTrack: "primary", and "secondary" where modelled
  Dates,        \* (calendar, month, day) values an event can recur on
  Owner,        \* Owner[e]: events.user_id
  RuleUser,     \* RuleUser[r]: reminder_rules.user_id
  RuleScope,    \* RuleScope[r]: reminder_rules.event_id, or Global
  MinuteRules,  \* rules with offset_minutes; the others have offset_days
  RuleOffset,   \* RuleOffset[r]: offset_days, 0 for a minute rule
  RuleAt,       \* RuleAt[r]: local time of day it fires at
  Timed,        \* events that have an event_time
  Tz,           \* Tz[u]: local time is UTC + Tz[u]
  NextOcc,      \* NextOcc[dt][day]: core.NextOccurrence
  StartDates,   \* values the dates of an event may start with
  StartOff,     \* rules that are disabled at the start
  Kinds,        \* kinds of handler updates the instance includes
  DayLen, Grace, Upcoming, LastDay, Horizon, MaxFaults, MaxEdits,
  None, Global

Days == 0 .. LastDay
Keys == Events \X Rules \X Days

UpdateKinds == {"mute", "date", "field", "trash", "rule", "user", "admin", "wipe"}

(***************************************************************************)
(* Timezone arithmetic of TickReminders: todayLocal and fireUTC.           *)
(***************************************************************************)
LocalDay(u, t) == (t + Tz[u]) \div DayLen
UtcDay(t) == t \div DayLen

FireUTC(k) ==
  (k[3] - RuleOffset[k[2]]) * DayLen + RuleAt[k[2]] - Tz[Owner[k[1]]]

ASSUME CalendarAssumption ==
  /\ LastDay \in Nat /\ DayLen \in Nat \ {0} /\ Horizon \in Nat
  /\ Tz \in [Users -> Int]
  /\ \A u \in Users : \A t \in 0 .. Horizon : LocalDay(u, t) \in Days
  /\ NextOcc \in [Dates -> [Days -> Days]]
  /\ \A dt \in Dates : \A d \in Days : NextOcc[dt][d] >= d

ASSUME EngineAssumption ==
  /\ Owner \in [Events -> Users]
  /\ Rules \subseteq Nat
  /\ RuleUser \in [Rules -> Users]
  /\ RuleScope \in [Rules -> Events \cup {Global}]
  /\ \A r \in Rules :
       RuleScope[r] \in Events => Owner[RuleScope[r]] = RuleUser[r]
  /\ MinuteRules \subseteq Rules /\ Timed \subseteq Events
  /\ RuleOffset \in [Rules -> Nat] /\ RuleAt \in [Rules -> Int]
  /\ StartDates \subseteq [Tracks -> Dates \cup {None}]
  /\ StartOff \subseteq Rules
  /\ Kinds \subseteq UpdateKinds
  /\ Grace \in Nat /\ Upcoming \in Nat
  /\ MaxFaults \in Nat /\ MaxEdits \in Nat
  /\ None \notin Dates \cup Days \cup Users \cup Keys
  /\ Global \notin Events

\* quiet holds names of three tables, and a time of day is less than a day.
ASSUME NamesAssumption ==
  /\ Users \cap Events = {} /\ Users \cap Rules = {} /\ Events \cap Rules = {}
  /\ \A r \in Rules : RuleAt[r] < DayLen

VARIABLES
  now,        \* wall clock, UTC
  usr,        \* users: present, notifications_enabled, the two blocked flags
  place,      \* events: "live", "trash" (deleted_at set) or "gone"
  ev,         \* events: the columns EventRepo.Update writes
  rule,       \* reminder_rules: "on", "off" or "gone"
  log,        \* notifications_log: key -> status and scheduled_at
  delivered,  \* history: messages Telegram accepted, per key
  lost,       \* history: how many of them left no trace in the row, per key
  quiet,      \* history: users, events and rules out of service since the
              \*   current tick began
  tickPc, tickNow, rec, evOk, userq, who, snap, ruleSnap, todo, seen, rows,
  sends, cur, attempt, mark, stage,       \* TickReminders' local variables
  jobUsers, jobRows,                      \* RecomputeOccurrences'
  inflight,                               \* handlers between read and write
  edits, faults                           \* bounds

dataVars == <<usr, place, ev, rule>>
scanVars == <<userq, who, snap, ruleSnap, todo, seen, rows, sends>>
sendVars == <<cur, attempt, mark, stage>>
tickVars == <<tickPc, tickNow, rec, evOk, scanVars, sendVars>>
jobVars  == <<jobUsers, jobRows>>
histVars == <<delivered, lost>>
vars == <<now, dataVars, log, histVars, quiet, tickVars, jobVars, inflight,
          edits, faults>>

-----------------------------------------------------------------------------
\* Types

Statuses == {"pending", "sent", "failed", "skipped"}
LogRow   == [status : Statuses, sched : Int]
UserRow  == [here : BOOLEAN, notif : BOOLEAN, blocked : BOOLEAN, botBlocked : BOOLEAN]
EventRow == [active : BOOLEAN,
             date   : [Tracks -> Dates \cup {None}],
             occ    : [Tracks -> Days \cup {None}]]
Task     == [key : Keys, track : Tracks]
Prepared == [ev : Events, row : EventRow, kind : {"mute", "date", "field"}]

PcValues == {"idle", "recover", "recUser", "recRule", "rules", "scan", "send",
             "sending", "block", "mark"}

IsRowMap(f) == /\ DOMAIN f \subseteq Events
               /\ \A e \in DOMAIN f : f[e] \in EventRow

DataTypeOK ==
  /\ now \in 0 .. Horizon
  /\ usr \in [Users -> UserRow]
  /\ place \in [Events -> {"live", "trash", "gone"}]
  /\ ev \in [Events -> EventRow]
  /\ rule \in [Rules -> {"on", "off", "gone"}]

LogTypeOK ==
  /\ DOMAIN log \subseteq Keys
  /\ \A k \in DOMAIN log : log[k] \in LogRow
  /\ delivered \in [Keys -> Nat] /\ lost \in [Keys -> Nat]

TickTypeOK ==
  /\ tickPc \in PcValues /\ tickNow \in 0 .. Horizon
  /\ rec \subseteq [key : Keys, sched : Int]
  /\ evOk \in BOOLEAN
  /\ userq \subseteq Users /\ who \in Users \cup {None}
  /\ tickPc = "rules" => who \in Users
  /\ IsRowMap(snap) /\ IsRowMap(rows)
  /\ ruleSnap \subseteq Rules
  /\ todo \subseteq Task
  /\ seen \subseteq (Events \X Tracks \X Int)
  /\ sends \subseteq Keys
  /\ cur \in Keys \cup {None} /\ attempt \in 0 .. 2
  /\ mark \in Statuses /\ stage \in {"recover", "scan", "send"}

JobTypeOK ==
  /\ jobUsers \subseteq Users /\ IsRowMap(jobRows)
  /\ inflight \subseteq Prepared
  /\ edits \in 0 .. MaxEdits /\ faults \in 0 .. MaxFaults

\* Every variable has its type: the columns of the four tables, the locals of
\* the jobs, and the history.
TypeOK == /\ DataTypeOK /\ LogTypeOK /\ TickTypeOK /\ JobTypeOK
          /\ quiet \subseteq (Users \cup Events \cup Rules)

-----------------------------------------------------------------------------
\* Queries and pure helpers

UserOK(u)  == usr[u].here /\ usr[u].notif /\ ~usr[u].blocked /\ ~usr[u].botBlocked
EventOK(e) == place[e] = "live" /\ ev[e].active
RuleOK(r)  == rule[r] = "on"

OutOfService ==
  {u \in Users : ~UserOK(u)} \cup {e \in Events : ~EventOK(e)}
                             \cup {r \in Rules : ~RuleOK(r)}

InWindow(e) ==
  \E t \in Tracks :
    /\ ev[e].occ[t] # None
    /\ ev[e].occ[t] >= UtcDay(tickNow) - 2
    /\ ev[e].occ[t] <= UtcDay(tickNow) + Upcoming + 2

\* The event-specific rules, and the global ones whose offset none overrides.
Applicable(e, rs) ==
  LET specific == {r \in rs : RuleScope[r] = e}
      days     == specific \ MinuteRules
      globals  == {g \in rs : /\ RuleScope[g] = Global
                              /\ g \notin MinuteRules =>
                                   \A s \in days : RuleOffset[s] # RuleOffset[g]}
  IN  {r \in specific \cup globals : r \in MinuteRules => e \in Timed}

\* One task for each (event, track, rule) whose fire time is not after nowUTC.  Every
\* rule has one: the handlers store only times that parse.
DueTasks(evs, rs, t) ==
  {task \in {[key |-> <<e, r, evs[e].occ[tr]>>, track |-> tr] :
               e \in DOMAIN evs, r \in rs, tr \in Tracks} :
     /\ task.key[3] # None
     /\ task.key[2] \in Applicable(task.key[1], rs)
     /\ FireUTC(task.key) <= t}

\* The loop over a track's rules takes the event-specific ones first, each
\* group in the order of its ids.
Before(a, b) ==
  /\ a.key[1] = b.key[1] /\ a.track = b.track
  /\ \/ RuleScope[a.key[2]] # Global /\ RuleScope[b.key[2]] = Global
     \/ /\ (RuleScope[a.key[2]] = Global) = (RuleScope[b.key[2]] = Global)
        /\ a.key[2] < b.key[2]

Recur(dt, today) == IF dt = None THEN None ELSE NextOcc[dt][today]

\* The tick moves only an occurrence that is missing or before today.
Advanced(row, today) ==
  [row EXCEPT !.occ = [t \in Tracks |->
     IF row.date[t] # None /\ (row.occ[t] = None \/ row.occ[t] < today)
     THEN Recur(row.date[t], today) ELSE row.occ[t]]]

\* recomputeOccurrence and RecomputeOccurrences recompute every track.
Recomputed(row, today) ==
  [row EXCEPT !.occ = [t \in Tracks |-> Recur(row.date[t], today)]]

Without(f, x) == [y \in DOMAIN f \ {x} |-> f[y]]

\* EventRepo.Update: every mutable column, whatever the row holds by now.
UpdateEvent(e, row) ==
  ev' = IF place[e] = "gone" THEN ev ELSE [ev EXCEPT ![e] = row]

Fault == faults < MaxFaults /\ faults' = faults + 1
Edit(kind) == kind \in Kinds /\ edits < MaxEdits /\ edits' = edits + 1

-----------------------------------------------------------------------------
\* The tick: TickReminders

Init ==
  /\ now = 0
  /\ usr = [u \in Users |-> [here |-> TRUE, notif |-> TRUE,
                             blocked |-> FALSE, botBlocked |-> FALSE]]
  /\ place = [e \in Events |-> "live"]
  /\ \E start \in [Events -> StartDates] :
       ev = [e \in Events |->
               [active |-> TRUE, date |-> start[e],
                occ |-> [t \in Tracks |-> Recur(start[e][t], LocalDay(Owner[e], 0))]]]
  /\ rule = [r \in Rules |-> IF r \in StartOff THEN "off" ELSE "on"]
  /\ log = [k \in {} |-> None]
  /\ delivered = [k \in Keys |-> 0] /\ lost = [k \in Keys |-> 0]
  /\ quiet = {}
  /\ tickPc = "idle" /\ tickNow = 0 /\ rec = {} /\ evOk = FALSE
  /\ userq = {} /\ who = None /\ snap = [e \in {} |-> None] /\ ruleSnap = {}
  /\ todo = {} /\ seen = {} /\ rows = [e \in {} |-> None] /\ sends = {}
  /\ cur = None /\ attempt = 0 /\ mark = "pending" /\ stage = "recover"
  /\ jobUsers = {} /\ jobRows = [e \in {} |-> None]
  /\ inflight = {}
  /\ edits = 0 /\ faults = 0

\* The tick returns, or dies: its local variables are gone.
TickGone ==
  /\ tickPc' = "idle" /\ tickNow' = 0 /\ rec' = {} /\ evOk' = FALSE
  /\ userq' = {} /\ who' = None /\ snap' = [e \in {} |-> None] /\ ruleSnap' = {}
  /\ todo' = {} /\ seen' = {} /\ rows' = [e \in {} |-> None] /\ sends' = {}
  /\ cur' = None /\ attempt' = 0 /\ mark' = "pending" /\ stage' = "recover"

\* The outcome m of the key k is about to be written; the loop next is resumed
\* after it.
ToMark(k, m, next) == cur' = k /\ mark' = m /\ stage' = next /\ tickPc' = "mark"

\* Mutant: the status is not asked for.
AnyBefore(t) ==
  {[key |-> k, sched |-> log[k].sched] : k \in {x \in DOMAIN log : log[x].sched <= t}}

\* Mutant: rows beyond the grace period are never fetched.
FreshBefore(t) ==
  {[key |-> k, sched |-> log[k].sched] :
     k \in {x \in DOMAIN log : /\ log[x].status = "pending"
                               /\ log[x].sched <= t /\ t - log[x].sched <= Grace}}

\* GetPendingLogsBefore.
PendingBefore(t) ==
  {[key |-> k, sched |-> log[k].sched] :
     k \in {x \in DOMAIN log : log[x].status = "pending" /\ log[x].sched <= t}}

\* nowUTC is read once; the pending rows are fetched, or the query fails, which
\* is only logged.
TickStart ==
  /\ tickPc = "idle"
  /\ tickPc' = "recover" /\ tickNow' = now
  /\ \/ rec' = PendingBefore(now) /\ UNCHANGED faults
     \/ Fault /\ rec' = {}
  /\ UNCHANGED <<now, dataVars, log, histVars, evOk, scanVars, sendVars, jobVars,
                 inflight, edits>>

\* RecoverPending reads a row's event, then looks at the row's age; an error of
\* the query counts as a missing event.
RecoverEvent(p) ==
  /\ tickPc = "recover" /\ p \in rec
  /\ rec' = rec \ {p}
  /\ IF tickNow - p.sched > Grace
     THEN ToMark(p.key, "skipped", "recover") /\ UNCHANGED <<evOk, faults>>
     ELSE /\ \/ evOk' = EventOK(p.key[1]) /\ UNCHANGED faults
             \/ evOk' = FALSE /\ Fault
          /\ tickPc' = "recUser" /\ cur' = p.key
          /\ UNCHANGED <<mark, stage>>
  /\ UNCHANGED <<now, dataVars, log, histVars, tickNow, scanVars, attempt, jobVars,
                 inflight, edits>>

\* ... then its user; an error of that query counts as an unknown user.
RecoverUser ==
  /\ tickPc = "recUser"
  /\ \/ /\ UserOK(Owner[cur[1]]) /\ evOk
        /\ tickPc' = "recRule"
        /\ UNCHANGED <<cur, mark, stage, faults>>
     \/ /\ ~(UserOK(Owner[cur[1]]) /\ evOk)
        /\ ToMark(cur, "skipped", "recover")
        /\ UNCHANGED faults
     \/ Fault /\ ToMark(cur, "skipped", "recover")
  /\ evOk' = FALSE
  /\ UNCHANGED <<now, dataVars, log, histVars, tickNow, rec, scanVars, attempt,
                 jobVars, inflight, edits>>

\* Mutant: the rule is not looked at.
RecoverAnyRule ==
  /\ tickPc = "recRule"
  /\ tickPc' = "sending" /\ stage' = "recover" /\ attempt' = 0
  /\ UNCHANGED <<now, dataVars, log, histVars, tickNow, rec, evOk, cur, mark, scanVars,
                 jobVars, inflight, edits, faults>>

\* ... then its rule, NULL once deleted; an error counts as a missing rule.
RecoverRule ==
  /\ tickPc = "recRule"
  /\ \/ /\ RuleOK(cur[2])
        /\ tickPc' = "sending" /\ stage' = "recover" /\ attempt' = 0
        /\ UNCHANGED <<cur, mark, faults>>
     \/ ~RuleOK(cur[2]) /\ ToMark(cur, "skipped", "recover") /\ UNCHANGED <<attempt, faults>>
     \/ Fault /\ ToMark(cur, "skipped", "recover") /\ UNCHANGED attempt
  /\ UNCHANGED <<now, dataVars, log, histVars, tickNow, rec, evOk, scanVars, jobVars,
                 inflight, edits>>

\* ListActiveUsersWithEvents, once the recovery list is done.
TickUsers ==
  /\ tickPc = "recover" /\ rec = {}
  /\ userq' = {u \in Users : /\ UserOK(u)
                             /\ \E e \in Events : Owner[e] = u /\ EventOK(e) /\ InWindow(e)}
  /\ tickPc' = "scan"
  /\ UNCHANGED <<now, dataVars, log, histVars, tickNow, rec, evOk, who, snap, ruleSnap,
                 todo, seen, rows, sends, sendVars, jobVars, inflight, edits, faults>>

ScanDone == tickPc = "scan" /\ todo = {} /\ DOMAIN rows = {}

\* GetActiveEventsForUser for the next user.
TickEvents(u) ==
  /\ ScanDone /\ u \in userq
  /\ userq' = userq \ {u} /\ who' = u
  /\ snap' = [e \in {x \in Events : Owner[x] = u /\ EventOK(x) /\ InWindow(x)} |-> ev[e]]
  /\ seen' = {} /\ ruleSnap' = {}
  /\ tickPc' = "rules"
  /\ UNCHANGED <<now, dataVars, log, histVars, tickNow, rec, evOk, todo, rows, sends,
                 sendVars, jobVars, inflight, edits, faults>>

\* GetRulesForUser: the snapshot is complete, so what is due and which rows
\* have an occurrence to advance is settled.
TickRules ==
  /\ tickPc = "rules"
  /\ ruleSnap' = {r \in Rules : RuleUser[r] = who /\ RuleOK(r)}
  /\ todo' = DueTasks(snap, ruleSnap', tickNow)
  /\ LET moved(e) == Advanced(snap[e], LocalDay(who, tickNow))
     IN  rows' = [e \in {x \in DOMAIN snap : moved(x) # snap[x]} |-> moved(e)]
  /\ tickPc' = "scan"
  /\ UNCHANGED <<now, dataVars, log, histVars, tickNow, rec, evOk, userq, who, snap,
                 seen, sends, sendVars, jobVars, inflight, edits, faults>>

Insert(k) ==
  log' = [x \in DOMAIN log \cup {k} |->
            IF x = k THEN [status |-> "pending", sched |-> FireUTC(k)] ELSE log[x]]

\* The rows a new log row refers to still exist; otherwise the insert fails.
Referenced(k) == usr[Owner[k[1]]].here /\ place[k[1]] # "gone" /\ rule[k[2]] # "gone"

TakeTask(task) ==
  /\ tickPc = "scan" /\ task \in todo
  /\ \A other \in todo : ~Before(other, task)
  /\ todo' = todo \ {task}
  /\ UNCHANGED <<now, dataVars, histVars, tickNow, rec, evOk, userq, who, snap, ruleSnap,
                 rows, attempt, jobVars, inflight, edits, faults>>

\* Mutants: a grace period off by one, and minutes told apart by their rule.
TooLate(k) == tickNow - FireUTC(k) > Grace + 1
MinuteOfRule(task) == <<task.key[1], task.track, task.key[2], FireUTC(task.key)>>

Late(k)   == tickNow - FireUTC(k) > Grace
Minute(task) == <<task.key[1], task.track, FireUTC(task.key)>>

\* Mutant: the row that was there already is marked skipped.
QueueLateAgain(task) ==
  /\ TakeTask(task) /\ Late(task.key) /\ Referenced(task.key)
  /\ IF task.key \in DOMAIN log THEN UNCHANGED log ELSE Insert(task.key)
  /\ ToMark(task.key, "skipped", "scan")
  /\ UNCHANGED <<seen, sends>>

\* Beyond the grace period: a row is inserted and then marked skipped.
QueueLate(task) ==
  /\ TakeTask(task) /\ Late(task.key) /\ Referenced(task.key)
  /\ IF task.key \in DOMAIN log
     THEN UNCHANGED <<log, cur, mark, stage, tickPc>>
     ELSE Insert(task.key) /\ ToMark(task.key, "skipped", "scan")
  /\ UNCHANGED <<seen, sends>>

\* Another rule of this track already fired at this minute of this scan.
QueueSameMinute(task) ==
  /\ TakeTask(task) /\ ~Late(task.key) /\ Minute(task) \in seen
  /\ UNCHANGED <<log, seen, sends, cur, mark, stage, tickPc>>

\* Mutant: no UNIQUE constraint, the row is replaced.
QueueReplace(task) ==
  /\ TakeTask(task) /\ ~Late(task.key) /\ Minute(task) \notin seen
  /\ Referenced(task.key)
  /\ seen' = seen \cup {Minute(task)}
  /\ Insert(task.key) /\ sends' = sends \cup {task.key}
  /\ UNCHANGED <<cur, mark, stage, tickPc>>

\* CreatePending: a new row and a queued send, or the UNIQUE conflict.
QueueSend(task) ==
  /\ TakeTask(task) /\ ~Late(task.key) /\ Minute(task) \notin seen
  /\ Referenced(task.key)
  /\ seen' = seen \cup {Minute(task)}
  /\ IF task.key \in DOMAIN log
     THEN UNCHANGED <<log, sends>>
     ELSE Insert(task.key) /\ sends' = sends \cup {task.key}
  /\ UNCHANGED <<cur, mark, stage, tickPc>>

\* A row it refers to was deleted meanwhile: the foreign key makes the insert
\* fail and the whole tick returns, for every user; queued sends are dropped.
QueueGone(task) ==
  /\ tickPc = "scan" /\ task \in todo
  /\ \A other \in todo : ~Before(other, task)
  /\ Late(task.key) \/ Minute(task) \notin seen
  /\ ~Referenced(task.key)
  /\ TickGone
  /\ UNCHANGED <<now, dataVars, log, histVars, jobVars, inflight, edits, faults>>

\* Mutant: the advance does not wait for the scan's inserts.
AdvanceEarly(e) ==
  /\ tickPc = "scan" /\ e \in DOMAIN rows
  /\ UpdateEvent(e, rows[e])
  /\ rows' = Without(rows, e)
  /\ UNCHANGED <<now, usr, place, rule, log, histVars, tickPc, tickNow, rec, evOk, userq,
                 who, snap, ruleSnap, todo, seen, sends, sendVars, jobVars, inflight,
                 edits, faults>>

\* The advance writes back the whole row as it was read, with new occurrences.
TickAdvance(e) ==
  /\ tickPc = "scan" /\ todo = {} /\ e \in DOMAIN rows
  /\ UpdateEvent(e, rows[e])
  /\ rows' = Without(rows, e)
  /\ UNCHANGED <<now, usr, place, rule, log, histVars, tickPc, tickNow, rec, evOk, userq,
                 who, snap, ruleSnap, todo, seen, sends, sendVars, jobVars, inflight,
                 edits, faults>>

\* A query or an update of the scan returns an error.
TickError ==
  /\ \/ tickPc = "recover" /\ rec = {}
     \/ tickPc \in {"rules", "scan"}
  /\ Fault /\ TickGone
  /\ UNCHANGED <<now, dataVars, log, histVars, jobVars, inflight, edits>>

\* After the last user, the queued tasks are sent one by one ...
SendNext(k) ==
  /\ tickPc = "send" \/ (ScanDone /\ userq = {})
  /\ k \in sends
  /\ sends' = sends \ {k}
  /\ cur' = k /\ attempt' = 0 /\ stage' = "send" /\ tickPc' = "sending"
  /\ userq' = {} /\ who' = None /\ snap' = [e \in {} |-> None] /\ ruleSnap' = {}
  /\ seen' = {}
  /\ UNCHANGED <<now, dataVars, log, histVars, tickNow, rec, evOk, todo, rows, mark,
                 jobVars, inflight, edits, faults>>

\* ... and the tick ends.
TickEnd ==
  /\ tickPc = "send" \/ (ScanDone /\ userq = {})
  /\ sends = {}
  /\ TickGone
  /\ UNCHANGED <<now, dataVars, log, histVars, jobVars, inflight, edits, faults>>

-----------------------------------------------------------------------------
\* SendReminder

sendFrame == <<now, place, ev, rule, tickNow, rec, evOk, scanVars, jobVars, inflight, edits>>

Deliver(k, n) == delivered' = [delivered EXCEPT ![k] = @ + n]

SendOk ==
  /\ tickPc = "sending"
  /\ Deliver(cur, 1) /\ ToMark(cur, "sent", stage)
  /\ UNCHANGED <<sendFrame, usr, log, lost, attempt, faults>>

\* Mutants: one attempt too many, and attempts without end.
FloodTooLong ==
  /\ tickPc = "sending"
  /\ IF attempt <= 2
     THEN attempt' = attempt + 1 /\ UNCHANGED <<cur, mark, stage, tickPc>>
     ELSE ToMark(cur, "failed", stage) /\ UNCHANGED attempt
  /\ UNCHANGED <<sendFrame, usr, log, histVars, faults>>

FloodForever ==
  /\ tickPc = "sending"
  /\ attempt' = 1 - attempt
  /\ UNCHANGED <<cur, mark, stage, tickPc, sendFrame, usr, log, histVars, faults>>

\* 429: sleep and try again, three attempts in all.
SendFlood ==
  /\ tickPc = "sending"
  /\ IF attempt < 2
     THEN attempt' = attempt + 1 /\ UNCHANGED <<cur, mark, stage, tickPc>>
     ELSE ToMark(cur, "failed", stage) /\ UNCHANGED attempt
  /\ UNCHANGED <<sendFrame, usr, log, histVars, faults>>

\* Any other error, among them a lost answer to a request Telegram accepted.
SendError ==
  /\ tickPc = "sending"
  /\ \E n \in {0, 1} : Deliver(cur, n)
  /\ ToMark(cur, "failed", stage)
  /\ UNCHANGED <<sendFrame, usr, log, lost, attempt, faults>>

\* 403: the user blocked the bot.
SendForbidden ==
  /\ tickPc = "sending"
  /\ tickPc' = "block"
  /\ UNCHANGED <<sendFrame, usr, log, histVars, cur, attempt, mark, stage, faults>>

\* SetBotBlockedByUser; its error is dropped.
SendBlock ==
  /\ tickPc = "block"
  /\ LET u == Owner[cur[1]]
     IN  \/ /\ usr' = IF usr[u].here THEN [usr EXCEPT ![u].botBlocked = TRUE] ELSE usr
            /\ UNCHANGED faults
         \/ Fault /\ UNCHANGED usr
  /\ ToMark(cur, "failed", stage)
  /\ UNCHANGED <<sendFrame, log, histVars, attempt>>

Unmarked == cur' = None /\ attempt' = 0 /\ mark' = "pending" /\ stage' = "recover" /\ tickPc' = stage

\* MarkSent, MarkFailed or MarkSkipped: an UPDATE by id, whatever the status is.
Mark ==
  /\ tickPc = "mark"
  /\ log' = IF cur \in DOMAIN log THEN [log EXCEPT ![cur].status = mark] ELSE log
  /\ Unmarked
  /\ UNCHANGED <<sendFrame, usr, histVars, faults>>

\* The update fails, and the error is dropped.
MarkLost ==
  /\ tickPc = "mark" /\ Fault
  /\ lost' = [lost EXCEPT ![cur] = delivered[cur]]
  /\ Unmarked
  /\ UNCHANGED <<sendFrame, usr, log, delivered>>

-----------------------------------------------------------------------------
\* RecomputeOccurrences

jobFrame == <<now, usr, place, rule, log, histVars, tickVars, inflight, edits>>

JobStart ==
  /\ jobUsers = {} /\ DOMAIN jobRows = {}
  /\ jobUsers' = {u \in Users : usr[u].here}
  /\ UNCHANGED <<jobFrame, ev, jobRows, faults>>

\* Mutant: only occurrences that are missing are filled in.
JobMissingOnly(u) ==
  /\ u \in jobUsers /\ DOMAIN jobRows = {}
  /\ jobUsers' = jobUsers \ {u}
  /\ LET fresh(e) == Recomputed(ev[e], LocalDay(u, now))
     IN  jobRows' = [e \in {x \in Events : /\ Owner[x] = u /\ EventOK(x)
                                           /\ \E t \in Tracks : ev[x].occ[t] = None /\ fresh(x).occ[t] # None}
                       |-> fresh(e)]
  /\ UNCHANGED <<jobFrame, ev, faults>>

\* today, ListActive, and every row that recomputes to something else.
JobEvents(u) ==
  /\ u \in jobUsers /\ DOMAIN jobRows = {}
  /\ jobUsers' = jobUsers \ {u}
  /\ LET fresh(e) == Recomputed(ev[e], LocalDay(u, now))
     IN  jobRows' = [e \in {x \in Events : Owner[x] = u /\ EventOK(x) /\ fresh(x) # ev[x]}
                       |-> fresh(e)]
  /\ UNCHANGED <<jobFrame, ev, faults>>

JobUpdate(e) ==
  /\ e \in DOMAIN jobRows
  /\ UpdateEvent(e, jobRows[e])
  /\ jobRows' = Without(jobRows, e)
  /\ UNCHANGED <<jobFrame, jobUsers, faults>>

JobError ==
  /\ jobUsers # {} \/ DOMAIN jobRows # {}
  /\ Fault
  /\ jobUsers' = {} /\ jobRows' = [e \in {} |-> None]
  /\ UNCHANGED <<jobFrame, ev>>

-----------------------------------------------------------------------------
\* Handlers of the users' updates

handFrame == <<now, log, histVars, tickVars, jobVars, faults>>

Prepare(e, row, kind) ==
  /\ place[e] = "live"
  /\ inflight' = inflight \cup {[ev |-> e, row |-> row, kind |-> kind]}
  /\ UNCHANGED <<handFrame, dataVars>>

\* ToggleMute reads the row ...
MuteRead(e) ==
  /\ Edit("mute")
  /\ Prepare(e, [ev[e] EXCEPT !.active = ~@], "mute")

\* Mutant: the occurrences are left as they were.
DateReadOnly(e) ==
  /\ Edit("date")
  /\ \E t \in Tracks, dt \in Dates : Prepare(e, [ev[e] EXCEPT !.date[t] = dt], "date")

\* ... a write of a new date reads it and recomputes the occurrences (UpdateEvent takes
\* any date; the backfill writes dates by hand, no screen of the editor does) ...
DateRead(e) ==
  /\ Edit("date")
  /\ \E t \in Tracks, dt \in Dates :
       LET edited == [ev[e] EXCEPT !.date[t] = dt]
       IN  Prepare(e, Recomputed(edited, LocalDay(Owner[e], now)), "date")

\* ... and so does an edit of any other field; UpdateEvent does not tell.
FieldRead(e) ==
  /\ Edit("field")
  /\ Prepare(e, Recomputed(ev[e], LocalDay(Owner[e], now)), "field")

\* ... and each writes the whole row back.
HandlerUpdate(p) ==
  /\ p \in inflight
  /\ inflight' = inflight \ {p}
  /\ UpdateEvent(p.ev, p.row)
  /\ UNCHANGED <<handFrame, usr, place, rule, edits>>

SoftDelete(e) ==
  /\ Edit("trash") /\ place[e] = "live"
  /\ place' = [place EXCEPT ![e] = "trash"]
  /\ UNCHANGED <<handFrame, usr, ev, rule, inflight>>

Restore(e) ==
  /\ Edit("trash") /\ place[e] = "trash"
  /\ place' = [place EXCEPT ![e] = "live"]
  /\ UNCHANGED <<handFrame, usr, ev, rule, inflight>>

ToggleRule(r) ==
  /\ Edit("rule") /\ rule[r] # "gone"
  /\ rule' = [rule EXCEPT ![r] = IF @ = "on" THEN "off" ELSE "on"]
  /\ UNCHANGED <<handFrame, usr, place, ev, inflight>>

DeleteRule(r) ==
  /\ Edit("rule") /\ rule[r] # "gone"
  /\ rule' = [rule EXCEPT ![r] = "gone"]
  /\ UNCHANGED <<handFrame, usr, place, ev, inflight>>

\* cbNotifToggle writes the negation of the value its update was handed.
SetNotifications(u) ==
  /\ Edit("user") /\ usr[u].here
  /\ \E b \in BOOLEAN : usr' = [usr EXCEPT ![u].notif = b]
  /\ UNCHANGED <<handFrame, place, ev, rule, inflight>>

SetBlocked(u) ==
  /\ Edit("admin") /\ usr[u].here
  /\ \E b \in BOOLEAN : usr' = [usr EXCEPT ![u].blocked = b]
  /\ UNCHANGED <<handFrame, place, ev, rule, inflight>>

\* WipeAccount deletes the user; the foreign keys take everything along.  Who comes back
\* starts without events, and is another user here.
WipeAccount(u) ==
  /\ Edit("wipe") /\ usr[u].here
  /\ usr' = [usr EXCEPT ![u].here = FALSE]
  /\ place' = [e \in Events |-> IF Owner[e] = u THEN "gone" ELSE place[e]]
  /\ rule' = [r \in Rules |-> IF RuleUser[r] = u THEN "gone" ELSE rule[r]]
  /\ log' = [k \in {x \in DOMAIN log : Owner[x[1]] # u} |-> log[k]]
  /\ UNCHANGED <<now, histVars, tickVars, jobVars, faults, ev, inflight>>

-----------------------------------------------------------------------------
\* The environment

\* The process dies and is restarted.  A message on its way may or may not
\* have arrived; an outcome not yet written is lost.
Crash ==
  /\ Fault
  /\ \/ /\ tickPc = "sending"
        /\ \E n \in {0, 1} : Deliver(cur, n)
        /\ lost' = [lost EXCEPT ![cur] = delivered'[cur]]
     \/ /\ tickPc = "mark"
        /\ lost' = [lost EXCEPT ![cur] = delivered[cur]] /\ UNCHANGED delivered
     \/ tickPc \notin {"sending", "mark"} /\ UNCHANGED histVars
  /\ TickGone
  /\ jobUsers' = {} /\ jobRows' = [e \in {} |-> None] /\ inflight' = {}
  /\ UNCHANGED <<now, dataVars, log, edits>>

Pass ==
  /\ now < Horizon /\ now' = now + 1
  /\ UNCHANGED <<dataVars, log, histVars, tickVars, jobVars, inflight, edits, faults>>

-----------------------------------------------------------------------------
\* The specification

Recover == \/ \E p \in rec : RecoverEvent(p)
           \/ RecoverUser \/ RecoverRule

Scan == \/ TickUsers \/ TickRules
        \/ \E u \in userq : TickEvents(u)
        \/ \E task \in todo : \/ QueueLate(task) \/ QueueSameMinute(task)
                              \/ QueueSend(task) \/ QueueGone(task)
        \/ \E e \in DOMAIN rows : TickAdvance(e)

Send == \/ \E k \in sends : SendNext(k)
        \/ SendOk \/ SendFlood \/ SendError \/ SendForbidden \/ SendBlock \/ Mark

Tick == TickStart \/ Recover \/ Scan \/ Send \/ TickEnd

Job == \/ JobStart
       \/ \E u \in jobUsers : JobEvents(u)
       \/ \E e \in DOMAIN jobRows : JobUpdate(e)

Handler == \/ \E e \in Events : MuteRead(e) \/ DateRead(e) \/ FieldRead(e)
                                \/ SoftDelete(e) \/ Restore(e)
           \/ \E p \in inflight : HandlerUpdate(p)
           \/ \E r \in Rules : ToggleRule(r) \/ DeleteRule(r)
           \/ \E u \in Users : SetNotifications(u) \/ SetBlocked(u) \/ WipeAccount(u)

Trouble == TickError \/ MarkLost \/ JobError \/ Crash

\* quiet follows every step: whatever is out of service when a tick starts and
\* has stayed so since.
WatchQuiet ==
  quiet' = IF tickPc = "idle" /\ tickPc' # "idle" THEN OutOfService'
           ELSE quiet \cap OutOfService'

TickStep == Tick /\ WatchQuiet
JobStep  == Job /\ WatchQuiet
Next == TickStep \/ JobStep \/ ((Handler \/ Trouble \/ Pass) /\ WatchQuiet)

Spec == Init /\ [][Next]_vars

\* cron starts the tick and the job again and again and their goroutines run;
\* nothing obliges users to act, faults to happen or time to pass.
FairSpec == Spec /\ WF_vars(TickStep) /\ WF_vars(JobStep)

-----------------------------------------------------------------------------
\* Safety

\* A reminder (one event, one rule, one occurrence) reaches the user at most
\* once, unless the outcome of a send never made it into notifications_log:
\* each such loss accounts for at most one more message.  This is what the
\* UNIQUE row inserted before the send and the single-threaded tick are for.
AtMostOncePerOutcome == \A k \in Keys : delivered[k] <= lost[k] + 1

\* The claim of TickReminders' step 4: the UNIQUE row prevents a double send.
\* It fails: the process can stop between the send and MarkSent, or MarkSent
\* can fail unnoticed, and RecoverPending then sends the pending row again.
NoDoubleSend == \A k \in Keys : delivered[k] <= 1

RowsStay ==
  \A k \in DOMAIN log :
    /\ k \in DOMAIN log' => log'[k].sched = log[k].sched
    /\ log[k].status # "pending" /\ k \in DOMAIN log' => log'[k] = log[k]

\* sent, failed and skipped are final: although MarkSent, MarkFailed and
\* MarkSkipped update a row whatever its status is, no interleaving of
\* recovery, scan and crashes rewrites a finished row, and no row goes back.
FinishedRowsStay == [][RowsStay]_vars

RowIsDue(k) ==
  \/ k \notin DOMAIN log /\ ~usr[Owner[k[1]]].here
  \/ /\ k \in DOMAIN log /\ log[k].status = "pending"
     /\ log[k].sched <= tickNow /\ tickNow - log[k].sched <= Grace

\* A message goes out only for a pending row that is due, and due no longer
\* ago than the grace period when the tick looked; the row can be missing only
\* because the user's account was deleted while the tick held the task.
SendsAreDueAndPending ==
  [][\A k \in Keys : delivered'[k] > delivered[k] => RowIsDue(k)]_vars

\* Turning something off works by the next tick: no message goes out about a
\* user, an event or a rule that was disabled, muted, blocked or deleted before
\* the current tick began and has stayed so, although the queue, the scan and
\* the recovery all work on rows read earlier.
QuietStaysQuiet ==
  [][\A k \in Keys : delivered'[k] > delivered[k] =>
       {Owner[k[1]], k[1], k[2]} \cap quiet = {}]_vars

\* What the scan read for k, or a rule of the same minute, has its log row.
Accounted(k) ==
  \/ k \in DOMAIN log
  \/ \E r \in Applicable(k[1], ruleSnap) :
       LET other == <<k[1], r, k[3]>>
       IN  other \in DOMAIN log /\ FireUTC(other) = FireUTC(k)

\* The tick never drops a reminder by moving on: when it writes an occurrence
\* forward, every rule it had read for the event has left a row (queued, sent or
\* skipped) for the occurrence that goes away.
NothingDroppedByAdvance ==
  [][\A e \in DOMAIN rows \cap DOMAIN snap :
       e \notin DOMAIN rows' /\ tickPc' = "scan" /\ place[e] # "gone" =>
         \A t \in Tracks : snap[e].occ[t] \notin {None, rows[e].occ[t]} =>
           \A r \in Applicable(e, ruleSnap) : Accounted(<<e, r, snap[e].occ[t]>>)]_vars

\* The occurrence of row in track t is one its date had on a day up to today.
Fits(row, t, today) ==
  \/ row.date[t] = None /\ row.occ[t] = None
  \/ /\ row.date[t] # None
     /\ \E d \in 0 .. today : row.occ[t] = NextOcc[row.date[t]][d]

\* Every writer of an event writes date and occurrence together, so whatever
\* stale row wins, the stored occurrence is one the stored date had on some day
\* up to today.
OccurrenceFitsDate ==
  \A e \in Events : \A t \in Tracks :
    place[e] # "gone" => Fits(ev[e], t, LocalDay(Owner[e], now))

\* While nobody edits rules, two rules that fire at the same minute for the same
\* occurrence give one message, across ticks, crashes and recoveries: the later
\* rule has no row of its own, so only the order of the rules protects it.
OneMessagePerMinute ==
  \A j, k \in Keys :
    delivered[j] > 0 /\ delivered[k] > 0 /\ j[1] = k[1] /\ j[3] = k[3]
      /\ FireUTC(j) = FireUTC(k) => j = k

-----------------------------------------------------------------------------
\* The inductive invariant behind the safety properties

Recovering == \/ tickPc \in {"recover", "recUser", "recRule"}
              \/ tickPc \in {"sending", "block", "mark"} /\ stage = "recover"
Scanning   == tickPc = "scan" \/ (tickPc = "mark" /\ stage = "scan")
Holding    == tickPc \in {"recUser", "recRule", "sending", "block", "mark"}

\* The row of k is unsettled, or the account is deleted and took it along.
Open(k) ==
  \/ k \in DOMAIN log /\ log[k].status = "pending"
  \/ k \notin DOMAIN log /\ ~usr[Owner[k[1]]].here

\* No message of k is unaccounted for.
Clean(k) == delivered[k] <= lost[k]

\* The row of k is due and within the grace period of this tick.
Fresh(k) == k \in DOMAIN log => log[k].sched <= tickNow /\ tickNow - log[k].sched <= Grace

PcInv ==
  /\ tickPc = "idle" => sends = {}
  /\ Recovering => sends = {}
  /\ ~Recovering => rec = {}
  /\ ~Scanning => todo = {}
  /\ Holding => cur \in Keys
  /\ tickPc \in {"sending", "block"} => stage # "scan"
  /\ tickPc = "mark" => mark # "pending"

RecInv ==
  /\ \A p \in rec : /\ Open(p.key) /\ Clean(p.key) /\ p.sched <= tickNow
                    /\ p.key \in DOMAIN log => log[p.key].sched = p.sched
                    /\ Holding => p.key # cur
  /\ \A p, q \in rec : p.key = q.key => p = q

SendsInv ==
  \A k \in sends : Open(k) /\ Clean(k) /\ Fresh(k) /\ (Holding => k # cur)

CurInv ==
  /\ Holding => Open(cur)
  /\ Holding /\ tickPc # "mark" => Clean(cur) /\ Fresh(cur)

TodoInv == \A task \in todo : FireUTC(task.key) <= tickNow

CountInv ==
  \A k \in Keys :
    /\ delivered[k] <= lost[k] + 1
    /\ \/ Clean(k)
       \/ k \in DOMAIN log /\ log[k].status # "pending"
       \/ k \notin DOMAIN log /\ ~usr[Owner[k[1]]].here
       \/ tickPc = "mark" /\ cur = k

\* What the tick holds (the rows to recover, the queued sends, the one in hand)
\* is unsettled, disjoint, and free of unaccounted messages, however long ago
\* it was read: no handler, job or crash in between settles or sends it.
HeldIsOpen == PcInv /\ RecInv /\ SendsInv /\ CurInv /\ TodoInv /\ CountInv

FitsToday(e, row) == \A t \in Tracks : Fits(row, t, LocalDay(Owner[e], now))

\* Every copy of an event's row, stored or in the hands of the tick, the job or a
\* handler, has occurrences of its own dates, so it does not matter which one is
\* written last.
CopiesFit ==
  /\ tickNow <= now
  /\ \A e \in Events : FitsToday(e, ev[e])
  /\ \A e \in DOMAIN snap : Owner[e] = who /\ FitsToday(e, snap[e])
  /\ \A e \in DOMAIN rows : FitsToday(e, rows[e])
  /\ \A e \in DOMAIN jobRows : FitsToday(e, jobRows[e])
  /\ \A p \in inflight : FitsToday(p.ev, p.row)

\* Nothing k is about has been out of service since the tick began.
Heeded(k) == Owner[k[1]] \notin quiet /\ k[1] \notin quiet /\ k[2] \notin quiet

\* What the tick has looked at and kept was in service when it looked, so none of it
\* has been out of service all along.
HeldInService ==
  /\ quiet \subseteq OutOfService
  /\ tickPc = "idle" => /\ userq = {} /\ DOMAIN snap = {} /\ ruleSnap = {}
                        /\ todo = {} /\ sends = {}
  /\ userq \cap quiet = {} /\ ruleSnap \cap quiet = {}
  /\ \A e \in DOMAIN snap : e \notin quiet /\ Owner[e] \notin quiet
  /\ \A task \in todo : Heeded(task.key)
  /\ \A k \in sends : Heeded(k)
  /\ tickPc = "recUser" /\ evOk => cur[1] \notin quiet
  /\ tickPc = "recRule" => cur[1] \notin quiet /\ Owner[cur[1]] \notin quiet
  /\ tickPc = "sending" => Heeded(cur)

\* The minute m of the scan's seen was claimed by a rule that has its row.
Claimed(m) ==
  \E r \in Applicable(m[1], ruleSnap) :
    LET k == <<m[1], r, snap[m[1]].occ[m[2]]>>
    IN  k \in DOMAIN log /\ FireUTC(k) = m[3]

\* While the scan is at a user's events, each due task is still to be looked at or
\* accounted for, unless its event is gone; and a row to advance is the row read,
\* advanced.
ScanAccounts ==
  /\ ~(Scanning \/ tickPc = "rules") => DOMAIN rows = {}
  /\ Recovering \/ tickPc \in {"idle", "rules"} => DOMAIN rows = {} /\ todo = {}
  /\ Recovering \/ tickPc = "idle" => DOMAIN snap = {} /\ seen = {}
  /\ tickPc = "rules" => seen = {}
  /\ \A e \in DOMAIN snap : Owner[e] = who
  /\ \A e \in DOMAIN rows :
       e \in DOMAIN snap /\ rows[e] = Advanced(snap[e], LocalDay(who, tickNow))
  /\ Scanning =>
       /\ todo \subseteq DueTasks(snap, ruleSnap, tickNow)
       /\ \A task \in DueTasks(snap, ruleSnap, tickNow) :
            task \in todo \/ place[task.key[1]] = "gone" \/ Accounted(task.key)
       /\ \A m \in seen : place[m[1]] = "gone" \/ Claimed(m)

\* The rules of a user nobody has edited, and the one of them that speaks at k's
\* minute: the first in the order of the scan.
RulesOf(u) == {r \in Rules \ StartOff : RuleUser[r] = u}
Precedes(r, s) ==
  \/ RuleScope[r] # Global /\ RuleScope[s] = Global
  \/ ((RuleScope[r] = Global) <=> (RuleScope[s] = Global)) /\ r < s
Speaks(k) ==
  /\ k[2] \in Applicable(k[1], RulesOf(Owner[k[1]]))
  /\ \A r \in Applicable(k[1], RulesOf(Owner[k[1]])) :
       Precedes(r, k[2]) => FireUTC(<<k[1], r, k[3]>>) # FireUTC(k)

\* While nobody edits rules, only the first rule of a minute is ever sent: any other
\* that has a row was late when the row was made, and stays so.
FirstRuleSpeaks ==
  /\ \A r \in Rules : rule[r] = IF ~usr[RuleUser[r]].here THEN "gone"
                                ELSE IF r \in StartOff THEN "off" ELSE "on"
  /\ ruleSnap = {} \/ ruleSnap = RulesOf(who)
  /\ Scanning => \A task \in DueTasks(snap, ruleSnap, tickNow) :
                   task \in todo \/ Late(task.key) \/ Minute(task) \in seen
  /\ \A k \in DOMAIN log :
       \/ Speaks(k)
       \/ /\ now - log[k].sched > Grace
          /\ tickPc # "idle" => tickNow - log[k].sched > Grace
  /\ \A p \in rec : Speaks(p.key) \/ tickNow - p.sched > Grace
  /\ \A k \in sends : Speaks(k)
  /\ tickPc \in {"recUser", "recRule", "sending"} => Speaks(cur)
  /\ \A k \in Keys : delivered[k] > 0 => Speaks(k)

-----------------------------------------------------------------------------
\* The promise the engine implements

Status(k) ==
  IF k \in DOMAIN log THEN log[k].status
  ELSE IF usr[Owner[k[1]]].here THEN "none" ELSE "gone"

Ledger == INSTANCE ReminderLedger WITH status <- [k \in Keys |-> Status(k)]

\* With all its interleavings, crashes and lost updates, the engine is a ledger
\* of reminders: every row is created once and settled once, and every message
\* belongs to an unsettled row that no earlier message is unaccounted for in.
KeepsLedger == Ledger!Spec

-----------------------------------------------------------------------------
\* Liveness

\* No row stays pending: recovery finds what a crash, an aborted tick or a lost
\* update left behind.
PendingIsResolved ==
  \A k \in Keys : (k \in DOMAIN log /\ log[k].status = "pending") ~>
                    (k \in DOMAIN log => log[k].status # "pending")

\* An event that stays in service does not stay on a past occurrence, even when
\* it has left the tick's window: the daily job is the safety net.
OccurrenceCatchesUp ==
  \A e \in Events : \A t \in Tracks :
    (EventOK(e) /\ ev[e].occ[t] # None) ~>
      (EventOK(e) => ev[e].occ[t] >= LocalDay(Owner[e], now))

\* Every tick ends, so the next one is not locked out by safe()'s flag.
TickReturns == (tickPc # "idle") ~> (tickPc = "idle")
=============================================================================
