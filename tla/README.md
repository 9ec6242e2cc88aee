# Birthly-GO: a verification development

Birthly is a Telegram bot that keeps birthdays and anniversaries, by the
Gregorian and the Hebrew calendar, and sends reminders of them. It is one Go
process over one SQLite database, with a handful of command-line tools beside
it. This directory holds TLA+ models of the parts of it where something could
go wrong that a test would hardly reach, the TLC configurations that check
them, and TLAPS proofs that what the runs show of small instances, liveness
apart, holds of all.

Paths below are relative to `src/`.

- [How to run it](#how-to-run-it)
- [The system](#the-system)
- [The modules](#the-modules)
- [The runs](#the-runs)
- [What is proved](#what-is-proved)
- [What the models say about the code](#what-the-models-say-about-the-code)
- [What is left out, and why](#what-is-left-out-and-why)
- [The plan](#the-plan)

## How to run it

    tlc -workers 2 -config engine_safety.cfg MCReminderEngine.tla
    tlapm ReminderEngineProofs.tla

and so for each `…Proofs` module; the longest, `DialoguesProofs`, takes about
five minutes. `ConversationsProofs` has to be checked before or after
`DialoguesProofs`, not by way of it: a module's proofs are those it contains.

Every `.cfg` names its module in the table of runs below. `PROJECT.json` maps
each definition of a model to the lines it models, lists the hazards, and gives
for every checked property a mutated definition that breaks it; the mutants
stand in the modules next to the definitions they replace, marked `Mutant:`.

## The system

### Execution

Three kinds of activity share the database:

- **Bot updates.** gotgbot's dispatcher runs each update in a goroutine of its
  own (`internal/bot/router/router.go`). Handlers are grouped: logging, config,
  database, FSM, user (`GetOrCreateUser`, and the end of the road for a blocked
  user), throttle, debounce, then the feature handlers and last the fallback.
- **Scheduled jobs** (`internal/scheduler/scheduler.go`): the reminder tick
  every minute, the recomputation of occurrences at 02:00 UTC, the backup at
  03:30, the trash purge at 04:00, the log cleanup on Sundays at 05:00, and a
  digest. `safe()` keeps a job from overlapping itself (compare-and-swap on a
  flag) and turns a panic into the end of that one run. Different jobs do
  overlap.
- **Tools** (`cmd/`): `backup-db`, `backfill-dual-dates`, `diag-reminders`,
  each a process of its own on the same file.

The database is opened with one connection (`internal/store/store.go`), so a
statement is atomic; but apart from `GetOrCreateUser` and the backfill's
`Apply` nothing uses a transaction. What a handler or a job has read is a
snapshot, and `EventRepo.Update` writes every mutable column of a row back.
Almost everything hard about this program follows from those two sentences.

### Inventory

| Component | State | Operations | Hard because | Correct when |
|---|---|---|---|---|
| Reminder tick (`scheduler/jobs.go`, `notify.go`) | `notifications_log` (UNIQUE event, rule, occurrence), its own locals | `TickReminders`: `RecoverPending`, scan, advance, send; `SendReminder` | no transaction; snapshots go stale; send and mark are two steps; errors are dropped; the process can stop anywhere | a reminder goes out once, in time, for things in service, and none is dropped |
| Daily job (`RecomputeOccurrences`) | `events.next_occurrence` and the secondary one | read all, rewrite what changed | full-row writes beside the tick's and the handlers' | occurrences catch up, and fit the dates |
| Event service (`services/event_service.go`, `store/repo/events.go`) | `events` | create, update, mute, soft delete, restore | read, then full-row write; recomputation | no writer separates a date from its occurrence |
| Rules (`handlers/reminders.go`, `store/repo/reminders.go`) | `reminder_rules` | create (5 global, 5 per event), toggle, delete, send time | deletion sets `rule_id` NULL in the log | toggling takes effect by the next tick |
| Gregorian recurrence (`core/dates.go`) | none | `NextOccurrence`, `resolveFeb29` | leap years, month ends, imported days | the next occurrence is the next day the event is kept on, whoever asks and when |
| Hebrew recurrence (`core/hebcal.go`, `core/dates.go`) | none | month resolution, conversion | Adar, 30th of a month of 29 days, a year that turns in autumn | same |
| Backups (`scheduler/jobs.go`, `backfill/backup.go`, `services/admin_service.go`) | a directory | `AutoBackup`, `ForceBackup`, `backfill.Backup`, prunes | four writers, two naming schemes, prune by name | a prune takes only what is old |
| Dual-date backfill (`internal/backfill`) | `events.secondary_*` | `Plan`, `Apply` | plan is applied later than it is made | applies only what it planned, over a backup |
| FSM and add flow (`bot/fsm`, `handlers/event_add.go`) | one record per user, in memory, 6 h | nine steps, side exits | concurrent updates of one user; a flow abandoned half way; restart | an event is made of one conversation's answers |
| Edit flow (`handlers/event_edit.go`, `event_card.go`) | same store | one per field | same, and the row may be gone | the right event is changed |
| Quotas (`event_service.go`, `reminders.go`, `template_service.go`) | counts in the database | count, then insert | check and act are two statements | passed by no more than the updates under way together |
| Import/export (`services/backup_service.go`) | all of a user's tables | export, add, replace | replace deletes first, row errors, duplicates inside a file | the user ends with exactly the people of the file; bad rows do not take good ones along |
| Throttle and debounce (`bot/middleware/ratelimit.go`, `router/middleware.go`) | token buckets, silenced users, last clicks | spend, silence, sweep | three locks, clocks read outside them, sweeps by other users' calls | sweeping is invisible; never more than the limit; who waits is heard |
| Retention (`PurgeSoftDeleted`, `CleanupLogs`) | trash, log | delete old rows | races a restore; log rows are what prevents a second send | only old rows go, and nothing but the user takes them back |
| Onboarding, settings (`handlers/start.go`, `settings.go`, `user_service.go`) | `users` | screens, language, timezone, times, switches, wipe | every write is of the whole row; two sets of handlers share their buttons | an update changes what it is about; a block outlasts the updates under way |
| Admin and broadcast (`handlers/admin.go`) | the admin's FSM record | block, broadcast, force backup | the text and the button that sends it are apart; sending takes minutes | what was previewed is what goes out, once |
| Greeting templates (`handlers/templates.go`, `template_service.go`) | `greeting_templates` | add, use, switch off, pick | count, then insert | the limit holds |
| Error reporter (`bot/router/errors.go`) | a map of signatures | report, sweep | the clock is read before the lock | each error is told once an hour, and is told |
| Search, statistics, lists, keyboards, i18n, formatting | none | read and render | – | – |

`PROJECT.json` has the same list with the files and the status of each, and the
hazards with their lines.

### How they interact

The tick is the centre. It reads `users`, `events` and `reminder_rules`, which
handlers, the admin and the daily job write; it writes `notifications_log`,
which nobody else writes except cascades of deletions; and it writes the event
row back to move its occurrence forward, which races every handler that does
the same. Recovery connects one tick with an earlier one, or with one of an
earlier process. The recurrence functions are called by the tick, the daily job
and the handlers, each with its own idea of today, and must agree for log rows
to be found again. Backups share only a directory with each other.

## The modules

| Module | Stands for |
|---|---|
| `ReminderLedger` | what the notification log promises, without saying how |
| `ReminderEngine` | tick, recovery, sending, daily job and the handlers that write the same rows |
| `MCReminderEngine` | small instances of it |
| `ReminderEngineProofs` | its theorems |
| `GregorianDates` | `core.NextOccurrence` for the Gregorian calendar |
| `HebrewDates` | the Hebrew calendar and `core.NextOccurrence` for it |
| `Occurrences`, `MCOccurrences` | both, followed day by day |
| `OccurrencesProofs` | theorems: the two calendars, every year |
| `FsmStore` | one user's record in the in-memory conversation store |
| `AddFlow`, `MCAddFlow`, `AddFlowProofs` | the conversation that adds an event, with overlapping updates; theorems |
| `Backups`, `MCBackups`, `BackupsProofs` | the backup directory, its four writers and its prunes; theorems |
| `Limiter` | what rate limiting promises, without any sweeping |
| `Throttle`, `MCGate`, `ThrottleProofs` | the throttle and debounce middlewares over their swept maps; theorems |
| `Accounts` | onboarding, settings, wipe and block: everyone who writes a user's row |
| `EditFlow` | the field editor's conversation |
| `EventRows`, `EventRowsProofs` | the rows of events and everyone who writes them, the trash and the dual-date backfill; theorems |
| `Imports` | the import of a backup file |
| `Broadcast` | the admin's message to everyone |
| `Templates` | personal greetings |
| `Rules` | adding, switching, timing and deleting reminder rules |
| `ErrorReporter` | what the admins hear of errors |
| `Conversations`, `MCConversations` | the last eight, one at a time, and small instances of them |
| `ConversationsProofs` | theorems about the rows, the rules, the templates and the reports |
| `DialoguesProofs` | theorems about what a conversation keeps from one update to the next |

`AddFlow`, `Accounts`, `EditFlow`, `Imports`, `Broadcast` and `Templates` are
written on `FsmStore`; each of them is one user, and the handlers of the others
appear in it as the updates that clear the record or put something else there.

### ReminderLedger

The abstract specification. A key (event, rule, occurrence day) has no row, a
pending one, a settled one (`sent`, `failed`, `skipped`), or went away with its
account. Its steps: a row is created, settled, or removed with its user;
a message is delivered for a row that is not settled, only while every earlier
message of that key is accounted for; an outcome is lost. `ReminderEngine`
implements it (`KeepsLedger`, checked and proved).

### ReminderEngine

One action per SQL statement or Telegram call, in the order of the code.

| Code | Actions |
|---|---|
| `TickReminders`, start, `GetPendingLogsBefore` | `TickStart` |
| `RecoverPending`, row by row: event, user, rule | `RecoverEvent`, `RecoverUser`, `RecoverRule` |
| user list, `GetActiveEventsForUser`, `GetRulesForUser` | `TickUsers`, `TickEvents`, `TickRules` |
| the loop over events, tracks and rules | `QueueLate`, `QueueSameMinute`, `QueueSend`, `QueueGone` |
| the advance of `next_occurrence` | `TickAdvance` |
| the send loop and the return | `SendNext`, `TickEnd`, `TickError` |
| `SendReminder` | `SendOk`, `SendFlood`, `SendError`, `SendForbidden`, `SendBlock`, `Mark`, `MarkLost` |
| `RecomputeOccurrences` | `JobStart`, `JobEvents`, `JobUpdate`, `JobError` |
| mute, date edit, any other edit: read, then write | `MuteRead`, `DateRead`, `FieldRead`, `HandlerUpdate` |
| trash, restore, rules, notification switch, block, wipe | `SoftDelete`, `Restore`, `ToggleRule`, `DeleteRule`, `SetNotifications`, `SetBlocked`, `WipeAccount` |
| process stop and restart, the clock | `Crash`, `Pass` |

State. `usr`, `place`, `ev`, `rule` and `log` are the tables, cut down to the
columns the tick looks at: an event has its `is_active` flag and, for each of
its tracks, a date (the thing `NextOccurrence` recurs on) and an occurrence.
`place` tells a live row from one with `deleted_at` and from one that is gone.
The tick's local variables are variables of the model: `rec` (rows to recover),
`userq`, `who`, `snap` and `ruleSnap` (what the scan read), `todo` (tasks of the
loop still to be visited), `seen` (the minutes a track has fired at), `rows`
(rows to be written forward), `sends` (queued sends), `cur`, `attempt`, `mark`
and `stage` (the send or update in hand). `tickPc` is its program counter. The
handlers' read-then-write pairs are in `inflight`.

`delivered`, `lost` and `quiet` are history: messages Telegram accepted,
how many of them left no trace in the row, and what was out of service when the
current tick began and has been since.

Things worth knowing when reading it:

- Time is in units, `DayLen` to a day. `LocalDay` and `FireUTC` are the code's
  timezone arithmetic with whole-unit offsets. A day-offset rule fires at
  `RuleAt` on the day `RuleOffset` before; a minute rule fires at its minute of
  the day of an event that has a time (`Timed`).
- `NextOcc` is a constant function, assumed only to answer a day that is not
  before the one asked about. `Occurrences` is where that assumption is
  examined: it is proved of every real day of both calendars, and fails for days
  an import may store that no year has (see below).
- Errors the code drops are dropped (`MarkLost`, `SendBlock`'s failing branch);
  errors it returns abort the tick for every user (`TickError`, `QueueGone`,
  the latter on a foreign key that a concurrent deletion has broken).
- A failed query in `RecoverPending` counts as "not there": the row is skipped
  for good. That is what the code does, and what the three `Fault` alternatives
  say.
- The loop visits a track's event-specific rules first, then the global ones,
  each in the order in which `GetRulesForUser` returned them. The query has no
  ORDER BY; SQLite returns rowid order here, and the model takes ids as that
  order (`Before`). `OneMessagePerMinute` depends on it.
- Inserting the pending row and reading it back are one step: the read uses the
  connection and id of the insert, and its failing is a `TickError`.
- The limiter between sends (`sendRateLimiter`) only delays.
- `SendError` covers a request Telegram accepted whose answer was lost: the
  message counts as delivered and the row as failed.

### GregorianDates, HebrewDates and Occurrences

`GregorianDates` is `nextGregorianOccurrence`, `resolveFeb29` (`Resolved`) and
`mustDate`, `HebrewDates` is `hebcal.go` and `nextHebrewOccurrence`. A date is
the number of a day, counted from January 1 of the year 1, in both. The Hebrew
calendar itself, which the code takes from the hdate library, is computed from
the mean new moon with its postponements (and marked external); what the code
makes of it (which Adar an event is kept in, a 30th in a month of 29 days, the
year to try first) is its own.

`Occurrences` holds one date of either calendar, its owner's policy for it, and
a `today` that moves day by day, so that what the program relies on over time
(agreement between callers that ask on different days) can be said as action
properties. The reference is `FallsOn`: the days an event is kept on, read off
the date of the day itself, without reference to how the code finds them.
`TypeOK` says that every day's Hebrew date leads back to the day, which the
backfill relies on when it stores a birthday as its Hebrew date.

### FsmStore and AddFlow

`FsmStore` is the store's operations on one user's record; each takes the
store's lock and is one step. A missing record reads like an empty one, so
there is no difference in the model.

`AddFlow` is `handlers/event_add.go`. `run` holds, for each of the user's
updates under way, the step it is at and what it has read; a handler first looks
at the state (`Answer`), then writes what it was given (`Store`) and moves on
(`Move`), or ends the conversation: reads the data (`Second`, `Fields`,
`Person`), counts, inserts, clears and notes the new event's id (`Count`,
`Insert`, `Refused`, `Finish`, `Note`). `From` and `To` are the table of the
conversation. `MenuAdd`, `MenuSearch` and `Cancel` do not look at the state.
`Evict` is the store's six-hour sweep, which another user's write sets off,
and `Restart` empties the store. `Insert` is the statement and the reading back of the
row: if that fails, the event is there and the conversation stays where it was.

A value is represented by the number of the conversation it was given in. That
is all the properties need, and it makes "these belong to the same person" a
comparison. `raced` remembers whether two updates overlapped since the
conversation began: what the code promises, it promises a user who sends one
thing at a time, and the properties say so. What they do not assume is that
earlier conversations were well-behaved.

Left out: the wording of answers and their validation (an answer that is
refused changes nothing), which months exist (Adar is only the extra question),
and deletions, which could only make room under the limit.

### Backups

The directory as a set of files (pool, day, moment). `AutoBackup` and the two
tools are program counters with a prune list; `ForceBackup` is one step. The
nightly prune reads the last `_` part of *every* name as a day; for the tools'
files that part is the time of day, and whether it then sorts before the cutoff
is the constant `ReadsOld`. `VACUUM INTO` is one step, and fails on a name
that exists. A removal that finds no file is ignored, as in the code; a removal
that fails on a file that exists is not modelled.

### Limiter and Throttle

`Limiter` is what a user may count on: a store of tokens per bucket that fills
steadily and forgets nothing, and a silence that only one who has emptied a
store is put under. It has no sweeping. A token is `Minute` units, of which
`Rate` flow in per unit of time; there are no fractions.

`Throttle` is the two middlewares and the classes under them. `Arrive` chooses
the bucket by the account's age and reads the clock; `Check` looks for a
silence, under the first lock; `Ask` is `TokenBucket.Allow`, under the second;
`Refuse` writes the silence, under the first again, with the clock that was
read at the start; `Tap` is `Debouncer.Allow`. Time passes between any two of
them. The code sweeps its maps every 500 calls, or when a minute or an hour has
gone since; here a sweep may come with any call, so that it meets every state.
`ImplementsLimiter` is the refinement: a missing entry is a full bucket, or no
silence, and eviction changes neither. `Minute`, `Silence`, `Idle` stand for 60
s, 30 s and an hour; the models keep only what matters of their sizes, which
`ThrottleAssumption` states: a bucket is full before it is idle, and a silence
earns a token. The latter is not a matter of course: it fails for a configured
rate of one message a minute, for which `HeardAfterSilence` would too. The
history `passed` counts, for each bucket, what it let through in the last one,
two, … up to `Minute` moments.

### EventRows

Rows as `EventRepo.Update` writes them: whole, all but `deleted_at`. A
goroutine of `Updates` is a handler (`ReadOwned`: mute and edit;
`ReadForTrash`: delete and restore), the tick or the daily job (`ReadActive`:
each moves on the tracks that need it, `Advanced`), the purge of the trash (`PurgeStart` takes the cutoff, `Purge` is the statement) or the
backfill (`Plan`, `Apply`). The columns told apart are those another writer
could separate: the calendar of the primary date, whether there is a second
date, which date each occurrence was computed from, `is_active` and
`deleted_at`. Plan and Apply are two steps of one process, with the snapshot of
`Backups` in between, and Apply writes by id, without looking again.

### Accounts

`Begin` is `userHandler`: the row is created or loaded, a blocked user goes no
further, and the handlers work on the copy. Which handler takes a request
depends on the state in the store; those of the onboarding come first, and their
buttons look like the ones of the settings. A handler that changes a setting
ends in `Update`, which is `UpdateSettings` of the copy. `ToggleBlock` is the
admin's. The settings told apart are a constant; the run takes two, a switch and
the language, so that an update about the one could undo the other.

### EditFlow

An update first looks at the state, then at the data, then at the row, then
writes, then goes back to the menu, or, if the database fails, keeps asking:
each is a step. Cards carry an event, the
editor's own buttons do not. `asked` remembers the last prompt the user saw.
Fields are told apart by what answers them: a button, a text, a photo. The
values and their validation are left out (`Owned` may refuse). `added` is the
end of the add flow, which offers the editor for the event it made.

### Imports

`handlers/backup.go` up to the button, then `DoImport`, one step per statement:
`List`, `SoftDelete`, `CollectKeys`, and a row of the file at a time
(`PassOver`, `Create`, `CreateFails`). Rows are their duplicate keys. `Refused`
are rows `dictToEvent` lets through and a CHECK of the table does not.
`OtherHandler` trashes or restores an event meanwhile. `Fail` is any other
failing statement, `Restart` the process.

### Broadcast

From the prompt (`Ask`) over the text (`Text`, `Keep`), the preview (`Preview`,
`Confirm`) and its button (`Ok`, `Edit`) to the sending (`Targets`, `Send`,
`Done`). Two previews may be on the screen at once, and a message too old to be edited
keeps its button; the text sent is the one in the store. `Leave` is every other conversation of the admin.

### Templates, Rules and ErrorReporter

`Templates`: two buttons leave an event and a tone, a text makes a template of
them; `Count` and `Insert` are two statements, and a row that cannot be read back
leaves the conversation as it was; switching off writes one column.
`Pick` is the choice of a greeting, the last one shown excluded while there is
another. `Rules`: `Count`, `Owned`, `Create` for a new rule, and read, then
write for the others; events come and go with their rules. `ErrorReporter`:
`ReadClock` and `NotifyAdmins` are apart because the code reads the clock before
it waits for the lock.

### Conversations

The last eight modules in one: `scene` is chosen at the start, the module of
that scene takes its steps, and the variables of the others stand still. Each
property is that of its module, under its own name.
The modules share no state that the properties are about; where they do
interact, through the FSM record or the rows, the module has the others' steps
in it.

## The runs

| Run | Module | What it asks | Distinct states |
|---|---|---|---|
| `engine_safety` | `MCReminderEngine` | the safety of the log, of the advance and of switching things off | 529,000 |
| `engine_dual` | `MCReminderEngine` | two tracks, two rules at one minute, a user east of Greenwich; the inductive invariant | 930,000 |
| `engine_liveness` | `MCReminderEngine` | nothing stays pending, occurrences catch up, ticks end | 59,000 |
| `dates` | `MCOccurrences` | six years of days, in both calendars | 48,000 |
| `backups` | `MCBackups` | what the prunes may take | 845,000 |
| `addflow` | `MCAddFlow` | whose data an event is saved with, and how far the limit can be passed | 2,010,000 |
| `gate` | `MCGate` | whether the swept maps are a limiter, and what passes it | 511,000 |
| `conversations` | `MCConversations` | eight modules, one at a time: who may overwrite, misplace or repeat what | 1,578,000 |
| `engine_double_send`, `backups_auto_prune`, `addflow_stale_year`, `import_bad_row` | | statements of the repository that do not hold | |

### Bounds, and why they are enough

- **engine_safety.** One event, one user, a rule of the event itself one day
  ahead and a global rule on the day; two dates, so that an edit moves the
  event; two units to a day and a grace of one, so that a row can be on time,
  late and too late; three units of time, so that the occurrence passes and is
  advanced while rows are pending. One fault (crash, failed statement, lost
  update) and one user action, each at any moment. Most hazards need one of
  each: a crash after a send and a deletion before the recovery, say. A second
  event or user adds interleavings but no shared state: keys of different
  events meet only in the user list and in the abort of a tick, which one event
  already exercises.
- **engine_dual.** Two tracks with equal or different dates, both rules global
  and at the same minute, one of them a minute rule; local days differ from UTC
  days. The actions are those that `engine_safety` leaves out, so that between
  them every action fires.
- **engine_liveness.** One rule, a day of one unit, and an event that recurs
  after four days, while time runs for three: long enough for the event to fall
  out of the tick's window of two days back, which is when only the daily job
  can move it. One fault and one user action.
- **dates.** Eighteen stored days: the ends of February, of 30- and 31-day
  months and of the year, their neighbours and one that only a careless import
  stores (Apr 31); the ends of Elul and of the short and long months of the
  Hebrew year, its first day, both Adars and a day no month has; either policy
  for those a policy is about. 2023–2028 holds leap years of either calendar
  with ordinary ones around them, and Hebrew years of four lengths. No century
  is in range, and not every length of a Hebrew year: those are the proofs'.
- **backups.** Two moments a day, one that is read as old and one that is not;
  retention of one day and of one file; three days; three snapshots by hand.

- **addflow.** Two conversations: one to leave things behind, one to find them.
  Two updates at a time, in the first conversation only (`RaceUntil`): what a
  race leaves in the store is then met by a conversation without one. A new row
  may fail to be read back in the second only (`UnreadFrom`), which keeps the
  states within reach; the theorems are for every value of that bound. A limit of
  one event, so that it is reached. The updates are interchangeable and
  declared symmetric; no liveness is checked there.
- **gate.** A unit of time is half a minute, and a silence is one. Rates of two
  and three tokens a minute are the smallest with which a bucket can be half
  empty; time runs for five units, in which the one account leaves its grace
  period, a bucket is emptied, a silence ends, an idle bucket is swept and a
  full minute passes again. Two updates at a time: a third adds another refusal
  by the same empty bucket. Users meet in the maps only by sweeping them, which
  here any call does.
- **conversations.** Two updates at a time in every scene, interchangeable.
  *account*: two settings, a switch and the language, which the onboarding asks
  for as well. *edit*: two events, a field of each kind. *rows*: two
  events, born with either calendar and with or without a second date; a
  retention of one day and three days, so that a deletion expires. *import*:
  two files, one with a person twice and a row the program refuses, one with a
  person and a row the table refuses; one person to begin with; three rows, and
  overlaps only while there is one. *broadcast*: two users, two texts.
  *templates*: two tones, a limit of one, three rows. *rules*: one event and
  the global rules, a limit of one, three ids. *errors*: two signatures, a
  window of two, six moments.

Deadlock is checked in the engine's runs, where the tick can always start or go
on, and in `addflow`. It is switched off in `dates`, `backups`, `gate` and
`conversations`, where a bound (on days, moments, rows, texts) ends the
behaviour, and for the runs that look for a single violation there.

### Properties

Safety of the engine:

- `AtMostOncePerOutcome`: a reminder is delivered at most once more than the
  outcomes that were lost for it.
- `FinishedRowsStay`: a settled row never changes, though the updates do not
  look at the status.
- `SendsAreDueAndPending`: messages go out only for pending rows that are due
  and within the grace period of this tick.
- `QuietStaysQuiet`: what was switched off before the tick began, and stayed
  so, gets no message from it, though everything works on snapshots.
- `NothingDroppedByAdvance`: when the tick moves an occurrence forward, each
  rule it had read has its row for the occurrence that goes away, or another
  rule of the same minute has.
- `OccurrenceFitsDate`: whichever stale full-row write wins, an occurrence is
  one the stored date had.
- `OneMessagePerMinute`: two rules that fire at the same minute for the same
  occurrence give one message, over ticks, crashes and recoveries.
- `KeepsLedger`: the engine implements `ReminderLedger`.
- `HeldIsOpen`: the inductive invariant (below).

Liveness: `PendingIsResolved`, `OccurrenceCatchesUp`, `TickReturns`, under
`FairSpec`: weak fairness of the tick's steps and of the daily job's. cron
starts each again and again; between its steps a job is a running goroutine,
whose Telegram retries are counted (three) and whose statements return. `safe()`
clears its flag even after a panic. Nothing else is fair: users need not act, a
fault need not happen, time need not pass. Faults are bounded by `MaxFaults`,
so a database that fails for ever is outside the claim, as it must be.

Adding events: `SavedIsOnePerson` (name, month, day and second date come from
one conversation) and `EndedSavesNothing` (of one that was cancelled, left,
forgotten, or came to the end of its saving), both for
conversations that nothing overlapped, whatever came before; and
`LimitOvershoot`, for all of them: the limit is counted before the insert, so
it can be passed, by at most the updates under way together, less one.

Dates: `TodayWhenItFalls`, `StableUntilPassed`, `OncePerYear`. Backups:
`NightlyKeptForWindow`, `NewestByHandKept`, `AppliesOverBackup`.

Rate limiting: `ImplementsLimiter`; `WindowBound`, no minute lets through more
than two buckets' worth, whatever races the silence; `HeardAfterSilence`; and
`TapsApart`, of taps that reach a handler.

The conversations and the rows they write:

- `DatesCoherent`: whichever full-row write comes last, a handler's, the tick's,
  the daily job's or the backfill's, a
  second date stands only beside a Hebrew one and each occurrence belongs to a
  date that is in the row.
- `TrashKept`: nothing but the user's own undo takes an event out of the trash,
  and the purge takes it only after the retention.
- `SettingsStick`: a setting changes only through an update about it, or one
  that overlapped another.
- `BlockHolds`: a block outlasts every update under way.
- `NoStrayOnboarding`: the onboarding's handlers, which would take the
  settings' buttons for answers, are never on for a user who is done with them.
- `AnswerLandsWhereAsked`: a text or photo goes to the event and field that
  were asked for, whatever was opened and closed in between.
- `ImportIsExact`: an import that came to the file's end leaves exactly the
  people it should, whatever earlier ones left behind.
- `AnnouncedAsPreviewed`: what is sent to everyone is the last text previewed,
  once.
- `LimitOvershoot` of templates and of rules, as for events.
- `ReportsApart`: the admins hear of an error once in its window, and of every
  error that comes outside one, though clocks reach the map out of order.

Most of these make an exception of updates that overlapped, where the code does
not keep them (see below); what they claim is that the damage ends with the
overlap, and is not inherited through the store or the rows. Their comments say
exactly what each is about.

## What is proved

Every property of the passing runs but the three of `engine_liveness` is also a
theorem: it holds for every value of the constants that meets the module's
assumptions, any number of users, events, rules, goroutines, files, days. The
exceptions to "every value" are hypotheses of single theorems, and named below.

The proofs have one shape. An invariant that is inductive is found, and checked
by TLC on a run before it is proved; there is a lemma for the initial states,
one for each action or group of actions that disturb the same parts, and a last
one that reads the property off the invariant. Where the property is about a
conversation "that nothing overlapped", the invariant has two parts: types,
which hold always, and what the store, the rows and the one goroutine at work
have to do with each other while none has overlapped.

### The engine

| Theorem | Says |
|---|---|
| `TypeCorrect` | `Spec => []TypeOK` |
| `HoldsOpen` | `Spec => []HeldIsOpen` |
| `AtMostOnce` | `Spec => []AtMostOncePerOutcome` |
| `FinishedStay` | `Spec => FinishedRowsStay` |
| `SendsAreDue` | `Spec => SendsAreDueAndPending` |
| `ImplementsLedger` | `Spec => KeepsLedger` |
| `OccurrencesFit`, from `CopiesStayFit` | `Spec => []OccurrenceFitsDate` |
| `QuietIsKept`, from `HeldStaysInService` | `Spec => QuietStaysQuiet` |
| `NothingIsDropped`, from `ScanKeepsAccount` | `Spec => NothingDroppedByAdvance` |
| `OneEachMinute` | `Spec => []OneMessagePerMinute`, if `"rule" \notin Kinds` |

The assumptions are `CalendarAssumption` (local days stay in range, `NextOcc`
never answers a past day), `EngineAssumption` (rules and events belong to users,
an event's rule belongs to the event's owner, the sentinels are different from
everything else) and `NamesAssumption` (the ids of three tables are told apart
in `quiet`; a time of day is less than a day).

`AtMostOncePerOutcome` is not inductive: it does not say why the send now in
hand is allowed. `HeldIsOpen` does. Whatever the tick holds (rows fetched by
recovery, queued sends, the key in hand) is *open*: its row is pending, or
went away with the account; is *clean*: no delivery of it is unaccounted
for; and the three are disjoint, so no key is held twice. `PcInv` ties these
sets to the program counter (while recovery runs nothing is queued, and the
other way round), `RecInv`, `SendsInv` and `CurInv` state the above for each
set, `TodoInv` keeps what a queued row needs to be due, and `CountInv` gives the
account itself: a key is clean, or settled, or gone, or its outcome is just
about to be written. A row becomes settled only by `Mark` of the key in
hand, and the key in hand is in no other set: that is the step that makes
it inductive, and the reason the tick must not overlap itself.

The others have invariants of their own, since the row in the table says
nothing of the stale copies about to be written over it:

- `CopiesFit`: *every* copy of a row (the tick's snapshot, the rows it will
  write back, the daily job's, a handler's) has occurrences its own dates had
  on some day up to today. Then it does not matter which is written last.
- `HeldInService`: what the tick has looked at and kept was in service when it
  looked, so it is not among the things that were out of service all along. It
  is needed at each place where a snapshot is used later: users, events, rules,
  tasks, sends and the three stages of recovery.
- `ScanAccounts`: every due task of the scan is still to be visited, or has its
  row, or gave up its minute to a rule that has one; and a row to be advanced is
  the row read, advanced. The loop's order matters to `Claimed`, and a cascading
  deletion in between is the exception ("gone").
- `FirstRuleSpeaks`: only the first rule of a minute is ever sent; another that
  has a row was late when the row was made, and stays so, over crashes and
  recoveries. This fails when rules are edited between ticks (the first one may
  be switched off after it has spoken), hence the hypothesis.

The refinement maps rows to statuses; each engine step is a ledger step or
leaves the statuses and counts alone.

### Dates

`OccurrencesProofs` proves for each day of the years `FirstYear` to 9999, both
calendars and every policy:

| Theorem | Says |
|---|---|
| `DaysTyped` | `Spec => []TypeOK`: every day has a Hebrew date that leads back to it |
| `TodayIsTheDay` | `Spec => []TodayWhenItFalls` |
| `NextIsNotPast` | `Spec => [](NextOccurrence(today) >= Day(today))`, which is what `ReminderEngine` assumes of `NextOcc` |
| `NextIsStable` | `Spec => StableUntilPassed` |
| `YearsHaveOne` | `Spec => OncePerYear` |

under `FourDigitYears` (`FirstYear <= LastYear`, `LastYear < 9999`; further out
the guess with which `HebrewYear` begins, 365.25 days to a year, is no longer
within two years), and all but the first under `DialogueDates`: a Gregorian date
has one of twelve months and is not past Feb 29, as `isValidDayMonth`
(`core/validators.go:60`) sees to; the 31st of a shorter month is allowed. The
days of the run meet both.

The Gregorian half is the arithmetic of leap years and of the tables of months:
months, years and numbers of days follow one another without a gap
(`NextMonth`, `YearStep`), so each year has exactly one day that keeps the event
(`KeptOnce`). The Hebrew half begins with the moon: from one year's to the next
the mean moon moves by 354 days and 9516 parts or 383 days and 23269 parts
(`MoonStep`), and whatever the postponements do to either end, the year has one
of six lengths (`YearLengths`) - which is what the tables of months presuppose,
and holds only because of the two rarer postponements. Then a table of the
months fits every year (`HasTable`), so that days and dates correspond
(`MonthsCover`, `MonthsDisjoint`), and `HebrewYear` finds the year
(`HebrewYearIs`, from `NearMoon`: 19 years have 235 moons). From there both
calendars are one argument: `Begins(y)` is the first day of a year, `Own(y)` the
day of the event in it, always within (`OwnInYear`); the next occurrence is that
of this year or of the next (`DayInYear`), and the day after does not change it
unless it was today (`DayAfter`).

### Backups

`DirectoryStaysKept` proves `DirectoryInv`, from which `BackupsTyped`,
`SnapshotIsThere` (`AppliesOverBackup`), `NightliesAreKept`
(`NightlyKeptForWindow`) and `NewestByHandAreKept` (`NewestByHandKept`) follow,
for any retention and any set of times misread as old. The properties speak of
the directory; what threatens it is a list made earlier and used late. So the
invariant is about the lists (`ListsAreJust`): what is on one was removable when
it was listed, and time and new snapshots only make it more so. `SnapshotIsNewest`
says why the backfill's own snapshot is never on its own list.

### Rate limiting

| Theorem | Says |
|---|---|
| `GateStaysAccounted` | the inductive invariant, `GateInv` |
| `WindowIsBounded` | `Spec => []WindowBound` |
| `TapsStayApart` | `Spec => []TapsApart`, if `Debounce <= Idle` |
| `SilenceEnds` | `Spec => HeardAfterSilence` |
| `SweepsAreInvisible` | `Spec => ImplementsLimiter` |

`WindowBound` needs a count for every shorter window as well (`Accounted`): what
passed in the last `w` moments and what the bucket still holds is no more than
it can hold and what has flowed in since. `SilencedForCause` says of everyone
silenced, and of every goroutine that is about to silence someone with a clock it
read earlier, that a bucket was empty then; that it has earned a token by the
end is `ThrottleAssumption`. `TapsStayApart` has a hypothesis because the
debouncer forgets taps older than `Idle`: an interval longer than an hour would
not be kept. The code's is 400 ms.

### Adding events

`AddFlowTyped`, `LimitHardlyPassed`, `SavedOfOnePerson` and `EndedStaysEnded`
prove the four properties of the run for any number of conversations and of
overlapping updates (a finite, nonempty set). The limit follows from
`InsertsCounted`: events and inserts under way together are fewer than the limit
and the updates. The other two follow from `OneAtATime`, the link between what
the store has been given in each state (`SoFar`), what the handler has read so
far (`OfThisFlow`) and the number of the conversation.

### Rows and conversations

`EventRowsProofs` proves `RowsInv`: types, `DatesCoherent` and that every row in
hand is coherent, too: the full-row write of a copy read before the backfill's
`Apply` takes the dates back to what they were, all of them together, and `Apply`,
which does not look again, writes dates and occurrences together. `TrashStays` is
the action property: a copy's `deleted_at` is not written back, and a purge's
cutoff stays a retention ago while time passes. `ConversationsProofs` carries both over to the composition
(`DatesStayCoherent`, `TrashStaysKept`) and adds

- `LimitsHardlyPassed`: `LimitOvershoot` of templates and rules, from
  `TemplatesInv` and `RulesInv`. Of a rule the count must be by its target, and
  a goroutine that holds a rule holds it with the target the table has: ids are
  not used again.
- `ReportsStayApart`: `ReportsApart`, from `ErrInv`: where a sweep has dropped
  an entry its hour was over by *some* clock that had been read, so it is over
  by now.

`DialoguesProofs` proves

| Theorem | Says | Inductive invariant |
|---|---|---|
| `ConversationsTyped` | `Spec => []TypeOK` | all of the following, `ErrBound` and `RulesScope` |
| `AnswersLand` | `Spec => []AnswerLandsWhereAsked` | `EditInv`: the prompt the user sees, the record in the store and what the handler at work has read agree (`PromptStands`, `Sees`) |
| `ImportsAreExact` | `Spec => []ImportIsExact` | `ImpInv`: at each row of the file, the table has what the mode leaves and the good rows so far (`Progress`) |
| `WhatWasShownIsSent` | `Spec => []AnnouncedAsPreviewed` | `BcInv`: the text in the store is the one shown (`Confirmable`), and a sender has read it (`OnItsWay`) |
| `OnboardingIsForNewcomers` | `Spec => []NoStrayOnboarding` | `AccInv`: the onboarding's state is in the store of newcomers only (`Welcome`, `Onboards`) |
| `BlockOutlasts`, `SettingsAreKept` | `Spec => BlockHolds`, `Spec => SettingsStick` | `AccInv`: a copy nothing overlapped is the row (`Faithful`) |

`TypeOK` of the errors' scene is more than types: it bounds what is remembered by
the number of errors, which is why it has an argument of its own (`ErrBound`).

Each module's assumptions about its constants stand in the module and are
gathered in `ConversationsAssumption`, which TLC evaluates in each run. They say
that sentinels are not values, that states have the names the code gives them,
that limits are numbers and that the updates are a finite nonempty set; and in
`Imports`, that the user does not begin with more events than the model's bound
on them.

### What is only model-checked

`PendingIsResolved`, `OccurrenceCatchesUp` and `TickReturns`: they are liveness
properties under fairness, and the provers have no rules for those. The four
violations are TLC's counterexamples and need no proof.

## What the models say about the code

Four statements of the repository that the code does not keep; each has its run.

1. **The UNIQUE row does not prevent a second send** (`engine_double_send`).
   `jobs.go:241` says "insert pending log row (UNIQUE prevents double-send),
   then send". A crash between the send and `MarkSent`, or an error of
   `MarkSent`, which is dropped, leaves the row pending, and `RecoverPending`
   sends it again. What holds is `AtMostOncePerOutcome`.
2. **The nightly prune takes fresh snapshots made by hand**
   (`backups_auto_prune`). It reads the time of day in the tools' file names as
   a date, and removes every such snapshot taken before about 20:26.
3. **The year of an abandoned conversation** (`addflow_stale_year`).
   `event_add.go:439` says the finalization reads the month, day and year
   "accumulated earlier in the flow". Neither `cbMenuAdd` nor "no year" drops
   the year of a conversation left half way, and the next event gets it. (An
   `adar_choice_shown` left behind would suppress the Adar question in the same
   way; the model asks the question, but no property is about it.)
4. **A bad row ends an import** (`import_bad_row`). `backup_service.go:383`
   says "Bad rows accumulate into result.Errors and never abort the import". A
   row `dictToEvent` accepts and a CHECK of the table does not (a year or
   gender out of range) makes `Create` fail, and `DoImport` returns: the rows
   behind it are missing, and in replace mode the old events are already in the
   trash.

Other things met while modelling, in states of the models or in the code beside
them, that no property is about:

- Editing a field that is no date can move the occurrence.
  `event_service.go:88` calls recomputing safe because it "yields the identical
  value". When today has moved past the stored occurrence and the tick has not
  advanced it yet, it does not, and reminders of that occurrence that were
  still within their grace are never queued. (`FieldRead` in the engine.)
- An import accepts Feb 30 and, for the Gregorian calendar, month 13;
  `NextOccurrence`, which promises a day on or after today, returns the zero
  time for them (`mustDate`), and the daily job never moves such an event on.
- An import does not look at the limit on events.
- Two final answers of the add flow under way together can save an event twice,
  or without a name, because the second handler reads what the first has
  cleared; a cancel that crosses an answer does the same. The properties of
  `AddFlow` exclude them by `raced`; they are visible by dropping that
  condition.
- The broadcast's state is cleared after the last send, and the debouncer holds
  for 400 ms: a second press while the first waits for Telegram sends
  everything twice (`murky` in `Broadcast`).
- "Other" on an onboarding keyboard, pressed after the store has forgotten the
  conversation, reaches `cbTzSet`, which stores the word as the timezone (2 in
  `Accounts`).
- An event or a template that is inserted but cannot be read back is reported as
  an error, and the conversation stays at its question: answering again saves it
  twice (`Insert` in `AddFlow` and `Templates`).
- A failed query in `RecoverPending` settles its row as skipped. `FinishedRowsStay`
  holds all the same, and no property tells such a skip from a due one.
- Two switches of the settings pressed together undo each other, and setting a
  rule's time undoes a toggle in between (`SetTime` in `Rules`).
- Buttons of an editor opened for one event, pressed after another was opened,
  are about the other: that is the design, and `AnswerLandsWhereAsked` is
  worded accordingly.

## What is left out, and why

- In the engine, event and rule creation (`AddFlow` and `Rules` have them),
  changes of a rule's send time and of a user's timezone or default time: it
  starts from rows that exist. A send time
  edited under a pending row would only change `FireUTC`, which a row has
  already recorded.
- A rule whose send time does not parse, which the tick passes over: the handlers
  store only times that do.
- A user who wiped the account and writes again: in the engine a new row would
  come without events; in `Throttle` it would begin a new grace period.
- `DateRead` of the engine is `UpdateEvent` in its general form. The bot has no
  screen that changes a stored date; the backfill adds one, and the model allows
  more than either does.
- `CleanupLogs`: one DELETE of log rows half a year old, and of audit rows,
  which nothing reads any more. In the engine a trashed event stays; its purge
  is in `EventRows` and `Rules`.
- The export, `SyncAdmins` at startup, and the profile columns that every
  update refreshes: writes that read nothing, or reads that write nothing.
- Which built-in greeting is shown, and the prompt for a generated one.
- The pacing of sends, in the tick and in broadcasts: it only delays.
- Concurrent reads inside one SQL statement, SQLite itself, Telegram beyond
  accept, refuse, flood, lost answer.
- Message texts, keyboards, callback encoding, translations, formatting,
  logging, statistics, search and lists: stateless rendering.
- The diagnostic tool only reads.

Wherever a component is marked "partly" in `PROJECT.json`, its note says which
part.

## The plan

Done, in order: `ReminderLedger`, `ReminderEngine` and its proofs (the reason
the program exists), `GregorianDates` (what the engine assumes about dates),
`Backups` (independent, with several processes), `FsmStore` and `AddFlow`; then
`HebrewDates` and `Occurrences`, `Throttle` over `Limiter`, `EventRows` with the
trash and the backfill, and the conversations beside `AddFlow`: `Accounts`,
`EditFlow`, `Imports`, `Broadcast`, `Templates`, `Rules`, and `ErrorReporter`.

Then the proofs: of the engine's log (`ReminderEngineProofs`, first half), and
of every other property of the passing runs that is not liveness.

What is left:

1. Events the dialogues do not make: `DialogueDates` excludes what only an
   import stores. A theorem would say what `NextOccurrence` does answer there
   (the zero time, so that the daily job never moves the event on).
2. In `Throttle`, what holds where a bucket does not earn a token during a
   silence; in the engine, what is left of `OneMessagePerMinute` when rules are
   edited.
3. The refinement of `AddFlow` and of the editor to a common specification of a
   conversation with a record: each is proved on its own now, along the same
   argument.
